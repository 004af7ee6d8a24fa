# Formal model of the DE1-SoC audio/video application

TLA+ modules, TLC runs and TLAPS proofs about the program of `src/code`: a
Xenomai (Alchemy) application for the DE1-SoC board that analyses the sound of
the codec and plays a video on the VGA output, driven by the switches and the
keys of the board. `PROJECT.json` lists components, runs, mutants, the map from
definitions to source lines, findings, hazards and theorems.

## 1. Inventory

The process has seven real-time tasks. `main` spawns five of them and joins
these; `video_task` spawns two more, which nobody joins.

| Component | Source | State | Operations |
|---|---|---|---|
| control task | `main.c:44-115`, `control.h` | `Ctl_data_t` (`running`, `audio_running`, `video_running`), event `control_event` (4 bits) | every 100 ms: read keys and switches, set 2 flags, signal/clear 4 bits, test the key |
| acquisition | `audio_setup.c:128-169` | mailbox `mailbox_treatment` and its pool | create, alloc, `read_samples`, send, delete |
| treatment | `audio_setup.c:37-126` | `x`, `size`, mailbox `mailbox_logging` | create, receive, copy, free, FFT, alloc, send, delete |
| monitoring | `audio_setup.c:19-35` | the last result | read, print |
| mailboxes | `alchemy/queue.h` (library) | pool, FIFO, handle | create, delete, alloc, send, receive, read, free |
| video playback | `video_setup.c:80-194` | file position, `img.data`, event `video_task_event` | spawn workers, read a frame, signal a worker or show the frame |
| greyscale and convolution workers | `video_setup.c:15-78` | their own image | wait for the run bit, convert, show, clear the bit |
| register access | `utils/io_utils.c`, `io_utils.h`, `common.h` | the board's registers | read/write by mapped page or `ioctl` |
| lifecycle | `main.c:117-242` | everything `main` opens, spawns, joins, frees | start-up, joins, clean-up |
| WAV utilities | `utils/audio_utils.c:46-209` | a file | parse, write, copy, append (not called) |
| scheduler | the Cobalt kernel (library), as the program uses it | one queue of ready threads per priority | spawn, block, wake, release of a period |
| FFT, image filters, volume | `utils/fft_utils.c`, `convolution.c`, `grayscale.c`, `audio_utils.c:40` | none | pure functions |
| device access | `utils/video_utils.c`, `audio_utils.c:14-38` | descriptors, mapping | open, map, close, read, write |

Interactions:

```
 board -- registers --> control task --+-- running, audio_running, video_running --> all tasks
                                       +-- control_event ------------------------> video_task
 codec --> acquisition ==mailbox_treatment==> treatment ==mailbox_logging==> monitoring --> console
 file  --> video_task --video_task_event--> greyscale / convolution worker --> screen
                     \-------------------------------------------------------> screen
                      (img.data is shared by the three without exclusion)
```

What makes this program hard to test:

* flags polled without any synchronisation by tasks that also block on mailboxes
  and events, so that a stop must travel through a chain of wake-ups;
* a pool whose buffers change hands four times per cycle, with an allocation that
  can fail and a read that can fail, come short or bring nothing;
* event bits that are levels and not messages: a request raised during a pass is
  absorbed by the end of the pass;
* one screen and one frame buffer written by three tasks;
* undefined behaviour at start-up and at shutdown (handles used before they are
  created and after they are deleted, pointers never set);
* counts of bytes used as counts of samples;
* start-up, clean-up and fairness that rest on priorities and on the order of the
  spawns alone: no task waits for another to be ready or to be gone;
* files written in several system calls, any of which may be the last.

What makes each component correct:

| Component | Correctness properties |
|---|---|
| control task | after a pass the flags and bits come from one reading; nothing changes after the stop; what the board shows is reflected |
| acquisition, treatment | no buffer is lost or handed out twice; chunks are copied in order, once, into the window; a chunk sent is consumed |
| monitoring | results are read in order and once, and each is printed before the next is read; one is printed again only when the mailbox is not there |
| audio as a whole | a stop ends the three tasks without undefined behaviour |
| video, workers | no pass without a request; requests answered; one writer once the mode has settled; playback independent of the workers; a stop ends `video_task` |
| register access | both paths name the same register; a write reaches its register and no other |
| lifecycle | flags and mailboxes are set up before they are used; nothing is used after `main` has freed it |
| scheduling | no periodic task is starved while treatment works; what the busy wait of treatment does to the others |
| WAV | the header describes a log of whole chunks, whatever fails and wherever the process dies; a copy returns what was described |
| FFT, filters | the transform, its peak, the grey and the edges are what they are meant to be, at the borders too |

The hazards, each at its line, are in `PROJECT.json`.

## 2. Modules

| Module | What it is | Models |
|---|---|---|
| `AlchemyQueue` | operators on one message queue (external library) | `rt_queue_*` as used by `audio_setup.c` |
| `AudioPipeline` | the three audio tasks and both mailboxes | `audio_setup.c` |
| `MCAudioPipeline` | its instances | |
| `SampleStream` | abstract specification: a lossy, ordered, bounded stream | what acquisition, the mailbox and treatment promise together about chunks, and treatment, its mailbox and monitoring about results |
| `ControlTask` | the control task, one step per store or kernel call, and the user | `main.c:35-115` |
| `ControlFlags` | abstract specification: what the other tasks may assume of the flags and bits | the environment actions of `AudioPipeline` and `VideoPipeline` |
| `VideoPipeline` | `video_task`, two workers, the event between them | `video_setup.c` |
| `IoRegisters` | the registers and the two access paths | `io_utils.c`, `io_utils.h`, `common.h` |
| `Program` | `main` and all tasks on one CPU under the scheduler | `main.c:117-242`, the control skeleton of every task, `io_utils.c:34-56`, `video_utils.c:17-55` |
| `WavFile` | a `.wav` file and the functions on it, call by call, with crashes | `audio_utils.c:46-209` |
| `ChunkLog` | abstract specification: a log of whole chunks | what those functions promise together |
| `Spectrum` | the search for the strongest frequency, with what it is meant to find | `audio_setup.c:88-102` |
| `Fft` | the transform over any commutative ring, with its definition | `fft_utils.c` |
| `Filters` | the two conversions to grey, their inverse, the convolution | `grayscale.c`, `convolution.c` |
| `Kernels` | every input of `Spectrum`, `Filters` and `Fft` as an initial state; ring, sizes and values are parameters | the calls of `audio_setup.c`, `video_setup.c` |
| `MCKernels` | its instance, over the integers modulo 17 | |
| `AudioPipelineProofs`, `ControlTaskProofs`, `VideoPipelineProofs`, `IoRegistersProofs`, `WavFileProofs`, `FftProofs`, `KernelsProofs`, `ProgramProofs` | theorems about the module each is named for | |

Composition is by assume/guarantee: `AudioPipeline` and `VideoPipeline` have the
control task as an environment that may take any step of `ControlFlags`; run
`control` shows that `ControlTask` takes no other (`FlagsSpec`), so that what
holds of the pipelines holds beside the real control task; that step is proved for
every set of keys (section 5). Audio and video share nothing else but the CPU.
`Program` composes all tasks the other way: it has every thread of the process, at
the detail at which they compete for the CPU and start and stop one another, and
leaves what they compute to the component modules. The two views meet in the places
of the program counters: what is excluded in `Program` by priorities (a receive
before the mailbox exists, say) is still possible in the component modules, whose
results therefore do not depend on scheduling.

### AudioPipeline

Each task has a program counter (`acq`, `treat`, `mon`); an action is one call
into the kernel with the local computation around it, so that the tasks
interleave where the kernel may switch.

* `mailbox_treatment`, `mailbox_logging` — records with the state of the handle
  (`none`, `open`, `deleted`), the FIFO and the number of free buffers.
* a message is `[id, len]`: the number of the codec read it came with and the
  byte count; `id` stands for the samples. Failed receives give a negative `len`
  as the library does: `-EINVAL` on a handle never created, `-EIDRM` on a deleted
  one. The two errors have different values here only to tell the two situations
  apart.
* `x` — the sample buffer per byte (`data_t x[FFT_BUFFER_SIZE]` is twice
  `FFT_BUFFER_SIZE` bytes), each byte holding the number of the chunk it was
  copied from, 0 when never written. `size` is the fill level as the code keeps
  it, in bytes, and `CopyStart` is where `x + size` really points.
* `faults`, `alive` — undefined behaviour. Where the code reaches it the step
  may kill the process (`TreatCrash`, `MonCrash`) or go unnoticed, and the fault
  is recorded. A copy of negative length can only kill.
* `message` — the local variable of monitoring: the result it read last, which a read
  that fails leaves as it was and the print that follows prints again.
* `leaked`, `window`, `consumed`, `captured`, `ffts`, `shown` — history: buffers
  dropped, chunks since the last FFT, last chunk copied, read, spectra computed,
  last result printed. `captured` is also the bound on a behaviour.
* `StepsLeft` — not state but a measure: how many steps each task can still take once
  `running` is cleared, read off its program counter. `ResultsInFlight` is the stream of
  results between treatment and monitoring, the one about to be sent included.

Left out: periods and priorities (any interleaving is allowed), the contents of
samples and spectra, processing times and printing.

### ControlTask

`Pass` is the sequence of steps of one period; `Goto` moves along it. The two
reads, each store to a flag and each `rt_event_signal`/`rt_event_clear` is a step
of its own; `switches` and `pressed` are the board, moved at any moment by the
user; `switch_value` and `keys` are the locals. `StopAsked` translates
`keys | KEY0` with `KEY0` = 0.

### VideoPipeline

`video` and `worker[w]` are the places of the tasks. Copies of whole frames are
not atomic: the task stays at `read`, `compute` or `show` while others move.
`asked` is history: has `video_task` signalled the worker since the start of the
worker's last pass? The workers' stores through pointers never set, and
everything they do with arguments on the stack of a `video_task` that has
returned, may kill the process (`WorkerCrash`). `position` is the place in the
file: at its end `read` gives 0, the position is reset and the loop is taken again
without waiting for the period. The file is assumed to hold whole frames.

### IoRegisters

A register as the callers name it (`kind`, `bank`, `sel`) is turned into an
offset of the mapped page (`Offset`) or into a request number (`ReadNumber`,
`WriteNumber`) which the driver, external, serves (`Served`): it is assumed to do
what the name of the request says and to ignore a write sent as a read. Hex
digits are 0 to 5, as `NB_HEX` says. `last` and `calls` are history.

### Program

`ready[p]` is the queue of the threads of priority p that can run. A thread runs when it
is at the head of the highest queue that is not empty (`Running`); it leaves the head
only when it blocks or returns (`WaitAt`, `Return`), and whatever makes a thread ready
puts it at the end of its queue (`Queues`). A thread is in a queue at most once: what is
ready already is not made ready again (`WakeIf`, `Return`). So tasks of one priority
take turns only by blocking, as with Cobalt's first-in first-out class without a
round-robin slice: the program asks for none. `main` is a Linux thread below all of
them. One CPU is what the assignment (`labo5.pdf`) prescribes with `taskset`.

`MainProgram` is the order of the calls of `main`; every `exit(EXIT_FAILURE)` ends the
process (`Ends`). The mappings of registers and screen may fail without `main` noticing
(`registers`, `screen`), and the first access through a failed mapping kills the
process. The flags start `"unset"`: what the stack held. `Release` is the timer of a
periodic task, and looks at nothing but whether the task waits for its period. When the
pool of `mailbox_treatment` is empty (`PoolSlots` buffers in the mailbox or in
treatment's hands) the allocation of an iteration of acquisition fails (`AcqAllocates`),
its read into NULL brings nothing, and nothing is sent. The read of a frame from the
file is done by Linux, and takes time while the other tasks run (`ReadDone`). Once
`video_task` has returned, the workers' arguments are whatever is there: each of their
tests may go either way and any access may crash.

`Halted` is a stuttering step in the three situations in which nothing can happen any
more: the process has ended, `video_task` waits for an event that nobody signals
(`video_stop`), or treatment waits for a chunk of an acquisition that could not set its
period. Any other stop of the program would be a deadlock, and TLC finds none.

Left out: `rt_task_set_periodic` of the control task is assumed to succeed (its
result is ignored, and a control task without a period would not yield); what an
interrupted copy leaves; the kernel's watchdog, which may kill a task that keeps the
CPU for seconds and is a matter of its configuration.

### WavFile

Samples are counted in blocks, each identified by the call that wrote it and its
place in that call's buffer, so that a lost, repeated or misplaced block is seen. A
header is whether its IDs are right, whether it is all there, and `data_size`. Every
`write` of a loop may write any part of what remains, or nothing, or fail; `Crash`
may come between any two. Of a file too short for a header, `read` leaves `datasize`
partly unset: any value. The error return of `read` passes the test of
`parse_wav_header` as an unsigned comparison (`ParseHeader`). `sound` is history:
whether a header was written and its 32-bit size has never overflowed since; nothing is
promised otherwise. `parsed` is history: what was described when the caller's header
was read.

### Spectrum, Fft, Filters, Kernels

`_fft` uses only addition, subtraction and multiplication by powers of a root of unity,
so `Fft` takes the ring as a parameter: any commutative ring (`RingAssumption`), any `N`
that is a power of two, and any `W` whose power `N / 2` is -1 (`RootAssumption`). The
complex numbers with exp(-2 Pi I / N) are one, in which the C code computes up to
rounding; the integers modulo 17, where 2 is a root of order 8, are another, in which
TLC can run it. `Dft` is the definition it is compared with. A call of `_fft` is a
record of the two arrays, where they begin and the step; like the source, each level
works on swapped arrays and leaves what it does not own as it was. It is written as a
recursive function on such records, which the provers can read. `Filters` is byte for
byte, and `EdgesAreSobel` states the gradient on an image with a black border, where the
code skips what is outside. `greyscale_task` and `convolution_task` end with the
`memcpy` of the worker's whole image to the screen (`video_setup.c:41` and `71`). The
conversions set three bytes of four in that image, so that the fourth bytes of the
screen become what `malloc` left there (`HeapByte`), neither the alpha of the frame nor
what was on the screen (`ScreenByte`): `FiltersAgree` says so. `Kernels` applies them to
all inputs of the sizes and values its constants give. The conversion of the peak to a
frequency (`audio_setup.c:113`) is outside: its divisor is an unparenthesised macro (`x
/ (double)8192 / 2`), and the frequency comes out four times too small.

## 3. Runs

| Run | Bounds | Shows |
|---|---|---|
| `audio` | chunk 4 bytes, window 2 chunks, pools of 2, 6 codec reads, whole reads, no set-up failure; 30 000 states | accounting of the results' pool, results refine `SampleStream` and are printed once, window intact, consumption; the stop: nobody is left waiting, a bounded number of steps, the end |
| `audio_faults` | chunk 12 bytes, window 2 chunks, pools of 2, 5 reads of -1, 0, 8 or 12 bytes; set-up failures; 292 000 states | under faults: accounting of the chunks' pool, chunks refine `SampleStream`, the window counts what was copied, the overrun is short |
| `control` | all 16 switch positions, one key; 65 000 states | refinement of `ControlFlags`, modes from one reading, switches reflected and held key stops while audio is on |
| `video` | a file of 1 frame, set-up failures; 238 000 states | event protocol, single writer, playback, stop |
| `io` | 2 values, 3 calls; 10 000 states | reads agree, writes reach their register |
| `wav` | chunks of up to 2 blocks, 3 calls that write, sizes below 5; 328 000 states | header covered, refinement of `ChunkLog`, copies return what was parsed, every call returns |
| `algorithms` | transforms of 8 samples modulo 17, spectra of 4, frames of 2 pixels, images of 6 and 9; 82 000 states | transform, peak, grey and edges against their definitions |
| `program` | pools of 1 buffer, all failures of the set-up; 654 000 states | no mailbox beyond its pool, start-up order, clean-up, no starvation of the periodic tasks |
| `audio_stop`, `fft_input`, `video_stop`, `switch_starved` | as above | the findings (section 6) |

Why these bounds are enough. *Audio:* a chunk of four bytes is one stereo frame, the
least with both channels; two chunks per window make a window with an inner boundary;
pools of two run dry, fill and wrap; six reads are three windows, so that every buffer
has been reused and the logging pool (two results) has run dry. With faults a chunk is
twelve bytes, of which a short read brings eight: two short ones do not fill the window
of 24 and the third, or a whole one, passes its end. `audio` does not repeat what
`audio_faults` checks of the pool and the stream of chunks with more kinds of reads. The
program has 512-byte chunks, 16 per window, at most 16 buffers. The properties of the
pool are proved for every size (section 5). *Control:* the state is finite; one key is
enough where only "some key" is tested. *Video:* the state is finite; one frame makes
the end of the file happen between any two passes, and more frames only delay it. *I/O:*
three calls allow a write, another one over it and a read of a third register; two
values tell written from not written. *WAV:* two blocks make a short write; three calls
are an append that fails, one that follows it and one more, or three that overflow the
size. *Algorithms:* eight samples are three levels of the recursion, so that the arrays
are swapped an odd and an even number of times; images wider than high and higher than
wide have every kind of border; the grey bytes 62 and 63 lie on either side of the
threshold. *Program:* with a pool of one buffer a mailbox is empty and full, and the
allocation that fails is met whenever treatment is late; more buffers only repeat. The
number is any in the proofs.

`CHECK_DEADLOCK FALSE` is used where the system really stops: in `audio_faults` a
failed `rt_task_set_periodic` leaves treatment blocked on a mailbox that nobody
deletes, in `io` the bound on calls ends every behaviour, and in `algorithms` a
computation is over after one step.

The type invariants of `ControlTask`, `IoRegisters`, `VideoPipeline` and `WavFile` are
proved and not run again; those of `AudioPipeline` and `Program` are both.

Every property of a passing run has a mutant: an operator written beside the
original (named in the comment above it) with the change a plausible bug would
make, which TLC must find to violate the property.

## 4. Fairness

* `AudioPipeline!FairSpec`: weak fairness of each of the three tasks as a whole.
  The kernel schedules each of them when it is not blocked. This holds where each task
  has a CPU to run on, and on one CPU while audio is on; with audio off on one CPU it does
  not: see run `switch_starved`. The environment is not fair: nobody has to touch the
  switches.
* `ControlTask` has no fair specification. That the control task has its turns is a
  hypothesis of `SwitchesReflected` and `HeldKeyStops`, and one for the times in which
  it is justified: `CpuShared` is weak fairness while audio is on
  (`PeriodicTasksNotStarved` of `Program` shows that it then runs again and again on the
  one CPU, as long as treatment works) and after the stop, when no task goes round its
  loop any more. With SWITCH_0 down audio does not stay on, and the two properties
  promise nothing but that it goes off or the program stops: run `switch_starved` shows
  that the switches and keys are then read no more. The user is under no obligation.
* `VideoPipeline!FairSpec`: weak fairness of `video_task` after the stop only. This is
  all `StopEndsVideo` needs. Before it `video_task`, of priority 50 like treatment, may
  be starved by the same busy wait, so that `PlaybackGoesOn` and
  `OneWriterOnceModeSettles` have its turns as a hypothesis (`VideoRuns`); on one CPU
  that means audio on and treatment at work, as in `PeriodicTasksNotStarved`. The
  workers have the lower priority 40; the two properties that need them say so
  (`WorkersRun => ...`).
* `Program!FairSpec`: the CPU does not stop while a task of priority 50 can run, the
  timer fires, the disk answers. Nothing is assumed of `main` and the workers: that a
  conversion may take for ever is what makes `PeriodicTasksNotStarved` depend on the
  priorities.
* `WavFile!FairSpec`: a call that has begun goes on, and the kernel does not accept
  nothing of a buffer for ever. Without the second the loop of `append_wav_data`, which
  has no exit for a write of 0 bytes, would not return.

## 5. Proofs

`AudioPipelineProofs`, for all constants that satisfy `ConstantsAssumption`
(positive chunk, window and pools; `read` returns -1 or at most what was asked):

* `TypeCorrect`: `Spec => []TypeOK`. The inductive invariant is `TypeInv`, which
  adds `CaptureBound`: between `AcqAlloc`, which tests the bound on codec reads, and
  `AcqReadSend`, which counts one, the counter is below the bound. The part that
  matters is that no pool count goes below zero and that a message of the right
  shape is in every place a message can be in.
* `PoolAccounted`: `Spec => []PoolAccounting`. The inductive invariant `PoolInv` adds
  that messages in the mailbox carry a positive number (so that a buffer in
  treatment's hands is told from a failed receive), that what treatment is about to
  copy is such a message (`HeldIsNumbered`), and that nothing is held before the
  mailbox is created (`BeforeCreation`). The proof goes action by action; `PoolMoved`
  is the arithmetic: a step moves one buffer from one of the five places to another.
* `LogPoolAccounted`: `Spec => []LogPoolAccounting`, which is inductive beside
  `TypeInv`.
* `ChunksOrdered`: `Spec => []ChunkOrder`. The inductive invariant `OrderInv` says the
  same without the concatenation in `InFlight`: the pending chunks increase, are
  not newer than the codec's count and are newer than what treatment holds, which
  is newer than what it copied last. It needs `PoolInv` in one place: what
  treatment copies is a chunk and not the remains of a failed receive.
* `ResultsOrdered`: `Spec => []ResultOrder`, about what monitoring reads. `ResultInv` adds
  that the result treatment is about to send is newer than all that went out.
* `PrintsOnce`: `Spec => PrintedOnce`, about what it prints: each result read is printed
  before the next one is read, and a print that is not of a newer result than all before
  comes from a read that failed. `PrintInv` says that between passes the last print is
  of the variable as it is, and that before a print either a result has been read since
  or the mailbox is not open, or nothing was ever read; a deleted mailbox stays deleted.
* `WholeChunksFit`: `Spec => []NoOverrun`, assuming that every read that brings samples
  brings a whole chunk (`OnlyWholeChunks`). `FillInv` says that `size` counts the chunks
  of the window, that what is pending or in hand is a whole chunk or an error, and that a
  window is full only when the FFT is due. The assumption cannot be dropped: with short
  reads the overrun is one of the faults of run `audio_faults`.
* `WindowsIntact`: `Spec => []WindowIntact`, under the same assumption. `WindowInv` says
  where each chunk of the window is in `x`: the k-th one at its place (`Place(k)`, at twice
  the distance, since `size` counts bytes and `x` is of two-byte samples), and a window is
  complete when the FFT is due. A copy fills the next place and leaves the earlier ones,
  which it does not overlap (`Places`); that the chunk is not one of the window already is
  `ChunkOrder`, and that it is whole is `FillInv`.
* `GivesUpWhenFull`: `Spec => GivesUpOnlyWhenLogFull`. It needs that the logging mailbox
  stays open while treatment sends results (`LogOpen`), so that an allocation fails for
  want of a buffer only, and `LogPoolAccounting`, so that no free buffer means a full
  mailbox.

* `ImplementsStream`: `Spec => StreamSpec`, for all constants and with all faults (with
  `ChunksOrdered`, which says what no run repeats). It rests on the invariants above:
  `OrderInv` gives that a chunk enters the stream newer than all others and leaves it
  first, `PoolInv` that no more are in flight than the stream may hold, and
  `MailboxOpen` that acquisition sends to a mailbox that is there.
* `ImplementsResults`: `Spec => ResultsSpec`, the same for the other mailbox. A spectrum
  enters the stream where treatment gets a buffer for it and not where it sends it, for
  nothing can be lost in between; that the stream has room then is `LogPoolAccounting`.
* `OverrunStaysShort`: `Spec => []OverrunIsShort`, whatever `read` brings. `RoomInv` says
  that `size` is below `FFT_BUFFER_SIZE` whenever treatment may copy, so that the room left
  is at least one byte, and that what arrives is at most a chunk.
* `WindowsCounted`: `Spec => []WindowCounted`, whatever `read` brings. `CountInv` is about
  the set of the bytes that came with the window (`Current`): it has `size` elements, all
  below the place of the next copy, so that a copy adds as many as it is long, and no byte
  carries a number newer than the last copied, so that older ones are not counted. It says
  what is left of `WindowInv` when chunks are not whole.
* `WaitersAreWoken`: `Spec => []NoOrphanedWait`, if no prologue fails. `GoneInv` says that
  a task that has ended has deleted its mailbox. The hypothesis is needed: a task whose
  `rt_task_set_periodic` fails returns (`audio_setup.c:138-148`) and leaves its mailbox
  open, and treatment waits on it for ever; `audio_faults` has these behaviours.
* `StopsShortly`: `Spec => StopIsShort`, for all constants and faults. Each step after the
  stop brings the one task that takes it nearer to its end, from any place, so that there
  are at most 13 more. With `WaitersAreWoken` this is what `StopEndsTasks` says apart from
  fairness: the tasks cannot go on, and cannot be stuck but where the code waits rightly.

`ControlTaskProofs`, for every set of keys with KEY0: `IInv` says, for each place of a
pass, which flags and bits already follow the switches that were read
(`FlagsFollow`, `BitsFollow`), and that a pass is under way only while the program runs
(`PassWhileRunning`); the last is what `ImplementsFlags` needs to show that nothing
changes after the stop.

`VideoPipelineProofs`: `IInv` adds to the type and to `RunBitHeld` that a run bit that is
set and not yet being answered was asked for (`SetBitsAsked`), and that nothing has been
asked of a worker before the event is created. `PassesAreAsked` follows from it.

`IoRegistersProofs`: `PathsReadTheSame` and `WritesAreExact` rest on the arithmetic of
offsets and request numbers: two registers that can be named have different offsets, and
a request is served by the offset its function would compute.

`WavFileProofs`: `IInv` says what an append under way has done: it started from the size
in the header, its blocks lie behind the described ones and are the first `done` of its
buffer (`AppendInv`), and all described blocks are of earlier calls (`FreshInv`). So the
one write that changes the size adds exactly one whole new chunk; a write of
`write_wav_data` replaces a run of described blocks by those its own chunk has there
(`Replace`); and every other step, the death of the process included, leaves the log as
it is: `ImplementsLog`. `CopiesGiveParsed` adds what a copy under way has read, the
first `done` blocks of the file (`BufInv`), and that the file still begins with what was
described when its header was read (`ParsedInv`): no append moves a described block, and
a header parsed before a `write_data` that starts over is forgotten.

`ProgramProofs`, for pools of every size: `TypeCorrect`, `FlagsSet`, `MailboxesAreReady`
and `FreedAreUnused`. That no mailbox outgrows its pool rests on the allocation alone,
for acquisition is released whatever waits. For the rest nothing but the priorities
synchronises the tasks, so `IInv` relates the queues to the program counters.
`QueuesOK`: each thread is at most once in a queue, that of its priority. `ReadyInv`: a
task that waits for nothing is in its queue, one that is not there or has ended is not.
From these two, `main` runs only when no task can, and so (`StartInv`) the tasks it
spawned before have got past their starts, in which the flags are assigned (`FlagsInv`)
and the mailboxes created (`MailInv`), before it spawns the next. `JoinInv` is the same
at the end: the tasks that were joined have ended, and once `video_task` has, nothing
makes a worker ready; a worker that was ready then has run until it waits or returned
before `main` goes on. All this is lost with `main` at the priority of the others, or
with another order of the spawns: these are the mutants of run `program`.

`FftProofs`: `FftIsTransform`, for every ring, every power of two `N` and all samples,
`fft(x) = Dft(x)`. The library's induction theorems cannot be instantiated, nor can those
that give a recursive definition its equation; three facts replace them:

* `Induction`: a set of naturals that has 0 and with each number the next has them all
  (from `LeastOf`, a least counterexample);
* `IterationExists`: for every start and every sequence of maps there is a function that
  iterates them. It gives powers (`Roots`, `RootSum`, `Turns`) and sums (`SumExists`,
  `SumIs`, `SumSplit`) their equations;
* `Recursion`: `_fft` satisfies its own equation, since a function that does can be built
  level by level, from the calls that return at once (`BodyHasFixpoint`).

`PartSplits` is the mathematics: the transform of a signal is that of its even samples
plus or minus the turned one of its odd samples, with `RootHalf` for the sign;
`ButterflyAt` and `ButterflyOff` say that the loop writes this at the places of its call
and nothing elsewhere. `Agrees` is what a call expects, that its two arrays begin alike
at its places; `Transforms` and `LeavesAlone` are what it promises, and `LevelAbove`
carries these from the two inner calls to the outer one although these swap the arrays.
`KernelsProofs`, `TransformComputed`: `Spec => []FftIsDft`.

`KernelsProofs` further: `WorkersAgree` and `EdgesShown`, for frames and images of every
size, and for whatever byte `malloc` and the screen hold before. The proofs are the
arithmetic of the places of a pixel (`i` is `y * width + x` for one `x` and `y`) and of
the nine terms of the gradient, of which those outside the image are skipped by the code
and zero in the definition. `PeakReported`, for transforms of every size and all powers:
after `i` powers the loop holds the first of the strongest of them (`BestIsLoudest`).
This is an induction over `i`, again by `LeastOf`.

The lemmas `CreatedDeleted`, `AllocFreed`, `Sending` and `Receiving` say what each
operation does to a queue, whatever it carries.

Every safety property of a passing run is the statement of a theorem. All
rest on the assumptions on the constants that the modules name, and TLC evaluates;
`WholeChunksFit` and `WindowsIntact` also on `OnlyWholeChunks`, and `WaitersAreWoken` on
`~SetupFails`, which run `audio` satisfies and `audio_faults` does not.

Two definitions were found wrong, or beyond proof, on the way. `Return` of `Program`
used to queue `main` a second time when the task it had begun to join ended before
`main` had blocked; `QueuesOK` would not go through, and `Return` now tests it. The
queues were filtered with an operator the provers know nothing of, and the gradient was
a fold over an index set; both are now written out, with the same results in every run.
`_fft` used to be an operator declared recursive, over one field and one size; it is now
a function, over all.

Only model-checked:

* liveness, for which the prover has no rules that take fairness: `SentIsConsumed`,
  `StopEndsTasks`, `SwitchesReflected`, `HeldKeyStops`, `PeriodicTasksNotStarved`,
  `RequestsAnswered`, `PlaybackGoesOn`, `StopEndsVideo`, `CallsReturn`, and
  `OneWriterOnceModeSettles`, which says what holds from some moment on. Of
  `StopEndsTasks` the safety part is proved (`StopIsShort`, `NoOrphanedWait`).

## 6. Findings

Four runs end in a violation on purpose; each one checks what a document or comment
of the repository says and the code does not do.

| Run | Where | What |
|---|---|---|
| `audio_stop` | `audio_setup.c:76` | stop while treatment waits: `memcpy` with a negative size |
| `video_stop` | `video_setup.c:145` | stop with video off: `video_task` waits for ever and `main` never returns |
| `fft_input` | `audio_setup.c:76` | byte count used as sample offset: half of the FFT's input is never written |
| `switch_starved` | `audio_setup.c:66` | with audio off treatment polls at priority 50: on one CPU no switch or key is read any more |

`switch_starved` rests on the one CPU that `labo5.pdf` prescribes (`taskset`). The
report's timings of the video task "et seul la tâche vidéo et ioctl était active"
(`rapport.typ:223`) do not go with it: with audio off, or never switched on, treatment
leaves those two tasks no turn on that CPU. They may have been taken on both CPUs of the
board, of which the busy wait keeps only one, or with the audio tasks left out.

Seen in the source and modelled, without a run of their own: any key stops the program
and not only KEY0, for `main.c:105` tests `keys | KEY0` with `KEY0` = 0 (`StopAsked` of
`ControlTask`); GPIO writes of bank 1 by IOCTL send the read request and change nothing,
`io_utils.c:170` and `236` (`WriteNumber` of `IoRegisters`, excepted in
`WritesTakeEffect`); the failures of the three init functions are printed and returned as
success (`io_utils.c:36`, `audio_utils.c:18`, `video_utils.c:20`).

## 7. Not modelled

* `src/code/libxenomai` and the kernel modules: third-party headers and binaries. They
  are some 18 000 of the repository's 20 000 lines, so that the share of all lines
  that the map covers is small; of the program's own code (about 1 900 lines, comments
  and declarations included) every function is mapped but those below. What the
  program uses of the libraries is in `AlchemyQueue`, in the event bits of
  `VideoPipeline` and in the scheduler of `Program`.
* `map_volume`, `write_samples` and `write_frame`: one expression or one system call each,
  never called.
* `mlockall`, and the results of `malloc` that the code does not look at; `Program` leaves
  the allocations of the workers to `VideoPipeline`.
* Printing and time measurement, rounding of the FFT, the conversion of a bin to a
  frequency (section 2, `Fft`).
* Torn frames: `img.data` is rewritten while a worker reads it. Possible in the
  model as in the code; no property forbids them since nothing in the repository does.
* Two CPUs: `AudioPipeline`, `VideoPipeline` and `ControlTask` allow every interleaving and
  so cover them; the properties of `Program` are those of one CPU and rest on there
  being one.

## 8. Plan

Done: the core of the audio pipeline, the control task, the video pipeline and the
registers; the composition of all threads with the scheduler; the WAV files with crashes;
the computations; the proofs of the refinements and of all safety properties, the
transform, the windows with short reads and the stop of the audio tasks among them.

Left:

1. The safety halves of the other liveness properties, as it was done for the stop of the
   audio tasks: with `VIDEO_RUNNING` set, `video_task` takes a bounded number of steps after
   the stop.
2. `Program` with a second CPU, to show which properties rest on there being one.
