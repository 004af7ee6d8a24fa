--------------------------- MODULE AudioPipeline ----------------------------
(***************************************************************************)
(* The three audio tasks of audio_setup.c and the two mailboxes between    *)
(* them:                                                                   *)
(*                                                                         *)
(*   codec -> acquisition_task -> mailbox_treatment -> treatment_task_t_lol*)
(*         -> mailbox_logging -> monitoring_task -> console                *)
(*                                                                         *)
(* The tasks run interleaved; each action is one call into the kernel with *)
(* the local computation around it.  The control task that writes the      *)
(* flags the tasks poll is the environment here (module ControlTask).      *)
(*                                                                         *)
(* Sample data are abstracted to the number of the chunk (one codec read)  *)
(* they came with; 0 marks memory never written.  Memory is kept per byte. *)
(***************************************************************************)
EXTENDS AlchemyQueue, FiniteSets

CONSTANTS
  ChunkBytes,       \* FIFO_SIZE * NB_CHAN: bytes asked of read_samples
  ChunksPerWindow,  \* FFT_BUFFER_SIZE / ChunkBytes
  PoolSlots,        \* buffers the pool of mailbox_treatment can hold
  LogSlots,         \* buffers the pool of mailbox_logging can hold
  ReadResults,      \* what read(snd_fd, ..) may return: -1 or a byte count
  SetupFails,       \* may the Alchemy calls of the tasks' prologues fail?
  MaxChunk          \* bound on the codec reads of a behaviour

ASSUME ConstantsAssumption ==
  /\ ChunkBytes \in Nat \ {0}
  /\ ChunksPerWindow \in Nat \ {0}
  /\ PoolSlots \in Nat \ {0}
  /\ LogSlots \in Nat \ {0}
  /\ ReadResults \subseteq -1 .. ChunkBytes
  /\ SetupFails \in BOOLEAN
  /\ MaxChunk \in Nat

FFT_BUFFER_SIZE == ChunksPerWindow * ChunkBytes

VARIABLES
  running, audio_running,  \* the fields of Ctl_data_t the audio tasks read
  alive,                   \* FALSE once the process has died
  faults,                  \* the undefined operations executed so far
  acq, treat, mon,         \* where each task is
  captured,                \* number of the last chunk taken from the codec
  acq_buf,                 \* acquisition's message: is it a buffer (not NULL)?
  leaked,                  \* history: buffers dropped without a free
  mailbox_treatment, mailbox_logging,
  received,                \* treatment's message and bytes_received
  x, size,                 \* treatment's sample buffer and fill level
  window,                  \* history: chunks copied since size was last 0
  consumed,                \* history: number of the last chunk copied
  ffts,                    \* history: number of spectra computed
  message,                 \* monitoring's message: the last result it read
  shown                    \* history: the last result it printed

ctl_vars   == <<running, audio_running>>
acq_vars   == <<acq, captured, acq_buf, leaked>>
treat_vars == <<treat, received, x, size, window, consumed, ffts>>
mon_vars   == <<mon, message, shown>>
vars == <<ctl_vars, alive, faults, acq_vars, mailbox_treatment,
          mailbox_logging, treat_vars, mon_vars>>

Chunks == [id : 0 .. MaxChunk, len : -3 .. ChunkBytes]

\* rt_queue_receive fails with -EINVAL on a handle that was never created and
\* with -EIDRM on a deleted queue; message is left as it was.
Nothing == [id |-> 0, len |-> 0]
EINVAL == 2
EIDRM == 3
Failed(error) == [id |-> 0, len |-> -error]
Bytes == 0 .. 2 * FFT_BUFFER_SIZE - 1      \* data_t x[FFT_BUFFER_SIZE]

Faults == {"receive_before_create", "receive_after_delete", "failed_read",
           "overrun", "freed_pool", "read_before_create"}

TypeOK ==
  /\ running \in BOOLEAN /\ audio_running \in BOOLEAN /\ alive \in BOOLEAN
  /\ faults \subseteq Faults
  /\ acq \in {"create", "period", "loop", "read", "done"}
  /\ treat \in {"create", "loop", "recv", "copy", "fft", "send", "exit", "done"}
  /\ mon \in {"loop", "read", "print", "done"}
  /\ captured \in 0 .. MaxChunk
  /\ acq_buf \in BOOLEAN
  /\ leaked \in Nat
  /\ mailbox_treatment \in Queues(Chunks)
  /\ mailbox_logging \in Queues(Nat)
  /\ received \in Chunks
  /\ x \in [Bytes -> 0 .. MaxChunk]
  /\ size \in Nat
  /\ window \in Seq(0 .. MaxChunk)
  /\ consumed \in 0 .. MaxChunk
  /\ ffts \in Nat
  /\ message \in Nat /\ shown \in Nat

\* main() leaves audio_running uninitialised; running is set before the spawns.
Init ==
  /\ running = TRUE /\ audio_running \in BOOLEAN
  /\ alive = TRUE /\ faults = {}
  /\ acq = "create" /\ treat = "create" /\ mon = "loop"
  /\ captured = 0 /\ acq_buf = FALSE /\ leaked = 0
  /\ mailbox_treatment = NoQueue /\ mailbox_logging = NoQueue
  /\ received = Nothing
  /\ x = [b \in Bytes |-> 0] /\ size = 0
  /\ window = << >> /\ consumed = 0 /\ ffts = 0
  /\ message = 0 /\ shown = 0

-----------------------------------------------------------------------------
(* Environment: what the control task does to the flags.  It writes nothing *)
(* after it has cleared running.                                            *)

SwitchAudio ==
  /\ alive /\ running
  /\ audio_running' = ~audio_running
  /\ UNCHANGED <<running, alive, faults, acq_vars, mailbox_treatment,
                 mailbox_logging, treat_vars, mon_vars>>

Stop ==
  /\ alive /\ running
  /\ running' = FALSE
  /\ UNCHANGED <<audio_running, alive, faults, acq_vars, mailbox_treatment,
                 mailbox_logging, treat_vars, mon_vars>>

-----------------------------------------------------------------------------
(* acquisition_task *)

AcqCreate ==
  /\ alive /\ acq = "create"
  /\ \/ /\ mailbox_treatment' = Created(PoolSlots)
        /\ acq' = "period"
        /\ UNCHANGED alive
     \/ /\ SetupFails                               \* exit(EXIT_FAILURE)
        /\ alive' = FALSE
        /\ UNCHANGED <<mailbox_treatment, acq>>
  /\ UNCHANGED <<ctl_vars, faults, captured, acq_buf, leaked,
                 mailbox_logging, treat_vars, mon_vars>>

\* A failing rt_task_set_periodic returns and leaves the mailbox open.
AcqSetPeriodic ==
  /\ alive /\ acq = "period"
  /\ \/ acq' = "loop"
     \/ SetupFails /\ acq' = "done"
  /\ UNCHANGED <<ctl_vars, alive, faults, captured, acq_buf, leaked,
                 mailbox_treatment, mailbox_logging, treat_vars, mon_vars>>

\* The loop test and rt_queue_alloc, released by the period.
AcqAlloc ==
  /\ alive /\ acq = "loop" /\ running
  /\ captured < MaxChunk
  /\ acq_buf' = CanAlloc(mailbox_treatment)
  /\ mailbox_treatment' = IF CanAlloc(mailbox_treatment)
                          THEN Alloc(mailbox_treatment)
                          ELSE mailbox_treatment
  /\ acq' = "read"
  /\ UNCHANGED <<ctl_vars, alive, faults, captured, leaked,
                 mailbox_logging, treat_vars, mon_vars>>

\* read_samples, then rt_queue_send when it returned anything but 0: a read
\* into NULL fails and its send is refused; an error is sent as a length; a
\* read of nothing neither sends nor frees the buffer.
AcqReadSend ==
  /\ alive /\ acq = "read"
  /\ captured' = captured + 1
  /\ acq_buf' = FALSE
  /\ acq' = "loop"
  /\ \/ /\ ~acq_buf
        /\ UNCHANGED <<mailbox_treatment, leaked>>
     \/ \E read \in ReadResults \ {0} :
          /\ acq_buf
          /\ mailbox_treatment' =
               Send(mailbox_treatment, [id |-> captured + 1, len |-> read])
          /\ UNCHANGED leaked
     \/ /\ acq_buf /\ 0 \in ReadResults
        /\ leaked' = leaked + 1
        /\ UNCHANGED mailbox_treatment
  /\ UNCHANGED <<ctl_vars, alive, faults, mailbox_logging, treat_vars, mon_vars>>

\* Loop test fails; rt_queue_delete wakes the tasks blocked on the mailbox.
AcqExit ==
  /\ alive /\ acq = "loop" /\ ~running
  /\ mailbox_treatment' = Delete(mailbox_treatment)
  /\ acq' = "done"
  /\ UNCHANGED <<ctl_vars, alive, faults, captured, acq_buf, leaked,
                 mailbox_logging, treat_vars, mon_vars>>

-----------------------------------------------------------------------------
(* treatment_task_t_lol *)

TreatCreate ==
  /\ alive /\ treat = "create"
  /\ \/ /\ mailbox_logging' = Created(LogSlots)
        /\ treat' = "loop"
     \/ /\ SetupFails
        /\ treat' = "done"
        /\ UNCHANGED mailbox_logging
  /\ UNCHANGED <<ctl_vars, alive, faults, acq_vars, mailbox_treatment, received,
                 x, size, window, consumed, ffts, mon_vars>>

\* The two tests at the top of the loop.  With audio_running false the task
\* spins on them: that is stuttering.
TreatLoop ==
  /\ alive /\ treat = "loop"
  /\ \/ running /\ audio_running /\ treat' = "recv"
     \/ ~running /\ treat' = "exit"
  /\ UNCHANGED <<ctl_vars, alive, faults, acq_vars, mailbox_treatment,
                 mailbox_logging, received, x, size, window, consumed, ffts,
                 mon_vars>>

\* rt_queue_receive(.., TM_INFINITE): blocks on an empty mailbox, fails on a
\* handle that is not a queue.  The failure is printed and otherwise ignored.
TreatReceive ==
  /\ alive /\ treat = "recv"
  /\ \/ /\ HasMessage(mailbox_treatment)
        /\ received' = Head(mailbox_treatment.msgs)
        /\ mailbox_treatment' = Received(mailbox_treatment)
     \/ /\ mailbox_treatment.state = "none"
        /\ received' = Failed(EINVAL)
        /\ UNCHANGED mailbox_treatment
     \/ /\ mailbox_treatment.state = "deleted"
        /\ received' = Failed(EIDRM)
        /\ UNCHANGED mailbox_treatment
  /\ treat' = "copy"
  /\ UNCHANGED <<ctl_vars, alive, faults, acq_vars, mailbox_logging, x, size,
                 window, consumed, ffts, mon_vars>>

\* memcpy(x + size, message, bytes_received): x points to 16-bit samples, so
\* the copy starts at byte 2 * size.  (CopyAtFront: + size forgotten.)
CopyAtFront == 0
CopyStart == 2 * size
CopyTarget == CopyStart .. CopyStart + received.len - 1

\* What is undefined about the copy the task is about to make, if anything.
CopyFault ==
  CASE received.len = -EINVAL -> {"receive_before_create"}
    [] received.len = -EIDRM -> {"receive_after_delete"}
    [] received.len = -1 -> {"failed_read"}
    [] OTHER -> (IF CopyTarget \subseteq Bytes THEN {} ELSE {"overrun"})
                \cup (IF IsOpen(mailbox_treatment) THEN {} ELSE {"freed_pool"})

\* A negative length is a huge size_t: the copy kills the process.  The other
\* faults may kill it or go unnoticed; a copy from a freed pool brings garbage.
TreatCrash ==
  /\ alive /\ treat = "copy" /\ CopyFault # {}
  /\ faults' = faults \cup CopyFault
  /\ alive' = FALSE
  /\ UNCHANGED <<ctl_vars, acq_vars, mailbox_treatment, mailbox_logging,
                 treat_vars, mon_vars>>

\* size >= FFT_BUFFER_SIZE.  (FullPast: > instead of >=.)
FullPast(n) == n > FFT_BUFFER_SIZE
Full(n) == n >= FFT_BUFFER_SIZE

\* rt_queue_free of the chunk.  (Withheld: the call forgotten.)
Withheld(q) == q
Release(q) == Freed(q)

\* memcpy, rt_queue_free, size += bytes_received and the test of the fill level.
TreatCopy ==
  /\ alive /\ treat = "copy" /\ received.len >= 0
  /\ faults' = faults \cup CopyFault
  /\ LET id == IF IsOpen(mailbox_treatment) THEN received.id ELSE 0
     IN  /\ x' = [b \in Bytes |-> IF b \in CopyTarget THEN id ELSE x[b]]
         /\ window' = Append(window, id)
  /\ consumed' = received.id
  /\ mailbox_treatment' = Release(mailbox_treatment)
  /\ size' = size + received.len
  /\ treat' = IF Full(size') THEN "fft" ELSE "loop"
  /\ UNCHANGED <<ctl_vars, alive, acq_vars, mailbox_logging, received, ffts,
                 mon_vars>>

\* The FFT of x and rt_queue_alloc of the result; without a buffer the task
\* breaks out of its loop.
TreatFft ==
  /\ alive /\ treat = "fft"
  /\ size' = 0 /\ window' = << >>
  /\ ffts' = ffts + 1
  /\ IF CanAlloc(mailbox_logging)
     THEN /\ mailbox_logging' = Alloc(mailbox_logging)
          /\ treat' = "send"
     ELSE /\ treat' = "exit"
          /\ UNCHANGED mailbox_logging
  /\ UNCHANGED <<ctl_vars, alive, faults, acq_vars, mailbox_treatment, received,
                 x, consumed, mon_vars>>

TreatSend ==
  /\ alive /\ treat = "send"
  /\ mailbox_logging' = Send(mailbox_logging, ffts)
  /\ treat' = "loop"
  /\ UNCHANGED <<ctl_vars, alive, faults, acq_vars, mailbox_treatment, received,
                 x, size, window, consumed, ffts, mon_vars>>

TreatExit ==
  /\ alive /\ treat = "exit"
  /\ mailbox_logging' = Delete(mailbox_logging)
  /\ treat' = "done"
  /\ UNCHANGED <<ctl_vars, alive, faults, acq_vars, mailbox_treatment, received,
                 x, size, window, consumed, ffts, mon_vars>>

-----------------------------------------------------------------------------
(* monitoring_task *)

\* The loop test.  (AudioOn: of the flag that the other task looks at.)
AudioOn == audio_running
GoesOn == running

MonLoop ==
  /\ alive /\ mon = "loop"
  /\ mon' = IF GoesOn THEN "read" ELSE "done"
  /\ UNCHANGED <<ctl_vars, alive, faults, acq_vars, mailbox_treatment,
                 mailbox_logging, treat_vars, message, shown>>

\* rt_queue_read(.., TM_INFINITE) copies the message out and frees its buffer.
\* (Peeked: a receive, whose buffer the failing rt_queue_free would not free.)
Peeked(q) == Received(q)
Read(q) == Freed(Received(q))

\* When it fails.  (WouldBlock: with TM_NONBLOCK.)
WouldBlock(q) == ~HasMessage(q)
ReadFails(q) == ~IsOpen(q)

\* Its result is not tested: on failure the local message stays as it was.
MonRead ==
  /\ alive /\ mon = "read"
  /\ \/ /\ HasMessage(mailbox_logging)
        /\ message' = Head(mailbox_logging.msgs)
        /\ mailbox_logging' = Read(mailbox_logging)
     \/ /\ ReadFails(mailbox_logging)
        /\ UNCHANGED <<message, mailbox_logging>>
  /\ mon' = "print"
  /\ UNCHANGED <<ctl_vars, alive, faults, acq_vars, mailbox_treatment,
                 treat_vars, shown>>

\* Reading through the uninitialised handle may also kill the process.
MonCrash ==
  /\ alive /\ mon = "read" /\ mailbox_logging = NoQueue
  /\ faults' = faults \cup {"read_before_create"}
  /\ alive' = FALSE
  /\ UNCHANGED <<ctl_vars, acq_vars, mailbox_treatment, mailbox_logging,
                 treat_vars, mon_vars>>

\* Both rt_printf, of whatever message holds; the rt_queue_free of a stack address
\* that follows is refused.
MonPrint ==
  /\ alive /\ mon = "print"
  /\ shown' = message
  /\ mon' = "loop"
  /\ UNCHANGED <<ctl_vars, alive, faults, acq_vars, mailbox_treatment,
                 mailbox_logging, treat_vars, message>>

-----------------------------------------------------------------------------
Acquisition == AcqCreate \/ AcqSetPeriodic \/ AcqAlloc \/ AcqReadSend \/ AcqExit
Treatment == \/ TreatCreate \/ TreatLoop \/ TreatReceive \/ TreatCopy
             \/ TreatCrash \/ TreatFft \/ TreatSend \/ TreatExit
Monitoring == MonLoop \/ MonRead \/ MonCrash \/ MonPrint

AllDone == acq = "done" /\ treat = "done" /\ mon = "done"
Terminated == (AllDone \/ ~alive) /\ UNCHANGED vars

Next == \/ SwitchAudio \/ Stop
        \/ Acquisition \/ Treatment \/ Monitoring
        \/ Terminated

Spec == Init /\ [][Next]_vars

\* The three tasks are scheduled on and on; nobody has to touch the switches.
FairSpec ==
  /\ Spec
  /\ WF_vars(Acquisition) /\ WF_vars(Treatment) /\ WF_vars(Monitoring)

-----------------------------------------------------------------------------
(* Safety *)

AcqHolds == IF acq = "read" /\ acq_buf THEN 1 ELSE 0
TreatHolds == IF treat = "copy" /\ received.id > 0 THEN 1 ELSE 0

\* While the mailbox exists every buffer of its pool is accounted for: free,
\* held by acquisition, pending, held by treatment, or dropped by a read of
\* nothing (audio_setup.c:155-163).  No interleaving loses or doubles one.
PoolAccounting ==
  IsOpen(mailbox_treatment) =>
    mailbox_treatment.free + AcqHolds + Len(mailbox_treatment.msgs)
      + TreatHolds + leaked = PoolSlots

\* The same for the results on their way to the monitoring task: rt_queue_read
\* frees what it copied, so the task's own rt_queue_free may fail for nothing.
LogPoolAccounting ==
  IsOpen(mailbox_logging) =>
    mailbox_logging.free + Len(mailbox_logging.msgs)
      + (IF treat = "send" THEN 1 ELSE 0) = LogSlots

\* The chunks between the two tasks, the one in treatment's hands included.
InFlight == IF TreatHolds = 1
            THEN << received >> \o mailbox_treatment.msgs
            ELSE mailbox_treatment.msgs

\* Chunks reach the FFT in the order of their capture and none twice: the last
\* one copied, the ones in flight and the codec's counter never go back.
ChunkOrder ==
  /\ \A i \in DOMAIN InFlight :
       InFlight[i].id > consumed /\ InFlight[i].id <= captured
  /\ \A i, j \in DOMAIN InFlight : i < j => InFlight[i].id < InFlight[j].id

\* The mailbox and the two tasks at its ends implement a lossy stream that
\* holds at most PoolSlots chunks (audio_setup.c:72-79, 155-163).
Stream == INSTANCE SampleStream WITH
  Capacity <- PoolSlots,
  stream <- [i \in DOMAIN InFlight |-> InFlight[i].id]
StreamSpec == Stream!Spec

\* Monitoring reads the spectra in the order they were computed and none twice:
\* what is pending is newer than what it read and not newer than the last one.
ResultOrder ==
  /\ \A i \in DOMAIN mailbox_logging.msgs :
       mailbox_logging.msgs[i] > message /\ mailbox_logging.msgs[i] <= ffts
  /\ \A i, j \in DOMAIN mailbox_logging.msgs :
       i < j => mailbox_logging.msgs[i] < mailbox_logging.msgs[j]

\* The results between the two tasks, the one treatment has yet to send included.
ResultsInFlight ==
  IF treat = "send" THEN Append(mailbox_logging.msgs, ffts) ELSE mailbox_logging.msgs

\* The results, too, are a lossy stream: each spectrum computed enters it or is lost,
\* and those that enter are read in order and once (audio_setup.c:27, 103-117).
Results == INSTANCE SampleStream WITH
  Capacity <- LogSlots,
  captured <- ffts,
  stream <- ResultsInFlight,
  consumed <- message
ResultsSpec == Results!Spec

\* Each result that is read is printed before the next one is, and a print is of a
\* newer result than all before it, unless the mailbox is not there (or has not
\* been, and nothing was ever read): only then does the read that is not tested let
\* monitoring print the same result again (audio_setup.c:27-30).
PrintedOnce ==
  [][/\ message' # message => shown = message
     /\ mon = "print" /\ mon' = "loop" =>
          shown' > shown \/ ~IsOpen(mailbox_logging) \/ message = 0]_vars

\* No copy of a received chunk leaves x (audio_setup.c:54, 76): holds as long
\* as the codec delivers whole chunks.
NoOverrun == "overrun" \notin faults

\* Whatever read() delivers, a copy starts within x and ends less than a chunk past
\* it, and one that leaves x is the last before the FFT (audio_setup.c:76-80).
OverrunIsShort ==
  treat = "copy" /\ received.len > 0 =>
    /\ CopyStart \in Bytes
    /\ CopyTarget \subseteq 0 .. 2 * FFT_BUFFER_SIZE + ChunkBytes - 3
    /\ CopyTarget \subseteq Bytes \/ size + received.len >= FFT_BUFFER_SIZE

\* Whatever read() delivers, as many bytes of x come with the chunks of the current
\* window as size says when the FFT starts: none is overwritten or left from before.
WindowCounted ==
  treat = "fft" /\ faults = {} =>
    Cardinality({b \in Bytes : \E k \in DOMAIN window : x[b] = window[k]}) = size

\* When the FFT starts, every chunk accepted since the last one is still in x,
\* all its bytes, and they amount to FFT_BUFFER_SIZE.
WindowIntact ==
  treat = "fft" /\ faults = {} =>
    /\ Len(window) = ChunksPerWindow
    /\ \A k \in DOMAIN window :
         Cardinality({b \in Bytes : x[b] = window[k]}) = ChunkBytes

\* Treatment gives up while the program runs only when monitoring let the
\* logging pool run dry, or when its mailbox could not be created.
GivesUpOnlyWhenLogFull ==
  [][treat' \in {"exit", "done"} /\ treat \notin {"exit", "done"} /\ running =>
       \/ treat = "create"
       \/ Len(mailbox_logging.msgs) = LogSlots]_vars

\* Who waits for a message has somebody left to send it, or finds the mailbox
\* deleted: when a task ends, or gives up, the one behind it is not left waiting.
NoOrphanedWait ==
  /\ treat = "recv" /\ IsOpen(mailbox_treatment) =>
       acq # "done" \/ HasMessage(mailbox_treatment)
  /\ mon = "read" /\ IsOpen(mailbox_logging) =>
       treat # "done" \/ HasMessage(mailbox_logging)

\* How many steps each task can still take once running is cleared.
AcqLeft == [done |-> 0, loop |-> 1, period |-> 2, read |-> 2, create |-> 3][acq]
TreatLeft == [done |-> 0, exit |-> 1, loop |-> 2, create |-> 3, send |-> 3, fft |-> 4,
              copy |-> 5, recv |-> 6][treat]
MonLeft == [done |-> 0, loop |-> 1, print |-> 2, read |-> 3][mon]
StepsLeft == AcqLeft + TreatLeft + MonLeft + (IF alive THEN 1 ELSE 0)

\* After the stop every step brings the tasks nearer to their end: none goes round its
\* loop again, for another chunk or result, whatever is pending and however long.
StopIsShort == [][~running => StepsLeft' < StepsLeft]_vars

-----------------------------------------------------------------------------
(* Liveness, under FairSpec *)

AudioEnabled == alive /\ running /\ audio_running /\ treat \notin {"exit", "done"}

\* A chunk that was sent is copied into x unless audio is switched off, the
\* program is stopped, or treatment has given up.
SentIsConsumed ==
  \A n \in 1 .. MaxChunk :
    (\E i \in DOMAIN mailbox_treatment.msgs : mailbox_treatment.msgs[i].id = n)
      ~> (consumed >= n \/ ~AudioEnabled)

\* Clearing running ends the three tasks, however they are blocked: each
\* deletion of a mailbox wakes the task that waits on it (or kills the process).
StopEndsTasks == ~running ~> (AllDone \/ ~alive)

-----------------------------------------------------------------------------
(* What the documents say and the code does not do *)

\* audio_utils.h:59 counts samples where read_samples counts bytes, so that a
\* chunk fills half of the room it is given in x.  Every sample the FFT reads
\* (left channel: the even ones) should come with the current window.
FftInputIsFresh ==
  treat = "fft" /\ faults = {} =>
    \A i \in 0 .. FFT_BUFFER_SIZE \div 2 - 1 :
      \E k \in DOMAIN window : x[4 * i] = window[k]

\* rapport.typ:113: KEY0 stops the program cleanly.  Deleting the mailbox under
\* a blocked receive must not be answered by a copy of -EIDRM bytes.
AudioStopsCleanly == "receive_after_delete" \notin faults

=============================================================================
