------------------------------- MODULE Program -------------------------------
(***************************************************************************)
(* The process as a whole: main and the tasks it starts, on the one CPU    *)
(* that labo5.pdf pins them to (taskset).  A task runs until it blocks or  *)
(* a task of higher priority becomes ready; tasks of equal priority queue  *)
(* up, and nothing ever takes the CPU from one in favour of another.  What *)
(* the tasks compute is in the other modules; here is when they may.       *)
(*                                                                         *)
(* A step is what a thread does between two points where it may be         *)
(* preempted, wait or read what others write.                              *)
(***************************************************************************)
EXTENDS Integers, Sequences

CONSTANT PoolSlots  \* buffers in the pool of a mailbox

ASSUME PoolSlotsAssumption == PoolSlots \in Nat \ {0}

Tasks == {"ctl", "acq", "treat", "mon", "video", "grey", "conv"}
Threads == Tasks \cup {"main"}
Periodic == {"ctl", "acq", "video"}
Workers == {"grey", "conv"}

VARIABLES
  pc,       \* per task: where it is
  at,       \* main: the line of MainProgram it is at
  ready,    \* per priority: the threads that can run, the first one does
  running, audio, video,  \* Ctl_data_t; "unset": nothing has been assigned
  registers, screen,      \* the two mappings succeeded
  mailbox,  \* mailbox_treatment, mailbox_logging: messages, None if not created
  signal,   \* video_task_event: the workers whose bit is set
  process   \* "up", or how it ended

vars == <<pc, at, ready, running, audio, video, registers, screen, mailbox, signal, process>>
flags == <<running, audio, video>>
maps == <<registers, screen>>

None == -1
Flags == {"unset", "on", "off"}

\* (The next two: main, or the workers, at the priority of the other tasks.)
MainAsHigh == [t \in Threads |-> IF t \in Workers THEN 40 ELSE 50]
WorkersAsHigh == [t \in Threads |-> IF t = "main" THEN 0 ELSE 50]
Priority == [t \in Threads |-> IF t = "main" THEN 0 ELSE IF t \in Workers THEN 40 ELSE 50]
Priorities == {0, 40, 50}

Spawn(t) == [do |-> "spawn", task |-> t]
Join(t) == [do |-> "join", task |-> t]
Do(what) == [do |-> what, task |-> "main"]

Tidy == <<Join("ctl"), Join("acq"), Join("treat"), Join("mon"), Join("video"),
          Do("clear"), Do("free"), Do("exit")>>
\* (The next three: an order of the calls that a refactoring could choose.)
ControlLast ==
  <<Do("create_event"), Spawn("acq"), Spawn("treat"), Spawn("mon"), Do("init_video"),
    Spawn("video"), Spawn("ctl")>> \o Tidy
TreatmentFirst ==
  <<Do("create_event"), Spawn("ctl"), Spawn("treat"), Spawn("acq"), Spawn("mon"),
    Do("init_video"), Spawn("video")>> \o Tidy
MainProgram ==
  <<Do("create_event"), Spawn("ctl"), Spawn("acq"), Spawn("treat"), Spawn("mon"),
    Do("init_video"), Spawn("video")>> \o Tidy
Now == MainProgram[at]

TypeOK ==
  /\ pc \in [Tasks -> {"none", "start", "loop", "receive", "got", "wait", "read",
                       "reading", "frame", "convert", "ended"}]
  /\ at \in 1 .. Len(MainProgram)
  /\ ready \in [Priorities -> Seq(Threads)]
  /\ running \in BOOLEAN /\ audio \in Flags /\ video \in Flags
  /\ registers \in BOOLEAN /\ screen \in BOOLEAN
  /\ mailbox \in [{"treatment", "logging"} -> None .. PoolSlots]
  /\ signal \subseteq Workers
  /\ process \in {"up", "success", "failure", "crash"}

\* init_ioctl returns 0 whether or not the registers could be mapped.
Init ==
  /\ pc = [t \in Tasks |-> "none"] /\ at = 1
  /\ ready = [p \in Priorities |-> IF p = Priority["main"] THEN <<"main">> ELSE <<>>]
  /\ running = TRUE /\ audio = "unset" /\ video = "unset"
  /\ registers \in BOOLEAN /\ screen = FALSE
  /\ mailbox = [m \in {"treatment", "logging"} |-> None]
  /\ signal = {} /\ process = "up"

-----------------------------------------------------------------------------
(* The scheduler *)

\* t is the first of the highest priority that has a ready thread.
Running(t) ==
  /\ ready[Priority[t]] # <<>> /\ t = Head(ready[Priority[t]])
  /\ \A p \in Priorities : p > Priority[t] => ready[p] = <<>>

IsReady(t) == \E i \in 1 .. Len(ready[Priority[t]]) : ready[Priority[t]][i] = t
Blocked(t, where) == pc[t] = where /\ ~IsReady(t)

\* The threads that a call makes ready, all of one priority, and the place where
\* they will go on.
Wake(who, where) == [who |-> who, to |-> where]
NoWake == Wake(<<>>, "none")
WakeIf(u, from, where) == IF Blocked(u, from) THEN Wake(<<u>>, where) ELSE NoWake
Woken(u, wake) == \E i \in 1 .. Len(wake.who) : wake.who[i] = u

\* The queues when t has gone on or not and the threads of wake are ready.
Queues(t, goes_on, wake) ==
  [p \in Priorities |->
     (IF p = Priority[t] /\ ~goes_on THEN Tail(ready[p]) ELSE ready[p])
       \o (IF wake.who # <<>> /\ p = Priority[wake.who[1]] THEN wake.who ELSE <<>>)]

Moved(t, where, wake) ==
  [u \in Tasks |-> IF u = t THEN where ELSE IF Woken(u, wake) THEN wake.to ELSE pc[u]]

Active(t, where) == process = "up" /\ Running(t) /\ pc[t] = where

\* t goes on at where, waits there, or returns; each with the threads it wakes.
GoOn(t, where, wake) ==
  pc' = Moved(t, where, wake) /\ ready' = Queues(t, TRUE, wake) /\ UNCHANGED process
WaitAt(t, where, wake) ==
  pc' = Moved(t, where, wake) /\ ready' = Queues(t, FALSE, wake) /\ UNCHANGED process
\* The end of t also wakes main, if that waits for it.
Return(t, wake) ==
  /\ pc' = Moved(t, "ended", wake) /\ UNCHANGED process
  /\ ready' = [Queues(t, FALSE, wake) EXCEPT ![Priority["main"]] =
                 IF Now = Join(t) /\ ~IsReady("main") THEN Append(@, "main") ELSE @]

\* The end of the process is that of all its threads.
Ends(how) ==
  /\ process' = how
  /\ pc' = [t \in Tasks |-> "ended"] /\ ready' = [p \in Priorities |-> <<>>]

\* The timer releases a task that waits for its period.
Release(t) ==
  /\ process = "up" /\ t \in Periodic /\ Blocked(t, "loop")
  /\ ready' = [ready EXCEPT ![Priority[t]] = Append(@, t)]
  /\ UNCHANGED <<pc, at, flags, maps, mailbox, signal, process>>

-----------------------------------------------------------------------------
(* main *)

MainCreateEvent ==
  /\ process = "up" /\ Running("main") /\ Now.do = "create_event"
  /\ \/ GoOn("main", "create_event", NoWake) /\ at' = at + 1
     \/ Ends("failure") /\ at' = at
  /\ UNCHANGED <<flags, maps, mailbox, signal>>

\* (init_audio, between two spawns, returns 0 whether or not it could open the
\* codec; the reads that fail then are in AudioPipeline.)
MainSpawn ==
  /\ process = "up" /\ Running("main") /\ Now.do = "spawn"
  /\ \/ /\ GoOn("main", "spawn", Wake(<<Now.task>>, "start")) /\ at' = at + 1
     \/ Ends("failure") /\ at' = at
  /\ UNCHANGED <<flags, maps, mailbox, signal>>

\* A task that cannot be created is an error, a device that cannot be is not.
MainInitVideo ==
  /\ process = "up" /\ Running("main") /\ Now.do = "init_video"
  /\ \/ screen' \in BOOLEAN /\ GoOn("main", "init_video", NoWake) /\ at' = at + 1
     \/ Ends("failure") /\ UNCHANGED <<at, screen>>
  /\ UNCHANGED <<flags, registers, mailbox, signal>>

MainJoin ==
  /\ process = "up" /\ Running("main") /\ Now.do = "join"
  /\ IF pc[Now.task] = "ended" THEN GoOn("main", "join", NoWake) /\ at' = at + 1
     ELSE WaitAt("main", "join", NoWake) /\ at' = at
  /\ UNCHANGED <<flags, maps, mailbox, signal>>

\* clear_ioctl, clear_audio and clear_video; both free.  A mapping that was used
\* can be unmapped.
MainTidies ==
  /\ process = "up" /\ Running("main")
  /\ \/ Now.do \in {"clear", "free"} /\ GoOn("main", Now.do, NoWake) /\ at' = at + 1
     \/ Now.do = "exit" /\ Ends("success") /\ at' = at
  /\ UNCHANGED <<flags, maps, mailbox, signal>>

-----------------------------------------------------------------------------
(* ioctl_ctl_task *)

Ctl ==
  /\ Active("ctl", "start") \/ Active("ctl", "loop")
  /\ \/ ~running /\ Return("ctl", NoWake) /\ UNCHANGED flags
     \/ running /\ ~registers /\ Ends("crash") /\ UNCHANGED flags
     \/ /\ running /\ registers
        /\ audio' \in {"on", "off"} /\ video' \in {"on", "off"} /\ running' \in BOOLEAN
        /\ WaitAt("ctl", "loop",
                  IF video' = "on" THEN WakeIf("video", "wait", "read") ELSE NoWake)
  /\ UNCHANGED <<at, maps, mailbox, signal>>

-----------------------------------------------------------------------------
(* acquisition_task, treatment_task_t_lol and monitoring_task *)

\* A mailbox that cannot be created ends the process; a period that cannot be set
\* ends the task, which leaves its mailbox open.
AcqStart ==
  /\ Active("acq", "start")
  /\ \/ /\ GoOn("acq", "loop", NoWake) \/ Return("acq", NoWake)
        /\ mailbox' = [mailbox EXCEPT !["treatment"] = 0]
     \/ Ends("failure") /\ UNCHANGED mailbox
  /\ UNCHANGED <<at, flags, maps, signal>>

\* The end of an iteration, rt_task_wait_period.
AcqWaits(wake) == WaitAt("acq", "loop", wake)

\* rt_queue_alloc finds a buffer that neither waits in the mailbox nor is in the hands
\* of treatment.  (AcqUnchecked: a pool without a limit.)
AcqUnchecked == TRUE
AcqAllocates ==
  mailbox["treatment"] + (IF pc["treat"] = "got" THEN 1 ELSE 0) < PoolSlots

\* One iteration: the chunk is handed to treatment, or queued, or there is none: the
\* read brought nothing, or failed for want of a buffer, and NULL cannot be sent.
AcqLoop ==
  /\ Active("acq", "loop") /\ running
  /\ \/ /\ AcqAllocates /\ Blocked("treat", "receive")
        /\ AcqWaits(Wake(<<"treat">>, "got")) /\ UNCHANGED mailbox
     \/ /\ AcqAllocates /\ ~Blocked("treat", "receive") /\ AcqWaits(NoWake)
        /\ mailbox' = [mailbox EXCEPT !["treatment"] = @ + 1]
     \/ AcqWaits(NoWake) /\ UNCHANGED mailbox
  /\ UNCHANGED <<at, flags, maps, signal>>

\* Deleting the mailbox wakes treatment with an error: it copies that many bytes.
AcqEnd ==
  /\ Active("acq", "loop") /\ ~running
  /\ Return("acq", WakeIf("treat", "receive", "receive"))
  /\ mailbox' = [mailbox EXCEPT !["treatment"] = None]
  /\ UNCHANGED <<at, flags, maps, signal>>

\* Without its mailbox the task returns.
TreatStart ==
  /\ Active("treat", "start")
  /\ \/ GoOn("treat", "loop", NoWake) /\ mailbox' = [mailbox EXCEPT !["logging"] = 0]
     \/ Return("treat", NoWake) /\ UNCHANGED mailbox
  /\ UNCHANGED <<at, flags, maps, signal>>

\* rt_queue_receive: a chunk, or the wait for one, or an error, which treatment
\* takes for a number of bytes to copy.
TreatReceive ==
  CASE mailbox["treatment"] = None -> Ends("crash") /\ UNCHANGED mailbox
    [] mailbox["treatment"] = 0 -> WaitAt("treat", "receive", NoWake) /\ UNCHANGED mailbox
    [] OTHER -> /\ GoOn("treat", "got", NoWake)
                /\ mailbox' = [mailbox EXCEPT !["treatment"] = @ - 1]

\* With audio off the loop only tests the two flags again: it changes nothing.
TreatLoop ==
  /\ Active("treat", "loop") /\ running
  /\ \/ audio \in {"on", "unset"} /\ TreatReceive
     \/ audio \in {"off", "unset"} /\ UNCHANGED <<pc, ready, mailbox, process>>
  /\ UNCHANGED <<at, flags, maps, signal>>

\* What it waited on has been deleted.
TreatError ==
  /\ Active("treat", "receive") /\ Ends("crash")
  /\ UNCHANGED <<at, flags, maps, mailbox, signal>>

\* A chunk may complete a buffer.  If the pool of results, which may be the smaller
\* one, is empty, because the earlier ones wait for monitoring, the task breaks out of
\* its loop.
TreatChunk ==
  /\ Active("treat", "got")
  /\ \/ GoOn("treat", "loop", NoWake) /\ UNCHANGED mailbox
     \/ /\ Blocked("mon", "receive") /\ UNCHANGED mailbox
        /\ GoOn("treat", "loop", Wake(<<"mon">>, "loop"))
     \/ /\ ~Blocked("mon", "receive") /\ mailbox["logging"] < PoolSlots
        /\ GoOn("treat", "loop", NoWake) /\ mailbox' = [mailbox EXCEPT !["logging"] = @ + 1]
     \/ /\ mailbox["logging"] > 0
        /\ Return("treat", NoWake) /\ mailbox' = [mailbox EXCEPT !["logging"] = None]
  /\ UNCHANGED <<at, flags, maps, signal>>

TreatEnd ==
  /\ Active("treat", "loop") /\ ~running
  /\ Return("treat", WakeIf("mon", "receive", "loop"))
  /\ mailbox' = [mailbox EXCEPT !["logging"] = None]
  /\ UNCHANGED <<at, flags, maps, signal>>

\* A read that fails is ignored.
MonRead ==
  \/ mailbox["logging"] = None /\ GoOn("mon", "loop", NoWake) /\ UNCHANGED mailbox
  \/ mailbox["logging"] = 0 /\ WaitAt("mon", "receive", NoWake) /\ UNCHANGED mailbox
  \/ /\ mailbox["logging"] > 0 /\ GoOn("mon", "loop", NoWake)
     /\ mailbox' = [mailbox EXCEPT !["logging"] = @ - 1]

Mon ==
  /\ Active("mon", "start") \/ Active("mon", "loop")
  /\ \/ running /\ MonRead
     \/ ~running /\ Return("mon", NoWake) /\ UNCHANGED mailbox
  /\ UNCHANGED <<at, flags, maps, signal>>

-----------------------------------------------------------------------------
(* video_task *)

\* A period that cannot be set ends the task when its workers have started.
VideoStart ==
  /\ Active("video", "start")
  /\ \/ GoOn("video", "loop", Wake(<<"grey", "conv">>, "start"))
     \/ Return("video", Wake(<<"grey", "conv">>, "start"))
     \/ Ends("failure")
  /\ UNCHANGED <<at, flags, maps, mailbox, signal>>

VideoLoop ==
  /\ Active("video", "loop")
  /\ \/ ~running /\ Return("video", NoWake)
     \/ running /\ video \in {"on", "unset"} /\ WaitAt("video", "reading", NoWake)
     \/ running /\ video \in {"off", "unset"} /\ WaitAt("video", "wait", NoWake)
  /\ UNCHANGED <<at, flags, maps, mailbox, signal>>

\* The event it waited for.
VideoRead ==
  /\ Active("video", "read") /\ WaitAt("video", "reading", NoWake)
  /\ UNCHANGED <<at, flags, maps, mailbox, signal>>

\* The read of a file is done by Linux, while the other tasks go on.
ReadDone ==
  /\ process = "up" /\ Blocked("video", "reading")
  /\ \/ \E where \in {"frame", "loop"} :
          /\ pc' = [pc EXCEPT !["video"] = where]
          /\ ready' = [ready EXCEPT ![Priority["video"]] = Append(@, "video")]
          /\ UNCHANGED process
     \/ Ends("failure")
  /\ UNCHANGED <<at, flags, maps, mailbox, signal>>

\* Switches 8 and 9 say which of the three it is.
VideoFrame ==
  /\ Active("video", "frame")
  /\ \/ \E w \in Workers :
          /\ WaitAt("video", "loop", WakeIf(w, "wait", "convert"))
          /\ signal' = signal \cup {w}
     \/ /\ IF screen THEN WaitAt("video", "loop", NoWake) ELSE Ends("crash")
        /\ UNCHANGED signal
  /\ UNCHANGED <<at, flags, maps, mailbox>>

-----------------------------------------------------------------------------
(* greyscale_task and convolution_task *)

\* Each stores through a pointer that nothing has set.
WorkerStart(w) ==
  /\ Active(w, "start")
  /\ GoOn(w, "loop", NoWake) \/ Ends("crash")
  /\ UNCHANGED <<at, flags, maps, mailbox, signal>>

\* Its arguments are locals of video_task: once that has returned they may hold
\* anything, or point to nothing.
WorkerLoop(w) ==
  /\ Active(w, "loop")
  /\ \/ (running \/ pc["video"] = "ended") /\ GoOn(w, "wait", NoWake)
     \/ (~running \/ pc["video"] = "ended") /\ Return(w, NoWake)
     \/ pc["video"] = "ended" /\ Ends("crash")
  /\ UNCHANGED <<at, flags, maps, mailbox, signal>>

WorkerWait(w) ==
  /\ Active(w, "wait")
  /\ \/ (w \in signal \/ pc["video"] = "ended") /\ GoOn(w, "convert", NoWake)
     \/ (w \notin signal \/ pc["video"] = "ended") /\ WaitAt(w, "wait", NoWake)
  /\ UNCHANGED <<at, flags, maps, mailbox, signal>>

WorkerConvert(w) ==
  /\ Active(w, "convert")
  /\ \/ screen /\ GoOn(w, "loop", NoWake) /\ signal' = signal \ {w}
     \/ (~screen \/ pc["video"] = "ended") /\ Ends("crash") /\ UNCHANGED signal
  /\ UNCHANGED <<at, flags, maps, mailbox>>

-----------------------------------------------------------------------------
Main == MainCreateEvent \/ MainSpawn \/ MainInitVideo \/ MainJoin \/ MainTidies
Acq == AcqStart \/ AcqLoop \/ AcqEnd
Treat == TreatStart \/ TreatLoop \/ TreatError \/ TreatChunk \/ TreatEnd
Video == VideoStart \/ VideoLoop \/ VideoRead \/ VideoFrame
Worker(w) ==
  WorkerStart(w) \/ WorkerLoop(w) \/ WorkerWait(w) \/ WorkerConvert(w)

\* The process has ended, or main joins a task that nobody will wake: video waits
\* for an event of the control task, which has ended, or treatment for a chunk of
\* acquisition, which could not set its period.
Halted ==
  /\ \/ process # "up"
     \/ pc["ctl"] = "ended" /\ Blocked("video", "wait")
     \/ /\ pc["acq"] = "ended" /\ mailbox["treatment"] # None
        /\ Blocked("treat", "receive")
  /\ UNCHANGED vars

Next ==
  \/ Main \/ Ctl \/ Acq \/ Treat \/ Mon \/ Video \/ ReadDone
  \/ \E w \in Workers : Worker(w)
  \/ \E t \in Periodic : Release(t)
  \/ Halted

Spec == Init /\ [][Next]_vars

\* The timer fires, the disk answers, and the CPU does not stop before a task of
\* the highest priority.  No fairness is assumed of main or of the workers: a
\* conversion may take for ever.
FairSpec ==
  /\ Spec
  /\ WF_vars(Ctl \/ Acq \/ Treat \/ Mon \/ Video) /\ WF_vars(ReadDone)
  /\ \A t \in Periodic : WF_vars(Release(t))

-----------------------------------------------------------------------------
(* Properties *)

\* main does not initialise audio_running and video_running (main.c:143-145): the
\* control task, started first and above main, has set them before another task
\* can read them.
FlagsAreSet ==
  \A t \in {"treat", "video"} :
    process = "up" /\ Running(t) /\ pc[t] = "loop" /\ running => audio # "unset" /\ video # "unset"

\* While the program runs a mailbox is created by one task before another uses
\* it, unless it cannot be: the order of the starts is the only synchronisation
\* (main.c:171-185, audio_setup.c:27 and 72).
MailboxesReady ==
  process = "up" /\ running =>
    /\ Running("treat") /\ pc["treat"] = "loop" => mailbox["treatment"] # None
    /\ Running("mon") /\ pc["mon"] \in {"start", "loop"} /\ pc["treat"] # "ended" =>
         mailbox["logging"] # None

\* Nobody joins the workers (main.c:222-226): main clears and frees what they use,
\* and the stack their arguments are on is gone, only when none of them is
\* at work, because they have the CPU before main does.
FreedUnused ==
  Now.do \in {"clear", "free", "exit"} =>
    \A w \in Workers : pc[w] \in {"none", "ended"} \/ Blocked(w, "wait")

\* As long as treatment works and audio is on, the periodic tasks run again and
\* again, even if a conversion takes for ever (labo5.pdf, p. 2;
\* video_setup.h:26-27).
PeriodicTasksNotStarved ==
  <>[](process = "up" /\ running /\ audio = "on" /\ pc["treat"] \notin {"none", "ended"}) =>
    \A t \in Periodic :
      []<>(\/ Running(t) \/ pc[t] = "ended"
           \/ t = "video" /\ (pc["video"] = "none" \/ video = "off"))

\* A switch that is moved is read (rapport.typ:97), as long as treatment works.
SwitchesAreRead ==
  process = "up" /\ pc["ctl"] = "loop" /\ pc["treat"] = "loop"
    ~> Running("ctl") \/ process # "up" \/ pc["treat"] = "ended"

=============================================================================
