---------------------------- MODULE VideoPipeline ---------------------------
(***************************************************************************)
(* The three video tasks of video_setup.c.  video_task plays the file:     *)
(* it reads a frame into img.data and either copies it to the screen or    *)
(* signals the convolution or the greyscale task, which read img.data and  *)
(* write the screen on their own time and clear their run bit when done.   *)
(*                                                                         *)
(* The control task is the environment: its steps are those of module      *)
(* ControlFlags.  A copy of a frame, to or from img.data or the screen, is *)
(* not atomic: the task that makes it stays at "read", "compute" or "show" *)
(* while others move.  Pixels are abstracted away.                         *)
(***************************************************************************)
EXTENDS Naturals

CONSTANTS
  FileFrames,  \* frames in /usr/resources/output_video.raw
  SetupFails   \* may the calls of the prologues and read() fail?

ASSUME ConstantsAssumption == FileFrames \in Nat /\ SetupFails \in BOOLEAN

Workers == {"grey", "conv"}

\* control.h:9-12 and video_setup.h:40-43: the bit of control_event that
\* activates a worker and the bits of video_task_event it runs by.
Activation == [grey |-> "GREYSCALE_ACTIVATION", conv |-> "CONVOLUTION_ACTIVATION"]
RunBit == [grey |-> "GREYSCALE_RUNNING", conv |-> "CONVOLUTION_RUNNING"]
ControlBits == {"VIDEO_RUNNING"} \cup {Activation[w] : w \in Workers}
TaskBits == {"GREYSCALE_STOP"} \cup {RunBit[w] : w \in Workers}

VARIABLES
  running, video_running, control_event,  \* written by the control task
  alive,                                  \* FALSE once the process has died
  video, worker,                          \* where each task is
  video_task_event,                       \* the bits that are set
  position,                               \* frames read since the last lseek
  asked                                   \* history: has video_task signalled
                                          \* w since w's last pass began?

control_vars == <<running, video_running, control_event>>
vars == <<control_vars, alive, video, worker, video_task_event, position, asked>>

TypeOK ==
  /\ running \in BOOLEAN /\ video_running \in BOOLEAN /\ alive \in BOOLEAN
  /\ control_event \subseteq ControlBits
  /\ video \in {"create", "spawn_conv", "period", "loop", "wait", "read",
                "conv", "grey", "show", "done"}
  /\ worker \in [Workers -> {"none", "malloc", "loop", "wait", "compute", "show",
                             "clear", "stop", "done"}]
  /\ video_task_event \subseteq TaskBits
  /\ position \in 0 .. FileFrames
  /\ asked \in [Workers -> BOOLEAN]

\* main spawns video_task last: the control task may have run for long.
Init ==
  /\ running \in BOOLEAN /\ video_running \in BOOLEAN
  /\ control_event \in SUBSET ControlBits
  /\ alive = TRUE
  /\ video = "create" /\ worker = [w \in Workers |-> "none"]
  /\ video_task_event = {}
  /\ position = 0
  /\ asked = [w \in Workers |-> FALSE]

-----------------------------------------------------------------------------
(* Environment: the control task (see ControlFlags) *)

SetFlag ==
  /\ alive /\ running
  /\ video_running' = ~video_running
  /\ UNCHANGED <<running, control_event>>

SetBit ==
  /\ alive /\ running
  /\ \E b \in ControlBits :
       control_event' = IF b \in control_event THEN control_event \ {b}
                        ELSE control_event \cup {b}
  /\ UNCHANGED <<running, video_running>>

Stop ==
  /\ alive /\ running
  /\ running' = FALSE
  /\ UNCHANGED <<video_running, control_event>>

Environment ==
  /\ SetFlag \/ SetBit \/ Stop
  /\ UNCHANGED <<alive, video, worker, video_task_event, position, asked>>

-----------------------------------------------------------------------------
(* video_task *)

\* exit(EXIT_FAILURE) of a task ends the process.
Exit ==
  /\ alive' = FALSE
  /\ UNCHANGED <<control_vars, video, worker, video_task_event, position, asked>>

VideoFails == /\ alive /\ SetupFails
              /\ video \in {"create", "spawn_conv", "period", "read"}
              /\ Exit

\* rt_event_create and the first rt_task_spawn.
SpawnGrey ==
  /\ alive /\ video = "create"
  /\ video' = "spawn_conv"
  /\ worker' = [worker EXCEPT !["grey"] = "malloc"]
  /\ video_task_event' = {}
  /\ UNCHANGED <<control_vars, alive, position, asked>>

SpawnConv ==
  /\ alive /\ video = "spawn_conv"
  /\ video' = "period"
  /\ worker' = [worker EXCEPT !["conv"] = "malloc"]
  /\ UNCHANGED <<control_vars, alive, video_task_event, position, asked>>

\* rt_task_set_periodic, whose failure returns, and open.
VideoPeriod ==
  /\ alive /\ video = "period"
  /\ \/ video' = "loop"
     \/ SetupFails /\ video' = "done"
  /\ UNCHANGED <<control_vars, alive, worker, video_task_event, position, asked>>

\* The loop test, after the wait for the period, and the test of the flag.
VideoLoop ==
  /\ alive /\ video = "loop"
  /\ video' = IF ~running THEN "done" ELSE IF video_running THEN "read" ELSE "wait"
  /\ UNCHANGED <<control_vars, alive, worker, video_task_event, position, asked>>

\* rt_event_wait(control_event, VIDEO_RUNNING, .., TM_INFINITE).
VideoWait ==
  /\ alive /\ video = "wait" /\ "VIDEO_RUNNING" \in control_event
  /\ video' = "read"
  /\ UNCHANGED <<control_vars, alive, worker, video_task_event, position, asked>>

\* read() returns with a frame, or with 0 at the end of the file: lseek and
\* continue, without a wait for the period.
VideoRead ==
  /\ alive /\ video = "read"
  /\ IF position < FileFrames
     THEN position' = position + 1 /\ video' = "conv"
     ELSE position' = 0 /\ video' = "loop"
  /\ UNCHANGED <<control_vars, alive, worker, video_task_event, asked>>

\* rt_event_signal of the run bit.
Raised(w) == video_task_event \cup {RunBit[w]}

Signal(w) ==
  /\ video_task_event' = Raised(w)
  /\ asked' = [asked EXCEPT ![w] = TRUE]

\* rt_event_wait(control_event, CONVOLUTION_ACTIVATION, .., TM_NONBLOCK), then
\* the same for greyscale; without either the task shows the frame itself.
VideoTestConv ==
  /\ alive /\ video = "conv"
  /\ IF Activation["conv"] \in control_event
     THEN Signal("conv") /\ video' = "loop"
     ELSE video' = "grey" /\ UNCHANGED <<video_task_event, asked>>
  /\ UNCHANGED <<control_vars, alive, worker, position>>

VideoTestGrey ==
  /\ alive /\ video = "grey"
  /\ IF Activation["grey"] \in control_event
     THEN Signal("grey") /\ video' = "loop"
     ELSE video' = "show" /\ UNCHANGED <<video_task_event, asked>>
  /\ UNCHANGED <<control_vars, alive, worker, position>>

\* The memcpy to the screen ends.  (ShowWhenIdle: it waits for the workers.)
ShowWhenIdle == \A w \in Workers : RunBit[w] \notin video_task_event
MayShow == TRUE
VideoShow ==
  /\ alive /\ video = "show" /\ MayShow
  /\ video' = "loop"
  /\ UNCHANGED <<control_vars, alive, worker, video_task_event, position, asked>>

-----------------------------------------------------------------------------
(* greyscale_task and convolution_task *)

WorkerStep(w, from, to) ==
  /\ alive /\ worker[w] = from
  /\ worker' = [worker EXCEPT ![w] = to]
  /\ UNCHANGED <<control_vars, alive, video, position>>

\* The prologue writes through a pointer that was never set (lines 21-25 and
\* 55-56): it may pass or kill the process, as may a malloc that fails.
WorkerMalloc(w) ==
  WorkerStep(w, "malloc", "loop") /\ UNCHANGED <<video_task_event, asked>>

\* So may anything it does with its arguments once video_task has returned:
\* they are locals of that task (95-110).
WorkerCrash(w) ==
  /\ alive
  /\ worker[w] = "malloc" \/ (video = "done" /\ worker[w] \notin {"none", "done"})
  /\ Exit

WorkerLoop(w) ==
  /\ WorkerStep(w, "loop", IF running THEN "wait" ELSE "done")
  /\ UNCHANGED <<video_task_event, asked>>

\* rt_event_wait(.., TM_INFINITE) returns and leaves the bit set.
WorkerWait(w) ==
  /\ RunBit[w] \in video_task_event
  /\ WorkerStep(w, "wait", "compute")
  /\ asked' = [asked EXCEPT ![w] = FALSE]
  /\ UNCHANGED video_task_event

\* The conversion of img.data into the worker's own memory ends.
WorkerCompute(w) ==
  WorkerStep(w, "compute", "show") /\ UNCHANGED <<video_task_event, asked>>

\* The memcpy to the screen ends.
WorkerShow(w) ==
  WorkerStep(w, "show", "clear") /\ UNCHANGED <<video_task_event, asked>>

\* rt_event_clear of the run bit.  (NotCleared: the call forgotten;
\* OtherCleared: the mask of the other worker.)
NotCleared(w) == video_task_event
OtherCleared(w) == video_task_event \ {RunBit[v] : v \in Workers}
Cleared(w) == video_task_event \ {RunBit[w]}

WorkerClear(w) ==
  /\ WorkerStep(w, "clear", IF w = "grey" THEN "stop" ELSE "loop")
  /\ video_task_event' = Cleared(w)
  /\ UNCHANGED asked

\* rt_event_signal(GREYSCALE_STOP), which nobody waits for.
WorkerSignalStop(w) ==
  /\ WorkerStep(w, "stop", "loop")
  /\ video_task_event' = video_task_event \cup {"GREYSCALE_STOP"}
  /\ UNCHANGED asked

-----------------------------------------------------------------------------
VideoTask ==
  \/ VideoFails \/ SpawnGrey \/ SpawnConv \/ VideoPeriod \/ VideoLoop \/ VideoWait
  \/ VideoRead \/ VideoTestConv \/ VideoTestGrey \/ VideoShow

Worker(w) ==
  \/ WorkerMalloc(w) \/ WorkerCrash(w) \/ WorkerLoop(w) \/ WorkerWait(w)
  \/ WorkerCompute(w) \/ WorkerShow(w) \/ WorkerClear(w) \/ WorkerSignalStop(w)

\* Once the control task is gone every task may be blocked for good.
Quiet == ~(alive /\ running) /\ UNCHANGED vars

Next == Environment \/ VideoTask \/ (\E w \in Workers : Worker(w)) \/ Quiet

Spec == Init /\ [][Next]_vars

\* Once running is cleared no task of the priority of video_task spins any more, and
\* it runs when it can.  Before, it may get no turn, when audio is off
\* (audio_setup.c:66), and the workers, whose priority is lower, when anything else is
\* busy: they are assumed to run only where a property says so.
FairSpec == Spec /\ WF_vars(~running /\ VideoTask)
VideoRuns == WF_vars(VideoTask)
WorkersRun == WF_vars(Worker("grey")) /\ WF_vars(Worker("conv"))

-----------------------------------------------------------------------------
(* Safety *)

\* A worker's run bit stays set for the whole of its pass: nothing but the
\* worker clears it, so that bits never tell of an idle worker that is busy.
RunBitHeld ==
  \A w \in Workers :
    worker[w] \in {"compute", "show", "clear"} => RunBit[w] \in video_task_event

\* A worker starts a pass only if video_task has asked for one since it started
\* the last: a run bit is never answered twice (requests made during a pass may
\* be absorbed by its end, video_setup.c:43 and 73).
NoSpuriousPass ==
  [][\A w \in Workers :
       worker[w] = "wait" /\ worker'[w] = "compute" => asked[w]]_vars

-----------------------------------------------------------------------------
(* Liveness, under FairSpec *)

\* The tasks that are copying to the screen.
Writing == {t \in {"video"} \cup Workers :
              alive /\ (IF t = "video" THEN video ELSE worker[t]) = "show"}

\* Who owns the screen when the activation bits stay as they are.
Owner(bits) == CASE Activation["conv"] \in bits -> "conv"
                 [] Activation["grey"] \in bits -> "grey"
                 [] OTHER -> "video"

\* Once the switches stay in a mode, and as long as all three tasks have their turns,
\* only the task of that mode ends up writing the screen: no left-over request keeps
\* another one at it (rapport.typ:97).
OneWriterOnceModeSettles ==
  VideoRuns /\ WorkersRun => \A m \in SUBSET {Activation[w] : w \in Workers} :
    <>[](control_event \ {"VIDEO_RUNNING"} = m) => <>[](Writing \subseteq {Owner(m)})

\* A request is answered: the bit is cleared at the end of a pass, unless the
\* program stops meanwhile.
RequestsAnswered ==
  WorkersRun => \A w \in Workers :
    RunBit[w] \in video_task_event ~>
      (RunBit[w] \notin video_task_event \/ ~running \/ ~alive)

\* The playback never waits for the workers, even if these never run: as long as
\* video stays on, and video_task has its turns, it keeps reading frames
\* (video_setup.c:134-189).
PlaybackGoesOn ==
  VideoRuns => (<>[](alive /\ running /\ video_running /\ "VIDEO_RUNNING" \in control_event
       /\ video # "done")
    => []<>(video = "conv"))

\* With video on, clearing running ends video_task: main's join returns.
StopEndsVideo ==
  (~running /\ "VIDEO_RUNNING" \in control_event) ~> (video = "done" \/ ~alive)

-----------------------------------------------------------------------------
(* What the documents say and the code does not do *)

\* rapport.typ:113: KEY0 stops the program cleanly, wherever the switches are;
\* main waits for video_task with rt_task_join (main.c:226).
StopAlwaysEndsVideo == ~running ~> (video = "done" \/ ~alive)

=============================================================================
