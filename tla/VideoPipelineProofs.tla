-------------------------- MODULE VideoPipelineProofs ------------------------
(***************************************************************************)
(* Proofs about the video tasks, for a file of any length and with or      *)
(* without failures: type correctness, that the run bit of a worker says   *)
(* when it is busy, and that no request is answered twice.                 *)
(***************************************************************************)
EXTENDS VideoPipeline, TLAPS

\* A set bit that the worker has not begun to answer has been asked for.
SetBitsAsked ==
  \A w \in Workers :
    RunBit[w] \in video_task_event =>
      asked[w] \/ worker[w] \in {"compute", "show", "clear"}

\* rt_event_create clears the bits of an event that no worker knows yet, and a
\* worker that is spawned was not there before.
NoneBeforeCreate ==
  /\ video = "create" => \A w \in Workers : worker[w] = "none"
  /\ video = "spawn_conv" => worker["conv"] = "none"

IInv == TypeOK /\ RunBitHeld /\ SetBitsAsked /\ NoneBeforeCreate

\* No two workers wait for the same bit.
LEMMA BitsApart ==
  /\ \A w \in Workers : RunBit[w] \in TaskBits /\ RunBit[w] # "GREYSCALE_STOP"
  /\ \A w \in Workers, v \in Workers : RunBit[w] = RunBit[v] => w = v
BY DEF Workers, RunBit, TaskBits

\* The invariant holds initially.
LEMMA InitInv == Init => IInv
BY ConstantsAssumption
   DEF Init, IInv, TypeOK, RunBitHeld, SetBitsAsked, NoneBeforeCreate, Workers

\* The flags change, or the process ends.
LEMMA EnvironmentInv == IInv /\ (Environment \/ Exit) => IInv'
<1> SUFFICES ASSUME IInv, Environment \/ Exit PROVE IInv'
  OBVIOUS
<1>1. UNCHANGED <<video, worker, video_task_event, position, asked>>
  BY DEF Environment, Exit
<1>2. running' \in BOOLEAN /\ video_running' \in BOOLEAN /\ alive' \in BOOLEAN
  BY DEF IInv, TypeOK, Environment, SetFlag, SetBit, Stop, Exit, control_vars
<1>3. control_event' \subseteq ControlBits
  BY DEF IInv, TypeOK, Environment, SetFlag, SetBit, Stop, Exit, control_vars
<1> QED
  BY <1>1, <1>2, <1>3 DEF IInv, TypeOK, RunBitHeld, SetBitsAsked, NoneBeforeCreate

\* video_task starts the workers.
LEMMA SpawnInv == IInv /\ (SpawnGrey \/ SpawnConv) => IInv'
<1> SUFFICES ASSUME IInv, SpawnGrey \/ SpawnConv PROVE IInv'
  OBVIOUS
<1>1. TypeOK'
  BY DEF IInv, TypeOK, SpawnGrey, SpawnConv, control_vars
<1>2. CASE SpawnGrey
  <2>1. (\A w \in Workers : worker'[w] \in {"none", "malloc"}) /\ worker'["conv"] = "none"
    BY <1>2 DEF IInv, TypeOK, NoneBeforeCreate, SpawnGrey, Workers
  <2> QED
    BY <1>1, <1>2, <2>1 DEF IInv, RunBitHeld, SetBitsAsked, NoneBeforeCreate, SpawnGrey
<1>3. CASE SpawnConv
  <2>1. worker' = [worker EXCEPT !["conv"] = "malloc"]
    BY <1>3 DEF SpawnConv
  <2>2. \A w \in Workers : worker'[w] = worker[w] \/ worker'[w] = "malloc"
    BY <2>1 DEF IInv, TypeOK
  <2>3. worker["conv"] = "none"
    BY <1>3 DEF IInv, NoneBeforeCreate, SpawnConv
  <2> QED
    BY <1>1, <1>3, <2>2, <2>3
       DEF IInv, RunBitHeld, SetBitsAsked, NoneBeforeCreate, SpawnConv
<1> QED
  BY <1>2, <1>3

\* Steps of video_task that leave the event and the workers alone.
LEMMA VideoInv ==
  IInv /\ (VideoPeriod \/ VideoLoop \/ VideoWait \/ VideoRead \/ VideoShow) => IInv'
<1> SUFFICES ASSUME IInv, VideoPeriod \/ VideoLoop \/ VideoWait \/ VideoRead \/ VideoShow
             PROVE  IInv'
  OBVIOUS
<1>1. UNCHANGED <<control_vars, alive, worker, video_task_event, asked>>
  BY DEF VideoPeriod, VideoLoop, VideoWait, VideoRead, VideoShow
<1>2. video' \in {"done", "loop", "wait", "read", "conv"}
  BY DEF VideoPeriod, VideoLoop, VideoWait, VideoRead, VideoShow
<1>3. position' \in 0 .. FileFrames
  BY ConstantsAssumption DEF IInv, TypeOK, VideoPeriod, VideoLoop, VideoWait, VideoRead, VideoShow
<1> QED
  BY <1>1, <1>2, <1>3
     DEF IInv, TypeOK, RunBitHeld, SetBitsAsked, NoneBeforeCreate, control_vars

\* video_task signals a worker.
LEMMA SignalInv == IInv /\ (VideoTestConv \/ VideoTestGrey) => IInv'
<1> SUFFICES ASSUME IInv, VideoTestConv \/ VideoTestGrey PROVE IInv'
  OBVIOUS
<1>1. /\ UNCHANGED <<control_vars, alive, worker, position>>
      /\ video' \in {"loop", "grey", "show"}
      /\ \/ UNCHANGED <<video_task_event, asked>>
         \/ \E w \in Workers : Signal(w)
  BY DEF VideoTestConv, VideoTestGrey, Workers
<1>2. CASE UNCHANGED <<video_task_event, asked>>
  BY <1>1, <1>2 DEF IInv, TypeOK, RunBitHeld, SetBitsAsked, NoneBeforeCreate, control_vars
<1>3. CASE \E w \in Workers : Signal(w)
  <2>1. PICK w \in Workers : Signal(w)
    BY <1>3
  <2>2. video_task_event' = video_task_event \cup {RunBit[w]}
        /\ asked' = [asked EXCEPT ![w] = TRUE]
    BY <2>1 DEF Signal, Raised
  <2>3. asked' \in [Workers -> BOOLEAN] /\ asked'[w]
        /\ \A v \in Workers : v # w => asked'[v] = asked[v]
    BY <2>2 DEF IInv, TypeOK
  <2>4. video_task_event' \subseteq TaskBits
    BY <2>2, BitsApart DEF IInv, TypeOK
  <2>5. TypeOK'
    BY <1>1, <2>3, <2>4 DEF IInv, TypeOK, control_vars
  <2>6. RunBitHeld' /\ NoneBeforeCreate'
    BY <1>1, <2>2 DEF IInv, RunBitHeld, NoneBeforeCreate
  <2>7. SetBitsAsked'
    BY <1>1, <2>2, <2>3, BitsApart DEF IInv, SetBitsAsked
  <2> QED
    BY <2>5, <2>6, <2>7 DEF IInv
<1> QED
  BY <1>1, <1>2, <1>3

\* A step of worker w that keeps the event: it does not leave its pass, and a new
\* one starts with the bit set.
LEMMA WorkerKeepsInv ==
  ASSUME IInv, NEW w \in Workers,
         WorkerMalloc(w) \/ WorkerLoop(w) \/ WorkerWait(w) \/ WorkerCompute(w) \/ WorkerShow(w)
  PROVE  IInv'
<1>1. /\ UNCHANGED <<control_vars, alive, video, position, video_task_event>>
      /\ worker[w] \notin {"none", "clear"}
      /\ \E to \in {"loop", "wait", "done", "compute", "show", "clear"} :
           /\ worker' = [worker EXCEPT ![w] = to]
           /\ worker[w] \in {"compute", "show"} => to \in {"show", "clear"}
           /\ to \in {"compute", "show", "clear"} => RunBit[w] \in video_task_event
  BY DEF IInv, RunBitHeld, WorkerMalloc, WorkerLoop, WorkerWait, WorkerCompute, WorkerShow,
     WorkerStep
<1>2. \/ UNCHANGED asked
      \/ asked' = [asked EXCEPT ![w] = FALSE] /\ worker' = [worker EXCEPT ![w] = "compute"]
  BY DEF WorkerMalloc, WorkerLoop, WorkerWait, WorkerCompute, WorkerShow, WorkerStep
<1>3. asked' \in [Workers -> BOOLEAN]
  BY <1>2 DEF IInv, TypeOK
<1>4. TypeOK'
  BY <1>1, <1>3 DEF IInv, TypeOK, control_vars
<1>5. \A v \in Workers : v # w => worker'[v] = worker[v] /\ asked'[v] = asked[v]
  BY <1>1, <1>2 DEF IInv, TypeOK
<1>6. RunBitHeld'
  BY <1>1, <1>5 DEF IInv, TypeOK, RunBitHeld
<1>7. SetBitsAsked'
  <2>1. RunBit[w] \in video_task_event' =>
          asked'[w] \/ worker'[w] \in {"compute", "show", "clear"}
    <3>1. CASE UNCHANGED asked
      BY <1>1, <3>1 DEF IInv, TypeOK, SetBitsAsked
    <3>2. CASE worker' = [worker EXCEPT ![w] = "compute"]
      BY <3>2 DEF IInv, TypeOK
    <3> QED
      BY <1>2, <3>1, <3>2
  <2> QED
    BY <1>1, <1>5, <2>1 DEF IInv, SetBitsAsked
<1>8. NoneBeforeCreate'
  BY <1>1 DEF IInv, NoneBeforeCreate
<1> QED
  BY <1>4, <1>6, <1>7, <1>8 DEF IInv

\* A worker clears its bit and looks at the flags.
LEMMA WorkerClearInv ==
  ASSUME IInv, NEW w \in Workers, WorkerClear(w) \/ WorkerSignalStop(w)
  PROVE  IInv'
<1>1. /\ UNCHANGED <<control_vars, alive, video, position, asked>>
      /\ worker[w] # "none"
      /\ \E to \in {"stop", "loop"} : worker' = [worker EXCEPT ![w] = to]
  BY DEF WorkerClear, WorkerSignalStop, WorkerStep
<1>2. \/ video_task_event' = video_task_event \ {RunBit[w]}
      \/ video_task_event' = video_task_event \cup {"GREYSCALE_STOP"} /\ worker[w] = "stop"
  BY DEF WorkerClear, WorkerSignalStop, WorkerStep, Cleared
<1>3. TypeOK'
  BY <1>1, <1>2 DEF IInv, TypeOK, TaskBits, control_vars
<1>4. worker'[w] \in {"stop", "loop"} /\ \A v \in Workers : v # w => worker'[v] = worker[v]
  BY <1>1 DEF IInv, TypeOK
<1>5. /\ \A v \in Workers : v # w =>
           (RunBit[v] \in video_task_event' <=> RunBit[v] \in video_task_event)
      /\ RunBit[w] \in video_task_event' =>
           RunBit[w] \in video_task_event /\ worker[w] = "stop"
  BY <1>2, BitsApart
<1>6. RunBitHeld' /\ SetBitsAsked' /\ NoneBeforeCreate'
  BY <1>1, <1>4, <1>5 DEF IInv, RunBitHeld, SetBitsAsked, NoneBeforeCreate
<1> QED
  BY <1>3, <1>6 DEF IInv

\* Every step keeps the invariant.
LEMMA StepInv == IInv /\ [Next]_vars => IInv'
<1> SUFFICES ASSUME IInv, [Next]_vars PROVE IInv'
  OBVIOUS
<1>1. CASE UNCHANGED vars
  BY <1>1 DEF IInv, TypeOK, RunBitHeld, SetBitsAsked, NoneBeforeCreate, vars, control_vars
<1>2. CASE VideoTask
  BY <1>2, EnvironmentInv, SpawnInv, VideoInv, SignalInv DEF VideoTask, VideoFails
<1>3. ASSUME NEW w \in Workers, Worker(w) PROVE IInv'
  BY <1>3, EnvironmentInv, WorkerKeepsInv, WorkerClearInv DEF Worker, WorkerCrash
<1> QED
  BY <1>1, <1>2, <1>3, EnvironmentInv DEF Next, Quiet

-----------------------------------------------------------------------------
(* The theorems *)

\* The invariant holds in every reachable state.
LEMMA Invariant == Spec => []IInv
<1> QED
  BY InitInv, StepInv, PTL DEF Spec

\* Type correctness of the model of video_setup.c.
THEOREM TypeCorrect == Spec => []TypeOK
<1>1. IInv => TypeOK
  BY DEF IInv
<1> QED
  BY Invariant, <1>1, PTL

\* The bit a worker runs by is set from the start of a pass to the clear that
\* ends it, whatever video_task and the other worker do (video_setup.c:35-43, 66-73).
THEOREM BitHeldForPass == Spec => []RunBitHeld
<1>1. IInv => RunBitHeld
  BY DEF IInv
<1> QED
  BY Invariant, <1>1, PTL

\* Each pass answers a signal of video_task given since the last pass began.
THEOREM PassesAreAsked == Spec => NoSpuriousPass
<1>1. IInv /\ [Next]_vars =>
        [\A w \in Workers :
           worker[w] = "wait" /\ worker'[w] = "compute" => asked[w]]_vars
  <2> SUFFICES ASSUME IInv, Next, NEW w \in Workers,
                      worker[w] = "wait", worker'[w] = "compute"
               PROVE  asked[w]
    OBVIOUS
  <2>1. RunBit[w] \in video_task_event
    BY DEF IInv, TypeOK, Next, Environment, VideoTask, VideoFails, Exit, SpawnGrey, SpawnConv,
       VideoPeriod, VideoLoop, VideoWait, VideoRead, VideoTestConv, VideoTestGrey, VideoShow,
       Worker, WorkerMalloc, WorkerCrash, WorkerLoop, WorkerWait, WorkerCompute, WorkerShow,
       WorkerClear, WorkerSignalStop, WorkerStep, Quiet, vars
  <2> QED
    BY <2>1 DEF IInv, SetBitsAsked
<1> QED
  BY Invariant, <1>1, PTL DEF Spec, NoSpuriousPass

=============================================================================
