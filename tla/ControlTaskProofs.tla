-------------------------- MODULE ControlTaskProofs --------------------------
(***************************************************************************)
(* Proofs about the control task, for any set of keys that has KEY0: type  *)
(* correctness, that a finished pass reflects one reading of the switches, *)
(* and that the task implements ControlFlags, on which the models of the   *)
(* audio and the video tasks rest.                                         *)
(***************************************************************************)
EXTENDS ControlTask, TLAPS

\* The step after the one the task takes.
LEMMA Order ==
  /\ Goto("read_keys") => ctl = "read_keys" /\ ctl' = "read_switches"
  /\ Goto("read_switches") => ctl = "read_switches" /\ ctl' = "audio"
  /\ Goto("audio") => ctl = "audio" /\ ctl' = "audio_event"
  /\ Goto("audio_event") => ctl = "audio_event" /\ ctl' = "video"
  /\ Goto("video") => ctl = "video" /\ ctl' = "video_event"
  /\ Goto("video_event") => ctl = "video_event" /\ ctl' = "grey"
  /\ Goto("grey") => ctl = "grey" /\ ctl' = "conv"
  /\ Goto("conv") => ctl = "conv" /\ ctl' = "stop"
  /\ Goto("stop") => ctl = "stop" /\ ctl' = "wait"
  /\ Goto("wait") => ctl = "wait" /\ ctl' = "read_keys"
<1>1. Len(Pass) = 10
  BY DEF Pass
<1>2. /\ Pass[1] = "read_keys" /\ Pass[2] = "read_switches" /\ Pass[3] = "audio"
      /\ Pass[4] = "audio_event" /\ Pass[5] = "video" /\ Pass[6] = "video_event"
      /\ Pass[7] = "grey" /\ Pass[8] = "conv" /\ Pass[9] = "stop" /\ Pass[10] = "wait"
  BY DEF Pass
<1>3. \A step : Goto(step) =>
        /\ ctl = step
        /\ \E i \in 1 .. 10 : Pass[i] = step
                              /\ ctl' = IF i = 10 THEN Pass[1] ELSE Pass[i + 1]
  <2> SUFFICES ASSUME NEW step, Goto(step)
               PROVE  /\ ctl = step
                      /\ \E i \in 1 .. 10 : Pass[i] = step
                              /\ ctl' = IF i = 10 THEN Pass[1] ELSE Pass[i + 1]
    OBVIOUS
  <2>1. PICK i \in 1 .. 10 : ctl = step /\ Pass[i] = step /\ ctl' = Pass[(i % 10) + 1]
    BY <1>1 DEF Goto
  <2>2. i = 10 => i % 10 = 0
    OBVIOUS
  <2>3. i # 10 => i % 10 = i
    OBVIOUS
  <2> QED
    BY <2>1, <2>2, <2>3
<1>4. \A i \in 1 .. 10 : i = 1 \/ i = 2 \/ i = 3 \/ i = 4 \/ i = 5
                         \/ i = 6 \/ i = 7 \/ i = 8 \/ i = 9 \/ i = 10
  OBVIOUS
<1> QED
  BY <1>2, <1>3, <1>4

\* The task has passed the step.
After(step) ==
  ctl \in CASE step = "audio" -> {"audio_event", "video", "video_event", "grey", "conv",
                                  "stop", "wait"}
            [] step = "audio_event" -> {"video", "video_event", "grey", "conv", "stop", "wait"}
            [] step = "video" -> {"video_event", "grey", "conv", "stop", "wait"}
            [] step = "video_event" -> {"grey", "conv", "stop", "wait"}
            [] step = "grey" -> {"conv", "stop", "wait"}
            [] OTHER -> {"stop", "wait"}

\* What the pass has set so far is what was read, and it is under way only
\* while the program runs.
FlagsFollow ==
  /\ After("audio") => audio_running = ("SWITCH_0" \in switch_value)
  /\ After("video") => video_running = ("SWITCH_1" \in switch_value)

BitFollows(b, s) == b \in control_event <=> s \in switch_value
BitsFollow ==
  /\ After("audio_event") => BitFollows("AUDIO_RUNNING", "SWITCH_0")
  /\ After("video_event") => BitFollows("VIDEO_RUNNING", "SWITCH_1")
  /\ After("grey") => BitFollows("GREYSCALE_ACTIVATION", "SWITCH_8")
  /\ After("conv") => BitFollows("CONVOLUTION_ACTIVATION", "SWITCH_9")

PassWhileRunning == running \/ ctl \in {"wait", "read_keys", "done"}

IInv == TypeOK /\ FlagsFollow /\ BitsFollow /\ PassWhileRunning

\* The switches, the bits they drive, and nothing else.
LEMMA Board ==
  /\ Switches = {"SWITCH_0", "SWITCH_1", "SWITCH_8", "SWITCH_9"}
  /\ BitOf["SWITCH_0"] = "AUDIO_RUNNING" /\ BitOf["SWITCH_1"] = "VIDEO_RUNNING"
  /\ BitOf["SWITCH_8"] = "GREYSCALE_ACTIVATION"
  /\ BitOf["SWITCH_9"] = "CONVOLUTION_ACTIVATION"
  /\ Bits = {"AUDIO_RUNNING", "VIDEO_RUNNING", "GREYSCALE_ACTIVATION",
             "CONVOLUTION_ACTIVATION"}
<1>1. /\ Switches = {"SWITCH_0", "SWITCH_1", "SWITCH_8", "SWITCH_9"}
      /\ BitOf["SWITCH_0"] = "AUDIO_RUNNING" /\ BitOf["SWITCH_1"] = "VIDEO_RUNNING"
      /\ BitOf["SWITCH_8"] = "GREYSCALE_ACTIVATION"
      /\ BitOf["SWITCH_9"] = "CONVOLUTION_ACTIVATION"
  BY DEF Switches, BitOf
<1> QED
  BY <1>1 DEF Bits

Steps == {"read_keys", "read_switches", "audio", "audio_event", "video", "video_event",
          "grey", "conv", "stop", "wait", "done"}

\* The steps of a pass are the labels the actions use.
LEMMA PassSteps == {Pass[i] : i \in 1 .. Len(Pass)} \cup {"done"} = Steps
<1>1. Len(Pass) = 10
  BY DEF Pass
<1>2. /\ Pass[1] = "read_keys" /\ Pass[2] = "read_switches" /\ Pass[3] = "audio"
      /\ Pass[4] = "audio_event" /\ Pass[5] = "video" /\ Pass[6] = "video_event"
      /\ Pass[7] = "grey" /\ Pass[8] = "conv" /\ Pass[9] = "stop" /\ Pass[10] = "wait"
  BY DEF Pass
<1>3. 1 .. 10 = {1, 2, 3, 4, 5, 6, 7, 8, 9, 10}
  OBVIOUS
<1>4. {Pass[i] : i \in 1 .. 10} =
        {Pass[1], Pass[2], Pass[3], Pass[4], Pass[5], Pass[6], Pass[7], Pass[8], Pass[9], Pass[10]}
  BY <1>3
<1> QED
  BY <1>1, <1>2, <1>4 DEF Steps

-----------------------------------------------------------------------------
(* The invariant is inductive *)

\* The invariant holds when the task starts.
LEMMA InitInv == Init => IInv
<1> SUFFICES ASSUME Init PROVE IInv
  OBVIOUS
<1>1. TypeOK
  BY PassSteps DEF Init, TypeOK, Steps
<1>2. FlagsFollow /\ BitsFollow
  BY DEF Init, FlagsFollow, BitsFollow, After
<1> QED
  BY <1>1, <1>2 DEF Init, IInv, PassWhileRunning

\* The user moves a switch or a key.
LEMMA UserInv == IInv /\ (MoveSwitch \/ MoveKey) => IInv'
<1> SUFFICES ASSUME IInv, MoveSwitch \/ MoveKey PROVE IInv'
  OBVIOUS
<1>1. TypeOK'
  BY DEF IInv, TypeOK, MoveSwitch, MoveKey, flags, locals
<1>2. (FlagsFollow /\ BitsFollow /\ PassWhileRunning)'
  BY DEF IInv, FlagsFollow, BitsFollow, BitFollows, PassWhileRunning, After, MoveSwitch, MoveKey,
     flags, locals
<1> QED
  BY <1>1, <1>2 DEF IInv

\* The readings and the ends of a pass.
LEMMA ReadInv == IInv /\ (ReadKeys \/ ReadSwitches \/ WaitPeriod \/ Return) => IInv'
<1> SUFFICES ASSUME IInv, ReadKeys \/ ReadSwitches \/ WaitPeriod \/ Return PROVE IInv'
  OBVIOUS
<1>1. \/ ctl' = "read_switches" /\ running
      \/ ctl' = "audio" /\ ctl = "read_switches"
      \/ ctl' = "read_keys"
      \/ ctl' = "done"
  BY Order DEF ReadKeys, ReadSwitches, WaitPeriod, Return
<1>2. TypeOK'
  BY <1>1, PassSteps DEF IInv, TypeOK, Steps, ReadKeys, ReadSwitches, WaitPeriod, Return,
     board, flags, locals
<1>3. (FlagsFollow /\ BitsFollow)'
  BY <1>1 DEF FlagsFollow, BitsFollow, After
<1>4. PassWhileRunning'
  BY <1>1 DEF IInv, PassWhileRunning, ReadKeys, ReadSwitches, WaitPeriod, Return, flags
<1> QED
  BY <1>2, <1>3, <1>4 DEF IInv

\* The stores of the two modes.
LEMMA FlagInv == IInv /\ (SetAudioFlag \/ SetVideoFlag) => IInv'
<1> SUFFICES ASSUME IInv, SetAudioFlag \/ SetVideoFlag PROVE IInv'
  OBVIOUS
<1>1. CASE SetAudioFlag
  <2>1. ctl = "audio" /\ ctl' = "audio_event"
    BY <1>1, Order DEF SetAudioFlag
  <2>2. TypeOK'
    BY <1>1, <2>1, PassSteps DEF IInv, TypeOK, Steps, SetAudioFlag, board, locals
  <2>3. (FlagsFollow /\ BitsFollow /\ PassWhileRunning)'
    BY <1>1, <2>1 DEF IInv, FlagsFollow, BitsFollow, After, PassWhileRunning, SetAudioFlag, locals
  <2> QED
    BY <2>2, <2>3 DEF IInv
<1>2. CASE SetVideoFlag
  <2>1. ctl = "video" /\ ctl' = "video_event"
    BY <1>2, Order DEF SetVideoFlag
  <2>2. TypeOK'
    BY <1>2, <2>1, PassSteps DEF IInv, TypeOK, Steps, SetVideoFlag, board, locals
  <2>3. FlagsFollow' /\ PassWhileRunning'
    BY <1>2, <2>1 DEF IInv, FlagsFollow, After, PassWhileRunning, SetVideoFlag, locals
  <2>4. BitsFollow'
    BY <1>2, <2>1 DEF IInv, BitsFollow, BitFollows, After, SetVideoFlag, locals
  <2> QED
    BY <2>2, <2>3, <2>4 DEF IInv
<1> QED
  BY <1>1, <1>2

\* One bit follows its switch, the others stay as they were.
LEMMA Drive ==
  ASSUME TypeOK, NEW step, NEW s \in Switches, DriveEvent(step, s)
  PROVE  /\ BitOf[s] \in control_event' <=> s \in switch_value'
         /\ \A b : b # BitOf[s] => (b \in control_event' <=> b \in control_event)
         /\ control_event' \subseteq Bits
         /\ UNCHANGED <<board, flags, locals>>
<1>1. BitOf[s] \in Bits
  BY DEF Bits
<1> QED
  BY <1>1 DEF TypeOK, DriveEvent, Driven, locals

\* The four calls that drive the bits of the event.
LEMMA DriveInv ==
  ASSUME IInv,
         \/ DriveEvent("audio_event", "SWITCH_0") \/ DriveEvent("video_event", "SWITCH_1")
         \/ DriveEvent("grey", "SWITCH_8") \/ DriveEvent("conv", "SWITCH_9")
  PROVE  IInv'
<1>1. PICK step \in Steps, s \in Switches :
        /\ DriveEvent(step, s)
        /\ \/ step = "audio_event" /\ s = "SWITCH_0" /\ ctl = step /\ ctl' = "video"
           \/ step = "video_event" /\ s = "SWITCH_1" /\ ctl = step /\ ctl' = "grey"
           \/ step = "grey" /\ s = "SWITCH_8" /\ ctl = step /\ ctl' = "conv"
           \/ step = "conv" /\ s = "SWITCH_9" /\ ctl = step /\ ctl' = "stop"
  BY Order, Board DEF DriveEvent, Steps
<1>2. /\ BitOf[s] \in control_event' <=> s \in switch_value'
      /\ \A b : b # BitOf[s] => (b \in control_event' <=> b \in control_event)
      /\ control_event' \subseteq Bits
      /\ UNCHANGED <<board, flags, locals>>
  BY <1>1, Drive DEF IInv
<1>3. TypeOK'
  BY <1>1, <1>2, PassSteps DEF IInv, TypeOK, Steps, board, flags, locals
<1>4. FlagsFollow' /\ PassWhileRunning'
  BY <1>1, <1>2 DEF IInv, FlagsFollow, After, PassWhileRunning, flags, locals
<1>5. BitsFollow'
  BY <1>1, <1>2, Board DEF IInv, BitsFollow, BitFollows, After, locals
<1> QED
  BY <1>3, <1>4, <1>5 DEF IInv

\* The test of the keys, which may stop the program.
LEMMA StopInv == IInv /\ TestKeys => IInv'
<1> SUFFICES ASSUME IInv, TestKeys PROVE IInv'
  OBVIOUS
<1>1. ctl = "stop" /\ ctl' = "wait"
  BY Order DEF TestKeys
<1>2. running' \in BOOLEAN
  BY DEF TestKeys
<1>3. TypeOK'
  BY <1>1, <1>2, PassSteps DEF IInv, TypeOK, Steps, TestKeys, board, locals
<1>4. (FlagsFollow /\ BitsFollow /\ PassWhileRunning)'
  BY <1>1 DEF IInv, FlagsFollow, BitsFollow, BitFollows, After, PassWhileRunning, TestKeys, locals
<1> QED
  BY <1>3, <1>4 DEF IInv

\* Every step keeps the invariant.
LEMMA StepInv == IInv /\ [Next]_vars => IInv'
<1> SUFFICES ASSUME IInv, [Next]_vars PROVE IInv'
  OBVIOUS
<1>1. CASE UNCHANGED vars
  BY <1>1 DEF IInv, TypeOK, FlagsFollow, BitsFollow, BitFollows, After, PassWhileRunning,
     vars, board, flags, locals
<1>2. CASE Next
  BY <1>2, UserInv, ReadInv, FlagInv, DriveInv, StopInv DEF Next, Control
<1> QED
  BY <1>1, <1>2

-----------------------------------------------------------------------------
(* The task implements ControlFlags *)

\* Every step is one of the interface, or none.
LEMMA StepRefines == IInv /\ [Next]_vars => [Flags!Next]_(Flags!vars)
<1> SUFFICES ASSUME IInv, [Next]_vars PROVE [Flags!Next]_(Flags!vars)
  OBVIOUS
<1>1. CASE MoveSwitch \/ MoveKey \/ ReadKeys \/ ReadSwitches \/ WaitPeriod \/ Return
           \/ UNCHANGED vars
  BY <1>1 DEF MoveSwitch, MoveKey, ReadKeys, ReadSwitches, WaitPeriod, Return, vars, flags,
     Flags!vars
<1>2. CASE SetAudioFlag
  <2>1. ctl = "audio" /\ running
    BY <1>2, Order DEF SetAudioFlag, IInv, PassWhileRunning
  <2>2. audio_running \in BOOLEAN /\ audio_running' \in BOOLEAN
    BY <1>2 DEF IInv, TypeOK, SetAudioFlag
  <2>3. UNCHANGED <<running, video_running, control_event>>
    BY <1>2 DEF SetAudioFlag
  <2>4. audio_running' = audio_running \/ audio_running' = ~audio_running
    BY <2>2, Zenon
  <2> QED
    BY <2>1, <2>3, <2>4 DEF Flags!Next, Flags!SetAudio, Flags!vars
<1>3. CASE SetVideoFlag
  <2>1. ctl = "video" /\ running
    BY <1>3, Order DEF SetVideoFlag, IInv, PassWhileRunning
  <2>2. video_running \in BOOLEAN /\ video_running' \in BOOLEAN
    BY <1>3 DEF IInv, TypeOK, SetVideoFlag
  <2>3. UNCHANGED <<running, audio_running, control_event>>
    BY <1>3 DEF SetVideoFlag
  <2>4. video_running' = video_running \/ video_running' = ~video_running
    BY <2>2, Zenon
  <2> QED
    BY <2>1, <2>3, <2>4 DEF Flags!Next, Flags!SetVideo, Flags!vars
<1>4. ASSUME NEW step \in {"audio_event", "video_event", "grey", "conv"},
             NEW s \in Switches, DriveEvent(step, s)
      PROVE  Flags!Next
  <2>1. running
    BY <1>4, Order DEF DriveEvent, IInv, PassWhileRunning
  <2>2. BitOf[s] \in Bits
    BY DEF Bits
  <2>3. control_event' \in {control_event \cup {BitOf[s]}, control_event \ {BitOf[s]}}
    BY <1>4 DEF DriveEvent, Driven
  <2>4. UNCHANGED <<running, audio_running, video_running>>
    BY <1>4 DEF DriveEvent, flags
  <2>5. Flags!SetBit(BitOf[s])
    BY <2>1, <2>3, <2>4 DEF Flags!SetBit
  <2> QED
    BY <2>2, <2>5 DEF Flags!Next
<1>5. CASE TestKeys
  <2>1. ctl = "stop" /\ running
    BY <1>5, Order DEF TestKeys, IInv, PassWhileRunning
  <2>2. running = TRUE /\ running' \in BOOLEAN
    BY <1>5, <2>1 DEF IInv, TypeOK, TestKeys
  <2>3. UNCHANGED <<audio_running, video_running, control_event>>
    BY <1>5 DEF TestKeys
  <2> QED
    BY <2>2, <2>3 DEF Flags!Next, Flags!Stop, Flags!vars
<1> QED
  BY <1>1, <1>2, <1>3, <1>4, <1>5, Board DEF Next, Control

-----------------------------------------------------------------------------
(* The theorems *)

\* The invariant holds in every reachable state.
LEMMA Invariant == Spec => []IInv
<1> QED
  BY InitInv, StepInv, PTL DEF Spec

\* Type correctness of the model of main.c:44-115.
THEOREM TypeCorrect == Spec => []TypeOK
<1>1. IInv => TypeOK
  BY DEF IInv
<1> QED
  BY Invariant, <1>1, PTL

\* Whatever the user moves during a pass, the two flags and the four bits are at
\* its end those of the one value that read_switch returned (main.c:53-103).
THEOREM OneReading == Spec => []ModesFromOneReading
<1>1. IInv => ModesFromOneReading
  <2> SUFFICES ASSUME IInv, ctl = "wait"
               PROVE  /\ audio_running = ("SWITCH_0" \in switch_value)
                      /\ video_running = ("SWITCH_1" \in switch_value)
                      /\ control_event = {BitOf[s] : s \in switch_value}
    BY DEF ModesFromOneReading
  <2>1. /\ audio_running = ("SWITCH_0" \in switch_value)
        /\ video_running = ("SWITCH_1" \in switch_value)
    BY DEF IInv, FlagsFollow, After
  <2>2. /\ "AUDIO_RUNNING" \in control_event <=> "SWITCH_0" \in switch_value
        /\ "VIDEO_RUNNING" \in control_event <=> "SWITCH_1" \in switch_value
        /\ "GREYSCALE_ACTIVATION" \in control_event <=> "SWITCH_8" \in switch_value
        /\ "CONVOLUTION_ACTIVATION" \in control_event <=> "SWITCH_9" \in switch_value
    BY DEF IInv, BitsFollow, BitFollows, After
  <2>3. switch_value \subseteq Switches /\ control_event \subseteq Bits
    BY DEF IInv, TypeOK
  <2>4. control_event = {BitOf[s] : s \in switch_value}
    BY <2>2, <2>3, Board
  <2> QED
    BY <2>1, <2>4
<1> QED
  BY Invariant, <1>1, PTL

\* The control task takes no step but those of ControlFlags: the environments of
\* the audio and of the video tasks are not too small.
THEOREM ImplementsFlags == Spec => FlagsSpec
<1>1. Init => Flags!Init
  BY DEF Init, Flags!Init
<1> QED
  BY Invariant, StepRefines, <1>1, PTL DEF Spec, FlagsSpec, Flags!Spec

=============================================================================
