---------------------------- MODULE ControlTask -----------------------------
(***************************************************************************)
(* ioctl_ctl_task of main.c: ten times a second it reads the keys and the  *)
(* switches of the board through the mapped registers and translates them  *)
(* into the flags of Ctl_data_t and the bits of control_event, one store   *)
(* or one kernel call after the other.  The user moves the switches and    *)
(* presses the keys at any moment.                                         *)
(***************************************************************************)
EXTENDS Naturals, Sequences

CONSTANT Keys  \* the keys of the board the user may press

ASSUME KeysAssumption == "KEY0" \in Keys

\* main.c:35-38 and control.h:9-12: the four switches and the bit each drives.
BitOf == [SWITCH_0 |-> "AUDIO_RUNNING", SWITCH_1 |-> "VIDEO_RUNNING",
          SWITCH_8 |-> "GREYSCALE_ACTIVATION", SWITCH_9 |-> "CONVOLUTION_ACTIVATION"]
Switches == DOMAIN BitOf
Bits == {BitOf[s] : s \in Switches}

VARIABLES
  switches, pressed,      \* the board: switches that are up, keys held down
  running, audio_running, video_running,
  control_event,          \* the bits that are set
  ctl,                    \* the step the task is at
  keys, switch_value      \* its locals

board == <<switches, pressed>>
flags == <<running, audio_running, video_running>>
locals == <<keys, switch_value>>
vars == <<board, flags, control_event, ctl, locals>>

\* One pass, in the order of the code.  (StopFirst: the key tested before the
\* switches are acted upon.)
StopFirst == << "read_keys", "read_switches", "stop", "audio", "audio_event",
                "video", "video_event", "grey", "conv", "wait" >>
Pass == << "read_keys", "read_switches", "audio", "audio_event", "video",
           "video_event", "grey", "conv", "stop", "wait" >>
Goto(step) == \E i \in 1 .. Len(Pass) :
                ctl = step /\ Pass[i] = step /\ ctl' = Pass[(i % Len(Pass)) + 1]

TypeOK ==
  /\ switches \subseteq Switches /\ switch_value \subseteq Switches
  /\ pressed \subseteq Keys /\ keys \subseteq Keys
  /\ running \in BOOLEAN /\ audio_running \in BOOLEAN /\ video_running \in BOOLEAN
  /\ control_event \subseteq Bits
  /\ ctl \in {Pass[i] : i \in 1 .. Len(Pass)} \cup {"done"}

\* main creates the event empty, sets running and spawns the task; the two
\* other flags are whatever the stack held.
Init ==
  /\ switches \in SUBSET Switches /\ pressed \in SUBSET Keys
  /\ running = TRUE
  /\ audio_running \in BOOLEAN /\ video_running \in BOOLEAN
  /\ control_event = {}
  /\ ctl = "read_keys"
  /\ keys = {} /\ switch_value = {}

-----------------------------------------------------------------------------
(* The user *)

MoveSwitch ==
  /\ \E s \in Switches :
       switches' = IF s \in switches THEN switches \ {s} ELSE switches \cup {s}
  /\ UNCHANGED <<pressed, flags, control_event, ctl, locals>>

MoveKey ==
  /\ \E k \in Keys :
       pressed' = IF k \in pressed THEN pressed \ {k} ELSE pressed \cup {k}
  /\ UNCHANGED <<switches, flags, control_event, ctl, locals>>

-----------------------------------------------------------------------------
(* The task *)

\* The loop test and read_key(MMAP).
ReadKeys ==
  /\ running /\ Goto("read_keys")
  /\ keys' = pressed
  /\ UNCHANGED <<board, flags, control_event, switch_value>>

\* read_switch(MMAP).
ReadSwitches ==
  /\ Goto("read_switches")
  /\ switch_value' = switches
  /\ UNCHANGED <<board, flags, control_event, keys>>

\* The two stores, priv->audio_running and priv->video_running.
SetAudioFlag ==
  /\ Goto("audio")
  /\ audio_running' = ("SWITCH_0" \in switch_value)
  /\ UNCHANGED <<board, running, video_running, control_event, locals>>

SetVideoFlag ==
  /\ Goto("video")
  /\ video_running' = ("SWITCH_1" \in switch_value)
  /\ UNCHANGED <<board, running, audio_running, control_event, locals>>

\* rt_event_signal or rt_event_clear of the bit of switch s.  (SignalOnly: the
\* else branch forgotten.)
SignalOnly(s) == IF s \in switch_value THEN control_event \cup {BitOf[s]}
                 ELSE control_event
Driven(s) == IF s \in switch_value THEN control_event \cup {BitOf[s]}
             ELSE control_event \ {BitOf[s]}

DriveEvent(step, s) ==
  /\ Goto(step)
  /\ control_event' = Driven(s)
  /\ UNCHANGED <<board, flags, locals>>

\* keys | KEY0 with KEY0 = 0: true as soon as one key is down.  (NoneDown: the
\* keys taken for active low.)
NoneDown == keys = {}
StopAsked == keys # {}

TestKeys ==
  /\ Goto("stop")
  /\ running' = (running /\ ~StopAsked)
  /\ UNCHANGED <<board, audio_running, video_running, control_event, locals>>

\* rt_task_wait_period.
WaitPeriod ==
  /\ Goto("wait")
  /\ UNCHANGED <<board, flags, control_event, locals>>

Return ==
  /\ ctl = "read_keys" /\ ~running
  /\ ctl' = "done"
  /\ UNCHANGED <<board, flags, control_event, locals>>

Control ==
  \/ ReadKeys \/ ReadSwitches
  \/ SetAudioFlag \/ DriveEvent("audio_event", "SWITCH_0")
  \/ SetVideoFlag \/ DriveEvent("video_event", "SWITCH_1")
  \/ DriveEvent("grey", "SWITCH_8") \/ DriveEvent("conv", "SWITCH_9")
  \/ TestKeys \/ WaitPeriod \/ Return

Next == MoveSwitch \/ MoveKey \/ Control

Spec == Init /\ [][Next]_vars

\* The timer releases the task again and again, but whether it runs is up to the
\* others of its priority: with audio off treatment never blocks (audio_setup.c:66).
\* CpuShared is what the liveness properties assume: the task has its turns for as long
\* as audio is on, as it does in Program while treatment works, and after the stop.
\* The user is under no obligation.
AudioOn == audio_running \/ ~running
CpuShared == WF_vars(AudioOn /\ Control)

-----------------------------------------------------------------------------
(* Properties *)

\* When a pass is over, both flags and the four bits come from one and the
\* same reading of the switches, whatever moved meanwhile (main.c:53-103).
ModesFromOneReading ==
  ctl = "wait" =>
    /\ audio_running = ("SWITCH_0" \in switch_value)
    /\ video_running = ("SWITCH_1" \in switch_value)
    /\ control_event = {BitOf[s] : s \in switch_value}

\* The task takes only the steps the audio and the video tasks count on.
Flags == INSTANCE ControlFlags
FlagsSpec == Flags!Spec

\* While audio stays on, the position a switch is left in is the one its bit ends up
\* showing, unless the program is stopped first; with SWITCH_0 down it does not stay on
\* (rapport.typ:97, main.c:53-103).
SwitchesReflected ==
  CpuShared => \A s \in Switches :
    /\ <>[](audio_running /\ s \in switches)
         => <>(~running \/ [](BitOf[s] \in control_event))
    /\ <>[](audio_running /\ s \notin switches)
         => <>(~running \/ (s # "SWITCH_0" /\ [](BitOf[s] \notin control_event)))

\* While audio is on, holding KEY0 down stops the task (rapport.typ:113).  A press that
\* is over before the next period may go unseen.
HeldKeyStops == CpuShared => (<>[](AudioOn /\ "KEY0" \in pressed) => <>(ctl = "done"))

=============================================================================
