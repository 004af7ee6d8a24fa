---------------------------- MODULE ControlFlags ----------------------------
(***************************************************************************)
(* What the control task promises to the tasks that read Ctl_data_t and    *)
(* wait on control_event: at most one flag or event bit changes at a time, *)
(* running is cleared once and for all, and nothing changes after that.    *)
(* The environments of AudioPipeline and VideoPipeline are made of these   *)
(* steps; ControlTask is shown to take no others.                          *)
(***************************************************************************)
CONSTANT Bits  \* the bits of control_event

VARIABLES running, audio_running, video_running, control_event

vars == <<running, audio_running, video_running, control_event>>

Init ==
  /\ running = TRUE
  /\ audio_running \in BOOLEAN /\ video_running \in BOOLEAN
  /\ control_event = {}

SetAudio ==
  /\ running
  /\ audio_running' = ~audio_running
  /\ UNCHANGED <<running, video_running, control_event>>

SetVideo ==
  /\ running
  /\ video_running' = ~video_running
  /\ UNCHANGED <<running, audio_running, control_event>>

SetBit(b) ==
  /\ running
  /\ control_event' \in {control_event \cup {b}, control_event \ {b}}
  /\ UNCHANGED <<running, audio_running, video_running>>

Stop ==
  /\ running
  /\ running' = FALSE
  /\ UNCHANGED <<audio_running, video_running, control_event>>

Next == SetAudio \/ SetVideo \/ (\E b \in Bits : SetBit(b)) \/ Stop

Spec == Init /\ [][Next]_vars

=============================================================================
