---------------------------- MODULE SampleStream ----------------------------
(***************************************************************************)
(* What a mailbox of the audio tasks promises between its two ends: a      *)
(* lossy stream of chunks, or of results.  They are numbered as they are   *)
(* delivered (captured by the codec, computed by the FFT); each one enters *)
(* the stream or is lost, those that enter leave it in order and once,     *)
(* never more than Capacity are inside, and closing the stream loses what  *)
(* is inside, except what its reader may already have taken.               *)
(***************************************************************************)
EXTENDS Naturals, Sequences

CONSTANT Capacity

VARIABLES
  captured,  \* number of the last one delivered
  stream,    \* those between the two tasks
  consumed   \* number of the last one taken out

vars == <<captured, stream, consumed>>

Init == captured = 0 /\ stream = << >> /\ consumed = 0

Enter ==
  /\ Len(stream) < Capacity
  /\ captured' = captured + 1
  /\ stream' = Append(stream, captured + 1)
  /\ UNCHANGED consumed

Lose ==
  /\ captured' = captured + 1
  /\ UNCHANGED <<stream, consumed>>

Leave ==
  /\ stream # << >>
  /\ consumed' = Head(stream)
  /\ stream' = Tail(stream)
  /\ UNCHANGED captured

Close ==
  /\ \/ stream' = << >>
     \/ stream # << >> /\ stream' = << Head(stream) >>
  /\ UNCHANGED <<captured, consumed>>

Next == Enter \/ Lose \/ Leave \/ Close

Spec == Init /\ [][Next]_vars

=============================================================================
