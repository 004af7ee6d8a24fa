------------------------------ MODULE ChunkLog ------------------------------
(***************************************************************************)
(* What the functions on .wav files of audio_utils.h promise together: the *)
(* samples that a header describes form a log.  Formatting empties it, an  *)
(* append adds one whole chunk, once, at its end or does nothing.  Only    *)
(* write_wav_data replaces samples, by those its own chunk has at the same *)
(* place and a run at a time; it never changes their number.  Nothing is   *)
(* promised before a header has been written, nor once the size no longer  *)
(* fits its field.                                                         *)
(***************************************************************************)
EXTENDS Naturals, Sequences

CONSTANTS Chunks,    \* the chunks the callers append, sequences of blocks
          SizeLimit  \* the values of the size field

VARIABLES formatted, log

Init == /\ formatted \in BOOLEAN
        /\ formatted => Len(log) < SizeLimit
        /\ ~formatted => log = <<>>

Format == formatted' = TRUE /\ log' = <<>>

Elements(s) == {s[i] : i \in 1 .. Len(s)}

Append1(c) ==
  /\ formatted /\ formatted'
  /\ Len(log) + Len(c) < SizeLimit
  /\ Elements(c) \cap Elements(log) = {}
  /\ log' = log \o c

Replace(c, first, last) ==
  /\ formatted /\ formatted'
  /\ log' = [i \in 1 .. Len(log) |->
               IF i \in first .. last /\ i <= Len(c) THEN c[i] ELSE log[i]]

Overflow(c) ==
  /\ formatted /\ ~formatted'
  /\ Len(log) + Len(c) >= SizeLimit
  /\ log' = <<>>

Next ==
  \/ Format
  \/ \E c \in Chunks : Append1(c) \/ Overflow(c)
  \/ \E c \in Chunks : \E first, last \in 1 .. Len(c) : Replace(c, first, last)

Spec == Init /\ [][Next]_<<formatted, log>>

=============================================================================
