------------------------------- MODULE Spectrum -------------------------------
(***************************************************************************)
(* The search of the treatment task for the strongest frequency.  A power  *)
(* is an integer; power[0], the constant part of the signal, is not        *)
(* computed.                                                               *)
(***************************************************************************)
EXTENDS Integers, FiniteSetsExt

CONSTANT N  \* the size of the transform
ASSUME NAssumption == N \in Nat /\ N >= 2

Last == N \div 2 - 1

\* max_power and max_index after i of the powers: the first element is skipped.
\* (LastOf: the last of several equal ones.)
LastOf(power, best, i) == power[i] >= best.power
Louder(power, best, i) == power[i] > best.power
Best(power) ==
  LET best[i \in 0 .. Last] ==
        IF i = 0 THEN [power |-> 0, index |-> 0]
        ELSE IF Louder(power, best[i - 1], i) THEN [power |-> power[i], index |-> i]
        ELSE best[i - 1]
  IN  best
max_index(power) == Best(power)[Last].index

-----------------------------------------------------------------------------
(* What it is meant to find *)

Strongest(power) ==
  LET loudest == {i \in 1 .. Last : power[i] > 0 /\ \A k \in 1 .. Last : power[k] <= power[i]}
  IN  IF loudest = {} THEN 0 ELSE Min(loudest)

=============================================================================
