------------------------------ MODULE MCKernels ------------------------------
(***************************************************************************)
(* Kernels with the integers modulo a prime for the values of a transform, *)
(* frames of two pixels, and images wider than high and higher than wide.  *)
(***************************************************************************)
EXTENDS Kernels

CONSTANT P  \* a prime

MCValue == 0 .. P - 1
MCAdd(a, b) == (a + b) % P
MCMul(a, b) == (a * b) % P
MCNeg(a) == (-a) % P

MCFrameSizes == {<<2, 1>>}
MCSizes == {<<3, 2>>, <<2, 3>>, <<3, 3>>}

=============================================================================
