--------------------------------- MODULE Fft ---------------------------------
(***************************************************************************)
(* fft_utils.c.  The transform only adds, subtracts and multiplies by      *)
(* powers of one root of unity: it is modelled over any commutative ring   *)
(* that has such a root.  The complex numbers are one, which the program   *)
(* computes with up to rounding; the integers modulo a prime are another.  *)
(***************************************************************************)
EXTENDS Spectrum

CONSTANTS
  Value, Zero, One, Add(_, _), Mul(_, _), Neg(_),  \* the ring
  W                                                \* exp(-2 Pi I / N)

ASSUME RingAssumption ==
  /\ Zero \in Value /\ One \in Value /\ W \in Value
  /\ \A a \in Value : /\ Neg(a) \in Value /\ Add(a, Neg(a)) = Zero
                      /\ Add(a, Zero) = a /\ Mul(a, One) = a
  /\ \A a, b \in Value : /\ Add(a, b) \in Value /\ Add(a, b) = Add(b, a)
                         /\ Mul(a, b) \in Value /\ Mul(a, b) = Mul(b, a)
  /\ \A a, b, c \in Value : /\ Add(Add(a, b), c) = Add(a, Add(b, c))
                            /\ Mul(Mul(a, b), c) = Mul(a, Mul(b, c))
                            /\ Mul(a, Add(b, c)) = Add(Mul(a, b), Mul(a, c))

root[k \in Nat] == IF k = 0 THEN One ELSE Mul(W, root[k - 1])

\* N is a power of 2, and half a turn is -1.
ASSUME PowerOfTwoAssumption == \A d \in 2 .. N : N % d = 0 => d % 2 = 0
ASSUME RootAssumption == root[N \div 2] = Neg(One)

Index == 0 .. N - 1
Arrays == [Index -> Value]

-----------------------------------------------------------------------------
\* cexpf(-I * (M_PI * i) / n).  (FullTurn: without the half in the exponent.)
FullTurn(i) == root[i]
Twiddle(i) == root[i \div 2]

\* The loop of _fft: place j of buf is written for i or for i + n.  The two
\* arrays of this call begin at base.
Butterflies(buf, out, base, step) ==
  [j \in Index |->
     LET i == (2 * (j - base)) % N
         t == Mul(Twiddle(i), out[base + i + step])
     IN  IF j < base \/ (j - base) % step # 0 THEN buf[j]
         ELSE IF 2 * (j - base) < N THEN Add(out[base + i], t)
         ELSE Add(out[base + i], Neg(t))]

\* A call on the arrays that begin at base; each level swaps them.
Steps == {step \in 1 .. N : N % step = 0}
Calls == {call \in [buf : Arrays, out : Arrays, base : Index, step : Steps] :
            call.base < call.step}
Call(buf, out, base, step) == [buf |-> buf, out |-> out, base |-> base, step |-> step]

_fft[call \in Calls] ==
  IF call.step >= N THEN call
  ELSE LET step == 2 * call.step
           even == _fft[Call(call.out, call.buf, call.base, step)]
           odd == _fft[Call(even.buf, even.out, call.base + call.step, step)]
       IN  [call EXCEPT !.buf = Butterflies(odd.out, odd.buf, call.base, call.step),
                        !.out = odd.buf]

fft(samples) == _fft[Call(samples, samples, 0, 1)].buf

-----------------------------------------------------------------------------
(* What it is meant to compute *)

\* f[0] + ... + f[n - 1]
SumTo(f, n) ==
  LET sum[i \in 0 .. n] == IF i = 0 THEN Zero ELSE Add(sum[i - 1], f[i - 1])
  IN  sum[n]

Dft(x) == [k \in Index |-> SumTo([j \in Index |-> Mul(x[j], root[(j * k) % N])], N)]

=============================================================================
