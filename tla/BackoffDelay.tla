----------------------------- MODULE BackoffDelay -----------------------------
(***************************************************************************)
(* calculateRestartDelay (sync/instance_scale.go): the exponential         *)
(* back-off, in the machine's words.  The widths are parameters so that    *)
(* TLC reaches the values at which they overflow.                          *)
(***************************************************************************)
EXTENDS Integers

CONSTANTS Int64Bits, Int32Bits
ASSUME WidthAssumption ==
  /\ Int64Bits \in Nat /\ Int32Bits \in Nat
  /\ 2 <= Int32Bits /\ Int32Bits < Int64Bits
\* True of every width; the provers know no such fact of exponentiation.
ASSUME PowerAssumption == 2^Int64Bits > 0

MaxInt32 == 2^(Int32Bits - 1) - 1
\* An int64 product.
Wrapped(x) ==
  LET w == x % 2^Int64Bits IN IF w >= 2^(Int64Bits - 1) THEN w - 2^Int64Bits ELSE w

\* Mutant: the guard before the shift looks at the exponent alone.
DelayWithoutBaseGuard(base, max, count) ==
  LET rc == count - 1
      delay == Wrapped(base * 2^rc)
  IN  IF base <= 0 \/ count <= 0 THEN 0
      ELSE IF rc >= Int64Bits - 2 THEN (IF max > 0 THEN max ELSE MaxInt32)
      ELSE IF max > 0 /\ delay > max THEN max
      ELSE IF delay > MaxInt32 THEN MaxInt32 ELSE delay

CalculateRestartDelay(base, max, count) ==
  LET rc == count - 1
      delay == Wrapped(base * 2^rc)
  IN  IF base <= 0 \/ count <= 0 THEN 0
      ELSE IF rc >= Int64Bits - 2 \/ base > 2^(Int64Bits - 2 - rc)
        THEN (IF max > 0 THEN max ELSE MaxInt32)
      ELSE IF max > 0 /\ delay > max THEN max
      ELSE IF delay > MaxInt32 THEN MaxInt32 ELSE delay
=============================================================================
