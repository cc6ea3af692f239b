-------------------------------- MODULE Arith --------------------------------
(***************************************************************************)
(* Integer helpers the other modules share: division rounded up, as        *)
(* Rounding::Up asks for (math/u128x128_math.rs), and the smaller of two   *)
(* numbers.                                                                *)
(***************************************************************************)
EXTENDS Integers

CeilDiv(n, d) == (n + d - 1) \div d

DivRound(n, d, round) == IF round = "Up" THEN CeilDiv(n, d) ELSE n \div d

Smaller(m, n) == IF m <= n THEN m ELSE n
Larger(m, n)  == IF m >= n THEN m ELSE n

\* x to the k, which the fixed-point power is measured against.
Power(x, k) ==
  LET p[j \in 0..k] == IF j = 0 THEN 1 ELSE x * p[j - 1]
  IN  p[k]
=============================================================================
