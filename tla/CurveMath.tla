------------------------------ MODULE CurveMath ------------------------------
(***************************************************************************)
(* The constant-liquidity curve of programs/cp-amm/src/curve.rs: how many  *)
(* tokens a price move is worth and where an amount moves the price.       *)
(*                                                                         *)
(* Prices are square roots in fixed point and liquidity carries the same   *)
(* number of fractional bits, so that token A is worth L*(pu-pl)/(pl*pu)   *)
(* and token B is worth L*(pu-pl)/Scale.  The code fixes Scale = 2^128; it *)
(* is a parameter here so that TLC can use small numbers.  U256            *)
(* intermediates do not overflow for u128 prices and liquidity, and are    *)
(* exact integers here.                                                    *)
(***************************************************************************)
EXTENDS Arith

CONSTANT Scale      \* 2^(2*RESOLUTION)

ASSUME ScaleAssumption == Scale \in Nat \ {0}

\* get_delta_amount_a_unsigned
DeltaA(lower, upper, L, round) ==
  DivRound(L * (upper - lower), lower * upper, round)

\* get_delta_amount_b_unsigned
DeltaB(lower, upper, L, round) == DivRound(L * (upper - lower), Scale, round)

\* A wrong version the runs must tell from the right one: the next price
\* is rounded the other way.
NextPriceFromAInDown(price, L, a) == (L * price) \div (L + a * price)
NextPriceFromBInUp(price, L, b) == price + CeilDiv(b * Scale, L)

\* get_next_sqrt_price_from_input: token A coming in lowers the price and the
\* result is rounded up, token B raises it and the result is rounded down.
NextPriceFromAIn(price, L, a) == CeilDiv(L * price, L + a * price)
NextPriceFromBIn(price, L, b) == price + (b * Scale) \div L

\* get_next_sqrt_price_from_output.  The first is defined only while
\* a * price < L (safe_sub, then a division by a positive number).
AOutPossible(price, L, a) == a * price < L
NextPriceFromAOut(price, L, a) == CeilDiv(L * price, L - a * price)
NextPriceFromBOut(price, L, b) == price - CeilDiv(b * Scale, L)
=============================================================================
