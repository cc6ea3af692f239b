------------------------------- MODULE SwapMath -------------------------------
(***************************************************************************)
(* What a swap does to a pool (Pool::get_swap_result_from_* and the        *)
(* calculate_* functions of state/pool.rs): the amounts that change hands, *)
(* the fee and the next price.                                             *)
(*                                                                         *)
(* Each function returns the set of its possible results, which is empty   *)
(* where the code returns an error and otherwise has one element.  f is    *)
(* the pool's trade fee, from which every amount gets its own numerator.   *)
(***************************************************************************)
EXTENDS CurveMath, TradingFee

CONSTANTS SqrtMinPrice, SqrtMaxPrice,
          CollectFeeMode            \* "BothToken" or "OnlyB"

ASSUME PriceAssumption ==
  /\ SqrtMinPrice \in Nat \ {0}
  /\ SqrtMaxPrice \in Nat
  /\ SqrtMinPrice < SqrtMaxPrice
  /\ CollectFeeMode \in {"BothToken", "OnlyB"}

Directions == {"AtoB", "BtoA"}

\* FeeMode::get_fee_mode
FeesOnInput(dir)  == CollectFeeMode = "OnlyB" /\ dir = "BtoA"
FeeToken(dir)     == IF CollectFeeMode = "BothToken" /\ dir = "BtoA"
                       THEN "A" ELSE "B"

\* is_rate_limiter_applied: sales pay the cliff fee whatever their amount.
FeeFor(dir, f) ==
  IF dir = "AtoB" /\ f.limited THEN [f EXCEPT !.limited = FALSE] ELSE f

\* The price after an amount came in, or went out, on the side `dir` trades.
NextFromInput(price, L, amount, dir) ==
  IF dir = "AtoB" THEN NextPriceFromAIn(price, L, amount)
                  ELSE NextPriceFromBIn(price, L, amount)

NextFromOutput(price, L, amount, dir) ==
  IF dir = "AtoB" THEN NextPriceFromBOut(price, L, amount)
                  ELSE NextPriceFromAOut(price, L, amount)

\* A wrong version the runs must tell from the right one: the upper side
\* of the range is not checked.
WithinRangeBelow(next, dir) == dir = "AtoB" => next >= SqrtMinPrice

\* PriceRangeViolation is raised on the side the swap moves towards.
WithinRange(next, dir) ==
  IF dir = "AtoB" THEN next >= SqrtMinPrice ELSE next <= SqrtMaxPrice

\* A wrong version the runs must tell from the right one: the input is
\* rounded in the trader's favour.
MoveInDown(price, next, L, dir) ==
  IF dir = "AtoB" THEN DeltaA(next, price, L, "Down")
                  ELSE DeltaB(price, next, L, "Down")

\* The amounts that a move from `price` to `next` takes in and gives out.
MoveIn(price, next, L, dir) ==
  IF dir = "AtoB" THEN DeltaA(next, price, L, "Up")
                  ELSE DeltaB(price, next, L, "Up")

\* A wrong version the runs must tell from the right one: the output is
\* rounded in the trader's favour.
MoveOutUp(price, next, L, dir) ==
  IF dir = "AtoB" THEN DeltaB(next, price, L, "Up")
                  ELSE DeltaA(price, next, L, "Up")

MoveOut(price, next, L, dir) ==
  IF dir = "AtoB" THEN DeltaB(next, price, L, "Down")
                  ELSE DeltaA(price, next, L, "Down")

\* get_swap_result_from_exact_input
ExactIn(price, L, amountIn, dir, f) ==
  LET num   == NumeratorFor(amountIn, f)
      feeIn == IF FeesOnInput(dir) THEN FeeOn(amountIn, num) ELSE 0
      next  == NextFromInput(price, L, amountIn - feeIn, dir)
      gross == MoveOut(price, next, L, dir)
      feeOut == IF FeesOnInput(dir) THEN 0 ELSE FeeOn(gross, num)
  IN  IF WithinRange(next, dir)
        THEN {[in |-> amountIn, out |-> gross - feeOut,
               fee |-> feeIn + feeOut, next |-> next, left |-> 0]}
        ELSE {}

\* get_swap_result_from_partial_input: the move stops at the edge of the
\* range, and when something is left over the fee on the input is recomputed
\* from the part that was used.
PartialIn(price, L, amountIn, dir, f) ==
  LET onInput == FeesOnInput(dir)
      num     == NumeratorFor(amountIn, f)
      net     == IF onInput THEN amountIn - FeeOn(amountIn, num) ELSE amountIn
      edge    == IF dir = "AtoB" THEN SqrtMinPrice ELSE SqrtMaxPrice
      maxIn   == MoveIn(price, edge, L, dir)
      atEdge  == net >= maxIn
      used    == IF atEdge THEN maxIn ELSE net
      next    == IF atEdge THEN edge ELSE NextFromInput(price, L, net, dir)
      gross   == MoveOut(price, next, L, dir)
      totals  == IF used = net THEN {amountIn}
                 ELSE IF onInput THEN AmountsIncluding(used, f) ELSE {used}
      fee(total) == IF onInput THEN total - used ELSE FeeOn(gross, num)
  IN  {[in |-> total, out |-> IF onInput THEN gross ELSE gross - fee(total),
        fee |-> fee(total), next |-> next, left |-> net - used] :
         total \in totals}

\* get_swap_result_from_exact_output
ExactOut(price, L, amountOut, dir, f) ==
  LET onInput == FeesOnInput(dir)
      Move(gross) ==
        LET next == NextFromOutput(price, L, gross, dir)
            net  == MoveIn(price, next, L, dir)
        IN  IF /\ dir = "BtoA" => AOutPossible(price, L, gross)
               /\ dir = "AtoB" => next >= 0
               /\ WithinRange(next, dir)
              THEN {[in |-> total, out |-> amountOut,
                     fee |-> (gross - amountOut) + (total - net),
                     next |-> next, left |-> 0] :
                      total \in IF onInput THEN AmountsIncluding(net, f)
                                           ELSE {net}}
              ELSE {}
  IN  UNION {Move(gross) : gross \in IF onInput THEN {amountOut}
                                     ELSE AmountsIncluding(amountOut, f)}
=============================================================================
