----------------------------- MODULE SwapQuotes -----------------------------
(***************************************************************************)
(* The swap arithmetic on its own, over every price, liquidity, amount,    *)
(* fee and direction within bounds: what the three modes owe to each other *)
(* and to the trader, and what a trader may not gain by combining trades.  *)
(***************************************************************************)
EXTENDS SwapMath

CONSTANTS Liquidities, Amounts, Fees    \* the inputs tried

ASSUME QuoteAssumption ==
  /\ Liquidities \subseteq Nat \ {0}
  /\ Amounts \subseteq Nat \ {0}
  /\ Fees \subseteq TradeFeeRecord
  /\ \A f \in Fees : f.limited => f.max <= MaxFeeNumerator
  /\ MaxFeeNumerator <= FeeDenominator - 2     \* 99 % of 10^9 in the code

\* A flat fee of nothing, of a tenth and of four tenths; and one that grows
\* from a tenth to a half or more in bands of `reference` units.
Tenth    == FeeDenominator \div 10
FlatFees == {FlatFee(n, 0) : n \in {0, Tenth, 4 * Tenth}}
GrowingFees ==
  {[limited |-> TRUE, cliff |-> Tenth, increment |-> Tenth, max |-> m,
    reference |-> x, variable |-> 0] :
      x \in {1, 2, 4, 20}, m \in {5 * Tenth, 9 * Tenth}}
EveryFee == FlatFees \cup GrowingFees

VARIABLE trade       \* [price, L, dir, amount, f]

Trades == [price : SqrtMinPrice..SqrtMaxPrice, L : Liquidities,
           dir : Directions, amount : Amounts, f : Fees]

\* One behaviour for each input; a step tries the next amount.
Init == trade \in Trades

NextAmount ==
  \E n \in Amounts : trade' = [trade EXCEPT !.amount = n]

Spec == Init /\ [][NextAmount]_trade

-----------------------------------------------------------------------------
In(t)      == ExactIn(t.price, t.L, t.amount, t.dir, FeeFor(t.dir, t.f))
Partial(t) ==
  PartialIn(t.price, t.L, t.amount, t.dir, FeeFor(t.dir, t.f))
Out(t)     == ExactOut(t.price, t.L, t.amount, t.dir, FeeFor(t.dir, t.f))

Opposite(dir) == IF dir = "AtoB" THEN "BtoA" ELSE "AtoB"

\* A partial fill takes no more than was offered: "When it's exact in, partial
\* fill, this will be amount_in", SwapParameters2 says of the user's amount_0
\* (ix_swap.rs:43), and swap.test.ts:434 expects less to be taken.
OfferNotExceeded == \A r \in Partial(trade) : r.in <= trade.amount

\* Under a rate limiter, what a partial fill leaves over makes the fee on the
\* input be recomputed by the limiter's inverse.
Recomputed(t, r) ==
  FeesOnInput(t.dir) /\ FeeFor(t.dir, t.f).limited /\ r.left > 0

\* A partial fill stays in the range and is the exact-in swap wherever that
\* one is possible.  It never charges more than was offered, even where a flat
\* fee is recomputed for the part used (IncludedFeeAmount rounds up).  Where a
\* limiter's is recomputed (no variable fee on top), the fee is that of an
\* exact-in purchase of the total up to the error of the inverse
\* (LimiterQuotes!InverseAgrees), and the total exceeds the offer by no more
\* than that error weighs where each unit more pays the highest fee.
PartialFillFair ==
  \A r \in Partial(trade) :
    /\ r.out >= 0
    /\ r.fee >= 0
    /\ r.next \in SqrtMinPrice..SqrtMaxPrice
    /\ In(trade) # {} /\ r.left = 0 => In(trade) = {r}
    /\ ~Recomputed(trade, r) => r.in <= trade.amount
    /\ Recomputed(trade, r) /\ trade.f.variable = 0 =>
         LET exactIn == FeeOn(r.in, NumeratorFor(r.in, trade.f))
         IN  /\ exactIn <= r.fee + 2 + r.in \div FeeDenominator
             /\ r.fee <= exactIn + 7 + (2 * r.in) \div FeeDenominator
             /\ (r.in - trade.amount) * (FeeDenominator - trade.f.max)
                  <= 2 * r.in + 6 * FeeDenominator

\* A trade whose fee does not grow with its amount.
Flat(t) == ~FeeFor(t.dir, t.f).limited

\* What exact-out charges is enough for exact-in to deliver as much, and one
\* unit less delivers less: neither mode undercuts the other.  (The
\* rate limiter's two directions only agree roughly, see LimiterQuotes.)
ModesAgree ==
  Flat(trade) =>
    \A r \in Out(trade) :
      /\ \A s \in In([trade EXCEPT !.amount = r.in]) : s.out >= trade.amount
      /\ r.in > 1 => \A s \in In([trade EXCEPT !.amount = r.in - 1]) :
                       s.out < trade.amount

\* Trading there and back never returns more than was paid.
NoRoundTripGain ==
  \A r \in In(trade) : r.out > 0 =>
    \A s \in In([trade EXCEPT !.amount = r.out, !.price = r.next,
                              !.dir = Opposite(trade.dir)]) :
      s.out <= trade.amount

\* Nor does cutting a trade in two pay: the second part is quoted at the
\* price the first one left.  A rate limiter makes it pay, which is what the
\* single-swap rule of module SwapTransaction is for.
NoSplitGain ==
  \A r \in In(trade), n \in 1..(trade.amount - 1) : Flat(trade) =>
    \A s \in In([trade EXCEPT !.amount = n]) :
      \A u \in In([trade EXCEPT !.amount = trade.amount - n,
                                !.price = s.next]) :
        s.out + u.out <= r.out
=============================================================================
