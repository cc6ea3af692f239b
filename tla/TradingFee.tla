------------------------------ MODULE TradingFee ------------------------------
(***************************************************************************)
(* The trading fee of one swap, as the get_total_trading_fee functions of  *)
(* PoolFeesStruct compute it: the base fee, which a rate limiter may make  *)
(* depend on the amount, plus the variable fee, under the cap of the       *)
(* pool's version.                                                         *)
(*                                                                         *)
(* A trade fee is what a swap finds in its pool: [limited] says whether    *)
(* the rate limiter applies, with the limiter's fields; otherwise `cliff`  *)
(* is the numerator whatever the amount.                                   *)
(***************************************************************************)
EXTENDS RateLimiter

CONSTANT MaxFeeNumerator      \* get_max_fee_numerator of the pool's version

ASSUME MaxFeeAssumption == MaxFeeNumerator \in 0..(FeeDenominator - 1)

TradeFeeRecord ==
  {f \in [limited : BOOLEAN, cliff : Nat, increment : Nat, max : Nat,
          reference : Nat, variable : Nat] :
     f.limited => f.increment > 0 /\ f.reference > 0 /\ f.cliff <= f.max}

FlatFee(n, variable) ==
  [limited |-> FALSE, cliff |-> n, increment |-> 0, max |-> n,
   reference |-> 0, variable |-> variable]

\* BaseFeeHandler::get_base_fee_numerator_from_{included,excluded}_fee_amount
BaseFromIncluded(f, amount) ==
  IF f.limited THEN LimiterNumerator(f, amount) ELSE f.cliff

BaseFromExcluded(f, amount) ==
  IF f.limited THEN LimiterFromExcluded(f, amount) ELSE {f.cliff}

\* get_total_fee_numerator
TotalNumerator(base, f) == Smaller(base + f.variable, MaxFeeNumerator)

\* get_total_trading_fee_from_included_fee_amount
NumeratorFor(amount, f) == TotalNumerator(BaseFromIncluded(f, amount), f)

\* get_total_trading_fee_from_excluded_fee_amount, then
\* get_included_fee_amount: empty where the former returns an error.
AmountsIncluding(amount, f) ==
  {IncludedFeeAmount(amount, TotalNumerator(base, f)) :
     base \in BaseFromExcluded(f, amount)}
=============================================================================
