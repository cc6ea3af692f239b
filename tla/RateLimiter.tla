------------------------------ MODULE RateLimiter ------------------------------
(***************************************************************************)
(* The rate limiter of base_fee/fee_rate_limiter.rs: for a while after     *)
(* activation, the larger a purchase the higher its fee.  The first        *)
(* `reference` units pay the numerator `cliff`, each further `reference`   *)
(* units pay `increment` more, and everything above MaxIndex of these      *)
(* bands pays `max`.  l is a record with these four fields; the numerators *)
(* are those that to_numerator makes of the basis points in the account.   *)
(***************************************************************************)
EXTENDS FeeMath

CONSTANT MaxAmount            \* u64::MAX

ASSUME AmountAssumption == MaxAmount \in Nat

\* PodAlignedFeeRateLimiter::get_max_index
MaxIndex(l) == (l.max - l.cliff) \div l.increment

\* A wrong version the runs must tell from the right one: a partial band
\* pays the numerator of the band before it.
BandFeesLow(l, amount) ==
  LET over == amount - l.reference
      a == over \div l.reference
      n == Smaller(a, MaxIndex(l))
  IN  l.reference * (l.cliff + l.cliff * n + (l.increment * n * (n + 1)) \div 2)
        + IF a < MaxIndex(l)
            THEN (over % l.reference) * (l.cliff + l.increment * a)
            ELSE (over - n * l.reference) * l.max

\* The closed form of the fee, in units of 1/FeeDenominator, of an amount
\* above the reference: a full bands after the first one and a part of the
\* next, or all bands and what is above them.
BandFees(l, amount) ==
  LET over == amount - l.reference
      a == over \div l.reference
      n == Smaller(a, MaxIndex(l))
  IN  l.reference * (l.cliff + l.cliff * n + (l.increment * n * (n + 1)) \div 2)
        + IF a < MaxIndex(l)
            THEN (over % l.reference) * (l.cliff + l.increment * (a + 1))
            ELSE (over - n * l.reference) * l.max

\* get_fee_numerator_from_included_fee_amount: the fee is rounded up and
\* turned back into a numerator, rounded up again.
LimiterNumerator(l, amount) ==
  IF amount <= l.reference THEN l.cliff
  ELSE CeilDiv(CeilDiv(BandFees(l, amount), FeeDenominator) * FeeDenominator,
               amount)

\* PodAlignedFeeRateLimiter::get_excluded_fee_amount
LimiterExcluded(l, amount) == amount - FeeOn(amount, LimiterNumerator(l, amount))

\* A wrong version the runs must tell from the right one: one band too many.
CheckedAmountLong(l) == Smaller((MaxIndex(l) + 2) * l.reference, MaxAmount)

\* get_checked_amounts: where the last band ends.
CheckedAmount(l) == Smaller((MaxIndex(l) + 1) * l.reference, MaxAmount)
Overflows(l)     == (MaxIndex(l) + 1) * l.reference > MaxAmount

\* sqrt_u256
SqrtDown(n) == CHOOSE r \in 0..n : r * r <= n /\ n < (r + 1) * (r + 1)

\* The amount that leaves ex, below the end of the last band: the quadratic
\* through the ends of the bands gives an amount in the right band, and what
\* is missing pays that band's numerator.  Empty where the code fails.
IncludedInBands(l, ex) ==
  LET x0   == l.reference
      y    == 2 * FeeDenominator * x0 + l.increment * x0 - 2 * l.cliff * x0
      disc == y * y - 8 * l.increment * ex * FeeDenominator * x0
      some == (y - SqrtDown(disc)) \div (2 * l.increment)
      rest == ex - LimiterExcluded(l, some)
      rate == l.cliff + l.increment * (some \div x0)
  IN  IF disc >= 0 /\ rest >= 0 /\ rate < FeeDenominator
        THEN {some + IncludedFeeAmount(rest, rate)} ELSE {}

\* Beyond the last band the rest pays max.
IncludedAboveBands(l, ex) ==
  IF Overflows(l) THEN {}
  ELSE {CheckedAmount(l)
          + IncludedFeeAmount(ex - LimiterExcluded(l, CheckedAmount(l)), l.max)}

\* get_fee_numerator_from_excluded_fee_amount: the numerator for the amount
\* that leaves ex, as a set that is empty where the code returns an error.
LimiterFromExcluded(l, ex) ==
  LET checked == LimiterExcluded(l, CheckedAmount(l))
      amounts == IF ex < checked THEN IncludedInBands(l, ex)
                                 ELSE IncludedAboveBands(l, ex)
  IN  IF ex <= LimiterExcluded(l, l.reference) THEN {l.cliff}
      ELSE IF ex = checked THEN {LimiterNumerator(l, CheckedAmount(l))}
      ELSE {n \in {CeilDiv((x - ex) * FeeDenominator, x) : x \in amounts} :
              n \in Nat /\ n >= l.cliff}
=============================================================================
