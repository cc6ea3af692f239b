------------------------------- MODULE BaseFees -------------------------------
(***************************************************************************)
(* The base fee of a pool (base_fee/): schedules that lower the fee with   *)
(* time or with the price, and the rate limiter's window.  A base fee b is *)
(* a record with the fields of all of them, those of other modes zero:     *)
(*   cliff, reduction, periods   the schedules' fee and how it falls       *)
(*   frequency                   length of a period of a time schedule     *)
(*   step                        price step of a market-cap schedule       *)
(*   duration                    until a market-cap schedule or a rate     *)
(*                               limiter expires                           *)
(*   increment, max, reference   the rate limiter's                        *)
(* `since` is the current point minus the activation point: negative while *)
(* a whitelisted vault buys early.  As in SwapMath, a result is a set that *)
(* is empty where the code returns an error.                               *)
(***************************************************************************)
EXTENDS TradingFee

CONSTANTS
  MinFeeNumerator,      \* MIN_FEE_NUMERATOR
  MaxNewFee,            \* get_max_fee_numerator(CURRENT_POOL_VERSION)
  MaxBasisPoint,        \* MAX_BASIS_POINT
  OneQ,                 \* ONE_Q64
  PowBits,              \* bits of an exponent that pow looks at
  MaxLimiterDuration    \* MAX_RATE_LIMITER_DURATION_IN_{SLOTS,SECONDS}

ASSUME BaseFeeAssumption ==
  /\ MinFeeNumerator \in Nat
  /\ MaxNewFee \in 0..(FeeDenominator - 1)
  /\ MaxBasisPoint \in Nat \ {0}
  /\ OneQ \in Nat \ {0}
  /\ PowBits \in Nat
  /\ MaxLimiterDuration \in Nat

TimeModes == {"TimeLinear", "TimeExponential"}
CapModes  == {"CapLinear", "CapExponential"}

BaseFeeRecord ==
  [mode : TimeModes \cup CapModes \cup {"RateLimiter"},
   cliff : Nat, reduction : Nat, periods : Nat, frequency : Nat,
   step : Nat, duration : Nat, increment : Nat, max : Nat, reference : Nat]

\* One bit of the exponent, the lowest first: multiply by the base if it is
\* set, and square the base, truncating after every product.
PowStep(s) ==
  [result |-> IF s.exp % 2 = 1 THEN (s.result * s.base) \div OneQ ELSE s.result,
   base   |-> (s.base * s.base) \div OneQ,
   exp    |-> s.exp \div 2]

\* A wrong version the runs must tell from the right one: the highest bit of
\* the exponent is never looked at.
PowShort(base, exp) ==
  LET loop[k \in 0..PowBits] ==
        IF k = 0 THEN [result |-> OneQ, base |-> base, exp |-> exp]
                 ELSE PowStep(loop[k - 1])
  IN  {loop[PowBits - 1].result} \ {0}

\* pow of fee_math.rs, for a base below one, in fixed point.  An exponent of
\* more bits than it looks at is an error, and so is a result of zero.
Pow(base, exp) ==
  LET loop[k \in 0..PowBits] ==
        IF k = 0 THEN [result |-> OneQ, base |-> base, exp |-> exp]
                 ELSE PowStep(loop[k - 1])
      last == loop[PowBits]
  IN  IF last.exp # 0 \/ last.result = 0 THEN {} ELSE {last.result}

\* get_fee_in_period
FeeInPeriod(cliff, reduction, period) ==
  LET bps == (reduction * OneQ) \div MaxBasisPoint
  IN  IF reduction = 0 THEN {cliff}
      ELSE IF bps > OneQ THEN {}
      ELSE {(power * cliff) \div OneQ : power \in Pow(OneQ - bps, period)}

\* A wrong version the runs must tell from the right one: a period past the
\* last one keeps lowering the fee.
PeriodFeeUncapped(b, period) ==
  IF b.mode \in {"TimeLinear", "CapLinear"}
    THEN {b.cliff - b.reduction * period} \cap Nat
    ELSE FeeInPeriod(b.cliff, b.reduction, period)

\* get_base_fee_numerator_by_period of both schedulers.
PeriodFee(b, period) ==
  LET n == Smaller(period, b.periods)
  IN  IF b.mode \in {"TimeLinear", "CapLinear"}
        THEN {b.cliff - b.reduction * n} \cap Nat
        ELSE FeeInPeriod(b.cliff, b.reduction, n)

\* How many steps the price has gained on the initial one.
PriceSteps(b, price, initPrice) ==
  (((price - initPrice) * MaxBasisPoint) \div initPrice) \div b.step

\* A wrong version the runs must tell from the right one: an expired market
\* cap schedule goes back to its start.
PassedPeriodsReset(b, since, price, initPrice) ==
  IF b.mode \in TimeModes
    THEN IF since < 0 THEN b.periods ELSE since \div b.frequency
  ELSE IF since < 0 THEN b.periods
  ELSE IF since > b.duration THEN 0
  ELSE IF price <= initPrice THEN 0 ELSE PriceSteps(b, price, initPrice)

\* The period a schedule is in: the last one before activation, and after a
\* market cap schedule has expired.
PassedPeriods(b, since, price, initPrice) ==
  IF b.mode \in TimeModes
    THEN IF since < 0 THEN b.periods ELSE since \div b.frequency
  ELSE IF since < 0 \/ since > b.duration THEN b.periods
  ELSE IF price <= initPrice THEN 0 ELSE PriceSteps(b, price, initPrice)

\* get_base_fee_numerator of both schedulers, and the limiter's cliff fee.
ScheduledFee(b, since, price, initPrice) ==
  IF b.mode = "RateLimiter" \/ (b.mode \in TimeModes /\ b.frequency = 0)
    THEN {b.cliff}
    ELSE PeriodFee(b, PassedPeriods(b, since, price, initPrice))

\* get_min_base_fee_numerator
MinBaseFee(b) ==
  IF b.mode = "RateLimiter" THEN {b.cliff} ELSE PeriodFee(b, b.periods)

\* A wrong version the runs must tell from the right one: the last point of
\* the schedule or window counts as past it.
IsStaticEarly(b, since) ==
  since >= IF b.mode \in TimeModes THEN b.periods * b.frequency ELSE b.duration

\* validate_base_fee_is_static
IsStatic(b, since) ==
  since > IF b.mode \in TimeModes THEN b.periods * b.frequency ELSE b.duration

\* is_rate_limiter_applied: purchases, in the window after activation.
LimiterApplies(b, since, dir) ==
  b.mode = "RateLimiter" /\ dir = "BtoA" /\ since \in 0..b.duration

\* What a swap pays, given its variable fee (BaseFeeInfo's handler).
TradeFeesOf(b, since, price, initPrice, dir, variable) ==
  {[limited |-> LimiterApplies(b, since, dir), cliff |-> c,
    increment |-> b.increment, max |-> b.max, reference |-> b.reference,
    variable |-> variable] : c \in ScheduledFee(b, since, price, initPrice)}

-----------------------------------------------------------------------------
\* The validate functions of the three kinds of base fee.  A rate limiter
\* needs a cliff of at most `max`, so that one whose fields are all zero
\* never gets past the first check.
ValidFeeSchedule(b) ==
  /\ b.mode \in TimeModes =>
       \/ b.frequency = 0 /\ b.periods = 0 /\ b.reduction = 0
       \/ b.frequency > 0 /\ b.periods > 0 /\ b.reduction > 0
  /\ b.mode \in CapModes =>
       b.reduction > 0 /\ b.step > 0 /\ b.duration > 0 /\ b.periods > 0
  /\ \E n \in MinBaseFee(b) : MinFeeNumerator <= n /\ n < FeeDenominator
  /\ b.cliff < FeeDenominator /\ b.cliff <= MaxNewFee

ValidLimiter(b, feesInB) ==
  /\ feesInB
  /\ MinFeeNumerator <= b.cliff /\ b.cliff <= b.max
  /\ b.reference > 0 /\ b.duration > 0 /\ b.max > 0 /\ b.increment > 0
  /\ b.duration <= MaxLimiterDuration
  /\ b.increment < FeeDenominator
  /\ b.max <= MaxNewFee
  /\ LimiterNumerator(b, 0) >= MinFeeNumerator
  /\ LimiterNumerator(b, MaxAmount) <= MaxNewFee

ValidBaseFee(b, feesInB) ==
  IF b.mode = "RateLimiter" THEN ValidLimiter(b, feesInB) ELSE ValidFeeSchedule(b)

\* update_cliff_fee_numerator and the checks around it in
\* validate_and_update_pool_fees; `cap` is MAX_FEE_NUMERATOR_POST_UPDATE.
WithCliff(b, cliff) == [b EXCEPT !.cliff = cliff]

CanUpdateCliff(b, since, cliff, cap, feesInB) ==
  /\ IsStatic(b, since)
  /\ ValidBaseFee(WithCliff(b, cliff), feesInB)
  /\ \E n \in MinBaseFee(WithCliff(b, cliff)) : n <= cap
=============================================================================
