---------------------------- MODULE ScheduleQuotes ----------------------------
(***************************************************************************)
(* The base fees on their own: every validated schedule and limiter within *)
(* bounds, while time passes and the price moves as it likes.              *)
(***************************************************************************)
EXTENDS BaseFees

CONSTANTS
  Cliffs, Reductions,        \* cliff fees; what a period takes off or a band adds
  MaxPeriods,                \* most periods of a schedule
  Frequencies, Steps,        \* lengths of a period, in points and in price
  Durations,                 \* until a market-cap schedule or a limiter expires
  MaxFees, ReferenceAmounts, \* a limiter's greatest fee and its first band
  Prices, InitPrice,         \* the pool's prices, the one it starts with
  Before, MaxSince           \* points tried before and after the activation

ASSUME ScheduleInputs ==
  /\ Cliffs \subseteq Nat /\ Reductions \subseteq Nat /\ MaxPeriods \in Nat
  /\ Frequencies \subseteq Nat /\ Steps \subseteq Nat /\ Durations \subseteq Nat
  /\ MaxFees \subseteq Nat /\ ReferenceAmounts \subseteq Nat
  /\ MaxSince \in Nat /\ Before \in Nat
  /\ MaxBasisPoint <= OneQ              \* 10^4 and 2^64 in the code
  /\ Prices \subseteq Nat \ {0} /\ InitPrice \in Prices

VARIABLES baseFee,   \* a base fee
          since,     \* the current point, from the activation point on
          sqrtPrice  \* the pool's price

scheduleVars == <<baseFee, since, sqrtPrice>>

TimeSchedules ==
  [mode : TimeModes, cliff : Cliffs, reduction : Reductions,
   periods : 0..MaxPeriods, frequency : Frequencies, step : {0}, duration : {0},
   increment : {0}, max : {0}, reference : {0}]

CapSchedules ==
  [mode : CapModes, cliff : Cliffs, reduction : Reductions,
   periods : 1..MaxPeriods, frequency : {0}, step : Steps, duration : Durations,
   increment : {0}, max : {0}, reference : {0}]

Limiters ==
  [mode : {"RateLimiter"}, cliff : Cliffs, reduction : {0},
   periods : {0}, frequency : {0}, step : {0}, duration : Durations,
   increment : Reductions, max : MaxFees, reference : ReferenceAmounts]

\* Before activation, only a whitelisted vault trades.
ScheduleInit ==
  /\ baseFee \in {b \in TimeSchedules \cup CapSchedules \cup Limiters :
                    ValidBaseFee(b, TRUE)}
  /\ since = -Before
  /\ sqrtPrice = InitPrice

TimePasses ==
  since < MaxSince /\ since' = since + 1 /\ UNCHANGED <<baseFee, sqrtPrice>>

PriceMoves ==
  sqrtPrice' \in Prices \ {sqrtPrice} /\ UNCHANGED <<baseFee, since>>

ScheduleNext == TimePasses \/ PriceMoves

ScheduleSpec == ScheduleInit /\ [][ScheduleNext]_scheduleVars

-----------------------------------------------------------------------------
Now == ScheduledFee(baseFee, since, sqrtPrice, InitPrice)

\* A fee that passed validation can always be computed, whatever the time and
\* the price: otherwise nobody could swap until they change.  It stays above
\* the minimum fee and at most the cliff fee that were validated.
FeeDefinedAndBounded ==
  /\ Now # {}
  /\ \A n \in Now, least \in MinBaseFee(baseFee) :
       /\ least <= n /\ n <= baseFee.cliff
       /\ MinFeeNumerator <= n /\ n <= MaxNewFee

\* Once the pool is active, time and a rising price only lower the fee, the
\* end of a schedule included; traders who wait are never charged more.
FeeNeverRises ==
  [][since >= 0 /\ sqrtPrice' >= sqrtPrice =>
       \A n \in Now, m \in Now' : m <= n]_scheduleVars

\* What an operator's update takes for granted: a fee that counts as static
\* no longer depends on time, price or direction, and is the minimum that the
\* update compares with the cap.
StaticIsStatic ==
  IsStatic(baseFee, since) =>
    \A p \in Prices :
      /\ ScheduledFee(baseFee, since, p, InitPrice) = MinBaseFee(baseFee)
      /\ \A dir \in {"AtoB", "BtoA"} : ~LimiterApplies(baseFee, since, dir)

\* The exponential schedules take `reduction` off the fee once a period: what
\* square-and-multiply in fixed point makes of the power is off by less than
\* one unit of the scale a period, up or down, besides the fee's own rounding
\* down.  (Up, because the reduction itself is truncated before it is taken
\* from one.)
DecayIsGeometric ==
  baseFee.mode = "TimeExponential" /\ baseFee.frequency > 0 /\ since >= 0 =>
    \A n \in Now :
      LET k     == Smaller(since \div baseFee.frequency, baseFee.periods)
          whole == Power(MaxBasisPoint, k)
          exact == baseFee.cliff * Power(MaxBasisPoint - baseFee.reduction, k)
          drift == (baseFee.cliff * k * whole) \div OneQ
      IN  /\ n * whole <= exact + drift
          /\ exact <= (n + 1) * whole + drift
=============================================================================
