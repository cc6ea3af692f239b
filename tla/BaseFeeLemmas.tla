----------------------------- MODULE BaseFeeLemmas -----------------------------
(***************************************************************************)
(* Facts about the base fees, for every value of the parameters: what      *)
(* validation guarantees, what a schedule computes, and that its fee only  *)
(* falls.  For the exponential schedules that is a fact about the power in *)
(* fixed point, whose truncated products must not overtake one another.    *)
(***************************************************************************)
EXTENDS BaseFees, ArithLemmas

\* What validation leaves true of a base fee for good.
FeeMade(b) ==
  /\ b.mode \in CapModes => b.step > 0
  /\ b.mode = "RateLimiter" =>
       b.increment > 0 /\ b.reference > 0 /\ b.cliff <= b.max
  /\ b.mode \in TimeModes /\ b.frequency = 0 =>
       b.periods = 0 /\ b.reduction = 0

\* What validate leaves true of a base fee, at creation and at an update.
LEMMA ValidMade ==
  ASSUME NEW b, NEW feesInB, ValidBaseFee(b, feesInB)
  PROVE  FeeMade(b)
<1>1. CASE b.mode = "RateLimiter"
  BY <1>1 DEF ValidBaseFee, ValidLimiter, FeeMade, TimeModes, CapModes
<1>2. CASE b.mode # "RateLimiter"
  <2>1. ValidFeeSchedule(b)
    BY <1>2 DEF ValidBaseFee
  <2>2. ASSUME b.mode \in TimeModes, b.frequency = 0
        PROVE  b.periods = 0 /\ b.reduction = 0
    <3>1. \/ b.frequency = 0 /\ b.periods = 0 /\ b.reduction = 0
          \/ b.frequency > 0 /\ b.periods > 0 /\ b.reduction > 0
      BY <2>1, <2>2 DEF ValidFeeSchedule
    <3>2. ~(b.frequency > 0)
      BY <2>2
    <3> QED BY <3>1, <3>2
  <2>3. b.mode \in CapModes => b.step > 0
    BY <2>1 DEF ValidFeeSchedule
  <2> QED BY <1>2, <2>2, <2>3 DEF FeeMade
<1> QED BY <1>1, <1>2

-----------------------------------------------------------------------------
\* The power in fixed point (pow of fee_math.rs).  Its loop is a recursive
\* function of the number of bits looked at.
PowStart(base, exp) == [result |-> OneQ, base |-> base, exp |-> exp]

PowRuns(base, exp, n, loop) ==
  loop = [k \in 0..n |-> IF k = 0 THEN PowStart(base, exp)
                                  ELSE PowStep(loop[k - 1])]

\* The loop that Pow computes with.
PowLoop(base, exp) == CHOOSE loop : PowRuns(base, exp, PowBits, loop)

\* Pow is what the loop leaves, if it leaves anything.
LEMMA PowIsLoop ==
  ASSUME NEW base, NEW exp
  PROVE  LET last == PowLoop(base, exp)[PowBits]
         IN  Pow(base, exp) = IF last.exp # 0 \/ last.result = 0
                                THEN {} ELSE {last.result}
BY DEF Pow, PowLoop, PowRuns, PowStart

\* There is such a loop, however many bits it looks at.
LEMMA PowRunsExists ==
  ASSUME NEW base, NEW exp, NEW n \in Nat
  PROVE  \E loop : PowRuns(base, exp, n, loop)
<1> DEFINE Bad == {k \in Nat : ~ \E loop : PowRuns(base, exp, k, loop)}
<1>1. ASSUME Bad # {} PROVE FALSE
  <2>1. PICK k \in Bad : \A j \in Bad : k <= j
    BY <1>1, LeastNumber
  <2>2. k # 0
    <3>1. PowRuns(base, exp, 0, [j \in 0..0 |-> PowStart(base, exp)])
      BY DEF PowRuns
    <3> QED BY <2>1, <3>1
  <2>3. k \in Nat /\ k - 1 \in Nat /\ k - 1 \notin Bad
    BY <2>1, <2>2
  <2>4. PICK loop : PowRuns(base, exp, k - 1, loop)
    BY <2>3
  <2> DEFINE longer ==
        [j \in 0..k |-> IF j = k THEN PowStep(loop[k - 1]) ELSE loop[j]]
  <2>5. \A j \in 0..k :
          longer[j] = IF j = 0 THEN PowStart(base, exp)
                               ELSE PowStep(longer[j - 1])
    <3>1. ASSUME NEW j \in 0..(k - 1)
          PROVE  loop[j] = IF j = 0 THEN PowStart(base, exp)
                                    ELSE PowStep(loop[j - 1])
      BY <2>3, <2>4 DEF PowRuns
    <3> TAKE j \in 0..k
    <3>2. CASE j = k
      BY <2>2, <2>3, <3>2
    <3>3. CASE j # k
      <4>1. j \in 0..(k - 1) /\ (j # 0 => j - 1 \in 0..k /\ j - 1 # k)
        BY <2>3, <3>3
      <4>2. longer[j] = loop[j] /\ (j # 0 => longer[j - 1] = loop[j - 1])
        BY <3>3, <4>1
      <4> HIDE DEF longer
      <4> QED BY <3>1, <4>1, <4>2
    <3> QED BY <3>2, <3>3
  <2>6. PowRuns(base, exp, k, longer)
    <3>1. longer = [j \in 0..k |-> longer[j]]
      OBVIOUS
    <3> HIDE DEF longer
    <3> QED BY <2>5, <3>1 DEF PowRuns
  <2> QED BY <2>1, <2>6
<1> QED BY <1>1

\* What the loop has after each bit.
LEMMA PowLoopAt ==
  ASSUME NEW base, NEW exp
  PROVE  /\ PowLoop(base, exp)[0] = PowStart(base, exp)
         /\ \A k \in 0..PowBits : k # 0 =>
              PowLoop(base, exp)[k] = PowStep(PowLoop(base, exp)[k - 1])
<1>1. PowBits \in Nat
  BY BaseFeeAssumption
<1>2. PowRuns(base, exp, PowBits, PowLoop(base, exp))
  BY <1>1, PowRunsExists DEF PowLoop
<1> HIDE DEF PowLoop
<1> QED BY <1>1, <1>2 DEF PowRuns

\* Two exponents of the same base in lockstep, the lower one in s: its powers
\* never fall behind once the rest of the exponents is the same.
Lockstep(s, t) ==
  /\ s.exp \in Nat /\ t.exp \in Nat /\ s.exp <= t.exp
  /\ s.base \in 0..OneQ /\ t.base = s.base
  /\ s.result \in 0..OneQ /\ t.result \in 0..OneQ
  /\ s.base <= s.result
  /\ s.exp = t.exp => t.result <= s.result

\* A product of fixed-point numbers, truncated: with a factor of at most one
\* it does not grow, and it grows with its factors.
LEMMA TruncLe ==
  ASSUME NEW x \in Nat, NEW y \in 0..OneQ
  PROVE  (x * y) \div OneQ \in 0..x
<1>1. OneQ \in Nat \ {0} /\ y \in Nat /\ x * y \in Nat
  BY BaseFeeAssumption, MulNat
<1>2. x * y <= x * OneQ
  <2>1. OneQ * x >= y * x /\ OneQ * x = x * OneQ /\ y * x = x * y
    BY <1>1, MulMonotone
  <2> QED BY <2>1
<1> QED BY <1>1, <1>2, DivNat, DivLe

\* Truncation keeps the order of products.
LEMMA TruncMonotone ==
  ASSUME NEW x \in Nat, NEW y \in Nat, NEW z \in Nat, x <= y
  PROVE  (x * z) \div OneQ <= (y * z) \div OneQ
<1>1. OneQ \in Nat \ {0} /\ x * z \in Nat /\ y * z \in Nat
  BY BaseFeeAssumption, MulNat
<1>2. x * z <= y * z
  BY MulMonotone
<1> DEFINE k == (x * z) \div OneQ
<1>3. k \in Int /\ k * OneQ <= x * z
  BY <1>1, DivEnough
<1> HIDE DEF k
<1>4. k * OneQ <= y * z
  <2>1. k * OneQ \in Int
    BY <1>1, <1>3
  <2> QED BY <1>1, <1>2, <1>3, <2>1
<1>5. k <= (y * z) \div OneQ
  BY <1>1, <1>3, <1>4, DivGe
<1> QED BY <1>5 DEF k

\* Every bit keeps them in lockstep.
LEMMA LockstepKept ==
  ASSUME NEW s, NEW t, Lockstep(s, t)
  PROVE  Lockstep(PowStep(s), PowStep(t))
<1> DEFINE square == (s.base * s.base) \div OneQ
           low    == (s.result * s.base) \div OneQ
           high   == (t.result * s.base) \div OneQ
<1>1. /\ s.base \in 0..OneQ /\ s.base \in Nat /\ t.base = s.base
      /\ s.result \in 0..OneQ /\ s.result \in Nat
      /\ t.result \in 0..OneQ /\ t.result \in Nat
      /\ s.base <= s.result /\ OneQ \in Nat
  BY BaseFeeAssumption DEF Lockstep
<1>2. square \in 0..s.base
  BY <1>1, TruncLe
<1>3. low \in 0..s.result /\ square <= low
  BY <1>1, TruncLe, TruncMonotone
<1>4. high \in 0..t.result /\ high <= s.base
  <2>1. high \in 0..t.result
    BY <1>1, TruncLe
  <2>2. (s.base * t.result) \div OneQ \in 0..s.base
    BY <1>1, TruncLe
  <2>3. s.base * t.result = t.result * s.base
    BY <1>1
  <2> QED BY <1>1, <2>1, <2>2, <2>3
<1>5. t.result <= s.result => high <= low
  BY <1>1, TruncMonotone
<1>6. /\ PowStep(s).base = square /\ PowStep(t).base = square
      /\ PowStep(s).exp = s.exp \div 2 /\ PowStep(t).exp = t.exp \div 2
      /\ PowStep(s).result = IF s.exp % 2 = 1 THEN low ELSE s.result
      /\ PowStep(t).result = IF t.exp % 2 = 1 THEN high ELSE t.result
  BY <1>1 DEF PowStep
<1> HIDE DEF square, low, high
<1>7. /\ s.exp \in Nat /\ t.exp \in Nat /\ s.exp <= t.exp
      /\ s.exp = t.exp => t.result <= s.result
  BY DEF Lockstep
<1>8. /\ s.exp \div 2 \in Nat /\ t.exp \div 2 \in Nat
      /\ s.exp \div 2 <= t.exp \div 2
      /\ s.exp \div 2 = t.exp \div 2 =>
           s.exp = t.exp \/ (s.exp % 2 = 0 /\ t.exp % 2 = 1)
  BY <1>7
<1>9. PowStep(t).result <= PowStep(s).result
      \/ PowStep(s).exp # PowStep(t).exp
  <2>1. CASE s.exp = t.exp
    BY <1>1, <1>5, <1>6, <1>7, <2>1
  <2>2. CASE s.exp % 2 = 0 /\ t.exp % 2 = 1
    <3>1. PowStep(s).result = s.result /\ PowStep(t).result = high
      BY <1>6, <2>2
    <3> QED BY <1>1, <1>4, <3>1
  <2> QED BY <1>6, <1>8, <2>1, <2>2
<1>10. /\ PowStep(s).result \in 0..OneQ /\ PowStep(t).result \in 0..OneQ
       /\ square <= PowStep(s).result /\ square \in 0..OneQ
  BY <1>1, <1>2, <1>3, <1>4, <1>6
<1> QED BY <1>6, <1>8, <1>9, <1>10 DEF Lockstep

\* So they stay in lockstep to the end.
LEMMA PowLockstep ==
  ASSUME NEW base \in 0..OneQ, NEW m \in Nat, NEW n \in Nat, m <= n
  PROVE  \A k \in 0..PowBits :
           Lockstep(PowLoop(base, m)[k], PowLoop(base, n)[k])
<1> DEFINE Bad == {k \in 0..PowBits :
                     ~Lockstep(PowLoop(base, m)[k], PowLoop(base, n)[k])}
<1>0. PowBits \in Nat /\ OneQ \in Nat
  BY BaseFeeAssumption
<1>1. ASSUME Bad # {} PROVE FALSE
  <2>1. PICK k \in Bad : \A j \in Bad : k <= j
    <3>1. Bad \in SUBSET Nat
      BY <1>0
    <3> HIDE DEF Bad
    <3> QED BY <1>1, <3>1, LeastNumber
  <2>2. Lockstep(PowStart(base, m), PowStart(base, n))
    BY <1>0 DEF Lockstep, PowStart
  <2>3. k # 0
    BY <1>0, <2>1, <2>2, PowLoopAt
  <2>4. k \in 0..PowBits /\ k - 1 \in 0..PowBits /\ k - 1 \notin Bad
    BY <1>0, <2>1, <2>3
  <2>5. Lockstep(PowLoop(base, m)[k - 1], PowLoop(base, n)[k - 1])
    BY <2>4
  <2>6. /\ PowLoop(base, m)[k] = PowStep(PowLoop(base, m)[k - 1])
        /\ PowLoop(base, n)[k] = PowStep(PowLoop(base, n)[k - 1])
    BY <2>3, <2>4, PowLoopAt
  <2>7. Lockstep(PowLoop(base, m)[k], PowLoop(base, n)[k])
    BY <2>5, <2>6, LockstepKept
  <2> QED BY <2>1, <2>7
<1> QED BY <1>1

\* A power of a number of at most one is at most one, and falls with its
\* exponent, truncated as it is.
LEMMA PowFalls ==
  ASSUME NEW base \in 0..OneQ, NEW m \in Nat, NEW n \in Nat, m <= n
  PROVE  /\ Pow(base, m) \subseteq 0..OneQ
         /\ Pow(base, n) # {} => Pow(base, m) # {}
         /\ \A x \in Pow(base, m), y \in Pow(base, n) : y <= x
<1> DEFINE s == PowLoop(base, m)[PowBits]
           t == PowLoop(base, n)[PowBits]
<1>1. Lockstep(s, t)
  BY PowLockstep, BaseFeeAssumption
<1>2. /\ Pow(base, m) = IF s.exp # 0 \/ s.result = 0 THEN {} ELSE {s.result}
      /\ Pow(base, n) = IF t.exp # 0 \/ t.result = 0 THEN {} ELSE {t.result}
  BY PowIsLoop
<1> HIDE DEF s, t
<1>3. /\ s.exp \in Nat /\ t.exp \in Nat /\ s.exp <= t.exp
      /\ s.result \in 0..OneQ /\ t.result \in 0..OneQ
      /\ s.exp = t.exp => t.result <= s.result
  BY <1>1 DEF Lockstep
<1>4. Pow(base, n) # {} => s.exp = 0 /\ t.exp = 0 /\ s.result # 0
  BY <1>2, <1>3, BaseFeeAssumption
<1> QED BY <1>2, <1>3, <1>4

-----------------------------------------------------------------------------
\* Hence so does the fee of an exponential schedule (get_fee_in_period).
LEMMA FeeInPeriodFalls ==
  ASSUME NEW cliff \in Nat, NEW reduction \in Nat, NEW m \in Nat, NEW n \in Nat,
         m <= n
  PROVE  /\ FeeInPeriod(cliff, reduction, m) \subseteq 0..cliff
         /\ FeeInPeriod(cliff, reduction, n) # {}
              => FeeInPeriod(cliff, reduction, m) # {}
         /\ \A x \in FeeInPeriod(cliff, reduction, m),
               y \in FeeInPeriod(cliff, reduction, n) : y <= x
<1> DEFINE bps  == (reduction * OneQ) \div MaxBasisPoint
           base == OneQ - bps
<1>1. OneQ \in Nat \ {0} /\ bps \in Nat
  BY BaseFeeAssumption, MulNat, DivNat
<1>2. CASE reduction = 0
  BY <1>2 DEF FeeInPeriod
<1>3. CASE reduction # 0 /\ bps > OneQ
  BY <1>3 DEF FeeInPeriod
<1>4. CASE reduction # 0 /\ ~(bps > OneQ)
  <2>1. base \in 0..OneQ
    BY <1>1, <1>4
  <2>2. /\ FeeInPeriod(cliff, reduction, m)
             = {(power * cliff) \div OneQ : power \in Pow(base, m)}
        /\ FeeInPeriod(cliff, reduction, n)
             = {(power * cliff) \div OneQ : power \in Pow(base, n)}
    BY <1>4 DEF FeeInPeriod
  <2> HIDE DEF base
  <2>3. /\ Pow(base, m) \subseteq 0..OneQ /\ Pow(base, n) \subseteq 0..OneQ
        /\ Pow(base, n) # {} => Pow(base, m) # {}
        /\ \A x \in Pow(base, m), y \in Pow(base, n) : y <= x
    BY <2>1, PowFalls
  <2>4. ASSUME NEW power \in 0..OneQ
        PROVE  (power * cliff) \div OneQ \in 0..cliff
    <3>1. (cliff * power) \div OneQ \in 0..cliff
      BY TruncLe
    <3>2. cliff * power = power * cliff
      BY <1>1
    <3> QED BY <3>1, <3>2
  <2>5. ASSUME NEW x \in Pow(base, m), NEW y \in Pow(base, n)
        PROVE  (y * cliff) \div OneQ <= (x * cliff) \div OneQ
    BY <1>1, <2>3, TruncMonotone
  <2>6. FeeInPeriod(cliff, reduction, m) \subseteq 0..cliff
    BY <2>2, <2>3, <2>4
  <2>7. FeeInPeriod(cliff, reduction, n) # {}
          => FeeInPeriod(cliff, reduction, m) # {}
    BY <2>2, <2>3
  <2>8. \A x \in FeeInPeriod(cliff, reduction, m),
           y \in FeeInPeriod(cliff, reduction, n) : y <= x
    BY <2>2, <2>5
  <2> QED BY <2>6, <2>7, <2>8
<1> QED BY <1>2, <1>3, <1>4

\* The fee of every schedule is a natural number of at most the cliff fee and
\* falls with the period, up to the last one.
LEMMA PeriodFeeFalls ==
  ASSUME NEW b \in BaseFeeRecord, NEW m \in Nat, NEW n \in Nat,
         Smaller(m, b.periods) <= Smaller(n, b.periods)
  PROVE  /\ PeriodFee(b, m) \subseteq 0..b.cliff
         /\ PeriodFee(b, n) # {} => PeriodFee(b, m) # {}
         /\ \A x \in PeriodFee(b, m), y \in PeriodFee(b, n) : y <= x
<1> DEFINE before == Smaller(m, b.periods)
           after  == Smaller(n, b.periods)
<1>1. /\ b.cliff \in Nat /\ b.reduction \in Nat
      /\ before \in Nat /\ after \in Nat /\ before <= after
  BY DEF BaseFeeRecord, Smaller
<1>2. CASE b.mode \in {"TimeLinear", "CapLinear"}
  <2>1. /\ PeriodFee(b, m) = {b.cliff - b.reduction * before} \cap Nat
        /\ PeriodFee(b, n) = {b.cliff - b.reduction * after} \cap Nat
    BY <1>2 DEF PeriodFee
  <2> HIDE DEF before, after
  <2>2. /\ b.reduction * before \in Nat /\ b.reduction * after \in Nat
        /\ b.reduction * before <= b.reduction * after
    <3>1. after * b.reduction >= before * b.reduction
      BY <1>1, MulMonotone
    <3> QED BY <1>1, <3>1, MulNat
  <2> QED BY <1>1, <2>1, <2>2
<1>3. CASE b.mode \notin {"TimeLinear", "CapLinear"}
  <2>1. /\ PeriodFee(b, m) = FeeInPeriod(b.cliff, b.reduction, before)
        /\ PeriodFee(b, n) = FeeInPeriod(b.cliff, b.reduction, after)
    BY <1>3 DEF PeriodFee
  <2> HIDE DEF before, after
  <2>2. /\ FeeInPeriod(b.cliff, b.reduction, before) \subseteq 0..b.cliff
        /\ FeeInPeriod(b.cliff, b.reduction, after) # {}
             => FeeInPeriod(b.cliff, b.reduction, before) # {}
        /\ \A x \in FeeInPeriod(b.cliff, b.reduction, before),
              y \in FeeInPeriod(b.cliff, b.reduction, after) : y <= x
    BY <1>1, FeeInPeriodFalls
  <2> QED BY <2>1, <2>2
<1> QED BY <1>2, <1>3

\* Schedules whose fee depends on time or price at all.
Scheduled(b) == ~(b.mode = "RateLimiter" \/ (b.mode \in TimeModes /\ b.frequency = 0))

\* The period a schedule is in is a natural number.
LEMMA PeriodsPass ==
  ASSUME NEW b \in BaseFeeRecord, FeeMade(b), Scheduled(b),
         NEW since \in Int, NEW price \in Nat, NEW init \in Nat \ {0}
  PROVE  PassedPeriods(b, since, price, init) \in Nat
<1>1. /\ b.periods \in Nat /\ b.frequency \in Nat /\ b.duration \in Nat
      /\ b.step \in Nat /\ MaxBasisPoint \in Nat
      /\ b.mode \in TimeModes \cup CapModes
  BY BaseFeeAssumption DEF BaseFeeRecord, Scheduled
<1>2. CASE b.mode \in TimeModes
  <2>1. b.frequency \in Nat \ {0}
    BY <1>1, <1>2 DEF Scheduled
  <2>2. since >= 0 => since \div b.frequency \in Nat
    BY <2>1, DivNat
  <2> QED BY <1>1, <1>2, <2>2 DEF PassedPeriods
<1>3. CASE b.mode \in CapModes
  <2>1. b.step \in Nat \ {0}
    BY <1>1, <1>3 DEF FeeMade
  <2>2. ASSUME price > init
        PROVE  PriceSteps(b, price, init) \in Nat
    <3>1. (price - init) * MaxBasisPoint \in Nat
      BY <1>1, <2>2, MulNat
    <3>2. ((price - init) * MaxBasisPoint) \div init \in Nat
      BY <3>1, DivNat
    <3> QED BY <2>1, <3>2, DivNat DEF PriceSteps
  <2>3. b.mode \notin TimeModes
    BY <1>3 DEF TimeModes, CapModes
  <2> QED BY <1>1, <2>2, <2>3 DEF PassedPeriods
<1> QED BY <1>1, <1>2, <1>3

\* The later and the higher the price, the later the period.
LEMMA PeriodsAdvance ==
  ASSUME NEW b \in BaseFeeRecord, FeeMade(b), Scheduled(b),
         NEW since \in Nat, NEW later \in Nat, since <= later,
         NEW price \in Nat, NEW higher \in Nat, price <= higher,
         NEW init \in Nat \ {0}
  PROVE  Smaller(PassedPeriods(b, since, price, init), b.periods)
           <= Smaller(PassedPeriods(b, later, higher, init), b.periods)
<1> DEFINE early == PassedPeriods(b, since, price, init)
           late  == PassedPeriods(b, later, higher, init)
<1>1. /\ b.periods \in Nat /\ b.frequency \in Nat /\ b.duration \in Nat
      /\ b.step \in Nat /\ MaxBasisPoint \in Nat
      /\ b.mode \in TimeModes \cup CapModes
  BY BaseFeeAssumption DEF BaseFeeRecord, Scheduled
<1>2. early \in Nat /\ late \in Nat
  <2>1. since \in Int /\ later \in Int
    OBVIOUS
  <2> QED BY <2>1, PeriodsPass
<1>3. early <= late \/ b.periods <= late
  <2>1. CASE b.mode \in TimeModes
    <3>1. b.frequency \in Nat \ {0}
      BY <1>1, <2>1 DEF Scheduled
    <3>2. since \div b.frequency <= later \div b.frequency
      BY <3>1, DivMonotone
    <3> QED BY <2>1, <3>2 DEF PassedPeriods
  <2>2. CASE b.mode \in CapModes
    <3>1. b.step \in Nat \ {0}
      BY <1>1, <2>2 DEF FeeMade
    <3>2. b.mode \notin TimeModes
      BY <2>2 DEF TimeModes, CapModes
    <3>3. CASE later > b.duration
      <4>1. late = b.periods
        BY <3>2, <3>3 DEF PassedPeriods
      <4> QED BY <1>1, <4>1
    <3>4. CASE later <= b.duration /\ price <= init
      <4>1. early = 0
        BY <1>1, <3>2, <3>4 DEF PassedPeriods
      <4> QED BY <1>2, <4>1
    <3>5. CASE later <= b.duration /\ price > init
      <4>1. early = PriceSteps(b, price, init) /\ late = PriceSteps(b, higher, init)
        BY <1>1, <3>2, <3>5 DEF PassedPeriods
      <4>2. /\ (price - init) * MaxBasisPoint \in Int
            /\ (higher - init) * MaxBasisPoint \in Int
            /\ (price - init) * MaxBasisPoint <= (higher - init) * MaxBasisPoint
        BY <1>1, MulMonotone
      <4>3. ((price - init) * MaxBasisPoint) \div init
              <= ((higher - init) * MaxBasisPoint) \div init
        BY <4>2, DivMonotone
      <4>4. /\ ((price - init) * MaxBasisPoint) \div init \in Int
            /\ ((higher - init) * MaxBasisPoint) \div init \in Int
        BY <4>2, DivEnough
      <4>5. PriceSteps(b, price, init) <= PriceSteps(b, higher, init)
        BY <3>1, <4>3, <4>4, DivMonotone DEF PriceSteps
      <4> QED BY <4>1, <4>5
    <3> QED BY <1>1, <3>3, <3>4, <3>5
  <2> QED BY <1>1, <2>1, <2>2
<1> HIDE DEF early, late
<1>4. Smaller(early, b.periods) <= Smaller(late, b.periods)
  BY <1>1, <1>2, <1>3 DEF Smaller
<1> QED BY <1>4 DEF early, late

\* get_base_fee_numerator: a natural number of at most the cliff fee, if any.
LEMMA ScheduledFeeNat ==
  ASSUME NEW b \in BaseFeeRecord, FeeMade(b),
         NEW since \in Int, NEW price \in Nat, NEW init \in Nat \ {0}
  PROVE  ScheduledFee(b, since, price, init) \subseteq 0..b.cliff
<1>1. b.cliff \in Nat /\ b.periods \in Nat
  BY DEF BaseFeeRecord
<1>2. CASE Scheduled(b)
  <2> DEFINE period == PassedPeriods(b, since, price, init)
  <2>1. period \in Nat
    BY <1>2, PeriodsPass
  <2>2. ScheduledFee(b, since, price, init) = PeriodFee(b, period)
    BY <1>2 DEF ScheduledFee, Scheduled
  <2> HIDE DEF period
  <2>3. Smaller(period, b.periods) <= Smaller(period, b.periods)
    BY <1>1, <2>1 DEF Smaller
  <2> QED BY <2>1, <2>2, <2>3, PeriodFeeFalls
<1>3. CASE ~Scheduled(b)
  BY <1>1, <1>3 DEF ScheduledFee, Scheduled
<1> QED BY <1>2, <1>3

\* Time and a rising price only lower it.
LEMMA ScheduledFeeFalls ==
  ASSUME NEW b \in BaseFeeRecord, FeeMade(b),
         NEW since \in Nat, NEW later \in Nat, since <= later,
         NEW price \in Nat, NEW higher \in Nat, price <= higher,
         NEW init \in Nat \ {0},
         NEW x \in ScheduledFee(b, since, price, init),
         NEW y \in ScheduledFee(b, later, higher, init)
  PROVE  y <= x
<1>1. CASE Scheduled(b)
  <2> DEFINE early == PassedPeriods(b, since, price, init)
             late  == PassedPeriods(b, later, higher, init)
  <2>1. early \in Nat /\ late \in Nat
    BY <1>1, PeriodsPass
  <2>2. Smaller(early, b.periods) <= Smaller(late, b.periods)
    BY <1>1, PeriodsAdvance
  <2>3. x \in PeriodFee(b, early) /\ y \in PeriodFee(b, late)
    BY <1>1 DEF ScheduledFee, Scheduled
  <2> HIDE DEF early, late
  <2> QED BY <2>1, <2>2, <2>3, PeriodFeeFalls
<1>2. CASE ~Scheduled(b)
  <2>1. x = b.cliff /\ y = b.cliff /\ b.cliff \in Nat
    BY <1>2 DEF ScheduledFee, Scheduled, BaseFeeRecord
  <2> QED BY <2>1
<1> QED BY <1>1, <1>2

\* The base fee's handler hands every swap a trade fee, and none that the
\* pool would still have to leave the limiter out of.
LEMMA TradeFeesSound ==
  ASSUME NEW b \in BaseFeeRecord, FeeMade(b),
         NEW since \in Int, NEW price \in Nat, NEW init \in Nat \ {0}, NEW dir, NEW variable \in Nat,
         NEW f \in TradeFeesOf(b, since, price, init, dir, variable)
  PROVE  f \in TradeFeeRecord /\ FeeFor(dir, f) = f
<1>1. PICK c \in ScheduledFee(b, since, price, init) :
        f = [limited |-> LimiterApplies(b, since, dir), cliff |-> c,
             increment |-> b.increment, max |-> b.max,
             reference |-> b.reference, variable |-> variable]
  BY DEF TradeFeesOf
<1>2. c \in Nat
  BY ScheduledFeeNat
<1>3. LimiterApplies(b, since, dir) =>
        b.mode = "RateLimiter" /\ dir = "BtoA" /\ c = b.cliff
  BY <1>1 DEF LimiterApplies, ScheduledFee
<1>4. LimiterApplies(b, since, dir) \in BOOLEAN
  BY DEF LimiterApplies
<1>5. f \in TradeFeeRecord
  BY <1>1, <1>2, <1>3, <1>4 DEF TradeFeeRecord, FeeMade, BaseFeeRecord
<1>6. FeeFor(dir, f) = f
  BY <1>1, <1>3 DEF FeeFor
<1> QED BY <1>5, <1>6

\* validate_base_fee_is_static is right: past its point, neither time nor
\* price nor direction matters, and the fee is the minimum base fee.
LEMMA StaticFee ==
  ASSUME NEW b \in BaseFeeRecord, FeeMade(b), NEW since \in Int,
         IsStatic(b, since), NEW price, NEW init
  PROVE  /\ ScheduledFee(b, since, price, init) = MinBaseFee(b)
         /\ \A dir : ~LimiterApplies(b, since, dir)
<1>1. /\ b.cliff \in Nat /\ b.periods \in Nat /\ b.frequency \in Nat
      /\ b.duration \in Nat
      /\ b.mode \in TimeModes \cup CapModes \cup {"RateLimiter"}
  BY DEF BaseFeeRecord
<1>2. CASE b.mode = "RateLimiter"
  <2>1. since > b.duration
    BY <1>2 DEF IsStatic, TimeModes
  <2>2. ~(since \in 0..b.duration)
    BY <1>1, <2>1
  <2> QED BY <1>2, <2>2 DEF ScheduledFee, MinBaseFee, LimiterApplies
<1>3. CASE b.mode \in TimeModes
  <2>1. since > b.periods * b.frequency
    BY <1>3 DEF IsStatic
  <2>2. b.mode # "RateLimiter"
    BY <1>3 DEF TimeModes
  <2>3. CASE b.frequency = 0
    <3>1. b.periods = 0 /\ b.reduction = 0
      BY <1>3, <2>3 DEF FeeMade
    <3>2. Smaller(0, 0) = 0
      BY DEF Smaller
    <3>3. PeriodFee(b, 0) = {b.cliff}
      <4>1. CASE b.mode \in {"TimeLinear", "CapLinear"}
        BY <1>1, <3>1, <3>2, <4>1 DEF PeriodFee
      <4>2. CASE b.mode \notin {"TimeLinear", "CapLinear"}
        BY <3>1, <3>2, <4>2 DEF PeriodFee, FeeInPeriod
      <4> QED BY <4>1, <4>2
    <3> QED BY <1>3, <2>2, <2>3, <3>1, <3>3
            DEF ScheduledFee, MinBaseFee, LimiterApplies
  <2>4. CASE b.frequency # 0
    <3>1. b.periods * b.frequency \in Nat
      BY <1>1, MulNat
    <3>2. since \in Nat /\ b.frequency \in Nat \ {0}
      BY <1>1, <2>1, <2>4, <3>1
    <3>3. since \div b.frequency \in Nat /\ b.periods <= since \div b.frequency
      BY <1>1, <2>1, <3>1, <3>2, DivNat, DivGe
    <3>4. PassedPeriods(b, since, price, init) = since \div b.frequency
      BY <1>3, <3>2 DEF PassedPeriods
    <3>5. Smaller(since \div b.frequency, b.periods) = b.periods
          /\ Smaller(b.periods, b.periods) = b.periods
      BY <1>1, <3>3 DEF Smaller
    <3>6. PeriodFee(b, since \div b.frequency) = PeriodFee(b, b.periods)
      BY <3>5 DEF PeriodFee
    <3> QED BY <2>2, <2>4, <3>4, <3>6
            DEF ScheduledFee, MinBaseFee, LimiterApplies
  <2> QED BY <2>3, <2>4
<1>4. CASE b.mode \in CapModes
  <2>1. b.mode # "RateLimiter" /\ b.mode \notin TimeModes
    BY <1>4 DEF CapModes, TimeModes
  <2>2. since > b.duration
    BY <2>1 DEF IsStatic
  <2>3. PassedPeriods(b, since, price, init) = b.periods
    BY <2>1, <2>2 DEF PassedPeriods
  <2> QED BY <2>1, <2>3 DEF ScheduledFee, MinBaseFee, LimiterApplies
<1> QED BY <1>1, <1>2, <1>3, <1>4

\* The minimum base fee is one number, within what validation allows.
LEMMA ValidMinimum ==
  ASSUME NEW b \in BaseFeeRecord, NEW feesInB, ValidBaseFee(b, feesInB),
         NEW n \in MinBaseFee(b)
  PROVE  MinFeeNumerator <= n /\ MinBaseFee(b) = {n}
<1>1. CASE b.mode = "RateLimiter"
  BY <1>1 DEF ValidBaseFee, ValidLimiter, MinBaseFee
<1>2. CASE b.mode # "RateLimiter"
  <2>1. PICK m \in MinBaseFee(b) : MinFeeNumerator <= m
    BY <1>2 DEF ValidBaseFee, ValidFeeSchedule
  <2>2. MinBaseFee(b) = PeriodFee(b, b.periods)
    BY <1>2 DEF MinBaseFee
  <2>3. \A k, l \in PeriodFee(b, b.periods) : k = l
    <3>1. ASSUME NEW base, NEW e, NEW k \in Pow(base, e), NEW l \in Pow(base, e)
          PROVE  k = l
      BY <3>1, PowIsLoop
    <3> QED BY <3>1 DEF PeriodFee, FeeInPeriod
  <2> QED BY <2>1, <2>2, <2>3
<1> QED BY <1>1, <1>2

\* A base fee that passed validation can be computed at any time and price,
\* and lies between the least fee that was validated and the cliff fee.
LEMMA ScheduledFeeDefined ==
  ASSUME NEW b \in BaseFeeRecord, NEW feesInB, ValidBaseFee(b, feesInB),
         NEW since \in Int, NEW price \in Nat, NEW init \in Nat \ {0}
  PROVE  /\ ScheduledFee(b, since, price, init) # {}
         /\ \A n \in ScheduledFee(b, since, price, init), least \in MinBaseFee(b) :
              /\ least <= n /\ n <= b.cliff
              /\ MinFeeNumerator <= n /\ n <= MaxNewFee
<1>1. /\ FeeMade(b) /\ b.cliff \in Nat /\ b.periods \in Nat
      /\ MinFeeNumerator \in Nat /\ MaxNewFee \in Nat
  BY ValidMade, BaseFeeAssumption DEF BaseFeeRecord
<1>2. b.cliff <= MaxNewFee
  <2>1. CASE b.mode = "RateLimiter"
    <3>1. b.cliff <= b.max /\ b.max <= MaxNewFee /\ b.max \in Nat
      BY <2>1 DEF ValidBaseFee, ValidLimiter, BaseFeeRecord
    <3> QED BY <1>1, <3>1
  <2>2. CASE b.mode # "RateLimiter"
    BY <2>2 DEF ValidBaseFee, ValidFeeSchedule
  <2> QED BY <2>1, <2>2
<1>3. ASSUME NEW least \in MinBaseFee(b)
      PROVE  MinFeeNumerator <= least
  BY <1>3, ValidMinimum
<1>4. /\ ScheduledFee(b, since, price, init) # {}
      /\ \A n \in ScheduledFee(b, since, price, init), least \in MinBaseFee(b) :
           least \in Nat /\ least <= n
      /\ MinBaseFee(b) # {}
  <2>1. CASE b.mode = "RateLimiter"
    BY <1>1, <2>1 DEF ScheduledFee, MinBaseFee
  <2>2. CASE b.mode # "RateLimiter"
    <3>1. MinBaseFee(b) = PeriodFee(b, b.periods)
      BY <2>2 DEF MinBaseFee
    <3>2. MinBaseFee(b) # {}
      BY <2>2 DEF ValidBaseFee, ValidFeeSchedule
    <3> DEFINE period == IF Scheduled(b) THEN PassedPeriods(b, since, price, init)
                                         ELSE 0
    <3>3. period \in Nat
      BY <1>1, PeriodsPass
    <3>4. ScheduledFee(b, since, price, init) = PeriodFee(b, period)
      <4>1. CASE Scheduled(b)
        BY <4>1 DEF ScheduledFee, Scheduled
      <4>2. CASE ~Scheduled(b)
        <5>1. /\ ScheduledFee(b, since, price, init) = {b.cliff}
              /\ b.periods = 0 /\ b.reduction = 0
          BY <1>1, <2>2, <4>2 DEF ScheduledFee, Scheduled, FeeMade
        <5>2. Smaller(0, b.periods) = 0
          BY <5>1 DEF Smaller
        <5>3. b.cliff - b.reduction * 0 = b.cliff
          BY <1>1, <5>1
        <5>4. PeriodFee(b, 0) = {b.cliff}
          BY <1>1, <5>1, <5>2, <5>3 DEF PeriodFee, FeeInPeriod
        <5> QED BY <4>2, <5>1, <5>4
      <4> QED BY <4>1, <4>2
    <3> HIDE DEF period
    <3>5. Smaller(period, b.periods) <= Smaller(b.periods, b.periods)
      BY <1>1, <3>3 DEF Smaller
    <3>6. /\ PeriodFee(b, period) # {}
          /\ \A x \in PeriodFee(b, period), y \in PeriodFee(b, b.periods) : y <= x
      BY <1>1, <3>1, <3>2, <3>3, <3>5, PeriodFeeFalls
    <3>7. PeriodFee(b, b.periods) \subseteq 0..b.cliff
      <4>1. Smaller(b.periods, b.periods) <= Smaller(b.periods, b.periods)
        BY <1>1 DEF Smaller
      <4> QED BY <1>1, <4>1, PeriodFeeFalls
    <3> QED BY <1>1, <3>1, <3>2, <3>4, <3>6, <3>7
  <2> QED BY <2>1, <2>2
<1>5. ScheduledFee(b, since, price, init) \subseteq 0..b.cliff
  BY <1>1, ScheduledFeeNat
<1> QED BY <1>1, <1>2, <1>3, <1>4, <1>5

-----------------------------------------------------------------------------
\* How near the power in fixed point is to the exact one.  Power computes the
\* latter with a recursive function, too.
PowerRuns(x, n, p) ==
  p = [j \in 0..n |-> IF j = 0 THEN 1 ELSE x * p[j - 1]]

\* There is one, however large the exponent,
LEMMA PowerRunsExists ==
  ASSUME NEW x, NEW n \in Nat
  PROVE  \E p : PowerRuns(x, n, p)
<1> DEFINE Bad == {k \in Nat : ~ \E p : PowerRuns(x, k, p)}
<1>1. ASSUME Bad # {} PROVE FALSE
  <2>1. PICK k \in Bad : \A j \in Bad : k <= j
    BY <1>1, LeastNumber
  <2>2. k # 0
    <3>1. PowerRuns(x, 0, [j \in 0..0 |-> 1])
      BY DEF PowerRuns
    <3> QED BY <2>1, <3>1
  <2>3. k \in Nat /\ k - 1 \in Nat /\ k - 1 \notin Bad
    BY <2>1, <2>2
  <2>4. PICK p : PowerRuns(x, k - 1, p)
    BY <2>3
  <2> DEFINE longer == [j \in 0..k |-> IF j = k THEN x * p[k - 1] ELSE p[j]]
  <2>5. \A j \in 0..k :
          longer[j] = IF j = 0 THEN 1 ELSE x * longer[j - 1]
    <3>1. ASSUME NEW j \in 0..(k - 1)
          PROVE  p[j] = IF j = 0 THEN 1 ELSE x * p[j - 1]
      BY <2>3, <2>4 DEF PowerRuns
    <3> TAKE j \in 0..k
    <3>2. CASE j = k
      BY <2>2, <2>3, <3>2
    <3>3. CASE j # k
      <4>1. j \in 0..(k - 1) /\ (j # 0 => j - 1 \in 0..k /\ j - 1 # k)
        BY <2>3, <3>3
      <4>2. longer[j] = p[j] /\ (j # 0 => longer[j - 1] = p[j - 1])
        BY <3>3, <4>1
      <4> HIDE DEF longer
      <4> QED BY <3>1, <4>1, <4>2
    <3> QED BY <3>2, <3>3
  <2>6. PowerRuns(x, k, longer)
    <3>1. longer = [j \in 0..k |-> longer[j]]
      OBVIOUS
    <3> HIDE DEF longer
    <3> QED BY <2>5, <3>1 DEF PowerRuns
  <2> QED BY <2>1, <2>6
<1> QED BY <1>1

\* and a longer one agrees with a shorter one.
LEMMA PowerRunsAgree ==
  ASSUME NEW x, NEW m \in Nat, NEW n \in Nat, m <= n,
         NEW p, PowerRuns(x, m, p), NEW q, PowerRuns(x, n, q)
  PROVE  \A j \in 0..m : p[j] = q[j]
<1> DEFINE Bad == {j \in 0..m : p[j] # q[j]}
<1>1. ASSUME Bad # {} PROVE FALSE
  <2>1. PICK k \in Bad : \A j \in Bad : k <= j
    <3>1. Bad \in SUBSET Nat
      OBVIOUS
    <3> HIDE DEF Bad
    <3> QED BY <1>1, <3>1, LeastNumber
  <2>2. ASSUME NEW j \in 0..m
        PROVE  /\ p[j] = IF j = 0 THEN 1 ELSE x * p[j - 1]
               /\ q[j] = IF j = 0 THEN 1 ELSE x * q[j - 1]
    <3>1. j \in 0..n
      OBVIOUS
    <3> QED BY <3>1 DEF PowerRuns
  <2>3. k # 0
    BY <2>1, <2>2
  <2>4. k \in 0..m /\ k - 1 \in 0..m /\ k - 1 \notin Bad
    BY <2>1, <2>3
  <2>5. p[k - 1] = q[k - 1]
    BY <2>4
  <2>6. p[k] = q[k]
    BY <2>2, <2>3, <2>4, <2>5
  <2> QED BY <2>1, <2>6
<1> QED BY <1>1

\* So a power is what one expects.
LEMMA PowerAt ==
  ASSUME NEW x
  PROVE  /\ Power(x, 0) = 1
         /\ \A k \in Nat : Power(x, k + 1) = x * Power(x, k)
<1> DEFINE Run(n) == CHOOSE p : PowerRuns(x, n, p)
<1>1. \A n \in Nat : Power(x, n) = Run(n)[n]
  BY DEF Power, PowerRuns
<1>2. \A n \in Nat : PowerRuns(x, n, Run(n))
  BY PowerRunsExists
<1> HIDE DEF Run
<1>3. Power(x, 0) = 1
  BY <1>1, <1>2 DEF PowerRuns
<1>4. ASSUME NEW k \in Nat
      PROVE  Power(x, k + 1) = x * Power(x, k)
  <2>1. k \in 0..k /\ k + 1 \in Nat /\ k <= k + 1
    OBVIOUS
  <2>2. Run(k)[k] = Run(k + 1)[k]
    <3>1. PowerRuns(x, k, Run(k)) /\ PowerRuns(x, k + 1, Run(k + 1))
      BY <1>2, <2>1
    <3>2. \A j \in 0..k : Run(k)[j] = Run(k + 1)[j]
      BY <2>1, <3>1, PowerRunsAgree
    <3> QED BY <2>1, <3>2
  <2>3. Run(k + 1)[k + 1] = x * Run(k + 1)[k]
    <3>1. k + 1 \in 0..(k + 1) /\ k + 1 # 0 /\ (k + 1) - 1 = k
      OBVIOUS
    <3>2. PowerRuns(x, k + 1, Run(k + 1))
      BY <1>2, <2>1
    <3> QED BY <3>1, <3>2 DEF PowerRuns
  <2> QED BY <1>1, <2>1, <2>2, <2>3
<1> QED BY <1>3, <1>4

\* Powers of a number are natural, and no larger than those of a larger one.
LEMMA PowerLe ==
  ASSUME NEW x \in Nat, NEW y \in Nat \ {0}, x <= y
  PROVE  \A k \in Nat : /\ Power(x, k) \in Nat /\ Power(y, k) \in Nat \ {0}
                        /\ Power(x, k) <= Power(y, k)
<1> DEFINE Good(k) == /\ Power(x, k) \in Nat /\ Power(y, k) \in Nat \ {0}
                      /\ Power(x, k) <= Power(y, k)
           Bad == {k \in Nat : ~Good(k)}
<1>1. ASSUME Bad # {} PROVE FALSE
  <2>1. PICK k \in Bad : \A j \in Bad : k <= j
    <3>1. Bad \in SUBSET Nat
      OBVIOUS
    <3> HIDE DEF Bad
    <3> QED BY <1>1, <3>1, LeastNumber
  <2>2. Good(0)
    BY PowerAt
  <2>3. k \in Nat /\ k - 1 \in Nat /\ Good(k - 1)
    BY <2>1, <2>2
  <2> DEFINE u == Power(x, k - 1)
             w == Power(y, k - 1)
  <2>4. /\ u \in Nat /\ w \in Nat \ {0} /\ u <= w
    BY <2>3
  <2>5. Power(x, k) = x * u /\ Power(y, k) = y * w
    <3>1. (k - 1) + 1 = k
      BY <2>3
    <3> QED BY <2>3, <3>1, PowerAt
  <2> HIDE DEF u, w
  <2>6. x * u \in Nat /\ y * w \in Nat \ {0} /\ x * u <= y * w
    <3>1. x * u \in Nat /\ y * u \in Nat /\ y * w \in Nat \ {0}
      BY <2>4, MulNat, MulPos
    <3>2. y * u >= x * u /\ w * y >= u * y
      BY <2>4, MulMonotone
    <3>3. w * y = y * w /\ u * y = y * u
      BY <2>4
    <3> QED BY <3>1, <3>2, <3>3
  <2> QED BY <2>1, <2>5, <2>6
<1> QED BY <1>1

\* Exponents add up.
LEMMA PowerSum ==
  ASSUME NEW x \in Nat, NEW m \in Nat
  PROVE  \A k \in Nat : Power(x, m + k) = Power(x, m) * Power(x, k)
<1> DEFINE Good(k) == Power(x, m + k) = Power(x, m) * Power(x, k)
           Bad == {k \in Nat : ~Good(k)}
<1>0. \A k \in Nat : Power(x, k) \in Nat
  <2>1. x + 1 \in Nat \ {0} /\ x <= x + 1
    OBVIOUS
  <2> QED BY <2>1, PowerLe
<1>1. ASSUME Bad # {} PROVE FALSE
  <2>1. PICK k \in Bad : \A j \in Bad : k <= j
    <3>1. Bad \in SUBSET Nat
      OBVIOUS
    <3> HIDE DEF Bad
    <3> QED BY <1>1, <3>1, LeastNumber
  <2>2. Good(0)
    <3>1. m + 0 = m /\ Power(x, m) * 1 = Power(x, m)
      BY <1>0
    <3> QED BY <3>1, PowerAt
  <2>3. k \in Nat /\ k - 1 \in Nat /\ Good(k - 1)
    BY <2>1, <2>2
  <2>4. /\ Power(x, k) = x * Power(x, k - 1)
        /\ Power(x, m + k) = x * Power(x, m + (k - 1))
    <3>1. (k - 1) + 1 = k /\ m + (k - 1) \in Nat /\ (m + (k - 1)) + 1 = m + k
      BY <2>3
    <3> QED BY <2>3, <3>1, PowerAt
  <2>5. ASSUME NEW u \in Nat, NEW w \in Nat
        PROVE  x * (u * w) = u * (x * w)
    OBVIOUS
  <2>6. x * (Power(x, m) * Power(x, k - 1)) = Power(x, m) * (x * Power(x, k - 1))
    BY <1>0, <2>3, <2>5
  <2> QED BY <2>1, <2>3, <2>4, <2>6
<1> QED BY <1>1

\* b over OneQ is the fraction U over N, but for at most `below` and `above`
\* units of 1/OneQ.
Near(b, U, N, below, above) ==
  /\ OneQ * U <= b * N + below * N
  /\ b * N <= OneQ * U + above * N

\* The product of two such numbers, truncated, is off by what both are, and by
\* one unit more below.
LEMMA NearTimes ==
  ASSUME NEW b \in 0..OneQ, NEW c \in 0..OneQ,
         NEW N \in Nat \ {0}, NEW O \in Nat \ {0},
         NEW U \in 0..N, NEW V \in 0..O,
         NEW d \in Nat, NEW f \in Nat, NEW e \in Nat, NEW g \in Nat,
         Near(b, U, N, d, e), Near(c, V, O, f, g)
  PROVE  Near((b * c) \div OneQ, U * V, N * O, (d + f) + 1, e + g)
<1> DEFINE Q == OneQ
           p == (b * c) \div Q
           B == b * N
           C == c * O
           X == Q * U
           Y == Q * V
           R == N * O
           T == Q * R
<1>1. Q \in Nat \ {0} /\ b \in Nat /\ c \in Nat /\ U \in Nat /\ V \in Nat
  BY BaseFeeAssumption
<1>2. /\ B \in Nat /\ C \in Nat /\ X \in Nat /\ Y \in Nat /\ b * c \in Nat
      /\ d * N \in Nat /\ e * N \in Nat /\ f * O \in Nat /\ g * O \in Nat
      /\ R \in Nat \ {0} /\ T \in Nat
  BY <1>1, MulNat, MulPos
<1>3. X <= B + d * N /\ B <= X + e * N /\ Y <= C + f * O /\ C <= Y + g * O
  BY DEF Near
<1>4. p \in Int /\ p * Q <= b * c /\ b * c <= p * Q + Q
  <2>1. b * c < (p + 1) * Q /\ p \in Int
    BY <1>1, <1>2, SMT
  <2>2. (p + 1) * Q = p * Q + Q
    BY <1>1, <2>1
  <2>3. p * Q <= b * c
    BY <1>1, <1>2, DivEnough
  <2>4. p * Q \in Int
    BY <1>1, <2>1
  <2> HIDE DEF p
  <2> QED BY <1>1, <1>2, <2>1, <2>2, <2>3, <2>4
\* No number exceeds its whole,
<1>5. B <= Q * N /\ Y <= Q * O /\ Q * N \in Nat /\ Q * O \in Nat
  <2>1. Q >= b /\ O >= V
    BY <1>1
  <2>2. Q * N >= b * N /\ O * Q >= V * Q
    BY <1>1, <2>1, MulMonotone
  <2>3. O * Q = Q * O /\ V * Q = Q * V
    BY <1>1
  <2> QED BY <1>1, <2>2, <2>3, MulNat
<1> HIDE DEF Q, p, B, C, X, Y, R, T
\* so that the errors of one factor count once for the other.
<1>6. /\ B * (f * O) <= f * T /\ B * (g * O) <= g * T
      /\ (d * N) * Y <= d * T /\ (e * N) * Y <= e * T
      /\ f * T \in Nat /\ g * T \in Nat /\ d * T \in Nat /\ e * T \in Nat
  <2>1. /\ (Q * N) * (f * O) >= B * (f * O) /\ (Q * N) * (g * O) >= B * (g * O)
        /\ (Q * O) * (d * N) >= Y * (d * N) /\ (Q * O) * (e * N) >= Y * (e * N)
    BY <1>2, <1>5, MulMonotone
  <2>2. /\ (Q * N) * (f * O) = f * (Q * (N * O))
        /\ (Q * N) * (g * O) = g * (Q * (N * O))
        /\ (Q * O) * (d * N) = d * (Q * (N * O))
        /\ (Q * O) * (e * N) = e * (Q * (N * O))
    BY <1>1
  <2>3. Y * (d * N) = (d * N) * Y /\ Y * (e * N) = (e * N) * Y
    BY <1>2
  <2> QED BY <1>2, <2>1, <2>2, <2>3, MulNat DEF T, R
<1>7. X * Y \in Nat /\ B * C \in Nat /\ B * Y \in Nat
  BY <1>2, MulNat
<1>8. X * Y <= (B * C + f * T) + d * T
  <2>1. X * Y <= B * Y + (d * N) * Y
    <3>1. (B + d * N) * Y >= X * Y
      BY <1>2, <1>3, MulMonotone
    <3>2. (B + d * N) * Y = B * Y + (d * N) * Y
      BY <1>2
    <3> QED BY <3>1, <3>2
  <2>2. B * Y <= B * C + B * (f * O)
    <3>1. (C + f * O) * B >= Y * B
      BY <1>2, <1>3, MulMonotone
    <3>2. (C + f * O) * B = B * C + B * (f * O) /\ Y * B = B * Y
      BY <1>2
    <3> QED BY <3>1, <3>2
  <2>3. (d * N) * Y \in Nat /\ B * (f * O) \in Nat
    BY <1>2, MulNat
  <2> QED BY <1>6, <1>7, <2>1, <2>2, <2>3
<1>9. B * C <= (X * Y + g * T) + e * T
  <2>1. B * Y <= X * Y + (e * N) * Y
    <3>1. (X + e * N) * Y >= B * Y
      BY <1>2, <1>3, MulMonotone
    <3>2. (X + e * N) * Y = X * Y + (e * N) * Y
      BY <1>2
    <3> QED BY <3>1, <3>2
  <2>2. B * C <= B * Y + B * (g * O)
    <3>1. (Y + g * O) * B >= C * B
      BY <1>2, <1>3, MulMonotone
    <3>2. (Y + g * O) * B = B * Y + B * (g * O) /\ C * B = B * C
      BY <1>2
    <3> QED BY <3>1, <3>2
  <2>3. (e * N) * Y \in Nat /\ B * (g * O) \in Nat
    BY <1>2, MulNat
  <2> QED BY <1>6, <1>7, <2>1, <2>2, <2>3
<1>10. B * C = (b * c) * R /\ X * Y = Q * (Q * (U * V))
  <2>1. (b * N) * (c * O) = (b * c) * (N * O)
    BY <1>1
  <2>2. (Q * U) * (Q * V) = Q * (Q * (U * V))
    BY <1>1
  <2> QED BY <2>1, <2>2 DEF B, C, X, Y, R
<1> DEFINE W == Q * (U * V)
<1>11. W \in Nat /\ p * R \in Int
  BY <1>1, <1>2, <1>4, MulNat
\* The truncation itself
<1>12. Q * (p * R) <= B * C /\ B * C <= Q * (p * R) + T
  <2>1. (b * c) * R >= (p * Q) * R /\ (p * Q + Q) * R >= (b * c) * R
    BY <1>1, <1>2, <1>4, MulMonotone
  <2>2. (p * Q) * R = Q * (p * R) /\ (p * Q + Q) * R = Q * (p * R) + Q * R
    BY <1>1, <1>2, <1>4
  <2> QED BY <1>10, <2>1, <2>2 DEF T
<1> HIDE DEF W
<1>13. X * Y = Q * W
  BY <1>10 DEF W
\* and, with OneQ cancelled, the bounds.
<1>14. W <= p * R + ((d + f) + 1) * R
  <2>1. Q * (p * R) \in Int
    BY <1>1, <1>11
  <2>2. Q * W <= (Q * (p * R) + T) + (f * T + d * T)
    BY <1>6, <1>7, <1>8, <1>12, <1>13, <2>1, <1>2
  <2>3. (p * R + ((d + f) + 1) * R) * Q = (Q * (p * R) + T) + (f * T + d * T)
    <3>1. (p * R + ((d + f) + 1) * R) * Q
            = (Q * (p * R) + Q * R) + (f * (Q * R) + d * (Q * R))
      BY <1>1, <1>2, <1>4
    <3> QED BY <3>1 DEF T
  <2>4. (p * R + ((d + f) + 1) * R) * Q >= W * Q
    <3>1. Q * W = W * Q
      BY <1>1, <1>11
    <3> QED BY <2>2, <2>3, <3>1
  <2>5. p * R + ((d + f) + 1) * R \in Int
    BY <1>2, <1>11
  <2> QED BY <1>1, <1>11, <2>4, <2>5, MulCancel
<1>15. p * R <= W + (e + g) * R
  <2>1. Q * (p * R) \in Int
    BY <1>1, <1>11
  <2>2. Q * (p * R) <= (Q * W + g * T) + e * T
    BY <1>6, <1>7, <1>9, <1>12, <1>13, <2>1
  <2>3. (W + (e + g) * R) * Q = (Q * W + g * T) + e * T
    <3>1. (W + (e + g) * R) * Q = (Q * W + g * (Q * R)) + e * (Q * R)
      BY <1>1, <1>2, <1>11
    <3> QED BY <3>1 DEF T
  <2>4. (W + (e + g) * R) * Q >= (p * R) * Q
    <3>1. Q * (p * R) = (p * R) * Q
      BY <1>1, <1>11
    <3> QED BY <2>2, <2>3, <3>1
  <2>5. W + (e + g) * R \in Int
    BY <1>2, <1>11
  <2> QED BY <1>1, <1>11, <2>4, <2>5, MulCancel
<1> QED BY <1>14, <1>15 DEF Near, p, W, Q, R

\* What the loop of pow has after some bits of the exponent: they made e of it
\* and the next one weighs w; the result is within e units of the e-th power
\* of u / MaxBasisPoint and the base within w units of the w-th.
Tracks(s, u, exp) ==
  /\ s.exp \in Nat /\ s.base \in 0..OneQ /\ s.result \in 0..OneQ
  /\ \E e \in Nat, w \in Nat \ {0} :
       /\ exp = e + w * s.exp
       /\ Near(s.base, Power(u, w), Power(MaxBasisPoint, w), w - 1, w)
       /\ Near(s.result, Power(u, e), Power(MaxBasisPoint, e), e, e)

\* Each bit adds its weight.
LEMMA TracksKept ==
  ASSUME NEW u \in 0..MaxBasisPoint, NEW exp \in Nat, NEW s, Tracks(s, u, exp)
  PROVE  Tracks(PowStep(s), u, exp)
<1> DEFINE M == MaxBasisPoint
           square == (s.base * s.base) \div OneQ
           product == (s.result * s.base) \div OneQ
<1>1. /\ s.exp \in Nat /\ s.base \in 0..OneQ /\ s.result \in 0..OneQ
      /\ s.base \in Nat /\ s.result \in Nat
      /\ M \in Nat \ {0} /\ u \in Nat /\ u <= M /\ OneQ \in Nat
  BY BaseFeeAssumption DEF Tracks
<1>2. PICK e \in Nat, w \in Nat \ {0} :
        /\ exp = e + w * s.exp
        /\ Near(s.base, Power(u, w), Power(M, w), w - 1, w)
        /\ Near(s.result, Power(u, e), Power(M, e), e, e)
  BY DEF Tracks
<1>3. square \in 0..OneQ /\ product \in 0..OneQ
  <2>1. square \in 0..s.base /\ product \in 0..s.result
    BY <1>1, TruncLe
  <2> QED BY <1>1, <2>1
<1>4. /\ Power(u, w) \in 0..Power(M, w) /\ Power(M, w) \in Nat \ {0}
      /\ Power(u, e) \in 0..Power(M, e) /\ Power(M, e) \in Nat \ {0}
  <2>1. \A k \in Nat : Power(u, k) \in 0..Power(M, k) /\ Power(M, k) \in Nat \ {0}
    <3>1. \A k \in Nat : /\ Power(u, k) \in Nat /\ Power(M, k) \in Nat \ {0}
                         /\ Power(u, k) <= Power(M, k)
      BY <1>1, PowerLe
    <3> QED BY <3>1
  <2> QED BY <2>1
<1>5. /\ Power(u, w + w) = Power(u, w) * Power(u, w)
      /\ Power(M, w + w) = Power(M, w) * Power(M, w)
      /\ Power(u, e + w) = Power(u, e) * Power(u, w)
      /\ Power(M, e + w) = Power(M, e) * Power(M, w)
  <2>1. M \in Nat
    BY <1>1
  <2> HIDE DEF M
  <2>2. ASSUME NEW x \in Nat
        PROVE  /\ Power(x, w + w) = Power(x, w) * Power(x, w)
               /\ Power(x, e + w) = Power(x, e) * Power(x, w)
    <3>1. \A k \in Nat : Power(x, w + k) = Power(x, w) * Power(x, k)
      BY PowerSum, Zenon
    <3>2. \A k \in Nat : Power(x, e + k) = Power(x, e) * Power(x, k)
      BY PowerSum, Zenon
    <3> QED BY <3>1, <3>2, Zenon
  <2> QED BY <1>1, <2>1, <2>2, Zenon
<1>6. Near(square, Power(u, w + w), Power(M, w + w), (w + w) - 1, w + w)
  <2>1. w - 1 \in Nat /\ ((w - 1) + (w - 1)) + 1 = (w + w) - 1
    OBVIOUS
  <2>2. Near(square, Power(u, w) * Power(u, w), Power(M, w) * Power(M, w),
             ((w - 1) + (w - 1)) + 1, w + w)
    BY <1>1, <1>2, <1>4, <2>1, NearTimes
  <2> QED BY <1>5, <2>1, <2>2
<1>7. Near(product, Power(u, e + w), Power(M, e + w), e + w, e + w)
  <2>1. w - 1 \in Nat /\ (e + (w - 1)) + 1 = e + w
    OBVIOUS
  <2>2. Near(product, Power(u, e) * Power(u, w), Power(M, e) * Power(M, w),
             (e + (w - 1)) + 1, e + w)
    BY <1>1, <1>2, <1>4, <2>1, NearTimes
  <2> QED BY <1>5, <2>1, <2>2
<1> HIDE DEF square, product
<1>8. /\ PowStep(s).base = square /\ PowStep(s).exp = s.exp \div 2
      /\ PowStep(s).result = IF s.exp % 2 = 1 THEN product ELSE s.result
  BY DEF PowStep, square, product
<1> DEFINE half == s.exp \div 2
<1>9. half \in Nat /\ w + w \in Nat \ {0} /\ e + w \in Nat
  BY <1>1
<1>10. CASE s.exp % 2 = 1
  <2>1. s.exp = 2 * half + 1
    BY <1>1, <1>10
  <2> HIDE DEF half
  <2>2. exp = (e + w) + (w + w) * half
    <3>1. w * (2 * half + 1) = w + (w + w) * half
      BY <1>9
    <3>2. (w + w) * half \in Nat
      BY <1>9, MulNat
    <3> QED BY <1>2, <2>1, <3>1, <3>2
  <2>3. PowStep(s).result = product
    BY <1>8, <1>10
  <2> QED BY <1>3, <1>6, <1>7, <1>8, <1>9, <2>2, <2>3 DEF Tracks, half
<1>11. CASE s.exp % 2 # 1
  <2>1. s.exp = 2 * half
    BY <1>1, <1>11
  <2> HIDE DEF half
  <2>2. exp = e + (w + w) * half
    <3>1. w * (2 * half) = (w + w) * half
      BY <1>9
    <3> QED BY <1>2, <2>1, <3>1
  <2>3. PowStep(s).result = s.result
    BY <1>8, <1>11
  <2> QED BY <1>1, <1>2, <1>3, <1>6, <1>8, <1>9, <2>2, <2>3 DEF Tracks, half
<1> QED BY <1>10, <1>11

\* So pow, if it returns a power, is within one unit a factor of the exact one.
LEMMA PowNear ==
  ASSUME NEW u \in 0..MaxBasisPoint, NEW base \in 0..OneQ, NEW exp \in Nat,
         Near(base, u, MaxBasisPoint, 0, 1), NEW x \in Pow(base, exp)
  PROVE  /\ x \in 0..OneQ
         /\ Near(x, Power(u, exp), Power(MaxBasisPoint, exp), exp, exp)
<1> DEFINE M == MaxBasisPoint
           loop == PowLoop(base, exp)
           Bad == {k \in 0..PowBits : ~Tracks(loop[k], u, exp)}
<1>0. /\ PowBits \in Nat /\ OneQ \in Nat /\ M \in Nat \ {0} /\ u \in Nat
  BY BaseFeeAssumption
<1>1. Tracks(PowStart(base, exp), u, exp)
  <2> DEFINE z == 0
             o == 1
  <2>1. /\ Power(u, z) = 1 /\ Power(M, z) = 1
        /\ Power(u, o) = u /\ Power(M, o) = M
    <3>1. \A y \in Nat : Power(y, 0) = 1 /\ Power(y, 1) = y
      <4>1. ASSUME NEW y \in Nat
            PROVE  Power(y, 0) = 1 /\ Power(y, 1) = y
        <5>1. Power(y, 0) = 1 /\ Power(y, 0 + 1) = y * Power(y, 0)
          BY PowerAt
        <5>2. 0 + 1 = 1 /\ y * 1 = y
          OBVIOUS
        <5> QED BY <5>1, <5>2
      <4> QED BY <4>1
    <3> QED BY <1>0, <3>1
  <2>2. Near(OneQ, Power(u, z), Power(M, z), z, z)
    BY <1>0, <2>1 DEF Near
  <2>3. Near(base, Power(u, o), Power(M, o), o - 1, o)
    BY <2>1
  <2>4. z \in Nat /\ o \in Nat \ {0} /\ exp = z + o * exp
    OBVIOUS
  <2>5. /\ PowStart(base, exp).exp = exp /\ PowStart(base, exp).base = base
        /\ PowStart(base, exp).result = OneQ
    BY DEF PowStart
  <2>6. OneQ \in 0..OneQ
    BY <1>0
  <2> HIDE DEF z, o
  <2>7. \E e \in Nat, w \in Nat \ {0} :
          /\ exp = e + w * exp
          /\ Near(base, Power(u, w), Power(M, w), w - 1, w)
          /\ Near(OneQ, Power(u, e), Power(M, e), e, e)
    BY <2>2, <2>3, <2>4
  <2> QED BY <2>5, <2>6, <2>7 DEF Tracks
<1>2. ASSUME Bad # {} PROVE FALSE
  <2>1. PICK k \in Bad : \A j \in Bad : k <= j
    <3>1. Bad \in SUBSET Nat
      BY <1>0
    <3> HIDE DEF Bad
    <3> QED BY <1>2, <3>1, LeastNumber
  <2>2. k # 0
    BY <1>1, <2>1, PowLoopAt
  <2>3. k \in 0..PowBits /\ k - 1 \in 0..PowBits /\ k - 1 \notin Bad
    BY <1>0, <2>1, <2>2
  <2>4. Tracks(loop[k - 1], u, exp) /\ loop[k] = PowStep(loop[k - 1])
    BY <2>2, <2>3, PowLoopAt
  <2>5. Tracks(loop[k], u, exp)
    BY <2>4, TracksKept
  <2> QED BY <2>1, <2>5
<1> DEFINE last == loop[PowBits]
<1>3. Tracks(last, u, exp)
  BY <1>0, <1>2
<1>4. last.exp = 0 /\ x = last.result
  <2>1. Pow(base, exp) = IF last.exp # 0 \/ last.result = 0
                           THEN {} ELSE {last.result}
    BY PowIsLoop
  <2> HIDE DEF last
  <2> QED BY <2>1
<1> HIDE DEF last, loop
<1>5. PICK e \in Nat, w \in Nat \ {0} :
        /\ exp = e + w * last.exp
        /\ Near(last.result, Power(u, e), Power(M, e), e, e)
  BY <1>3 DEF Tracks
<1>6. exp = e
  BY <1>4, <1>5
<1> QED BY <1>3, <1>4, <1>5, <1>6 DEF Tracks

\* get_fee_in_period of an exponential schedule: the exact fee of the period,
\* but for what the power is off by and the rounding down.
LEMMA FeeInPeriodNear ==
  ASSUME NEW cliff \in Nat, NEW reduction \in Nat, NEW k \in Nat,
         MaxBasisPoint <= OneQ, NEW n \in FeeInPeriod(cliff, reduction, k)
  PROVE  LET whole == Power(MaxBasisPoint, k)
             exact == cliff * Power(MaxBasisPoint - reduction, k)
             drift == (cliff * k * whole) \div OneQ
         IN  /\ n * whole <= exact + drift
             /\ exact <= (n + 1) * whole + drift
<1> DEFINE M == MaxBasisPoint
           Q == OneQ
           u == M - reduction
           K == Power(M, k)
           E == Power(u, k)
           exact == cliff * E
           S == cliff * k * K
           drift == S \div Q
<1>1. M \in Nat \ {0} /\ Q \in Nat \ {0}
  BY BaseFeeAssumption
<1>2. K \in Nat \ {0}
  BY <1>1, PowerLe
<1>3. S \in Nat /\ drift \in Nat /\ S = cliff * (k * K)
  <2>1. cliff * k \in Nat
    BY MulNat
  <2>2. S \in Nat
    BY <1>2, <2>1, MulNat
  <2>3. S = cliff * (k * K)
    BY <1>2
  <2> HIDE DEF S, Q
  <2> QED BY <1>1, <2>2, <2>3, DivNat
<1>4. CASE reduction = 0
  <2>1. n = cliff /\ u = M
    BY <1>1, <1>4 DEF FeeInPeriod
  <2>2. exact = n * K
    BY <2>1
  <2>3. (n + 1) * K = n * K + K /\ n * K \in Nat
    BY <1>2, <2>1, MulNat
  <2> HIDE DEF exact, drift, K
  <2>4. n * K <= exact + drift /\ exact <= (n + 1) * K + drift
    BY <1>2, <1>3, <2>2, <2>3
  <2> QED BY <2>4 DEF exact, drift, K, E, u, S
<1>5. CASE reduction # 0
  <2> DEFINE bps == (reduction * Q) \div M
             base == Q - bps
  <2>1. bps <= Q /\ \E power \in Pow(base, k) : n = (power * cliff) \div Q
    BY <1>1, <1>5 DEF FeeInPeriod
  <2>2. reduction * Q \in Nat /\ bps \in Nat
    BY <1>1, MulNat, DivNat
  <2>3. bps * M <= reduction * Q /\ reduction * Q < bps * M + M
    <3>1. bps * M <= reduction * Q
      BY <1>1, <2>2, DivEnough
    <3>2. reduction * Q < (bps + 1) * M
      BY <1>1, <2>2, SMT
    <3> HIDE DEF bps, M, Q
    <3>3. (bps + 1) * M = bps * M + M
      BY <1>1, <2>2
    <3> QED BY <3>1, <3>2, <3>3
  <2> HIDE DEF bps
  <2>4. u \in 0..M
    <3>1. reduction <= M
      <4> SUFFICES ASSUME reduction >= M + 1 PROVE FALSE
        BY <1>1
      <4>1. reduction * Q >= (M + 1) * Q
        BY <1>1, MulMonotone
      <4>2. Q * M >= bps * M
        BY <1>1, <2>1, <2>2, MulMonotone
      <4>3. (M + 1) * Q = Q * M + Q
        BY <1>1
      <4>4. Q * M \in Int /\ bps * M \in Int
        BY <1>1, <2>2
      <4> QED BY <1>1, <2>2, <2>3, <4>1, <4>2, <4>3, <4>4
    <3> QED BY <1>1, <3>1
  <2>5. base \in 0..Q
    BY <1>1, <2>1, <2>2
  <2>6. Near(base, u, M, 0, 1)
    <3>1. /\ base * M = Q * M - bps * M /\ Q * u = Q * M - reduction * Q
          /\ Q * M \in Int /\ bps * M \in Int
      BY <1>1, <2>2
    <3>2. Q * u <= base * M /\ base * M <= Q * u + M
      BY <1>1, <2>2, <2>3, <3>1
    <3>3. 0 * M = 0 /\ 1 * M = M /\ base * M \in Int
      BY <1>1, <2>5
    <3> HIDE DEF base, u, M, Q
    <3>4. Q * u <= base * M + 0 * M /\ base * M <= Q * u + 1 * M
      BY <3>2, <3>3
    <3> QED BY <3>4 DEF Near, Q
  <2>7. PICK power \in Pow(base, k) : n = (power * cliff) \div Q
    BY <2>1
  <2> HIDE DEF base
  <2>8. power \in 0..Q /\ Near(power, E, K, k, k)
    BY <2>4, <2>5, <2>6, PowNear
  <2>9. E \in Nat
    <3>1. u \in Nat /\ u <= M
      BY <1>1, <2>4
    <3> HIDE DEF u
    <3> QED BY <1>1, <3>1, PowerLe
  <2> HIDE DEF E, K, u
  <2>10. Q * E <= power * K + k * K /\ power * K <= Q * E + k * K
    BY <2>8 DEF Near
  <2>11. /\ n \in Int /\ n * Q <= power * cliff
         /\ power * cliff <= n * Q + Q
    <3>1. power \in Nat /\ power * cliff \in Nat
      BY <2>8, <1>1, MulNat
    <3>2. n \in Int /\ n * Q <= power * cliff
      BY <1>1, <2>7, <3>1, DivEnough
    <3>3. power * cliff < (n + 1) * Q
      BY <1>1, <2>7, <3>1, SMT
    <3> HIDE DEF Q
    <3>4. (n + 1) * Q = n * Q + Q /\ n * Q \in Int
      BY <1>1, <3>2
    <3> QED BY <1>1, <3>1, <3>2, <3>3, <3>4
  <2> HIDE DEF Q
  <2>12. power \in Nat /\ power * K \in Nat /\ k * K \in Nat /\ Q * E \in Nat
         /\ exact \in Nat /\ power * cliff \in Nat
    BY <1>1, <1>2, <2>8, <2>9, MulNat
  <2>13. /\ cliff * (power * K) <= Q * exact + S
         /\ Q * exact <= cliff * (power * K) + S
    <3>1. /\ (Q * E + k * K) * cliff >= (power * K) * cliff
          /\ (power * K + k * K) * cliff >= (Q * E) * cliff
      BY <2>10, <2>12, MulMonotone
    <3>2. /\ (Q * E + k * K) * cliff = Q * (cliff * E) + cliff * (k * K)
          /\ (power * K + k * K) * cliff = cliff * (power * K) + cliff * (k * K)
          /\ (power * K) * cliff = cliff * (power * K)
          /\ (Q * E) * cliff = Q * (cliff * E)
      BY <1>1, <1>2, <2>9, <2>12
    <3> QED BY <1>3, <3>1, <3>2 DEF exact
  <2>14. /\ Q * (n * K) <= cliff * (power * K)
         /\ cliff * (power * K) <= Q * ((n + 1) * K)
    <3>1. /\ (power * cliff) * K >= (n * Q) * K
          /\ (n * Q + Q) * K >= (power * cliff) * K
      BY <1>1, <1>2, <2>11, <2>12, MulMonotone
    <3>2. /\ (power * cliff) * K = cliff * (power * K)
          /\ (n * Q) * K = Q * (n * K)
          /\ (n * Q + Q) * K = Q * ((n + 1) * K)
      BY <1>1, <1>2, <2>11, <2>12
    <3> QED BY <3>1, <3>2
  <2> DEFINE low == n * K
             high == (n + 1) * K
             middle == cliff * (power * K)
  <2>15. low \in Int /\ high \in Int /\ middle \in Int
    BY <1>2, <2>11, <2>12
  <2> HIDE DEF exact, S, K, low, high, middle
  <2>16. (low - exact) * Q <= S /\ (exact - high) * Q <= S
    <3>1. Q * low <= middle /\ middle <= Q * high
      BY <2>14 DEF low, high, middle
    <3>2. middle <= Q * exact + S /\ Q * exact <= middle + S
      BY <2>13 DEF middle
    <3>3. /\ (low - exact) * Q = Q * low - Q * exact
          /\ (exact - high) * Q = Q * exact - Q * high
          /\ Q * low \in Int /\ Q * high \in Int /\ Q * exact \in Int
      BY <1>1, <2>12, <2>15
    <3> QED BY <1>3, <2>15, <3>1, <3>2, <3>3
  <2>17. low - exact <= S \div Q /\ exact - high <= S \div Q
    BY <1>1, <1>3, <2>12, <2>15, <2>16, DivGe
  <2> HIDE DEF drift
  <2>18. low <= exact + drift /\ exact <= high + drift
    BY <1>3, <2>12, <2>15, <2>17 DEF drift
  <2> QED BY <2>18 DEF low, high, exact, drift, K, E, u, S, Q
<1> QED BY <1>4, <1>5
=============================================================================
