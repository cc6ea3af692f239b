--------------------------- MODULE FeeEngineProofs ---------------------------
(***************************************************************************)
(* Proofs about the pool with its real fees, for every value of its        *)
(* parameters.  First that it is a pool of CpAmm, whatever the fees: what  *)
(* CpAmmProofs shows then holds of it too.  Then what the dynamic fee      *)
(* remembers, and what an operator may change while people trade.          *)
(***************************************************************************)
EXTENDS FeeEngine, SolvencyProofs, BaseFeeLemmas

\* What validation leaves true of a dynamic fee; while it has no reference
\* price, it has never been updated either.
DynamicMade(d) ==
  d.enabled => /\ d.filter < d.decay /\ d.filter <= ClockStart
               /\ d.reduction <= MaxBasisPoint
               /\ d.reference = 0 => d.lastUpdate = 0

\* The inductive invariant of the fees; it needs that of the pool, whose
\* price is never zero.
FeeInv ==
  /\ FeeTypeOK
  /\ ValidBaseFee(baseFee, FeesInB)
  /\ initPrice # 0
  /\ DynamicMade(dynamic)
  /\ VolatilityBounded
  /\ VolatilityInStep

-----------------------------------------------------------------------------
-----------------------------------------------------------------------------
\* Dynamic fee (state/fee.rs).  Two positive prices are a natural number of
\* bins apart.
LEMMA BinsNat ==
  ASSUME NEW a \in Nat \ {0}, NEW b \in Nat \ {0}
  PROVE  Bins(a, b) \in Nat
<1> DEFINE high == Larger(a, b)
           low  == Smaller(a, b)
           ratio == (high * OneQ) \div low
<1>1. high \in Nat /\ low \in Nat \ {0} /\ low <= high
  BY DEF Larger, Smaller
<1>2. OneQ \in Nat \ {0} /\ BinStepQ \in Nat \ {0}
  BY BaseFeeAssumption, DynamicFeeAssumption
<1> HIDE DEF high, low
<1>3. high * OneQ \in Nat /\ OneQ * low <= high * OneQ
  BY <1>1, <1>2, SMT
<1>4. ratio \in Nat /\ OneQ <= ratio
  BY <1>1, <1>2, <1>3, DivNat, DivGe
<1> HIDE DEF ratio
<1>5. (ratio - OneQ) \div BinStepQ \in Nat
  BY <1>2, <1>4, DivNat
<1>6. Bins(a, b) = 2 * ((ratio - OneQ) \div BinStepQ)
  BY DEF Bins, ratio, high, low
<1> QED BY <1>5, <1>6

\* It does not matter in which order they are given.
LEMMA BinsSymmetric ==
  ASSUME NEW a \in Nat, NEW b \in Nat
  PROVE  Bins(a, b) = Bins(b, a)
<1>1. Larger(a, b) = Larger(b, a) /\ Smaller(a, b) = Smaller(b, a)
  BY DEF Larger, Smaller
<1> QED BY <1>1 DEF Bins

\* update_volatility_accumulator stays under its ceiling.
LEMMA AccumulatedBounds ==
  ASSUME NEW d \in DynamicRecord, d.reference # 0, NEW price \in Nat \ {0}
  PROVE  /\ Accumulated(d, price) \in Nat
         /\ Accumulated(d, price) <= d.maxAcc
         /\ Accumulated(d, price)
              <= d.volRef + Bins(price, d.reference) * MaxBasisPoint
<1>1. /\ d.volRef \in Nat /\ d.maxAcc \in Nat /\ d.reference \in Nat \ {0}
      /\ MaxBasisPoint \in Nat
  BY BaseFeeAssumption DEF DynamicRecord
<1>2. Bins(price, d.reference) * MaxBasisPoint \in Nat
  BY <1>1, BinsNat, MulNat
<1> QED BY <1>1, <1>2 DEF Accumulated, Smaller

\* What is kept of the accumulator is no more than the accumulator.
LEMMA ReducedBounds ==
  ASSUME NEW acc \in Nat, NEW reduction \in Nat, reduction <= MaxBasisPoint
  PROVE  (acc * reduction) \div MaxBasisPoint \in 0..acc
<1>1. MaxBasisPoint \in Nat \ {0}
  BY BaseFeeAssumption
<1>2. acc * reduction \in Nat /\ acc * reduction <= acc * MaxBasisPoint
  BY <1>1, SMT
<1> QED BY <1>1, <1>2, DivNat, DivLe

\* get_variable_fee is natural.
LEMMA VariableFeeNat ==
  ASSUME NEW d \in DynamicRecord
  PROVE  VariableFee(d) \in Nat
<1> DEFINE moved == d.acc * BinStepBps
<1>1. /\ d.acc \in Nat /\ d.control \in Nat /\ BinStepBps \in Nat
      /\ VariableFeeScale \in Nat \ {0}
  BY DynamicFeeAssumption DEF DynamicRecord
<1>2. moved \in Nat
  BY <1>1, MulNat
<1> HIDE DEF moved
<1>3. moved * moved * d.control \in Nat
  BY <1>1, <1>2, MulNat
<1>4. CeilDiv(moved * moved * d.control, VariableFeeScale) \in Nat
  BY <1>1, <1>3, CeilDivNat
<1> QED BY <1>4 DEF VariableFee, moved

-----------------------------------------------------------------------------
\* update_pre_swap keeps the fee's parameters and what validation said of
\* them, and its volatility reference under the ceiling.
LEMMA PreSwapSound ==
  ASSUME NEW d \in DynamicRecord, DynamicMade(d), NEW price \in Nat \ {0},
         NEW time \in Nat, d.acc <= d.maxAcc, d.volRef <= d.maxAcc
  PROVE  LET before == PreSwap(d, price, time)
         IN  /\ before \in DynamicRecord
             /\ DynamicMade(before)
             /\ before.maxAcc = d.maxAcc
             /\ before.acc = d.acc
             /\ before.enabled = d.enabled
             /\ before.volRef <= d.maxAcc
<1> DEFINE kept == (d.acc * d.reduction) \div MaxBasisPoint
           elapsed == Larger(time - d.lastUpdate, 0)
           ref == IF elapsed < d.decay THEN kept ELSE 0
<1>1. CASE ~d.enabled \/ elapsed < d.filter
  BY <1>1 DEF PreSwap, UpdateReferences
<1>2. CASE d.enabled /\ ~(elapsed < d.filter)
  <2>1. d.acc \in Nat /\ d.reduction \in Nat /\ d.reduction <= MaxBasisPoint
    BY <1>2 DEF DynamicRecord, DynamicMade
  <2>2. kept \in 0..d.acc
    BY <2>1, ReducedBounds
  <2>3. ref \in Nat /\ ref <= d.maxAcc
    <3> HIDE DEF kept, elapsed
    <3> QED BY <2>2 DEF DynamicRecord
  <2>4. PreSwap(d, price, time) = [d EXCEPT !.reference = price,
                                            !.volRef = ref]
    BY <1>2 DEF PreSwap, UpdateReferences
  <2> HIDE DEF ref
  <2> QED BY <2>3, <2>4 DEF DynamicRecord, DynamicMade
<1> QED BY <1>1, <1>2

\* update_post_swap leaves the accumulator in step with the price, and under
\* its ceiling.
LEMMA PostSwapSound ==
  ASSUME NEW d \in DynamicRecord, DynamicMade(d), NEW old,
         NEW price \in Nat \ {0}, NEW time \in Nat,
         d.enabled => d.reference # 0,
         d.acc <= d.maxAcc, d.volRef <= d.maxAcc
  PROVE  LET after == PostSwap(d, old, price, time)
         IN  /\ after \in DynamicRecord
             /\ DynamicMade(after)
             /\ after.acc <= after.maxAcc
             /\ after.volRef <= after.maxAcc
             /\ after.enabled => after.acc = Accumulated(after, price)
<1> DEFINE acc  == Accumulated(d, price)
           last == IF Bins(old, price) > 0 THEN time ELSE d.lastUpdate
<1>1. CASE ~d.enabled
  BY <1>1 DEF PostSwap
<1>2. CASE d.enabled
  <2>1. acc \in Nat /\ acc <= d.maxAcc
    BY <1>2, AccumulatedBounds
  <2>2. last \in Nat
    BY DEF DynamicRecord
  <2>3. PostSwap(d, old, price, time)
          = [d EXCEPT !.acc = acc, !.lastUpdate = last]
    BY <1>2 DEF PostSwap
  <2>4. Accumulated([d EXCEPT !.acc = acc, !.lastUpdate = last], price) = acc
    BY DEF Accumulated, DynamicRecord
  <2> HIDE DEF acc, last
  <2> QED BY <2>1, <2>2, <2>3, <2>4 DEF DynamicRecord, DynamicMade
<1> QED BY <1>1, <1>2

\* A fresh, validated dynamic fee, or none.
LEMMA FreshSound ==
  ASSUME NEW p \in DynamicParameters, ValidDynamic(p), p.filter <= ClockStart
  PROVE  /\ FreshDynamic(p) \in DynamicRecord
         /\ DynamicMade(FreshDynamic(p))
         /\ FreshDynamic(p).acc = 0
         /\ FreshDynamic(p).volRef = 0
         /\ FreshDynamic(p).maxAcc \in Nat
         /\ FreshDynamic(p).reference = 0
BY DEF DynamicParameters, ValidDynamic, FreshDynamic, DynamicRecord, DynamicMade

\* disable_dynamic_fee
LEMMA NoDynamicSound ==
  /\ NoDynamic \in DynamicRecord
  /\ DynamicMade(NoDynamic)
  /\ NoDynamic.acc = 0 /\ NoDynamic.volRef = 0 /\ NoDynamic.maxAcc = 0
  /\ ~NoDynamic.enabled
BY DEF NoDynamic, DynamicRecord, DynamicMade

-----------------------------------------------------------------------------
\* Only a swap moves the price: nothing else can put the dynamic fee's
\* accumulator out of step with it.
LEMMA OtherStepPrice ==
  ASSUME pool \in PoolRecord, OtherStep
  PROVE  pool'.sqrtPrice = pool.sqrtPrice
<1>1. CASE PositionStep
  <2>1. \A p \in Positions :
          CreatePosition(p) \/ ClosePosition(p) => UNCHANGED pool
    BY DEF CreatePosition, ClosePosition
  <2>2. \A p, d : AddLiquidity(p, d) =>
          pool' = [pool EXCEPT !.liquidity = @ + d]
    BY DEF AddLiquidity
  <2>3. \A p, d : RemoveLiquidity(p, d) =>
          pool' = [pool EXCEPT !.liquidity = @ - d]
    BY DEF RemoveLiquidity
  <2>4. \A p, q, s : SplitPosition(p, q, s) => UNCHANGED pool
    BY DEF SplitPosition
  <2>5. \A p, id, s : LockPosition(p, id, s) => UNCHANGED pool
    BY DEF LockPosition
  <2>6. \A v : RefreshVesting(v) => UNCHANGED pool
    BY DEF RefreshVesting
  <2>7. \A p, n : PermanentLock(p, n) =>
          pool' = [pool EXCEPT !.permanentLock = @ + n]
    BY DEF PermanentLock
  <2>8. \/ UNCHANGED pool
        \/ \E d : pool' = [pool EXCEPT !.liquidity = @ + d]
        \/ \E d : pool' = [pool EXCEPT !.liquidity = @ - d]
        \/ \E n : pool' = [pool EXCEPT !.permanentLock = @ + n]
    BY <1>1, <2>1, <2>2, <2>3, <2>4, <2>5, <2>6, <2>7 DEF PositionStep
  <2> QED BY <2>8 DEF PoolRecord
<1>2. CASE ClaimStep
  <2>1. \A p \in Positions : ClaimPositionFee(p) => UNCHANGED pool
    BY DEF ClaimPositionFee
  <2>2. \A max : ClaimProtocolFee(max) => pool'.sqrtPrice = pool.sqrtPrice
    BY DEF ClaimProtocolFee, PoolRecord
  <2>3. \A max : ClaimPartnerFee(max) => pool'.sqrtPrice = pool.sqrtPrice
    BY DEF ClaimPartnerFee, PoolRecord
  <2>4. \A t, max : ZapProtocolFee(t, max) =>
          \E cap : ClaimProtocolFee(cap)
    BY DEF ZapProtocolFee
  <2> QED BY <1>2, <2>1, <2>2, <2>3, <2>4 DEF ClaimStep
<1>3. CASE RewardStep
  <2>1. UNCHANGED pool
    BY <1>3 DEF RewardStep, InitializeReward, UpdateRewardDuration, FundReward,
                WithdrawIneligibleReward, ClaimReward, ToggleFreeze
  <2> QED BY <2>1
<1>4. CASE StatusStep
  <2>1. \A enabled : SetPoolStatus(enabled) =>
          pool' = [pool EXCEPT !.enabled = enabled]
    BY DEF SetPoolStatus
  <2> QED BY <1>4, <2>1 DEF StatusStep, PoolRecord
<1>5. CASE Tick
  BY <1>5 DEF Tick
<1> QED BY <1>1, <1>2, <1>3, <1>4, <1>5 DEF OtherStep

-----------------------------------------------------------------------------
\* What the pool's invariant says of the price and the clock.
LEMMA PriceAndTime ==
  ASSUME IInv
  PROVE  pool.sqrtPrice \in Nat \ {0} /\ Timestamp \in Nat /\ Since \in Int
<1>1. pool.sqrtPrice \in Nat \ {0}
  BY PriceAssumption DEF IInv, PriceInRange
<1>2. now \in Nat /\ ClockStart \in Nat /\ ActivationPoint \in Nat
  BY EngineAssumption, PoolAssumption DEF IInv, TypeOK
<1> QED BY <1>1, <1>2 DEF Timestamp, Since

\* PoolFeeParameters::validate: a pool starts with fees it can charge.
LEMMA FeeInitSound ==
  ASSUME FeeInit, IInv
  PROVE  FeeInv
<1>1. baseFee \in BaseFeeRecord /\ ValidBaseFee(baseFee, FeesInB)
  BY EngineAssumption DEF FeeInit
<1>2. /\ dynamic \in DynamicRecord
      /\ DynamicMade(dynamic)
      /\ dynamic.acc <= dynamic.maxAcc
      /\ dynamic.volRef <= dynamic.maxAcc
      /\ ~(dynamic.enabled /\ dynamic.reference # 0)
  <2>1. CASE dynamic = NoDynamic
    BY <2>1, NoDynamicSound
  <2>2. ASSUME NEW p \in DynamicFees, ValidDynamic(p),
               dynamic = FreshDynamic(p)
        PROVE  /\ dynamic \in DynamicRecord
               /\ DynamicMade(dynamic)
               /\ dynamic.acc <= dynamic.maxAcc
               /\ dynamic.volRef <= dynamic.maxAcc
               /\ ~(dynamic.enabled /\ dynamic.reference # 0)
    <3>1. p \in DynamicParameters /\ p.filter <= ClockStart
      BY EngineAssumption
    <3> QED BY <2>2, <3>1, FreshSound
  <2> QED BY <2>1, <2>2 DEF FeeInit
<1>3. initPrice \in Nat \ {0}
  BY PriceAndTime DEF FeeInit
<1> QED BY <1>1, <1>2, <1>3
        DEF FeeInv, FeeTypeOK, VolatilityBounded, VolatilityInStep

\* p_handle_swap is a swap of the pool of CpAmm: the fee it finds is a trade
\* fee.
LEMMA FeeSwapIsSwap ==
  ASSUME IInv, FeeInv, NEW mode \in Modes, NEW dir \in Directions,
         NEW amount \in SwapAmounts, NEW hasReferral \in BOOLEAN,
         NEW whitelisted \in {FALSE, HasWhitelistedVault},
         FeeSwap(mode, dir, amount, hasReferral, whitelisted)
  PROVE  SwapStep(TradeFeeRecord)
<1> DEFINE before == PreSwap(dynamic, pool.sqrtPrice, Timestamp)
<1>1. before \in DynamicRecord
  BY PreSwapSound, PriceAndTime DEF FeeInv, FeeTypeOK, VolatilityBounded
<1>2. VariableFee(before) \in Nat
  <2> HIDE DEF before
  <2> QED BY <1>1, VariableFeeNat
<1>3. PICK f \in CurrentFees(dir, before) :
        Swap(mode, dir, amount, f, hasReferral, whitelisted)
  BY DEF FeeSwap
<1> HIDE DEF before
<1>4. f \in TradeFeeRecord /\ FeeFor(dir, f) = f
  <2>1. /\ baseFee \in BaseFeeRecord /\ FeeMade(baseFee)
        /\ Since \in Int /\ pool.sqrtPrice \in Nat /\ initPrice \in Nat \ {0}
    BY ValidMade, PriceAndTime DEF FeeInv, FeeTypeOK
  <2> QED BY <1>2, <1>3, <2>1, TradeFeesSound DEF CurrentFees
<1> QED BY <1>3, <1>4 DEF SwapStep

\* p_handle_swap keeps the fees sound.
LEMMA FeeSwapKeeps ==
  ASSUME IInv, FeeInv, IInv', NEW mode, NEW dir, NEW amount,
         NEW hasReferral, NEW whitelisted,
         FeeSwap(mode, dir, amount, hasReferral, whitelisted)
  PROVE  FeeInv'
<1> DEFINE before == PreSwap(dynamic, pool.sqrtPrice, Timestamp)
<1>1. /\ before \in DynamicRecord
      /\ DynamicMade(before)
      /\ before.acc <= before.maxAcc
      /\ before.volRef <= before.maxAcc
  BY PreSwapSound, PriceAndTime DEF FeeInv, FeeTypeOK, VolatilityBounded
<1>2. /\ before.enabled => before.reference # 0
      /\ dynamic' = PostSwap(before, pool.sqrtPrice, pool'.sqrtPrice, Timestamp)
      /\ baseFee' = baseFee /\ initPrice' = initPrice
  BY DEF FeeSwap
<1>3. pool'.sqrtPrice \in Nat \ {0} /\ Timestamp \in Nat
  <2>1. pool'.sqrtPrice \in Nat \ {0}
    BY PriceAssumption DEF IInv, PriceInRange
  <2> QED BY <2>1, PriceAndTime
<1> HIDE DEF before
<1>4. /\ dynamic' \in DynamicRecord
      /\ DynamicMade(dynamic')
      /\ dynamic'.acc <= dynamic'.maxAcc
      /\ dynamic'.volRef <= dynamic'.maxAcc
      /\ dynamic'.enabled =>
           dynamic'.acc = Accumulated(dynamic', pool'.sqrtPrice)
  BY <1>1, <1>2, <1>3, PostSwapSound
<1> QED BY <1>2, <1>4
        DEF FeeInv, FeeTypeOK, VolatilityBounded, VolatilityInStep

\* handle_update_pool_fees keeps the fees sound, whatever it replaces.
LEMMA UpdatePoolFeesKeeps ==
  ASSUME IInv, FeeInv, NEW cliff \in {{}} \cup {{c} : c \in NewCliffs},
         NEW u \in [mode : {"Skip", "Disable", "Update"},
                    params : DynamicFees],
         UpdatePoolFees(cliff, u)
  PROVE  FeeInv'
<1>1. UNCHANGED <<vars, initPrice>>
  BY DEF UpdatePoolFees
<1>2. pool' = pool
  BY <1>1 DEF vars
<1>3. baseFee' \in BaseFeeRecord /\ ValidBaseFee(baseFee', FeesInB)
  <2>1. CASE cliff = {}
    BY <2>1 DEF UpdatePoolFees, FeeInv, FeeTypeOK
  <2>2. ASSUME NEW c \in NewCliffs, cliff = {c}
        PROVE  baseFee' \in BaseFeeRecord /\ ValidBaseFee(baseFee', FeesInB)
    <3>1. baseFee' = WithCliff(baseFee, c)
      BY <2>2 DEF UpdatePoolFees
    <3>2. ValidBaseFee(WithCliff(baseFee, c), FeesInB)
      BY <2>2 DEF UpdatePoolFees, CanUpdateCliff
    <3>3. baseFee' \in BaseFeeRecord
      BY <3>1, EngineAssumption
         DEF WithCliff, BaseFeeRecord, FeeInv, FeeTypeOK
    <3> QED BY <3>1, <3>2, <3>3
  <2> QED BY <2>1, <2>2
<1>4. /\ dynamic' \in DynamicRecord
      /\ DynamicMade(dynamic')
      /\ dynamic'.acc <= dynamic'.maxAcc
      /\ dynamic'.volRef <= dynamic'.maxAcc
      /\ dynamic'.enabled /\ dynamic'.reference # 0 =>
           dynamic'.acc = Accumulated(dynamic', pool'.sqrtPrice)
  <2>1. dynamic' = ChangeDynamic(dynamic, u) /\ CanChangeDynamic(dynamic, u)
    BY DEF UpdatePoolFees
  <2>2. CASE u.mode = "Skip"
    <3>1. dynamic' = dynamic
      BY <2>1, <2>2 DEF ChangeDynamic
    <3> QED BY <1>2, <3>1
            DEF FeeInv, FeeTypeOK, VolatilityBounded, VolatilityInStep
  <2>3. CASE u.mode = "Disable"
    <3>1. dynamic' = NoDynamic
      BY <2>1, <2>3 DEF ChangeDynamic
    <3> QED BY <3>1, NoDynamicSound
  <2>4. CASE u.mode = "Update"
    <3>1. dynamic' = FreshDynamic(u.params)
      BY <2>1, <2>4 DEF ChangeDynamic
    <3>2. /\ u.params \in DynamicParameters /\ ValidDynamic(u.params)
          /\ u.params.filter <= ClockStart
      BY <2>1, <2>4, EngineAssumption DEF CanChangeDynamic
    <3> QED BY <3>1, <3>2, FreshSound
  <2> QED BY <2>2, <2>3, <2>4
<1> QED BY <1>1, <1>3, <1>4
        DEF FeeInv, FeeTypeOK, VolatilityBounded, VolatilityInStep

\* Any other instruction leaves the fees and the price alone.
LEMMA OtherStepKeepsFees ==
  ASSUME IInv, FeeInv, OtherStep, UNCHANGED fees
  PROVE  FeeInv'
<1>1. pool'.sqrtPrice = pool.sqrtPrice
  BY OtherStepPrice DEF IInv, TypeOK
<1>2. baseFee' = baseFee /\ dynamic' = dynamic /\ initPrice' = initPrice
  BY DEF fees
<1> QED BY <1>1, <1>2
        DEF FeeInv, FeeTypeOK, VolatilityBounded, VolatilityInStep

\* Every step of the pool with its fees is one of the pool of CpAmm.
LEMMA FeeStepRefines ==
  ASSUME IInv, FeeInv, [FeeNext]_allVars
  PROVE  [SwapStep(TradeFeeRecord) \/ OtherStep]_vars
<1>1. ASSUME NEW mode \in Modes, NEW dir \in Directions,
             NEW amount \in SwapAmounts, NEW hasReferral \in BOOLEAN,
             NEW whitelisted \in {FALSE, HasWhitelistedVault},
             FeeSwap(mode, dir, amount, hasReferral, whitelisted)
      PROVE  SwapStep(TradeFeeRecord)
  BY <1>1, FeeSwapIsSwap
<1>2. ASSUME NEW cliff, NEW u, UpdatePoolFees(cliff, u)
      PROVE  UNCHANGED vars
  BY <1>2 DEF UpdatePoolFees
<1>3. CASE UNCHANGED allVars
  BY <1>3 DEF allVars
<1> QED BY <1>1, <1>2, <1>3 DEF FeeNext

\* Every step of the pool with its fees keeps both invariants.
LEMMA FeeStepKeeps ==
  ASSUME IInv, FeeInv, [FeeNext]_allVars
  PROVE  IInv' /\ FeeInv'
<1>1. IInv'
  BY FeeStepRefines, AnyFeeStepKeeps
<1>2. ASSUME NEW mode, NEW dir, NEW amount, NEW hasReferral, NEW whitelisted,
             FeeSwap(mode, dir, amount, hasReferral, whitelisted)
      PROVE  FeeInv'
  BY <1>1, <1>2, FeeSwapKeeps
<1>3. ASSUME NEW cliff \in {{}} \cup {{c} : c \in NewCliffs},
             NEW u \in [mode : {"Skip", "Disable", "Update"},
                        params : DynamicFees],
             UpdatePoolFees(cliff, u)
      PROVE  FeeInv'
  BY <1>3, UpdatePoolFeesKeeps
<1>4. CASE OtherStep /\ UNCHANGED fees
  BY <1>1, <1>4, OtherStepKeepsFees
<1>5. CASE UNCHANGED allVars
  <2>1. /\ pool' = pool /\ baseFee' = baseFee /\ dynamic' = dynamic
        /\ initPrice' = initPrice
    BY <1>5 DEF allVars, vars, fees
  <2> QED BY <1>1, <2>1
          DEF FeeInv, FeeTypeOK, VolatilityBounded, VolatilityInStep
<1> QED BY <1>1, <1>2, <1>3, <1>4, <1>5 DEF FeeNext

-----------------------------------------------------------------------------
\* Both invariants hold throughout.
THEOREM FeeInvariantHolds == FeeSpec => [](IInv /\ FeeInv)
<1>1. FeeInit => IInv /\ FeeInv
  BY InitSound, FeeInitSound DEF FeeInit
<1>2. IInv /\ FeeInv /\ [FeeNext]_allVars => (IInv /\ FeeInv)'
  BY FeeStepKeeps
<1> QED BY <1>1, <1>2, PTL DEF FeeSpec

\* The pool with its real fees is a pool of CpAmm: its schedules, its limiter,
\* its dynamic fee and its operator only ever choose among the trade fees
\* that CpAmm allows, at any parameters.
THEOREM FeesRefinePool == FeeSpec => AnyFeeSpec
<1>1. FeeInit => Init
  BY DEF FeeInit
<1>2. IInv /\ FeeInv /\ [FeeNext]_allVars
        => [SwapStep(TradeFeeRecord) \/ OtherStep]_vars
  BY FeeStepRefines
<1> QED BY <1>1, <1>2, FeeInvariantHolds, PTL DEF FeeSpec, AnyFeeSpec

\* Hence no price leaves the range and no subtraction fails under them.
THEOREM FeesKeepPool == FeeSpec => [](PriceInRange /\ NoUnderflow)
<1>1. IInv => PriceInRange /\ NoUnderflow
  BY DEF IInv
<1> QED BY <1>1, FeeInvariantHolds, PTL

\* Hence the vaults hold every claim under them too, and everybody can leave
\* at once: the guarantees of the pool do not depend on how the fee engine
\* prices a swap.
THEOREM FeesKeepVaults ==
  FeeSpec => [](VaultASolvent /\ VaultBSolvent /\ RewardVaultSolvent /\ AllCanLeave)
<1>1. IInv /\ LiquidityConserved /\ VaultInv /\ RewardsCovered
        => VaultASolvent /\ VaultBSolvent /\ RewardVaultSolvent /\ AllCanLeave
  <2> SUFFICES ASSUME IInv, LiquidityConserved, VaultInv, RewardsCovered
               PROVE  VaultASolvent /\ VaultBSolvent /\ RewardVaultSolvent /\ AllCanLeave
    OBVIOUS
  <2>1. VaultASolvent /\ VaultBSolvent
    BY SolventIsCovered DEF VaultInv
  <2>2. RewardVaultSolvent
    BY CoveredIsSolvent
  <2>3. AllCanLeave
    BY CoveredCanLeave
  <2> QED BY <2>1, <2>2, <2>3
<1> QED BY <1>1, FeesRefinePool, AnyFeeVaultsSolvent, AnyFeeRewardsSolvent,
           AnyFeeLiquidityConserved, PTL

\* update_volatility_accumulator and update_references never let the
\* accumulator past the ceiling that get_variable_fee relies on.
THEOREM VolatilityBoundedHolds == FeeSpec => []VolatilityBounded
<1>1. FeeInv => VolatilityBounded
  BY DEF FeeInv
<1> QED BY <1>1, FeeInvariantHolds, PTL

\* No instruction moves the price without the accumulator, or the other way
\* round: update_post_swap runs on every swap, and nothing else moves either.
THEOREM VolatilityInStepHolds == FeeSpec => []VolatilityInStep
<1>1. FeeInv => VolatilityInStep
  BY DEF FeeInv
<1> QED BY <1>1, FeeInvariantHolds, PTL

-----------------------------------------------------------------------------
\* update_pre_swap always finds or sets a reference price, since a fee that
\* has none counts as last updated long ago, and the base fee was validated.
LEMMA QuotableNow ==
  ASSUME IInv, FeeInv
  PROVE  SwapsQuotable
<1> DEFINE before == PreSwap(dynamic, pool.sqrtPrice, Timestamp)
<1>1. /\ pool.sqrtPrice \in Nat \ {0} /\ Timestamp \in Nat /\ Since \in Int
      /\ ClockStart \in Nat /\ ClockStart <= Timestamp
  <2>1. now \in Nat /\ ClockStart \in Nat
    BY EngineAssumption DEF IInv, TypeOK
  <2> QED BY <2>1, PriceAndTime DEF Timestamp
<1>2. ASSUME before.enabled PROVE before.reference # 0
  <2>1. /\ dynamic.enabled
        /\ dynamic.filter \in Nat /\ dynamic.filter <= ClockStart
        /\ dynamic.reference = 0 => dynamic.lastUpdate = 0
    BY <1>2 DEF PreSwap, FeeInv, FeeTypeOK, DynamicMade, DynamicRecord
  <2> DEFINE elapsed == Larger(Timestamp - dynamic.lastUpdate, 0)
  <2>2. CASE elapsed < dynamic.filter
    <3>1. dynamic.lastUpdate # 0
      BY <1>1, <2>1, <2>2 DEF Larger
    <3>2. before = dynamic
      BY <2>1, <2>2 DEF PreSwap, UpdateReferences
    <3> QED BY <2>1, <3>1, <3>2
  <2>3. CASE ~(elapsed < dynamic.filter)
    <3>1. before.reference = pool.sqrtPrice
      BY <2>1, <2>3 DEF PreSwap, UpdateReferences, FeeInv, FeeTypeOK, DynamicRecord
    <3> QED BY <1>1, <3>1
  <2> QED BY <2>2, <2>3
<1> HIDE DEF before
<1>3. ScheduledFee(baseFee, Since, pool.sqrtPrice, initPrice) # {}
  BY <1>1, ScheduledFeeDefined DEF FeeInv, FeeTypeOK
<1>4. ASSUME NEW dir \in Directions PROVE CurrentFees(dir, before) # {}
  BY <1>3 DEF CurrentFees, TradeFeesOf
<1> QED BY <1>2, <1>4 DEF SwapsQuotable, before

\* Whatever operators did to the fees, and whatever the time and the price,
\* no swap fails for want of a fee or of a reference price.
THEOREM SwapsQuotableHolds == FeeSpec => []SwapsQuotable
<1>1. IInv /\ FeeInv => SwapsQuotable
  BY QuotableNow
<1> QED BY <1>1, FeeInvariantHolds, PTL

-----------------------------------------------------------------------------
\* A swap after the decay window forgets every move before it.
LEMMA QuietStep ==
  ASSUME IInv, FeeInv, IInv', [FeeNext]_allVars
  PROVE  SwapForgets
<1> SUFFICES ASSUME pool'.sqrtPrice # pool.sqrtPrice, dynamic.enabled,
                    Timestamp >= dynamic.lastUpdate + dynamic.decay
             PROVE  dynamic'.acc
                      <= Bins(pool.sqrtPrice, pool'.sqrtPrice) * MaxBasisPoint
  BY DEF SwapForgets
<1> DEFINE before == PreSwap(dynamic, pool.sqrtPrice, Timestamp)
<1>1. dynamic' = PostSwap(before, pool.sqrtPrice, pool'.sqrtPrice, Timestamp)
  <2>1. ASSUME NEW cliff, NEW u, UpdatePoolFees(cliff, u)
        PROVE  FALSE
    BY <2>1 DEF UpdatePoolFees, vars
  <2>2. ~OtherStep
    BY OtherStepPrice DEF IInv, TypeOK
  <2>3. ~UNCHANGED allVars
    BY DEF allVars, vars
  <2> QED BY <2>1, <2>2, <2>3 DEF FeeNext, FeeSwap
<1>2. /\ pool.sqrtPrice \in Nat \ {0} /\ Timestamp \in Nat
      /\ pool'.sqrtPrice \in Nat \ {0}
  <2>1. pool'.sqrtPrice \in Nat \ {0}
    BY PriceAssumption DEF IInv, PriceInRange
  <2> QED BY <2>1, PriceAndTime
<1>3. before = [dynamic EXCEPT !.reference = pool.sqrtPrice, !.volRef = 0]
  <2>1. /\ dynamic.decay \in Nat /\ dynamic.lastUpdate \in Nat
        /\ dynamic.filter \in Nat /\ dynamic.filter < dynamic.decay
    BY DEF FeeInv, FeeTypeOK, DynamicRecord, DynamicMade
  <2>2. Larger(Timestamp - dynamic.lastUpdate, 0) >= dynamic.decay
    BY <1>2, <2>1 DEF Larger
  <2>3. /\ Larger(Timestamp - dynamic.lastUpdate, 0) \in Int
        /\ ~(Larger(Timestamp - dynamic.lastUpdate, 0) < dynamic.filter)
        /\ ~(Larger(Timestamp - dynamic.lastUpdate, 0) < dynamic.decay)
    BY <1>2, <2>1, <2>2 DEF Larger
  <2> QED BY <2>3 DEF PreSwap, UpdateReferences
<1> HIDE DEF before
<1>4. /\ before \in DynamicRecord /\ before.enabled
      /\ before.reference = pool.sqrtPrice /\ before.volRef = 0
  BY <1>2, <1>3 DEF FeeInv, FeeTypeOK, DynamicRecord
<1>5. dynamic'.acc = Accumulated(before, pool'.sqrtPrice)
  BY <1>1, <1>4 DEF PostSwap, DynamicRecord
<1>6. Accumulated(before, pool'.sqrtPrice)
        <= 0 + Bins(pool'.sqrtPrice, pool.sqrtPrice) * MaxBasisPoint
  BY <1>2, <1>4, AccumulatedBounds
<1>7. /\ Bins(pool'.sqrtPrice, pool.sqrtPrice)
           = Bins(pool.sqrtPrice, pool'.sqrtPrice)
      /\ Bins(pool.sqrtPrice, pool'.sqrtPrice) * MaxBasisPoint \in Nat
  BY <1>2, BinsSymmetric, BinsNat, MulNat, BaseFeeAssumption
<1> QED BY <1>5, <1>6, <1>7

\* update_pre_swap clears what is older than the decay period, before the
\* swap adds its own move.
THEOREM QuietForgetsHolds == FeeSpec => QuietForgets
<1>1. (IInv /\ FeeInv) /\ (IInv /\ FeeInv)' /\ [FeeNext]_allVars
        => [SwapForgets]_allVars
  BY QuietStep
<1> QED BY <1>1, FeeInvariantHolds, PTL DEF FeeSpec, QuietForgets

-----------------------------------------------------------------------------
\* handle_update_pool_fees only replaces a base fee that has come to rest.
LEMMA UpdateStep ==
  ASSUME IInv, FeeInv, [FeeNext]_allVars
  PROVE  UpdateSettled
<1> SUFFICES ASSUME baseFee' # baseFee
             PROVE  /\ \A p \in SqrtMinPrice..SqrtMaxPrice :
                         ScheduledFee(baseFee, Since, p, initPrice)
                           = MinBaseFee(baseFee)
                    /\ \A dir \in Directions :
                         ~LimiterApplies(baseFee, Since, dir)
                    /\ \A n \in ScheduledFee(baseFee', Since, pool.sqrtPrice,
                                             initPrice) :
                         MinFeeNumerator <= n /\ n <= MaxFeePostUpdate
  BY DEF UpdateSettled
<1>1. PICK cliff \in {{}} \cup {{c} : c \in NewCliffs},
           u \in [mode : {"Skip", "Disable", "Update"},
                  params : DynamicFees] : UpdatePoolFees(cliff, u)
  BY DEF FeeNext, FeeSwap, allVars, fees
<1>2. PICK c \in NewCliffs : cliff = {c}
  BY <1>1 DEF UpdatePoolFees
<1>3. /\ baseFee' = WithCliff(baseFee, c)
      /\ CanUpdateCliff(baseFee, Since, c, MaxFeePostUpdate, FeesInB)
  BY <1>1, <1>2 DEF UpdatePoolFees
<1>4. /\ baseFee \in BaseFeeRecord /\ baseFee' \in BaseFeeRecord
      /\ Since \in Int
  BY <1>3, PriceAndTime, EngineAssumption
     DEF WithCliff, BaseFeeRecord, FeeInv, FeeTypeOK
<1>5. FeeMade(baseFee) /\ FeeMade(baseFee')
  BY <1>3, ValidMade DEF FeeInv, CanUpdateCliff
<1>6. IsStatic(baseFee, Since) /\ IsStatic(baseFee', Since)
  BY <1>3, <1>4 DEF CanUpdateCliff, WithCliff, IsStatic, BaseFeeRecord
<1>7. ASSUME NEW n \in MinBaseFee(baseFee')
      PROVE  MinFeeNumerator <= n /\ n <= MaxFeePostUpdate
  <2>1. MinFeeNumerator <= n /\ MinBaseFee(baseFee') = {n}
    BY <1>3, <1>4, ValidMinimum DEF CanUpdateCliff
  <2> QED BY <1>3, <2>1 DEF CanUpdateCliff
<1>8. ScheduledFee(baseFee', Since, pool.sqrtPrice, initPrice)
        = MinBaseFee(baseFee')
  BY <1>4, <1>5, <1>6, StaticFee
<1> QED BY <1>4, <1>5, <1>6, <1>7, <1>8, StaticFee

\* An operator never changes a base fee that a schedule or a rate limiter is
\* still moving, nor to one past the cap, whatever the fees of the pool.
THEOREM UpdatesOnlyWhenSettledHolds == FeeSpec => UpdatesOnlyWhenSettled
<1>1. (IInv /\ FeeInv) /\ [FeeNext]_allVars => [UpdateSettled]_allVars
  BY UpdateStep
<1> QED BY <1>1, FeeInvariantHolds, PTL DEF FeeSpec, UpdatesOnlyWhenSettled
=============================================================================
