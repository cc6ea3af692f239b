------------------------------ MODULE FeeEngine ------------------------------
(***************************************************************************)
(* The pool of CpAmm with the fees it really charges: a base fee that      *)
(* follows the clock, the price or the amount, a dynamic fee that follows  *)
(* earlier swaps, and an operator who changes both while people trade.     *)
(* A swap no longer finds any trade fee but the one these three make.      *)
(***************************************************************************)
EXTENDS CpAmm, DynamicFee

CONSTANTS
  ClockStart,           \* the timestamp when the pool's clock shows 0
  MaxFeePostUpdate,     \* MAX_FEE_NUMERATOR_POST_UPDATE
  BaseFees,             \* base fees a pool may be created with
  DynamicFees,          \* parameters of dynamic fees
  NewCliffs             \* cliff fees an operator sets

\* Timestamps are seconds since 1970, and a filter period has 16 bits.
ASSUME EngineAssumption ==
  /\ ClockStart \in Nat
  /\ MaxFeePostUpdate \in Nat
  /\ BaseFees \subseteq BaseFeeRecord
  /\ DynamicFees \subseteq DynamicParameters
  /\ \A p \in DynamicFees : p.filter <= ClockStart
  /\ NewCliffs \subseteq Nat

VARIABLES
  baseFee,       \* pool_fees.base_fee
  dynamic,       \* pool_fees.dynamic_fee
  initPrice      \* pool_fees.init_sqrt_price

fees    == <<baseFee, dynamic, initPrice>>
allVars == <<vars, fees>>

FeesInB   == CollectFeeMode = "OnlyB"
Since     == now - ActivationPoint
Timestamp == ClockStart + now

\* PoolFeeParameters::validate and to_pool_fees_struct.
FeeInit ==
  /\ Init
  /\ baseFee \in {b \in BaseFees : ValidBaseFee(b, FeesInB)}
  /\ dynamic \in {NoDynamic} \cup
                 {FreshDynamic(p) : p \in {q \in DynamicFees : ValidDynamic(q)}}
  /\ initPrice = pool.sqrtPrice

\* The fee a swap in this state pays, empty where it cannot be computed.
CurrentFees(dir, d) ==
  TradeFeesOf(baseFee, Since, pool.sqrtPrice, initPrice, dir, VariableFee(d))

\* p_handle_swap with the updates before and after it; get_delta_bin_id
\* divides by the reference price.
FeeSwap(mode, dir, amount, hasReferral, whitelisted) ==
  LET before == PreSwap(dynamic, pool.sqrtPrice, Timestamp)
  IN  /\ before.enabled => before.reference # 0
      /\ \E f \in CurrentFees(dir, before) :
           Swap(mode, dir, amount, f, hasReferral, whitelisted)
      /\ dynamic' = PostSwap(before, pool.sqrtPrice, pool'.sqrtPrice, Timestamp)
      /\ UNCHANGED <<baseFee, initPrice>>

\* handle_update_pool_fees: a cliff fee or none, and a change of the dynamic
\* fee or none, but not neither.
UpdatePoolFees(cliff, u) ==
  /\ cliff # {} \/ u.mode # "Skip"
  /\ \A c \in cliff :
       CanUpdateCliff(baseFee, Since, c, MaxFeePostUpdate, FeesInB)
  /\ CanChangeDynamic(dynamic, u)
  /\ baseFee' = IF cliff = {} THEN baseFee
                ELSE WithCliff(baseFee, CHOOSE c \in cliff : TRUE)
  /\ dynamic' = ChangeDynamic(dynamic, u)
  /\ UNCHANGED <<vars, initPrice>>

FeeNext ==
  \/ \E mode \in Modes, dir \in Directions, amount \in SwapAmounts,
        hasReferral \in BOOLEAN, whitelisted \in {FALSE, HasWhitelistedVault} :
       FeeSwap(mode, dir, amount, hasReferral, whitelisted)
  \/ \E cliff \in {{}} \cup {{c} : c \in NewCliffs},
        u \in [mode : {"Skip", "Disable", "Update"}, params : DynamicFees] :
       UpdatePoolFees(cliff, u)
  \/ OtherStep /\ UNCHANGED fees

\* The clock of the cluster advances whatever users do; nobody owes the pool
\* any instruction.
FeeSpec == FeeInit /\ [][FeeNext]_allVars /\ WF_allVars(Tick /\ UNCHANGED fees)

-----------------------------------------------------------------------------
FeeTypeOK ==
  /\ baseFee \in BaseFeeRecord
  /\ dynamic \in DynamicRecord
  /\ initPrice \in Nat

\* The accumulator and the reference it decays to stay under the ceiling
\* that validation bounds, so that the checked products of get_variable_fee
\* cannot fail and stop all trading.
VolatilityBounded ==
  dynamic.acc <= dynamic.maxAcc /\ dynamic.volRef <= dynamic.maxAcc

\* Between swaps the accumulator is the decayed reference plus how far the
\* pool's price is from the reference price: no instruction moves one
\* without the other.
VolatilityInStep ==
  dynamic.enabled /\ dynamic.reference # 0 =>
    dynamic.acc = Accumulated(dynamic, pool.sqrtPrice)

\* Whatever operators did to the fees, the next swap finds a fee it can
\* compute and a reference price it can divide by; a fresh dynamic fee has
\* none and relies on its first swap counting as late.
SwapsQuotable ==
  LET before == PreSwap(dynamic, pool.sqrtPrice, Timestamp)
  IN  /\ before.enabled => before.reference # 0
      /\ \A dir \in Directions : CurrentFees(dir, before) # {}

\* A swap after a quiet time remembers no move but its own.
SwapForgets ==
  /\ pool'.sqrtPrice # pool.sqrtPrice
  /\ dynamic.enabled
  /\ Timestamp >= dynamic.lastUpdate + dynamic.decay
  => dynamic'.acc <= Bins(pool.sqrtPrice, pool'.sqrtPrice) * MaxBasisPoint

QuietForgets == [][SwapForgets]_allVars

\* An operator changes the base fee of a live pool only when no swap could
\* see it change for another reason too, and never past the cap.
UpdateSettled ==
  baseFee' # baseFee =>
    /\ \A p \in SqrtMinPrice..SqrtMaxPrice :
         ScheduledFee(baseFee, Since, p, initPrice) = MinBaseFee(baseFee)
    /\ \A dir \in Directions : ~LimiterApplies(baseFee, Since, dir)
    /\ \A n \in ScheduledFee(baseFee', Since, pool.sqrtPrice, initPrice) :
         MinFeeNumerator <= n /\ n <= MaxFeePostUpdate

UpdatesOnlyWhenSettled == [][UpdateSettled]_allVars

\* Every schedule and every window ends: from some time on, swaps in both
\* directions pay the schedule's last fee, whatever the price.
FeeSettles ==
  <>[](/\ ~LimiterApplies(baseFee, Since, "BtoA")
       /\ \A p \in SqrtMinPrice..SqrtMaxPrice :
            ScheduledFee(baseFee, Since, p, initPrice) = MinBaseFee(baseFee))
=============================================================================
