-------------------------------- MODULE CpAmm --------------------------------
(***************************************************************************)
(* One cp-amm pool as a whole: any of its instructions, sent by anyone, in *)
(* any order, while the clock advances.  Solana runs the instructions that *)
(* touch one pool one at a time, so concurrency is the order in which they *)
(* land.                                                                   *)
(***************************************************************************)
EXTENDS PoolSwap, PoolRewards

CONSTANTS
  InitLiquidity, InitPrices,   \* how the pool is created
  LiquidityDeltas,             \* amounts of liquidity added or removed
  SplitShares,                 \* numerators of a split
  Schedules,                   \* vesting schedules
  LockAmounts,                 \* amounts locked for ever
  Modes, SwapAmounts,          \* the swaps users send
  TradeFees,                   \* fees that swaps may find in the pool
  ClaimCaps,                   \* max_amount_a, max_amount_b of a fee claim
  Durations, FundAmounts,      \* reward durations and funding
  Statuses                     \* pool statuses an operator sets

ASSUME InputAssumption ==
  /\ InitLiquidity \subseteq Nat
  /\ InitPrices \subseteq Nat
  /\ LiquidityDeltas \subseteq Nat
  /\ LockAmounts \subseteq Nat
  /\ Modes \subseteq SwapModes
  /\ SwapAmounts \subseteq Nat
  /\ TradeFees \subseteq TradeFeeRecord
  /\ ClaimCaps \subseteq [Tokens -> Nat]
  /\ Durations \subseteq Nat \ {0}
  /\ FundAmounts \subseteq Nat
  /\ Statuses \subseteq BOOLEAN
  /\ SplitShares \subseteq [unlocked : Nat, permanent : Nat,
                            fee : [Tokens -> Nat], reward : [Rewards -> Nat]]
  /\ Schedules \subseteq [cliff : Nat, frequency : Nat, cliffUnlock : Nat,
                          perPeriod : Nat, periods : Nat]

\* handle_set_pool_status
SetPoolStatus(enabled) ==
  /\ enabled # pool.enabled
  /\ pool' = [pool EXCEPT !.enabled = enabled]
  /\ UNCHANGED <<position, vestings, reward, vault, rewardVault, frozen, now>>

\* The Clock sysvar.
Tick ==
  /\ now < MaxTime
  /\ now' = now + 1
  /\ UNCHANGED <<pool, position, vestings, reward, vault, rewardVault, frozen>>

PositionStep ==
  \/ \E p \in Positions : CreatePosition(p) \/ ClosePosition(p)
  \/ \E p \in Positions, d \in LiquidityDeltas : AddLiquidity(p, d)
  \/ \E p \in Positions, d \in LiquidityDeltas : RemoveLiquidity(p, d)
  \/ \E p \in Positions : RemoveLiquidity(p, position[p].unlocked)
  \/ \E p, q \in Positions, s \in SplitShares : SplitPosition(p, q, s)
  \/ \E p \in Positions, id \in VestingIds, s \in Schedules :
        LockPosition(p, id, s)
  \/ \E v \in vestings : RefreshVesting(v)
  \/ \E p \in Positions, n \in LockAmounts : PermanentLock(p, n)

\* Swaps whose trade fee is any of `fees`.
SwapStep(fees) ==
  \E mode \in Modes, dir \in Directions, amount \in SwapAmounts, f \in fees,
     hasReferral \in BOOLEAN, whitelisted \in {FALSE, HasWhitelistedVault} :
    Swap(mode, dir, amount, FeeFor(dir, f), hasReferral, whitelisted)

ClaimStep ==
  \/ \E p \in Positions : ClaimPositionFee(p)
  \/ \E max \in ClaimCaps : ClaimProtocolFee(max) \/ ClaimPartnerFee(max)
  \/ \E max \in ClaimCaps, t \in Tokens : ZapProtocolFee(t, max[t])

RewardStep ==
  \/ \E r \in Rewards, d \in Durations : InitializeReward(r, d)
  \/ \E r \in Rewards, d \in Durations : UpdateRewardDuration(r, d)
  \/ \E r \in Rewards, n \in FundAmounts, carry \in BOOLEAN :
        FundReward(r, n, carry)
  \/ \E r \in Rewards : WithdrawIneligibleReward(r)
  \/ \E p \in Positions, r \in Rewards, skip \in BOOLEAN :
        ClaimReward(p, r, skip)
  \/ \E r \in Rewards : ToggleFreeze(r)

StatusStep == \E enabled \in Statuses : SetPoolStatus(enabled)

Init == InitialState(InitLiquidity, InitPrices)

\* Everything but swaps, whatever the fees.
OtherStep == PositionStep \/ ClaimStep \/ RewardStep \/ StatusStep \/ Tick

Next == SwapStep(TradeFees) \/ OtherStep

Spec == Init /\ [][Next]_vars

\* The pool under any trade fee at all: what a fee engine refines.
AnyFeeSpec == Init /\ [][SwapStep(TradeFeeRecord) \/ OtherStep]_vars

-----------------------------------------------------------------------------
\* Types: in particular no balance, pending amount or accumulator is negative.
TypeOK ==
  /\ pool \in PoolRecord
  /\ position \in [Positions -> PositionRecord]
  /\ vestings \subseteq VestingRecord
  /\ reward \in [Rewards -> RewardRecord]
  /\ vault \in [Tokens -> Nat]
  /\ rewardVault \in [Rewards -> Nat]
  /\ frozen \in [Rewards -> BOOLEAN]
  /\ now \in Nat

\* The checkpoint of a position never overtakes the pool's accumulator, so
\* that update_fee's safe_sub cannot fail and lock the position's owner out.
FeeCheckpointsBehind ==
  \A p \in Positions, t \in Tokens :
    position[p].feeCheckpoint[t] <= pool.feePerLiquidity[t]

\* The same for each reward (UserRewardInfo::update_rewards).
RewardCheckpointsBehind ==
  \A p \in Positions, r \in Rewards :
    position[p].rewardCheckpoint[r] <= reward[r].stored

\* The last update of a reward is never after now, nor after the end of the
\* distribution: get_seconds_elapsed_since_last_update's safe_sub cannot fail
\* (every add, remove, split and claim goes through it).
RewardClockBehind ==
  \A r \in Rewards : reward[r].lastUpdate <= Smaller(now, reward[r].end)

\* No checked subtraction on the way of every instruction of a position can
\* underflow: once one did, the position's liquidity would be stuck for good.
NoUnderflow ==
  /\ FeeCheckpointsBehind
  /\ RewardCheckpointsBehind
  /\ RewardClockBehind

\* The price stays in the pool's range: beyond it the amounts of
\* get_amounts_for_modify_liquidity are negative and nobody can withdraw.
PriceInRange == pool.sqrtPrice \in SqrtMinPrice..SqrtMaxPrice

\* Every open vesting account has released no more than its schedule allows
\* and still has something to release; two accounts have two identifiers.
ReleasesOnSchedule ==
  /\ \A v \in vestings :
        /\ v.released <= MaxUnlocked(v, now)
        /\ v.released < TotalLock(v)
  /\ \A v, w \in vestings : v.id = w.id => v = w

\* And it belongs to an open position: close_position looks at the balances
\* only, never at the vesting accounts.
SchedulesSound ==
  ReleasesOnSchedule /\ \A v \in vestings : position[v.position].open

\* A vesting account goes away only once its whole schedule has elapsed,
\* and never releases ahead of it: locked liquidity stays locked whoever
\* sends refresh_vesting and however often.
LockedUntilSchedule ==
  [][\A v \in vestings :
       \/ \E w \in vestings' : w.id = v.id /\ w.released >= v.released
       \/ now >= v.cliff + v.frequency * v.periods]_vars
=============================================================================
