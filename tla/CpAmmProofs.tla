----------------------------- MODULE CpAmmProofs -----------------------------
(***************************************************************************)
(* Proofs about the pool for every value of its parameters: the types,     *)
(* with no balance or accumulator ever negative; no checked subtraction    *)
(* that can underflow and lock a position; and a price that never leaves   *)
(* its range.  The three are proved together, since each step needs all of *)
(* them: a fee is natural because the price is in range, a pending amount  *)
(* because the checkpoint is behind.                                       *)
(***************************************************************************)
EXTENDS CpAmm, ArithLemmas

\* A reward's rate is computed by dividing by its duration, so that the type of
\* the rate also needs the duration of an initialized reward to be set.
DurationsSet ==
  \A r \in Rewards : reward[r].initialized => reward[r].duration > 0

\* What every step has to preserve about the rewards' clocks.
RewardsTimed == RewardClockBehind /\ DurationsSet

\* The inductive invariant.
IInv == TypeOK /\ NoUnderflow /\ PriceInRange /\ DurationsSet

-----------------------------------------------------------------------------
\* Accrual and settlement (position.rs update_fee, update_position_reward;
\* pool.rs RewardInfo::update_rewards).

\* A position's total liquidity is natural.
LEMMA TotalNat ==
  ASSUME NEW pos \in PositionRecord
  PROVE  TotalLiquidity(pos) \in Nat
BY DEF PositionRecord, TotalLiquidity

\* Settling fees keeps a position well typed, moves its checkpoint up to the
\* accumulator and touches nothing else.
LEMMA SettleFeesSound ==
  ASSUME NEW pos \in PositionRecord, pool \in PoolRecord,
         \A t \in Tokens : pos.feeCheckpoint[t] <= pool.feePerLiquidity[t]
  PROVE  /\ SettleFees(pos) \in PositionRecord
         /\ SettleFees(pos).feeCheckpoint = pool.feePerLiquidity
         /\ SettleFees(pos).rewardCheckpoint = pos.rewardCheckpoint
         /\ SettleFees(pos).unlocked = pos.unlocked
         /\ SettleFees(pos).vested = pos.vested
         /\ SettleFees(pos).permanent = pos.permanent
         /\ SettleFees(pos).open = pos.open
<1> DEFINE gain(t) == (TotalLiquidity(pos)
                         * (pool.feePerLiquidity[t] - pos.feeCheckpoint[t]))
                        \div LiquidityScale
           pending == [t \in Tokens |-> pos.feePending[t] + gain(t)]
<1>1. ASSUME NEW t \in Tokens PROVE gain(t) \in Nat
  <2>1. pool.feePerLiquidity[t] - pos.feeCheckpoint[t] \in Nat
    BY DEF PoolRecord, PositionRecord
  <2>2. TotalLiquidity(pos)
          * (pool.feePerLiquidity[t] - pos.feeCheckpoint[t]) \in Nat
    BY <2>1, TotalNat, MulNat
  <2> QED BY <2>2, DivNat, PoolAssumption
<1>2. pending \in [Tokens -> Nat]
  <2> HIDE DEF gain
  <2> QED BY <1>1 DEF PositionRecord
<1>3. SettleFees(pos) = [pos EXCEPT !.feePending = pending,
                                    !.feeCheckpoint = pool.feePerLiquidity]
  BY DEF SettleFees
<1>4. pool.feePerLiquidity \in [Tokens -> Nat]
  BY DEF PoolRecord
<1> HIDE DEF pending
<1> QED BY <1>2, <1>3, <1>4 DEF PositionRecord

\* Accruing keeps a reward well typed, never lowers its accumulator and moves
\* its clock to the point it has paid up to.
LEMMA AccrueRewardSound ==
  ASSUME NEW info \in RewardRecord, pool \in PoolRecord, now \in Nat,
         info.lastUpdate <= Smaller(now, info.end)
  PROVE  /\ AccrueReward(info) \in RewardRecord
         /\ info.stored <= AccrueReward(info).stored
         /\ AccrueReward(info).lastUpdate <= Smaller(now, info.end)
         /\ AccrueReward(info).end = info.end
         /\ AccrueReward(info).initialized = info.initialized
         /\ AccrueReward(info).duration = info.duration
         /\ AccrueReward(info).rate = info.rate
<1> DEFINE upto == Smaller(now, info.end)
           elapsed == upto - info.lastUpdate
           grown == (elapsed * info.rate * LiquidityScale) \div pool.liquidity
<1>1. upto \in Nat /\ elapsed \in Nat /\ info.lastUpdate <= upto
      /\ upto = Smaller(now, info.end)
  BY DEF Smaller, RewardRecord
<1>0. upto \in Nat
  BY <1>1
<1>2. CASE ~info.initialized
  <2>1. AccrueReward(info) = info
    BY <1>2, Zenon DEF AccrueReward
  <2> QED BY <2>1 DEF RewardRecord
<1>3. CASE info.initialized /\ pool.liquidity > 0
  <2>1. grown \in Nat
    <3> HIDE DEF elapsed
    <3>1. elapsed * info.rate \in Nat
      BY <1>1, MulNat DEF RewardRecord
    <3>2. elapsed * info.rate * LiquidityScale \in Nat
      BY <3>1, MulNat, PoolAssumption
    <3>3. pool.liquidity \in Nat \ {0}
      BY <1>3 DEF PoolRecord
    <3> QED BY <3>2, <3>3, DivNat
  <2> DEFINE new == info.stored + grown
  <2>2. new \in Nat /\ info.stored <= new
    BY <2>1 DEF RewardRecord
  <2>3. AccrueReward(info) = [info EXCEPT !.stored = new, !.lastUpdate = upto]
    BY <1>3 DEF AccrueReward
  <2> HIDE DEF grown, new, upto
  <2>5. new \in Nat
    BY <2>2
  <2>4. LET acc == [info EXCEPT !.stored = new, !.lastUpdate = upto]
        IN  /\ acc \in RewardRecord
            /\ acc.stored = new
            /\ acc.lastUpdate = upto
            /\ acc.end = info.end
            /\ acc.initialized = info.initialized
            /\ acc.duration = info.duration
            /\ acc.rate = info.rate
    <3>1. info \in RewardRecord
      OBVIOUS
    <3> HIDE DEF elapsed
    <3> QED BY ONLY <3>1, <1>0, <2>5 DEF RewardRecord
  <2>6. info.stored <= new
    BY <2>2
  <2>7. upto <= Smaller(now, info.end)
    BY <1>0, <1>1
  <2> QED BY <2>3, <2>4, <2>6, <2>7
<1>4. CASE info.initialized /\ ~(pool.liquidity > 0)
  <2> DEFINE new == info.emptySeconds + elapsed
  <2>1. new \in Nat
    BY <1>1 DEF RewardRecord
  <2>2. AccrueReward(info) =
          [info EXCEPT !.emptySeconds = new, !.lastUpdate = upto]
    BY <1>4 DEF AccrueReward
  <2> HIDE DEF new, upto
  <2>4. LET acc == [info EXCEPT !.emptySeconds = new, !.lastUpdate = upto]
        IN  /\ acc \in RewardRecord
            /\ acc.stored = info.stored
            /\ acc.lastUpdate = upto
            /\ acc.end = info.end
            /\ acc.initialized = info.initialized
            /\ acc.duration = info.duration
            /\ acc.rate = info.rate
    BY <1>0, <2>1 DEF RewardRecord
  <2>5. info.stored \in Nat
    BY DEF RewardRecord
  <2>6. info.stored <= info.stored
    BY <2>5
  <2>7. upto <= Smaller(now, info.end)
    BY <1>0, <1>1
  <2> QED BY <2>2, <2>4, <2>6, <2>7
<1> QED BY <1>2, <1>3, <1>4

\* The same for all the rewards of the pool at once.
LEMMA AccruedRewardsSound ==
  ASSUME IInv
  PROVE  /\ AccruedRewards \in [Rewards -> RewardRecord]
         /\ \A r \in Rewards :
              /\ reward[r].stored <= AccruedRewards[r].stored
              /\ AccruedRewards[r].lastUpdate
                   <= Smaller(now, AccruedRewards[r].end)
              /\ AccruedRewards[r].initialized = reward[r].initialized
              /\ AccruedRewards[r].end = reward[r].end
              /\ AccruedRewards[r].duration = reward[r].duration
<1>1. ASSUME NEW r \in Rewards
      PROVE  /\ AccrueReward(reward[r]) \in RewardRecord
             /\ reward[r].stored <= AccrueReward(reward[r]).stored
             /\ AccrueReward(reward[r]).lastUpdate
                  <= Smaller(now, AccrueReward(reward[r]).end)
             /\ AccrueReward(reward[r]).initialized = reward[r].initialized
             /\ AccrueReward(reward[r]).end = reward[r].end
             /\ AccrueReward(reward[r]).duration = reward[r].duration
  <2>1. reward[r] \in RewardRecord /\ pool \in PoolRecord /\ now \in Nat
        /\ reward[r].lastUpdate <= Smaller(now, reward[r].end)
    BY DEF IInv, TypeOK, NoUnderflow, RewardClockBehind
  <2> QED BY <2>1, AccrueRewardSound
<1> QED BY <1>1 DEF AccruedRewards

\* Settling rewards against accumulators that are ahead of the checkpoints
\* keeps a position well typed and its checkpoints behind.
LEMMA SettleRewardsSound ==
  ASSUME NEW pos \in PositionRecord, NEW infos \in [Rewards -> RewardRecord],
         \A r \in Rewards : pos.rewardCheckpoint[r] <= infos[r].stored
  PROVE  /\ SettleRewards(pos, infos) \in PositionRecord
         /\ \A r \in Rewards :
              SettleRewards(pos, infos).rewardCheckpoint[r] <= infos[r].stored
         /\ SettleRewards(pos, infos).feeCheckpoint = pos.feeCheckpoint
         /\ SettleRewards(pos, infos).unlocked = pos.unlocked
         /\ SettleRewards(pos, infos).vested = pos.vested
         /\ SettleRewards(pos, infos).permanent = pos.permanent
         /\ SettleRewards(pos, infos).open = pos.open
<1> DEFINE gain(r) == (TotalLiquidity(pos)
                         * (infos[r].stored - pos.rewardCheckpoint[r]))
                        \div TotalRewardScale
           pending == [r \in Rewards |->
                         IF infos[r].initialized
                           THEN pos.rewardPending[r] + gain(r)
                           ELSE pos.rewardPending[r]]
           checkpoint == [r \in Rewards |->
                            IF infos[r].initialized
                              THEN infos[r].stored
                              ELSE pos.rewardCheckpoint[r]]
<1>1. TotalRewardScale \in Nat \ {0}
  BY MulPos, PoolAssumption DEF TotalRewardScale
<1>2. ASSUME NEW r \in Rewards PROVE gain(r) \in Nat
  <2>1. infos[r].stored - pos.rewardCheckpoint[r] \in Nat
    BY DEF RewardRecord, PositionRecord
  <2>2. TotalLiquidity(pos)
          * (infos[r].stored - pos.rewardCheckpoint[r]) \in Nat
    BY <2>1, TotalNat, MulNat
  <2> QED BY <1>1, <2>2, DivNat
<1>3. pending \in [Rewards -> Nat]
  <2> HIDE DEF gain
  <2> QED BY <1>2 DEF PositionRecord
<1>4. checkpoint \in [Rewards -> Nat]
  BY DEF PositionRecord, RewardRecord
<1>5. \A r \in Rewards : checkpoint[r] <= infos[r].stored
  BY DEF PositionRecord, RewardRecord
<1>6. SettleRewards(pos, infos) =
        [pos EXCEPT !.rewardPending = pending,
                    !.rewardCheckpoint = checkpoint]
  BY DEF SettleRewards
<1> HIDE DEF pending, checkpoint
<1> QED BY <1>3, <1>4, <1>5, <1>6 DEF PositionRecord

\* Both, as add, remove and split do first.
LEMMA SettledSound ==
  ASSUME IInv, NEW p \in Positions
  PROVE  /\ Settled(p) \in PositionRecord
         /\ Settled(p).feeCheckpoint = pool.feePerLiquidity
         /\ \A r \in Rewards :
              Settled(p).rewardCheckpoint[r] <= AccruedRewards[r].stored
         /\ Settled(p).unlocked = position[p].unlocked
         /\ Settled(p).vested = position[p].vested
         /\ Settled(p).permanent = position[p].permanent
         /\ Settled(p).open = position[p].open
<1> DEFINE mid == SettleRewards(position[p], AccruedRewards)
<1>1. position[p] \in PositionRecord /\ pool \in PoolRecord
  BY DEF IInv, TypeOK
<1>2. AccruedRewards \in [Rewards -> RewardRecord]
  BY AccruedRewardsSound
<1>3. \A r \in Rewards :
        position[p].rewardCheckpoint[r] <= AccruedRewards[r].stored
  <2> TAKE r \in Rewards
  <2>1. position[p].rewardCheckpoint[r] <= reward[r].stored
    BY DEF IInv, NoUnderflow, RewardCheckpointsBehind
  <2>2. reward[r].stored <= AccruedRewards[r].stored
    BY AccruedRewardsSound
  <2>3. position[p].rewardCheckpoint[r] \in Nat /\ reward[r].stored \in Nat
        /\ AccruedRewards[r].stored \in Nat
    BY <1>1, <1>2 DEF IInv, TypeOK, PositionRecord, RewardRecord
  <2> QED BY <2>1, <2>2, <2>3
<1>4. /\ mid \in PositionRecord
      /\ \A r \in Rewards : mid.rewardCheckpoint[r] <= AccruedRewards[r].stored
      /\ mid.feeCheckpoint = position[p].feeCheckpoint
      /\ mid.unlocked = position[p].unlocked
      /\ mid.vested = position[p].vested
      /\ mid.permanent = position[p].permanent
      /\ mid.open = position[p].open
  BY <1>1, <1>2, <1>3, SettleRewardsSound
<1>5. \A t \in Tokens : mid.feeCheckpoint[t] <= pool.feePerLiquidity[t]
  BY <1>4 DEF IInv, NoUnderflow, FeeCheckpointsBehind
<1>6. Settled(p) = SettleFees(mid)
  BY DEF Settled
<1> HIDE DEF mid
<1> QED BY <1>1, <1>4, <1>5, <1>6, SettleFeesSound

-----------------------------------------------------------------------------
\* What a step that touches one part of the state leaves to be shown.

\* Accumulators that only grow stay ahead of every checkpoint, provided that
\* the positions a step changes are behind them too.
LEMMA CheckpointsStayBehind ==
  ASSUME IInv,
         pool' \in PoolRecord, reward' \in [Rewards -> RewardRecord],
         \A t \in Tokens : pool.feePerLiquidity[t] <= pool'.feePerLiquidity[t],
         \A r \in Rewards : reward[r].stored <= reward'[r].stored,
         \A p \in Positions :
           \/ position'[p] = position[p]
           \/ /\ \A t \in Tokens : position'[p].feeCheckpoint[t]
                                     <= pool'.feePerLiquidity[t]
              /\ \A r \in Rewards : position'[p].rewardCheckpoint[r]
                                      <= reward'[r].stored
  PROVE  FeeCheckpointsBehind' /\ RewardCheckpointsBehind'
<1>1. ASSUME NEW p \in Positions, NEW t \in Tokens
      PROVE  position'[p].feeCheckpoint[t] <= pool'.feePerLiquidity[t]
  <2>1. CASE position'[p] = position[p]
    <3>1. position[p].feeCheckpoint[t] <= pool.feePerLiquidity[t]
      BY DEF IInv, NoUnderflow, FeeCheckpointsBehind
    <3>2. /\ position[p].feeCheckpoint[t] \in Nat
          /\ pool.feePerLiquidity[t] \in Nat
          /\ pool'.feePerLiquidity[t] \in Nat
      BY DEF IInv, TypeOK, PositionRecord, PoolRecord
    <3> QED BY <2>1, <3>1, <3>2
  <2> QED BY <2>1
<1>2. ASSUME NEW p \in Positions, NEW r \in Rewards
      PROVE  position'[p].rewardCheckpoint[r] <= reward'[r].stored
  <2>1. CASE position'[p] = position[p]
    <3>1. position[p].rewardCheckpoint[r] <= reward[r].stored
      BY DEF IInv, NoUnderflow, RewardCheckpointsBehind
    <3>2. /\ position[p].rewardCheckpoint[r] \in Nat
          /\ reward[r].stored \in Nat
          /\ reward'[r].stored \in Nat
      BY DEF IInv, TypeOK, PositionRecord, RewardRecord
    <3> QED BY <2>1, <3>1, <3>2
  <2> QED BY <2>1
<1> QED BY <1>1, <1>2 DEF FeeCheckpointsBehind, RewardCheckpointsBehind

\* The case of one position that is replaced.
LEMMA PositionReplaced ==
  ASSUME IInv,
         pool' \in PoolRecord, reward' \in [Rewards -> RewardRecord],
         \A t \in Tokens : pool.feePerLiquidity[t] <= pool'.feePerLiquidity[t],
         \A r \in Rewards : reward[r].stored <= reward'[r].stored,
         NEW p \in Positions, NEW pos \in PositionRecord,
         \A t \in Tokens : pos.feeCheckpoint[t] <= pool'.feePerLiquidity[t],
         \A r \in Rewards : pos.rewardCheckpoint[r] <= reward'[r].stored,
         position' = [position EXCEPT ![p] = pos]
  PROVE  /\ position' \in [Positions -> PositionRecord]
         /\ FeeCheckpointsBehind'
         /\ RewardCheckpointsBehind'
<1>1. position \in [Positions -> PositionRecord]
  BY DEF IInv, TypeOK
<1>2. position' \in [Positions -> PositionRecord]
  BY <1>1
<1>3. \A q \in Positions : position'[q] = IF q = p THEN pos ELSE position[q]
  BY <1>1
<1> QED BY <1>2, <1>3, CheckpointsStayBehind

\* The case of no position at all.
LEMMA PositionsKept ==
  ASSUME IInv,
         pool' \in PoolRecord, reward' \in [Rewards -> RewardRecord],
         \A t \in Tokens : pool.feePerLiquidity[t] <= pool'.feePerLiquidity[t],
         \A r \in Rewards : reward[r].stored <= reward'[r].stored,
         position' = position
  PROVE  /\ position' \in [Positions -> PositionRecord]
         /\ FeeCheckpointsBehind'
         /\ RewardCheckpointsBehind'
BY CheckpointsStayBehind DEF IInv, TypeOK

\* A step that leaves the rewards and the clock alone.
LEMMA RewardsKept ==
  ASSUME IInv, UNCHANGED <<reward, now>>
  PROVE  /\ reward' \in [Rewards -> RewardRecord]
         /\ \A r \in Rewards : reward[r].stored <= reward'[r].stored
         /\ RewardsTimed'
         /\ now' \in Nat
<1>1. \A r \in Rewards : reward[r].stored \in Nat
  BY DEF IInv, TypeOK, RewardRecord
<1>2. \A r \in Rewards : reward[r].stored <= reward'[r].stored
  BY <1>1
<1>3. reward' \in [Rewards -> RewardRecord] /\ now' \in Nat
  BY DEF IInv, TypeOK
<1>4. RewardsTimed'
  BY DEF IInv, NoUnderflow, RewardClockBehind, RewardsTimed, DurationsSet
<1> QED BY <1>2, <1>3, <1>4

\* A step that accrues every reward and leaves the clock alone.
LEMMA RewardsAccrued ==
  ASSUME IInv, reward' = AccruedRewards, now' = now
  PROVE  /\ reward' \in [Rewards -> RewardRecord]
         /\ \A r \in Rewards : reward[r].stored <= reward'[r].stored
         /\ RewardsTimed'
         /\ now' \in Nat
<1>1. now' \in Nat
  BY DEF IInv, TypeOK
<1>2. \A r \in Rewards : AccruedRewards[r].initialized
                            => AccruedRewards[r].duration > 0
  BY AccruedRewardsSound DEF IInv, DurationsSet
<1> QED BY <1>1, <1>2, AccruedRewardsSound
        DEF RewardsTimed, RewardClockBehind, DurationsSet

\* A step that leaves the fee accumulators alone.
LEMMA FeesKept ==
  ASSUME IInv, pool'.feePerLiquidity = pool.feePerLiquidity
  PROVE  \A t \in Tokens : pool.feePerLiquidity[t] <= pool'.feePerLiquidity[t]
<1>1. \A t \in Tokens : pool.feePerLiquidity[t] \in Nat
  BY DEF IInv, TypeOK, PoolRecord
<1> QED BY <1>1

\* The parts of the invariant, put together again.
LEMMA IInvParts ==
  ASSUME pool' \in PoolRecord, PriceInRange',
         position' \in [Positions -> PositionRecord],
         FeeCheckpointsBehind', RewardCheckpointsBehind',
         reward' \in [Rewards -> RewardRecord], RewardsTimed', now' \in Nat,
         vestings' \subseteq VestingRecord,
         vault' \in [Tokens -> Nat], rewardVault' \in [Rewards -> Nat],
         frozen' \in [Rewards -> BOOLEAN]
  PROVE  IInv'
BY DEF IInv, TypeOK, NoUnderflow, RewardsTimed

-----------------------------------------------------------------------------
\* A pool that was just initialized.

\* Every initial state satisfies the invariant: amounts are natural because
\* the price handle_initialize_pool accepts is in the range.
LEMMA InitSound == Init => IInv
<1> SUFFICES ASSUME Init PROVE IInv
  OBVIOUS
<1>1. PICK p \in Positions, L \in InitLiquidity, price \in InitPrices,
           customizable \in BOOLEAN :
             InitializePool(p, L, price, customizable)
  BY DEF Init, InitialState
<1>2. L \in Nat
  BY InputAssumption
<1>3. price \in SqrtMinPrice..SqrtMaxPrice
  BY <1>1 DEF InitializePool
<1>4. /\ price \in Nat \ {0} /\ SqrtMinPrice \in Nat \ {0}
      /\ SqrtMaxPrice \in Nat
      /\ SqrtMinPrice <= price /\ price <= SqrtMaxPrice
  BY <1>3, PriceAssumption
<1> DEFINE a == DeltaA(price, SqrtMaxPrice, L, "Up")
           b == DeltaB(SqrtMinPrice, price, L, "Up")
<1>5. a \in Nat /\ b \in Nat
  BY <1>2, <1>4, DeltaNat
<1>6. /\ pool = InitialPool(L, price)
      /\ position = [q \in Positions |->
                       IF q = p THEN NewPosition(L) ELSE NoPosition]
      /\ vault = [t \in Tokens |->
                    InitVault(t, IF t = "A" THEN a ELSE b, customizable)]
  BY <1>1 DEF InitializePool
<1>7. pool \in PoolRecord /\ pool.sqrtPrice = price
  BY <1>2, <1>4, <1>6 DEF InitialPool, PoolRecord
<1>8. NoPosition \in PositionRecord /\ NewPosition(L) \in PositionRecord
  BY <1>2 DEF NewPosition, NoPosition, PositionRecord
<1>9. position \in [Positions -> PositionRecord]
  BY <1>6, <1>8
<1>10. vault \in [Tokens -> Nat]
  <2> HIDE DEF a, b
  <2>1. ASSUME NEW t \in Tokens, NEW n \in Nat
        PROVE  InitVault(t, n, customizable) \in Nat
    <3>1. ExcludedAmount(t, 1) \in Nat
      BY TransferFeeBounds
    <3> QED BY <3>1 DEF InitVault
  <2> QED BY <1>5, <1>6, <2>1
<1>11. NoReward \in RewardRecord
  BY DEF NoReward, RewardRecord
<1>12. /\ vestings = {}
       /\ reward = [r \in Rewards |-> NoReward]
       /\ rewardVault = [r \in Rewards |-> 0]
       /\ frozen = [r \in Rewards |-> FALSE]
       /\ now = 0
  BY DEF Init, InitialState
<1>13. TypeOK
  BY <1>7, <1>9, <1>10, <1>11, <1>12 DEF TypeOK
<1>14. FeeCheckpointsBehind
  BY <1>6 DEF FeeCheckpointsBehind, InitialPool, NewPosition, NoPosition
<1>15. RewardCheckpointsBehind
  BY <1>6, <1>12 DEF RewardCheckpointsBehind, NewPosition, NoPosition, NoReward
<1>16. RewardClockBehind
  BY <1>12 DEF RewardClockBehind, NoReward, Smaller
<1>17. DurationsSet
  BY <1>12 DEF DurationsSet, NoReward
<1> QED BY <1>3, <1>7, <1>13, <1>14, <1>15, <1>16, <1>17
        DEF IInv, NoUnderflow, PriceInRange

-----------------------------------------------------------------------------
\* One lemma per instruction.

\* handle_create_position: the new account's checkpoints are zero.
LEMMA CreatePositionKeeps ==
  ASSUME IInv, NEW p \in Positions, CreatePosition(p)
  PROVE  IInv'
<1>1. NewPosition(0) \in PositionRecord
  BY DEF NewPosition, NoPosition, PositionRecord
<1>2. /\ \A t \in Tokens : NewPosition(0).feeCheckpoint[t] = 0
      /\ \A r \in Rewards : NewPosition(0).rewardCheckpoint[r] = 0
  BY DEF NewPosition, NoPosition
<1>3. /\ pool' = pool /\ reward' = reward /\ now' = now
      /\ UNCHANGED <<vestings, vault, rewardVault, frozen>>
      /\ position' = [position EXCEPT ![p] = NewPosition(0)]
  BY DEF CreatePosition
<1>4. pool' \in PoolRecord /\ PriceInRange'
  BY <1>3 DEF IInv, TypeOK, PriceInRange
<1>5. /\ reward' \in [Rewards -> RewardRecord] /\ RewardsTimed'
      /\ now' \in Nat
      /\ \A r \in Rewards : reward[r].stored <= reward'[r].stored
  BY <1>3, RewardsKept
<1>6. \A t \in Tokens : pool.feePerLiquidity[t] <= pool'.feePerLiquidity[t]
  BY <1>3, FeesKept
<1>7. /\ \A t \in Tokens : 0 <= pool'.feePerLiquidity[t]
      /\ \A r \in Rewards : 0 <= reward'[r].stored
  BY <1>4, <1>5 DEF PoolRecord, RewardRecord
<1>8. /\ position' \in [Positions -> PositionRecord]
      /\ FeeCheckpointsBehind' /\ RewardCheckpointsBehind'
  <2> HIDE DEF NewPosition
  <2> QED BY <1>1, <1>2, <1>3, <1>4, <1>5, <1>6, <1>7, PositionReplaced
<1> QED BY <1>3, <1>4, <1>5, <1>8, IInvParts DEF IInv, TypeOK

\* handle_close_position
LEMMA ClosePositionKeeps ==
  ASSUME IInv, NEW p \in Positions, ClosePosition(p)
  PROVE  IInv'
<1>1. NoPosition \in PositionRecord
  BY DEF NoPosition, PositionRecord
<1>2. /\ \A t \in Tokens : NoPosition.feeCheckpoint[t] = 0
      /\ \A r \in Rewards : NoPosition.rewardCheckpoint[r] = 0
  BY DEF NoPosition
<1>3. /\ pool' = pool /\ reward' = reward /\ now' = now
      /\ UNCHANGED <<vestings, vault, rewardVault, frozen>>
      /\ position' = [position EXCEPT ![p] = NoPosition]
  BY DEF ClosePosition
<1>4. pool' \in PoolRecord /\ PriceInRange'
  BY <1>3 DEF IInv, TypeOK, PriceInRange
<1>5. /\ reward' \in [Rewards -> RewardRecord] /\ RewardsTimed'
      /\ now' \in Nat
      /\ \A r \in Rewards : reward[r].stored <= reward'[r].stored
  BY <1>3, RewardsKept
<1>6. \A t \in Tokens : pool.feePerLiquidity[t] <= pool'.feePerLiquidity[t]
  BY <1>3, FeesKept
<1>7. /\ \A t \in Tokens : 0 <= pool'.feePerLiquidity[t]
      /\ \A r \in Rewards : 0 <= reward'[r].stored
  BY <1>4, <1>5 DEF PoolRecord, RewardRecord
<1>8. /\ position' \in [Positions -> PositionRecord]
      /\ FeeCheckpointsBehind' /\ RewardCheckpointsBehind'
  BY <1>1, <1>2, <1>3, <1>4, <1>5, <1>6, <1>7, PositionReplaced
<1> QED BY <1>3, <1>4, <1>5, <1>8, IInvParts DEF IInv, TypeOK

\* What holds of a position once it is settled and its balances are then
\* changed, for the three instructions that do so.
SettledPosition(pos) ==
  /\ pos \in PositionRecord
  /\ pos.feeCheckpoint = pool.feePerLiquidity
  /\ \A r \in Rewards : pos.rewardCheckpoint[r] <= AccruedRewards[r].stored

\* Whatever else an instruction does to settled positions and to the pool's
\* liquidity, the checkpoints stay behind.
LEMMA SettledStep ==
  ASSUME IInv,
         pool' \in PoolRecord, pool'.feePerLiquidity = pool.feePerLiquidity,
         reward' = AccruedRewards, now' = now,
         position' \in [Positions -> PositionRecord],
         \A p \in Positions :
           position'[p] = position[p] \/ SettledPosition(position'[p])
  PROVE  /\ FeeCheckpointsBehind' /\ RewardCheckpointsBehind'
         /\ reward' \in [Rewards -> RewardRecord] /\ RewardsTimed'
         /\ now' \in Nat
<1>1. /\ reward' \in [Rewards -> RewardRecord] /\ RewardsTimed'
      /\ now' \in Nat
      /\ \A r \in Rewards : reward[r].stored <= reward'[r].stored
  BY RewardsAccrued
<1>2. \A t \in Tokens : pool.feePerLiquidity[t] <= pool'.feePerLiquidity[t]
  BY FeesKept
<1>3. ASSUME NEW p \in Positions, SettledPosition(position'[p])
      PROVE  /\ \A t \in Tokens : position'[p].feeCheckpoint[t]
                                    <= pool'.feePerLiquidity[t]
             /\ \A r \in Rewards : position'[p].rewardCheckpoint[r]
                                     <= reward'[r].stored
  <2>1. \A t \in Tokens : pool'.feePerLiquidity[t] \in Nat
    BY DEF PoolRecord
  <2> QED BY <1>3, <2>1 DEF SettledPosition
<1> QED BY <1>1, <1>2, <1>3, CheckpointsStayBehind

\* Amounts of a change of liquidity are natural: the price is in range.
LEMMA ModifyAmountNat ==
  ASSUME IInv, NEW t \in Tokens, NEW delta \in Nat, NEW round
  PROVE  ModifyAmount(t, delta, round) \in Nat
<1>1. /\ pool.sqrtPrice \in Nat \ {0} /\ SqrtMinPrice \in Nat \ {0}
      /\ SqrtMaxPrice \in Nat
      /\ SqrtMinPrice <= pool.sqrtPrice /\ pool.sqrtPrice <= SqrtMaxPrice
  BY PriceAssumption DEF IInv, PriceInRange
<1> QED BY <1>1, DeltaNat DEF ModifyAmount

\* handle_add_liquidity
LEMMA AddLiquidityKeeps ==
  ASSUME IInv, NEW p \in Positions, NEW delta \in Nat, AddLiquidity(p, delta)
  PROVE  IInv'
<1> DEFINE pos == [Settled(p) EXCEPT !.unlocked = @ + delta]
           amount == [t \in Tokens |-> ModifyAmount(t, delta, "Up")]
<1>1. /\ reward' = AccruedRewards /\ now' = now
      /\ UNCHANGED <<vestings, rewardVault, frozen>>
      /\ position' = [position EXCEPT ![p] = pos]
      /\ pool' = [pool EXCEPT !.liquidity = @ + delta]
      /\ vault' = [t \in Tokens |-> vault[t] + amount[t]]
  BY DEF AddLiquidity
<1>2. SettledPosition(pos)
  BY SettledSound DEF SettledPosition, PositionRecord
<1>3. /\ pool' \in PoolRecord
      /\ pool'.feePerLiquidity = pool.feePerLiquidity
      /\ pool'.sqrtPrice = pool.sqrtPrice
  BY <1>1 DEF IInv, TypeOK, PoolRecord
<1>4. PriceInRange'
  BY <1>3 DEF IInv, PriceInRange
<1>5. vault' \in [Tokens -> Nat]
  <2>1. \A t \in Tokens : amount[t] \in Nat
    BY ModifyAmountNat
  <2> HIDE DEF amount
  <2> QED BY <1>1, <2>1 DEF IInv, TypeOK
<1> HIDE DEF pos
<1>6. /\ position' \in [Positions -> PositionRecord]
      /\ \A q \in Positions :
           position'[q] = position[q] \/ SettledPosition(position'[q])
  BY <1>1, <1>2 DEF IInv, TypeOK, SettledPosition
<1>7. /\ FeeCheckpointsBehind' /\ RewardCheckpointsBehind'
      /\ reward' \in [Rewards -> RewardRecord] /\ RewardsTimed'
      /\ now' \in Nat
  BY <1>1, <1>3, <1>6, SettledStep
<1> QED BY <1>1, <1>3, <1>4, <1>5, <1>6, <1>7, IInvParts DEF IInv, TypeOK

\* handle_remove_liquidity
LEMMA RemoveLiquidityKeeps ==
  ASSUME IInv, NEW p \in Positions, NEW delta \in Nat,
         RemoveLiquidity(p, delta)
  PROVE  IInv'
<1> DEFINE pos == [Settled(p) EXCEPT !.unlocked = @ - delta]
           amount == [t \in Tokens |-> ModifyAmount(t, delta, "Down")]
<1>1. /\ reward' = AccruedRewards /\ now' = now
      /\ UNCHANGED <<vestings, rewardVault, frozen>>
      /\ position' = [position EXCEPT ![p] = pos]
      /\ pool' = [pool EXCEPT !.liquidity = @ - delta]
      /\ vault' = [t \in Tokens |-> vault[t] - amount[t]]
      /\ \A t \in Tokens : amount[t] <= vault[t]
      /\ delta <= position[p].unlocked
      /\ delta <= pool.liquidity
  BY DEF RemoveLiquidity
<1>2. SettledPosition(pos)
  <2>1. Settled(p).unlocked = position[p].unlocked
    BY SettledSound
  <2>2. Settled(p).unlocked - delta \in Nat
    BY <1>1, <2>1, SettledSound DEF PositionRecord
  <2> QED BY <2>2, SettledSound DEF SettledPosition, PositionRecord
<1>3. /\ pool' \in PoolRecord
      /\ pool'.feePerLiquidity = pool.feePerLiquidity
      /\ pool'.sqrtPrice = pool.sqrtPrice
  BY <1>1 DEF IInv, TypeOK, PoolRecord
<1>4. PriceInRange'
  BY <1>3 DEF IInv, PriceInRange
<1>5. vault' \in [Tokens -> Nat]
  <2>1. \A t \in Tokens : amount[t] \in Nat
    BY ModifyAmountNat
  <2> HIDE DEF amount
  <2> QED BY <1>1, <2>1 DEF IInv, TypeOK
<1> HIDE DEF pos
<1>6. /\ position' \in [Positions -> PositionRecord]
      /\ \A q \in Positions :
           position'[q] = position[q] \/ SettledPosition(position'[q])
  BY <1>1, <1>2 DEF IInv, TypeOK, SettledPosition
<1>7. /\ FeeCheckpointsBehind' /\ RewardCheckpointsBehind'
      /\ reward' \in [Rewards -> RewardRecord] /\ RewardsTimed'
      /\ now' \in Nat
  BY <1>1, <1>3, <1>6, SettledStep
<1> QED BY <1>1, <1>3, <1>4, <1>5, <1>6, <1>7, IInvParts DEF IInv, TypeOK

\* A numerator that validate() let through takes no more than there is.
LEMMA PartBounds ==
  ASSUME NEW n \in Nat, NEW num \in 0..SplitDenominator
  PROVE  Part(n, num) \in 0..n
<1>1. SplitDenominator \in Nat \ {0} /\ num \in Nat /\ num <= SplitDenominator
  BY PoolAssumption
<1>2. n * num \in Nat /\ n * num <= n * SplitDenominator
  BY <1>1
<1> HIDE DEF PoolAssumption
<1>3. (n * num) \div SplitDenominator \in Nat
  BY <1>1, <1>2, DivNat
<1>4. (n * num) \div SplitDenominator <= n
  BY <1>1, <1>2, DivLe
<1> QED BY <1>3, <1>4 DEF Part

\* handle_split_position2: what is moved is never more than what is there.
LEMMA SplitPositionKeeps ==
  ASSUME IInv, NEW p \in Positions, NEW q \in Positions,
         NEW share \in SplitShares, SplitPosition(p, q, share)
  PROVE  IInv'
<1> DEFINE first  == Settled(p)
           second == Settled(q)
           moved  == Moved(first, share)
           unlocked  == moved.unlocked
           permanent == moved.permanent
           fee  == moved.fee
           gone == moved.reward
           giver == [first EXCEPT
                       !.unlocked  = @ - unlocked,
                       !.permanent = @ - permanent,
                       !.feePending = [t \in Tokens |-> @[t] - fee[t]],
                       !.rewardPending = [r \in Rewards |-> @[r] - gone[r]]]
           taker == [second EXCEPT
                       !.unlocked  = @ + unlocked,
                       !.permanent = @ + permanent,
                       !.feePending = [t \in Tokens |-> @[t] + fee[t]],
                       !.rewardPending = [r \in Rewards |-> @[r] + gone[r]]]
<1>1. /\ reward' = AccruedRewards /\ now' = now
      /\ UNCHANGED <<pool, vestings, vault, rewardVault, frozen>>
      /\ position' = [position EXCEPT ![p] = giver, ![q] = taker]
      /\ ValidShare(share)
  BY DEF SplitPosition
<1>2. first \in PositionRecord /\ second \in PositionRecord
  BY SettledSound
<1>3. /\ share.unlocked \in 0..SplitDenominator
      /\ share.permanent \in 0..SplitDenominator
      /\ \A t \in Tokens : share.fee[t] \in 0..SplitDenominator
      /\ \A r \in Rewards : share.reward[r] \in 0..SplitDenominator
  BY <1>1 DEF ValidShare, Numerators
<1>4. /\ first.unlocked \in Nat /\ unlocked \in 0..first.unlocked
      /\ first.permanent \in Nat /\ permanent \in 0..first.permanent
  <2> HIDE DEF first
  <2> QED BY <1>2, <1>3, PartBounds DEF PositionRecord, Moved
<1>5. \A t \in Tokens : first.feePending[t] \in Nat
                        /\ fee[t] \in 0..first.feePending[t]
  <2> HIDE DEF first
  <2> QED BY <1>2, <1>3, PartBounds DEF PositionRecord, Moved
<1>6. \A r \in Rewards : first.rewardPending[r] \in Nat
                         /\ gone[r] \in 0..first.rewardPending[r]
  <2> HIDE DEF first
  <2>1. ASSUME NEW r \in Rewards
        PROVE  /\ first.rewardPending[r] \in Nat
               /\ Part(first.rewardPending[r], share.reward[r])
                    \in 0..first.rewardPending[r]
    BY <1>2, <1>3, PartBounds DEF PositionRecord
  <2> QED BY <2>1 DEF Moved
<1> HIDE DEF moved, unlocked, permanent, fee, gone
<1>7. SettledPosition(giver)
  <2>1. giver \in PositionRecord
    <3> DEFINE u == first.unlocked - unlocked
               k == first.permanent - permanent
               f == [t \in Tokens |-> first.feePending[t] - fee[t]]
               g == [r \in Rewards |-> first.rewardPending[r] - gone[r]]
    <3> HIDE DEF first, second
    <3>1. u \in Nat
      BY <1>2, <1>4 DEF PositionRecord
    <3>2. k \in Nat
      BY <1>2, <1>4 DEF PositionRecord
    <3>3. f \in [Tokens -> Nat]
      BY <1>2, <1>5 DEF PositionRecord
    <3>4. g \in [Rewards -> Nat]
      BY <1>2, <1>6 DEF PositionRecord
    <3>5. giver = [first EXCEPT !.unlocked = u, !.permanent = k,
                                 !.feePending = f, !.rewardPending = g]
      BY <1>2 DEF PositionRecord
    <3> HIDE DEF u, k, f, g, giver, taker
    <3> QED BY <1>2, <3>1, <3>2, <3>3, <3>4, <3>5 DEF PositionRecord
  <2>2. /\ giver.feeCheckpoint = first.feeCheckpoint
        /\ giver.rewardCheckpoint = first.rewardCheckpoint
    <3> HIDE DEF first
    <3> QED BY <1>2 DEF PositionRecord
  <2> HIDE DEF giver
  <2> QED BY <2>1, <2>2, SettledSound DEF SettledPosition
<1>8. SettledPosition(taker)
  <2>1. taker \in PositionRecord
    <3> DEFINE u == second.unlocked + unlocked
               k == second.permanent + permanent
               f == [t \in Tokens |-> second.feePending[t] + fee[t]]
               g == [r \in Rewards |-> second.rewardPending[r] + gone[r]]
    <3> HIDE DEF first, second
    <3>1. u \in Nat
      BY <1>2, <1>4 DEF PositionRecord
    <3>2. k \in Nat
      BY <1>2, <1>4 DEF PositionRecord
    <3>3. f \in [Tokens -> Nat]
      BY <1>2, <1>5 DEF PositionRecord
    <3>4. g \in [Rewards -> Nat]
      BY <1>2, <1>6 DEF PositionRecord
    <3>5. taker = [second EXCEPT !.unlocked = u, !.permanent = k,
                                 !.feePending = f, !.rewardPending = g]
      BY <1>2 DEF PositionRecord
    <3> HIDE DEF u, k, f, g, giver, taker
    <3> QED BY <1>2, <3>1, <3>2, <3>3, <3>4, <3>5 DEF PositionRecord
  <2>2. /\ taker.feeCheckpoint = second.feeCheckpoint
        /\ taker.rewardCheckpoint = second.rewardCheckpoint
    <3> HIDE DEF second
    <3> QED BY <1>2 DEF PositionRecord
  <2> HIDE DEF taker
  <2> QED BY <2>1, <2>2, SettledSound DEF SettledPosition
<1> HIDE DEF giver, taker
<1>9. /\ position' \in [Positions -> PositionRecord]
      /\ \A x \in Positions :
           position'[x] = position[x] \/ SettledPosition(position'[x])
  BY <1>1, <1>7, <1>8 DEF IInv, TypeOK, SettledPosition
<1>10. /\ FeeCheckpointsBehind' /\ RewardCheckpointsBehind'
       /\ reward' \in [Rewards -> RewardRecord] /\ RewardsTimed'
       /\ now' \in Nat
  BY <1>1, <1>9, SettledStep DEF IInv, TypeOK
<1> QED BY <1>1, <1>9, <1>10, IInvParts DEF IInv, TypeOK, PriceInRange

\* An instruction that moves liquidity inside a position, without settling.
LEMMA BalancesMoved ==
  ASSUME IInv, pool' \in PoolRecord,
         pool'.feePerLiquidity = pool.feePerLiquidity,
         UNCHANGED <<reward, now>>,
         NEW p \in Positions, NEW pos \in PositionRecord,
         pos.feeCheckpoint = position[p].feeCheckpoint,
         pos.rewardCheckpoint = position[p].rewardCheckpoint,
         position' = [position EXCEPT ![p] = pos]
  PROVE  /\ position' \in [Positions -> PositionRecord]
         /\ FeeCheckpointsBehind' /\ RewardCheckpointsBehind'
         /\ reward' \in [Rewards -> RewardRecord] /\ RewardsTimed'
         /\ now' \in Nat
<1>1. /\ reward' \in [Rewards -> RewardRecord] /\ RewardsTimed'
      /\ now' \in Nat
      /\ \A r \in Rewards : reward[r].stored <= reward'[r].stored
  BY RewardsKept
<1>2. \A t \in Tokens : pool.feePerLiquidity[t] <= pool'.feePerLiquidity[t]
  BY FeesKept
<1>3. /\ \A t \in Tokens : pos.feeCheckpoint[t] <= pool'.feePerLiquidity[t]
      /\ \A r \in Rewards : pos.rewardCheckpoint[r] <= reward'[r].stored
  BY DEF IInv, NoUnderflow, FeeCheckpointsBehind, RewardCheckpointsBehind
<1> QED BY <1>1, <1>2, <1>3, PositionReplaced

\* handle_lock_position
LEMMA LockPositionKeeps ==
  ASSUME IInv, NEW p \in Positions, NEW id \in VestingIds,
         NEW schedule \in Schedules, LockPosition(p, id, schedule)
  PROVE  IInv'
<1> DEFINE v == [id |-> id, position |-> p, cliff |-> schedule.cliff,
                 frequency |-> schedule.frequency,
                 cliffUnlock |-> schedule.cliffUnlock,
                 perPeriod |-> schedule.perPeriod, periods |-> schedule.periods,
                 released |-> 0]
           unlocked == position[p].unlocked - TotalLock(v)
           vested   == position[p].vested + TotalLock(v)
           pos == [position[p] EXCEPT !.unlocked = unlocked, !.vested = vested]
<1>1. v \in VestingRecord
  BY InputAssumption DEF VestingRecord
<1>2. /\ UNCHANGED <<pool, reward, vault, rewardVault, frozen, now>>
      /\ vestings' = vestings \cup {v}
      /\ TotalLock(v) <= position[p].unlocked
      /\ position' = [position EXCEPT ![p].unlocked = @ - TotalLock(v),
                                      ![p].vested   = @ + TotalLock(v)]
  BY DEF LockPosition
<1>3. TotalLock(v) \in Nat
  <2>1. /\ v.cliffUnlock \in Nat /\ v.perPeriod \in Nat /\ v.periods \in Nat
    BY <1>1 DEF VestingRecord
  <2> HIDE DEF v
  <2>2. v.perPeriod * v.periods \in Nat
    BY <2>1, MulNat
  <2> QED BY <2>1, <2>2 DEF TotalLock
<1> HIDE DEF v
<1>4. position[p] \in PositionRecord
  BY DEF IInv, TypeOK
<1>5. unlocked \in Nat /\ vested \in Nat
  BY <1>2, <1>3, <1>4 DEF PositionRecord
<1>6. position' = [position EXCEPT ![p] = pos]
  BY <1>2, <1>4 DEF IInv, TypeOK, PositionRecord
<1> HIDE DEF unlocked, vested
<1>9. /\ pos \in PositionRecord
      /\ pos.feeCheckpoint = position[p].feeCheckpoint
      /\ pos.rewardCheckpoint = position[p].rewardCheckpoint
  BY <1>4, <1>5 DEF PositionRecord
<1> HIDE DEF pos
<1>7. pool' \in PoolRecord /\ pool'.feePerLiquidity = pool.feePerLiquidity
  BY <1>2 DEF IInv, TypeOK
<1>8. /\ position' \in [Positions -> PositionRecord]
      /\ FeeCheckpointsBehind' /\ RewardCheckpointsBehind'
      /\ reward' \in [Rewards -> RewardRecord] /\ RewardsTimed'
      /\ now' \in Nat
  BY <1>2, <1>6, <1>7, <1>9, BalancesMoved
<1> QED BY <1>1, <1>2, <1>7, <1>8, IInvParts DEF IInv, TypeOK, PriceInRange

\* What a schedule has unlocked is natural.
LEMMA MaxUnlockedNat ==
  ASSUME IInv, NEW v \in VestingRecord
  PROVE  MaxUnlocked(v, now) \in Nat
<1>1. /\ v.cliff \in Nat /\ v.frequency \in Nat /\ v.cliffUnlock \in Nat
      /\ v.perPeriod \in Nat /\ v.periods \in Nat /\ now \in Nat
  BY DEF VestingRecord, IInv, TypeOK
<1>2. CASE now < v.cliff \/ v.frequency = 0
  BY <1>1, <1>2 DEF MaxUnlocked
<1>3. CASE ~(now < v.cliff \/ v.frequency = 0)
  <2> DEFINE passed == (now - v.cliff) \div v.frequency
             due == Smaller(passed, v.periods)
  <2>1. now - v.cliff \in Nat /\ v.frequency \in Nat \ {0}
    BY <1>1, <1>3
  <2>2. passed \in Nat
    BY <2>1, DivNat
  <2>3. due \in Nat
    <3> HIDE DEF passed
    <3> QED BY <1>1, <2>2 DEF Smaller
  <2>4. MaxUnlocked(v, now) = v.cliffUnlock + due * v.perPeriod
    BY <1>3 DEF MaxUnlocked
  <2> HIDE DEF due
  <2>5. due * v.perPeriod \in Nat
    BY <1>1, <2>3, MulNat
  <2> QED BY <1>1, <2>4, <2>5
<1> QED BY <1>2, <1>3

\* handle_refresh_vesting: a release is never negative, or more than vested.
LEMMA RefreshVestingKeeps ==
  ASSUME IInv, NEW v \in vestings, RefreshVesting(v)
  PROVE  IInv'
<1> DEFINE n == NewRelease(v)
           p == v.position
           w == [v EXCEPT !.released = @ + n]
           unlocked == position[p].unlocked + n
           vested   == position[p].vested - n
           pos == [position[p] EXCEPT !.unlocked = unlocked, !.vested = vested]
<1>1. v \in VestingRecord /\ p \in Positions /\ v.released \in Nat
  BY DEF IInv, TypeOK, VestingRecord
<1>2. MaxUnlocked(v, now) \in Nat
  BY <1>1, MaxUnlockedNat
<1>3. /\ UNCHANGED <<pool, reward, vault, rewardVault, frozen, now>>
      /\ n > 0 /\ n <= position[p].vested
      /\ vestings' = (vestings \ {v})
                       \cup (IF w.released = TotalLock(w) THEN {} ELSE {w})
      /\ position' = [position EXCEPT ![p].unlocked = @ + n, ![p].vested = @ - n]
  BY DEF RefreshVesting
<1>4. n \in Nat
  BY <1>1, <1>2, <1>3 DEF NewRelease
<1> HIDE DEF n
<1>5. w \in VestingRecord
  BY <1>1, <1>4 DEF VestingRecord
<1>6. vestings' \subseteq VestingRecord
  <2> HIDE DEF w
  <2> QED BY <1>3, <1>5 DEF IInv, TypeOK
<1>7. position[p] \in PositionRecord
  BY <1>1 DEF IInv, TypeOK
<1>8. unlocked \in Nat /\ vested \in Nat
  BY <1>3, <1>4, <1>7 DEF PositionRecord
<1>9. position' = [position EXCEPT ![p] = pos]
  BY <1>1, <1>3, <1>7 DEF IInv, TypeOK, PositionRecord
<1> HIDE DEF unlocked, vested
<1>12. /\ pos \in PositionRecord
       /\ pos.feeCheckpoint = position[p].feeCheckpoint
       /\ pos.rewardCheckpoint = position[p].rewardCheckpoint
  BY <1>7, <1>8 DEF PositionRecord
<1> HIDE DEF pos, p, w
<1>10. pool' \in PoolRecord /\ pool'.feePerLiquidity = pool.feePerLiquidity
  BY <1>3 DEF IInv, TypeOK
<1>11. /\ position' \in [Positions -> PositionRecord]
       /\ FeeCheckpointsBehind' /\ RewardCheckpointsBehind'
       /\ reward' \in [Rewards -> RewardRecord] /\ RewardsTimed'
       /\ now' \in Nat
  BY <1>1, <1>3, <1>9, <1>10, <1>12, BalancesMoved
<1> QED BY <1>3, <1>6, <1>10, <1>11, IInvParts DEF IInv, TypeOK, PriceInRange

\* handle_permanent_lock_position
LEMMA PermanentLockKeeps ==
  ASSUME IInv, NEW p \in Positions, NEW amount \in Nat,
         PermanentLock(p, amount)
  PROVE  IInv'
<1> DEFINE unlocked  == position[p].unlocked - amount
           permanent == position[p].permanent + amount
           pos == [position[p] EXCEPT !.unlocked = unlocked,
                                      !.permanent = permanent]
<1>1. /\ UNCHANGED <<vestings, reward, vault, rewardVault, frozen, now>>
      /\ amount <= position[p].unlocked
      /\ position' = [position EXCEPT ![p].unlocked  = @ - amount,
                                      ![p].permanent = @ + amount]
      /\ pool' = [pool EXCEPT !.permanentLock = @ + amount]
  BY DEF PermanentLock
<1>2. position[p] \in PositionRecord
  BY DEF IInv, TypeOK
<1>3. unlocked \in Nat /\ permanent \in Nat
  BY <1>1, <1>2 DEF PositionRecord
<1>4. position' = [position EXCEPT ![p] = pos]
  BY <1>1, <1>2 DEF IInv, TypeOK, PositionRecord
<1> HIDE DEF unlocked, permanent
<1>7. /\ pos \in PositionRecord
      /\ pos.feeCheckpoint = position[p].feeCheckpoint
      /\ pos.rewardCheckpoint = position[p].rewardCheckpoint
  BY <1>2, <1>3 DEF PositionRecord
<1> HIDE DEF pos
<1>5. /\ pool' \in PoolRecord
      /\ pool'.feePerLiquidity = pool.feePerLiquidity
      /\ pool'.sqrtPrice = pool.sqrtPrice
  BY <1>1 DEF IInv, TypeOK, PoolRecord
<1>6. /\ position' \in [Positions -> PositionRecord]
      /\ FeeCheckpointsBehind' /\ RewardCheckpointsBehind'
      /\ reward' \in [Rewards -> RewardRecord] /\ RewardsTimed'
      /\ now' \in Nat
  BY <1>1, <1>4, <1>5, <1>7, BalancesMoved
<1> QED BY <1>1, <1>5, <1>6, IInvParts DEF IInv, TypeOK, PriceInRange

-----------------------------------------------------------------------------
\* Every quote of a swap, in the three modes: natural amounts, and a next
\* price inside the range.
LEMMA QuoteSound ==
  ASSUME IInv, pool.liquidity > 0,
         NEW mode \in SwapModes, NEW dir \in Directions, NEW amount \in Nat,
         NEW f \in TradeFeeRecord,
         NEW quote \in Quotes(mode, dir, amount, f)
  PROVE  /\ quote.received \in Nat
         /\ quote.out \in Nat
         /\ quote.fee \in Nat
         /\ quote.next \in SqrtMinPrice..SqrtMaxPrice
<1> DEFINE inT   == InToken(dir)
           outT  == OutToken(dir)
           net   == ExcludedAmount(inT, amount)
           gross == IncludedAmount(outT, amount)
           Paid(r) == IF mode = "ExactIn" THEN amount
                      ELSE IncludedAmount(inT, r.in)
           exactIn  == ExactIn(pool.sqrtPrice, pool.liquidity, net, dir, f)
           partial  == PartialIn(pool.sqrtPrice, pool.liquidity, net, dir, f)
           exactOut == ExactOut(pool.sqrtPrice, pool.liquidity, gross, dir, f)
<1>1. inT \in Tokens /\ outT \in Tokens
  BY PoolAssumption DEF InToken, OutToken, Directions
<1>2. net \in Nat /\ gross \in Nat
  BY <1>1, TransferFeeBounds, IncludedAmountNat
<1>3. /\ pool.sqrtPrice \in SqrtMinPrice..SqrtMaxPrice
      /\ pool.liquidity \in Nat \ {0}
  BY DEF IInv, TypeOK, PriceInRange, PoolRecord
<1>4. PICK r \in exactIn \cup partial \cup exactOut :
        quote = Quote(dir, Paid(r), r)
  <2>1. CASE mode = "ExactIn"
    BY <2>1 DEF Quotes, ProcessExactIn
  <2>2. CASE mode = "PartialFill"
    BY <2>2 DEF Quotes, ProcessPartialFill
  <2>3. CASE mode = "ExactOut"
    BY <2>3 DEF Quotes, ProcessExactOut
  <2> QED BY <2>1, <2>2, <2>3 DEF SwapModes
<1>5. SoundResult(r)
  <2> HIDE DEF net, gross
  <2>1. CASE r \in exactIn
    BY <1>2, <1>3, <2>1, ExactInSound
  <2>2. CASE r \in partial
    BY <1>2, <1>3, <2>2, PartialInSound
  <2>3. CASE r \in exactOut
    BY <1>2, <1>3, <2>3, ExactOutSound
  <2> QED BY <1>4, <2>1, <2>2, <2>3
<1>6. Paid(r) \in Nat
  BY <1>1, <1>5, IncludedAmountNat DEF SoundResult
<1>7. ExcludedAmount(inT, Paid(r)) \in Nat
  <2> HIDE DEF Paid
  <2> QED BY <1>1, <1>6, TransferFeeBounds
<1> HIDE DEF Paid
<1> QED BY <1>4, <1>5, <1>7 DEF SoundResult, Quote

\* p_handle_swap: the accumulators only grow, and the price moves to that of
\* the quote.
LEMMA SwapKeeps ==
  ASSUME IInv,
         NEW mode \in SwapModes, NEW dir \in Directions, NEW amount \in Nat,
         NEW f \in TradeFeeRecord, NEW hasReferral \in BOOLEAN,
         NEW whitelisted, Swap(mode, dir, amount, f, hasReferral, whitelisted)
  PROVE  IInv'
<1>1. /\ pool.liquidity > 0
      /\ UNCHANGED <<position, vestings, reward, rewardVault, frozen, now>>
  BY DEF Swap
<1>2. PICK quote \in Quotes(mode, dir, amount, f) :
        LET token == FeeToken(dir)
            split == SplitFees(quote.fee, hasReferral)
        IN  /\ \A t \in Tokens : SettleVaults(dir, token, quote, split)[t] >= 0
            /\ pool'  = ApplySwap(quote.next, token, split)
            /\ vault' = SettleVaults(dir, token, quote, split)
  BY DEF Swap
<1> DEFINE token == FeeToken(dir)
           split == SplitFees(quote.fee, hasReferral)
           growth == FeeGrowth(split.trading)
<1>3. /\ quote.received \in Nat /\ quote.out \in Nat /\ quote.fee \in Nat
      /\ quote.next \in SqrtMinPrice..SqrtMaxPrice
  BY <1>1, QuoteSound
<1>4. /\ split.trading \in Nat /\ split.protocol \in Nat
      /\ split.partner \in Nat /\ split.referral \in Nat
  BY <1>3, SplitFeesWhole
<1>5. token \in Tokens
  BY PoolAssumption DEF FeeToken
<1> HIDE DEF split, token
<1>6. growth \in Nat
  <2>1. pool.liquidity \in Nat \ {0}
    BY <1>1 DEF IInv, TypeOK, PoolRecord
  <2>2. split.trading * LiquidityScale \in Nat
    BY <1>4, MulNat, PoolAssumption
  <2> QED BY <2>1, <2>2, DivNat DEF FeeGrowth
<1>7. pool' = [pool EXCEPT !.sqrtPrice = quote.next,
                           !.feePerLiquidity[token] = @ + growth,
                           !.protocolFee[token] = @ + split.protocol,
                           !.partnerFee[token]  = @ + split.partner]
  BY <1>2 DEF ApplySwap, split, token
<1> DEFINE fees == [pool.feePerLiquidity EXCEPT ![token] = @ + growth]
           protocol == [pool.protocolFee EXCEPT ![token] = @ + split.protocol]
           partner  == [pool.partnerFee EXCEPT ![token] = @ + split.partner]
<1> HIDE DEF growth
<1>8. pool \in PoolRecord
  BY DEF IInv, TypeOK
<1>9. /\ fees \in [Tokens -> Nat]
      /\ \A t \in Tokens : pool.feePerLiquidity[t] <= fees[t]
  BY <1>5, <1>6, <1>8 DEF PoolRecord
<1>10. protocol \in [Tokens -> Nat]
  BY <1>4, <1>5, <1>8 DEF PoolRecord
<1>11. partner \in [Tokens -> Nat]
  BY <1>4, <1>5, <1>8 DEF PoolRecord
<1>12. quote.next \in Nat
  BY <1>3, PriceAssumption
<1>13. pool' = [pool EXCEPT !.sqrtPrice = quote.next,
                            !.feePerLiquidity = fees,
                            !.protocolFee = protocol,
                            !.partnerFee = partner]
  BY <1>7, <1>8 DEF PoolRecord
<1> HIDE DEF fees, protocol, partner
<1>14. /\ pool' \in PoolRecord
       /\ pool'.sqrtPrice = quote.next
       /\ pool'.feePerLiquidity = fees
  BY <1>8, <1>9, <1>10, <1>11, <1>12, <1>13 DEF PoolRecord
<1>15. PriceInRange'
  BY <1>3, <1>14 DEF PriceInRange
<1>16. vault' \in [Tokens -> Nat]
  <2> DEFINE sent(t) == IF t = InToken(dir) THEN quote.received ELSE 0
             got(t)  == IF t = OutToken(dir) THEN quote.out ELSE 0
             ref(t)  == IF t = token THEN split.referral ELSE 0
  <2>1. vault' = [t \in Tokens |-> vault[t] + sent(t) - got(t) - ref(t)]
    BY <1>2 DEF SettleVaults, split, token
  <2>2. \A t \in Tokens : vault[t] + sent(t) - got(t) - ref(t) >= 0
    BY <1>2 DEF SettleVaults, split, token
  <2>3. \A t \in Tokens : /\ vault[t] \in Nat /\ sent(t) \in Nat
                          /\ got(t) \in Nat /\ ref(t) \in Nat
    BY <1>3, <1>4 DEF IInv, TypeOK
  <2> HIDE DEF sent, got, ref
  <2> QED BY <2>1, <2>2, <2>3
<1>17. /\ reward' \in [Rewards -> RewardRecord] /\ RewardsTimed'
       /\ now' \in Nat
       /\ \A r \in Rewards : reward[r].stored <= reward'[r].stored
  BY <1>1, RewardsKept
<1>18. \A t \in Tokens : pool.feePerLiquidity[t] <= pool'.feePerLiquidity[t]
  BY <1>9, <1>14
<1>19. /\ position' \in [Positions -> PositionRecord]
       /\ FeeCheckpointsBehind' /\ RewardCheckpointsBehind'
  BY <1>1, <1>14, <1>17, <1>18, PositionsKept
<1> QED BY <1>1, <1>14, <1>15, <1>16, <1>17, <1>19, IInvParts DEF IInv, TypeOK

\* handle_claim_position_fee
LEMMA ClaimPositionFeeKeeps ==
  ASSUME IInv, NEW p \in Positions, ClaimPositionFee(p)
  PROVE  IInv'
<1> DEFINE settled == SettleFees(position[p])
           zero == [t \in Tokens |-> 0]
           pos == [settled EXCEPT !.feePending = zero]
<1>1. /\ UNCHANGED <<pool, vestings, reward, rewardVault, frozen, now>>
      /\ \A t \in Tokens : settled.feePending[t] <= vault[t]
      /\ position' = [position EXCEPT ![p] = pos]
      /\ vault' = [t \in Tokens |-> vault[t] - settled.feePending[t]]
  BY DEF ClaimPositionFee
<1>2. position[p] \in PositionRecord /\ pool \in PoolRecord
  BY DEF IInv, TypeOK
<1>3. \A t \in Tokens :
        position[p].feeCheckpoint[t] <= pool.feePerLiquidity[t]
  BY DEF IInv, NoUnderflow, FeeCheckpointsBehind
<1>4. /\ settled \in PositionRecord
      /\ settled.feeCheckpoint = pool.feePerLiquidity
      /\ settled.rewardCheckpoint = position[p].rewardCheckpoint
  BY <1>2, <1>3, SettleFeesSound
<1> HIDE DEF settled
<1>5. zero \in [Tokens -> Nat]
  OBVIOUS
<1> HIDE DEF zero
<1>6. /\ pos \in PositionRecord
      /\ pos.feeCheckpoint = pool.feePerLiquidity
      /\ pos.rewardCheckpoint = position[p].rewardCheckpoint
  BY <1>4, <1>5 DEF PositionRecord
<1> HIDE DEF pos
<1>7. vault' \in [Tokens -> Nat]
  <2>1. \A t \in Tokens : settled.feePending[t] \in Nat /\ vault[t] \in Nat
    BY <1>4 DEF PositionRecord, IInv, TypeOK
  <2> QED BY <1>1, <2>1
<1>8. /\ reward' \in [Rewards -> RewardRecord] /\ RewardsTimed'
      /\ now' \in Nat
      /\ \A r \in Rewards : reward[r].stored <= reward'[r].stored
  BY <1>1, RewardsKept
<1>9. pool' \in PoolRecord /\ PriceInRange'
  BY <1>1 DEF IInv, TypeOK, PriceInRange
<1>10. \A t \in Tokens : pool.feePerLiquidity[t] <= pool'.feePerLiquidity[t]
  BY <1>1, FeesKept
<1>11. /\ \A t \in Tokens : pos.feeCheckpoint[t] <= pool'.feePerLiquidity[t]
       /\ \A r \in Rewards : pos.rewardCheckpoint[r] <= reward'[r].stored
  BY <1>1, <1>6, <1>10
     DEF IInv, NoUnderflow, RewardCheckpointsBehind
<1>12. /\ position' \in [Positions -> PositionRecord]
       /\ FeeCheckpointsBehind' /\ RewardCheckpointsBehind'
  BY <1>1, <1>6, <1>8, <1>9, <1>10, <1>11, PositionReplaced
<1> QED BY <1>1, <1>7, <1>8, <1>9, <1>12, IInvParts DEF IInv, TypeOK

\* What a capped claim takes is there to be taken.
LEMMA ClaimedBounds ==
  ASSUME NEW owed \in [Tokens -> Nat], NEW max \in [Tokens -> Nat],
         NEW t \in Tokens
  PROVE  Claimed(owed, max)[t] \in 0..owed[t]
BY DEF Claimed, Smaller

\* A claim takes fees out of the pool's books and out of the vaults, whichever
\* of the two books it is.
LEMMA PoolFeeTaken ==
  ASSUME IInv, NEW owed \in [Tokens -> Nat], NEW max \in [Tokens -> Nat],
         \A t \in Tokens : Claimed(owed, max)[t] <= vault[t],
         vault' = [t \in Tokens |-> vault[t] - Claimed(owed, max)[t]],
         UNCHANGED <<position, vestings, reward, rewardVault, frozen, now>>,
         pool' \in PoolRecord, pool'.sqrtPrice = pool.sqrtPrice,
         pool'.feePerLiquidity = pool.feePerLiquidity
  PROVE  IInv'
<1>1. vault' \in [Tokens -> Nat]
  <2>1. \A t \in Tokens : Claimed(owed, max)[t] \in Nat /\ vault[t] \in Nat
    BY ClaimedBounds DEF IInv, TypeOK
  <2> QED BY <2>1
<1>2. /\ reward' \in [Rewards -> RewardRecord] /\ RewardsTimed'
      /\ now' \in Nat
      /\ \A r \in Rewards : reward[r].stored <= reward'[r].stored
  BY RewardsKept
<1>3. \A t \in Tokens : pool.feePerLiquidity[t] <= pool'.feePerLiquidity[t]
  BY FeesKept
<1>4. /\ position' \in [Positions -> PositionRecord]
      /\ FeeCheckpointsBehind' /\ RewardCheckpointsBehind'
  BY <1>2, <1>3, PositionsKept
<1> QED BY <1>1, <1>2, <1>4, IInvParts DEF IInv, TypeOK, PriceInRange

\* handle_claim_protocol_fee
LEMMA ClaimProtocolFeeKeeps ==
  ASSUME IInv, NEW max \in [Tokens -> Nat], ClaimProtocolFee(max)
  PROVE  IInv'
<1> DEFINE taken == Claimed(pool.protocolFee, max)
           rest == [t \in Tokens |-> pool.protocolFee[t] - taken[t]]
<1>1. pool \in PoolRecord /\ pool.protocolFee \in [Tokens -> Nat]
  BY DEF IInv, TypeOK, PoolRecord
<1>2. rest \in [Tokens -> Nat]
  <2>1. \A t \in Tokens : /\ taken[t] \in 0..pool.protocolFee[t]
                          /\ pool.protocolFee[t] \in Nat
    BY <1>1, ClaimedBounds
  <2> HIDE DEF taken
  <2> QED BY <2>1
<1>3. pool' = [pool EXCEPT !.protocolFee = rest]
  BY <1>1 DEF ClaimProtocolFee, PoolRecord
<1> HIDE DEF rest
<1>4. /\ pool' \in PoolRecord /\ pool'.sqrtPrice = pool.sqrtPrice
      /\ pool'.feePerLiquidity = pool.feePerLiquidity
  BY <1>1, <1>2, <1>3 DEF PoolRecord
<1>5. /\ \A t \in Tokens : taken[t] <= vault[t]
      /\ vault' = [t \in Tokens |-> vault[t] - taken[t]]
      /\ UNCHANGED <<position, vestings, reward, rewardVault, frozen, now>>
  BY DEF ClaimProtocolFee
<1> QED BY <1>1, <1>4, <1>5, PoolFeeTaken

\* handle_claim_partner_fee
LEMMA ClaimPartnerFeeKeeps ==
  ASSUME IInv, NEW max \in [Tokens -> Nat], ClaimPartnerFee(max)
  PROVE  IInv'
<1> DEFINE taken == Claimed(pool.partnerFee, max)
           rest == [t \in Tokens |-> pool.partnerFee[t] - taken[t]]
<1>1. pool \in PoolRecord /\ pool.partnerFee \in [Tokens -> Nat]
  BY DEF IInv, TypeOK, PoolRecord
<1>2. rest \in [Tokens -> Nat]
  <2>1. \A t \in Tokens : /\ taken[t] \in 0..pool.partnerFee[t]
                          /\ pool.partnerFee[t] \in Nat
    BY <1>1, ClaimedBounds
  <2> HIDE DEF taken
  <2> QED BY <2>1
<1>3. pool' = [pool EXCEPT !.partnerFee = rest]
  BY <1>1 DEF ClaimPartnerFee, PoolRecord
<1> HIDE DEF rest
<1>4. /\ pool' \in PoolRecord /\ pool'.sqrtPrice = pool.sqrtPrice
      /\ pool'.feePerLiquidity = pool.feePerLiquidity
  BY <1>1, <1>2, <1>3 DEF PoolRecord
<1>5. /\ \A t \in Tokens : taken[t] <= vault[t]
      /\ vault' = [t \in Tokens |-> vault[t] - taken[t]]
      /\ UNCHANGED <<position, vestings, reward, rewardVault, frozen, now>>
  BY DEF ClaimPartnerFee
<1> QED BY <1>1, <1>4, <1>5, PoolFeeTaken

-----------------------------------------------------------------------------
\* An instruction that touches the rewards only.
LEMMA RewardStepKeeps ==
  ASSUME IInv, UNCHANGED <<pool, position, vestings, vault>>,
         now' \in Nat,
         frozen' \in [Rewards -> BOOLEAN],
         reward' \in [Rewards -> RewardRecord],
         rewardVault' \in [Rewards -> Nat],
         \A r \in Rewards : reward[r].stored <= reward'[r].stored,
         RewardsTimed'
  PROVE  IInv'
<1>1. pool' \in PoolRecord /\ PriceInRange'
  BY DEF IInv, TypeOK, PriceInRange
<1>2. \A t \in Tokens : pool.feePerLiquidity[t] <= pool'.feePerLiquidity[t]
  BY FeesKept
<1>3. /\ position' \in [Positions -> PositionRecord]
      /\ FeeCheckpointsBehind' /\ RewardCheckpointsBehind'
  BY <1>1, <1>2, PositionsKept
<1> QED BY <1>1, <1>3, IInvParts DEF IInv, TypeOK

\* One reward is replaced by one whose accumulator is not smaller and whose
\* clock is not ahead, the others being accrued or left alone.
LEMMA RewardReplaced ==
  ASSUME IInv, now' = now,
         NEW base \in [Rewards -> RewardRecord],
         \A x \in Rewards :
           /\ reward[x].stored <= base[x].stored
           /\ base[x].lastUpdate <= Smaller(now, base[x].end)
           /\ base[x].initialized => base[x].duration > 0,
         NEW r \in Rewards, NEW info \in RewardRecord,
         info.stored = base[r].stored,
         info.lastUpdate <= Smaller(now, info.end),
         info.duration > 0,
         reward' = [base EXCEPT ![r] = info]
  PROVE  /\ reward' \in [Rewards -> RewardRecord]
         /\ \A x \in Rewards : reward[x].stored <= reward'[x].stored
         /\ RewardsTimed'
<1>1. \A x \in Rewards : reward'[x] = IF x = r THEN info ELSE base[x]
  OBVIOUS
<1>2. reward' \in [Rewards -> RewardRecord]
  OBVIOUS
<1>3. \A x \in Rewards : reward[x].stored <= reward'[x].stored
  BY <1>1
<1>4. ASSUME NEW x \in Rewards
      PROVE  /\ reward'[x].lastUpdate <= Smaller(now', reward'[x].end)
             /\ reward'[x].initialized => reward'[x].duration > 0
  BY <1>1
<1> QED BY <1>2, <1>3, <1>4 DEF RewardsTimed, RewardClockBehind, DurationsSet

\* The rewards as they are, and as they are once accrued, as a base for it.
LEMMA RewardBases ==
  ASSUME IInv, NEW base \in {reward, AccruedRewards}
  PROVE  /\ base \in [Rewards -> RewardRecord]
         /\ \A x \in Rewards :
              /\ reward[x].stored <= base[x].stored
              /\ base[x].lastUpdate <= Smaller(now, base[x].end)
              /\ base[x].initialized => base[x].duration > 0
              /\ base[x].initialized = reward[x].initialized
<1>1. CASE base = reward
  <2>1. \A x \in Rewards : reward[x].stored \in Nat
    BY DEF IInv, TypeOK, RewardRecord
  <2> QED BY <1>1, <2>1
          DEF IInv, TypeOK, NoUnderflow, RewardClockBehind, DurationsSet
<1>2. CASE base = AccruedRewards
  BY <1>2, AccruedRewardsSound DEF IInv, DurationsSet
<1> QED BY <1>1, <1>2

\* handle_initialize_reward and handle_update_reward_duration
LEMMA DurationSetKeeps ==
  ASSUME IInv, NEW r \in Rewards, NEW duration \in Nat \ {0},
         \/ InitializeReward(r, duration)
         \/ UpdateRewardDuration(r, duration)
  PROVE  IInv'
<1> DEFINE info == [reward[r] EXCEPT !.initialized = TRUE,
                                     !.duration = duration]
<1>1. /\ UNCHANGED <<pool, position, vestings, vault, rewardVault, frozen, now>>
      /\ \/ reward' = [reward EXCEPT ![r].initialized = TRUE,
                                     ![r].duration = duration]
         \/ /\ reward[r].initialized
            /\ reward' = [reward EXCEPT ![r].duration = duration]
  BY DEF InitializeReward, UpdateRewardDuration
<1>2. reward[r] \in RewardRecord /\ reward \in [Rewards -> RewardRecord]
  BY DEF IInv, TypeOK
<1>3. /\ info \in RewardRecord /\ info.stored = reward[r].stored
      /\ info.duration = duration /\ info.end = reward[r].end
      /\ info.lastUpdate = reward[r].lastUpdate
  BY <1>2 DEF RewardRecord
<1>4. reward' = [reward EXCEPT ![r] = info]
  <2>1. CASE reward' = [reward EXCEPT ![r].initialized = TRUE,
                                      ![r].duration = duration]
    BY <1>2, <2>1 DEF RewardRecord
  <2>2. CASE /\ reward[r].initialized
             /\ reward' = [reward EXCEPT ![r].duration = duration]
    <3>1. reward[r].initialized = TRUE
      BY <1>2, <2>2 DEF RewardRecord
    <3>2. info = [reward[r] EXCEPT !.duration = duration]
      BY <1>2, <3>1 DEF RewardRecord
    <3> QED BY <1>2, <2>2, <3>2
  <2> QED BY <1>1, <2>1, <2>2
<1> HIDE DEF info
<1>5. /\ \A x \in Rewards :
           /\ reward[x].stored <= reward[x].stored
           /\ reward[x].lastUpdate <= Smaller(now, reward[x].end)
           /\ reward[x].initialized => reward[x].duration > 0
  BY RewardBases
<1>6. info.lastUpdate <= Smaller(now, info.end) /\ info.duration > 0
  BY <1>3, <1>5
<1>7. /\ reward' \in [Rewards -> RewardRecord]
      /\ \A x \in Rewards : reward[x].stored <= reward'[x].stored
      /\ RewardsTimed'
  BY <1>1, <1>2, <1>3, <1>4, <1>5, <1>6, RewardReplaced
<1> QED BY <1>1, <1>7, RewardStepKeeps DEF IInv, TypeOK

\* What goes back to the funder, or into the next distribution, is natural.
LEMMA IneligibleNat ==
  ASSUME NEW info \in RewardRecord
  PROVE  Ineligible(info) \in Nat
<1>1. info.rate * info.emptySeconds \in Nat
  BY MulNat DEF RewardRecord
<1> QED BY <1>1, DivNat, PoolAssumption DEF Ineligible

\* RewardInfo::update_rate_after_funding starts the clock again from now.
LEMMA RefundedSound ==
  ASSUME NEW info \in RewardRecord, info.duration > 0, NEW amount \in Nat,
         now \in Nat
  PROVE  /\ Refunded(info, amount) \in RewardRecord
         /\ Refunded(info, amount).stored = info.stored
         /\ Refunded(info, amount).duration = info.duration
         /\ Refunded(info, amount).lastUpdate
              <= Smaller(now, Refunded(info, amount).end)
<1> DEFINE leftover == IF now >= info.end THEN 0
                       ELSE (info.rate * (info.end - now)) \div RewardRateScale
           rate == ((amount + leftover) * RewardRateScale) \div info.duration
           end == now + info.duration
<1>1. /\ info.end \in Nat /\ info.rate \in Nat
      /\ info.duration \in Nat \ {0}
  BY DEF RewardRecord
<1>2. leftover \in Nat
  <2>1. CASE now >= info.end
    BY <2>1
  <2>2. CASE ~(now >= info.end)
    <3>1. info.end - now \in Nat
      BY <1>1, <2>2
    <3>2. info.rate * (info.end - now) \in Nat
      BY <1>1, <3>1, MulNat
    <3>3. (info.rate * (info.end - now)) \div RewardRateScale \in Nat
      BY <3>2, DivNat, PoolAssumption
    <3> QED BY <2>2, <3>3
  <2> QED BY <2>1, <2>2
<1> HIDE DEF leftover
<1>3. rate \in Nat
  <2>1. (amount + leftover) * RewardRateScale \in Nat
    BY <1>2, MulNat, PoolAssumption
  <2> QED BY <1>1, <2>1, DivNat
<1>4. end \in Nat /\ now <= Smaller(now, end)
  BY <1>1 DEF Smaller
<1>5. Refunded(info, amount) =
        [info EXCEPT !.rate = rate, !.lastUpdate = now, !.end = end]
  BY DEF Refunded, leftover
<1> HIDE DEF rate, end
<1>6. LET new == [info EXCEPT !.rate = rate, !.lastUpdate = now, !.end = end]
      IN  /\ new \in RewardRecord
          /\ new.stored = info.stored
          /\ new.duration = info.duration
          /\ new.lastUpdate = now
          /\ new.end = end
  BY <1>3, <1>4 DEF RewardRecord
<1> QED BY <1>4, <1>5, <1>6

\* handle_fund_reward
LEMMA FundRewardKeeps ==
  ASSUME IInv, NEW r \in Rewards, NEW amount \in Nat, NEW carryForward,
         FundReward(r, amount, carryForward)
  PROVE  IInv'
<1> DEFINE accrued == AccruedRewards[r]
           base == [accrued EXCEPT !.emptySeconds = 0]
           carry == IF carryForward THEN Ineligible(accrued) ELSE 0
           info == Refunded(base, amount + carry)
<1>1. /\ UNCHANGED <<pool, position, vestings, vault, frozen, now>>
      /\ reward[r].initialized
      /\ reward' = [AccruedRewards EXCEPT ![r] = info]
      /\ rewardVault' = [rewardVault EXCEPT ![r] = @ + amount]
  BY DEF FundReward
<1>2. /\ AccruedRewards \in [Rewards -> RewardRecord]
      /\ \A x \in Rewards :
           /\ reward[x].stored <= AccruedRewards[x].stored
           /\ AccruedRewards[x].lastUpdate <= Smaller(now, AccruedRewards[x].end)
           /\ AccruedRewards[x].initialized => AccruedRewards[x].duration > 0
      /\ accrued.initialized = reward[r].initialized
  BY RewardBases
<1>3. accrued \in RewardRecord /\ accrued.duration > 0
  BY <1>1, <1>2
<1>4. carry \in Nat
  BY <1>3, IneligibleNat
<1> HIDE DEF accrued, carry
<1>5. /\ base \in RewardRecord
      /\ base.duration = accrued.duration
      /\ base.stored = accrued.stored
  BY <1>3 DEF RewardRecord
<1> HIDE DEF base
<1>6. amount + carry \in Nat /\ now \in Nat /\ base.duration > 0
  BY <1>3, <1>4, <1>5 DEF IInv, TypeOK
<1>7. /\ info \in RewardRecord
      /\ info.stored = AccruedRewards[r].stored
      /\ info.lastUpdate <= Smaller(now, info.end)
      /\ info.duration > 0
  <2>1. /\ info \in RewardRecord
        /\ info.stored = base.stored
        /\ info.duration = base.duration
        /\ info.lastUpdate <= Smaller(now, info.end)
    BY <1>5, <1>6, RefundedSound
  <2>2. AccruedRewards[r].stored = accrued.stored
    BY DEF accrued
  <2> HIDE DEF info
  <2> QED BY <1>5, <1>6, <2>1, <2>2
<1> HIDE DEF info
<1>8. /\ reward' \in [Rewards -> RewardRecord]
      /\ \A x \in Rewards : reward[x].stored <= reward'[x].stored
      /\ RewardsTimed'
  BY <1>1, <1>2, <1>7, RewardReplaced
<1>9. rewardVault' \in [Rewards -> Nat]
  BY <1>1 DEF IInv, TypeOK
<1> QED BY <1>1, <1>8, <1>9, RewardStepKeeps DEF IInv, TypeOK

\* handle_withdraw_ineligible_reward
LEMMA WithdrawIneligibleRewardKeeps ==
  ASSUME IInv, NEW r \in Rewards, WithdrawIneligibleReward(r)
  PROVE  IInv'
<1> DEFINE accrued == AccruedRewards[r]
           info == [accrued EXCEPT !.emptySeconds = 0]
           back == Ineligible(accrued)
<1>1. /\ UNCHANGED <<pool, position, vestings, vault, frozen, now>>
      /\ reward[r].initialized
      /\ back <= rewardVault[r]
      /\ rewardVault' = [rewardVault EXCEPT ![r] = @ - back]
  BY DEF WithdrawIneligibleReward
<1>2. /\ AccruedRewards \in [Rewards -> RewardRecord]
      /\ \A x \in Rewards :
           /\ reward[x].stored <= AccruedRewards[x].stored
           /\ AccruedRewards[x].lastUpdate <= Smaller(now, AccruedRewards[x].end)
           /\ AccruedRewards[x].initialized => AccruedRewards[x].duration > 0
      /\ accrued.initialized = reward[r].initialized
  BY RewardBases
<1>3. reward' = [AccruedRewards EXCEPT ![r] = info]
  BY <1>2 DEF WithdrawIneligibleReward
<1>4. /\ accrued \in RewardRecord
      /\ accrued.duration > 0
      /\ accrued.lastUpdate <= Smaller(now, accrued.end)
      /\ accrued.stored = AccruedRewards[r].stored
  BY <1>1, <1>2
<1>5. back \in Nat
  BY <1>4, IneligibleNat
<1> HIDE DEF accrued, back
<1>6. /\ info \in RewardRecord
      /\ info.stored = accrued.stored
      /\ info.lastUpdate = accrued.lastUpdate
      /\ info.end = accrued.end
      /\ info.duration = accrued.duration
  BY <1>4 DEF RewardRecord
<1> HIDE DEF info
<1>7. /\ info.stored = AccruedRewards[r].stored
      /\ info.lastUpdate <= Smaller(now, info.end)
      /\ info.duration > 0
  BY <1>4, <1>6
<1>8. /\ reward' \in [Rewards -> RewardRecord]
      /\ \A x \in Rewards : reward[x].stored <= reward'[x].stored
      /\ RewardsTimed'
  BY <1>1, <1>2, <1>3, <1>6, <1>7, RewardReplaced
<1>9. rewardVault' \in [Rewards -> Nat]
  <2>1. rewardVault[r] - back \in Nat
    BY <1>1, <1>5 DEF IInv, TypeOK
  <2> QED BY <1>1, <2>1 DEF IInv, TypeOK
<1> QED BY <1>1, <1>8, <1>9, RewardStepKeeps DEF IInv, TypeOK

\* handle_claim_reward
LEMMA ClaimRewardKeeps ==
  ASSUME IInv, NEW p \in Positions, NEW r \in Rewards, NEW skip,
         ClaimReward(p, r, skip)
  PROVE  IInv'
<1> DEFINE settled == SettleRewards(position[p], AccruedRewards)
           due == settled.rewardPending[r]
           paid == IF frozen[r] THEN 0 ELSE due
           left == [settled.rewardPending EXCEPT ![r] = 0]
           pos == [settled EXCEPT !.rewardPending = left]
<1>1. /\ UNCHANGED <<pool, vestings, vault, frozen, now>>
      /\ reward' = AccruedRewards
      /\ paid <= rewardVault[r]
      /\ position' = [position EXCEPT
            ![p] = [settled EXCEPT !.rewardPending[r] = 0]]
      /\ rewardVault' = [rewardVault EXCEPT ![r] = @ - paid]
  BY DEF ClaimReward
<1>2. /\ reward' \in [Rewards -> RewardRecord] /\ RewardsTimed'
      /\ now' \in Nat
      /\ \A x \in Rewards : reward[x].stored <= reward'[x].stored
  BY <1>1, RewardsAccrued
<1>3. position[p] \in PositionRecord
  BY DEF IInv, TypeOK
<1>4. \A x \in Rewards :
        position[p].rewardCheckpoint[x] <= AccruedRewards[x].stored
  <2> TAKE x \in Rewards
  <2>1. position[p].rewardCheckpoint[x] <= reward[x].stored
    BY DEF IInv, NoUnderflow, RewardCheckpointsBehind
  <2>2. reward[x].stored <= AccruedRewards[x].stored
    BY <1>1, <1>2
  <2>3. position[p].rewardCheckpoint[x] \in Nat /\ reward[x].stored \in Nat
        /\ AccruedRewards[x].stored \in Nat
    BY <1>1, <1>2, <1>3 DEF IInv, TypeOK, PositionRecord, RewardRecord
  <2> QED BY <2>1, <2>2, <2>3
<1>5. /\ settled \in PositionRecord
      /\ \A x \in Rewards :
           settled.rewardCheckpoint[x] <= AccruedRewards[x].stored
      /\ settled.feeCheckpoint = position[p].feeCheckpoint
  BY <1>1, <1>2, <1>3, <1>4, SettleRewardsSound
<1>6. position' = [position EXCEPT ![p] = pos]
  BY <1>1
<1> HIDE DEF settled
<1>7. due \in Nat /\ left \in [Rewards -> Nat]
  BY <1>5 DEF PositionRecord
<1> HIDE DEF left, due
<1>8. /\ pos \in PositionRecord
      /\ pos.feeCheckpoint = settled.feeCheckpoint
      /\ pos.rewardCheckpoint = settled.rewardCheckpoint
  BY <1>5, <1>7 DEF PositionRecord
<1> HIDE DEF pos
<1>9. pool' \in PoolRecord /\ PriceInRange'
  BY <1>1 DEF IInv, TypeOK, PriceInRange
<1>10. \A t \in Tokens : pool.feePerLiquidity[t] <= pool'.feePerLiquidity[t]
  BY <1>1, FeesKept
<1>11. /\ \A t \in Tokens : pos.feeCheckpoint[t] <= pool'.feePerLiquidity[t]
       /\ \A x \in Rewards : pos.rewardCheckpoint[x] <= reward'[x].stored
  BY <1>1, <1>5, <1>8 DEF IInv, NoUnderflow, FeeCheckpointsBehind
<1>12. /\ position' \in [Positions -> PositionRecord]
       /\ FeeCheckpointsBehind' /\ RewardCheckpointsBehind'
  BY <1>2, <1>6, <1>8, <1>9, <1>10, <1>11, PositionReplaced
<1>13. rewardVault' \in [Rewards -> Nat]
  <2>1. rewardVault[r] - paid \in Nat
    BY <1>1, <1>7 DEF IInv, TypeOK
  <2> HIDE DEF paid
  <2> QED BY <1>1, <2>1 DEF IInv, TypeOK
<1> QED BY <1>1, <1>2, <1>9, <1>12, <1>13, IInvParts DEF IInv, TypeOK

-----------------------------------------------------------------------------
\* The rest of the environment.

\* A mint's freeze authority and the clock touch no account of the pool.
LEMMA EnvironmentKeeps ==
  ASSUME IInv, Tick \/ (\E r \in Rewards : ToggleFreeze(r))
  PROVE  IInv'
<1>1. UNCHANGED <<pool, position, vestings, reward, vault, rewardVault>>
  BY DEF Tick, ToggleFreeze
<1>2. now \in Nat /\ now' \in Nat /\ now <= now'
  BY DEF Tick, ToggleFreeze, IInv, TypeOK
<1>3. frozen' \in [Rewards -> BOOLEAN]
  BY DEF Tick, ToggleFreeze, IInv, TypeOK
<1>4. RewardClockBehind'
  <2>1. ASSUME NEW r \in Rewards
        PROVE  reward[r].lastUpdate <= Smaller(now', reward[r].end)
    <3>1. reward[r].lastUpdate <= Smaller(now, reward[r].end)
      BY DEF IInv, NoUnderflow, RewardClockBehind
    <3>2. reward[r].lastUpdate \in Nat /\ reward[r].end \in Nat
      BY DEF IInv, TypeOK, RewardRecord
    <3> QED BY <1>2, <3>1, <3>2 DEF Smaller
  <2> QED BY <1>1, <2>1 DEF RewardClockBehind
<1>5. RewardsTimed'
  BY <1>1, <1>4 DEF RewardsTimed, DurationsSet, IInv
<1>6. \A r \in Rewards : reward[r].stored <= reward'[r].stored
  BY <1>1 DEF IInv, TypeOK, RewardRecord
<1> QED BY <1>1, <1>2, <1>3, <1>5, <1>6, RewardStepKeeps DEF IInv, TypeOK

\* handle_set_pool_status
LEMMA SetPoolStatusKeeps ==
  ASSUME IInv, NEW enabled \in BOOLEAN, SetPoolStatus(enabled)
  PROVE  IInv'
<1>1. /\ UNCHANGED <<position, vestings, reward, vault, rewardVault, frozen, now>>
      /\ pool' = [pool EXCEPT !.enabled = enabled]
  BY DEF SetPoolStatus
<1>2. /\ pool' \in PoolRecord
      /\ pool'.sqrtPrice = pool.sqrtPrice
      /\ pool'.feePerLiquidity = pool.feePerLiquidity
  BY <1>1 DEF IInv, TypeOK, PoolRecord
<1>3. \A t \in Tokens : pool.feePerLiquidity[t] <= pool'.feePerLiquidity[t]
  BY <1>2, FeesKept
<1>4. /\ reward' \in [Rewards -> RewardRecord] /\ RewardsTimed'
      /\ now' \in Nat
      /\ \A r \in Rewards : reward[r].stored <= reward'[r].stored
  BY <1>1, RewardsKept
<1>5. /\ position' \in [Positions -> PositionRecord]
      /\ FeeCheckpointsBehind' /\ RewardCheckpointsBehind'
  BY <1>1, <1>2, <1>3, <1>4, PositionsKept
<1> QED BY <1>1, <1>2, <1>4, <1>5, IInvParts DEF IInv, TypeOK, PriceInRange

\* A step that changes nothing keeps the invariant.
LEMMA StutterKeeps ==
  ASSUME IInv, UNCHANGED vars
  PROVE  IInv'
BY DEF vars, IInv, TypeOK, NoUnderflow, PriceInRange, FeeCheckpointsBehind,
       RewardCheckpointsBehind, RewardClockBehind, DurationsSet

-----------------------------------------------------------------------------
\* Every step of the pool keeps the invariant, whatever trade fee a swap finds
\* in the pool.
LEMMA AnyFeeStepKeeps ==
  ASSUME IInv, [SwapStep(TradeFeeRecord) \/ OtherStep]_vars
  PROVE  IInv'
<1>1. CASE PositionStep
  <2>1. ASSUME NEW p \in Positions, CreatePosition(p) \/ ClosePosition(p)
        PROVE  IInv'
    BY <2>1, CreatePositionKeeps, ClosePositionKeeps
  <2>2. ASSUME NEW p \in Positions, NEW d \in LiquidityDeltas,
               AddLiquidity(p, d)
        PROVE  IInv'
    BY <2>2, AddLiquidityKeeps, InputAssumption
  <2>3. ASSUME NEW p \in Positions, NEW d \in LiquidityDeltas,
               RemoveLiquidity(p, d)
        PROVE  IInv'
    BY <2>3, RemoveLiquidityKeeps, InputAssumption
  <2>4. ASSUME NEW p \in Positions,
               RemoveLiquidity(p, position[p].unlocked)
        PROVE  IInv'
    <3>1. position[p].unlocked \in Nat
      BY DEF IInv, TypeOK, PositionRecord
    <3> QED BY <2>4, <3>1, RemoveLiquidityKeeps
  <2>5. ASSUME NEW p \in Positions, NEW q \in Positions,
               NEW s \in SplitShares, SplitPosition(p, q, s)
        PROVE  IInv'
    BY <2>5, SplitPositionKeeps
  <2>6. ASSUME NEW p \in Positions, NEW id \in VestingIds,
               NEW s \in Schedules, LockPosition(p, id, s)
        PROVE  IInv'
    BY <2>6, LockPositionKeeps
  <2>7. ASSUME NEW v \in vestings, RefreshVesting(v)
        PROVE  IInv'
    BY <2>7, RefreshVestingKeeps
  <2>8. ASSUME NEW p \in Positions, NEW n \in LockAmounts, PermanentLock(p, n)
        PROVE  IInv'
    BY <2>8, PermanentLockKeeps, InputAssumption
  <2> QED BY <1>1, <2>1, <2>2, <2>3, <2>4, <2>5, <2>6, <2>7, <2>8
          DEF PositionStep
<1>2. CASE SwapStep(TradeFeeRecord)
  <2>1. PICK mode \in Modes, dir \in Directions, amount \in SwapAmounts,
             f \in TradeFeeRecord, hasReferral \in BOOLEAN,
             whitelisted \in {FALSE, HasWhitelistedVault} :
          Swap(mode, dir, amount, FeeFor(dir, f), hasReferral, whitelisted)
    BY <1>2 DEF SwapStep
  <2>2. mode \in SwapModes /\ amount \in Nat
    BY InputAssumption
  <2>3. FeeFor(dir, f) \in TradeFeeRecord
    BY FeeForRecord
  <2> QED BY <2>1, <2>2, <2>3, SwapKeeps
<1>3. CASE ClaimStep
  <2>1. ASSUME NEW p \in Positions, ClaimPositionFee(p)
        PROVE  IInv'
    BY <2>1, ClaimPositionFeeKeeps
  <2>2. ASSUME NEW max \in ClaimCaps,
               ClaimProtocolFee(max) \/ ClaimPartnerFee(max)
        PROVE  IInv'
    BY <2>2, ClaimProtocolFeeKeeps, ClaimPartnerFeeKeeps, InputAssumption
  <2>3. ASSUME NEW max \in ClaimCaps, NEW t \in Tokens,
               ZapProtocolFee(t, max[t])
        PROVE  IInv'
    <3> DEFINE cap == [u \in Tokens |-> IF u = t THEN max[t] ELSE 0]
    <3>1. max \in [Tokens -> Nat]
      BY InputAssumption
    <3>2. cap \in [Tokens -> Nat]
      BY <3>1
    <3>3. ClaimProtocolFee(cap)
      BY <2>3 DEF ZapProtocolFee
    <3> HIDE DEF cap
    <3> QED BY <3>2, <3>3, ClaimProtocolFeeKeeps
  <2> QED BY <1>3, <2>1, <2>2, <2>3 DEF ClaimStep
<1>4. CASE RewardStep
  <2>1. ASSUME NEW r \in Rewards, NEW d \in Durations,
               InitializeReward(r, d) \/ UpdateRewardDuration(r, d)
        PROVE  IInv'
    BY <2>1, DurationSetKeeps, InputAssumption
  <2>2. ASSUME NEW r \in Rewards, NEW n \in FundAmounts,
               NEW carry \in BOOLEAN, FundReward(r, n, carry)
        PROVE  IInv'
    BY <2>2, FundRewardKeeps, InputAssumption
  <2>3. ASSUME NEW r \in Rewards, WithdrawIneligibleReward(r)
        PROVE  IInv'
    BY <2>3, WithdrawIneligibleRewardKeeps
  <2>4. ASSUME NEW p \in Positions, NEW r \in Rewards, NEW skip \in BOOLEAN,
               ClaimReward(p, r, skip)
        PROVE  IInv'
    BY <2>4, ClaimRewardKeeps
  <2>5. ASSUME NEW r \in Rewards, ToggleFreeze(r)
        PROVE  IInv'
    BY <2>5, EnvironmentKeeps
  <2> QED BY <1>4, <2>1, <2>2, <2>3, <2>4, <2>5 DEF RewardStep
<1>5. CASE StatusStep
  BY <1>5, SetPoolStatusKeeps, InputAssumption DEF StatusStep
<1>6. CASE Tick
  BY <1>6, EnvironmentKeeps
<1>7. CASE UNCHANGED vars
  BY <1>7, StutterKeeps
<1> QED BY <1>1, <1>2, <1>3, <1>4, <1>5, <1>6, <1>7 DEF OtherStep

\* The inductive invariant holds whatever the trade fees, one swap after
\* another.
THEOREM AnyFeeInvariantHolds == AnyFeeSpec => []IInv
<1>1. Init => IInv
  BY InitSound
<1>2. IInv /\ [SwapStep(TradeFeeRecord) \/ OtherStep]_vars => IInv'
  BY AnyFeeStepKeeps
<1> QED BY <1>1, <1>2, PTL DEF AnyFeeSpec

\* A pool whose swaps find certain fees is a pool whose swaps find any.
THEOREM AnyFeeCovers == Spec => AnyFeeSpec
<1>1. ASSUME SwapStep(TradeFees) PROVE SwapStep(TradeFeeRecord)
  <2>1. TradeFees \subseteq TradeFeeRecord
    BY InputAssumption
  <2> QED BY <1>1, <2>1 DEF SwapStep
<1>2. [Next]_vars => [SwapStep(TradeFeeRecord) \/ OtherStep]_vars
  BY <1>1 DEF Next
<1> QED BY <1>2, PTL DEF Spec, AnyFeeSpec

\* The inductive invariant holds throughout, whatever the parameters.
THEOREM InvariantHolds == Spec => []IInv
BY AnyFeeCovers, AnyFeeInvariantHolds, PTL

\* Types hold: no balance, debt, checkpoint or vault ever goes negative.
THEOREM TypeCorrect == Spec => []TypeOK
<1>1. IInv => TypeOK
  BY DEF IInv
<1> QED BY <1>1, InvariantHolds, PTL

\* update_fee, update_rewards and get_seconds_elapsed_since_last_update can
\* never underflow, so no instruction fails for that reason, at any size of
\* the pool.
THEOREM NoUnderflowHolds == Spec => []NoUnderflow
<1>1. IInv => NoUnderflow
  BY DEF IInv
<1> QED BY <1>1, InvariantHolds, PTL

\* No sequence of swaps, of any size and in any mode, moves the price out of
\* [sqrt_min_price, sqrt_max_price].
THEOREM PriceStaysInRange == Spec => []PriceInRange
<1>1. IInv => PriceInRange
  BY DEF IInv
<1> QED BY <1>1, InvariantHolds, PTL
=============================================================================
