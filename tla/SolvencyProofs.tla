----------------------------- MODULE SolvencyProofs ----------------------------
(***************************************************************************)
(* The vaults of the two tokens and of the rewards cover every claim, and  *)
(* everybody can leave at once, for every number of positions, every       *)
(* price, liquidity, trade fee, transfer fee, funding and schedule of      *)
(* instructions.                                                           *)
(*                                                                         *)
(* The tokens come first.                                                  *)
(* The argument has three parts.  The fees of the positions: settling one  *)
(* position rounds against it, and every instruction only moves fees from  *)
(* one position to another or pays them out, so their sum is conserved.    *)
(* The curve: whatever a quote takes in pays for the move of the price,    *)
(* and what it gives is not worth more, in all three modes.  The books: a  *)
(* vault's surplus over its fees covers what the liquidity is worth at the *)
(* current price before any rounding, which every step preserves.          *)
(*                                                                         *)
(* Two facts make this inductive: an account that is closed, or was never  *)
(* opened, is blank, and so is a reward before it is initialized.          *)
(***************************************************************************)
EXTENDS LiquidityProofs

\* What does not exist holds nothing: no account that was closed, or never
\* opened, is owed anything, and a reward that was not initialized is blank.
ClosedZero == \A p \in Positions : ~position[p].open => position[p] = NoPosition
Dormant    == \A r \in Rewards : ~reward[r].initialized => reward[r] = NoReward

\* The accumulators of the rewards, brought up to the present.
Stored == [r \in Rewards |-> AccruedRewards[r].stored]

\* What positions could claim in whole tokens, and their shares before
\* rounding, by token and by reward.
FeeDue     == [t \in Tokens |-> ClaimableFees(t)]
FeeOwed    == [t \in Tokens |-> FeeShares(t)]
RewardDue  == [r \in Rewards |-> ClaimableRewards(r)]
RewardOwed == [r \in Rewards |->
                 [p \in Positions |-> RewardShare(position[p], r, Stored[r])]]

-----------------------------------------------------------------------------
\* A settled share loses less than a unit to rounding, to the owner's
\* disadvantage.
LEMMA ShareRounds ==
  ASSUME NEW pending \in Nat, NEW L \in Nat, NEW gap \in Nat,
         NEW scale \in Nat \ {0}
  PROVE  LET due   == pending + (L * gap) \div scale
             share == pending * scale + L * gap
         IN  due \in Nat /\ share \in Nat /\ due * scale <= share
<1>1. L * gap \in Nat
  BY MulNat
<1> DEFINE n == L * gap
           q == n \div scale
<1> HIDE DEF n
<1>2. q \in Nat /\ q * scale <= n
  BY <1>1, DivNat DEF n
<1>3. pending * scale \in Nat
  BY MulNat
<1> HIDE DEF q
<1>4. (pending + q) * scale = pending * scale + q * scale
  BY <1>2
<1>5. q * scale \in Nat
  BY <1>2, MulNat
<1> QED BY <1>1, <1>2, <1>3, <1>4, <1>5 DEF n, q

\* Both scales are positive.
LEMMA ScalesPositive ==
  LiquidityScale \in Nat \ {0} /\ TotalRewardScale \in Nat \ {0}
BY MulPos, PoolAssumption DEF TotalRewardScale

\* The fields of a position that its fees depend on.
LEMMA PositionFields ==
  ASSUME IInv, NEW p \in Positions
  PROVE  /\ position[p] \in PositionRecord
         /\ TotalLiquidity(position[p]) \in Nat
         /\ \A t \in Tokens :
              /\ position[p].feePending[t] \in Nat
              /\ position[p].feeCheckpoint[t] \in Nat
              /\ pool.feePerLiquidity[t] \in Nat
              /\ pool.feePerLiquidity[t] - position[p].feeCheckpoint[t] \in Nat
         /\ \A r \in Rewards :
              /\ position[p].rewardPending[r] \in Nat
              /\ position[p].rewardCheckpoint[r] \in Nat
              /\ Stored[r] \in Nat /\ reward[r].stored \in Nat
              /\ reward[r].stored - position[p].rewardCheckpoint[r] \in Nat
              /\ Stored[r] - position[p].rewardCheckpoint[r] \in Nat
<1>1. position[p] \in PositionRecord /\ pool \in PoolRecord
  BY DEF IInv, TypeOK
<1>2. TotalLiquidity(position[p]) \in Nat
  BY <1>1, TotalNat
<1>3. ASSUME NEW t \in Tokens
      PROVE  /\ position[p].feePending[t] \in Nat
             /\ position[p].feeCheckpoint[t] \in Nat
             /\ pool.feePerLiquidity[t] \in Nat
             /\ pool.feePerLiquidity[t] - position[p].feeCheckpoint[t] \in Nat
  BY <1>1 DEF PositionRecord, PoolRecord, IInv, NoUnderflow, FeeCheckpointsBehind
<1>4. ASSUME NEW r \in Rewards
      PROVE  /\ position[p].rewardPending[r] \in Nat
             /\ position[p].rewardCheckpoint[r] \in Nat
             /\ Stored[r] \in Nat /\ reward[r].stored \in Nat
             /\ reward[r].stored - position[p].rewardCheckpoint[r] \in Nat
             /\ Stored[r] - position[p].rewardCheckpoint[r] \in Nat
  <2>1. /\ AccruedRewards[r] \in RewardRecord
        /\ reward[r].stored <= AccruedRewards[r].stored
    BY AccruedRewardsSound
  <2>2. position[p].rewardPending[r] \in Nat /\ position[p].rewardCheckpoint[r] \in Nat
    BY <1>1 DEF PositionRecord
  <2>3. reward[r].stored \in Nat /\ AccruedRewards[r].stored \in Nat
    BY <2>1 DEF IInv, TypeOK, RewardRecord
  <2>4. position[p].rewardCheckpoint[r] <= reward[r].stored
    BY DEF IInv, NoUnderflow, RewardCheckpointsBehind
  <2> QED BY <2>1, <2>2, <2>3, <2>4 DEF Stored
<1> QED BY <1>1, <1>2, <1>3, <1>4

\* The fees of one position: what it could claim, and its share before
\* rounding (Position::update_fee).
LEMMA FeeDueIs ==
  ASSUME IInv, NEW t \in Tokens, NEW p \in Positions
  PROVE  /\ FeeDue[t][p] =
              position[p].feePending[t]
                + (TotalLiquidity(position[p])
                     * (pool.feePerLiquidity[t] - position[p].feeCheckpoint[t]))
                    \div LiquidityScale
         /\ FeeOwed[t][p] =
              position[p].feePending[t] * LiquidityScale
                + TotalLiquidity(position[p])
                    * (pool.feePerLiquidity[t] - position[p].feeCheckpoint[t])
         /\ FeeDue[t][p] \in Nat /\ FeeOwed[t][p] \in Nat
         /\ FeeDue[t][p] * LiquidityScale <= FeeOwed[t][p]
<1> DEFINE pos == position[p]
           pending == pos.feePending[t]
           L == TotalLiquidity(pos)
           gap == pool.feePerLiquidity[t] - pos.feeCheckpoint[t]
<1>1. pending \in Nat /\ L \in Nat /\ gap \in Nat /\ pos \in PositionRecord
  BY PositionFields
<1>2. FeeDue[t][p] = pending + (L * gap) \div LiquidityScale
  <2>1. FeeDue[t][p] = SettleFees(pos).feePending[t]
    BY DEF FeeDue, ClaimableFees
  <2> DEFINE gains == [u \in Tokens |->
                         pos.feePending[u]
                           + (TotalLiquidity(pos)
                                * (pool.feePerLiquidity[u] - pos.feeCheckpoint[u]))
                               \div LiquidityScale]
  <2>2. SettleFees(pos) = [pos EXCEPT !.feePending = gains,
                                      !.feeCheckpoint = pool.feePerLiquidity]
    BY DEF SettleFees
  <2>3. gains[t] = pending + (L * gap) \div LiquidityScale
    OBVIOUS
  <2> HIDE DEF gains, pos
  <2>4. SettleFees(pos).feePending = gains
    BY <1>1, <2>2 DEF PositionRecord
  <2> QED BY <2>1, <2>3, <2>4
<1>3. FeeOwed[t][p] = pending * LiquidityScale + L * gap
  BY DEF FeeOwed, FeeShares, FeeShare
<1> HIDE DEF pending, L, gap
<1>4. /\ pending + (L * gap) \div LiquidityScale \in Nat
      /\ pending * LiquidityScale + L * gap \in Nat
      /\ (pending + (L * gap) \div LiquidityScale) * LiquidityScale
           <= pending * LiquidityScale + L * gap
  BY <1>1, ShareRounds, ScalesPositive
<1>5. /\ FeeDue[t][p] \in Nat /\ FeeOwed[t][p] \in Nat
      /\ FeeDue[t][p] * LiquidityScale <= FeeOwed[t][p]
  BY <1>2, <1>3, <1>4
<1> QED BY <1>2, <1>3, <1>5 DEF pending, L, gap

\* A reward that was not initialized has not accumulated anything.
LEMMA DormantStored ==
  ASSUME IInv, Dormant, NEW r \in Rewards, ~reward[r].initialized
  PROVE  /\ reward[r] = NoReward /\ AccruedRewards[r] = NoReward
         /\ Stored[r] = 0
         /\ \A p \in Positions : position[p].rewardCheckpoint[r] = 0
<1>1. reward[r] = NoReward /\ AccruedRewards[r] = NoReward
  BY DEF Dormant, AccruedRewards, AccrueReward
<1>2. Stored[r] = 0 /\ reward[r].stored = 0
  BY <1>1 DEF Stored, NoReward
<1>3. ASSUME NEW p \in Positions
      PROVE  position[p].rewardCheckpoint[r] = 0
  BY <1>2, PositionFields
<1> QED BY <1>1, <1>2, <1>3

\* Settling rewards, one of them at a time.
LEMMA SettledRewardsAre ==
  ASSUME IInv, Dormant, NEW p \in Positions, NEW r \in Rewards
  PROVE  LET pos == SettleRewards(position[p], AccruedRewards)
         IN  /\ pos.rewardPending[r] =
                  position[p].rewardPending[r]
                    + (TotalLiquidity(position[p])
                         * (Stored[r] - position[p].rewardCheckpoint[r]))
                        \div TotalRewardScale
             /\ pos.rewardCheckpoint[r] = Stored[r]
<1> DEFINE pos == position[p]
           infos == AccruedRewards
           gain(s) == (TotalLiquidity(pos)
                         * (infos[s].stored - pos.rewardCheckpoint[s]))
                        \div TotalRewardScale
           pending == [s \in Rewards |->
                         IF infos[s].initialized
                           THEN pos.rewardPending[s] + gain(s)
                           ELSE pos.rewardPending[s]]
           checkpoint == [s \in Rewards |->
                            IF infos[s].initialized
                              THEN infos[s].stored
                              ELSE pos.rewardCheckpoint[s]]
<1>1. pos \in PositionRecord
  BY DEF IInv, TypeOK
<1>2. SettleRewards(pos, infos) =
        [pos EXCEPT !.rewardPending = pending, !.rewardCheckpoint = checkpoint]
  BY DEF SettleRewards
<1>3. SettleRewards(pos, infos).rewardPending = pending
      /\ SettleRewards(pos, infos).rewardCheckpoint = checkpoint
  <2> HIDE DEF pending, checkpoint, pos
  <2> QED BY <1>1, <1>2 DEF PositionRecord
<1>4. infos[r].stored = Stored[r]
      /\ infos[r].initialized = reward[r].initialized
  BY AccruedRewardsSound DEF Stored
<1>5. CASE reward[r].initialized
  BY <1>3, <1>4, <1>5
<1>6. CASE ~reward[r].initialized
  <2>1. Stored[r] - pos.rewardCheckpoint[r] = 0 /\ pos.rewardCheckpoint[r] = Stored[r]
    BY <1>6, DormantStored
  <2>2. TotalLiquidity(pos) \in Nat /\ pos.rewardPending[r] \in Nat
    BY PositionFields
  <2>3. (TotalLiquidity(pos) * 0) \div TotalRewardScale = 0
    <3>1. TotalLiquidity(pos) * 0 = 0 /\ 0 \div TotalRewardScale = 0
      BY <2>2, ScalesPositive
    <3> QED BY <3>1
  <2>4. pending[r] = pos.rewardPending[r] /\ checkpoint[r] = Stored[r]
    BY <1>4, <1>6, <2>1
  <2> HIDE DEF pending, checkpoint
  <2> QED BY <1>3, <2>1, <2>2, <2>3, <2>4
<1> QED BY <1>5, <1>6

\* The same of a reward (Position::update_position_reward).
LEMMA RewardDueIs ==
  ASSUME IInv, Dormant, NEW r \in Rewards, NEW p \in Positions
  PROVE  /\ RewardDue[r][p] =
              position[p].rewardPending[r]
                + (TotalLiquidity(position[p])
                     * (Stored[r] - position[p].rewardCheckpoint[r]))
                    \div TotalRewardScale
         /\ RewardOwed[r][p] =
              position[p].rewardPending[r] * TotalRewardScale
                + TotalLiquidity(position[p])
                    * (Stored[r] - position[p].rewardCheckpoint[r])
         /\ RewardDue[r][p] \in Nat /\ RewardOwed[r][p] \in Nat
         /\ RewardDue[r][p] * TotalRewardScale <= RewardOwed[r][p]
<1> DEFINE pos == position[p]
           pending == pos.rewardPending[r]
           L == TotalLiquidity(pos)
           gap == Stored[r] - pos.rewardCheckpoint[r]
<1>1. pending \in Nat /\ L \in Nat /\ gap \in Nat
  BY PositionFields
<1>2. RewardDue[r][p] = pending + (L * gap) \div TotalRewardScale
  BY SettledRewardsAre DEF RewardDue, ClaimableRewards
<1>3. RewardOwed[r][p] = pending * TotalRewardScale + L * gap
  BY DEF RewardOwed, RewardShare
<1> HIDE DEF pending, L, gap
<1>4. /\ pending + (L * gap) \div TotalRewardScale \in Nat
      /\ pending * TotalRewardScale + L * gap \in Nat
      /\ (pending + (L * gap) \div TotalRewardScale) * TotalRewardScale
           <= pending * TotalRewardScale + L * gap
  BY <1>1, ShareRounds, ScalesPositive
<1>5. /\ RewardDue[r][p] \in Nat /\ RewardOwed[r][p] \in Nat
      /\ RewardDue[r][p] * TotalRewardScale <= RewardOwed[r][p]
  BY <1>2, <1>3, <1>4
<1> QED BY <1>2, <1>3, <1>5 DEF pending, L, gap

\* What a settled position holds, as add, remove and split find it.
LEMMA SettledIs ==
  ASSUME IInv, Dormant, NEW p \in Positions
  PROVE  /\ \A t \in Tokens :
              /\ Settled(p).feePending[t] = FeeDue[t][p]
              /\ Settled(p).feeCheckpoint[t] = pool.feePerLiquidity[t]
         /\ \A r \in Rewards :
              /\ Settled(p).rewardPending[r] = RewardDue[r][p]
              /\ Settled(p).rewardCheckpoint[r] = Stored[r]
<1> DEFINE mid == SettleRewards(position[p], AccruedRewards)
           gains == [t \in Tokens |->
                       mid.feePending[t]
                         + (TotalLiquidity(mid)
                              * (pool.feePerLiquidity[t] - mid.feeCheckpoint[t]))
                             \div LiquidityScale]
<1>1. /\ position[p] \in PositionRecord
      /\ AccruedRewards \in [Rewards -> RewardRecord]
      /\ \A r \in Rewards :
           position[p].rewardCheckpoint[r] <= AccruedRewards[r].stored
  <2>1. position[p] \in PositionRecord
    BY PositionFields
  <2>2. AccruedRewards \in [Rewards -> RewardRecord]
    BY AccruedRewardsSound
  <2>3. ASSUME NEW r \in Rewards
        PROVE  position[p].rewardCheckpoint[r] <= AccruedRewards[r].stored
    <3>1. Stored[r] - position[p].rewardCheckpoint[r] \in Nat
          /\ Stored[r] \in Nat /\ position[p].rewardCheckpoint[r] \in Nat
      BY PositionFields
    <3> QED BY <3>1 DEF Stored
  <2> QED BY <2>1, <2>2, <2>3
<1>2. mid \in PositionRecord
  BY <1>1, SettleRewardsSound
<1>3. /\ mid.feePending = position[p].feePending
      /\ mid.feeCheckpoint = position[p].feeCheckpoint
      /\ TotalLiquidity(mid) = TotalLiquidity(position[p])
  BY <1>1 DEF SettleRewards, TotalLiquidity, PositionRecord
<1>4. Settled(p) = [mid EXCEPT !.feePending = gains,
                               !.feeCheckpoint = pool.feePerLiquidity]
  BY DEF Settled, SettleFees
<1>5. \A t \in Tokens : gains[t] = FeeDue[t][p]
  <2> SUFFICES ASSUME NEW t \in Tokens
               PROVE  gains[t] = FeeDue[t][p]
    OBVIOUS
  <2>1. gains[t] = mid.feePending[t]
                     + (TotalLiquidity(mid)
                          * (pool.feePerLiquidity[t] - mid.feeCheckpoint[t]))
                         \div LiquidityScale
    OBVIOUS
  <2> HIDE DEF gains, mid
  <2> QED BY <1>3, <2>1, FeeDueIs
<1>6. \A r \in Rewards :
        mid.rewardPending[r] = RewardDue[r][p] /\ mid.rewardCheckpoint[r] = Stored[r]
  BY SettledRewardsAre DEF RewardDue, ClaimableRewards
<1> HIDE DEF mid, gains
<1>7. /\ Settled(p).feePending = gains
      /\ Settled(p).feeCheckpoint = pool.feePerLiquidity
      /\ Settled(p).rewardPending = mid.rewardPending
      /\ Settled(p).rewardCheckpoint = mid.rewardCheckpoint
  BY <1>2, <1>4 DEF PositionRecord
<1> QED BY <1>5, <1>6, <1>7

\* The same facts as one formula, to be used of the next state too.
FeesAre ==
  \A t \in Tokens, p \in Positions :
    /\ FeeDue[t][p] =
         position[p].feePending[t]
           + (TotalLiquidity(position[p])
                * (pool.feePerLiquidity[t] - position[p].feeCheckpoint[t]))
               \div LiquidityScale
    /\ FeeOwed[t][p] =
         position[p].feePending[t] * LiquidityScale
           + TotalLiquidity(position[p])
               * (pool.feePerLiquidity[t] - position[p].feeCheckpoint[t])
    /\ FeeDue[t][p] \in Nat /\ FeeOwed[t][p] \in Nat
    /\ FeeDue[t][p] * LiquidityScale <= FeeOwed[t][p]
    /\ TotalLiquidity(position[p]) \in Nat
    /\ position[p].feePending[t] \in Nat
    /\ pool.feePerLiquidity[t] \in Nat
    /\ pool.feePerLiquidity[t] - position[p].feeCheckpoint[t] \in Nat
    /\ position[p].feeCheckpoint[t] \in Nat

RewardsAre ==
  \A r \in Rewards, p \in Positions :
    /\ RewardDue[r][p] =
         position[p].rewardPending[r]
           + (TotalLiquidity(position[p])
                * (Stored[r] - position[p].rewardCheckpoint[r]))
               \div TotalRewardScale
    /\ RewardOwed[r][p] =
         position[p].rewardPending[r] * TotalRewardScale
           + TotalLiquidity(position[p])
               * (Stored[r] - position[p].rewardCheckpoint[r])
    /\ RewardDue[r][p] \in Nat /\ RewardOwed[r][p] \in Nat
    /\ RewardDue[r][p] * TotalRewardScale <= RewardOwed[r][p]
    /\ TotalLiquidity(position[p]) \in Nat
    /\ position[p].rewardPending[r] \in Nat
    /\ Stored[r] \in Nat
    /\ Stored[r] - position[p].rewardCheckpoint[r] \in Nat
    /\ position[p].rewardCheckpoint[r] \in Nat

\* They hold of every state of the inductive invariant,
LEMMA FeesNow == IInv => FeesAre
<1> SUFFICES ASSUME IInv PROVE FeesAre
  OBVIOUS
<1>1. \A t \in Tokens, p \in Positions : TotalLiquidity(position[p]) \in Nat
        /\ position[p].feePending[t] \in Nat
        /\ pool.feePerLiquidity[t] \in Nat
        /\ pool.feePerLiquidity[t] - position[p].feeCheckpoint[t] \in Nat
        /\ position[p].feeCheckpoint[t] \in Nat
  BY PositionFields
<1> QED BY <1>1, FeeDueIs DEF FeesAre

\* and of the state after a step.
LEMMA FeesNext == IInv' => FeesAre'
BY FeesNow, PTL

\* So do those about rewards,
LEMMA RewardsNow == IInv /\ Dormant => RewardsAre
<1> SUFFICES ASSUME IInv, Dormant PROVE RewardsAre
  OBVIOUS
<1>1. \A r \in Rewards, p \in Positions : TotalLiquidity(position[p]) \in Nat
        /\ position[p].rewardPending[r] \in Nat
        /\ Stored[r] \in Nat
        /\ Stored[r] - position[p].rewardCheckpoint[r] \in Nat
        /\ position[p].rewardCheckpoint[r] \in Nat
  BY PositionFields
<1> QED BY <1>1, RewardDueIs DEF RewardsAre

\* before a step and after it.
LEMMA RewardsNext == IInv' /\ Dormant' => RewardsAre'
BY RewardsNow, PTL

\* What a step does to the accounts of one position: its fees, or its rewards,
\* are left alone (and so they are when it has no liquidity before or after),
\* or settled and changed by d.
SameLiquidity(x) == TotalLiquidity(position'[x]) = TotalLiquidity(position[x])

NoLiquidity(x) ==
  TotalLiquidity(position'[x]) = 0 /\ TotalLiquidity(position[x]) = 0

FeesMove(t, x, d) ==
  \/ /\ d = 0
     /\ position'[x].feePending[t] = position[x].feePending[t]
     /\ \/ NoLiquidity(x)
        \/ /\ SameLiquidity(x)
           /\ position'[x].feeCheckpoint[t] = position[x].feeCheckpoint[t]
  \/ /\ position'[x].feePending[t] = FeeDue[t][x] + d
     /\ position'[x].feeCheckpoint[t] = pool.feePerLiquidity[t]

RewardsMove(r, x, d) ==
  \/ /\ d = 0
     /\ position'[x].rewardPending[r] = position[x].rewardPending[r]
     /\ \/ NoLiquidity(x)
        \/ /\ SameLiquidity(x)
           /\ position'[x].rewardCheckpoint[r] = position[x].rewardCheckpoint[r]
  \/ /\ position'[x].rewardPending[r] = RewardDue[r][x] + d
     /\ position'[x].rewardCheckpoint[r] = Stored[r]

\* A share that is settled: nothing is left to accrue.
LEMMA NothingAccrues ==
  ASSUME NEW scale \in Nat \ {0}, NEW n \in Int
  PROVE  n * 0 = 0 /\ 0 * n = 0 /\ 0 \div scale = 0
OBVIOUS

\* Settling a position does not change what it could claim, and at most
\* rounds away part of its share.
LEMMA FeesMoveBy ==
  ASSUME IInv, IInv', NEW t \in Tokens,
         pool'.feePerLiquidity[t] = pool.feePerLiquidity[t],
         NEW x \in Positions, NEW d \in Int, FeesMove(t, x, d)
  PROVE  /\ FeeDue'[t][x] = FeeDue[t][x] + d
         /\ FeeOwed'[t][x] <= FeeOwed[t][x] + d * LiquidityScale
<1> DEFINE L == TotalLiquidity(position[x])
           M == TotalLiquidity(position'[x])
           pending == position[x].feePending[t]
           pending2 == position'[x].feePending[t]
           gap  == pool.feePerLiquidity[t] - position[x].feeCheckpoint[t]
           gap2 == pool.feePerLiquidity[t] - position'[x].feeCheckpoint[t]
           due == FeeDue[t][x]
           owed == FeeOwed[t][x]
<1>1. /\ due = pending + (L * gap) \div LiquidityScale
      /\ owed = pending * LiquidityScale + L * gap
      /\ due \in Nat /\ owed \in Nat /\ due * LiquidityScale <= owed
      /\ L \in Nat /\ gap \in Nat /\ pending \in Nat
      /\ pool.feePerLiquidity[t] \in Nat
  BY FeesNow DEF FeesAre
<1>2. /\ FeeDue'[t][x] = pending2 + (M * gap2) \div LiquidityScale
      /\ FeeOwed'[t][x] = pending2 * LiquidityScale + M * gap2
      /\ M \in Nat /\ gap2 \in Nat /\ pending2 \in Nat
  BY FeesNext DEF FeesAre, TotalLiquidity
<1>3. LiquidityScale \in Nat \ {0}
  BY ScalesPositive
<1>4. \/ d = 0 /\ pending2 = pending /\ M = 0 /\ L = 0
      \/ d = 0 /\ pending2 = pending /\ M = L /\ gap2 = gap
      \/ pending2 = due + d /\ gap2 = 0
  BY <1>1 DEF FeesMove, NoLiquidity, SameLiquidity
<1> HIDE DEF L, M, pending, pending2, gap, gap2, due, owed
<1>5. CASE d = 0 /\ pending2 = pending /\ M * gap2 = L * gap
  <2>1. FeeDue'[t][x] = due /\ FeeOwed'[t][x] = owed /\ d * LiquidityScale = 0
    BY <1>1, <1>2, <1>3, <1>5, NothingAccrues
  <2> QED BY <1>1, <1>5, <2>1 DEF due, owed
<1>6. CASE pending2 = due + d /\ gap2 = 0
  <2>1. M * gap2 = 0 /\ (M * gap2) \div LiquidityScale = 0
    BY <1>2, <1>3, <1>6, NothingAccrues
  <2>2. FeeDue'[t][x] = due + d /\ FeeOwed'[t][x] = (due + d) * LiquidityScale
    BY <1>1, <1>2, <1>3, <1>6, <2>1
  <2>3. (due + d) * LiquidityScale = due * LiquidityScale + d * LiquidityScale
    BY <1>1, <1>3
  <2>4. due * LiquidityScale \in Int /\ d * LiquidityScale \in Int
    BY <1>1, <1>3
  <2>5. FeeOwed'[t][x] <= owed + d * LiquidityScale
    BY <1>1, <2>2, <2>3, <2>4
  <2> QED BY <2>2, <2>5 DEF due, owed
<1>7. M = 0 /\ L = 0 => M * gap2 = L * gap
  BY <1>1, <1>2, NothingAccrues
<1> QED BY <1>4, <1>5, <1>6, <1>7

\* The same of a reward, as long as its accumulator, brought up to the
\* present, stands still.
LEMMA RewardsMoveBy ==
  ASSUME IInv, IInv', Dormant, Dormant', Stored' = Stored,
         NEW r \in Rewards, NEW x \in Positions, NEW d \in Int,
         RewardsMove(r, x, d)
  PROVE  /\ RewardDue'[r][x] = RewardDue[r][x] + d
         /\ RewardOwed'[r][x] <= RewardOwed[r][x] + d * TotalRewardScale
<1> DEFINE L == TotalLiquidity(position[x])
           M == TotalLiquidity(position'[x])
           pending == position[x].rewardPending[r]
           pending2 == position'[x].rewardPending[r]
           gap  == Stored[r] - position[x].rewardCheckpoint[r]
           gap2 == Stored[r] - position'[x].rewardCheckpoint[r]
           due == RewardDue[r][x]
           owed == RewardOwed[r][x]
<1>1. /\ due = pending + (L * gap) \div TotalRewardScale
      /\ owed = pending * TotalRewardScale + L * gap
      /\ due \in Nat /\ owed \in Nat /\ due * TotalRewardScale <= owed
      /\ L \in Nat /\ gap \in Nat /\ pending \in Nat
      /\ Stored[r] \in Nat
  BY RewardsNow DEF RewardsAre
<1>2. /\ RewardDue'[r][x] = pending2 + (M * gap2) \div TotalRewardScale
      /\ RewardOwed'[r][x] = pending2 * TotalRewardScale + M * gap2
      /\ M \in Nat /\ gap2 \in Nat /\ pending2 \in Nat
  BY RewardsNext DEF RewardsAre, TotalLiquidity, TotalRewardScale
<1>3. TotalRewardScale \in Nat \ {0}
  BY ScalesPositive
<1>4. \/ d = 0 /\ pending2 = pending /\ M = 0 /\ L = 0
      \/ d = 0 /\ pending2 = pending /\ M = L /\ gap2 = gap
      \/ pending2 = due + d /\ gap2 = 0
  BY <1>1 DEF RewardsMove, NoLiquidity, SameLiquidity
<1> HIDE DEF L, M, pending, pending2, gap, gap2, due, owed
<1>5. CASE d = 0 /\ pending2 = pending /\ M * gap2 = L * gap
  <2>1. RewardDue'[r][x] = due /\ RewardOwed'[r][x] = owed
        /\ d * TotalRewardScale = 0
    BY <1>1, <1>2, <1>3, <1>5, NothingAccrues
  <2> QED BY <1>1, <1>5, <2>1 DEF due, owed
<1>6. CASE pending2 = due + d /\ gap2 = 0
  <2>1. M * gap2 = 0 /\ (M * gap2) \div TotalRewardScale = 0
    BY <1>2, <1>3, <1>6, NothingAccrues
  <2>2. RewardDue'[r][x] = due + d /\ RewardOwed'[r][x] = (due + d) * TotalRewardScale
    BY <1>1, <1>2, <1>3, <1>6, <2>1
  <2>3. (due + d) * TotalRewardScale = due * TotalRewardScale + d * TotalRewardScale
    BY <1>1, <1>3
  <2>4. due * TotalRewardScale \in Int /\ d * TotalRewardScale \in Int
    BY <1>1, <1>3
  <2>5. RewardOwed'[r][x] <= owed + d * TotalRewardScale
    BY <1>1, <2>2, <2>3, <2>4
  <2> QED BY <2>2, <2>5 DEF due, owed
<1>7. M = 0 /\ L = 0 => M * gap2 = L * gap
  BY <1>1, <1>2, NothingAccrues
<1> QED BY <1>4, <1>5, <1>6, <1>7

-----------------------------------------------------------------------------
\* Sums over positions that change by h.
LEMMA SumMoves ==
  ASSUME NEW f, NEW g, NEW h,
         \A x \in Positions :
           /\ f[x] \in Int /\ g[x] \in Int /\ h[x] \in Int
           /\ g[x] = f[x] + h[x]
  PROVE  /\ PositionSum(g) = PositionSum(f) + PositionSum(h)
         /\ PositionSum(f) \in Int /\ PositionSum(h) \in Int
<1>1. \A x \in Positions :
        f[x] \in Int /\ h[x] \in Int /\ g[x] = f[x] + 1 * h[x]
  OBVIOUS
<1>2. PositionSum(g) = PositionSum(f) + 1 * PositionSum(h)
  <2>1. Sum(g, Positions) = Sum(f, Positions) + 1 * Sum(h, Positions)
    <3>1. 1 \in Int
      OBVIOUS
    <3> QED BY <1>1, <3>1, FiniteAssumption, SumLinear
  <2> QED BY <2>1 DEF PositionSum, Sum
<1>3. PositionSum(f) \in Int /\ PositionSum(h) \in Int
  BY PositionSumInt
<1> QED BY <1>2, <1>3

\* The same when each position moves by at most h, in other units.
LEMMA SumMovesAtMost ==
  ASSUME NEW f, NEW g, NEW h, NEW k \in Int,
         \A x \in Positions :
           /\ f[x] \in Int /\ g[x] \in Int /\ h[x] \in Int
           /\ g[x] <= f[x] + h[x] * k
  PROVE  PositionSum(g) <= PositionSum(f) + PositionSum(h) * k
<1> DEFINE b == [x \in Positions |-> f[x] + k * h[x]]
<1>1. \A x \in Positions :
        /\ f[x] \in Int /\ h[x] \in Int /\ b[x] = f[x] + k * h[x]
        /\ b[x] \in Int /\ g[x] <= b[x] /\ g[x] \in Int
  OBVIOUS
<1> HIDE DEF b
<1>2. PositionSum(b) = PositionSum(f) + k * PositionSum(h)
  BY <1>1, FiniteAssumption, SumLinear DEF PositionSum, Sum
<1>3. PositionSum(g) <= PositionSum(b)
  BY <1>1, PositionSumLe
<1>4. PositionSum(h) \in Int
  BY PositionSumInt
<1>5. k * PositionSum(h) = PositionSum(h) * k
  BY <1>4
<1> QED BY <1>2, <1>3, <1>5

\* A change at one position, or from one to another.
At(p, d) == [x \in Positions |-> IF x = p THEN d ELSE 0]
FromTo(p, q, d) ==
  [x \in Positions |-> IF x = p THEN -d ELSE IF x = q THEN d ELSE 0]
Nothing == [x \in Positions |-> 0]

\* What such changes add up to.
LEMMA SumOfMoves ==
  /\ PositionSum(Nothing) = 0
  /\ \A p \in Positions, d \in Int : PositionSum(At(p, d)) = d
  /\ \A p, q \in Positions, d \in Int :
       p # q => PositionSum(FromTo(p, q, d)) = 0
<1>1. PositionSum(Nothing) = 0 /\ \A x \in Positions : Nothing[x] = 0
  <2>1. \A x \in Positions : Nothing[x] = 0
    BY DEF Nothing
  <2> QED BY <2>1, PositionSumZero
<1>2. ASSUME NEW p \in Positions, NEW d \in Int
      PROVE  PositionSum(At(p, d)) = d
  <2> DEFINE h == At(p, d)
  <2>1. /\ h[p] = d /\ h[p] \in Int
        /\ \A x \in Positions \ {p} : h[x] = Nothing[x]
    BY <1>1 DEF At
  <2>0. \A x \in Positions : Nothing[x] \in Int
    BY <1>1
  <2> HIDE DEF h
  <2>2. PositionSum(h) = PositionSum(Nothing) + (h[p] - Nothing[p])
    BY <2>0, <2>1, PositionSumChange
  <2>3. PositionSum(h) = d
    BY <1>1, <2>1, <2>2
  <2> QED BY <2>3 DEF h
<1>3. ASSUME NEW p \in Positions, NEW q \in Positions, p # q, NEW d \in Int
      PROVE  PositionSum(FromTo(p, q, d)) = 0
  <2> DEFINE h == FromTo(p, q, d)
  <2>1. /\ h[p] = -d /\ h[q] = d /\ h[p] \in Int /\ h[q] \in Int
        /\ \A x \in Positions \ {p, q} : h[x] = Nothing[x]
    BY <1>1, <1>3 DEF FromTo
  <2>0. \A x \in Positions : Nothing[x] \in Int
    BY <1>1
  <2> HIDE DEF h
  <2>2. PositionSum(h)
          = PositionSum(Nothing) + (h[p] - Nothing[p]) + (h[q] - Nothing[q])
    BY <1>3, <2>0, <2>1, PositionSumChangeTwo
  <2>3. PositionSum(h) = 0
    BY <1>1, <2>1, <2>2
  <2> QED BY <2>3 DEF h
<1> QED BY <1>1, <1>2, <1>3

\* The fees of all positions, and their rewards, when each moves by h.
LEMMA FeeTotalsMove ==
  ASSUME IInv, IInv', NEW t \in Tokens, NEW h,
         pool'.feePerLiquidity[t] = pool.feePerLiquidity[t],
         \A x \in Positions : h[x] \in Int /\ FeesMove(t, x, h[x])
  PROVE  /\ PositionSum(FeeDue'[t]) = PositionSum(FeeDue[t]) + PositionSum(h)
         /\ PositionSum(FeeOwed'[t])
              <= PositionSum(FeeOwed[t]) + PositionSum(h) * LiquidityScale
         /\ PositionSum(h) \in Int
<1> DEFINE due == FeeDue[t]
           owed == FeeOwed[t]
           due2 == FeeDue'[t]
           owed2 == FeeOwed'[t]
<1>1. \A x \in Positions : due[x] \in Nat /\ owed[x] \in Nat
  BY FeesNow DEF FeesAre
<1>2. \A x \in Positions : due2[x] \in Nat /\ owed2[x] \in Nat
  BY FeesNext DEF FeesAre
<1>3. \A x \in Positions :
        /\ due2[x] = due[x] + h[x]
        /\ owed2[x] <= owed[x] + h[x] * LiquidityScale
  BY FeesMoveBy
<1>4. LiquidityScale \in Int
  BY ScalesPositive
<1> HIDE DEF due, due2, owed, owed2
<1>5. PositionSum(due2) = PositionSum(due) + PositionSum(h)
      /\ PositionSum(h) \in Int
  BY <1>1, <1>2, <1>3, SumMoves
<1>6. PositionSum(owed2) <= PositionSum(owed) + PositionSum(h) * LiquidityScale
  BY <1>1, <1>2, <1>3, <1>4, SumMovesAtMost
<1> QED BY <1>5, <1>6 DEF due, due2, owed, owed2

\* The same of the rewards.
LEMMA RewardTotalsMove ==
  ASSUME IInv, IInv', Dormant, Dormant', Stored' = Stored,
         NEW r \in Rewards, NEW h,
         \A x \in Positions : h[x] \in Int /\ RewardsMove(r, x, h[x])
  PROVE  /\ PositionSum(RewardDue'[r]) = PositionSum(RewardDue[r]) + PositionSum(h)
         /\ PositionSum(RewardOwed'[r])
              <= PositionSum(RewardOwed[r]) + PositionSum(h) * TotalRewardScale
         /\ PositionSum(h) \in Int
<1> DEFINE due == RewardDue[r]
           owed == RewardOwed[r]
           due2 == RewardDue'[r]
           owed2 == RewardOwed'[r]
<1>1. \A x \in Positions : due[x] \in Nat /\ owed[x] \in Nat
  BY RewardsNow DEF RewardsAre
<1>2. \A x \in Positions : due2[x] \in Nat /\ owed2[x] \in Nat
  BY RewardsNext DEF RewardsAre
<1>3. \A x \in Positions :
        /\ due2[x] = due[x] + h[x]
        /\ owed2[x] <= owed[x] + h[x] * TotalRewardScale
  BY RewardsMoveBy
<1>4. TotalRewardScale \in Int
  BY ScalesPositive
<1> HIDE DEF due, due2, owed, owed2
<1>5. PositionSum(due2) = PositionSum(due) + PositionSum(h)
      /\ PositionSum(h) \in Int
  BY <1>1, <1>2, <1>3, SumMoves
<1>6. PositionSum(owed2) <= PositionSum(owed) + PositionSum(h) * TotalRewardScale
  BY <1>1, <1>2, <1>3, <1>4, SumMovesAtMost
<1> QED BY <1>5, <1>6 DEF due, due2, owed, owed2

-----------------------------------------------------------------------------
\* What each instruction does to the accounts of the positions.

\* Nothing is settled and nothing is owed differently.
Kept(x) ==
  /\ position'[x].feePending = position[x].feePending
  /\ position'[x].rewardPending = position[x].rewardPending
  /\ \/ NoLiquidity(x)
     \/ /\ SameLiquidity(x)
        /\ position'[x].feeCheckpoint = position[x].feeCheckpoint
        /\ position'[x].rewardCheckpoint = position[x].rewardCheckpoint

EachKept == \A x \in Positions : Kept(x)

\* Fees and rewards of each position move by the numbers given.
PositionsMove(fees, rewards) ==
  \A x \in Positions :
    /\ \A t \in Tokens : FeesMove(t, x, fees[t][x])
    /\ \A r \in Rewards : RewardsMove(r, x, rewards[r][x])

\* Fees and rewards move between positions at most.
Balanced(fees, rewards) ==
  /\ fees \in [Tokens -> [Positions -> Int]]
  /\ rewards \in [Rewards -> [Positions -> Int]]
  /\ \A t \in Tokens : PositionSum(fees[t]) = 0
  /\ \A r \in Rewards : PositionSum(rewards[r]) = 0

OnlyMoves == \E fees, rewards : Balanced(fees, rewards) /\ PositionsMove(fees, rewards)

\* A step may leave every position as it is.
LEMMA NothingMoves ==
  ASSUME \A x \in Positions :
           /\ \A t \in Tokens : FeesMove(t, x, 0)
           /\ \A r \in Rewards : RewardsMove(r, x, 0)
  PROVE  OnlyMoves
<1> DEFINE fees == [t \in Tokens |-> Nothing]
           rewards == [r \in Rewards |-> Nothing]
<1>1. /\ fees \in [Tokens -> [Positions -> Int]]
      /\ rewards \in [Rewards -> [Positions -> Int]]
      /\ \A t \in Tokens : fees[t] = Nothing
      /\ \A r \in Rewards : rewards[r] = Nothing
      /\ \A x \in Positions : Nothing[x] = 0
  BY DEF Nothing
<1> HIDE DEF fees, rewards
<1>2. Balanced(fees, rewards)
  BY <1>1, SumOfMoves DEF Balanced
<1>3. PositionsMove(fees, rewards)
  BY <1>1 DEF PositionsMove
<1> QED BY <1>2, <1>3 DEF OnlyMoves

\* A position that is kept moves by nothing.
LEMMA KeptMoves ==
  ASSUME NEW x \in Positions, Kept(x)
  PROVE  /\ \A t \in Tokens : FeesMove(t, x, 0)
         /\ \A r \in Rewards : RewardsMove(r, x, 0)
BY DEF Kept, FeesMove, RewardsMove

\* So does everything when all are kept.
LEMMA AllKept ==
  ASSUME EachKept
  PROVE  OnlyMoves
BY KeptMoves, NothingMoves DEF EachKept

\* One position is replaced.
LEMMA Replaced ==
  ASSUME IInv, NEW p \in Positions, NEW pos,
         position' = [position EXCEPT ![p] = pos]
  PROVE  /\ position'[p] = pos
         /\ \A x \in Positions \ {p} : position'[x] = position[x] /\ Kept(x)
<1>1. position' [p] = pos /\ \A x \in Positions \ {p} : position'[x] = position[x]
  BY DEF IInv, TypeOK
<1> QED BY <1>1 DEF Kept, SameLiquidity

\* One position is replaced by one with the same claims.
LEMMA OneKept ==
  ASSUME IInv, NEW p \in Positions, NEW pos,
         position' = [position EXCEPT ![p] = pos],
         pos.feePending = position[p].feePending,
         pos.rewardPending = position[p].rewardPending,
         \/ TotalLiquidity(pos) = 0 /\ TotalLiquidity(position[p]) = 0
         \/ /\ TotalLiquidity(pos) = TotalLiquidity(position[p])
            /\ pos.feeCheckpoint = position[p].feeCheckpoint
            /\ pos.rewardCheckpoint = position[p].rewardCheckpoint
  PROVE  EachKept
<1>1. Kept(p)
  BY Replaced DEF Kept, NoLiquidity, SameLiquidity
<1> QED BY <1>1, Replaced DEF EachKept

\* A new position starts with checkpoints of zero, far behind the pool's
\* accumulators, but without liquidity there is nothing to accrue.
LEMMA CreatePositionOwes ==
  ASSUME IInv, ClosedZero, NEW p \in Positions, CreatePosition(p)
  PROVE  EachKept
<1>1. /\ position' = [position EXCEPT ![p] = NewPosition(0)]
      /\ position[p] = NoPosition
  BY DEF CreatePosition, ClosedZero
<1>2. /\ NewPosition(0).feePending = NoPosition.feePending
      /\ NewPosition(0).rewardPending = NoPosition.rewardPending
      /\ TotalLiquidity(NewPosition(0)) = 0 /\ TotalLiquidity(NoPosition) = 0
  BY DEF NewPosition, NoPosition, TotalLiquidity
<1>3. EachKept
  BY <1>1, <1>2, OneKept
<1> QED BY <1>3

\* A position that is closed is owed nothing (is_empty), without being
\* settled: it has no liquidity.
LEMMA ClosePositionOwes ==
  ASSUME IInv, NEW p \in Positions, ClosePosition(p)
  PROVE  EachKept
<1>1. /\ position' = [position EXCEPT ![p] = NoPosition]
      /\ TotalLiquidity(position[p]) = 0
      /\ \A t \in Tokens : position[p].feePending[t] = 0
      /\ \A r \in Rewards : position[p].rewardPending[r] = 0
  BY DEF ClosePosition, IsEmpty
<1>2. /\ NoPosition.feePending = [t \in Tokens |-> 0]
      /\ NoPosition.rewardPending = [r \in Rewards |-> 0]
      /\ TotalLiquidity(NoPosition) = 0
  BY DEF NoPosition, TotalLiquidity
<1>3. /\ position[p].feePending = [t \in Tokens |-> 0]
      /\ position[p].rewardPending = [r \in Rewards |-> 0]
  <2>1. /\ position[p].feePending \in [Tokens -> Nat]
        /\ position[p].rewardPending \in [Rewards -> Nat]
    BY DEF IInv, TypeOK, PositionRecord
  <2> QED BY <1>1, <2>1
<1>4. EachKept
  BY <1>1, <1>2, <1>3, OneKept
<1> QED BY <1>4

\* The three locks move liquidity between the classes of one position.
LEMMA ReclassifiedOwes ==
  ASSUME IInv, NEW p \in Positions, NEW u \in Int, NEW v \in Int, NEW m \in Int,
         u + v + m = TotalLiquidity(position[p]),
         position' = [position EXCEPT ![p] =
                        [position[p] EXCEPT !.unlocked = u, !.vested = v,
                                            !.permanent = m]]
  PROVE  EachKept
<1> DEFINE pos == [position[p] EXCEPT !.unlocked = u, !.vested = v,
                                      !.permanent = m]
<1>1. /\ pos.unlocked = u /\ pos.vested = v /\ pos.permanent = m
      /\ pos.feePending = position[p].feePending
      /\ pos.rewardPending = position[p].rewardPending
      /\ pos.feeCheckpoint = position[p].feeCheckpoint
      /\ pos.rewardCheckpoint = position[p].rewardCheckpoint
  BY DEF IInv, TypeOK, PositionRecord
<1>2. position' = [position EXCEPT ![p] = pos]
  OBVIOUS
<1> HIDE DEF pos
<1>3. TotalLiquidity(pos) = TotalLiquidity(position[p])
  BY <1>1 DEF TotalLiquidity
<1> QED BY <1>1, <1>2, <1>3, OneKept

\* The last of two values written to the same place stays.
LEMMA Overwritten ==
  ASSUME NEW f, NEW p, NEW x, NEW y
  PROVE  [[f EXCEPT ![p] = x] EXCEPT ![p] = y] = [f EXCEPT ![p] = y]
OBVIOUS

\* Locking, releasing and locking for ever keep the total of a position.
LEMMA LockStepsOwe ==
  ASSUME IInv, NEW p \in Positions, NEW n \in Int,
         \/ position' = [position EXCEPT ![p].unlocked = @ - n,
                                         ![p].vested   = @ + n]
         \/ position' = [position EXCEPT ![p].unlocked = @ + n,
                                         ![p].vested   = @ - n]
         \/ position' = [position EXCEPT ![p].unlocked  = @ - n,
                                         ![p].permanent = @ + n]
  PROVE  EachKept
<1> DEFINE pos == position[p]
           new(u, v, m) == [pos EXCEPT !.unlocked = u, !.vested = v, !.permanent = m]
<1>1. /\ pos \in PositionRecord
      /\ pos.unlocked \in Int /\ pos.vested \in Int /\ pos.permanent \in Int
  BY DEF IInv, TypeOK, PositionRecord
<1>2. \/ position' = [position EXCEPT ![p] =
                        new(pos.unlocked - n, pos.vested + n, pos.permanent)]
      \/ position' = [position EXCEPT ![p] =
                        new(pos.unlocked + n, pos.vested - n, pos.permanent)]
      \/ position' = [position EXCEPT ![p] =
                        new(pos.unlocked - n, pos.vested, pos.permanent + n)]
  <2>0. position \in [Positions -> PositionRecord]
    BY DEF IInv, TypeOK
  <2>1. [[position EXCEPT ![p].unlocked = @ - n] EXCEPT ![p].vested = @ + n]
          = [position EXCEPT ![p] =
               new(pos.unlocked - n, pos.vested + n, pos.permanent)]
    <3> DEFINE once == [pos EXCEPT !.unlocked = @ - n]
    <3>1. [position EXCEPT ![p].unlocked = @ - n] = [position EXCEPT ![p] = once]
      OBVIOUS
    <3>2. [once EXCEPT !.vested = @ + n] = new(pos.unlocked - n, pos.vested + n, pos.permanent)
      BY <1>1 DEF PositionRecord
    <3>3. [position EXCEPT ![p] = once][p] = once
      BY <2>0
    <3> HIDE DEF once, new
    <3> QED BY <2>0, <3>1, <3>2, <3>3, Overwritten
  <2>2. [[position EXCEPT ![p].unlocked = @ + n] EXCEPT ![p].vested = @ - n]
          = [position EXCEPT ![p] =
               new(pos.unlocked + n, pos.vested - n, pos.permanent)]
    <3> DEFINE once == [pos EXCEPT !.unlocked = @ + n]
    <3>1. [position EXCEPT ![p].unlocked = @ + n] = [position EXCEPT ![p] = once]
      OBVIOUS
    <3>2. [once EXCEPT !.vested = @ - n] = new(pos.unlocked + n, pos.vested - n, pos.permanent)
      BY <1>1 DEF PositionRecord
    <3>3. [position EXCEPT ![p] = once][p] = once
      BY <2>0
    <3> HIDE DEF once, new
    <3> QED BY <2>0, <3>1, <3>2, <3>3, Overwritten
  <2>3. [[position EXCEPT ![p].unlocked = @ - n] EXCEPT ![p].permanent = @ + n]
          = [position EXCEPT ![p] =
               new(pos.unlocked - n, pos.vested, pos.permanent + n)]
    <3> DEFINE once == [pos EXCEPT !.unlocked = @ - n]
    <3>1. [position EXCEPT ![p].unlocked = @ - n] = [position EXCEPT ![p] = once]
      OBVIOUS
    <3>2. [once EXCEPT !.permanent = @ + n] = new(pos.unlocked - n, pos.vested, pos.permanent + n)
      BY <1>1 DEF PositionRecord
    <3>3. [position EXCEPT ![p] = once][p] = once
      BY <2>0
    <3> HIDE DEF once, new
    <3> QED BY <2>0, <3>1, <3>2, <3>3, Overwritten
  <2> QED BY <2>1, <2>2, <2>3
<1>3. TotalLiquidity(pos) = pos.unlocked + pos.vested + pos.permanent
  BY DEF TotalLiquidity
<1>4. PICK u \in Int, v \in Int, m \in Int :
        /\ position' = [position EXCEPT ![p] = new(u, v, m)]
        /\ u + v + m = TotalLiquidity(pos)
  <2> HIDE DEF new, pos
  <2>1. /\ pos.unlocked - n \in Int /\ pos.unlocked + n \in Int
        /\ pos.vested - n \in Int /\ pos.vested + n \in Int
        /\ pos.permanent + n \in Int
        /\ (pos.unlocked - n) + (pos.vested + n) + pos.permanent = TotalLiquidity(pos)
        /\ (pos.unlocked + n) + (pos.vested - n) + pos.permanent = TotalLiquidity(pos)
        /\ (pos.unlocked - n) + pos.vested + (pos.permanent + n) = TotalLiquidity(pos)
    BY <1>1, <1>3
  <2> QED BY <1>1, <1>2, <2>1
<1> QED BY <1>4, ReclassifiedOwes

\* Adding and removing liquidity settles the position first.
LEMMA SettledOneMoves ==
  ASSUME IInv, Dormant, NEW p \in Positions, NEW n,
         position' = [position EXCEPT ![p] = [Settled(p) EXCEPT !.unlocked = n]]
  PROVE  OnlyMoves
<1> DEFINE first == Settled(p)
           pos == [first EXCEPT !.unlocked = n]
<1>1. first \in PositionRecord
  BY SettledSound
<1>2. /\ pos.feePending = first.feePending
      /\ pos.feeCheckpoint = first.feeCheckpoint
      /\ pos.rewardPending = first.rewardPending
      /\ pos.rewardCheckpoint = first.rewardCheckpoint
  <2> HIDE DEF first
  <2> QED BY <1>1 DEF PositionRecord
<1>3. /\ position'[p] = pos
      /\ \A x \in Positions \ {p} : position'[x] = position[x] /\ Kept(x)
  <2>1. position' = [position EXCEPT ![p] = pos]
    OBVIOUS
  <2> HIDE DEF pos
  <2> QED BY <2>1, Replaced
<1>4. /\ \A t \in Tokens :
           FeeDue[t][p] \in Nat /\ first.feePending[t] = FeeDue[t][p]
           /\ first.feeCheckpoint[t] = pool.feePerLiquidity[t]
      /\ \A r \in Rewards :
           RewardDue[r][p] \in Nat /\ first.rewardPending[r] = RewardDue[r][p]
           /\ first.rewardCheckpoint[r] = Stored[r]
  BY SettledIs, FeesNow, RewardsNow DEF FeesAre, RewardsAre
<1> HIDE DEF first, pos
<1>5. ASSUME NEW t \in Tokens
      PROVE  FeesMove(t, p, 0)
  <2>1. /\ position'[p].feePending[t] = FeeDue[t][p]
        /\ position'[p].feeCheckpoint[t] = pool.feePerLiquidity[t]
    BY <1>2, <1>3, <1>4
  <2>2. FeeDue[t][p] + 0 = FeeDue[t][p]
    BY <1>4
  <2> QED BY <2>1, <2>2, Zenon DEF FeesMove
<1>6. ASSUME NEW r \in Rewards
      PROVE  RewardsMove(r, p, 0)
  <2>1. /\ position'[p].rewardPending[r] = RewardDue[r][p]
        /\ position'[p].rewardCheckpoint[r] = Stored[r]
    BY <1>2, <1>3, <1>4
  <2>2. RewardDue[r][p] + 0 = RewardDue[r][p]
    BY <1>4
  <2> QED BY <2>1, <2>2, Zenon DEF RewardsMove
<1> QED BY <1>3, <1>5, <1>6, KeptMoves, NothingMoves

\* A split settles both positions; what leaves one arrives in the other.
LEMMA SplitPositionOnlyMoves ==
  ASSUME IInv, Dormant, NEW p \in Positions, NEW q \in Positions,
         NEW share \in SplitShares, SplitPosition(p, q, share)
  PROVE  OnlyMoves
<1>1. PICK n \in 0..position[p].unlocked, m \in 0..position[p].permanent,
           fee \in [Tokens -> Nat], rew \in [Rewards -> Nat] :
        SplitMoves(p, q, n, m, fee, rew)
  BY SplitPositionMoves
<1>2. p # q
  BY DEF SplitPosition
<1> DEFINE fees == [t \in Tokens |-> FromTo(p, q, fee[t])]
           rewards == [r \in Rewards |-> FromTo(p, q, rew[r])]
<1>3. /\ \A t \in Tokens : fee[t] \in Int /\ fees[t] = FromTo(p, q, fee[t])
      /\ \A r \in Rewards : rew[r] \in Int /\ rewards[r] = FromTo(p, q, rew[r])
  OBVIOUS
<1>4. ASSUME NEW d \in Int
      PROVE  /\ FromTo(p, q, d) \in [Positions -> Int]
             /\ FromTo(p, q, d)[p] = -d /\ FromTo(p, q, d)[q] = d
             /\ \A x \in Positions \ {p, q} : FromTo(p, q, d)[x] = 0
  BY <1>2 DEF FromTo
<1>5. Balanced(fees, rewards)
  <2>1. /\ fees \in [Tokens -> [Positions -> Int]]
        /\ rewards \in [Rewards -> [Positions -> Int]]
    BY <1>3, <1>4
  <2> HIDE DEF fees, rewards
  <2> QED BY <1>2, <1>3, <2>1, SumOfMoves DEF Balanced
<1>6. PositionsMove(fees, rewards)
  <2> HIDE DEF fees, rewards
  <2>1. ASSUME NEW x \in Positions \ {p, q}
        PROVE  /\ \A t \in Tokens : FeesMove(t, x, fees[t][x])
               /\ \A r \in Rewards : RewardsMove(r, x, rewards[r][x])
    <3>1. position'[x] = position[x]
      BY <1>1 DEF SplitMoves
    <3>2. Kept(x)
      BY <3>1 DEF Kept, SameLiquidity
    <3>3. /\ \A t \in Tokens : FeesMove(t, x, 0)
          /\ \A r \in Rewards : RewardsMove(r, x, 0)
      BY <3>2, KeptMoves
    <3> QED BY <1>3, <1>4, <3>3
  <2>2. /\ \A t \in Tokens :
             /\ FeeDue[t][p] \in Nat /\ FeeDue[t][q] \in Nat
             /\ Settled(p).feePending[t] = FeeDue[t][p]
             /\ Settled(q).feePending[t] = FeeDue[t][q]
             /\ Settled(p).feeCheckpoint[t] = pool.feePerLiquidity[t]
             /\ Settled(q).feeCheckpoint[t] = pool.feePerLiquidity[t]
        /\ \A r \in Rewards :
             /\ RewardDue[r][p] \in Nat /\ RewardDue[r][q] \in Nat
             /\ Settled(p).rewardPending[r] = RewardDue[r][p]
             /\ Settled(q).rewardPending[r] = RewardDue[r][q]
             /\ Settled(p).rewardCheckpoint[r] = Stored[r]
             /\ Settled(q).rewardCheckpoint[r] = Stored[r]
    BY SettledIs, FeesNow, RewardsNow DEF FeesAre, RewardsAre
  <2>3. ASSUME NEW t \in Tokens
        PROVE  FeesMove(t, p, fees[t][p]) /\ FeesMove(t, q, fees[t][q])
    <3>1. fees[t][p] = -fee[t] /\ fees[t][q] = fee[t]
      BY <1>3, <1>4
    <3>2. /\ position'[p].feePending[t] = FeeDue[t][p] + fees[t][p]
          /\ position'[q].feePending[t] = FeeDue[t][q] + fees[t][q]
          /\ position'[p].feeCheckpoint[t] = pool.feePerLiquidity[t]
          /\ position'[q].feeCheckpoint[t] = pool.feePerLiquidity[t]
      BY <1>1, <1>3, <2>2, <3>1 DEF SplitMoves
    <3> QED BY <3>2 DEF FeesMove
  <2>4. ASSUME NEW r \in Rewards
        PROVE  RewardsMove(r, p, rewards[r][p]) /\ RewardsMove(r, q, rewards[r][q])
    <3>1. rewards[r][p] = -rew[r] /\ rewards[r][q] = rew[r]
      BY <1>3, <1>4
    <3>2. /\ position'[p].rewardPending[r] = RewardDue[r][p] + rewards[r][p]
          /\ position'[q].rewardPending[r] = RewardDue[r][q] + rewards[r][q]
          /\ position'[p].rewardCheckpoint[r] = Stored[r]
          /\ position'[q].rewardCheckpoint[r] = Stored[r]
      BY <1>1, <1>3, <2>2, <3>1 DEF SplitMoves
    <3> QED BY <3>2 DEF RewardsMove
  <2> QED BY <2>1, <2>3, <2>4 DEF PositionsMove
<1> QED BY <1>5, <1>6 DEF OnlyMoves

\* No instruction on positions creates or forfeits anything.
LEMMA PositionStepMoves ==
  ASSUME IInv, ClosedZero, Dormant, PositionStep
  PROVE  /\ OnlyMoves
         /\ \/ reward' = AccruedRewards
            \/ reward' = reward /\ pool'.liquidity = pool.liquidity /\ EachKept
<1>1. ASSUME NEW p \in Positions, CreatePosition(p) \/ ClosePosition(p)
      PROVE  reward' = reward /\ pool'.liquidity = pool.liquidity /\ EachKept
  <2>1. reward' = reward /\ pool' = pool
    BY <1>1 DEF CreatePosition, ClosePosition
  <2>2. EachKept
    BY <1>1, CreatePositionOwes, ClosePositionOwes
  <2> QED BY <2>1, <2>2
<1>2. ASSUME NEW p \in Positions, NEW d,
             AddLiquidity(p, d) \/ RemoveLiquidity(p, d)
      PROVE  reward' = AccruedRewards /\ OnlyMoves
  <2>1. \E n : position' = [position EXCEPT ![p] =
                              [Settled(p) EXCEPT !.unlocked = n]]
    BY <1>2 DEF AddLiquidity, RemoveLiquidity
  <2> QED BY <1>2, <2>1, SettledOneMoves DEF AddLiquidity, RemoveLiquidity
<1>3. ASSUME NEW p \in Positions, NEW q \in Positions, NEW s \in SplitShares,
             SplitPosition(p, q, s)
      PROVE  reward' = AccruedRewards /\ OnlyMoves
  BY <1>3, SplitPositionOnlyMoves DEF SplitPosition
<1>4. ASSUME NEW p \in Positions, NEW id \in VestingIds, NEW s \in Schedules,
             LockPosition(p, id, s)
      PROVE  reward' = reward /\ pool'.liquidity = pool.liquidity /\ EachKept
  <2> DEFINE v == [id |-> id, position |-> p, cliff |-> s.cliff,
                   frequency |-> s.frequency, cliffUnlock |-> s.cliffUnlock,
                   perPeriod |-> s.perPeriod, periods |-> s.periods,
                   released |-> 0]
  <2>1. position' = [position EXCEPT ![p].unlocked = @ - TotalLock(v),
                                     ![p].vested   = @ + TotalLock(v)]
    BY <1>4 DEF LockPosition
  <2>2. v \in VestingRecord
    BY InputAssumption DEF VestingRecord
  <2>3. TotalLock(v) \in Int
    BY <2>2, TotalLockNat
  <2>4. reward' = reward /\ pool' = pool
    BY <1>4 DEF LockPosition
  <2> HIDE DEF v
  <2> QED BY <2>1, <2>3, <2>4, LockStepsOwe
<1>5. ASSUME NEW v \in vestings, RefreshVesting(v)
      PROVE  reward' = reward /\ pool'.liquidity = pool.liquidity /\ EachKept
  <2>1. position' = [position EXCEPT ![v.position].unlocked = @ + NewRelease(v),
                                     ![v.position].vested   = @ - NewRelease(v)]
    BY <1>5 DEF RefreshVesting
  <2>2. v \in VestingRecord
    BY DEF IInv, TypeOK
  <2>3. v.position \in Positions /\ NewRelease(v) \in Int
    <3>1. v.released \in Nat /\ MaxUnlocked(v, now) \in Nat /\ v.position \in Positions
      BY <2>2, MaxUnlockedNat DEF VestingRecord, IInv, TypeOK
    <3> QED BY <3>1 DEF NewRelease
  <2>4. reward' = reward /\ pool' = pool
    BY <1>5 DEF RefreshVesting
  <2> QED BY <2>1, <2>3, <2>4, LockStepsOwe
<1>6. ASSUME NEW p \in Positions, NEW n \in LockAmounts, PermanentLock(p, n)
      PROVE  reward' = reward /\ pool'.liquidity = pool.liquidity /\ EachKept
  <2>1. position' = [position EXCEPT ![p].unlocked  = @ - n,
                                     ![p].permanent = @ + n]
    BY <1>6 DEF PermanentLock
  <2>2. n \in Int
    BY InputAssumption
  <2>3. reward' = reward /\ pool'.liquidity = pool.liquidity
    BY <1>6 DEF PermanentLock, IInv, TypeOK, PoolRecord
  <2> QED BY <2>1, <2>2, <2>3, LockStepsOwe
<1>7. \/ reward' = AccruedRewards /\ OnlyMoves
      \/ reward' = reward /\ pool'.liquidity = pool.liquidity /\ EachKept
  BY <1>1, <1>2, <1>3, <1>4, <1>5, <1>6 DEF PositionStep
<1> QED BY <1>7, AllKept

-----------------------------------------------------------------------------
\* What the vault of a token holds beyond what the protocol and the partner
\* are owed, and beyond every claim on its fees, in units of 1/LiquidityScale.
Spare == [t \in Tokens |-> vault[t] - pool.protocolFee[t] - pool.partnerFee[t]]

Surplus ==
  [t \in Tokens |-> Spare[t] * LiquidityScale - PositionSum(FeeOwed[t])]

\* Enough of it to buy back the whole liquidity at a price.
CoversA(n, P, L) ==
  n * P * SqrtMaxPrice >= LiquidityScale * L * (SqrtMaxPrice - P)

CoversB(n, P, L) == n * Scale >= LiquidityScale * L * (P - SqrtMinPrice)

Covered ==
  /\ CoversA(Surplus["A"], pool.sqrtPrice, pool.liquidity)
  /\ CoversB(Surplus["B"], pool.sqrtPrice, pool.liquidity)

\* The parts of the surplus are numbers; as one formula, to be used of the next
\* state too.
SurplusTyped ==
  \A t \in Tokens :
    /\ Spare[t] \in Int /\ Surplus[t] \in Int
    /\ PositionSum(FeeOwed[t]) \in Nat
    /\ PositionSum(FeeDue[t]) \in Nat

\* They are.
LEMMA SurplusInt == IInv => SurplusTyped
<1> SUFFICES ASSUME IInv, NEW t \in Tokens
             PROVE  /\ Spare[t] \in Int /\ Surplus[t] \in Int
                    /\ PositionSum(FeeOwed[t]) \in Nat
                    /\ PositionSum(FeeDue[t]) \in Nat
  BY DEF SurplusTyped
<1>1. Spare[t] \in Int
  BY DEF Spare, IInv, TypeOK, PoolRecord
<1>2. \A x \in Positions : FeeOwed[t][x] \in Nat /\ FeeDue[t][x] \in Nat
  BY FeesNow DEF FeesAre
<1>3. PositionSum(FeeOwed[t]) \in Nat /\ PositionSum(FeeDue[t]) \in Nat
  BY <1>2, PositionSumNat
<1>4. Surplus[t] \in Int
  BY <1>1, <1>3, ScalesPositive DEF Surplus
<1> QED BY <1>1, <1>3, <1>4

\* And after a step.
LEMMA SurplusNext == IInv' => SurplusTyped'
BY SurplusInt, PTL

\* The two tokens of a pool.
LEMMA TokensAre == "A" \in Tokens /\ "B" \in Tokens /\ \A t \in Tokens : t = "A" \/ t = "B"
BY PoolAssumption

\* The two properties of the vaults say that the surplus covers the liquidity.
LEMMA SolventIsCovered == IInv => (VaultASolvent /\ VaultBSolvent <=> Covered)
<1> SUFFICES ASSUME IInv
             PROVE  VaultASolvent /\ VaultBSolvent <=> Covered
  OBVIOUS
<1>1. ASSUME NEW t \in Tokens
      PROVE  Surplus[t] = vault[t] * LiquidityScale - FeeClaims(t)
  <2>1. /\ vault[t] \in Int /\ pool.protocolFee[t] \in Int
        /\ pool.partnerFee[t] \in Int /\ LiquidityScale \in Int
    BY ScalesPositive DEF IInv, TypeOK, PoolRecord
  <2>2. PositionSum(FeeOwed[t]) \in Int
    BY SurplusInt DEF SurplusTyped
  <2>3. FeeClaims(t) = (pool.protocolFee[t] + pool.partnerFee[t]) * LiquidityScale
                         + PositionSum(FeeOwed[t])
    BY DEF FeeClaims, FeeOwed
  <2>4. Surplus[t] = (vault[t] - pool.protocolFee[t] - pool.partnerFee[t])
                       * LiquidityScale - PositionSum(FeeOwed[t])
    BY DEF Surplus, Spare
  <2>5. ASSUME NEW v \in Int, NEW m \in Int, NEW n \in Int, NEW s \in Int, NEW w \in Int
        PROVE  (v - m - n) * s - w = v * s - ((m + n) * s + w)
    OBVIOUS
  <2> QED BY <2>1, <2>2, <2>3, <2>4, <2>5
<1>2. /\ Surplus["A"] = vault["A"] * LiquidityScale - FeeClaims("A")
      /\ Surplus["B"] = vault["B"] * LiquidityScale - FeeClaims("B")
  BY <1>1, TokensAre
<1> QED BY <1>2 DEF VaultASolvent, VaultBSolvent, Covered, CoversA, CoversB

-----------------------------------------------------------------------------
\* What a step does to the books of a token while its accumulator stands
\* still: positions move by h, what is paid to them leaves the vault, and the
\* vault takes in a beyond that.
FeeBooks(t, a) ==
  /\ a \in Int
  /\ pool'.feePerLiquidity[t] = pool.feePerLiquidity[t]
  /\ \E h \in [Positions -> Int] :
       /\ \A x \in Positions : FeesMove(t, x, h[x])
       /\ \/ PositionSum(h) = 0
          \/ PositionSum(h) <= 0 /\ vault'[t] = vault[t] + PositionSum(h)
       /\ Spare'[t] = Spare[t] + a + PositionSum(h)

\* FeesConserved, of one step and one token.
FeesKeptAt(t) ==
  LET Was == PositionSum(FeeDue[t])
      Is  == PositionSum(FeeDue'[t])
  IN  pool'.feePerLiquidity[t] = pool.feePerLiquidity[t] =>
        \/ Is = Was
        \/ Is < Was /\ Was - Is = vault[t] - vault'[t]

\* Books that balance keep the fees of the positions, and the surplus grows by
\* what came in.
LEMMA FeeBooksBalance ==
  ASSUME IInv, IInv', NEW t \in Tokens, NEW a, FeeBooks(t, a)
  PROVE  /\ FeesKeptAt(t)
         /\ Surplus'[t] >= Surplus[t] + a * LiquidityScale
<1>1. PICK h \in [Positions -> Int] :
        /\ \A x \in Positions : FeesMove(t, x, h[x])
        /\ \/ PositionSum(h) = 0
           \/ PositionSum(h) <= 0 /\ vault'[t] = vault[t] + PositionSum(h)
        /\ Spare'[t] = Spare[t] + a + PositionSum(h)
  BY DEF FeeBooks
<1>2. /\ PositionSum(FeeDue'[t]) = PositionSum(FeeDue[t]) + PositionSum(h)
      /\ PositionSum(FeeOwed'[t])
           <= PositionSum(FeeOwed[t]) + PositionSum(h) * LiquidityScale
      /\ PositionSum(h) \in Int
  <2>1. \A x \in Positions : h[x] \in Int /\ FeesMove(t, x, h[x])
    BY <1>1
  <2> QED BY <2>1, FeeTotalsMove DEF FeeBooks
<1>3. /\ Spare[t] \in Int /\ PositionSum(FeeOwed[t]) \in Int
      /\ PositionSum(FeeDue[t]) \in Int
      /\ Spare'[t] \in Int /\ PositionSum(FeeOwed'[t]) \in Int
      /\ vault[t] \in Int /\ a \in Int
  BY SurplusInt, SurplusNext DEF IInv, TypeOK, FeeBooks, SurplusTyped
<1>4. FeesKeptAt(t)
  BY <1>1, <1>2, <1>3 DEF FeesKeptAt
<1>5. /\ Surplus[t] = Spare[t] * LiquidityScale - PositionSum(FeeOwed[t])
      /\ Surplus'[t] = Spare'[t] * LiquidityScale - PositionSum(FeeOwed'[t])
  BY DEF Surplus
<1>6. ASSUME NEW s \in Int, NEW b \in Int, NEW c \in Int, NEW k \in Int
      PROVE  (s + b + c) * k = s * k + b * k + c * k
             /\ s * k \in Int /\ b * k \in Int /\ c * k \in Int
  OBVIOUS
<1>7. LiquidityScale \in Int
  BY ScalesPositive
<1> DEFINE s == Spare[t] * LiquidityScale
           b == a * LiquidityScale
           c == PositionSum(h) * LiquidityScale
<1>8. /\ Spare'[t] * LiquidityScale = s + b + c
      /\ s \in Int /\ b \in Int /\ c \in Int
  <2>1. Spare'[t] = Spare[t] + a + PositionSum(h)
    BY <1>1
  <2>2. /\ (Spare[t] + a + PositionSum(h)) * LiquidityScale = s + b + c
        /\ s \in Int /\ b \in Int /\ c \in Int
    BY <1>2, <1>3, <1>6, <1>7
  <2> QED BY <2>1, <2>2
<1> HIDE DEF s, c, b
<1>9. Surplus'[t] >= Surplus[t] + b
  BY <1>2, <1>3, <1>5, <1>8 DEF c, s
<1> QED BY <1>4, <1>9 DEF b

\* A step at an unchanged price: d of liquidity comes, or goes, for a.
Steady(d, a) ==
  /\ d \in Int
  /\ pool'.sqrtPrice = pool.sqrtPrice
  /\ pool'.liquidity = pool.liquidity + d
  /\ \A t \in Tokens : FeeBooks(t, a[t])
  /\ a["A"] * pool.sqrtPrice * SqrtMaxPrice >= d * (SqrtMaxPrice - pool.sqrtPrice)
  /\ a["B"] * Scale >= d * (pool.sqrtPrice - SqrtMinPrice)

\* Such a step keeps the vaults solvent.
LEMMA SteadyCovered ==
  ASSUME IInv, IInv', Covered, NEW d, NEW a, Steady(d, a)
  PROVE  Covered'
<1> DEFINE P == pool.sqrtPrice
           L == pool.liquidity
           N == SqrtMaxPrice
           M == SqrtMinPrice
           K == LiquidityScale
           A == Surplus["A"]
           B == Surplus["B"]
           A2 == Surplus'["A"]
           B2 == Surplus'["B"]
<1>1. /\ P \in Nat /\ L \in Nat /\ N \in Nat /\ M \in Nat /\ K \in Nat
      /\ Scale \in Nat /\ P <= N /\ M <= P /\ d \in Int
      /\ pool'.sqrtPrice = P /\ pool'.liquidity = L + d
  BY ScalesPositive, ScaleAssumption, PriceAssumption
     DEF IInv, TypeOK, PoolRecord, PriceInRange, Steady
<1>2. /\ A \in Int /\ B \in Int /\ A2 \in Int /\ B2 \in Int
      /\ a["A"] \in Int /\ a["B"] \in Int
      /\ A2 >= A + a["A"] * K /\ B2 >= B + a["B"] * K
  BY TokensAre, SurplusInt, SurplusNext, FeeBooksBalance
     DEF Steady, FeeBooks, SurplusTyped
<1>3. /\ A * P * N >= K * L * (N - P)
      /\ B * Scale >= K * L * (P - M)
  BY DEF Covered, CoversA, CoversB
<1>4. /\ a["A"] * P * N >= d * (N - P)
      /\ a["B"] * Scale >= d * (P - M)
  BY DEF Steady
<1> HIDE DEF P, L, N, M, K, A, B, A2, B2
<1>5. ASSUME NEW s \in Int, NEW s2 \in Int, NEW b \in Int, NEW q \in Nat,
             NEW w \in Nat, s2 >= s + b * K, s * q >= K * L * w, b * q >= d * w
      PROVE  s2 * q >= K * (L + d) * w
  <2>1. s2 * q >= (s + b * K) * q
    BY <1>1, <1>5
  <2>2. (s + b * K) * q = s * q + K * (b * q)
    BY <1>1, <1>5
  <2>3. K * (b * q) >= K * (d * w)
    BY <1>1, <1>5
  <2>4. K * (L + d) * w = K * L * w + K * (d * w)
    BY <1>1, <1>5
  <2>5. /\ s2 * q \in Int /\ s * q \in Int /\ K * (b * q) \in Int
        /\ K * L * w \in Int /\ K * (d * w) \in Int
    BY <1>1
  <2> QED BY <1>5, <2>1, <2>2, <2>3, <2>4, <2>5
<1>6. /\ N - P \in Nat /\ P - M \in Nat /\ P * N \in Nat
  BY <1>1, MulNat
<1>7. /\ A * (P * N) >= K * L * (N - P) /\ a["A"] * (P * N) >= d * (N - P)
  BY <1>1, <1>2, <1>3, <1>4
<1>8. /\ A2 * (P * N) >= K * (L + d) * (N - P)
      /\ B2 * Scale >= K * (L + d) * (P - M)
  BY <1>1, <1>2, <1>3, <1>4, <1>5, <1>6, <1>7
<1>9. A2 * P * N >= K * (L + d) * (N - P)
  BY <1>1, <1>2, <1>8
<1> QED BY <1>1, <1>8, <1>9 DEF Covered, CoversA, CoversB, K, N, M, A2, B2

-----------------------------------------------------------------------------
\* What a quote adds to the vaults of the two tokens, apart from its fee, pays
\* for the move of the price: transfer fees are the user's.
LEMMA QuoteFair ==
  ASSUME IInv, pool.liquidity > 0,
         NEW mode \in SwapModes, NEW dir \in Directions, NEW amount \in Nat,
         NEW f \in TradeFeeRecord,
         NEW quote \in Quotes(mode, dir, amount, f)
  PROVE  LET in  == NetIn(dir, quote.received, quote.fee)
             out == GrossOut(dir, quote.out, quote.fee)
         IN  PaidFor(pool.sqrtPrice, quote.next, pool.liquidity,
                     ChangeOfA(dir, in, out), ChangeOfB(dir, in, out))
<1> DEFINE inT   == InToken(dir)
           outT  == OutToken(dir)
           net   == ExcludedAmount(inT, amount)
           gross == IncludedAmount(outT, amount)
           exactIn  == ExactIn(pool.sqrtPrice, pool.liquidity, net, dir, f)
           partial  == PartialIn(pool.sqrtPrice, pool.liquidity, net, dir, f)
           exactOut == ExactOut(pool.sqrtPrice, pool.liquidity, gross, dir, f)
           Fair(r) == FairResult(pool.sqrtPrice, pool.liquidity, dir, r)
           Same(r) == /\ quote.received = r.in /\ quote.out = r.out
                      /\ quote.fee = r.fee /\ quote.next = r.next
<1>1. inT \in Tokens /\ outT \in Tokens
  BY PoolAssumption DEF InToken, OutToken, Directions
<1>2. net \in Nat /\ gross \in Nat
  BY <1>1, TransferFeeBounds, IncludedAmountNat
<1>3. /\ pool.sqrtPrice \in SqrtMinPrice..SqrtMaxPrice
      /\ pool.liquidity \in Nat \ {0}
  BY DEF IInv, TypeOK, PriceInRange, PoolRecord
<1>4. \E r : Same(r) /\ Fair(r)
  <2>1. CASE mode = "ExactIn"
    <3>1. PICK r \in exactIn : quote = Quote(dir, amount, r)
      BY <2>1 DEF Quotes, ProcessExactIn
    <3> HIDE DEF net
    <3>2. r.in = net /\ Fair(r)
      BY <1>2, <1>3, ExactInFair
    <3>3. Same(r)
      BY <3>1, <3>2 DEF Quote, net
    <3> QED BY <3>2, <3>3
  <2>2. CASE mode = "PartialFill"
    <3>1. PICK r \in partial : /\ IncludedIsExact(inT, r.in)
                               /\ quote = Quote(dir, IncludedAmount(inT, r.in), r)
      BY <2>2 DEF Quotes, ProcessPartialFill
    <3> HIDE DEF net
    <3>2. Fair(r)
      BY <1>2, <1>3, PartialInFair
    <3>3. Same(r)
      BY <3>1 DEF Quote, IncludedIsExact
    <3> QED BY <3>2, <3>3
  <2>3. CASE mode = "ExactOut"
    <3>1. PICK r \in exactOut : /\ IncludedIsExact(inT, r.in)
                                /\ quote = Quote(dir, IncludedAmount(inT, r.in), r)
      BY <2>3 DEF Quotes, ProcessExactOut
    <3> HIDE DEF gross
    <3>2. Fair(r)
      BY <1>2, <1>3, ExactOutFair
    <3>3. Same(r)
      BY <3>1 DEF Quote, IncludedIsExact
    <3> QED BY <3>2, <3>3
  <2> QED BY <2>1, <2>2, <2>3 DEF SwapModes
<1> QED BY <1>4 DEF FairResult

-----------------------------------------------------------------------------
\* A swap that is paid for leaves the surplus covering the liquidity at the
\* new price.
LEMMA CoversAMove ==
  ASSUME NEW P \in Nat \ {0}, NEW P2 \in Nat \ {0}, NEW L \in Nat,
         NEW S \in Int, NEW S2 \in Int, NEW a \in Int,
         CoversA(S, P, L), a * (P * P2) >= L * (P - P2),
         S2 >= S + a * LiquidityScale
  PROVE  CoversA(S2, P2, L)
<1> DEFINE N == SqrtMaxPrice
           K == LiquidityScale
<1>1. N \in Nat /\ K \in Nat
  BY PriceAssumption, ScalesPositive
<1>2. S * P * N >= K * L * (N - P)
  BY DEF CoversA
<1> HIDE DEF N, K
<1>3. S2 * P2 * N >= K * L * (N - P2)
  <2>1. (S2 * P2 * N) * P >= (K * L * (N - P2)) * P
    <3>1. P2 * N * P \in Nat /\ S2 - (S + a * K) \in Nat
      <4>1. P2 * N \in Nat /\ a * K \in Int
        BY <1>1
      <4>2. P2 * N * P \in Nat
        BY <4>1, MulNat
      <4> QED BY <4>1, <4>2 DEF K
    <3>2. (S2 - (S + a * K)) * (P2 * N * P) >= 0
      BY <3>1, MulNat
    <3>3. (S2 - (S + a * K)) * (P2 * N * P)
            = (S2 * P2 * N) * P - (S * P * N) * P2 - (K * N) * (a * (P * P2))
      BY <1>1
    <3>4. (S * P * N) * P2 >= (K * L * (N - P)) * P2
      <4>1. S * P * N \in Int /\ K * L * (N - P) \in Int
        BY <1>1
      <4> QED BY <1>2, <4>1
    <3>5. (K * N) * (a * (P * P2)) >= (K * N) * (L * (P - P2))
      <4>1. K * N \in Nat /\ a * (P * P2) \in Int /\ L * (P - P2) \in Int
        BY <1>1, MulNat
      <4> QED BY <4>1
    <3>6. (K * L * (N - P)) * P2 + (K * N) * (L * (P - P2)) = (K * L * (N - P2)) * P
      BY <1>1
    <3>7. /\ (S2 * P2 * N) * P \in Int /\ (S * P * N) * P2 \in Int
          /\ (K * N) * (a * (P * P2)) \in Int /\ (K * L * (N - P)) * P2 \in Int
          /\ (K * N) * (L * (P - P2)) \in Int /\ (K * L * (N - P2)) * P \in Int
      BY <1>1
    <3> QED BY <3>2, <3>3, <3>4, <3>5, <3>6, <3>7
  <2>2. S2 * P2 * N \in Int /\ K * L * (N - P2) \in Int
    BY <1>1
  <2>3. ASSUME NEW x \in Int, NEW y \in Int, x * P >= y * P
        PROVE  x >= y
    BY <2>3
  <2> QED BY <2>1, <2>2, <2>3
<1> QED BY <1>3 DEF CoversA, N, K

\* The same of token B.
LEMMA CoversBMove ==
  ASSUME NEW P \in Nat, NEW P2 \in Nat, NEW L \in Nat,
         NEW S \in Int, NEW S2 \in Int, NEW b \in Int,
         CoversB(S, P, L), b * Scale >= L * (P2 - P),
         S2 >= S + b * LiquidityScale
  PROVE  CoversB(S2, P2, L)
<1> DEFINE M == SqrtMinPrice
           K == LiquidityScale
<1>1. M \in Nat /\ K \in Nat /\ Scale \in Nat
  BY PriceAssumption, ScalesPositive, ScaleAssumption
<1>2. S * Scale >= K * L * (P - M)
  BY DEF CoversB
<1>3. S2 >= S + b * K
  OBVIOUS
<1> HIDE DEF M, K
<1>4. S2 * Scale >= K * L * (P2 - M)
  <2>1. S2 * Scale >= (S + b * K) * Scale
    BY <1>1, <1>3
  <2>2. (S + b * K) * Scale = S * Scale + K * (b * Scale)
    BY <1>1
  <2>3. K * (b * Scale) >= K * (L * (P2 - P))
    <3>1. b * Scale \in Int /\ L * (P2 - P) \in Int
      BY <1>1
    <3> QED BY <1>1, <3>1
  <2>4. K * L * (P - M) + K * (L * (P2 - P)) = K * L * (P2 - M)
    BY <1>1
  <2>5. /\ S2 * Scale \in Int /\ S * Scale \in Int /\ K * (b * Scale) \in Int
        /\ K * (L * (P2 - P)) \in Int /\ K * L * (P - M) \in Int
        /\ K * L * (P2 - M) \in Int
    BY <1>1
  <2> QED BY <1>2, <2>1, <2>2, <2>3, <2>4, <2>5
<1> QED BY <1>4 DEF CoversB, M, K

-----------------------------------------------------------------------------
\* What a swap adds to the vault of a token for the liquidity providers, their
\* part of the fee excepted.
SwapGain(t, dir, quote) ==
  (IF t = InToken(dir) THEN quote.received ELSE 0)
    - (IF t = OutToken(dir) THEN quote.out ELSE 0)
    - (IF t = FeeToken(dir) THEN quote.fee ELSE 0)

\* Token by token, or direction by direction: the gain of a swap.
LEMMA SwapGainIs ==
  ASSUME NEW dir \in Directions, NEW quote, quote.received \in Nat,
         quote.out \in Nat, quote.fee \in Nat
  PROVE  LET in  == NetIn(dir, quote.received, quote.fee)
             out == GrossOut(dir, quote.out, quote.fee)
         IN  /\ SwapGain("A", dir, quote) = ChangeOfA(dir, in, out)
             /\ SwapGain("B", dir, quote) = ChangeOfB(dir, in, out)
<1> DEFINE rec == quote.received
           put == quote.out
           fee == quote.fee
<1>1. rec \in Nat /\ put \in Nat /\ fee \in Nat
  OBVIOUS
<1>2. CollectFeeMode \in {"BothToken", "OnlyB"} /\ dir \in {"AtoB", "BtoA"}
  BY PriceAssumption DEF Directions
<1>3. /\ InToken(dir) = IF dir = "AtoB" THEN "A" ELSE "B"
      /\ OutToken(dir) = IF dir = "AtoB" THEN "B" ELSE "A"
      /\ FeeToken(dir) = IF CollectFeeMode = "BothToken" /\ dir = "BtoA"
                           THEN "A" ELSE "B"
      /\ FeesOnInput(dir) <=> CollectFeeMode = "OnlyB" /\ dir = "BtoA"
  BY DEF InToken, OutToken, FeeToken, FeesOnInput
<1> HIDE DEF rec, put, fee
<1>4. CASE dir = "AtoB"
  BY <1>1, <1>2, <1>3, <1>4
     DEF SwapGain, ChangeOfA, ChangeOfB, NetIn, GrossOut, rec, put, fee
<1>5. CASE dir = "BtoA" /\ CollectFeeMode = "OnlyB"
  BY <1>1, <1>2, <1>3, <1>5
     DEF SwapGain, ChangeOfA, ChangeOfB, NetIn, GrossOut, rec, put, fee
<1>6. CASE dir = "BtoA" /\ CollectFeeMode = "BothToken"
  BY <1>1, <1>2, <1>3, <1>6
     DEF SwapGain, ChangeOfA, ChangeOfB, NetIn, GrossOut, rec, put, fee
<1> QED BY <1>2, <1>4, <1>5, <1>6

\* The claims of the positions grow with the accumulator, and the growth is
\* rounded down: never by more than the providers' part of the fee.
LEMMA SwapOwes ==
  ASSUME IInv, IInv', LiquidityConserved, position' = position,
         pool.liquidity > 0, NEW t \in Tokens, NEW trading \in Nat,
         \/ pool'.feePerLiquidity[t] = pool.feePerLiquidity[t] + FeeGrowth(trading)
         \/ pool'.feePerLiquidity[t] = pool.feePerLiquidity[t]
  PROVE  PositionSum(FeeOwed'[t])
           <= PositionSum(FeeOwed[t]) + trading * LiquidityScale
<1> DEFINE owed  == FeeOwed[t]
           owed2 == FeeOwed'[t]
           growth == FeeGrowth(trading)
           L == pool.liquidity
<1>1. L \in Nat \ {0} /\ L = PositionSum(Liquidity) /\ LiquidityScale \in Nat
  BY ScalesPositive DEF IInv, TypeOK, PoolRecord, LiquidityConserved
<1>2. growth \in Nat /\ growth * L <= trading * LiquidityScale
  <2>1. trading * LiquidityScale \in Nat
    BY <1>1, MulNat
  <2> QED BY <1>1, <2>1, DivNat, DivEnough DEF FeeGrowth
<1>3. PICK g \in {0, growth} : pool'.feePerLiquidity[t] = pool.feePerLiquidity[t] + g
  <2>1. pool.feePerLiquidity[t] + 0 = pool.feePerLiquidity[t]
    BY DEF IInv, TypeOK, PoolRecord
  <2> HIDE DEF growth
  <2> QED BY <2>1, Zenon DEF growth
<1>4. g \in Nat /\ g * L <= trading * LiquidityScale
  <2>1. 0 * L = 0 /\ trading * LiquidityScale \in Nat
    BY <1>1, MulNat
  <2> HIDE DEF growth
  <2> QED BY <1>1, <1>2, <2>1
<1> HIDE DEF growth
<1>5. \A x \in Positions :
        /\ owed[x] \in Nat /\ owed2[x] \in Nat /\ Liquidity[x] \in Nat
        /\ owed2[x] = owed[x] + g * Liquidity[x]
  <2> SUFFICES ASSUME NEW x \in Positions
               PROVE  /\ owed[x] \in Nat /\ owed2[x] \in Nat /\ Liquidity[x] \in Nat
                      /\ owed2[x] = owed[x] + g * Liquidity[x]
    OBVIOUS
  <2> DEFINE M == TotalLiquidity(position[x])
             k == position[x].feePending[t] * LiquidityScale
             acc == pool.feePerLiquidity[t]
             c == position[x].feeCheckpoint[t]
  <2>1. /\ owed[x] = k + M * (acc - c)
        /\ owed[x] \in Nat /\ M \in Nat /\ acc \in Nat /\ c \in Nat
        /\ position[x].feePending[t] \in Nat
    BY FeesNow DEF FeesAre
  <2>2. /\ owed2[x] = k + M * ((acc + g) - c) /\ owed2[x] \in Nat
    BY <1>3, FeesNext DEF FeesAre, TotalLiquidity
  <2>3. k \in Nat
    BY <1>1, <2>1, MulNat
  <2>4. Liquidity[x] = M
    BY DEF Liquidity
  <2> HIDE DEF k, M, acc, c
  <2>5. M * ((acc + g) - c) = M * (acc - c) + g * M
    BY <1>4, <2>1
  <2>6. M * (acc - c) \in Int /\ g * M \in Int
    BY <1>4, <2>1
  <2>7. owed2[x] = owed[x] + g * M
    <3> HIDE DEF owed, owed2
    <3> QED BY <2>1, <2>2, <2>3, <2>5, <2>6
  <2> QED BY <2>1, <2>2, <2>4, <2>7
<1> HIDE DEF owed, owed2
<1>6. \A x \in Positions :
        owed[x] \in Int /\ Liquidity[x] \in Int /\ owed2[x] = owed[x] + g * Liquidity[x]
  BY <1>5
<1>7. PositionSum(owed2) = PositionSum(owed) + g * PositionSum(Liquidity)
  BY <1>4, <1>6, FiniteAssumption, SumLinear DEF PositionSum, Sum
<1>8. PositionSum(owed) \in Nat
  BY <1>5, PositionSumNat
<1>9. g * PositionSum(Liquidity) <= trading * LiquidityScale
  BY <1>1, <1>4
<1>10. g * PositionSum(Liquidity) \in Int /\ trading * LiquidityScale \in Int
  BY <1>1, <1>4
<1> QED BY <1>7, <1>8, <1>9, <1>10 DEF owed, owed2

\* Token by token, a swap adds to the surplus at least what it gains.
LEMMA SwapSurplus ==
  ASSUME IInv, IInv', LiquidityConserved, NEW dir \in Directions,
         NEW quote, quote.received \in Nat, quote.out \in Nat, quote.fee \in Nat,
         NEW hasReferral \in BOOLEAN, pool.liquidity > 0, position' = position,
         pool' = ApplySwap(quote.next, FeeToken(dir),
                           SplitFees(quote.fee, hasReferral)),
         vault' = SettleVaults(dir, FeeToken(dir), quote,
                               SplitFees(quote.fee, hasReferral)),
         NEW t \in Tokens
  PROVE  Surplus'[t] >= Surplus[t] + SwapGain(t, dir, quote) * LiquidityScale
<1> DEFINE split == SplitFees(quote.fee, hasReferral)
           tr == split.trading
           pr == split.protocol
           pa == split.partner
           re == split.referral
           here == t = FeeToken(dir)
           fpl == [pool.feePerLiquidity EXCEPT ![FeeToken(dir)] = @ + FeeGrowth(tr)]
           prf == [pool.protocolFee EXCEPT ![FeeToken(dir)] = @ + pr]
           paf == [pool.partnerFee EXCEPT ![FeeToken(dir)] = @ + pa]
           moved == (IF t = InToken(dir) THEN quote.received ELSE 0)
                      - (IF t = OutToken(dir) THEN quote.out ELSE 0)
           K == LiquidityScale
<1>1. /\ tr \in Nat /\ pr \in Nat /\ pa \in Nat /\ re \in Nat
      /\ tr + pr + pa + re = quote.fee
  BY SplitFeesWhole
<1>2. /\ pool' = [pool EXCEPT !.sqrtPrice = quote.next,
                              !.feePerLiquidity = fpl,
                              !.protocolFee = prf, !.partnerFee = paf]
      /\ vault'[t] = vault[t] + moved - (IF here THEN re ELSE 0)
  <2>1. pool' = [pool EXCEPT !.sqrtPrice = quote.next,
                              !.feePerLiquidity = fpl,
                              !.protocolFee = prf, !.partnerFee = paf]
    BY DEF ApplySwap
  <2>2. vault'[t] = vault[t] + (IF t = InToken(dir) THEN quote.received ELSE 0)
              - (IF t = OutToken(dir) THEN quote.out ELSE 0)
              - (IF t = FeeToken(dir) THEN re ELSE 0)
    BY DEF SettleVaults
  <2>3. vault[t] \in Int
    BY DEF IInv, TypeOK
  <2> HIDE DEF re
  <2>4. vault'[t] = vault[t] + moved - (IF here THEN re ELSE 0)
    BY <1>1, <2>2, <2>3
  <2> QED BY <2>1, <2>4 DEF re
<1>3. /\ pool \in PoolRecord /\ vault[t] \in Int
      /\ pool.feePerLiquidity \in [Tokens -> Nat]
      /\ pool.protocolFee \in [Tokens -> Nat] /\ pool.partnerFee \in [Tokens -> Nat]
  BY DEF IInv, TypeOK, PoolRecord
<1>4. /\ pool'.feePerLiquidity[t] = pool.feePerLiquidity[t]
                                      + (IF here THEN FeeGrowth(tr) ELSE 0)
      /\ pool'.protocolFee[t] = pool.protocolFee[t] + (IF here THEN pr ELSE 0)
      /\ pool'.partnerFee[t] = pool.partnerFee[t] + (IF here THEN pa ELSE 0)
  <2>1. /\ pool'.feePerLiquidity = fpl /\ pool'.protocolFee = prf
        /\ pool'.partnerFee = paf
    <3> HIDE DEF fpl, prf, paf
    <3> QED BY <1>2, <1>3 DEF PoolRecord
  <2>2. /\ fpl[t] = IF here THEN pool.feePerLiquidity[t] + FeeGrowth(tr)
                            ELSE pool.feePerLiquidity[t]
        /\ prf[t] = IF here THEN pool.protocolFee[t] + pr ELSE pool.protocolFee[t]
        /\ paf[t] = IF here THEN pool.partnerFee[t] + pa ELSE pool.partnerFee[t]
    BY <1>3
  <2>3. /\ pool.feePerLiquidity[t] + 0 = pool.feePerLiquidity[t]
        /\ pool.protocolFee[t] + 0 = pool.protocolFee[t]
        /\ pool.partnerFee[t] + 0 = pool.partnerFee[t]
    BY <1>3
  <2> HIDE DEF fpl, prf, paf, here, tr, pr, pa
  <2> QED BY <2>1, <2>2, <2>3
<1>5. PositionSum(FeeOwed'[t])
        <= PositionSum(FeeOwed[t]) + (IF here THEN tr ELSE 0) * K
  <2>1. CASE here
    <3>1. pool'.feePerLiquidity[t] = pool.feePerLiquidity[t] + FeeGrowth(tr)
      BY <1>4, <2>1
    <3> HIDE DEF tr, K
    <3> QED BY <1>1, <2>1, <3>1, SwapOwes DEF K
  <2>2. CASE ~here
    <3>1. pool'.feePerLiquidity[t] = pool.feePerLiquidity[t]
      BY <1>3, <1>4, <2>2
    <3>2. 0 \in Nat
      OBVIOUS
    <3> QED BY <2>2, <3>1, <3>2, SwapOwes
  <2> QED BY <2>1, <2>2
<1>6. moved \in Int /\ quote.fee \in Int
  OBVIOUS
<1>7. SwapGain(t, dir, quote) = moved - (IF here THEN quote.fee ELSE 0)
  BY DEF SwapGain
<1>8. /\ Spare[t] = vault[t] - pool.protocolFee[t] - pool.partnerFee[t]
      /\ Spare'[t] = vault'[t] - pool'.protocolFee[t] - pool'.partnerFee[t]
  BY DEF Spare
<1> HIDE DEF split, tr, pr, pa, re, here, moved, fpl, prf, paf
<1> DEFINE gain == SwapGain(t, dir, quote)
           kept == IF here THEN tr ELSE 0
<1>9. Spare'[t] = Spare[t] + gain + kept
  BY <1>1, <1>2, <1>3, <1>4, <1>6, <1>7, <1>8
<1>10. gain \in Int /\ kept \in Int
  BY <1>1, <1>6, <1>7
<1>11. /\ Spare[t] \in Int /\ PositionSum(FeeOwed[t]) \in Int
       /\ PositionSum(FeeOwed'[t]) \in Int /\ K \in Int
  BY SurplusInt, SurplusNext, ScalesPositive DEF SurplusTyped
<1>12. /\ Surplus[t] = Spare[t] * K - PositionSum(FeeOwed[t])
       /\ Surplus'[t] = Spare'[t] * K - PositionSum(FeeOwed'[t])
  BY DEF Surplus
<1> HIDE DEF gain, kept, K
<1>13. (Spare[t] + gain + kept) * K = Spare[t] * K + gain * K + kept * K
  BY <1>10, <1>11
<1>14. Spare[t] * K \in Int /\ gain * K \in Int /\ kept * K \in Int
  BY <1>10, <1>11
<1>15. PositionSum(FeeOwed'[t]) <= PositionSum(FeeOwed[t]) + kept * K
  BY <1>5 DEF kept
<1>16. Spare'[t] * K = Spare[t] * K + gain * K + kept * K
  BY <1>9, <1>13
<1> QED BY <1>11, <1>12, <1>14, <1>15, <1>16 DEF gain, K

\* A swap, in any mode and direction and under any fee, leaves both vaults
\* solvent at the new price.
LEMMA SwapCovered ==
  ASSUME IInv, IInv', LiquidityConserved, Covered,
         NEW mode \in SwapModes, NEW dir \in Directions, NEW amount \in Nat,
         NEW f \in TradeFeeRecord, NEW hasReferral \in BOOLEAN,
         NEW whitelisted, Swap(mode, dir, amount, f, hasReferral, whitelisted)
  PROVE  Covered'
<1>1. PICK quote \in Quotes(mode, dir, amount, f) :
        /\ pool' = ApplySwap(quote.next, FeeToken(dir),
                             SplitFees(quote.fee, hasReferral))
        /\ vault' = SettleVaults(dir, FeeToken(dir), quote,
                                 SplitFees(quote.fee, hasReferral))
  BY DEF Swap
<1>2. pool.liquidity > 0 /\ position' = position
  BY DEF Swap
<1>3. /\ quote.received \in Nat /\ quote.out \in Nat /\ quote.fee \in Nat
      /\ quote.next \in SqrtMinPrice..SqrtMaxPrice
  BY <1>2, QuoteSound
<1> DEFINE in  == NetIn(dir, quote.received, quote.fee)
           out == GrossOut(dir, quote.out, quote.fee)
           a == ChangeOfA(dir, in, out)
           b == ChangeOfB(dir, in, out)
           P == pool.sqrtPrice
           P2 == quote.next
           L == pool.liquidity
<1>4. PaidFor(P, P2, L, a, b)
  BY <1>2, QuoteFair
<1>5. /\ P \in Nat \ {0} /\ P2 \in Nat \ {0} /\ L \in Nat
      /\ pool'.sqrtPrice = P2 /\ pool'.liquidity = L
  <2>1. pool \in PoolRecord /\ P \in SqrtMinPrice..SqrtMaxPrice
    BY DEF IInv, TypeOK, PriceInRange
  <2>2. pool'.sqrtPrice = P2 /\ pool'.liquidity = L
    BY <1>1, <2>1 DEF ApplySwap, PoolRecord
  <2> QED BY <1>3, <2>1, <2>2, PriceAssumption DEF PoolRecord
<1>6. a \in Int /\ b \in Int
  <2>1. in \in Int /\ out \in Int
    BY <1>3 DEF NetIn, GrossOut
  <2> HIDE DEF in, out
  <2> QED BY <2>1 DEF ChangeOfA, ChangeOfB
<1>7. SwapGain("A", dir, quote) = a /\ SwapGain("B", dir, quote) = b
  BY <1>3, SwapGainIs
<1>8. \A t \in Tokens :
        Surplus'[t] >= Surplus[t] + SwapGain(t, dir, quote) * LiquidityScale
  BY <1>1, <1>2, <1>3, SwapSurplus
<1>9. /\ Surplus'["A"] >= Surplus["A"] + a * LiquidityScale
      /\ Surplus'["B"] >= Surplus["B"] + b * LiquidityScale
  BY <1>7, <1>8, TokensAre
<1>10. /\ Surplus["A"] \in Int /\ Surplus["B"] \in Int
       /\ Surplus'["A"] \in Int /\ Surplus'["B"] \in Int
  BY SurplusInt, SurplusNext, TokensAre DEF SurplusTyped
<1> HIDE DEF a, b, P, P2, L
<1>11. CoversA(Surplus["A"], P, L) /\ CoversB(Surplus["B"], P, L)
  BY DEF Covered, P, L
<1>12. CoversA(Surplus'["A"], P2, L)
  BY <1>4, <1>5, <1>6, <1>9, <1>10, <1>11, CoversAMove DEF PaidFor
<1>13. CoversB(Surplus'["B"], P2, L)
  BY <1>4, <1>5, <1>6, <1>9, <1>10, <1>11, CoversBMove DEF PaidFor
<1> QED BY <1>5, <1>12, <1>13 DEF Covered, CoversA, CoversB

\* And the token no fee was charged in is owed exactly as before.
LEMMA SwapKeepsFees ==
  ASSUME IInv, IInv', position' = position, NEW t \in Tokens
  PROVE  FeesKeptAt(t)
<1> SUFFICES ASSUME pool'.feePerLiquidity[t] = pool.feePerLiquidity[t]
             PROVE  PositionSum(FeeDue'[t]) = PositionSum(FeeDue[t])
  BY DEF FeesKeptAt
<1> DEFINE due == FeeDue[t]
           due2 == FeeDue'[t]
<1>1. \A x \in Positions : due2[x] = due[x] /\ due[x] \in Int
  <2>1. \A x \in Positions :
          due[x] = position[x].feePending[t]
                     + (TotalLiquidity(position[x])
                          * (pool.feePerLiquidity[t] - position[x].feeCheckpoint[t]))
                         \div LiquidityScale
          /\ due[x] \in Nat
    BY FeesNow DEF FeesAre
  <2>2. \A x \in Positions :
          due2[x] = position[x].feePending[t]
                     + (TotalLiquidity(position[x])
                          * (pool.feePerLiquidity[t] - position[x].feeCheckpoint[t]))
                         \div LiquidityScale
    BY FeesNext DEF FeesAre, TotalLiquidity
  <2> HIDE DEF due, due2
  <2> QED BY <2>1, <2>2
<1> HIDE DEF due, due2
<1>2. PositionSum(due2) = PositionSum(due)
  BY <1>1, FiniteAssumption, SumSame DEF PositionSum, Sum
<1> QED BY <1>2 DEF due, due2

-----------------------------------------------------------------------------
\* The fees move between positions at most.
FeesOnlyMove ==
  \A t \in Tokens : \E h \in [Positions -> Int] :
    PositionSum(h) = 0 /\ \A x \in Positions : FeesMove(t, x, h[x])

\* Steps that move nothing else move fees between positions only.
LEMMA OnlyMovesFees ==
  ASSUME OnlyMoves
  PROVE  FeesOnlyMove
BY DEF OnlyMoves, Balanced, PositionsMove, FeesOnlyMove

\* Positions that do not change move nothing.
LEMMA UnchangedMoves ==
  ASSUME position' = position
  PROVE  EachKept /\ OnlyMoves
<1>1. EachKept
  BY DEF EachKept, Kept, SameLiquidity
<1> QED BY <1>1, AllKept

\* A step that pays for the liquidity d it adds with a, and moves fees between
\* positions only.
LEMMA PaidIsSteady ==
  ASSUME IInv, FeesOnlyMove, NEW d \in Int, NEW a \in [Tokens -> Int],
         pool'.sqrtPrice = pool.sqrtPrice, pool'.liquidity = pool.liquidity + d,
         \A t \in Tokens : /\ pool'.feePerLiquidity[t] = pool.feePerLiquidity[t]
                           /\ Spare'[t] = Spare[t] + a[t],
         a["A"] * pool.sqrtPrice * SqrtMaxPrice >= d * (SqrtMaxPrice - pool.sqrtPrice),
         a["B"] * Scale >= d * (pool.sqrtPrice - SqrtMinPrice)
  PROVE  Steady(d, a)
<1>1. ASSUME NEW t \in Tokens
      PROVE  FeeBooks(t, a[t])
  <2>1. PICK h \in [Positions -> Int] :
          PositionSum(h) = 0 /\ \A x \in Positions : FeesMove(t, x, h[x])
    BY DEF FeesOnlyMove
  <2>2. Spare[t] \in Int /\ a[t] \in Int
    BY SurplusInt DEF SurplusTyped
  <2>3. Spare'[t] = Spare[t] + a[t] + PositionSum(h)
    <3>1. Spare[t] + a[t] + 0 = Spare[t] + a[t]
      BY <2>2
    <3> QED BY <2>1, <3>1
  <2> QED BY <2>1, <2>2, <2>3 DEF FeeBooks
<1> QED BY <1>1 DEF Steady

\* A step that leaves the vaults and the pool's balances alone.
PoolStands ==
  /\ pool'.sqrtPrice = pool.sqrtPrice
  /\ pool'.liquidity = pool.liquidity
  /\ pool'.feePerLiquidity = pool.feePerLiquidity

Idle == [t \in Tokens |-> 0]

\* Adding no liquidity costs nothing.
LEMMA IdleCosts ==
  ASSUME IInv
  PROVE  /\ Idle \in [Tokens -> Int]
         /\ Idle["A"] * pool.sqrtPrice * SqrtMaxPrice >= 0 * (SqrtMaxPrice - pool.sqrtPrice)
         /\ Idle["B"] * Scale >= 0 * (pool.sqrtPrice - SqrtMinPrice)
         /\ pool.liquidity + 0 = pool.liquidity
         /\ \A t \in Tokens : Idle[t] = 0 /\ Spare[t] + Idle[t] = Spare[t]
<1>1. /\ pool.sqrtPrice \in Int /\ SqrtMaxPrice \in Int /\ SqrtMinPrice \in Int
      /\ pool.liquidity \in Int /\ Scale \in Int
  BY ScaleAssumption, PriceAssumption DEF IInv, TypeOK, PoolRecord
<1>2. Idle["A"] = 0 /\ Idle["B"] = 0
  BY TokensAre DEF Idle
<1>3. \A t \in Tokens : Idle[t] = 0 /\ Spare[t] + Idle[t] = Spare[t]
  <2>1. \A t \in Tokens : Spare[t] \in Int
    BY SurplusInt DEF SurplusTyped
  <2> QED BY <2>1 DEF Idle
<1>4. /\ 0 * pool.sqrtPrice * SqrtMaxPrice = 0 /\ 0 * Scale = 0
      /\ 0 * (SqrtMaxPrice - pool.sqrtPrice) = 0
      /\ 0 * (pool.sqrtPrice - SqrtMinPrice) = 0
      /\ pool.liquidity + 0 = pool.liquidity
  BY <1>1
<1>5. Idle \in [Tokens -> Int]
  BY DEF Idle
<1> QED BY <1>2, <1>3, <1>4, <1>5

\* A step that leaves the spare amounts and the pool's liquidity alone.
LEMMA IdleIsSteady ==
  ASSUME IInv, FeesOnlyMove, PoolStands, \A t \in Tokens : Spare'[t] = Spare[t]
  PROVE  Steady(0, Idle)
<1>1. /\ Idle \in [Tokens -> Int] /\ 0 \in Int
      /\ Idle["A"] * pool.sqrtPrice * SqrtMaxPrice >= 0 * (SqrtMaxPrice - pool.sqrtPrice)
      /\ Idle["B"] * Scale >= 0 * (pool.sqrtPrice - SqrtMinPrice)
      /\ pool'.liquidity = pool.liquidity + 0
      /\ \A t \in Tokens : Spare'[t] = Spare[t] + Idle[t]
  BY IdleCosts DEF PoolStands
<1> QED BY <1>1, PaidIsSteady DEF PoolStands

\* Adding liquidity costs at least what it is worth.
LEMMA AddLiquiditySteady ==
  ASSUME IInv, Dormant, NEW p \in Positions, NEW delta \in Nat, AddLiquidity(p, delta)
  PROVE  \E d, a : Steady(d, a)
<1> DEFINE a == [t \in Tokens |-> ModifyAmount(t, delta, "Up")]
           P == pool.sqrtPrice
<1>1. /\ pool' = [pool EXCEPT !.liquidity = @ + delta]
      /\ vault' = [t \in Tokens |-> vault[t] + a[t]]
      /\ position' = [position EXCEPT ![p] = [Settled(p) EXCEPT !.unlocked = @ + delta]]
  BY DEF AddLiquidity
<1>2. /\ P \in Nat \ {0} /\ SqrtMinPrice <= P /\ P <= SqrtMaxPrice
      /\ SqrtMinPrice \in Nat \ {0} /\ SqrtMaxPrice \in Nat /\ P * SqrtMaxPrice \in Nat \ {0}
  <2>1. P \in SqrtMinPrice..SqrtMaxPrice
    BY DEF IInv, PriceInRange
  <2> QED BY <2>1, PriceAssumption, MulPos
<1>3. a \in [Tokens -> Int]
  <2>1. \A t \in Tokens : ModifyAmount(t, delta, "Up") \in Nat
    BY ModifyAmountNat
  <2> QED BY <2>1
<1>4. /\ a["A"] = CeilDiv(delta * (SqrtMaxPrice - P), P * SqrtMaxPrice)
      /\ a["B"] = CeilDiv(delta * (P - SqrtMinPrice), Scale)
  BY TokensAre DEF ModifyAmount, DeltaA, DeltaB, DivRound
<1> HIDE DEF a
<1>5. /\ delta * (SqrtMaxPrice - P) <= a["A"] * (P * SqrtMaxPrice)
      /\ delta * (P - SqrtMinPrice) <= a["B"] * Scale
  <2>1. delta * (SqrtMaxPrice - P) \in Int /\ delta * (P - SqrtMinPrice) \in Int
    BY <1>2
  <2> QED BY <1>2, <1>4, <2>1, CeilDivEnough, ScaleAssumption
<1>6. a["A"] * P * SqrtMaxPrice = a["A"] * (P * SqrtMaxPrice)
  BY <1>2, <1>3, TokensAre
<1>7. /\ pool'.sqrtPrice = pool.sqrtPrice
      /\ pool'.liquidity = pool.liquidity + delta
      /\ pool'.feePerLiquidity = pool.feePerLiquidity
      /\ pool'.protocolFee = pool.protocolFee /\ pool'.partnerFee = pool.partnerFee
  BY <1>1 DEF IInv, TypeOK, PoolRecord
<1>8. \A t \in Tokens : Spare'[t] = Spare[t] + a[t]
  <2>1. \A t \in Tokens : /\ vault[t] \in Int /\ pool.protocolFee[t] \in Int
                          /\ pool.partnerFee[t] \in Int /\ a[t] \in Int
    BY <1>3 DEF IInv, TypeOK, PoolRecord
  <2> QED BY <1>1, <1>7, <2>1 DEF Spare
<1>9. FeesOnlyMove
  BY <1>1, SettledOneMoves, OnlyMovesFees
<1>10. Steady(delta, a)
  BY <1>3, <1>5, <1>6, <1>7, <1>8, <1>9, PaidIsSteady
<1> QED BY <1>10

\* Withdrawing it pays at most what it is worth.
LEMMA RemoveLiquiditySteady ==
  ASSUME IInv, Dormant, NEW p \in Positions, NEW delta \in Nat, RemoveLiquidity(p, delta)
  PROVE  \E d, a : Steady(d, a)
<1> DEFINE n == [t \in Tokens |-> ModifyAmount(t, delta, "Down")]
           a == [t \in Tokens |-> -n[t]]
           P == pool.sqrtPrice
<1>1. /\ pool' = [pool EXCEPT !.liquidity = @ - delta]
      /\ vault' = [t \in Tokens |-> vault[t] - n[t]]
      /\ position' = [position EXCEPT ![p] = [Settled(p) EXCEPT !.unlocked = @ - delta]]
  BY DEF RemoveLiquidity
<1>2. /\ P \in Nat \ {0} /\ SqrtMinPrice <= P /\ P <= SqrtMaxPrice
      /\ SqrtMinPrice \in Nat \ {0} /\ SqrtMaxPrice \in Nat /\ P * SqrtMaxPrice \in Nat \ {0}
  <2>1. P \in SqrtMinPrice..SqrtMaxPrice
    BY DEF IInv, PriceInRange
  <2> QED BY <2>1, PriceAssumption, MulPos
<1>3. n \in [Tokens -> Int]
  <2>1. \A t \in Tokens : ModifyAmount(t, delta, "Down") \in Nat
    BY ModifyAmountNat
  <2> QED BY <2>1
<1>4. /\ n["A"] = (delta * (SqrtMaxPrice - P)) \div (P * SqrtMaxPrice)
      /\ n["B"] = (delta * (P - SqrtMinPrice)) \div Scale
  BY TokensAre DEF ModifyAmount, DeltaA, DeltaB, DivRound
<1> HIDE DEF n
<1>5. /\ n["A"] * (P * SqrtMaxPrice) <= delta * (SqrtMaxPrice - P)
      /\ n["B"] * Scale <= delta * (P - SqrtMinPrice)
  <2>1. delta * (SqrtMaxPrice - P) \in Int /\ delta * (P - SqrtMinPrice) \in Int
    BY <1>2
  <2> QED BY <1>2, <1>4, <2>1, DivEnough, ScaleAssumption
<1>6. a \in [Tokens -> Int] /\ \A t \in Tokens : a[t] = -n[t]
  BY <1>3
<1> HIDE DEF a
<1>7. /\ a["A"] * P * SqrtMaxPrice >= (-delta) * (SqrtMaxPrice - P)
      /\ a["B"] * Scale >= (-delta) * (P - SqrtMinPrice)
  <2>1. n["A"] \in Int /\ n["B"] \in Int /\ a["A"] = -n["A"] /\ a["B"] = -n["B"]
    BY <1>3, <1>6, TokensAre
  <2>2. ASSUME NEW x \in Int, NEW y \in Int, NEW k \in Int, NEW w \in Int,
               x * k <= y * w
        PROVE  (-x) * k >= (-y) * w
    <3>1. (-x) * k = -(x * k) /\ (-y) * w = -(y * w)
      OBVIOUS
    <3>2. x * k \in Int /\ y * w \in Int
      OBVIOUS
    <3> QED BY <2>2, <3>1, <3>2
  <2>3. /\ (-n["A"]) * (P * SqrtMaxPrice) >= (-delta) * (SqrtMaxPrice - P)
        /\ (-n["B"]) * Scale >= (-delta) * (P - SqrtMinPrice)
    BY <1>2, <1>5, <2>1, <2>2, ScaleAssumption
  <2>4. (-n["A"]) * P * SqrtMaxPrice = (-n["A"]) * (P * SqrtMaxPrice)
    BY <1>2, <2>1
  <2> QED BY <2>1, <2>3, <2>4
<1>8. /\ pool'.sqrtPrice = pool.sqrtPrice
      /\ pool'.liquidity = pool.liquidity + (-delta)
      /\ pool'.feePerLiquidity = pool.feePerLiquidity
      /\ pool'.protocolFee = pool.protocolFee /\ pool'.partnerFee = pool.partnerFee
  <2>1. pool'.liquidity = pool.liquidity - delta /\ pool.liquidity \in Int
    BY <1>1 DEF IInv, TypeOK, PoolRecord
  <2>2. pool.liquidity - delta = pool.liquidity + (-delta)
    BY <2>1
  <2>3. /\ pool'.sqrtPrice = pool.sqrtPrice
        /\ pool'.feePerLiquidity = pool.feePerLiquidity
        /\ pool'.protocolFee = pool.protocolFee /\ pool'.partnerFee = pool.partnerFee
    BY <1>1 DEF IInv, TypeOK, PoolRecord
  <2> QED BY <2>1, <2>2, <2>3
<1>9. \A t \in Tokens : Spare'[t] = Spare[t] + a[t]
  <2>1. \A t \in Tokens : /\ vault[t] \in Int /\ pool.protocolFee[t] \in Int
                          /\ pool.partnerFee[t] \in Int /\ n[t] \in Int
    BY <1>3 DEF IInv, TypeOK, PoolRecord
  <2> QED BY <1>1, <1>6, <1>8, <2>1 DEF Spare
<1>10. FeesOnlyMove
  BY <1>1, SettledOneMoves, OnlyMovesFees
<1>11. Steady(-delta, a)
  BY <1>6, <1>7, <1>8, <1>9, <1>10, PaidIsSteady
<1> QED BY <1>11

\* handle_claim_position_fee pays what the position was owed and no other.
LEMMA ClaimPositionFeeSteady ==
  ASSUME IInv, Dormant, NEW p \in Positions, ClaimPositionFee(p)
  PROVE  Steady(0, Idle)
<1> DEFINE settled == SettleFees(position[p])
           zero == [t \in Tokens |-> 0]
           pos == [settled EXCEPT !.feePending = zero]
<1>1. /\ position' = [position EXCEPT ![p] = pos] /\ pool' = pool
      /\ vault' = [t \in Tokens |-> vault[t] - settled.feePending[t]]
  BY DEF ClaimPositionFee
<1>2. \A t \in Tokens : settled.feePending[t] = FeeDue[t][p]
  BY DEF FeeDue, ClaimableFees
<1>3. /\ pos.feePending = zero /\ pos.feeCheckpoint = pool.feePerLiquidity
  <2>1. settled \in PositionRecord /\ settled.feeCheckpoint = pool.feePerLiquidity
    <3>1. position[p] \in PositionRecord /\ pool \in PoolRecord
          /\ \A t \in Tokens : position[p].feeCheckpoint[t] <= pool.feePerLiquidity[t]
      BY DEF IInv, TypeOK, NoUnderflow, FeeCheckpointsBehind
    <3> QED BY <3>1, SettleFeesSound
  <2> HIDE DEF settled, zero
  <2> QED BY <2>1 DEF PositionRecord
<1> HIDE DEF pos, settled
<1>4. /\ position'[p] = pos
      /\ \A x \in Positions \ {p} : position'[x] = position[x] /\ Kept(x)
  BY <1>1, Replaced
<1>5. ASSUME NEW t \in Tokens
      PROVE  FeeBooks(t, 0)
  <2> DEFINE due == FeeDue[t][p]
             h == At(p, -due)
  <2>1. due \in Nat
    BY FeesNow DEF FeesAre
  <2>2. PositionSum(h) = -due
    <3>1. -due \in Int
      BY <2>1
    <3> HIDE DEF due
    <3> QED BY <3>1, SumOfMoves
  <2>3. /\ h \in [Positions -> Int] /\ h[p] = -due
        /\ \A x \in Positions \ {p} : h[x] = 0
    <3> HIDE DEF due
    <3> QED BY <2>1 DEF At
  <2>4. \A x \in Positions : FeesMove(t, x, h[x])
    <3>1. \A x \in Positions \ {p} : FeesMove(t, x, 0)
      BY <1>4, KeptMoves
    <3>2. FeesMove(t, p, -due)
      <4>1. /\ position'[p].feePending[t] = 0
            /\ position'[p].feeCheckpoint[t] = pool.feePerLiquidity[t]
        BY <1>3, <1>4
      <4>2. due + (-due) = 0
        BY <2>1
      <4> QED BY <4>1, <4>2 DEF FeesMove
    <3> HIDE DEF h, due
    <3> QED BY <2>3, <3>1, <3>2
  <2>5. /\ vault'[t] = vault[t] - due /\ vault[t] \in Int
        /\ pool.protocolFee[t] \in Int /\ pool.partnerFee[t] \in Int
    BY <1>1, <1>2 DEF IInv, TypeOK, PoolRecord
  <2> HIDE DEF h, due
  <2>6. /\ PositionSum(h) <= 0 /\ vault'[t] = vault[t] + PositionSum(h)
    BY <2>1, <2>2, <2>5
  <2>7. Spare'[t] = Spare[t] + 0 + PositionSum(h)
    BY <1>1, <2>1, <2>2, <2>5 DEF Spare
  <2>8. pool'.feePerLiquidity[t] = pool.feePerLiquidity[t]
    BY <1>1
  <2>9. 0 \in Int
    OBVIOUS
  <2> QED BY <2>3, <2>4, <2>6, <2>7, <2>8, <2>9 DEF FeeBooks
<1>6. /\ Idle["A"] * pool.sqrtPrice * SqrtMaxPrice >= 0 * (SqrtMaxPrice - pool.sqrtPrice)
      /\ Idle["B"] * Scale >= 0 * (pool.sqrtPrice - SqrtMinPrice)
      /\ pool'.liquidity = pool.liquidity + 0
      /\ \A t \in Tokens : Idle[t] = 0 /\ FeeBooks(t, 0)
  BY <1>1, <1>5, IdleCosts
<1>7. \A t \in Tokens : FeeBooks(t, Idle[t])
  <2> SUFFICES ASSUME NEW t \in Tokens PROVE FeeBooks(t, Idle[t])
    OBVIOUS
  <2>1. Idle[t] = 0 /\ FeeBooks(t, 0)
    BY <1>6
  <2> QED BY <2>1
<1> QED BY <1>1, <1>6, <1>7 DEF Steady

\* The protocol and the partner are owed less by what they take.
LEMMA PoolClaimsSteady ==
  ASSUME IInv, NEW max \in [Tokens -> Nat],
         ClaimProtocolFee(max) \/ ClaimPartnerFee(max)
  PROVE  Steady(0, Idle)
<1>1. CASE ClaimProtocolFee(max)
  <2> DEFINE taken == Claimed(pool.protocolFee, max)
             rest == [t \in Tokens |-> pool.protocolFee[t] - taken[t]]
  <2>1. /\ pool' = [pool EXCEPT !.protocolFee = rest]
        /\ vault' = [t \in Tokens |-> vault[t] - taken[t]]
        /\ position' = position
    BY <1>1 DEF ClaimProtocolFee
  <2>2. /\ pool'.protocolFee = rest /\ pool'.partnerFee = pool.partnerFee /\ PoolStands
    <3> HIDE DEF rest
    <3> QED BY <2>1 DEF IInv, TypeOK, PoolRecord, PoolStands
  <2>3. ASSUME NEW t \in Tokens
        PROVE  Spare'[t] = Spare[t]
    <3>1. taken[t] \in 0..pool.protocolFee[t]
      BY ClaimedBounds DEF IInv, TypeOK, PoolRecord
    <3>2. /\ vault[t] \in Int /\ pool.protocolFee[t] \in Int
          /\ pool.partnerFee[t] \in Int
      BY DEF IInv, TypeOK, PoolRecord
    <3>3. /\ vault'[t] = vault[t] - taken[t]
          /\ pool'.protocolFee[t] = pool.protocolFee[t] - taken[t]
          /\ pool'.partnerFee[t] = pool.partnerFee[t]
      BY <2>1, <2>2
    <3> HIDE DEF taken
    <3> QED BY <3>1, <3>2, <3>3 DEF Spare
  <2> QED BY <2>1, <2>2, <2>3, UnchangedMoves, OnlyMovesFees, IdleIsSteady
<1>2. CASE ClaimPartnerFee(max)
  <2> DEFINE taken == Claimed(pool.partnerFee, max)
             rest == [t \in Tokens |-> pool.partnerFee[t] - taken[t]]
  <2>1. /\ pool' = [pool EXCEPT !.partnerFee = rest]
        /\ vault' = [t \in Tokens |-> vault[t] - taken[t]]
        /\ position' = position
    BY <1>2 DEF ClaimPartnerFee
  <2>2. /\ pool'.partnerFee = rest /\ pool'.protocolFee = pool.protocolFee /\ PoolStands
    <3> HIDE DEF rest
    <3> QED BY <2>1 DEF IInv, TypeOK, PoolRecord, PoolStands
  <2>3. ASSUME NEW t \in Tokens
        PROVE  Spare'[t] = Spare[t]
    <3>1. taken[t] \in 0..pool.partnerFee[t]
      BY ClaimedBounds DEF IInv, TypeOK, PoolRecord
    <3>2. /\ vault[t] \in Int /\ pool.protocolFee[t] \in Int
          /\ pool.partnerFee[t] \in Int
      BY DEF IInv, TypeOK, PoolRecord
    <3>3. /\ vault'[t] = vault[t] - taken[t]
          /\ pool'.partnerFee[t] = pool.partnerFee[t] - taken[t]
          /\ pool'.protocolFee[t] = pool.protocolFee[t]
      BY <2>1, <2>2
    <3> HIDE DEF taken
    <3> QED BY <3>1, <3>2, <3>3 DEF Spare
  <2> QED BY <2>1, <2>2, <2>3, UnchangedMoves, OnlyMovesFees, IdleIsSteady
<1> QED BY <1>1, <1>2

\* So is every claim of fees, and the zap of the protocol's.
LEMMA ClaimStepSteady ==
  ASSUME IInv, Dormant, ClaimStep
  PROVE  Steady(0, Idle)
<1>1. ASSUME NEW max \in ClaimCaps, NEW t \in Tokens, ZapProtocolFee(t, max[t])
      PROVE  Steady(0, Idle)
  <2> DEFINE only == [u \in Tokens |-> IF u = t THEN max[t] ELSE 0]
  <2>1. ClaimProtocolFee(only)
    BY <1>1 DEF ZapProtocolFee
  <2>2. only \in [Tokens -> Nat]
    BY InputAssumption
  <2> HIDE DEF only
  <2> QED BY <2>1, <2>2, PoolClaimsSteady
<1>2. ASSUME NEW max \in ClaimCaps, ClaimProtocolFee(max) \/ ClaimPartnerFee(max)
      PROVE  Steady(0, Idle)
  BY <1>2, InputAssumption, PoolClaimsSteady
<1> QED BY <1>1, <1>2, ClaimPositionFeeSteady DEF ClaimStep

\* A claim of rewards leaves fees alone.
LEMMA ClaimRewardFees ==
  ASSUME IInv, NEW p \in Positions, NEW r \in Rewards, NEW skip, ClaimReward(p, r, skip)
  PROVE  FeesOnlyMove
<1> DEFINE settled == SettleRewards(position[p], AccruedRewards)
           left == [settled.rewardPending EXCEPT ![r] = 0]
           pos == [settled EXCEPT !.rewardPending = left]
<1>1. position' = [position EXCEPT ![p] = pos]
  BY DEF ClaimReward
<1>2. /\ pos.feePending = position[p].feePending
      /\ pos.feeCheckpoint = position[p].feeCheckpoint
      /\ TotalLiquidity(pos) = TotalLiquidity(position[p])
  BY DEF IInv, TypeOK, PositionRecord, SettleRewards, TotalLiquidity
<1> HIDE DEF pos
<1>3. /\ position'[p] = pos
      /\ \A x \in Positions \ {p} : position'[x] = position[x] /\ Kept(x)
  BY <1>1, Replaced
<1>4. \A t \in Tokens, x \in Positions : FeesMove(t, x, Nothing[x])
  <2>1. \A x \in Positions : Nothing[x] = 0
    BY DEF Nothing
  <2>2. \A t \in Tokens : FeesMove(t, p, 0)
    BY <1>2, <1>3 DEF FeesMove, SameLiquidity
  <2>3. \A t \in Tokens : \A x \in Positions \ {p} : FeesMove(t, x, 0)
    BY <1>3, KeptMoves
  <2> QED BY <2>1, <2>2, <2>3
<1>5. Nothing \in [Positions -> Int] /\ PositionSum(Nothing) = 0
  BY SumOfMoves DEF Nothing
<1> QED BY <1>4, <1>5 DEF FeesOnlyMove

\* Every instruction but a swap is steady.
LEMMA EveryStepSteady ==
  ASSUME IInv, ClosedZero, Dormant, OtherStep \/ UNCHANGED vars
  PROVE  \E d, a : Steady(d, a)
<1>1. ASSUME FeesOnlyMove, UNCHANGED <<vault>>, PoolStands,
             pool'.protocolFee = pool.protocolFee,
             pool'.partnerFee = pool.partnerFee
      PROVE  \E d, a : Steady(d, a)
  <2>1. \A t \in Tokens : Spare'[t] = Spare[t]
    BY <1>1 DEF Spare
  <2>2. Steady(0, Idle)
    BY <1>1, <2>1, IdleIsSteady
  <2> QED BY <2>2
<1>2. ASSUME FeesOnlyMove, pool' = pool, vault' = vault
      PROVE  \E d, a : Steady(d, a)
  BY <1>1, <1>2 DEF PoolStands
<1>3. CASE PositionStep
  <2>1. FeesOnlyMove
    BY <1>3, PositionStepMoves, OnlyMovesFees
  <2>2. ASSUME NEW p \in Positions, NEW n, PermanentLock(p, n)
        PROVE  \E d, a : Steady(d, a)
    <3>1. /\ vault' = vault
          /\ pool' = [pool EXCEPT !.permanentLock = @ + n]
      BY <2>2 DEF PermanentLock
    <3>2. /\ pool'.protocolFee = pool.protocolFee /\ pool'.partnerFee = pool.partnerFee
          /\ PoolStands
      BY <3>1 DEF IInv, TypeOK, PoolRecord, PoolStands
    <3> QED BY <1>1, <2>1, <3>1, <3>2
  <2>3. ASSUME NEW p \in Positions, NEW d \in LiquidityDeltas,
               AddLiquidity(p, d) \/ RemoveLiquidity(p, d)
        PROVE  \E e, a : Steady(e, a)
    BY <2>3, InputAssumption, AddLiquiditySteady, RemoveLiquiditySteady
  <2>4. ASSUME NEW p \in Positions, RemoveLiquidity(p, position[p].unlocked)
        PROVE  \E d, a : Steady(d, a)
    <3>1. position[p].unlocked \in Nat
      BY DEF IInv, TypeOK, PositionRecord
    <3> QED BY <2>4, <3>1, RemoveLiquiditySteady
  <2>5. ASSUME NEW p \in Positions, CreatePosition(p) \/ ClosePosition(p)
        PROVE  \E d, a : Steady(d, a)
    BY <1>2, <2>1, <2>5 DEF CreatePosition, ClosePosition
  <2>6. ASSUME NEW p \in Positions, NEW q \in Positions, NEW s, SplitPosition(p, q, s)
        PROVE  \E d, a : Steady(d, a)
    BY <1>2, <2>1, <2>6 DEF SplitPosition
  <2>7. ASSUME NEW p \in Positions, NEW id, NEW s, LockPosition(p, id, s)
        PROVE  \E d, a : Steady(d, a)
    BY <1>2, <2>1, <2>7 DEF LockPosition
  <2>8. ASSUME NEW v \in vestings, RefreshVesting(v)
        PROVE  \E d, a : Steady(d, a)
    BY <1>2, <2>1, <2>8 DEF RefreshVesting
  <2> QED BY <1>3, <2>2, <2>3, <2>4, <2>5, <2>6, <2>7, <2>8 DEF PositionStep
<1>4. CASE ClaimStep
  BY <1>4, ClaimStepSteady
<1>5. CASE RewardStep
  <2>1. pool' = pool /\ vault' = vault
    BY <1>5 DEF RewardStep, InitializeReward, UpdateRewardDuration, FundReward,
                WithdrawIneligibleReward, ClaimReward, ToggleFreeze
  <2>2. \/ position' = position
        \/ \E p \in Positions, r \in Rewards, skip \in BOOLEAN : ClaimReward(p, r, skip)
    BY <1>5 DEF RewardStep, InitializeReward, UpdateRewardDuration, FundReward,
                WithdrawIneligibleReward, ToggleFreeze
  <2>3. FeesOnlyMove
    BY <2>2, ClaimRewardFees, UnchangedMoves, OnlyMovesFees
  <2> QED BY <1>2, <2>1, <2>3
<1>6. CASE StatusStep
  <2>1. PICK b \in Statuses : SetPoolStatus(b)
    BY <1>6 DEF StatusStep
  <2>2. /\ position' = position /\ vault' = vault
        /\ pool' = [pool EXCEPT !.enabled = b]
    BY <2>1 DEF SetPoolStatus
  <2>3. /\ pool'.protocolFee = pool.protocolFee /\ pool'.partnerFee = pool.partnerFee
        /\ PoolStands
    BY <2>2 DEF IInv, TypeOK, PoolRecord, PoolStands
  <2> QED BY <1>1, <2>2, <2>3, UnchangedMoves, OnlyMovesFees
<1>7. CASE Tick \/ UNCHANGED vars
  <2>1. position' = position /\ pool' = pool /\ vault' = vault
    BY <1>7 DEF Tick, vars
  <2> QED BY <1>2, <2>1, UnchangedMoves, OnlyMovesFees
<1> QED BY <1>3, <1>4, <1>5, <1>6, <1>7 DEF OtherStep

-----------------------------------------------------------------------------
\* A position that an instruction leaves open, or blank, is no exception.
LEMMA ReplacedClosed ==
  ASSUME IInv, ClosedZero, NEW p \in Positions, NEW pos,
         position' = [position EXCEPT ![p] = pos], pos.open \/ pos = NoPosition
  PROVE  ClosedZero'
<1>1. /\ position'[p] = pos
      /\ \A x \in Positions \ {p} : position'[x] = position[x]
  BY Replaced
<1> QED BY <1>1 DEF ClosedZero

\* Settling a position keeps it open.
LEMMA SettledOpen ==
  ASSUME IInv, NEW p \in Positions, position[p].open
  PROVE  /\ Settled(p).open /\ Settled(p) \in PositionRecord
         /\ SettleFees(position[p]).open /\ SettleFees(position[p]) \in PositionRecord
         /\ SettleRewards(position[p], AccruedRewards).open
         /\ SettleRewards(position[p], AccruedRewards) \in PositionRecord
<1>1. position[p] \in PositionRecord /\ pool \in PoolRecord
  BY DEF IInv, TypeOK
<1>2. Settled(p) \in PositionRecord
  BY SettledSound
<1>3. SettleFees(position[p]) \in PositionRecord
  <2>1. \A t \in Tokens : position[p].feeCheckpoint[t] <= pool.feePerLiquidity[t]
    BY DEF IInv, NoUnderflow, FeeCheckpointsBehind
  <2> QED BY <1>1, <2>1, SettleFeesSound
<1>4. SettleRewards(position[p], AccruedRewards) \in PositionRecord
  <2>1. \A r \in Rewards : position[p].rewardCheckpoint[r] <= AccruedRewards[r].stored
    <3>1. \A r \in Rewards :
            /\ Stored[r] - position[p].rewardCheckpoint[r] \in Nat
            /\ Stored[r] \in Nat /\ position[p].rewardCheckpoint[r] \in Nat
      BY PositionFields
    <3> QED BY <3>1 DEF Stored
  <2>2. AccruedRewards \in [Rewards -> RewardRecord]
    BY AccruedRewardsSound
  <2> QED BY <1>1, <2>1, <2>2, SettleRewardsSound
<1>5. SettleRewards(position[p], AccruedRewards).open
  BY <1>1 DEF SettleRewards, PositionRecord
<1>6. ASSUME NEW pos \in PositionRecord, pos.open
      PROVE  SettleFees(pos).open
  BY <1>6 DEF SettleFees, PositionRecord
<1> QED BY <1>1, <1>2, <1>3, <1>4, <1>5, <1>6 DEF Settled

\* Only open positions are ever credited (handle_close_position gives the
\* account back, and create_position starts from zero).
LEMMA StepClosedZero ==
  ASSUME IInv, ClosedZero, [SwapStep(TradeFeeRecord) \/ OtherStep]_vars
  PROVE  ClosedZero'
<1>1. ASSUME position' = position
      PROVE  ClosedZero'
  BY <1>1 DEF ClosedZero
<1>2. CASE PositionStep
  <2>1. ASSUME NEW p \in Positions, CreatePosition(p)
        PROVE  ClosedZero'
    <3>1. position' = [position EXCEPT ![p] = NewPosition(0)] /\ NewPosition(0).open
      BY <2>1 DEF CreatePosition, NewPosition, NoPosition
    <3> QED BY <3>1, ReplacedClosed
  <2>2. ASSUME NEW p \in Positions, ClosePosition(p)
        PROVE  ClosedZero'
    BY <2>2, ReplacedClosed DEF ClosePosition
  <2>3. ASSUME NEW p \in Positions, NEW d,
               AddLiquidity(p, d) \/ RemoveLiquidity(p, d)
        PROVE  ClosedZero'
    <3>1. PICK n : position' = [position EXCEPT ![p] =
                                  [Settled(p) EXCEPT !.unlocked = n]]
      BY <2>3 DEF AddLiquidity, RemoveLiquidity
    <3>2. position[p].open
      BY <2>3 DEF AddLiquidity, RemoveLiquidity
    <3>3. [Settled(p) EXCEPT !.unlocked = n].open
      BY <3>2, SettledOpen DEF PositionRecord
    <3> QED BY <3>1, <3>3, ReplacedClosed
  <2>4. ASSUME NEW p \in Positions, NEW q \in Positions, NEW s \in SplitShares,
               SplitPosition(p, q, s)
        PROVE  ClosedZero'
    <3>1. position[p].open /\ position[q].open /\ p # q
      BY <2>4 DEF SplitPosition
    <3>2. PICK n1, n2, n3, n4, m1, m2, m3, m4 :
            position' = [position EXCEPT
              ![p] = [Settled(p) EXCEPT !.unlocked = n1, !.permanent = n2,
                                        !.feePending = n3, !.rewardPending = n4],
              ![q] = [Settled(q) EXCEPT !.unlocked = m1, !.permanent = m2,
                                        !.feePending = m3, !.rewardPending = m4]]
      BY <2>4 DEF SplitPosition
    <3> DEFINE pos1 == [Settled(p) EXCEPT !.unlocked = n1, !.permanent = n2,
                                          !.feePending = n3, !.rewardPending = n4]
               pos2 == [Settled(q) EXCEPT !.unlocked = m1, !.permanent = m2,
                                          !.feePending = m3, !.rewardPending = m4]
    <3>3. pos1.open /\ pos2.open
      BY <3>1, SettledOpen DEF PositionRecord
    <3>4. position' = [position EXCEPT ![p] = pos1, ![q] = pos2]
      BY <3>2
    <3> HIDE DEF pos1, pos2
    <3>5. /\ position'[p] = pos1 /\ position'[q] = pos2
          /\ \A x \in Positions \ {p, q} : position'[x] = position[x]
      BY <3>1, <3>4 DEF IInv, TypeOK
    <3> QED BY <3>3, <3>5 DEF ClosedZero
  <2>5. ASSUME NEW p \in Positions, NEW id \in VestingIds, NEW s \in Schedules,
               LockPosition(p, id, s)
        PROVE  ClosedZero'
    <3>1. position[p].open
          /\ \E n, m : position' = [position EXCEPT ![p].unlocked = n, ![p].vested = m]
      BY <2>5 DEF LockPosition
    <3> QED BY <3>1 DEF ClosedZero, IInv, TypeOK, PositionRecord
  <2>6. ASSUME NEW v \in vestings, RefreshVesting(v)
        PROVE  ClosedZero'
    <3>1. position[v.position].open
          /\ \E n, m : position' = [position EXCEPT ![v.position].unlocked = n,
                                                    ![v.position].vested = m]
      BY <2>6 DEF RefreshVesting
    <3>2. v.position \in Positions
      BY DEF IInv, TypeOK, VestingRecord
    <3> QED BY <3>1, <3>2 DEF ClosedZero, IInv, TypeOK, PositionRecord
  <2>7. ASSUME NEW p \in Positions, NEW n \in LockAmounts, PermanentLock(p, n)
        PROVE  ClosedZero'
    <3>1. position[p].open
          /\ \E k, m : position' = [position EXCEPT ![p].unlocked = k, ![p].permanent = m]
      BY <2>7 DEF PermanentLock
    <3> QED BY <3>1 DEF ClosedZero, IInv, TypeOK, PositionRecord
  <2> QED BY <1>2, <2>1, <2>2, <2>3, <2>4, <2>5, <2>6, <2>7 DEF PositionStep
<1>3. CASE ClaimStep
  <2>1. ASSUME NEW p \in Positions, ClaimPositionFee(p)
        PROVE  ClosedZero'
    <3>1. position[p].open
          /\ position' = [position EXCEPT ![p] =
               [SettleFees(position[p]) EXCEPT !.feePending = [t \in Tokens |-> 0]]]
      BY <2>1 DEF ClaimPositionFee
    <3>2. [SettleFees(position[p]) EXCEPT !.feePending = [t \in Tokens |-> 0]].open
      BY <3>1, SettledOpen DEF PositionRecord
    <3> QED BY <3>1, <3>2, ReplacedClosed
  <2> QED BY <1>1, <1>3, <2>1
          DEF ClaimStep, ClaimProtocolFee, ClaimPartnerFee, ZapProtocolFee
<1>4. CASE RewardStep
  <2>1. ASSUME NEW p \in Positions, NEW r \in Rewards, NEW skip, ClaimReward(p, r, skip)
        PROVE  ClosedZero'
    <3> DEFINE settled == SettleRewards(position[p], AccruedRewards)
    <3>1. position[p].open
          /\ position' = [position EXCEPT ![p] = [settled EXCEPT !.rewardPending[r] = 0]]
      BY <2>1 DEF ClaimReward
    <3>2. [settled EXCEPT !.rewardPending[r] = 0].open
      <4>1. settled.open /\ settled \in PositionRecord
        BY <3>1, SettledOpen
      <4> HIDE DEF settled
      <4> QED BY <4>1 DEF PositionRecord
    <3> QED BY <3>1, <3>2, ReplacedClosed
  <2> QED BY <1>1, <1>4, <2>1
          DEF RewardStep, InitializeReward, UpdateRewardDuration, FundReward,
              WithdrawIneligibleReward, ToggleFreeze
<1> QED BY <1>1, <1>2, <1>3, <1>4
        DEF SwapStep, Swap, OtherStep, StatusStep, SetPoolStatus, Tick, vars

\* No reward accrues before it was initialized.
LEMMA StepDormant ==
  ASSUME IInv, Dormant, [SwapStep(TradeFeeRecord) \/ OtherStep]_vars
  PROVE  Dormant'
<1>1. ASSUME reward' = reward
      PROVE  Dormant'
  BY <1>1 DEF Dormant
<1>2. \A r \in Rewards : ~reward[r].initialized => AccruedRewards[r] = NoReward
  BY DEF Dormant, AccruedRewards, AccrueReward
<1>3. AccruedRewards \in [Rewards -> RewardRecord]
      /\ \A r \in Rewards : AccruedRewards[r].initialized = reward[r].initialized
  BY AccruedRewardsSound
<1>4. ASSUME reward' = AccruedRewards
      PROVE  Dormant'
  BY <1>2, <1>3, <1>4 DEF Dormant
<1>5. ASSUME NEW r \in Rewards, NEW base \in {reward, AccruedRewards}, NEW info,
             reward' = [base EXCEPT ![r] = info], info.initialized
      PROVE  Dormant'
  <2>1. reward \in [Rewards -> RewardRecord]
    BY DEF IInv, TypeOK
  <2>2. \A x \in Rewards \ {r} : reward'[x] = base[x]
    BY <1>3, <1>5, <2>1
  <2>3. reward'[r] = info
    BY <1>3, <1>5, <2>1
  <2> QED BY <1>2, <1>3, <1>5, <2>2, <2>3 DEF Dormant
<1>6. CASE RewardStep
  <2>1. ASSUME NEW r \in Rewards, NEW d, InitializeReward(r, d)
        PROVE  Dormant'
    <3>1. /\ reward' = [reward EXCEPT ![r] = [@ EXCEPT !.initialized = TRUE, !.duration = d]]
          /\ [reward[r] EXCEPT !.initialized = TRUE, !.duration = d].initialized
      BY <2>1 DEF InitializeReward, IInv, TypeOK, RewardRecord
    <3> QED BY <1>5, <3>1
  <2>2. ASSUME NEW r \in Rewards, NEW d, UpdateRewardDuration(r, d)
        PROVE  Dormant'
    <3>1. /\ reward' = [reward EXCEPT ![r] = [@ EXCEPT !.duration = d]]
          /\ [reward[r] EXCEPT !.duration = d].initialized
      BY <2>2 DEF UpdateRewardDuration, IInv, TypeOK, RewardRecord
    <3> QED BY <1>5, <3>1
  <2>3. ASSUME NEW r \in Rewards, NEW n, NEW c, FundReward(r, n, c)
        PROVE  Dormant'
    <3>1. PICK rate, last, end :
            reward' = [AccruedRewards EXCEPT ![r] =
              [[AccruedRewards[r] EXCEPT !.emptySeconds = 0]
                 EXCEPT !.rate = rate, !.lastUpdate = last, !.end = end]]
      BY <2>3 DEF FundReward, Refunded
    <3> DEFINE info == [[AccruedRewards[r] EXCEPT !.emptySeconds = 0]
                          EXCEPT !.rate = rate, !.lastUpdate = last, !.end = end]
    <3>2. reward[r].initialized
      BY <2>3 DEF FundReward
    <3>3. info.initialized
      BY <1>3, <3>2 DEF RewardRecord
    <3>4. reward' = [AccruedRewards EXCEPT ![r] = info]
      BY <3>1
    <3> HIDE DEF info
    <3> QED BY <1>5, <3>3, <3>4
  <2>4. ASSUME NEW r \in Rewards, WithdrawIneligibleReward(r)
        PROVE  Dormant'
    <3>1. /\ reward[r].initialized
          /\ reward' = [AccruedRewards EXCEPT ![r] = [@ EXCEPT !.emptySeconds = 0]]
      BY <2>4 DEF WithdrawIneligibleReward
    <3>2. [AccruedRewards[r] EXCEPT !.emptySeconds = 0].initialized
      BY <1>3, <3>1 DEF RewardRecord
    <3> QED BY <1>5, <3>1, <3>2
  <2>5. ASSUME NEW p \in Positions, NEW r \in Rewards, NEW skip, ClaimReward(p, r, skip)
        PROVE  Dormant'
    BY <1>4, <2>5 DEF ClaimReward
  <2> QED BY <1>1, <1>6, <2>1, <2>2, <2>3, <2>4, <2>5 DEF RewardStep, ToggleFreeze
<1>7. CASE PositionStep
  <2>1. ASSUME NEW p, NEW q, NEW id, NEW s, NEW n,
               \/ AddLiquidity(p, n) \/ RemoveLiquidity(p, n)
               \/ SplitPosition(p, q, s)
        PROVE  reward' = AccruedRewards
    BY <2>1 DEF AddLiquidity, RemoveLiquidity, SplitPosition
  <2>2. ASSUME NEW p, NEW q, NEW id, NEW s, NEW n,
               \/ CreatePosition(p) \/ ClosePosition(p)
               \/ LockPosition(p, id, s) \/ RefreshVesting(p)
               \/ PermanentLock(p, n)
        PROVE  reward' = reward
    BY <2>2 DEF CreatePosition, ClosePosition, LockPosition, RefreshVesting, PermanentLock
  <2>3. reward' = reward \/ reward' = AccruedRewards
    BY <1>7, <2>1, <2>2, Zenon DEF PositionStep
  <2> QED BY <1>1, <1>4, <2>3
<1>8. CASE ClaimStep
  BY <1>1, <1>8 DEF ClaimStep, ClaimPositionFee, ClaimProtocolFee, ClaimPartnerFee,
                    ZapProtocolFee
<1>9. CASE SwapStep(TradeFeeRecord)
  <2>1. reward' = reward
    BY <1>9 DEF SwapStep, Swap
  <2> QED BY <1>1, <2>1
<1>10. CASE StatusStep \/ Tick \/ UNCHANGED vars
  <2>1. reward' = reward
    BY <1>10 DEF StatusStep, SetPoolStatus, Tick, vars
  <2> QED BY <1>1, <2>1
<1> QED BY <1>6, <1>7, <1>8, <1>9, <1>10 DEF OtherStep

-----------------------------------------------------------------------------
\* A pool is created solvent: the creator pays for all of its liquidity, and
\* nobody is owed anything yet.
LEMMA InitCovered ==
  ASSUME Init
  PROVE  ClosedZero /\ Dormant /\ Covered
<1>1. PICK p \in Positions, L \in InitLiquidity, price \in InitPrices,
           customizable \in BOOLEAN : InitializePool(p, L, price, customizable)
  BY DEF Init, InitialState
<1> DEFINE a == DeltaA(price, SqrtMaxPrice, L, "Up")
           b == DeltaB(SqrtMinPrice, price, L, "Up")
<1>2. /\ price \in Nat \ {0} /\ SqrtMinPrice \in Nat \ {0} /\ SqrtMaxPrice \in Nat
      /\ SqrtMinPrice <= price /\ price <= SqrtMaxPrice /\ L \in Nat
      /\ price * SqrtMaxPrice \in Nat \ {0}
  <2>1. price \in SqrtMinPrice..SqrtMaxPrice /\ L \in Nat
    BY <1>1, InputAssumption DEF InitializePool
  <2> QED BY <2>1, PriceAssumption, MulPos
<1>3. a \in Nat /\ b \in Nat
  BY <1>2, DeltaNat
<1>4. /\ L * (SqrtMaxPrice - price) <= a * (price * SqrtMaxPrice)
      /\ L * (price - SqrtMinPrice) <= b * Scale
  <2>1. L * (SqrtMaxPrice - price) \in Int /\ L * (price - SqrtMinPrice) \in Int
    BY <1>2
  <2> QED BY <1>2, <2>1, CeilDivEnough, ScaleAssumption
          DEF DeltaA, DeltaB, DivRound
<1> HIDE DEF a, b
<1>5. /\ vault = [t \in Tokens |-> InitVault(t, IF t = "A" THEN a ELSE b, customizable)]
      /\ pool = InitialPool(L, price)
      /\ position = [q \in Positions |-> IF q = p THEN NewPosition(L) ELSE NoPosition]
      /\ reward = [r \in Rewards |-> NoReward]
  BY <1>1 DEF InitializePool, Init, InitialState, a, b
<1>6. ASSUME NEW t \in Tokens, NEW n \in Nat
      PROVE  InitVault(t, n, customizable) \in Nat /\ InitVault(t, n, customizable) >= n
  <2>1. ExcludedAmount(t, 1) \in Nat
    BY TransferFeeBounds
  <2> QED BY <2>1 DEF InitVault
<1>7. /\ vault["A"] \in Nat /\ vault["A"] >= a
      /\ vault["B"] \in Nat /\ vault["B"] >= b
  BY <1>3, <1>5, <1>6, TokensAre
<1>8. ASSUME NEW t \in Tokens
      PROVE  Spare[t] = vault[t] /\ Surplus[t] = vault[t] * LiquidityScale
  <2>1. /\ pool.feePerLiquidity[t] = 0 /\ pool.protocolFee[t] = 0
        /\ pool.partnerFee[t] = 0
    BY <1>5 DEF InitialPool
  <2>2. \A x \in Positions : /\ position[x].feePending[t] = 0
                             /\ position[x].feeCheckpoint[t] = 0
    BY <1>5 DEF NewPosition, NoPosition
  <2>3. IInv
    BY InitSound
  <2>4. \A x \in Positions : FeeOwed[t][x] = 0
    <3>1. \A x \in Positions : /\ TotalLiquidity(position[x]) \in Nat
            /\ FeeOwed[t][x] = position[x].feePending[t] * LiquidityScale
                 + TotalLiquidity(position[x])
                     * (pool.feePerLiquidity[t] - position[x].feeCheckpoint[t])
      BY <2>3, FeesNow DEF FeesAre
    <3>2. \A n \in Nat : 0 * LiquidityScale + n * (0 - 0) = 0
      BY ScalesPositive
    <3> QED BY <2>1, <2>2, <3>1, <3>2
  <2>5. PositionSum(FeeOwed[t]) = 0
    BY <2>4, PositionSumZero
  <2>6. vault[t] \in Int /\ LiquidityScale \in Int
    BY <2>3, ScalesPositive DEF IInv, TypeOK
  <2>7. Spare[t] = vault[t]
    BY <2>1, <2>6 DEF Spare
  <2> QED BY <2>5, <2>6, <2>7 DEF Surplus
<1>9. CoversA(Surplus["A"], price, L) /\ CoversB(Surplus["B"], price, L)
  <2> DEFINE K == LiquidityScale
             N == SqrtMaxPrice
             M == SqrtMinPrice
             va == vault["A"]
             vb == vault["B"]
  <2>1. K \in Nat /\ Scale \in Nat /\ N - price \in Nat /\ price - M \in Nat
        /\ N \in Nat /\ M \in Nat
    BY <1>2, ScalesPositive, ScaleAssumption
  <2>2. va >= a /\ vb >= b /\ va \in Nat /\ vb \in Nat
    BY <1>7
  <2>3. /\ L * (N - price) <= a * (price * N) /\ L * (price - M) <= b * Scale
    BY <1>4
  <2> HIDE DEF K, N, M, va, vb
  <2>4. va * (price * N) >= L * (N - price)
    <3>1. va * (price * N) >= a * (price * N)
      BY <1>2, <1>3, <2>1, <2>2
    <3>2. va * (price * N) \in Int /\ a * (price * N) \in Int /\ L * (N - price) \in Int
      BY <1>2, <1>3, <2>1, <2>2
    <3> QED BY <2>3, <3>1, <3>2
  <2>5. vb * Scale >= L * (price - M)
    <3>1. vb * Scale >= b * Scale
      BY <1>3, <2>1, <2>2
    <3>2. vb * Scale \in Int /\ b * Scale \in Int /\ L * (price - M) \in Int
      BY <1>2, <1>3, <2>1, <2>2
    <3> QED BY <2>3, <3>1, <3>2
  <2>6. va * K * price * N >= K * L * (N - price)
    <3>1. va * K * price * N = K * (va * (price * N))
          /\ K * L * (N - price) = K * (L * (N - price))
      BY <1>2, <2>1, <2>2
    <3>2. va * (price * N) \in Int /\ L * (N - price) \in Int
      BY <1>2, <2>1, <2>2
    <3> QED BY <2>1, <2>4, <3>1, <3>2
  <2>7. vb * K * Scale >= K * L * (price - M)
    <3>1. vb * K * Scale = K * (vb * Scale)
          /\ K * L * (price - M) = K * (L * (price - M))
      BY <1>2, <2>1, <2>2
    <3>2. vb * Scale \in Int /\ L * (price - M) \in Int
      BY <1>2, <2>1, <2>2
    <3> QED BY <2>1, <2>5, <3>1, <3>2
  <2>8. Surplus["A"] = va * K /\ Surplus["B"] = vb * K
    BY <1>8, TokensAre DEF va, vb, K
  <2> QED BY <2>6, <2>7, <2>8 DEF CoversA, CoversB, K, N, M
<1>10. pool.sqrtPrice = price /\ pool.liquidity = L
  BY <1>5 DEF InitialPool
<1>11. ClosedZero
  BY <1>5 DEF ClosedZero, NewPosition, NoPosition
<1>12. Dormant
  BY <1>5 DEF Dormant
<1> QED BY <1>9, <1>10, <1>11, <1>12 DEF Covered

\* What every instruction preserves about the vaults of the two tokens.
VaultInv == ClosedZero /\ Dormant /\ Covered

\* Every step keeps the vaults solvent and the fees conserved.
LEMMA EveryStepCovers ==
  ASSUME IInv, IInv', LiquidityConserved, VaultInv,
         [SwapStep(TradeFeeRecord) \/ OtherStep]_vars
  PROVE  VaultInv' /\ \A t \in Tokens : FeesKeptAt(t)
<1>1. ClosedZero' /\ Dormant'
  BY StepClosedZero, StepDormant DEF VaultInv
<1>2. CASE SwapStep(TradeFeeRecord)
  <2>1. PICK mode \in Modes, dir \in Directions, amount \in SwapAmounts,
             f \in TradeFeeRecord, hasReferral \in BOOLEAN,
             whitelisted \in {FALSE, HasWhitelistedVault} :
          Swap(mode, dir, amount, FeeFor(dir, f), hasReferral, whitelisted)
    BY <1>2 DEF SwapStep
  <2>2. /\ mode \in SwapModes /\ amount \in Nat
        /\ FeeFor(dir, f) \in TradeFeeRecord /\ position' = position
    BY <2>1, InputAssumption, FeeForRecord DEF Swap
  <2>3. Covered'
    BY <2>1, <2>2, SwapCovered DEF VaultInv
  <2>4. \A t \in Tokens : FeesKeptAt(t)
    BY <2>2, SwapKeepsFees
  <2> QED BY <1>1, <2>3, <2>4 DEF VaultInv
<1>3. CASE OtherStep \/ UNCHANGED vars
  <2>1. PICK d, a : Steady(d, a)
    BY <1>3, EveryStepSteady DEF VaultInv
  <2>2. Covered'
    BY <2>1, SteadyCovered DEF VaultInv
  <2>3. \A t \in Tokens : FeesKeptAt(t)
    BY <2>1, FeeBooksBalance DEF Steady
  <2> QED BY <1>1, <2>2, <2>3 DEF VaultInv
<1> QED BY <1>2, <1>3

\* The vaults stay solvent under any instructions and whatever the trade fees.
THEOREM AnyFeeVaultsSolvent == AnyFeeSpec => [](IInv /\ VaultInv)
<1>1. Init => VaultInv
  BY InitCovered DEF VaultInv
<1>2. IInv /\ IInv' /\ LiquidityConserved /\ VaultInv
        /\ [SwapStep(TradeFeeRecord) \/ OtherStep]_vars => VaultInv'
  BY EveryStepCovers
<1> QED BY <1>1, <1>2, AnyFeeInvariantHolds, AnyFeeLiquidityConserved, PTL
        DEF AnyFeeSpec

\* The vault of token A always holds the fees owed in A to the protocol, the
\* partner and every position, and what the whole liquidity is worth in A at
\* the current price, before any rounding (curve.rs, fee.rs, token.rs and the
\* transfers of p_handle_swap).
THEOREM VaultASolventHolds == Spec => []VaultASolvent
<1>1. IInv /\ VaultInv => VaultASolvent
  BY SolventIsCovered DEF VaultInv
<1> QED BY <1>1, AnyFeeCovers, AnyFeeVaultsSolvent, PTL

\* The same of token B.
THEOREM VaultBSolventHolds == Spec => []VaultBSolvent
<1>1. IInv /\ VaultInv => VaultBSolvent
  BY SolventIsCovered DEF VaultInv
<1> QED BY <1>1, AnyFeeCovers, AnyFeeVaultsSolvent, PTL

\* FeesConserved names the state functions of the proof.
FeeDueNames == \A t \in Tokens : FeeDue[t] = ClaimableFees(t)

\* Unless a swap feeds the accumulator of a token, no instruction changes what
\* all positions together can claim of it, but by paying it out.
THEOREM FeesConservedHolds == Spec => FeesConserved
<1>1. IInv /\ IInv' /\ LiquidityConserved /\ VaultInv
        /\ [SwapStep(TradeFeeRecord) \/ OtherStep]_vars
        => \A t \in Tokens : FeesKeptAt(t)
  BY EveryStepCovers
<1>2. FeeDueNames
  BY DEF FeeDueNames, FeeDue
<1>3. FeeDueNames /\ FeeDueNames' /\ (\A t \in Tokens : FeesKeptAt(t))
        => [\A t \in Tokens :
       LET Was == PositionSum(ClaimableFees(t))
           Is  == PositionSum(ClaimableFees(t)')
       IN  pool'.feePerLiquidity[t] = pool.feePerLiquidity[t] =>
             \/ Is = Was
             \/ Is < Was /\ Was - Is = vault[t] - vault'[t]]_vars
  <2> SUFFICES ASSUME FeeDueNames, FeeDueNames', NEW t \in Tokens, FeesKeptAt(t),
                      pool'.feePerLiquidity[t] = pool.feePerLiquidity[t]
               PROVE  LET Was == PositionSum(ClaimableFees(t))
                          Is  == PositionSum(ClaimableFees(t)')
                      IN  \/ Is = Was
                          \/ Is < Was /\ Was - Is = vault[t] - vault'[t]
    OBVIOUS
  <2> QED BY DEF FeesKeptAt, FeeDueNames
<1> QED BY <1>1, <1>2, <1>3, AnyFeeCovers, AnyFeeVaultsSolvent,
           AnyFeeLiquidityConserved, PTL DEF FeesConserved, AnyFeeSpec

-----------------------------------------------------------------------------
\* The reward vaults.  What positions have accrued, what the distribution
\* under way still has to pay and what it paid to nobody stay within the
\* vault.  Accrual turns the second into the first, or into the third while
\* the pool is empty, and rounds down; it reaches the same numbers whenever it
\* is done, so a step either leaves a reward alone (Standing) or accrues first
\* and accounts for what it then moves (Accounted).


\* What the distribution under way still has to pay, and what it paid to
\* nobody, in units of 1/TotalRewardScale.
Budget(info) ==
  info.rate * LiquidityScale * ((info.end - info.lastUpdate) + info.emptySeconds)

RewardsShared == [r \in Rewards |-> RewardShares(r)]

\* The vault of a reward covers its claims, as stored and as brought up to the
\* present.
CoversReward(r) ==
  rewardVault[r] * TotalRewardScale
    >= PositionSum(RewardsShared[r]) + Budget(reward[r])

CoversAccrued(r) ==
  rewardVault[r] * TotalRewardScale
    >= PositionSum(RewardOwed[r]) + Budget(AccruedRewards[r])

RewardsCovered == \A r \in Rewards : CoversReward(r)

\* They are the invariant that the runs check.
LEMMA CoveredIsSolvent == RewardsCovered <=> RewardVaultSolvent
BY DEF RewardsCovered, CoversReward, RewardsShared, Budget, RewardVaultSolvent

-----------------------------------------------------------------------------
\* What accrual does to one reward (RewardInfo::update_rewards).
Elapsed(info) == Smaller(now, info.end) - info.lastUpdate

\* The terms of the distribution do not change.
LEMMA AccruedFields ==
  ASSUME IInv, NEW r \in Rewards
  PROVE  /\ reward[r] \in RewardRecord /\ Elapsed(reward[r]) \in Nat
         /\ AccruedRewards[r] \in RewardRecord
         /\ AccruedRewards[r].rate = reward[r].rate
         /\ AccruedRewards[r].end = reward[r].end
         /\ AccruedRewards[r].initialized = reward[r].initialized
         /\ AccruedRewards[r].duration = reward[r].duration
<1>1. /\ reward[r] \in RewardRecord /\ pool \in PoolRecord /\ now \in Nat
      /\ reward[r].lastUpdate <= Smaller(now, reward[r].end)
  BY DEF IInv, TypeOK, NoUnderflow, RewardClockBehind
<1>2. AccruedRewards[r] = AccrueReward(reward[r])
  BY DEF AccruedRewards
<1>3. Elapsed(reward[r]) \in Nat
  BY <1>1 DEF Elapsed, Smaller, RewardRecord
<1> QED BY <1>1, <1>2, <1>3, AccrueRewardSound

\* While the pool has liquidity the elapsed time is paid to it, rounded down.
LEMMA AccruedToLiquidity ==
  ASSUME IInv, NEW r \in Rewards, reward[r].initialized, pool.liquidity > 0
  PROVE  LET n == (Elapsed(reward[r]) * reward[r].rate * LiquidityScale)
                    \div pool.liquidity
         IN  /\ Stored[r] = reward[r].stored + n
             /\ AccruedRewards[r].stored = Stored[r]
             /\ AccruedRewards[r].emptySeconds = reward[r].emptySeconds
             /\ AccruedRewards[r].lastUpdate = Smaller(now, reward[r].end)
<1> DEFINE info == reward[r]
           n == (Elapsed(info) * info.rate * LiquidityScale) \div pool.liquidity
           upto == Smaller(now, info.end)
<1>1. info \in RewardRecord
  BY AccruedFields
<1>2. AccruedRewards[r] = [info EXCEPT !.stored = @ + n, !.lastUpdate = upto]
  BY DEF AccruedRewards, AccrueReward, Elapsed
<1> HIDE DEF info, n, upto
<1>3. [info EXCEPT !.stored = @ + n, !.lastUpdate = upto].stored = info.stored + n
      /\ [info EXCEPT !.stored = @ + n, !.lastUpdate = upto].lastUpdate = upto
      /\ [info EXCEPT !.stored = @ + n, !.lastUpdate = upto].emptySeconds
           = info.emptySeconds
  BY <1>1 DEF RewardRecord
<1> QED BY <1>2, <1>3 DEF Stored, info, n, upto

\* In an empty pool it is counted as paid to nobody.
LEMMA AccruedToNobody ==
  ASSUME IInv, NEW r \in Rewards, reward[r].initialized, ~(pool.liquidity > 0)
  PROVE  /\ Stored[r] = reward[r].stored
         /\ AccruedRewards[r].stored = Stored[r]
         /\ AccruedRewards[r].emptySeconds
              = reward[r].emptySeconds + Elapsed(reward[r])
         /\ AccruedRewards[r].lastUpdate = Smaller(now, reward[r].end)
<1> DEFINE info == reward[r]
           n == Elapsed(info)
           upto == Smaller(now, info.end)
<1>1. info \in RewardRecord
  BY AccruedFields
<1>2. AccruedRewards[r] = [info EXCEPT !.emptySeconds = @ + n, !.lastUpdate = upto]
  BY DEF AccruedRewards, AccrueReward, Elapsed
<1> HIDE DEF info, n, upto
<1>3. [info EXCEPT !.emptySeconds = @ + n, !.lastUpdate = upto].stored = info.stored
      /\ [info EXCEPT !.emptySeconds = @ + n, !.lastUpdate = upto].lastUpdate = upto
      /\ [info EXCEPT !.emptySeconds = @ + n, !.lastUpdate = upto].emptySeconds
           = info.emptySeconds + n
  BY <1>1 DEF RewardRecord
<1> QED BY <1>2, <1>3 DEF Stored, info, n, upto

\* In either case, and for a reward that was never initialized, the reward is
\* then up to date.
LEMMA AccruedUpToDate ==
  ASSUME IInv, Dormant, NEW r \in Rewards
  PROVE  /\ AccruedRewards[r].lastUpdate = Smaller(now, reward[r].end)
         /\ AccruedRewards[r].stored = Stored[r]
         /\ AccruedRewards[r].lastUpdate \in Nat
<1>1. CASE reward[r].initialized
  BY <1>1, AccruedToLiquidity, AccruedToNobody, AccruedFields DEF RewardRecord
<1>2. CASE ~reward[r].initialized
  <2>1. reward[r] = NoReward /\ AccruedRewards[r] = NoReward
    BY <1>2, DormantStored
  <2>2. now \in Nat
    BY DEF IInv, TypeOK
  <2> QED BY <2>1, <2>2 DEF NoReward, Smaller, Stored
<1> QED BY <1>1, <1>2

-----------------------------------------------------------------------------
\* What the accumulator of a reward becomes, with liquidity L and at time n.
StoredBy(info, L, n) ==
  IF info.initialized /\ L > 0
    THEN info.stored + ((Smaller(n, info.end) - info.lastUpdate) * info.rate
                          * LiquidityScale) \div L
    ELSE info.stored

StoredIs ==
  \A r \in Rewards :
    /\ Stored[r] = StoredBy(reward[r], pool.liquidity, now)
    /\ reward[r] \in RewardRecord /\ pool.liquidity \in Nat /\ Stored[r] \in Nat

\* It is what the program computes,
LEMMA StoredNow == IInv => StoredIs
<1> SUFFICES ASSUME IInv, NEW r \in Rewards
             PROVE  /\ Stored[r] = StoredBy(reward[r], pool.liquidity, now)
                    /\ reward[r] \in RewardRecord /\ pool.liquidity \in Nat
                    /\ Stored[r] \in Nat
  BY DEF StoredIs
<1>1. ASSUME reward[r].initialized /\ pool.liquidity > 0
      PROVE  Stored[r] = StoredBy(reward[r], pool.liquidity, now)
  <2>1. Stored[r] = reward[r].stored
          + (Elapsed(reward[r]) * reward[r].rate * LiquidityScale)
              \div pool.liquidity
    BY <1>1, AccruedToLiquidity
  <2> QED BY <1>1, <2>1, Zenon DEF StoredBy, Elapsed
<1>2. ASSUME reward[r].initialized /\ ~(pool.liquidity > 0)
      PROVE  Stored[r] = StoredBy(reward[r], pool.liquidity, now)
  <2>1. Stored[r] = reward[r].stored
    BY <1>2, AccruedToNobody
  <2> QED BY <1>2, <2>1, Zenon DEF StoredBy
<1>3. ASSUME ~reward[r].initialized
      PROVE  Stored[r] = StoredBy(reward[r], pool.liquidity, now)
  <2>1. AccrueReward(reward[r]) = reward[r]
    BY <1>3, Zenon DEF AccrueReward
  <2>2. Stored[r] = reward[r].stored
    BY <2>1 DEF Stored, AccruedRewards
  <2> QED BY <1>3, <2>2, Zenon DEF StoredBy
<1>4. reward[r] \in RewardRecord /\ AccruedRewards[r] \in RewardRecord
  BY AccruedFields
<1>5. pool.liquidity \in Nat /\ Stored[r] \in Nat
  BY <1>4 DEF IInv, TypeOK, PoolRecord, Stored, RewardRecord
<1> QED BY <1>1, <1>2, <1>3, <1>4, <1>5

\* before a step and after it.
LEMMA StoredNext == IInv' => StoredIs'
BY StoredNow, PTL

\* The fields that accrual reads or writes.
SameBooks(r) ==
  /\ reward'[r].stored = reward[r].stored
  /\ reward'[r].rate = reward[r].rate
  /\ reward'[r].end = reward[r].end
  /\ reward'[r].lastUpdate = reward[r].lastUpdate
  /\ reward'[r].emptySeconds = reward[r].emptySeconds

SameReward(r) ==
  SameBooks(r) /\ reward'[r].initialized = reward[r].initialized

\* A step that accrues leaves nothing to accrue at the same time.
UpToDate(r) ==
  /\ reward'[r].stored = Stored[r]
  /\ reward'[r].lastUpdate = Smaller(now, reward'[r].end)

\* Brought up to the present once more, it is the same:
LEMMA UpToDateStands ==
  ASSUME IInv', now' = now, NEW r \in Rewards, UpToDate(r)
  PROVE  Stored'[r] = Stored[r]
<1> DEFINE info == reward'[r]
           L == pool'.liquidity
           gap == Smaller(now, info.end) - info.lastUpdate
<1>1. Stored'[r] = StoredBy(info, L, now) /\ info \in RewardRecord /\ L \in Nat
  BY StoredNext DEF StoredIs
<1>2. info.stored = Stored[r] /\ gap = 0 /\ info.stored \in Nat
  BY <1>1 DEF UpToDate, RewardRecord
<1>3. L > 0 => (gap * info.rate * LiquidityScale) \div L = 0
  <2>1. gap * info.rate * LiquidityScale = 0
    <3>1. info.rate \in Nat /\ LiquidityScale \in Nat
      BY <1>1, ScalesPositive DEF RewardRecord
    <3> HIDE DEF gap, info
    <3> QED BY <1>2, <3>1
  <2>2. L > 0 => 0 \div L = 0
    <3> HIDE DEF L
    <3> QED BY <1>1
  <2> QED BY <2>1, <2>2
<1>4. StoredBy(info, L, now)
        = IF info.initialized /\ L > 0
            THEN info.stored + (gap * info.rate * LiquidityScale) \div L
            ELSE info.stored
  BY DEF StoredBy
<1> HIDE DEF info, gap, L
<1> QED BY <1>1, <1>2, <1>3, <1>4

\* the accumulator of a reward that stands, in a pool whose liquidity stands, is
\* brought up to the same number.
LEMMA SameRewardStands ==
  ASSUME IInv, IInv', now' = now, pool'.liquidity = pool.liquidity,
         NEW r \in Rewards, SameReward(r)
  PROVE  Stored'[r] = Stored[r]
BY StoredNow, StoredNext DEF StoredIs, StoredBy, SameReward, SameBooks

-----------------------------------------------------------------------------
\* The sum over positions is linear.
LEMMA PositionSumLinear ==
  ASSUME NEW f, NEW g, NEW h, NEW k \in Int,
         \A x \in Positions :
           f[x] \in Int /\ g[x] \in Int /\ h[x] = f[x] + k * g[x]
  PROVE  PositionSum(h) = PositionSum(f) + k * PositionSum(g)
BY FiniteAssumption, SumLinear DEF PositionSum, Sum

\* Rounding the accrual down keeps the vault covering the claims: whatever the
\* claims of all positions gain, the distribution owes less from then on.
LEMMA AccrualCovers ==
  ASSUME IInv, Dormant, LiquidityConserved, NEW r \in Rewards, CoversReward(r)
  PROVE  CoversAccrued(r)
<1> DEFINE info == reward[r]
           acc == AccruedRewards[r]
           L == pool.liquidity
           K == LiquidityScale
           el == Elapsed(info)
           shared == RewardsShared[r]
           owed == RewardOwed[r]
           liq == Liquidity
<1>1. /\ info \in RewardRecord /\ el \in Nat /\ acc.rate = info.rate
      /\ acc.end = info.end /\ L \in Nat /\ K \in Nat \ {0}
      /\ L = PositionSum(liq)
  BY AccruedFields, ScalesPositive
     DEF IInv, TypeOK, PoolRecord, LiquidityConserved
<1>2. /\ Budget(info) = info.rate * K * ((info.end - info.lastUpdate) + info.emptySeconds)
      /\ Budget(acc) = info.rate * K * ((info.end - acc.lastUpdate) + acc.emptySeconds)
  BY <1>1 DEF Budget
<1>3. /\ info.rate \in Nat /\ info.end \in Nat /\ info.lastUpdate \in Nat
      /\ info.emptySeconds \in Nat /\ info.stored \in Nat
  BY <1>1 DEF RewardRecord
<1>4. \A x \in Positions :
        /\ liq[x] = TotalLiquidity(position[x]) /\ liq[x] \in Nat
        /\ shared[x] = position[x].rewardPending[r] * TotalRewardScale
             + liq[x] * (info.stored - position[x].rewardCheckpoint[r])
        /\ owed[x] = position[x].rewardPending[r] * TotalRewardScale
             + liq[x] * (Stored[r] - position[x].rewardCheckpoint[r])
        /\ owed[x] \in Nat /\ Stored[r] \in Nat
        /\ position[x].rewardPending[r] \in Nat
        /\ position[x].rewardCheckpoint[r] \in Nat
  <2>1. \A x \in Positions : liq[x] = TotalLiquidity(position[x])
    BY DEF Liquidity
  <2>2. \A x \in Positions :
          shared[x] = position[x].rewardPending[r] * TotalRewardScale
             + TotalLiquidity(position[x])
                 * (info.stored - position[x].rewardCheckpoint[r])
    BY DEF RewardsShared, RewardShares, RewardShare
  <2> QED BY <2>1, <2>2, RewardsNow DEF RewardsAre
<1>5. Elapsed(info) = Smaller(now, info.end) - info.lastUpdate
      /\ acc.lastUpdate = Smaller(now, info.end) /\ acc.lastUpdate \in Nat
  BY AccruedUpToDate DEF Elapsed
<1>6. ASSUME NEW n \in Nat, Stored[r] = info.stored + n,
             n * L <= el * info.rate * K, acc.emptySeconds = info.emptySeconds
      PROVE  CoversAccrued(r)
  <2>1. \A x \in Positions :
          /\ shared[x] \in Int /\ liq[x] \in Int /\ owed[x] \in Int
          /\ owed[x] = shared[x] + n * liq[x]
    <3> SUFFICES ASSUME NEW x \in Positions
                 PROVE  /\ shared[x] \in Int /\ liq[x] \in Int /\ owed[x] \in Int
                        /\ owed[x] = shared[x] + n * liq[x]
      OBVIOUS
    <3> DEFINE l == liq[x]
               c == position[x].rewardCheckpoint[r]
               a == position[x].rewardPending[r] * TotalRewardScale
    <3>1. /\ l \in Nat /\ c \in Nat /\ a \in Nat
          /\ shared[x] = a + l * (info.stored - c)
          /\ owed[x] = a + l * ((info.stored + n) - c)
      <4>1. position[x].rewardPending[r] \in Nat /\ l \in Nat /\ c \in Nat
        BY <1>4
      <4>2. a \in Nat
        BY <4>1, ScalesPositive
      <4>3. owed[x] = a + l * (Stored[r] - c) /\ shared[x] = a + l * (info.stored - c)
        BY <1>4
      <4>4. Stored[r] - c = (info.stored + n) - c
        BY <1>6
      <4>5. owed[x] = a + l * ((info.stored + n) - c)
        BY <4>3, <4>4, Zenon
      <4> QED BY <4>1, <4>2, <4>3, <4>5, Zenon
    <3>2. l * ((info.stored + n) - c) = l * (info.stored - c) + n * l
          /\ l * (info.stored - c) \in Int /\ n * l \in Int
      <4> HIDE DEF l, c
      <4> QED BY <1>3, <1>6, <3>1
    <3> HIDE DEF a, c
    <3> QED BY <3>1, <3>2
  <2> HIDE DEF shared, owed, liq
  <2>2. PositionSum(owed) = PositionSum(shared) + n * PositionSum(liq)
    <3>1. n \in Int
      OBVIOUS
    <3>2. \A x \in Positions :
            shared[x] \in Int /\ liq[x] \in Int /\ owed[x] = shared[x] + n * liq[x]
      BY <2>1, Zenon
    <3> HIDE DEF L, el, K, info, acc
    <3> QED BY <3>1, <3>2, PositionSumLinear, Zenon
  <2>3. PositionSum(owed) <= PositionSum(shared) + el * info.rate * K
    <3>1. PositionSum(shared) \in Int
      BY <2>1, PositionSumInt
    <3>2. n * L \in Int /\ el * info.rate * K \in Int
      BY <1>1, <1>3
    <3> QED BY <1>1, <1>6, <2>2, <3>1, <3>2
  <2>4. Budget(info) = Budget(acc) + el * info.rate * K
    <3>1. ASSUME NEW rate \in Nat, NEW k \in Nat, NEW end \in Nat, NEW last \in Nat,
                 NEW upto \in Nat, NEW empty \in Nat
          PROVE  rate * k * ((end - last) + empty)
                   = rate * k * ((end - upto) + empty) + (upto - last) * rate * k
      OBVIOUS
    <3> QED BY <1>1, <1>2, <1>3, <1>5, <1>6, <3>1
  <2>5. /\ PositionSum(shared) \in Int /\ PositionSum(owed) \in Int
        /\ Budget(info) \in Int /\ Budget(acc) \in Int
        /\ el * info.rate * K \in Int
        /\ rewardVault[r] * TotalRewardScale \in Int
    <3>1. PositionSum(shared) \in Int /\ PositionSum(owed) \in Int
      BY <2>1, PositionSumInt
    <3>2. Budget(info) \in Int /\ Budget(acc) \in Int /\ el * info.rate * K \in Int
      BY <1>1, <1>2, <1>3, <1>5, <1>6
    <3>3. rewardVault[r] * TotalRewardScale \in Int
      BY ScalesPositive DEF IInv, TypeOK
    <3> QED BY <3>1, <3>2, <3>3
  <2>6. rewardVault[r] * TotalRewardScale >= PositionSum(shared) + Budget(info)
    BY DEF CoversReward, shared
  <2>7. rewardVault[r] * TotalRewardScale >= PositionSum(owed) + Budget(acc)
    <3> DEFINE w == rewardVault[r] * TotalRewardScale
    <3> HIDE DEF w, info, acc, el, K
    <3> QED BY <2>3, <2>4, <2>5, <2>6 DEF w
  <2> QED BY <2>7 DEF CoversAccrued, owed
<1>7. CASE info.initialized /\ L > 0
  <2> DEFINE n == (el * info.rate * K) \div L
  <2>1. Stored[r] = info.stored + n /\ acc.emptySeconds = info.emptySeconds
    BY <1>7, AccruedToLiquidity
  <2>2. n \in Nat /\ n * L <= el * info.rate * K
    <3>1. el * info.rate * K \in Nat
      BY <1>1, <1>3
    <3> DEFINE m == el * info.rate * K
    <3> HIDE DEF m, el, info, K
    <3>2. m \div L \in Nat /\ (m \div L) * L <= m
      <4>1. m \in Nat /\ L \in Nat \ {0}
        BY <1>1, <1>7, <3>1 DEF m
      <4> QED BY <4>1, DivEnough, DivNat
    <3> QED BY <3>2 DEF m
  <2> HIDE DEF n
  <2> QED BY <1>6, <2>1, <2>2
<1>8. CASE info.initialized /\ ~(L > 0)
  <2>1. Stored[r] = info.stored /\ acc.emptySeconds = info.emptySeconds + el
    BY <1>8, AccruedToNobody
  <2>2. Budget(acc) = Budget(info)
    <3>1. (info.end - acc.lastUpdate) + acc.emptySeconds
            = (info.end - info.lastUpdate) + info.emptySeconds
      BY <1>1, <1>3, <1>5, <2>1
    <3> QED BY <1>2, <3>1
  <2>3. owed = shared
    BY <2>1 DEF RewardOwed, RewardsShared, RewardShares
  <2> QED BY <2>2, <2>3 DEF CoversReward, CoversAccrued
<1>9. CASE ~info.initialized
  <2>1. acc = info
    BY <1>9, DormantStored
  <2>2. Stored[r] = info.stored
    BY <2>1 DEF Stored
  <2>3. owed = shared
    BY <2>2 DEF RewardOwed, RewardsShared, RewardShares
  <2> QED BY <2>1, <2>3 DEF CoversReward, CoversAccrued
<1> QED BY <1>7, <1>8, <1>9

-----------------------------------------------------------------------------
\* A step that leaves a reward alone: its books, its vault and what positions
\* have of it.
RewardsLeft(r, x) ==
  /\ position'[x].rewardPending[r] = position[x].rewardPending[r]
  /\ \/ NoLiquidity(x)
     \/ /\ SameLiquidity(x)
        /\ position'[x].rewardCheckpoint[r] = position[x].rewardCheckpoint[r]

Untouched(r) ==
  /\ SameBooks(r)
  /\ rewardVault'[r] = rewardVault[r]
  /\ \A x \in Positions : RewardsLeft(r, x)

\* A step that accounts for a reward: it accrues first, positions then move by
\* h, what is paid to them leaves the vault unless it is frozen, and the vault
\* takes in what is added to the budget.
Accounted(r) ==
  /\ UpToDate(r)
  /\ \E h \in [Positions -> Int] :
       /\ \A x \in Positions : RewardsMove(r, x, h[x])
       /\ \/ PositionSum(h) = 0
          \/ /\ PositionSum(h) <= 0
             /\ frozen[r] \/ rewardVault'[r] = rewardVault[r] + PositionSum(h)
       /\ rewardVault'[r] * TotalRewardScale - Budget(reward'[r])
            >= rewardVault[r] * TotalRewardScale - Budget(AccruedRewards[r])
                 + PositionSum(h) * TotalRewardScale

\* RewardsConserved, of one step and one reward.
RewardsKeptAt(r) ==
  LET Was == PositionSum(RewardDue[r])
      Is  == PositionSum(RewardDue'[r])
  IN  \/ Is = Was
      \/ /\ Is < Was
         /\ \/ frozen[r]
            \/ Was - Is = rewardVault[r] - rewardVault'[r]

\* The numbers behind the books; as one formula, to be used of the next state
\* too.
BooksTyped ==
  \A r \in Rewards :
    /\ reward[r] \in RewardRecord
    /\ rewardVault[r] * TotalRewardScale \in Int
    /\ Budget(reward[r]) \in Int
    /\ \A x \in Positions :
         /\ RewardsShared[r][x] \in Int
         /\ RewardsShared[r][x] =
              position[x].rewardPending[r] * TotalRewardScale
                + TotalLiquidity(position[x])
                    * (reward[r].stored - position[x].rewardCheckpoint[r])
         /\ reward[r].stored - position[x].rewardCheckpoint[r] \in Nat
         /\ TotalLiquidity(position[x]) \in Nat
         /\ position[x].rewardPending[r] \in Nat

\* A budget is a number.
LEMMA BudgetInt ==
  ASSUME NEW info \in RewardRecord
  PROVE  Budget(info) \in Int
<1>1. /\ info.rate \in Int /\ info.end \in Int /\ info.lastUpdate \in Int
      /\ info.emptySeconds \in Int /\ LiquidityScale \in Int
  BY ScalesPositive DEF RewardRecord
<1>2. info.rate * LiquidityScale \in Int
  BY <1>1
<1> QED BY <1>1, <1>2 DEF Budget

\* They are numbers before a step,
LEMMA BooksNow == IInv => BooksTyped
<1> SUFFICES ASSUME IInv, NEW r \in Rewards
             PROVE  /\ reward[r] \in RewardRecord
                    /\ rewardVault[r] * TotalRewardScale \in Int
                    /\ Budget(reward[r]) \in Int
                    /\ \A x \in Positions :
                         /\ RewardsShared[r][x] \in Int
                         /\ RewardsShared[r][x] =
                              position[x].rewardPending[r] * TotalRewardScale
                                + TotalLiquidity(position[x])
                                    * (reward[r].stored - position[x].rewardCheckpoint[r])
                         /\ reward[r].stored - position[x].rewardCheckpoint[r] \in Nat
                         /\ TotalLiquidity(position[x]) \in Nat
                         /\ position[x].rewardPending[r] \in Nat
  BY DEF BooksTyped
<1>1. /\ reward[r] \in RewardRecord /\ rewardVault[r] \in Int
      /\ TotalRewardScale \in Int
  BY ScalesPositive DEF IInv, TypeOK
<1>2. Budget(reward[r]) \in Int
  BY <1>1, BudgetInt
<1>3. ASSUME NEW x \in Positions
      PROVE  /\ RewardsShared[r][x] \in Int
             /\ RewardsShared[r][x] =
                  position[x].rewardPending[r] * TotalRewardScale
                    + TotalLiquidity(position[x])
                        * (reward[r].stored - position[x].rewardCheckpoint[r])
             /\ reward[r].stored - position[x].rewardCheckpoint[r] \in Nat
             /\ TotalLiquidity(position[x]) \in Nat
             /\ position[x].rewardPending[r] \in Nat
  <2>1. /\ reward[r].stored - position[x].rewardCheckpoint[r] \in Nat
        /\ TotalLiquidity(position[x]) \in Nat
        /\ position[x].rewardPending[r] \in Nat
    BY PositionFields
  <2>2. RewardsShared[r][x] =
          position[x].rewardPending[r] * TotalRewardScale
            + TotalLiquidity(position[x])
                * (reward[r].stored - position[x].rewardCheckpoint[r])
    BY DEF RewardsShared, RewardShares, RewardShare
  <2>3. /\ position[x].rewardPending[r] * TotalRewardScale \in Int
        /\ TotalLiquidity(position[x])
             * (reward[r].stored - position[x].rewardCheckpoint[r]) \in Int
    BY <1>1, <2>1
  <2> QED BY <2>1, <2>2, <2>3
<1>4. rewardVault[r] * TotalRewardScale \in Int
  BY <1>1
<1> QED BY <1>1, <1>2, <1>3, <1>4

\* and after it.
LEMMA BooksNext == IInv' => BooksTyped'
BY BooksNow, PTL

-----------------------------------------------------------------------------
\* A reward that is left alone stays covered, even while time goes by.
LEMMA UntouchedCovers ==
  ASSUME IInv, IInv', NEW r \in Rewards, Untouched(r), CoversReward(r)
  PROVE  CoversReward(r)'
<1> DEFINE f == RewardsShared[r]
           g == RewardsShared'[r]
<1>1. \A x \in Positions : f[x] \in Int /\ g[x] \in Int /\ g[x] = f[x]
  <2> SUFFICES ASSUME NEW x \in Positions
               PROVE  f[x] \in Int /\ g[x] \in Int /\ g[x] = f[x]
    OBVIOUS
  <2> DEFINE a == position[x].rewardPending[r] * TotalRewardScale
             l == TotalLiquidity(position[x])
             m == TotalLiquidity(position'[x])
             c == reward[r].stored - position[x].rewardCheckpoint[r]
             d == reward'[r].stored - position'[x].rewardCheckpoint[r]
  <2>1. /\ f[x] = a + l * c /\ f[x] \in Int /\ l \in Nat /\ c \in Nat
    BY BooksNow DEF BooksTyped
  <2>2. /\ g[x] = position'[x].rewardPending[r] * TotalRewardScale + m * d
        /\ g[x] \in Int /\ m \in Nat /\ d \in Nat
    BY BooksNext DEF BooksTyped
  <2>3. g[x] = a + m * d
    BY <2>2 DEF Untouched, RewardsLeft
  <2>4. (m = 0 /\ l = 0) \/ (m = l /\ d = c)
    BY DEF Untouched, RewardsLeft, NoLiquidity, SameLiquidity, SameBooks
  <2>5. m * d = l * c
    <3> HIDE DEF m, d, l, c
    <3> QED BY <2>1, <2>2, <2>4
  <2> QED BY <2>1, <2>2, <2>3, <2>5
<1> HIDE DEF f, g
<1>2. PositionSum(g) = PositionSum(f)
  BY <1>1, PositionSumSame
<1>3. Budget(reward'[r]) = Budget(reward[r])
  BY DEF Budget, Untouched, SameBooks
<1> QED BY <1>2, <1>3 DEF CoversReward, f, g, Untouched

\* And its claims stay what they are while time stands still.
LEMMA UntouchedKeeps ==
  ASSUME IInv, IInv', Dormant, Dormant', Stored' = Stored,
         NEW r \in Rewards, Untouched(r)
  PROVE  RewardsKeptAt(r)
<1>1. \A x \in Positions : Nothing[x] \in Int /\ RewardsMove(r, x, Nothing[x])
  BY DEF Nothing, Untouched, RewardsLeft, RewardsMove
<1>2. PositionSum(RewardDue'[r]) = PositionSum(RewardDue[r]) + PositionSum(Nothing)
  BY <1>1, RewardTotalsMove
<1>3. PositionSum(Nothing) = 0 /\ PositionSum(RewardDue[r]) \in Int
  <2>1. \A x \in Positions : RewardDue[r][x] \in Int
    BY RewardsNow DEF RewardsAre
  <2> QED BY <2>1, SumOfMoves, PositionSumInt
<1>4. PositionSum(RewardDue[r]) + 0 = PositionSum(RewardDue[r])
  BY <1>3
<1> QED BY <1>2, <1>3, <1>4 DEF RewardsKeptAt

\* Accounted for, it stays covered, and its claims are kept.
LEMMA AccountedCovers ==
  ASSUME IInv, IInv', Dormant, Dormant', Stored' = Stored,
         NEW r \in Rewards, Accounted(r), CoversAccrued(r)
  PROVE  CoversReward(r)' /\ RewardsKeptAt(r)
<1>1. PICK h \in [Positions -> Int] :
        /\ \A x \in Positions : RewardsMove(r, x, h[x])
        /\ \/ PositionSum(h) = 0
           \/ /\ PositionSum(h) <= 0
              /\ frozen[r] \/ rewardVault'[r] = rewardVault[r] + PositionSum(h)
        /\ rewardVault'[r] * TotalRewardScale - Budget(reward'[r])
             >= rewardVault[r] * TotalRewardScale - Budget(AccruedRewards[r])
                  + PositionSum(h) * TotalRewardScale
  BY DEF Accounted
<1>2. /\ PositionSum(RewardDue'[r]) = PositionSum(RewardDue[r]) + PositionSum(h)
      /\ PositionSum(RewardOwed'[r])
           <= PositionSum(RewardOwed[r]) + PositionSum(h) * TotalRewardScale
      /\ PositionSum(h) \in Int
  BY <1>1, RewardTotalsMove
<1>3. RewardsShared'[r] = RewardOwed'[r]
  <2>1. reward'[r].stored = Stored'[r]
    BY DEF Accounted, UpToDate
  <2> QED BY <2>1 DEF RewardsShared, RewardShares, RewardOwed
<1>4. /\ PositionSum(RewardOwed[r]) \in Int /\ PositionSum(RewardOwed'[r]) \in Int
      /\ PositionSum(RewardDue[r]) \in Int /\ PositionSum(RewardDue'[r]) \in Int
  <2>1. \A x \in Positions : RewardOwed[r][x] \in Int /\ RewardDue[r][x] \in Int
    BY RewardsNow DEF RewardsAre
  <2>2. \A x \in Positions : RewardOwed'[r][x] \in Int /\ RewardDue'[r][x] \in Int
    BY RewardsNext DEF RewardsAre
  <2> QED BY <2>1, <2>2, PositionSumInt
<1>5. /\ rewardVault[r] * TotalRewardScale \in Int
      /\ rewardVault'[r] * TotalRewardScale \in Int
      /\ Budget(reward'[r]) \in Int /\ Budget(AccruedRewards[r]) \in Int
      /\ PositionSum(h) * TotalRewardScale \in Int
      /\ rewardVault[r] \in Int /\ rewardVault'[r] \in Int
  <2>1. AccruedRewards[r] \in RewardRecord
    BY AccruedFields
  <2>2. PositionSum(h) * TotalRewardScale \in Int
    BY <1>2, ScalesPositive
  <2>3. rewardVault[r] \in Int /\ rewardVault'[r] \in Int
    BY DEF IInv, TypeOK
  <2> QED BY <2>1, <2>2, <2>3, BudgetInt, BooksNow, BooksNext DEF BooksTyped
<1>6. CoversReward(r)'
  <2>1. rewardVault'[r] * TotalRewardScale
          >= PositionSum(RewardOwed'[r]) + Budget(reward'[r])
    <3>1. rewardVault[r] * TotalRewardScale
            >= PositionSum(RewardOwed[r]) + Budget(AccruedRewards[r])
      BY DEF CoversAccrued
    <3> DEFINE v == rewardVault[r] * TotalRewardScale
               w == rewardVault'[r] * TotalRewardScale
               n == PositionSum(h) * TotalRewardScale
               b == Budget(AccruedRewards[r])
               c == Budget(reward'[r])
    <3>2. /\ v \in Int /\ w \in Int /\ n \in Int /\ b \in Int /\ c \in Int
          /\ w - c >= v - b + n /\ v >= PositionSum(RewardOwed[r]) + b
          /\ PositionSum(RewardOwed'[r]) <= PositionSum(RewardOwed[r]) + n
      BY <1>1, <1>2, <1>5, <3>1
    <3> HIDE DEF v, w, n, b, c
    <3>3. w >= PositionSum(RewardOwed'[r]) + c
      BY <1>4, <3>2
    <3> QED BY <3>3 DEF w, c
  <2> QED BY <1>3, <2>1 DEF CoversReward
<1>7. RewardsKeptAt(r)
  <2>1. \/ PositionSum(h) = 0
        \/ PositionSum(h) < 0 /\ (frozen[r] \/ rewardVault'[r] = rewardVault[r] + PositionSum(h))
    BY <1>1, <1>2
  <2> QED BY <1>2, <1>4, <1>5, <2>1 DEF RewardsKeptAt
<1> QED BY <1>6, <1>7

-----------------------------------------------------------------------------
\* What each instruction does to the rewards: it leaves one alone, or accounts
\* for it.
Standing(r) ==
  /\ Untouched(r)
  /\ \/ SameReward(r) /\ pool'.liquidity = pool.liquidity
     \/ UpToDate(r)

\* Accrual on its own brings every reward up to date.
LEMMA AccruedIsUpToDate ==
  ASSUME IInv, Dormant, NEW r \in Rewards, reward'[r] = AccruedRewards[r]
  PROVE  UpToDate(r)
BY AccruedUpToDate, AccruedFields DEF UpToDate

\* What add, remove and split do: they accrue, settle and move rewards between
\* positions.
LEMMA AccruedAccounts ==
  ASSUME IInv, Dormant, reward' = AccruedRewards, rewardVault' = rewardVault,
         OnlyMoves, NEW r \in Rewards
  PROVE  Accounted(r)
<1>1. PICK h \in [Positions -> Int] :
        PositionSum(h) = 0 /\ \A x \in Positions : RewardsMove(r, x, h[x])
  BY DEF OnlyMoves, Balanced, PositionsMove
<1>2. UpToDate(r)
  BY AccruedIsUpToDate
<1>3. rewardVault'[r] * TotalRewardScale - Budget(reward'[r])
        >= rewardVault[r] * TotalRewardScale - Budget(AccruedRewards[r])
             + PositionSum(h) * TotalRewardScale
  <2> DEFINE v == rewardVault[r] * TotalRewardScale
             b == Budget(AccruedRewards[r])
  <2>1. v \in Int /\ b \in Int /\ 0 * TotalRewardScale = 0
    BY BooksNow, AccruedFields, BudgetInt, ScalesPositive DEF BooksTyped
  <2>2. rewardVault'[r] * TotalRewardScale = v /\ Budget(reward'[r]) = b
    OBVIOUS
  <2> HIDE DEF v, b
  <2>3. v - b >= v - b + 0
    BY <2>1
  <2> QED BY <1>1, <2>1, <2>2, <2>3 DEF v, b
<1> QED BY <1>1, <1>2, <1>3 DEF Accounted

\* What all the instructions do that neither accrue nor settle rewards.
LEMMA KeptStands ==
  ASSUME reward' = reward, rewardVault' = rewardVault,
         pool'.liquidity = pool.liquidity, NEW r \in Rewards,
         \A x \in Positions : RewardsLeft(r, x)
  PROVE  Standing(r)
BY DEF Standing, Untouched, SameReward, SameBooks

\* Positions that do not change keep their rewards,
LEMMA UnchangedLeft ==
  ASSUME position' = position, NEW r \in Rewards
  PROVE  \A x \in Positions : RewardsLeft(r, x)
BY DEF RewardsLeft, SameLiquidity

\* and so do those that are kept.
LEMMA KeptLeft ==
  ASSUME EachKept, NEW r \in Rewards
  PROVE  \A x \in Positions : RewardsLeft(r, x)
BY DEF EachKept, Kept, RewardsLeft

\* A claim of fees settles the fees only.
LEMMA ClaimPositionFeeLeaves ==
  ASSUME IInv, NEW p \in Positions, ClaimPositionFee(p), NEW r \in Rewards
  PROVE  \A x \in Positions : RewardsLeft(r, x)
<1> DEFINE settled == SettleFees(position[p])
           pos == [settled EXCEPT !.feePending = [t \in Tokens |-> 0]]
<1>1. position' = [position EXCEPT ![p] = pos]
  BY DEF ClaimPositionFee
<1>2. /\ pos.rewardPending = position[p].rewardPending
      /\ pos.rewardCheckpoint = position[p].rewardCheckpoint
      /\ TotalLiquidity(pos) = TotalLiquidity(position[p])
  BY DEF IInv, TypeOK, PositionRecord, SettleFees, TotalLiquidity
<1> HIDE DEF pos
<1>3. /\ position'[p] = pos
      /\ \A x \in Positions \ {p} : position'[x] = position[x]
  BY <1>1, Replaced
<1> QED BY <1>2, <1>3 DEF RewardsLeft, SameLiquidity

\* A swap changes neither positions nor the pool's liquidity.
LEMMA SwapStands ==
  ASSUME SwapStep(TradeFeeRecord), IInv, NEW r \in Rewards
  PROVE  Standing(r) /\ now' = now
<1>1. PICK mode \in Modes, dir \in Directions, amount \in SwapAmounts,
           f \in TradeFeeRecord, hasReferral \in BOOLEAN,
           whitelisted \in {FALSE, HasWhitelistedVault} :
        Swap(mode, dir, amount, FeeFor(dir, f), hasReferral, whitelisted)
  BY DEF SwapStep
<1>2. /\ reward' = reward /\ rewardVault' = rewardVault /\ position' = position
      /\ now' = now
      /\ \E a, b, c : pool' = ApplySwap(a, b, c)
  BY <1>1 DEF Swap
<1>3. pool'.liquidity = pool.liquidity
  BY <1>2 DEF ApplySwap, IInv, TypeOK, PoolRecord
<1> QED BY <1>2, <1>3, UnchangedLeft, KeptStands

\* Nor does any claim of fees.
LEMMA ClaimStepStands ==
  ASSUME IInv, ClaimStep, NEW r \in Rewards
  PROVE  Standing(r) /\ now' = now
<1>1. reward' = reward /\ rewardVault' = rewardVault /\ now' = now
  BY DEF ClaimStep, ClaimPositionFee, ClaimProtocolFee, ClaimPartnerFee, ZapProtocolFee
<1>2. pool'.liquidity = pool.liquidity
  BY DEF ClaimStep, ClaimPositionFee, ClaimProtocolFee, ClaimPartnerFee, ZapProtocolFee,
         IInv, TypeOK, PoolRecord
<1>3. \/ position' = position
      \/ \E p \in Positions : ClaimPositionFee(p)
  BY DEF ClaimStep, ClaimProtocolFee, ClaimPartnerFee, ZapProtocolFee
<1>4. \A x \in Positions : RewardsLeft(r, x)
  BY <1>3, UnchangedLeft, ClaimPositionFeeLeaves
<1> QED BY <1>1, <1>2, <1>4, KeptStands

-----------------------------------------------------------------------------
\* A reward that only accrues, while nobody's share of it changes but by being
\* settled.
LEMMA QuietAccounts ==
  ASSUME IInv, Dormant, NEW r \in Rewards, reward'[r] = AccruedRewards[r],
         rewardVault'[r] = rewardVault[r],
         \A x \in Positions : RewardsMove(r, x, 0)
  PROVE  Accounted(r)
<1>1. /\ Nothing \in [Positions -> Int] /\ PositionSum(Nothing) = 0
      /\ \A x \in Positions : RewardsMove(r, x, Nothing[x])
  BY SumOfMoves DEF Nothing
<1>2. UpToDate(r)
  BY AccruedIsUpToDate
<1>3. rewardVault'[r] * TotalRewardScale - Budget(reward'[r])
        >= rewardVault[r] * TotalRewardScale - Budget(AccruedRewards[r])
             + PositionSum(Nothing) * TotalRewardScale
  <2> DEFINE v == rewardVault[r] * TotalRewardScale
             b == Budget(AccruedRewards[r])
  <2>1. v \in Int /\ b \in Int /\ 0 * TotalRewardScale = 0
    BY BooksNow, AccruedFields, BudgetInt, ScalesPositive DEF BooksTyped
  <2>2. rewardVault'[r] * TotalRewardScale = v /\ Budget(reward'[r]) = b
    OBVIOUS
  <2> HIDE DEF v, b
  <2>3. v - b >= v - b + 0
    BY <2>1
  <2> QED BY <1>1, <2>1, <2>2, <2>3 DEF v, b
<1> QED BY <1>1, <1>2, <1>3 DEF Accounted

\* In particular when positions do not change.
LEMMA UnchangedRewardsMove ==
  ASSUME position' = position, NEW r \in Rewards
  PROVE  \A x \in Positions : RewardsMove(r, x, 0)
BY DEF RewardsMove, SameLiquidity

\* A claim pays what the position was owed, or with a frozen vault gives it up.
LEMMA ClaimRewardAccounts ==
  ASSUME IInv, Dormant, NEW p \in Positions, NEW r \in Rewards, NEW skip,
         ClaimReward(p, r, skip), NEW s \in Rewards
  PROVE  Accounted(s)
<1> DEFINE settled == SettleRewards(position[p], AccruedRewards)
           left == [settled.rewardPending EXCEPT ![r] = 0]
           pos == [settled EXCEPT !.rewardPending = left]
           due == settled.rewardPending[r]
           paid == IF frozen[r] THEN 0 ELSE due
<1>1. /\ position' = [position EXCEPT ![p] = pos]
      /\ reward' = AccruedRewards
      /\ rewardVault' = [rewardVault EXCEPT ![r] = @ - paid]
  BY DEF ClaimReward
<1>2. settled \in PositionRecord
  <2>1. position[p].open
    BY DEF ClaimReward
  <2> QED BY <2>1, SettledOpen
<1>3. \A x \in Rewards : /\ settled.rewardPending[x] = RewardDue[x][p]
                         /\ settled.rewardCheckpoint[x] = Stored[x]
                         /\ RewardDue[x][p] \in Nat
  <2>1. \A x \in Rewards : settled.rewardPending[x] = RewardDue[x][p]
    BY DEF RewardDue, ClaimableRewards
  <2>2. \A x \in Rewards : settled.rewardCheckpoint[x] = Stored[x]
    BY SettledRewardsAre
  <2>3. \A x \in Rewards : RewardDue[x][p] \in Nat
    BY RewardsNow DEF RewardsAre
  <2> QED BY <2>1, <2>2, <2>3
<1>4. pos.rewardPending = left /\ pos.rewardCheckpoint = settled.rewardCheckpoint
  <2> HIDE DEF settled, left
  <2> QED BY <1>2 DEF PositionRecord
<1>5. left[r] = 0 /\ \A x \in Rewards \ {r} : left[x] = RewardDue[x][p]
  <2>1. settled.rewardPending \in [Rewards -> Nat]
    BY <1>2 DEF PositionRecord
  <2> HIDE DEF settled
  <2> QED BY <1>3, <2>1
<1>6. /\ position'[p] = pos
      /\ \A x \in Positions \ {p} : position'[x] = position[x] /\ Kept(x)
  <2> HIDE DEF pos
  <2> QED BY <1>1, Replaced
<1> HIDE DEF pos, left
<1>7. CASE s # r
  <2>1. RewardsMove(s, p, 0)
    <3>1. /\ position'[p].rewardPending[s] = RewardDue[s][p]
          /\ position'[p].rewardCheckpoint[s] = Stored[s]
      BY <1>3, <1>4, <1>5, <1>6, <1>7
    <3>2. RewardDue[s][p] + 0 = RewardDue[s][p]
      BY <1>3
    <3> QED BY <3>1, <3>2, Zenon DEF RewardsMove
  <2>2. \A x \in Positions : RewardsMove(s, x, 0)
    BY <1>6, <2>1, KeptMoves
  <2>3. rewardVault'[s] = rewardVault[s]
    <3>1. rewardVault \in [Rewards -> Nat]
      BY DEF IInv, TypeOK
    <3> QED BY <1>1, <1>7, <3>1
  <2> QED BY <1>1, <2>2, <2>3, QuietAccounts
<1>8. CASE s = r
  <2> DEFINE h == At(p, -RewardDue[r][p])
  <2>1. /\ h \in [Positions -> Int] /\ h[p] = -RewardDue[r][p]
        /\ \A x \in Positions \ {p} : h[x] = 0
        /\ PositionSum(h) = -RewardDue[r][p]
    <3>1. -RewardDue[r][p] \in Int
      BY <1>3
    <3> QED BY <3>1, SumOfMoves DEF At
  <2>2. \A x \in Positions : RewardsMove(r, x, h[x])
    <3>1. \A x \in Positions \ {p} : RewardsMove(r, x, 0)
      BY <1>6, KeptMoves
    <3>2. RewardsMove(r, p, -RewardDue[r][p])
      <4>1. /\ position'[p].rewardPending[r] = 0
            /\ position'[p].rewardCheckpoint[r] = Stored[r]
        BY <1>3, <1>4, <1>5, <1>6
      <4>2. RewardDue[r][p] + (-RewardDue[r][p]) = 0
        BY <1>3
      <4> QED BY <4>1, <4>2 DEF RewardsMove
    <3> HIDE DEF h
    <3> QED BY <2>1, <3>1, <3>2
  <2>3. /\ rewardVault'[r] = rewardVault[r] - paid /\ paid \in Nat
        /\ paid <= RewardDue[r][p] /\ rewardVault[r] \in Int
        /\ ~frozen[r] => paid = RewardDue[r][p]
    <3>1. rewardVault \in [Rewards -> Nat]
      BY DEF IInv, TypeOK
    <3>2. due = RewardDue[r][p] /\ due \in Nat
      BY <1>3
    <3> HIDE DEF due
    <3> QED BY <1>1, <3>1, <3>2
  <2>4. UpToDate(r)
    BY <1>1, AccruedIsUpToDate
  <2> DEFINE owed == RewardDue[r][p]
             b == Budget(AccruedRewards[r])
             T == TotalRewardScale
  <2>5. owed \in Nat /\ T \in Nat /\ b \in Int /\ Budget(reward'[r]) = b
    BY <1>1, <1>3, ScalesPositive, AccruedFields, BudgetInt
  <2> HIDE DEF h, paid, owed, b, T
  <2>6. rewardVault'[r] * T - b >= rewardVault[r] * T - b + (-owed) * T
    <3>1. rewardVault'[r] * T = rewardVault[r] * T - paid * T
      BY <2>3, <2>5
    <3>2. paid * T <= owed * T /\ (-owed) * T = -(owed * T)
      BY <2>3, <2>5 DEF owed
    <3>3. /\ rewardVault[r] * T \in Int /\ paid * T \in Int /\ owed * T \in Int
      BY <2>3, <2>5
    <3> QED BY <2>5, <3>1, <3>2, <3>3
  <2>7. PositionSum(h) <= 0 /\ (frozen[r] \/ rewardVault'[r] = rewardVault[r] + PositionSum(h))
    BY <2>1, <2>3, <2>5 DEF owed
  <2>8. Accounted(r)
    <3>1. rewardVault'[r] * TotalRewardScale - Budget(reward'[r])
            >= rewardVault[r] * TotalRewardScale - Budget(AccruedRewards[r])
                 + PositionSum(h) * TotalRewardScale
      BY <2>1, <2>5, <2>6 DEF b, T, owed
    <3> QED BY <2>1, <2>2, <2>4, <2>7, <3>1 DEF Accounted
  <2> QED BY <1>8, <2>8
<1> QED BY <1>7, <1>8

-----------------------------------------------------------------------------
\* Positions that do not change, and a vault that takes in what is added to the
\* budget.
LEMMA BudgetAccounts ==
  ASSUME IInv, NEW r \in Rewards, position' = position, UpToDate(r),
         rewardVault'[r] \in Int, Budget(reward'[r]) \in Int,
         rewardVault'[r] * TotalRewardScale + Budget(AccruedRewards[r])
           >= rewardVault[r] * TotalRewardScale + Budget(reward'[r])
  PROVE  Accounted(r)
<1>1. /\ Nothing \in [Positions -> Int] /\ PositionSum(Nothing) = 0
      /\ \A x \in Positions : RewardsMove(r, x, Nothing[x])
  BY SumOfMoves, UnchangedRewardsMove DEF Nothing
<1> DEFINE v == rewardVault[r] * TotalRewardScale
           w == rewardVault'[r] * TotalRewardScale
           b == Budget(AccruedRewards[r])
           c == Budget(reward'[r])
<1>2. /\ v \in Int /\ w \in Int /\ b \in Int /\ c \in Int
      /\ 0 * TotalRewardScale = 0
  BY BooksNow, AccruedFields, BudgetInt, ScalesPositive DEF BooksTyped
<1>3. w + b >= v + c
  OBVIOUS
<1> HIDE DEF v, w, b, c
<1>4. w - c >= v - b + 0
  BY <1>2, <1>3
<1>5. rewardVault'[r] * TotalRewardScale - Budget(reward'[r])
        >= rewardVault[r] * TotalRewardScale - Budget(AccruedRewards[r])
             + PositionSum(Nothing) * TotalRewardScale
  BY <1>1, <1>2, <1>4 DEF v, w, b, c
<1> QED BY <1>1, <1>5 DEF Accounted

\* What is left over of a distribution under way, and what it paid to nobody,
\* are in the budget that accrual leaves.
LEMMA LeftoverInBudget ==
  ASSUME IInv, Dormant, NEW r \in Rewards
  PROVE  LET info == AccruedRewards[r]
             leftover == IF now >= info.end THEN 0
                         ELSE (info.rate * (info.end - now)) \div RewardRateScale
         IN  /\ leftover \in Nat /\ Ineligible(info) \in Nat
             /\ Budget(info) >= (leftover + Ineligible(info)) * TotalRewardScale
             /\ Budget(info) >= leftover * TotalRewardScale
<1> DEFINE info == AccruedRewards[r]
           leftover == IF now >= info.end THEN 0
                       ELSE (info.rate * (info.end - now)) \div RewardRateScale
           none == Ineligible(info)
           R == RewardRateScale
           K == LiquidityScale
           ahead == info.end - info.lastUpdate
<1>1. /\ info.rate \in Nat /\ info.end \in Nat /\ info.lastUpdate \in Nat
      /\ info.emptySeconds \in Nat /\ now \in Nat
      /\ info.lastUpdate = Smaller(now, info.end)
      /\ R \in Nat \ {0} /\ K \in Nat \ {0}
  BY AccruedFields, AccruedUpToDate, PoolAssumption
     DEF RewardRecord, IInv, TypeOK
<1>2. /\ ahead \in Nat
      /\ now >= info.end => ahead = 0
      /\ ~(now >= info.end) => ahead = info.end - now
  <2> HIDE DEF info
  <2> QED BY <1>1 DEF Smaller
<1>3. leftover \in Nat /\ leftover * R <= info.rate * ahead
  <2>1. CASE now >= info.end
    <3>1. leftover = 0 /\ ahead = 0
      BY <1>2, <2>1
    <3>2. 0 * R <= info.rate * 0
      <4> HIDE DEF R, info
      <4> QED BY <1>1
    <3> HIDE DEF leftover, ahead, R, info
    <3> QED BY <3>1, <3>2
  <2>2. CASE ~(now >= info.end)
    <3> DEFINE m == info.rate * ahead
    <3>1. leftover = m \div R
      BY <1>2, <2>2
    <3>2. m \in Nat
      <4> HIDE DEF ahead, info
      <4> QED BY <1>1, <1>2
    <3> HIDE DEF leftover, m, R
    <3>3. m \div R \in Nat /\ (m \div R) * R <= m
      BY <1>1, <3>2, DivEnough, DivNat
    <3> QED BY <3>1, <3>3 DEF m
  <2> QED BY <2>1, <2>2
<1>4. none \in Nat /\ none * R <= info.rate * info.emptySeconds
  <2> DEFINE m == info.rate * info.emptySeconds
  <2>1. none = m \div R
    BY DEF Ineligible
  <2>2. m \in Nat
    <3> HIDE DEF info
    <3> QED BY <1>1
  <2> HIDE DEF none, m, R
  <2>3. m \div R \in Nat /\ (m \div R) * R <= m
    BY <1>1, <2>2, DivEnough, DivNat
  <2> QED BY <2>1, <2>3 DEF m
<1>5. Budget(info) = info.rate * K * (ahead + info.emptySeconds)
      /\ TotalRewardScale = K * R
  BY DEF Budget, TotalRewardScale
<1>6. ASSUME NEW rate \in Nat, NEW k \in Nat, NEW s \in Nat, NEW a \in Nat,
             NEW e \in Nat, NEW l \in Nat, NEW i \in Nat,
             l * s <= rate * a, i * s <= rate * e
      PROVE  /\ rate * k * (a + e) >= (l + i) * (k * s)
             /\ rate * k * (a + e) >= l * (k * s)
  <2>1. /\ rate * k * (a + e) = k * (rate * a) + k * (rate * e)
        /\ (l + i) * (k * s) = k * (l * s) + k * (i * s)
        /\ l * (k * s) = k * (l * s)
    OBVIOUS
  <2>2. k * (rate * a) >= k * (l * s) /\ k * (rate * e) >= k * (i * s)
    <3>1. rate * a \in Nat /\ rate * e \in Nat /\ l * s \in Nat /\ i * s \in Nat
      OBVIOUS
    <3>2. ASSUME NEW x \in Nat, NEW y \in Nat, x <= y
          PROVE  k * y >= k * x
      BY <3>2
    <3> QED BY <1>6, <3>1, <3>2
  <2>3. /\ k * (rate * a) \in Nat /\ k * (l * s) \in Nat
        /\ k * (rate * e) \in Nat /\ k * (i * s) \in Nat
    OBVIOUS
  <2> DEFINE A == k * (rate * a)
             B == k * (rate * e)
             C == k * (l * s)
             D == k * (i * s)
  <2>4. /\ A \in Nat /\ B \in Nat /\ C \in Nat /\ D \in Nat /\ A >= C /\ B >= D
        /\ rate * k * (a + e) = A + B /\ (l + i) * (k * s) = C + D
        /\ l * (k * s) = C
    BY <2>1, <2>2, <2>3
  <2> HIDE DEF A, B, C, D
  <2>5. A + B >= C + D /\ A + B >= C
    BY <2>4
  <2> QED BY <2>4, <2>5
<1> HIDE DEF leftover, none, ahead, K, R
<1>7. Budget(info) >= (leftover + none) * TotalRewardScale
      /\ Budget(info) >= leftover * TotalRewardScale
  <2> DEFINE rate == info.rate
             e == info.emptySeconds
  <2>1. /\ rate \in Nat /\ e \in Nat /\ ahead \in Nat /\ leftover \in Nat
        /\ none \in Nat /\ R \in Nat /\ K \in Nat
        /\ leftover * R <= rate * ahead /\ none * R <= rate * e
    BY <1>1, <1>2, <1>3, <1>4
  <2> HIDE DEF rate, e
  <2>2. /\ rate * K * (ahead + e) >= (leftover + none) * (K * R)
        /\ rate * K * (ahead + e) >= leftover * (K * R)
    BY <2>1, <1>6
  <2>3. Budget(info) = rate * K * (ahead + e)
    BY <1>5 DEF rate, e
  <2> HIDE DEF info
  <2> QED BY <1>5, <2>2, <2>3
<1> QED BY <1>3, <1>4, <1>7 DEF leftover, none

\* The leftover of a distribution and all that it paid to nobody are withdrawn
\* once it is over.
LEMMA WithdrawAccounts ==
  ASSUME IInv, IInv', Dormant, NEW r \in Rewards, WithdrawIneligibleReward(r),
         NEW s \in Rewards
  PROVE  Accounted(s)
<1> DEFINE info == AccruedRewards[r]
           after == [info EXCEPT !.emptySeconds = 0]
           n == Ineligible(info)
<1>1. /\ position' = position
      /\ reward' = [AccruedRewards EXCEPT ![r] = after]
      /\ rewardVault' = [rewardVault EXCEPT ![r] = @ - n]
  BY DEF WithdrawIneligibleReward
<1>2. /\ AccruedRewards \in [Rewards -> RewardRecord]
      /\ rewardVault \in [Rewards -> Nat]
  BY AccruedRewardsSound DEF IInv, TypeOK
<1>3. CASE s # r
  <2>1. reward'[s] = AccruedRewards[s] /\ rewardVault'[s] = rewardVault[s]
    BY <1>1, <1>2, <1>3
  <2> QED BY <1>1, <2>1, QuietAccounts, UnchangedRewardsMove
<1>4. CASE s = r
  <2>1. reward'[r] = after /\ rewardVault'[r] = rewardVault[r] - n
    BY <1>1, <1>2
  <2>2. /\ after.stored = info.stored /\ after.lastUpdate = info.lastUpdate
        /\ after.end = info.end /\ after.rate = info.rate /\ after.emptySeconds = 0
    <3>1. info \in RewardRecord
      BY <1>2
    <3> HIDE DEF info
    <3> QED BY <3>1 DEF RewardRecord
  <2>3. UpToDate(r)
    BY <2>1, <2>2, AccruedUpToDate, AccruedFields DEF UpToDate
  <2>4. Budget(info) = Budget(after) + info.rate * LiquidityScale * info.emptySeconds
    <3>1. /\ info.rate \in Nat /\ info.end \in Nat /\ info.lastUpdate \in Nat
          /\ info.emptySeconds \in Nat /\ LiquidityScale \in Nat
      BY <1>2, ScalesPositive DEF RewardRecord
    <3>2. ASSUME NEW a \in Nat, NEW k \in Nat, NEW d \in Int, NEW e \in Nat
          PROVE  a * k * (d + e) = a * k * (d + 0) + a * k * e
      OBVIOUS
    <3>3. info.end - info.lastUpdate \in Int
      BY <3>1
    <3> HIDE DEF info, after
    <3> QED BY <2>2, <3>1, <3>2, <3>3 DEF Budget
  <2>5. n * TotalRewardScale <= info.rate * LiquidityScale * info.emptySeconds
        /\ n \in Nat
    <3> DEFINE m == info.rate * info.emptySeconds
    <3>1. m \in Nat /\ info.rate \in Nat /\ info.emptySeconds \in Nat
      BY <1>2 DEF RewardRecord
    <3>2. n = m \div RewardRateScale
      BY DEF Ineligible
    <3>3. RewardRateScale \in Nat \ {0} /\ LiquidityScale \in Nat
      BY PoolAssumption
    <3> HIDE DEF m, n
    <3>4. n \in Nat /\ n * RewardRateScale <= m
      BY <3>1, <3>2, <3>3, DivEnough, DivNat
    <3>5. /\ n * TotalRewardScale = LiquidityScale * (n * RewardRateScale)
      BY <3>3, <3>4 DEF TotalRewardScale
    <3>6. info.rate * LiquidityScale * info.emptySeconds = LiquidityScale * m
      <4> HIDE DEF info
      <4> QED BY <3>1, <3>3 DEF m
    <3>7. LiquidityScale * (n * RewardRateScale) <= LiquidityScale * m
      <4>1. n * RewardRateScale \in Nat
        BY <3>3, <3>4
      <4> QED BY <3>1, <3>3, <3>4, <4>1
    <3> QED BY <3>4, <3>5, <3>6, <3>7
  <2> DEFINE T == TotalRewardScale
             v == rewardVault[r]
             x == info.rate * LiquidityScale * info.emptySeconds
  <2>6. /\ T \in Nat /\ v \in Nat /\ x \in Int
        /\ Budget(after) \in Int /\ Budget(info) \in Int
    <3>1. /\ info \in RewardRecord /\ v \in Nat /\ T \in Nat
          /\ reward'[r] \in RewardRecord
      BY <1>2, ScalesPositive DEF IInv, TypeOK
    <3>2. info.rate \in Int /\ LiquidityScale \in Int /\ info.emptySeconds \in Int
      BY <3>1, ScalesPositive DEF RewardRecord
    <3>3. x \in Int
      <4> HIDE DEF info
      <4> QED BY <3>2
    <3> QED BY <2>1, <3>1, <3>3, BudgetInt
  <2> HIDE DEF after, n, T, v, x, info
  <2>7. (v - n) * T + Budget(info) >= v * T + Budget(after)
    <3>1. (v - n) * T = v * T - n * T /\ v * T \in Int /\ n * T \in Int
      BY <2>5, <2>6
    <3>2. n * T <= x /\ Budget(info) = Budget(after) + x
      BY <2>4, <2>5 DEF T, x
    <3> QED BY <2>6, <3>1, <3>2
  <2>8. rewardVault'[r] \in Int
    BY <2>1, <2>5, <2>6 DEF v
  <2>9. rewardVault'[r] * TotalRewardScale + Budget(AccruedRewards[r])
           >= rewardVault[r] * TotalRewardScale + Budget(reward'[r])
    BY <2>1, <2>7 DEF v, T, info
  <2>10. Budget(reward'[r]) \in Int
    BY <2>1, <2>6
  <2>11. Accounted(r)
    BY <1>1, <2>3, <2>8, <2>9, <2>10, BudgetAccounts
  <2> QED BY <1>4, <2>11
<1> QED BY <1>3, <1>4

-----------------------------------------------------------------------------
\* The fields of a reward that is funded.
LEMMA RefundedIs ==
  ASSUME NEW info \in RewardRecord, NEW amount \in Nat, now \in Nat,
         info.duration > 0, NEW leftover \in Nat,
         leftover = IF now >= info.end THEN 0
                    ELSE (info.rate * (info.end - now)) \div RewardRateScale
  PROVE  LET new == Refunded([info EXCEPT !.emptySeconds = 0], amount)
         IN  /\ new \in RewardRecord
             /\ new.rate = ((amount + leftover) * RewardRateScale) \div info.duration
             /\ new.stored = info.stored
             /\ new.lastUpdate = now
             /\ new.end = now + info.duration
             /\ new.emptySeconds = 0
             /\ new.initialized = info.initialized
<1> DEFINE base == [info EXCEPT !.emptySeconds = 0]
           rate == ((amount + leftover) * RewardRateScale) \div info.duration
<1>1. /\ base \in RewardRecord /\ base.end = info.end /\ base.rate = info.rate
      /\ base.duration = info.duration /\ base.stored = info.stored
      /\ base.emptySeconds = 0 /\ base.initialized = info.initialized
  BY DEF RewardRecord
<1> HIDE DEF base
<1>2. rate \in Nat /\ now + info.duration \in Nat
  <2>1. info.duration \in Nat \ {0} /\ (amount + leftover) * RewardRateScale \in Nat
    BY PoolAssumption DEF RewardRecord
  <2> QED BY <2>1, DivNat
<1>3. Refunded(base, amount)
        = [base EXCEPT !.rate = rate, !.lastUpdate = now,
                       !.end = now + info.duration]
  BY <1>1 DEF Refunded
<1> HIDE DEF rate
<1>4. LET new == [base EXCEPT !.rate = rate, !.lastUpdate = now,
                              !.end = now + info.duration]
      IN  /\ new \in RewardRecord /\ new.rate = rate /\ new.stored = base.stored
          /\ new.lastUpdate = now /\ new.end = now + info.duration
          /\ new.emptySeconds = base.emptySeconds
          /\ new.initialized = base.initialized
  BY <1>1, <1>2 DEF RewardRecord
<1> QED BY <1>1, <1>3, <1>4 DEF base, rate

\* A distribution is never promised more than was put in, rounded down.
LEMMA FundedBudget ==
  ASSUME NEW n \in Nat, NEW d \in Nat \ {0}
  PROVE  LET rate == (n * RewardRateScale) \div d
         IN  /\ rate \in Nat
             /\ rate * LiquidityScale * d <= n * TotalRewardScale
<1> DEFINE m == n * RewardRateScale
           rate == m \div d
<1>1. m \in Nat /\ RewardRateScale \in Nat /\ LiquidityScale \in Nat
  BY PoolAssumption
<1>2. rate \in Nat /\ rate * d <= m
  <2> HIDE DEF m
  <2> QED BY <1>1, DivEnough, DivNat
<1> HIDE DEF rate
<1>3. /\ rate * LiquidityScale * d = LiquidityScale * (rate * d)
      /\ n * TotalRewardScale = LiquidityScale * m
  BY <1>1, <1>2 DEF TotalRewardScale
<1>4. rate * d \in Nat
  BY <1>2
<1>5. LiquidityScale * (rate * d) <= LiquidityScale * m
  <2> HIDE DEF m
  <2> QED BY <1>1, <1>2, <1>4
<1> QED BY <1>2, <1>3, <1>5 DEF rate

\* handle_fund_reward: what is left over, and what was paid to nobody when it
\* is carried forward, is spread again together with the new amount.
LEMMA FundAccounts ==
  ASSUME IInv, IInv', Dormant, NEW r \in Rewards, NEW amount \in Nat,
         NEW carryForward \in BOOLEAN, FundReward(r, amount, carryForward),
         NEW s \in Rewards
  PROVE  Accounted(s)
<1> DEFINE info == AccruedRewards[r]
           carry == IF carryForward THEN Ineligible(info) ELSE 0
           new == Refunded([info EXCEPT !.emptySeconds = 0], amount + carry)
<1>1. /\ position' = position
      /\ reward' = [AccruedRewards EXCEPT ![r] = new]
      /\ rewardVault' = [rewardVault EXCEPT ![r] = @ + amount]
      /\ reward[r].initialized
  BY DEF FundReward
<1>2. /\ AccruedRewards \in [Rewards -> RewardRecord]
      /\ rewardVault \in [Rewards -> Nat]
  BY AccruedRewardsSound DEF IInv, TypeOK
<1>3. CASE s # r
  <2>1. reward'[s] = AccruedRewards[s] /\ rewardVault'[s] = rewardVault[s]
    BY <1>1, <1>2, <1>3
  <2> QED BY <1>1, <2>1, QuietAccounts, UnchangedRewardsMove
<1>4. CASE s = r
  <2> DEFINE leftover == IF now >= info.end THEN 0
                         ELSE (info.rate * (info.end - now)) \div RewardRateScale
             d == info.duration
             rate == ((amount + carry + leftover) * RewardRateScale) \div d
  <2>1. reward'[r] = new /\ rewardVault'[r] = rewardVault[r] + amount
    BY <1>1, <1>2
  <2>2. /\ leftover \in Nat /\ Ineligible(info) \in Nat
        /\ Budget(info) >= (leftover + Ineligible(info)) * TotalRewardScale
        /\ Budget(info) >= leftover * TotalRewardScale
    BY LeftoverInBudget
  <2>3. /\ carry \in Nat /\ TotalRewardScale \in Nat
        /\ Budget(info) >= (leftover + carry) * TotalRewardScale
    <3>1. TotalRewardScale \in Nat
      BY ScalesPositive
    <3>2. CASE carryForward
      BY <2>2, <3>1, <3>2
    <3>3. CASE ~carryForward
      <4>1. carry = 0 /\ leftover + 0 = leftover
        <5> HIDE DEF leftover
        <5> QED BY <2>2, <3>3
      <4> HIDE DEF leftover, carry, info
      <4> QED BY <2>2, <3>1, <4>1
    <3> QED BY <3>2, <3>3
  <2>4. /\ info \in RewardRecord /\ d \in Nat \ {0} /\ now \in Nat
        /\ info.stored = Stored[r]
    <3>1. reward[r].duration > 0 /\ reward[r].duration \in Nat /\ now \in Nat
      BY <1>1 DEF IInv, TypeOK, DurationsSet, RewardRecord
    <3>2. info.duration = reward[r].duration /\ info \in RewardRecord
      BY AccruedFields
    <3>3. info.stored = Stored[r]
      BY AccruedUpToDate
    <3> QED BY <3>1, <3>2, <3>3
  <2>5. amount + carry \in Nat /\ d > 0
    <3> HIDE DEF carry, d
    <3> QED BY <2>3, <2>4
  <2> HIDE DEF carry, leftover, rate
  <2>6. /\ new \in RewardRecord /\ new.rate = rate
        /\ new.stored = info.stored /\ new.lastUpdate = now
        /\ new.end = now + d /\ new.emptySeconds = 0
    <3>1. leftover = IF now >= info.end THEN 0
                     ELSE (info.rate * (info.end - now)) \div RewardRateScale
      BY DEF leftover
    <3> QED BY <2>2, <2>4, <2>5, <3>1, RefundedIs DEF rate
  <2> HIDE DEF new, info, d
  <2>7. UpToDate(r)
    <3>1. now = Smaller(now, now + d)
      BY <2>4 DEF Smaller
    <3> QED BY <2>1, <2>4, <2>6, <3>1 DEF UpToDate
  <2>8. Budget(new) <= (amount + carry + leftover) * TotalRewardScale
    <3>1. /\ rate \in Nat
          /\ rate * LiquidityScale * d <= (amount + carry + leftover) * TotalRewardScale
      <4>1. amount + carry + leftover \in Nat
        BY <2>2, <2>5
      <4> QED BY <2>4, <4>1, FundedBudget DEF rate
    <3>2. (now + d - now) + 0 = d
      BY <2>4
    <3>3. Budget(new) = rate * LiquidityScale * ((now + d - now) + 0)
      <4>1. now + d - now = (now + d) - now
        BY <2>4
      <4> QED BY <2>6, <4>1 DEF Budget
    <3> QED BY <3>1, <3>2, <3>3
  <2> DEFINE T == TotalRewardScale
             v == rewardVault[r]
             b == Budget(info)
             c == Budget(new)
  <2>9. T \in Nat /\ v \in Nat /\ b \in Int /\ c \in Int
    BY <1>2, <2>3, <2>4, <2>6, BudgetInt
  <2>10. b >= (leftover + carry) * T /\ c <= (amount + carry + leftover) * T
    BY <2>3, <2>8
  <2> HIDE DEF T, v, b, c
  <2>11. (v + amount) * T + b >= v * T + c
    <3>1. /\ (v + amount) * T = v * T + amount * T
          /\ (amount + carry + leftover) * T = amount * T + (leftover + carry) * T
          /\ v * T \in Int /\ amount * T \in Int /\ (leftover + carry) * T \in Int
      BY <2>2, <2>3, <2>9
    <3> QED BY <2>9, <2>10, <3>1
  <2>12. rewardVault'[r] * TotalRewardScale + Budget(AccruedRewards[r])
           >= rewardVault[r] * TotalRewardScale + Budget(reward'[r])
    BY <2>1, <2>11 DEF T, v, b, c, info
  <2>13. rewardVault'[r] \in Int /\ Budget(reward'[r]) \in Int
    BY <2>1, <2>9 DEF v, c
  <2>14. Accounted(r)
    BY <1>1, <2>7, <2>12, <2>13, BudgetAccounts
  <2> QED BY <1>4, <2>14
<1> QED BY <1>3, <1>4

-----------------------------------------------------------------------------
\* A reward that is initialized was blank, and nobody has any of it.
LEMMA InitializeStands ==
  ASSUME IInv, Dormant, NEW r \in Rewards, NEW d, InitializeReward(r, d),
         NEW s \in Rewards
  PROVE  Standing(s) /\ now' = now
<1>1. /\ reward' = [reward EXCEPT ![r].initialized = TRUE, ![r].duration = d]
      /\ rewardVault' = rewardVault /\ position' = position /\ pool' = pool
      /\ now' = now /\ ~reward[r].initialized
  BY DEF InitializeReward
<1>2. /\ reward \in [Rewards -> RewardRecord] /\ now \in Nat
  BY DEF IInv, TypeOK
<1>3. \A x \in Positions : RewardsLeft(s, x)
  BY <1>1, UnchangedLeft
<1>4. SameBooks(s)
  BY <1>1, <1>2 DEF SameBooks, RewardRecord
<1>5. CASE s = r
  <2>1. reward[s] = NoReward /\ AccruedRewards[s] = NoReward /\ Stored[s] = 0
    BY <1>1, <1>5, DormantStored
  <2>2. reward'[s].end = 0 /\ reward'[s].lastUpdate = 0 /\ reward'[s].stored = 0
    BY <1>4, <2>1 DEF SameBooks, NoReward
  <2>3. Smaller(now, 0) = 0
    BY <1>2 DEF Smaller
  <2>4. UpToDate(s)
    BY <1>1, <2>1, <2>2, <2>3 DEF UpToDate, NoReward
  <2> QED BY <1>1, <1>3, <1>4, <2>4 DEF Standing, Untouched
<1>6. CASE s # r
  <2>1. reward'[s] = reward[s]
    BY <1>1, <1>2, <1>6
  <2> QED BY <1>1, <1>3, <1>4, <2>1 DEF Standing, Untouched, SameReward
<1> QED BY <1>5, <1>6

\* The duration of a reward bears on nothing until it is funded again, and the
\* freeze of a vault or the status of the pool on no reward.
LEMMA OthersStand ==
  ASSUME IInv, NEW s \in Rewards,
         \/ \E r \in Rewards, d \in Durations : UpdateRewardDuration(r, d)
         \/ \E r \in Rewards : ToggleFreeze(r)
         \/ StatusStep
         \/ UNCHANGED vars
  PROVE  Standing(s) /\ now' = now
<1>1. /\ rewardVault' = rewardVault /\ position' = position /\ now' = now
  BY DEF UpdateRewardDuration, ToggleFreeze, StatusStep, SetPoolStatus, vars
<1>2. pool'.liquidity = pool.liquidity
  BY DEF UpdateRewardDuration, ToggleFreeze, StatusStep, SetPoolStatus, vars,
         IInv, TypeOK, PoolRecord
<1>3. \/ reward' = reward
      \/ \E r \in Rewards, d \in Durations :
           reward' = [reward EXCEPT ![r].duration = d]
  BY DEF UpdateRewardDuration, ToggleFreeze, StatusStep, SetPoolStatus, vars
<1>4. SameReward(s)
  BY <1>3 DEF SameReward, SameBooks, IInv, TypeOK, RewardRecord
<1> QED BY <1>1, <1>2, <1>4, UnchangedLeft DEF Standing, Untouched, SameReward

\* What positions do keeps the clock and the reward vaults still.
LEMMA PositionStepQuiet ==
  ASSUME PositionStep
  PROVE  rewardVault' = rewardVault /\ now' = now
<1>1. ASSUME NEW p, NEW q, NEW id, NEW s, NEW n,
             \/ AddLiquidity(p, n) \/ RemoveLiquidity(p, n)
             \/ SplitPosition(p, q, s)
      PROVE  rewardVault' = rewardVault /\ now' = now
  BY <1>1 DEF AddLiquidity, RemoveLiquidity, SplitPosition
<1>2. ASSUME NEW p, NEW q, NEW id, NEW s, NEW n,
             \/ CreatePosition(p) \/ ClosePosition(p)
             \/ LockPosition(p, id, s) \/ RefreshVesting(p)
             \/ PermanentLock(p, n)
      PROVE  rewardVault' = rewardVault /\ now' = now
  BY <1>2 DEF CreatePosition, ClosePosition, LockPosition, RefreshVesting, PermanentLock
<1> QED BY <1>1, <1>2, Zenon DEF PositionStep

\* Adding, removing and splitting account for every reward; creating, closing
\* and locking leave them alone.
LEMMA PositionStepAccounts ==
  ASSUME IInv, VaultInv, PositionStep, NEW r \in Rewards
  PROVE  Standing(r) \/ Accounted(r)
<1>1. ClosedZero /\ Dormant
  BY DEF VaultInv
<1>2. rewardVault' = rewardVault
  BY PositionStepQuiet
<1>3. OnlyMoves
  BY <1>1, PositionStepMoves
<1>4. \/ reward' = AccruedRewards
      \/ reward' = reward /\ pool'.liquidity = pool.liquidity /\ EachKept
  BY <1>1, PositionStepMoves
<1>5. CASE reward' = AccruedRewards
  BY <1>1, <1>2, <1>3, <1>5, AccruedAccounts
<1>6. CASE reward' = reward /\ pool'.liquidity = pool.liquidity /\ EachKept
  BY <1>2, <1>6, KeptLeft, KeptStands
<1> QED BY <1>4, <1>5, <1>6

\* An instruction about rewards leaves each of them alone or accounts for it.
LEMMA RewardStepAccounts ==
  ASSUME IInv, IInv', VaultInv, RewardStep, NEW s \in Rewards
  PROVE  now' = now /\ (Standing(s) \/ Accounted(s))
<1>1. Dormant
  BY DEF VaultInv
<1>2. ASSUME NEW r \in Rewards, NEW d \in Durations, InitializeReward(r, d)
      PROVE  now' = now /\ (Standing(s) \/ Accounted(s))
  BY <1>1, <1>2, InitializeStands
<1>3. ASSUME NEW r \in Rewards, NEW d \in Durations, UpdateRewardDuration(r, d)
      PROVE  now' = now /\ (Standing(s) \/ Accounted(s))
  BY <1>3, OthersStand
<1>4. ASSUME NEW r \in Rewards, NEW n \in FundAmounts, NEW carry \in BOOLEAN,
             FundReward(r, n, carry)
      PROVE  now' = now /\ (Standing(s) \/ Accounted(s))
  <2>1. n \in Nat /\ now' = now
    BY <1>4, InputAssumption DEF FundReward
  <2> QED BY <1>1, <1>4, <2>1, FundAccounts
<1>5. ASSUME NEW r \in Rewards, WithdrawIneligibleReward(r)
      PROVE  now' = now /\ (Standing(s) \/ Accounted(s))
  <2>1. now' = now
    BY <1>5 DEF WithdrawIneligibleReward
  <2> QED BY <1>1, <1>5, <2>1, WithdrawAccounts
<1>6. ASSUME NEW p \in Positions, NEW r \in Rewards, NEW skip \in BOOLEAN,
             ClaimReward(p, r, skip)
      PROVE  now' = now /\ (Standing(s) \/ Accounted(s))
  <2>1. now' = now
    BY <1>6 DEF ClaimReward
  <2> QED BY <1>1, <1>6, <2>1, ClaimRewardAccounts
<1>7. ASSUME NEW r \in Rewards, ToggleFreeze(r)
      PROVE  now' = now /\ (Standing(s) \/ Accounted(s))
  BY <1>7, OthersStand
<1> QED BY <1>2, <1>3, <1>4, <1>5, <1>6, <1>7, Zenon DEF RewardStep

\* So does every step but that of the clock.
LEMMA EveryStepAccounts ==
  ASSUME IInv, IInv', VaultInv,
         [SwapStep(TradeFeeRecord) \/ OtherStep]_vars, ~Tick, NEW r \in Rewards
  PROVE  now' = now /\ (Standing(r) \/ Accounted(r))
<1>1. CASE SwapStep(TradeFeeRecord)
  BY <1>1, SwapStands
<1>2. CASE PositionStep
  BY <1>2, PositionStepQuiet, PositionStepAccounts
<1>3. CASE ClaimStep
  BY <1>3, ClaimStepStands
<1>4. CASE RewardStep
  BY <1>4, RewardStepAccounts
<1>5. CASE StatusStep \/ UNCHANGED vars
  BY <1>5, OthersStand
<1> QED BY <1>1, <1>2, <1>3, <1>4, <1>5 DEF OtherStep

\* And time on its own leaves them all alone.
LEMMA TickLeaves ==
  ASSUME Tick, NEW r \in Rewards
  PROVE  Untouched(r)
<1>1. reward' = reward /\ rewardVault' = rewardVault /\ position' = position
  BY DEF Tick
<1> QED BY <1>1, UnchangedLeft DEF Untouched, SameBooks

-----------------------------------------------------------------------------
\* The accumulators, brought up to the present, as one function.
LEMMA StoredIsFunction ==
  ASSUME \A r \in Rewards : Stored'[r] = Stored[r]
  PROVE  Stored' = Stored
<1>1. DOMAIN Stored = Rewards
  BY DEF Stored
<1> QED BY DEF Stored

\* What can be claimed of a reward depends on its accumulator brought up to
\* the present, which no instruction moves.
LEMMA StoredStands ==
  ASSUME IInv, IInv', now' = now,
         \A r \in Rewards : Standing(r) \/ Accounted(r)
  PROVE  Stored' = Stored
<1>1. ASSUME NEW r \in Rewards
      PROVE  Stored'[r] = Stored[r]
  <2>1. CASE UpToDate(r)
    BY <2>1, UpToDateStands
  <2>2. CASE SameReward(r) /\ pool'.liquidity = pool.liquidity
    BY <2>2, SameRewardStands
  <2> QED BY <2>1, <2>2 DEF Standing, Accounted
<1> QED BY <1>1, StoredIsFunction

\* So every step but the clock's keeps the reward vaults solvent and the
\* rewards conserved,
LEMMA InstructionsCover ==
  ASSUME IInv, IInv', LiquidityConserved, VaultInv, VaultInv', RewardsCovered,
         now' = now, \A r \in Rewards : Standing(r) \/ Accounted(r),
         NEW r \in Rewards
  PROVE  CoversReward(r)' /\ RewardsKeptAt(r)
<1>1. Dormant /\ Dormant'
  BY DEF VaultInv
<1>2. Stored' = Stored
  BY StoredStands
<1>3. CoversReward(r)
  BY DEF RewardsCovered
<1>4. CASE Accounted(r)
  <2>1. CoversAccrued(r)
    BY <1>1, <1>3, AccrualCovers
  <2> QED BY <1>1, <1>2, <1>4, <2>1, AccountedCovers
<1>5. CASE Standing(r)
  <2>1. Untouched(r)
    BY <1>5 DEF Standing
  <2>2. CoversReward(r)'
    BY <1>3, <2>1, UntouchedCovers
  <2>3. RewardsKeptAt(r)
    BY <1>1, <1>2, <2>1, UntouchedKeeps
  <2> QED BY <2>2, <2>3
<1> QED BY <1>4, <1>5

\* and so does the clock.
LEMMA EveryStepCoversRewards ==
  ASSUME IInv, IInv', LiquidityConserved, VaultInv, VaultInv', RewardsCovered,
         [SwapStep(TradeFeeRecord) \/ OtherStep]_vars
  PROVE  /\ RewardsCovered'
         /\ now' = now => \A r \in Rewards : RewardsKeptAt(r)
<1>1. CASE Tick
  <2>1. ASSUME NEW r \in Rewards
        PROVE  CoversReward(r)'
    BY <1>1, <2>1, TickLeaves, UntouchedCovers DEF RewardsCovered
  <2>2. now' # now
    BY <1>1 DEF Tick, IInv, TypeOK
  <2> QED BY <2>1, <2>2 DEF RewardsCovered
<1>2. CASE ~Tick
  <2>1. \A r \in Rewards : now' = now /\ (Standing(r) \/ Accounted(r))
    BY <1>2, EveryStepAccounts
  <2>2. ASSUME NEW r \in Rewards
        PROVE  CoversReward(r)' /\ RewardsKeptAt(r)
    <3>1. now' = now
      BY <2>1, <2>2
    <3> QED BY <2>1, <2>2, <3>1, InstructionsCover
  <2> QED BY <2>2 DEF RewardsCovered
<1> QED BY <1>1, <1>2

\* A new pool has no rewards.
LEMMA InitRewardsCovered ==
  ASSUME Init
  PROVE  RewardsCovered
<1>1. PICK p \in Positions, L \in InitLiquidity, price \in InitPrices,
           customizable \in BOOLEAN : InitializePool(p, L, price, customizable)
  BY DEF Init, InitialState
<1>2. /\ position = [q \in Positions |-> IF q = p THEN NewPosition(L) ELSE NoPosition]
      /\ reward = [r \in Rewards |-> NoReward]
  BY <1>1 DEF InitializePool, Init, InitialState
<1>3. IInv
  BY InitSound
<1>4. ASSUME NEW r \in Rewards
      PROVE  CoversReward(r)
  <2>1. /\ reward[r] = NoReward
        /\ \A x \in Positions : /\ position[x].rewardPending[r] = 0
                                /\ position[x].rewardCheckpoint[r] = 0
    BY <1>2 DEF NewPosition, NoPosition
  <2>2. \A x \in Positions : RewardsShared[r][x] = 0
    <3>1. \A x \in Positions : /\ TotalLiquidity(position[x]) \in Nat
            /\ RewardsShared[r][x] = position[x].rewardPending[r] * TotalRewardScale
                 + TotalLiquidity(position[x])
                     * (reward[r].stored - position[x].rewardCheckpoint[r])
      BY <1>3, BooksNow DEF BooksTyped
    <3>2. \A n \in Nat : 0 * TotalRewardScale + n * (0 - 0) = 0
      BY ScalesPositive
    <3>3. reward[r].stored = 0
      BY <2>1 DEF NoReward
    <3> QED BY <2>1, <3>1, <3>2, <3>3
  <2>3. PositionSum(RewardsShared[r]) = 0
    BY <2>2, PositionSumZero
  <2>4. Budget(reward[r]) = 0
    BY <2>1, ScalesPositive DEF Budget, NoReward
  <2>5. rewardVault[r] * TotalRewardScale >= 0
    BY <1>3, ScalesPositive, MulNat DEF IInv, TypeOK
  <2> QED BY <2>3, <2>4, <2>5 DEF CoversReward
<1> QED BY <1>4 DEF RewardsCovered

\* The reward vaults stay solvent, whatever the trade fees.
THEOREM AnyFeeRewardsSolvent == AnyFeeSpec => []RewardsCovered
<1>1. Init => RewardsCovered
  BY InitRewardsCovered
<1>2. IInv /\ IInv' /\ LiquidityConserved /\ VaultInv /\ VaultInv' /\ RewardsCovered
        /\ [SwapStep(TradeFeeRecord) \/ OtherStep]_vars => RewardsCovered'
  BY EveryStepCoversRewards
<1> QED BY <1>1, <1>2, AnyFeeLiquidityConserved, AnyFeeVaultsSolvent, PTL
        DEF AnyFeeSpec

\* The vault of every reward always holds what positions have accrued, what the
\* distribution under way still has to pay and what it paid to nobody, before
\* any rounding (Pool::update_rewards, RewardInfo::update_rate_after_funding,
\* Position::claim_reward, Pool::claim_ineligible_reward).
THEOREM RewardVaultSolventHolds == Spec => []RewardVaultSolvent
<1>1. RewardsCovered => RewardVaultSolvent
  BY CoveredIsSolvent
<1> QED BY <1>1, AnyFeeCovers, AnyFeeRewardsSolvent, PTL

\* RewardsConserved names the state functions of the proof.
RewardDueNames == \A r \in Rewards : RewardDue[r] = ClaimableRewards(r)

\* At any one time no instruction changes what all positions together can claim
\* of a reward, but by paying it out or, by its owner's choice, giving it up to
\* a frozen vault.
THEOREM RewardsConservedHolds == Spec => RewardsConserved
<1>1. IInv /\ IInv' /\ LiquidityConserved /\ VaultInv /\ VaultInv' /\ RewardsCovered
        /\ [SwapStep(TradeFeeRecord) \/ OtherStep]_vars
        => (now' = now => \A r \in Rewards : RewardsKeptAt(r))
  BY EveryStepCoversRewards
<1>2. RewardDueNames
  BY DEF RewardDueNames, RewardDue
<1>3. RewardDueNames /\ RewardDueNames'
        /\ (now' = now => \A r \in Rewards : RewardsKeptAt(r))
        => [now' = now => \A r \in Rewards :
       LET Was == PositionSum(ClaimableRewards(r))
           Is  == PositionSum(ClaimableRewards(r)')
       IN  \/ Is = Was
           \/ /\ Is < Was
              /\ \/ frozen[r]
                 \/ Was - Is = rewardVault[r] - rewardVault'[r]]_vars
  <2> SUFFICES ASSUME RewardDueNames, RewardDueNames', NEW r \in Rewards,
                      RewardsKeptAt(r)
               PROVE  LET Was == PositionSum(ClaimableRewards(r))
                          Is  == PositionSum(ClaimableRewards(r)')
                      IN  \/ Is = Was
                          \/ /\ Is < Was
                             /\ \/ frozen[r]
                                \/ Was - Is = rewardVault[r] - rewardVault'[r]
    OBVIOUS
  <2> QED BY DEF RewardsKeptAt, RewardDueNames
<1> QED BY <1>1, <1>2, <1>3, AnyFeeCovers, AnyFeeVaultsSolvent, AnyFeeRewardsSolvent,
           AnyFeeLiquidityConserved, PTL DEF RewardsConserved, AnyFeeSpec

-----------------------------------------------------------------------------
\* Everybody can leave at once.  Claims in whole tokens are rounded down, so
\* together they are within the shares before rounding,
LEMMA RoundedWithin ==
  ASSUME NEW due, NEW owed, NEW k \in Nat \ {0},
         \A x \in Positions : due[x] \in Nat /\ owed[x] \in Nat /\ due[x] * k <= owed[x]
  PROVE  PositionSum(due) * k <= PositionSum(owed)
<1> DEFINE zero == [x \in Positions |-> 0]
           scaled == [x \in Positions |-> due[x] * k]
<1>1. \A x \in Positions :
        zero[x] \in Int /\ due[x] \in Int /\ scaled[x] = zero[x] + k * due[x]
  OBVIOUS
<1>2. \A x \in Positions :
        scaled[x] \in Int /\ owed[x] \in Int /\ scaled[x] <= owed[x]
  OBVIOUS
<1>3. \A x \in Positions : zero[x] = 0
  OBVIOUS
<1> HIDE DEF zero, scaled
<1>4. PositionSum(scaled) = PositionSum(zero) + k * PositionSum(due)
  <2>1. k \in Int
    OBVIOUS
  <2> QED BY <1>1, <2>1, PositionSumLinear, Zenon
<1>5. PositionSum(scaled) <= PositionSum(owed)
  BY <1>2, PositionSumLe
<1>6. PositionSum(zero) = 0 /\ PositionSum(due) \in Int
  BY <1>1, <1>3, PositionSumZero, PositionSumInt
<1> QED BY <1>4, <1>5, <1>6

\* and the liquidity is worth, rounded down, no more than what covers it.
LEMMA WorthOfA ==
  ASSUME NEW S \in Int, NEW P \in Nat \ {0}, NEW L \in Nat,
         P <= SqrtMaxPrice, CoversA(S, P, L)
  PROVE  DeltaA(P, SqrtMaxPrice, L, "Down") * LiquidityScale <= S
<1> DEFINE N == SqrtMaxPrice
           K == LiquidityScale
           n == DeltaA(P, N, L, "Down")
           d == P * N
           w == L * (N - P)
<1>1. N \in Nat \ {0} /\ K \in Nat
  BY PriceAssumption, ScalesPositive
<1>2. d \in Nat \ {0} /\ w \in Int
  BY <1>1, MulPos
<1>3. n \in Int /\ n * d <= w
  <2>1. n = w \div d
    BY DEF DeltaA, DivRound
  <2> HIDE DEF n, w, d
  <2> QED BY <1>2, <2>1, DivEnough
<1>4. S * d >= K * w
  <2>1. S * P * N >= K * L * (N - P)
    BY DEF CoversA
  <2> HIDE DEF N, K
  <2>2. S * P * N = S * (P * N) /\ K * L * (N - P) = K * (L * (N - P))
    BY <1>1
  <2> QED BY <2>1, <2>2
<1> HIDE DEF N, K, n, d, w
<1>5. (n * K) * d <= S * d
  <2>1. K * (n * d) <= K * w
    <3>1. n * d \in Int
      BY <1>2, <1>3
    <3> QED BY <1>1, <1>2, <1>3, <3>1
  <2>2. (n * K) * d = K * (n * d)
    BY <1>1, <1>2, <1>3
  <2>3. K * (n * d) \in Int /\ K * w \in Int /\ S * d \in Int
    BY <1>1, <1>2, <1>3
  <2> QED BY <1>4, <2>1, <2>2, <2>3
<1>6. n * K \in Int
  BY <1>1, <1>3
<1>7. ASSUME NEW x \in Int, NEW y \in Int, x * d <= y * d
      PROVE  x <= y
  BY <1>2, <1>7
<1> QED BY <1>5, <1>6, <1>7 DEF n, N, K

\* The same of token B.
LEMMA WorthOfB ==
  ASSUME NEW S \in Int, NEW P \in Nat, NEW L \in Nat,
         SqrtMinPrice <= P, CoversB(S, P, L)
  PROVE  DeltaB(SqrtMinPrice, P, L, "Down") * LiquidityScale <= S
<1> DEFINE K == LiquidityScale
           n == DeltaB(SqrtMinPrice, P, L, "Down")
           d == Scale
           w == L * (P - SqrtMinPrice)
<1>1. SqrtMinPrice \in Nat /\ K \in Nat
  BY PriceAssumption, ScalesPositive
<1>2. d \in Nat \ {0} /\ w \in Int
  BY <1>1, ScaleAssumption
<1>3. n \in Int /\ n * d <= w
  <2>1. n = w \div d
    BY DEF DeltaB, DivRound
  <2> HIDE DEF n, w, d
  <2> QED BY <1>2, <2>1, DivEnough
<1>4. S * d >= K * w
  <2>1. S * Scale >= K * L * (P - SqrtMinPrice)
    BY DEF CoversB
  <2> HIDE DEF K
  <2>2. K * L * (P - SqrtMinPrice) = K * (L * (P - SqrtMinPrice))
    BY <1>1
  <2> QED BY <2>1, <2>2
<1> HIDE DEF K, n, d, w
<1>5. (n * K) * d <= S * d
  <2>1. K * (n * d) <= K * w
    <3>1. n * d \in Int
      BY <1>2, <1>3
    <3> QED BY <1>1, <1>2, <1>3, <3>1
  <2>2. (n * K) * d = K * (n * d)
    BY <1>1, <1>2, <1>3
  <2>3. K * (n * d) \in Int /\ K * w \in Int /\ S * d \in Int
    BY <1>1, <1>2, <1>3
  <2> QED BY <1>4, <2>1, <2>2, <2>3
<1>6. n * K \in Int
  BY <1>1, <1>3
<1>7. ASSUME NEW x \in Int, NEW y \in Int, x * d <= y * d
      PROVE  x <= y
  BY <1>2, <1>7
<1> QED BY <1>5, <1>6, <1>7 DEF n, K

\* So the fees and the liquidity are in the vault together,
LEMMA FeesAndLiquidityFit ==
  ASSUME IInv, Covered, NEW t \in Tokens
  PROVE  vault[t] >= pool.protocolFee[t] + pool.partnerFee[t]
                       + PositionSum(FeeDue[t])
                       + ModifyAmount(t, pool.liquidity, "Down")
<1> DEFINE n == ModifyAmount(t, pool.liquidity, "Down")
           K == LiquidityScale
           due == PositionSum(FeeDue[t])
           owed == PositionSum(FeeOwed[t])
<1>1. /\ pool.sqrtPrice \in Nat \ {0} /\ pool.liquidity \in Nat
      /\ SqrtMinPrice <= pool.sqrtPrice /\ pool.sqrtPrice <= SqrtMaxPrice
      /\ vault[t] \in Int /\ pool.protocolFee[t] \in Int /\ pool.partnerFee[t] \in Int
  BY PriceAssumption DEF IInv, TypeOK, PriceInRange, PoolRecord
<1>2. /\ Surplus["A"] \in Int /\ Surplus["B"] \in Int
      /\ owed \in Nat /\ due \in Nat
  BY SurplusInt, TokensAre DEF SurplusTyped
<1>3. n \in Nat /\ K \in Nat \ {0}
  BY <1>1, ModifyAmountNat, ScalesPositive
<1>4. n * K <= Surplus[t]
  <2>1. CASE t = "A"
    <3>1. DeltaA(pool.sqrtPrice, SqrtMaxPrice, pool.liquidity, "Down") * K
            <= Surplus["A"]
      BY <1>1, <1>2, WorthOfA DEF Covered
    <3> QED BY <2>1, <3>1 DEF ModifyAmount
  <2>2. CASE t = "B"
    <3>1. DeltaB(SqrtMinPrice, pool.sqrtPrice, pool.liquidity, "Down") * K
            <= Surplus["B"]
      BY <1>1, <1>2, WorthOfB DEF Covered
    <3> QED BY <2>2, <3>1 DEF ModifyAmount
  <2> QED BY <2>1, <2>2, TokensAre
<1>5. due * K <= owed
  <2>1. \A x \in Positions : /\ FeeDue[t][x] \in Nat /\ FeeOwed[t][x] \in Nat
                             /\ FeeDue[t][x] * K <= FeeOwed[t][x]
    BY FeesNow DEF FeesAre
  <2> QED BY <1>3, <2>1, RoundedWithin
<1>6. Surplus[t] = Spare[t] * K - owed
      /\ Spare[t] = (vault[t] - pool.protocolFee[t]) - pool.partnerFee[t]
  BY DEF Surplus, Spare
<1> HIDE DEF n, K, due, owed
<1>7. Spare[t] >= n + due
  <2> DEFINE s == Spare[t]
  <2>1. s \in Int
    BY <1>1, <1>6
  <2>2. s * K - owed >= n * K
    BY <1>4, <1>6
  <2> HIDE DEF s
  <2>3. s * K >= n * K + due * K
    <3>1. s * K \in Int /\ n * K \in Int /\ due * K \in Int
      BY <1>2, <1>3, <2>1
    <3> QED BY <1>2, <1>5, <2>2, <3>1
  <2>4. (n + due) * K = n * K + due * K
    BY <1>2, <1>3
  <2>5. ASSUME NEW x \in Int, NEW y \in Int, x * K >= y * K
        PROVE  x >= y
    BY <1>3, <2>5
  <2>6. s * K >= (n + due) * K /\ n + due \in Int
    BY <1>2, <1>3, <2>3, <2>4
  <2>7. s >= n + due
    BY <2>1, <2>5, <2>6
  <2> QED BY <2>7 DEF s
<1>8. vault[t] >= pool.protocolFee[t] + pool.partnerFee[t] + due + n
  BY <1>1, <1>2, <1>3, <1>6, <1>7
<1> QED BY <1>8 DEF n, due

\* and so are the rewards accrued up to now.
LEMMA RewardsFit ==
  ASSUME IInv, Dormant, NEW r \in Rewards, CoversAccrued(r)
  PROVE  rewardVault[r] >= PositionSum(RewardDue[r])
<1> DEFINE K == TotalRewardScale
           due == PositionSum(RewardDue[r])
           owed == PositionSum(RewardOwed[r])
           info == AccruedRewards[r]
           left == Budget(info)
           held == rewardVault[r]
<1>1. K \in Nat \ {0} /\ held \in Nat
  BY ScalesPositive DEF IInv, TypeOK
<1>2. \A x \in Positions : /\ RewardDue[r][x] \in Nat /\ RewardOwed[r][x] \in Nat
                           /\ RewardDue[r][x] * K <= RewardOwed[r][x]
  BY RewardsNow DEF RewardsAre
<1>3. due \in Nat /\ owed \in Nat /\ due * K <= owed
  BY <1>1, <1>2, RoundedWithin, PositionSumNat
<1>4. left \in Nat
  <2> DEFINE leftover == IF now >= info.end THEN 0
                         ELSE (info.rate * (info.end - now)) \div RewardRateScale
  <2>1. leftover \in Nat /\ left >= leftover * K
    BY LeftoverInBudget
  <2>2. left \in Int
    BY AccruedFields, BudgetInt
  <2> HIDE DEF leftover, left, K
  <2>3. leftover * K \in Nat
    BY <1>1, <2>1, MulNat
  <2> QED BY <2>1, <2>2, <2>3
<1>5. held * K >= owed + left
  BY DEF CoversAccrued
<1> HIDE DEF K, due, owed, left, held
<1>6. held * K >= due * K
  <2>1. held * K \in Int /\ due * K \in Int
    BY <1>1, <1>3
  <2> QED BY <1>3, <1>4, <1>5, <2>1
<1>7. held >= due
  BY <1>1, <1>3, <1>6
<1> QED BY <1>7 DEF held, due

\* Together they are what everybody needs to leave.
LEMMA CoveredCanLeave ==
  ASSUME IInv, LiquidityConserved, VaultInv, RewardsCovered
  PROVE  AllCanLeave
<1>1. \A t \in Tokens : FeeDue[t] = ClaimableFees(t)
  BY DEF FeeDue
<1>2. \A r \in Rewards : RewardDue[r] = ClaimableRewards(r)
  BY DEF RewardDue
<1>3. ASSUME NEW t \in Tokens
      PROVE  vault[t] >= pool.protocolFee[t] + pool.partnerFee[t]
                           + PositionSum(ClaimableFees(t))
                           + ModifyAmount(t, pool.liquidity, "Down")
  BY <1>1, FeesAndLiquidityFit DEF VaultInv
<1>4. ASSUME NEW r \in Rewards
      PROVE  rewardVault[r] >= PositionSum(ClaimableRewards(r))
  <2>1. CoversAccrued(r)
    BY AccrualCovers DEF VaultInv, RewardsCovered
  <2> QED BY <1>2, <2>1, RewardsFit DEF VaultInv
<1> QED BY <1>3, <1>4 DEF AllCanLeave

\* Everybody can leave at once, in whole tokens: the vaults hold the fees of all
\* positions as claim_position_fee rounds them, those of the protocol and of
\* the partner, the whole liquidity as remove_liquidity pays it, and the
\* rewards as claim_reward pays them, together.
THEOREM AllCanLeaveHolds == Spec => []AllCanLeave
BY CoveredCanLeave, AnyFeeCovers, AnyFeeVaultsSolvent, AnyFeeRewardsSolvent,
   AnyFeeLiquidityConserved, PTL

-----------------------------------------------------------------------------
\* And each instruction by itself is there to be sent.  What an owner's
\* withdrawal and claims require of the state they are sent in:
MayRemove(p, delta) ==
  /\ CanRemove
  /\ position[p].open
  /\ delta \in 1..position[p].unlocked
  /\ delta <= pool.liquidity
  /\ \E t \in Tokens : ModifyAmount(t, delta, "Down") > 0
  /\ \A t \in Tokens : ModifyAmount(t, delta, "Down") <= vault[t]

MayClaimFee(p) ==
  /\ position[p].open
  /\ \A t \in Tokens : SettleFees(position[p]).feePending[t] <= vault[t]

\* The owner takes the reward, or gives up one whose vault is frozen.
MayClaimReward(p, r) ==
  LET due == SettleRewards(position[p], AccruedRewards).rewardPending[r]
  IN  /\ reward[r].initialized
      /\ position[p].open
      /\ (IF frozen[r] THEN 0 ELSE due) <= rewardVault[r]

\* These are the guards: beside them the actions only assign.
LEMMA RemoveIsGuarded ==
  ASSUME IInv, NEW p \in Positions, NEW delta \in Nat
  PROVE  RemoveLiquidity(p, delta) <=>
           /\ MayRemove(p, delta)
           /\ reward' = AccruedRewards
           /\ position' = [position EXCEPT
                ![p] = [Settled(p) EXCEPT !.unlocked = @ - delta]]
           /\ pool' = [pool EXCEPT !.liquidity = @ - delta]
           /\ vault' = [t \in Tokens |->
                          vault[t] - ModifyAmount(t, delta, "Down")]
           /\ UNCHANGED <<vestings, rewardVault, frozen, now>>
<1>1. position[p].unlocked \in Nat
  BY DEF IInv, TypeOK, PositionRecord
<1>2. delta \in 1..position[p].unlocked
        <=> delta > 0 /\ delta <= position[p].unlocked
  BY <1>1
<1> QED BY <1>2 DEF RemoveLiquidity, MayRemove

\* The same of the claims of fees
LEMMA ClaimFeeIsGuarded ==
  ASSUME NEW p \in Positions
  PROVE  LET settled == SettleFees(position[p])
         IN  ClaimPositionFee(p) <=>
               /\ MayClaimFee(p)
               /\ position' = [position EXCEPT
                    ![p] = [settled EXCEPT !.feePending = [t \in Tokens |-> 0]]]
               /\ vault' = [t \in Tokens |-> vault[t] - settled.feePending[t]]
               /\ UNCHANGED <<pool, vestings, reward, rewardVault, frozen, now>>
BY DEF ClaimPositionFee, MayClaimFee

\* and of rewards.
LEMMA ClaimRewardIsGuarded ==
  ASSUME NEW p \in Positions, NEW r \in Rewards
  PROVE  LET settled == SettleRewards(position[p], AccruedRewards)
             paid    == IF frozen[r] THEN 0 ELSE settled.rewardPending[r]
         IN  ClaimReward(p, r, TRUE) <=>
               /\ MayClaimReward(p, r)
               /\ reward' = AccruedRewards
               /\ position' = [position EXCEPT
                    ![p] = [settled EXCEPT !.rewardPending[r] = 0]]
               /\ rewardVault' = [rewardVault EXCEPT ![r] = @ - paid]
               /\ UNCHANGED <<pool, vestings, vault, frozen, now>>
BY DEF ClaimReward, MayClaimReward

\* Whatever the others do, the owner of an open position can take any part of
\* the free liquidity that is worth a unit, all the fees and all the rewards.
ExitsOpen ==
  \A p \in Positions : position[p].open =>
    /\ \A delta \in 0..position[p].unlocked :
         (/\ CanRemove
          /\ \E t \in Tokens : ModifyAmount(t, delta, "Down") > 0)
         => MayRemove(p, delta)
    /\ MayClaimFee(p)
    /\ \A r \in Rewards : reward[r].initialized => MayClaimReward(p, r)

\* A part of the liquidity is worth no more than the whole, and nothing is
\* worth nothing.
LEMMA LessIsWorthLess ==
  ASSUME IInv, NEW t \in Tokens, NEW delta \in 0..pool.liquidity
  PROVE  /\ ModifyAmount(t, delta, "Down")
              <= ModifyAmount(t, pool.liquidity, "Down")
         /\ delta = 0 => ModifyAmount(t, delta, "Down") = 0
<1> DEFINE L == pool.liquidity
           P == pool.sqrtPrice
<1>1. /\ P \in Nat \ {0} /\ L \in Nat /\ delta \in Nat /\ delta <= L
      /\ SqrtMinPrice \in Nat /\ SqrtMaxPrice \in Nat \ {0}
      /\ SqrtMinPrice <= P /\ P <= SqrtMaxPrice
      /\ Scale \in Nat \ {0}
  BY PriceAssumption, ScaleAssumption DEF IInv, TypeOK, PriceInRange, PoolRecord
<1>2. ASSUME NEW w \in Nat, NEW d \in Nat \ {0}
      PROVE  /\ DivRound(delta * w, d, "Down") <= DivRound(L * w, d, "Down")
             /\ delta = 0 => DivRound(delta * w, d, "Down") = 0
  <2> HIDE DEF L
  <2>1. delta * w \in Int /\ L * w \in Int /\ delta * w <= L * w
    BY <1>1
  <2>2. (delta * w) \div d <= (L * w) \div d
    BY <2>1, DivMonotone
  <2>3. delta = 0 => (delta * w) \div d = 0
    <3>1. 0 \div d = 0
      OBVIOUS
    <3> QED BY <3>1
  <2> QED BY <2>2, <2>3 DEF DivRound
<1>3. CASE t = "A"
  <2>1. SqrtMaxPrice - P \in Nat /\ P * SqrtMaxPrice \in Nat \ {0}
    BY <1>1, MulPos
  <2> QED BY <1>2, <1>3, <2>1 DEF ModifyAmount, DeltaA
<1>4. CASE t = "B"
  <2>1. P - SqrtMinPrice \in Nat
    BY <1>1
  <2> QED BY <1>1, <1>2, <1>4, <2>1 DEF ModifyAmount, DeltaB
<1> QED BY <1>3, <1>4, TokensAre

\* What one position holds is part of what all hold together.
LEMMA OneOfAll ==
  ASSUME IInv, LiquidityConserved, NEW p \in Positions
  PROVE  position[p].unlocked \in Nat /\ position[p].unlocked <= pool.liquidity
<1>1. \A x \in Positions : /\ position[x].unlocked \in Nat
                           /\ position[x].vested \in Nat
                           /\ position[x].permanent \in Nat
  BY DEF IInv, TypeOK, PositionRecord
<1>2. \A x \in Positions : /\ Liquidity[x] \in Nat
                           /\ position[x].unlocked <= Liquidity[x]
  BY <1>1 DEF Liquidity, TotalLiquidity
<1>3. Liquidity[p] <= PositionSum(Liquidity) /\ PositionSum(Liquidity) \in Nat
  BY <1>2, FiniteAssumption, SumNat DEF PositionSum, Sum
<1> QED BY <1>1, <1>2, <1>3 DEF LiquidityConserved

\* Every vault holds what one owner is owed, since it holds what all are.
LEMMA NobodyIsShort ==
  ASSUME IInv, LiquidityConserved, VaultInv, RewardsCovered, NEW p \in Positions
  PROVE  /\ \A t \in Tokens :
              /\ ModifyAmount(t, pool.liquidity, "Down") <= vault[t]
              /\ SettleFees(position[p]).feePending[t] <= vault[t]
         /\ \A r \in Rewards :
              SettleRewards(position[p], AccruedRewards).rewardPending[r]
                <= rewardVault[r]
<1>1. ASSUME NEW t \in Tokens
      PROVE  /\ ModifyAmount(t, pool.liquidity, "Down") <= vault[t]
             /\ SettleFees(position[p]).feePending[t] <= vault[t]
  <2> DEFINE due == PositionSum(FeeDue[t])
             n == ModifyAmount(t, pool.liquidity, "Down")
  <2>1. vault[t] >= pool.protocolFee[t] + pool.partnerFee[t] + due + n
    BY FeesAndLiquidityFit DEF VaultInv
  <2>2. /\ vault[t] \in Nat /\ pool.protocolFee[t] \in Nat
        /\ pool.partnerFee[t] \in Nat /\ pool.liquidity \in Nat
    BY DEF IInv, TypeOK, PoolRecord
  <2>3. n \in Nat
    BY <2>2, ModifyAmountNat
  <2>4. \A x \in Positions : FeeDue[t][x] \in Nat
    BY FeesNow DEF FeesAre
  <2>5. due \in Nat /\ FeeDue[t][p] <= due
    BY <2>4, FiniteAssumption, SumNat DEF PositionSum, Sum
  <2>6. FeeDue[t][p] = SettleFees(position[p]).feePending[t]
    BY DEF FeeDue, ClaimableFees
  <2> HIDE DEF due, n
  <2>7. n <= vault[t] /\ FeeDue[t][p] <= vault[t]
    BY <2>1, <2>2, <2>3, <2>4, <2>5
  <2> QED BY <2>6, <2>7 DEF n
<1>2. ASSUME NEW r \in Rewards
      PROVE  SettleRewards(position[p], AccruedRewards).rewardPending[r]
               <= rewardVault[r]
  <2> DEFINE due == PositionSum(RewardDue[r])
  <2>1. CoversAccrued(r)
    BY AccrualCovers DEF VaultInv, RewardsCovered
  <2>2. rewardVault[r] >= due /\ rewardVault[r] \in Nat
    BY <2>1, RewardsFit DEF VaultInv, IInv, TypeOK
  <2>3. \A x \in Positions : RewardDue[r][x] \in Nat
    BY RewardsNow DEF RewardsAre, VaultInv
  <2>4. due \in Nat /\ RewardDue[r][p] <= due
    BY <2>3, FiniteAssumption, SumNat DEF PositionSum, Sum
  <2>5. RewardDue[r][p]
          = SettleRewards(position[p], AccruedRewards).rewardPending[r]
    BY DEF RewardDue, ClaimableRewards
  <2> HIDE DEF due
  <2>6. RewardDue[r][p] <= rewardVault[r]
    BY <2>2, <2>3, <2>4
  <2> QED BY <2>5, <2>6
<1> QED BY <1>1, <1>2

\* So every exit is open.
LEMMA CoveredIsOpen ==
  ASSUME IInv, LiquidityConserved, VaultInv, RewardsCovered
  PROVE  ExitsOpen
<1> SUFFICES ASSUME NEW p \in Positions, position[p].open
             PROVE  /\ \A delta \in 0..position[p].unlocked :
                         (/\ CanRemove
                          /\ \E t \in Tokens : ModifyAmount(t, delta, "Down") > 0)
                         => MayRemove(p, delta)
                    /\ MayClaimFee(p)
                    /\ \A r \in Rewards :
                         reward[r].initialized => MayClaimReward(p, r)
  BY DEF ExitsOpen
<1>1. position[p].unlocked \in Nat /\ position[p].unlocked <= pool.liquidity
        /\ pool.liquidity \in Nat
  BY OneOfAll DEF IInv, TypeOK, PoolRecord
<1>2. ASSUME NEW delta \in 0..position[p].unlocked, CanRemove,
             \E t \in Tokens : ModifyAmount(t, delta, "Down") > 0
      PROVE  MayRemove(p, delta)
  <2>1. delta \in 0..pool.liquidity
    BY <1>1
  <2>2. ASSUME NEW t \in Tokens
        PROVE  ModifyAmount(t, delta, "Down") <= vault[t]
    <3>1. /\ ModifyAmount(t, delta, "Down") \in Nat
          /\ ModifyAmount(t, pool.liquidity, "Down") \in Nat
          /\ vault[t] \in Nat
      BY <1>1, <2>1, ModifyAmountNat DEF IInv, TypeOK
    <3>2. ModifyAmount(t, delta, "Down")
            <= ModifyAmount(t, pool.liquidity, "Down")
      BY <2>1, LessIsWorthLess
    <3>3. ModifyAmount(t, pool.liquidity, "Down") <= vault[t]
      BY NobodyIsShort
    <3> QED BY <3>1, <3>2, <3>3
  <2>3. delta # 0
    <3>1. PICK t \in Tokens : ModifyAmount(t, delta, "Down") > 0
      BY <1>2
    <3>2. delta = 0 => ModifyAmount(t, delta, "Down") = 0
      BY <2>1, LessIsWorthLess
    <3> QED BY <3>1, <3>2
  <2>4. delta \in 1..position[p].unlocked /\ delta <= pool.liquidity
    BY <1>1, <2>1, <2>3
  <2> QED BY <1>2, <2>2, <2>4 DEF MayRemove
<1>3. MayClaimFee(p)
  BY NobodyIsShort DEF MayClaimFee
<1>4. ASSUME NEW r \in Rewards, reward[r].initialized
      PROVE  MayClaimReward(p, r)
  <2>1. SettleRewards(position[p], AccruedRewards).rewardPending[r]
          <= rewardVault[r]
    BY NobodyIsShort
  <2>2. 0 <= rewardVault[r]
    BY DEF IInv, TypeOK
  <2> QED BY <1>4, <2>1, <2>2 DEF MayClaimReward
<1> QED BY <1>2, <1>3, <1>4

\* At any time the owner of an open position can remove any part of the free
\* liquidity that is worth a unit (once the pool is active) and claim its fees
\* and its rewards: no vault is short and no checked subtraction of
\* handle_remove_liquidity, handle_claim_position_fee or handle_claim_reward
\* fails, whatever any number of other owners, swaps and operators did before.
THEOREM ExitsOpenHolds == Spec => []ExitsOpen
BY CoveredIsOpen, AnyFeeCovers, AnyFeeVaultsSolvent, AnyFeeRewardsSolvent,
   AnyFeeLiquidityConserved, PTL
================================================================================
