---------------------------- MODULE PoolPositions ----------------------------
(***************************************************************************)
(* How positions accrue fees and rewards, and the instructions that move   *)
(* liquidity: create, add, remove, split, close, lock, permanent lock and  *)
(* refresh vesting.                                                        *)
(***************************************************************************)
EXTENDS PoolState

-----------------------------------------------------------------------------
(* Accrual.  The subtractions `stored - checkpoint` and `Smaller(now, end)   *)
(* - lastUpdate` are safe_sub in the code and would make every instruction *)
(* of the position fail if they went negative; NoUnderflow states that     *)
(* they never do.                                                          *)

\* A wrong version the runs must tell from the right one: the clock of a
\* reward runs past the end of its distribution.
AccrueRewardPastEnd(info) ==
  LET elapsed == Smaller(now, info.end) - info.lastUpdate
  IN  IF ~info.initialized THEN info
      ELSE IF pool.liquidity > 0
        THEN [info EXCEPT
                !.stored = @ + (elapsed * info.rate * LiquidityScale)
                                 \div pool.liquidity,
                !.lastUpdate = now]
        ELSE [info EXCEPT !.emptySeconds = @ + elapsed, !.lastUpdate = now]

\* RewardInfo::update_rewards
AccrueReward(info) ==
  LET elapsed == Smaller(now, info.end) - info.lastUpdate
  IN  IF ~info.initialized THEN info
      ELSE IF pool.liquidity > 0
        THEN [info EXCEPT
                !.stored = @ + (elapsed * info.rate * LiquidityScale)
                                 \div pool.liquidity,
                !.lastUpdate = Smaller(now, info.end)]
        ELSE [info EXCEPT !.emptySeconds = @ + elapsed,
                          !.lastUpdate = Smaller(now, info.end)]

\* Pool::update_rewards
AccruedRewards == [r \in Rewards |-> AccrueReward(reward[r])]

\* A wrong version the runs must tell from the right one: the checkpoint
\* is not moved, so that the same reward accrues again.
SettleRewardsAgain(pos, infos) ==
  [pos EXCEPT
    !.rewardPending = [r \in Rewards |->
       IF infos[r].initialized
         THEN @[r] + (TotalLiquidity(pos)
                        * (infos[r].stored - pos.rewardCheckpoint[r]))
                       \div TotalRewardScale
         ELSE @[r]]]

\* Position::update_position_reward
SettleRewards(pos, infos) ==
  [pos EXCEPT
    !.rewardPending = [r \in Rewards |->
       IF infos[r].initialized
         THEN @[r] + (TotalLiquidity(pos)
                        * (infos[r].stored - pos.rewardCheckpoint[r]))
                       \div TotalRewardScale
         ELSE @[r]],
    !.rewardCheckpoint = [r \in Rewards |->
       IF infos[r].initialized THEN infos[r].stored ELSE @[r]]]

\* A wrong version the runs must tell from the right one: the checkpoint
\* is not moved, so that the same fee accrues again.
SettleFeesAgain(pos) ==
  [pos EXCEPT
    !.feePending = [t \in Tokens |->
       @[t] + (TotalLiquidity(pos)
                 * (pool.feePerLiquidity[t] - pos.feeCheckpoint[t]))
                \div LiquidityScale]]

\* Position::update_fee
SettleFees(pos) ==
  [pos EXCEPT
    !.feePending = [t \in Tokens |->
       @[t] + (TotalLiquidity(pos)
                 * (pool.feePerLiquidity[t] - pos.feeCheckpoint[t]))
                \div LiquidityScale],
    !.feeCheckpoint = pool.feePerLiquidity]

\* A wrong version the runs must tell from the right one: only the fees,
\* or only the rewards, are settled before the liquidity changes.
SettledRewardsOnly(p) == SettleRewards(position[p], AccruedRewards)
SettledFeesOnly(p) == SettleFees(position[p])

\* What add, remove and split do to a position before they change it.
Settled(p) == SettleFees(SettleRewards(position[p], AccruedRewards))

-----------------------------------------------------------------------------
\* handle_create_position
CreatePosition(p) ==
  /\ Enabled
  /\ ~position[p].open
  /\ position' = [position EXCEPT ![p] = NewPosition(0)]
  /\ UNCHANGED <<pool, vestings, reward, vault, rewardVault, frozen, now>>

\* A wrong version the runs must tell from the right one: a position
\* that holds only vested, or only permanently locked, liquidity is closed.
IsEmptyButVested(pos) ==
  /\ pos.unlocked + pos.permanent = 0
  /\ \A t \in Tokens : pos.feePending[t] = 0
  /\ \A r \in Rewards : pos.rewardPending[r] = 0

IsEmptyButPermanent(pos) ==
  /\ pos.unlocked + pos.vested = 0
  /\ \A t \in Tokens : pos.feePending[t] = 0
  /\ \A r \in Rewards : pos.rewardPending[r] = 0

\* handle_close_position: is_empty looks at what the account stores, without
\* settling first.
IsEmpty(pos) ==
  /\ TotalLiquidity(pos) = 0
  /\ \A t \in Tokens : pos.feePending[t] = 0
  /\ \A r \in Rewards : pos.rewardPending[r] = 0

ClosePosition(p) ==
  /\ position[p].open
  /\ IsEmpty(position[p])
  /\ position' = [position EXCEPT ![p] = NoPosition]
  /\ UNCHANGED <<pool, vestings, reward, vault, rewardVault, frozen, now>>

\* A wrong version the runs must tell from the right one: withdrawals
\* are rounded in the owner's favour.
ModifyAmountUp(t, delta, round) ==
  IF t = "A" THEN DeltaA(pool.sqrtPrice, SqrtMaxPrice, delta, "Up")
             ELSE DeltaB(SqrtMinPrice, pool.sqrtPrice, delta, "Up")

\* Pool::get_amounts_for_modify_liquidity
ModifyAmount(t, delta, round) ==
  IF t = "A" THEN DeltaA(pool.sqrtPrice, SqrtMaxPrice, delta, round)
             ELSE DeltaB(SqrtMinPrice, pool.sqrtPrice, delta, round)

\* handle_add_liquidity
AddLiquidity(p, delta) ==
  LET amount == [t \in Tokens |-> ModifyAmount(t, delta, "Up")] IN
  /\ delta > 0
  /\ Enabled
  /\ position[p].open
  /\ \E t \in Tokens : amount[t] > 0
  /\ pool.liquidity + delta <= MaxLiquidity
  /\ \A t \in Tokens : CanDeposit(t, amount[t])
  /\ reward' = AccruedRewards
  /\ position' = [position EXCEPT
                    ![p] = [Settled(p) EXCEPT !.unlocked = @ + delta]]
  /\ pool' = [pool EXCEPT !.liquidity = @ + delta]
  /\ vault' = [t \in Tokens |-> vault[t] + amount[t]]
  /\ UNCHANGED <<vestings, rewardVault, frozen, now>>

\* handle_remove_liquidity and handle_remove_all_liquidity (delta = all)
RemoveLiquidity(p, delta) ==
  LET amount == [t \in Tokens |-> ModifyAmount(t, delta, "Down")] IN
  /\ CanRemove
  /\ position[p].open
  /\ delta > 0
  /\ delta <= position[p].unlocked
  /\ delta <= pool.liquidity
  /\ \E t \in Tokens : amount[t] > 0
  /\ \A t \in Tokens : amount[t] <= vault[t]
  /\ reward' = AccruedRewards
  /\ position' = [position EXCEPT
                    ![p] = [Settled(p) EXCEPT !.unlocked = @ - delta]]
  /\ pool' = [pool EXCEPT !.liquidity = @ - delta]
  /\ vault' = [t \in Tokens |-> vault[t] - amount[t]]
  /\ UNCHANGED <<vestings, rewardVault, frozen, now>>

\* SplitPositionParameters2::validate
Numerators(share) == {share.unlocked, share.permanent}
                       \cup {share.fee[t] : t \in Tokens}
                       \cup {share.reward[r] : r \in Rewards}

ValidShare(share) ==
  /\ Numerators(share) \subseteq 0..SplitDenominator
  /\ Numerators(share) # {0}

\* Position::get_*_by_numerator
Part(n, num) == (n * num) \div SplitDenominator

\* Pool::apply_split_position: what leaves a settled position, by numerators.
\* Rewards that are not initialized are skipped.
Moved(pos, share) ==
  [unlocked  |-> Part(pos.unlocked, share.unlocked),
   permanent |-> Part(pos.permanent, share.permanent),
   fee    |-> [t \in Tokens |-> Part(pos.feePending[t], share.fee[t])],
   reward |-> [r \in Rewards |->
                IF reward[r].initialized
                  THEN Part(pos.rewardPending[r], share.reward[r]) ELSE 0]]

\* handle_split_position2: part of each balance of p moves to q.  `share`
\* gives the numerators; handle_split_position gives them all at once, as a
\* percentage.
SplitPosition(p, q, share) ==
  LET first  == Settled(p)
      second == Settled(q)
      moved  == Moved(first, share)
  IN
  /\ Enabled
  /\ ValidShare(share)
  /\ p # q
  /\ position[p].open
  /\ position[q].open
  /\ position[p].vested = 0
  /\ reward' = AccruedRewards
  /\ position' =
       [position EXCEPT
          ![p] = [first EXCEPT
                    !.unlocked  = @ - moved.unlocked,
                    !.permanent = @ - moved.permanent,
                    !.feePending = [t \in Tokens |-> @[t] - moved.fee[t]],
                    !.rewardPending =
                       [r \in Rewards |-> @[r] - moved.reward[r]]],
          ![q] = [second EXCEPT
                    !.unlocked  = @ + moved.unlocked,
                    !.permanent = @ + moved.permanent,
                    !.feePending = [t \in Tokens |-> @[t] + moved.fee[t]],
                    !.rewardPending =
                       [r \in Rewards |-> @[r] + moved.reward[r]]]]
  /\ UNCHANGED <<pool, vestings, vault, rewardVault, frozen, now>>

-----------------------------------------------------------------------------
\* Vesting::get_total_lock_amount, get_max_unlocked_liquidity and
\* get_new_release_liquidity
TotalLock(v) == v.cliffUnlock + v.perPeriod * v.periods

\* A wrong version the runs must tell from the right one: the first period
\* is unlocked together with the cliff.
MaxUnlockedEarly(v, point) ==
  IF point < v.cliff THEN 0
  ELSE IF v.frequency = 0 THEN v.cliffUnlock
  ELSE v.cliffUnlock
         + Smaller((point - v.cliff) \div v.frequency + 1, v.periods)
             * v.perPeriod

MaxUnlocked(v, point) ==
  IF point < v.cliff THEN 0
  ELSE IF v.frequency = 0 THEN v.cliffUnlock
  ELSE v.cliffUnlock
         + Smaller((point - v.cliff) \div v.frequency, v.periods) * v.perPeriod

NewRelease(v) == MaxUnlocked(v, now) - v.released

\* VestingParameters::validate
ValidSchedule(v) ==
  /\ v.cliff >= now
  /\ v.cliff = now => v.periods > 0
  /\ v.periods > 0 => v.frequency > 0 /\ v.perPeriod > 0
  /\ (v.cliff - now) + v.frequency * v.periods <= MaxVestingDuration
  /\ TotalLock(v) > 0

\* handle_lock_position: no accrual is needed, the total is unchanged.
LockPosition(p, id, schedule) ==
  LET v == [id |-> id, position |-> p, cliff |-> schedule.cliff,
            frequency |-> schedule.frequency,
            cliffUnlock |-> schedule.cliffUnlock,
            perPeriod |-> schedule.perPeriod, periods |-> schedule.periods,
            released |-> 0] IN
  /\ Enabled
  /\ position[p].open
  /\ \A w \in vestings : w.id # id
  /\ ValidSchedule(v)
  /\ TotalLock(v) <= position[p].unlocked
  /\ vestings' = vestings \cup {v}
  /\ position' = [position EXCEPT ![p].unlocked = @ - TotalLock(v),
                                  ![p].vested   = @ + TotalLock(v)]
  /\ UNCHANGED <<pool, reward, vault, rewardVault, frozen, now>>

\* handle_refresh_vesting on one account; anyone may send it, whatever the
\* pool's status.  A call with several accounts is as many of these steps,
\* and one that releases nothing changes nothing.
RefreshVesting(v) ==
  LET n == NewRelease(v)
      w == [v EXCEPT !.released = @ + n] IN
  /\ v \in vestings
  /\ position[v.position].open
  /\ n > 0
  /\ n <= position[v.position].vested
  /\ vestings' = (vestings \ {v})
                   \cup (IF w.released = TotalLock(w) THEN {} ELSE {w})
  /\ position' = [position EXCEPT ![v.position].unlocked = @ + n,
                                  ![v.position].vested   = @ - n]
  /\ UNCHANGED <<pool, reward, vault, rewardVault, frozen, now>>

\* A wrong version the runs must tell from the right one: the balance is
\* not checked; the pool's counter is forgotten.
PermanentLockUnchecked(p, amount) ==
  /\ Enabled
  /\ position[p].open
  /\ position' = [position EXCEPT ![p].unlocked  = @ - amount,
                                  ![p].permanent = @ + amount]
  /\ pool' = [pool EXCEPT !.permanentLock = @ + amount]
  /\ UNCHANGED <<vestings, reward, vault, rewardVault, frozen, now>>

PermanentLockUncounted(p, amount) ==
  /\ Enabled
  /\ position[p].open
  /\ amount <= position[p].unlocked
  /\ position' = [position EXCEPT ![p].unlocked  = @ - amount,
                                  ![p].permanent = @ + amount]
  /\ UNCHANGED <<pool, vestings, reward, vault, rewardVault, frozen, now>>

\* handle_permanent_lock_position
PermanentLock(p, amount) ==
  /\ Enabled
  /\ position[p].open
  /\ amount <= position[p].unlocked
  /\ position' = [position EXCEPT ![p].unlocked  = @ - amount,
                                  ![p].permanent = @ + amount]
  /\ pool' = [pool EXCEPT !.permanentLock = @ + amount]
  /\ UNCHANGED <<vestings, reward, vault, rewardVault, frozen, now>>
=============================================================================
