----------------------------- MODULE PoolRewards -----------------------------
(***************************************************************************)
(* The farming rewards of a pool: initialize, fund, change the duration,   *)
(* claim, and withdraw what was distributed to nobody.                     *)
(***************************************************************************)
EXTENDS PoolPositions

\* handle_initialize_reward and RewardInfo::init_reward: the end of the
\* distribution and the last update stay 0.
InitializeReward(r, duration) ==
  /\ ~reward[r].initialized
  /\ reward' = [reward EXCEPT ![r].initialized = TRUE,
                              ![r].duration = duration]
  /\ UNCHANGED <<pool, position, vestings, vault, rewardVault, frozen, now>>

\* handle_update_reward_duration: only between two distributions.
UpdateRewardDuration(r, duration) ==
  /\ reward[r].initialized
  /\ duration # reward[r].duration
  /\ reward[r].end < now
  /\ reward' = [reward EXCEPT ![r].duration = duration]
  /\ UNCHANGED <<pool, position, vestings, vault, rewardVault, frozen, now>>

\* What was distributed while the pool was empty, at the current rate
\* (Pool::claim_ineligible_reward, and the carry of handle_fund_reward).
Ineligible(info) == (info.rate * info.emptySeconds) \div RewardRateScale

\* A wrong version the runs must tell from the right one: the whole of
\* the distribution under way is counted as left over.
RefundedWhole(info, amount) ==
  LET leftover == IF now >= info.end THEN 0
                  ELSE (info.rate * info.duration) \div RewardRateScale
  IN  [info EXCEPT
         !.rate = ((amount + leftover) * RewardRateScale) \div info.duration,
         !.lastUpdate = now,
         !.end = now + info.duration]

\* RewardInfo::update_rate_after_funding: what is left of a distribution
\* under way is spread again over a full duration.
Refunded(info, amount) ==
  LET leftover == IF now >= info.end THEN 0
                  ELSE (info.rate * (info.end - now)) \div RewardRateScale
  IN  [info EXCEPT
         !.rate = ((amount + leftover) * RewardRateScale) \div info.duration,
         !.lastUpdate = now,
         !.end = now + info.duration]

\* handle_fund_reward
FundReward(r, amount, carryForward) ==
  LET info  == AccruedRewards[r]
      carry == IF carryForward THEN Ineligible(info) ELSE 0
  IN
  /\ reward[r].initialized
  /\ ~frozen[r]                          \* the transfer would fail
  /\ amount > 0
  /\ ~carryForward => info.emptySeconds = 0
  /\ rewardVault[r] + amount <= RewardSupply[r]
  /\ reward' = [AccruedRewards EXCEPT
        ![r] = Refunded([info EXCEPT !.emptySeconds = 0], amount + carry)]
  /\ rewardVault' = [rewardVault EXCEPT ![r] = @ + amount]
  /\ UNCHANGED <<pool, position, vestings, vault, frozen, now>>

\* handle_withdraw_ineligible_reward, once the distribution is over
WithdrawIneligibleReward(r) ==
  LET info == AccruedRewards[r] IN
  /\ reward[r].initialized
  /\ now > reward[r].end
  /\ Ineligible(info) <= rewardVault[r]
  /\ Ineligible(info) > 0 => ~frozen[r]
  /\ reward' = [AccruedRewards EXCEPT ![r].emptySeconds = 0]
  /\ rewardVault' = [rewardVault EXCEPT ![r] = @ - Ineligible(info)]
  /\ UNCHANGED <<pool, position, vestings, vault, frozen, now>>

\* handle_claim_reward: with a frozen vault the owner may give the reward up.
ClaimReward(p, r, skip) ==
  LET settled == SettleRewards(position[p], AccruedRewards)
      due     == settled.rewardPending[r]
      paid    == IF frozen[r] THEN 0 ELSE due
  IN
  /\ reward[r].initialized
  /\ position[p].open
  /\ due > 0 /\ frozen[r] => skip
  /\ paid <= rewardVault[r]
  /\ reward' = AccruedRewards
  /\ position' = [position EXCEPT
        ![p] = [settled EXCEPT !.rewardPending[r] = 0]]
  /\ rewardVault' = [rewardVault EXCEPT ![r] = @ - paid]
  /\ UNCHANGED <<pool, vestings, vault, frozen, now>>

\* The freeze authority of a reward mint is outside the program.
ToggleFreeze(r) ==
  /\ frozen' = [frozen EXCEPT ![r] = ~@]
  /\ UNCHANGED <<pool, position, vestings, reward, vault, rewardVault, now>>
=============================================================================
