---------------------------- MODULE PoolAccounting ----------------------------
(***************************************************************************)
(* What makes the pool's books correct: liquidity, locks, fees and rewards *)
(* add up, the vaults cover every claim, and whoever is owed something can *)
(* take it.  The sums range over all positions, so these properties only   *)
(* show in sequences of instructions sent by several owners.               *)
(***************************************************************************)
EXTENDS CpAmm, FiniteSetsExt

\* Accounts are created one at a time: there are finitely many.
ASSUME FiniteAssumption == IsFiniteSet(Positions)

PositionSum(f) == SumFunctionOnSet(f, Positions)

Liquidity == [p \in Positions |-> TotalLiquidity(position[p])]

\* The liquidity the pool trades with (Pool.liquidity) is that of its
\* positions: apply_add_liquidity and apply_remove_liquidity are paired with
\* the position's own change, and no other instruction creates or destroys
\* any.
LiquidityConserved == pool.liquidity = PositionSum(Liquidity)

PermanentLiquidity == [p \in Positions |-> position[p].permanent]
VestingsOf(p)      == {v \in vestings : v.position = p}
Outstanding        == [v \in vestings |-> TotalLock(v) - v.released]

\* What a position holds as vested is what its open vesting accounts have
\* still to release, and Pool.permanent_lock_liquidity is the sum of the
\* permanent locks, wherever splits have moved them.
LocksBacked ==
  /\ \A p \in Positions :
       position[p].vested = SumFunctionOnSet(Outstanding, VestingsOf(p))
  /\ pool.permanentLock = PositionSum(PermanentLiquidity)

-----------------------------------------------------------------------------
\* What each position could claim now, were it settled first.
ClaimableFees(t) ==
  [p \in Positions |-> SettleFees(position[p]).feePending[t]]

ClaimableRewards(r) ==
  [p \in Positions |->
     SettleRewards(position[p], AccruedRewards).rewardPending[r]]

\* A position's part of the fees in units of 1/LiquidityScale, and of a
\* reward in units of 1/TotalRewardScale, before rounding.
FeeShare(pos, t) ==
  pos.feePending[t] * LiquidityScale
    + TotalLiquidity(pos) * (pool.feePerLiquidity[t] - pos.feeCheckpoint[t])

RewardShare(pos, r, stored) ==
  pos.rewardPending[r] * TotalRewardScale
    + TotalLiquidity(pos) * (stored - pos.rewardCheckpoint[r])

FeeShares(t) == [p \in Positions |-> FeeShare(position[p], t)]

RewardShares(r) ==
  [p \in Positions |-> RewardShare(position[p], r, reward[r].stored)]

\* Claims on the vault of t in units of 1/LiquidityScale: protocol, partner
\* and, before rounding, every position.
FeeClaims(t) ==
  (pool.protocolFee[t] + pool.partnerFee[t]) * LiquidityScale
    + PositionSum(FeeShares(t))

\* Each vault holds the fees it owes plus what the whole liquidity is worth
\* at the current price (L*(pmax-p)/(p*pmax) of A, L*(p-pmin)/Scale of B),
\* without any rounding.  Every rounding direction of curve.rs, fee.rs and
\* token.rs, the order of the transfers of a swap and the settling before a
\* change of liquidity bear on it.
VaultASolvent ==
  LET P == pool.sqrtPrice
  IN  (vault["A"] * LiquidityScale - FeeClaims("A")) * P * SqrtMaxPrice
        >= LiquidityScale * pool.liquidity * (SqrtMaxPrice - P)

VaultBSolvent ==
  (vault["B"] * LiquidityScale - FeeClaims("B")) * Scale
    >= LiquidityScale * pool.liquidity * (pool.sqrtPrice - SqrtMinPrice)

\* Each reward vault holds what positions have accrued, what the distribution
\* under way still has to pay and what it paid to nobody (ineligible).
RewardVaultSolvent ==
  \A r \in Rewards :
    rewardVault[r] * TotalRewardScale
      >= PositionSum(RewardShares(r))
           + reward[r].rate * LiquidityScale
               * ((reward[r].end - reward[r].lastUpdate)
                    + reward[r].emptySeconds)

\* So everybody can leave at once, in whole tokens: the fees of all the
\* positions as the program rounds them, the protocol's, the partner's and the
\* whole liquidity as remove_liquidity pays it are in the vaults together, and
\* so are the rewards accrued up to now.
AllCanLeave ==
  /\ \A t \in Tokens :
       vault[t] >= pool.protocolFee[t] + pool.partnerFee[t]
                     + PositionSum(ClaimableFees(t))
                     + ModifyAmount(t, pool.liquidity, "Down")
  /\ \A r \in Rewards : rewardVault[r] >= PositionSum(ClaimableRewards(r))

\* Whoever is owed something gets it: at any time after activation the owner
\* of a position can withdraw all of its free liquidity (unless it is worth
\* nothing) and claim its fees and rewards, the protocol and the partner can
\* claim theirs; no vault is short and no checked subtraction fails.
ExitAlwaysPossible ==
  /\ \A p \in Positions :
        position[p].open =>
          /\ (/\ CanRemove
              /\ \E t \in Tokens :
                   ModifyAmount(t, position[p].unlocked, "Down") > 0)
               => ENABLED RemoveLiquidity(p, position[p].unlocked)
          /\ ENABLED ClaimPositionFee(p)
          /\ \A r \in Rewards : reward[r].initialized =>
               ENABLED ClaimReward(p, r, TRUE)
  /\ \A t \in Tokens : vault[t] >= pool.protocolFee[t] + pool.partnerFee[t]
  /\ NoUnderflow

-----------------------------------------------------------------------------
\* Without new fees (the accumulator of t stands still) the claims of all the
\* positions together never grow, and shrink only by what leaves the vault:
\* adding, removing, locking, splitting, creating or closing positions neither
\* mints fees (a newcomer's checkpoint starts at 0, below the accumulator) nor
\* forfeits any.
FeesConserved ==
  [][\A t \in Tokens :
       LET Was == PositionSum(ClaimableFees(t))
           Is  == PositionSum(ClaimableFees(t)')
       IN  pool'.feePerLiquidity[t] = pool.feePerLiquidity[t] =>
             \/ Is = Was
             \/ Is < Was /\ Was - Is = vault[t] - vault'[t]]_vars

\* The same for rewards while the clock stands still, across funding, changes
\* of duration and withdrawals too; a frozen vault is the one case where a
\* reward is given up, by the owner's own choice.
RewardsConserved ==
  [][now' = now => \A r \in Rewards :
       LET Was == PositionSum(ClaimableRewards(r))
           Is  == PositionSum(ClaimableRewards(r)')
       IN  \/ Is = Was
           \/ /\ Is < Was
              /\ \/ frozen[r]
                 \/ Was - Is = rewardVault[r] - rewardVault'[r]]_vars
=============================================================================
