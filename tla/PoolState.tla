------------------------------ MODULE PoolState ------------------------------
(***************************************************************************)
(* The accounts of one cp-amm pool: the pool itself, its positions, their  *)
(* vesting schedules, its farming rewards and the token vaults.  The       *)
(* records keep the fields of the program's structs that later             *)
(* instructions read; statistics that are only ever written (the metrics   *)
(* of claimed and collected fees) and event payloads are left out.         *)
(*                                                                         *)
(* Every instruction is one atomic step: an instruction that fails changes *)
(* nothing.  Signers are not modelled: a step on a position stands for its *)
(* owner's instruction.  Slippage thresholds are left out too, since they  *)
(* only make an instruction fail.                                          *)
(***************************************************************************)
EXTENDS SwapMath, TransferFee

CONSTANTS
  Positions,            \* identifiers of position accounts
  VestingIds,           \* identifiers of vesting accounts
  Rewards,              \* reward indices (NUM_REWARDS = 2 in the code)
  LiquidityScale,       \* 2^LIQUIDITY_SCALE
  RewardRateScale,      \* 2^REWARD_RATE_SCALE
  SplitDenominator,     \* SPLIT_POSITION_DENOMINATOR
  MaxVestingDuration,   \* MAX_VESTING_{SLOT,TIME}_DURATION
  ActivationPoint,      \* pool.activation_point
  ActivationBuffer,     \* SLOT_BUFFER or TIME_BUFFER
  HasWhitelistedVault,  \* whether pool.whitelisted_vault can sign
  MaxLiquidity,         \* u128::MAX: more makes safe_add fail
  MaxFeePerLiquidity,   \* U256::MAX: more makes safe_add fail
  ZappableTokens,       \* those not in MINTS_DISALLOWED_TO_ZAP_OUT
  MaxTime,              \* bound on the clock
  TokenSupply,          \* what exists of each token, and what users can pay
  RewardSupply          \* the same for each reward token

ASSUME PoolAssumption ==
  /\ Tokens = {"A", "B"}
  /\ LiquidityScale \in Nat \ {0}
  /\ RewardRateScale \in Nat \ {0}
  /\ SplitDenominator \in Nat \ {0}
  /\ MaxVestingDuration \in Nat
  /\ ActivationPoint \in Nat
  /\ ActivationBuffer \in Nat
  /\ HasWhitelistedVault \in BOOLEAN
  /\ MaxLiquidity \in Nat
  /\ MaxFeePerLiquidity \in Nat
  /\ MaxTime \in Nat
  /\ ZappableTokens \subseteq Tokens
  /\ TokenSupply \in [Tokens -> Nat]
  /\ RewardSupply \in [Rewards -> Nat]

VARIABLES
  pool,          \* struct Pool
  position,      \* struct Position, by account
  vestings,      \* the open vesting accounts (struct Vesting)
  reward,        \* struct RewardInfo, by index
  vault,         \* balance of the token A and token B vaults
  rewardVault,   \* balance of the reward vaults
  frozen,        \* whether a reward vault is frozen by its mint's authority
  now            \* Clock: current_point and unix_timestamp

vars == <<pool, position, vestings, reward, vault, rewardVault, frozen, now>>

TotalRewardScale == LiquidityScale * RewardRateScale    \* TOTAL_REWARD_SCALE

PoolRecord ==
  [liquidity       : Nat,
   sqrtPrice       : Nat,
   permanentLock   : Nat,              \* permanent_lock_liquidity
   feePerLiquidity : [Tokens -> Nat],  \* fee_{a,b}_per_liquidity
   protocolFee     : [Tokens -> Nat],
   partnerFee      : [Tokens -> Nat],
   enabled         : BOOLEAN]          \* pool_status

PositionRecord ==
  [open          : BOOLEAN,            \* the account exists
   unlocked      : Nat,
   vested        : Nat,
   permanent     : Nat,
   feePending    : [Tokens -> Nat],
   feeCheckpoint : [Tokens -> Nat],
   rewardPending    : [Rewards -> Nat],
   rewardCheckpoint : [Rewards -> Nat]]

VestingRecord ==
  [id          : VestingIds,
   position    : Positions,
   cliff       : Nat,                  \* cliff_point
   frequency   : Nat,                  \* period_frequency
   cliffUnlock : Nat,                  \* cliff_unlock_liquidity
   perPeriod   : Nat,                  \* liquidity_per_period
   periods     : Nat,                  \* number_of_period
   released    : Nat]                  \* total_released_liquidity

RewardRecord ==
  [initialized  : BOOLEAN,
   duration     : Nat,                 \* reward_duration
   end          : Nat,                 \* reward_duration_end
   rate         : Nat,                 \* reward_rate
   stored       : Nat,                 \* reward_per_token_stored
   lastUpdate   : Nat,                 \* last_update_time
   emptySeconds : Nat]  \* cumulative_seconds_with_empty_liquidity_reward

\* A freshly created account is zeroed: in particular its checkpoints are 0,
\* however large the pool's accumulators already are.
NoPosition ==
  [open |-> FALSE, unlocked |-> 0, vested |-> 0, permanent |-> 0,
   feePending    |-> [t \in Tokens |-> 0],
   feeCheckpoint |-> [t \in Tokens |-> 0],
   rewardPending    |-> [r \in Rewards |-> 0],
   rewardCheckpoint |-> [r \in Rewards |-> 0]]

\* Position::initialize
NewPosition(liquidity) ==
  [NoPosition EXCEPT !.open = TRUE, !.unlocked = liquidity]

NoReward ==
  [initialized |-> FALSE, duration |-> 0, end |-> 0, rate |-> 0,
   stored |-> 0, lastUpdate |-> 0, emptySeconds |-> 0]

\* Position::get_total_liquidity
TotalLiquidity(pos) == pos.unlocked + pos.vested + pos.permanent

\* PermissionlessActionAccess: adding, creating, locking, splitting.
Enabled == pool.enabled

\* can_remove_liquidity does not look at the pool's status.
CanRemove == now >= ActivationPoint

\* can_swap: a whitelisted vault may trade a little before activation.
CanSwap(whitelisted) ==
  /\ pool.enabled
  /\ now >= IF whitelisted THEN Larger(ActivationPoint - ActivationBuffer, 0)
                           ELSE ActivationPoint

\* transfer_from_user of what makes `amount` arrive in the vault.
CanDeposit(t, amount) ==
  /\ IncludedIsExact(t, amount)
  /\ vault[t] + IncludedAmount(t, amount) <= TokenSupply[t]

-----------------------------------------------------------------------------
\* handle_initialize_pool and its two variants: all of the liquidity goes to
\* the creator's position and the amounts are rounded up.  A customizable
\* pool takes at least one unit of each token.
InitVault(t, amount, customizable) ==
  IF customizable /\ amount = 0 THEN ExcludedAmount(t, 1) ELSE amount

InitialPool(liquidity, price) ==
  [liquidity |-> liquidity, sqrtPrice |-> price, permanentLock |-> 0,
   feePerLiquidity |-> [t \in Tokens |-> 0],
   protocolFee |-> [t \in Tokens |-> 0],
   partnerFee  |-> [t \in Tokens |-> 0],
   enabled |-> TRUE]

InitializePool(p, liquidity, price, customizable) ==
  LET a == DeltaA(price, SqrtMaxPrice, liquidity, "Up")
      b == DeltaB(SqrtMinPrice, price, liquidity, "Up")
  IN  /\ liquidity > 0
      /\ price \in SqrtMinPrice..SqrtMaxPrice
      /\ a > 0 \/ b > 0
      /\ IncludedIsExact("A", a)
      /\ IncludedIsExact("B", b)
      /\ pool = InitialPool(liquidity, price)
      /\ position = [q \in Positions |->
                       IF q = p THEN NewPosition(liquidity) ELSE NoPosition]
      /\ vault = [t \in Tokens |->
                    InitVault(t, IF t = "A" THEN a ELSE b, customizable)]

\* The state once a pool exists, before any other instruction touched it.
InitialState(liquidities, prices) ==
  /\ \E p \in Positions, L \in liquidities, price \in prices,
        customizable \in BOOLEAN : InitializePool(p, L, price, customizable)
  /\ vestings = {}
  /\ reward = [r \in Rewards |-> NoReward]
  /\ rewardVault = [r \in Rewards |-> 0]
  /\ frozen = [r \in Rewards |-> FALSE]
  /\ now = 0
=============================================================================
