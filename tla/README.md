# A TLA+ development of the cp-amm program

`cp-amm` is a Solana program: a constant-product AMM with a price range,
positions, vesting and permanent locks, two farming rewards per pool, and
several fee schedules. This directory holds TLA+ modules translated from the
program's source (`src/programs/cp-amm/src/`, written `P/` below), TLC
configurations that check them on small instances, and proofs for every value of
the constants that TLAPS checks.

    tlc -workers 2 -config Swap.cfg MCCpAmm     # one run (Quotes.cfg: module SwapQuotes)
    tlapm CpAmmProofs.tla                       # one of the eight modules of proofs (section 4)

## 1. The system

The program keeps everything in accounts. An instruction names the accounts it
uses; Solana executes the instructions that write one pool one after the other,
and an instruction that fails leaves every account as it was. So there are no
interleavings inside an instruction. What is hard is the *order* of instructions
sent by people who do not know of each other, with rounding in every one of
them, checkpoints that are read long after they were written, clocks that run
past the end of a schedule, and checked arithmetic that turns a bookkeeping
mistake into an account nobody can use any more.

| Component | State | Operations | What makes it correct |
| --- | --- | --- | --- |
| Pool creation (`P/instructions/initialize_pool/`) | Pool, first position, vaults | three `initialize_pool` variants | the vaults cover the first position |
| Liquidity and positions (`P/state/position.rs`, `P/state/pool.rs`) | liquidity by class, pending fees and rewards, checkpoints | create, add, remove, split, close | liquidity is conserved; nobody gains or loses fees when it moves; the owner can leave |
| Vesting and locks (`P/state/vesting.rs`, `ix_lock_position`, `ix_refresh_vesting`, `ix_permanent_lock_position`) | schedules, released amounts, the pool's counter of permanent locks | lock, refresh, permanent lock | nothing is released early or twice; what is locked for ever stays locked |
| Swap (`P/instructions/swap/`) | price, fee accumulators, vaults | exact-in, partial fill, exact-out | the vaults stay solvent, the price in range, the modes consistent |
| Curve (`P/curve.rs`, `P/math/`) | none | amounts between prices, next prices | rounding favours the pool |
| Trading-fee arithmetic (`P/state/fee.rs`) | none | fee on an amount, its inverse, the split | the parts add up; the inverse covers the fee |
| Transfer fees (`P/utils/token.rs`) | none | excluded and included amounts | what is credited is what arrives |
| Farming rewards (`P/instructions/*reward*`, `P/instructions/operator/`) | rate, end, accumulator, last update, empty seconds | initialize, fund, change duration, claim, withdraw ineligible | the reward vault covers what was promised; clocks never run backwards |
| Fee claims | protocol and partner fees, pending fees | claim by position, protocol, partner | what is claimed was earned, and is there |
| Access (`P/pool_action_access/`, `P/utils/activation_handler.rs`) | status, activation point | set status | withdrawals and claims do not depend on the status |
| Dynamic fee (`P/state/fee.rs`) | volatility accumulator and references | update before and after a swap | the fee is capped; old volatility decays |
| Base fees (`P/base_fee/`) | schedule parameters | time scheduler, market-cap scheduler, rate limiter and its inverse | fees within bounds and monotone; the inverse agrees with the forward direction |
| Single-swap rule (`P/instructions/swap/ix_p_swap.rs`) | the transaction and its call stack | validation | one rate-limited swap per transaction and pool |
| Pool fee updates (`P/instructions/operator/ix_update_pool_fees.rs`) | base and dynamic fee of a live pool | update | no half-updated fee state |
| Zap of protocol fees (`P/instructions/operator/zap_protocol_fee/`) | protocol fees, and the next instruction of the transaction | zap | the whole fee reaches the treasury |
| Configs, operators, token badges, reward funder | accounts created and closed once | create, close, update | permission checks |
| Entry point, events, rust SDK | none | dispatch, logging, off-chain quotes | — |

**How the parts meet.** A position owns liquidity; the pool holds the sum, the
price and one accumulator "fees per unit of liquidity" per token. A swap moves the
price and raises an accumulator; a position later *settles*: its liquidity times
the growth since its own checkpoint becomes pending. Rewards do the same with an
accumulator driven by the clock, and the seconds in which the pool was empty are
counted apart. Every instruction that changes a position's liquidity must settle
both first. A vesting account names a position and moves its liquidity from
vested back to free. The two token vaults are shared by all: the amounts behind
liquidity, all pending fees, and those of protocol and partner, with nothing in
the program that says whose unit is whose. The same holds for a reward vault.

**Where it is hard.** `PROJECT.json` lists the hazards at their lines. In short:
stale checkpoints when liquidity moves; rounding that must favour the vault in
every step and in both directions; price steps that check one side of the range
only (and none in a partial fill) and rely on arithmetic for the other; reward
funding in mid-distribution and after empty seconds; refreshes of a schedule by
anyone at any moment; disabled pools, frozen reward vaults and ceilings that
must not trap anybody; fees whose references are read by one swap and written by
another, while an operator may replace them in between; a fee with a closed form
and a separate closed form for its inverse; and two rules that look at the
*transaction* an instruction is part of.

## 2. The modules

    Arith ── CurveMath ── FeeMath ── RateLimiter ── TradingFee ─┬─ SwapMath ─┬─ SwapQuotes
                                                                │            └─ PoolState (with TransferFee)
                                                                └─ BaseFees ─┬─ DynamicFee
                                                                             ├─ LimiterQuotes
                                                                             └─ ScheduleQuotes
    PoolState ── PoolPositions ─┬─ PoolSwap ───┐
                                └─ PoolRewards ┴─ CpAmm ─┬─ PoolAccounting ─┬─ MCCpAmm
                                                         ├─ PoolLedger ─────┘
                                                         │  (INSTANCE LiquidityLedger)
                                                         └─ FeeEngine (with DynamicFee) ── MCFeeEngine
    SwapTransaction        ZapTransaction

- **`Arith`**, **`CurveMath`**: rounded divisions, the amounts of each token
  between two prices and the four next-price functions of `curve.rs`, each with
  the rounding direction of the code.
- **`FeeMath`**, **`TransferFee`**: the fee on an amount, the amount that includes
  a fee, `split_fees`; the token program's transfer fee with its cap, its inverse,
  and the program's verification of that inverse. The transfer-fee *formula*
  belongs to the token program and is marked external.
- **`RateLimiter`**, **`TradingFee`**: the rate limiter's fee as a function of the
  amount, its inverse, and the numerator a swap pays: base fee plus variable fee
  under the cap. A *trade fee* is what a swap finds in its pool: whether the limiter
  applies, its parameters, and the variable fee.
- **`SwapMath`**: `ExactIn`, `PartialIn` and `ExactOut`. Each is the *set* of
  results: empty where the code returns an error, otherwise a singleton.
- **`BaseFees`**: the time and market-cap schedules with the fixed-point power of
  `fee_math.rs`, the limiter's window, the three `validate` functions and the test that a fee is
  static. **`DynamicFee`**: `DynamicFeeStruct` and what an operator may do to it.
- **`PoolState`**: the records of the accounts, the access guards and the initial
  states, which are those an `initialize_pool` instruction leaves. The program's
  zeroed accounts are `NoPosition` and `NoReward`.
- **`PoolPositions`**: accrual (`AccrueReward`, `SettleRewards`, `SettleFees`) and
  the instructions on liquidity and locks, one action each, with their accruals
  inside.
- **`PoolSwap`**: a swap with its transfers and the application of its result,
  the three fee claims and the pool's side of a zap. **`PoolRewards`**: the farming
  instructions.
- **`CpAmm`**: all of them with the clock and `set_pool_status`. Its swaps pay any
  trade fee of a set (`Spec`) or any at all (`AnyFeeSpec`).
- **`FeeEngine`**: the same pool with the fees it really charges. A swap (`FeeSwap`)
  updates the references of the dynamic fee, computes the one trade fee that the
  base fee, the clock, the price and the accumulator make, swaps, and updates the
  accumulator from the new price; `UpdatePoolFees` is the operator.
- **`PoolAccounting`**: the properties that sum over positions, and what follows
  from them for those who want to leave.
- **`LiquidityLedger`**: the abstract specification. A pool promises that
  liquidity belongs to one holder, is free, vested or locked for ever, that only
  free liquidity is burnt and locked liquidity only changes hands. It knows no
  price, fee, token or time. **`PoolLedger`** maps a position's three balances to
  the ledger's.
- **`SwapTransaction`**: the instructions of a transaction, the calls they make and
  `validate_single_swap_instruction`. How calls nest, that a callee reaches only
  the pools its caller was given, and what the runtime shows of them is external.
- **`ZapTransaction`**: an operator's transaction around `zap_protocol_fee`. The zap
  program itself is external, taken from the checks and comments on it.
- **`SwapQuotes`**, **`LimiterQuotes`**, **`ScheduleQuotes`**: the pure parts over
  all small inputs. **`MCCpAmm`**, **`MCFeeEngine`**: the instances of the pool.
- **`ArithLemmas`**, **`BaseFeeLemmas`** and the six modules named `...Proofs`: section 4.

An action's guard is the code's conditions and early errors; several actions of
one instruction family differ only where the handlers do. A few modules contain
wrong variants of an operator (`FeeGrowthUp`, `SettleFeesAgain`, ...), each next to
the right one: with it in place, the property named for it in `PROJECT.json` fails, which shows
that the property depends on that code.

### What is simplified

- One clock `now` stands for the slot and the timestamp: a pool uses one of them
  for activation, locks always the pool's, rewards always the timestamp.
- Signers, slippage thresholds, metrics and events are left out. The first two
  only make an instruction fail; nothing reads the others.
- In `CpAmm` the trade fee is an input of a swap. `FeeEngine` computes it, and the
  theorem `FeesRefinePool` says that this is one of the behaviours of `AnyFeeSpec`.
- A base fee is a record with the fields of all modes. A rate limiter that is all
  zero, which `is_zero_rate_limiter` provides for, does not pass `validate` (its
  cliff fee must be positive and at most `max_fee_bps`), so no pool has one.
- Account layouts (`base_fee_serde.rs`) are left out; so is the price at which a
  payload of the zap program swaps. The two payload formats are the field `placed`:
  whether the amount lands where the swap reads it. Transfer fees are ignored there.
- A refresh of several vesting accounts is a sequence of one-account steps.
- `update_rewards` handles each reward slot separately and so does the model; the
  code has two slots, `Rewards` any number, the runs one.
- Integers are unbounded and `Scale`, `LiquidityScale`, `RewardRateScale` stand for
  powers of two. Widths appear as two ceilings, `MaxLiquidity` and
  `MaxFeePerLiquidity`, past which the program's checked addition fails;
  `TokenSupply` and `RewardSupply` bound what users can send. Widths of
  intermediate products are not modelled.

## 3. The runs

| Run | Instance | Distinct states | Shows |
| --- | --- | --- | --- |
| `Liquidity` | two owners, two vesting accounts, two schedules (cliff then periods; periods only), shares that split free, permanent or both, clock to 4, pool switched on and off, activation at 1 | 123 000 | `LiquidityConserved`, `LocksBacked`, `SchedulesSound`, `LockedUntilSchedule`, `ExitAlwaysPossible`, and `LedgerRefined`: every instruction is a step of the ledger |
| `Swap` | one owner, all modes, both directions, referral and partner, fees in both tokens, early trades of the whitelisted vault, fees of 50 % claimed or zapped in between, a pool opened at the lower edge that trades up to the upper one and back | 45 000 | vaults cover every claim *without rounding*; price in range |
| `SwapOnlyB` | fees in token B only, flat or rate-limited, transfer fees with a cap on both tokens, partial claims, a pool opened at the upper edge or in the middle | 78 000 | the same, and that owners can leave, one by one and all at once (`AllCanLeave`) |
| `Fees` | two owners that come, go and split between swaps | 26 000 | `FeesConserved`: only swaps create claims on fees |
| `Rewards` | two owners, one reward, two durations, funding with and without carry, an empty pool, freezing | 89 000 | the reward vault covers every promise; no clock underflow; `AllCanLeave`; `RewardsConserved` |
| `Quotes` | every price of a range, five liquidities, fifteen amounts, three flat and eight rate-limited fees, both directions | 41 250 | the three modes agree with each other; no round trip and no cut of a trade in two gains; `PartialFillFair` |
| `Limiter` | every validated limiter of four cliffs, four increments, four maxima and five references, twenty amounts | 6 000 | the closed form is the sum over the bands, up to rounding; the inverse finds a fee for every amount and agrees with the forward direction |
| `Schedules` | every validated schedule of both kinds, linear and exponential, up to five periods, and limiters, their fields from the sets of the configuration; points from before activation to past the end; prices that jump anywhere | 63 000 | the fee can always be computed, within the validated bounds; it never rises for those who wait; static means static; an exponential schedule decays geometrically |
| `Engine` | a time schedule, an exponential market-cap schedule and a limiter, each with and without a dynamic fee, updates of both by the operator, early trades of the vault | 83 000 | the volatility state is bounded, in step with the price and forgotten after a quiet time; every swap finds a fee; updates only to settled fees; `FeeSettles` |
| `Transaction` | two top-level instructions, calls four deep, two pools, a listed and an unlisted caller, three swaps | 2 090 000 | no rate-limited purchase is cut in two |
| `Zap` | three units of fees, two of the operator's own, four instructions of claims, zaps and transfers with every parameter | 63 000 | the fees end with the treasury |
| `Overcharge` | rate-limited fees of `Quotes` | — | *violated*: see below |

**The bounds.** Interesting cases need *sequences*, not large numbers: a position
settled between two swaps, a refresh between two locks, a second funding before
the first has ended, an empty pool during a distribution, an update of the fees
between two swaps of the same second. Each run therefore keeps
every instruction that touches its question and drops the others (a run about
rewards has no swaps, since neither reads what the other writes). Amounts are so
small that every division rounds: in the swap runs liquidity is no
multiple of either scale, a trade moves the price by a few units out of the 14 of the range, and fees
are so large that the LP, protocol, partner and referral parts are all positive and all rounded. `MaxTime` is one to two beyond the last date a
schedule or distribution of the run can have, except where a long schedule simply
stays open. `MaxLiquidity` is reached, so adding fails there and leaving does not. `MaxFeePerLiquidity`
bounds the number of swaps: the runs stop trading at the ceiling, while
every other instruction stays possible. Positions and vesting identifiers are symmetric in the runs that declare it (no
property of these runs is a liveness property, and none names one of them). In `Limiter`, references and
increments include those that do not divide the range of the fee, so that the last band is cut short.
In `Transaction`, four levels are two more than the rule lets through. `Transaction` and `Zap` switch
the deadlock check off because a transaction really ends.

**The finding.** A partial fill that stops at the edge of the range computes what it
charges back from what it used, through the limiter's inverse, whose rounding may
exceed what was offered; `swap_partial_fill.rs` does not compare the two.
`OfferNotExceeded` states what `ix_swap.rs` and the tests say of `amount_0`,
and `Overcharge` shows it violated: at price 11 with liquidity 60, a purchase that
offers 8 is charged more. `PartialFillFair`, in `Quotes`, says how much more: nothing
without a limiter, and with one `(in - amount) * (D - max) <= 2 * in + 6 * D` (`D` is
`FeeDenominator`), a few units and two per `FeeDenominator` charged, each weighing what it
costs where every further unit pays the highest fee. It also says that the fee on the charge is that of an
exact-in purchase, up to the error of the inverse. The last two are claimed where no variable fee
is on top: the program inverts the limiter first and adds the variable fee to the numerator it finds.
`ModesAgree` and `NoSplitGain` are claimed for flat fees only: a limiter makes
cutting a purchase pay, which is what the single-swap rule is for.

**The bounds of the numeric properties** are those that hold for every value of the
constants, with the sources of their error. `InverseAgrees`: an exact-in purchase of the total that the
inverse finds may pay two units and one per `FeeDenominator` units more than was
charged, and seven and two per `FeeDenominator` less: the fee is rounded up to where
the quadratic leads, two numerators are rounded up, and where a band is short few units leave anything.
`DecayIsGeometric`: the fixed-point power is off by at most one unit of its scale a period, in both directions.
Nothing keeps it below the exact one, because the reduction is truncated *before* it is
taken from one. With the code's scale of 2^64 that is below a unit of the fee by a factor of more than 10^5.

**The solvency properties** compare cross-multiplied integers, so they say that
the vault covers the *exact* rational value of all claims: any rounding in a user's
favour, even one that is later lost again, fails them.

**Fairness.** `FeeSpec` assumes weak fairness of `Tick` and of nothing else: the clock
of the cluster advances whatever users do. Under it `FeeSettles` says that every
schedule and every limiter's window ends, after which swaps pay the last fee in
both directions, at every price, whatever operators do. Instructions are sent by
users; the program has no scheduler that owes anyone a step, and no loop that must
end, so `Spec` assumes none. Progress of users is therefore
stated as possibility: `ExitAlwaysPossible` says, with `ENABLED`, that in every
reachable state after activation the owner can withdraw all free liquidity, claim
its fees and get rid of its rewards, even from a disabled pool or with a frozen
vault.

Each owner can take what is due; `AllCanLeave` says that nobody's exit comes at the
expense of another's: the fees of all positions, of the protocol and the partner
and the whole liquidity are in the vaults *together*, in whole tokens as the
program rounds them, and so are all rewards accrued up to now.

`ExitAlwaysPossible` excepts liquidity worth less than one unit of either token:
`remove_liquidity` refuses a withdrawal of nothing (`AmountIsZero`), so such dust
stays in its position until the price moves, and so does the account.

## 4. The proofs

All proofs are for every instance the named assumptions of the modules admit: any
set of positions, vesting accounts and rewards, any price range, any amounts, any
fee parameters (the fields of a schedule and of a limiter are taken from constants
that are arbitrary sets of naturals), any length of a transaction. Quotes are what the
pool computes, before the token program takes its transfer fees: those are in the
theorems on vaults, not in the ones of `QuoteProofs` on swaps.

| Module | Theorems | Argument |
| --- | --- | --- |
| `ArithLemmas` | `PartialStaysInside`, `SplitFeesWhole` | rounded divisions, next prices, sums over finite sets |
| `CpAmmProofs` | `AnyFeeInvariantHolds`, `InvariantHolds`, `TypeCorrect`, `NoUnderflowHolds`, `PriceStaysInRange` | the inductive invariant `IInv` |
| `LiquidityProofs` | `LedgerImplemented`, `AnyFeeRefinesLedger`, `ReleasesFollowSchedule`, `LockedUntilScheduleHolds`, `LiquidityConservedHolds`, `LocksBackedHolds`, `SchedulesSoundHolds` | `IInv` with `VestInv`, `ClosedEmpty`, `LiquidityConserved` and `LocksBacked` |
| `SolvencyProofs` | `AnyFeeVaultsSolvent`, `VaultASolventHolds`, `VaultBSolventHolds`, `FeesConservedHolds`, `AnyFeeRewardsSolvent`, `RewardVaultSolventHolds`, `RewardsConservedHolds`, `AllCanLeaveHolds`, `ExitsOpenHolds` | `IInv` with `VaultInv`, then with `RewardsCovered` |
| `BaseFeeLemmas` | — | the schedules, the fixed-point power and how near it is to the exact one; what validation implies |
| `FeeEngineProofs` | `FeesRefinePool`, `FeesKeepPool`, `FeesKeepVaults`, `VolatilityBoundedHolds`, `VolatilityInStepHolds`, `QuietForgetsHolds`, `UpdatesOnlyWhenSettledHolds`, `SwapsQuotableHolds` | `IInv` with `FeeInv` |
| `QuoteProofs` | `NoRoundTripGainHolds`, `NoSplitGainHolds`, `ModesAgreeHolds`, `PartialFillFairHolds`, `FeeDefinedAndBoundedHolds`, `FeeNeverRisesHolds`, `StaticIsStaticHolds`, `DecayIsGeometricHolds`, `FeeFollowsBandsHolds`, `InverseAgreesHolds` | what each rounded formula is best at; lemmas on schedules; induction over the units of a purchase; what units leave before rounding |
| `TransactionProofs` | `SinglePurchaseHolds`, `FeesReachTreasuryHolds` | every swap leaves a trace that the rule finds; fees are delivered, or the next instruction delivers them |

`CpAmmProofs`, `LiquidityProofs`, `SolvencyProofs` and `FeeEngineProofs` build on
each other in this order. A few assumptions go beyond what the code's own checks
give. There are finitely many positions (`FiniteAssumption`), without which
their sums mean nothing. The numbers `MAX_BASIS_POINT <= ONE_Q64` (in `ScheduleInputs`) and a cap on
the total fee of at most `FeeDenominator - 2` (in `CapAssumption` and `QuoteAssumption`) are far from tight: 10^4 and
2^64, 99 % of 10^9. And the clock starts later than any filter period is long
(in `EngineAssumption`): timestamps count the seconds since 1970, the filter period
has 16 bits. Without it the first swap on a fresh dynamic fee, whose last update is zero,
would not count as late, and would divide by a reference price of zero.

- **The pool.** `IInv == TypeOK /\ NoUnderflow /\ PriceInRange /\ DurationsSet`.
  `TypeOK` alone is not inductive. That an accumulated reward is a natural number
  needs `last update <= min(now, end)`; that a pending fee is one needs the checkpoint to be
  behind the accumulator (both in `NoUnderflow`); that an amount withdrawn is not negative needs the price
  in its range; and funding divides by the reward's duration, which is positive
  only because `InitializeReward` sets it together with the flag (`DurationsSet`). There is one lemma per
  instruction, on top of lemmas on accrual and settling.
- **Prices.** `swap_partial_fill` does not check the price after an amount smaller
  than the one that reaches the boundary. Whatever the rounding, the next price
  stays on the right side (`PartialStaysInside`). For exact-in and exact-out, the program checks the side
  the price moves to, and `ArithLemmas` proves the other.
- **From any fee to the real ones.** The pool's theorems are proved of `AnyFeeSpec`,
  whose swaps may pay any trade fee. `Spec` implies it, and so does `FeeSpec`
  (`FeesRefinePool`): what the schedules, the limiter and the dynamic fee compute
  is always some trade fee. So price range, checkpoints, vesting, the ledger and
  the solvency of all vaults (`FeesKeepVaults`) hold of the pool with its real fees too.
- **The ledger.** Each instruction is one step of `LiquidityLedger` or none. Besides
  `IInv` this needs that an account that does not exist holds nothing
  (`ClosedEmpty`), since creating a position starts its balances at zero.
- **Vesting.** What a schedule has unlocked only grows with time, and a validated
  schedule with periods releases something in each (`SchedulesValid`): so the total
  is reached only at the end. That a vesting account belongs to an open position
  (`SchedulesSound`) is not inductive on its own: `close_position` looks at the
  balances only, so it needs that a position's vested balance is what its accounts
  still have to release (`LocksBacked`), each of them something.
- **Sums over positions.** The sums are folds over a set, and the induction theorems
  of the library cannot be used (see below). `ArithLemmas` proves what is needed of
  them, that a sum is an integer, linear, monotone and changes by what one or two
  of its terms change by, by contradiction from a smallest subset that fails (`MinimalSubset`).
- **The token vaults.** `VaultInv` says that the surplus of each vault over all fees
  owed, before rounding, buys the whole liquidity at the current price (`Covered`), that
  an account that is not open is blank (`ClosedZero`) and so is a reward that is
  not initialized (`Dormant`). Without the last two an instruction could bring
  forgotten fees or checkpoints back to life. The fees: settling rounds against the position, and
  each instruction only moves fees between positions or pays them out
  (`OnlyMoves`, with the amounts moved as a function whose sum is zero), so
  their sum is conserved; this is `FeesConserved` too. The curve: in all three modes what
  comes in pays for the move of the price and what goes out is not worth more
  (`QuoteFair`, from `InPays` and `OutFair`), for both ways of collecting
  fees; the growth of the accumulator times the whole liquidity is at most
  the fee (`SwapOwes`, which is where `LiquidityConserved` is needed).
- **The reward vaults.** A vault covers what positions have accrued and the budget of
  the distribution, what is still to be paid and what was paid to nobody
  (`RewardsCovered`). Accrual moves the budget to positions, rounded down
  (`AccrualCovers`). Bringing a reward up to the present reaches the same
  accumulator whether one instruction does it or the next (`StoredStands`), so every
  instruction either leaves a reward alone (`Standing`) or accrues first and accounts for
  what it then moves (`Accounted`), and the clock alone changes nothing. Funding is the delicate
  step: the left-over and the carried amount are rounded down, divided by the duration,
  and never exceed the budget they replace (`LeftoverInBudget`, `FundedBudget`).
- **Everybody out.** Rounded claims are within the exact shares (`RoundedWithin`) and the
  rounded worth of the liquidity within what covers it, so `AllCanLeave` follows from the
  invariants before rounding, in every reachable state and not only in the
  runs that check it. One owner's claims are part of the sums, and part of the liquidity is
  worth no more than the whole (`LessIsWorthLess`). So the guards of the instructions by which an
  owner leaves hold whenever they are sent (`ExitsOpenHolds`); that these are the
  actions' guards, which beside them only assign, is proved too (`RemoveIsGuarded` and so on).
- **Fees.** The dynamic fee in a pool is made of validated parameters, and its
  accumulator is a function of its reference and the pool's price; both hold because every
  swap updates the accumulator last and nothing else moves the price. That an
  update meets a settled fee follows from the static test passing only
  past the end of the schedule, for every mode.
- **Transactions.** The rule sees top-level instructions and earlier calls of the
  same caller only. Every swap nevertheless leaves something it sees: an earlier
  instruction that swapped or was given the pool, or, in the same instruction and outside
  the whitelist, a call of the one caller that is not too deep.
- **Quotes.** The rounded formulas enter the proofs only through what they are best
  at: the next price is the furthest that an input pays for (`NextIsFurthest`), the
  output the largest that is fair, an input the least that is enough. From this the
  properties follow without computing any of them. A round trip cannot gain, because each leg
  is fair before rounding. Cutting a trade in two cannot, because the
  price after both parts is no further than the price after their sum, and because fees
  rounded up add up to no less than the fee of the sum. And exact-out meets exact-in to the
  unit: both stop at the first amount that suffices.
- **Schedules.** A fee that has to fall from period to period is a fixed-point power
  by repeated squaring, truncated at every product, of which it is not
  evident that a higher exponent gives no more. The proof runs the loops of two exponents in
  lockstep (`LockstepKept`): what is left of the lower exponent is never more than what is
  left of the higher one, the lower one's result is at least the square both have reached, and once what is left
  of both is the same, the higher one's result is the smaller. At the end nothing is left of
  either. So a schedule falls (`ScheduledFeeFalls`), and because its last
  period is computed when it is validated (`MinBaseFee`), so is every earlier one
  (`ScheduledFeeDefined`).
- **How fast a schedule falls.** Each bit of the exponent that the loop has passed made a part `e`
  of it, and the next one weighs `w`. The result is then within `e` units of the exact `e`-th power
  and the base within `w` units of the `w`-th (`Tracks`), because a truncated product is off by what its
  factors are and one unit more (`NearTimes`). At the end `e` is the exponent (`PowNear`).
- **The rate limiter.** Each unit more adds the fee of its band to the closed form,
  in the middle of a band, at its end and beyond the last one (`BandFeesStep`), and the sum
  over the units grows by the same. So they agree (`ExactIsBands`), and the rest is
  the rounding of one quotient (`FeeFollowsExact`).
- **The limiter's inverse.** The program takes the root of the quadratic through the ends of the bands,
  rounds it down and goes on at the rate of one band. The proof compares no roots: it follows what a
  number of units leaves *before* any rounding of fees (`Leaves`). The quadratic and the closed
  form meet at the ends of the bands, so a rounded root is in the band the program takes it to be or at
  its edge, and going on at that band's rate lands where the amount asked for is left (`LandsAbove`).
  Turning this into a numerator and that into a total
  moves the amount by bounded roundings (`NumeratorNear`, `TotalNear`), and so does the fee of that total (`FeeOfTotal`). A
  partial fill is this inverse at the amount that was used (`PartialFillFairHolds`).
- **Induction over numbers** takes, like that over sets, the least counterexample
  (`LeastNumber`), which needs no theorem with an operator as a parameter. Recursive
  functions unfold one step at a time by this (`PowLoopAt`).

Only model-checked, because the installed provers handle neither liveness nor `ENABLED`:

- `ExitAlwaysPossible`, as it is stated. What it comes to is proved: the guards of the
  three instructions hold (`ExitsOpenHolds`), no checked subtraction fails
  (`NoUnderflowHolds`) and no vault is short, for all owners at once (`AllCanLeaveHolds`);
- `FeeSettles`. Proved is that past its end a schedule pays its last fee
  at every price, and a limiter is off (`StaticIsStaticHolds`).

`OfferNotExceeded` is false and so neither. Every other property of the runs is
a theorem.

## 5. Not modelled

- Configs, operators, token badges and the reward funder: accounts that are written
  once and checked against a signer. A pool copies what it needs of a config when
  it is created; there is no sequence of steps to get wrong.
- The rest of pool creation: which mints, token badges and activation points are
  accepted, and the creation of accounts. Its result is the initial state.
- Signers, NFTs, metrics, the limits a user sets on a swap or a withdrawal.
- Events, dispatch and account loading (no state of their own), the byte layouts of
  parameters, and the rust SDK (calls the program's own functions off chain).
- Widths of intermediate products: the program computes them in 256 bits or checks
  them, and a failure undoes the instruction.
