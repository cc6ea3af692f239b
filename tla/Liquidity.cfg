\* Liquidity, vesting and permanent locks of two owners.
CONSTANTS
  Supply = 5
  Scale = 4
  SqrtMinPrice = 1
  SqrtMaxPrice = 4
  CollectFeeMode = "OnlyB"
  FeeDenominator = 10
  MaxAmount = 1000
  MaxFeeNumerator = 9
  ProtocolFeePercent = 20
  ReferralFeePercent = 20
  PartnerFeePercent = 0
  HasPartner = FALSE
  Tokens = {"A", "B"}
  BpsDenominator = 10
  TransferFeeBps <- NoFeeOnTransfer
  MaxTransferFee <- NoFeeOnTransfer
  Positions = {p1, p2}
  VestingIds = {v1, v2}
  Rewards = {}
  LiquidityScale = 16
  RewardRateScale = 4
  SplitDenominator = 2
  MaxVestingDuration = 4
  ActivationPoint = 1
  ActivationBuffer = 1
  HasWhitelistedVault = FALSE
  MaxLiquidity = 12
  MaxFeePerLiquidity = 8
  ZappableTokens = {}
  MaxTime = 4
  TokenSupply <- SupplyOfEach
  RewardSupply <- RewardSupplyOfEach
  InitLiquidity = {8}
  InitPrices = {2}
  LiquidityDeltas = {4}
  SplitShares <- LockedShares
  Schedules <- TwoSchedules
  LockAmounts = {2}
  Modes = {"ExactIn", "PartialFill", "ExactOut"}
  SwapAmounts = {}
  TradeFees <- NoCaps
  ClaimCaps = {}
  Durations = {}
  Statuses = {TRUE, FALSE}
  FundAmounts = {}
SYMMETRY Symmetry
SPECIFICATION Spec
INVARIANTS
  TypeOK
  SchedulesSound
  LiquidityConserved
  LocksBacked
  ExitAlwaysPossible
PROPERTIES
  LockedUntilSchedule
  LedgerRefined
