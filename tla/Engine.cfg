\* Each kind of base fee, a dynamic fee and an operator who changes both.
CONSTANTS
  Supply = 14
  Scale = 256
  SqrtMinPrice = 10
  SqrtMaxPrice = 24
  CollectFeeMode = "OnlyB"
  FeeDenominator = 100
  MaxAmount = 1000
  MaxFeeNumerator = 99
  ProtocolFeePercent = 50
  ReferralFeePercent = 0
  PartnerFeePercent = 0
  HasPartner = FALSE
  Tokens = {"A", "B"}
  BpsDenominator = 10
  TransferFeeBps <- NoFeeOnTransfer
  MaxTransferFee <- NoFeeOnTransfer
  Positions = {p1}
  VestingIds = {}
  Rewards = {}
  LiquidityScale = 256
  RewardRateScale = 4
  SplitDenominator = 2
  MaxVestingDuration = 4
  ActivationPoint = 1
  ActivationBuffer = 1
  HasWhitelistedVault = TRUE
  MaxLiquidity = 512
  MaxFeePerLiquidity = 2
  ZappableTokens = {}
  MaxTime = 4
  TokenSupply <- SupplyOfEach
  RewardSupply <- RewardSupplyOfEach
  InitLiquidity = {160}
  InitPrices = {16}
  LiquidityDeltas = {}
  SplitShares <- None
  Schedules <- None
  LockAmounts = {}
  Modes = {"ExactIn"}
  SwapAmounts = {2, 5}
  TradeFees <- None
  ClaimCaps <- None
  Durations = {}
  Statuses = {}
  FundAmounts = {}
  MinFeeNumerator = 1
  MaxNewFee = 99
  MaxBasisPoint = 10
  OneQ = 64
  PowBits = 2
  MaxLimiterDuration = 3
  BinStepQ = 6
  BinStepBps = 1
  VariableFeeScale = 100
  MaxControl = 100
  ClockStart = 10
  MaxFeePostUpdate = 12
  BaseFees <- EveryBaseFee
  DynamicFees <- OneDynamic
  NewCliffs = {11, 31}
SPECIFICATION FeeSpec
INVARIANTS
  VolatilityBounded
  VolatilityInStep
  SwapsQuotable
  VaultBSolvent
PROPERTIES
  QuietForgets
  UpdatesOnlyWhenSettled
  FeeSettles
