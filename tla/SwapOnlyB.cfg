\* Quote-token fees and Token-2022 transfer fees.
CONSTANTS
  Supply = 14
  Scale = 256
  SqrtMinPrice = 10
  SqrtMaxPrice = 24
  CollectFeeMode = "OnlyB"
  FeeDenominator = 10
  MaxAmount = 1000
  MaxFeeNumerator = 9
  ProtocolFeePercent = 50
  ReferralFeePercent = 0
  PartnerFeePercent = 50
  HasPartner = TRUE
  Tokens = {"A", "B"}
  BpsDenominator = 10
  TransferFeeBps <- FeeOnTransfer
  MaxTransferFee <- FeeOnTransfer
  Positions = {p1}
  VestingIds = {}
  Rewards = {}
  LiquidityScale = 256
  RewardRateScale = 4
  SplitDenominator = 2
  MaxVestingDuration = 4
  ActivationPoint = 1
  ActivationBuffer = 1
  HasWhitelistedVault = FALSE
  MaxLiquidity = 512
  MaxFeePerLiquidity = 5
  ZappableTokens = {}
  MaxTime = 1
  TokenSupply <- SupplyOfEach
  RewardSupply <- RewardSupplyOfEach
  InitLiquidity = {160}
  InitPrices = {16, 24}
  LiquidityDeltas = {}
  SplitShares <- NoCaps
  Schedules <- NoCaps
  LockAmounts = {}
  Modes = {"ExactIn", "PartialFill", "ExactOut"}
  SwapAmounts = {2, 5}
  TradeFees <- FlatOrLimited
  ClaimCaps <- WholeOrOne
  Durations = {}
  Statuses = {}
  FundAmounts = {}
SPECIFICATION Spec
INVARIANTS
  VaultASolvent
  VaultBSolvent
  AllCanLeave
  ExitAlwaysPossible
