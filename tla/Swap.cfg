\* Swaps in both directions and all modes, fees in both tokens.
CONSTANTS
  Supply = 14
  Scale = 256
  SqrtMinPrice = 10
  SqrtMaxPrice = 24
  CollectFeeMode = "BothToken"
  FeeDenominator = 10
  MaxAmount = 1000
  MaxFeeNumerator = 9
  ProtocolFeePercent = 80
  ReferralFeePercent = 50
  PartnerFeePercent = 60
  HasPartner = TRUE
  Tokens = {"A", "B"}
  BpsDenominator = 10
  TransferFeeBps <- NoFeeOnTransfer
  MaxTransferFee <- NoFeeOnTransfer
  Positions = {p1}
  VestingIds = {}
  Rewards = {}
  LiquidityScale = 256
  RewardRateScale = 4
  SplitDenominator = 2
  MaxVestingDuration = 4
  ActivationPoint = 1
  ActivationBuffer = 1
  HasWhitelistedVault = TRUE
  MaxLiquidity = 512
  MaxFeePerLiquidity = 2
  ZappableTokens = {"A"}
  MaxTime = 1
  TokenSupply <- SupplyOfEach
  RewardSupply <- RewardSupplyOfEach
  InitLiquidity = {160}
  InitPrices = {10}
  LiquidityDeltas = {}
  SplitShares <- NoCaps
  Schedules <- NoCaps
  LockAmounts = {}
  Modes = {"ExactIn", "PartialFill", "ExactOut"}
  SwapAmounts = {2, 5}
  TradeFees <- FiveTenths
  ClaimCaps <- Whole
  Durations = {}
  Statuses = {}
  FundAmounts = {}
SPECIFICATION Spec
INVARIANTS
  PriceInRange
  VaultASolvent
  VaultBSolvent
