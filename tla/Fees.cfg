\* Fees of two positions that come, go and split while others swap.
CONSTANTS
  Supply = 14
  Scale = 256
  SqrtMinPrice = 8
  SqrtMaxPrice = 32
  CollectFeeMode = "BothToken"
  FeeDenominator = 10
  MaxAmount = 1000
  MaxFeeNumerator = 9
  ProtocolFeePercent = 50
  ReferralFeePercent = 0
  PartnerFeePercent = 50
  HasPartner = FALSE
  Tokens = {"A", "B"}
  BpsDenominator = 10
  TransferFeeBps <- NoFeeOnTransfer
  MaxTransferFee <- NoFeeOnTransfer
  Positions = {p1, p2}
  VestingIds = {}
  Rewards = {}
  LiquidityScale = 256
  RewardRateScale = 4
  SplitDenominator = 2
  MaxVestingDuration = 4
  ActivationPoint = 0
  ActivationBuffer = 1
  HasWhitelistedVault = TRUE
  MaxLiquidity = 320
  MaxFeePerLiquidity = 3
  ZappableTokens = {}
  MaxTime = 0
  TokenSupply <- SupplyOfEach
  RewardSupply <- RewardSupplyOfEach
  InitLiquidity = {160}
  InitPrices = {16}
  LiquidityDeltas = {80}
  SplitShares <- OneFeeShare
  Schedules <- NoCaps
  LockAmounts = {}
  Modes = {"ExactIn"}
  SwapAmounts = {5}
  TradeFees <- FourTenths
  ClaimCaps <- NoCaps
  Durations = {}
  Statuses = {}
  FundAmounts = {}
SYMMETRY PositionSymmetry
SPECIFICATION Spec
INVARIANTS
  VaultBSolvent
PROPERTIES
  FeesConserved
