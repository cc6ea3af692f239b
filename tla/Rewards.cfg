\* Farming rewards of two positions, funded, frozen and withdrawn.
CONSTANTS
  Supply = 4
  Scale = 4
  SqrtMinPrice = 1
  SqrtMaxPrice = 4
  CollectFeeMode = "OnlyB"
  FeeDenominator = 10
  MaxAmount = 1000
  MaxFeeNumerator = 9
  ProtocolFeePercent = 20
  ReferralFeePercent = 20
  PartnerFeePercent = 0
  HasPartner = FALSE
  Tokens = {"A", "B"}
  BpsDenominator = 10
  TransferFeeBps <- NoFeeOnTransfer
  MaxTransferFee <- NoFeeOnTransfer
  Positions = {p1, p2}
  VestingIds = {}
  Rewards = {r1}
  LiquidityScale = 8
  RewardRateScale = 4
  SplitDenominator = 2
  MaxVestingDuration = 4
  ActivationPoint = 0
  ActivationBuffer = 1
  HasWhitelistedVault = FALSE
  MaxLiquidity = 6
  MaxFeePerLiquidity = 8
  ZappableTokens = {}
  MaxTime = 3
  TokenSupply <- SupplyOfEach
  RewardSupply <- RewardSupplyOfEach
  InitLiquidity = {6}
  InitPrices = {2}
  LiquidityDeltas = {3}
  SplitShares <- OneRewardShare
  Schedules <- NoCaps
  LockAmounts = {}
  Modes = {"ExactIn", "PartialFill", "ExactOut"}
  SwapAmounts = {}
  TradeFees <- NoCaps
  ClaimCaps = {}
  Durations = {1, 3}
  Statuses = {}
  FundAmounts = {2}
SYMMETRY PositionSymmetry
SPECIFICATION Spec
INVARIANTS
  NoUnderflow
  RewardVaultSolvent
  AllCanLeave
  ExitAlwaysPossible
PROPERTIES
  RewardsConserved
