\* Every validated base fee within bounds, over time and price.
CONSTANTS
  FeeDenominator = 1000
  ProtocolFeePercent = 20
  ReferralFeePercent = 20
  PartnerFeePercent = 0
  HasPartner = FALSE
  MaxAmount = 100000
  MaxFeeNumerator = 990
  MinFeeNumerator = 5
  MaxNewFee = 990
  MaxBasisPoint = 10
  OneQ = 16384
  PowBits = 3
  MaxLimiterDuration = 5
  Cliffs = {40, 500, 900}
  Reductions = {0, 1, 3, 6, 60}
  MaxPeriods = 5
  Frequencies = {0, 1, 2}
  Steps = {1, 3}
  Durations = {2, 5}
  MaxFees = {80, 950}
  ReferenceAmounts = {2}
  MaxSince = 14
  Before = 2
  Prices = {10, 16, 17, 24, 32, 60}
  InitPrice = 16
SPECIFICATION ScheduleSpec
INVARIANTS
  FeeDefinedAndBounded
  StaticIsStatic
  DecayIsGeometric
PROPERTIES
  FeeNeverRises
