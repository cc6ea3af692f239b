\* Every validated rate limiter within bounds, on every small amount.
CONSTANTS
  FeeDenominator = 100
  ProtocolFeePercent = 20
  ReferralFeePercent = 20
  PartnerFeePercent = 0
  HasPartner = FALSE
  MaxAmount = 300
  MaxFeeNumerator = 98
  MinFeeNumerator = 1
  MaxNewFee = 98
  MaxBasisPoint = 10
  OneQ = 64
  PowBits = 3
  MaxLimiterDuration = 3
  LimiterCliffs = {1, 2, 10, 25}
  Increments = {1, 3, 7, 40}
  Maxima = {10, 25, 50, 98}
  References = {1, 2, 3, 5, 10}
  Purchases = {1, 2, 3, 4, 5, 6, 7, 8, 9, 11, 13, 16, 19, 22, 26, 30, 41, 60, 100, 150}
SPECIFICATION LimiterSpec
INVARIANTS
  FeeFollowsBands
  InverseAgrees
