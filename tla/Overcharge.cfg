\* Partial fills that take more than was offered.
CONSTANTS
  Scale = 256
  SqrtMinPrice = 8
  SqrtMaxPrice = 32
  CollectFeeMode = "OnlyB"
  FeeDenominator = 100
  MaxAmount = 1000
  MaxFeeNumerator = 98
  ProtocolFeePercent = 20
  ReferralFeePercent = 20
  PartnerFeePercent = 0
  HasPartner = FALSE
  Liquidities = {1, 60, 128, 256, 1000}
  Amounts = {1, 2, 3, 4, 5, 6, 7, 8, 9, 10, 15, 20, 40}
  Fees <- GrowingFees
SPECIFICATION Spec
INVARIANT OfferNotExceeded
