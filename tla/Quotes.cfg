\* The three swap modes over every small input, fees on the input or output,
\* flat or growing with the amount.
CONSTANTS
  Scale = 256
  SqrtMinPrice = 8
  SqrtMaxPrice = 32
  CollectFeeMode = "OnlyB"
  FeeDenominator = 100
  MaxAmount = 1000
  MaxFeeNumerator = 98
  ProtocolFeePercent = 20
  ReferralFeePercent = 20
  PartnerFeePercent = 0
  HasPartner = FALSE
  Liquidities = {1, 60, 128, 256, 1000}
  Amounts = {1, 2, 3, 4, 5, 6, 7, 8, 9, 10, 15, 20, 40, 80, 150}
  Fees <- EveryFee
SPECIFICATION Spec
INVARIANTS
  PartialFillFair
  ModesAgree
  NoRoundTripGain
  NoSplitGain
