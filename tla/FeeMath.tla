------------------------------- MODULE FeeMath -------------------------------
(***************************************************************************)
(* The trading-fee arithmetic of PoolFeesStruct (state/fee.rs): what fee   *)
(* an amount carries, and how the fee is split between the liquidity       *)
(* providers, the protocol, the referrer and the partner.                  *)
(***************************************************************************)
EXTENDS Arith

CONSTANTS
  FeeDenominator,       \* FEE_DENOMINATOR, 10^9 in the code
  ProtocolFeePercent,   \* pool_fees.protocol_fee_percent
  ReferralFeePercent,   \* pool_fees.referral_fee_percent
  PartnerFeePercent,    \* pool_fees.partner_fee_percent
  HasPartner            \* has_partner(): the pool names a partner

ASSUME FeeAssumption ==
  /\ FeeDenominator \in Nat \ {0}
  /\ ProtocolFeePercent \in 0..100
  /\ ReferralFeePercent \in 0..100
  /\ PartnerFeePercent \in 0..100
  /\ HasPartner \in BOOLEAN

\* A wrong version the runs must tell from the right one: the fee is rounded
\* down, or the amount that includes it.
FeeOnDown(amount, num) == (amount * num) \div FeeDenominator
IncludedFeeAmountDown(amount, num) ==
  (amount * FeeDenominator) \div (FeeDenominator - num)

\* get_excluded_fee_amount: the fee inside an amount that includes it.
FeeOn(amount, num) == CeilDiv(amount * num, FeeDenominator)

\* get_included_fee_amount: the amount that leaves `amount` once the fee is
\* taken out of it.
IncludedFeeAmount(amount, num) ==
  CeilDiv(amount * FeeDenominator, FeeDenominator - num)

\* split_fees: the protocol's cut pays the referrer first, then the partner;
\* everything that rounding drops stays with the liquidity providers or the
\* protocol.
SplitFees(fee, hasReferral) ==
  LET cut      == (fee * ProtocolFeePercent) \div 100
      referral == IF hasReferral THEN (cut * ReferralFeePercent) \div 100 ELSE 0
      rest     == cut - referral
      partner  == IF HasPartner THEN (rest * PartnerFeePercent) \div 100 ELSE 0
  IN  [trading  |-> fee - cut,
       protocol |-> rest - partner,
       partner  |-> partner,
       referral |-> referral]
=============================================================================
