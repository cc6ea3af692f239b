----------------------------- MODULE TransferFee -----------------------------
(***************************************************************************)
(* Token-2022 transfer fees as utils/token.rs uses them.  The fee schedule *)
(* itself belongs to the token program (spl-token-2022), so TransferFeeOf  *)
(* and PreFeeAmount are external; the two conversions the pool performs    *)
(* are those of utils/token.rs.                                            *)
(***************************************************************************)
EXTENDS Arith

CONSTANTS
  Tokens,
  TransferFeeBps,      \* the mint's rate, out of BpsDenominator
  MaxTransferFee,      \* the mint's cap on one transfer's fee
  BpsDenominator       \* 10_000 in the token program

ASSUME TransferFeeAssumption ==
  /\ BpsDenominator \in Nat \ {0}
  /\ TransferFeeBps \in [Tokens -> 0..BpsDenominator]
  /\ MaxTransferFee \in [Tokens -> Nat]

\* spl TransferFee::calculate_fee
TransferFeeOf(t, amount) ==
  Smaller(CeilDiv(amount * TransferFeeBps[t], BpsDenominator), MaxTransferFee[t])

\* spl TransferFee::calculate_inverse_fee
InverseFee(t, amount) ==
  LET raw == CeilDiv(amount * BpsDenominator, BpsDenominator - TransferFeeBps[t])
      pre == IF raw - amount >= MaxTransferFee[t]
               THEN amount + MaxTransferFee[t] ELSE raw
  IN  TransferFeeOf(t, pre)

\* calculate_transfer_fee_excluded_amount: what arrives when `amount` is sent.
ExcludedAmount(t, amount) == amount - TransferFeeOf(t, amount)

\* calculate_transfer_fee_included_amount: what must be sent so that `amount`
\* arrives.
IncludedAmount(t, amount) ==
  IF amount = 0 THEN 0
  ELSE IF TransferFeeBps[t] = BpsDenominator
         THEN amount + MaxTransferFee[t]
         ELSE amount + InverseFee(t, amount)

\* The verification at the end of that function: without it the handler fails
\* with FeeInverseIsIncorrect.
IncludedIsExact(t, amount) ==
  ExcludedAmount(t, IncludedAmount(t, amount)) = amount
=============================================================================
