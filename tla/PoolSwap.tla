------------------------------- MODULE PoolSwap -------------------------------
(***************************************************************************)
(* Swapping in the three modes, and claiming the fees swaps leave behind.  *)
(***************************************************************************)
EXTENDS PoolPositions

SwapModes == {"ExactIn", "PartialFill", "ExactOut"}

InToken(dir)  == IF dir = "AtoB" THEN "A" ELSE "B"
OutToken(dir) == IF dir = "AtoB" THEN "B" ELSE "A"

\* A swap's result together with what the user sends (paid) and what of it
\* reaches the vault (received).
Quote(dir, paid, r) ==
  [paid |-> paid, received |-> ExcludedAmount(InToken(dir), paid),
   out |-> r.out, fee |-> r.fee, next |-> r.next]

\* process_swap_exact_in: the transfer fee leaves less to swap.
ProcessExactIn(dir, amount, f) ==
  LET net == ExcludedAmount(InToken(dir), amount)
  IN  {Quote(dir, amount, r) :
         r \in {s \in ExactIn(pool.sqrtPrice, pool.liquidity, net, dir, f) :
                  net > 0}}

\* process_swap_partial_fill: only what was used is sent.
ProcessPartialFill(dir, amount, f) ==
  LET inT == InToken(dir)
      net == ExcludedAmount(inT, amount)
  IN  {Quote(dir, IncludedAmount(inT, r.in), r) :
         r \in {s \in PartialIn(pool.sqrtPrice, pool.liquidity, net, dir, f) :
                  net > 0 /\ s.in > 0 /\ IncludedIsExact(inT, s.in)}}

\* process_swap_exact_out: the pool gives what makes `amount` arrive.
ProcessExactOut(dir, amount, f) ==
  LET inT   == InToken(dir)
      gross == IncludedAmount(OutToken(dir), amount)
  IN  {Quote(dir, IncludedAmount(inT, r.in), r) :
         r \in {s \in ExactOut(pool.sqrtPrice, pool.liquidity, gross, dir, f) :
                  /\ IncludedIsExact(OutToken(dir), amount)
                  /\ IncludedIsExact(inT, s.in)}}

Quotes(mode, dir, amount, f) ==
  CASE mode = "ExactIn"     -> ProcessExactIn(dir, amount, f)
    [] mode = "PartialFill" -> ProcessPartialFill(dir, amount, f)
    [] mode = "ExactOut"    -> ProcessExactOut(dir, amount, f)

\* A wrong version the runs must tell from the right one: the growth is
\* rounded up.
FeeGrowthUp(lpFee) == CeilDiv(lpFee * LiquidityScale, pool.liquidity)

\* Pool::apply_swap_result
FeeGrowth(lpFee) == (lpFee * LiquidityScale) \div pool.liquidity

ApplySwap(next, token, split) ==
  [pool EXCEPT
    !.sqrtPrice = next,
    !.feePerLiquidity[token] = @ + FeeGrowth(split.trading),
    !.protocolFee[token] = @ + split.protocol,
    !.partnerFee[token]  = @ + split.partner]

\* The three transfers of p_handle_swap, in and out of the vaults.
SettleVaults(dir, token, quote, split) ==
  [t \in Tokens |->
     vault[t] + (IF t = InToken(dir) THEN quote.received ELSE 0)
              - (IF t = OutToken(dir) THEN quote.out ELSE 0)
              - (IF t = token THEN split.referral ELSE 0)]

\* p_handle_swap (handle_swap and handle_swap2 dispatch to it)
Swap(mode, dir, amount, f, hasReferral, whitelisted) ==
  /\ CanSwap(whitelisted)
  /\ amount > 0
  /\ pool.liquidity > 0                  \* assert! in get_next_sqrt_price_*
  /\ \E quote \in Quotes(mode, dir, amount, f) :
       LET token == FeeToken(dir)
           split == SplitFees(quote.fee, hasReferral)
       IN  /\ pool.feePerLiquidity[token] + FeeGrowth(split.trading)
                <= MaxFeePerLiquidity
           /\ vault[InToken(dir)] + quote.paid <= TokenSupply[InToken(dir)]
           /\ \A t \in Tokens : SettleVaults(dir, token, quote, split)[t] >= 0
           /\ pool'  = ApplySwap(quote.next, token, split)
           /\ vault' = SettleVaults(dir, token, quote, split)
  /\ UNCHANGED <<position, vestings, reward, rewardVault, frozen, now>>

-----------------------------------------------------------------------------
\* handle_claim_position_fee: neither the pool's status nor activation is
\* looked at.
ClaimPositionFee(p) ==
  LET settled == SettleFees(position[p]) IN
  /\ position[p].open
  /\ \A t \in Tokens : settled.feePending[t] <= vault[t]
  /\ position' = [position EXCEPT
        ![p] = [settled EXCEPT !.feePending = [t \in Tokens |-> 0]]]
  /\ vault' = [t \in Tokens |-> vault[t] - settled.feePending[t]]
  /\ UNCHANGED <<pool, vestings, reward, rewardVault, frozen, now>>

\* handle_claim_protocol_fee and handle_claim_partner_fee: `max` caps what is
\* taken of each token.
Claimed(owed, max) == [t \in Tokens |-> Smaller(owed[t], max[t])]

ClaimProtocolFee(max) ==
  LET taken == Claimed(pool.protocolFee, max) IN
  /\ \A t \in Tokens : taken[t] <= vault[t]
  /\ pool' = [pool EXCEPT
        !.protocolFee = [t \in Tokens |-> @[t] - taken[t]]]
  /\ vault' = [t \in Tokens |-> vault[t] - taken[t]]
  /\ UNCHANGED <<position, vestings, reward, rewardVault, frozen, now>>

\* handle_zap_protocol_fee: one token, and something of it, leaves for the
\* operator, whose next instruction sends it on (module ZapTransaction).
ZapProtocolFee(t, max) ==
  /\ t \in ZappableTokens
  /\ Smaller(pool.protocolFee[t], max) > 0
  /\ ClaimProtocolFee([u \in Tokens |-> IF u = t THEN max ELSE 0])

ClaimPartnerFee(max) ==
  LET taken == Claimed(pool.partnerFee, max) IN
  /\ HasPartner
  /\ \A t \in Tokens : taken[t] <= vault[t]
  /\ pool' = [pool EXCEPT
        !.partnerFee = [t \in Tokens |-> @[t] - taken[t]]]
  /\ vault' = [t \in Tokens |-> vault[t] - taken[t]]
  /\ UNCHANGED <<position, vestings, reward, rewardVault, frozen, now>>
=============================================================================
