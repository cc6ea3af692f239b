----------------------------- MODULE ArithLemmas -----------------------------
(***************************************************************************)
(* Facts about the arithmetic of swaps and fees, for every value of the    *)
(* parameters: what rounds where, and what can never be negative.  The     *)
(* last part is about sums over finite sets: a sum is a recursive function *)
(* on the subsets of a set, and what it is on every one of them is shown   *)
(* on a minimal subset on which it would be something else.                *)
(***************************************************************************)
EXTENDS SwapMath, TransferFee, FiniteSetsExt, FiniteSetTheorems,
        WellFoundedInduction, TLAPS

\* Division and products of naturals (utils_math.rs, u128x128_math.rs).
LEMMA DivNat ==
  ASSUME NEW n \in Nat, NEW d \in Nat \ {0}
  PROVE  n \div d \in Nat
BY SMT

\* A product of naturals is natural.
LEMMA MulNat ==
  ASSUME NEW m \in Nat, NEW n \in Nat
  PROVE  m * n \in Nat
BY SMT

\* A product of positive numbers is positive.
LEMMA MulPos ==
  ASSUME NEW m \in Nat \ {0}, NEW n \in Nat \ {0}
  PROVE  m * n \in Nat \ {0}
BY SMT

\* Multiplying an inequality by a factor.
LEMMA MulMonotone ==
  ASSUME NEW x \in Int, NEW y \in Int, NEW k \in Nat, x >= y
  PROVE  x * k >= y * k
<1>1. x * k = y * k + (x - y) * k /\ (x - y) * k \in Nat
  BY MulNat
<1>2. y * k \in Int
  OBVIOUS
<1> QED BY <1>1, <1>2

\* Taking a factor out again.
LEMMA MulCancel ==
  ASSUME NEW x \in Int, NEW y \in Int, NEW k \in Nat \ {0}, x * k >= y * k
  PROVE  x >= y
<1> SUFFICES ASSUME y > x PROVE FALSE
  OBVIOUS
<1>1. y * k = x * k + (y - x) * k /\ (y - x) * k \in Nat \ {0}
  BY MulPos
<1>2. x * k \in Int
  OBVIOUS
<1> QED BY <1>1, <1>2

\* An upper bound of a rounded-down quotient.
LEMMA DivLe ==
  ASSUME NEW n \in Int, NEW d \in Nat \ {0}, NEW k \in Int, n <= k * d
  PROVE  n \div d <= k
BY SMT

\* A lower bound of a rounded-down quotient.
LEMMA DivGe ==
  ASSUME NEW n \in Int, NEW d \in Nat \ {0}, NEW k \in Int, k * d <= n
  PROVE  k <= n \div d
BY SMT

\* A quotient grows with its numerator.
LEMMA DivMonotone ==
  ASSUME NEW m \in Int, NEW n \in Int, NEW d \in Nat \ {0}, m <= n
  PROVE  m \div d <= n \div d
BY SMT

\* A quotient and a remainder are those of the division.
LEMMA DivUnique ==
  ASSUME NEW q \in Int, NEW d \in Nat \ {0}, NEW r \in 0..(d - 1)
  PROVE  (q * d + r) \div d = q /\ (q * d + r) % d = r
<1> DEFINE n == q * d + r
<1>1. q * d \in Int /\ n \in Int /\ n \div d \in Int
  OBVIOUS
<1>2. q <= n \div d
  <2>1. q * d <= n
    BY <1>1
  <2> HIDE DEF n
  <2> QED BY <1>1, <2>1, DivGe
<1>3. n \div d <= q
  <2> SUFFICES ASSUME q + 1 <= n \div d PROVE FALSE
    BY <1>1
  <2>1. (n \div d) * d <= n
    <3> HIDE DEF n
    <3> QED BY <1>1, SMT
  <2>2. (n \div d) * d >= (q + 1) * d
    <3> HIDE DEF n
    <3> QED BY <1>1, MulMonotone
  <2>3. (q + 1) * d = q * d + d /\ (n \div d) * d \in Int
    BY <1>1
  <2> QED BY <1>1, <2>1, <2>2, <2>3
<1>4. n \div d = q
  BY <1>1, <1>2, <1>3
<1>5. n = d * (n \div d) + (n % d) /\ n % d \in Int
  <2> HIDE DEF n
  <2> QED BY <1>1, SMT
<1>6. n % d = r
  <2>1. n = d * q + (n % d)
    BY <1>4, <1>5
  <2>2. d * q = q * d /\ n = q * d + r /\ r \in Int
    OBVIOUS
  <2> HIDE DEF n
  <2> QED BY <1>1, <1>5, <2>1, <2>2
<1> QED BY <1>4, <1>6

\* Rounding up stays natural, and is the least multiple that is enough.
LEMMA CeilDivNat ==
  ASSUME NEW n \in Nat, NEW d \in Nat \ {0}
  PROVE  CeilDiv(n, d) \in Nat
BY DivNat DEF CeilDiv

\* Rounding up stays below every multiple that is enough.
LEMMA CeilDivLe ==
  ASSUME NEW n \in Int, NEW d \in Nat \ {0}, NEW k \in Int, n <= k * d
  PROVE  CeilDiv(n, d) <= k
<1>1. n + d - 1 < (k + 1) * d
  BY SMT
<1>2. (n + d - 1) \div d < k + 1
  BY <1>1, SMT
<1> QED BY <1>2 DEF CeilDiv

\* A lower bound of a rounded-up quotient.
LEMMA CeilDivGe ==
  ASSUME NEW n \in Int, NEW d \in Nat \ {0}, NEW k \in Int, k * d <= n
  PROVE  k <= CeilDiv(n, d)
<1>1. k * d <= n + d - 1
  OBVIOUS
<1> QED BY <1>1, DivGe DEF CeilDiv

\* Rounding up is enough, rounding down is not too much.
LEMMA CeilDivEnough ==
  ASSUME NEW n \in Int, NEW d \in Nat \ {0}
  PROVE  CeilDiv(n, d) \in Int /\ n <= CeilDiv(n, d) * d
<1> DEFINE q == CeilDiv(n, d)
<1>1. q \in Int /\ (q * d < n => q < q)
  <2>1. q \in Int
    BY DEF CeilDiv
  <2>2. ASSUME q * d < n
        PROVE  q < q
    <3>1. (q + 1) * d <= n + d - 1
      <4>1. (q + 1) * d = q * d + d /\ q * d \in Int
        BY <2>1
      <4> HIDE DEF q
      <4> QED BY <2>1, <2>2, <4>1
    <3>2. q + 1 <= (n + d - 1) \div d
      <4> HIDE DEF q
      <4> QED BY <2>1, <3>1, DivGe
    <3>3. q + 1 <= q
      BY <3>2 DEF CeilDiv
    <3> HIDE DEF q
    <3> QED BY <2>1, <3>3
  <2> QED BY <2>1, <2>2
<1>2. q * d \in Int
  BY <1>1
<1> HIDE DEF q
<1>3. n <= q * d
  BY <1>1, <1>2
<1> QED BY <1>1, <1>3 DEF q

\* Rounding down is not too much.
LEMMA DivEnough ==
  ASSUME NEW n \in Int, NEW d \in Nat \ {0}
  PROVE  n \div d \in Int /\ (n \div d) * d <= n
BY SMT

\* What is below a rounded-up quotient is not enough.
LEMMA CeilDivGt ==
  ASSUME NEW n \in Int, NEW d \in Nat \ {0}, NEW k \in Int,
         k < CeilDiv(n, d)
  PROVE  k * d < n
<1>1. n <= k * d => CeilDiv(n, d) <= k
  BY CeilDivLe
<1>2. CeilDiv(n, d) \in Int /\ k * d \in Int
  BY DEF CeilDiv
<1> QED BY <1>1, <1>2

-----------------------------------------------------------------------------
\* Curve (curve.rs): amounts are natural in either rounding, and the next
\* price moves in the direction of the trade.
LEMMA DeltaNat ==
  ASSUME NEW lower \in Nat \ {0}, NEW upper \in Nat, lower <= upper,
         NEW L \in Nat, NEW round
  PROVE  /\ DeltaA(lower, upper, L, round) \in Nat
         /\ DeltaB(lower, upper, L, round) \in Nat
<1>1. upper - lower \in Nat /\ upper \in Nat \ {0}
  OBVIOUS
<1>2. L * (upper - lower) \in Nat
  BY <1>1, MulNat
<1>3. lower * upper \in Nat \ {0}
  BY <1>1, MulPos
<1>4. Scale \in Nat \ {0}
  BY ScaleAssumption
<1> QED BY <1>2, <1>3, <1>4, DivNat, CeilDivNat DEF DeltaA, DeltaB, DivRound

\* get_next_sqrt_price_from_amount_in_a_rounding_up only lowers the price.
LEMMA NextPriceFromAInMoves ==
  ASSUME NEW price \in Nat \ {0}, NEW L \in Nat \ {0}, NEW a \in Nat
  PROVE  NextPriceFromAIn(price, L, a) \in 0..price
<1> DEFINE d == L + a * price
<1>1. a * price \in Nat /\ L * price \in Nat
  BY MulNat
<1>2. d \in Nat \ {0}
  BY <1>1
<1>3. L * price <= price * d
  <2>1. price * d = price * L + price * (a * price)
    BY <1>1, SMT
  <2>2. price * (a * price) \in Nat
    BY <1>1, MulNat
  <2> QED BY <2>1, <2>2, SMT
<1>4. CeilDiv(L * price, d) \in Nat
  BY <1>1, <1>2, CeilDivNat
<1>5. CeilDiv(L * price, d) <= price
  BY <1>1, <1>2, <1>3, CeilDivLe
<1> QED BY <1>4, <1>5 DEF NextPriceFromAIn

\* get_next_sqrt_price_from_amount_in_b_rounding_down only raises it.
LEMMA NextPriceFromBInMoves ==
  ASSUME NEW price \in Nat \ {0}, NEW L \in Nat \ {0}, NEW b \in Nat
  PROVE  NextPriceFromBIn(price, L, b) \in Nat /\ NextPriceFromBIn(price, L, b) >= price
<1>1. b * Scale \in Nat
  BY MulNat, ScaleAssumption
<1>2. (b * Scale) \div L \in Nat
  BY <1>1, DivNat
<1> QED BY <1>2 DEF NextPriceFromBIn

\* get_next_sqrt_price_from_amount_out_a_rounding_up only raises it.
LEMMA NextPriceFromAOutMoves ==
  ASSUME NEW price \in Nat \ {0}, NEW L \in Nat \ {0}, NEW a \in Nat,
         AOutPossible(price, L, a)
  PROVE  NextPriceFromAOut(price, L, a) \in Nat /\ NextPriceFromAOut(price, L, a) >= price
<1> DEFINE d == L - a * price
<1>1. a * price \in Nat /\ L * price \in Nat
  BY MulNat
<1>2. d \in Nat \ {0} /\ d <= L
  BY <1>1 DEF AOutPossible
<1>3. price * d <= L * price
  <2>1. L * price = price * d + price * (a * price)
    BY <1>1, SMT
  <2>2. price * (a * price) \in Nat
    BY <1>1, MulNat
  <2>3. price * d \in Int
    BY <1>2
  <2> QED BY <2>1, <2>2, <2>3, SMT
<1>4. CeilDiv(L * price, d) \in Nat
  BY <1>1, <1>2, CeilDivNat
<1>5. price <= CeilDiv(L * price, d)
  BY <1>1, <1>2, <1>3, CeilDivGe
<1> QED BY <1>4, <1>5 DEF NextPriceFromAOut

\* get_next_sqrt_price_from_amount_out_b_rounding_down only lowers it.
LEMMA NextPriceFromBOutMoves ==
  ASSUME NEW price \in Nat \ {0}, NEW L \in Nat \ {0}, NEW b \in Nat
  PROVE  NextPriceFromBOut(price, L, b) \in Int /\ NextPriceFromBOut(price, L, b) <= price
<1>1. b * Scale \in Nat
  BY MulNat, ScaleAssumption
<1>2. CeilDiv(b * Scale, L) \in Nat
  BY <1>1, CeilDivNat
<1> QED BY <1>2 DEF NextPriceFromBOut

-----------------------------------------------------------------------------
\* Fees (state/fee.rs).
LEMMA PercentPart ==
  ASSUME NEW n \in Nat, NEW percent \in 0..100
  PROVE  (n * percent) \div 100 \in 0..n
<1>1. n * percent \in Nat /\ n * percent <= n * 100
  BY SMT
<1> QED BY <1>1, DivNat, DivLe

\* split_fees hands out exactly the fee, in natural parts.
LEMMA SplitFeesWhole ==
  ASSUME NEW fee \in Nat, NEW hasReferral \in BOOLEAN
  PROVE  LET split == SplitFees(fee, hasReferral)
         IN  /\ split.trading \in Nat
             /\ split.protocol \in Nat
             /\ split.partner \in Nat
             /\ split.referral \in Nat
             /\ split.trading + split.protocol + split.partner
                  + split.referral = fee
<1> DEFINE cut == (fee * ProtocolFeePercent) \div 100
           referral == IF hasReferral
                         THEN (cut * ReferralFeePercent) \div 100 ELSE 0
           rest == cut - referral
           partner == IF HasPartner
                        THEN (rest * PartnerFeePercent) \div 100 ELSE 0
<1>1. cut \in 0..fee
  BY PercentPart, FeeAssumption
<1>2. referral \in 0..cut
  <2> HIDE DEF cut
  <2> QED BY <1>1, PercentPart, FeeAssumption
<1>3. rest \in Nat
  BY <1>1, <1>2
<1>4. partner \in 0..rest
  <2> HIDE DEF rest
  <2> QED BY <1>3, PercentPart, FeeAssumption
<1>5. SplitFees(fee, hasReferral) =
        [trading |-> fee - cut, protocol |-> rest - partner,
         partner |-> partner, referral |-> referral]
  BY DEF SplitFees
<1> HIDE DEF cut, referral, partner
<1> QED BY <1>1, <1>2, <1>3, <1>4, <1>5

\* The fee on an amount is a natural number no larger than the amount, and an
\* amount that includes its fee is no smaller than what it leaves.
LEMMA FeeOnBounds ==
  ASSUME NEW amount \in Nat, NEW num \in 0..(FeeDenominator - 1)
  PROVE  FeeOn(amount, num) \in 0..amount
<1>1. FeeDenominator \in Nat \ {0} /\ num \in Nat /\ num <= FeeDenominator
  BY FeeAssumption
<1>2. amount * num \in Nat
  BY <1>1, MulNat
<1>3. amount * num <= amount * FeeDenominator
  BY <1>1, SMT
<1> QED BY <1>1, <1>2, <1>3, CeilDivNat, CeilDivLe DEF FeeOn

\* Adding the fee to an amount never makes it smaller.
LEMMA IncludedFeeAmountBounds ==
  ASSUME NEW amount \in Nat, NEW num \in 0..(FeeDenominator - 1)
  PROVE  /\ IncludedFeeAmount(amount, num) \in Nat
         /\ amount <= IncludedFeeAmount(amount, num)
<1>1. /\ FeeDenominator \in Nat \ {0}
      /\ FeeDenominator - num \in Nat \ {0}
      /\ FeeDenominator - num <= FeeDenominator
  BY FeeAssumption
<1>2. amount * FeeDenominator \in Nat
  BY <1>1, MulNat
<1>3. amount * (FeeDenominator - num) <= amount * FeeDenominator
  BY <1>1, SMT
<1> QED BY <1>1, <1>2, <1>3, CeilDivNat, CeilDivGe DEF IncludedFeeAmount

-----------------------------------------------------------------------------
\* Transfer fees (utils/token.rs): never negative, never more than the amount.
LEMMA TransferFeeBounds ==
  ASSUME NEW t \in Tokens, NEW amount \in Nat
  PROVE  /\ TransferFeeOf(t, amount) \in 0..amount
         /\ ExcludedAmount(t, amount) \in 0..amount
<1>1. /\ BpsDenominator \in Nat \ {0}
      /\ TransferFeeBps[t] \in Nat /\ TransferFeeBps[t] <= BpsDenominator
      /\ MaxTransferFee[t] \in Nat
  BY TransferFeeAssumption
<1>2. amount * TransferFeeBps[t] \in Nat
  BY <1>1, MulNat
<1>3. amount * TransferFeeBps[t] <= amount * BpsDenominator
  BY <1>1, SMT
<1>4. CeilDiv(amount * TransferFeeBps[t], BpsDenominator) \in 0..amount
  BY <1>1, <1>2, <1>3, CeilDivNat, CeilDivLe
<1> QED BY <1>1, <1>4 DEF TransferFeeOf, ExcludedAmount, Smaller

\* What has to be sent for an amount to arrive is natural.
LEMMA IncludedAmountNat ==
  ASSUME NEW t \in Tokens, NEW amount \in Nat
  PROVE  IncludedAmount(t, amount) \in Nat
<1>1. /\ BpsDenominator \in Nat \ {0}
      /\ TransferFeeBps[t] \in Nat /\ TransferFeeBps[t] <= BpsDenominator
      /\ MaxTransferFee[t] \in Nat
  BY TransferFeeAssumption
<1>2. CASE TransferFeeBps[t] = BpsDenominator
  BY <1>1, <1>2 DEF IncludedAmount
<1>3. CASE TransferFeeBps[t] # BpsDenominator
  <2> DEFINE raw == CeilDiv(amount * BpsDenominator,
                            BpsDenominator - TransferFeeBps[t])
             pre == IF raw - amount >= MaxTransferFee[t]
                      THEN amount + MaxTransferFee[t] ELSE raw
  <2>1. amount * BpsDenominator \in Nat
    BY <1>1, MulNat
  <2>2. raw \in Nat
    <3>1. BpsDenominator - TransferFeeBps[t] \in Nat \ {0}
      BY <1>1, <1>3
    <3> QED BY <2>1, <3>1, CeilDivNat
  <2>3. pre \in Nat
    <3> HIDE DEF raw
    <3> QED BY <1>1, <2>2
  <2>4. TransferFeeOf(t, pre) \in Nat
    <3> HIDE DEF pre
    <3> QED BY <2>3, TransferFeeBounds
  <2>5. InverseFee(t, amount) = TransferFeeOf(t, pre)
    BY Zenon DEF InverseFee
  <2>6. InverseFee(t, amount) \in Nat
    BY <2>4, <2>5, Zenon
  <2> HIDE DEF raw, pre
  <2> QED BY <2>6, <1>1, <1>3 DEF IncludedAmount
<1> QED BY <1>2, <1>3

-----------------------------------------------------------------------------
\* One move of the price (calculate_* of state/pool.rs): towards the edge of
\* the range the trade goes to, natural amounts in and out.
Towards(dir, price, next) ==
  IF dir = "AtoB" THEN next <= price ELSE next >= price

\* An input moves the price in the direction of the trade.
LEMMA NextFromInputMoves ==
  ASSUME NEW price \in Nat \ {0}, NEW L \in Nat \ {0}, NEW amount \in Nat,
         NEW dir \in Directions
  PROVE  LET next == NextFromInput(price, L, amount, dir)
         IN  next \in Nat /\ Towards(dir, price, next)
BY NextPriceFromAInMoves, NextPriceFromBInMoves
   DEF NextFromInput, Towards, Directions

\* So does an output, when the reserve covers it.
LEMMA NextFromOutputMoves ==
  ASSUME NEW price \in Nat \ {0}, NEW L \in Nat \ {0}, NEW amount \in Nat,
         NEW dir \in Directions,
         dir = "BtoA" => AOutPossible(price, L, amount)
  PROVE  LET next == NextFromOutput(price, L, amount, dir)
         IN  next \in Int /\ Towards(dir, price, next)
BY NextPriceFromAOutMoves, NextPriceFromBOutMoves
   DEF NextFromOutput, Towards, Directions

\* The one check a swap makes is enough: the price cannot leave the range on
\* the side it moves away from.
LEMMA RangeKept ==
  ASSUME NEW price \in SqrtMinPrice..SqrtMaxPrice, NEW next \in Int,
         NEW dir \in Directions, Towards(dir, price, next),
         WithinRange(next, dir)
  PROVE  next \in SqrtMinPrice..SqrtMaxPrice
BY PriceAssumption DEF Towards, WithinRange, Directions

\* The amounts of a move in the direction of the trade are natural.
LEMMA MoveNat ==
  ASSUME NEW price \in SqrtMinPrice..SqrtMaxPrice,
         NEW next \in SqrtMinPrice..SqrtMaxPrice,
         NEW L \in Nat, NEW dir \in Directions, Towards(dir, price, next)
  PROVE  MoveIn(price, next, L, dir) \in Nat
         /\ MoveOut(price, next, L, dir) \in Nat
<1>1. price \in Nat \ {0} /\ next \in Nat \ {0}
  BY PriceAssumption
<1>2. CASE dir = "AtoB"
  BY <1>1, <1>2, DeltaNat DEF MoveIn, MoveOut, Towards
<1>3. CASE dir = "BtoA"
  BY <1>1, <1>3, DeltaNat DEF MoveIn, MoveOut, Towards
<1> QED BY <1>2, <1>3 DEF Directions

\* The trading fee of a swap (fee_rate_limiter.rs, state/fee.rs): whatever the
\* amount, the numerator is at most the cap and so less than the whole.
LEMMA BandFeesNat ==
  ASSUME NEW f \in TradeFeeRecord, f.limited, NEW amount \in Nat,
         amount > f.reference
  PROVE  BandFees(f, amount) \in Nat
<1> DEFINE over == amount - f.reference
           a == over \div f.reference
           m == MaxIndex(f)
           n == Smaller(a, m)
           full == f.cliff + f.cliff * n + (f.increment * n * (n + 1)) \div 2
<1>1. /\ f.cliff \in Nat /\ f.max \in Nat /\ f.increment \in Nat \ {0}
      /\ f.reference \in Nat \ {0} /\ f.max - f.cliff \in Nat
  BY DEF TradeFeeRecord
<1>2. over \in Nat
  BY <1>1
<1>3. a \in Nat /\ over % f.reference \in Nat
  <2> HIDE DEF over
  <2> QED BY <1>1, <1>2, DivNat
<1>4. m \in Nat
  BY <1>1, DivNat DEF MaxIndex
<1>5. n \in Nat /\ n <= a
  <2> HIDE DEF a, m
  <2> QED BY <1>3, <1>4 DEF Smaller
<1>6. n * f.reference <= over
  <2>1. a * f.reference <= over
    <3> HIDE DEF over
    <3> QED BY <1>1, <1>2, SMT
  <2>2. n * f.reference <= a * f.reference
    <3> HIDE DEF a, n
    <3> QED BY <1>1, <1>3, <1>5, SMT
  <2>3. /\ n * f.reference \in Int /\ a * f.reference \in Int
    <3> HIDE DEF a, n
    <3> QED BY <1>1, <1>3, <1>5
  <2> HIDE DEF over, a, n
  <2> QED BY <1>2, <2>1, <2>2, <2>3
<1> HIDE DEF over, a, m, n
<1>7. full \in Nat
  <2>1. f.cliff * n \in Nat /\ f.increment * n * (n + 1) \in Nat
    BY <1>1, <1>5, MulNat
  <2>2. (f.increment * n * (n + 1)) \div 2 \in Nat
    BY <2>1, DivNat
  <2> QED BY <1>1, <2>1, <2>2
<1> HIDE DEF full
<1>8. /\ f.reference * full \in Nat
      /\ (over % f.reference) * (f.cliff + f.increment * (a + 1)) \in Nat
      /\ (over - n * f.reference) * f.max \in Nat
  <2>1. f.increment * (a + 1) \in Nat
    BY <1>1, <1>3, MulNat
  <2>2. over - n * f.reference \in Nat
    <3>1. n * f.reference \in Int
      BY <1>1, <1>5
    <3> QED BY <1>2, <1>6, <3>1
  <2> QED BY <1>1, <1>3, <1>7, <2>1, <2>2, MulNat
<1>9. BandFees(f, amount)
        = f.reference * full
            + IF a < m THEN (over % f.reference)
                              * (f.cliff + f.increment * (a + 1))
                       ELSE (over - n * f.reference) * f.max
  BY DEF BandFees, over, a, m, n, full
<1> QED BY <1>8, <1>9

\* get_fee_numerator_from_included_fee_amount is natural.
LEMMA LimiterNumeratorNat ==
  ASSUME NEW f \in TradeFeeRecord, f.limited, NEW amount \in Nat
  PROVE  LimiterNumerator(f, amount) \in Nat
<1>1. f.cliff \in Nat /\ f.reference \in Nat
  BY DEF TradeFeeRecord
<1>2. CASE amount <= f.reference
  BY <1>1, <1>2 DEF LimiterNumerator
<1>3. CASE ~(amount <= f.reference)
  <2>1. amount > f.reference /\ amount \in Nat \ {0}
    BY <1>1, <1>3
  <2>2. BandFees(f, amount) \in Nat
    BY <2>1, BandFeesNat
  <2>3. FeeDenominator \in Nat \ {0}
    BY FeeAssumption
  <2>4. CeilDiv(BandFees(f, amount), FeeDenominator) * FeeDenominator \in Nat
    BY <2>2, <2>3, CeilDivNat, MulNat
  <2> QED BY <1>3, <2>1, <2>4, CeilDivNat DEF LimiterNumerator
<1> QED BY <1>2, <1>3

\* get_total_fee_numerator caps what the base and the variable fee add up to.
LEMMA TotalNumeratorBounds ==
  ASSUME NEW base \in Nat, NEW f \in TradeFeeRecord
  PROVE  TotalNumerator(base, f) \in 0..(FeeDenominator - 1)
BY MaxFeeAssumption, FeeAssumption DEF TotalNumerator, Smaller, TradeFeeRecord

\* get_total_trading_fee_from_included_fee_amount
LEMMA NumeratorForBounds ==
  ASSUME NEW f \in TradeFeeRecord, NEW amount \in Nat
  PROVE  NumeratorFor(amount, f) \in 0..(FeeDenominator - 1)
<1>1. BaseFromIncluded(f, amount) \in Nat
  BY LimiterNumeratorNat DEF BaseFromIncluded, TradeFeeRecord
<1> QED BY <1>1, TotalNumeratorBounds DEF NumeratorFor

\* get_fee_numerator_from_excluded_fee_amount, when it returns one, returns a
\* natural number.
LEMMA LimiterFromExcludedNat ==
  ASSUME NEW f \in TradeFeeRecord, f.limited, NEW ex \in Nat
  PROVE  LimiterFromExcluded(f, ex) \subseteq Nat
<1>1. /\ f.cliff \in Nat /\ f.max \in Nat /\ f.increment \in Nat \ {0}
      /\ f.reference \in Nat /\ f.max - f.cliff \in Nat
  BY DEF TradeFeeRecord
<1>2. (MaxIndex(f) + 1) * f.reference \in Nat
  <2>1. MaxIndex(f) \in Nat
    BY <1>1, DivNat DEF MaxIndex
  <2> QED BY <1>1, <2>1, MulNat
<1>3. CheckedAmount(f) \in Nat
  BY <1>2, AmountAssumption DEF CheckedAmount, Smaller
<1>4. LimiterNumerator(f, CheckedAmount(f)) \in Nat
  BY <1>3, LimiterNumeratorNat
<1> QED BY <1>1, <1>4 DEF LimiterFromExcluded

\* get_included_fee_amount adds the fee to what should be left.
LEMMA AmountsIncludingBounds ==
  ASSUME NEW f \in TradeFeeRecord, NEW amount \in Nat,
         NEW total \in AmountsIncluding(amount, f)
  PROVE  total \in Nat /\ amount <= total
<1>1. BaseFromExcluded(f, amount) \subseteq Nat
  BY LimiterFromExcludedNat DEF BaseFromExcluded, TradeFeeRecord
<1>2. PICK base \in Nat :
        total = IncludedFeeAmount(amount, TotalNumerator(base, f))
  BY <1>1 DEF AmountsIncluding
<1>3. TotalNumerator(base, f) \in 0..(FeeDenominator - 1)
  BY TotalNumeratorBounds
<1> QED BY <1>2, <1>3, IncludedFeeAmountBounds

\* Leaving the limiter out of a sale leaves a trade fee.
LEMMA FeeForRecord ==
  ASSUME NEW f \in TradeFeeRecord, NEW dir
  PROVE  FeeFor(dir, f) \in TradeFeeRecord
BY DEF FeeFor, TradeFeeRecord

\* What every quote satisfies, whatever the mode.
SoundResult(r) ==
  /\ r.in \in Nat
  /\ r.out \in Nat
  /\ r.fee \in Nat
  /\ r.next \in SqrtMinPrice..SqrtMaxPrice

\* get_swap_result_from_exact_input.
LEMMA ExactInSound ==
  ASSUME NEW price \in SqrtMinPrice..SqrtMaxPrice, NEW L \in Nat \ {0},
         NEW amountIn \in Nat, NEW dir \in Directions,
         NEW f \in TradeFeeRecord,
         NEW r \in ExactIn(price, L, amountIn, dir, f)
  PROVE  SoundResult(r)
<1> DEFINE num   == NumeratorFor(amountIn, f)
           feeIn == IF FeesOnInput(dir) THEN FeeOn(amountIn, num) ELSE 0
           next  == NextFromInput(price, L, amountIn - feeIn, dir)
           gross == MoveOut(price, next, L, dir)
           feeOut == IF FeesOnInput(dir) THEN 0 ELSE FeeOn(gross, num)
<1>0. num \in 0..(FeeDenominator - 1)
  BY NumeratorForBounds
<1>1. feeIn \in 0..amountIn
  <2> HIDE DEF num
  <2> QED BY <1>0, FeeOnBounds
<1>2. price \in Nat \ {0}
  BY PriceAssumption
<1>3. amountIn - feeIn \in Nat
  <2> HIDE DEF feeIn
  <2> QED BY <1>1
<1>4. next \in Nat /\ Towards(dir, price, next)
  <2> HIDE DEF feeIn
  <2> QED BY <1>2, <1>3, NextFromInputMoves
<1>5. /\ WithinRange(next, dir)
      /\ r = [in |-> amountIn, out |-> gross - feeOut,
              fee |-> feeIn + feeOut, next |-> next, left |-> 0]
  BY DEF ExactIn
<1>6. next \in SqrtMinPrice..SqrtMaxPrice
  <2> HIDE DEF next
  <2> QED BY <1>4, <1>5, RangeKept
<1>7. gross \in Nat
  <2> HIDE DEF next
  <2> QED BY <1>4, <1>6, MoveNat
<1>8. feeOut \in 0..gross
  <2> HIDE DEF gross, num
  <2> QED BY <1>0, <1>7, FeeOnBounds
<1> HIDE DEF feeIn, next, gross, feeOut
<1> QED BY <1>1, <1>5, <1>6, <1>7, <1>8 DEF SoundResult

\* get_swap_result_from_exact_output.
LEMMA ExactOutSound ==
  ASSUME NEW price \in SqrtMinPrice..SqrtMaxPrice, NEW L \in Nat \ {0},
         NEW amountOut \in Nat, NEW dir \in Directions,
         NEW f \in TradeFeeRecord,
         NEW r \in ExactOut(price, L, amountOut, dir, f)
  PROVE  SoundResult(r)
<1> DEFINE onInput == FeesOnInput(dir)
           grosses == IF onInput THEN {amountOut}
                                 ELSE AmountsIncluding(amountOut, f)
           next(gross) == NextFromOutput(price, L, gross, dir)
           net(gross)  == MoveIn(price, next(gross), L, dir)
           totals(gross) == IF onInput THEN AmountsIncluding(net(gross), f)
                                       ELSE {net(gross)}
<1>1. PICK gross \in grosses :
        /\ dir = "BtoA" => AOutPossible(price, L, gross)
        /\ WithinRange(next(gross), dir)
        /\ \E total \in totals(gross) :
             r = [in |-> total, out |-> amountOut,
                  fee |-> (gross - amountOut) + (total - net(gross)),
                  next |-> next(gross), left |-> 0]
  BY DEF ExactOut
<1>2. PICK total \in totals(gross) :
        r = [in |-> total, out |-> amountOut,
             fee |-> (gross - amountOut) + (total - net(gross)),
             next |-> next(gross), left |-> 0]
  BY <1>1
<1>3. gross \in Nat /\ amountOut <= gross
  BY AmountsIncludingBounds
<1>4. price \in Nat \ {0}
  BY PriceAssumption
<1>5. next(gross) \in Int /\ Towards(dir, price, next(gross))
  BY <1>1, <1>3, <1>4, NextFromOutputMoves
<1>6. next(gross) \in SqrtMinPrice..SqrtMaxPrice
  <2> HIDE DEF next
  <2> QED BY <1>1, <1>5, RangeKept
<1>7. net(gross) \in Nat
  <2> HIDE DEF next
  <2> QED BY <1>3, <1>5, <1>6, MoveNat
<1>8. total \in Nat /\ net(gross) <= total
  <2> HIDE DEF net
  <2> QED BY <1>7, AmountsIncludingBounds
<1> HIDE DEF grosses, next, net, totals
<1> QED BY <1>2, <1>3, <1>6, <1>7, <1>8 DEF SoundResult

\* The partial fill does not check the range after moving the price
\* (calculate_*_from_partial_amount_in): less than what reaches the edge is
\* enough for the next price to stay inside it, rounding included.
LEMMA PartialStaysInside ==
  ASSUME NEW price \in SqrtMinPrice..SqrtMaxPrice, NEW L \in Nat \ {0},
         NEW net \in Nat, NEW dir \in Directions,
         net < MoveIn(price, IF dir = "AtoB" THEN SqrtMinPrice
                                             ELSE SqrtMaxPrice, L, dir)
  PROVE  WithinRange(NextFromInput(price, L, net, dir), dir)
<1> DEFINE m == SqrtMinPrice
           M == SqrtMaxPrice
<1>1. price \in Nat \ {0} /\ m \in Nat \ {0} /\ M \in Nat \ {0}
      /\ m <= price /\ price <= M
  BY PriceAssumption
<1>2. CASE dir = "AtoB"
  <2>1. net < CeilDiv(L * (price - m), m * price)
    BY <1>2 DEF MoveIn, DeltaA, DivRound
  <2>2. m * price \in Nat \ {0} /\ L * (price - m) \in Nat
    <3>1. price - m \in Nat
      BY <1>1
    <3> QED BY <1>1, <3>1, MulPos, MulNat
  <2>3. net * (m * price) < L * (price - m)
    BY <2>1, <2>2, CeilDivGt
  <2>4. net * price \in Nat /\ L * price \in Nat
    BY <1>1, MulNat
  <2>5. L + net * price \in Nat \ {0}
    BY <2>4
  <2>6. m * (L + net * price) <= L * price
    <3>1. m * (L + net * price) = m * L + net * (m * price)
      BY <1>1, SMT
    <3>2. L * (price - m) = L * price - m * L
      BY <1>1, SMT
    <3> HIDE DEF m
    <3>3. m * L \in Int /\ net * (m * price) \in Int
      BY <1>1, <2>2
    <3> QED BY <2>3, <2>4, <3>1, <3>2, <3>3, SMT
  <2>7. m <= CeilDiv(L * price, L + net * price)
    BY <1>1, <2>4, <2>5, <2>6, CeilDivGe
  <2> QED BY <1>2, <2>7 DEF WithinRange, NextFromInput, NextPriceFromAIn
<1>3. CASE dir = "BtoA"
  <2>1. net < CeilDiv(L * (M - price), Scale)
    BY <1>3 DEF MoveIn, DeltaB, DivRound
  <2>2. Scale \in Nat \ {0} /\ M - price \in Nat /\ L * (M - price) \in Nat
    BY <1>1, ScaleAssumption, MulNat
  <2>3. net * Scale < L * (M - price)
    BY <2>1, <2>2, CeilDivGt
  <2>4. net * Scale <= (M - price) * L
    BY <2>2, <2>3, SMT
  <2>5. net * Scale \in Nat
    BY <2>2, MulNat
  <2>6. (net * Scale) \div L <= M - price
    BY <2>2, <2>4, <2>5, DivLe
  <2>7. (net * Scale) \div L \in Nat
    BY <2>5, DivNat
  <2> QED BY <1>1, <1>3, <2>6, <2>7
          DEF WithinRange, NextFromInput, NextPriceFromBIn
<1> QED BY <1>2, <1>3 DEF Directions

\* get_swap_result_from_partial_input.
LEMMA PartialInSound ==
  ASSUME NEW price \in SqrtMinPrice..SqrtMaxPrice, NEW L \in Nat \ {0},
         NEW amountIn \in Nat, NEW dir \in Directions,
         NEW f \in TradeFeeRecord,
         NEW r \in PartialIn(price, L, amountIn, dir, f)
  PROVE  SoundResult(r)
<1> DEFINE onInput == FeesOnInput(dir)
           num     == NumeratorFor(amountIn, f)
           net     == IF onInput THEN amountIn - FeeOn(amountIn, num)
                                 ELSE amountIn
           edge    == IF dir = "AtoB" THEN SqrtMinPrice ELSE SqrtMaxPrice
           maxIn   == MoveIn(price, edge, L, dir)
           atEdge  == net >= maxIn
           used    == IF atEdge THEN maxIn ELSE net
           next    == IF atEdge THEN edge ELSE NextFromInput(price, L, net, dir)
           gross   == MoveOut(price, next, L, dir)
           totals  == IF used = net THEN {amountIn}
                      ELSE IF onInput THEN AmountsIncluding(used, f)
                                      ELSE {used}
           fee(total) == IF onInput THEN total - used ELSE FeeOn(gross, num)
<1>0. num \in 0..(FeeDenominator - 1)
  BY NumeratorForBounds
<1>1. price \in Nat \ {0}
  BY PriceAssumption
<1>2. net \in 0..amountIn
  <2> HIDE DEF num
  <2> QED BY <1>0, FeeOnBounds
<1>3. edge \in SqrtMinPrice..SqrtMaxPrice /\ Towards(dir, price, edge)
  BY PriceAssumption DEF Towards, Directions
<1>4. maxIn \in Nat
  <2> HIDE DEF edge
  <2> QED BY <1>3, MoveNat
<1>5. used \in 0..net
  <2> HIDE DEF net, maxIn
  <2> QED BY <1>2, <1>4
<1>6. next \in SqrtMinPrice..SqrtMaxPrice /\ Towards(dir, price, next)
  <2>1. CASE atEdge
    BY <1>3, <2>1
  <2>2. CASE ~atEdge
    <3>1. net \in Nat /\ net < maxIn
      <4> HIDE DEF net, maxIn
      <4> QED BY <1>2, <1>4, <2>2
    <3> HIDE DEF net
    <3>2. NextFromInput(price, L, net, dir) \in Nat
          /\ Towards(dir, price, NextFromInput(price, L, net, dir))
      BY <1>1, <3>1, NextFromInputMoves
    <3>3. WithinRange(NextFromInput(price, L, net, dir), dir)
      BY <3>1, PartialStaysInside
    <3> QED BY <2>2, <3>2, <3>3, RangeKept
  <2> QED BY <2>1, <2>2
<1>7. gross \in Nat
  <2> HIDE DEF next
  <2> QED BY <1>6, MoveNat
<1>8. PICK total \in totals :
        r = [in |-> total, out |-> IF onInput THEN gross ELSE gross - fee(total),
             fee |-> fee(total), next |-> next, left |-> net - used]
  BY DEF PartialIn
<1>9. total \in Nat /\ used <= total
  <2> HIDE DEF used, net
  <2> QED BY <1>2, <1>5, <1>8, AmountsIncludingBounds
<1>10. /\ fee(total) \in Nat
       /\ ~onInput => gross - fee(total) \in Nat
  <2> HIDE DEF gross, totals, used, num
  <2> QED BY <1>0, <1>2, <1>5, <1>7, <1>9, FeeOnBounds
<1> HIDE DEF onInput, net, used, next, gross, totals, fee
<1> QED BY <1>6, <1>7, <1>8, <1>9, <1>10 DEF SoundResult
-----------------------------------------------------------------------------
\* A move of the price is paid for when the pool gains at least what the
\* liquidity between the two prices is worth, and gives at most that.
PaidFor(price, next, L, a, b) ==
  /\ a * (price * next) >= L * (price - next)
  /\ b * Scale >= L * (next - price)

\* Changes of A and of B when `in` comes in and `out` goes out.
ChangeOfA(dir, in, out) == IF dir = "AtoB" THEN in ELSE -out
ChangeOfB(dir, in, out) == IF dir = "AtoB" THEN -out ELSE in

\* One side of a move each: what comes in pays for it, what goes out is not
\* more than it is worth.
InPays(dir, price, next, L, in) ==
  IF dir = "AtoB" THEN in * (price * next) >= L * (price - next)
                  ELSE in * Scale >= L * (next - price)

OutFair(dir, price, next, L, out) ==
  IF dir = "AtoB" THEN out * Scale <= L * (price - next)
                  ELSE out * (price * next) <= L * (next - price)

\* What the program asks for a move is enough for it, in whole tokens.
LEMMA MoveInEnough ==
  ASSUME NEW price \in Nat \ {0}, NEW next \in Nat \ {0}, NEW L \in Nat,
         NEW dir \in Directions
  PROVE  LET in == MoveIn(price, next, L, dir)
         IN  in \in Int /\ InPays(dir, price, next, L, in)
<1>1. /\ L * (price - next) \in Int /\ L * (next - price) \in Int
      /\ next * price \in Nat \ {0} /\ next * price = price * next
  BY MulPos
<1>2. CASE dir = "AtoB"
  <2>1. MoveIn(price, next, L, dir) = CeilDiv(L * (price - next), next * price)
    BY <1>2 DEF MoveIn, DeltaA, DivRound
  <2> QED BY <1>1, <1>2, <2>1, CeilDivEnough DEF InPays
<1>3. CASE dir = "BtoA"
  <2>1. MoveIn(price, next, L, dir) = CeilDiv(L * (next - price), Scale)
    BY <1>3 DEF MoveIn, DeltaB, DivRound
  <2> QED BY <1>1, <1>3, <2>1, CeilDivEnough, ScaleAssumption DEF InPays
<1> QED BY <1>2, <1>3 DEF Directions

\* What it gives for a move is not too much.
LEMMA MoveOutFair ==
  ASSUME NEW price \in Nat \ {0}, NEW next \in Nat \ {0}, NEW L \in Nat,
         NEW dir \in Directions
  PROVE  LET out == MoveOut(price, next, L, dir)
         IN  out \in Int /\ OutFair(dir, price, next, L, out)
<1>1. /\ L * (price - next) \in Int /\ L * (next - price) \in Int
      /\ price * next \in Nat \ {0}
  BY MulPos
<1>2. CASE dir = "AtoB"
  <2>1. MoveOut(price, next, L, dir) = (L * (price - next)) \div Scale
    BY <1>2 DEF MoveOut, DeltaB, DivRound
  <2> QED BY <1>1, <1>2, <2>1, DivEnough, ScaleAssumption DEF OutFair
<1>3. CASE dir = "BtoA"
  <2>1. MoveOut(price, next, L, dir) = (L * (next - price)) \div (price * next)
    BY <1>3 DEF MoveOut, DeltaA, DivRound
  <2> QED BY <1>1, <1>3, <2>1, DivEnough DEF OutFair
<1> QED BY <1>2, <1>3 DEF Directions

\* An input moves the price no further than it pays for.
LEMMA NextFromInputPaid ==
  ASSUME NEW price \in Nat \ {0}, NEW L \in Nat \ {0}, NEW in \in Nat,
         NEW dir \in Directions
  PROVE  LET next == NextFromInput(price, L, in, dir)
         IN  InPays(dir, price, next, L, in)
<1>1. CASE dir = "AtoB"
  <2> DEFINE next == CeilDiv(L * price, L + in * price)
  <2>1. L * price \in Int /\ in * price \in Nat /\ L + in * price \in Nat \ {0}
    BY MulNat
  <2>2. next \in Int /\ L * price <= next * (L + in * price)
    BY <2>1, CeilDivEnough
  <2>3. NextFromInput(price, L, in, dir) = next
    BY <1>1 DEF NextFromInput, NextPriceFromAIn
  <2> HIDE DEF next
  <2>4. next * (L + in * price) = next * L + in * (price * next)
    BY <2>2
  <2>5. L * (price - next) = L * price - next * L
    BY <2>2
  <2>6. next * L \in Int /\ in * (price * next) \in Int /\ L * price \in Int
    BY <2>2
  <2>7. in * (price * next) >= L * (price - next)
    BY <2>2, <2>4, <2>5, <2>6
  <2> QED BY <1>1, <2>3, <2>7 DEF InPays
<1>2. CASE dir = "BtoA"
  <2> DEFINE gain == (in * Scale) \div L
  <2>1. gain \in Int /\ gain * L <= in * Scale
    BY DivEnough, ScaleAssumption
  <2>2. NextFromInput(price, L, in, dir) = price + gain
    BY <1>2 DEF NextFromInput, NextPriceFromBIn
  <2> HIDE DEF gain
  <2>3. L * ((price + gain) - price) = gain * L
    BY <2>1
  <2> QED BY <1>2, <2>1, <2>2, <2>3 DEF InPays
<1> QED BY <1>1, <1>2 DEF Directions

\* An output moves the price at least as far as it is worth.
LEMMA NextFromOutputFair ==
  ASSUME NEW price \in Nat \ {0}, NEW L \in Nat \ {0}, NEW out \in Nat,
         NEW dir \in Directions,
         dir = "BtoA" => AOutPossible(price, L, out)
  PROVE  LET next == NextFromOutput(price, L, out, dir)
         IN  OutFair(dir, price, next, L, out)
<1>1. CASE dir = "BtoA"
  <2> DEFINE next == CeilDiv(L * price, L - out * price)
  <2>1. L * price \in Int /\ out * price \in Nat /\ L - out * price \in Nat \ {0}
    <3>1. out * price < L /\ out * price \in Nat
      BY <1>1, MulNat DEF AOutPossible
    <3> QED BY <3>1
  <2>2. next \in Int /\ L * price <= next * (L - out * price)
    BY <2>1, CeilDivEnough
  <2>3. NextFromOutput(price, L, out, dir) = next
    BY <1>1 DEF NextFromOutput, NextPriceFromAOut
  <2> HIDE DEF next
  <2>4. next * (L - out * price) = next * L - out * (price * next)
    BY <2>2
  <2>5. L * (next - price) = next * L - L * price
    BY <2>2
  <2>6. next * L \in Int /\ out * (price * next) \in Int /\ L * price \in Int
    BY <2>2
  <2>7. out * (price * next) <= L * (next - price)
    BY <2>2, <2>4, <2>5, <2>6
  <2> QED BY <1>1, <2>3, <2>7 DEF OutFair
<1>2. CASE dir = "AtoB"
  <2> DEFINE loss == CeilDiv(out * Scale, L)
  <2>1. out * Scale \in Int
    BY ScaleAssumption
  <2>2. loss \in Int /\ out * Scale <= loss * L
    BY <2>1, CeilDivEnough
  <2>3. NextFromOutput(price, L, out, dir) = price - loss
    BY <1>2 DEF NextFromOutput, NextPriceFromBOut
  <2> HIDE DEF loss
  <2>4. L * (price - (price - loss)) = loss * L
    BY <2>2
  <2> QED BY <1>2, <2>2, <2>3, <2>4 DEF OutFair
<1> QED BY <1>1, <1>2 DEF Directions

\* The two sides of a move, put together.
LEMMA SidesPaid ==
  ASSUME NEW price \in Nat \ {0}, NEW next \in Nat \ {0}, NEW L \in Nat,
         NEW dir \in Directions, NEW in \in Int, NEW out \in Int,
         InPays(dir, price, next, L, in), OutFair(dir, price, next, L, out)
  PROVE  PaidFor(price, next, L, ChangeOfA(dir, in, out), ChangeOfB(dir, in, out))
<1>1. Scale \in Int /\ price * next \in Int
  BY ScaleAssumption
<1>2. ASSUME NEW k \in Int, NEW x \in Int, NEW y \in Int, out * k <= L * (x - y)
      PROVE  (-out) * k >= L * (y - x)
  <2>1. (-out) * k = -(out * k) /\ L * (y - x) = -(L * (x - y))
    OBVIOUS
  <2>2. out * k \in Int /\ L * (x - y) \in Int
    OBVIOUS
  <2> QED BY <1>2, <2>1, <2>2
<1>3. CASE dir = "AtoB"
  <2>1. (-out) * Scale >= L * (next - price)
    BY <1>1, <1>2, <1>3 DEF OutFair
  <2> QED BY <1>3, <2>1 DEF InPays, OutFair, PaidFor, ChangeOfA, ChangeOfB
<1>4. CASE dir = "BtoA"
  <2>1. (-out) * (price * next) >= L * (price - next)
    BY <1>1, <1>2, <1>4 DEF OutFair
  <2> QED BY <1>4, <2>1 DEF InPays, OutFair, PaidFor, ChangeOfA, ChangeOfB
<1> QED BY <1>3, <1>4 DEF Directions

\* What of a result trades: the input without the fee taken from it, the
\* output with the fee taken from it.
NetIn(dir, in, fee)    == IF FeesOnInput(dir) THEN in - fee ELSE in
GrossOut(dir, out, fee) == IF FeesOnInput(dir) THEN out ELSE out + fee

FairResult(price, L, dir, r) ==
  LET in  == NetIn(dir, r.in, r.fee)
      out == GrossOut(dir, r.out, r.fee)
  IN  PaidFor(price, r.next, L, ChangeOfA(dir, in, out), ChangeOfB(dir, in, out))

\* get_swap_result_from_exact_input
LEMMA ExactInFair ==
  ASSUME NEW price \in SqrtMinPrice..SqrtMaxPrice, NEW L \in Nat \ {0},
         NEW amountIn \in Nat, NEW dir \in Directions,
         NEW f \in TradeFeeRecord,
         NEW r \in ExactIn(price, L, amountIn, dir, f)
  PROVE  r.in = amountIn /\ FairResult(price, L, dir, r)
<1> DEFINE num   == NumeratorFor(amountIn, f)
           feeIn == IF FeesOnInput(dir) THEN FeeOn(amountIn, num) ELSE 0
           net   == amountIn - feeIn
           next  == NextFromInput(price, L, net, dir)
           gross == MoveOut(price, next, L, dir)
           feeOut == IF FeesOnInput(dir) THEN 0 ELSE FeeOn(gross, num)
<1>1. /\ r = [in |-> amountIn, out |-> gross - feeOut,
              fee |-> feeIn + feeOut, next |-> next, left |-> 0]
  BY DEF ExactIn
<1>2. price \in Nat \ {0} /\ num \in 0..(FeeDenominator - 1)
  BY PriceAssumption, NumeratorForBounds
<1>3. feeIn \in Nat /\ net \in Nat
  <2>1. FeeOn(amountIn, num) \in 0..amountIn
    BY <1>2, FeeOnBounds
  <2> HIDE DEF num
  <2> QED BY <2>1
<1>4. next \in Nat \ {0}
  <2>1. r.next \in SqrtMinPrice..SqrtMaxPrice /\ r.next = next
    BY <1>1, ExactInSound DEF SoundResult
  <2> HIDE DEF next
  <2> QED BY <2>1, PriceAssumption
<1>5. InPays(dir, price, next, L, net)
  <2> HIDE DEF net
  <2> QED BY <1>2, <1>3, NextFromInputPaid
<1>6. gross \in Int /\ OutFair(dir, price, next, L, gross)
  <2> HIDE DEF next
  <2> QED BY <1>2, <1>4, MoveOutFair
<1>7. NetIn(dir, r.in, r.fee) = net /\ GrossOut(dir, r.out, r.fee) = gross
  <2>1. r.in = amountIn /\ r.out = gross - feeOut /\ r.fee = feeIn + feeOut
    BY <1>1
  <2>2. feeOut \in Int
    <3>1. r.fee \in Nat
      BY ExactInSound DEF SoundResult
    <3>2. CASE FeesOnInput(dir)
      BY <3>2
    <3>3. CASE ~FeesOnInput(dir)
      <4>1. r.fee = 0 + feeOut /\ feeOut = FeeOn(gross, num)
        BY <2>1, <3>3
      <4>2. gross \in Nat
        <5>1. price \in SqrtMinPrice..SqrtMaxPrice /\ next \in SqrtMinPrice..SqrtMaxPrice
          BY <1>1, ExactInSound DEF SoundResult
        <5>2. Towards(dir, price, next)
          <6> HIDE DEF net
          <6> QED BY <1>2, <1>3, NextFromInputMoves
        <5> HIDE DEF next
        <5> QED BY <5>1, <5>2, MoveNat
      <4>3. FeeOn(gross, num) \in 0..gross
        <5> HIDE DEF gross, num
        <5> QED BY <1>2, <4>2, FeeOnBounds
      <4> HIDE DEF gross, num
      <4> QED BY <4>1, <4>2, <4>3
    <3> QED BY <3>2, <3>3
  <2>3. CASE FeesOnInput(dir)
    <3>1. feeOut = 0
      BY <2>3
    <3> HIDE DEF feeOut, gross
    <3> QED BY <1>3, <1>6, <2>1, <2>3, <3>1 DEF NetIn, GrossOut
  <2>4. CASE ~FeesOnInput(dir)
    <3>1. feeIn = 0
      BY <2>4
    <3> HIDE DEF feeOut, feeIn, gross
    <3>2. r.out + r.fee = gross
      BY <1>6, <2>1, <2>2, <3>1
    <3> QED BY <2>1, <2>4, <3>1, <3>2 DEF NetIn, GrossOut
  <2> QED BY <2>3, <2>4
<1>8. r.next = next /\ r.in = amountIn
  BY <1>1
<1> HIDE DEF net, next, gross
<1>9. PaidFor(price, next, L, ChangeOfA(dir, net, gross), ChangeOfB(dir, net, gross))
  BY <1>2, <1>3, <1>4, <1>5, <1>6, SidesPaid
<1> QED BY <1>7, <1>8, <1>9 DEF FairResult

\* get_swap_result_from_exact_output
LEMMA ExactOutFair ==
  ASSUME NEW price \in SqrtMinPrice..SqrtMaxPrice, NEW L \in Nat \ {0},
         NEW amountOut \in Nat, NEW dir \in Directions,
         NEW f \in TradeFeeRecord,
         NEW r \in ExactOut(price, L, amountOut, dir, f)
  PROVE  r.out = amountOut /\ FairResult(price, L, dir, r)
<1> DEFINE onInput == FeesOnInput(dir)
           grosses == IF onInput THEN {amountOut}
                                 ELSE AmountsIncluding(amountOut, f)
           next(gross) == NextFromOutput(price, L, gross, dir)
           net(gross)  == MoveIn(price, next(gross), L, dir)
           totals(gross) == IF onInput THEN AmountsIncluding(net(gross), f)
                                       ELSE {net(gross)}
<1>1. PICK gross \in grosses :
        /\ dir = "BtoA" => AOutPossible(price, L, gross)
        /\ \E total \in totals(gross) :
             r = [in |-> total, out |-> amountOut,
                  fee |-> (gross - amountOut) + (total - net(gross)),
                  next |-> next(gross), left |-> 0]
  <2> DEFINE Move(gross) ==
        IF /\ dir = "BtoA" => AOutPossible(price, L, gross)
           /\ dir = "AtoB" => next(gross) >= 0
           /\ WithinRange(next(gross), dir)
          THEN {[in |-> total, out |-> amountOut,
                 fee |-> (gross - amountOut) + (total - net(gross)),
                 next |-> next(gross), left |-> 0] : total \in totals(gross)}
          ELSE {}
  <2>1. r \in UNION {Move(gross) : gross \in grosses}
    BY DEF ExactOut
  <2> HIDE DEF Move
  <2>2. PICK gross \in grosses : r \in Move(gross)
    BY <2>1
  <2>3. /\ dir = "BtoA" => AOutPossible(price, L, gross)
        /\ r \in {[in |-> total, out |-> amountOut,
                   fee |-> (gross - amountOut) + (total - net(gross)),
                   next |-> next(gross), left |-> 0] : total \in totals(gross)}
    BY <2>2 DEF Move
  <2> QED BY <2>2, <2>3
<1>2. PICK total \in totals(gross) :
        r = [in |-> total, out |-> amountOut,
             fee |-> (gross - amountOut) + (total - net(gross)),
             next |-> next(gross), left |-> 0]
  BY <1>1
<1>3. gross \in Nat
  BY AmountsIncludingBounds
<1>4. price \in Nat \ {0}
  BY PriceAssumption
<1>5. /\ r.next = next(gross) /\ r.in = total /\ r.out = amountOut
      /\ r.fee = (gross - amountOut) + (total - net(gross))
  BY <1>2
<1>6. next(gross) \in Nat \ {0} /\ total \in Nat
  <2>1. r.next \in SqrtMinPrice..SqrtMaxPrice /\ r.in \in Nat
    BY ExactOutSound DEF SoundResult
  <2> HIDE DEF next, net
  <2> QED BY <1>5, <2>1, PriceAssumption
<1>7. /\ net(gross) \in Int
      /\ InPays(dir, price, next(gross), L, net(gross))
  <2> HIDE DEF next
  <2> QED BY <1>4, <1>6, MoveInEnough
<1>8. OutFair(dir, price, next(gross), L, gross)
  BY <1>1, <1>3, <1>4, NextFromOutputFair
<1>9. NetIn(dir, r.in, r.fee) = net(gross) /\ GrossOut(dir, r.out, r.fee) = gross
  <2>1. CASE onInput
    <3>1. gross = amountOut
      BY <2>1
    <3> HIDE DEF next, net
    <3> QED BY <1>3, <1>5, <1>6, <1>7, <2>1, <3>1 DEF NetIn, GrossOut
  <2>2. CASE ~onInput
    <3>1. total = net(gross)
      BY <2>2
    <3> HIDE DEF next, net
    <3> QED BY <1>3, <1>5, <1>6, <1>7, <2>2, <3>1 DEF NetIn, GrossOut
  <2> QED BY <2>1, <2>2
<1> DEFINE to == next(gross)
           in == net(gross)
<1>10. to \in Nat \ {0} /\ in \in Int /\ gross \in Int /\ L \in Nat /\ r.next = to
       /\ NetIn(dir, r.in, r.fee) = in
       /\ InPays(dir, price, to, L, in) /\ OutFair(dir, price, to, L, gross)
  BY <1>3, <1>5, <1>6, <1>7, <1>8, <1>9
<1> HIDE DEF to, in, next, net
<1>11. PaidFor(price, to, L, ChangeOfA(dir, in, gross), ChangeOfB(dir, in, gross))
  <2> HIDE DEF grosses, onInput
  <2> QED BY <1>4, <1>10, SidesPaid
<1>12. r.out = amountOut /\ GrossOut(dir, r.out, r.fee) = gross
  BY <1>5, <1>9
<1> QED BY <1>10, <1>11, <1>12 DEF FairResult

\* get_swap_result_from_partial_input
LEMMA PartialInFair ==
  ASSUME NEW price \in SqrtMinPrice..SqrtMaxPrice, NEW L \in Nat \ {0},
         NEW amountIn \in Nat, NEW dir \in Directions,
         NEW f \in TradeFeeRecord,
         NEW r \in PartialIn(price, L, amountIn, dir, f)
  PROVE  FairResult(price, L, dir, r)
<1> DEFINE onInput == FeesOnInput(dir)
           num     == NumeratorFor(amountIn, f)
           net     == IF onInput THEN amountIn - FeeOn(amountIn, num)
                                 ELSE amountIn
           edge    == IF dir = "AtoB" THEN SqrtMinPrice ELSE SqrtMaxPrice
           maxIn   == MoveIn(price, edge, L, dir)
           atEdge  == net >= maxIn
           used    == IF atEdge THEN maxIn ELSE net
           next    == IF atEdge THEN edge ELSE NextFromInput(price, L, net, dir)
           gross   == MoveOut(price, next, L, dir)
           totals  == IF used = net THEN {amountIn}
                      ELSE IF onInput THEN AmountsIncluding(used, f)
                                      ELSE {used}
           fee(total) == IF onInput THEN total - used ELSE FeeOn(gross, num)
<1>0. num \in 0..(FeeDenominator - 1)
  BY NumeratorForBounds
<1>1. price \in Nat \ {0} /\ edge \in Nat \ {0}
  BY PriceAssumption
<1>2. net \in 0..amountIn
  <2> HIDE DEF num
  <2> QED BY <1>0, FeeOnBounds
<1>3. PICK total \in totals :
        r = [in |-> total, out |-> IF onInput THEN gross ELSE gross - fee(total),
             fee |-> fee(total), next |-> next, left |-> net - used]
  BY DEF PartialIn
<1>4. /\ r.in = total /\ r.fee = fee(total) /\ r.next = next
      /\ r.out = IF onInput THEN gross ELSE gross - fee(total)
  BY <1>3
<1>5. /\ next \in Nat \ {0}
      /\ r.in \in Nat /\ r.fee \in Nat /\ r.out \in Nat
  <2>1. SoundResult(r)
    BY PartialInSound
  <2> HIDE DEF next
  <2> QED BY <1>4, <2>1, PriceAssumption DEF SoundResult
<1>6. /\ used \in Int
      /\ InPays(dir, price, next, L, used)
  <2>1. /\ maxIn \in Int
        /\ InPays(dir, price, edge, L, maxIn)
    <3> HIDE DEF edge
    <3> QED BY <1>1, MoveInEnough
  <2>2. CASE atEdge
    <3>1. used = maxIn /\ next = edge
      BY <2>2
    <3> HIDE DEF used, maxIn, next, edge
    <3> QED BY <2>1, <3>1
  <2>3. CASE ~atEdge
    <3>1. used = net /\ next = NextFromInput(price, L, net, dir)
      BY <2>3
    <3> HIDE DEF used, net, next
    <3> QED BY <1>1, <1>2, <3>1, NextFromInputPaid
  <2> QED BY <2>2, <2>3
<1>7. /\ gross \in Int
      /\ OutFair(dir, price, next, L, gross)
  <2> HIDE DEF next
  <2> QED BY <1>1, <1>5, MoveOutFair
<1>8. NetIn(dir, r.in, r.fee) = used /\ GrossOut(dir, r.out, r.fee) = gross
  <2>1. CASE onInput
    <3>1. r.fee = total - used /\ r.out = gross
      BY <1>4, <2>1
    <3> HIDE DEF used, gross, fee
    <3> QED BY <1>4, <1>5, <1>6, <2>1, <3>1 DEF NetIn, GrossOut
  <2>2. CASE ~onInput
    <3>1. total = used
      <4>1. net = amountIn
        BY <2>2
      <4> HIDE DEF used, net
      <4> QED BY <2>2, <4>1
    <3>2. r.out = gross - r.fee
      BY <1>4, <2>2
    <3> HIDE DEF used, gross, fee
    <3> QED BY <1>4, <1>5, <1>7, <2>2, <3>1, <3>2 DEF NetIn, GrossOut
  <2> QED BY <2>1, <2>2
<1> HIDE DEF used, next, gross, totals, fee
<1>9. PaidFor(price, next, L, ChangeOfA(dir, used, gross), ChangeOfB(dir, used, gross))
  BY <1>1, <1>5, <1>6, <1>7, SidesPaid
<1> QED BY <1>4, <1>8, <1>9 DEF FairResult

-----------------------------------------------------------------------------
\* Every nonempty family of subsets of a finite set has a minimal one: the
\* form of induction over finite sets that the proofs below use.
LEMMA MinimalSubset ==
  ASSUME NEW S, IsFiniteSet(S), NEW T, T \subseteq SUBSET S, T # {}
  PROVE  \E x \in T : \A y \in T : y \subseteq x => y = x
<1>1. FiniteSubsetsOf(S) = SUBSET S
  BY FS_FiniteSubsetsOfFinite
<1>2. IsWellFoundedOn(StrictSubsetOrdering(S), FiniteSubsetsOf(S))
  BY FS_StrictSubsetOrderingWellFounded
<1>3. PICK x \in T : \A y \in T : ~(<<y, x>> \in StrictSubsetOrdering(S))
  BY <1>1, <1>2, WFMin
<1>4. \A y \in T : y \subseteq x => y = x
  BY <1>3 DEF StrictSubsetOrdering
<1> QED BY <1>4

\* Every nonempty set of naturals has a least element: the form of induction
\* over numbers that the proofs use.
LEMMA LeastNumber ==
  ASSUME NEW S \in SUBSET Nat, S # {}
  PROVE  \E m \in S : \A n \in S : m <= n
<1> DEFINE Less == {x \in Nat \X Nat : x[1] < x[2]}
<1>1. IsWellFoundedOn(Less, Nat)
  <2>1. Less = OpToRel(<, Nat)
    BY Zenon DEF OpToRel
  <2> QED BY <2>1, NatLessThanWellFounded, Zenon
<1> HIDE DEF Less
<1>2. PICK m \in S : \A n \in S : ~(<<n, m>> \in Less)
  BY <1>1, WFMin
<1>3. \A n \in S : ~(n < m)
  BY <1>2 DEF Less
<1> QED BY <1>3

\* What the sum over f takes next from s, and what it computes on all the
\* subsets of S.
Pick(s) == CHOOSE x \in s : TRUE

Iterates(f, S, g) ==
  g = [s \in SUBSET S |-> IF s = {} THEN 0 ELSE f[Pick(s)] + g[s \ {Pick(s)}]]

Sum(f, S) == SumFunctionOnSet(f, S)

\* The fold is the value of that function at S.
LEMMA SumIterates ==
  ASSUME NEW f, NEW S
  PROVE  Sum(f, S) = (CHOOSE g : Iterates(f, S, g))[S]
BY DEF Sum, SumFunctionOnSet, FoldFunctionOnSet, MapThenFoldSet, Iterates, Pick

\* There is something to take from a nonempty set.
LEMMA PickIn ==
  ASSUME NEW s, s # {}
  PROVE  Pick(s) \in s
BY DEF Pick

\* One step of the fold.
LEMMA IteratesAt ==
  ASSUME NEW f, NEW S, NEW g, Iterates(f, S, g), NEW s \in SUBSET S
  PROVE  g[s] = IF s = {} THEN 0 ELSE f[Pick(s)] + g[s \ {Pick(s)}]
BY DEF Iterates

\* There is one value for each set, whatever it is a subset of.
LEMMA IteratesAgree ==
  ASSUME NEW f, NEW S, NEW T, IsFiniteSet(S), NEW g, NEW h,
         Iterates(f, S, g), Iterates(f, T, h)
  PROVE  \A u \in (SUBSET S) \cap (SUBSET T) : g[u] = h[u]
<1> DEFINE Bad == {u \in SUBSET S : u \in SUBSET T /\ g[u] # h[u]}
<1> SUFFICES ASSUME Bad # {}
             PROVE  FALSE
  OBVIOUS
<1>0. Bad \subseteq SUBSET S
  OBVIOUS
<1>1. PICK u \in Bad : \A v \in Bad : v \subseteq u => v = u
  <2> HIDE DEF Bad
  <2> QED BY <1>0, MinimalSubset
<1>2. /\ g[u] = IF u = {} THEN 0 ELSE f[Pick(u)] + g[u \ {Pick(u)}]
      /\ h[u] = IF u = {} THEN 0 ELSE f[Pick(u)] + h[u \ {Pick(u)}]
  BY IteratesAt
<1>3. CASE u = {}
  BY <1>2, <1>3
<1>4. CASE u # {}
  <2>1. u \ {Pick(u)} \notin Bad
    BY <1>1, <1>4, PickIn
  <2>2. g[u \ {Pick(u)}] = h[u \ {Pick(u)}]
    BY <2>1
  <2> QED BY <1>2, <1>4, <2>2
<1> QED BY <1>3, <1>4

\* What the sum over f is on a set, in terms of a smaller one.
LEMMA IteratesRestricts ==
  ASSUME NEW f, NEW S, IsFiniteSet(S), NEW g, Iterates(f, S, g),
         NEW T \in SUBSET S
  PROVE  Iterates(f, T, [t \in SUBSET T |-> g[t]])
<1> DEFINE h == [t \in SUBSET T |-> g[t]]
<1>1. ASSUME NEW t \in SUBSET T
      PROVE  h[t] = IF t = {} THEN 0 ELSE f[Pick(t)] + h[t \ {Pick(t)}]
  <2>1. t \in SUBSET S /\ t \ {Pick(t)} \in SUBSET T
    OBVIOUS
  <2>2. g[t] = IF t = {} THEN 0 ELSE f[Pick(t)] + g[t \ {Pick(t)}]
    BY <2>1, IteratesAt
  <2> QED BY <2>1, <2>2
<1>2. h = [t \in SUBSET T |-> h[t]]
  OBVIOUS
<1>3. h = [t \in SUBSET T |->
             IF t = {} THEN 0 ELSE f[Pick(t)] + h[t \ {Pick(t)}]]
  <2> HIDE DEF h
  <2> QED BY <1>1, <1>2
<1> QED BY <1>3 DEF Iterates

\* Where the values exist, the sum is one of them.
LEMMA SumIs ==
  ASSUME NEW f, NEW S, IsFiniteSet(S), NEW g, Iterates(f, S, g),
         NEW T \in SUBSET S
  PROVE  Sum(f, T) = g[T]
<1> DEFINE h == CHOOSE h : Iterates(f, T, h)
<1>1. Iterates(f, T, h)
  BY IteratesRestricts
<1>2. h[T] = g[T]
  <2> HIDE DEF h
  <2>1. \A u \in (SUBSET S) \cap (SUBSET T) : g[u] = h[u]
    BY <1>1, IteratesAgree
  <2> QED BY <2>1
<1> QED BY <1>2, SumIterates

\* The values exist for every finite set.
LEMMA IteratesExist ==
  ASSUME NEW f, NEW S, IsFiniteSet(S)
  PROVE  \E g : Iterates(f, S, g)
<1> DEFINE Bad == {t \in SUBSET S : ~ \E g : Iterates(f, t, g)}
<1> SUFFICES ASSUME Bad # {}
             PROVE  FALSE
  OBVIOUS
<1>0. Bad \subseteq SUBSET S
  OBVIOUS
<1>1. PICK u \in Bad : \A v \in Bad : v \subseteq u => v = u
  <2> HIDE DEF Bad
  <2> QED BY <1>0, MinimalSubset
<1> DEFINE value(s) == IF s = {} THEN 0
                       ELSE f[Pick(s)] + Sum(f, s \ {Pick(s)})
           g == [s \in SUBSET u |-> value(s)]
<1>2. ASSUME NEW s \in SUBSET u, s # u
      PROVE  Sum(f, s) = value(s)
  <2>1. s \notin Bad /\ IsFiniteSet(s)
    BY <1>1, <1>2, FS_Subset
  <2>2. PICK h : Iterates(f, s, h)
    BY <2>1, <1>1
  <2>3. Sum(f, s) = h[s]
    BY <2>1, <2>2, SumIs
  <2>4. h[s] = IF s = {} THEN 0 ELSE f[Pick(s)] + h[s \ {Pick(s)}]
    BY <2>2, IteratesAt
  <2>5. Sum(f, s \ {Pick(s)}) = h[s \ {Pick(s)}]
    BY <2>1, <2>2, SumIs
  <2> QED BY <2>3, <2>4, <2>5
<1>3. ASSUME NEW s \in SUBSET u
      PROVE  g[s] = IF s = {} THEN 0 ELSE f[Pick(s)] + g[s \ {Pick(s)}]
  <2>1. CASE s = {}
    BY <2>1
  <2>2. CASE s # {}
    <3> DEFINE t == s \ {Pick(s)}
    <3>1. t \in SUBSET u /\ t # u
      BY <2>2, PickIn
    <3>2. g[t] = Sum(f, t)
      <4> HIDE DEF t, value
      <4>1. g[t] = value(t)
        BY <3>1
      <4> QED BY <4>1, <3>1, <1>2
    <3>3. g[s] = f[Pick(s)] + Sum(f, t)
      BY <2>2
    <3> QED BY <2>2, <3>2, <3>3
  <2> QED BY <2>1, <2>2
<1>4. g = [s \in SUBSET u |-> IF s = {} THEN 0
                               ELSE f[Pick(s)] + g[s \ {Pick(s)}]]
  <2>1. g = [s \in SUBSET u |-> g[s]]
    OBVIOUS
  <2> HIDE DEF g
  <2> QED BY <1>3, <2>1
<1>5. Iterates(f, u, g)
  <2> HIDE DEF g
  <2> QED BY <1>4 DEF Iterates
<1> QED BY <1>1, <1>5

-----------------------------------------------------------------------------
\* The recursion that the sum obeys.
LEMMA SumStep ==
  ASSUME NEW f, NEW S, IsFiniteSet(S)
  PROVE  Sum(f, S) = IF S = {} THEN 0 ELSE f[Pick(S)] + Sum(f, S \ {Pick(S)})
<1>1. PICK g : Iterates(f, S, g)
  BY IteratesExist
<1>2. g[S] = IF S = {} THEN 0 ELSE f[Pick(S)] + g[S \ {Pick(S)}]
  BY <1>1, IteratesAt
<1>3. Sum(f, S) = g[S] /\ Sum(f, S \ {Pick(S)}) = g[S \ {Pick(S)}]
  BY <1>1, SumIs
<1> QED BY <1>2, <1>3

\* The sum of nothing.
LEMMA SumEmpty ==
  ASSUME NEW f
  PROVE  Sum(f, {}) = 0
BY SumStep, FS_EmptySet

\* A sum of integers is an integer.
LEMMA SumInt ==
  ASSUME NEW f, NEW S, IsFiniteSet(S), \A x \in S : f[x] \in Int
  PROVE  Sum(f, S) \in Int
<1> DEFINE Bad == {s \in SUBSET S : Sum(f, s) \notin Int}
<1> SUFFICES ASSUME Bad # {}
             PROVE  FALSE
  OBVIOUS
<1>0. Bad \subseteq SUBSET S
  OBVIOUS
<1>1. PICK u \in Bad : \A v \in Bad : v \subseteq u => v = u
  <2> HIDE DEF Bad
  <2> QED BY <1>0, MinimalSubset
<1>2. Sum(f, u) = IF u = {} THEN 0 ELSE f[Pick(u)] + Sum(f, u \ {Pick(u)})
  BY FS_Subset, SumStep
<1>3. u # {}
  BY <1>2
<1>4. Pick(u) \in u
  BY <1>3, PickIn
<1>5. Sum(f, u \ {Pick(u)}) \in Int
  BY <1>1, <1>4
<1> QED BY <1>2, <1>3, <1>4, <1>5

\* The order does not matter: any element may be taken out first.
LEMMA SumRemove ==
  ASSUME NEW f, NEW S, IsFiniteSet(S), \A x \in S : f[x] \in Int, NEW p \in S
  PROVE  Sum(f, S) = f[p] + Sum(f, S \ {p})
<1> DEFINE Bad == {s \in SUBSET S :
                     \E q \in s : Sum(f, s) # f[q] + Sum(f, s \ {q})}
<1> SUFFICES ASSUME Bad # {}
             PROVE  FALSE
  OBVIOUS
<1>0. Bad \subseteq SUBSET S
  OBVIOUS
<1>1. PICK u \in Bad : \A v \in Bad : v \subseteq u => v = u
  <2> HIDE DEF Bad
  <2> QED BY <1>0, MinimalSubset
<1>2. PICK q \in u : Sum(f, u) # f[q] + Sum(f, u \ {q})
  BY <1>1
<1> DEFINE c == Pick(u)
           rest == u \ {c, q}
<1>3. c \in u
  BY PickIn
<1>4. Sum(f, u) = f[c] + Sum(f, u \ {c})
  <2>1. IsFiniteSet(u)
    BY FS_Subset
  <2> QED BY <2>1, SumStep
<1> HIDE DEF c
<1>5. c # q
  BY <1>2, <1>4
<1>6. u \ {c} \notin Bad /\ u \ {q} \notin Bad
  BY <1>1, <1>3
<1>7. Sum(f, u \ {c}) = f[q] + Sum(f, rest)
  <2>1. q \in u \ {c} /\ (u \ {c}) \ {q} = rest
    BY <1>5
  <2> QED BY <1>6, <2>1
<1>8. Sum(f, u \ {q}) = f[c] + Sum(f, rest)
  <2>1. c \in u \ {q} /\ (u \ {q}) \ {c} = rest
    BY <1>3, <1>5
  <2> QED BY <1>6, <2>1
<1>9. f[c] \in Int /\ f[q] \in Int /\ Sum(f, rest) \in Int
  <2>1. IsFiniteSet(rest) /\ \A x \in rest : f[x] \in Int
    BY FS_Subset
  <2> QED BY <1>3, <2>1, SumInt
<1> QED BY <1>2, <1>4, <1>7, <1>8, <1>9

\* Summands that agree have the same sum.
LEMMA SumSame ==
  ASSUME NEW f, NEW g, NEW S, IsFiniteSet(S), \A x \in S : f[x] = g[x]
  PROVE  Sum(f, S) = Sum(g, S)
<1> DEFINE Bad == {s \in SUBSET S : Sum(f, s) # Sum(g, s)}
<1> SUFFICES ASSUME Bad # {}
             PROVE  FALSE
  OBVIOUS
<1>0. Bad \subseteq SUBSET S
  OBVIOUS
<1>1. PICK u \in Bad : \A v \in Bad : v \subseteq u => v = u
  <2> HIDE DEF Bad
  <2> QED BY <1>0, MinimalSubset
<1>2. /\ Sum(f, u) = IF u = {} THEN 0 ELSE f[Pick(u)] + Sum(f, u \ {Pick(u)})
      /\ Sum(g, u) = IF u = {} THEN 0 ELSE g[Pick(u)] + Sum(g, u \ {Pick(u)})
  BY FS_Subset, SumStep
<1>3. u # {}
  BY <1>2
<1>4. Pick(u) \in u
  BY <1>3, PickIn
<1>5. Sum(f, u \ {Pick(u)}) = Sum(g, u \ {Pick(u)})
  BY <1>1, <1>4
<1> QED BY <1>2, <1>3, <1>4, <1>5

\* Sums are monotone.
LEMMA SumLe ==
  ASSUME NEW f, NEW g, NEW S, IsFiniteSet(S),
         \A x \in S : f[x] \in Int /\ g[x] \in Int /\ f[x] <= g[x]
  PROVE  Sum(f, S) <= Sum(g, S)
<1> DEFINE Bad == {s \in SUBSET S : ~(Sum(f, s) <= Sum(g, s))}
<1> SUFFICES ASSUME Bad # {}
             PROVE  FALSE
  OBVIOUS
<1>0. Bad \subseteq SUBSET S
  OBVIOUS
<1>1. PICK u \in Bad : \A v \in Bad : v \subseteq u => v = u
  <2> HIDE DEF Bad
  <2> QED BY <1>0, MinimalSubset
<1>2. /\ Sum(f, u) = IF u = {} THEN 0 ELSE f[Pick(u)] + Sum(f, u \ {Pick(u)})
      /\ Sum(g, u) = IF u = {} THEN 0 ELSE g[Pick(u)] + Sum(g, u \ {Pick(u)})
  BY FS_Subset, SumStep
<1>3. u # {}
  BY <1>2
<1>4. Pick(u) \in u
  BY <1>3, PickIn
<1> DEFINE t == u \ {Pick(u)}
<1>5. Sum(f, t) <= Sum(g, t)
  BY <1>1, <1>4
<1>6. Sum(f, t) \in Int /\ Sum(g, t) \in Int
  <2>1. IsFiniteSet(t) /\ \A x \in t : f[x] \in Int /\ g[x] \in Int
    BY FS_Subset
  <2> QED BY <2>1, SumInt
<1> QED BY <1>2, <1>3, <1>4, <1>5, <1>6

\* A sum of summands that are multiples, plus others.
LEMMA SumLinear ==
  ASSUME NEW f, NEW g, NEW h, NEW k \in Int, NEW S, IsFiniteSet(S),
         \A x \in S : f[x] \in Int /\ g[x] \in Int /\ h[x] = f[x] + k * g[x]
  PROVE  Sum(h, S) = Sum(f, S) + k * Sum(g, S)
<1> DEFINE Bad == {s \in SUBSET S : Sum(h, s) # Sum(f, s) + k * Sum(g, s)}
<1> SUFFICES ASSUME Bad # {}
             PROVE  FALSE
  OBVIOUS
<1>0. Bad \subseteq SUBSET S
  OBVIOUS
<1>1. PICK u \in Bad : \A v \in Bad : v \subseteq u => v = u
  <2> HIDE DEF Bad
  <2> QED BY <1>0, MinimalSubset
<1>2. /\ Sum(f, u) = IF u = {} THEN 0 ELSE f[Pick(u)] + Sum(f, u \ {Pick(u)})
      /\ Sum(g, u) = IF u = {} THEN 0 ELSE g[Pick(u)] + Sum(g, u \ {Pick(u)})
      /\ Sum(h, u) = IF u = {} THEN 0 ELSE h[Pick(u)] + Sum(h, u \ {Pick(u)})
  BY FS_Subset, SumStep
<1>3. u # {}
  BY <1>2
<1>4. Pick(u) \in u
  BY <1>3, PickIn
<1> DEFINE t == u \ {Pick(u)}
<1>5. Sum(h, t) = Sum(f, t) + k * Sum(g, t)
  BY <1>1, <1>4
<1>6. Sum(f, t) \in Int /\ Sum(g, t) \in Int
  <2>1. IsFiniteSet(t) /\ \A x \in t : f[x] \in Int /\ g[x] \in Int
    BY FS_Subset
  <2> QED BY <2>1, SumInt
<1>7. h[Pick(u)] = f[Pick(u)] + k * g[Pick(u)]
  BY <1>4
<1>8. f[Pick(u)] \in Int /\ g[Pick(u)] \in Int
  BY <1>4
<1>9. k * (g[Pick(u)] + Sum(g, t)) = k * g[Pick(u)] + k * Sum(g, t)
  BY <1>6, <1>8
<1>10. k * g[Pick(u)] \in Int /\ k * Sum(g, t) \in Int
  BY <1>6, <1>8
<1> QED BY <1>1, <1>2, <1>3, <1>5, <1>6, <1>7, <1>8, <1>9, <1>10

\* Nothing adds up to nothing.
LEMMA SumZero ==
  ASSUME NEW f, NEW S, IsFiniteSet(S), \A x \in S : f[x] = 0
  PROVE  Sum(f, S) = 0
<1>1. \A x \in S : f[x] \in Int /\ f[x] = f[x] + 1 * f[x]
  OBVIOUS
<1>2. Sum(f, S) = Sum(f, S) + 1 * Sum(f, S)
  BY <1>1, SumLinear
<1>3. Sum(f, S) \in Int
  BY SumInt
<1> DEFINE s == Sum(f, S)
<1>4. s \in Int /\ s = s + 1 * s
  BY <1>2, <1>3
<1> HIDE DEF s
<1>5. s = 0
  BY <1>4
<1> QED BY <1>5 DEF s

\* One summand changes.
LEMMA SumChange ==
  ASSUME NEW f, NEW g, NEW S, IsFiniteSet(S), NEW p \in S,
         \A x \in S : f[x] \in Int,
         g[p] \in Int, \A x \in S \ {p} : g[x] = f[x]
  PROVE  Sum(g, S) = Sum(f, S) + (g[p] - f[p])
<1>1. Sum(f, S) = f[p] + Sum(f, S \ {p})
  BY SumRemove
<1>2. \A x \in S : g[x] \in Int
  OBVIOUS
<1>3. Sum(g, S) = g[p] + Sum(g, S \ {p})
  BY <1>2, SumRemove
<1>4. IsFiniteSet(S \ {p})
  BY FS_Subset
<1>5. Sum(g, S \ {p}) = Sum(f, S \ {p})
  BY <1>4, SumSame
<1>6. Sum(f, S \ {p}) \in Int
  BY <1>4, SumInt
<1> QED BY <1>1, <1>3, <1>5, <1>6

\* Two summands change.
LEMMA SumChangeTwo ==
  ASSUME NEW f, NEW g, NEW S, IsFiniteSet(S), NEW p \in S, NEW q \in S, p # q,
         \A x \in S : f[x] \in Int,
         g[p] \in Int, g[q] \in Int, \A x \in S \ {p, q} : g[x] = f[x]
  PROVE  Sum(g, S) = Sum(f, S) + (g[p] - f[p]) + (g[q] - f[q])
<1>1. Sum(f, S) = f[p] + Sum(f, S \ {p})
  BY SumRemove
<1>2. \A x \in S : g[x] \in Int
  OBVIOUS
<1>3. Sum(g, S) = g[p] + Sum(g, S \ {p})
  BY <1>2, SumRemove
<1>4. IsFiniteSet(S \ {p})
  BY FS_Subset
<1>5. Sum(g, S \ {p}) = Sum(f, S \ {p}) + (g[q] - f[q])
  BY <1>4, SumChange
<1>6. Sum(f, S \ {p}) \in Int
  BY <1>4, SumInt
<1> QED BY <1>1, <1>3, <1>5, <1>6

\* A sum of naturals is natural, and no less than any of them.
LEMMA SumNat ==
  ASSUME NEW f, NEW S, IsFiniteSet(S), \A x \in S : f[x] \in Nat
  PROVE  Sum(f, S) \in Nat /\ \A x \in S : f[x] <= Sum(f, S)
<1>1. ASSUME NEW T \in SUBSET S
      PROVE  Sum(f, T) \in Nat
  <2> DEFINE Bad == {s \in SUBSET T : Sum(f, s) \notin Nat}
  <2> SUFFICES ASSUME Bad # {}
               PROVE  FALSE
    OBVIOUS
  <2>0. Bad \subseteq SUBSET T /\ IsFiniteSet(T)
    BY FS_Subset
  <2>1. PICK u \in Bad : \A v \in Bad : v \subseteq u => v = u
    <3> HIDE DEF Bad
    <3> QED BY <2>0, MinimalSubset
  <2>2. Sum(f, u) = IF u = {} THEN 0 ELSE f[Pick(u)] + Sum(f, u \ {Pick(u)})
    BY <2>0, FS_Subset, SumStep
  <2>3. u # {}
    BY <2>2
  <2>4. Pick(u) \in u
    BY <2>3, PickIn
  <2>5. Sum(f, u \ {Pick(u)}) \in Nat
    BY <2>1, <2>4
  <2> QED BY <2>2, <2>3, <2>4, <2>5
<1>2. ASSUME NEW x \in S
      PROVE  f[x] <= Sum(f, S)
  <2>1. Sum(f, S) = f[x] + Sum(f, S \ {x})
    BY SumRemove
  <2> QED BY <1>1, <2>1
<1> QED BY <1>1, <1>2
=============================================================================
