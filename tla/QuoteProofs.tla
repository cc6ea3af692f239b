----------------------------- MODULE QuoteProofs -----------------------------
(***************************************************************************)
(* What quotes owe to each other, for every price, liquidity, amount and   *)
(* fee: a round trip never gains, a flat fee makes it useless to cut a     *)
(* trade in two, and exact-in and exact-out agree to the unit.             *)
(*                                                                         *)
(* The rounded formulas of the curve are only used through what they are   *)
(* best at: the next price is the furthest one the input pays for, the     *)
(* output the largest that is fair, and so on.                             *)
(*                                                                         *)
(* The other parts are about the base fee that a quote starts from.  A     *)
(* schedule's can be computed at any time and price, and only falls.  The  *)
(* rate limiter's closed form is the sum of what the units of a purchase   *)
(* pay, each in its own band.  Its inverse solves the quadratic through    *)
(* the ends of the bands, goes on at one band's rate from the rounded      *)
(* root, and makes a numerator and a total of where it lands: each of      *)
(* these is shown to leave nearly what was asked for, before any rounding  *)
(* of fees (Leaves).  A partial fill needs all of it.                      *)
(***************************************************************************)
EXTENDS SwapQuotes, ScheduleQuotes, LimiterQuotes, BaseFeeLemmas

\* A price that lies before another one, as seen by a trade.
FallsBefore(dir, x, y) == IF dir = "AtoB" THEN y < x ELSE x < y

\* The next price is the furthest that an input pays for.
LEMMA NextIsFurthest ==
  ASSUME NEW price \in Nat \ {0}, NEW to \in Nat \ {0}, NEW L \in Nat \ {0},
         NEW in \in Nat, NEW dir \in Directions,
         InPays(dir, price, to, L, in)
  PROVE  Towards(dir, to, NextFromInput(price, L, in, dir))
<1>1. CASE dir = "AtoB"
  <2>1. /\ L * price \in Int /\ in * price \in Nat
        /\ L + in * price \in Nat \ {0}
    BY MulNat
  <2>2. in * (price * to) >= L * (price - to)
    BY <1>1 DEF InPays
  <2>3. L * price <= to * (L + in * price)
    <3>1. L * (price - to) = L * price - L * to
      OBVIOUS
    <3>2. to * (L + in * price) = L * to + in * (price * to)
      OBVIOUS
    <3>3. L * to \in Int /\ L * price \in Int /\ in * (price * to) \in Int
      OBVIOUS
    <3> QED BY <2>2, <3>1, <3>2, <3>3
  <2>4. CeilDiv(L * price, L + in * price) <= to
    BY <2>1, <2>3, CeilDivLe
  <2> QED BY <1>1, <2>4 DEF NextFromInput, NextPriceFromAIn, Towards
<1>2. CASE dir = "BtoA"
  <2> DEFINE rise  == to - price
             value == in * Scale
  <2>1. value >= L * rise
    BY <1>2 DEF InPays
  <2>2. value \in Int /\ rise \in Int
    BY ScaleAssumption
  <2>3. NextFromInput(price, L, in, dir) = price + value \div L
    BY <1>2 DEF NextFromInput, NextPriceFromBIn
  <2> HIDE DEF value
  <2>4. rise <= value \div L
    <3> HIDE DEF rise
    <3>1. rise * L = L * rise /\ L * rise \in Int
      BY <2>2
    <3>2. rise * L <= value
      BY <2>1, <2>2, <3>1
    <3> QED BY <2>2, <3>2, DivGe
  <2>5. value \div L \in Int
    BY <2>2, DivEnough
  <2> QED BY <1>2, <2>3, <2>4, <2>5 DEF Towards
<1> QED BY <1>1, <1>2 DEF Directions

\* A larger input pays for it too, ...
LEMMA PaysMore ==
  ASSUME NEW price \in Nat \ {0}, NEW to \in Nat \ {0}, NEW L \in Nat,
         NEW in \in Int, NEW more \in Int, in <= more, NEW dir \in Directions,
         InPays(dir, price, to, L, in)
  PROVE  InPays(dir, price, to, L, more)
<1>1. ASSUME NEW k \in Nat, NEW v \in Int, in * k >= v
      PROVE  more * k >= v
  <2>1. more * k = in * k + (more - in) * k /\ (more - in) * k \in Nat
    BY MulNat
  <2>2. in * k \in Int
    OBVIOUS
  <2> QED BY <1>1, <2>1, <2>2
<1>2. /\ Scale \in Nat /\ price * to \in Nat
      /\ L * (price - to) \in Int /\ L * (to - price) \in Int
  BY ScaleAssumption, MulNat
<1> QED BY <1>1, <1>2 DEF InPays

\* ... an input pays for every nearer price, ...
LEMMA PaysNearer ==
  ASSUME NEW price \in Nat \ {0}, NEW to \in Nat \ {0}, NEW near \in Nat \ {0},
         NEW L \in Nat, NEW in \in Nat, NEW dir \in Directions,
         InPays(dir, price, to, L, in), Towards(dir, near, to)
  PROVE  InPays(dir, price, near, L, in)
<1>1. CASE dir = "AtoB"
  <2>1. to <= near /\ in * (price * to) >= L * (price - to)
    BY <1>1 DEF InPays, Towards
  <2>2. in * (price * near) = in * (price * to) + in * (price * (near - to))
        /\ in * (price * (near - to)) \in Nat
    BY <2>1, MulNat
  <2>3. L * (price - to) = L * (price - near) + L * (near - to)
        /\ L * (near - to) \in Nat
    BY <2>1, MulNat
  <2>4. in * (price * to) \in Int /\ L * (price - near) \in Int
    OBVIOUS
  <2> QED BY <1>1, <2>1, <2>2, <2>3, <2>4 DEF InPays
<1>2. CASE dir = "BtoA"
  <2>1. near <= to /\ in * Scale >= L * (to - price)
    BY <1>2 DEF InPays, Towards
  <2>2. L * (to - price) = L * (near - price) + L * (to - near)
        /\ L * (to - near) \in Nat
    BY <2>1, MulNat
  <2>3. in * Scale \in Int /\ L * (near - price) \in Int
    BY ScaleAssumption
  <2> QED BY <1>2, <2>1, <2>2, <2>3 DEF InPays
<1> QED BY <1>1, <1>2 DEF Directions

\* ... and two inputs pay for two moves, one after the other.
LEMMA PaysAdd ==
  ASSUME NEW price \in Nat \ {0}, NEW mid \in Nat \ {0}, NEW to \in Nat \ {0},
         NEW L \in Nat, NEW a \in Nat, NEW b \in Nat, NEW dir \in Directions,
         InPays(dir, price, mid, L, a), InPays(dir, mid, to, L, b)
  PROVE  InPays(dir, price, to, L, a + b)
<1>1. CASE dir = "AtoB"
  <2>1. /\ a * (price * mid) >= L * (price - mid)
        /\ b * (mid * to) >= L * (mid - to)
    BY <1>1 DEF InPays
  <2>2. (a * (price * mid)) * to >= (L * (price - mid)) * to
    BY <2>1, MulMonotone
  <2>3. (b * (mid * to)) * price >= (L * (mid - to)) * price
    BY <2>1, MulMonotone
  <2>4. (a * (price * mid)) * to + (b * (mid * to)) * price
          = ((a + b) * (price * to)) * mid
    OBVIOUS
  <2>5. (L * (price - mid)) * to + (L * (mid - to)) * price
          = (L * (price - to)) * mid
    OBVIOUS
  <2>6. /\ (a * (price * mid)) * to \in Int /\ (b * (mid * to)) * price \in Int
        /\ (L * (price - mid)) * to \in Int /\ (L * (mid - to)) * price \in Int
    OBVIOUS
  <2>7. ((a + b) * (price * to)) * mid >= (L * (price - to)) * mid
    BY <2>2, <2>3, <2>4, <2>5, <2>6
  <2>8. (a + b) * (price * to) \in Int /\ L * (price - to) \in Int
    OBVIOUS
  <2>9. (a + b) * (price * to) >= L * (price - to)
    BY <2>7, <2>8, MulCancel
  <2> QED BY <1>1, <2>9 DEF InPays
<1>2. CASE dir = "BtoA"
  <2>1. a * Scale >= L * (mid - price) /\ b * Scale >= L * (to - mid)
    BY <1>2 DEF InPays
  <2>2. (a + b) * Scale = a * Scale + b * Scale
        /\ L * (to - price) = L * (mid - price) + L * (to - mid)
    BY ScaleAssumption
  <2>3. /\ a * Scale \in Int /\ b * Scale \in Int
        /\ L * (mid - price) \in Int /\ L * (to - mid) \in Int
    BY ScaleAssumption
  <2> QED BY <1>2, <2>1, <2>2, <2>3 DEF InPays
<1> QED BY <1>1, <1>2 DEF Directions

\* Whatever goes out of a move and is not worth more than the move is at most
\* what the move gives, ...
LEMMA OutIsLargest ==
  ASSUME NEW price \in Nat \ {0}, NEW to \in Nat \ {0}, NEW L \in Nat,
         NEW out \in Int, NEW dir \in Directions,
         OutFair(dir, price, to, L, out)
  PROVE  out <= MoveOut(price, to, L, dir)
<1>1. /\ L * (price - to) \in Int /\ L * (to - price) \in Int
      /\ price * to \in Nat \ {0}
  BY MulPos
<1>2. CASE dir = "AtoB"
  <2>1. out * Scale <= L * (price - to)
    BY <1>2 DEF OutFair
  <2>2. out <= (L * (price - to)) \div Scale
    BY <1>1, <2>1, DivGe, ScaleAssumption
  <2> QED BY <1>2, <2>2 DEF MoveOut, DeltaB, DivRound
<1>3. CASE dir = "BtoA"
  <2>1. out * (price * to) <= L * (to - price)
    BY <1>3 DEF OutFair
  <2>2. out <= (L * (to - price)) \div (price * to)
    BY <1>1, <2>1, DivGe
  <2> QED BY <1>3, <2>2 DEF MoveOut, DeltaA, DivRound
<1> QED BY <1>2, <1>3 DEF Directions

\* ... less of it is fair too, ...
LEMMA FairLess ==
  ASSUME NEW price \in Nat \ {0}, NEW to \in Nat \ {0}, NEW L \in Nat,
         NEW out \in Int, NEW less \in Int, less <= out, NEW dir \in Directions,
         OutFair(dir, price, to, L, out)
  PROVE  OutFair(dir, price, to, L, less)
<1>1. ASSUME NEW k \in Nat, NEW v \in Int, out * k <= v
      PROVE  less * k <= v
  <2>1. out * k >= less * k
    BY MulMonotone
  <2>2. out * k \in Int /\ less * k \in Int
    OBVIOUS
  <2> QED BY <1>1, <2>1, <2>2
<1>2. /\ Scale \in Nat /\ price * to \in Nat
      /\ L * (price - to) \in Int /\ L * (to - price) \in Int
  BY ScaleAssumption, MulNat
<1> QED BY <1>1, <1>2 DEF OutFair

\* ... it is fair for a longer move, ...
LEMMA FairFurther ==
  ASSUME NEW price \in Nat \ {0}, NEW to \in Nat \ {0}, NEW far \in Nat \ {0},
         NEW L \in Nat \ {0}, NEW out \in Int, NEW dir \in Directions,
         OutFair(dir, price, to, L, out), Towards(dir, to, far)
  PROVE  OutFair(dir, price, far, L, out)
<1>1. CASE dir = "AtoB"
  <2>1. far <= to /\ out * Scale <= L * (price - to)
    BY <1>1 DEF OutFair, Towards
  <2>2. L * (price - far) = L * (price - to) + L * (to - far)
        /\ L * (to - far) \in Nat
    BY <2>1, MulNat
  <2>3. out * Scale \in Int /\ L * (price - to) \in Int
    BY ScaleAssumption
  <2> QED BY <1>1, <2>1, <2>2, <2>3 DEF OutFair
<1>2. CASE dir = "BtoA"
  <2>1. to <= far /\ out * (price * to) <= L * (to - price)
    BY <1>2 DEF OutFair, Towards
  <2> DEFINE left == L - out * price
  <2>2. left \in Int
    OBVIOUS
  <2>3. left * to >= L * price
    <3>1. left * to = L * to - out * (price * to)
      OBVIOUS
    <3>2. L * (to - price) = L * to - L * price
      OBVIOUS
    <3>3. L * to \in Int /\ L * price \in Int /\ out * (price * to) \in Int
      OBVIOUS
    <3> QED BY <2>1, <3>1, <3>2, <3>3
  <2> HIDE DEF left
  <2>4. left >= 0
    <3>1. L * price \in Nat /\ 0 * to = 0
      BY MulNat
    <3>2. left * to >= 0 * to
      BY <2>2, <2>3, <3>1
    <3> QED BY <2>2, <3>2, MulCancel
  <2>5. left * far >= L * price
    <3>1. far * left >= to * left
      BY <2>1, <2>2, <2>4, MulMonotone
    <3>2. far * left = left * far /\ to * left = left * to
      BY <2>2
    <3>3. left * far \in Int /\ left * to \in Int /\ L * price \in Int
      BY <2>2
    <3> QED BY <2>3, <3>1, <3>2, <3>3
  <2>6. left * far = L * far - out * (price * far)
    BY DEF left
  <2>7. L * (far - price) = L * far - L * price
    OBVIOUS
  <2>8. L * far \in Int /\ L * price \in Int /\ out * (price * far) \in Int
    OBVIOUS
  <2>9. out * (price * far) <= L * (far - price)
    BY <2>5, <2>6, <2>7, <2>8
  <2> QED BY <1>2, <2>9 DEF OutFair
<1> QED BY <1>1, <1>2 DEF Directions

\* ... and two moves, one after the other, give a fair output together.
LEMMA FairAdd ==
  ASSUME NEW price \in Nat \ {0}, NEW mid \in Nat \ {0}, NEW to \in Nat \ {0},
         NEW L \in Nat, NEW x \in Int, NEW y \in Int, NEW dir \in Directions,
         OutFair(dir, price, mid, L, x), OutFair(dir, mid, to, L, y)
  PROVE  OutFair(dir, price, to, L, x + y)
<1>1. CASE dir = "AtoB"
  <2>1. x * Scale <= L * (price - mid) /\ y * Scale <= L * (mid - to)
    BY <1>1 DEF OutFair
  <2>2. (x + y) * Scale = x * Scale + y * Scale
        /\ L * (price - to) = L * (price - mid) + L * (mid - to)
    BY ScaleAssumption
  <2>3. /\ x * Scale \in Int /\ y * Scale \in Int
        /\ L * (price - mid) \in Int /\ L * (mid - to) \in Int
    BY ScaleAssumption
  <2> QED BY <1>1, <2>1, <2>2, <2>3 DEF OutFair
<1>2. CASE dir = "BtoA"
  <2>1. /\ L * (mid - price) >= x * (price * mid)
        /\ L * (to - mid) >= y * (mid * to)
        /\ L * (mid - price) \in Int /\ L * (to - mid) \in Int
        /\ x * (price * mid) \in Int /\ y * (mid * to) \in Int
    BY <1>2 DEF OutFair
  <2>2. (L * (mid - price)) * to >= (x * (price * mid)) * to
    BY <2>1, MulMonotone
  <2>3. (L * (to - mid)) * price >= (y * (mid * to)) * price
    BY <2>1, MulMonotone
  <2>4. (x * (price * mid)) * to + (y * (mid * to)) * price
          = ((x + y) * (price * to)) * mid
    OBVIOUS
  <2>5. (L * (mid - price)) * to + (L * (to - mid)) * price
          = (L * (to - price)) * mid
    OBVIOUS
  <2>6. /\ (x * (price * mid)) * to \in Int /\ (y * (mid * to)) * price \in Int
        /\ (L * (mid - price)) * to \in Int /\ (L * (to - mid)) * price \in Int
    OBVIOUS
  <2>7. (L * (to - price)) * mid >= ((x + y) * (price * to)) * mid
    BY <2>2, <2>3, <2>4, <2>5, <2>6
  <2>8. (x + y) * (price * to) \in Int /\ L * (to - price) \in Int
    OBVIOUS
  <2>9. L * (to - price) >= (x + y) * (price * to)
    BY <2>7, <2>8, MulCancel
  <2> QED BY <1>2, <2>8, <2>9 DEF OutFair
<1> QED BY <1>1, <1>2 DEF Directions

-----------------------------------------------------------------------------
\* The move back.  What a trade gives out does not pay for a move beyond the
\* price it started from, ...
LEMMA BackNotPast ==
  ASSUME NEW price \in Nat \ {0}, NEW to \in Nat \ {0}, NEW back \in Nat \ {0},
         NEW L \in Nat \ {0}, NEW out \in Int, NEW in \in Int, in <= out,
         NEW dir \in Directions,
         OutFair(dir, price, to, L, out),
         InPays(Opposite(dir), to, back, L, in)
  PROVE  Towards(Opposite(dir), back, price)
<1>1. InPays(Opposite(dir), to, back, L, out)
  BY PaysMore DEF Opposite, Directions
<1>2. CASE dir = "AtoB"
  <2>1. /\ out * Scale <= L * (price - to) /\ out * Scale >= L * (back - to)
        /\ Opposite(dir) = "BtoA"
    BY <1>1, <1>2 DEF OutFair, InPays, Opposite
  <2>2. /\ L * (price - to) = (price - to) * L /\ L * (price - to) \in Int
        /\ L * (back - to) = (back - to) * L /\ L * (back - to) \in Int
        /\ out * Scale \in Int
    BY ScaleAssumption
  <2>3. (price - to) * L >= (back - to) * L
    BY <2>1, <2>2
  <2>4. price - to >= back - to
    BY <2>3, MulCancel
  <2> QED BY <2>1, <2>4 DEF Towards
<1>3. CASE dir = "BtoA"
  <2>1. /\ L * (to - price) >= out * (price * to)
        /\ out * (to * back) >= L * (to - back)
        /\ Opposite(dir) = "AtoB"
    BY <1>1, <1>3 DEF OutFair, InPays, Opposite
  <2>2. /\ out * (price * to) \in Int /\ L * (to - price) \in Int
        /\ out * (to * back) \in Int /\ L * (to - back) \in Int
    OBVIOUS
  <2>3. (L * (to - price)) * back >= (out * (price * to)) * back
    BY <2>1, <2>2, MulMonotone
  <2>4. (out * (to * back)) * price >= (L * (to - back)) * price
    BY <2>1, <2>2, MulMonotone
  <2>5. (out * (price * to)) * back = (out * (to * back)) * price
    OBVIOUS
  <2>6. /\ (L * (to - price)) * back = back * (L * to) - (price * back) * L
        /\ (L * (to - back)) * price = price * (L * to) - (price * back) * L
    OBVIOUS
  <2>7. /\ (out * (price * to)) * back \in Int
        /\ back * (L * to) \in Int /\ price * (L * to) \in Int
        /\ (price * back) * L \in Int
    OBVIOUS
  <2>8. back * (L * to) >= price * (L * to)
    BY <2>3, <2>4, <2>5, <2>6, <2>7
  <2>9. L * to \in Nat \ {0}
    BY MulPos
  <2>10. back >= price
    BY <2>8, <2>9, MulCancel
  <2> QED BY <2>1, <2>10 DEF Towards
<1> QED BY <1>2, <1>3 DEF Directions

\* ... and a move back to it is not worth more than what it took to go.
LEMMA BackNotMore ==
  ASSUME NEW price \in Nat \ {0}, NEW to \in Nat \ {0}, NEW L \in Nat \ {0},
         NEW in \in Int, NEW out \in Int, NEW dir \in Directions,
         InPays(dir, price, to, L, in), OutFair(Opposite(dir), to, price, L, out)
  PROVE  out <= in
<1>1. CASE dir = "AtoB"
  <2>1. /\ in * (price * to) >= L * (price - to)
        /\ out * (to * price) <= L * (price - to)
    BY <1>1 DEF InPays, OutFair, Opposite
  <2>2. /\ out * (to * price) = out * (price * to) /\ L * (price - to) \in Int
        /\ out * (price * to) \in Int /\ in * (price * to) \in Int
        /\ price * to \in Nat \ {0}
    BY MulPos
  <2>3. in * (price * to) >= out * (price * to)
    BY <2>1, <2>2
  <2> QED BY <2>2, <2>3, MulCancel
<1>2. CASE dir = "BtoA"
  <2>1. in * Scale >= L * (to - price) /\ out * Scale <= L * (to - price)
    BY <1>2 DEF InPays, OutFair, Opposite
  <2>2. /\ L * (to - price) \in Int /\ in * Scale \in Int /\ out * Scale \in Int
        /\ Scale \in Nat \ {0}
    BY ScaleAssumption
  <2>3. in * Scale >= out * Scale
    BY <2>1, <2>2
  <2> QED BY <2>2, <2>3, MulCancel
<1> QED BY <1>1, <1>2 DEF Directions

\* The two sides of an exact-in swap, fees left out: at most what was sent
\* pays for the move, and what is received is part of a fair output.
LEMMA ExactInSides ==
  ASSUME NEW price \in SqrtMinPrice..SqrtMaxPrice, NEW L \in Nat \ {0},
         NEW amount \in Nat, NEW dir \in Directions,
         NEW f \in TradeFeeRecord,
         NEW r \in ExactIn(price, L, amount, dir, f)
  PROVE  \E net \in Int, gross \in Int :
           /\ net <= amount /\ r.out <= gross
           /\ InPays(dir, price, r.next, L, net)
           /\ OutFair(dir, price, r.next, L, gross)
<1> DEFINE net   == NetIn(dir, r.in, r.fee)
           gross == GrossOut(dir, r.out, r.fee)
<1>1. SoundResult(r) /\ r.in = amount /\ FairResult(price, L, dir, r)
  BY ExactInSound, ExactInFair
<1>2. price \in Nat \ {0} /\ r.next \in Nat \ {0} /\ r.out \in Nat /\ r.fee \in Nat
  BY <1>1, PriceAssumption DEF SoundResult
<1>3. net \in Int /\ gross \in Int /\ net <= amount /\ r.out <= gross
  BY <1>1, <1>2 DEF NetIn, GrossOut
<1>4. PaidFor(price, r.next, L, ChangeOfA(dir, net, gross),
              ChangeOfB(dir, net, gross))
  BY <1>1 DEF FairResult
<1> HIDE DEF net, gross
<1>5. ASSUME NEW k \in Int, NEW x \in Int, NEW y \in Int,
             (-gross) * k >= L * (x - y)
      PROVE  gross * k <= L * (y - x)
  <2>1. (-gross) * k = -(gross * k) /\ L * (x - y) = -(L * (y - x))
    BY <1>3
  <2>2. gross * k \in Int /\ L * (y - x) \in Int
    BY <1>3
  <2> QED BY <1>5, <2>1, <2>2
<1>6. Scale \in Int /\ price * r.next \in Int /\ price \in Int /\ r.next \in Int
  BY <1>2, ScaleAssumption
<1>7. CASE dir = "AtoB"
  <2>0. ChangeOfA(dir, net, gross) = net /\ ChangeOfB(dir, net, gross) = -gross
    BY <1>7 DEF ChangeOfA, ChangeOfB
  <2>1. /\ net * (price * r.next) >= L * (price - r.next)
        /\ (-gross) * Scale >= L * (r.next - price)
    BY <1>4, <2>0, Zenon DEF PaidFor
  <2>2. gross * Scale <= L * (price - r.next)
    BY <1>5, <1>6, <2>1, Zenon
  <2> QED BY <1>3, <1>7, <2>1, <2>2 DEF InPays, OutFair
<1>8. CASE dir = "BtoA"
  <2>0. ChangeOfA(dir, net, gross) = -gross /\ ChangeOfB(dir, net, gross) = net
    BY <1>8 DEF ChangeOfA, ChangeOfB
  <2>1. /\ net * Scale >= L * (r.next - price)
        /\ (-gross) * (price * r.next) >= L * (price - r.next)
    BY <1>4, <2>0, Zenon DEF PaidFor
  <2>2. gross * (price * r.next) <= L * (r.next - price)
    BY <1>5, <1>6, <2>1, Zenon
  <2> QED BY <1>3, <1>8, <2>1, <2>2 DEF InPays, OutFair
<1> QED BY <1>7, <1>8 DEF Directions

\* Trading there and back, at any fees, the same or not.
LEMMA RoundTrip ==
  ASSUME NEW price \in SqrtMinPrice..SqrtMaxPrice, NEW L \in Nat \ {0},
         NEW amount \in Nat, NEW dir \in Directions,
         NEW f \in TradeFeeRecord, NEW g \in TradeFeeRecord,
         NEW r \in ExactIn(price, L, amount, dir, f),
         NEW s \in ExactIn(r.next, L, r.out, Opposite(dir), g)
  PROVE  s.out <= amount
<1>1. r.next \in SqrtMinPrice..SqrtMaxPrice /\ r.out \in Nat
  BY ExactInSound DEF SoundResult
<1>2. Opposite(dir) \in Directions
  BY DEF Opposite, Directions
<1>3. s.next \in SqrtMinPrice..SqrtMaxPrice /\ s.out \in Nat
  BY <1>1, <1>2, ExactInSound DEF SoundResult
<1>4. PICK a \in Int, x \in Int :
        /\ a <= amount /\ r.out <= x
        /\ InPays(dir, price, r.next, L, a)
        /\ OutFair(dir, price, r.next, L, x)
  BY ExactInSides
<1>5. PICK b \in Int, y \in Int :
        /\ b <= r.out /\ s.out <= y
        /\ InPays(Opposite(dir), r.next, s.next, L, b)
        /\ OutFair(Opposite(dir), r.next, s.next, L, y)
  BY <1>1, <1>2, ExactInSides
<1>6. price \in Nat \ {0} /\ r.next \in Nat \ {0} /\ s.next \in Nat \ {0}
  BY <1>1, <1>3, PriceAssumption
<1>7. b <= x
  BY <1>1, <1>4, <1>5
<1>8. Towards(Opposite(dir), s.next, price)
  BY <1>4, <1>5, <1>6, <1>7, BackNotPast
<1>9. OutFair(Opposite(dir), r.next, price, L, y)
  BY <1>2, <1>5, <1>6, <1>8, FairFurther
<1>10. y <= a
  BY <1>4, <1>6, <1>9, BackNotMore
<1> QED BY <1>3, <1>4, <1>5, <1>10

-----------------------------------------------------------------------------
\* get_excluded_fee_amount: what is left of an amount at a fee of n.
Kept(amount, n) == amount - FeeOn(amount, n)

Numerators == 0..(FeeDenominator - 1)

\* A fee is part of the amount it is taken from.
LEMMA KeptNat ==
  ASSUME NEW x \in Nat, NEW n \in Numerators
  PROVE  Kept(x, n) \in 0..x
<1>1. FeeOn(x, n) \in 0..x
  BY FeeOnBounds DEF Numerators
<1> QED BY <1>1 DEF Kept

\* The fee is rounded up, so that parts keep no more than the whole.
LEMMA KeptAdd ==
  ASSUME NEW x \in Nat, NEW y \in Nat, NEW n \in Numerators
  PROVE  Kept(x, n) + Kept(y, n) <= Kept(x + y, n)
<1> DEFINE D == FeeDenominator
           u == CeilDiv(x * n, D)
           v == CeilDiv(y * n, D)
<1>1. D \in Nat \ {0} /\ x * n \in Int /\ y * n \in Int /\ n \in Int
  BY FeeAssumption DEF Numerators
<1> HIDE DEF D
<1>2. /\ u \in Int /\ x * n <= u * D
      /\ v \in Int /\ y * n <= v * D
  BY <1>1, CeilDivEnough
<1> HIDE DEF u, v
<1>3. (x + y) * n = x * n + y * n /\ (u + v) * D = u * D + v * D
  BY <1>1, <1>2
<1>4. u * D \in Int /\ v * D \in Int
  BY <1>1, <1>2
<1>5. (x + y) * n <= (u + v) * D /\ (x + y) * n \in Int
  BY <1>1, <1>2, <1>3, <1>4
<1>6. CeilDiv((x + y) * n, D) <= u + v
  BY <1>1, <1>2, <1>5, CeilDivLe
<1>7. CeilDiv((x + y) * n, D) \in Int
  BY <1>1, <1>5, CeilDivEnough
<1>8. /\ Kept(x, n) = x - u /\ Kept(y, n) = y - v
      /\ Kept(x + y, n) = (x + y) - CeilDiv((x + y) * n, D)
  BY DEF Kept, FeeOn, u, v, D
<1> QED BY <1>2, <1>6, <1>7, <1>8

\* More is left of a larger amount.
LEMMA KeptMonotone ==
  ASSUME NEW x \in Nat, NEW y \in Nat, x <= y, NEW n \in Numerators
  PROVE  Kept(x, n) <= Kept(y, n)
<1>1. y - x \in Nat /\ x + (y - x) = y
  OBVIOUS
<1>2. Kept(x, n) + Kept(y - x, n) <= Kept(x + (y - x), n)
  BY <1>1, KeptAdd
<1>3. Kept(x, n) \in Nat /\ Kept(y - x, n) \in Nat /\ Kept(y, n) \in Nat
  BY <1>1, KeptNat
<1> QED BY <1>1, <1>2, <1>3

\* get_included_fee_amount finds the smallest amount of which as much is left.
LEMMA IncludedKeeps ==
  ASSUME NEW x \in Nat, NEW n \in Numerators
  PROVE  LET total == IncludedFeeAmount(x, n)
         IN  /\ total \in Nat /\ x <= Kept(total, n)
             /\ \A less \in Nat : less < total => Kept(less, n) < x
<1> DEFINE D == FeeDenominator
           total == IncludedFeeAmount(x, n)
<1>1. D \in Nat \ {0} /\ n \in Nat /\ D - n \in Nat \ {0} /\ x * D \in Int
  BY FeeAssumption DEF Numerators
<1>2. total \in Nat
  BY IncludedFeeAmountBounds DEF Numerators
<1>3. total = CeilDiv(x * D, D - n)
  BY DEF IncludedFeeAmount
<1> HIDE DEF D, total
<1>4. x <= Kept(total, n)
  <2>1. x * D <= total * (D - n)
    BY <1>1, <1>3, CeilDivEnough
  <2>2. total * (D - n) = total * D - total * n /\ (total - x) * D = total * D - x * D
    BY <1>1, <1>2
  <2>3. total * n \in Int /\ total * D \in Int
    BY <1>1, <1>2
  <2>4. total * n <= (total - x) * D
    BY <1>1, <2>1, <2>2, <2>3
  <2>5. CeilDiv(total * n, D) <= total - x
    BY <1>1, <1>2, <2>3, <2>4, CeilDivLe
  <2>6. CeilDiv(total * n, D) \in Int
    BY <1>1, <2>3, CeilDivEnough
  <2> QED BY <1>2, <2>5, <2>6 DEF Kept, FeeOn, D
<1>5. ASSUME NEW less \in Nat, less < total
      PROVE  Kept(less, n) < x
  <2>1. less * (D - n) < x * D
    BY <1>1, <1>3, <1>5, CeilDivGt
  <2>2. less * (D - n) = less * D - less * n /\ (less - x) * D = less * D - x * D
    BY <1>1
  <2>3. less * n \in Int /\ less * D \in Int
    BY <1>1
  <2>4. (less - x) * D < less * n
    BY <1>1, <2>1, <2>2, <2>3
  <2> DEFINE fee == CeilDiv(less * n, D)
  <2>5. fee \in Int /\ less * n <= fee * D
    BY <1>1, <2>3, CeilDivEnough
  <2> HIDE DEF fee
  <2>6. less - x < fee
    <3> SUFFICES ASSUME less - x >= fee PROVE FALSE
      BY <2>5
    <3>1. (less - x) * D >= fee * D
      BY <1>1, <2>5, MulMonotone
    <3>2. (less - x) * D \in Int /\ fee * D \in Int
      BY <1>1, <2>5
    <3> QED BY <2>3, <2>4, <2>5, <3>1, <3>2
  <2> QED BY <2>5, <2>6 DEF Kept, FeeOn, fee, D
<1> QED BY <1>2, <1>4, <1>5 DEF total

-----------------------------------------------------------------------------
\* Swaps at a flat fee: what of the input moves the price, and what of the
\* output is paid out.
FlatNumerator(f) == TotalNumerator(f.cliff, f)

NetOf(dir, amount, n)  == IF FeesOnInput(dir) THEN Kept(amount, n) ELSE amount
PaidOut(dir, gross, n) == IF FeesOnInput(dir) THEN gross ELSE Kept(gross, n)

\* get_total_fee_numerator keeps the fee below the whole.
LEMMA FlatNumeratorBounds ==
  ASSUME NEW f \in TradeFeeRecord
  PROVE  FlatNumerator(f) \in Numerators
<1>1. f.cliff \in Nat
  BY DEF TradeFeeRecord
<1> QED BY <1>1, TotalNumeratorBounds DEF FlatNumerator, Numerators

\* Cutting an input in two does not make more of it move the price, ...
LEMMA NetOfAdd ==
  ASSUME NEW x \in Nat, NEW y \in Nat, NEW n \in Numerators, NEW dir
  PROVE  /\ NetOf(dir, x, n) \in 0..x
         /\ NetOf(dir, x, n) + NetOf(dir, y, n) <= NetOf(dir, x + y, n)
BY KeptNat, KeptAdd DEF NetOf

\* ... and cutting an output in two does not make more of it be paid out.
LEMMA PaidOutAdd ==
  ASSUME NEW x \in Nat, NEW y \in Nat, NEW n \in Numerators, NEW dir
  PROVE  /\ PaidOut(dir, x, n) \in 0..x
         /\ PaidOut(dir, x, n) + PaidOut(dir, y, n) <= PaidOut(dir, x + y, n)
         /\ x <= y => PaidOut(dir, x, n) <= PaidOut(dir, y, n)
BY KeptNat, KeptAdd, KeptMonotone DEF PaidOut

\* get_swap_result_from_exact_input
LEMMA FlatExactIn ==
  ASSUME NEW price \in SqrtMinPrice..SqrtMaxPrice, NEW L \in Nat \ {0},
         NEW amount \in Nat, NEW dir \in Directions,
         NEW f \in TradeFeeRecord, ~f.limited,
         NEW r \in ExactIn(price, L, amount, dir, f)
  PROVE  LET n   == FlatNumerator(f)
             net == NetOf(dir, amount, n)
             out == MoveOut(price, r.next, L, dir)
         IN  /\ net \in 0..amount
             /\ r.next = NextFromInput(price, L, net, dir)
             /\ r.next \in SqrtMinPrice..SqrtMaxPrice
             /\ out \in Nat
             /\ OutFair(dir, price, r.next, L, out)
             /\ r.out = PaidOut(dir, out, n)
<1> DEFINE n     == FlatNumerator(f)
           net   == NetOf(dir, amount, n)
           feeIn == IF FeesOnInput(dir) THEN FeeOn(amount, n) ELSE 0
           to(x) == NextFromInput(price, L, x, dir)
           move(x)   == MoveOut(price, to(x), L, dir)
           feeOut(x) == IF FeesOnInput(dir) THEN 0 ELSE FeeOn(move(x), n)
<1>1. n \in Numerators /\ NumeratorFor(amount, f) = n
  BY FlatNumeratorBounds DEF NumeratorFor, BaseFromIncluded, FlatNumerator
<1> HIDE DEF n
<1>2. r = [in |-> amount, out |-> move(amount - feeIn) - feeOut(amount - feeIn),
           fee |-> feeIn + feeOut(amount - feeIn),
           next |-> to(amount - feeIn), left |-> 0]
  BY <1>1 DEF ExactIn
<1>3. net \in 0..amount
  BY <1>1, NetOfAdd
<1>4. amount - feeIn = net
  BY <1>1 DEF NetOf, Kept
<1>5. r.next = to(net) /\ r.out = move(net) - feeOut(net)
  BY <1>2, <1>4
<1>6. r.next \in SqrtMinPrice..SqrtMaxPrice
  BY ExactInSound DEF SoundResult
<1>7. price \in Nat \ {0} /\ r.next \in Nat \ {0}
  BY <1>6, PriceAssumption
<1> HIDE DEF net
<1>8. Towards(dir, price, r.next)
  BY <1>3, <1>5, <1>7, NextFromInputMoves
<1> DEFINE out == MoveOut(price, r.next, L, dir)
<1>9. out \in Nat /\ OutFair(dir, price, r.next, L, out)
  BY <1>6, <1>7, <1>8, MoveNat, MoveOutFair
<1>10. move(net) = out
  BY <1>5
<1>11. r.out = out - (IF FeesOnInput(dir) THEN 0 ELSE FeeOn(out, n))
  BY <1>5, <1>10
<1> HIDE DEF out, to
<1>12. r.out = PaidOut(dir, out, n)
  BY <1>9, <1>11 DEF PaidOut, Kept
<1> QED BY <1>3, <1>5, <1>6, <1>9, <1>12 DEF out, net, to, n

\* Cutting a trade in two.
LEMMA Split ==
  ASSUME NEW price \in SqrtMinPrice..SqrtMaxPrice, NEW L \in Nat \ {0},
         NEW m \in Nat, NEW k \in Nat, NEW dir \in Directions,
         NEW f \in TradeFeeRecord, ~f.limited,
         NEW r \in ExactIn(price, L, m + k, dir, f),
         NEW s \in ExactIn(price, L, m, dir, f),
         NEW u \in ExactIn(s.next, L, k, dir, f)
  PROVE  s.out + u.out <= r.out
<1> DEFINE n == FlatNumerator(f)
           a == NetOf(dir, m, n)
           b == NetOf(dir, k, n)
           c == NetOf(dir, m + k, n)
           x == MoveOut(price, s.next, L, dir)
           y == MoveOut(s.next, u.next, L, dir)
           z == MoveOut(price, r.next, L, dir)
<1>1. /\ r.next = NextFromInput(price, L, c, dir)
      /\ r.next \in SqrtMinPrice..SqrtMaxPrice
      /\ z \in Nat /\ r.out = PaidOut(dir, z, n)
  BY FlatExactIn
<1>2. /\ s.next = NextFromInput(price, L, a, dir)
      /\ s.next \in SqrtMinPrice..SqrtMaxPrice
      /\ x \in Nat /\ s.out = PaidOut(dir, x, n)
      /\ OutFair(dir, price, s.next, L, x)
  BY FlatExactIn
<1>3. /\ u.next = NextFromInput(s.next, L, b, dir)
      /\ u.next \in SqrtMinPrice..SqrtMaxPrice
      /\ y \in Nat /\ u.out = PaidOut(dir, y, n)
      /\ OutFair(dir, s.next, u.next, L, y)
  BY <1>2, FlatExactIn
<1>4. n \in Numerators
  BY FlatNumeratorBounds
<1> HIDE DEF n
<1>5. a \in Nat /\ b \in Nat /\ c \in Nat /\ a + b <= c
  <2>1. a \in 0..m /\ b \in 0..k /\ c \in 0..(m + k) /\ a + b <= c
    BY <1>4, NetOfAdd
  <2> HIDE DEF a, b, c
  <2> QED BY <2>1
<1> HIDE DEF a, b, c, x, y, z
<1>6. /\ price \in Nat \ {0} /\ r.next \in Nat \ {0}
      /\ s.next \in Nat \ {0} /\ u.next \in Nat \ {0}
  BY <1>1, <1>2, <1>3, PriceAssumption
<1>7. InPays(dir, price, u.next, L, c)
  <2>1. /\ InPays(dir, price, s.next, L, a)
        /\ InPays(dir, s.next, u.next, L, b)
    BY <1>2, <1>3, <1>5, <1>6, NextFromInputPaid
  <2>2. InPays(dir, price, u.next, L, a + b)
    BY <1>5, <1>6, <2>1, PaysAdd
  <2>3. a + b \in Nat /\ c \in Nat /\ a + b <= c
    BY <1>5
  <2> QED BY <1>6, <2>2, <2>3, PaysMore
<1>8. Towards(dir, u.next, r.next)
  BY <1>1, <1>5, <1>6, <1>7, NextIsFurthest
<1>9. OutFair(dir, price, u.next, L, x + y)
  BY <1>2, <1>3, <1>6, FairAdd
<1>10. OutFair(dir, price, r.next, L, x + y)
  BY <1>2, <1>3, <1>6, <1>8, <1>9, FairFurther
<1>11. x + y <= z
  BY <1>2, <1>3, <1>6, <1>10, OutIsLargest DEF z
<1>12. /\ PaidOut(dir, x, n) + PaidOut(dir, y, n) <= PaidOut(dir, x + y, n)
       /\ PaidOut(dir, x + y, n) <= PaidOut(dir, z, n)
       /\ PaidOut(dir, x, n) \in Int /\ PaidOut(dir, y, n) \in Int
       /\ PaidOut(dir, x + y, n) \in Int /\ PaidOut(dir, z, n) \in Int
  <2>1. x + y \in Nat
    BY <1>2, <1>3
  <2>2. /\ PaidOut(dir, x, n) \in 0..x /\ PaidOut(dir, y, n) \in 0..y
        /\ PaidOut(dir, x + y, n) \in 0..(x + y)
        /\ PaidOut(dir, z, n) \in 0..z
    BY <1>1, <1>2, <1>3, <1>4, <2>1, PaidOutAdd, SMTT(30)
  <2>3. PaidOut(dir, x, n) + PaidOut(dir, y, n) <= PaidOut(dir, x + y, n)
    BY <1>2, <1>3, <1>4, PaidOutAdd, SMTT(30)
  <2>4. PaidOut(dir, x + y, n) <= PaidOut(dir, z, n)
    BY <1>1, <1>4, <1>11, <2>1, PaidOutAdd, SMTT(30)
  <2> QED BY <2>2, <2>3, <2>4
<1> QED BY <1>1, <1>2, <1>3, <1>12

-----------------------------------------------------------------------------
\* What exact-out asks for is the least that pays for its move, ...
LEMMA MoveInIsLeast ==
  ASSUME NEW price \in Nat \ {0}, NEW to \in Nat \ {0}, NEW L \in Nat,
         NEW in \in Int, NEW dir \in Directions,
         InPays(dir, price, to, L, in)
  PROVE  MoveIn(price, to, L, dir) <= in
<1>1. /\ L * (price - to) \in Int /\ L * (to - price) \in Int
      /\ to * price \in Nat \ {0} /\ to * price = price * to
  BY MulPos
<1>2. CASE dir = "AtoB"
  <2>1. L * (price - to) <= in * (to * price)
    BY <1>1, <1>2 DEF InPays
  <2>2. CeilDiv(L * (price - to), to * price) <= in
    BY <1>1, <2>1, CeilDivLe
  <2> QED BY <1>2, <2>2 DEF MoveIn, DeltaA, DivRound
<1>3. CASE dir = "BtoA"
  <2>1. L * (to - price) <= in * Scale
    BY <1>3 DEF InPays
  <2>2. CeilDiv(L * (to - price), Scale) <= in
    BY <1>1, <2>1, CeilDivLe, ScaleAssumption
  <2> QED BY <1>3, <2>2 DEF MoveIn, DeltaB, DivRound
<1> QED BY <1>2, <1>3 DEF Directions

\* ... and its move the shortest that its output is fair for.
LEMMA NextIsNearest ==
  ASSUME NEW price \in Nat \ {0}, NEW near \in Nat \ {0}, NEW L \in Nat \ {0},
         NEW out \in Nat, NEW dir \in Directions,
         dir = "BtoA" => AOutPossible(price, L, out),
         FallsBefore(dir, near, NextFromOutput(price, L, out, dir))
  PROVE  ~OutFair(dir, price, near, L, out)
<1>1. CASE dir = "BtoA"
  <2> DEFINE left == L - out * price
             base == L * price
  <2>1. left \in Nat \ {0} /\ base \in Int
    <3>1. out * price < L /\ out * price \in Nat
      BY <1>1, MulNat DEF AOutPossible
    <3> QED BY <3>1
  <2>2. near < CeilDiv(base, left)
    BY <1>1 DEF FallsBefore, NextFromOutput, NextPriceFromAOut
  <2>3. near * left < base
    <3> HIDE DEF left, base
    <3> QED BY <2>1, <2>2, CeilDivGt
  <2>4. near * left = L * near - out * (price * near)
    OBVIOUS
  <2>5. L * (near - price) = L * near - base
    OBVIOUS
  <2>6. L * near \in Int /\ out * (price * near) \in Int
    OBVIOUS
  <2> HIDE DEF left, base
  <2>7. L * (near - price) < out * (price * near)
    BY <2>1, <2>3, <2>4, <2>5, <2>6
  <2>8. L * (near - price) \in Int
    OBVIOUS
  <2> QED BY <1>1, <2>6, <2>7, <2>8 DEF OutFair
<1>2. CASE dir = "AtoB"
  <2> DEFINE value == out * Scale
             drop  == price - near
  <2>1. value \in Int /\ drop \in Int
    BY ScaleAssumption
  <2>2. CeilDiv(value, L) \in Int /\ price - CeilDiv(value, L) < near
    <3>1. price - CeilDiv(value, L) < near
      BY <1>2 DEF FallsBefore, NextFromOutput, NextPriceFromBOut
    <3> HIDE DEF value
    <3> QED BY <2>1, <3>1, CeilDivEnough
  <2>3. drop < CeilDiv(value, L)
    <3> HIDE DEF value
    <3> QED BY <2>2
  <2>4. drop * L < value
    <3> HIDE DEF value, drop
    <3> QED BY <2>1, <2>3, CeilDivGt
  <2>5. drop * L = L * drop /\ L * drop \in Int
    BY <2>1
  <2>6. ~(value <= L * drop)
    <3> HIDE DEF value, drop
    <3> QED BY <2>1, <2>4, <2>5
  <2> QED BY <1>2, <2>6 DEF OutFair
<1> QED BY <1>1, <1>2 DEF Directions

\* get_swap_result_from_exact_output
LEMMA FlatExactOut ==
  ASSUME NEW price \in SqrtMinPrice..SqrtMaxPrice, NEW L \in Nat \ {0},
         NEW amount \in Nat, NEW dir \in Directions,
         NEW f \in TradeFeeRecord, ~f.limited,
         NEW r \in ExactOut(price, L, amount, dir, f)
  PROVE  LET n     == FlatNumerator(f)
             gross == IF FeesOnInput(dir) THEN amount
                                          ELSE IncludedFeeAmount(amount, n)
             net   == MoveIn(price, r.next, L, dir)
         IN  /\ dir = "BtoA" => AOutPossible(price, L, gross)
             /\ r.next = NextFromOutput(price, L, gross, dir)
             /\ r.next \in SqrtMinPrice..SqrtMaxPrice
             /\ r.in = IF FeesOnInput(dir) THEN IncludedFeeAmount(net, n)
                                           ELSE net
<1> DEFINE n         == FlatNumerator(f)
           gross     == IF FeesOnInput(dir) THEN amount
                                            ELSE IncludedFeeAmount(amount, n)
           grosses   == IF FeesOnInput(dir) THEN {amount}
                                            ELSE AmountsIncluding(amount, f)
           next(g)   == NextFromOutput(price, L, g, dir)
           net(g)    == MoveIn(price, next(g), L, dir)
           totals(g) == IF FeesOnInput(dir) THEN AmountsIncluding(net(g), f)
                                            ELSE {net(g)}
<1>1. \A x : AmountsIncluding(x, f) = {IncludedFeeAmount(x, n)}
  BY DEF AmountsIncluding, BaseFromExcluded, FlatNumerator
<1>2. PICK g \in grosses :
        /\ dir = "BtoA" => AOutPossible(price, L, g)
        /\ \E total \in totals(g) :
             r = [in |-> total, out |-> amount,
                  fee |-> (g - amount) + (total - net(g)),
                  next |-> next(g), left |-> 0]
  <2> DEFINE Move(g) ==
        IF /\ dir = "BtoA" => AOutPossible(price, L, g)
           /\ dir = "AtoB" => next(g) >= 0
           /\ WithinRange(next(g), dir)
          THEN {[in |-> total, out |-> amount,
                 fee |-> (g - amount) + (total - net(g)),
                 next |-> next(g), left |-> 0] : total \in totals(g)}
          ELSE {}
  <2>1. r \in UNION {Move(g) : g \in grosses}
    BY DEF ExactOut
  <2> HIDE DEF Move
  <2>2. PICK g \in grosses : r \in Move(g)
    BY <2>1
  <2>3. /\ dir = "BtoA" => AOutPossible(price, L, g)
        /\ r \in {[in |-> total, out |-> amount,
                   fee |-> (g - amount) + (total - net(g)),
                   next |-> next(g), left |-> 0] : total \in totals(g)}
    BY <2>2 DEF Move
  <2> QED BY <2>2, <2>3
<1>3. g = gross
  <2> HIDE DEF n
  <2> QED BY <1>1
<1>4. PICK total \in totals(gross) :
        r = [in |-> total, out |-> amount,
             fee |-> (gross - amount) + (total - net(gross)),
             next |-> next(gross), left |-> 0]
  BY <1>2, <1>3
<1>5. r.in = total /\ r.next = next(gross)
  BY <1>4
<1>6. total = IF FeesOnInput(dir) THEN IncludedFeeAmount(net(gross), n)
                                  ELSE net(gross)
  <2> HIDE DEF n, net, gross
  <2> QED BY <1>1
<1>7. r.next \in SqrtMinPrice..SqrtMaxPrice
  BY ExactOutSound DEF SoundResult
<1>8. net(gross) = MoveIn(price, r.next, L, dir)
  BY <1>5
<1> QED BY <1>2, <1>3, <1>5, <1>6, <1>7, <1>8, Zenon

\* Exact-in delivers what exact-out was asked for, when it is given what
\* exact-out charges, and less when it is given less.
LEMMA ModesMeet ==
  ASSUME NEW price \in SqrtMinPrice..SqrtMaxPrice, NEW L \in Nat \ {0},
         NEW amount \in Nat \ {0}, NEW dir \in Directions,
         NEW f \in TradeFeeRecord, ~f.limited,
         NEW r \in ExactOut(price, L, amount, dir, f)
  PROVE  /\ \A s \in ExactIn(price, L, r.in, dir, f) : s.out >= amount
         /\ r.in > 1 =>
              \A s \in ExactIn(price, L, r.in - 1, dir, f) : s.out < amount
<1> DEFINE n     == FlatNumerator(f)
           gross == IF FeesOnInput(dir) THEN amount
                                        ELSE IncludedFeeAmount(amount, n)
           net   == MoveIn(price, r.next, L, dir)
<1>1. /\ dir = "BtoA" => AOutPossible(price, L, gross)
      /\ r.next = NextFromOutput(price, L, gross, dir)
      /\ r.next \in SqrtMinPrice..SqrtMaxPrice
      /\ r.in = IF FeesOnInput(dir) THEN IncludedFeeAmount(net, n) ELSE net
  BY FlatExactOut
<1>2. n \in Numerators
  BY FlatNumeratorBounds
<1> HIDE DEF n
<1>3. /\ gross \in Nat /\ PaidOut(dir, gross, n) >= amount
      /\ \A x \in Nat : x < gross => PaidOut(dir, x, n) < amount
  BY <1>2, IncludedKeeps DEF PaidOut
<1> HIDE DEF gross
<1>4. price \in Nat \ {0} /\ r.next \in Nat \ {0} /\ r.in \in Nat
  BY <1>1, PriceAssumption, ExactOutSound DEF SoundResult
<1>5. OutFair(dir, price, r.next, L, gross)
  BY <1>1, <1>3, <1>4, NextFromOutputFair
<1>6. net \in Nat /\ InPays(dir, price, r.next, L, net)
  <2>1. Towards(dir, price, r.next)
    BY <1>1, <1>3, <1>4, NextFromOutputMoves
  <2> QED BY <1>1, <1>4, <2>1, MoveNat, MoveInEnough
<1>7. /\ NetOf(dir, r.in, n) >= net
      /\ \A x \in Nat : x < r.in => NetOf(dir, x, n) < net
  <2> HIDE DEF net
  <2> QED BY <1>1, <1>2, <1>6, IncludedKeeps DEF NetOf
<1>8. ASSUME NEW s \in ExactIn(price, L, r.in, dir, f)
      PROVE  s.out >= amount
  <2> DEFINE given == NetOf(dir, r.in, n)
             out   == MoveOut(price, s.next, L, dir)
  <2>1. /\ given \in 0..r.in
        /\ s.next = NextFromInput(price, L, given, dir)
        /\ s.next \in SqrtMinPrice..SqrtMaxPrice
        /\ out \in Nat /\ s.out = PaidOut(dir, out, n)
    BY <1>4, FlatExactIn DEF n
  <2>2. s.next \in Nat \ {0} /\ given \in Nat
    BY <1>4, <2>1, PriceAssumption
  <2>3. InPays(dir, price, r.next, L, given)
    <3>1. net <= given
      BY <1>7
    <3> HIDE DEF given, net
    <3>2. /\ net \in Int /\ given \in Int /\ L \in Nat
          /\ InPays(dir, price, r.next, L, net)
      BY <1>6, <2>2
    <3> QED BY <1>4, <3>1, <3>2, PaysMore
  <2>4. Towards(dir, r.next, s.next)
    <3> HIDE DEF given
    <3> QED BY <1>4, <2>1, <2>2, <2>3, NextIsFurthest
  <2>5. OutFair(dir, price, s.next, L, gross)
    BY <1>3, <1>4, <1>5, <2>2, <2>4, FairFurther
  <2>6. gross <= out
    BY <1>3, <1>4, <2>2, <2>5, OutIsLargest
  <2> HIDE DEF out
  <2>7. PaidOut(dir, gross, n) <= PaidOut(dir, out, n)
        /\ PaidOut(dir, gross, n) \in 0..gross /\ PaidOut(dir, out, n) \in 0..out
    BY <1>2, <1>3, <2>1, <2>6, PaidOutAdd
  <2> QED BY <1>3, <2>1, <2>7
<1>9. ASSUME r.in > 1, NEW s \in ExactIn(price, L, r.in - 1, dir, f)
      PROVE  s.out < amount
  <2> DEFINE given == NetOf(dir, r.in - 1, n)
             out   == MoveOut(price, s.next, L, dir)
  <2>0. r.in - 1 \in Nat /\ r.in - 1 < r.in
    BY <1>4, <1>9
  <2>1. /\ given \in 0..(r.in - 1)
        /\ s.next = NextFromInput(price, L, given, dir)
        /\ s.next \in SqrtMinPrice..SqrtMaxPrice
        /\ out \in Nat /\ s.out = PaidOut(dir, out, n)
        /\ OutFair(dir, price, s.next, L, out)
    BY <1>9, <2>0, FlatExactIn DEF n
  <2>2. s.next \in Nat \ {0} /\ given \in Nat /\ given < net
    BY <1>4, <1>7, <2>0, <2>1, PriceAssumption
  <2>3. InPays(dir, price, s.next, L, given)
    <3> HIDE DEF given
    <3> QED BY <1>4, <2>1, <2>2, NextFromInputPaid
  <2>4. ~Towards(dir, r.next, s.next)
    <3> SUFFICES ASSUME Towards(dir, r.next, s.next) PROVE FALSE
      OBVIOUS
    <3> HIDE DEF given
    <3>1. InPays(dir, price, r.next, L, given)
      BY <1>4, <2>2, <2>3, PaysNearer
    <3>2. net <= given
      BY <1>4, <2>2, <3>1, MoveInIsLeast
    <3> QED BY <1>6, <2>2, <3>2
  <2>5. FallsBefore(dir, s.next, r.next)
    BY <1>4, <2>2, <2>4 DEF FallsBefore, Towards
  <2>6. ~OutFair(dir, price, s.next, L, gross)
    BY <1>1, <1>3, <1>4, <2>2, <2>5, NextIsNearest
  <2>7. out < gross
    <3> SUFFICES ASSUME gross <= out PROVE FALSE
      BY <1>3, <2>1
    <3> HIDE DEF out
    <3>1. gross \in Int /\ out \in Int /\ L \in Nat
          /\ OutFair(dir, price, s.next, L, out)
      BY <1>3, <2>1
    <3> QED BY <1>4, <2>2, <2>6, <3>1, FairLess
  <2> QED BY <1>3, <2>1, <2>7
<1> QED BY <1>8, <1>9

-----------------------------------------------------------------------------
\* A partial fill that used up the offer is the exact-in swap, if there is
\* one: at the edge of the range both arrive at the edge.
LEMMA PartialIsExact ==
  ASSUME NEW price \in SqrtMinPrice..SqrtMaxPrice, NEW L \in Nat \ {0},
         NEW amount \in Nat, NEW dir \in Directions,
         NEW f \in TradeFeeRecord,
         NEW r \in PartialIn(price, L, amount, dir, f), r.left = 0,
         ExactIn(price, L, amount, dir, f) # {}
  PROVE  ExactIn(price, L, amount, dir, f) = {r}
<1> DEFINE onInput == FeesOnInput(dir)
           num     == NumeratorFor(amount, f)
           feeIn   == IF onInput THEN FeeOn(amount, num) ELSE 0
           net     == IF onInput THEN amount - FeeOn(amount, num) ELSE amount
           edge    == IF dir = "AtoB" THEN SqrtMinPrice ELSE SqrtMaxPrice
           maxIn   == MoveIn(price, edge, L, dir)
           atEdge  == net >= maxIn
           used    == IF atEdge THEN maxIn ELSE net
           exact   == NextFromInput(price, L, net, dir)
           next    == IF atEdge THEN edge ELSE exact
           gross   == MoveOut(price, next, L, dir)
           totals  == IF used = net THEN {amount}
                      ELSE IF onInput THEN AmountsIncluding(used, f)
                                      ELSE {used}
           fee(total) == IF onInput THEN total - used ELSE FeeOn(gross, num)
           feeOut  == IF onInput THEN 0 ELSE FeeOn(gross, num)
<1>1. num \in Numerators /\ FeeOn(amount, num) \in 0..amount
  BY NumeratorForBounds, FeeOnBounds DEF Numerators
<1> HIDE DEF num
<1>2. net \in Nat /\ amount - feeIn = net
  BY <1>1
<1>3. price \in Nat \ {0} /\ edge \in Nat \ {0} /\ edge \in SqrtMinPrice..SqrtMaxPrice
  BY PriceAssumption
<1>4. PICK total \in totals :
        r = [in |-> total, out |-> IF onInput THEN gross ELSE gross - fee(total),
             fee |-> fee(total), next |-> next, left |-> net - used]
  BY DEF PartialIn, num
<1>5. maxIn \in Nat /\ InPays(dir, price, edge, L, maxIn)
  <2>1. Towards(dir, price, edge)
    BY DEF Towards
  <2> HIDE DEF edge
  <2> QED BY <1>3, <2>1, MoveNat, MoveInEnough
<1>6. used = net
  <2>1. net - used = 0 /\ used \in Int
    <3> HIDE DEF net, maxIn
    <3> QED BY <1>2, <1>4, <1>5
  <2> HIDE DEF net, used
  <2> QED BY <1>2, <2>1
<1>7. total = amount
  <2> HIDE DEF used, net
  <2> QED BY <1>6
<1>8. ExactIn(price, L, amount, dir, f)
        = {[in |-> amount,
            out |-> MoveOut(price, exact, L, dir)
                      - (IF onInput THEN 0
                         ELSE FeeOn(MoveOut(price, exact, L, dir), num)),
            fee |-> feeIn + (IF onInput THEN 0
                             ELSE FeeOn(MoveOut(price, exact, L, dir), num)),
            next |-> exact, left |-> 0]}
      /\ WithinRange(exact, dir)
  <2>1. amount - feeIn = net
    BY <1>2
  <2> HIDE DEF net, feeIn
  <2> QED BY <2>1 DEF ExactIn, feeIn, num
<1>9. exact \in Nat
  <2> HIDE DEF net
  <2> QED BY <1>2, <1>3, NextFromInputMoves
<1>10. next = exact
  <2>1. CASE ~atEdge
    BY <2>1
  <2>2. CASE atEdge
    <3>1. net = maxIn /\ next = edge
      BY <1>6, <2>2
    <3>2. Towards(dir, edge, exact)
      <4> HIDE DEF net, edge, maxIn
      <4> QED BY <1>2, <1>3, <1>5, <3>1, NextIsFurthest
    <3>3. exact = edge
      <4> HIDE DEF exact
      <4> QED BY <1>8, <1>9, <3>2, PriceAssumption DEF Towards, WithinRange, Directions
    <3> QED BY <3>1, <3>3
  <2> QED BY <2>1, <2>2
<1> DEFINE out == IF onInput THEN gross ELSE gross - FeeOn(gross, num)
<1>11. gross - feeOut = out /\ fee(total) = feeIn + feeOut
  <2>1. gross \in Nat
    <3>1. Towards(dir, price, next) /\ next \in SqrtMinPrice..SqrtMaxPrice
      <4>1. Towards(dir, price, exact)
        <5> HIDE DEF net
        <5> QED BY <1>2, <1>3, NextFromInputMoves
      <4> HIDE DEF exact, next
      <4> QED BY <1>8, <1>9, <1>10, <4>1, RangeKept
    <3> HIDE DEF next
    <3> QED BY <1>3, <3>1, MoveNat
  <2>2. FeeOn(gross, num) \in 0..gross
    <3> HIDE DEF gross
    <3> QED BY <1>1, <2>1, FeeOnBounds DEF Numerators
  <2> HIDE DEF gross, used, next
  <2>3. CASE onInput
    BY <1>1, <1>6, <1>7, <2>1, <2>3
  <2>4. CASE ~onInput
    BY <2>1, <2>2, <2>4
  <2> QED BY <2>3, <2>4
<1>12. r = [in |-> amount, out |-> out, fee |-> feeIn + feeOut,
            next |-> next, left |-> 0]
  <2>1. net - used = 0
    <3> HIDE DEF net, used
    <3> QED BY <1>2, <1>6
  <2> HIDE DEF net, used, next, gross
  <2> QED BY <1>4, <1>7, <1>11, <2>1
<1>13. ExactIn(price, L, amount, dir, f)
         = {[in |-> amount, out |-> gross - feeOut, fee |-> feeIn + feeOut,
             next |-> next, left |-> 0]}
  <2> HIDE DEF exact, next, feeIn, num
  <2> QED BY <1>8, <1>10
<1> HIDE DEF gross, feeOut, feeIn, next, out
<1> QED BY <1>11, <1>12, <1>13

\* Where nothing is recomputed by a limiter's inverse, a partial fill does not
\* charge more than was offered.
LEMMA PartialWithin ==
  ASSUME NEW price \in SqrtMinPrice..SqrtMaxPrice, NEW L \in Nat \ {0},
         NEW amount \in Nat, NEW dir \in Directions,
         NEW f \in TradeFeeRecord,
         NEW r \in PartialIn(price, L, amount, dir, f),
         ~(FeesOnInput(dir) /\ f.limited /\ r.left > 0)
  PROVE  r.in <= amount
<1> DEFINE onInput == FeesOnInput(dir)
           n       == NumeratorFor(amount, f)
           net     == IF onInput THEN amount - FeeOn(amount, n) ELSE amount
           edge    == IF dir = "AtoB" THEN SqrtMinPrice ELSE SqrtMaxPrice
           maxIn   == MoveIn(price, edge, L, dir)
           used    == IF net >= maxIn THEN maxIn ELSE net
           totals  == IF used = net THEN {amount}
                      ELSE IF onInput THEN AmountsIncluding(used, f)
                                      ELSE {used}
<1>1. n \in Numerators
  BY NumeratorForBounds DEF Numerators
<1>2. r.in \in totals /\ r.left = net - used
  BY DEF PartialIn
<1>3. net \in 0..amount /\ (onInput => net = Kept(amount, n))
  <2> HIDE DEF n
  <2> QED BY <1>1, KeptNat DEF Kept
<1>4. maxIn \in Nat
  <2>1. Towards(dir, price, edge) /\ edge \in SqrtMinPrice..SqrtMaxPrice
    BY PriceAssumption DEF Towards
  <2> HIDE DEF edge
  <2> QED BY <2>1, MoveNat
<1>5. used \in Nat /\ used <= net
  <2> HIDE DEF net, maxIn
  <2> QED BY <1>3, <1>4
<1>6. used # net => r.left > 0
  <2> HIDE DEF used, net
  <2> QED BY <1>2, <1>3, <1>5
<1> HIDE DEF used, net
<1>7. CASE used = net
  BY <1>2, <1>7
<1>8. CASE used # net /\ ~onInput
  BY <1>2, <1>3, <1>5, <1>8
<1>9. CASE used # net /\ onInput
  <2>1. ~f.limited
    BY <1>6, <1>9
  <2>2. n = TotalNumerator(f.cliff, f) /\ r.in = IncludedFeeAmount(used, n)
    BY <1>2, <1>9, <2>1
       DEF NumeratorFor, BaseFromIncluded, AmountsIncluding, BaseFromExcluded
  <2> HIDE DEF n
  <2>3. r.in \in Nat /\ \A less \in Nat : less < r.in => Kept(less, n) < used
    BY <1>1, <1>5, <2>2, IncludedKeeps
  <2>4. ~(Kept(amount, n) < used)
    BY <1>3, <1>5, <1>9
  <2> QED BY <2>3, <2>4
<1> QED BY <1>7, <1>8, <1>9

-----------------------------------------------------------------------------
\* Every input of a behaviour is one of those assumed.
LEMMA InputsTried == Spec => [](trade \in Trades)
<1>1. Init => trade \in Trades
  BY DEF Init
<1>2. trade \in Trades /\ [NextAmount]_trade => (trade \in Trades)'
  BY DEF NextAmount, Trades
<1> QED BY <1>1, <1>2, PTL DEF Spec

\* What QuoteAssumption says of the parts of a trade.
LEMMA TradeInputs ==
  ASSUME trade \in Trades
  PROVE  /\ trade.price \in SqrtMinPrice..SqrtMaxPrice
         /\ trade.L \in Nat \ {0} /\ trade.amount \in Nat \ {0}
         /\ trade.dir \in Directions /\ trade.f \in TradeFeeRecord
         /\ \A dir : FeeFor(dir, trade.f) \in TradeFeeRecord
BY QuoteAssumption, FeeForRecord DEF Trades

\* Trading there and back never returns more than was paid, at any fees, with
\* or without a rate limiter.
THEOREM NoRoundTripGainHolds == Spec => []NoRoundTripGain
<1>1. trade \in Trades => NoRoundTripGain
  <2> SUFFICES ASSUME trade \in Trades,
                      NEW r \in In(trade),
                      NEW s \in In([trade EXCEPT !.amount = r.out, !.price = r.next,
                                                 !.dir = Opposite(trade.dir)])
               PROVE  s.out <= trade.amount
    BY DEF NoRoundTripGain
  <2>1. r \in ExactIn(trade.price, trade.L, trade.amount, trade.dir,
                      FeeFor(trade.dir, trade.f))
    BY DEF In
  <2>2. s \in ExactIn(r.next, trade.L, r.out, Opposite(trade.dir),
                      FeeFor(Opposite(trade.dir), trade.f))
    BY DEF In, Trades
  <2> QED BY <2>1, <2>2, TradeInputs, RoundTrip
<1> QED BY <1>1, InputsTried, PTL

\* At a flat fee, no cut of a trade in two gains.
THEOREM NoSplitGainHolds == Spec => []NoSplitGain
<1>1. trade \in Trades => NoSplitGain
  <2> SUFFICES ASSUME trade \in Trades, Flat(trade),
                      NEW r \in In(trade), NEW n \in 1..(trade.amount - 1),
                      NEW s \in In([trade EXCEPT !.amount = n]),
                      NEW u \in In([trade EXCEPT !.amount = trade.amount - n,
                                                 !.price = s.next])
               PROVE  s.out + u.out <= r.out
    BY DEF NoSplitGain
  <2> DEFINE f == FeeFor(trade.dir, trade.f)
             k == trade.amount - n
  <2>1. n \in Nat /\ k \in Nat /\ n + k = trade.amount
    BY TradeInputs
  <2>2. r \in ExactIn(trade.price, trade.L, n + k, trade.dir, f)
    BY <2>1 DEF In
  <2>3. s \in ExactIn(trade.price, trade.L, n, trade.dir, f)
    BY DEF In, Trades
  <2>4. u \in ExactIn(s.next, trade.L, k, trade.dir, f)
    BY DEF In, Trades
  <2>5. f \in TradeFeeRecord /\ ~f.limited
    BY TradeInputs DEF Flat
  <2> HIDE DEF f, k
  <2> QED BY <2>1, <2>2, <2>3, <2>4, <2>5, TradeInputs, Split
<1> QED BY <1>1, InputsTried, PTL

\* At a flat fee, exact-in and exact-out agree to the unit.
THEOREM ModesAgreeHolds == Spec => []ModesAgree
<1>1. trade \in Trades => ModesAgree
  <2> SUFFICES ASSUME trade \in Trades, Flat(trade), NEW r \in Out(trade)
               PROVE  /\ \A s \in In([trade EXCEPT !.amount = r.in]) :
                           s.out >= trade.amount
                      /\ r.in > 1 =>
                           \A s \in In([trade EXCEPT !.amount = r.in - 1]) :
                             s.out < trade.amount
    BY DEF ModesAgree
  <2> DEFINE f == FeeFor(trade.dir, trade.f)
  <2>1. r \in ExactOut(trade.price, trade.L, trade.amount, trade.dir, f)
    BY DEF Out
  <2>2. \A x : In([trade EXCEPT !.amount = x])
                 = ExactIn(trade.price, trade.L, x, trade.dir, f)
    BY DEF In, Trades
  <2>3. f \in TradeFeeRecord /\ ~f.limited
    BY TradeInputs DEF Flat
  <2> HIDE DEF f
  <2> QED BY <2>1, <2>2, <2>3, TradeInputs, ModesMeet
<1> QED BY <1>1, InputsTried, PTL

-----------------------------------------------------------------------------
\* Schedules.  Time and price go on, the base fee stays as validated.
ScheduleInv ==
  /\ baseFee \in BaseFeeRecord
  /\ ValidBaseFee(baseFee, TRUE)
  /\ since \in Int
  /\ sqrtPrice \in Prices

\* No price that is tried is zero.
LEMMA PricesPositive ==
  ASSUME ScheduleInv
  PROVE  sqrtPrice \in Nat \ {0} /\ InitPrice \in Nat \ {0}
BY ScheduleInputs DEF ScheduleInv

\* Every base fee that is tried is one.
LEMMA ScheduleInitSound ==
  ASSUME ScheduleInit
  PROVE  ScheduleInv
<1>1. /\ Cliffs \subseteq Nat /\ Reductions \subseteq Nat /\ MaxPeriods \in Nat
      /\ Before \in Nat /\ InitPrice \in Prices
  BY ScheduleInputs
<1>2. /\ 0..MaxPeriods \subseteq Nat /\ 1..MaxPeriods \subseteq Nat
      /\ {0} \subseteq Nat /\ Frequencies \subseteq Nat /\ Steps \subseteq Nat
      /\ Durations \subseteq Nat /\ MaxFees \subseteq Nat
      /\ ReferenceAmounts \subseteq Nat
  BY <1>1, ScheduleInputs
<1>3. TimeSchedules \subseteq BaseFeeRecord
  BY <1>1, <1>2 DEF TimeSchedules, BaseFeeRecord
<1>4. CapSchedules \subseteq BaseFeeRecord
  BY <1>1, <1>2 DEF CapSchedules, BaseFeeRecord
<1>5. Limiters \subseteq BaseFeeRecord
  BY <1>1, <1>2 DEF Limiters, BaseFeeRecord
<1>6. /\ baseFee \in TimeSchedules \cup CapSchedules \cup Limiters
      /\ ValidBaseFee(baseFee, TRUE) /\ since = -Before /\ sqrtPrice = InitPrice
  BY DEF ScheduleInit
<1>7. since \in Int
  BY <1>1, <1>6
<1> QED BY <1>1, <1>3, <1>4, <1>5, <1>6, <1>7 DEF ScheduleInv

\* A step moves the time on or changes the price, and never the base fee.
LEMMA ScheduleStepKeeps ==
  ASSUME ScheduleInv, [ScheduleNext]_scheduleVars
  PROVE  /\ ScheduleInv'
         /\ baseFee' = baseFee /\ since' >= since
<1>1. /\ baseFee' = baseFee
      /\ since' = since \/ since' = since + 1
      /\ sqrtPrice' = sqrtPrice \/ sqrtPrice' \in Prices
  BY DEF ScheduleNext, TimePasses, PriceMoves, scheduleVars
<1>2. since \in Int
  BY DEF ScheduleInv
<1>3. since' \in Int /\ since' >= since
  BY <1>1, <1>2
<1> QED BY <1>1, <1>3 DEF ScheduleInv

\* A validated base fee stays as it is at every time and price.
THEOREM ScheduleInvHolds == ScheduleSpec => []ScheduleInv
<1>1. ScheduleInit => ScheduleInv
  BY ScheduleInitSound
<1>2. ScheduleInv /\ [ScheduleNext]_scheduleVars => ScheduleInv'
  BY ScheduleStepKeeps
<1> QED BY <1>1, <1>2, PTL DEF ScheduleSpec

\* A base fee that passed validation can be computed at any time and price,
\* and is never below the least fee validated nor above the cliff fee.
THEOREM FeeDefinedAndBoundedHolds == ScheduleSpec => []FeeDefinedAndBounded
<1>1. ScheduleInv => FeeDefinedAndBounded
  <2> SUFFICES ASSUME ScheduleInv PROVE FeeDefinedAndBounded
    OBVIOUS
  <2>1. /\ baseFee \in BaseFeeRecord /\ ValidBaseFee(baseFee, TRUE)
        /\ since \in Int /\ sqrtPrice \in Nat /\ InitPrice \in Nat \ {0}
    BY PricesPositive DEF ScheduleInv
  <2> QED BY <2>1, ScheduledFeeDefined DEF FeeDefinedAndBounded, Now
<1> QED BY <1>1, ScheduleInvHolds, PTL

\* Once the pool is active, time and a rising price only lower the fee,
\* truncated powers and the end of the schedule included.
THEOREM FeeNeverRisesHolds == ScheduleSpec => FeeNeverRises
<1>1. ScheduleInv /\ ScheduleInv' /\ [ScheduleNext]_scheduleVars
        => [since >= 0 /\ sqrtPrice' >= sqrtPrice =>
              \A n \in Now, m \in Now' : m <= n]_scheduleVars
  <2> SUFFICES ASSUME ScheduleInv, ScheduleInv', [ScheduleNext]_scheduleVars,
                      since >= 0, sqrtPrice' >= sqrtPrice,
                      NEW n \in Now, NEW m \in Now'
               PROVE  m <= n
    OBVIOUS
  <2>1. /\ baseFee \in BaseFeeRecord /\ FeeMade(baseFee)
        /\ InitPrice \in Nat \ {0} /\ sqrtPrice \in Nat
        /\ since \in Nat
    <3>1. since \in Int
      BY DEF ScheduleInv
    <3>2. since \in Nat
      BY <3>1
    <3> QED BY <3>2, ValidMade, PricesPositive DEF ScheduleInv
  <2>2. baseFee' = baseFee /\ since' >= since
    BY ScheduleStepKeeps
  <2>3. sqrtPrice' \in Nat /\ since' \in Nat
    BY <2>1, <2>2, ScheduleInputs DEF ScheduleInv
  <2>4. /\ n \in ScheduledFee(baseFee, since, sqrtPrice, InitPrice)
        /\ m \in ScheduledFee(baseFee, since', sqrtPrice', InitPrice)
    BY <2>2 DEF Now
  <2> QED BY <2>1, <2>2, <2>3, <2>4, ScheduledFeeFalls
<1> QED BY <1>1, ScheduleInvHolds, PTL DEF ScheduleSpec, FeeNeverRises

\* validate_base_fee_is_static is right about every schedule and limiter.
THEOREM StaticIsStaticHolds == ScheduleSpec => []StaticIsStatic
<1>1. ScheduleInv => StaticIsStatic
  BY StaticFee, ValidMade DEF ScheduleInv, StaticIsStatic
<1> QED BY <1>1, ScheduleInvHolds, PTL

\* An exponential schedule takes the same part off the fee every period: for
\* every exponent and scale, what square-and-multiply makes of the power is off
\* by at most one unit of the scale a period, besides the fee's rounding down.
THEOREM DecayIsGeometricHolds == ScheduleSpec => []DecayIsGeometric
<1>1. ScheduleInv => DecayIsGeometric
  <2> SUFFICES ASSUME ScheduleInv, baseFee.mode = "TimeExponential",
                      baseFee.frequency > 0, since >= 0, NEW n \in Now
               PROVE  LET k     == Smaller(since \div baseFee.frequency,
                                           baseFee.periods)
                          whole == Power(MaxBasisPoint, k)
                          exact == baseFee.cliff
                                     * Power(MaxBasisPoint - baseFee.reduction, k)
                          drift == (baseFee.cliff * k * whole) \div OneQ
                      IN  /\ n * whole <= exact + drift
                          /\ exact <= (n + 1) * whole + drift
    BY DEF DecayIsGeometric
  <2> DEFINE passed == since \div baseFee.frequency
             k == Smaller(passed, baseFee.periods)
  <2>1. /\ baseFee.cliff \in Nat /\ baseFee.reduction \in Nat
        /\ baseFee.periods \in Nat /\ baseFee.frequency \in Nat \ {0}
        /\ since \in Nat
    BY DEF ScheduleInv, BaseFeeRecord
  <2>2. passed \in Nat
    BY <2>1, DivNat
  <2>3. n \in PeriodFee(baseFee, passed)
    <3>1. PassedPeriods(baseFee, since, sqrtPrice, InitPrice) = passed
      BY <2>1 DEF PassedPeriods, TimeModes
    <3>2. baseFee.frequency # 0 /\ baseFee.mode # "RateLimiter"
      BY <2>1
    <3> HIDE DEF passed
    <3> QED BY <3>1, <3>2 DEF Now, ScheduledFee
  <2>4. n \in FeeInPeriod(baseFee.cliff, baseFee.reduction, k)
    BY <2>3 DEF PeriodFee
  <2>5. k \in Nat
    BY <2>1, <2>2 DEF Smaller
  <2>6. MaxBasisPoint <= OneQ
    BY ScheduleInputs
  <2> HIDE DEF passed, k
  <2>7. LET whole == Power(MaxBasisPoint, k)
            exact == baseFee.cliff
                       * Power(MaxBasisPoint - baseFee.reduction, k)
            drift == (baseFee.cliff * k * whole) \div OneQ
        IN  /\ n * whole <= exact + drift
            /\ exact <= (n + 1) * whole + drift
    BY <2>1, <2>4, <2>5, <2>6, FeeInPeriodNear
  <2> QED BY <2>7 DEF k, passed
<1> QED BY <1>1, ScheduleInvHolds, PTL

-----------------------------------------------------------------------------
\* The rate limiter.  What validation says of one, as far as it matters here.
Limiting(l) ==
  /\ l.cliff \in Nat /\ l.increment \in Nat \ {0} /\ l.max \in Nat
  /\ l.reference \in Nat \ {0} /\ l.cliff <= l.max

\* What the first n + 1 bands charge for each unit of their length.
Full(l, n) == l.cliff + l.cliff * n + (l.increment * n * (n + 1)) \div 2

\* Another band adds its own numerator.
LEMMA FullStep ==
  ASSUME NEW l, Limiting(l), NEW n \in Nat
  PROVE  /\ Full(l, n) \in Nat
         /\ Full(l, n + 1) = Full(l, n) + (l.cliff + l.increment * (n + 1))
<1> DEFINE p == l.increment * n * (n + 1)
           y == l.increment * (n + 1)
<1>1. l.cliff \in Nat /\ l.increment \in Nat
  BY DEF Limiting
<1>2. p \in Nat /\ y \in Nat /\ l.cliff * n \in Nat
  BY <1>1, MulNat
<1>3. l.increment * (n + 1) * ((n + 1) + 1) = p + 2 * y
  BY <1>1
<1>4. l.cliff * (n + 1) = l.cliff * n + l.cliff
  BY <1>1
<1> HIDE DEF p, y
<1>5. (p + 2 * y) \div 2 = p \div 2 + y /\ p \div 2 \in Nat
  BY <1>2
<1>6. Full(l, n) = l.cliff + l.cliff * n + p \div 2
  BY DEF Full, p
<1>7. Full(l, n + 1) = l.cliff + l.cliff * (n + 1) + (p + 2 * y) \div 2
  BY <1>3 DEF Full
<1>8. Full(l, n + 1) = Full(l, n) + (l.cliff + y)
  BY <1>1, <1>2, <1>4, <1>5, <1>6, <1>7
<1> QED BY <1>1, <1>2, <1>5, <1>6, <1>8 DEF y

\* The closed form by its parts: a full bands after the first one, and what is
\* left of the next.
LEMMA BandFeesIs ==
  ASSUME NEW l, Limiting(l), NEW a \in Nat, NEW rest \in 0..(l.reference - 1)
  PROVE  LET amount == (a + 1) * l.reference + rest
         IN  /\ a < MaxIndex(l) =>
                  BandFees(l, amount)
                    = l.reference * Full(l, a)
                        + rest * (l.cliff + l.increment * (a + 1))
             /\ a >= MaxIndex(l) =>
                  BandFees(l, amount)
                    = l.reference * Full(l, MaxIndex(l))
                        + ((a - MaxIndex(l)) * l.reference + rest) * l.max
<1> DEFINE x == l.reference
           over == ((a + 1) * x + rest) - x
<1>1. x \in Nat \ {0} /\ rest \in Nat /\ a * x \in Nat /\ a * x + rest \in Nat
  BY MulNat DEF Limiting
<1>2. MaxIndex(l) \in Nat
  BY DivNat DEF MaxIndex, Limiting
<1>3. over = a * x + rest
  <2> HIDE DEF x
  <2>1. (a + 1) * x = a * x + x
    BY <1>1
  <2> QED BY <1>1, <2>1 DEF over
<1>4. over \div x = a /\ over % x = rest
  <2>1. rest \in 0..(x - 1) /\ a \in Int
    OBVIOUS
  <2> HIDE DEF over, x
  <2>2. (a * x + rest) \div x = a /\ (a * x + rest) % x = rest
    BY <1>1, <2>1, DivUnique
  <2> QED BY <1>3, <2>2
<1>5. over - MaxIndex(l) * x = (a - MaxIndex(l)) * x + rest
  BY <1>1, <1>2, <1>3
<1> HIDE DEF over
<1>6. BandFees(l, (a + 1) * x + rest)
        = x * Full(l, Smaller(a, MaxIndex(l)))
            + IF a < MaxIndex(l)
                THEN rest * (l.cliff + l.increment * (a + 1))
                ELSE (over - Smaller(a, MaxIndex(l)) * x) * l.max
  BY <1>4 DEF BandFees, Full, over
<1>7. /\ a < MaxIndex(l) => Smaller(a, MaxIndex(l)) = a
      /\ a >= MaxIndex(l) => Smaller(a, MaxIndex(l)) = MaxIndex(l)
                             /\ ~(a < MaxIndex(l))
  BY <1>2 DEF Smaller
<1> HIDE DEF x
<1>8. /\ a < MaxIndex(l) =>
           BandFees(l, (a + 1) * x + rest)
             = x * Full(l, a) + rest * (l.cliff + l.increment * (a + 1))
      /\ a >= MaxIndex(l) =>
           BandFees(l, (a + 1) * x + rest)
             = x * Full(l, MaxIndex(l))
                 + ((a - MaxIndex(l)) * x + rest) * l.max
  BY <1>5, <1>6, <1>7
<1> QED BY <1>8 DEF x

\* What the next unit pays.
LEMMA UnitFeeIs ==
  ASSUME NEW l, Limiting(l), NEW a \in Int, NEW rest \in 0..(l.reference - 1)
  PROVE  UnitFee(l, a * l.reference + rest + 1)
           = IF a <= MaxIndex(l) THEN l.cliff + l.increment * a ELSE l.max
<1> DEFINE x == l.reference
           k == a * x + rest
<1>1. x \in Nat \ {0} /\ rest \in 0..(x - 1) /\ k \in Int
  BY DEF Limiting
<1>2. k \div x = a
  <2> HIDE DEF x
  <2> QED BY <1>1, DivUnique DEF k
<1>3. (k + 1) - 1 = k
  BY <1>1
<1> HIDE DEF k
<1>4. UnitFee(l, k + 1)
        = IF a <= MaxIndex(l) THEN l.cliff + l.increment * a ELSE l.max
  BY <1>2, <1>3 DEF UnitFee
<1> QED BY <1>4 DEF k

\* The closed form grows by what each unit pays.
LEMMA BandFeesStep ==
  ASSUME NEW l, Limiting(l), NEW amount \in Nat, amount >= l.reference
  PROVE  /\ BandFees(l, amount) \in Int
         /\ BandFees(l, amount + 1)
              = BandFees(l, amount) + UnitFee(l, amount + 1)
<1> DEFINE x == l.reference
           M == MaxIndex(l)
           a == amount \div x - 1
           rest == amount % x
<1>1. /\ x \in Nat \ {0} /\ l.cliff \in Nat /\ l.increment \in Nat
      /\ l.max \in Nat /\ M \in Nat
  BY DivNat DEF MaxIndex, Limiting
<1>2. a \in Nat /\ rest \in 0..(x - 1) /\ amount = (a + 1) * x + rest
  <2> HIDE DEF x
  <2>1. amount \div x \in Int /\ 1 * x <= amount
    BY <1>1, DivNat DEF x
  <2>2. 1 <= amount \div x
    BY <1>1, <2>1, DivGe
  <2>3. amount = x * (amount \div x) + (amount % x) /\ amount % x \in 0..(x - 1)
    BY <1>1, SMT
  <2>4. x * (amount \div x) = (amount \div x) * x
    BY <1>1, <2>1
  <2>5. (amount \div x - 1) + 1 = amount \div x
    BY <2>1
  <2> QED BY <2>1, <2>2, <2>3, <2>4, <2>5
<1> HIDE DEF a, rest
<1>3. UnitFee(l, amount + 1)
        = IF a + 1 <= M THEN l.cliff + l.increment * (a + 1) ELSE l.max
  <2>1. a + 1 \in Int
    BY <1>2
  <2> QED BY <1>2, <2>1, UnitFeeIs
<1>4. /\ a < M => BandFees(l, amount)
                    = x * Full(l, a) + rest * (l.cliff + l.increment * (a + 1))
      /\ a >= M => BandFees(l, amount)
                    = x * Full(l, M) + ((a - M) * x + rest) * l.max
  BY <1>2, BandFeesIs
<1>5. CASE rest + 1 < x
  <2>1. rest + 1 \in 0..(x - 1) /\ amount + 1 = (a + 1) * x + (rest + 1)
    <3>1. (a + 1) * x \in Int
      BY <1>1, <1>2
    <3> HIDE DEF x
    <3> QED BY <1>1, <1>2, <1>5, <3>1
  <2>2. /\ a < M => BandFees(l, amount + 1)
               = x * Full(l, a) + (rest + 1) * (l.cliff + l.increment * (a + 1))
        /\ a >= M => BandFees(l, amount + 1)
               = x * Full(l, M) + ((a - M) * x + (rest + 1)) * l.max
    BY <1>2, <2>1, BandFeesIs
  <2> DEFINE rate == l.cliff + l.increment * (a + 1)
             over == (a - M) * x + rest
  <2>3. /\ rate \in Int /\ over \in Int /\ rest \in Int
        /\ x * Full(l, a) \in Int /\ x * Full(l, M) \in Int
    <3>1. Full(l, a) \in Int /\ Full(l, M) \in Int
      BY <1>1, <1>2, FullStep
    <3>2. rest \in Int /\ rate \in Int
      BY <1>1, <1>2
    <3> HIDE DEF x, M, rate
    <3>3. over \in Int /\ x * Full(l, a) \in Int /\ x * Full(l, M) \in Int
      BY <1>1, <1>2, <3>1
    <3> QED BY <3>2, <3>3
  <2>4. over + 1 = (a - M) * x + (rest + 1)
    BY <1>1, <1>2
  <2> HIDE DEF rate, over, x, M
  <2>5. /\ (rest + 1) * rate = rest * rate + rate /\ rest * rate \in Int
        /\ (over + 1) * l.max = over * l.max + l.max /\ over * l.max \in Int
    BY <1>1, <2>3
  <2>6. CASE a < M
    <3>1. UnitFee(l, amount + 1) = rate
      BY <1>1, <1>2, <1>3, <2>6 DEF rate
    <3>2. /\ BandFees(l, amount) = x * Full(l, a) + rest * rate
          /\ BandFees(l, amount + 1) = x * Full(l, a) + (rest + 1) * rate
      BY <1>4, <2>2, <2>6 DEF rate
    <3> QED BY <2>3, <2>5, <3>1, <3>2
  <2>7. CASE a >= M
    <3>1. UnitFee(l, amount + 1) = l.max
      BY <1>1, <1>2, <1>3, <2>7
    <3>2. /\ BandFees(l, amount) = x * Full(l, M) + over * l.max
          /\ BandFees(l, amount + 1) = x * Full(l, M) + (over + 1) * l.max
      BY <1>4, <2>2, <2>4, <2>7 DEF over
    <3> QED BY <1>1, <2>3, <2>5, <3>1, <3>2
  <2> QED BY <1>1, <1>2, <2>6, <2>7
<1>6. CASE rest + 1 = x
  <2>1. /\ 0 \in 0..(x - 1) /\ a + 1 \in Nat
        /\ amount + 1 = ((a + 1) + 1) * x + 0
    <3>1. ((a + 1) + 1) * x = (a + 1) * x + x /\ (a + 1) * x \in Int
      BY <1>1, <1>2
    <3> HIDE DEF x
    <3> QED BY <1>1, <1>2, <1>6, <3>1
  <2>2. /\ a + 1 < M => BandFees(l, amount + 1)
               = x * Full(l, a + 1) + 0 * (l.cliff + l.increment * ((a + 1) + 1))
        /\ a + 1 >= M => BandFees(l, amount + 1)
               = x * Full(l, M) + (((a + 1) - M) * x + 0) * l.max
    BY <2>1, BandFeesIs
  <2> DEFINE rate == l.cliff + l.increment * (a + 1)
             over == (a - M) * x + rest
  <2>3. /\ rate \in Int /\ over \in Int /\ rest \in Int
        /\ Full(l, a) \in Int /\ Full(l, M) \in Int
        /\ Full(l, a + 1) = Full(l, a) + rate
    <3>1. /\ Full(l, a) \in Int /\ Full(l, M) \in Int
          /\ Full(l, a + 1) = Full(l, a) + rate
      BY <1>1, <1>2, FullStep, SMTT(30)
    <3>2. rest \in Int /\ rate \in Int
      BY <1>1, <1>2
    <3> HIDE DEF x, M
    <3>3. over \in Int
      BY <1>1, <1>2
    <3> QED BY <3>1, <3>2, <3>3
  <2>4. over + 1 = ((a + 1) - M) * x + 0
    <3> HIDE DEF x, M
    <3>1. ((a + 1) - M) * x = (a - M) * x + x /\ (a - M) * x \in Int
      BY <1>1, <1>2
    <3> QED BY <1>1, <1>2, <1>6, <3>1 DEF over
  <2>5. 0 * (l.cliff + l.increment * ((a + 1) + 1)) = 0
    BY <1>1, <1>2
  <2> HIDE DEF rate, over, x, M
  <2>6. CASE a < M
    <3>1. UnitFee(l, amount + 1) = rate
      BY <1>1, <1>2, <1>3, <2>6 DEF rate
    <3>2. BandFees(l, amount) = x * Full(l, a) + rest * rate
      BY <1>4, <2>6 DEF rate
    <3>3. BandFees(l, amount + 1) = x * Full(l, a + 1)
      <4>1. CASE a + 1 < M
        BY <1>1, <2>2, <2>3, <2>5, <4>1
      <4>2. CASE ~(a + 1 < M)
        <5>1. a + 1 = M
          BY <1>1, <1>2, <2>6, <4>2
        <5>2. (((a + 1) - M) * x + 0) * l.max = 0
          BY <1>1, <1>2, <5>1
        <5>3. BandFees(l, amount + 1) = x * Full(l, M) + 0
          BY <1>1, <1>2, <2>2, <5>1, <5>2
        <5> QED BY <1>1, <2>3, <5>1, <5>3
      <4> QED BY <4>1, <4>2
    <3>4. /\ x * (Full(l, a) + rate) = x * Full(l, a) + x * rate
          /\ x * rate = (rest + 1) * rate /\ (rest + 1) * rate = rest * rate + rate
          /\ x * Full(l, a) \in Int /\ rest * rate \in Int
      BY <1>1, <1>6, <2>3
    <3> QED BY <2>3, <3>1, <3>2, <3>3, <3>4
  <2>7. CASE a >= M
    <3>1. UnitFee(l, amount + 1) = l.max
      BY <1>1, <1>2, <1>3, <2>7
    <3>2. /\ BandFees(l, amount) = x * Full(l, M) + over * l.max
          /\ BandFees(l, amount + 1) = x * Full(l, M) + (over + 1) * l.max
      BY <1>1, <1>2, <1>4, <2>2, <2>4, <2>7 DEF over
    <3>3. /\ (over + 1) * l.max = over * l.max + l.max /\ over * l.max \in Int
          /\ x * Full(l, M) \in Int
      BY <1>1, <2>3
    <3> QED BY <1>1, <3>1, <3>2, <3>3
  <2> QED BY <1>1, <1>2, <2>6, <2>7
<1> QED
  <2> HIDE DEF x
  <2> QED BY <1>1, <1>2, <1>5, <1>6

\* The closed form starts where the first band ends.
LEMMA BandFeesStart ==
  ASSUME NEW l, Limiting(l)
  PROVE  BandFees(l, l.reference) = l.reference * l.cliff
<1> DEFINE x == l.reference
           M == MaxIndex(l)
<1>1. /\ x \in Nat \ {0} /\ l.cliff \in Nat /\ l.increment \in Nat
      /\ l.max \in Nat /\ M \in Nat
  BY DivNat DEF MaxIndex, Limiting
<1>2. 0 \in 0..(x - 1) /\ (0 + 1) * x + 0 = x
  BY <1>1
<1>3. /\ 0 < M => BandFees(l, (0 + 1) * x + 0)
                    = x * Full(l, 0) + 0 * (l.cliff + l.increment * (0 + 1))
      /\ 0 >= M => BandFees(l, (0 + 1) * x + 0)
                    = x * Full(l, M) + ((0 - M) * x + 0) * l.max
  BY <1>2, BandFeesIs
<1>4. Full(l, 0) = l.cliff
  <2>1. l.cliff * 0 = 0 /\ l.increment * 0 * (0 + 1) = 0 /\ 0 \div 2 = 0
    BY <1>1
  <2> QED BY <1>1, <2>1 DEF Full
<1>5. CASE 0 < M
  BY <1>1, <1>2, <1>3, <1>4, <1>5
<1>6. CASE ~(0 < M)
  <2>1. M = 0
    BY <1>1, <1>6
  <2> HIDE DEF M
  <2>2. ((0 - M) * x + 0) * l.max = 0
    BY <1>1, <2>1
  <2>3. BandFees(l, x) = x * Full(l, 0) + 0
    BY <1>2, <1>3, <2>1, <2>2
  <2> QED BY <1>1, <1>4, <2>3
<1> QED BY <1>5, <1>6

\* The units of a purchase, one more at a time.
LEMMA ExactFeeStep ==
  ASSUME NEW l, Limiting(l), NEW n \in Nat
  PROVE  /\ ExactFee(l, 0) = 0
         /\ ExactFee(l, n) \in Int
         /\ ExactFee(l, n + 1) = ExactFee(l, n) + UnitFee(l, n + 1)
<1>1. \A k \in Int : UnitFee(l, k) \in Int
  BY DivNat DEF UnitFee, MaxIndex, Limiting
<1>2. \A m \in Nat : IsFiniteSet(1..m)
  BY FS_Interval
<1> DEFINE f(m) == [k \in 1..m |-> UnitFee(l, k)]
<1>3. \A m \in Nat : ExactFee(l, m) = Sum(f(m), 1..m)
  BY DEF ExactFee, Sum
<1>4. ExactFee(l, 0) = 0
  <2>1. 1..0 = {}
    OBVIOUS
  <2> QED BY <1>3, <2>1, SumEmpty
<1>5. ExactFee(l, n) \in Int
  <2>1. \A k \in 1..n : f(n)[k] \in Int
    BY <1>1
  <2> QED BY <1>2, <1>3, <2>1, SumInt
<1>6. ExactFee(l, n + 1) = f(n + 1)[n + 1] + Sum(f(n + 1), (1..(n + 1)) \ {n + 1})
  <2>1. n + 1 \in Nat /\ n + 1 \in 1..(n + 1)
    OBVIOUS
  <2>2. \A k \in 1..(n + 1) : f(n + 1)[k] \in Int
    BY <1>1
  <2>3. IsFiniteSet(1..(n + 1)) /\ ExactFee(l, n + 1) = Sum(f(n + 1), 1..(n + 1))
    BY <1>2, <1>3, <2>1
  <2> HIDE DEF f
  <2> QED BY <2>1, <2>2, <2>3, SumRemove
<1>7. (1..(n + 1)) \ {n + 1} = 1..n
  OBVIOUS
<1>8. Sum(f(n + 1), 1..n) = Sum(f(n), 1..n)
  <2>1. \A k \in 1..n : f(n + 1)[k] = f(n)[k]
    OBVIOUS
  <2> HIDE DEF f
  <2> QED BY <1>2, <2>1, SumSame
<1>9. f(n + 1)[n + 1] = UnitFee(l, n + 1) /\ UnitFee(l, n + 1) \in Int
  BY <1>1
<1> HIDE DEF f
<1>10. ExactFee(l, n) = Sum(f(n), 1..n)
  BY <1>3
<1>11. ExactFee(l, n + 1) = UnitFee(l, n + 1) + ExactFee(l, n)
  BY <1>6, <1>7, <1>8, <1>9, <1>10, Zenon
<1> QED BY <1>4, <1>5, <1>9, <1>11

\* The closed form is the sum over the units of a purchase.
LEMMA ExactIsBands ==
  ASSUME NEW l, Limiting(l), NEW n \in Nat
  PROVE  ExactFee(l, n)
           = IF n <= l.reference THEN n * l.cliff ELSE BandFees(l, n)
<1> DEFINE Closed(m) == IF m <= l.reference THEN m * l.cliff ELSE BandFees(l, m)
           Bad == {m \in Nat : ExactFee(l, m) # Closed(m)}
<1>1. l.reference \in Nat \ {0} /\ l.cliff \in Nat
  BY DEF Limiting
<1> SUFFICES ASSUME Bad # {}
             PROVE  FALSE
  OBVIOUS
<1>2. PICK m \in Bad : \A k \in Bad : m <= k
  <2>1. Bad \in SUBSET Nat
    OBVIOUS
  <2> HIDE DEF Bad
  <2> QED BY <2>1, LeastNumber
<1>3. m \in Nat /\ ExactFee(l, m) # Closed(m)
  BY <1>2
<1>4. m # 0
  <2>1. ExactFee(l, 0) = 0
    BY ExactFeeStep
  <2>2. Closed(0) = 0
    <3>1. 0 <= l.reference /\ 0 * l.cliff = 0
      BY <1>1
    <3> QED BY <3>1
  <2>3. m = 0 => FALSE
    <3> SUFFICES ASSUME m = 0 PROVE FALSE
      OBVIOUS
    <3>1. ExactFee(l, 0) # Closed(0)
      BY <1>3
    <3> HIDE DEF Closed
    <3> QED BY <2>1, <2>2, <3>1
  <2> QED BY <2>3
<1> DEFINE before == m - 1
<1>5. before \in Nat /\ before + 1 = m /\ ~(m <= before)
  BY <1>3, <1>4
<1> HIDE DEF before
<1>6. ExactFee(l, before) = Closed(before)
  <2>1. before \notin Bad
    <3> HIDE DEF Bad
    <3> QED BY <1>2, <1>5
  <2> HIDE DEF Closed
  <2> QED BY <1>5, <2>1
<1>7. /\ ExactFee(l, before) \in Int
      /\ ExactFee(l, m) = ExactFee(l, before) + UnitFee(l, m)
  BY <1>5, ExactFeeStep
<1>8. CASE m <= l.reference
  <2>1. before \in 0..(l.reference - 1) /\ m - 1 = before
    BY <1>1, <1>3, <1>5, <1>8
  <2>2. before \div l.reference = 0
    BY <1>1, <2>1, SMT
  <2>3. 0 <= MaxIndex(l) /\ l.increment * 0 = 0
    BY DivNat DEF MaxIndex, Limiting
  <2>4. UnitFee(l, m) = l.cliff
    BY <1>1, <2>1, <2>2, <2>3 DEF UnitFee
  <2>5. Closed(before) = before * l.cliff /\ Closed(m) = m * l.cliff
    BY <1>1, <1>5, <1>8
  <2>6. m * l.cliff = before * l.cliff + l.cliff /\ before * l.cliff \in Int
    <3>1. (before + 1) * l.cliff = before * l.cliff + l.cliff
      BY <1>1, <1>5
    <3> QED BY <1>1, <1>5, <3>1
  <2> HIDE DEF Closed
  <2> QED BY <1>3, <1>6, <1>7, <2>4, <2>5, <2>6
<1>9. CASE ~(m <= l.reference)
  <2>1. before >= l.reference
    BY <1>1, <1>5, <1>9
  <2>2. BandFees(l, before + 1) = BandFees(l, before) + UnitFee(l, before + 1)
    BY <1>5, <2>1, BandFeesStep
  <2>3. Closed(before) = BandFees(l, before)
    BY <1>1, <1>5, <2>1, BandFeesStart
  <2>4. Closed(m) = BandFees(l, m)
    BY <1>9
  <2> HIDE DEF Closed
  <2> QED BY <1>3, <1>5, <1>6, <1>7, <2>2, <2>3, <2>4
<1> QED BY <1>8, <1>9

\* What rounding adds to the sum over the units: nothing to a purchase within
\* the reference, and else that of one numerator.
LEMMA FeeFollowsExact ==
  ASSUME NEW l, Limiting(l), NEW n \in Nat, FeeDenominator >= 2
  PROVE  LET fee   == FeeOn(n, LimiterNumerator(l, n))
             exact == CeilDiv(ExactFee(l, n), FeeDenominator)
         IN  exact <= fee /\ fee <= exact + CeilDiv(n - 1, FeeDenominator)
<1> DEFINE D == FeeDenominator
           F == CeilDiv(ExactFee(l, n), D)
           N == LimiterNumerator(l, n)
           fee == CeilDiv(n * N, D)
           more == CeilDiv(n - 1, D)
<1>1. /\ l.reference \in Nat \ {0} /\ l.cliff \in Nat
      /\ D \in Nat \ {0} /\ D >= 2
  BY FeeAssumption DEF Limiting
<1>2. more \in Int /\ 0 <= more
  <2> HIDE DEF D
  <2>1. more \in Int /\ n - 1 <= more * D
    BY <1>1, CeilDivEnough
  <2>2. 0 * D <= (n - 1) + D - 1
    BY <1>1
  <2>3. 0 <= ((n - 1) + D - 1) \div D
    <3>1. (n - 1) + D - 1 \in Int /\ 0 \in Int
      BY <1>1
    <3> QED BY <1>1, <2>2, <3>1, DivGe
  <2> QED BY <2>1, <2>3 DEF CeilDiv
<1>3. CASE n <= l.reference
  <2>1. N = l.cliff
    BY <1>3 DEF LimiterNumerator
  <2>2. ExactFee(l, n) = n * l.cliff
    BY <1>3, ExactIsBands
  <2>3. fee = F
    BY <2>1, <2>2
  <2>4. F \in Int
    BY <1>1, <2>2, CeilDivEnough
  <2> HIDE DEF D, F, N, fee, more
  <2>5. F <= fee /\ fee <= F + more
    BY <1>2, <2>3, <2>4
  <2> QED BY <2>5 DEF D, F, N, fee, more, FeeOn
<1>4. CASE ~(n <= l.reference)
  <2>1. n \in Nat \ {0}
    BY <1>1, <1>4
  <2>2. ExactFee(l, n) = BandFees(l, n) /\ ExactFee(l, n) \in Int
    BY <1>4, ExactIsBands, ExactFeeStep
  <2>3. F \in Int
    BY <1>1, <2>2, CeilDivEnough
  <2>4. N = CeilDiv(F * D, n)
    BY <1>4, <2>2 DEF LimiterNumerator
  <2> HIDE DEF F, D
  <2>5. F * D \in Int
    BY <1>1, <2>3
  <2>6. N \in Int /\ F * D <= N * n /\ N * n <= F * D + (n - 1)
    <3>1. N \in Int /\ F * D <= N * n
      BY <2>1, <2>4, <2>5, CeilDivEnough
    <3>2. /\ F * D + n - 1 \in Int
          /\ N = (F * D + n - 1) \div n
      BY <2>1, <2>4, <2>5 DEF CeilDiv
    <3>3. N * n <= F * D + n - 1
      <4> DEFINE top == F * D + n - 1
      <4>1. top \in Int /\ N = top \div n
        BY <3>2
      <4> HIDE DEF top
      <4>2. N * n <= top
        BY <2>1, <4>1, DivEnough
      <4> QED BY <4>2 DEF top
    <3>4. N * n \in Int
      BY <2>1, <3>1
    <3> HIDE DEF N
    <3> QED BY <2>1, <2>5, <3>1, <3>3, <3>4
  <2> HIDE DEF N
  <2>7. n * N = N * n /\ n * N \in Int
    BY <2>6
  <2>8. F <= fee
    BY <1>1, <2>3, <2>6, <2>7, CeilDivGe
  <2>9. fee <= F + more
    <3>1. n - 1 <= more * D
      BY <1>1, CeilDivEnough
    <3>2. (F + more) * D = F * D + more * D /\ more * D \in Int
      BY <1>1, <1>2, <2>3
    <3> HIDE DEF more
    <3>3. n * N <= (F + more) * D
      BY <2>5, <2>6, <2>7, <3>1, <3>2
    <3>4. F + more \in Int
      BY <1>2, <2>3
    <3> QED BY <1>1, <2>7, <3>3, <3>4, CeilDivLe
  <2> QED BY <2>8, <2>9 DEF F, D, N, fee, more, FeeOn
<1> QED BY <1>3, <1>4

\* The limiter stays, and what is bought is an amount.
LimiterInv == limiter \in ValidLimiters /\ purchase \in Nat

\* A validated limiter has a length, bands and a maximum that is not below
\* its cliff.
LEMMA ValidLimits ==
  ASSUME LimiterInv
  PROVE  Limiting(limiter) /\ FeeDenominator >= 2
<1>1. /\ limiter.cliff \in Nat /\ limiter.increment \in Nat
      /\ limiter.max \in Nat /\ limiter.reference \in Nat
      /\ limiter.mode = "RateLimiter"
  BY LimiterInputs DEF LimiterInv, ValidLimiters
<1>2. ValidLimiter(limiter, TRUE)
  BY <1>1 DEF LimiterInv, ValidLimiters, ValidBaseFee
<1> QED BY <1>1, <1>2, FeeAssumption DEF ValidLimiter, Limiting

\* A validated limiter stays as it is for every purchase.
THEOREM LimiterInvHolds == LimiterSpec => []LimiterInv
<1>1. LimiterInit => LimiterInv
  BY LimiterInputs DEF LimiterInit, LimiterInv
<1>2. LimiterInv /\ [NextPurchase]_limiterVars => LimiterInv'
  BY LimiterInputs DEF LimiterInv, NextPurchase, limiterVars
<1> QED BY <1>1, <1>2, PTL DEF LimiterSpec

\* The closed form of the limiter's fee, turned into a numerator and back,
\* charges a purchase at least the sum of what its units owe, and at most the
\* rounding of that numerator more.
THEOREM FeeFollowsBandsHolds == LimiterSpec => []FeeFollowsBands
<1>1. LimiterInv => FeeFollowsBands
  <2> SUFFICES ASSUME LimiterInv PROVE FeeFollowsBands
    OBVIOUS
  <2>1. Limiting(limiter) /\ FeeDenominator >= 2 /\ purchase \in Nat
    BY ValidLimits DEF LimiterInv
  <2> QED BY <2>1, FeeFollowsExact DEF FeeFollowsBands
<1> QED BY <1>1, LimiterInvHolds, PTL

-----------------------------------------------------------------------------
\* The inverse of the rate limiter: bands, the quadratic through their ends,
\* its root, and the total it leads to.

\* A unit pays no less than those before it, from the cliff to the maximum.
LEMMA UnitFeeRises ==
  ASSUME NEW l, Limiting(l), NEW j \in Nat \ {0}, NEW k \in Nat \ {0}, j <= k
  PROVE  /\ UnitFee(l, j) \in l.cliff..l.max
         /\ UnitFee(l, j) <= UnitFee(l, k)
<1> DEFINE x == l.reference
           i == l.increment
           M == MaxIndex(l)
           a == (j - 1) \div x
           b == (k - 1) \div x
<1>1. /\ x \in Nat \ {0} /\ l.cliff \in Nat /\ i \in Nat \ {0}
      /\ l.max \in Nat /\ l.cliff <= l.max
  BY DEF Limiting
<1>2. M \in Nat /\ M * i <= l.max - l.cliff
  <2>1. l.max - l.cliff \in Nat /\ M = (l.max - l.cliff) \div i
    BY <1>1 DEF MaxIndex
  <2> HIDE DEF i, M
  <2>2. l.max - l.cliff \in Int
    BY <2>1
  <2> QED BY <1>1, <2>1, <2>2, DivNat, DivEnough
<1>3. a \in Nat /\ b \in Nat /\ a <= b
  <2> HIDE DEF x
  <2>1. j - 1 \in Nat /\ k - 1 \in Nat /\ j - 1 <= k - 1
    OBVIOUS
  <2> QED BY <1>1, <2>1, DivNat, DivMonotone
<1>4. /\ UnitFee(l, j) = IF a <= M THEN l.cliff + i * a ELSE l.max
      /\ UnitFee(l, k) = IF b <= M THEN l.cliff + i * b ELSE l.max
  BY DEF UnitFee
<1> HIDE DEF a, b, M, i, x
<1>5. /\ i * a \in Nat /\ i * b \in Nat /\ i * a <= i * b
  <2>1. b * i >= a * i
    BY <1>1, <1>3, MulMonotone
  <2>2. b * i = i * b /\ a * i = i * a
    BY <1>1, <1>3
  <2> QED BY <1>1, <1>3, <2>1, <2>2, MulNat
<1>6. /\ a <= M => i * a <= l.max - l.cliff
      /\ b <= M => i * b <= l.max - l.cliff
  <2>1. ASSUME NEW c \in Nat, c <= M PROVE i * c <= l.max - l.cliff
    <3>1. M * i >= c * i
      BY <1>1, <1>2, <2>1, MulMonotone
    <3>2. c * i = i * c /\ c * i \in Int /\ M * i \in Int
      BY <1>1, <1>2
    <3> QED BY <1>1, <1>2, <3>1, <3>2
  <2> QED BY <1>3, <2>1
<1> QED BY <1>1, <1>2, <1>3, <1>4, <1>5, <1>6

\* What some more units pay is between the least and the most one of them
\* pays, times their number.
LEMMA BandsClimb ==
  ASSUME NEW l, Limiting(l), NEW a \in Nat, NEW b \in Nat, a <= b,
         NEW lo \in Int, NEW hi \in Int,
         \A k \in Nat : a < k /\ k <= b =>
           lo <= UnitFee(l, k) /\ UnitFee(l, k) <= hi
  PROVE  /\ lo * (b - a) <= ExactFee(l, b) - ExactFee(l, a)
         /\ ExactFee(l, b) - ExactFee(l, a) <= hi * (b - a)
<1> DEFINE Good(m) == /\ lo * m <= ExactFee(l, a + m) - ExactFee(l, a)
                      /\ ExactFee(l, a + m) - ExactFee(l, a) <= hi * m
           Bad == {m \in Nat : a + m <= b /\ ~Good(m)}
<1>1. \A n \in Nat : ExactFee(l, n) \in Int
  BY ExactFeeStep
<1>2. Bad = {}
  <2> SUFFICES ASSUME Bad # {} PROVE FALSE
    OBVIOUS
  <2>1. PICK m \in Bad : \A k \in Bad : m <= k
    <3>1. Bad \in SUBSET Nat
      OBVIOUS
    <3> HIDE DEF Bad
    <3> QED BY <3>1, LeastNumber
  <2>2. m \in Nat /\ a + m <= b /\ ~Good(m)
    BY <2>1
  <2>3. m # 0
    <3>1. Good(0)
      <4>1. a + 0 = a /\ lo * 0 = 0 /\ hi * 0 = 0
        OBVIOUS
      <4> QED BY <1>1, <4>1
    <3> HIDE DEF Good
    <3> QED BY <2>2, <3>1
  <2> DEFINE w == m - 1
  <2>4. w \in Nat /\ w + 1 = m /\ a + w <= b /\ ~(m <= w)
    BY <2>2, <2>3
  <2> HIDE DEF w
  <2>5. Good(w)
    <3>1. w \notin Bad
      <4> HIDE DEF Bad
      <4> QED BY <2>1, <2>4
    <3> HIDE DEF Good
    <3> QED BY <2>4, <3>1
  <2>6. /\ a + m = (a + w) + 1 /\ a + w \in Nat
        /\ ExactFee(l, (a + w) + 1) = ExactFee(l, a + w) + UnitFee(l, (a + w) + 1)
    BY <2>4, ExactFeeStep
  <2>7. lo <= UnitFee(l, a + m) /\ UnitFee(l, a + m) <= hi
    BY <2>2, <2>3
  <2>8. lo * m = lo * w + lo /\ hi * m = hi * w + hi /\ lo * w \in Int /\ hi * w \in Int
    <3>1. lo * (w + 1) = lo * w + lo /\ hi * (w + 1) = hi * w + hi
      BY <2>4
    <3> QED BY <2>4, <3>1
  <2>9. UnitFee(l, a + m) \in Int
    <3>1. a + m \in Nat \ {0}
      BY <2>2, <2>3
    <3> QED BY <3>1, UnitFeeRises DEF Limiting
  <2>10. Good(m)
    <3>1. ExactFee(l, a + m) = ExactFee(l, a + w) + UnitFee(l, a + m)
      BY <2>6
    <3>2. ExactFee(l, a + w) \in Int /\ ExactFee(l, a) \in Int
      BY <1>1, <2>6
    <3>3. /\ lo * w <= ExactFee(l, a + w) - ExactFee(l, a)
          /\ ExactFee(l, a + w) - ExactFee(l, a) <= hi * w
      BY <2>5
    <3> QED BY <2>7, <2>8, <2>9, <3>1, <3>2, <3>3
  <2> HIDE DEF Good
  <2> QED BY <2>2, <2>10
<1>3. Good(b - a)
  <2>1. b - a \in Nat /\ a + (b - a) <= b
    OBVIOUS
  <2> HIDE DEF Good
  <2> QED BY <1>2, <2>1
<1>4. a + (b - a) = b
  OBVIOUS
<1> QED BY <1>3, <1>4

\* Within a band each unit pays the band's numerator.
LEMMA BandIsEven ==
  ASSUME NEW l, Limiting(l), NEW k \in 0..MaxIndex(l), NEW w \in 0..l.reference
  PROVE  ExactFee(l, k * l.reference + w)
           = ExactFee(l, k * l.reference) + w * (l.cliff + l.increment * k)
<1> DEFINE x == l.reference
           v == l.cliff + l.increment * k
           a == k * x
           b == a + w
<1>1. /\ x \in Nat \ {0} /\ k \in Nat /\ w \in Nat /\ v \in Nat /\ a \in Nat
      /\ b \in Nat /\ a <= b /\ b - a = w /\ b = a + w /\ w <= x
      /\ k <= MaxIndex(l)
  <2>1. x \in Nat \ {0} /\ k \in Nat /\ l.cliff \in Nat /\ l.increment \in Nat
        /\ k <= MaxIndex(l) /\ w \in Nat /\ w <= x
    BY DivNat DEF Limiting, MaxIndex
  <2>2. a \in Nat /\ l.increment * k \in Nat
    BY <2>1, MulNat
  <2> HIDE DEF a, x
  <2> QED BY <2>1, <2>2
<1>2. \A u \in Nat : a < u /\ u <= b => UnitFee(l, u) = v
  <2> SUFFICES ASSUME NEW u \in Nat, a < u, u <= b PROVE UnitFee(l, u) = v
    OBVIOUS
  <2> DEFINE rest == u - a - 1
  <2>1. rest \in 0..(x - 1) /\ a + rest + 1 = u
    <3> HIDE DEF a, b, x
    <3> QED BY <1>1
  <2>2. k \in Int
    BY <1>1
  <2> HIDE DEF rest
  <2>3. UnitFee(l, k * l.reference + rest + 1) = v
    BY <1>1, <2>1, <2>2, UnitFeeIs
  <2> QED BY <2>1, <2>3
<1>3. ExactFee(l, a) \in Int /\ ExactFee(l, b) \in Int
  BY <1>1, ExactFeeStep
<1> HIDE DEF v, a, b
<1>4. /\ v * (b - a) <= ExactFee(l, b) - ExactFee(l, a)
      /\ ExactFee(l, b) - ExactFee(l, a) <= v * (b - a)
  <2>1. v \in Int /\ \A u \in Nat : a < u /\ u <= b => v <= UnitFee(l, u) /\ UnitFee(l, u) <= v
    BY <1>1, <1>2
  <2> QED BY <1>1, <2>1, BandsClimb
<1>5. v * (b - a) = w * v /\ w * v \in Int
  BY <1>1
<1>6. ExactFee(l, b) = ExactFee(l, a) + w * v
  BY <1>3, <1>4, <1>5
<1> QED BY <1>6 DEF a, b, v

\* What the first k bands charge together, twice.
LEMMA BandEnds ==
  ASSUME NEW l, Limiting(l), NEW k \in 0..(MaxIndex(l) + 1)
  PROVE  2 * ExactFee(l, k * l.reference)
           = 2 * l.reference * l.cliff * k
               + l.increment * l.reference * (k * k - k)
<1> DEFINE x == l.reference
           c == l.cliff
           i == l.increment
           Good(m) == 2 * ExactFee(l, m * x)
                        = 2 * x * c * m + i * x * (m * m - m)
           Bad == {m \in Nat : m <= MaxIndex(l) + 1 /\ ~Good(m)}
<1>1. /\ x \in Nat \ {0} /\ c \in Nat /\ i \in Nat
      /\ MaxIndex(l) \in Nat
  BY DivNat DEF Limiting, MaxIndex
<1>2. Bad = {}
  <2> SUFFICES ASSUME Bad # {} PROVE FALSE
    OBVIOUS
  <2>1. PICK m \in Bad : \A n \in Bad : m <= n
    <3>1. Bad \in SUBSET Nat
      OBVIOUS
    <3> HIDE DEF Bad
    <3> QED BY <3>1, LeastNumber
  <2>2. m \in Nat /\ m <= MaxIndex(l) + 1 /\ ~Good(m)
    BY <2>1
  <2>3. m # 0
    <3>1. Good(0)
      <4>1. 0 * x = 0 /\ 2 * x * c * 0 = 0 /\ i * x * (0 * 0 - 0) = 0
        <5> HIDE DEF x, c, i
        <5>1. 2 * x * c \in Int /\ i * x \in Int /\ 0 * 0 - 0 = 0
          BY <1>1
        <5> QED BY <1>1, <5>1
      <4>2. ExactFee(l, 0) = 0
        BY ExactFeeStep
      <4> HIDE DEF x, c, i
      <4> QED BY <4>1, <4>2
    <3> HIDE DEF Good
    <3> QED BY <2>2, <3>1
  <2> DEFINE w == m - 1
  <2>4. w \in Nat /\ w + 1 = m /\ ~(m <= w) /\ w \in 0..MaxIndex(l)
    BY <1>1, <2>2, <2>3
  <2> HIDE DEF w
  <2>5. Good(w)
    <3>1. w \notin Bad
      <4> HIDE DEF Bad
      <4> QED BY <2>1, <2>4
    <3>2. w <= MaxIndex(l) + 1
      BY <1>1, <2>4
    <3> HIDE DEF Good
    <3> QED BY <2>4, <3>1, <3>2
  <2>6. ExactFee(l, w * x + x) = ExactFee(l, w * x) + x * (c + i * w)
    <3>1. x \in 0..l.reference
      BY <1>1
    <3> QED BY <2>4, <3>1, BandIsEven
  <2> DEFINE F == ExactFee(l, w * x)
             G == ExactFee(l, m * x)
  <2> HIDE DEF x, c, i
  <2>7. w * x + x = m * x /\ w * x \in Nat
    <3>1. (w + 1) * x = w * x + x
      BY <1>1, <2>4
    <3> QED BY <1>1, <2>4, <3>1, MulNat
  <2>8. F \in Int /\ G = F + x * (c + i * w)
    BY <2>6, <2>7, ExactFeeStep
  <2>9. 2 * F = 2 * x * c * w + i * x * (w * w - w)
    BY <2>5
  <2> HIDE DEF F, G
  <2>10. /\ 2 * x * c * (w + 1) = 2 * x * c * w + 2 * (x * c)
         /\ i * x * ((w + 1) * (w + 1) - (w + 1)) = i * x * (w * w - w) + 2 * (i * x * w)
         /\ x * (c + i * w) = x * c + i * x * w
    BY <1>1, <2>4
  <2>11. /\ 2 * x * c * w \in Int /\ i * x * (w * w - w) \in Int
         /\ x * c \in Int /\ i * x * w \in Int
    BY <1>1, <2>4
  <2>12. 2 * G = 2 * x * c * (w + 1) + i * x * ((w + 1) * (w + 1) - (w + 1))
    BY <2>8, <2>9, <2>10, <2>11
  <2>13. Good(m)
    BY <2>4, <2>12 DEF G
  <2> HIDE DEF Good
  <2> QED BY <2>2, <2>13
<1>3. Good(k)
  <2>1. k \in Nat /\ k <= MaxIndex(l) + 1
    BY <1>1
  <2> HIDE DEF Good
  <2> QED BY <1>2, <2>1
<1> QED BY <1>3

-----------------------------------------------------------------------------
\* What n units leave, in units of 1/FeeDenominator and before any rounding,
\* and the quadratic of get_fee_numerator_from_excluded_fee_amount.
Leaves(l, n) == n * FeeDenominator - ExactFee(l, n)

Turn(l) ==
  2 * FeeDenominator * l.reference + l.increment * l.reference
    - 2 * l.cliff * l.reference

Quadratic(l, z) == Turn(l) * z - l.increment * (z * z)

\* The quadratic meets what is left at the ends of the bands, and never lies
\* below it on the way there.
LEMMA QuadraticMeets ==
  ASSUME NEW l, Limiting(l), NEW z \in Nat, z <= (MaxIndex(l) + 1) * l.reference
  PROVE  /\ 2 * l.reference * Leaves(l, z) <= Quadratic(l, z)
         /\ (\E k \in Nat : z = k * l.reference) =>
              2 * l.reference * Leaves(l, z) = Quadratic(l, z)
<1> DEFINE x == l.reference
           c == l.cliff
           i == l.increment
           D == FeeDenominator
           M == MaxIndex(l)
           F == ExactFee(l, z)
           Curved == 2 * (x * c * z) + i * (z * z) - i * (x * z)
<1>1. /\ x \in Nat \ {0} /\ c \in Nat /\ i \in Nat /\ M \in Nat
      /\ D \in Nat \ {0} /\ F \in Int
  <2>1. M \in Nat
    BY DivNat DEF Limiting, MaxIndex
  <2>2. F \in Int
    BY ExactFeeStep
  <2>3. x \in Nat \ {0} /\ c \in Nat /\ i \in Nat /\ D \in Nat \ {0}
    BY FeeAssumption DEF Limiting
  <2> QED BY <2>1, <2>2, <2>3
<1>2. 2 * x * Leaves(l, z) - Quadratic(l, z) = Curved - 2 * (x * F)
  <2>1. /\ Leaves(l, z) = z * D - F
        /\ Quadratic(l, z) = (2 * D * x + i * x - 2 * c * x) * z - i * (z * z)
    BY DEF Leaves, Quadratic, Turn
  <2> HIDE DEF x, c, i, D, F
  <2>2. 2 * x * (z * D - F) = 2 * (x * z * D) - 2 * (x * F)
    BY <1>1
  <2>3. (2 * D * x + i * x - 2 * c * x) * z = 2 * (x * z * D) + i * (x * z) - 2 * (x * c * z)
    BY <1>1
  <2>4. x * z * D \in Int /\ x * F \in Int /\ i * (x * z) \in Int
        /\ x * c * z \in Int /\ i * (z * z) \in Int
    BY <1>1
  <2> QED BY <2>1, <2>2, <2>3, <2>4
<1>3. Leaves(l, z) \in Int /\ Quadratic(l, z) \in Int /\ 2 * x * Leaves(l, z) \in Int
  <2>1. Leaves(l, z) \in Int
    BY <1>1 DEF Leaves
  <2>2. Quadratic(l, z) \in Int
    BY <1>1 DEF Quadratic, Turn
  <2> QED BY <1>1, <2>1, <2>2
<1>4. ASSUME NEW k \in Nat, z = k * x
      PROVE  2 * (x * F) = Curved
  <2>1. k <= M + 1
    <3>1. (M + 1) * x >= k * x /\ M + 1 \in Int /\ k \in Int
      BY <1>1, <1>4
    <3> HIDE DEF M, x
    <3> QED BY <1>1, <3>1, MulCancel
  <2>2. 2 * F = 2 * x * c * k + i * x * (k * k - k)
    <3>1. k \in 0..(MaxIndex(l) + 1)
      BY <1>1, <2>1
    <3> QED BY <1>4, <3>1, BandEnds
  <2> HIDE DEF x, c, i, F
  <2>3. x * (2 * F) = 2 * (x * F)
    BY <1>1
  <2>4. x * (2 * x * c * k + i * x * (k * k - k))
          = 2 * (x * c * (k * x)) + i * ((k * x) * (k * x)) - i * (x * (k * x))
    BY <1>1
  <2> QED BY <1>4, <2>2, <2>3, <2>4
<1>5. 2 * (x * F) >= Curved
  <2> DEFINE k == z \div x
             w == z % x
  <2>1. k \in Nat /\ w \in 0..(x - 1) /\ z = k * x + w
    <3> HIDE DEF x
    <3> QED BY <1>1, DivNat
  <2> HIDE DEF k, w
  <2>2. CASE k <= M
    <3>1. F = ExactFee(l, k * x) + w * (c + i * k)
      <4>1. k \in 0..MaxIndex(l) /\ w \in 0..l.reference
        BY <1>1, <2>1, <2>2
      <4> QED BY <2>1, <4>1, BandIsEven
    <3>2. 2 * ExactFee(l, k * x) = 2 * x * c * k + i * x * (k * k - k)
      <4>1. k \in 0..(MaxIndex(l) + 1)
        BY <1>1, <2>1, <2>2
      <4> QED BY <4>1, BandEnds
    <3> DEFINE S == ExactFee(l, k * x)
    <3>3. S \in Int
      <4>1. k * x \in Nat
        BY <1>1, <2>1, MulNat
      <4> QED BY <4>1, ExactFeeStep
    <3> HIDE DEF S, F, x, c, i
    <3>4. 2 * (x * F) = x * (2 * S) + 2 * (x * (w * (c + i * k)))
      <4>1. F = S + w * (c + i * k) /\ w \in Int
        BY <2>1, <3>1 DEF S
      <4>2. x * (S + w * (c + i * k)) = x * S + x * (w * (c + i * k))
        BY <1>1, <2>1, <3>3, <4>1
      <4>3. x * (2 * S) = 2 * (x * S) /\ x * S \in Int /\ x * (w * (c + i * k)) \in Int
        BY <1>1, <2>1, <3>3, <4>1
      <4> QED BY <4>1, <4>2, <4>3
    <3>5. x * (2 * S) = x * (2 * x * c * k + i * x * (k * k - k))
      BY <3>2 DEF S
    <3>6. x * (2 * x * c * k + i * x * (k * k - k)) + 2 * (x * (w * (c + i * k)))
            = 2 * (x * c * (k * x + w)) + i * ((k * x + w) * (k * x + w))
                - i * (x * (k * x + w)) + i * (w * (x - w))
      <4>1. w \in Int
        BY <2>1
      <4> QED BY <1>1, <2>1, <4>1
    <3>7. i * (w * (x - w)) \in Nat
      <4>1. w \in Nat /\ x - w \in Nat
        BY <1>1, <2>1
      <4> QED BY <1>1, <4>1, MulNat
    <3>8. Curved \in Int
      BY <1>1
    <3>9. 2 * (x * F) = Curved + i * (w * (x - w))
      BY <2>1, <3>4, <3>5, <3>6
    <3> HIDE DEF Curved
    <3> QED BY <3>7, <3>8, <3>9
  <2>3. CASE ~(k <= M)
    <3>1. k * x >= (M + 1) * x /\ k * x \in Int /\ (M + 1) * x \in Int
      <4>1. k >= M + 1 /\ M + 1 \in Int /\ k \in Int
        BY <1>1, <2>1, <2>3
      <4> HIDE DEF M, x
      <4> QED BY <1>1, <4>1, MulMonotone
    <3>2. z = k * x
      <4> HIDE DEF M, x
      <4> QED BY <1>1, <2>1, <3>1 DEF M, x
    <3>3. 2 * (x * F) = Curved
      BY <1>4, <2>1, <3>2
    <3>4. Curved \in Int
      BY <1>1
    <3> HIDE DEF Curved
    <3> QED BY <3>3, <3>4
  <2> QED BY <2>2, <2>3
<1>6. Curved \in Int /\ 2 * (x * F) \in Int
  <2> HIDE DEF x, c, i, F
  <2> QED BY <1>1
<1> HIDE DEF Curved
<1>7. 2 * x * Leaves(l, z) <= Quadratic(l, z)
  BY <1>2, <1>3, <1>5, <1>6
<1>8. (\E k \in Nat : z = k * l.reference) => 2 * x * Leaves(l, z) = Quadratic(l, z)
  <2> SUFFICES ASSUME NEW k \in Nat, z = k * x PROVE 2 * x * Leaves(l, z) = Quadratic(l, z)
    OBVIOUS
  <2>1. 2 * (x * F) = Curved
    BY <1>4
  <2> QED BY <1>2, <1>3, <1>6, <2>1
<1> QED BY <1>7, <1>8

\* Numbers that lie nearer to zero have smaller squares.
LEMMA SquareNearer ==
  ASSUME NEW u \in Int, NEW s \in Nat, -s <= u, u <= s
  PROVE  u * u <= s * s
<1>1. (s - u) * (s + u) = s * s - u * u /\ s * s \in Int /\ u * u \in Int
  OBVIOUS
<1>2. s - u \in Nat /\ s + u \in Nat
  OBVIOUS
<1>3. (s - u) * (s + u) \in Nat
  BY <1>2, MulNat
<1> QED BY <1>1, <1>3

\* sqrt_u256 finds the root, rounded down.
LEMMA SqrtDownIs ==
  ASSUME NEW n \in Nat
  PROVE  LET s == SqrtDown(n)
         IN  s \in Nat /\ s * s <= n /\ n < (s + 1) * (s + 1)
<1> DEFINE Above == {m \in Nat : n < m * m}
<1>1. PICK m \in Above : \A k \in Above : m <= k
  <2>1. n + 1 \in Above
    <3>1. (n + 1) * (n + 1) = n * n + 2 * n + 1 /\ n * n \in Nat
      BY MulNat
    <3> QED BY <3>1
  <2>2. Above \in SUBSET Nat /\ Above # {}
    BY <2>1
  <2> HIDE DEF Above
  <2> QED BY <2>2, LeastNumber
<1>2. m \in Nat /\ n < m * m
  BY <1>1
<1>3. m # 0
  <2>1. 0 * 0 = 0
    OBVIOUS
  <2> QED BY <1>2, <2>1
<1> DEFINE r == m - 1
<1>4. r \in Nat /\ r + 1 = m /\ ~(m <= r)
  BY <1>2, <1>3
<1>5. r * r <= n
  <2>1. r \notin Above
    <3> HIDE DEF Above, r
    <3> QED BY <1>1, <1>4
  <2>2. r * r \in Int
    BY <1>4
  <2> HIDE DEF r
  <2> QED BY <1>4, <2>1, <2>2
<1> HIDE DEF r, Above
<1>6. r \in 0..n
  <2>1. CASE r = 0
    BY <2>1
  <2>2. CASE r # 0
    <3>1. r * r >= 1 * r
      BY <1>4, <2>2, MulMonotone
    <3>2. r * r \in Int
      BY <1>4
    <3> QED BY <1>4, <1>5, <3>1, <3>2
  <2> QED BY <2>1, <2>2
<1>7. \E t \in 0..n : t * t <= n /\ n < (t + 1) * (t + 1)
  BY <1>2, <1>4, <1>5, <1>6
<1>8. /\ SqrtDown(n) \in 0..n
      /\ SqrtDown(n) * SqrtDown(n) <= n
      /\ n < (SqrtDown(n) + 1) * (SqrtDown(n) + 1)
  BY <1>7 DEF SqrtDown
<1> QED BY <1>8

\* s is the root, rounded down, of the discriminant of y z - i z^2 = h, and
\* the parabola is higher by `room` at X.
RootTaken(y, i, h, room, s, disc, X) ==
  /\ disc = y * y - 4 * (i * h)
  /\ s * s <= disc /\ disc < (s + 1) * (s + 1)
  /\ 2 * s + 1 <= 4 * (i * room)
  /\ h + room <= y * X - i * (X * X)

\* The point z is short of X and not much above h; each later one up to X lies
\* above h.
RootReached(y, i, h, room, z, X) ==
  /\ z \in Nat /\ z < X
  /\ y * z - i * (z * z) < h + room
  /\ \A e \in Nat : z < e /\ e <= X => h <= y * e - i * (e * e)

\* The smaller root of the parabola, rounded, is such a point.
LEMMA RootLeads ==
  ASSUME NEW y \in Nat, NEW i \in Nat \ {0}, NEW h \in Nat, NEW room \in Nat,
         NEW s \in Nat, NEW disc \in Nat, NEW X \in Nat,
         RootTaken(y, i, h, room, s, disc, X)
  PROVE  RootReached(y, i, h, room, (y - s) \div (2 * i), X)
<1>0. /\ disc = y * y - 4 * (i * h)
      /\ s * s <= disc /\ disc < (s + 1) * (s + 1)
      /\ 2 * s + 1 <= 4 * (i * room)
      /\ h + room <= y * X - i * (X * X)
  BY DEF RootTaken
<1> DEFINE Q(z) == y * z - i * (z * z)
           Side(z) == y - 2 * (i * z)
           some == (y - s) \div (2 * i)
<1>1. ASSUME NEW z \in Nat
      PROVE  /\ Q(z) \in Int /\ Side(z) \in Int
             /\ Side(z) * Side(z) = y * y - 4 * (i * Q(z))
             /\ Side(z) * Side(z) \in Int /\ i * Q(z) \in Int
  <2>1. i * z \in Int /\ y * z \in Int /\ i * (z * z) \in Int
    OBVIOUS
  <2>2. Q(z) \in Int /\ Side(z) \in Int
    BY <2>1
  <2>3. i * (y * z - i * (z * z)) = y * (i * z) - (i * z) * (i * z)
    OBVIOUS
  <2> DEFINE p == i * z
  <2>4. p \in Int
    BY <2>1
  <2> HIDE DEF p
  <2>5. (y - 2 * p) * (y - 2 * p) = y * y - 4 * (y * p - p * p)
    BY <2>4
  <2>6. Side(z) * Side(z) = y * y - 4 * (i * Q(z))
    BY <2>3, <2>5 DEF p
  <2>7. Side(z) * Side(z) \in Int /\ i * Q(z) \in Int
    BY <2>2
  <2> QED BY <2>2, <2>6, <2>7
<1>2. /\ y * y \in Int /\ i * h \in Nat /\ i * room \in Nat /\ s * s \in Int
      /\ (s + 1) * (s + 1) = s * s + 2 * s + 1
  BY MulNat
<1>3. s <= y
  <2> SUFFICES ASSUME y + 1 <= s PROVE FALSE
    OBVIOUS
  <2>1. (y + 1) * (y + 1) <= s * s
    BY SquareNearer
  <2>2. (y + 1) * (y + 1) = y * y + 2 * y + 1
    OBVIOUS
  <2> QED BY <1>0, <1>2, <2>1, <2>2
<1>4. some \in Nat /\ s <= Side(some) /\ Side(some + 1) < s
  <2>1. 2 * i \in Nat \ {0} /\ y - s \in Nat
    BY <1>3
  <2>2. some \in Nat /\ some * (2 * i) <= y - s
    <3> DEFINE d == 2 * i
    <3> HIDE DEF d
    <3>1. y - s \in Int
      BY <2>1
    <3>2. (y - s) \div d \in Nat /\ ((y - s) \div d) * d <= y - s
      BY <2>1, <3>1, DivNat, DivEnough DEF d
    <3> QED BY <3>2 DEF d
  <2>3. y - s < (some + 1) * (2 * i)
    <3> SUFFICES ASSUME (some + 1) * (2 * i) <= y - s PROVE FALSE
      BY <2>1, <2>2
    <3>1. some + 1 <= (y - s) \div (2 * i)
      <4>1. some + 1 \in Int /\ y - s \in Int
        BY <2>1, <2>2
      <4> DEFINE k == some + 1
      <4>2. k * (2 * i) <= y - s /\ k \in Int
        BY <4>1
      <4> HIDE DEF k, some
      <4>3. k <= (y - s) \div (2 * i)
        BY <2>1, <4>1, <4>2, DivGe
      <4> QED BY <4>3 DEF k
    <3> QED BY <2>2, <3>1
  <2> HIDE DEF some
  <2>4. some * (2 * i) = 2 * (i * some) /\ (some + 1) * (2 * i) = 2 * (i * (some + 1))
    BY <2>2
  <2>5. i * some \in Int /\ i * (some + 1) \in Int
    BY <2>2
  <2> QED BY <2>2, <2>3, <2>4, <2>5
<1> HIDE DEF some
<1>5. ASSUME NEW z \in Nat, NEW z2 \in Nat, z <= z2
      PROVE  Side(z2) <= Side(z)
  <2>1. z2 * i >= z * i
    BY <1>5, MulMonotone
  <2>2. z2 * i = i * z2 /\ z * i = i * z /\ i * z \in Int /\ i * z2 \in Int
    OBVIOUS
  <2> QED BY <2>1, <2>2
<1> HIDE DEF Q, Side
<1>6. ASSUME NEW z \in Nat, s <= Side(z)
      PROVE  Q(z) < h + room
  <2>1. s * s <= Side(z) * Side(z)
    <3>1. Side(z) \in Nat
      BY <1>1, <1>6
    <3> QED BY <1>6, <3>1, SquareNearer
  <2>2. 4 * (i * Q(z)) < 4 * (i * h) + 4 * (i * room)
    BY <1>0, <1>1, <1>2, <2>1
  <2> SUFFICES ASSUME Q(z) >= h + room PROVE FALSE
    BY <1>1
  <2>3. Q(z) * i >= (h + room) * i
    BY <1>1, MulMonotone
  <2>4. Q(z) * i = i * Q(z) /\ (h + room) * i = i * h + i * room
    BY <1>1
  <2> QED BY <1>1, <1>2, <2>2, <2>3, <2>4
<1>7. h + room <= Q(X)
  BY <1>0 DEF Q
<1>8. some < X
  <2> SUFFICES ASSUME X <= some PROVE FALSE
    BY <1>4
  <2>1. s <= Side(X)
    BY <1>1, <1>4, <1>5
  <2> QED BY <1>1, <1>6, <1>7, <2>1
<1>9. ASSUME NEW e \in Nat, some < e, e <= X
      PROVE  h <= Q(e)
  <2>1. Side(e) < s /\ Side(X) <= Side(e)
    <3>1. some + 1 \in Nat /\ some + 1 <= e
      BY <1>4, <1>9
    <3>2. Side(e) <= Side(some + 1) /\ Side(X) <= Side(e)
      BY <1>5, <1>9, <3>1
    <3> QED BY <1>1, <1>4, <3>1, <3>2
  <2>2. i * h <= i * Q(X)
    <3>1. Q(X) * i >= h * i
      BY <1>1, <1>7, MulMonotone
    <3>2. Q(X) * i = i * Q(X) /\ h * i = i * h
      BY <1>1
    <3> QED BY <3>1, <3>2
  <2>3. Side(X) * Side(X) <= disc
    BY <1>0, <1>1, <1>2, <2>2
  <2>4. -s <= Side(X)
    <3> SUFFICES ASSUME Side(X) <= -(s + 1) PROVE FALSE
      BY <1>1
    <3>1. -Side(X) \in Nat /\ s + 1 <= -Side(X)
      BY <1>1
    <3>2. (s + 1) * (s + 1) <= (-Side(X)) * (-Side(X))
      BY <3>1, SquareNearer
    <3>3. (-Side(X)) * (-Side(X)) = Side(X) * Side(X)
      BY <1>1
    <3> QED BY <1>0, <1>1, <1>2, <2>3, <3>2, <3>3
  <2>5. Side(e) * Side(e) <= s * s
    BY <1>1, <2>1, <2>4, SquareNearer
  <2>6. 4 * (i * h) <= 4 * (i * Q(e))
    BY <1>0, <1>1, <1>2, <2>5
  <2>7. Q(e) * i >= h * i
    <3>1. Q(e) * i = i * Q(e) /\ h * i = i * h
      BY <1>1
    <3> QED BY <1>1, <1>2, <2>6, <3>1
  <2>8. Q(e) \in Int /\ h \in Int /\ i \in Nat \ {0}
    BY <1>1
  <2> HIDE DEF Q
  <2> QED BY <2>7, <2>8, MulCancel
<1>10. Q(some) < h + room
  BY <1>4, <1>6
<1> QED BY <1>4, <1>8, <1>9, <1>10 DEF Q, some, RootReached

-----------------------------------------------------------------------------
\* A limiter no unit of which pays everything it is worth.
Bounded(l) == Limiting(l) /\ l.max < FeeDenominator

\* More units leave more, each at least what the highest fee leaves of it.
LEMMA LeavesMore ==
  ASSUME NEW l, Bounded(l), NEW a \in Nat, NEW b \in Nat, a <= b
  PROVE  /\ Leaves(l, a) \in Int /\ Leaves(l, b) \in Int
         /\ (FeeDenominator - l.max) * (b - a) <= Leaves(l, b) - Leaves(l, a)
         /\ Leaves(l, a) <= Leaves(l, b)
<1> DEFINE D == FeeDenominator
           m == l.max
<1>1. /\ Limiting(l) /\ D \in Nat /\ m \in Nat /\ l.cliff \in Nat
      /\ D - m \in Nat
  BY FeeAssumption DEF Bounded, Limiting
<1>2. \A k \in Nat : a < k /\ k <= b => l.cliff <= UnitFee(l, k) /\ UnitFee(l, k) <= m
  <2> SUFFICES ASSUME NEW k \in Nat, a < k
               PROVE  l.cliff <= UnitFee(l, k) /\ UnitFee(l, k) <= m
    OBVIOUS
  <2>1. k \in Nat \ {0}
    OBVIOUS
  <2>2. UnitFee(l, k) \in l.cliff..l.max
    BY <1>1, <2>1, UnitFeeRises
  <2> QED BY <1>1, <2>2
<1>3. ExactFee(l, b) - ExactFee(l, a) <= m * (b - a)
  <2>1. l.cliff \in Int /\ m \in Int
    BY <1>1
  <2> HIDE DEF m
  <2> QED BY <1>1, <1>2, <2>1, BandsClimb
<1>4. /\ Leaves(l, a) = a * D - ExactFee(l, a) /\ ExactFee(l, a) \in Int
      /\ Leaves(l, b) = b * D - ExactFee(l, b) /\ ExactFee(l, b) \in Int
  BY <1>1, ExactFeeStep DEF Leaves
<1> HIDE DEF D, m
<1>5. (D - m) * (b - a) = b * D - a * D - m * (b - a) /\ b * D \in Int /\ a * D \in Int
      /\ m * (b - a) \in Int
  BY <1>1
<1>6. (D - m) * (b - a) \in Nat
  <2>1. b - a \in Nat
    OBVIOUS
  <2> QED BY <1>1, <2>1, MulNat
<1>7. (D - m) * (b - a) <= Leaves(l, b) - Leaves(l, a)
  BY <1>3, <1>4, <1>5
<1> QED BY <1>4, <1>5, <1>6, <1>7 DEF D, m

\* The numerator of an amount covers what its units owe.
LEMMA NumeratorCovers ==
  ASSUME NEW l, Limiting(l), NEW n \in Nat
  PROVE  /\ LimiterNumerator(l, n) \in Nat
         /\ ExactFee(l, n) \in Nat
         /\ ExactFee(l, n) <= n * LimiterNumerator(l, n)
<1> DEFINE B == ExactFee(l, n)
           N == LimiterNumerator(l, n)
           D == FeeDenominator
<1>1. /\ l.reference \in Nat \ {0} /\ l.cliff \in Nat /\ D \in Nat \ {0}
      /\ l.max \in Int
  BY FeeAssumption DEF Limiting
<1>2. B \in Nat
  <2> DEFINE o == 0
  <2>1. \A k \in Nat : o < k /\ k <= n => o <= UnitFee(l, k) /\ UnitFee(l, k) <= l.max
    <3> SUFFICES ASSUME NEW k \in Nat, 0 < k
                 PROVE  0 <= UnitFee(l, k) /\ UnitFee(l, k) <= l.max
      OBVIOUS
    <3>1. UnitFee(l, k) \in l.cliff..l.max
      <4>1. k \in Nat \ {0}
        OBVIOUS
      <4> QED BY <4>1, UnitFeeRises
    <3> QED BY <1>1, <3>1
  <2>2. o \in Nat /\ o \in Int /\ o <= n
    OBVIOUS
  <2> HIDE DEF o
  <2>3. o * (n - o) <= ExactFee(l, n) - ExactFee(l, o)
    BY <1>1, <2>1, <2>2, BandsClimb
  <2>4. o * (n - o) = 0
    BY DEF o
  <2>5. B \in Int /\ ExactFee(l, o) = 0
    BY ExactFeeStep DEF o
  <2> QED BY <2>3, <2>4, <2>5 DEF B
<1>3. CASE n <= l.reference
  <2>1. N = l.cliff /\ B = n * l.cliff
    BY <1>1, <1>3, ExactIsBands DEF LimiterNumerator
  <2> QED BY <1>1, <1>2, <2>1
<1>4. CASE ~(n <= l.reference)
  <2>1. N = CeilDiv(CeilDiv(B, D) * D, n) /\ n \in Nat \ {0}
    BY <1>1, <1>4, ExactIsBands DEF LimiterNumerator
  <2> HIDE DEF B, N, D
  <2>2. CeilDiv(B, D) \in Nat /\ B <= CeilDiv(B, D) * D
    <3>1. B \in Int
      BY <1>2
    <3> QED BY <1>1, <1>2, <3>1, CeilDivNat, CeilDivEnough
  <2> DEFINE top == CeilDiv(B, D) * D
  <2>3. top \in Nat /\ top \in Int /\ B <= top /\ N = CeilDiv(top, n)
    BY <1>1, <2>1, <2>2, MulNat
  <2> HIDE DEF top
  <2>4. N \in Nat /\ top <= N * n
    BY <2>1, <2>3, CeilDivNat, CeilDivEnough
  <2>5. N * n = n * N /\ n * N \in Int
    BY <2>4
  <2> QED BY <1>2, <2>3, <2>4, <2>5 DEF B, N
<1> QED BY <1>3, <1>4

\* What get_excluded_fee_amount leaves, next to what the bands leave.
LEMMA ExcludedIsLeft ==
  ASSUME NEW l, Limiting(l), NEW n \in Nat, FeeDenominator >= 2
  PROVE  LET left == LimiterExcluded(l, n)
         IN  /\ left \in Int /\ Leaves(l, n) \in Int
             /\ FeeDenominator * left <= Leaves(l, n)
             /\ Leaves(l, n) <= FeeDenominator * left + n + 2 * FeeDenominator - 3
<1> DEFINE D == FeeDenominator
           B == ExactFee(l, n)
           exact == CeilDiv(B, D)
           more == CeilDiv(n - 1, D)
           fee == FeeOn(n, LimiterNumerator(l, n))
<1>1. D \in Nat \ {0} /\ D >= 2 /\ B \in Int
  BY FeeAssumption, ExactFeeStep
<1>2. exact <= fee /\ fee <= exact + more
  BY FeeFollowsExact
<1>3. fee \in Int
  <2>1. LimiterNumerator(l, n) \in Nat
    BY NumeratorCovers
  <2>2. n * LimiterNumerator(l, n) \in Nat
    BY <2>1, MulNat
  <2> QED BY <1>1, <2>2, CeilDivNat DEF FeeOn
<1>4. LimiterExcluded(l, n) = n - fee /\ Leaves(l, n) = n * D - B
  BY DEF LimiterExcluded, Leaves
<1> HIDE DEF fee, B, D
<1>5. ASSUME NEW k \in Int
      PROVE  LET up == CeilDiv(k, D)
             IN  up \in Int /\ k <= up * D /\ up * D <= k + D - 1
  <2>1. CeilDiv(k, D) \in Int /\ k <= CeilDiv(k, D) * D
    BY <1>1, CeilDivEnough
  <2> DEFINE top == k + D - 1
  <2>2. top \in Int /\ CeilDiv(k, D) = top \div D
    BY <1>1 DEF CeilDiv
  <2> HIDE DEF top
  <2>3. (top \div D) * D <= top
    BY <1>1, <2>2, DivEnough
  <2> QED BY <2>1, <2>2, <2>3 DEF top
<1>6. exact \in Int /\ B <= exact * D /\ exact * D <= B + D - 1
  BY <1>1, <1>5
<1>7. more \in Int /\ more * D <= (n - 1) + D - 1
  <2>1. n - 1 \in Int
    OBVIOUS
  <2> QED BY <1>5, <2>1
<1> HIDE DEF exact, more
<1>8. fee * D >= exact * D /\ (exact + more) * D >= fee * D
  BY <1>1, <1>2, <1>3, <1>6, <1>7, MulMonotone
<1>9. /\ (exact + more) * D = exact * D + more * D
      /\ D * (n - fee) = n * D - fee * D
      /\ fee * D \in Int /\ exact * D \in Int /\ more * D \in Int /\ n * D \in Int
  BY <1>1, <1>3, <1>6, <1>7
<1>10. D * (n - fee) <= n * D - B /\ n * D - B <= D * (n - fee) + n + 2 * D - 3
  BY <1>1, <1>6, <1>7, <1>8, <1>9
<1> QED BY <1>1, <1>3, <1>4, <1>9, <1>10 DEF D

\* Rounding up adds less than one divisor.
LEMMA CeilDivAtMost ==
  ASSUME NEW n \in Int, NEW d \in Nat \ {0}
  PROVE  CeilDiv(n, d) * d <= n + d - 1
<1> DEFINE top == n + d - 1
<1>1. top \in Int /\ CeilDiv(n, d) = top \div d
  BY DEF CeilDiv
<1> HIDE DEF top
<1>2. (top \div d) * d <= top
  BY <1>1, DivEnough
<1> QED BY <1>1, <1>2 DEF top

\* What a total per unit pays never falls: the bands are convex.
LEMMA BandsConvex ==
  ASSUME NEW l, Limiting(l), NEW a \in Nat, NEW b \in Nat, a <= b
  PROVE  b * ExactFee(l, a) <= a * ExactFee(l, b)
<1> DEFINE A == ExactFee(l, a)
           B == ExactFee(l, b)
           u == UnitFee(l, a)
<1>1. A \in Int /\ B \in Int /\ ExactFee(l, 0) = 0
  BY ExactFeeStep
<1>2. CASE a = 0
  <2>1. b * ExactFee(l, 0) = 0 /\ 0 * B = 0
    <3> HIDE DEF A, B
    <3> QED BY <1>1
  <2> QED BY <1>2, <2>1
<1>3. CASE a # 0
  <2>1. l.cliff \in Nat /\ l.max \in Nat
    BY DEF Limiting
  <2>2. \A k \in Nat : /\ 0 < k /\ k <= a => l.cliff <= UnitFee(l, k) /\ UnitFee(l, k) <= u
                       /\ a < k => u <= UnitFee(l, k) /\ UnitFee(l, k) <= l.max
    <3> SUFFICES ASSUME NEW k \in Nat, 0 < k
                 PROVE  /\ k <= a => l.cliff <= UnitFee(l, k) /\ UnitFee(l, k) <= u
                        /\ a < k => u <= UnitFee(l, k) /\ UnitFee(l, k) <= l.max
      OBVIOUS
    <3>1. k \in Nat \ {0} /\ a \in Nat \ {0}
      BY <1>3
    <3>2. UnitFee(l, k) \in l.cliff..l.max /\ UnitFee(l, a) \in l.cliff..l.max
      BY <3>1, UnitFeeRises
    <3>3. CASE k <= a
      BY <2>1, <3>1, <3>2, <3>3, UnitFeeRises
    <3>4. CASE a < k
      <4>1. UnitFee(l, a) <= UnitFee(l, k)
        BY <3>1, <3>4, UnitFeeRises
      <4> QED BY <2>1, <3>2, <3>4, <4>1
    <3> QED BY <3>3, <3>4
  <2>3. u \in Int
    <3>1. a \in Nat \ {0}
      BY <1>3
    <3>2. UnitFee(l, a) \in l.cliff..l.max
      BY <3>1, UnitFeeRises
    <3> QED BY <2>1, <3>2
  <2> DEFINE o == 0
  <2>4. /\ o \in Nat /\ o <= a
        /\ \A k \in Nat : o < k /\ k <= a => l.cliff <= UnitFee(l, k) /\ UnitFee(l, k) <= u
    BY <2>2
  <2> HIDE DEF u, o
  <2>0. /\ l.cliff \in Int /\ l.max \in Int
        /\ \A k \in Nat : a < k /\ k <= b => u <= UnitFee(l, k) /\ UnitFee(l, k) <= l.max
    BY <2>1, <2>2
  <2>5. A - ExactFee(l, o) <= u * (a - o)
    BY <2>0, <2>3, <2>4, BandsClimb, Zenon
  <2>6. u * (b - a) <= B - A
    BY <2>0, <2>3, BandsClimb, Zenon
  <2>7. A <= u * a
    BY <1>1, <2>3, <2>5 DEF o
  <2> HIDE DEF A, B
  <2>8. (u * a) * (b - a) >= A * (b - a)
    <3>1. b - a \in Nat /\ u * a \in Int
      BY <2>3
    <3> QED BY <1>1, <2>7, <3>1, MulMonotone
  <2>9. (B - A) * a >= (u * (b - a)) * a
    <3>1. B - A \in Int /\ u * (b - a) \in Int
      BY <1>1, <2>3
    <3> QED BY <2>6, <3>1, MulMonotone
  <2>10. /\ (u * (b - a)) * a = (u * a) * (b - a)
         /\ A * (b - a) = b * A - A * a
         /\ (B - A) * a = a * B - A * a
         /\ b * A \in Int /\ A * a \in Int /\ a * B \in Int /\ (u * a) * (b - a) \in Int
    BY <1>1, <2>3
  <2>11. b * A <= a * B
    BY <2>8, <2>9, <2>10
  <2> QED BY <2>11 DEF A, B
<1> QED BY <1>2, <1>3

-----------------------------------------------------------------------------
\* The quadratic of an amount that is left below the end of the last band can
\* be solved, and its rounded solution lies in the band that leaves it.
LEMMA SomeLeads ==
  ASSUME NEW l, Bounded(l), FeeDenominator >= 2, NEW ex \in Nat, NEW X \in Nat,
         X <= (MaxIndex(l) + 1) * l.reference,
         FeeDenominator * (ex + 1) <= Leaves(l, X)
  PROVE  LET y    == Turn(l)
             disc == y * y - 8 * l.increment * ex * FeeDenominator * l.reference
             some == (y - SqrtDown(disc)) \div (2 * l.increment)
         IN  /\ disc \in Nat /\ some \in Nat /\ some < X
             /\ Leaves(l, some) < FeeDenominator * (ex + 1)
             /\ ex * FeeDenominator
                  <= Leaves(l, (some \div l.reference + 1) * l.reference)
<1> DEFINE r == l.reference
           i == l.increment
           c == l.cliff
           D == FeeDenominator
           K == MaxIndex(l)
           y == Turn(l)
           h == 2 * r * (ex * D)
           room == 2 * r * D
           disc == y * y - 8 * l.increment * ex * FeeDenominator * l.reference
           s == SqrtDown(disc)
           some == (y - s) \div (2 * i)
<1>1. /\ r \in Nat \ {0} /\ i \in Nat \ {0} /\ c \in Nat /\ D \in Nat \ {0}
      /\ c <= D /\ D >= 2
  BY FeeAssumption DEF Bounded, Limiting
<1>2. K \in Nat /\ Limiting(l)
  BY <1>1, DivNat DEF Bounded, MaxIndex, Limiting
<1>3. /\ Leaves(l, X) \in Int
      /\ Quadratic(l, X) = y * X - i * (X * X)
      /\ 2 * r * Leaves(l, X) <= Quadratic(l, X)
  BY <1>2, QuadraticMeets, LeavesMore DEF Quadratic
<1>4. disc = y * y - 4 * (i * h)
  <2> HIDE DEF y
  <2>1. 8 * i * ex * D * r = 4 * (i * (2 * r * (ex * D)))
    <3> HIDE DEF i, D, r
    <3> QED BY <1>1
  <2> QED BY <2>1
<1>5. y = 2 * (r * (D - c)) + i * r
  <2>1. y = 2 * D * r + i * r - 2 * c * r
    BY DEF Turn
  <2> HIDE DEF y, D, i, c, r
  <2> QED BY <1>1, <2>1
<1> HIDE DEF disc, y, h, room, r, i, c, D, K
<1>6. y \in Nat /\ h \in Nat /\ room \in Nat
  <2>1. r * (D - c) \in Nat /\ i * r \in Nat /\ ex * D \in Nat /\ r * D \in Nat
    <3>1. D - c \in Nat
      BY <1>1
    <3> QED BY <1>1, <3>1, MulNat
  <2>2. 2 * r * (ex * D) = 2 * (r * (ex * D)) /\ 2 * r * D = 2 * (r * D)
    BY <1>1
  <2>3. r * (ex * D) \in Nat
    BY <1>1, <2>1, MulNat
  <2> QED BY <1>1, <1>5, <2>1, <2>2, <2>3 DEF h, room
<1>7. h + room <= y * X - i * (X * X)
  <2>1. Leaves(l, X) * (2 * r) >= (D * (ex + 1)) * (2 * r)
    <3>1. D * (ex + 1) \in Int /\ 2 * r \in Nat /\ D * (ex + 1) <= Leaves(l, X)
      BY <1>1 DEF D
    <3> QED BY <1>3, <3>1, MulMonotone
  <2>2. /\ (D * (ex + 1)) * (2 * r) = h + room
        /\ Leaves(l, X) * (2 * r) = 2 * r * Leaves(l, X)
    BY <1>1, <1>3 DEF h, room
  <2>3. y * X - i * (X * X) \in Int /\ 2 * r * Leaves(l, X) \in Int
    BY <1>1, <1>3, <1>6
  <2> QED BY <1>3, <1>6, <2>1, <2>2, <2>3 DEF r
<1>8. disc \in Nat
  <2> DEFINE q == y * X - i * (X * X)
             d == y - 2 * (i * X)
  <2>1. q \in Int /\ d \in Int /\ h <= q
    BY <1>1, <1>6, <1>7
  <2>2. d * d = y * y - 4 * (i * q)
    <3> DEFINE p == i * X
    <3>1. p \in Int /\ i * q = y * p - p * p
      BY <1>1, <1>6
    <3> HIDE DEF p
    <3>2. (y - 2 * p) * (y - 2 * p) = y * y - 4 * (y * p - p * p)
      BY <1>6, <3>1
    <3> QED BY <3>1, <3>2 DEF p
  <2> HIDE DEF q, d
  <2>3. d * d >= 0
    <3>1. CASE d >= 0
      BY <2>1, <3>1, MulNat
    <3>2. CASE d < 0
      <4>1. (-d) * (-d) = d * d /\ -d \in Nat
        BY <2>1, <3>2
      <4>2. (-d) * (-d) \in Nat
        BY <4>1, MulNat
      <4> QED BY <4>1, <4>2
    <3> QED BY <2>1, <3>1, <3>2
  <2>4. q * i >= h * i /\ q * i = i * q /\ h * i = i * h
    BY <1>1, <1>6, <2>1, MulMonotone
  <2>5. y * y \in Int /\ i * h \in Int /\ i * q \in Int /\ d * d \in Int
    BY <1>1, <1>6, <2>1
  <2> QED BY <1>4, <2>2, <2>3, <2>4, <2>5
<1>9. s \in Nat /\ s * s <= disc /\ disc < (s + 1) * (s + 1)
  BY <1>8, SqrtDownIs
<1> HIDE DEF s
<1>10. 2 * s + 1 <= 4 * (i * room)
  <2>1. s <= y
    <3> SUFFICES ASSUME y + 1 <= s PROVE FALSE
      BY <1>6, <1>9
    <3>1. (y + 1) * (y + 1) <= s * s
      BY <1>6, <1>9, SquareNearer
    <3>2. (y + 1) * (y + 1) = y * y + 2 * y + 1 /\ y * y \in Int
      BY <1>6
    <3>3. i * h \in Nat /\ s * s \in Int
      BY <1>1, <1>6, <1>9, MulNat
    <3> QED BY <1>4, <1>6, <1>8, <1>9, <3>1, <3>2, <3>3
  <2> DEFINE q == r * D
             w == i * r
  <2>2. q \in Nat /\ w \in Nat \ {0} /\ r * (D - c) <= q
    <3>1. r * (D - c) = q - r * c /\ r * c \in Nat
      BY <1>1, MulNat
    <3>2. q \in Nat /\ w \in Nat \ {0}
      BY <1>1, MulNat, MulPos
    <3> QED BY <3>1, <3>2
  <2>3. i * q >= q /\ i * q >= 2 * w
    <3>1. i * q >= 1 * q
      BY <1>1, <2>2, MulMonotone
    <3>2. D * w >= 2 * w
      BY <1>1, <2>2, MulMonotone
    <3>3. D * w = i * q
      BY <1>1
    <3> QED BY <2>2, <3>1, <3>2, <3>3
  <2>4. i * room = 2 * (i * q) /\ i * q \in Int
    BY <1>1 DEF room
  <2>5. r * (D - c) \in Int
    BY <1>1
  <2> HIDE DEF q
  <2> QED BY <1>5, <1>6, <1>9, <2>1, <2>2, <2>3, <2>4, <2>5
<1>11. /\ some \in Nat /\ some < X
       /\ y * some - i * (some * some) < h + room
       /\ \A e \in Nat : some < e /\ e <= X => h <= y * e - i * (e * e)
  <2>1. RootTaken(y, i, h, room, s, disc, X)
    BY <1>4, <1>7, <1>9, <1>10 DEF RootTaken
  <2>2. RootReached(y, i, h, room, some, X)
    BY <1>1, <1>6, <1>8, <1>9, <2>1, RootLeads
  <2> HIDE DEF some
  <2> QED BY <2>2 DEF RootReached
<1> HIDE DEF some
<1>12. Leaves(l, some) < D * (ex + 1)
  <2>1. some <= (K + 1) * r
    <3>1. (K + 1) * r \in Int /\ X <= (K + 1) * r
      BY <1>1, <1>2 DEF K, r
    <3> QED BY <1>11, <3>1
  <2>2. 2 * r * Leaves(l, some) <= y * some - i * (some * some)
    BY <1>2, <1>11, <2>1, QuadraticMeets DEF Quadratic, r, K, i, y
  <2>3. Leaves(l, some) \in Int
    BY <1>11, LeavesMore
  <2> SUFFICES ASSUME D * (ex + 1) <= Leaves(l, some) PROVE FALSE
    BY <1>1, <2>3
  <2>4. Leaves(l, some) * (2 * r) >= (D * (ex + 1)) * (2 * r)
    <3>1. D * (ex + 1) \in Int /\ 2 * r \in Nat
      BY <1>1
    <3> QED BY <2>3, <3>1, MulMonotone
  <2>5. /\ (D * (ex + 1)) * (2 * r) = h + room
        /\ Leaves(l, some) * (2 * r) = 2 * r * Leaves(l, some)
    BY <1>1, <2>3 DEF h, room
  <2>6. y * some - i * (some * some) \in Int /\ 2 * r * Leaves(l, some) \in Int
    BY <1>1, <1>6, <1>11, <2>3
  <2> QED BY <1>6, <1>11, <2>2, <2>4, <2>5, <2>6
<1> DEFINE b == some \div r
           e == (b + 1) * r
<1>13. b \in Nat /\ e \in Nat /\ some < e /\ b <= K
  <2>1. b \in Nat /\ b * r <= some
    <3>1. some \in Nat /\ some \in Int /\ r \in Nat \ {0}
      BY <1>1, <1>11
    <3> HIDE DEF some, r
    <3>2. b \in Nat
      BY <3>1, DivNat
    <3>3. b * r <= some
      BY <3>1, DivEnough
    <3> QED BY <3>2, <3>3
  <2>2. some < b * r + r
    BY <1>1, <1>11
  <2> HIDE DEF b
  <2>3. (b + 1) * r = b * r + r /\ b * r \in Nat
    BY <1>1, <2>1, MulNat
  <2>4. b <= K
    <3> SUFFICES ASSUME K + 1 <= b PROVE FALSE
      BY <1>2, <2>1 DEF K
    <3>1. b * r >= (K + 1) * r /\ (K + 1) * r \in Int
      <4>1. K + 1 \in Int
        BY <1>2 DEF K
      <4> QED BY <1>1, <2>1, <4>1, MulMonotone
    <3>2. X <= (K + 1) * r
      BY DEF K, r
    <3> QED BY <1>11, <2>1, <2>3, <3>1, <3>2
  <2> QED BY <1>1, <2>1, <2>2, <2>3, <2>4
<1> HIDE DEF b
<1>14. ex * D <= Leaves(l, e)
  <2>1. CASE e <= X
    <3>1. h <= y * e - i * (e * e)
      BY <1>11, <1>13, <2>1
    <3>2. e <= (K + 1) * r
      <4>1. X <= (K + 1) * r /\ (K + 1) * r \in Int
        BY <1>1, <1>2 DEF K, r
      <4> HIDE DEF e
      <4> QED BY <1>13, <2>1, <4>1
    <3>3. \E k \in Nat : e = k * l.reference
      <4>1. b + 1 \in Nat /\ e = (b + 1) * l.reference
        BY <1>13 DEF r
      <4> QED BY <4>1
    <3> HIDE DEF e
    <3>4. 2 * r * Leaves(l, e) = y * e - i * (e * e)
      BY <1>2, <1>13, <3>2, <3>3, QuadraticMeets DEF Quadratic, r, K, i, y
    <3>5. Leaves(l, e) \in Int
      BY <1>13, LeavesMore
    <3>6. Leaves(l, e) * (2 * r) >= (ex * D) * (2 * r)
      <4>1. Leaves(l, e) * (2 * r) = 2 * r * Leaves(l, e) /\ (ex * D) * (2 * r) = h
        BY <1>1, <3>5 DEF h
      <4> QED BY <3>1, <3>4, <4>1
    <3>7. ex * D \in Int /\ 2 * r \in Nat \ {0}
      BY <1>1
    <3> QED BY <3>5, <3>6, <3>7, MulCancel
  <2>2. CASE X < e
    <3> HIDE DEF e
    <3>1. Leaves(l, X) <= Leaves(l, e) /\ Leaves(l, e) \in Int
      BY <1>13, <2>2, LeavesMore
    <3>2. D * (ex + 1) = ex * D + D /\ ex * D \in Int /\ D * (ex + 1) <= Leaves(l, X)
      BY <1>1 DEF D
    <3> QED BY <1>1, <1>3, <3>1, <3>2
  <2> HIDE DEF e
  <2> QED BY <1>13, <2>1, <2>2
<1> QED BY <1>8, <1>11, <1>12, <1>14 DEF disc, y, s, some, i, D, b, r

\* The inverse goes on from an amount that leaves no more than ex, at the
\* rate of the units to come: where it lands, the bands leave at least ex,
\* and not much more.
LEMMA LandsAbove ==
  ASSUME NEW l, Bounded(l), FeeDenominator >= 2,
         NEW from \in Nat, NEW ex \in Nat, NEW rate \in Nat,
         rate < FeeDenominator, LimiterExcluded(l, from) <= ex,
         \A k \in Nat : from < k => rate <= UnitFee(l, k),
         \A z \in Nat : from <= z =>
           \/ ex * FeeDenominator <= Leaves(l, z)
           \/ \A k \in Nat : from < k /\ k <= z => UnitFee(l, k) <= rate
  PROVE  LET x == from + IncludedFeeAmount(ex - LimiterExcluded(l, from), rate)
         IN  /\ x \in Nat /\ from <= x
             /\ ex * FeeDenominator <= Leaves(l, x)
             /\ Leaves(l, x)
                  <= ex * FeeDenominator + x + 3 * FeeDenominator - 4
<1> DEFINE D == FeeDenominator
           E == LimiterExcluded(l, from)
           rest == ex - E
           t == CeilDiv(rest * D, D - rate)
           x == from + t
           F == ExactFee(l, from)
           G == ExactFee(l, x)
<1>1. /\ D \in Nat \ {0} /\ D - rate \in Nat \ {0} /\ Limiting(l)
      /\ l.max \in Int /\ rate \in Int
  BY FeeAssumption DEF Bounded, Limiting
<1>2. /\ E \in Int /\ F \in Int /\ Leaves(l, from) = from * D - F
      /\ D * E <= Leaves(l, from)
      /\ Leaves(l, from) <= D * E + from + 2 * D - 3
  BY <1>1, ExcludedIsLeft, ExactFeeStep DEF Leaves
<1> HIDE DEF E
<1>3. rest \in Nat
  BY <1>2 DEF E
<1> HIDE DEF D, rest
<1>4. rest * D \in Nat
  BY <1>1, <1>3, MulNat
<1> DEFINE top == rest * D
           d == D - rate
<1>5. t \in Nat /\ top <= t * d /\ t * d <= top + d - 1
  <2>1. top \in Int /\ top \in Nat /\ d \in Nat \ {0} /\ t = CeilDiv(top, d)
    BY <1>1, <1>4
  <2> HIDE DEF top, d, t
  <2> QED BY <2>1, CeilDivNat, CeilDivEnough, CeilDivAtMost
<1> HIDE DEF t
<1>6. x \in Nat /\ from <= x /\ x - from = t
  BY <1>5
<1>7. x = from + IncludedFeeAmount(ex - LimiterExcluded(l, from), rate)
  BY DEF IncludedFeeAmount, t, rest, E, D
<1> HIDE DEF x
<1>8. G \in Int /\ Leaves(l, x) = x * D - G /\ Leaves(l, x) \in Int
  BY <1>1, <1>6, ExactFeeStep DEF Leaves, D
<1> HIDE DEF F, G
<1>9. /\ \A k \in Nat : from < k /\ k <= x => rate <= UnitFee(l, k) /\ UnitFee(l, k) <= l.max
      /\ rate * (x - from) <= G - F
  <2>1. \A k \in Nat : from < k /\ k <= x => rate <= UnitFee(l, k) /\ UnitFee(l, k) <= l.max
    <3> SUFFICES ASSUME NEW k \in Nat, from < k
                 PROVE  rate <= UnitFee(l, k) /\ UnitFee(l, k) <= l.max
      OBVIOUS
    <3>1. k \in Nat \ {0}
      OBVIOUS
    <3>2. UnitFee(l, k) \in l.cliff..l.max
      BY <1>1, <3>1, UnitFeeRises
    <3>3. l.cliff \in Int
      BY <1>1 DEF Limiting
    <3> QED BY <1>1, <3>2, <3>3
  <2>2. rate * (x - from) <= ExactFee(l, x) - ExactFee(l, from)
    BY <1>1, <1>6, <2>1, BandsClimb
  <2> QED BY <2>1, <2>2 DEF F, G
<1>10. /\ x * D = from * D + t * D /\ t * d = t * D - t * rate
       /\ rate * (x - from) = t * rate
       /\ t * D \in Int /\ t * rate \in Int /\ from * D \in Int
       /\ top = ex * D - D * E /\ ex * D \in Int /\ D * E \in Int
       /\ rest * D = top
  <2>1. x = from + t
    BY <1>5, <1>6
  <2>2. rest * D = ex * D - D * E
    BY <1>1, <1>2 DEF rest
  <2> QED BY <1>1, <1>2, <1>5, <1>6, <2>1, <2>2
<1> HIDE DEF top
<1>11. Leaves(l, x) <= ex * D + x + 3 * D - 4
  <2>1. Leaves(l, x) <= Leaves(l, from) + t * d
    BY <1>1, <1>2, <1>8, <1>9, <1>10
  <2> QED BY <1>1, <1>2, <1>5, <1>6, <1>8, <1>10, <2>1
<1>12. ex * D <= Leaves(l, x)
  <2>1. CASE ex * D <= Leaves(l, x)
    BY <2>1
  <2>2. CASE \A k \in Nat : from < k /\ k <= x => UnitFee(l, k) <= rate
    <3>1. \A k \in Nat : from < k /\ k <= x => rate <= UnitFee(l, k) /\ UnitFee(l, k) <= rate
      BY <1>9, <2>2
    <3>2. ExactFee(l, x) - ExactFee(l, from) <= rate * (x - from)
      BY <1>1, <1>6, <3>1, BandsClimb
    <3>3. G - F <= t * rate
      BY <1>10, <3>2 DEF F, G
    <3> QED BY <1>1, <1>2, <1>5, <1>8, <1>10, <3>3
  <2>3. \/ ex * D <= Leaves(l, x)
        \/ \A k \in Nat : from < k /\ k <= x => UnitFee(l, k) <= rate
    BY <1>6 DEF D
  <2> QED BY <2>1, <2>2, <2>3
<1> QED BY <1>6, <1>7, <1>11, <1>12 DEF D

-----------------------------------------------------------------------------
\* The bands leave ex of a total of T, and not much more.
LeavesNearly(l, T, ex) ==
  /\ ex * FeeDenominator <= Leaves(l, T)
  /\ Leaves(l, T) <= ex * FeeDenominator + 2 * T + 7 * FeeDenominator - 1

\* n is the numerator of the fee x - ex of x, rounded.
NumeratorNear(l, x, ex, n) ==
  /\ (x - ex) * FeeDenominator - FeeDenominator + 1 <= n * x
  /\ n * x <= (x - ex) * FeeDenominator + x - 1
  /\ ExactFee(l, x) <= n * x

\* The total that such a numerator, under the cap, leads to from ex: it lies
\* near the x that it was made from.
LEMMA TotalNear ==
  ASSUME NEW l, Bounded(l), NEW cap \in Nat, l.max <= cap,
         cap <= FeeDenominator - 2,
         NEW x \in Nat \ {0}, NEW ex \in Nat, NEW n \in Nat,
         ex * FeeDenominator <= Leaves(l, x),
         Leaves(l, x) <= ex * FeeDenominator + x + 3 * FeeDenominator - 4,
         NumeratorNear(l, x, ex, n)
  PROVE  LET T == IncludedFeeAmount(ex, Smaller(n, cap))
         IN  T \in Nat /\ LeavesNearly(l, T, ex)
<1> DEFINE D == FeeDenominator
           m == Smaller(n, cap)
           M == l.max
           T == CeilDiv(ex * D, D - m)
           X == ExactFee(l, x)
           B == ExactFee(l, T)
           h == ex * D
<1>1. /\ D \in Nat \ {0} /\ D >= 2 /\ M \in Nat /\ M <= cap /\ Limiting(l)
      /\ m \in Nat /\ m <= n /\ m <= cap /\ (m = n \/ m = cap) /\ cap <= D - 2
      /\ x \in Nat /\ x >= 1
  BY FeeAssumption DEF Smaller, Bounded, Limiting
<1> HIDE DEF m, D, M
<1>2. h \in Nat /\ D - m \in Nat \ {0} /\ h \in Int
  BY <1>1, MulNat
<1> DEFINE d == D - m
<1>3. T \in Nat /\ h <= T * d /\ T * d <= h + d - 1
  <2> HIDE DEF h
  <2> QED BY <1>2, CeilDivNat, CeilDivEnough, CeilDivAtMost DEF h
<1>4. T = IncludedFeeAmount(ex, Smaller(n, cap))
  BY DEF IncludedFeeAmount, D, m
<1> HIDE DEF T
<1>5. /\ X \in Int /\ Leaves(l, x) = x * D - X /\ Leaves(l, x) \in Int
      /\ B \in Int /\ Leaves(l, T) = T * D - B /\ Leaves(l, T) \in Int
  BY <1>1, <1>3, ExactFeeStep DEF Leaves, D
<1>6. /\ (x - ex) * D - D + 1 <= n * x
      /\ n * x <= (x - ex) * D + x - 1
      /\ X <= n * x
      /\ h <= Leaves(l, x) /\ Leaves(l, x) <= h + x + 3 * D - 4
  BY DEF NumeratorNear, D
<1> HIDE DEF X, B, h, d
<1>7. /\ (x - ex) * D = x * D - h /\ x * D \in Int /\ T * D \in Int /\ n * x \in Int
      /\ T * d = T * D - m * T /\ m * T \in Int
      /\ x * d = x * D - m * x /\ m * x \in Int /\ x * d \in Int /\ T * d \in Int
      /\ d \in Nat /\ d >= 1
  BY <1>1, <1>2, <1>3 DEF d, h
<1>8. m * x <= n * x
  <2>1. n * x >= m * x
    BY <1>1, MulMonotone
  <2> QED BY <2>1
<1>9. x <= T => LeavesNearly(l, T, ex)
  <2>0. SUFFICES ASSUME x <= T PROVE LeavesNearly(l, T, ex)
    OBVIOUS
  <2>1. h <= Leaves(l, T)
    <3>1. Leaves(l, x) <= Leaves(l, T)
      BY <1>1, <1>3, <2>0, LeavesMore
    <3> QED BY <1>2, <1>5, <1>6, <3>1
  <2>2. T <= 2 * x - 1
    <3>1. (T - x) * d <= x + d - 2
      <4>1. (T - x) * d = T * d - x * d
        BY <1>3, <1>7
      <4> QED BY <1>1, <1>2, <1>3, <1>6, <1>7, <1>8, <4>1
    <3> SUFFICES ASSUME T >= 2 * x PROVE FALSE
      BY <1>1, <1>3
    <3>2. (T - x) * d >= x * d
      <4>1. T - x \in Int /\ T - x >= x
        BY <1>1, <1>3
      <4> QED BY <1>1, <1>7, <4>1, MulMonotone
    <3>3. (x - 1) * (d - 1) \in Nat
      <4>1. x - 1 \in Nat /\ d - 1 \in Nat
        BY <1>1, <1>7
      <4> QED BY <4>1, MulNat
    <3>4. (x - 1) * (d - 1) = x * d - x - d + 1
      BY <1>1, <1>7
    <3>5. (T - x) * d \in Int
      BY <1>1, <1>3, <1>7
    <3> QED BY <1>1, <1>7, <3>1, <3>2, <3>3, <3>4, <3>5
  <2>3. T * X <= x * B
    BY <1>1, <1>3, <2>0, BandsConvex DEF X, B
  <2>4. m * x - X <= 2 * x + 3 * D - 5
    BY <1>1, <1>2, <1>5, <1>6, <1>7, <1>8
  <2>5. (m * T - B) * x <= (m * x - X) * T
    <3>1. (m * T - B) * x = m * T * x - x * B /\ (m * x - X) * T = m * T * x - T * X
      BY <1>1, <1>3, <1>5
    <3>2. m * T * x \in Int /\ x * B \in Int /\ T * X \in Int
      BY <1>1, <1>3, <1>5
    <3> QED BY <2>3, <3>1, <3>2
  <2>6. (m * x - X) * T <= (2 * T + 6 * D) * x
    <3>1. (2 * x + 3 * D - 5) * T >= (m * x - X) * T
      <4>1. 2 * x + 3 * D - 5 \in Int /\ m * x - X \in Int
        BY <1>1, <1>5, <1>7
      <4> QED BY <1>3, <2>4, <4>1, MulMonotone
    <3>2. (2 * x) * (3 * D) >= T * (3 * D)
      <4>1. 3 * D \in Nat /\ 2 * x \in Int /\ 2 * x >= T
        BY <1>1, <1>3, <2>2
      <4> QED BY <1>3, <4>1, MulMonotone
    <3>3. /\ (2 * x + 3 * D - 5) * T = 2 * T * x + T * (3 * D) - 5 * T
          /\ (2 * T + 6 * D) * x = 2 * T * x + (2 * x) * (3 * D)
      BY <1>1, <1>3
    <3>4. /\ 2 * T * x \in Int /\ T * (3 * D) \in Int /\ (2 * x) * (3 * D) \in Int
          /\ (m * x - X) * T \in Int
      BY <1>1, <1>3, <1>5, <1>7
    <3> QED BY <1>3, <3>1, <3>2, <3>3, <3>4
  <2>7. m * T - B <= 2 * T + 6 * D
    <3>1. (2 * T + 6 * D) * x >= (m * T - B) * x
      <4>1. /\ (m * T - B) * x \in Int /\ (m * x - X) * T \in Int
            /\ (2 * T + 6 * D) * x \in Int
        BY <1>1, <1>3, <1>5, <1>7
      <4> QED BY <2>5, <2>6, <4>1
    <3>2. 2 * T + 6 * D \in Int /\ m * T - B \in Int /\ x \in Nat \ {0}
      BY <1>1, <1>3, <1>5, <1>7
    <3> QED BY <3>1, <3>2, MulCancel
  <2>8. Leaves(l, T) <= h + 2 * T + 7 * D - 1
    <3>1. d <= D
      BY <1>1 DEF d
    <3> QED BY <1>1, <1>2, <1>3, <1>5, <1>7, <2>7, <3>1
  <2> QED BY <2>1, <2>8 DEF LeavesNearly, h, D
<1>10. T < x => LeavesNearly(l, T, ex)
  <2>0. SUFFICES ASSUME T < x PROVE LeavesNearly(l, T, ex)
    OBVIOUS
  <2>1. Leaves(l, T) <= Leaves(l, x)
    BY <1>1, <1>3, <2>0, LeavesMore
  <2>2. x + 3 * D - 4 <= 2 * T + 7 * D - 1
    <3>1. CASE m = n
      <4>1. (x - T) * d = x * d - T * d
        BY <1>1, <1>3, <1>7
      <4>2. x * d - T * d <= D - 1
        BY <1>1, <1>2, <1>3, <1>6, <1>7, <3>1
      <4>3. (x - T) * d >= (x - T) * 1
        <5>1. d * (x - T) >= 1 * (x - T)
          BY <1>1, <1>3, <1>7, <2>0, MulMonotone
        <5>2. d * (x - T) = (x - T) * d /\ 1 * (x - T) = x - T /\ (x - T) * 1 = x - T
          BY <1>1, <1>3, <1>7
        <5> QED BY <5>1, <5>2
      <4>4. x - T <= D - 1
        BY <1>1, <1>3, <1>7, <4>1, <4>2, <4>3
      <4> QED BY <1>1, <1>3, <4>4
    <3>2. CASE m = cap
      <4> DEFINE j == D - M - 1
      <4>1. j \in Nat \ {0} /\ d <= j + 1 /\ j + 1 <= 2 * j
        BY <1>1, <3>2 DEF d
      <4>2. (D - M) * (x - 0) <= Leaves(l, x) - Leaves(l, 0)
        <5> DEFINE o == 0
        <5>1. o \in Nat /\ o <= x
          BY <1>1
        <5> HIDE DEF o
        <5>2. (D - M) * (x - o) <= Leaves(l, x) - Leaves(l, o)
          BY <1>1, <5>1, LeavesMore DEF D, M
        <5> QED BY <5>2 DEF o
      <4>3. Leaves(l, 0) = 0
        <5>1. ExactFee(l, 0) = 0 /\ 0 * FeeDenominator = 0
          BY <1>1, FeeAssumption, ExactFeeStep
        <5> QED BY <5>1 DEF Leaves
      <4>4. (D - M) * (x - 0) = x * (j + 1) /\ x * (j + 1) = x * j + x /\ x * j \in Int
        BY <1>1
      <4> HIDE DEF j
      <4>5. T * (2 * j) >= T * d
        <5>1. (2 * j) * T >= d * T
          BY <1>3, <1>7, <4>1, MulMonotone
        <5>2. (2 * j) * T = T * (2 * j) /\ d * T = T * d
          BY <1>3, <1>7, <4>1
        <5> QED BY <5>1, <5>2
      <4>6. x * j <= T * (2 * j) + 3 * D - 4
        <5>1. T * (2 * j) \in Int
          BY <1>3, <4>1
        <5> QED BY <1>1, <1>2, <1>3, <1>5, <1>6, <1>7, <4>2, <4>3, <4>4, <4>5, <5>1
      <4>7. (3 * D) * j >= 3 * D
        <5>1. j * (3 * D) >= 1 * (3 * D)
          BY <1>1, <4>1, MulMonotone
        <5>2. j * (3 * D) = (3 * D) * j
          BY <1>1, <4>1
        <5> QED BY <1>1, <5>1, <5>2
      <4>8. (2 * T + 3 * D) * j >= x * j
        <5>1. (2 * T + 3 * D) * j = T * (2 * j) + (3 * D) * j
          BY <1>1, <1>3, <4>1
        <5>2. T * (2 * j) \in Int /\ (3 * D) * j \in Int
          BY <1>1, <1>3, <4>1
        <5> QED BY <1>1, <4>4, <4>6, <4>7, <5>1, <5>2
      <4>9. x <= 2 * T + 3 * D
        <5>1. 2 * T + 3 * D \in Int /\ x \in Int
          BY <1>1, <1>3
        <5> QED BY <4>1, <4>8, <5>1, MulCancel
      <4> QED BY <1>1, <1>3, <4>9
    <3> QED BY <1>1, <3>1, <3>2
  <2>3. Leaves(l, T) <= h + 2 * T + 7 * D - 1
    BY <1>1, <1>2, <1>3, <1>5, <1>6, <2>1, <2>2
  <2>4. B <= m * T
    <3>1. x * B <= T * X
      BY <1>1, <1>3, <2>0, BandsConvex DEF X, B
    <3>2. CASE m = n
      <4>1. (m * x) * T >= X * T
        BY <1>3, <1>5, <1>6, <1>7, <3>2, MulMonotone
      <4>2. (m * x) * T = (m * T) * x /\ X * T = T * X /\ x * B = B * x
            /\ (m * T) * x \in Int /\ T * X \in Int /\ B * x \in Int
        BY <1>1, <1>3, <1>5
      <4>3. (m * T) * x >= B * x
        BY <3>1, <4>1, <4>2
      <4>4. x \in Nat \ {0}
        BY <1>1
      <4> QED BY <1>5, <1>7, <4>3, <4>4, MulCancel
    <3>3. CASE m = cap
      <4>1. (D - M) * (T - 0) <= Leaves(l, T) - Leaves(l, 0)
        <5> DEFINE o == 0
        <5>1. o \in Nat /\ o <= T
          BY <1>3
        <5> HIDE DEF o
        <5>2. (D - M) * (T - o) <= Leaves(l, T) - Leaves(l, o)
          BY <1>1, <1>3, <5>1, LeavesMore DEF D, M
        <5> QED BY <5>2 DEF o
      <4>2. Leaves(l, 0) = 0
        <5>1. ExactFee(l, 0) = 0 /\ 0 * FeeDenominator = 0
          BY <1>1, FeeAssumption, ExactFeeStep
        <5> QED BY <5>1 DEF Leaves
      <4>3. (D - M) * (T - 0) = T * D - M * T /\ M * T \in Int
        BY <1>1, <1>3
      <4>4. m * T >= M * T
        BY <1>1, <1>3, <3>3, MulMonotone
      <4> QED BY <1>3, <1>5, <1>7, <4>1, <4>2, <4>3, <4>4
    <3> QED BY <1>1, <3>2, <3>3
  <2>5. h <= Leaves(l, T)
    BY <1>2, <1>3, <1>5, <1>7, <2>4
  <2> QED BY <2>3, <2>5 DEF LeavesNearly, h, D
<1>11. T \in Nat /\ LeavesNearly(l, T, ex)
  BY <1>1, <1>3, <1>9, <1>10
<1> QED BY <1>4, <1>11

\* A numerator that is enough for the highest fee, or the limiter's own, covers
\* what the units owe.
LEMMA CapCovers ==
  ASSUME NEW l, Bounded(l), NEW n \in Nat, NEW m \in Nat,
         l.max <= m \/ LimiterNumerator(l, n) <= m
  PROVE  /\ ExactFee(l, n) \in Nat /\ ExactFee(l, n) <= m * n
         /\ n * FeeDenominator - m * n <= Leaves(l, n)
<1> DEFINE M == l.max
           N == LimiterNumerator(l, n)
           X == ExactFee(l, n)
           D == FeeDenominator
<1>1. Limiting(l) /\ M \in Nat /\ D \in Nat
  BY FeeAssumption DEF Bounded, Limiting
<1>2. N \in Nat /\ X \in Nat /\ X <= n * N
  BY <1>1, NumeratorCovers
<1>3. Leaves(l, n) = n * D - X
  BY DEF Leaves
<1>4. X <= M * n
  <2> DEFINE o == 0
  <2>1. o \in Nat /\ o <= n
    OBVIOUS
  <2> HIDE DEF o
  <2>2. (D - M) * (n - o) <= Leaves(l, n) - Leaves(l, o)
    BY <2>1, LeavesMore DEF D, M
  <2>3. Leaves(l, 0) = 0
    <3>1. ExactFee(l, 0) = 0 /\ 0 * FeeDenominator = 0
      BY <1>1, FeeAssumption, ExactFeeStep
    <3> QED BY <3>1 DEF Leaves
  <2>4. (D - M) * (n - o) = n * D - M * n /\ M * n \in Int /\ n * D \in Int
    BY <1>1 DEF o
  <2> HIDE DEF D, M, X
  <2>5. n * D - M * n <= n * D - X
    BY <1>1, <1>2, <1>3, <2>2, <2>3, <2>4 DEF o
  <2> QED BY <1>2, <2>4, <2>5
<1> HIDE DEF M, N, X, D
<1>5. X <= m * n
  <2>1. CASE M <= m
    <3>1. m * n >= M * n
      BY <1>1, <2>1, MulMonotone
    <3>2. m * n \in Int /\ M * n \in Int
      BY <1>1
    <3> QED BY <1>2, <1>4, <3>1, <3>2
  <2>2. CASE N <= m
    <3>1. m * n >= N * n /\ N * n = n * N
      BY <1>2, <2>2, MulMonotone
    <3>2. m * n \in Int /\ n * N \in Int
      BY <1>2
    <3> QED BY <1>2, <3>1, <3>2
  <2> QED BY <2>1, <2>2 DEF M, N
<1>6. n * D \in Int /\ m * n \in Int
  BY <1>1
<1> QED BY <1>2, <1>3, <1>5, <1>6 DEF X, D

\* Where the bands leave nearly ex of T, the fee of an exact-in purchase of T
\* is nearly T - ex.
LEMMA FeeOfTotal ==
  ASSUME NEW l, Bounded(l), NEW cap \in Nat, l.max <= cap,
         cap <= FeeDenominator - 2,
         NEW T \in Nat, NEW ex \in Nat, LeavesNearly(l, T, ex)
  PROVE  LET fee == FeeOn(T, Smaller(LimiterNumerator(l, T), cap))
         IN  /\ fee <= (T - ex) + 2 + T \div FeeDenominator
             /\ T - ex <= fee + 7 + (2 * T) \div FeeDenominator
<1> DEFINE D == FeeDenominator
           N == LimiterNumerator(l, T)
           m == Smaller(N, cap)
           fee == FeeOn(T, m)
           g == FeeOn(T, N)
           X == ExactFee(l, T)
           left == LimiterExcluded(l, T)
<1>1. /\ Limiting(l) /\ D \in Nat \ {0} /\ D >= 2 /\ N \in Nat
  BY FeeAssumption, NumeratorCovers DEF Bounded, Limiting
<1>2. m \in Nat /\ m <= N /\ (l.max <= m \/ N <= m)
  <2> HIDE DEF N
  <2> QED BY <1>1 DEF Smaller
<1>3. X \in Nat /\ X <= m * T
  <2> HIDE DEF m
  <2> QED BY <1>2, CapCovers
<1>4. /\ left \in Int /\ Leaves(l, T) \in Int /\ left = T - g
      /\ Leaves(l, T) <= D * left + T + 2 * D - 3
  <2>1. left = T - g
    BY DEF LimiterExcluded
  <2>2. left \in Int /\ Leaves(l, T) \in Int /\ Leaves(l, T) <= D * left + T + 2 * D - 3
    BY <1>1, ExcludedIsLeft
  <2> QED BY <2>1, <2>2
<1>5. /\ Leaves(l, T) = T * D - X
      /\ ex * D <= Leaves(l, T)
      /\ Leaves(l, T) <= ex * D + 2 * T + 7 * D - 1
  BY DEF Leaves, LeavesNearly
<1> HIDE DEF N, m, D, X, left
<1>6. /\ m * T = T * m /\ T * m \in Int /\ T * N \in Int
      /\ T * D \in Int /\ ex * D \in Int
  BY <1>1, <1>2
<1>7. /\ fee \in Int /\ T * m <= fee * D
      /\ g \in Int /\ T * N <= g * D
  BY <1>1, <1>6, CeilDivEnough DEF FeeOn, D
<1>8. fee <= g
  <2>1. N * T >= m * T /\ N * T = T * N
    BY <1>1, <1>2, MulMonotone
  <2>2. g * D \in Int
    BY <1>1, <1>7
  <2>3. T * m <= g * D
    BY <1>6, <1>7, <2>1, <2>2
  <2>4. CeilDiv(T * m, D) <= g
    BY <1>1, <1>6, <1>7, <2>3, CeilDivLe
  <2> QED BY <2>4 DEF FeeOn, D
<1> HIDE DEF fee, g
<1>9. T - ex <= fee + 7 + (2 * T) \div D
  <2> DEFINE q == T - ex - fee - 7
  <2>1. q * D = T * D - ex * D - fee * D - 7 * D
    BY <1>1, <1>7
  <2>2. fee * D \in Int /\ q \in Int
    BY <1>1, <1>7
  <2>3. q * D <= 2 * T
    BY <1>1, <1>3, <1>5, <1>6, <1>7, <2>1, <2>2
  <2> HIDE DEF q
  <2>4. q <= (2 * T) \div D
    BY <1>1, <2>2, <2>3, DivGe
  <2>5. (2 * T) \div D \in Int
    BY <1>1
  <2> QED BY <1>7, <2>4, <2>5 DEF q
<1>10. g <= (T - ex) + 2 + T \div D
  <2> DEFINE q == g - (T - ex) - 2
  <2>1. /\ q * D = g * D - T * D + ex * D - 2 * D
        /\ D * left = T * D - g * D
    BY <1>1, <1>4, <1>7
  <2>2. g * D \in Int /\ q \in Int
    BY <1>1, <1>7
  <2>3. q * D <= T
    BY <1>1, <1>4, <1>5, <1>6, <2>1, <2>2
  <2> HIDE DEF q
  <2>4. q <= T \div D
    BY <1>1, <2>2, <2>3, DivGe
  <2>5. T \div D \in Int
    BY <1>1
  <2> QED BY <1>7, <2>4, <2>5 DEF q
<1>11. fee <= (T - ex) + 2 + T \div D
  <2>1. T \div D \in Int
    BY <1>1
  <2> QED BY <1>7, <1>8, <1>10, <2>1
<1> QED BY <1>9, <1>11 DEF fee, m, N, D

\* What the bands leave of x is at least ex, and not much more.
LeavesJust(l, x, ex) ==
  /\ ex * FeeDenominator <= Leaves(l, x)
  /\ Leaves(l, x) <= ex * FeeDenominator + x + 3 * FeeDenominator - 4

\* The numerator that an amount pays going forward is the rounded numerator of
\* the fee it pays.
LEMMA NumeratorAt ==
  ASSUME NEW l, Bounded(l), FeeDenominator >= 2, NEW x \in Nat \ {0}
  PROVE  LET ex == LimiterExcluded(l, x)
         IN  /\ LimiterNumerator(l, x) \in Nat
             /\ LeavesJust(l, x, ex)
             /\ NumeratorNear(l, x, ex, LimiterNumerator(l, x))
<1> DEFINE D == FeeDenominator
           N == LimiterNumerator(l, x)
           X == ExactFee(l, x)
           ex == LimiterExcluded(l, x)
           fee == FeeOn(x, N)
<1>1. /\ Limiting(l) /\ D \in Nat \ {0} /\ D >= 2 /\ N \in Nat /\ X \in Nat
      /\ X <= x * N
  BY FeeAssumption, NumeratorCovers DEF Bounded
<1>2. /\ ex \in Int /\ Leaves(l, x) \in Int /\ ex = x - fee
      /\ D * ex <= Leaves(l, x)
      /\ Leaves(l, x) <= D * ex + x + 2 * D - 3
  <2>1. ex = x - fee
    BY DEF LimiterExcluded
  <2>2. /\ ex \in Int /\ Leaves(l, x) \in Int /\ D * ex <= Leaves(l, x)
        /\ Leaves(l, x) <= D * ex + x + 2 * D - 3
    BY <1>1, ExcludedIsLeft
  <2> QED BY <2>1, <2>2
<1> HIDE DEF D, N, X, ex
<1>3. x * N \in Int /\ N * x = x * N
  BY <1>1
<1>4. fee \in Int /\ x * N <= fee * D /\ fee * D <= x * N + D - 1
  BY <1>1, <1>3, CeilDivEnough, CeilDivAtMost DEF FeeOn, D
<1> HIDE DEF fee
<1>5. D * ex = ex * D /\ ex * D \in Int /\ x - ex = fee /\ fee * D \in Int
  BY <1>1, <1>2, <1>4
<1>6. LeavesJust(l, x, ex)
  BY <1>1, <1>2, <1>5 DEF LeavesJust, D
<1>7. NumeratorNear(l, x, ex, N)
  <2>1. (x - ex) * D = fee * D
    BY <1>5
  <2> QED BY <1>1, <1>3, <1>4, <1>5, <2>1 DEF NumeratorNear, D, X
<1> QED BY <1>1, <1>6, <1>7 DEF N, ex

\* So is the one that the inverse makes of x and of what is to be left of it,
\* and it is not below the cliff.
LEMMA NumeratorAfter ==
  ASSUME NEW l, Bounded(l), NEW x \in Nat \ {0}, NEW ex \in Nat,
         LeavesJust(l, x, ex)
  PROVE  LET n == CeilDiv((x - ex) * FeeDenominator, x)
         IN  n \in Nat /\ n >= l.cliff /\ NumeratorNear(l, x, ex, n)
<1> DEFINE D == FeeDenominator
           top == (x - ex) * D
           n == CeilDiv(top, x)
           X == ExactFee(l, x)
           c == l.cliff
<1>1. /\ Limiting(l) /\ D \in Nat \ {0} /\ c \in Nat /\ l.max \in Int
  BY FeeAssumption DEF Bounded, Limiting
<1>2. top \in Int /\ top = x * D - ex * D /\ x * D \in Int /\ ex * D \in Int
  BY <1>1
<1>3. X \in Int /\ Leaves(l, x) = x * D - X /\ ex * D <= Leaves(l, x)
  BY <1>1, ExactFeeStep DEF Leaves, LeavesJust
<1>4. c * x <= X
  <2> DEFINE o == 0
  <2>1. \A k \in Nat : o < k /\ k <= x => c <= UnitFee(l, k) /\ UnitFee(l, k) <= l.max
    <3> SUFFICES ASSUME NEW k \in Nat, 0 < k
                 PROVE  c <= UnitFee(l, k) /\ UnitFee(l, k) <= l.max
      OBVIOUS
    <3>1. k \in Nat \ {0}
      OBVIOUS
    <3>2. UnitFee(l, k) \in l.cliff..l.max
      BY <1>1, <3>1, UnitFeeRises
    <3> QED BY <1>1, <3>2
  <2>2. o \in Nat /\ o <= x /\ c \in Int /\ x \in Nat
    BY <1>1
  <2> HIDE DEF c, o, D
  <2>3. c * (x - o) <= ExactFee(l, x) - ExactFee(l, o)
    BY <1>1, <2>1, <2>2, BandsClimb
  <2>4. ExactFee(l, 0) = 0
    BY <1>1, ExactFeeStep
  <2> QED BY <1>3, <2>2, <2>3, <2>4 DEF o
<1> HIDE DEF top, D, X, c
<1>5. n \in Int /\ top <= n * x /\ n * x <= top + x - 1
  BY <1>2, CeilDivEnough, CeilDivAtMost
<1> HIDE DEF n
<1>6. n * x \in Int /\ c * x \in Int
  BY <1>1, <1>5
<1>7. n >= c
  <2>1. n * x >= c * x
    BY <1>2, <1>3, <1>4, <1>5, <1>6
  <2> QED BY <1>1, <1>5, <2>1, MulCancel
<1>8. NumeratorNear(l, x, ex, n)
  BY <1>1, <1>2, <1>3, <1>5, <1>6 DEF NumeratorNear, D, X, top
<1> QED BY <1>1, <1>5, <1>7, <1>8 DEF n, c, top, D

\* Below the reference amount the inverse is that of a flat fee.
LEMMA BelowReference ==
  ASSUME NEW l, Bounded(l), NEW ex \in Nat,
         ex <= LimiterExcluded(l, l.reference)
  PROVE  LET T == IncludedFeeAmount(ex, l.cliff)
         IN  T \in Nat /\ LeavesNearly(l, T, ex)
<1> DEFINE D == FeeDenominator
           r == l.reference
           c == l.cliff
           T == CeilDiv(ex * D, D - c)
<1>1. /\ Limiting(l) /\ D \in Nat \ {0} /\ c \in Nat /\ r \in Nat /\ c < D
      /\ c \in Numerators /\ 0 \in 0..MaxIndex(l)
  <2>1. Limiting(l) /\ c \in Nat /\ r \in Nat /\ c < D /\ D \in Nat \ {0}
    BY FeeAssumption DEF Bounded, Limiting
  <2>2. l.max - l.cliff \in Nat /\ l.increment \in Nat \ {0}
    BY <2>1 DEF Limiting
  <2>3. MaxIndex(l) \in Nat
    BY <2>2, DivNat DEF MaxIndex
  <2> QED BY <2>1, <2>3 DEF Numerators
<1>2. ex <= Kept(r, c)
  <2>1. LimiterNumerator(l, r) = c
    BY <1>1 DEF LimiterNumerator
  <2> QED BY <2>1 DEF LimiterExcluded, Kept
<1>3. /\ T = IncludedFeeAmount(ex, c)
      /\ T \in Nat /\ \A less \in Nat : less < T => Kept(less, c) < ex
  <2>1. T = IncludedFeeAmount(ex, c)
    BY DEF IncludedFeeAmount
  <2> HIDE DEF T
  <2> QED BY <1>1, <2>1, IncludedKeeps
<1>4. T <= r
  <2>1. Kept(r, c) \in Int
    BY <1>1, KeptNat
  <2>2. ~(r < T)
    <3> HIDE DEF T, r, c
    <3> QED BY <1>1, <1>2, <1>3, <2>1
  <2> HIDE DEF T, r
  <2> QED BY <1>1, <1>3, <2>2
<1>5. ex * D \in Int /\ D - c \in Nat \ {0}
  BY <1>1
<1>6. ex * D <= T * (D - c) /\ T * (D - c) <= ex * D + (D - c) - 1
  BY <1>5, CeilDivEnough, CeilDivAtMost
<1> HIDE DEF T
<1>7. Leaves(l, T) = T * D - T * c
  <2> DEFINE o == 0
  <2>1. o \in 0..MaxIndex(l) /\ T \in 0..l.reference
    BY <1>1, <1>3, <1>4
  <2> HIDE DEF o
  <2>2. ExactFee(l, o * l.reference + T)
          = ExactFee(l, o * l.reference) + T * (l.cliff + l.increment * o)
    BY <1>1, <2>1, BandIsEven
  <2>3. /\ o * l.reference + T = T /\ o * l.reference = 0
        /\ l.cliff + l.increment * o = c
    BY <1>1, <1>3 DEF o, Limiting
  <2>4. ExactFee(l, 0) = 0 /\ T * c \in Int
    BY <1>1, <1>3, ExactFeeStep
  <2>5. ExactFee(l, T) = T * c
    BY <2>2, <2>3, <2>4
  <2> QED BY <2>5 DEF Leaves
<1>8. T * (D - c) = T * D - T * c /\ T * D \in Int /\ T * c \in Int
  BY <1>1, <1>3
<1> HIDE DEF D, c
<1>9. LeavesNearly(l, T, ex)
  BY <1>1, <1>3, <1>5, <1>6, <1>7, <1>8 DEF LeavesNearly, D
<1> QED BY <1>3, <1>9 DEF c

\* Where the last band ends, if nothing overflows.
LEMMA CheckedEnd ==
  ASSUME NEW l, Limiting(l)
  PROVE  /\ MaxIndex(l) \in Nat
         /\ CheckedAmount(l) \in Nat
         /\ CheckedAmount(l) <= (MaxIndex(l) + 1) * l.reference
         /\ ~Overflows(l) => CheckedAmount(l) = (MaxIndex(l) + 1) * l.reference
<1>1. l.max - l.cliff \in Nat /\ l.increment \in Nat \ {0} /\ l.reference \in Nat
  BY DEF Limiting
<1>2. MaxIndex(l) \in Nat
  BY <1>1, DivNat DEF MaxIndex
<1>3. (MaxIndex(l) + 1) * l.reference \in Nat
  <2>1. MaxIndex(l) + 1 \in Nat
    BY <1>2
  <2> QED BY <1>1, <2>1, MulNat
<1> QED BY <1>2, <1>3, AmountAssumption DEF CheckedAmount, Overflows, Smaller

\* Within the bands the inverse finds an amount, and the bands leave just what
\* was asked for of it.
LEMMA WithinBands ==
  ASSUME NEW l, Bounded(l), FeeDenominator >= 2, NEW ex \in Nat,
         ex < LimiterExcluded(l, CheckedAmount(l))
  PROVE  \E x \in Nat : IncludedInBands(l, ex) = {x} /\ LeavesJust(l, x, ex)
<1> DEFINE D    == FeeDenominator
           X    == CheckedAmount(l)
           r    == l.reference
           K    == MaxIndex(l)
           y    == Turn(l)
           disc == y * y - 8 * l.increment * ex * FeeDenominator * l.reference
           some == (y - SqrtDown(disc)) \div (2 * l.increment)
           b    == some \div r
           rate == l.cliff + l.increment * b
           end  == (b + 1) * r
           E    == LimiterExcluded(l, some)
           x    == some + IncludedFeeAmount(ex - E, rate)
<1>1. /\ Limiting(l) /\ D \in Nat \ {0} /\ r \in Nat \ {0} /\ K \in Nat
      /\ X \in Nat /\ X <= (K + 1) * r
      /\ l.max \in Nat /\ l.max < D /\ l.cliff \in Nat
  BY FeeAssumption, CheckedEnd DEF Bounded, Limiting
<1>2. D * (ex + 1) <= Leaves(l, X)
  <2> DEFINE left == LimiterExcluded(l, X)
  <2>1. left \in Int /\ Leaves(l, X) \in Int /\ D * left <= Leaves(l, X)
    BY <1>1, ExcludedIsLeft
  <2>2. ex + 1 <= left
    BY <2>1
  <2> HIDE DEF left, X, D
  <2>3. left * D >= (ex + 1) * D
    BY <1>1, <2>1, <2>2, MulMonotone
  <2>4. left * D = D * left /\ (ex + 1) * D = D * (ex + 1)
        /\ D * left \in Int /\ D * (ex + 1) \in Int
    BY <1>1, <2>1
  <2> QED BY <2>1, <2>3, <2>4
<1>3. /\ disc \in Nat /\ some \in Nat /\ some < X
      /\ Leaves(l, some) < D * (ex + 1)
      /\ ex * D <= Leaves(l, end)
  BY <1>1, <1>2, SomeLeads
<1> HIDE DEF disc, some, X
<1>4. /\ b \in Nat /\ b <= K /\ some % r \in 0..(r - 1)
      /\ some = b * r + (some % r)
  <2>1. b \in Nat /\ (some % r) \in 0..(r - 1) /\ some = b * r + (some % r)
    <3> HIDE DEF r
    <3> QED BY <1>1, <1>3
  <2>2. b < K + 1
    <3> DEFINE k == K + 1
    <3> SUFFICES ASSUME b >= k PROVE FALSE
      BY <1>1, <2>1
    <3>1. k \in Nat /\ X <= k * r /\ r \in Nat
      BY <1>1
    <3> HIDE DEF b, k, r
    <3>2. b * r >= k * r
      BY <2>1, <3>1, MulMonotone
    <3>3. b * r \in Int /\ k * r \in Int
      BY <2>1, <3>1
    <3>4. X \in Int
      BY <1>1
    <3> QED BY <1>3, <2>1, <3>1, <3>2, <3>3, <3>4
  <2> QED BY <1>1, <2>1, <2>2
<1> HIDE DEF b
<1>5. /\ end \in Nat \ {0} /\ some < end
      /\ UnitFee(l, some + 1) = rate /\ UnitFee(l, end) = rate
  <2>1. b \in Int /\ r - 1 \in 0..(r - 1)
    BY <1>1, <1>4
  <2>2. UnitFee(l, b * r + (some % r) + 1) = rate
    BY <1>1, <1>4, <2>1, UnitFeeIs
  <2>3. UnitFee(l, b * r + (r - 1) + 1) = rate
    BY <1>1, <1>4, <2>1, UnitFeeIs
  <2> HIDE DEF rate
  <2>4. b * r + (r - 1) + 1 = end /\ end = b * r + r /\ b * r \in Nat
    <3>1. b * r \in Nat
      BY <1>1, <1>4, MulNat
    <3> HIDE DEF r
    <3> QED BY <1>1, <1>4, <3>1
  <2> HIDE DEF r, end
  <2> QED BY <1>1, <1>4, <2>2, <2>3, <2>4
<1> HIDE DEF end
<1>6. /\ rate \in Nat /\ rate < D
      /\ \A k \in Nat : some < k => rate <= UnitFee(l, k)
  <2>1. some + 1 \in Nat \ {0}
    BY <1>3
  <2>2. UnitFee(l, some + 1) \in l.cliff..l.max
    BY <1>1, <2>1, UnitFeeRises
  <2>3. ASSUME NEW k \in Nat, some < k
        PROVE  rate <= UnitFee(l, k)
    <3>1. k \in Nat \ {0} /\ some + 1 <= k
      BY <1>3, <2>3
    <3>2. UnitFee(l, some + 1) <= UnitFee(l, k)
      BY <1>1, <2>1, <3>1, UnitFeeRises
    <3> QED BY <1>5, <3>2
  <2> HIDE DEF rate, D
  <2>4. rate \in l.cliff..l.max
    BY <1>5, <2>2
  <2>5. rate \in Nat /\ rate < D
    BY <1>1, <2>4
  <2> QED BY <2>3, <2>5
<1>7. \A z \in Nat : some <= z =>
        \/ ex * D <= Leaves(l, z)
        \/ \A k \in Nat : some < k /\ k <= z => UnitFee(l, k) <= rate
  <2> SUFFICES ASSUME NEW z \in Nat, some <= z
               PROVE  \/ ex * D <= Leaves(l, z)
                      \/ \A k \in Nat : some < k /\ k <= z => UnitFee(l, k) <= rate
    OBVIOUS
  <2>1. CASE end <= z
    <3>1. Leaves(l, end) <= Leaves(l, z) /\ Leaves(l, end) \in Int
          /\ Leaves(l, z) \in Int
      BY <1>5, <2>1, LeavesMore
    <3>2. ex * D \in Int
      BY <1>1
    <3> QED BY <1>3, <3>1, <3>2
  <2>2. CASE z < end
    <3>1. ASSUME NEW k \in Nat, some < k, k <= z
          PROVE  UnitFee(l, k) <= rate
      <4>1. k \in Nat \ {0} /\ k <= end
        BY <1>3, <1>5, <2>2, <3>1
      <4>2. UnitFee(l, k) <= UnitFee(l, end)
        BY <1>1, <1>5, <4>1, UnitFeeRises
      <4> QED BY <1>5, <4>2
    <3> QED BY <3>1
  <2> QED BY <1>5, <2>1, <2>2
<1> HIDE DEF rate
<1>8. E \in Int /\ E <= ex
  <2>1. E \in Int /\ Leaves(l, some) \in Int /\ D * E <= Leaves(l, some)
    BY <1>1, <1>3, ExcludedIsLeft
  <2> HIDE DEF E, D
  <2>2. D * E = E * D /\ D * (ex + 1) = (ex + 1) * D
        /\ E * D \in Int /\ (ex + 1) * D \in Int
    BY <1>1, <2>1
  <2>3. ~(E >= ex + 1)
    <3> SUFFICES ASSUME E >= ex + 1 PROVE FALSE
      OBVIOUS
    <3>1. E * D >= (ex + 1) * D
      BY <1>1, <2>1, MulMonotone
    <3> QED BY <1>3, <2>1, <2>2, <3>1
  <2> QED BY <2>1, <2>3
<1>9. x \in Nat /\ LeavesJust(l, x, ex)
  BY <1>3, <1>6, <1>7, <1>8, LandsAbove DEF LeavesJust
<1>10. IncludedInBands(l, ex) = {x}
  <2>1. disc >= 0 /\ ex - E >= 0
    BY <1>3, <1>8
  <2> QED BY <1>6, <2>1 DEF IncludedInBands, Turn, disc, some, b, rate
<1> QED BY <1>9, <1>10

\* So it does beyond them.
LEMMA BeyondBands ==
  ASSUME NEW l, Bounded(l), FeeDenominator >= 2, NEW ex \in Nat,
         ~Overflows(l), LimiterExcluded(l, CheckedAmount(l)) <= ex
  PROVE  \E x \in Nat : IncludedAboveBands(l, ex) = {x} /\ LeavesJust(l, x, ex)
<1> DEFINE X    == CheckedAmount(l)
           K    == MaxIndex(l)
           rate == l.max
           x    == X + IncludedFeeAmount(ex - LimiterExcluded(l, X), rate)
<1>1. /\ Limiting(l) /\ l.reference \in Nat \ {0} /\ K \in Nat
      /\ X \in Nat /\ X = (K + 1) * l.reference
      /\ rate \in Nat /\ rate < FeeDenominator
  BY CheckedEnd DEF Bounded, Limiting
<1>2. ASSUME NEW k \in Nat, X < k
      PROVE  UnitFee(l, k) = rate
  <2> DEFINE band == (k - 1) \div l.reference
  <2>1. k - 1 \in Int /\ (K + 1) * l.reference <= k - 1 /\ K + 1 \in Int
    BY <1>1, <1>2
  <2>2. K + 1 <= band
    BY <1>1, <2>1, DivGe
  <2>3. band \in Int
    BY <1>1, <2>1
  <2>4. ~(band <= K)
    BY <1>1, <2>2, <2>3
  <2> QED BY <2>4 DEF UnitFee
<1>3. \A k \in Nat : X < k => UnitFee(l, k) = rate /\ rate <= UnitFee(l, k)
        /\ UnitFee(l, k) <= rate
  <2> SUFFICES ASSUME NEW k \in Nat, X < k
               PROVE  UnitFee(l, k) = rate /\ rate <= UnitFee(l, k)
                        /\ UnitFee(l, k) <= rate
    OBVIOUS
  <2>1. UnitFee(l, k) = rate
    BY <1>2
  <2> QED BY <1>1, <2>1
<1> HIDE DEF X, rate
<1>4. x \in Nat /\ LeavesJust(l, x, ex)
  <2>1. LimiterExcluded(l, X) <= ex
    BY DEF X
  <2> QED BY <1>1, <1>3, <2>1, LandsAbove DEF LeavesJust
<1>5. IncludedAboveBands(l, ex) = {x}
  BY DEF IncludedAboveBands, X, rate
<1> QED BY <1>4, <1>5

\* An amount that leaves something is something.
LEMMA LeavesOfSome ==
  ASSUME NEW l, Bounded(l), NEW x \in Nat, NEW ex \in Nat \ {0},
         ex * FeeDenominator <= Leaves(l, x)
  PROVE  x \in Nat \ {0}
<1> SUFFICES ASSUME x = 0 PROVE FALSE
  OBVIOUS
<1>1. ExactFee(l, 0) = 0 /\ 0 * FeeDenominator = 0 /\ FeeDenominator \in Nat \ {0}
  BY FeeAssumption, ExactFeeStep DEF Bounded
<1>2. Leaves(l, x) = 0
  BY <1>1 DEF Leaves
<1>3. ex * FeeDenominator >= 1 * FeeDenominator
  BY <1>1, MulMonotone
<1>4. ex * FeeDenominator \in Int
  BY <1>1
<1> QED BY <1>1, <1>2, <1>3, <1>4

\* Every total that get_fee_numerator_from_excluded_fee_amount leads to leaves
\* nearly what was asked for, and there is one wherever the bands reach it.
LEMMA InverseTotals ==
  ASSUME NEW l, Bounded(l), NEW cap \in Nat, l.max <= cap,
         cap <= FeeDenominator - 2, NEW ex \in Nat
  PROVE  /\ \A n \in LimiterFromExcluded(l, ex) :
              LET T == IncludedFeeAmount(ex, Smaller(n, cap))
              IN  T \in Nat /\ LeavesNearly(l, T, ex)
         /\ (Overflows(l) => ex <= LimiterExcluded(l, MaxAmount)) =>
              LimiterFromExcluded(l, ex) # {}
<1> DEFINE X       == CheckedAmount(l)
           checked == LimiterExcluded(l, X)
           amounts == IF ex < checked THEN IncludedInBands(l, ex)
                                      ELSE IncludedAboveBands(l, ex)
           After(x) == CeilDiv((x - ex) * FeeDenominator, x)
           found == LimiterFromExcluded(l, ex)
           Total(n) == IncludedFeeAmount(ex, Smaller(n, cap))
           reached == Overflows(l) => ex <= LimiterExcluded(l, MaxAmount)
           Good(n) == Total(n) \in Nat /\ LeavesNearly(l, Total(n), ex)
<1>1. /\ Limiting(l) /\ FeeDenominator >= 2 /\ FeeDenominator \in Nat \ {0}
      /\ l.reference \in Nat \ {0} /\ l.cliff \in Nat /\ l.cliff <= l.max
      /\ l.max \in Nat /\ X \in Nat
  BY FeeAssumption, CheckedEnd DEF Bounded, Limiting
<1>2. checked \in Int
  BY <1>1, ExcludedIsLeft
<1>3. ASSUME NEW x \in Nat \ {0}, LeavesJust(l, x, ex), NEW n \in Nat,
             NumeratorNear(l, x, ex, n)
      PROVE  Good(n)
  BY <1>3, TotalNear DEF LeavesJust
<1>4. CASE ex <= LimiterExcluded(l, l.reference)
  <2>1. found = {l.cliff}
    BY <1>4 DEF LimiterFromExcluded
  <2>2. Smaller(l.cliff, cap) = l.cliff
    BY <1>1 DEF Smaller
  <2>3. Good(l.cliff)
    BY <1>4, <2>2, BelowReference
  <2> HIDE DEF Good, found
  <2>4. (\A n \in found : Good(n)) /\ found # {}
    BY <2>1, <2>3
  <2> QED BY <2>4 DEF Good, found
<1>5. CASE ~(ex <= LimiterExcluded(l, l.reference))
  <2>1. ex \in Nat \ {0}
    <3>1. LimiterNumerator(l, l.reference) = l.cliff
      BY <1>1 DEF LimiterNumerator
    <3>2. l.cliff \in 0..(FeeDenominator - 1)
      BY <1>1 DEF Bounded
    <3>3. FeeOn(l.reference, l.cliff) \in 0..l.reference
      BY <1>1, <3>2, FeeOnBounds
    <3>4. LimiterExcluded(l, l.reference) >= 0 /\ LimiterExcluded(l, l.reference) \in Int
      BY <1>1, <3>1, <3>3 DEF LimiterExcluded
    <3> QED BY <1>5, <3>4
  <2>2. CASE ex = checked
    <3>1. found = {LimiterNumerator(l, X)}
      BY <1>5, <2>2 DEF LimiterFromExcluded
    <3>2. X \in Nat \ {0}
      <4>1. FeeDenominator * checked <= Leaves(l, X) /\ Leaves(l, X) \in Int
        BY <1>1, ExcludedIsLeft
      <4>2. ex * FeeDenominator <= Leaves(l, X)
        <5>1. FeeDenominator * checked = ex * FeeDenominator
          <6> HIDE DEF checked
          <6> QED BY <1>1, <2>2
        <5> QED BY <4>1, <5>1
      <4> QED BY <1>1, <2>1, <4>2, LeavesOfSome
    <3>3. Good(LimiterNumerator(l, X))
      <4>1. /\ LimiterNumerator(l, X) \in Nat /\ LeavesJust(l, X, checked)
            /\ NumeratorNear(l, X, checked, LimiterNumerator(l, X))
        BY <1>1, <3>2, NumeratorAt
      <4>2. LeavesJust(l, X, ex) /\ NumeratorNear(l, X, ex, LimiterNumerator(l, X))
        BY <2>2, <4>1
      <4> HIDE DEF Good, X, checked
      <4> QED BY <1>3, <3>2, <4>1, <4>2
    <3> HIDE DEF Good, found, X
    <3>4. (\A n \in found : Good(n)) /\ found # {}
      BY <3>1, <3>3
    <3> QED BY <3>4 DEF Good, found
  <2>3. CASE ex # checked
    <3>1. found = {n \in {After(x) : x \in amounts} : n \in Nat /\ n >= l.cliff}
      BY <1>5, <2>3 DEF LimiterFromExcluded
    <3>2. ASSUME NEW x \in Nat, LeavesJust(l, x, ex), amounts = {x}
          PROVE  found = {After(x)} /\ Good(After(x))
      <4>1. x \in Nat \ {0}
        BY <2>1, <3>2, LeavesOfSome DEF LeavesJust
      <4>2. After(x) \in Nat /\ After(x) >= l.cliff /\ NumeratorNear(l, x, ex, After(x))
        BY <3>2, <4>1, NumeratorAfter
      <4> HIDE DEF After, amounts, found, Good
      <4>3. Good(After(x))
        BY <1>3, <3>2, <4>1, <4>2
      <4>4. found = {After(x)}
        BY <3>1, <3>2, <4>2
      <4> QED BY <4>3, <4>4
    <3>3. CASE ex < checked
      <4>1. PICK x \in Nat : IncludedInBands(l, ex) = {x} /\ LeavesJust(l, x, ex)
        BY <1>1, <3>3, WithinBands
      <4>2. amounts = {x}
        BY <3>3, <4>1
      <4> HIDE DEF After, amounts, found, Good
      <4>3. (\A n \in found : Good(n)) /\ found # {}
        BY <3>2, <4>1, <4>2
      <4> QED BY <4>3 DEF Good, found
    <3>4. CASE ~(ex < checked) /\ ~Overflows(l)
      <4>1. checked <= ex
        <5> HIDE DEF checked
        <5> QED BY <1>2, <3>4
      <4>2. PICK x \in Nat : IncludedAboveBands(l, ex) = {x} /\ LeavesJust(l, x, ex)
        BY <1>1, <3>4, <4>1, BeyondBands
      <4>3. amounts = {x}
        BY <3>4, <4>2
      <4> HIDE DEF After, amounts, found, Good
      <4>4. (\A n \in found : Good(n)) /\ found # {}
        BY <3>2, <4>2, <4>3
      <4> QED BY <4>4 DEF Good, found
    <3>5. CASE ~(ex < checked) /\ Overflows(l)
      <4>1. amounts = {}
        BY <3>5 DEF IncludedAboveBands
      <4>2. found = {}
        <5> HIDE DEF amounts, found, After
        <5> QED BY <3>1, <4>1
      <4>3. ~reached
        <5>1. X = MaxAmount
          <6>1. MaxIndex(l) + 1 \in Nat /\ l.reference \in Nat
            BY <1>1, CheckedEnd
          <6>2. (MaxIndex(l) + 1) * l.reference \in Nat
            BY <6>1, MulNat
          <6>3. ~((MaxIndex(l) + 1) * l.reference <= MaxAmount)
            BY <3>5, <6>2, AmountAssumption DEF Overflows
          <6> QED BY <6>3 DEF CheckedAmount, Smaller
        <5>2. reached => ex <= checked
          BY <3>5, <5>1
        <5> HIDE DEF reached, checked
        <5> QED BY <1>2, <2>3, <3>5, <5>2
      <4> HIDE DEF Good, found, reached
      <4>4. (\A n \in found : Good(n)) /\ (reached => found # {})
        BY <4>2, <4>3
      <4> QED BY <4>4 DEF Good, found, reached
    <3> QED BY <3>3, <3>4, <3>5
  <2> QED BY <2>2, <2>3
<1> QED BY <1>4, <1>5

\* A limiter's closed forms read four fields of it, whichever record they are
\* in: the pool's, or that of a trade.
LEMMA SameLimiter ==
  ASSUME NEW f, NEW b, f.cliff = b.cliff, f.increment = b.increment,
         f.max = b.max, f.reference = b.reference
  PROVE  /\ Overflows(f) = Overflows(b)
         /\ \A n : LimiterExcluded(f, n) = LimiterExcluded(b, n)
BY DEF Overflows, LimiterExcluded, LimiterNumerator, BandFees, MaxIndex

\* The inverse of the rate limiter, with the square root in it, and its fee
\* agree up to a handful of units.
THEOREM InverseAgreesHolds == LimiterSpec => []InverseAgrees
<1>1. LimiterInv => InverseAgrees
  <2> SUFFICES ASSUME LimiterInv,
                      Overflows(limiter) => purchase <= LimiterExcluded(limiter, MaxAmount)
               PROVE  \E f \in TradeFeesOf(limiter, 0, 1, 1, "BtoA", 0) :
                        \E total \in AmountsIncluding(purchase, f) :
                          LET charged == total - purchase
                              exactIn == FeeOn(total, NumeratorFor(total, f))
                          IN  /\ exactIn <= charged + 2 + total \div FeeDenominator
                              /\ charged <= exactIn + 7 + (2 * total) \div FeeDenominator
    BY DEF InverseAgrees
  <2> DEFINE f == [limited |-> TRUE, cliff |-> limiter.cliff,
                   increment |-> limiter.increment, max |-> limiter.max,
                   reference |-> limiter.reference, variable |-> 0]
             cap == MaxFeeNumerator
             Total(n) == IncludedFeeAmount(purchase, Smaller(n, cap))
  <2>1. f \in TradeFeesOf(limiter, 0, 1, 1, "BtoA", 0)
    <3>1. limiter.mode = "RateLimiter" /\ limiter.duration \in Nat
      BY BaseFeeAssumption DEF LimiterInv, ValidLimiters
    <3>2. LimiterApplies(limiter, 0, "BtoA")
      BY <3>1 DEF LimiterApplies
    <3>3. limiter.cliff \in ScheduledFee(limiter, 0, 1, 1)
      BY <3>1 DEF ScheduledFee
    <3> QED BY <3>2, <3>3 DEF TradeFeesOf
  <2>2. /\ Bounded(f) /\ f.max <= cap /\ cap \in Nat /\ cap <= FeeDenominator - 2
        /\ purchase \in Nat
    <3>1. Limiting(limiter) /\ purchase \in Nat
      BY ValidLimits DEF LimiterInv
    <3>2. limiter.max <= MaxNewFee
      <4>1. limiter.mode = "RateLimiter" /\ ValidBaseFee(limiter, TRUE)
        BY DEF LimiterInv, ValidLimiters
      <4> QED BY <4>1 DEF ValidBaseFee, ValidLimiter
    <3>3. limiter.max \in Nat
      BY <3>1 DEF Limiting
    <3>4. limiter.max <= cap /\ cap \in Nat /\ cap <= FeeDenominator - 2
          /\ limiter.max < FeeDenominator
      BY <3>2, <3>3, CapAssumption, MaxFeeAssumption, BaseFeeAssumption, FeeAssumption
    <3> QED BY <3>1, <3>4 DEF Bounded, Limiting
  <2>3. PICK n \in LimiterFromExcluded(f, purchase) :
          Total(n) \in Nat /\ LeavesNearly(f, Total(n), purchase)
    <3>1. Overflows(f) => purchase <= LimiterExcluded(f, MaxAmount)
      BY SameLimiter
    <3> HIDE DEF f, cap
    <3> QED BY <2>2, <3>1, InverseTotals
  <2>4. Total(n) \in AmountsIncluding(purchase, f)
    <3>1. n + 0 = n
      <4>1. LimiterFromExcluded(f, purchase) \subseteq Nat
        <5>1. f \in TradeFeeRecord
          BY <2>2 DEF TradeFeeRecord, Bounded, Limiting
        <5> HIDE DEF f
        <5> QED BY <2>2, <5>1, LimiterFromExcludedNat DEF f
      <4> HIDE DEF f
      <4> QED BY <2>3, <4>1
    <3>2. TotalNumerator(n, f) = Smaller(n, cap)
      BY <3>1 DEF TotalNumerator
    <3>3. BaseFromExcluded(f, purchase) = LimiterFromExcluded(f, purchase)
      BY DEF BaseFromExcluded
    <3> HIDE DEF f
    <3> QED BY <3>2, <3>3 DEF AmountsIncluding
  <2>5. LET exactIn == FeeOn(Total(n), NumeratorFor(Total(n), f))
        IN  /\ exactIn <= (Total(n) - purchase) + 2 + Total(n) \div FeeDenominator
            /\ Total(n) - purchase
                 <= exactIn + 7 + (2 * Total(n)) \div FeeDenominator
    <3> DEFINE T == Total(n)
               N == LimiterNumerator(f, T)
    <3>1. NumeratorFor(T, f) = Smaller(N, cap)
      <4>1. N + 0 = N
        <5>1. Limiting(f) /\ T \in Nat
          BY <2>2, <2>3 DEF Bounded
        <5>2. N \in Nat
          <6> HIDE DEF f, T
          <6> QED BY <5>1, NumeratorCovers
        <5> QED BY <5>2
      <4>2. BaseFromIncluded(f, T) = N
        BY DEF BaseFromIncluded
      <4> HIDE DEF N, T
      <4> QED BY <4>1, <4>2 DEF NumeratorFor, TotalNumerator
    <3>2. T \in Nat /\ LeavesNearly(f, T, purchase)
      BY <2>3
    <3> HIDE DEF f, T, cap
    <3>3. LET fee == FeeOn(T, Smaller(N, cap))
          IN  /\ fee <= (T - purchase) + 2 + T \div FeeDenominator
              /\ T - purchase <= fee + 7 + (2 * T) \div FeeDenominator
      BY <2>2, <3>2, FeeOfTotal DEF N
    <3> QED BY <3>1, <3>3 DEF T
  <2> HIDE DEF f, Total
  <2> QED BY <2>1, <2>4, <2>5
<1> QED BY <1>1, LimiterInvHolds, PTL

-----------------------------------------------------------------------------
\* Partial fills.

\* Where a limiter's inverse recomputes the fee of the part that was used, it
\* finds nearly the fee of an exact-in purchase, and exceeds the offer by no
\* more than the rounding weighs at the highest fee.
LEMMA LimitedPartial ==
  ASSUME NEW price \in SqrtMinPrice..SqrtMaxPrice, NEW L \in Nat \ {0},
         NEW amount \in Nat, NEW dir \in Directions, FeesOnInput(dir),
         NEW f \in TradeFeeRecord, f.limited, f.variable = 0,
         f.max <= MaxFeeNumerator, MaxFeeNumerator <= FeeDenominator - 2,
         NEW r \in PartialIn(price, L, amount, dir, f), r.left > 0
  PROVE  LET exactIn == FeeOn(r.in, NumeratorFor(r.in, f))
         IN  /\ exactIn <= r.fee + 2 + r.in \div FeeDenominator
             /\ r.fee <= exactIn + 7 + (2 * r.in) \div FeeDenominator
             /\ (r.in - amount) * (FeeDenominator - f.max)
                  <= 2 * r.in + 6 * FeeDenominator
<1> DEFINE D     == FeeDenominator
           n     == NumeratorFor(amount, f)
           fee   == FeeOn(amount, n)
           net   == amount - fee
           edge  == IF dir = "AtoB" THEN SqrtMinPrice ELSE SqrtMaxPrice
           maxIn == MoveIn(price, edge, L, dir)
           used  == IF net >= maxIn THEN maxIn ELSE net
           cap   == MaxFeeNumerator
           T     == r.in
           M     == f.max
<1>1. /\ Bounded(f) /\ cap \in Nat /\ M <= cap /\ cap <= D - 2 /\ M \in Nat
      /\ D \in Nat \ {0} /\ D - M \in Nat
  BY FeeAssumption, MaxFeeAssumption DEF Bounded, Limiting, TradeFeeRecord
<1>2. \A m \in Nat : NumeratorFor(m, f) = Smaller(LimiterNumerator(f, m), cap)
  <2> SUFFICES ASSUME NEW m \in Nat
               PROVE  NumeratorFor(m, f) = Smaller(LimiterNumerator(f, m), cap)
    OBVIOUS
  <2>1. LimiterNumerator(f, m) + f.variable = LimiterNumerator(f, m)
    BY LimiterNumeratorNat
  <2> QED BY <2>1 DEF NumeratorFor, TotalNumerator, BaseFromIncluded
<1>3. n \in Nat /\ n \in Numerators /\ (M <= n \/ LimiterNumerator(f, amount) <= n)
  <2>1. n \in Numerators
    BY NumeratorForBounds DEF Numerators
  <2>2. n = Smaller(LimiterNumerator(f, amount), cap)
    BY <1>2
  <2>3. LimiterNumerator(f, amount) \in Nat
    BY LimiterNumeratorNat
  <2> HIDE DEF n, cap, M
  <2> QED BY <1>1, <2>1, <2>2, <2>3 DEF Numerators, Smaller
<1>4. /\ T \in IF used = net THEN {amount} ELSE AmountsIncluding(used, f)
      /\ r.left = net - used /\ r.fee = T - used
  BY DEF PartialIn
<1>5. fee \in 0..amount
  BY <1>3, FeeOnBounds DEF Numerators
<1>6. maxIn \in Nat
  <2>1. Towards(dir, price, edge) /\ edge \in SqrtMinPrice..SqrtMaxPrice
    BY PriceAssumption DEF Towards
  <2> HIDE DEF edge
  <2> QED BY <2>1, MoveNat
<1> HIDE DEF maxIn, fee
<1>7. used \in Nat /\ used <= net
  BY <1>5, <1>6
<1> HIDE DEF used
<1>8. used + 1 <= net /\ used # net
  BY <1>4, <1>5, <1>7
<1>9. T \in Nat /\ LeavesNearly(f, T, used)
  <2>1. PICK base \in LimiterFromExcluded(f, used) :
          T = IncludedFeeAmount(used, TotalNumerator(base, f))
    BY <1>4, <1>8 DEF AmountsIncluding, BaseFromExcluded
  <2>2. base + f.variable = base
    BY <1>7, <2>1, LimiterFromExcludedNat
  <2>3. T = IncludedFeeAmount(used, Smaller(base, cap))
    BY <2>1, <2>2 DEF TotalNumerator
  <2> HIDE DEF T, cap
  <2>4. LET t == IncludedFeeAmount(used, Smaller(base, cap))
        IN  t \in Nat /\ LeavesNearly(f, t, used)
    BY <1>1, <1>7, <2>1, InverseTotals DEF D
  <2> QED BY <2>3, <2>4
<1>10. LET exactIn == FeeOn(T, NumeratorFor(T, f))
       IN  /\ exactIn <= (T - used) + 2 + T \div D
           /\ T - used <= exactIn + 7 + (2 * T) \div D
  <2> HIDE DEF T, cap
  <2>1. LET g == FeeOn(T, Smaller(LimiterNumerator(f, T), cap))
        IN  /\ g <= (T - used) + 2 + T \div FeeDenominator
            /\ T - used <= g + 7 + (2 * T) \div FeeDenominator
    BY <1>1, <1>7, <1>9, FeeOfTotal DEF D
  <2> QED BY <1>2, <1>9, <2>1 DEF cap
<1>11. (T - amount) * (D - M) <= 2 * T + 6 * D
  <2> HIDE DEF T
  <2>1. CASE T <= amount
    <3>1. (amount - T) * (D - M) \in Nat
      <4>1. amount - T \in Nat
        BY <1>9, <2>1
      <4> HIDE DEF D, M
      <4> QED BY <1>1, <4>1, MulNat
    <3>2. (amount - T) * (D - M) = -((T - amount) * (D - M))
          /\ (T - amount) * (D - M) \in Int
      BY <1>1, <1>9
    <3> HIDE DEF D, M
    <3> QED BY <1>1, <1>9, <3>1, <3>2
  <2>2. CASE T > amount
    <3>1. /\ (D - M) * (T - amount) <= Leaves(f, T) - Leaves(f, amount)
          /\ Leaves(f, T) \in Int /\ Leaves(f, amount) \in Int
      BY <1>1, <1>9, <2>2, LeavesMore
    <3>2. Leaves(f, T) <= used * D + 2 * T + 7 * D - 1
      BY <1>9 DEF LeavesNearly
    <3>3. amount * D - n * amount <= Leaves(f, amount)
      <4> HIDE DEF n
      <4> QED BY <1>1, <1>3, CapCovers
    <3> HIDE DEF D, M, n
    <3>4. amount * n <= fee * D /\ fee \in Int
      <4>1. amount * n \in Int
        BY <1>3
      <4> QED BY <1>1, <4>1, CeilDivEnough DEF fee, FeeOn, D, n
    <3>5. /\ amount * n = n * amount /\ n * amount \in Int
          /\ amount * D \in Int /\ fee * D \in Int /\ used * D \in Int
          /\ net * D = amount * D - fee * D
          /\ (used + 1) * D = used * D + D
      BY <1>1, <1>3, <1>7, <3>4
    <3>6. net * D >= (used + 1) * D
      <4>1. net \in Int /\ used + 1 \in Int
        BY <1>5, <1>7
      <4> HIDE DEF net
      <4> QED BY <1>1, <1>8, <4>1, MulMonotone
    <3>7. (D - M) * (T - amount) = (T - amount) * (D - M)
          /\ (T - amount) * (D - M) \in Int
      BY <1>1, <1>9
    <3> QED BY <1>1, <1>9, <3>1, <3>2, <3>3, <3>4, <3>5, <3>6, <3>7
  <2> QED BY <1>9, <2>1, <2>2
<1> QED BY <1>4, <1>10, <1>11 DEF T, D, M

\* What QuoteAssumption says of the fees of a trade.
LEMMA TradeFeeInputs ==
  ASSUME trade \in Trades
  PROVE  /\ trade.f.limited => trade.f.max <= MaxFeeNumerator
         /\ MaxFeeNumerator <= FeeDenominator - 2
BY QuoteAssumption DEF Trades

\* A partial fill stays in the range, is the exact-in swap where that one is
\* possible, and charges no more than was offered, but for the error of the
\* rate limiter's inverse where that one recomputes the fee.
THEOREM PartialFillFairHolds == Spec => []PartialFillFair
<1>1. trade \in Trades => PartialFillFair
  <2> SUFFICES ASSUME trade \in Trades, NEW r \in Partial(trade)
               PROVE  /\ r.out >= 0
                      /\ r.fee >= 0
                      /\ r.next \in SqrtMinPrice..SqrtMaxPrice
                      /\ In(trade) # {} /\ r.left = 0 => In(trade) = {r}
                      /\ ~Recomputed(trade, r) => r.in <= trade.amount
                      /\ Recomputed(trade, r) /\ trade.f.variable = 0 =>
                           LET exactIn == FeeOn(r.in, NumeratorFor(r.in, trade.f))
                           IN  /\ exactIn <= r.fee + 2 + r.in \div FeeDenominator
                               /\ r.fee <= exactIn + 7 + (2 * r.in) \div FeeDenominator
                               /\ (r.in - trade.amount) * (FeeDenominator - trade.f.max)
                                    <= 2 * r.in + 6 * FeeDenominator
    BY DEF PartialFillFair
  <2> DEFINE f == FeeFor(trade.dir, trade.f)
  <2>1. r \in PartialIn(trade.price, trade.L, trade.amount, trade.dir, f)
    BY DEF Partial
  <2>2. In(trade) = ExactIn(trade.price, trade.L, trade.amount, trade.dir, f)
    BY DEF In
  <2>3. f \in TradeFeeRecord
    BY TradeInputs
  <2>4. Recomputed(trade, r) => f = trade.f
    BY DEF Recomputed, FeesOnInput, FeeFor
  <2>5. Recomputed(trade, r) <=> FeesOnInput(trade.dir) /\ f.limited /\ r.left > 0
    BY DEF Recomputed
  <2> HIDE DEF f
  <2>6. SoundResult(r)
    BY <2>1, <2>3, TradeInputs, PartialInSound
  <2>7. ~Recomputed(trade, r) => r.in <= trade.amount
    BY <2>1, <2>3, <2>5, TradeInputs, PartialWithin
  <2>8. In(trade) # {} /\ r.left = 0 => In(trade) = {r}
    BY <2>1, <2>2, <2>3, TradeInputs, PartialIsExact
  <2>9. ASSUME Recomputed(trade, r), trade.f.variable = 0
        PROVE  LET exactIn == FeeOn(r.in, NumeratorFor(r.in, trade.f))
               IN  /\ exactIn <= r.fee + 2 + r.in \div FeeDenominator
                   /\ r.fee <= exactIn + 7 + (2 * r.in) \div FeeDenominator
                   /\ (r.in - trade.amount) * (FeeDenominator - trade.f.max)
                        <= 2 * r.in + 6 * FeeDenominator
    <3>1. r \in PartialIn(trade.price, trade.L, trade.amount, trade.dir, trade.f)
          /\ FeesOnInput(trade.dir) /\ trade.f.limited /\ r.left > 0
      BY <2>1, <2>4, <2>5, <2>9
    <3> QED BY <2>9, <3>1, TradeInputs, TradeFeeInputs, LimitedPartial
  <2> QED BY <2>6, <2>7, <2>8, <2>9, TradeInputs DEF SoundResult
<1> QED BY <1>1, InputsTried, PTL
=============================================================================
