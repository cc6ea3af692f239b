---------------------------- MODULE LimiterQuotes ----------------------------
(***************************************************************************)
(* The rate limiter on its own, over every validated limiter and amount    *)
(* within bounds: what its closed forms owe to the fee they stand for, and *)
(* its two directions to each other.                                       *)
(***************************************************************************)
EXTENDS BaseFees, FiniteSetsExt

CONSTANTS                                     \* the inputs tried
  LimiterCliffs, Increments, Maxima, References, Purchases

ASSUME LimiterInputs ==
  /\ LimiterCliffs \subseteq Nat /\ Increments \subseteq Nat
  /\ Maxima \subseteq Nat /\ References \subseteq Nat
  /\ Purchases \subseteq Nat

\* The pool's cap is the one its limiter was validated under, or higher, and
\* well below the whole: 99 % of 10^9 in the code.
ASSUME CapAssumption ==
  MaxNewFee <= MaxFeeNumerator /\ MaxFeeNumerator <= FeeDenominator - 2

VARIABLES limiter,     \* a base fee of mode "RateLimiter"
          purchase     \* what a purchase sends, or what of it is to be left

limiterVars == <<limiter, purchase>>

ValidLimiters ==
  {b \in [mode : {"RateLimiter"}, cliff : LimiterCliffs, reduction : {0},
          periods : {0}, frequency : {0}, step : {0},
          duration : {MaxLimiterDuration}, increment : Increments,
          max : Maxima, reference : References] : ValidBaseFee(b, TRUE)}

\* One behaviour for each input; a step tries the next purchase.
LimiterInit == limiter \in ValidLimiters /\ purchase \in Purchases

NextPurchase == purchase' \in Purchases /\ UNCHANGED limiter

LimiterSpec == LimiterInit /\ [][NextPurchase]_limiterVars

-----------------------------------------------------------------------------
\* What a limiter means: the k-th unit of a purchase pays the numerator of
\* its band, and beyond the last band the maximum.
UnitFee(l, k) ==
  LET band == (k - 1) \div l.reference
  IN  IF band <= MaxIndex(l) THEN l.cliff + l.increment * band ELSE l.max

ExactFee(l, n) == SumFunctionOnSet([k \in 1..n |-> UnitFee(l, k)], 1..n)

\* The fee a purchase pays never falls short of the sum over its units, and
\* rounding (of the fee, of the numerator it is turned back into, and of the
\* fee that numerator gives) adds less than one unit and one per
\* FeeDenominator units bought.
FeeFollowsBands ==
  LET fee   == FeeOn(purchase, LimiterNumerator(limiter, purchase))
      exact == CeilDiv(ExactFee(limiter, purchase), FeeDenominator)
  IN  exact <= fee /\ fee <= exact + CeilDiv(purchase - 1, FeeDenominator)

\* The two directions agree: whatever is to be left (and can be, where the
\* bands reach beyond the largest amount), the inverse finds a numerator, and
\* an exact-in purchase of the total it leads to pays nearly the same fee.
\* Rounding (of the fee up to where the quadratic leads, of two numerators,
\* and of a total that few units leave anything of) undercharges by at most
\* two units and one per FeeDenominator units of the total, and overcharges
\* by at most seven and two per FeeDenominator.
InverseAgrees ==
  (Overflows(limiter) => purchase <= LimiterExcluded(limiter, MaxAmount)) =>
    \E f \in TradeFeesOf(limiter, 0, 1, 1, "BtoA", 0) :
      \E total \in AmountsIncluding(purchase, f) :
        LET charged == total - purchase
            exactIn == FeeOn(total, NumeratorFor(total, f))
        IN  /\ exactIn <= charged + 2 + total \div FeeDenominator
            /\ charged <= exactIn + 7 + (2 * total) \div FeeDenominator
=============================================================================
