------------------------------- MODULE MCCpAmm -------------------------------
(***************************************************************************)
(* Small instances of the pool for TLC.  The numbers keep the shape of the *)
(* program's: Scale is a square, prices lie within a factor of two of the  *)
(* starting one, and amounts are small enough that rounding matters in     *)
(* every step.                                                             *)
(***************************************************************************)
EXTENDS PoolAccounting, PoolLedger, TLC

CONSTANT Supply        \* of every token

PositionSymmetry == Permutations(Positions)
Symmetry       == Permutations(Positions) \cup Permutations(VestingIds)

NoFeeOnTransfer == [t \in Tokens |-> 0]
FeeOnTransfer   == [t \in Tokens |-> IF t = "A" THEN 2 ELSE 1]
SupplyOfEach   == [t \in Tokens |-> Supply]
RewardSupplyOfEach == [r \in Rewards |-> Supply]

\* The same numerator for every amount, direction and time.
Flat(n)      == FlatFee(n, 0)
FourTenths   == {Flat(4)}
FiveTenths   == {Flat(5)}

\* Purchases pay 1/10 on the first two units, 3/10 on the next two and 5/10
\* on all others.
Limited == [limited |-> TRUE, cliff |-> 1, increment |-> 2, max |-> 5,
            reference |-> 2, variable |-> 0]
FlatOrLimited == {Flat(1), Flat(4), Limited}

NoCaps    == {}
Whole      == {[t \in Tokens |-> Supply]}
WholeOrOne == {[t \in Tokens |-> Supply], [t \in Tokens |-> 1]}

Share(unlocked, permanent, fee, rew) ==
  [unlocked |-> unlocked, permanent |-> permanent,
   fee |-> [t \in Tokens |-> fee], reward |-> [r \in Rewards |-> rew]]

\* Numerators of a split, out of a denominator of 2.
LockedShares  == {Share(1, 1, 0, 0), Share(2, 0, 0, 0), Share(0, 1, 0, 0)}
OneFeeShare   == {Share(2, 0, 1, 0), Share(0, 0, 1, 0)}
OneRewardShare == {Share(2, 0, 0, 1)}

\* A cliff with periods, and periods from now on.
CliffThenPeriods == [cliff |-> 1, frequency |-> 1, cliffUnlock |-> 2,
                     perPeriod |-> 1, periods |-> 2]
PeriodsOnly == [cliff |-> 0, frequency |-> 2, cliffUnlock |-> 0,
                perPeriod |-> 3, periods |-> 2]
TwoSchedules == {CliffThenPeriods, PeriodsOnly}
=============================================================================
