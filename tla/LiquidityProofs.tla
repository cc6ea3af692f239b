---------------------------- MODULE LiquidityProofs ----------------------------
(***************************************************************************)
(* Liquidity and its locks, for every number of positions and vesting      *)
(* accounts, every schedule and every amount.                              *)
(*                                                                         *)
(* First, the pool implements the liquidity ledger: each instruction is    *)
(* one step of it or none.  Besides the inductive invariant of CpAmmProofs *)
(* the steps need that an account that does not exist holds nothing, since *)
(* creating one starts its balances at zero.  The pool's liquidity is then *)
(* the sum over its positions because every step of the ledger keeps it.   *)
(*                                                                         *)
(* Second, vesting accounts follow their schedules: nothing is released    *)
(* ahead of its time, or twice, and no account goes away early.  Two       *)
(* things make this inductive: what a schedule has unlocked only grows     *)
(* with time, and VestingParameters::validate leaves no schedule with      *)
(* periods that release nothing.                                           *)
(*                                                                         *)
(* Third, what is locked is backed: a position's vested balance by its     *)
(* vesting accounts, the pool's counter of permanent locks by positions.   *)
(***************************************************************************)
EXTENDS PoolLedger, PoolAccounting, CpAmmProofs

Holds(pos, free, vested, locked) ==
  pos.unlocked = free /\ pos.vested = vested /\ pos.permanent = locked

ClosedEmpty ==
  \A p \in Positions : ~position[p].open => Holds(position[p], 0, 0, 0)

LedgerStep == [Ledger!LedgerNext]_(Ledger!ledgerVars)

\* What is shown of every step.
Implements == LedgerStep /\ ClosedEmpty'

-----------------------------------------------------------------------------
\* One position is replaced: the ledger's functions change at one holder.
LEMMA HolderReplaced ==
  ASSUME IInv, ClosedEmpty, NEW p \in Positions, NEW pos,
         position' = [position EXCEPT ![p] = pos],
         pos.open \/ Holds(pos, 0, 0, 0)
  PROVE  /\ Free'   = [Free EXCEPT ![p] = pos.unlocked]
         /\ Vested' = [Vested EXCEPT ![p] = pos.vested]
         /\ Locked' = [Locked EXCEPT ![p] = pos.permanent]
         /\ ClosedEmpty'
<1>1. position \in [Positions -> PositionRecord]
  BY DEF IInv, TypeOK
<1>2. \A q \in Positions : position'[q] = IF q = p THEN pos ELSE position[q]
  BY <1>1
<1>3. Free' = [Free EXCEPT ![p] = pos.unlocked]
  <2>1. \A q \in Positions :
          position'[q].unlocked = IF q = p THEN pos.unlocked ELSE Free[q]
    BY <1>2 DEF Free
  <2>2. Free' = [q \in Positions |-> position'[q].unlocked]
    BY DEF Free
  <2>3. Free \in [Positions -> {position[q].unlocked : q \in Positions}]
    BY DEF Free
  <2> QED BY <2>1, <2>2, <2>3
<1>4. Vested' = [Vested EXCEPT ![p] = pos.vested]
  <2>1. \A q \in Positions :
          position'[q].vested = IF q = p THEN pos.vested ELSE Vested[q]
    BY <1>2 DEF Vested
  <2>2. Vested' = [q \in Positions |-> position'[q].vested]
    BY DEF Vested
  <2>3. Vested \in [Positions -> {position[q].vested : q \in Positions}]
    BY DEF Vested
  <2> QED BY <2>1, <2>2, <2>3
<1>5. Locked' = [Locked EXCEPT ![p] = pos.permanent]
  <2>1. \A q \in Positions :
          position'[q].permanent = IF q = p THEN pos.permanent ELSE Locked[q]
    BY <1>2 DEF Locked
  <2>2. Locked' = [q \in Positions |-> position'[q].permanent]
    BY DEF Locked
  <2>3. Locked \in [Positions -> {position[q].permanent : q \in Positions}]
    BY DEF Locked
  <2> QED BY <2>1, <2>2, <2>3
<1>6. ClosedEmpty'
  BY <1>2 DEF ClosedEmpty
<1> QED BY <1>3, <1>4, <1>5, <1>6

\* The ledger's functions are natural everywhere.
LEMMA LedgerTypes ==
  ASSUME IInv
  PROVE  /\ Free \in [Positions -> Nat]
         /\ Vested \in [Positions -> Nat]
         /\ Locked \in [Positions -> Nat]
BY DEF IInv, TypeOK, PositionRecord, Free, Vested, Locked

\* What a position holds, and that it is natural.
LEMMA HolderNat ==
  ASSUME IInv, NEW p \in Positions
  PROVE  /\ Free[p] = position[p].unlocked /\ Free[p] \in Nat
         /\ Vested[p] = position[p].vested /\ Vested[p] \in Nat
         /\ Locked[p] = position[p].permanent /\ Locked[p] \in Nat
BY DEF IInv, TypeOK, PositionRecord, Free, Vested, Locked

\* A replacement that keeps the three balances is no step of the ledger.
LEMMA BalancesKept ==
  ASSUME IInv, ClosedEmpty, NEW p \in Positions, NEW pos,
         position' = [position EXCEPT ![p] = pos],
         pos.open \/ Holds(pos, 0, 0, 0),
         Holds(pos, position[p].unlocked, position[p].vested,
               position[p].permanent),
         pool'.liquidity = pool.liquidity
  PROVE  Implements
<1>1. /\ Free'   = [Free EXCEPT ![p] = Free[p]]
      /\ Vested' = [Vested EXCEPT ![p] = Vested[p]]
      /\ Locked' = [Locked EXCEPT ![p] = Locked[p]]
      /\ ClosedEmpty'
  <2>1. /\ Free'   = [Free EXCEPT ![p] = pos.unlocked]
        /\ Vested' = [Vested EXCEPT ![p] = pos.vested]
        /\ Locked' = [Locked EXCEPT ![p] = pos.permanent]
        /\ ClosedEmpty'
    BY HolderReplaced
  <2>2. /\ pos.unlocked = Free[p]
        /\ pos.vested = Vested[p]
        /\ pos.permanent = Locked[p]
    BY HolderNat DEF Holds
  <2> QED BY <2>1, <2>2
<1>2. Free' = Free /\ Vested' = Vested /\ Locked' = Locked
  BY <1>1, LedgerTypes
<1> QED BY <1>1, <1>2 DEF Implements, LedgerStep, Ledger!ledgerVars

\* Steps that leave positions and the pool's liquidity alone.
LEMMA PositionsUntouched ==
  ASSUME ClosedEmpty, position' = position, pool'.liquidity = pool.liquidity
  PROVE  Implements
<1>1. Free' = Free /\ Vested' = Vested /\ Locked' = Locked
  BY DEF Free, Vested, Locked
<1>2. ClosedEmpty'
  BY DEF ClosedEmpty
<1> QED BY <1>1, <1>2 DEF Implements, LedgerStep, Ledger!ledgerVars

-----------------------------------------------------------------------------
\* handle_create_position, handle_close_position: what did not exist held
\* nothing, and what is closed is empty.
LEMMA CreatePositionImplements ==
  ASSUME IInv, ClosedEmpty, NEW p \in Positions, CreatePosition(p)
  PROVE  Implements
<1>1. /\ position' = [position EXCEPT ![p] = NewPosition(0)]
      /\ ~position[p].open
      /\ pool' = pool
  BY DEF CreatePosition
<1>2. NewPosition(0).open /\ Holds(NewPosition(0), 0, 0, 0)
  BY DEF NewPosition, NoPosition, Holds
<1>3. Holds(position[p], 0, 0, 0)
  BY <1>1 DEF ClosedEmpty
<1>4. Holds(NewPosition(0), position[p].unlocked, position[p].vested,
            position[p].permanent)
  BY <1>2, <1>3 DEF Holds
<1> QED BY <1>1, <1>2, <1>4, BalancesKept

\* Closing an empty position is no step of the ledger.
LEMMA ClosePositionImplements ==
  ASSUME IInv, ClosedEmpty, NEW p \in Positions, ClosePosition(p)
  PROVE  Implements
<1>1. /\ position' = [position EXCEPT ![p] = NoPosition]
      /\ TotalLiquidity(position[p]) = 0
      /\ pool' = pool
  BY DEF ClosePosition, IsEmpty
<1>2. Holds(NoPosition, 0, 0, 0)
  BY DEF NoPosition, Holds
<1>3. Holds(position[p], 0, 0, 0)
  <2>1. /\ position[p].unlocked \in Nat
        /\ position[p].vested \in Nat
        /\ position[p].permanent \in Nat
    BY HolderNat
  <2> QED BY <1>1, <2>1 DEF TotalLiquidity, Holds
<1>4. Holds(NoPosition, position[p].unlocked, position[p].vested,
            position[p].permanent)
  BY <1>2, <1>3 DEF Holds
<1> QED BY <1>1, <1>2, <1>4, BalancesKept

\* handle_add_liquidity: a position gets what the pool's liquidity grows by.
LEMMA AddLiquidityImplements ==
  ASSUME IInv, ClosedEmpty, NEW p \in Positions, NEW delta \in Nat,
         AddLiquidity(p, delta)
  PROVE  Implements
<1> DEFINE pos == [Settled(p) EXCEPT !.unlocked = @ + delta]
<1>1. /\ Settled(p) \in PositionRecord
      /\ Holds(Settled(p), Free[p], Vested[p], Locked[p])
      /\ Settled(p).open = position[p].open
  BY SettledSound, HolderNat DEF Holds
<1>2. /\ pos.open = position[p].open
      /\ Holds(pos, Free[p] + delta, Vested[p], Locked[p])
  BY <1>1 DEF PositionRecord, Holds
<1>3. /\ delta > 0 /\ position[p].open
      /\ position' = [position EXCEPT ![p] = pos]
      /\ pool' = [pool EXCEPT !.liquidity = @ + delta]
  BY DEF AddLiquidity
<1> HIDE DEF pos
<1>4. /\ Free'   = [Free EXCEPT ![p] = Free[p] + delta]
      /\ Vested' = [Vested EXCEPT ![p] = Vested[p]]
      /\ Locked' = [Locked EXCEPT ![p] = Locked[p]]
      /\ ClosedEmpty'
  <2>1. /\ Free'   = [Free EXCEPT ![p] = pos.unlocked]
        /\ Vested' = [Vested EXCEPT ![p] = pos.vested]
        /\ Locked' = [Locked EXCEPT ![p] = pos.permanent]
        /\ ClosedEmpty'
    BY <1>2, <1>3, HolderReplaced
  <2> QED BY <1>2, <2>1 DEF Holds
<1>5. Vested' = Vested /\ Locked' = Locked
  BY <1>4, LedgerTypes
<1>6. /\ pool'.liquidity \in Nat
      /\ pool'.liquidity > pool.liquidity
      /\ pool'.liquidity - pool.liquidity = delta
  BY <1>3 DEF IInv, TypeOK, PoolRecord
<1>7. Free' = Ledger!Add(Free, p, pool'.liquidity - pool.liquidity)
  BY <1>4, <1>6 DEF Ledger!Add
<1>8. Ledger!Mint(p)
  BY <1>5, <1>6, <1>7 DEF Ledger!Mint
<1> QED BY <1>4, <1>8 DEF Implements, LedgerStep, Ledger!LedgerNext

\* handle_remove_liquidity: only what is free leaves, and the pool shrinks by
\* as much.
LEMMA RemoveLiquidityImplements ==
  ASSUME IInv, ClosedEmpty, NEW p \in Positions, NEW delta \in Nat,
         RemoveLiquidity(p, delta)
  PROVE  Implements
<1> DEFINE pos == [Settled(p) EXCEPT !.unlocked = @ - delta]
<1>1. /\ Settled(p) \in PositionRecord
      /\ Holds(Settled(p), Free[p], Vested[p], Locked[p])
      /\ Settled(p).open = position[p].open
  BY SettledSound, HolderNat DEF Holds
<1>2. /\ pos.open = position[p].open
      /\ Holds(pos, Free[p] - delta, Vested[p], Locked[p])
  BY <1>1 DEF PositionRecord, Holds
<1>3. /\ position[p].open
      /\ delta <= Free[p] /\ Free[p] \in Nat
      /\ position' = [position EXCEPT ![p] = pos]
      /\ pool' = [pool EXCEPT !.liquidity = @ - delta]
  BY HolderNat DEF RemoveLiquidity
<1> HIDE DEF pos
<1>4. /\ Free'   = [Free EXCEPT ![p] = Free[p] - delta]
      /\ Vested' = [Vested EXCEPT ![p] = Vested[p]]
      /\ Locked' = [Locked EXCEPT ![p] = Locked[p]]
      /\ ClosedEmpty'
  <2>1. /\ Free'   = [Free EXCEPT ![p] = pos.unlocked]
        /\ Vested' = [Vested EXCEPT ![p] = pos.vested]
        /\ Locked' = [Locked EXCEPT ![p] = pos.permanent]
        /\ ClosedEmpty'
    BY <1>2, <1>3, HolderReplaced
  <2> QED BY <1>2, <2>1 DEF Holds
<1>5. Vested' = Vested /\ Locked' = Locked
  BY <1>4, LedgerTypes
<1>6. pool'.liquidity = pool.liquidity - delta
  BY <1>3 DEF IInv, TypeOK, PoolRecord
<1>7. Free[p] - delta = Free[p] + (-delta)
  BY <1>3
<1>8. Free' = Ledger!Add(Free, p, -delta)
  BY <1>4, <1>7 DEF Ledger!Add
<1>9. Ledger!Burn(p, delta) /\ delta \in 0..Free[p]
  BY <1>3, <1>5, <1>6, <1>8 DEF Ledger!Burn
<1> QED BY <1>4, <1>9 DEF Implements, LedgerStep, Ledger!LedgerNext

\* Two positions are replaced, as in a split.
LEMMA HoldersReplaced ==
  ASSUME IInv, ClosedEmpty, NEW p \in Positions, NEW q \in Positions, p # q,
         NEW pos, NEW qos,
         position' = [position EXCEPT ![p] = pos, ![q] = qos],
         pos.open \/ Holds(pos, 0, 0, 0), qos.open \/ Holds(qos, 0, 0, 0)
  PROVE  /\ Free' = [Free EXCEPT ![p] = pos.unlocked, ![q] = qos.unlocked]
         /\ Vested' = [Vested EXCEPT ![p] = pos.vested, ![q] = qos.vested]
         /\ Locked' = [Locked EXCEPT ![p] = pos.permanent,
                                     ![q] = qos.permanent]
         /\ ClosedEmpty'
<1>1. position \in [Positions -> PositionRecord]
  BY DEF IInv, TypeOK
<1>2. /\ position'[p] = pos /\ position'[q] = qos
      /\ \A o \in Positions \ {p, q} : position'[o] = position[o]
  BY <1>1
<1>3. Free' = [Free EXCEPT ![p] = pos.unlocked, ![q] = qos.unlocked]
  <2>1. position'[p].unlocked = pos.unlocked /\ position'[q].unlocked = qos.unlocked
    BY <1>2, Zenon
  <2>2. \A o \in Positions \ {p, q} : position'[o].unlocked = Free[o]
    <3> TAKE o \in Positions \ {p, q}
    <3>1. position'[o] = position[o]
      BY <1>2
    <3>2. Free[o] = position[o].unlocked
      BY DEF Free
    <3> QED BY <3>1, <3>2
  <2>3. Free' = [o \in Positions |-> position'[o].unlocked]
    BY DEF Free
  <2> QED BY <2>1, <2>2, <2>3, LedgerTypes
<1>4. Vested' = [Vested EXCEPT ![p] = pos.vested, ![q] = qos.vested]
  <2>1. position'[p].vested = pos.vested /\ position'[q].vested = qos.vested
    BY <1>2, Zenon
  <2>2. \A o \in Positions \ {p, q} : position'[o].vested = Vested[o]
    <3> TAKE o \in Positions \ {p, q}
    <3>1. position'[o] = position[o]
      BY <1>2
    <3>2. Vested[o] = position[o].vested
      BY DEF Vested
    <3> QED BY <3>1, <3>2
  <2>3. Vested' = [o \in Positions |-> position'[o].vested]
    BY DEF Vested
  <2> QED BY <2>1, <2>2, <2>3, LedgerTypes
<1>5. Locked' = [Locked EXCEPT ![p] = pos.permanent, ![q] = qos.permanent]
  <2>1. position'[p].permanent = pos.permanent /\ position'[q].permanent = qos.permanent
    BY <1>2, Zenon
  <2>2. \A o \in Positions \ {p, q} : position'[o].permanent = Locked[o]
    <3> TAKE o \in Positions \ {p, q}
    <3>1. position'[o] = position[o]
      BY <1>2
    <3>2. Locked[o] = position[o].permanent
      BY DEF Locked
    <3> QED BY <3>1, <3>2
  <2>3. Locked' = [o \in Positions |-> position'[o].permanent]
    BY DEF Locked
  <2> QED BY <2>1, <2>2, <2>3, LedgerTypes
<1>6. ClosedEmpty'
  BY <1>2 DEF ClosedEmpty
<1> QED BY <1>3, <1>4, <1>5, <1>6

\* handle_split_position2: what leaves one position arrives in the other, and
\* is no more than there was.
LEMMA SplitPositionImplements ==
  ASSUME IInv, ClosedEmpty, NEW p \in Positions, NEW q \in Positions,
         NEW share \in SplitShares, SplitPosition(p, q, share)
  PROVE  Implements
<1> DEFINE moved == Moved(Settled(p), share)
           n == moved.unlocked
           m == moved.permanent
           pos == [Settled(p) EXCEPT
                     !.unlocked = @ - n, !.permanent = @ - m,
                     !.feePending = [t \in Tokens |-> @[t] - moved.fee[t]],
                     !.rewardPending =
                       [r \in Rewards |-> @[r] - moved.reward[r]]]
           qos == [Settled(q) EXCEPT
                     !.unlocked = @ + n, !.permanent = @ + m,
                     !.feePending = [t \in Tokens |-> @[t] + moved.fee[t]],
                     !.rewardPending =
                       [r \in Rewards |-> @[r] + moved.reward[r]]]
<1>1. /\ Settled(p) \in PositionRecord /\ Settled(q) \in PositionRecord
      /\ Holds(Settled(p), Free[p], Vested[p], Locked[p])
      /\ Holds(Settled(q), Free[q], Vested[q], Locked[q])
      /\ Settled(p).open = position[p].open
      /\ Settled(q).open = position[q].open
  BY SettledSound, HolderNat DEF Holds
<1>2. n \in 0..Free[p] /\ m \in 0..Locked[p]
  <2>1. share.unlocked \in 0..SplitDenominator
        /\ share.permanent \in 0..SplitDenominator
    BY DEF SplitPosition, ValidShare, Numerators
  <2>2. n = Part(Free[p], share.unlocked) /\ m = Part(Locked[p], share.permanent)
    BY <1>1 DEF Moved, Holds
  <2> QED BY <2>1, <2>2, PartBounds, HolderNat
<1>3. /\ pos.open = position[p].open /\ qos.open = position[q].open
      /\ Holds(pos, Free[p] - n, Vested[p], Locked[p] - m)
      /\ Holds(qos, Free[q] + n, Vested[q], Locked[q] + m)
  <2> HIDE DEF moved
  <2> QED BY <1>1 DEF PositionRecord, Holds
<1>4. /\ p # q /\ position[p].open /\ position[q].open
      /\ position' = [position EXCEPT ![p] = pos, ![q] = qos]
      /\ pool' = pool
  BY DEF SplitPosition
<1> HIDE DEF moved, pos, qos
<1>5. /\ Free'   = [Free EXCEPT ![p] = Free[p] - n, ![q] = Free[q] + n]
      /\ Vested' = [Vested EXCEPT ![p] = Vested[p], ![q] = Vested[q]]
      /\ Locked' = [Locked EXCEPT ![p] = Locked[p] - m, ![q] = Locked[q] + m]
      /\ ClosedEmpty'
  <2>1. /\ Free' = [Free EXCEPT ![p] = pos.unlocked, ![q] = qos.unlocked]
        /\ Vested' = [Vested EXCEPT ![p] = pos.vested, ![q] = qos.vested]
        /\ Locked' = [Locked EXCEPT ![p] = pos.permanent,
                                    ![q] = qos.permanent]
        /\ ClosedEmpty'
    BY <1>3, <1>4, HoldersReplaced
  <2> QED BY <1>3, <2>1 DEF Holds
<1> HIDE DEF n, m
<1>6. Vested' = Vested
  BY <1>5, LedgerTypes
<1>7. /\ Free' = Ledger!Add(Ledger!Add(Free, p, -n), q, n)
      /\ Locked' = Ledger!Add(Ledger!Add(Locked, p, -m), q, m)
  <2>1. Free[p] - n = Free[p] + (-n) /\ Locked[p] - m = Locked[p] + (-m)
    BY <1>2, HolderNat
  <2> QED BY <1>4, <1>5, <2>1, LedgerTypes DEF Ledger!Add
<1>8. Ledger!Move(p, q, n, m)
  BY <1>4, <1>6, <1>7 DEF Ledger!Move
<1> QED BY <1>2, <1>5, <1>8 DEF Implements, LedgerStep, Ledger!LedgerNext

\* handle_lock_position: free liquidity is vested, all that the schedule will
\* ever release.
LEMMA LockPositionImplements ==
  ASSUME IInv, ClosedEmpty, NEW p \in Positions, NEW id \in VestingIds,
         NEW schedule \in Schedules, LockPosition(p, id, schedule)
  PROVE  Implements
<1> DEFINE n == schedule.cliffUnlock + schedule.perPeriod * schedule.periods
           pos == [position[p] EXCEPT !.unlocked = @ - n, !.vested = @ + n]
<1>1. /\ p \in Positions /\ position[p].open
      /\ n \in 0..Free[p] /\ n \in Nat
      /\ position' = [position EXCEPT ![p] = pos]
      /\ pool' = pool
  <2>1. n \in Nat
    <3>1. /\ schedule.cliffUnlock \in Nat
          /\ schedule.perPeriod \in Nat /\ schedule.periods \in Nat
      BY InputAssumption
    <3> QED BY <3>1, MulNat
  <2>2. n <= position[p].unlocked
    BY DEF LockPosition, TotalLock
  <2>3. position' = [position EXCEPT ![p] = pos]
    BY DEF LockPosition, TotalLock, IInv, TypeOK, PositionRecord
  <2>4. position[p].open /\ pool' = pool
    BY DEF LockPosition
  <2> HIDE DEF n
  <2> QED BY <2>1, <2>2, <2>3, <2>4, HolderNat
<1> HIDE DEF n
<1>2. /\ pos.open = position[p].open
      /\ Holds(pos, Free[p] - n, Vested[p] + n, Locked[p])
  <2>1. position[p] \in PositionRecord
    BY <1>1 DEF IInv, TypeOK
  <2>2. Holds(position[p], Free[p], Vested[p], Locked[p])
    BY <1>1, HolderNat DEF Holds
  <2> QED BY <2>1, <2>2 DEF PositionRecord, Holds
<1> HIDE DEF pos
<1>3. /\ Free'   = [Free EXCEPT ![p] = Free[p] - n]
      /\ Vested' = [Vested EXCEPT ![p] = Vested[p] + n]
      /\ Locked' = [Locked EXCEPT ![p] = Locked[p]]
      /\ ClosedEmpty'
  <2>1. /\ Free'   = [Free EXCEPT ![p] = pos.unlocked]
        /\ Vested' = [Vested EXCEPT ![p] = pos.vested]
        /\ Locked' = [Locked EXCEPT ![p] = pos.permanent]
        /\ ClosedEmpty'
    BY <1>1, <1>2, HolderReplaced
  <2> QED BY <1>2, <2>1 DEF Holds
<1>4. Locked' = Locked
  BY <1>3, LedgerTypes
<1>5. /\ Free' = Ledger!Add(Free, p, -n)
      /\ Vested' = Ledger!Add(Vested, p, n)
  <2>1. Free[p] - n = Free[p] + (-n)
    BY <1>1, HolderNat
  <2> QED BY <1>3, <2>1 DEF Ledger!Add
<1>6. Ledger!Vest(p, n)
  BY <1>1, <1>4, <1>5 DEF Ledger!Vest
<1> QED BY <1>1, <1>3, <1>6 DEF Implements, LedgerStep, Ledger!LedgerNext

\* handle_refresh_vesting: what is released was vested.
LEMMA RefreshVestingImplements ==
  ASSUME IInv, ClosedEmpty, NEW v \in vestings, RefreshVesting(v)
  PROVE  Implements
<1> DEFINE p == v.position
           n == NewRelease(v)
           pos == [position[p] EXCEPT !.unlocked = @ + n, !.vested = @ - n]
<1>1. /\ p \in Positions /\ position[p].open
      /\ n \in 0..Vested[p] /\ n \in Nat
      /\ position' = [position EXCEPT ![p] = pos]
      /\ pool' = pool
  <2>1. v \in VestingRecord
    BY DEF IInv, TypeOK
  <2>2. p \in Positions
    BY <2>1 DEF VestingRecord
  <2>3. n \in Int
    <3>1. v.released \in Nat /\ MaxUnlocked(v, now) \in Nat
      BY <2>1, MaxUnlockedNat DEF VestingRecord
    <3> QED BY <3>1 DEF NewRelease
  <2>4. n > 0 /\ n <= position[p].vested /\ position[p].open /\ pool' = pool
    BY DEF RefreshVesting
  <2>5. position' = [position EXCEPT ![p] = pos]
    BY <2>2 DEF RefreshVesting, IInv, TypeOK, PositionRecord
  <2> HIDE DEF n
  <2> QED BY <2>2, <2>3, <2>4, <2>5, HolderNat
<1> HIDE DEF n, p
<1>2. /\ pos.open = position[p].open
      /\ Holds(pos, Free[p] + n, Vested[p] - n, Locked[p])
  <2>1. position[p] \in PositionRecord
    BY <1>1 DEF IInv, TypeOK
  <2>2. Holds(position[p], Free[p], Vested[p], Locked[p])
    BY <1>1, HolderNat DEF Holds
  <2> QED BY <2>1, <2>2 DEF PositionRecord, Holds
<1> HIDE DEF pos
<1>3. /\ Free'   = [Free EXCEPT ![p] = Free[p] + n]
      /\ Vested' = [Vested EXCEPT ![p] = Vested[p] - n]
      /\ Locked' = [Locked EXCEPT ![p] = Locked[p]]
      /\ ClosedEmpty'
  <2>1. /\ Free'   = [Free EXCEPT ![p] = pos.unlocked]
        /\ Vested' = [Vested EXCEPT ![p] = pos.vested]
        /\ Locked' = [Locked EXCEPT ![p] = pos.permanent]
        /\ ClosedEmpty'
    BY <1>1, <1>2, HolderReplaced
  <2> QED BY <1>2, <2>1 DEF Holds
<1>4. Locked' = Locked
  BY <1>3, LedgerTypes
<1>5. /\ Vested' = Ledger!Add(Vested, p, -n)
      /\ Free' = Ledger!Add(Free, p, n)
  <2>1. Vested[p] - n = Vested[p] + (-n)
    BY <1>1, HolderNat
  <2> QED BY <1>3, <2>1 DEF Ledger!Add
<1>6. Ledger!Release(p, n)
  BY <1>1, <1>4, <1>5 DEF Ledger!Release
<1> QED BY <1>1, <1>3, <1>6 DEF Implements, LedgerStep, Ledger!LedgerNext

\* handle_permanent_lock_position
LEMMA PermanentLockImplements ==
  ASSUME IInv, ClosedEmpty, NEW p \in Positions, NEW n \in Nat,
         PermanentLock(p, n)
  PROVE  Implements
<1> DEFINE pos == [position[p] EXCEPT !.unlocked = @ - n, !.permanent = @ + n]
<1>1. /\ p \in Positions /\ position[p].open
      /\ n \in 0..Free[p] /\ n \in Nat
      /\ position' = [position EXCEPT ![p] = pos]
      /\ pool'.liquidity = pool.liquidity
  <2>1. n <= position[p].unlocked /\ position[p].open
    BY DEF PermanentLock
  <2>2. position' = [position EXCEPT ![p] = pos]
    BY DEF PermanentLock, IInv, TypeOK, PositionRecord
  <2>3. pool'.liquidity = pool.liquidity
    BY DEF PermanentLock, IInv, TypeOK, PoolRecord
  <2> QED BY <2>1, <2>2, <2>3, HolderNat
<1>2. /\ pos.open = position[p].open
      /\ Holds(pos, Free[p] - n, Vested[p], Locked[p] + n)
  <2>1. position[p] \in PositionRecord
    BY <1>1 DEF IInv, TypeOK
  <2>2. Holds(position[p], Free[p], Vested[p], Locked[p])
    BY <1>1, HolderNat DEF Holds
  <2> QED BY <2>1, <2>2 DEF PositionRecord, Holds
<1> HIDE DEF pos
<1>3. /\ Free'   = [Free EXCEPT ![p] = Free[p] - n]
      /\ Vested' = [Vested EXCEPT ![p] = Vested[p]]
      /\ Locked' = [Locked EXCEPT ![p] = Locked[p] + n]
      /\ ClosedEmpty'
  <2>1. /\ Free'   = [Free EXCEPT ![p] = pos.unlocked]
        /\ Vested' = [Vested EXCEPT ![p] = pos.vested]
        /\ Locked' = [Locked EXCEPT ![p] = pos.permanent]
        /\ ClosedEmpty'
    BY <1>1, <1>2, HolderReplaced
  <2> QED BY <1>2, <2>1 DEF Holds
<1>4. Vested' = Vested
  BY <1>3, LedgerTypes
<1>5. /\ Free' = Ledger!Add(Free, p, -n)
      /\ Locked' = Ledger!Add(Locked, p, n)
  <2>1. Free[p] - n = Free[p] + (-n)
    BY <1>1, HolderNat
  <2> QED BY <1>3, <2>1 DEF Ledger!Add
<1>6. Ledger!LockForEver(p, n)
  BY <1>1, <1>4, <1>5 DEF Ledger!LockForEver
<1> QED BY <1>1, <1>3, <1>6 DEF Implements, LedgerStep, Ledger!LedgerNext

-----------------------------------------------------------------------------
\* Claims settle a position and pay it, but leave its liquidity alone.
LEMMA ClaimPositionFeeImplements ==
  ASSUME IInv, ClosedEmpty, NEW p \in Positions, ClaimPositionFee(p)
  PROVE  Implements
<1> DEFINE pos == [SettleFees(position[p]) EXCEPT
                     !.feePending = [t \in Tokens |-> 0]]
<1>1. /\ position' = [position EXCEPT ![p] = pos]
      /\ position[p].open
      /\ pool' = pool
  BY DEF ClaimPositionFee
<1>2. /\ SettleFees(position[p]) \in PositionRecord
      /\ SettleFees(position[p]).unlocked = position[p].unlocked
      /\ SettleFees(position[p]).vested = position[p].vested
      /\ SettleFees(position[p]).permanent = position[p].permanent
      /\ SettleFees(position[p]).open = position[p].open
  <2>1. /\ position[p] \in PositionRecord /\ pool \in PoolRecord
        /\ \A t \in Tokens :
             position[p].feeCheckpoint[t] <= pool.feePerLiquidity[t]
    BY DEF IInv, TypeOK, NoUnderflow, FeeCheckpointsBehind
  <2> QED BY <2>1, SettleFeesSound
<1>3. /\ pos.open = position[p].open
      /\ Holds(pos, position[p].unlocked, position[p].vested,
               position[p].permanent)
  BY <1>2 DEF PositionRecord, Holds
<1> HIDE DEF pos
<1> QED BY <1>1, <1>3, BalancesKept

\* Nor is a claim of rewards.
LEMMA ClaimRewardImplements ==
  ASSUME IInv, ClosedEmpty, NEW p \in Positions, NEW r \in Rewards,
         NEW skip \in BOOLEAN, ClaimReward(p, r, skip)
  PROVE  Implements
<1> DEFINE settled == SettleRewards(position[p], AccruedRewards)
           pos == [settled EXCEPT !.rewardPending[r] = 0]
<1>1. /\ position' = [position EXCEPT ![p] = pos]
      /\ position[p].open
      /\ pool' = pool
  BY DEF ClaimReward
<1>2. /\ settled.unlocked = position[p].unlocked
      /\ settled.vested = position[p].vested
      /\ settled.permanent = position[p].permanent
      /\ settled.open = position[p].open
  <2>1. position[p] \in PositionRecord
    BY DEF IInv, TypeOK
  <2> QED BY <2>1 DEF SettleRewards, PositionRecord
<1>3. /\ pos.open = position[p].open
      /\ Holds(pos, position[p].unlocked, position[p].vested,
               position[p].permanent)
  <2>1. settled \in [open : BOOLEAN, unlocked : Nat, vested : Nat,
                     permanent : Nat, feePending : [Tokens -> Nat],
                     feeCheckpoint : [Tokens -> Nat],
                     rewardPending : {settled.rewardPending},
                     rewardCheckpoint : {settled.rewardCheckpoint}]
    BY ZenonT(60) DEF SettleRewards, IInv, TypeOK, PositionRecord
  <2> HIDE DEF settled
  <2> QED BY <1>2, <2>1 DEF Holds
<1> HIDE DEF pos
<1> QED BY <1>1, <1>3, BalancesKept

\* A swap changes the price and what is owed of each token.
LEMMA SwapImplements ==
  ASSUME IInv, ClosedEmpty, NEW mode, NEW dir, NEW amount, NEW f,
         NEW hasReferral, NEW whitelisted,
         Swap(mode, dir, amount, f, hasReferral, whitelisted)
  PROVE  Implements
<1>1. \E next, token, split : pool' = ApplySwap(next, token, split)
  BY DEF Swap
<1>2. pool'.liquidity = pool.liquidity
  BY <1>1 DEF ApplySwap, IInv, TypeOK, PoolRecord
<1>3. position' = position
  BY DEF Swap
<1> QED BY <1>2, <1>3, PositionsUntouched

\* Every instruction but a swap.
LEMMA OtherStepImplements ==
  ASSUME IInv, ClosedEmpty, OtherStep
  PROVE  Implements
<1>1. CASE PositionStep
  <2>1. ASSUME NEW p \in Positions, CreatePosition(p) \/ ClosePosition(p)
        PROVE  Implements
    BY <2>1, CreatePositionImplements, ClosePositionImplements
  <2>2. ASSUME NEW p \in Positions, NEW d \in LiquidityDeltas,
               AddLiquidity(p, d) \/ RemoveLiquidity(p, d)
        PROVE  Implements
    BY <2>2, AddLiquidityImplements, RemoveLiquidityImplements,
       InputAssumption
  <2>3. ASSUME NEW p \in Positions,
               RemoveLiquidity(p, position[p].unlocked)
        PROVE  Implements
    <3>1. position[p].unlocked \in Nat
      BY HolderNat
    <3> QED BY <2>3, <3>1, RemoveLiquidityImplements
  <2>4. ASSUME NEW p \in Positions, NEW q \in Positions,
               NEW s \in SplitShares, SplitPosition(p, q, s)
        PROVE  Implements
    BY <2>4, SplitPositionImplements
  <2>5. ASSUME NEW p \in Positions, NEW id \in VestingIds,
               NEW s \in Schedules, LockPosition(p, id, s)
        PROVE  Implements
    BY <2>5, LockPositionImplements
  <2>6. ASSUME NEW v \in vestings, RefreshVesting(v)
        PROVE  Implements
    BY <2>6, RefreshVestingImplements
  <2>7. ASSUME NEW p \in Positions, NEW n \in LockAmounts,
               PermanentLock(p, n)
        PROVE  Implements
    BY <2>7, PermanentLockImplements, InputAssumption
  <2> QED BY <1>1, <2>1, <2>2, <2>3, <2>4, <2>5, <2>6, <2>7 DEF PositionStep
<1>2. CASE ClaimStep
  <2>1. ASSUME NEW p \in Positions, ClaimPositionFee(p)
        PROVE  Implements
    BY <2>1, ClaimPositionFeeImplements
  <2>2. ASSUME NEW max, ClaimProtocolFee(max) \/ ClaimPartnerFee(max)
        PROVE  Implements
    <3>1. position' = position
      BY <2>2 DEF ClaimProtocolFee, ClaimPartnerFee
    <3>2. pool'.liquidity = pool.liquidity
      <4>1. CASE ClaimProtocolFee(max)
        BY <4>1 DEF ClaimProtocolFee, IInv, TypeOK, PoolRecord
      <4>2. CASE ClaimPartnerFee(max)
        BY <4>2 DEF ClaimPartnerFee, IInv, TypeOK, PoolRecord
      <4> QED BY <2>2, <4>1, <4>2
    <3> QED BY <3>1, <3>2, PositionsUntouched
  <2>3. ASSUME NEW max, NEW t, ZapProtocolFee(t, max)
        PROVE  Implements
    BY <2>2, <2>3 DEF ZapProtocolFee
  <2> QED BY <1>2, <2>1, <2>2, <2>3 DEF ClaimStep
<1>3. CASE RewardStep
  <2>1. ASSUME NEW p \in Positions, NEW r \in Rewards, NEW skip \in BOOLEAN,
               ClaimReward(p, r, skip)
        PROVE  Implements
    BY <2>1, ClaimRewardImplements
  <2>2. ASSUME NEW r \in Rewards, NEW d, NEW carry,
               \/ InitializeReward(r, d) \/ UpdateRewardDuration(r, d)
               \/ FundReward(r, d, carry) \/ WithdrawIneligibleReward(r)
               \/ ToggleFreeze(r)
        PROVE  Implements
    <3>1. position' = position /\ pool' = pool
      BY <2>2 DEF InitializeReward, UpdateRewardDuration, FundReward,
                  WithdrawIneligibleReward, ToggleFreeze
    <3> QED BY <3>1, PositionsUntouched
  <2> QED BY <1>3, <2>1, <2>2 DEF RewardStep
<1>4. CASE StatusStep
  <2>1. PICK enabled \in Statuses : SetPoolStatus(enabled)
    BY <1>4 DEF StatusStep
  <2>2. position' = position
    BY <2>1 DEF SetPoolStatus
  <2>3. pool'.liquidity = pool.liquidity
    BY <2>1 DEF SetPoolStatus, IInv, TypeOK, PoolRecord
  <2> QED BY <2>2, <2>3, PositionsUntouched
<1>5. CASE Tick
  <2>1. position' = position /\ pool' = pool
    BY <1>5 DEF Tick
  <2> QED BY <2>1, PositionsUntouched
<1> QED BY <1>1, <1>2, <1>3, <1>4, <1>5 DEF OtherStep

\* Swaps whatever their fees, everything else, and stuttering.
LEMMA StepImplements ==
  ASSUME IInv, ClosedEmpty, [SwapStep(TradeFeeRecord) \/ OtherStep]_vars
  PROVE  Implements
<1>1. CASE SwapStep(TradeFeeRecord)
  BY <1>1, SwapImplements DEF SwapStep
<1>2. CASE OtherStep
  BY <1>2, OtherStepImplements
<1>3. CASE UNCHANGED vars
  <2>1. position' = position /\ pool' = pool
    BY <1>3 DEF vars
  <2> QED BY <2>1, PositionsUntouched
<1> QED BY <1>1, <1>2, <1>3

\* A pool starts with all of its liquidity in the creator's position.
LEMMA InitImplements ==
  ASSUME Init
  PROVE  Ledger!LedgerInit /\ ClosedEmpty
<1>1. PICK p \in Positions, L \in InitLiquidity, price \in InitPrices,
           customizable \in BOOLEAN :
        InitializePool(p, L, price, customizable)
  BY DEF Init, InitialState
<1>2. /\ position = [q \in Positions |->
                       IF q = p THEN NewPosition(L) ELSE NoPosition]
      /\ pool.liquidity = L
  BY <1>1 DEF InitializePool, InitialPool
<1>3. /\ Holds(NewPosition(L), L, 0, 0) /\ NewPosition(L).open
      /\ Holds(NoPosition, 0, 0, 0)
  BY DEF NewPosition, NoPosition, Holds
<1>4. \A q \in Positions : Holds(position[q], IF q = p THEN L ELSE 0, 0, 0)
  BY <1>2, <1>3
<1>5. /\ Free = [q \in Positions |-> IF q = p THEN L ELSE 0]
      /\ Vested = [q \in Positions |-> 0]
      /\ Locked = [q \in Positions |-> 0]
  BY <1>4 DEF Free, Vested, Locked, Holds
<1>6. pool.liquidity \in Nat
  BY <1>2, InputAssumption
<1>7. ClosedEmpty
  <2> SUFFICES ASSUME NEW q \in Positions
               PROVE  ~position[q].open => Holds(position[q], 0, 0, 0)
    BY DEF ClosedEmpty
  <2>1. CASE q = p
    BY <1>2, <1>3, <2>1
  <2>2. CASE q # p
    BY <1>2, <1>3, <2>2
  <2> QED BY <2>1, <2>2
<1> QED BY <1>2, <1>5, <1>6, <1>7 DEF Ledger!LedgerInit

\* Whatever the trade fees, whoever sends which instruction: liquidity is only
\* created by adding, destroyed by removing what is free, and what is locked
\* for ever is never freed (pool.rs apply_add_liquidity,
\* apply_remove_liquidity, apply_split_position; position.rs lock,
\* permanent_lock_liquidity, release_vested_liquidity).
THEOREM AnyFeeRefinesLedger == AnyFeeSpec => LedgerRefined
<1>1. Init => Ledger!LedgerInit /\ ClosedEmpty
  BY InitImplements
<1>2. IInv /\ ClosedEmpty /\ [SwapStep(TradeFeeRecord) \/ OtherStep]_vars
        => [Ledger!LedgerNext]_(Ledger!ledgerVars) /\ ClosedEmpty'
  BY StepImplements DEF Implements, LedgerStep
<1>3. AnyFeeSpec => []IInv
  BY AnyFeeInvariantHolds
<1> QED BY <1>1, <1>2, <1>3, PTL DEF AnyFeeSpec, LedgerRefined, Ledger!LedgerSpec

\* The same of the specification that the runs check.
THEOREM LedgerImplemented == Spec => LedgerRefined
BY AnyFeeCovers, AnyFeeRefinesLedger, PTL

-----------------------------------------------------------------------------
\* What VestingParameters::validate guarantees of an account for good.
SchedulesValid ==
  \A v \in vestings : v.periods > 0 => v.frequency > 0 /\ v.perPeriod > 0

VestInv == ReleasesOnSchedule /\ SchedulesValid

\* What is shown of every step.
VestStep ==
  \A v \in vestings :
    \/ \E w \in vestings' : w.id = v.id /\ w.released >= v.released
    \/ now >= v.cliff + v.frequency * v.periods

-----------------------------------------------------------------------------
\* The fields of an account are numbers.
LEMMA VestingFields ==
  ASSUME NEW v \in VestingRecord
  PROVE  /\ v.cliff \in Nat /\ v.frequency \in Nat /\ v.cliffUnlock \in Nat
         /\ v.perPeriod \in Nat /\ v.periods \in Nat /\ v.released \in Nat
BY DEF VestingRecord

\* A quotient grows with its numerator.
LEMMA DivGrows ==
  ASSUME NEW m \in Nat, NEW n \in Nat, NEW d \in Nat \ {0}, m <= n
  PROVE  m \div d <= n \div d
<1>1. m \div d \in Nat /\ (m \div d) * d <= m
  BY DivNat, SMT
<1>2. (m \div d) * d <= n
  <2> DEFINE q == (m \div d) * d
  <2>1. q \in Nat
    BY <1>1, MulNat
  <2> HIDE DEF q
  <2>2. q <= m
    BY <1>1 DEF q
  <2>3. q <= n
    BY <2>1, <2>2
  <2> QED BY <2>3 DEF q
<1> QED BY <1>1, <1>2, DivGe

\* A product grows with its factor.
LEMMA MulGrows ==
  ASSUME NEW m \in Nat, NEW n \in Nat, NEW k \in Nat, m <= n
  PROVE  m * k <= n * k
BY SMT

\* The whole of a schedule is a number.
LEMMA TotalLockNat ==
  ASSUME NEW v \in VestingRecord
  PROVE  TotalLock(v) \in Nat
<1>1. v.cliffUnlock \in Nat /\ v.perPeriod \in Nat /\ v.periods \in Nat
  BY VestingFields
<1>2. v.perPeriod * v.periods \in Nat
  BY <1>1, MulNat
<1> QED BY <1>1, <1>2 DEF TotalLock

\* What a schedule has unlocked at any time is a number, and no more than the
\* whole.
LEMMA MaxUnlockedAt ==
  ASSUME NEW v \in VestingRecord, NEW t \in Nat
  PROVE  MaxUnlocked(v, t) \in Nat /\ MaxUnlocked(v, t) <= TotalLock(v)
<1>1. /\ v.cliff \in Nat /\ v.frequency \in Nat /\ v.cliffUnlock \in Nat
      /\ v.perPeriod \in Nat /\ v.periods \in Nat
  BY VestingFields
<1>2. TotalLock(v) \in Nat /\ v.cliffUnlock <= TotalLock(v)
  <2>1. v.perPeriod * v.periods \in Nat
    BY <1>1, MulNat
  <2> QED BY <1>1, <2>1 DEF TotalLock
<1>3. CASE t < v.cliff \/ v.frequency = 0
  BY <1>1, <1>2, <1>3 DEF MaxUnlocked
<1>4. CASE ~(t < v.cliff \/ v.frequency = 0)
  <2> DEFINE passed == (t - v.cliff) \div v.frequency
             due == Smaller(passed, v.periods)
  <2>1. t - v.cliff \in Nat /\ v.frequency \in Nat \ {0}
    BY <1>1, <1>4
  <2>2. passed \in Nat
    BY <2>1, DivNat
  <2>3. MaxUnlocked(v, t) = v.cliffUnlock + due * v.perPeriod
    BY <1>4 DEF MaxUnlocked
  <2> HIDE DEF passed
  <2>4. due \in Nat /\ due <= v.periods
    BY <1>1, <2>2 DEF Smaller
  <2> HIDE DEF due
  <2>5. due * v.perPeriod \in Nat /\ due * v.perPeriod <= v.periods * v.perPeriod
    BY <1>1, <2>4, MulNat, MulGrows
  <2>6. /\ v.periods * v.perPeriod = v.perPeriod * v.periods
        /\ v.periods * v.perPeriod \in Nat
    BY <1>1, MulNat, SMT
  <2> QED BY <1>1, <2>3, <2>5, <2>6 DEF TotalLock
<1> QED BY <1>3, <1>4

\* get_max_unlocked_liquidity only grows with time.
LEMMA MaxUnlockedGrows ==
  ASSUME NEW v \in VestingRecord, NEW m \in Nat, NEW n \in Nat, m <= n
  PROVE  MaxUnlocked(v, m) <= MaxUnlocked(v, n)
<1>1. /\ v.cliff \in Nat /\ v.frequency \in Nat /\ v.cliffUnlock \in Nat
      /\ v.perPeriod \in Nat /\ v.periods \in Nat
  BY VestingFields
<1>2. CASE v.frequency = 0
  BY <1>1, <1>2 DEF MaxUnlocked
<1>3. CASE v.frequency # 0 /\ n < v.cliff
  BY <1>1, <1>3 DEF MaxUnlocked
<1>4. CASE v.frequency # 0 /\ n >= v.cliff
  <2> DEFINE passed(t) == (t - v.cliff) \div v.frequency
             due(t) == Smaller(passed(t), v.periods)
  <2>1. n - v.cliff \in Nat /\ v.frequency \in Nat \ {0}
    BY <1>1, <1>4
  <2>2. passed(n) \in Nat
    BY <2>1, DivNat
  <2>3. due(n) \in Nat
    <3> HIDE DEF passed
    <3> QED BY <1>1, <2>2 DEF Smaller
  <2>4. MaxUnlocked(v, n) = v.cliffUnlock + due(n) * v.perPeriod
    BY <1>1, <1>4 DEF MaxUnlocked
  <2>5. due(n) * v.perPeriod \in Nat
    <3> HIDE DEF due
    <3> QED BY <1>1, <2>3, MulNat
  <2>6. CASE m < v.cliff
    <3>1. MaxUnlocked(v, m) = 0
      BY <2>6 DEF MaxUnlocked
    <3> HIDE DEF due, passed
    <3> QED BY <1>1, <2>4, <2>5, <3>1
  <2>7. CASE m >= v.cliff
    <3>1. m - v.cliff \in Nat /\ m - v.cliff <= n - v.cliff
      BY <1>1, <2>7
    <3>2. passed(m) \in Nat /\ passed(m) <= passed(n)
      BY <2>1, <3>1, DivNat, DivGrows
    <3>3. due(m) \in Nat /\ due(m) <= due(n)
      <4> HIDE DEF passed
      <4> QED BY <1>1, <2>2, <3>2 DEF Smaller
    <3>4. MaxUnlocked(v, m) = v.cliffUnlock + due(m) * v.perPeriod
      BY <1>1, <1>4, <2>7 DEF MaxUnlocked
    <3> HIDE DEF due, passed
    <3>5. /\ due(m) * v.perPeriod \in Nat
          /\ due(m) * v.perPeriod <= due(n) * v.perPeriod
      BY <1>1, <2>3, <3>3, MulNat, MulGrows
    <3> QED BY <1>1, <2>4, <2>5, <3>4, <3>5
  <2> QED BY <1>1, <2>6, <2>7
<1> QED BY <1>1, <1>2, <1>3, <1>4

\* All of a schedule is unlocked only after its last period.
LEMMA FullOnlyAtEnd ==
  ASSUME NEW v \in VestingRecord, NEW t \in Nat, t >= v.cliff,
         v.periods > 0 => v.frequency > 0 /\ v.perPeriod > 0,
         MaxUnlocked(v, t) = TotalLock(v)
  PROVE  t >= v.cliff + v.frequency * v.periods
<1>1. /\ v.cliff \in Nat /\ v.frequency \in Nat /\ v.cliffUnlock \in Nat
      /\ v.perPeriod \in Nat /\ v.periods \in Nat
  BY VestingFields
<1>2. CASE v.periods = 0
  BY <1>1, <1>2
<1>3. CASE v.periods > 0
  <2> DEFINE passed == (t - v.cliff) \div v.frequency
             due == Smaller(passed, v.periods)
  <2>1. /\ t - v.cliff \in Nat
        /\ v.frequency \in Nat \ {0} /\ v.perPeriod \in Nat \ {0}
    BY <1>1, <1>3
  <2>2. passed \in Nat /\ passed * v.frequency <= t - v.cliff
    <3>1. passed \in Nat
      BY <2>1, DivNat
    <3>2. \A a \in Nat, d \in Nat \ {0} : (a \div d) * d <= a
      BY SMT
    <3> QED BY <2>1, <3>1, <3>2
  <2>3. MaxUnlocked(v, t) = v.cliffUnlock + due * v.perPeriod
    BY <1>1, <2>1 DEF MaxUnlocked
  <2> HIDE DEF passed
  <2>4. due \in Nat /\ due <= v.periods /\ due <= passed
    BY <1>1, <2>2 DEF Smaller
  <2> HIDE DEF due
  <2>5. due * v.perPeriod = v.perPeriod * v.periods
    <3>1. due * v.perPeriod \in Nat /\ v.perPeriod * v.periods \in Nat
      BY <1>1, <2>4, MulNat
    <3> QED BY <1>1, <2>3, <3>1 DEF TotalLock
  <2>6. due = v.periods
    <3>1. \A a, b \in Nat, k \in Nat \ {0} : a * k = k * b => a = b
      BY SMT
    <3> QED BY <1>1, <2>1, <2>4, <2>5, <3>1
  <2>7. v.periods * v.frequency <= passed * v.frequency
    BY <1>1, <2>2, <2>4, <2>6, MulGrows
  <2>8. /\ v.frequency * v.periods = v.periods * v.frequency
        /\ v.periods * v.frequency \in Nat /\ passed * v.frequency \in Nat
    BY <1>1, <2>2, MulNat, SMT
  <2>9. v.periods * v.frequency <= t - v.cliff
    BY <1>1, <2>1, <2>2, <2>7, <2>8
  <2> QED BY <1>1, <2>8, <2>9
<1> QED BY <1>1, <1>2, <1>3

-----------------------------------------------------------------------------
\* Whatever leaves the vesting accounts alone, the clock included.
LEMMA VestingsUntouched ==
  ASSUME IInv, VestInv, vestings' = vestings, now' \in Nat, now <= now'
  PROVE  VestInv' /\ VestStep
<1>1. ASSUME NEW v \in vestings
      PROVE  v.released <= MaxUnlocked(v, now')
  <2>1. v \in VestingRecord /\ now \in Nat
    BY DEF IInv, TypeOK
  <2>2. /\ MaxUnlocked(v, now) \in Nat
        /\ MaxUnlocked(v, now) <= MaxUnlocked(v, now')
    BY <2>1, MaxUnlockedAt, MaxUnlockedGrows
  <2>3. MaxUnlocked(v, now') \in Nat
    BY <2>1, MaxUnlockedAt
  <2>4. v.released \in Nat /\ v.released <= MaxUnlocked(v, now)
    BY <2>1, VestingFields DEF VestInv, ReleasesOnSchedule
  <2> QED BY <2>2, <2>3, <2>4
<1>2. ReleasesOnSchedule'
  BY <1>1 DEF VestInv, ReleasesOnSchedule, TotalLock
<1>3. SchedulesValid'
  BY DEF VestInv, SchedulesValid
<1>4. VestStep
  <2> SUFFICES ASSUME NEW v \in vestings
               PROVE  v \in vestings' /\ v.released >= v.released
    BY DEF VestStep
  <2>1. v.released \in Nat
    BY VestingFields DEF IInv, TypeOK
  <2> QED BY <2>1
<1> QED BY <1>2, <1>3, <1>4 DEF VestInv

\* handle_lock_position: a new account has released nothing of a schedule
\* that validation accepts.
LEMMA LockPositionVests ==
  ASSUME IInv, VestInv, NEW p \in Positions, NEW id \in VestingIds,
         NEW s \in Schedules, LockPosition(p, id, s)
  PROVE  VestInv' /\ VestStep
<1> DEFINE v == [id |-> id, position |-> p, cliff |-> s.cliff,
                 frequency |-> s.frequency, cliffUnlock |-> s.cliffUnlock,
                 perPeriod |-> s.perPeriod, periods |-> s.periods,
                 released |-> 0]
<1>1. /\ \A w \in vestings : w.id # id
      /\ ValidSchedule(v)
      /\ vestings' = vestings \cup {v}
      /\ now' = now
  BY DEF LockPosition
<1>2. s.cliff \in Nat /\ s.frequency \in Nat /\ s.cliffUnlock \in Nat
      /\ s.perPeriod \in Nat /\ s.periods \in Nat
  BY InputAssumption
<1>3. v \in VestingRecord /\ v.id = id /\ v.released = 0
  BY <1>2 DEF VestingRecord
<1>4. now \in Nat
  BY DEF IInv, TypeOK
<1> HIDE DEF v
<1>5. v.released <= MaxUnlocked(v, now') /\ v.released < TotalLock(v)
  <2>1. MaxUnlocked(v, now) \in Nat
    BY <1>3, <1>4, MaxUnlockedAt
  <2>2. TotalLock(v) \in Nat
    BY <1>3, TotalLockNat
  <2> QED BY <1>1, <1>3, <2>1, <2>2 DEF ValidSchedule
<1>6. ReleasesOnSchedule'
  <2>1. \A w \in vestings : w.released <= MaxUnlocked(w, now')
                            /\ w.released < TotalLock(w)
    BY <1>1 DEF VestInv, ReleasesOnSchedule
  <2>2. \A w \in vestings' : w.released <= MaxUnlocked(w, now')
                             /\ w.released < TotalLock(w)
    BY <1>1, <1>5, <2>1
  <2>3. \A w, x \in vestings' : w.id = x.id => w = x
    BY <1>1, <1>3 DEF VestInv, ReleasesOnSchedule
  <2> QED BY <2>2, <2>3 DEF ReleasesOnSchedule, TotalLock
<1>7. SchedulesValid'
  BY <1>1 DEF VestInv, SchedulesValid, ValidSchedule
<1>8. VestStep
  <2> SUFFICES ASSUME NEW w \in vestings
               PROVE  w \in vestings' /\ w.released >= w.released
    BY DEF VestStep
  <2>1. w.released \in Nat
    BY VestingFields DEF IInv, TypeOK
  <2> QED BY <1>1, <2>1
<1> QED BY <1>6, <1>7, <1>8 DEF VestInv

\* handle_refresh_vesting: what is released is what the schedule has
\* unlocked, and the account goes only when that is everything.
LEMMA RefreshVestingVests ==
  ASSUME IInv, VestInv, NEW v \in vestings, RefreshVesting(v)
  PROVE  VestInv' /\ VestStep
<1> DEFINE w == [v EXCEPT !.released = @ + NewRelease(v)]
<1>1. /\ v \in VestingRecord /\ now \in Nat /\ now' = now
      /\ NewRelease(v) > 0
      /\ vestings' = (vestings \ {v})
                       \cup (IF w.released = TotalLock(w) THEN {} ELSE {w})
  BY DEF RefreshVesting, IInv, TypeOK
<1>2. /\ MaxUnlocked(v, now) \in Nat /\ TotalLock(v) \in Nat
      /\ v.released \in Nat /\ v.released < MaxUnlocked(v, now)
  <2>1. MaxUnlocked(v, now) \in Nat /\ TotalLock(v) \in Nat /\ v.released \in Nat
    BY <1>1, MaxUnlockedAt, TotalLockNat, VestingFields
  <2> QED BY <1>1, <2>1 DEF NewRelease
<1>3. /\ w \in VestingRecord
      /\ w.id = v.id /\ w.cliff = v.cliff /\ w.frequency = v.frequency
      /\ w.cliffUnlock = v.cliffUnlock
      /\ w.perPeriod = v.perPeriod /\ w.periods = v.periods
      /\ w.released = MaxUnlocked(v, now)
  BY <1>1, <1>2 DEF NewRelease, VestingRecord
<1> HIDE DEF w
<1>4. /\ MaxUnlocked(w, now') = MaxUnlocked(v, now)
      /\ TotalLock(w) = TotalLock(v)
  BY <1>1, <1>3 DEF MaxUnlocked, TotalLock
<1>5. MaxUnlocked(v, now) <= TotalLock(v)
  BY <1>1, MaxUnlockedAt
<1>6. ReleasesOnSchedule'
  <2>1. \A x \in vestings : x.released <= MaxUnlocked(x, now')
                            /\ x.released < TotalLock(x)
    BY <1>1 DEF VestInv, ReleasesOnSchedule
  <2>2. \A x \in vestings' : x.released <= MaxUnlocked(x, now')
                             /\ x.released < TotalLock(x)
    <3>1. w \in vestings' => w.released <= MaxUnlocked(w, now')
      BY <1>2, <1>3, <1>4
    <3>2. w.released # TotalLock(w) => w.released < TotalLock(w)
      BY <1>2, <1>3, <1>4, <1>5
    <3>3. ASSUME NEW x \in vestings'
          PROVE  x.released <= MaxUnlocked(x, now')
                 /\ x.released < TotalLock(x)
      <4>1. CASE x \in vestings
        BY <2>1, <4>1
      <4>2. CASE x \notin vestings
        <5>1. x = w /\ w.released # TotalLock(w)
          BY <1>1, <4>2
        <5> QED BY <3>1, <3>2, <3>3, <5>1
      <4> QED BY <4>1, <4>2
    <3> QED BY <3>3
  <2>3. \A x, y \in vestings' : x.id = y.id => x = y
    <3>1. \A x \in vestings' : x = w \/ (x \in vestings /\ x # v)
      BY <1>1
    <3>2. \A x, y \in vestings : x.id = y.id => x = y
      BY DEF VestInv, ReleasesOnSchedule
    <3>3. \A x \in vestings : x # v => x.id # w.id
      BY <1>3, <3>2
    <3> QED BY <3>1, <3>2, <3>3
  <2> QED BY <2>2, <2>3 DEF ReleasesOnSchedule, TotalLock
<1>7. SchedulesValid'
  <2>1. \A x \in vestings : x.periods > 0 => x.frequency > 0 /\ x.perPeriod > 0
    BY DEF VestInv, SchedulesValid
  <2>2. w.periods > 0 => w.frequency > 0 /\ w.perPeriod > 0
    BY <1>3, <2>1
  <2>3. \A x \in vestings' : x = w \/ x \in vestings
    BY <1>1
  <2> QED BY <2>1, <2>2, <2>3 DEF SchedulesValid
<1>8. VestStep
  <2> SUFFICES ASSUME NEW x \in vestings
               PROVE  \/ \E y \in vestings' : y.id = x.id /\ y.released >= x.released
                      \/ now >= x.cliff + x.frequency * x.periods
    BY DEF VestStep
  <2>1. x.released \in Nat
    BY VestingFields DEF IInv, TypeOK
  <2>2. CASE x # v
    BY <1>1, <2>1, <2>2
  <2>3. CASE x = v /\ w \in vestings'
    BY <1>2, <1>3, <2>3
  <2>4. CASE x = v /\ w \notin vestings'
    <3>1. w.released = TotalLock(w)
      BY <1>1, <2>4
    <3>2. MaxUnlocked(v, now) = TotalLock(v)
      BY <1>3, <1>4, <3>1
    <3>3. now >= v.cliff
      <4>1. v.cliff \in Nat
        BY <1>1, VestingFields
      <4>2. now < v.cliff => MaxUnlocked(v, now) = 0
        BY DEF MaxUnlocked
      <4> QED BY <1>1, <1>2, <4>1, <4>2
    <3>4. v.periods > 0 => v.frequency > 0 /\ v.perPeriod > 0
      BY DEF VestInv, SchedulesValid
    <3> QED BY <1>1, <2>4, <3>2, <3>3, <3>4, FullOnlyAtEnd
  <2> QED BY <2>2, <2>3, <2>4
<1> QED BY <1>6, <1>7, <1>8 DEF VestInv

\* No other instruction touches a vesting account, and only the clock moves
\* the time.
LEMMA EveryStepVests ==
  ASSUME IInv, VestInv, [SwapStep(TradeFeeRecord) \/ OtherStep]_vars
  PROVE  VestInv' /\ VestStep
<1> DEFINE Untouched == vestings' = vestings /\ now' = now
<1>1. now \in Nat
  BY DEF IInv, TypeOK
<1>2. ASSUME Untouched
      PROVE  VestInv' /\ VestStep
  BY <1>1, <1>2, VestingsUntouched
<1>3. CASE PositionStep
  <2>1. ASSUME NEW p \in Positions, NEW id \in VestingIds,
               NEW s \in Schedules, LockPosition(p, id, s)
        PROVE  VestInv' /\ VestStep
    BY <2>1, LockPositionVests
  <2>2. ASSUME NEW v \in vestings, RefreshVesting(v)
        PROVE  VestInv' /\ VestStep
    BY <2>2, RefreshVestingVests
  <2>3. ASSUME NEW p \in Positions, NEW q, NEW d,
               \/ CreatePosition(p) \/ ClosePosition(p)
               \/ AddLiquidity(p, d) \/ RemoveLiquidity(p, d)
               \/ SplitPosition(p, q, d) \/ PermanentLock(p, d)
        PROVE  Untouched
    BY <2>3 DEF CreatePosition, ClosePosition, AddLiquidity, RemoveLiquidity,
                SplitPosition, PermanentLock
  <2> QED BY <1>2, <1>3, <2>1, <2>2, <2>3 DEF PositionStep
<1>4. CASE SwapStep(TradeFeeRecord)
  <2>1. Untouched
    BY <1>4 DEF SwapStep, Swap
  <2> QED BY <1>2, <2>1
<1>5. CASE ClaimStep
  <2>1. Untouched
    BY <1>5 DEF ClaimStep, ClaimPositionFee, ClaimProtocolFee,
                ClaimPartnerFee, ZapProtocolFee
  <2> QED BY <1>2, <2>1
<1>6. CASE RewardStep
  <2>1. Untouched
    BY <1>6 DEF RewardStep, InitializeReward, UpdateRewardDuration, FundReward,
                WithdrawIneligibleReward, ClaimReward, ToggleFreeze
  <2> QED BY <1>2, <2>1
<1>7. CASE StatusStep
  <2>1. Untouched
    BY <1>7 DEF StatusStep, SetPoolStatus
  <2> QED BY <1>2, <2>1
<1>8. CASE Tick
  <2>1. vestings' = vestings /\ now' \in Nat /\ now <= now'
    BY <1>1, <1>8 DEF Tick
  <2> QED BY <2>1, VestingsUntouched
<1>9. CASE UNCHANGED vars
  <2>1. Untouched
    BY <1>9 DEF vars
  <2> QED BY <1>2, <2>1
<1> HIDE DEF Untouched
<1> QED BY <1>3, <1>4, <1>5, <1>6, <1>7, <1>8, <1>9 DEF OtherStep

-----------------------------------------------------------------------------
\* A pool starts without vesting accounts.
LEMMA InitVests ==
  ASSUME Init
  PROVE  VestInv
<1>1. vestings = {}
  BY DEF Init, InitialState, InitializePool
<1> QED BY <1>1 DEF VestInv, ReleasesOnSchedule, SchedulesValid

\* No vesting account is ever ahead of its schedule, whatever the trade fees
\* and whoever sends refresh_vesting (vesting.rs get_max_unlocked_liquidity).
THEOREM ReleasesFollowSchedule == AnyFeeSpec => [](VestInv /\ ReleasesOnSchedule)
<1>1. Init => VestInv
  BY InitVests
<1>2. IInv /\ VestInv /\ [SwapStep(TradeFeeRecord) \/ OtherStep]_vars => VestInv'
  BY EveryStepVests
<1>3. VestInv => ReleasesOnSchedule
  BY DEF VestInv
<1> QED BY <1>1, <1>2, <1>3, AnyFeeInvariantHolds, PTL DEF AnyFeeSpec

\* Locked liquidity stays locked: an account goes away only once its whole
\* schedule has elapsed, and what it has released never goes back
\* (handle_refresh_vesting, handle_lock_position, close_position).
THEOREM LockedUntilScheduleHolds == Spec => LockedUntilSchedule
<1>1. IInv /\ VestInv /\ [SwapStep(TradeFeeRecord) \/ OtherStep]_vars
        => [VestStep]_vars
  BY EveryStepVests
<1>2. [VestStep]_vars =>
        [\A v \in vestings :
           \/ \E w \in vestings' : w.id = v.id /\ w.released >= v.released
           \/ now >= v.cliff + v.frequency * v.periods]_vars
  BY DEF VestStep
<1> QED BY <1>1, <1>2, AnyFeeCovers, AnyFeeInvariantHolds, ReleasesFollowSchedule,
           PTL DEF AnyFeeSpec, LockedUntilSchedule

\* Sums over positions in which one or two summands change.
LEMMA PositionSumInt ==
  ASSUME NEW f, \A x \in Positions : f[x] \in Int
  PROVE  PositionSum(f) \in Int
BY FiniteAssumption, SumInt DEF PositionSum, Sum

\* The sum over positions of natural numbers is one,
LEMMA PositionSumNat ==
  ASSUME NEW f, \A x \in Positions : f[x] \in Nat
  PROVE  /\ PositionSum(f) \in Nat
         /\ \A x \in Positions : f[x] <= PositionSum(f)
BY FiniteAssumption, SumNat DEF PositionSum, Sum

\* equal terms have equal sums,
LEMMA PositionSumSame ==
  ASSUME NEW f, NEW g, \A x \in Positions : f[x] = g[x]
  PROVE  PositionSum(f) = PositionSum(g)
BY FiniteAssumption, SumSame DEF PositionSum, Sum

\* larger terms have a larger sum,
LEMMA PositionSumLe ==
  ASSUME NEW f, NEW g,
         \A x \in Positions : f[x] \in Int /\ g[x] \in Int /\ f[x] <= g[x]
  PROVE  PositionSum(f) <= PositionSum(g)
BY FiniteAssumption, SumLe DEF PositionSum, Sum

\* zeros add up to zero,
LEMMA PositionSumZero ==
  ASSUME NEW f, \A x \in Positions : f[x] = 0
  PROVE  PositionSum(f) = 0
BY FiniteAssumption, SumZero DEF PositionSum, Sum

\* and a change of one term changes the sum by as much,
LEMMA PositionSumChange ==
  ASSUME NEW f, NEW g, NEW p \in Positions, \A x \in Positions : f[x] \in Int,
         g[p] \in Int, \A x \in Positions \ {p} : g[x] = f[x]
  PROVE  PositionSum(g) = PositionSum(f) + (g[p] - f[p])
BY FiniteAssumption, SumChange DEF PositionSum, Sum

\* as do the changes of two terms.
LEMMA PositionSumChangeTwo ==
  ASSUME NEW f, NEW g, NEW p \in Positions, NEW q \in Positions, p # q,
         \A x \in Positions : f[x] \in Int, g[p] \in Int, g[q] \in Int,
         \A x \in Positions \ {p, q} : g[x] = f[x]
  PROVE  PositionSum(g) = PositionSum(f) + (g[p] - f[p]) + (g[q] - f[q])
BY FiniteAssumption, SumChangeTwo DEF PositionSum, Sum

\* A position's liquidity is what it holds in the three classes.
LEMMA LiquidityOf ==
  ASSUME IInv
  PROVE  \A p \in Positions :
           /\ Liquidity[p] = Free[p] + Vested[p] + Locked[p]
           /\ Free[p] \in Nat /\ Vested[p] \in Nat /\ Locked[p] \in Nat
BY HolderNat DEF Liquidity, TotalLiquidity

\* Every step of the ledger keeps the sum over its holders.
LEMMA LedgerConserves ==
  ASSUME IInv, IInv', LiquidityConserved, LedgerStep
  PROVE  LiquidityConserved'
<1>1. \A p \in Positions :
        /\ Liquidity[p] = Free[p] + Vested[p] + Locked[p]
        /\ Free[p] \in Nat /\ Vested[p] \in Nat /\ Locked[p] \in Nat
  BY LiquidityOf
<1>2. \A p \in Positions :
        /\ Liquidity'[p] = Free'[p] + Vested'[p] + Locked'[p]
        /\ Free'[p] \in Nat /\ Vested'[p] \in Nat /\ Locked'[p] \in Nat
  BY DEF Liquidity, Free, Vested, Locked, TotalLiquidity, IInv, TypeOK,
         PositionRecord
<1>3. Free \in [Positions -> Nat] /\ Vested \in [Positions -> Nat]
      /\ Locked \in [Positions -> Nat]
  BY LedgerTypes
<1>4. pool.liquidity \in Nat /\ pool'.liquidity \in Nat
  BY DEF IInv, TypeOK, PoolRecord
<1>5. pool.liquidity = PositionSum(Liquidity)
  BY DEF LiquidityConserved
<1> DEFINE Was == Liquidity
           Is  == Liquidity'
<1> SUFFICES pool'.liquidity = PositionSum(Is)
  BY DEF LiquidityConserved
<1>a. \A p \in Positions : Was[p] \in Int /\ Is[p] \in Int
  BY <1>1, <1>2
<1>6. ASSUME NEW p \in Positions, NEW n \in Int,
             Is[p] = Was[p] + n, \A x \in Positions \ {p} : Is[x] = Was[x],
             pool'.liquidity = pool.liquidity + n
      PROVE  pool'.liquidity = PositionSum(Is)
  <2> HIDE DEF Was, Is
  <2>1. PositionSum(Is) = PositionSum(Was) + (Is[p] - Was[p])
    BY <1>a, <1>6, PositionSumChange
  <2>2. PositionSum(Was) = pool.liquidity
    BY <1>5 DEF Was
  <2> QED BY <1>4, <1>6, <1>a, <2>1, <2>2
<1>7. CASE Ledger!LedgerNext
  <2>1. ASSUME NEW p \in Positions, Ledger!Mint(p)
        PROVE  pool'.liquidity = PositionSum(Is)
    <3>1. /\ Free' = [Free EXCEPT ![p] = @ + (pool'.liquidity - pool.liquidity)]
          /\ Vested' = Vested /\ Locked' = Locked
      BY <2>1 DEF Ledger!Mint, Ledger!Add
    <3>2. \A x \in Positions :
            Is[x] = IF x = p THEN Was[x] + (pool'.liquidity - pool.liquidity)
                             ELSE Was[x]
      BY <1>1, <1>2, <1>3, <1>4, <3>1
    <3> QED BY <1>4, <1>6, <3>2
  <2>2. ASSUME NEW p \in Positions, NEW n \in 0..Free[p],
               \/ Ledger!Burn(p, n) \/ Ledger!Vest(p, n)
               \/ Ledger!LockForEver(p, n)
        PROVE  pool'.liquidity = PositionSum(Is)
    <3>0. n \in Int
      OBVIOUS
    <3>1. CASE Ledger!Burn(p, n)
      <4>1. /\ Free' = [Free EXCEPT ![p] = @ + (-n)]
            /\ Vested' = Vested /\ Locked' = Locked
            /\ pool'.liquidity = pool.liquidity - n
        BY <3>1 DEF Ledger!Burn, Ledger!Add
      <4>2. \A x \in Positions :
              Is[x] = IF x = p THEN Was[x] + (-n) ELSE Was[x]
        BY <1>1, <1>2, <1>3, <3>0, <4>1
      <4> QED BY <1>4, <1>6, <3>0, <4>1, <4>2
    <3>2. CASE Ledger!Vest(p, n)
      <4>1. /\ Free' = [Free EXCEPT ![p] = @ + (-n)]
            /\ Vested' = [Vested EXCEPT ![p] = @ + n] /\ Locked' = Locked
            /\ pool'.liquidity = pool.liquidity
        BY <3>2 DEF Ledger!Vest, Ledger!Add
      <4>2. \A x \in Positions : Is[x] = Was[x]
        BY <1>1, <1>2, <1>3, <3>0, <4>1
      <4> QED BY <1>a, <1>4, <1>6, <4>1, <4>2
    <3>3. CASE Ledger!LockForEver(p, n)
      <4>1. /\ Free' = [Free EXCEPT ![p] = @ + (-n)]
            /\ Locked' = [Locked EXCEPT ![p] = @ + n] /\ Vested' = Vested
            /\ pool'.liquidity = pool.liquidity
        BY <3>3 DEF Ledger!LockForEver, Ledger!Add
      <4>2. \A x \in Positions : Is[x] = Was[x]
        BY <1>1, <1>2, <1>3, <3>0, <4>1
      <4> QED BY <1>a, <1>4, <1>6, <4>1, <4>2
    <3> QED BY <2>2, <3>1, <3>2, <3>3
  <2>3. ASSUME NEW p \in Positions, NEW n \in 0..Vested[p], Ledger!Release(p, n)
        PROVE  pool'.liquidity = PositionSum(Is)
    <3>0. n \in Int
      OBVIOUS
    <3>1. /\ Free' = [Free EXCEPT ![p] = @ + n]
          /\ Vested' = [Vested EXCEPT ![p] = @ + (-n)] /\ Locked' = Locked
          /\ pool'.liquidity = pool.liquidity
      BY <2>3 DEF Ledger!Release, Ledger!Add
    <3>2. \A x \in Positions : Is[x] = Was[x]
      BY <1>1, <1>2, <1>3, <3>0, <3>1
    <3> QED BY <1>a, <1>4, <1>6, <3>1, <3>2
  <2>4. ASSUME NEW p \in Positions, NEW q \in Positions,
               NEW n \in 0..Free[p], NEW m \in 0..Locked[p],
               Ledger!Move(p, q, n, m)
        PROVE  pool'.liquidity = PositionSum(Is)
    <3>0. n \in Int /\ m \in Int
      OBVIOUS
    <3>1. /\ p # q
          /\ Free' = [[Free EXCEPT ![p] = @ + (-n)] EXCEPT ![q] = @ + n]
          /\ Locked' = [[Locked EXCEPT ![p] = @ + (-m)] EXCEPT ![q] = @ + m]
          /\ Vested' = Vested /\ pool'.liquidity = pool.liquidity
      BY <2>4 DEF Ledger!Move, Ledger!Add
    <3>2. /\ Is[p] = Was[p] - n - m /\ Is[q] = Was[q] + n + m
          /\ \A x \in Positions \ {p, q} : Is[x] = Was[x]
      BY <1>1, <1>2, <1>3, <3>0, <3>1
    <3>3. PositionSum(Is) = PositionSum(Was) + (Is[p] - Was[p]) + (Is[q] - Was[q])
      <4> HIDE DEF Was, Is
      <4> QED BY <1>a, <3>1, <3>2, PositionSumChangeTwo
    <3>4. PositionSum(Was) \in Int
      BY <1>4, <1>5
    <3>5. PositionSum(Is) = PositionSum(Was)
      <4> HIDE DEF Was, Is
      <4> QED BY <1>a, <3>0, <3>2, <3>3, <3>4
    <3> QED BY <1>5, <3>1, <3>5
  <2> QED BY <1>7, <2>1, <2>2, <2>3, <2>4 DEF Ledger!LedgerNext
<1>8. CASE UNCHANGED Ledger!ledgerVars
  <2>1. /\ Free' = Free /\ Vested' = Vested /\ Locked' = Locked
        /\ pool'.liquidity = pool.liquidity
    BY <1>8 DEF Ledger!ledgerVars
  <2>2. \A x \in Positions : Is[x] = Was[x]
    BY <1>1, <1>2, <2>1
  <2>3. PositionSum(Is) = PositionSum(Was)
    <3> HIDE DEF Was, Is
    <3> QED BY <2>2, PositionSumSame
  <2> QED BY <1>5, <2>1, <2>3
<1> QED BY <1>7, <1>8 DEF LedgerStep

\* All of a new pool's liquidity is in the creator's position.
LEMMA InitConserves ==
  ASSUME Init
  PROVE  LiquidityConserved
<1>1. IInv /\ Ledger!LedgerInit
  BY InitSound, InitImplements
<1>2. PICK p \in Positions :
        Free = [q \in Positions |-> IF q = p THEN pool.liquidity ELSE 0]
  BY <1>1 DEF Ledger!LedgerInit
<1>3. /\ Vested = [q \in Positions |-> 0] /\ Locked = [q \in Positions |-> 0]
      /\ pool.liquidity \in Nat
  BY <1>1 DEF Ledger!LedgerInit
<1>4. \A q \in Positions : Liquidity[q] = IF q = p THEN pool.liquidity ELSE 0
  BY <1>1, <1>2, <1>3, LiquidityOf
<1> DEFINE zero == [q \in Positions |-> 0]
           all  == Liquidity
<1>5. PositionSum(zero) = 0
  <2>1. \A q \in Positions : zero[q] = 0
    OBVIOUS
  <2> HIDE DEF zero
  <2> QED BY <2>1, PositionSumZero
<1>6. PositionSum(all) = PositionSum(zero) + (all[p] - zero[p])
  <2>1. \A q \in Positions : zero[q] = 0
    OBVIOUS
  <2>2. /\ all[p] \in Int
        /\ \A q \in Positions \ {p} : all[q] = zero[q]
    BY <1>3, <1>4, <2>1
  <2> HIDE DEF all, zero
  <2> QED BY <2>1, <2>2, PositionSumChange
<1>7. all[p] = pool.liquidity /\ zero[p] = 0
  BY <1>4
<1> QED BY <1>3, <1>5, <1>6, <1>7 DEF LiquidityConserved

\* The pool trades with exactly the liquidity of its positions, after any
\* instructions and whatever the trade fees (pool.rs apply_add_liquidity,
\* apply_remove_liquidity, apply_split_position, position.rs add_liquidity,
\* remove_unlocked_liquidity).
THEOREM AnyFeeLiquidityConserved == AnyFeeSpec => []LiquidityConserved
<1>1. Init => ClosedEmpty /\ LiquidityConserved
  BY InitImplements, InitConserves
<1>2. IInv /\ IInv' /\ ClosedEmpty /\ LiquidityConserved
        /\ [SwapStep(TradeFeeRecord) \/ OtherStep]_vars
        => ClosedEmpty' /\ LiquidityConserved'
  BY StepImplements, LedgerConserves DEF Implements
<1> QED BY <1>1, <1>2, AnyFeeInvariantHolds, PTL DEF AnyFeeSpec

\* The same of the specification that the runs check.
THEOREM LiquidityConservedHolds == Spec => []LiquidityConserved
BY AnyFeeCovers, AnyFeeLiquidityConserved, PTL

-----------------------------------------------------------------------------
\* There are finitely many vesting accounts, each of an open position.
VestingsHeld ==
  /\ IsFiniteSet(vestings)
  /\ \A v \in vestings : position[v.position].open

LockInv == LocksBacked /\ VestingsHeld

\* What an account has still to release, and what those of a position have.
LEMMA OutstandingNat ==
  ASSUME IInv, VestInv
  PROVE  \A v \in vestings : Outstanding[v] \in Nat \ {0}
<1> SUFFICES ASSUME NEW v \in vestings
             PROVE  Outstanding[v] \in Nat \ {0}
  OBVIOUS
<1>1. v \in VestingRecord
  BY DEF IInv, TypeOK
<1>2. TotalLock(v) \in Nat /\ v.released \in Nat
  BY <1>1, TotalLockNat, VestingFields
<1>3. v.released < TotalLock(v)
  BY DEF VestInv, ReleasesOnSchedule
<1> QED BY <1>2, <1>3 DEF Outstanding

\* Whatever leaves the accounts and the locked balances alone.
LEMMA LocksUntouched ==
  ASSUME LockInv, vestings' = vestings,
         pool'.permanentLock = pool.permanentLock,
         \A p \in Positions :
           /\ position'[p].vested = position[p].vested
           /\ position'[p].permanent = position[p].permanent
           /\ position[p].open => position'[p].open,
         IInv
  PROVE  LockInv'
<1>1. PositionSum(PermanentLiquidity') = PositionSum(PermanentLiquidity)
  <2>1. \A p \in Positions : PermanentLiquidity'[p] = PermanentLiquidity[p]
    BY DEF PermanentLiquidity
  <2> QED BY <2>1, PositionSumSame
<1>2. Outstanding' = Outstanding /\ \A p \in Positions : VestingsOf(p)' = VestingsOf(p)
  BY DEF Outstanding, VestingsOf, TotalLock
<1>3. LocksBacked'
  BY <1>1, <1>2 DEF LockInv, LocksBacked
<1>4. VestingsHeld'
  BY DEF LockInv, VestingsHeld, IInv, TypeOK, VestingRecord
<1> QED BY <1>3, <1>4 DEF LockInv

\* The same when one position is replaced.
LEMMA LocksUntouchedAt ==
  ASSUME IInv, LockInv, vestings' = vestings,
         pool'.permanentLock = pool.permanentLock,
         NEW p \in Positions, NEW pos, position' = [position EXCEPT ![p] = pos],
         pos.vested = position[p].vested, pos.permanent = position[p].permanent,
         position[p].open => pos.open
  PROVE  LockInv'
<1>1. \A q \in Positions : position'[q] = IF q = p THEN pos ELSE position[q]
  BY DEF IInv, TypeOK
<1> QED BY <1>1, LocksUntouched

\* A new position locks nothing.
LEMMA CreatePositionBacks ==
  ASSUME IInv, ClosedEmpty, LockInv, NEW p \in Positions, CreatePosition(p)
  PROVE  LockInv'
<1>1. /\ ~position[p].open /\ pool' = pool /\ vestings' = vestings
      /\ position' = [position EXCEPT ![p] = NewPosition(0)]
  BY DEF CreatePosition
<1>2. position[p].vested = 0 /\ position[p].permanent = 0
  BY <1>1 DEF ClosedEmpty, Holds
<1>3. NewPosition(0).vested = 0 /\ NewPosition(0).permanent = 0
  BY DEF NewPosition, NoPosition
<1> QED BY <1>1, <1>2, <1>3, LocksUntouchedAt

\* handle_close_position: an account that still has something to release
\* would show in the balance.
LEMMA ClosePositionBacks ==
  ASSUME IInv, VestInv, LockInv, NEW p \in Positions, ClosePosition(p)
  PROVE  LockInv'
<1>1. /\ pool' = pool /\ vestings' = vestings
      /\ position' = [position EXCEPT ![p] = NoPosition]
      /\ TotalLiquidity(position[p]) = 0
  BY DEF ClosePosition, IsEmpty
<1>2. position[p].vested = 0 /\ position[p].permanent = 0
  <2>1. position[p].unlocked \in Nat /\ position[p].vested \in Nat
        /\ position[p].permanent \in Nat
    BY DEF IInv, TypeOK, PositionRecord
  <2> QED BY <1>1, <2>1 DEF TotalLiquidity
<1>3. NoPosition.vested = 0 /\ NoPosition.permanent = 0
  BY DEF NoPosition
<1>4. \A q \in Positions :
        position'[q] = IF q = p THEN NoPosition ELSE position[q]
  BY <1>1 DEF IInv, TypeOK
<1>5. PositionSum(PermanentLiquidity') = PositionSum(PermanentLiquidity)
  <2>1. \A q \in Positions : PermanentLiquidity'[q] = PermanentLiquidity[q]
    BY <1>2, <1>3, <1>4 DEF PermanentLiquidity
  <2> QED BY <2>1, PositionSumSame
<1>6. Outstanding' = Outstanding /\ \A q \in Positions : VestingsOf(q)' = VestingsOf(q)
  BY <1>1 DEF Outstanding, VestingsOf, TotalLock
<1>7. LocksBacked'
  BY <1>1, <1>2, <1>3, <1>4, <1>5, <1>6 DEF LockInv, LocksBacked
<1>8. ASSUME NEW v \in vestings
      PROVE  v.position # p
  <2> SUFFICES ASSUME v.position = p
               PROVE  FALSE
    OBVIOUS
  <2>1. VestingsOf(p) \subseteq vestings /\ v \in VestingsOf(p)
    BY DEF VestingsOf
  <2>2. IsFiniteSet(VestingsOf(p))
    BY <2>1, FS_Subset DEF LockInv, VestingsHeld
  <2>3. \A w \in VestingsOf(p) : Outstanding[w] \in Nat \ {0}
    BY <2>1, OutstandingNat
  <2>4. Outstanding[v] <= Sum(Outstanding, VestingsOf(p))
    BY <2>1, <2>2, <2>3, SumNat
  <2>5. Sum(Outstanding, VestingsOf(p)) = 0
    BY <1>2 DEF LockInv, LocksBacked, Sum
  <2> QED BY <2>1, <2>3, <2>4, <2>5
<1>9. VestingsHeld'
  BY <1>1, <1>4, <1>8 DEF LockInv, VestingsHeld, IInv, TypeOK, VestingRecord
<1> QED BY <1>7, <1>9 DEF LockInv

\* The three instructions that settle one position, and the swap.
LEMMA SettledOneBacks ==
  ASSUME IInv, LockInv, NEW p \in Positions, NEW delta \in Nat,
         AddLiquidity(p, delta) \/ RemoveLiquidity(p, delta)
  PROVE  LockInv'
<1>1. /\ Settled(p) \in PositionRecord
      /\ Settled(p).vested = position[p].vested
      /\ Settled(p).permanent = position[p].permanent
      /\ Settled(p).open = position[p].open
  BY SettledSound
<1>2. PICK n \in Int :
        /\ position' = [position EXCEPT ![p] = [Settled(p) EXCEPT !.unlocked = n]]
        /\ vestings' = vestings /\ pool'.permanentLock = pool.permanentLock
  <2>1. Settled(p).unlocked \in Nat
    BY <1>1 DEF PositionRecord
  <2>2. CASE AddLiquidity(p, delta)
    <3>1. /\ position' = [position EXCEPT
                    ![p] = [Settled(p) EXCEPT !.unlocked = @ + delta]]
          /\ vestings' = vestings
      BY <2>2 DEF AddLiquidity
    <3>2. pool'.permanentLock = pool.permanentLock
      BY <2>2 DEF AddLiquidity, IInv, TypeOK, PoolRecord
    <3>3. Settled(p).unlocked + delta \in Int
      BY <2>1
    <3> QED BY <3>1, <3>2, <3>3
  <2>3. CASE RemoveLiquidity(p, delta)
    <3>1. /\ position' = [position EXCEPT
                    ![p] = [Settled(p) EXCEPT !.unlocked = @ - delta]]
          /\ vestings' = vestings
      BY <2>3 DEF RemoveLiquidity
    <3>2. pool'.permanentLock = pool.permanentLock
      BY <2>3 DEF RemoveLiquidity, IInv, TypeOK, PoolRecord
    <3>3. Settled(p).unlocked - delta \in Int
      BY <2>1
    <3> QED BY <3>1, <3>2, <3>3
  <2> QED BY <2>2, <2>3
<1> DEFINE first == Settled(p)
           pos == [first EXCEPT !.unlocked = n]
<1>3. pos.vested = position[p].vested /\ pos.permanent = position[p].permanent
      /\ pos.open = position[p].open
  <2> HIDE DEF first
  <2>1. first \in PositionRecord
    BY <1>1 DEF first
  <2>2. pos.vested = first.vested /\ pos.permanent = first.permanent
        /\ pos.open = first.open
    BY <2>1 DEF PositionRecord
  <2> QED BY <1>1, <2>2 DEF first
<1> HIDE DEF pos
<1> QED BY <1>2, <1>3, LocksUntouchedAt DEF pos

-----------------------------------------------------------------------------
\* What a split does, field by field: n, m, fee and rew move from p to q, and
\* both positions are settled first.
SplitMoves(p, q, n, m, fee, rew) ==
  /\ \A x \in Positions \ {p, q} : position'[x] = position[x]
  /\ position'[p].open /\ position'[q].open
  /\ position'[p].unlocked = position[p].unlocked - n
  /\ position'[q].unlocked = position[q].unlocked + n
  /\ position'[p].vested = position[p].vested
  /\ position'[q].vested = position[q].vested
  /\ position'[p].permanent = position[p].permanent - m
  /\ position'[q].permanent = position[q].permanent + m
  /\ \A t \in Tokens :
       /\ position'[p].feePending[t] = Settled(p).feePending[t] - fee[t]
       /\ position'[q].feePending[t] = Settled(q).feePending[t] + fee[t]
  /\ \A r \in Rewards :
       /\ position'[p].rewardPending[r] = Settled(p).rewardPending[r] - rew[r]
       /\ position'[q].rewardPending[r] = Settled(q).rewardPending[r] + rew[r]
  /\ \A x \in {p, q} :
       /\ position'[x].feeCheckpoint = Settled(x).feeCheckpoint
       /\ position'[x].rewardCheckpoint = Settled(x).rewardCheckpoint

\* What a split moves: free and permanently locked liquidity.
LEMMA SplitPositionMoves ==
  ASSUME IInv, NEW p \in Positions, NEW q \in Positions,
         NEW share \in SplitShares, SplitPosition(p, q, share)
  PROVE  \E n \in 0..position[p].unlocked, m \in 0..position[p].permanent,
            fee \in [Tokens -> Nat], rew \in [Rewards -> Nat] :
           SplitMoves(p, q, n, m, fee, rew)
<1> DEFINE first == Settled(p)
           second == Settled(q)
           moved == Moved(first, share)
           n == moved.unlocked
           m == moved.permanent
           pos == [first EXCEPT
                     !.unlocked = @ - n, !.permanent = @ - m,
                     !.feePending = [t \in Tokens |-> @[t] - moved.fee[t]],
                     !.rewardPending =
                       [r \in Rewards |-> @[r] - moved.reward[r]]]
           qos == [second EXCEPT
                     !.unlocked = @ + n, !.permanent = @ + m,
                     !.feePending = [t \in Tokens |-> @[t] + moved.fee[t]],
                     !.rewardPending =
                       [r \in Rewards |-> @[r] + moved.reward[r]]]
<1>1. /\ first \in PositionRecord /\ second \in PositionRecord
      /\ first.unlocked = position[p].unlocked
      /\ first.vested = position[p].vested
      /\ first.permanent = position[p].permanent
      /\ first.open = position[p].open
      /\ second.unlocked = position[q].unlocked
      /\ second.vested = position[q].vested
      /\ second.permanent = position[q].permanent
      /\ second.open = position[q].open
  BY SettledSound
<1>2. /\ p # q /\ position[p].open /\ position[q].open
      /\ position' = [position EXCEPT ![p] = pos, ![q] = qos]
      /\ ValidShare(share)
  BY DEF SplitPosition
<1>3. /\ n \in 0..position[p].unlocked /\ m \in 0..position[p].permanent
      /\ moved.fee \in [Tokens -> Nat] /\ moved.reward \in [Rewards -> Nat]
  <2>1. /\ share.unlocked \in 0..SplitDenominator
        /\ share.permanent \in 0..SplitDenominator
        /\ \A t \in Tokens : share.fee[t] \in 0..SplitDenominator
        /\ \A r \in Rewards : share.reward[r] \in 0..SplitDenominator
    BY <1>2 DEF ValidShare, Numerators
  <2>2. /\ first.unlocked \in Nat /\ first.permanent \in Nat
        /\ \A t \in Tokens : first.feePending[t] \in Nat
        /\ \A r \in Rewards : first.rewardPending[r] \in Nat
    BY <1>1 DEF PositionRecord
  <2> HIDE DEF first
  <2>3. /\ n = Part(first.unlocked, share.unlocked)
        /\ m = Part(first.permanent, share.permanent)
    BY DEF Moved
  <2>4. moved.fee \in [Tokens -> Nat]
    <3>1. \A t \in Tokens : Part(first.feePending[t], share.fee[t]) \in Nat
      BY <2>1, <2>2, PartBounds
    <3> QED BY <3>1 DEF Moved
  <2>5. moved.reward \in [Rewards -> Nat]
    <3>1. \A r \in Rewards : Part(first.rewardPending[r], share.reward[r]) \in Nat
      BY <2>1, <2>2, PartBounds
    <3> QED BY <3>1 DEF Moved
  <2> QED BY <1>1, <2>1, <2>2, <2>3, <2>4, <2>5, PartBounds
<1>4. /\ pos.open = first.open
      /\ pos.unlocked = first.unlocked - n
      /\ pos.vested = first.vested /\ pos.permanent = first.permanent - m
      /\ \A t \in Tokens : pos.feePending[t] = first.feePending[t] - moved.fee[t]
      /\ \A r \in Rewards :
           pos.rewardPending[r] = first.rewardPending[r] - moved.reward[r]
      /\ pos.feeCheckpoint = first.feeCheckpoint
      /\ pos.rewardCheckpoint = first.rewardCheckpoint
  <2> HIDE DEF moved, first
  <2> QED BY <1>1 DEF PositionRecord
<1>5. /\ qos.open = second.open
      /\ qos.unlocked = second.unlocked + n
      /\ qos.vested = second.vested /\ qos.permanent = second.permanent + m
      /\ \A t \in Tokens : qos.feePending[t] = second.feePending[t] + moved.fee[t]
      /\ \A r \in Rewards :
           qos.rewardPending[r] = second.rewardPending[r] + moved.reward[r]
      /\ qos.feeCheckpoint = second.feeCheckpoint
      /\ qos.rewardCheckpoint = second.rewardCheckpoint
  <2> HIDE DEF moved, second
  <2> QED BY <1>1 DEF PositionRecord
<1>6. /\ position'[p] = pos /\ position'[q] = qos
      /\ \A x \in Positions \ {p, q} : position'[x] = position[x]
  <2>1. position \in [Positions -> PositionRecord]
    BY DEF IInv, TypeOK
  <2> HIDE DEF pos, qos
  <2> QED BY <1>2, <2>1
<1>7. SplitMoves(p, q, n, m, moved.fee, moved.reward)
  <2> HIDE DEF pos, qos, moved, n, m
  <2> QED BY <1>1, <1>2, <1>4, <1>5, <1>6 DEF SplitMoves
<1> HIDE DEF moved, n, m
<1> QED BY <1>3, <1>7

\* A split moves permanent locks between positions, and neither is vested.
LEMMA SplitPositionBacks ==
  ASSUME IInv, LockInv, NEW p \in Positions, NEW q \in Positions,
         NEW share \in SplitShares, SplitPosition(p, q, share)
  PROVE  LockInv'
<1>1. PICK n \in 0..position[p].unlocked, m \in 0..position[p].permanent,
           fee \in [Tokens -> Nat], rew \in [Rewards -> Nat] :
        SplitMoves(p, q, n, m, fee, rew)
  BY SplitPositionMoves
<1>2. p # q /\ pool' = pool /\ vestings' = vestings
  BY DEF SplitPosition
<1>3. \A x \in Positions :
        /\ position'[x].vested = position[x].vested
        /\ position[x].open => position'[x].open
  BY <1>1 DEF SplitMoves
<1> DEFINE Was == PermanentLiquidity
           Is  == PermanentLiquidity'
<1>4. PositionSum(Is) = PositionSum(Was)
  <2>1. /\ Is[p] = Was[p] - m /\ Is[q] = Was[q] + m
        /\ \A x \in Positions \ {p, q} : Is[x] = Was[x]
    BY <1>1 DEF SplitMoves, PermanentLiquidity
  <2>2. \A x \in Positions : Was[x] \in Int
    BY DEF PermanentLiquidity, IInv, TypeOK, PositionRecord
  <2>3. m \in Int
    OBVIOUS
  <2> HIDE DEF Was, Is
  <2>4. PositionSum(Was) \in Int
    BY <2>2, PositionSumInt
  <2>5. /\ Was[p] \in Int /\ Was[q] \in Int
        /\ Is[p] \in Int /\ Is[q] \in Int
    BY <2>1, <2>2, <2>3
  <2>6. PositionSum(Is) = PositionSum(Was) + (Is[p] - Was[p]) + (Is[q] - Was[q])
    BY <1>2, <2>1, <2>2, <2>5, PositionSumChangeTwo
  <2>7. Is[p] - Was[p] = -m /\ Is[q] - Was[q] = m
    BY <2>1, <2>3, <2>5
  <2> QED BY <2>3, <2>4, <2>6, <2>7
<1>5. Outstanding' = Outstanding /\ \A x \in Positions : VestingsOf(x)' = VestingsOf(x)
  BY <1>2 DEF Outstanding, VestingsOf, TotalLock
<1>6. LocksBacked'
  BY <1>2, <1>3, <1>4, <1>5 DEF LockInv, LocksBacked
<1>7. VestingsHeld'
  BY <1>2, <1>3 DEF LockInv, VestingsHeld, IInv, TypeOK, VestingRecord
<1> QED BY <1>6, <1>7 DEF LockInv

\* handle_permanent_lock_position: the pool counts what the position locks.
LEMMA PermanentLockBacks ==
  ASSUME IInv, LockInv, NEW p \in Positions, NEW n \in Nat, PermanentLock(p, n)
  PROVE  LockInv'
<1> DEFINE pos == [position[p] EXCEPT !.unlocked = @ - n, !.permanent = @ + n]
<1>1. /\ position' = [position EXCEPT ![p] = pos]
      /\ vestings' = vestings
      /\ pool'.permanentLock = pool.permanentLock + n
  <2>1. position' = [position EXCEPT ![p] = pos]
    BY DEF PermanentLock, IInv, TypeOK, PositionRecord
  <2>2. pool'.permanentLock = pool.permanentLock + n
    BY DEF PermanentLock, IInv, TypeOK, PoolRecord
  <2> QED BY <2>1, <2>2 DEF PermanentLock
<1>2. /\ pos.vested = position[p].vested /\ pos.open = position[p].open
      /\ pos.permanent = position[p].permanent + n
  BY DEF IInv, TypeOK, PositionRecord
<1> HIDE DEF pos
<1>3. \A x \in Positions : position'[x] = IF x = p THEN pos ELSE position[x]
  BY <1>1 DEF IInv, TypeOK
<1> DEFINE Was == PermanentLiquidity
           Is  == PermanentLiquidity'
<1>4. PositionSum(Is) = PositionSum(Was) + n
  <2>1. Is[p] = Was[p] + n /\ \A x \in Positions \ {p} : Is[x] = Was[x]
    BY <1>2, <1>3 DEF PermanentLiquidity
  <2>2. \A x \in Positions : Was[x] \in Int
    BY DEF PermanentLiquidity, IInv, TypeOK, PositionRecord
  <2> HIDE DEF Was, Is
  <2>3. PositionSum(Was) \in Int
    BY <2>2, PositionSumInt
  <2>4. PositionSum(Is) = PositionSum(Was) + (Is[p] - Was[p])
    BY <2>1, <2>2, PositionSumChange
  <2> QED BY <2>1, <2>2, <2>3, <2>4
<1>5. Outstanding' = Outstanding /\ \A x \in Positions : VestingsOf(x)' = VestingsOf(x)
  BY <1>1 DEF Outstanding, VestingsOf, TotalLock
<1>6. LocksBacked'
  BY <1>1, <1>2, <1>3, <1>4, <1>5 DEF LockInv, LocksBacked
<1>7. VestingsHeld'
  BY <1>1, <1>2, <1>3 DEF LockInv, VestingsHeld, IInv, TypeOK, VestingRecord
<1> QED BY <1>6, <1>7 DEF LockInv

\* The accounts of each position when one is opened and another goes away:
\* each sum changes by what the two have still to release.
Unreleased == [q \in Positions |-> Sum(Outstanding, VestingsOf(q))]

VestingSwap(gone, new, p, a, b) ==
  /\ vestings' = (vestings \ gone) \cup new
  /\ \/ gone = {} /\ a = 0
     \/ \E v \in vestings :
          gone = {v} /\ v.position = p /\ a = Outstanding[v]
  /\ \/ new = {} /\ b = 0
     \/ \E w \in vestings' :
          /\ new = {w} /\ w.position = p /\ w \notin vestings
          /\ b = Outstanding'[w]

\* One vesting account is replaced by a later state of itself.
LEMMA VestingsReplaced ==
  ASSUME IInv, IInv', VestInv, VestInv', LockInv,
         NEW gone, NEW new, NEW p \in Positions, NEW a \in Int, NEW b \in Int,
         VestingSwap(gone, new, p, a, b)
  PROVE  /\ IsFiniteSet(vestings')
         /\ \A q \in Positions :
              Unreleased'[q] = Unreleased[q] + IF q = p THEN b - a ELSE 0
<1>0. /\ vestings' = (vestings \ gone) \cup new
      /\ \/ gone = {} /\ a = 0
         \/ \E v \in vestings :
              gone = {v} /\ v.position = p /\ a = Outstanding[v]
      /\ \/ new = {} /\ b = 0
         \/ \E w \in vestings' :
              /\ new = {w} /\ w.position = p /\ w \notin vestings
              /\ b = Outstanding'[w]
  BY DEF VestingSwap
<1> USE <1>0
<1>1. IsFiniteSet(vestings')
  <2>1. IsFiniteSet(vestings \ gone) /\ IsFiniteSet(new)
    BY FS_Subset, FS_Singleton, FS_EmptySet DEF LockInv, VestingsHeld
  <2> QED BY <2>1, FS_Union
<1> DEFINE f == Outstanding
           g == Outstanding'
<1>2. \A v \in vestings : f[v] \in Int
  BY OutstandingNat
<1>3. \A v \in vestings' : g[v] \in Int
  <2> SUFFICES ASSUME NEW v \in vestings'
               PROVE  g[v] \in Int
    OBVIOUS
  <2>1. v \in VestingRecord
    BY DEF IInv, TypeOK
  <2>2. TotalLock(v) \in Nat /\ v.released \in Nat
    BY <2>1, TotalLockNat, VestingFields
  <2>3. g[v] = TotalLock(v) - v.released
    BY DEF Outstanding, TotalLock
  <2> QED BY <2>2, <2>3
<1>4. \A v \in vestings : v \in vestings' => g[v] = f[v]
  BY DEF Outstanding, TotalLock
<1>5. \A q \in Positions :
        /\ IsFiniteSet(VestingsOf(q)) /\ IsFiniteSet(VestingsOf(q)')
        /\ VestingsOf(q) \subseteq vestings /\ VestingsOf(q)' \subseteq vestings'
  <2>1. \A q \in Positions :
          VestingsOf(q) \subseteq vestings /\ VestingsOf(q)' \subseteq vestings'
    BY DEF VestingsOf
  <2>2. IsFiniteSet(vestings)
    BY DEF LockInv, VestingsHeld
  <2> QED BY <1>1, <2>1, <2>2, FS_Subset
<1>6. ASSUME NEW q \in Positions \ {p}
      PROVE  Sum(g, VestingsOf(q)') = Sum(f, VestingsOf(q))
  <2>1. VestingsOf(q)' = VestingsOf(q)
    BY DEF VestingsOf
  <2>2. \A v \in VestingsOf(q) : g[v] = f[v]
    BY <1>4, <1>5, <2>1
  <2> HIDE DEF f, g
  <2> QED BY <1>5, <2>1, <2>2, SumSame
<1> DEFINE kept == VestingsOf(p) \ gone
<1>7. Sum(f, kept) = Sum(f, VestingsOf(p)) - a
  <2>1. \A v \in VestingsOf(p) : f[v] \in Int
    BY <1>2, <1>5
  <2>2. Sum(f, VestingsOf(p)) \in Int
    BY <1>5, <2>1, SumInt
  <2>3. CASE gone = {} /\ a = 0
    BY <2>2, <2>3
  <2>4. CASE \E v \in vestings : gone = {v} /\ v.position = p /\ a = f[v]
    <3>1. PICK v \in vestings : gone = {v} /\ v.position = p /\ a = f[v]
      BY <2>4
    <3>2. v \in VestingsOf(p)
      BY <3>1 DEF VestingsOf
    <3>3. Sum(f, VestingsOf(p)) = f[v] + Sum(f, VestingsOf(p) \ {v})
      BY <1>5, <2>1, <3>2, SumRemove
    <3>4. Sum(f, VestingsOf(p) \ {v}) \in Int
      <4>1. IsFiniteSet(VestingsOf(p) \ {v})
            /\ \A x \in VestingsOf(p) \ {v} : f[x] \in Int
        BY <1>5, <2>1, FS_Subset
      <4> HIDE DEF f
      <4> QED BY <4>1, SumInt
    <3> HIDE DEF f
    <3> QED BY <3>1, <3>3, <3>4
  <2> QED BY <2>3, <2>4
<1>8. Sum(g, kept) = Sum(f, kept)
  <2>1. \A v \in kept : v \in vestings /\ v \in vestings'
    BY DEF VestingsOf
  <2>2. IsFiniteSet(kept)
    BY <1>5, FS_Subset
  <2> HIDE DEF f, g, kept
  <2> QED BY <1>4, <2>1, <2>2, SumSame
<1>9. Sum(g, VestingsOf(p)') = Sum(g, kept) + b
  <2>1. \A v \in VestingsOf(p)' : g[v] \in Int
    BY <1>3, <1>5
  <2>2. CASE new = {} /\ b = 0
    <3>1. VestingsOf(p)' = kept
      BY <2>2 DEF VestingsOf
    <3>2. Sum(g, VestingsOf(p)') \in Int
      BY <1>5, <2>1, SumInt
    <3> HIDE DEF g, kept
    <3> QED BY <2>2, <3>1, <3>2
  <2>3. CASE \E w \in vestings' :
               new = {w} /\ w.position = p /\ w \notin vestings /\ b = g[w]
    <3>1. PICK w \in vestings' :
            new = {w} /\ w.position = p /\ w \notin vestings /\ b = g[w]
      BY <2>3
    <3>2. w \in VestingsOf(p)' /\ VestingsOf(p)' \ {w} = kept
      BY <3>1 DEF VestingsOf
    <3>3. IsFiniteSet(kept) /\ \A x \in kept : g[x] \in Int
      BY <1>5, <2>1, <3>2, FS_Subset
    <3> HIDE DEF g, kept
    <3>4. Sum(g, VestingsOf(p)') = g[w] + Sum(g, VestingsOf(p)' \ {w})
      BY <1>5, <2>1, <3>2, SumRemove
    <3>5. Sum(g, kept) \in Int
      BY <3>3, SumInt
    <3>6. Sum(g, VestingsOf(p)' \ {w}) = Sum(g, kept)
      BY <3>2
    <3>7. b = g[w]
      BY <3>1
    <3> QED BY <3>4, <3>5, <3>6, <3>7
  <2> QED BY <2>2, <2>3
<1>10. ASSUME NEW q \in Positions
       PROVE  Sum(f, VestingsOf(q)) \in Int
  BY <1>2, <1>5, SumInt
<1> HIDE DEF kept
<1>11. ASSUME NEW q \in Positions
       PROVE  Sum(g, VestingsOf(q)')
                = Sum(f, VestingsOf(q)) + IF q = p THEN b - a ELSE 0
  <2> HIDE DEF f, g
  <2>1. CASE q = p
    BY <1>7, <1>8, <1>9, <1>10, <2>1
  <2>2. CASE q # p
    BY <1>6, <1>10, <2>2
  <2> QED BY <2>1, <2>2
<1>12. \A q \in Positions : Unreleased'[q] = Sum(g, VestingsOf(q)')
  BY DEF Unreleased, Sum
<1> HIDE DEF f, g
<1> QED BY <1>1, <1>11, <1>12 DEF Unreleased, f

\* handle_lock_position: what becomes vested is what the new account has to
\* release.
LEMMA LockPositionBacks ==
  ASSUME IInv, IInv', VestInv, VestInv', LockInv,
         NEW p \in Positions, NEW id \in VestingIds,
         NEW s \in Schedules, LockPosition(p, id, s)
  PROVE  LockInv'
<1> DEFINE v == [id |-> id, position |-> p, cliff |-> s.cliff,
                 frequency |-> s.frequency, cliffUnlock |-> s.cliffUnlock,
                 perPeriod |-> s.perPeriod, periods |-> s.periods,
                 released |-> 0]
           n == TotalLock(v)
           pos == [position[p] EXCEPT !.unlocked = @ - n, !.vested = @ + n]
<1>1. /\ \A w \in vestings : w.id # id
      /\ vestings' = (vestings \ {}) \cup {v}
      /\ pool' = pool /\ position[p].open
  BY DEF LockPosition
<1>2. position' = [position EXCEPT ![p] = pos]
  BY DEF LockPosition, IInv, TypeOK, PositionRecord
<1>3. v \in VestingRecord /\ v.id = id /\ v.position = p /\ v.released = 0
  <2>1. /\ s.cliff \in Nat /\ s.frequency \in Nat /\ s.cliffUnlock \in Nat
        /\ s.perPeriod \in Nat /\ s.periods \in Nat
    BY InputAssumption
  <2> QED BY <2>1 DEF VestingRecord
<1> HIDE DEF v
<1>4. n \in Nat
  BY <1>3, TotalLockNat
<1>5. v \in vestings' /\ v \notin vestings
  BY <1>1, <1>3
<1>6. Outstanding'[v] = n
  BY <1>3, <1>4, <1>5 DEF Outstanding, TotalLock
<1>7. /\ IsFiniteSet(vestings')
      /\ \A q \in Positions :
           Unreleased'[q] = Unreleased[q] + IF q = p THEN n - 0 ELSE 0
  <2> HIDE DEF n
  <2>1. 0 \in Int /\ n \in Int
    BY <1>4
  <2>2. \E w \in vestings' :
          {v} = {w} /\ w.position = p /\ w \notin vestings /\ n = Outstanding'[w]
    BY <1>3, <1>5, <1>6
  <2>3. VestingSwap({}, {v}, p, 0, n)
    BY <1>1, <2>2 DEF VestingSwap
  <2> QED BY <2>1, <2>3, VestingsReplaced
<1> HIDE DEF n
<1>8. /\ pos.vested = position[p].vested + n /\ pos.open = position[p].open
      /\ pos.permanent = position[p].permanent
  BY DEF IInv, TypeOK, PositionRecord
<1> HIDE DEF pos
<1>9. \A x \in Positions : position'[x] = IF x = p THEN pos ELSE position[x]
  BY <1>2 DEF IInv, TypeOK
<1>10. PositionSum(PermanentLiquidity') = PositionSum(PermanentLiquidity)
  <2>1. \A x \in Positions : PermanentLiquidity'[x] = PermanentLiquidity[x]
    BY <1>8, <1>9 DEF PermanentLiquidity
  <2> QED BY <2>1, PositionSumSame
<1>11. \A x \in Positions :
         position'[x].vested = Unreleased'[x]
  <2>1. \A x \in Positions :
          /\ position[x].vested = Unreleased[x]
          /\ position[x].vested \in Nat
    BY DEF LockInv, LocksBacked, Unreleased, Sum, IInv, TypeOK, PositionRecord
  <2> SUFFICES ASSUME NEW x \in Positions
               PROVE  position'[x].vested = Unreleased'[x]
    OBVIOUS
  <2>2. CASE x = p
    BY <1>4, <1>7, <1>8, <1>9, <2>1, <2>2
  <2>3. CASE x # p
    BY <1>7, <1>9, <2>1, <2>3
  <2> QED BY <2>2, <2>3
<1>12. LocksBacked'
  BY <1>1, <1>10, <1>11 DEF LockInv, LocksBacked, Unreleased, Sum
<1>13. VestingsHeld'
  BY <1>1, <1>3, <1>7, <1>8, <1>9
     DEF LockInv, VestingsHeld, IInv, TypeOK, VestingRecord
<1> QED BY <1>12, <1>13 DEF LockInv

\* handle_refresh_vesting: the balance falls by what the account releases,
\* and an account that is closed has nothing left.
LEMMA RefreshVestingBacks ==
  ASSUME IInv, IInv', VestInv, VestInv', LockInv,
         NEW v \in vestings, RefreshVesting(v)
  PROVE  LockInv'
<1> DEFINE p == v.position
           n == NewRelease(v)
           w == [v EXCEPT !.released = @ + n]
           new == IF w.released = TotalLock(w) THEN {} ELSE {w}
           pos == [position[p] EXCEPT !.unlocked = @ + n, !.vested = @ - n]
<1>1. /\ vestings' = (vestings \ {v}) \cup new
      /\ pool' = pool /\ position[p].open /\ n > 0
  BY DEF RefreshVesting
<1>2. v \in VestingRecord /\ p \in Positions
  BY DEF IInv, TypeOK, VestingRecord
<1>3. /\ v.released \in Nat /\ TotalLock(v) \in Nat /\ n \in Int
  <2>1. v.released \in Nat /\ TotalLock(v) \in Nat /\ MaxUnlocked(v, now) \in Nat
    BY <1>2, TotalLockNat, VestingFields, MaxUnlockedNat
  <2> QED BY <2>1 DEF NewRelease
<1>4. position' = [position EXCEPT ![p] = pos]
  BY <1>2 DEF RefreshVesting, IInv, TypeOK, PositionRecord
<1> HIDE DEF n
<1>5. /\ w.released = v.released + n /\ w.position = p /\ w.id = v.id
      /\ w.cliffUnlock = v.cliffUnlock /\ w.perPeriod = v.perPeriod
      /\ w.periods = v.periods
  BY <1>2 DEF VestingRecord
<1> HIDE DEF w
<1>6. TotalLock(w) = TotalLock(v)
  BY <1>5 DEF TotalLock
<1>7. w \notin vestings
  <2>1. w # v
    BY <1>1, <1>3, <1>5
  <2> QED BY <1>5, <2>1 DEF VestInv, ReleasesOnSchedule
<1> DEFINE a == TotalLock(v) - v.released
           b == a - n
<1>8. a \in Int /\ b \in Int
  BY <1>3
<1>9. Outstanding[v] = a
  BY DEF Outstanding
<1>10. \/ new = {} /\ b = 0
       \/ \E x \in vestings' :
            /\ new = {x} /\ x.position = p /\ x \notin vestings
            /\ b = Outstanding'[x]
  <2>1. CASE w.released = TotalLock(w)
    BY <1>3, <1>5, <1>6, <2>1
  <2>2. CASE w.released # TotalLock(w)
    <3>1. new = {w} /\ w \in vestings'
      BY <1>1, <2>2
    <3>2. Outstanding'[w] = b
      <4>1. Outstanding'[w] = TotalLock(w) - w.released
        BY <3>1 DEF Outstanding, TotalLock
      <4> QED BY <1>3, <1>5, <1>6, <4>1
    <3> QED BY <1>5, <1>7, <3>1, <3>2
  <2> QED BY <2>1, <2>2
<1>11. /\ IsFiniteSet(vestings')
       /\ \A q \in Positions :
            Unreleased'[q] = Unreleased[q] + IF q = p THEN b - a ELSE 0
  <2>1. \/ {v} = {} /\ a = 0
        \/ \E x \in vestings : {v} = {x} /\ x.position = p /\ a = Outstanding[x]
    BY <1>9
  <2>2. vestings' = (vestings \ {v}) \cup new
    BY <1>1
  <2> HIDE DEF p, new, a, b
  <2>3. VestingSwap({v}, new, p, a, b)
    BY <1>10, <2>1, <2>2 DEF VestingSwap
  <2> QED BY <1>2, <1>8, <2>3, VestingsReplaced
<1>12. b - a = -n
  BY <1>3
<1> HIDE DEF a, b
<1>13. /\ pos.vested = position[p].vested - n /\ pos.open = position[p].open
       /\ pos.permanent = position[p].permanent
  BY <1>2 DEF IInv, TypeOK, PositionRecord
<1> HIDE DEF pos
<1>14. \A x \in Positions : position'[x] = IF x = p THEN pos ELSE position[x]
  BY <1>4 DEF IInv, TypeOK
<1> HIDE DEF p
<1>15. PositionSum(PermanentLiquidity') = PositionSum(PermanentLiquidity)
  <2>1. \A x \in Positions : PermanentLiquidity'[x] = PermanentLiquidity[x]
    BY <1>13, <1>14 DEF PermanentLiquidity
  <2> QED BY <2>1, PositionSumSame
<1>16. \A x \in Positions :
         position'[x].vested = Unreleased'[x]
  <2>1. \A x \in Positions :
          /\ position[x].vested = Unreleased[x]
          /\ position[x].vested \in Nat
    BY DEF LockInv, LocksBacked, Unreleased, Sum, IInv, TypeOK, PositionRecord
  <2> SUFFICES ASSUME NEW x \in Positions
               PROVE  position'[x].vested = Unreleased'[x]
    OBVIOUS
  <2>2. CASE x = p
    BY <1>3, <1>11, <1>12, <1>13, <1>14, <2>1, <2>2
  <2>3. CASE x # p
    BY <1>11, <1>14, <2>1, <2>3
  <2> QED BY <2>2, <2>3
<1>17. LocksBacked'
  BY <1>1, <1>15, <1>16 DEF LockInv, LocksBacked, Unreleased, Sum
<1>18. VestingsHeld'
  <2>1. \A x \in vestings' : x \in vestings \/ x = w
    BY <1>1
  <2>2. \A x \in vestings : x.position \in Positions /\ position[x.position].open
    BY DEF LockInv, VestingsHeld, IInv, TypeOK, VestingRecord
  <2>3. \A x \in Positions : position[x].open => position'[x].open
    BY <1>13, <1>14
  <2>4. w.position \in Positions /\ position[w.position].open
    BY <1>1, <1>2, <1>5
  <2> QED BY <1>11, <2>1, <2>2, <2>3, <2>4 DEF VestingsHeld
<1> QED BY <1>17, <1>18 DEF LockInv

\* Claims settle a position and pay it.
LEMMA ClaimsBack ==
  ASSUME IInv, LockInv, ClaimStep
  PROVE  LockInv'
<1>1. ASSUME NEW p \in Positions, ClaimPositionFee(p)
      PROVE  LockInv'
  <2> DEFINE pos == [SettleFees(position[p]) EXCEPT
                       !.feePending = [t \in Tokens |-> 0]]
  <2>1. /\ position' = [position EXCEPT ![p] = pos]
        /\ pool' = pool /\ vestings' = vestings
    BY <1>1 DEF ClaimPositionFee
  <2>2. /\ SettleFees(position[p]) \in PositionRecord
        /\ SettleFees(position[p]).vested = position[p].vested
        /\ SettleFees(position[p]).permanent = position[p].permanent
        /\ SettleFees(position[p]).open = position[p].open
    <3>1. /\ position[p] \in PositionRecord /\ pool \in PoolRecord
          /\ \A t \in Tokens :
               position[p].feeCheckpoint[t] <= pool.feePerLiquidity[t]
      BY DEF IInv, TypeOK, NoUnderflow, FeeCheckpointsBehind
    <3> QED BY <3>1, SettleFeesSound
  <2>3. /\ pos.open = position[p].open /\ pos.vested = position[p].vested
        /\ pos.permanent = position[p].permanent
    BY <2>2 DEF PositionRecord
  <2> HIDE DEF pos
  <2> QED BY <2>1, <2>3, LocksUntouchedAt
<1>2. ASSUME NEW max, ClaimProtocolFee(max) \/ ClaimPartnerFee(max)
      PROVE  LockInv'
  <2>1. /\ position' = position /\ vestings' = vestings
        /\ \/ pool' = [pool EXCEPT !.protocolFee =
                         [t \in Tokens |-> @[t] - Claimed(pool.protocolFee, max)[t]]]
           \/ pool' = [pool EXCEPT !.partnerFee =
                         [t \in Tokens |-> @[t] - Claimed(pool.partnerFee, max)[t]]]
    BY <1>2 DEF ClaimProtocolFee, ClaimPartnerFee
  <2>2. pool'.permanentLock = pool.permanentLock
    BY <2>1 DEF IInv, TypeOK, PoolRecord
  <2> QED BY <2>1, <2>2, LocksUntouched
<1> QED BY <1>1, <1>2 DEF ClaimStep, ZapProtocolFee

\* The instructions of rewards lock and release nothing.
LEMMA RewardStepsBack ==
  ASSUME IInv, LockInv, RewardStep
  PROVE  LockInv'
<1>1. pool' = pool /\ vestings' = vestings
  BY DEF RewardStep, InitializeReward, UpdateRewardDuration, FundReward,
         WithdrawIneligibleReward, ClaimReward, ToggleFreeze
<1>2. CASE position' = position
  BY <1>1, <1>2, LocksUntouched
<1>3. ASSUME NEW p \in Positions, NEW r \in Rewards, NEW skip \in BOOLEAN,
             ClaimReward(p, r, skip)
      PROVE  LockInv'
  <2> DEFINE settled == SettleRewards(position[p], AccruedRewards)
             pos == [settled EXCEPT !.rewardPending[r] = 0]
  <2>1. position' = [position EXCEPT ![p] = pos]
    BY <1>3 DEF ClaimReward
  <2>2. /\ settled.vested = position[p].vested
        /\ settled.permanent = position[p].permanent
        /\ settled.open = position[p].open
    BY DEF SettleRewards, IInv, TypeOK, PositionRecord
  <2>3. settled \in [open : BOOLEAN, unlocked : Nat, vested : Nat,
                     permanent : Nat, feePending : [Tokens -> Nat],
                     feeCheckpoint : [Tokens -> Nat],
                     rewardPending : {settled.rewardPending},
                     rewardCheckpoint : {settled.rewardCheckpoint}]
    BY ZenonT(60) DEF SettleRewards, IInv, TypeOK, PositionRecord
  <2> HIDE DEF settled
  <2>4. /\ pos.open = position[p].open /\ pos.vested = position[p].vested
        /\ pos.permanent = position[p].permanent
    BY <2>2, <2>3
  <2> HIDE DEF pos
  <2> QED BY <1>1, <2>1, <2>4, LocksUntouchedAt
<1>4. position' = position
        \/ \E p \in Positions, r \in Rewards, skip \in BOOLEAN :
             ClaimReward(p, r, skip)
  BY DEF RewardStep, InitializeReward, UpdateRewardDuration, FundReward,
         WithdrawIneligibleReward, ToggleFreeze
<1> QED BY <1>2, <1>3, <1>4

\* Every instruction keeps the locks backed.
LEMMA EveryStepBacks ==
  ASSUME IInv, IInv', VestInv, VestInv', ClosedEmpty, LockInv,
         [SwapStep(TradeFeeRecord) \/ OtherStep]_vars
  PROVE  LockInv'
<1>1. CASE PositionStep
  <2>1. ASSUME NEW p \in Positions, CreatePosition(p) \/ ClosePosition(p)
        PROVE  LockInv'
    BY <2>1, CreatePositionBacks, ClosePositionBacks
  <2>2. ASSUME NEW p \in Positions, NEW d \in LiquidityDeltas,
               AddLiquidity(p, d) \/ RemoveLiquidity(p, d)
        PROVE  LockInv'
    BY <2>2, InputAssumption, SettledOneBacks
  <2>3. ASSUME NEW p \in Positions, RemoveLiquidity(p, position[p].unlocked)
        PROVE  LockInv'
    <3>1. position[p].unlocked \in Nat
      BY DEF IInv, TypeOK, PositionRecord
    <3> QED BY <2>3, <3>1, SettledOneBacks
  <2>4. ASSUME NEW p \in Positions, NEW q \in Positions, NEW s \in SplitShares,
               SplitPosition(p, q, s)
        PROVE  LockInv'
    BY <2>4, SplitPositionBacks
  <2>5. ASSUME NEW p \in Positions, NEW id \in VestingIds,
               NEW s \in Schedules, LockPosition(p, id, s)
        PROVE  LockInv'
    BY <2>5, LockPositionBacks
  <2>6. ASSUME NEW v \in vestings, RefreshVesting(v)
        PROVE  LockInv'
    BY <2>6, RefreshVestingBacks
  <2>7. ASSUME NEW p \in Positions, NEW n \in LockAmounts, PermanentLock(p, n)
        PROVE  LockInv'
    BY <2>7, InputAssumption, PermanentLockBacks
  <2> QED BY <1>1, <2>1, <2>2, <2>3, <2>4, <2>5, <2>6, <2>7 DEF PositionStep
<1>2. CASE SwapStep(TradeFeeRecord)
  <2>1. /\ position' = position /\ vestings' = vestings
        /\ \E next, token, split : pool' = ApplySwap(next, token, split)
    BY <1>2 DEF SwapStep, Swap
  <2>2. pool'.permanentLock = pool.permanentLock
    BY <2>1 DEF ApplySwap, IInv, TypeOK, PoolRecord
  <2> QED BY <2>1, <2>2, LocksUntouched
<1>3. CASE StatusStep
  <2>1. /\ position' = position /\ vestings' = vestings
        /\ \E b \in Statuses : pool' = [pool EXCEPT !.enabled = b]
    BY <1>3 DEF StatusStep, SetPoolStatus
  <2>2. pool'.permanentLock = pool.permanentLock
    BY <2>1 DEF IInv, TypeOK, PoolRecord
  <2> QED BY <2>1, <2>2, LocksUntouched
<1>4. CASE Tick \/ UNCHANGED vars
  <2>1. position' = position /\ vestings' = vestings /\ pool' = pool
    BY <1>4 DEF Tick, vars
  <2> QED BY <2>1, LocksUntouched
<1> QED BY <1>1, <1>2, <1>3, <1>4, ClaimsBack, RewardStepsBack DEF OtherStep

\* A pool starts without any lock.
LEMMA InitBacked ==
  ASSUME Init
  PROVE  LockInv
<1>1. /\ vestings = {} /\ pool.permanentLock = 0
      /\ \A p \in Positions :
           position[p].vested = 0 /\ position[p].permanent = 0
  BY DEF Init, InitialState, InitializePool, InitialPool, NewPosition, NoPosition
<1>2. PositionSum(PermanentLiquidity) = 0
  <2>1. \A p \in Positions : PermanentLiquidity[p] = 0
    BY <1>1 DEF PermanentLiquidity
  <2> QED BY <2>1, PositionSumZero
<1>3. \A p \in Positions : SumFunctionOnSet(Outstanding, VestingsOf(p)) = 0
  <2>1. \A p \in Positions : VestingsOf(p) = {}
    BY <1>1 DEF VestingsOf
  <2> QED BY <2>1, SumEmpty DEF Sum
<1> QED BY <1>1, <1>2, <1>3, FS_EmptySet DEF LockInv, LocksBacked, VestingsHeld

\* Locks stay backed after any instructions and whatever the trade fees.
THEOREM AnyFeeLocksBacked == AnyFeeSpec => [](LockInv /\ VestInv)
<1>1. Init => ClosedEmpty /\ VestInv /\ LockInv
  BY InitImplements, InitVests, InitBacked
<1>2. IInv /\ IInv' /\ ClosedEmpty /\ VestInv /\ LockInv
        /\ [SwapStep(TradeFeeRecord) \/ OtherStep]_vars
        => ClosedEmpty' /\ VestInv' /\ LockInv'
  <2> SUFFICES ASSUME IInv, IInv', ClosedEmpty, VestInv, LockInv,
                      [SwapStep(TradeFeeRecord) \/ OtherStep]_vars
               PROVE  ClosedEmpty' /\ VestInv' /\ LockInv'
    OBVIOUS
  <2>1. ClosedEmpty' /\ VestInv'
    BY StepImplements, EveryStepVests DEF Implements
  <2> QED BY <2>1, EveryStepBacks
<1> QED BY <1>1, <1>2, AnyFeeInvariantHolds, PTL DEF AnyFeeSpec

\* What a position holds as vested is what its vesting accounts have still to
\* release, and the pool counts every permanent lock, wherever splits have
\* moved it (lock_position, release_vested_liquidity, permanent_lock_liquidity
\* and apply_split_position).
THEOREM LocksBackedHolds == Spec => []LocksBacked
<1>1. LockInv => LocksBacked
  BY DEF LockInv
<1> QED BY <1>1, AnyFeeCovers, AnyFeeLocksBacked, PTL

\* No vesting account is ahead of its schedule, or left behind by a position
\* that was closed (handle_close_position looks at the balances only).
THEOREM SchedulesSoundHolds == Spec => []SchedulesSound
<1>1. LockInv /\ VestInv => SchedulesSound
  BY DEF LockInv, VestingsHeld, VestInv, SchedulesSound
<1> QED BY <1>1, AnyFeeCovers, AnyFeeLocksBacked, PTL
===============================================================================
