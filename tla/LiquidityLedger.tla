--------------------------- MODULE LiquidityLedger ---------------------------
(***************************************************************************)
(* What a pool promises about liquidity, without prices, fees, tokens or   *)
(* time: every unit belongs to one holder, is free, vested or locked for   *)
(* ever, only free liquidity can be burnt, and what is locked for ever can *)
(* change hands but never be freed.                                        *)
(***************************************************************************)
EXTENDS Integers

CONSTANT Holders

VARIABLES
  free, vested, locked,   \* liquidity of each holder, by class
  supply                  \* the liquidity the pool trades with

ledgerVars == <<free, vested, locked, supply>>

Add(f, p, n) == [f EXCEPT ![p] = @ + n]

LedgerInit ==
  /\ vested = [p \in Holders |-> 0]
  /\ locked = [p \in Holders |-> 0]
  /\ supply \in Nat
  /\ \E p \in Holders : free = [q \in Holders |-> IF q = p THEN supply ELSE 0]

\* A holder gets all that the supply grows by.
Mint(p) ==
  /\ supply' \in Nat
  /\ supply' > supply
  /\ free' = Add(free, p, supply' - supply)
  /\ UNCHANGED <<vested, locked>>

Burn(p, n) ==
  /\ free' = Add(free, p, -n)
  /\ supply' = supply - n
  /\ UNCHANGED <<vested, locked>>

Vest(p, n) ==
  /\ free' = Add(free, p, -n)
  /\ vested' = Add(vested, p, n)
  /\ UNCHANGED <<locked, supply>>

Release(p, n) ==
  /\ free' = Add(free, p, n)
  /\ vested' = Add(vested, p, -n)
  /\ UNCHANGED <<locked, supply>>

LockForEver(p, n) ==
  /\ free' = Add(free, p, -n)
  /\ locked' = Add(locked, p, n)
  /\ UNCHANGED <<vested, supply>>

Move(p, q, n, m) ==
  /\ p # q
  /\ free' = Add(Add(free, p, -n), q, n)
  /\ locked' = Add(Add(locked, p, -m), q, m)
  /\ UNCHANGED <<vested, supply>>

\* Nobody moves more than there is.
LedgerNext ==
  \/ \E p \in Holders : Mint(p)
  \/ \E p \in Holders : \E n \in 0..free[p] :
        Burn(p, n) \/ Vest(p, n) \/ LockForEver(p, n)
  \/ \E p \in Holders : \E n \in 0..vested[p] : Release(p, n)
  \/ \E p, q \in Holders : \E n \in 0..free[p], m \in 0..locked[p] :
        Move(p, q, n, m)

LedgerSpec == LedgerInit /\ [][LedgerNext]_ledgerVars
=============================================================================
