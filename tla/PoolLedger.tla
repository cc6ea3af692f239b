------------------------------ MODULE PoolLedger ------------------------------
(***************************************************************************)
(* The pool implements the liquidity ledger: holders are the position      *)
(* accounts, open or not, and the three classes of a holder's liquidity    *)
(* are the three balances of a position.                                   *)
(***************************************************************************)
EXTENDS CpAmm

Free   == [p \in Positions |-> position[p].unlocked]
Vested == [p \in Positions |-> position[p].vested]
Locked == [p \in Positions |-> position[p].permanent]

Ledger == INSTANCE LiquidityLedger WITH
  Holders <- Positions,
  free    <- Free,
  vested  <- Vested,
  locked  <- Locked,
  supply  <- pool.liquidity

\* Every instruction of the program is one step of the ledger, or none: what
\* handlers do to a position's balances and to the liquidity of the pool in
\* different files fits together.
LedgerRefined == Ledger!LedgerSpec
=============================================================================
