---------------------------- MODULE ZapTransaction ----------------------------
(***************************************************************************)
(* What becomes of a protocol fee that an operator takes with              *)
(* zap_protocol_fee: the fee goes to the operator's own token account and  *)
(* the next instruction of the same transaction, which must be one of the  *)
(* zap program, has to send it on to the treasury.                         *)
(*                                                                         *)
(* A transaction is run instruction by instruction; `next` is the one to   *)
(* run now, and the one after it, which the program may look at, is chosen *)
(* when it is run.  An instruction that fails ends the transaction and     *)
(* undoes it.  The zap program is external: its behaviour is taken from    *)
(* the comments and checks of process_zap_protocol_fee.rs.                 *)
(***************************************************************************)
EXTENDS Naturals, FiniteSets

CONSTANTS
  Owed,          \* protocol fees the pool owes in the token
  Own,           \* what the operator has of it before
  MaxSteps       \* bound on the length of a transaction

ASSUME ZapAssumption ==
  Owed \in Nat /\ Own \in Nat /\ MaxSteps \in Nat

\* The operator's associated token account, another one of its own, and the
\* treasury's accounts of the tokens a fee may be swapped to.
OperatorAccounts == {"ata", "other"}
Destinations     == {"treasury", "elsewhere"}

Claims == [kind : {"claim"}, max : 1..Owed]

\* ZapOutParameters and the accounts given to the zap program: `user` is the
\* account whose gain it measures, `source` and `destination` those of the
\* swap; `placed` says whether the amount lands in the swap's own data.
Zaps == [kind : {"zap"}, percentage : {50, 100}, pre : 0..(Own + Owed),
         max : 1..Owed, user : OperatorAccounts, source : OperatorAccounts,
         destination : Destinations, placed : BOOLEAN]

Moves == [kind : {"move"}, from : OperatorAccounts]
Done  == [kind |-> "done"]

Instructions == Claims \cup Zaps \cup Moves \cup {Done}

VARIABLES
  next,       \* the instruction to run
  owed,       \* what is left of the fees
  balance,    \* of the operator's accounts
  sent,       \* what zaps have swapped for each destination
  steps       \* instructions run

zapVars == <<next, owed, balance, sent, steps>>

Less(x, y) == IF x < y THEN x ELSE y

-----------------------------------------------------------------------------
\* A wrong version the runs must tell from the right one: the balance the
\* zap program subtracts is not compared.
ZapMatchesAnyBalance(zap, taken) ==
  /\ zap.kind = "zap"
  /\ zap.percentage = 100
  /\ zap.placed
  /\ zap.max = taken
  /\ zap.user = "ata" /\ zap.source = "ata"
  /\ zap.destination = "treasury"

\* search_and_validate_zap_out_instruction and validate_zap_parameters, on
\* the balance before the fee arrives.
ZapMatches(zap, taken) ==
  /\ zap.kind = "zap"
  /\ zap.percentage = 100
  /\ zap.placed
  /\ zap.pre = balance["ata"]
  /\ zap.max = taken
  /\ zap.user = "ata" /\ zap.source = "ata"
  /\ zap.destination = "treasury"

\* handle_zap_protocol_fee, as a top-level instruction.
Claim(after) ==
  LET taken == Less(next.max, owed)
  IN  /\ next.kind = "claim"
      /\ taken > 0
      /\ ZapMatches(after, taken)
      /\ owed' = owed - taken
      /\ balance' = [balance EXCEPT !["ata"] = @ + taken]
      /\ UNCHANGED sent

\* The zap program: what the user's account has gained, at most `max` and the
\* given part of it, is swapped; nothing to swap is no error.
ZapOut ==
  LET gain   == Less(((balance[next.user] - next.pre) * next.percentage) \div 100,
                     next.max)
      amount == IF next.placed THEN gain ELSE 0
  IN  /\ next.kind = "zap"
      /\ next.pre <= balance[next.user]
      /\ amount <= balance[next.source]
      /\ balance' = [balance EXCEPT ![next.source] = @ - amount]
      /\ sent' = [sent EXCEPT ![next.destination] = @ + amount]
      /\ UNCHANGED owed

\* Anything else the operator does with its tokens.
Move ==
  /\ next.kind = "move"
  /\ balance[next.from] > 0
  /\ balance' = [a \in OperatorAccounts |->
                   IF a = next.from THEN balance[a] - 1 ELSE balance[a] + 1]
  /\ UNCHANGED <<owed, sent>>

ZapInit ==
  /\ next \in Instructions
  /\ owed = Owed
  /\ balance \in {b \in [OperatorAccounts -> 0..Own] :
                    b["ata"] + b["other"] = Own}
  /\ sent = [d \in Destinations |-> 0]
  /\ steps = 0

Run(after) ==
  /\ steps < MaxSteps
  /\ steps' = steps + 1
  /\ next' = after
  /\ Claim(after) \/ ZapOut \/ Move

ZapNext == \E after \in Instructions : Run(after)

ZapSpec == ZapInit /\ [][ZapNext]_zapVars

-----------------------------------------------------------------------------
\* Whenever a transaction ends, or goes on with anything but a zap, all fees
\* it has taken are with the treasury: no balance the operator had before,
\* and no account it names, lets it keep or divert a part of them.
FeesReachTreasury ==
  next.kind # "zap" => sent["treasury"] >= Owed - owed
=============================================================================
