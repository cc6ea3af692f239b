--------------------------- MODULE SwapTransaction ---------------------------
(***************************************************************************)
(* The single-swap rule of a rate-limited pool                             *)
(* (validate_single_swap_instruction): within a transaction, purchases     *)
(* from the pool cannot be cut into smaller ones.                          *)
(*                                                                         *)
(* A transaction is a list of top-level instructions; each may call other  *)
(* programs, which may call others.  A call only reaches pools that its    *)
(* caller was given.  The rule sees the top-level instructions, the height *)
(* of the stack and the calls its own caller has made before.  An          *)
(* instruction that fails ends the transaction: nothing of it remains.     *)
(***************************************************************************)
EXTENDS Naturals, Sequences

CONSTANTS
  Pools,                \* pools with a rate limiter in its window
  Programs,             \* programs that may call this one
  Whitelist,            \* RATE_LIMITER_STACK_WHITELIST_PROGRAMS
  MaxStack,             \* the runtime's limit of nested calls
  MaxTopLevel,          \* bound on the length of a transaction
  MaxSwaps              \* bound on the swaps tried

ASSUME TransactionAssumption ==
  /\ Whitelist \subseteq Programs
  /\ "amm" \notin Programs
  /\ MaxStack \in Nat /\ MaxTopLevel \in Nat /\ MaxSwaps \in Nat

VARIABLES
  earlier,    \* finished top-level instructions: [program, pools, swapped]
  stack,      \* programs being run: [program, pools, swapped by its calls]
  swaps       \* the swaps of the transaction, in order (a history)

vars == <<earlier, stack, swaps>>

Frame(program, pools) ==
  [program |-> program, pools |-> pools, swapped |-> {}]

Top == stack[Len(stack)]

\* The program of the current top-level instruction when a swap runs that is
\* called by the stack, or is itself top-level.
TopLevelProgram == IF stack = <<>> THEN "amm" ELSE stack[1].program

\* get_stack_height of an instruction called now.
Height == Len(stack) + 1

\* A wrong version the runs must tell from the right one: one level more.
NotNestedLoose ==
  Height > 3 => TopLevelProgram \in Whitelist

\* A call deeper than a direct one is refused, except under the whitelist.
NotNested ==
  Height > 2 => TopLevelProgram \in Whitelist

\* get_processed_sibling_instruction: no swap of the pool among the calls
\* that the same caller made before.
NoSibling(p) == p \notin Top.swapped

\* No earlier top-level instruction swapped on the pool, and none of another
\* program was even given the pool.
NoneEarlier(p) ==
  \A i \in 1..Len(earlier) :
    IF earlier[i].program = "amm" THEN p \notin earlier[i].swapped
                                  ELSE p \notin earlier[i].pools

\* validate_single_swap_instruction
SingleSwapAllowed(p) ==
  /\ stack # <<>> => NotNested /\ NoSibling(p)
  /\ NoneEarlier(p)

-----------------------------------------------------------------------------
Init == earlier = <<>> /\ stack = <<>> /\ swaps = <<>>

Index == Len(earlier) + 1     \* of the current top-level instruction

\* A top-level instruction of another program, given some pools.
Start(program, pools) ==
  /\ stack = <<>>
  /\ Index <= MaxTopLevel
  /\ stack' = <<Frame(program, pools)>>
  /\ UNCHANGED <<earlier, swaps>>

\* It calls a program and passes on some of the pools it was given.
Call(program, pools) ==
  /\ stack # <<>>
  /\ Len(stack) < MaxStack
  /\ pools \subseteq Top.pools
  /\ stack' = Append(stack, Frame(program, pools))
  /\ UNCHANGED <<earlier, swaps>>

Return ==
  /\ stack # <<>>
  /\ stack' = SubSeq(stack, 1, Len(stack) - 1)
  /\ earlier' = IF Len(stack) = 1 THEN Append(earlier, stack[1]) ELSE earlier
  /\ UNCHANGED swaps

\* A swap on pool p, top-level or called; purchases are `limited`, sales are
\* not.
Swap(p, limited) ==
  /\ Len(swaps) < MaxSwaps
  /\ Index <= MaxTopLevel
  /\ IF stack = <<>> THEN TRUE ELSE Len(stack) < MaxStack /\ p \in Top.pools
  /\ limited => SingleSwapAllowed(p)
  /\ swaps' = Append(swaps, [pool |-> p, limited |-> limited, index |-> Index,
                             under |-> TopLevelProgram])
  /\ IF stack = <<>>
       THEN /\ earlier' = Append(earlier, [program |-> "amm", pools |-> {p},
                                           swapped |-> {p}])
            /\ UNCHANGED stack
       ELSE /\ stack' = [stack EXCEPT ![Len(stack)].swapped = @ \cup {p}]
            /\ UNCHANGED earlier

Next ==
  \/ \E program \in Programs, pools \in SUBSET Pools :
       Start(program, pools) \/ Call(program, pools)
  \/ Return
  \/ \E p \in Pools, limited \in BOOLEAN : Swap(p, limited)

Spec == Init /\ [][Next]_vars

-----------------------------------------------------------------------------
\* No transaction buys from a rate-limited pool twice, nor buys after having
\* swapped on it in an earlier instruction, however the calls are nested: the
\* one exception is two purchases inside one instruction of a whitelisted
\* program (CHANGELOG 0.1.5 and 0.1.7).
SinglePurchase ==
  \A j \in 1..Len(swaps) : \A i \in 1..(j - 1) :
    swaps[j].limited /\ swaps[i].pool = swaps[j].pool =>
      /\ swaps[i].index = swaps[j].index
      /\ swaps[i].limited => swaps[j].under \in Whitelist
=============================================================================
