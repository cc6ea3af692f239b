-------------------------- MODULE TransactionProofs --------------------------
(***************************************************************************)
(* What one transaction can do, for instructions and calls of any number   *)
(* and depth: the single-swap rule holds for any pools, programs and       *)
(* whitelist, and the treasury gets every protocol fee that is zapped, for *)
(* any amount of fees and any balance of the operator.                     *)
(***************************************************************************)
EXTENDS SwapTransaction, ZapTransaction, SequenceTheorems, TLAPS

FrameRecord ==
  [program : Programs \cup {"amm"}, pools : SUBSET Pools,
   swapped : SUBSET Pools]

SwapRecord ==
  [pool : Pools, limited : BOOLEAN, index : Nat,
   under : Programs \cup {"amm"}]

TransactionTypes ==
  /\ earlier \in Seq(FrameRecord)
  /\ stack \in Seq(FrameRecord)
  /\ swaps \in Seq(SwapRecord)

\* A call is given no more than the top-level instruction was.
CallsWithin ==
  \A k \in 1..Len(stack) :
    /\ stack[k].program \in Programs
    /\ stack[k].pools \subseteq stack[1].pools

\* What NoneEarlier looks at in a finished instruction.
Shows(frame, p) ==
  IF frame.program = "amm" THEN p \in frame.swapped ELSE p \in frame.pools

\* A swap of a finished instruction can be seen in it; one of the current
\* instruction leaves its traces in the first frame: the pool was given to
\* it, and a purchase that no whitelisted program made was its own call.
Traces(s) ==
  /\ s.index \in 1..Index
  /\ s.index < Index => Shows(earlier[s.index], s.pool)
  /\ s.index = Index =>
       /\ stack # <<>>
       /\ s.pool \in stack[1].pools
       /\ s.limited /\ stack[1].program \notin Whitelist =>
            s.pool \in stack[1].swapped

SwapsTraced == \A i \in 1..Len(swaps) : Traces(swaps[i])

\* The inductive invariant.
TransactionInv ==
  TransactionTypes /\ CallsWithin /\ SwapsTraced /\ SinglePurchase

\* A step that adds no swap keeps the invariant if it keeps the traces of
\* those there are.
LEMMA NoNewSwap ==
  ASSUME TransactionInv, UNCHANGED swaps, TransactionTypes', CallsWithin',
         \A s \in SwapRecord : Traces(s) => Traces(s)'
  PROVE  TransactionInv'
<1>1. \A i \in 1..Len(swaps) : swaps[i] \in SwapRecord
  BY DEF TransactionInv, TransactionTypes
<1>2. SwapsTraced'
  BY <1>1 DEF TransactionInv, SwapsTraced
<1>3. SinglePurchase'
  BY DEF TransactionInv, SinglePurchase
<1> QED BY <1>2, <1>3 DEF TransactionInv

\* A top-level instruction of another program starts.
LEMMA StartKeeps ==
  ASSUME TransactionInv, NEW program \in Programs, NEW pools \in SUBSET Pools,
         Start(program, pools)
  PROVE  TransactionInv'
<1>1. /\ stack = <<>> /\ stack' = <<Frame(program, pools)>>
      /\ UNCHANGED <<earlier, swaps>>
  BY DEF Start
<1>2. Frame(program, pools) \in FrameRecord
  BY DEF Frame, FrameRecord
<1>3. TransactionTypes'
  BY <1>1, <1>2 DEF TransactionInv, TransactionTypes
<1>4. CallsWithin'
  BY <1>1 DEF CallsWithin, Frame
<1>5. \A s : Traces(s) => Traces(s)'
  BY <1>1 DEF Traces, Index
<1> QED BY <1>1, <1>3, <1>4, <1>5, NoNewSwap

\* A program calls another one: the first frame stays what it is.
LEMMA CallKeeps ==
  ASSUME TransactionInv, NEW program \in Programs, NEW pools \in SUBSET Pools,
         Call(program, pools)
  PROVE  TransactionInv'
<1> DEFINE frame == Frame(program, pools)
<1>1. /\ stack # <<>> /\ stack' = Append(stack, frame)
      /\ pools \subseteq stack[Len(stack)].pools
      /\ UNCHANGED <<earlier, swaps>>
  BY DEF Call, Top
<1>2. /\ frame \in FrameRecord
      /\ frame.program = program /\ frame.pools = pools
  BY DEF Frame, FrameRecord
<1> HIDE DEF frame
<1>3. /\ stack \in Seq(FrameRecord) /\ Len(stack) \in Nat \ {0}
      /\ 1 \in 1..Len(stack) /\ Len(stack) \in 1..Len(stack)
  BY <1>1 DEF TransactionInv, TransactionTypes
<1>4. /\ stack' \in Seq(FrameRecord) /\ Len(stack') = Len(stack) + 1
      /\ \A k \in 1..Len(stack) : stack'[k] = stack[k]
      /\ stack'[Len(stack) + 1] = frame
  BY <1>1, <1>2, <1>3
<1>5. stack'[1] = stack[1] /\ stack' # <<>>
  BY <1>3, <1>4
<1>6. TransactionTypes'
  BY <1>1, <1>4 DEF TransactionInv, TransactionTypes
<1>7. CallsWithin'
  <2> SUFFICES ASSUME NEW k \in 1..(Len(stack) + 1)
               PROVE  /\ stack'[k].program \in Programs
                      /\ stack'[k].pools \subseteq stack'[1].pools
    BY <1>4 DEF CallsWithin
  <2>1. CASE k \in 1..Len(stack)
    BY <1>4, <1>5, <2>1 DEF TransactionInv, CallsWithin
  <2>2. CASE k = Len(stack) + 1
    BY <1>1, <1>2, <1>3, <1>4, <1>5, <2>2 DEF TransactionInv, CallsWithin
  <2> QED BY <1>3, <2>1, <2>2
<1>8. \A s : Traces(s) => Traces(s)'
  BY <1>1, <1>5 DEF Traces, Index
<1> QED BY <1>1, <1>6, <1>7, <1>8, NoNewSwap

\* A call returns; when it is the top-level instruction that ends, the first
\* frame is what later ones see of it.
LEMMA ReturnKeeps ==
  ASSUME TransactionInv, Return
  PROVE  TransactionInv'
<1>1. /\ stack # <<>> /\ stack' = SubSeq(stack, 1, Len(stack) - 1)
      /\ earlier' = IF Len(stack) = 1 THEN Append(earlier, stack[1]) ELSE earlier
      /\ UNCHANGED swaps
  BY DEF Return
<1>2. /\ stack \in Seq(FrameRecord) /\ Len(stack) \in Nat \ {0}
      /\ earlier \in Seq(FrameRecord) /\ Len(earlier) \in Nat
      /\ 1 \in 1..Len(stack)
      /\ stack[1] \in FrameRecord
      /\ stack[1].program \in Programs
  BY <1>1 DEF TransactionInv, TransactionTypes, CallsWithin
<1>3. /\ stack' \in Seq(FrameRecord) /\ Len(stack') = Len(stack) - 1
      /\ \A k \in 1..(Len(stack) - 1) : stack'[k] = stack[k]
  <2> DEFINE n == Len(stack) - 1
  <2>1. n \in Nat /\ n <= Len(stack) /\ 1 \in 1..(Len(stack) + 1)
        /\ n \in 0..Len(stack)
    BY <1>2
  <2>2. /\ SubSeq(stack, 1, n) \in Seq(FrameRecord)
        /\ Len(SubSeq(stack, 1, n)) = IF 1 <= n THEN n - 1 + 1 ELSE 0
        /\ \A k \in 1..(n - 1 + 1) : SubSeq(stack, 1, n)[k] = stack[1 + k - 1]
    <3> HIDE DEF n
    <3> QED BY <1>2, <2>1, SubSeqProperties
  <2>3. Len(SubSeq(stack, 1, n)) = n
    <3> HIDE DEF n
    <3> QED BY <2>1, <2>2
  <2>4. \A k \in 1..n : SubSeq(stack, 1, n)[k] = stack[k]
    <3> SUFFICES ASSUME NEW k \in 1..n PROVE SubSeq(stack, 1, n)[k] = stack[k]
      OBVIOUS
    <3> HIDE DEF n
    <3>1. k \in 1..(n - 1 + 1) /\ 1 + k - 1 = k
      BY <2>1
    <3> QED BY <2>2, <3>1
  <2> QED BY <1>1, <2>2, <2>3, <2>4
<1>4. CallsWithin'
  <2> SUFFICES ASSUME NEW k \in 1..(Len(stack) - 1)
               PROVE  /\ stack'[k].program \in Programs
                      /\ stack'[k].pools \subseteq stack'[1].pools
    BY <1>3 DEF CallsWithin
  <2>1. k \in 1..Len(stack) /\ 1 \in 1..(Len(stack) - 1)
    BY <1>2
  <2> QED BY <1>3, <2>1 DEF TransactionInv, CallsWithin
<1>5. CASE Len(stack) = 1
  <2>1. /\ earlier' \in Seq(FrameRecord) /\ Len(earlier') = Len(earlier) + 1
        /\ \A k \in 1..Len(earlier) : earlier'[k] = earlier[k]
        /\ earlier'[Len(earlier) + 1] = stack[1]
    BY <1>1, <1>2, <1>5
  <2>2. TransactionTypes'
    BY <1>1, <1>3, <2>1 DEF TransactionInv, TransactionTypes
  <2>3. stack[1].program # "amm"
    BY <1>2, TransactionAssumption
  <2>4. ASSUME NEW s \in SwapRecord, Traces(s) PROVE Traces(s)'
    <3>1. /\ s.index \in 1..(Len(earlier) + 1)
          /\ s.index < Len(earlier) + 1 => Shows(earlier[s.index], s.pool)
          /\ s.index = Len(earlier) + 1 => s.pool \in stack[1].pools
      BY <2>4 DEF Traces, Index
    <3>2. s.index \in 1..Len(earlier) => Shows(earlier'[s.index], s.pool)
      BY <1>2, <2>1, <3>1
    <3>3. s.index = Len(earlier) + 1 => Shows(earlier'[s.index], s.pool)
      BY <2>1, <2>3, <3>1 DEF Shows
    <3>4. Shows(earlier'[s.index], s.pool)
      BY <1>2, <3>1, <3>2, <3>3
    <3>5. s.index \in 1..(Len(earlier') + 1) /\ s.index < Len(earlier') + 1
      BY <1>2, <2>1, <3>1
    <3> QED BY <3>4, <3>5 DEF Traces, Index, Shows
  <2> QED BY <1>1, <1>4, <2>2, <2>4, NoNewSwap
<1>6. CASE Len(stack) # 1
  <2>1. earlier' = earlier
    BY <1>1, <1>6
  <2>2. stack' # <<>> /\ stack'[1] = stack[1]
    BY <1>2, <1>3, <1>6
  <2>3. TransactionTypes'
    BY <1>1, <1>3, <2>1 DEF TransactionInv, TransactionTypes
  <2>4. \A s : Traces(s) => Traces(s)'
    BY <2>1, <2>2 DEF Traces, Index
  <2> QED BY <1>1, <1>4, <2>3, <2>4, NoNewSwap
<1> QED BY <1>5, <1>6

\* A stack that is not empty and leaves a call at height 2 or less has one
\* frame.
LEMMA LowStack ==
  ASSUME NEW n \in Nat \ {0}, ~(n + 1 > 2)
  PROVE  n = 1
OBVIOUS

\* One more swap that leaves its traces, where those there are keep theirs.
LEMMA TracesAdded ==
  ASSUME TransactionInv, NEW new \in SwapRecord, swaps' = Append(swaps, new),
         Traces(new)', \A s \in SwapRecord : Traces(s) => Traces(s)'
  PROVE  SwapsTraced'
<1>1. swaps \in Seq(SwapRecord) /\ Len(swaps) \in Nat
  BY DEF TransactionInv, TransactionTypes
<1>2. /\ Len(swaps') = Len(swaps) + 1
      /\ \A i \in 1..Len(swaps) : swaps'[i] = swaps[i]
      /\ swaps'[Len(swaps) + 1] = new
  BY <1>1
<1> SUFFICES ASSUME NEW i \in 1..(Len(swaps) + 1)
             PROVE  Traces(swaps[i])'
  BY <1>2 DEF SwapsTraced
<1>3. PICK s : s = swaps'[i]
  OBVIOUS
<1>4. Traces(s)'
  <2>1. CASE i = Len(swaps) + 1
    BY <1>2, <1>3, <2>1
  <2>2. CASE i \in 1..Len(swaps)
    <3>1. s = swaps[i] /\ s \in SwapRecord
      BY <1>1, <1>2, <1>3, <2>2
    <3>2. Traces(swaps[i])
      BY <2>2 DEF TransactionInv, SwapsTraced
    <3> QED BY <3>1, <3>2
  <2> QED BY <1>1, <2>1, <2>2
<1> QED BY <1>3, <1>4

\* A swap that the rule lets through: it leaves its traces, and no earlier
\* swap of the pool has left any that the rule would not have seen.
LEMMA SwapKeeps ==
  ASSUME TransactionInv, NEW p \in Pools, NEW limited \in BOOLEAN,
         Swap(p, limited)
  PROVE  TransactionInv'
<1>0. PICK new : new = [pool |-> p, limited |-> limited, index |-> Index,
                        under |-> TopLevelProgram]
  OBVIOUS
<1>1. /\ stack \in Seq(FrameRecord) /\ Len(stack) \in Nat
      /\ earlier \in Seq(FrameRecord) /\ Len(earlier) \in Nat
      /\ swaps \in Seq(SwapRecord) /\ Len(swaps) \in Nat
      /\ Index = Len(earlier) + 1
      /\ \A i \in 1..Len(swaps) : swaps[i] \in SwapRecord
      /\ stack # <<>> => Len(stack) \in Nat \ {0} /\ 1 \in 1..Len(stack)
      /\ \A k \in 1..Len(stack) : stack[k] \in FrameRecord
  BY DEF TransactionInv, TransactionTypes, Index
<1>2. new \in SwapRecord
  BY <1>0, <1>1 DEF SwapRecord, TopLevelProgram, TransactionInv, CallsWithin
<1>3. /\ swaps' = Append(swaps, new)
      /\ limited => SingleSwapAllowed(p)
      /\ stack # <<>> => p \in Top.pools
  BY <1>0 DEF Swap
<1>4. /\ new.pool = p /\ new.limited = limited /\ new.index = Index
      /\ new.under = TopLevelProgram
  BY <1>0
<1>5. /\ swaps' \in Seq(SwapRecord) /\ Len(swaps') = Len(swaps) + 1
      /\ \A i \in 1..Len(swaps) : swaps'[i] = swaps[i]
      /\ swaps'[Len(swaps) + 1] = new
  BY <1>1, <1>2, <1>3
<1>6. SinglePurchase'
  <2> SUFFICES ASSUME NEW j \in 1..(Len(swaps) + 1), NEW i \in 1..(j - 1),
                      swaps'[j].limited, swaps'[i].pool = swaps'[j].pool
               PROVE  /\ swaps'[i].index = swaps'[j].index
                      /\ swaps'[i].limited => swaps'[j].under \in Whitelist
    BY <1>5 DEF SinglePurchase
  <2>1. CASE j \in 1..Len(swaps)
    <3>1. i \in 1..Len(swaps)
      BY <1>1, <2>1
    <3> QED BY <1>5, <2>1, <3>1 DEF TransactionInv, SinglePurchase
  <2>2. CASE j = Len(swaps) + 1
    <3>1. i \in 1..Len(swaps) /\ swaps[i] \in SwapRecord
      BY <1>1, <2>2
    <3>2. /\ swaps'[i] = swaps[i] /\ swaps'[j] = new
          /\ limited /\ swaps[i].pool = p
      BY <1>4, <1>5, <2>2, <3>1
    <3>3. Traces(swaps[i])
      BY <3>1 DEF TransactionInv, SwapsTraced
    <3>4. ~(swaps[i].index < Index)
      <4> SUFFICES ASSUME swaps[i].index < Index PROVE FALSE
        OBVIOUS
      <4>1. swaps[i].index \in 1..Len(earlier)
        BY <1>1, <3>3 DEF Traces
      <4>2. Shows(earlier[swaps[i].index], p)
        BY <3>2, <3>3 DEF Traces
      <4> QED BY <1>3, <3>2, <4>1, <4>2
              DEF SingleSwapAllowed, NoneEarlier, Shows
    <3>5. swaps[i].index = Index
      BY <1>1, <3>3, <3>4 DEF Traces
    <3>6. swaps[i].limited => TopLevelProgram \in Whitelist
      <4> SUFFICES ASSUME swaps[i].limited, TopLevelProgram \notin Whitelist
                   PROVE  FALSE
        OBVIOUS
      <4>1. stack # <<>>
        BY <3>3, <3>5 DEF Traces
      <4>2. TopLevelProgram = stack[1].program
        BY <4>1 DEF TopLevelProgram
      <4>3. p \in stack[1].swapped
        BY <3>2, <3>3, <3>5, <4>2 DEF Traces
      <4>4. ~(Height > 2)
        BY <1>3, <3>2, <4>1 DEF SingleSwapAllowed, NotNested
      <4>5. Len(stack) = 1
        <5>1. Len(stack) \in Nat \ {0}
          BY <1>1, <4>1
        <5>2. ~(Len(stack) + 1 > 2)
          BY <4>4 DEF Height
        <5> QED BY <5>1, <5>2, LowStack
      <4> QED BY <1>3, <3>2, <4>1, <4>3, <4>5
              DEF SingleSwapAllowed, NoSibling, Top
    <3> QED BY <1>4, <3>2, <3>5, <3>6
  <2> QED BY <1>1, <2>1, <2>2, SMTT(60)
<1>7. CASE stack = <<>>
  <2> DEFINE frame == [program |-> "amm", pools |-> {p}, swapped |-> {p}]
  <2>1. earlier' = Append(earlier, frame) /\ stack' = stack
    BY <1>7 DEF Swap
  <2>2. frame \in FrameRecord /\ Shows(frame, p)
    BY DEF FrameRecord, Shows
  <2> HIDE DEF frame
  <2>3. /\ earlier' \in Seq(FrameRecord) /\ Len(earlier') = Len(earlier) + 1
        /\ \A k \in 1..Len(earlier) : earlier'[k] = earlier[k]
        /\ earlier'[Len(earlier) + 1] = frame
    BY <1>1, <2>1, <2>2
  <2>4. TransactionTypes' /\ CallsWithin'
    BY <1>1, <1>5, <1>7, <2>1, <2>3 DEF TransactionTypes, CallsWithin
  <2>5. ASSUME NEW s \in SwapRecord, Traces(s) PROVE Traces(s)'
    <3>1. s.index \in 1..Len(earlier) /\ Shows(earlier[s.index], s.pool)
      BY <1>1, <1>7, <2>5 DEF Traces
    <3>2. Shows(earlier'[s.index], s.pool)
      BY <2>3, <3>1
    <3>3. s.index \in 1..(Len(earlier') + 1) /\ s.index < Len(earlier') + 1
      BY <1>1, <2>3, <3>1
    <3> QED BY <3>2, <3>3 DEF Traces, Index, Shows
  <2>6. Traces(new)'
    <3>1. new.index = Len(earlier) + 1 /\ new.pool = p
      BY <1>1, <1>4
    <3>2. Shows(earlier'[new.index], new.pool)
      BY <2>2, <2>3, <3>1
    <3>3. new.index \in 1..(Len(earlier') + 1) /\ new.index < Len(earlier') + 1
      BY <1>1, <2>3, <3>1
    <3> QED BY <3>2, <3>3 DEF Traces, Index, Shows
  <2>7. SwapsTraced'
    BY <1>2, <1>3, <2>5, <2>6, TracesAdded
  <2> QED BY <1>6, <2>4, <2>7 DEF TransactionInv
<1>8. CASE stack # <<>>
  <2> DEFINE top == Len(stack)
  <2>1. /\ stack' = [stack EXCEPT ![top].swapped = @ \cup {p}]
        /\ earlier' = earlier
    BY <1>8 DEF Swap
  <2>2. top \in 1..Len(stack) /\ 1 \in 1..Len(stack)
    BY <1>1, <1>8
  <2> HIDE DEF top
  <2> DEFINE frame == [stack[top] EXCEPT !.swapped = @ \cup {p}]
  <2>3. /\ frame \in FrameRecord
        /\ frame.program = stack[top].program
        /\ frame.pools = stack[top].pools
        /\ frame.swapped = stack[top].swapped \cup {p}
    BY <1>1, <2>2 DEF FrameRecord
  <2>4. stack' = [stack EXCEPT ![top] = frame]
    BY <2>1
  <2> HIDE DEF frame
  <2>5. /\ stack' \in Seq(FrameRecord) /\ Len(stack') = Len(stack)
        /\ \A k \in 1..Len(stack) :
             stack'[k] = IF k = top THEN frame ELSE stack[k]
    BY <1>1, <2>2, <2>3, <2>4
  <2>6. \A k \in 1..Len(stack) :
          /\ stack'[k].program = stack[k].program
          /\ stack'[k].pools = stack[k].pools
          /\ stack[k].swapped \subseteq stack'[k].swapped
    BY <2>3, <2>5
  <2>7. TransactionTypes'
    BY <1>1, <1>5, <2>1, <2>5 DEF TransactionTypes
  <2>8. CallsWithin'
    BY <2>2, <2>5, <2>6 DEF TransactionInv, CallsWithin
  <2>9. stack' # <<>>
    BY <1>1, <1>8, <2>5
  <2>10. \A s : Traces(s) => Traces(s)'
    BY <2>1, <2>2, <2>6, <2>9 DEF Traces, Index
  <2>11. Traces(new)'
    <3>1. new.index = Index /\ Index' = Index /\ Index \in 1..Index
      BY <1>1, <1>4, <2>1 DEF Index
    <3>2. p \in stack'[1].pools
      <4>1. p \in stack[top].pools
        BY <1>3, <1>8 DEF Top, top
      <4> QED BY <2>2, <2>6, <4>1 DEF TransactionInv, CallsWithin
    <3>3. limited /\ stack'[1].program \notin Whitelist => p \in stack'[1].swapped
      <4> SUFFICES ASSUME limited, stack[1].program \notin Whitelist
                   PROVE  p \in stack'[1].swapped
        BY <2>2, <2>6
      <4>1. TopLevelProgram \notin Whitelist
        BY <1>8 DEF TopLevelProgram
      <4>2. ~(Height > 2)
        BY <1>3, <1>8, <4>1 DEF SingleSwapAllowed, NotNested
      <4>3. top = 1
        <5>1. Len(stack) \in Nat \ {0}
          BY <1>1, <1>8
        <5>2. ~(Len(stack) + 1 > 2)
          BY <4>2 DEF Height
        <5> QED BY <5>1, <5>2, LowStack DEF top
      <4> QED BY <2>2, <2>3, <2>5, <4>3
    <3>4. ~(Index < Index)
      BY <1>1
    <3> QED BY <1>4, <2>9, <3>1, <3>2, <3>3, <3>4 DEF Traces
  <2>12. SwapsTraced'
    BY <1>2, <1>3, <2>10, <2>11, TracesAdded
  <2> QED BY <1>6, <2>7, <2>8, <2>12 DEF TransactionInv
<1> QED BY <1>7, <1>8

\* validate_single_swap_instruction is enough: whatever the programs, the
\* pools they are given and the depth of their calls, no transaction buys
\* twice from a rate-limited pool outside one whitelisted instruction.
THEOREM SinglePurchaseHolds == Spec => []SinglePurchase
<1>1. Init => TransactionInv
  BY DEF Init, TransactionInv, TransactionTypes, CallsWithin, SwapsTraced,
         SinglePurchase
<1>2. TransactionInv /\ [Next]_vars => TransactionInv'
  <2> SUFFICES ASSUME TransactionInv, [Next]_vars PROVE TransactionInv'
    OBVIOUS
  <2>1. ASSUME NEW program \in Programs, NEW pools \in SUBSET Pools,
               Start(program, pools) \/ Call(program, pools)
        PROVE  TransactionInv'
    BY <2>1, StartKeeps, CallKeeps
  <2>2. CASE Return
    BY <2>2, ReturnKeeps
  <2>3. ASSUME NEW p \in Pools, NEW limited \in BOOLEAN, Swap(p, limited)
        PROVE  TransactionInv'
    BY <2>3, SwapKeeps
  <2>4. CASE UNCHANGED vars
    BY <2>4 DEF vars, TransactionInv, TransactionTypes, CallsWithin,
                SwapsTraced, Traces, Index, SinglePurchase
  <2> QED BY <2>1, <2>2, <2>3, <2>4 DEF Next
<1>3. TransactionInv => SinglePurchase
  BY DEF TransactionInv
<1> QED BY <1>1, <1>2, <1>3, PTL DEF Spec

-----------------------------------------------------------------------------
ZapTypes ==
  /\ next \in Instructions
  /\ owed \in Nat
  /\ balance \in [OperatorAccounts -> Nat]
  /\ sent \in [Destinations -> Nat]

Delivered == sent["treasury"] >= Owed - owed

\* A claim has just been run, and the zap it was checked against comes next.
\* The balance matters as much as the parameters: nothing may come between
\* the claim and the zap that would change what the zap program measures.
AboutToDeliver ==
  /\ next.kind = "zap"
  /\ next.percentage = 100 /\ next.placed
  /\ next.user = "ata" /\ next.source = "ata" /\ next.destination = "treasury"
  /\ balance["ata"] = next.pre + next.max
  /\ sent["treasury"] + next.max >= Owed - owed

\* The inductive invariant.
ZapInv == ZapTypes /\ (Delivered \/ AboutToDeliver)

\* The fields of the instructions that run.
LEMMA ZapFields ==
  ASSUME next \in Instructions
  PROVE  /\ next.kind = "claim" => next.max \in Nat \ {0}
         /\ next.kind = "zap" =>
              /\ next.max \in Nat \ {0} /\ next.pre \in Nat
              /\ next.percentage \in Nat /\ next.placed \in BOOLEAN
              /\ next.user \in OperatorAccounts
              /\ next.source \in OperatorAccounts
              /\ next.destination \in Destinations
         /\ next.kind = "move" => next.from \in OperatorAccounts
BY ZapAssumption DEF Instructions, Claims, Zaps, Moves, Done

\* handle_zap_protocol_fee checks the zap against the balance before the fee
\* arrives, so that the zap finds exactly the fee on top of it.
LEMMA ClaimKeeps ==
  ASSUME ZapInv, NEW after \in Instructions, next' = after, Claim(after)
  PROVE  ZapInv'
<1> DEFINE taken == Less(next.max, owed)
<1>1. /\ taken > 0 /\ ZapMatches(after, taken)
      /\ owed' = owed - taken /\ sent' = sent
      /\ balance' = [balance EXCEPT !["ata"] = @ + taken]
      /\ next.kind = "claim"
  BY DEF Claim
<1>2. taken \in Nat /\ taken <= owed /\ owed \in Nat
  BY <1>1, ZapFields DEF ZapInv, ZapTypes, Less
<1>3. Delivered
  BY <1>1 DEF ZapInv, AboutToDeliver
<1> HIDE DEF taken
<1>4. balance["ata"] \in Nat /\ balance'["ata"] = balance["ata"] + taken
      /\ balance' \in [OperatorAccounts -> Nat]
  BY <1>1, <1>2 DEF ZapInv, ZapTypes, OperatorAccounts
<1>5. ZapTypes'
  BY <1>1, <1>2, <1>4 DEF ZapInv, ZapTypes
<1>6. sent["treasury"] \in Nat /\ Owed \in Nat
  BY ZapAssumption DEF ZapInv, ZapTypes, Destinations
<1>7. sent'["treasury"] + taken >= Owed - owed'
  BY <1>1, <1>2, <1>3, <1>6 DEF Delivered
<1>8. AboutToDeliver'
  BY <1>1, <1>4, <1>7 DEF AboutToDeliver, ZapMatches
<1> QED BY <1>5, <1>8 DEF ZapInv

\* The zap program, external: a zap that was checked sends on the whole fee,
\* any other one takes nothing from the treasury.
LEMMA ZapOutKeeps ==
  ASSUME ZapInv, NEW after \in Instructions, next' = after, ZapOut
  PROVE  ZapInv'
<1> DEFINE rise == ((balance[next.user] - next.pre) * next.percentage) \div 100
           gain == Less(rise, next.max)
           amount == IF next.placed THEN gain ELSE 0
<1>1. /\ next.kind = "zap"
      /\ next.pre <= balance[next.user]
      /\ amount <= balance[next.source]
      /\ balance' = [balance EXCEPT ![next.source] = @ - amount]
      /\ sent' = [sent EXCEPT ![next.destination] = @ + amount]
      /\ owed' = owed
  BY DEF ZapOut
<1>2. /\ next.max \in Nat /\ next.pre \in Nat /\ next.percentage \in Nat
      /\ next.user \in OperatorAccounts /\ next.source \in OperatorAccounts
      /\ next.destination \in Destinations
  BY <1>1, ZapFields DEF ZapInv, ZapTypes
<1>3. /\ \A a \in OperatorAccounts : balance[a] \in Nat
      /\ \A d \in Destinations : sent[d] \in Nat
      /\ owed \in Nat /\ Owed \in Nat
  BY ZapAssumption DEF ZapInv, ZapTypes
<1>4. rise \in Nat
  <2>1. balance[next.user] - next.pre \in Nat
    BY <1>1, <1>2, <1>3
  <2>2. (balance[next.user] - next.pre) * next.percentage \in Nat
    BY <1>2, <2>1, SMT
  <2> QED BY <2>2, SMT
<1>5. AboutToDeliver => amount = next.max
  <2> SUFFICES ASSUME AboutToDeliver PROVE amount = next.max
    OBVIOUS
  <2>1. balance[next.user] - next.pre = next.max /\ next.percentage = 100
    BY <1>2, <1>3 DEF AboutToDeliver, OperatorAccounts
  <2>2. rise = next.max
    BY <1>2, <2>1, SMT
  <2> HIDE DEF rise
  <2> QED BY <2>2 DEF AboutToDeliver, Less
<1>6. amount \in Nat
  <2> HIDE DEF rise
  <2> QED BY <1>2, <1>4 DEF Less
<1> HIDE DEF amount
<1>7. /\ balance' \in [OperatorAccounts -> Nat]
      /\ sent' \in [Destinations -> Nat]
      /\ sent'["treasury"] >= sent["treasury"]
      /\ next.destination = "treasury" =>
           sent'["treasury"] = sent["treasury"] + amount
  BY <1>1, <1>2, <1>3, <1>6 DEF ZapInv, ZapTypes, Destinations
<1>8. ZapTypes'
  BY <1>1, <1>7 DEF ZapInv, ZapTypes
<1>9. "treasury" \in Destinations
  BY DEF Destinations
<1>10. CASE Delivered
  BY <1>1, <1>3, <1>7, <1>8, <1>9, <1>10 DEF ZapInv, Delivered
<1>11. CASE AboutToDeliver
  BY <1>1, <1>5, <1>7, <1>8, <1>11 DEF ZapInv, Delivered, AboutToDeliver
<1> QED BY <1>10, <1>11 DEF ZapInv

\* Anything else cannot come between a claim and its zap.
LEMMA MoveKeeps ==
  ASSUME ZapInv, NEW after \in Instructions, next' = after, Move
  PROVE  ZapInv'
<1>1. next.kind = "move" /\ owed' = owed /\ sent' = sent
  BY DEF Move
<1>2. Delivered
  BY <1>1 DEF ZapInv, AboutToDeliver
<1>3. balance' \in [OperatorAccounts -> Nat]
  <2>1. /\ \A a \in OperatorAccounts : balance[a] \in Nat
        /\ balance[next.from] > 0
    BY DEF ZapInv, ZapTypes, Move
  <2>2. \A a \in OperatorAccounts :
          (IF a = next.from THEN balance[a] - 1 ELSE balance[a] + 1) \in Nat
    BY <2>1
  <2> QED BY <2>2 DEF Move
<1> QED BY <1>1, <1>2, <1>3 DEF ZapInv, ZapTypes, Delivered

\* search_and_validate_zap_out_instruction is enough: at the end of every
\* transaction, and before any instruction that is not a zap, the treasury
\* has all the fees that were taken.
THEOREM FeesReachTreasuryHolds == ZapSpec => []FeesReachTreasury
<1>1. ZapInit => ZapInv
  <2> SUFFICES ASSUME ZapInit PROVE ZapInv
    OBVIOUS
  <2>1. balance \in [OperatorAccounts -> Nat]
    BY ZapAssumption DEF ZapInit
  <2> QED BY <2>1, ZapAssumption DEF ZapInit, ZapInv, ZapTypes, Delivered, Destinations
<1>2. ZapInv /\ [ZapNext]_zapVars => ZapInv'
  <2> SUFFICES ASSUME ZapInv, [ZapNext]_zapVars PROVE ZapInv'
    OBVIOUS
  <2>1. ASSUME NEW after \in Instructions, Run(after) PROVE ZapInv'
    BY <2>1, ClaimKeeps, ZapOutKeeps, MoveKeeps DEF Run
  <2>2. CASE UNCHANGED zapVars
    BY <2>2 DEF zapVars, ZapInv, ZapTypes, Delivered, AboutToDeliver
  <2> QED BY <2>1, <2>2 DEF ZapNext
<1>3. ZapInv => FeesReachTreasury
  BY DEF ZapInv, FeesReachTreasury, Delivered, AboutToDeliver
<1> QED BY <1>1, <1>2, <1>3, PTL DEF ZapSpec
=============================================================================
