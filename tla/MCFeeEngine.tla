----------------------------- MODULE MCFeeEngine -----------------------------
(***************************************************************************)
(* A small pool with each kind of base fee, with and without a dynamic     *)
(* fee, for TLC.                                                           *)
(***************************************************************************)
EXTENDS FeeEngine, PoolAccounting

CONSTANT Supply        \* of every token

NoFeeOnTransfer == [t \in Tokens |-> 0]
SupplyOfEach   == [t \in Tokens |-> Supply]
RewardSupplyOfEach == [r \in Rewards |-> Supply]
None   == {}
Whole  == {[t \in Tokens |-> Supply]}

NoFields ==
  [mode |-> "RateLimiter", cliff |-> 0, reduction |-> 0, periods |-> 0,
   frequency |-> 0, step |-> 0, duration |-> 0, increment |-> 0, max |-> 0,
   reference |-> 0]

\* 30 % for one step of the clock, then 20 %, then 10 %.
Falling == [NoFields EXCEPT !.mode = "TimeLinear", !.cliff = 30,
              !.reduction = 10, !.periods = 2, !.frequency = 1]

\* 40 %, half of it for every fifth that the price gains.
WithCap == [NoFields EXCEPT !.mode = "CapExponential", !.cliff = 40,
              !.reduction = 5, !.periods = 2, !.step = 2, !.duration = 1]

\* 10 % on two units, 30 % on two more, then 50 %.
Limiter == [NoFields EXCEPT !.cliff = 10, !.increment = 20, !.max = 50,
              !.reference = 2, !.duration = 1]

EveryBaseFee == {Falling, WithCap, Limiter}

\* Swaps in the same step of the clock add up, the next step keeps half.
Volatile == [filter |-> 1, decay |-> 2, reduction |-> 5, maxAcc |-> 60,
             control |-> 1]
OneDynamic == {Volatile}
=============================================================================
