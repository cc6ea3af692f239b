------------------------------ MODULE DynamicFee ------------------------------
(***************************************************************************)
(* DynamicFeeStruct (state/fee.rs): a fee that grows with the square of    *)
(* how far recent swaps have moved the price.  d is its account state, p   *)
(* the parameters it is made of:                                           *)
(*   filter, decay   swaps closer together than `filter` seconds add up;   *)
(*                   after `decay` seconds without one all is forgotten    *)
(*   reduction       what is kept in between                               *)
(*   maxAcc, control ceiling of the accumulator, weight of the fee         *)
(***************************************************************************)
EXTENDS BaseFees

CONSTANTS
  BinStepQ,             \* BIN_STEP_BPS_U128_DEFAULT, in units of 1/OneQ
  BinStepBps,           \* BIN_STEP_BPS_DEFAULT
  VariableFeeScale,     \* what get_variable_fee divides by, 10^11
  MaxControl            \* U24_MAX

ASSUME DynamicFeeAssumption ==
  /\ BinStepQ \in Nat \ {0}
  /\ BinStepBps \in Nat
  /\ VariableFeeScale \in Nat \ {0}
  /\ MaxControl \in Nat

DynamicParameters ==
  [filter : Nat, decay : Nat, reduction : Nat, maxAcc : Nat, control : Nat]

DynamicRecord ==
  [enabled : BOOLEAN, filter : Nat, decay : Nat, reduction : Nat,
   maxAcc : Nat, control : Nat,
   lastUpdate : Nat,      \* last_update_timestamp
   reference : Nat,       \* sqrt_price_reference
   acc : Nat,             \* volatility_accumulator
   volRef : Nat]          \* volatility_reference

\* DynamicFeeParameters::validate
ValidDynamic(p) ==
  /\ p.filter < p.decay
  /\ p.reduction <= MaxBasisPoint
  /\ p.control <= MaxControl
  /\ p.maxAcc <= MaxControl

\* to_dynamic_fee_struct: everything but the parameters is zero, the time of
\* the last update included.
FreshDynamic(p) ==
  [enabled |-> TRUE, filter |-> p.filter, decay |-> p.decay,
   reduction |-> p.reduction, maxAcc |-> p.maxAcc, control |-> p.control,
   lastUpdate |-> 0, reference |-> 0, acc |-> 0, volRef |-> 0]

NoDynamic ==
  [enabled |-> FALSE, filter |-> 0, decay |-> 0, reduction |-> 0,
   maxAcc |-> 0, control |-> 0,
   lastUpdate |-> 0, reference |-> 0, acc |-> 0, volRef |-> 0]

\* get_delta_bin_id: how many bins lie between two prices, twice because
\* they are square roots.
Bins(a, b) ==
  2 * (((Larger(a, b) * OneQ) \div Smaller(a, b) - OneQ) \div BinStepQ)

\* A wrong version the runs must tell from the right one: out of the decay
\* window the volatility reference is kept.
UpdateReferencesKept(d, price, time) ==
  LET elapsed == Larger(time - d.lastUpdate, 0)
  IN  IF elapsed < d.filter THEN d
      ELSE [d EXCEPT !.reference = price,
                     !.volRef = IF elapsed < d.decay
                       THEN (d.acc * d.reduction) \div MaxBasisPoint ELSE @]

\* update_references
UpdateReferences(d, price, time) ==
  LET elapsed == Larger(time - d.lastUpdate, 0)
  IN  IF elapsed < d.filter THEN d
      ELSE [d EXCEPT !.reference = price,
                     !.volRef = IF elapsed < d.decay
                       THEN (d.acc * d.reduction) \div MaxBasisPoint ELSE 0]

\* Pool::update_pre_swap
PreSwap(d, price, time) ==
  IF d.enabled THEN UpdateReferences(d, price, time) ELSE d

\* A wrong version the runs must tell from the right one: no ceiling.
AccumulatedUncapped(d, price) ==
  d.volRef + Bins(price, d.reference) * MaxBasisPoint

\* update_volatility_accumulator
Accumulated(d, price) ==
  Smaller(d.volRef + Bins(price, d.reference) * MaxBasisPoint, d.maxAcc)

\* A wrong version the runs must tell from the right one: the accumulator is
\* computed from the price before the swap.
PostSwapOldPrice(d, old, price, time) ==
  IF ~d.enabled THEN d
  ELSE [d EXCEPT !.acc = Accumulated(d, old),
                 !.lastUpdate = IF Bins(old, price) > 0 THEN time ELSE @]

\* Pool::update_post_swap: a swap within a bin leaves the time of the last
\* update alone.
PostSwap(d, old, price, time) ==
  IF ~d.enabled THEN d
  ELSE [d EXCEPT !.acc = Accumulated(d, price),
                 !.lastUpdate = IF Bins(old, price) > 0 THEN time ELSE @]

\* get_variable_fee: a swap pays for the moves before it, not for its own.
VariableFee(d) ==
  IF d.enabled
    THEN LET moved == d.acc * BinStepBps
         IN  CeilDiv(moved * moved * d.control, VariableFeeScale)
    ELSE 0

-----------------------------------------------------------------------------
\* What an operator does to the dynamic fee (DynamicFeeUpdateMode).
DynamicUpdate ==
  [mode : {"Skip", "Disable", "Update"}, params : DynamicParameters]

CanChangeDynamic(d, u) ==
  /\ u.mode = "Update" => ValidDynamic(u.params)
  /\ u.mode = "Disable" => d.enabled

\* A wrong version the runs must tell from the right one: the time of the
\* last update survives while the reference price does not.
ChangeDynamicKeepTime(d, u) ==
  CASE u.mode = "Skip"    -> d
    [] u.mode = "Disable" -> NoDynamic
    [] u.mode = "Update"  ->
         [FreshDynamic(u.params) EXCEPT !.lastUpdate = d.lastUpdate]

ChangeDynamic(d, u) ==
  CASE u.mode = "Skip"    -> d
    [] u.mode = "Disable" -> NoDynamic
    [] u.mode = "Update"  -> FreshDynamic(u.params)
=============================================================================
