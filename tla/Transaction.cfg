\* Transactions of two instructions that call each other four deep.
CONSTANTS
  Pools = {P, Q}
  Programs = {"router", "listed"}
  Whitelist = {"listed"}
  MaxStack = 4
  MaxTopLevel = 2
  MaxSwaps = 3
SPECIFICATION Spec
INVARIANT SinglePurchase
CHECK_DEADLOCK FALSE
