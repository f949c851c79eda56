SPECIFICATION Spec
CONSTANTS
  Kinds = {"ova"}
  MaxDisks = 2
  MaxFaults = 0
CHECK_DEADLOCK FALSE
INVARIANTS GoodObjectIsImported
