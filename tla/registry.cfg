SPECIFICATION Spec
CONSTANTS
  Agents = {a1, a2}
  Faults = {"rpc", "throw", "dup"}
CHECK_DEADLOCK FALSE
INVARIANTS
  TypeOK
  MintedIsKnown
  ConfirmedIsNamed
PROPERTIES
  ConfirmedIsKept
  StaleIsResolved
