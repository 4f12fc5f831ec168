SPECIFICATION Spec
CONSTANTS
  a1 = a1
  a2 = a2
  o1 = o1
  o2 = o2
  Bounties = {b1}
  Agents = {a1}
  Owners = {o1}
  OwnerOf <- OneOwner
  Client = client
  NoOwner = noOwner
  NoAgent = noAgent
  NoBounty = noBounty
  Faults = {"rpc", "throw", "drop", "lose", "dup", "stray"}
  UpdateOverwrites = FALSE
  MaxConfirms = 1
INVARIANTS
  TypeOK
  
  
  PaidHasWinner
  SettledWasSigned
  RefundOnlyWhenDue
  
PROPERTY
  KeepsPromise
