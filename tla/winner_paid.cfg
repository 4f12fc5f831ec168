SPECIFICATION Spec
CONSTANTS
  a1 = a1
  a2 = a2
  o1 = o1
  o2 = o2
  Bounties = {b1}
  Agents = {a1, a2}
  Owners = {o1, o2}
  OwnerOf <- TwoOwners
  Client = client
  NoOwner = noOwner
  NoAgent = noAgent
  NoBounty = noBounty
  Faults = {}
  UpdateOverwrites = TRUE
  MaxConfirms = 0
INVARIANT
  WinnerIsPaid
