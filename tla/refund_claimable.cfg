SPECIFICATION CronSpec
CONSTANTS
  a1 = a1
  a2 = a2
  o1 = o1
  o2 = o2
  Bounties = {b1}
  Agents = {}
  Owners = {}
  OwnerOf <- Nobody
  Client = client
  NoOwner = noOwner
  NoAgent = noAgent
  NoBounty = noBounty
  Faults = {"rpc", "drop"}
  UpdateOverwrites = FALSE
  MaxConfirms = 0
PROPERTY
  RefundIsClaimable
