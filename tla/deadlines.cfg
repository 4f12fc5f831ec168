SPECIFICATION CronSpec
CONSTANTS
  a1 = a1
  a2 = a2
  o1 = o1
  o2 = o2
  Bounties = {b1, b2}
  Agents = {}
  Owners = {}
  OwnerOf <- Nobody
  Client = client
  NoOwner = noOwner
  NoAgent = noAgent
  NoBounty = noBounty
  Faults = {}
  UpdateOverwrites = TRUE
  MaxConfirms = 0
PROPERTIES
  OpenIsActedOn
  ReviewEnds
  UnclaimedPrizeReturns
