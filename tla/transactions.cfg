SPECIFICATION Spec
CONSTANTS
  Jobs = {j1}
  Strangers = {w1}
  Elsewhere = elsewhere
  TreasuryTokenAccounts <- MCTreasuryTokenAccounts
  Owners = {o1}
  Client = c1
  NoOwner = nobody
  UpdateOverwrites = FALSE
  Authority = authority
  EmergencyAdmin = admin
  Treasury = treasury
  UsdcMint = mint
  Program = escrow
  TokenProgram = tokenProgram
  SystemProgram = systemProgram
  AtaProgram = ataProgram
  ComputeBudget = computeBudget
  NoAddress = noAddress
  Garbled = garbled
  Prize = 100
  FeeBps = 500
  BlockhashTtl = 1
  MaxTime = 1
  MaxInFlight = 2
  TxFaults = {"rpc", "throw"}
INVARIANTS
  TypeOK
  ParsedAsBuilt
  
  SettlementIsTaken
  CachedHashIsFresh

  
CHECK_DEADLOCK FALSE
