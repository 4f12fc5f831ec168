SPECIFICATION Spec
CONSTANTS
  Wallets = {w1, w2}
  NoWallet = noWallet
  Requests = {q1, q2}
  AuthFaults = {"throw"}
  MaxNonces = 2
  MaxSessions = 3
SYMMETRY Symmetry
CHECK_DEADLOCK FALSE
INVARIANTS
  TypeOK
  LoginsWereSigned
  RepeatsOverlap
  LoggedOutStaysOut
PROPERTIES
  LoginKeepsProfile
