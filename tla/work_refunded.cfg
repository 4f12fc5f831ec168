SPECIFICATION ContestSpec
CONSTANTS
  r1 = r1
  a1 = a1
  Registrations = {r1}
  Agents = {a1}
  AgentOf <- SingleRegistration
  Requests = {q1}
  NoRegistration = noRegistration
  Routes = {"webhook", "polling"}
  Faults = {}
  Attempts = 3
  MaxRecords = 2
CHECK_DEADLOCK FALSE
INVARIANT
  NoWorkRefunded
