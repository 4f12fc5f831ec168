SPECIFICATION ContestSpec
CONSTANTS
  r1 = r1
  a1 = a1
  Registrations = {r1}
  Agents = {a1}
  AgentOf <- SingleRegistration
  Requests = {q1, q2}
  NoRegistration = noRegistration
  Routes = {"webhook", "polling"}
  Faults = {"send", "throw"}
  Attempts = 2
  MaxRecords = 3
CHECK_DEADLOCK FALSE
INVARIANTS
  ContestTypeOK
  DispatchedWasTold
  RepeatsAreConcurrent
  ReviewHasWork
PROPERTY
  RegistrationIsDispatched
