------------------------- MODULE AgentRegistry_proofs -------------------------
(***************************************************************************)
(* Theorems about AgentRegistry for every set of agents and all faults.    *)
(***************************************************************************)
EXTENDS AgentRegistry, TLAPS

-----------------------------------------------------------------------------
LEMMA InitTypeOK == Init => TypeOK
  BY DEF Init, TypeOK, Health

LEMMA TypeStep == TypeOK /\ [Next]_vars => TypeOK'
<1> SUFFICES ASSUME TypeOK, [Next]_vars PROVE TypeOK'
  OBVIOUS
<1> USE DEF TypeOK, table, world, handlers
<1>1. CASE UNCHANGED vars
  BY <1>1 DEF vars
<1>2. CASE World
  BY <1>2 DEF World, HourPasses, MintLands, TransactionNames, RegisterForBounty
<1>3. ASSUME NEW a \in Agents,
             RegisterAgent(a) \/ SetPendingAsset(a) \/ RegisterFails(a) \/ ConfirmLoad(a)
      PROVE  TypeOK'
  BY <1>3 DEF RegisterAgent, SetPendingAsset, RegisterFails, ConfirmLoad
<1>4. ASSUME NEW a \in Agents, ConfirmWrite(a) \/ ConfirmFails(a) PROVE TypeOK'
  BY <1>4 DEF ConfirmWrite, ConfirmFails, Promote, Health
<1>5. ASSUME NEW a \in Agents, NEW status \in Health, Update(a, status) PROVE TypeOK'
  BY <1>5 DEF Update
<1>6. ASSUME NEW a \in Agents,
             TriggerHealthCheck(a) \/ HealthCheckWrite(a) \/ HealthCheckFails(a)
      PROVE  TypeOK'
  BY <1>6 DEF TriggerHealthCheck, HealthCheckWrite, HealthCheckFails, Health
<1>7. CASE Helius
  BY <1>7 DEF Helius, HeliusFind, HeliusPromote, HeliusFails, Promote, Health
<1>8. CASE CleanupStalePendingAgents
  BY <1>8 DEF CleanupStalePendingAgents
<1> QED BY <1>1, <1>2, <1>3, <1>4, <1>5, <1>6, <1>7, <1>8 DEF Next, Requests

\* Every variable keeps its type.
THEOREM TypeCorrect == Spec => []TypeOK
  BY InitTypeOK, TypeStep, PTL DEF Spec

-----------------------------------------------------------------------------
(* The inductive invariant *)

\* What is known of an asset, in the database or by a handler, some transaction
\* has named, and the key was disclosed with the transaction its owner was given.
MintInv ==
  /\ confirmed \cup events \cup promoting \cup minted \subseteq named
  /\ named \subseteq given
  /\ checking \subseteq confirmed

\* The transaction is given once the key is stored, and the key is dropped only
\* for the asset itself.
KeyInv ==
  /\ creating \cap given = {}
  /\ \A a \in creating \cup given : rows[a] # "none"
  /\ \A a \in given : Present(a) => a \in pending \/ a \in confirmed
  /\ confirmed \cap pending = {}

\* Whoever confirms an agent also makes it healthy.
HealthInv ==
  \A a \in confirmed \ overridden : health[a] # "pending"

RInv == MintInv /\ KeyInv /\ HealthInv

LEMMA InitRInv == Init => RInv
  BY DEF Init, RInv, MintInv, KeyInv, HealthInv

LEMMA PromoteRInv ==
  ASSUME TypeOK, RInv, NEW a \in named, Promote(a),
         UNCHANGED <<world, creating>>,
         promoting' \subseteq promoting, checking' = checking
  PROVE  RInv'
  BY DEF TypeOK, RInv, MintInv, KeyInv, HealthInv, Promote, Present, world

LEMMA RInvStep == TypeOK /\ RInv /\ [Next]_vars => RInv'
<1> SUFFICES ASSUME TypeOK, RInv, [Next]_vars PROVE RInv'
  OBVIOUS
<1> USE DEF TypeOK, RInv, MintInv, KeyInv, HealthInv, Present, table, world, handlers
<1>1. CASE UNCHANGED vars
  BY <1>1 DEF vars
<1>2. CASE World
  BY <1>2 DEF World, HourPasses, MintLands, TransactionNames, RegisterForBounty
<1>3. ASSUME NEW a \in Agents, RegisterAgent(a) PROVE RInv'
  BY <1>3 DEF RegisterAgent
<1>4. ASSUME NEW a \in Agents, SetPendingAsset(a) PROVE RInv'
  BY <1>4 DEF SetPendingAsset
<1>5. ASSUME NEW a \in Agents, RegisterFails(a) \/ ConfirmLoad(a) \/ ConfirmFails(a)
      PROVE  RInv'
  BY <1>5 DEF RegisterFails, ConfirmLoad, ConfirmFails
<1>6. ASSUME NEW a \in Agents, ConfirmWrite(a) PROVE RInv'
  BY <1>6, PromoteRInv DEF ConfirmWrite
<1>7. ASSUME NEW a \in Agents, NEW status \in Health, Update(a, status) PROVE RInv'
  BY <1>7 DEF Update
<1>8. ASSUME NEW a \in Agents,
             TriggerHealthCheck(a) \/ HealthCheckWrite(a) \/ HealthCheckFails(a)
      PROVE  RInv'
  BY <1>8 DEF TriggerHealthCheck, HealthCheckWrite, HealthCheckFails
<1>9. ASSUME NEW a \in Agents, HeliusFind(a) \/ HeliusFails(a) PROVE RInv'
  BY <1>9 DEF HeliusFind, HeliusFails
<1>10. ASSUME NEW a \in Agents, HeliusPromote(a) PROVE RInv'
  BY <1>10, PromoteRInv DEF HeliusPromote
<1>11. CASE CleanupStalePendingAgents
  BY <1>11 DEF CleanupStalePendingAgents
<1> QED BY <1>1, <1>2, <1>3, <1>4, <1>5, <1>6, <1>7, <1>8, <1>9, <1>10, <1>11
        DEF Next, Requests, Helius

LEMMA Invariant == Spec => [](TypeOK /\ RInv)
  BY InitTypeOK, InitRInv, TypeStep, RInvStep, PTL DEF Spec

-----------------------------------------------------------------------------
\* The row of a minted agent knows its asset, confirmed or pending.
THEOREM MintsAreKnown == Spec => []MintedIsKnown
<1>1. TypeOK /\ RInv => MintedIsKnown
  BY DEF TypeOK, RInv, MintInv, KeyInv, MintedIsKnown
<1> QED BY <1>1, Invariant, PTL

\* Nothing is confirmed or health-checked that no transaction has named.
THEOREM ConfirmationsAreNamed == Spec => []ConfirmedIsNamed
<1>1. RInv => ConfirmedIsNamed
  BY DEF RInv, MintInv, ConfirmedIsNamed
<1> QED BY <1>1, Invariant, PTL

\* The hourly cleanup spares confirmed agents whose owners leave health_status
\* alone.
THEOREM ConfirmedAreKept == Spec => ConfirmedIsKept
<1> DEFINE Kept == \A a \in confirmed \ overridden : Present(a) => rows'[a] = "row"
<1>1. TypeOK /\ RInv /\ [Next]_vars => [Kept]_vars
  <2> SUFFICES ASSUME TypeOK, RInv, Next PROVE Kept
    OBVIOUS
  <2> USE DEF TypeOK, Present, table
  <2>1. CASE UNCHANGED rows
    BY <2>1
  <2>2. ASSUME NEW a \in Agents, RegisterAgent(a) PROVE Kept
    BY <2>2 DEF RegisterAgent
  <2>3. CASE CleanupStalePendingAgents
    BY <2>3 DEF CleanupStalePendingAgents, StalePending, RInv, HealthInv
  <2>4. UNCHANGED rows \/ (\E a \in Agents : RegisterAgent(a)) \/ CleanupStalePendingAgents
    BY DEF Next, World, Requests, Helius, HourPasses, MintLands, TransactionNames,
       RegisterForBounty, SetPendingAsset, RegisterFails, ConfirmLoad, ConfirmWrite,
       ConfirmFails, Promote, Update, TriggerHealthCheck, HealthCheckWrite,
       HealthCheckFails, HeliusFind, HeliusPromote, HeliusFails
  <2> QED BY <2>1, <2>2, <2>3, <2>4
<1> QED BY <1>1, Invariant, PTL DEF Spec, ConfirmedIsKept
==============================================================================
