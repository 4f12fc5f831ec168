---------------------------- MODULE AgentRegistry ----------------------------
(***************************************************************************)
(* The agents table and the on-chain assets that stand for its rows.       *)
(* registerAgent (agents.service.ts) makes a row and hands its owner a     *)
(* transaction that mints an asset; the row is promoted when the owner     *)
(* asks (confirmRegistration) or when Helius reports a transaction that    *)
(* names the asset (helius.service.ts), whichever comes first; an hourly   *)
(* cron (agents-scheduler.service.ts) deletes what nobody promoted; health *)
(* checks and the owner write health_status, which the cron goes by.       *)
(***************************************************************************)
CONSTANTS
  Agents,
  Faults   \* "rpc" a chain query fails.  "throw" a database call throws or the
           \* process restarts.  "dup" a webhook event is delivered again.

ASSUME RegistryAssumption == Faults \subseteq {"rpc", "throw", "dup"}

VARIABLES
  (* table agents *)
  rows,        \* is there a row?  "none" not yet, "row", or "deleted"
  pending,     \* agents with a pending_asset_pubkey
  confirmed,   \* agents with an asset_pubkey
  health,      \* health_status
  referenced,  \* agents other tables refer to: registrations and statistics
  (* the world *)
  given,       \* agents whose owner was given the transaction
  minted,      \* agents whose asset is on chain
  named,       \* agents whose asset some transaction has among its accounts
  events,      \* of those, the ones Helius still has to report
  stale,       \* agents whose row, if any, was made more than an hour ago
  (* handlers in flight *)
  creating,    \* registerAgent, between the two writes of its row
  confirming,  \* confirmRegistration, having read the pending key
  promoting,   \* the webhook, having found the row by its pending key
  checking,    \* triggerHealthCheck, having read the asset
  (* history *)
  overridden   \* agents whose health_status was last written by their owner

table    == <<rows, pending, confirmed, health, referenced>>
world    == <<given, minted, named, events, stale>>
handlers == <<creating, confirming, promoting, checking>>
vars     == <<table, world, handlers, overridden>>

\* "checked" stands for what a health check may find, "live" for what an owner
\* may set besides "pending".
Health == {"pending", "healthy", "checked", "live"}

TypeOK ==
  /\ rows \in [Agents -> {"none", "row", "deleted"}]
  /\ health \in [Agents -> Health]
  /\ \A S \in {pending, confirmed, referenced, given, minted, named, events,
               stale, creating, confirming, promoting, checking, overridden} :
       S \subseteq Agents

Init ==
  /\ rows = [a \in Agents |-> "none"]
  /\ health = [a \in Agents |-> "pending"]
  /\ pending = {} /\ confirmed = {} /\ referenced = {}
  /\ given = {} /\ minted = {} /\ named = {} /\ events = {} /\ stale = {}
  /\ creating = {} /\ confirming = {} /\ promoting = {} /\ checking = {}
  /\ overridden = {}

Present(a) == rows[a] = "row"

-----------------------------------------------------------------------------
(* The world around the server *)

HourPasses(a) ==
  /\ rows[a] # "none"
  /\ a \notin stale
  /\ stale' = stale \cup {a}
  /\ UNCHANGED <<table, given, minted, named, events, handlers, overridden>>

\* The owner signs and broadcasts; the blockhash of the transaction does not
\* live for an hour.
MintLands(a) ==
  /\ a \in given \ (minted \cup stale)
  /\ minted' = minted \cup {a}
  /\ named' = named \cup {a}
  /\ events' = events \cup {a}
  /\ UNCHANGED <<table, given, stale, handlers, overridden>>

\* Another transaction has the asset among its accounts: the registration, that
\* failed on chain, or one of another program made by whoever knows the key.
TransactionNames(a) ==
  /\ a \in given
  /\ named' = named \cup {a}
  /\ events' = events \cup {a}
  /\ UNCHANGED <<table, given, minted, stale, handlers, overridden>>

\* The agent registers for a bounty, confirmed or not.  What refers to it then
\* stays: its statistics are never deleted.
RegisterForBounty(a) ==
  /\ Present(a)
  /\ referenced' = referenced \cup {a}
  /\ UNCHANGED <<rows, pending, confirmed, health, world, handlers, overridden>>

-----------------------------------------------------------------------------
(* agents.service.ts *)

\* Metadata is pinned, the transaction built and signed with the asset's key,
\* and the row is made ...
RegisterAgent(a) ==
  /\ rows[a] = "none"
  /\ rows' = [rows EXCEPT ![a] = "row"]
  /\ creating' = creating \cup {a}
  /\ UNCHANGED <<pending, confirmed, health, referenced, world, confirming,
                 promoting, checking, overridden>>

\* Variant: the owner gets the transaction though the key was not stored.
SetPendingAssetLate(a) ==
  /\ a \in creating
  /\ creating' = creating \ {a}
  /\ pending' \in {pending, pending \cup {a}}
  /\ given' = given \cup {a}
  /\ UNCHANGED <<rows, confirmed, health, referenced, minted, named, events, stale,
                 confirming, promoting, checking, overridden>>

\* ... then the key is stored, and only then the owner gets the transaction.
SetPendingAsset(a) ==
  /\ a \in creating
  /\ Present(a)
  /\ creating' = creating \ {a}
  /\ pending' = pending \cup {a}
  /\ given' = given \cup {a}
  /\ UNCHANGED <<rows, confirmed, health, referenced, minted, named, events, stale,
                 confirming, promoting, checking, overridden>>

\* The row stays, without a key.
RegisterFails(a) ==
  /\ a \in creating
  /\ "throw" \in Faults \/ ~Present(a)
  /\ creating' = creating \ {a}
  /\ UNCHANGED <<table, world, confirming, promoting, checking, overridden>>

\* Variant: health_status is left for the next health check.
PromoteUnchecked(a) ==
  /\ Present(a)
  /\ confirmed' = confirmed \cup {a}
  /\ pending' = pending \ {a}
  /\ UNCHANGED <<rows, health, referenced, overridden>>

\* One update, of a row that must still be there.
Promote(a) ==
  /\ Present(a)
  /\ confirmed' = confirmed \cup {a}
  /\ pending' = pending \ {a}
  /\ health' = [health EXCEPT ![a] = "healthy"]
  /\ overridden' = overridden \ {a}
  /\ UNCHANGED <<rows, referenced>>

\* Without a pending key confirmRegistration throws, also when the webhook has
\* promoted the row.
ConfirmLoad(a) ==
  /\ Present(a)
  /\ a \in pending
  /\ confirming' = confirming \cup {a}
  /\ UNCHANGED <<table, world, creating, promoting, checking, overridden>>

\* Variant: the answer of the chain query is not waited for.
ConfirmWriteUnasked(a) ==
  /\ a \in confirming
  /\ Promote(a)
  /\ confirming' = confirming \ {a}
  /\ UNCHANGED <<world, creating, promoting, checking>>

ConfirmWrite(a) ==
  /\ a \in confirming \cap minted
  /\ Promote(a)
  /\ confirming' = confirming \ {a}
  /\ UNCHANGED <<world, creating, promoting, checking>>

\* "confirmed: false": not on chain, or the query or the update failed.
ConfirmFails(a) ==
  /\ a \in confirming
  /\ a \notin minted \/ ~Present(a) \/ Faults \cap {"rpc", "throw"} # {}
  /\ confirming' = confirming \ {a}
  /\ UNCHANGED <<table, world, creating, promoting, checking, overridden>>

\* Only the fields of UpdateAgentDto, among them health_status.
Update(a, status) ==
  /\ Present(a)
  /\ status \in {"pending", "live"}
  /\ health' = [health EXCEPT ![a] = status]
  /\ overridden' = overridden \cup {a}
  /\ UNCHANGED <<rows, pending, confirmed, referenced, world, handlers>>

TriggerHealthCheck(a) ==
  /\ Present(a)
  /\ a \in confirmed
  /\ checking' = checking \cup {a}
  /\ UNCHANGED <<table, world, creating, confirming, promoting, overridden>>

\* Variant: the status is stored as the SDK reports it.
HealthCheckWriteRaw(a) ==
  /\ a \in checking
  /\ Present(a)
  /\ checking' = checking \ {a}
  /\ health' = [health EXCEPT ![a] = "not_live"]
  /\ overridden' = overridden \ {a}
  /\ UNCHANGED <<rows, pending, confirmed, referenced, world, creating, confirming,
                 promoting>>

HealthCheckWrite(a) ==
  /\ a \in checking
  /\ Present(a)
  /\ checking' = checking \ {a}
  /\ health' \in {[health EXCEPT ![a] = h] : h \in {"healthy", "checked"}}
  /\ overridden' = overridden \ {a}
  /\ UNCHANGED <<rows, pending, confirmed, referenced, world, creating, confirming,
                 promoting>>

HealthCheckFails(a) ==
  /\ a \in checking
  /\ ~Present(a) \/ Faults \cap {"rpc", "throw"} # {}
  /\ checking' = checking \ {a}
  /\ UNCHANGED <<table, world, creating, confirming, promoting, overridden>>

-----------------------------------------------------------------------------
(* helius.service.ts, handlePotentialAgentRegistration *)

\* For each account of each instruction, of whatever program and outcome, a row
\* is looked for by its pending key; one that is not found is no error.
HeliusFind(a) ==
  /\ a \in events
  /\ \/ events' = events \ {a}
     \/ "dup" \in Faults /\ events' = events
  /\ promoting' = IF Present(a) /\ a \in pending THEN promoting \cup {a} ELSE promoting
  /\ UNCHANGED <<table, given, minted, named, stale, creating, confirming, checking,
                 overridden>>

HeliusPromote(a) ==
  /\ a \in promoting
  /\ Promote(a)
  /\ promoting' = promoting \ {a}
  /\ UNCHANGED <<world, creating, confirming, checking>>

\* The controller logs the error and acknowledges the event.
HeliusFails(a) ==
  /\ a \in promoting
  /\ "throw" \in Faults \/ ~Present(a)
  /\ promoting' = promoting \ {a}
  /\ UNCHANGED <<table, world, creating, confirming, checking, overridden>>

-----------------------------------------------------------------------------
(* agents-scheduler.service.ts *)

StalePending == {a \in stale : Present(a) /\ health[a] = "pending"}

\* Variant: only rows without a key are deleted.
CleanupKeyless ==
  /\ StalePending \ pending # {}
  /\ StalePending \cap referenced = {}
  /\ rows' = [a \in Agents |-> IF a \in StalePending \ pending THEN "deleted" ELSE rows[a]]
  /\ UNCHANGED <<pending, confirmed, health, referenced, world, handlers,
                 overridden>>

\* One statement deletes all of them, or none when another table refers to one.
CleanupStalePendingAgents ==
  /\ StalePending # {}
  /\ StalePending \cap referenced = {}
  /\ rows' = [a \in Agents |-> IF a \in StalePending THEN "deleted" ELSE rows[a]]
  /\ UNCHANGED <<pending, confirmed, health, referenced, world, handlers,
                 overridden>>

-----------------------------------------------------------------------------
World ==
  \E a \in Agents :
    \/ HourPasses(a) \/ MintLands(a) \/ TransactionNames(a) \/ RegisterForBounty(a)

Requests ==
  \E a \in Agents :
    \/ RegisterAgent(a) \/ SetPendingAsset(a) \/ RegisterFails(a)
    \/ ConfirmLoad(a) \/ ConfirmWrite(a) \/ ConfirmFails(a)
    \/ \E status \in Health : Update(a, status)
    \/ TriggerHealthCheck(a) \/ HealthCheckWrite(a) \/ HealthCheckFails(a)

Helius == \E a \in Agents : HeliusFind(a) \/ HeliusPromote(a) \/ HeliusFails(a)

Next == World \/ Requests \/ Helius \/ CleanupStalePendingAgents

(***************************************************************************)
(* The cron fires every hour and catches its errors; nothing else is sure  *)
(* to happen.                                                              *)
(***************************************************************************)
Spec == Init /\ [][Next]_vars /\ WF_vars(CleanupStalePendingAgents)

-----------------------------------------------------------------------------
(* Properties *)

\* As long as the row of a minted agent lives, it knows the asset: confirmed,
\* or under the key by which Helius and the owner can still have it confirmed,
\* and never both.
MintedIsKnown ==
  \A a \in minted : Present(a) =>
    (a \in confirmed /\ a \notin pending) \/ (a \in pending /\ a \notin confirmed)

\* An "asset_pubkey" was met on chain, in a query or among the accounts of a
\* reported transaction, however confirmations, webhook events and health
\* checks overlap.
ConfirmedIsNamed == confirmed \cup checking \subseteq named

\* The cleanup is for registrations nobody completed: a confirmed agent is never
\* deleted, unless its owner has set its health_status back to "pending".
ConfirmedIsKept ==
  [][\A a \in confirmed \ overridden : Present(a) => rows'[a] = "row"]_vars

\* A row that nobody promotes for an hour goes away, unless one such row is
\* referred to, which keeps all of them.
StaleIsResolved ==
  \A a \in Agents :
    a \in StalePending ~> a \notin StalePending \/ StalePending \cap referenced # {}
==============================================================================
