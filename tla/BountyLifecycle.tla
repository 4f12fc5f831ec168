--------------------------- MODULE BountyLifecycle ---------------------------
(***************************************************************************)
(* The life of a bounty: its row in the database, its vault on chain, and  *)
(* everybody who moves them.  The row is written by four uncoordinated     *)
(* parties - the client's HTTP calls (bounties.service.ts and              *)
(* bounties-review.service.ts), the deadline cron                          *)
(* (bounties-scheduler.service.ts), the Helius webhook (helius.service.ts) *)
(* - and none of the updates is conditional on the state it replaces.  The *)
(* vault is moved by transactions the authority signs (update_escrow) and  *)
(* by transactions the server only builds and the client signs             *)
(* (create_escrow, settle_escrow).                                         *)
(*                                                                         *)
(* A handler is one action per stretch between two awaits whose order      *)
(* against the other parties matters.  What it holds across an await is    *)
(* kept per request.  Every in-flight handler may die at such a point if   *)
(* "throw" is among the Faults: an exception of a database call or a       *)
(* restart of the process; a crash is several of them.                     *)
(***************************************************************************)
EXTENDS EscrowProgram, Naturals

CONSTANTS
  Bounties,
  Agents,
  NoAgent,            \* winner_agent_id is null
  NoBounty,           \* the cron's loop is between two bounties
  OwnerOf,            \* the wallet of the user who owns an agent
  Faults,             \* what can go wrong, see FaultAssumption
  MaxConfirms         \* bound: confirm requests in flight for one bounty

(***************************************************************************)
(* "rpc"   an RPC call fails, or its answer is lost                        *)
(* "throw" a database call throws or the process restarts at an await      *)
(* "drop"  a broadcast update_escrow expires without landing               *)
(* "lose"  a webhook event is lost (helius.controller.ts swallows errors)  *)
(* "dup"   a webhook event is delivered again                              *)
(* "stray" a client confirms with a transaction that is not its deposit,   *)
(*         or another wallet makes a deposit under the job id of a bounty  *)
(***************************************************************************)
ASSUME FaultAssumption ==
  Faults \subseteq {"rpc", "throw", "drop", "lose", "dup", "stray"}

ASSUME BountyAssumption ==
  /\ OwnerOf \in [Agents -> Owners]
  /\ NoAgent \notin Agents
  /\ NoBounty \notin Bounties
  /\ MaxConfirms \in Nat

VARIABLES
  (* the row of table bounties *)
  state,       \* bounties.state; "none" before the row is inserted
  winner,      \* bounties.winner_agent_id
  escrowPda,   \* bounties.escrow_pda: "none", the vault of this job, or another
  (* the clock *)
  passed,      \* the deadlines of the bounty that lie in the past
  (* the chain *)
  vault,       \* the vault as of the latest confirmed slot
  finalized,   \* the vault as preflight simulation sees it
  updates,     \* authority-signed update_escrow transactions in flight
  settleTxs,   \* recipients of the settle_escrow transactions the client holds
  events,      \* webhook events Helius still has to deliver
  (* handlers in flight *)
  confirming,  \* confirmEscrow requests that found the bounty in draft
  selecting,   \* how far selectWinner has come, per bounty and agent
  settling,    \* settle events being handled: the winners their handlers read
  tick,        \* the run of handleDeadlines
  (* history *)
  signed       \* the recipients the authority has signed an update_escrow for

row      == <<state, winner, escrowPda>>
chain    == <<vault, finalized, updates, settleTxs, signed>>
handlers == <<confirming, selecting, settling, tick>>
vars     == <<row, passed, chain, events, handlers>>

States == {"none", "draft", "open", "under_review", "awaiting_refund",
           "settled", "completed", "refunded"}
Deadlines   == {"submission", "review"}
Updates     == [bounty : Bounties, grantee : Recipients]
Events      == [type : {"create", "settle"}, bounty : Bounties]
SelectSteps == {"idle", "loaded", "sent", "written"}
Ticks == [phase   : {"idle", "open", "review"},
          due     : SUBSET Bounties,
          overdue : SUBSET Bounties,
          at      : Bounties \cup {NoBounty},
          step    : {"next", "review", "unfulfil", "await"}]
IdleTick == [phase |-> "idle", due |-> {}, overdue |-> {}, at |-> NoBounty,
             step |-> "next"]

TypeOK ==
  /\ state \in [Bounties -> States]
  /\ winner \in [Bounties -> Agents \cup {NoAgent}]
  /\ escrowPda \in [Bounties -> {"none", "own", "other"}]
  /\ passed \in [Bounties -> SUBSET Deadlines]
  /\ vault \in [Bounties -> Vaults]
  /\ finalized \in [Bounties -> Vaults]
  /\ updates \subseteq Updates
  /\ settleTxs \in [Bounties -> SUBSET Recipients]
  /\ events \subseteq Events
  /\ confirming \in [Bounties -> Nat]
  /\ selecting \in [Bounties -> [Agents -> SelectSteps]]
  /\ settling \in [Bounties -> SUBSET (Agents \cup {NoAgent})]
  /\ tick \in Ticks
  /\ signed \in [Bounties -> SUBSET Recipients]

Init ==
  /\ state = [b \in Bounties |-> "none"]
  /\ winner = [b \in Bounties |-> NoAgent]
  /\ escrowPda = [b \in Bounties |-> "none"]
  /\ passed = [b \in Bounties |-> {}]
  /\ vault = [b \in Bounties |-> NoVault]
  /\ finalized = [b \in Bounties |-> NoVault]
  /\ updates = {}
  /\ settleTxs = [b \in Bounties |-> {}]
  /\ events = {}
  /\ confirming = [b \in Bounties |-> 0]
  /\ selecting = [b \in Bounties |-> [a \in Agents |-> "idle"]]
  /\ settling = [b \in Bounties |-> {}]
  /\ tick = IdleTick
  /\ signed = [b \in Bounties |-> {}]

Expired(b) == "review" \in passed[b]

-----------------------------------------------------------------------------
(* The world around the server *)

DeadlinePasses(b, d) ==
  /\ d \notin passed[b]
  /\ passed' = [passed EXCEPT ![b] = @ \cup {d}]
  /\ UNCHANGED <<row, chain, events, handlers>>

\* The client signs and broadcasts the transaction createBounty returned, and
\* Helius learns of it.
CreateLands(b) ==
  /\ state[b] # "none"
  /\ CreateAccepted(vault[b], Expired(b))
  /\ vault' = [vault EXCEPT ![b] = FundedVault]
  /\ events' = events \cup {[type |-> "create", bounty |-> b]}
  /\ UNCHANGED <<row, passed, finalized, updates, settleTxs, signed,
                 handlers>>

\* sendTransaction simulates against finalized state, which trails.
Finalize(b) ==
  /\ finalized[b] # vault[b]
  /\ finalized' = [finalized EXCEPT ![b] = vault[b]]
  /\ UNCHANGED <<row, passed, vault, updates, settleTxs, signed, events,
                 handlers>>

\* An update_escrow in flight is executed, with or without success.
UpdateLands(u) ==
  /\ u \in updates
  /\ updates' = updates \ {u}
  /\ vault' = IF UpdateAccepted(vault[u.bounty])
                THEN [vault EXCEPT ![u.bounty] = Updated(@, u.grantee)]
                ELSE vault
  /\ UNCHANGED <<row, passed, finalized, settleTxs, signed, events, handlers>>

UpdateDropped(u) ==
  /\ "drop" \in Faults
  /\ u \in updates
  /\ updates' = updates \ {u}
  /\ UNCHANGED <<row, passed, vault, finalized, settleTxs, signed, events,
                 handlers>>

\* The client signs a settle_escrow transaction it was given and it succeeds.
SettleLands(b, r) ==
  /\ r \in settleTxs[b]
  /\ SettleAccepted(vault[b], r)
  /\ vault' = [vault EXCEPT ![b] = Settled(@)]
  /\ events' = events \cup {[type |-> "settle", bounty |-> b]}
  /\ UNCHANGED <<row, passed, finalized, updates, settleTxs, signed, handlers>>

EventLost(e) ==
  /\ "lose" \in Faults
  /\ e \in events
  /\ events' = events \ {e}
  /\ UNCHANGED <<row, passed, chain, handlers>>

\* Helius calls the webhook with event e, perhaps not for the last time.
Deliver(e) ==
  /\ e \in events
  /\ \/ events' = events \ {e}
     \/ "dup" \in Faults /\ events' = events

-----------------------------------------------------------------------------
(* bounties.service.ts *)

\* The simulation of create_escrow refuses an expiry in the past, but the
\* transaction is returned all the same when the RPC call itself fails.
BuildCreateEscrowTx(b) == ~Expired(b) \/ "rpc" \in Faults

CreateBounty(b) ==
  /\ state[b] = "none"
  /\ BuildCreateEscrowTx(b)
  /\ state' = [state EXCEPT ![b] = "draft"]
  /\ UNCHANGED <<winner, escrowPda, passed, chain, events, handlers>>

\* confirmEscrow reads the row; any state but draft is returned as it is.
ConfirmRead(b) ==
  /\ state[b] = "draft"
  /\ confirming[b] < MaxConfirms
  /\ confirming' = [confirming EXCEPT ![b] = @ + 1]
  /\ UNCHANGED <<row, passed, chain, events, selecting, settling, tick>>

\* Variant: a transaction that is not found is taken for a success.
ConfirmWriteUnchecked(b) ==
  /\ confirming[b] > 0
  /\ state' = [state EXCEPT ![b] = "open"]
  /\ escrowPda' = [escrowPda EXCEPT ![b] = "own"]
  /\ confirming' = [confirming EXCEPT ![b] = @ - 1]
  /\ UNCHANGED <<winner, passed, chain, events, selecting, settling, tick>>

\* Any transaction that succeeded will do, if it holds an instruction of the
\* escrow program with three accounts: not the kind of the instruction, nor its
\* job, nor its third account is compared with anything.
EscrowPdaFromTx(b) ==
  {s \in {"own", "other"} : IF s = "own" THEN Exists(vault[b]) ELSE "stray" \in Faults}

\* That account becomes escrow_pda.  The state is not read again.
ConfirmWrite(b) ==
  /\ confirming[b] > 0
  /\ \E s \in EscrowPdaFromTx(b) : escrowPda' = [escrowPda EXCEPT ![b] = s]
  /\ state' = [state EXCEPT ![b] = "open"]
  /\ confirming' = [confirming EXCEPT ![b] = @ - 1]
  /\ UNCHANGED <<winner, passed, chain, events, selecting, settling, tick>>

\* "Transaction not found - it may still be propagating", a failed await, or a
\* transaction without an instruction of the program.
ConfirmFails(b) ==
  /\ confirming[b] > 0
  /\ ~Exists(vault[b]) \/ Faults \cap {"rpc", "throw", "stray"} # {}
  /\ confirming' = [confirming EXCEPT ![b] = @ - 1]
  /\ UNCHANGED <<row, passed, chain, events, selecting, settling, tick>>

-----------------------------------------------------------------------------
(* helius.service.ts *)

\* Variant: the row is written anew, without a winner.
HandleEscrowFundedAnew(e) ==
  /\ e.type = "create"
  /\ Deliver(e)
  /\ state' = [state EXCEPT ![e.bounty] = "open"]
  /\ winner' = [winner EXCEPT ![e.bounty] = NoAgent]
  /\ escrowPda' = [escrowPda EXCEPT ![e.bounty] = "own"]
  /\ UNCHANGED <<passed, chain, handlers>>

\* create_escrow seen: the row is found by its job id and opened, whatever its
\* state is by now.
OpenRow(b, pda) ==
  /\ state' = [state EXCEPT ![b] = "open"]
  /\ escrowPda' = [escrowPda EXCEPT ![b] = pda]
  /\ UNCHANGED <<winner, passed, chain, handlers>>

HandleEscrowFunded(e) ==
  /\ e.type = "create"
  /\ Deliver(e)
  /\ OpenRow(e.bounty, "own")

\* The depositor is not compared with the client: the create_escrow of any
\* wallet under this job id does the same.  Its vault is another account, which
\* the authority never grants to anybody: callUpdateEscrow names the client.
HandleForeignEscrow(b) ==
  /\ "stray" \in Faults
  /\ state[b] # "none"
  /\ OpenRow(b, "other")
  /\ UNCHANGED events

\* Variant: the discriminator of the instruction is not compared.
HandleSettleReadAny(e) ==
  /\ Deliver(e)
  /\ settling' = [settling EXCEPT ![e.bounty] = @ \cup {winner[e.bounty]}]
  /\ UNCHANGED <<row, passed, chain, confirming, selecting, tick>>

\* settle_escrow seen: read the row ...
HandleSettleRead(e) ==
  /\ e.type = "settle"
  /\ Deliver(e)
  /\ settling' = [settling EXCEPT ![e.bounty] = @ \cup {winner[e.bounty]}]
  /\ UNCHANGED <<row, passed, chain, confirming, selecting, tick>>

\* ... and decide by the winner that was read.  Of an event delivered twice,
\* two handlers may have read the same.
HandleSettleWrite(b, w) ==
  /\ w \in settling[b]
  /\ state' = [state EXCEPT ![b] = IF w # NoAgent THEN "completed" ELSE "refunded"]
  /\ \/ settling' = [settling EXCEPT ![b] = @ \ {w}]
     \/ "dup" \in Faults /\ settling' = settling
  /\ UNCHANGED <<winner, escrowPda, passed, chain, events, confirming,
                 selecting, tick>>

\* Errors of these updates are not looked at: the event is gone all the same.
HandleSettleFails(b, w) ==
  /\ Faults \cap {"throw", "lose"} # {}
  /\ w \in settling[b]
  /\ settling' = [settling EXCEPT ![b] = @ \ {w}]
  /\ UNCHANGED <<row, passed, chain, events, confirming, selecting, tick>>

-----------------------------------------------------------------------------
(* escrow.service.ts, callUpdateEscrow: simulated, signed and broadcast.  It *)
(* returns after preflight and never waits for the transaction to land.  The *)
(* other transactions are only built, for the client to sign.                *)

\* Variant: preflight is skipped.
CallUpdateEscrowBlind(b, r) ==
  /\ updates' = updates \cup {[bounty |-> b, grantee |-> r]}
  /\ signed' = [signed EXCEPT ![b] = @ \cup {r}]
  /\ UNCHANGED <<vault, finalized, settleTxs>>

CallUpdateEscrow(b, r) ==
  /\ UpdateAccepted(finalized[b])
  /\ updates' = updates \cup {[bounty |-> b, grantee |-> r]}
  /\ signed' = [signed EXCEPT ![b] = @ \cup {r}]
  /\ UNCHANGED <<vault, finalized, settleTxs>>

CallUpdateEscrowFails(b) ==
  /\ ~UpdateAccepted(finalized[b]) \/ "rpc" \in Faults
  /\ UNCHANGED chain

BuildSettleTx(b, owner) ==
  /\ settleTxs' = [settleTxs EXCEPT ![b] = @ \cup {owner}]
  /\ UNCHANGED <<vault, finalized, updates, signed>>

BuildRefundTx(b) ==
  /\ settleTxs' = [settleTxs EXCEPT ![b] = @ \cup {Client}]
  /\ UNCHANGED <<vault, finalized, updates, signed>>

-----------------------------------------------------------------------------
(* bounties-review.service.ts *)

SelectStep(b, a, from, to) ==
  /\ selecting[b][a] = from
  /\ selecting' = [selecting EXCEPT ![b][a] = to]
  /\ UNCHANGED <<escrowPda, passed, events, confirming, settling, tick>>

\* selectWinner loads the bounty, the agent and its owner.  The state of the
\* bounty is not looked at, nor whether the agent has submitted anything.
SelectLoad(b, a) ==
  /\ state[b] # "none"
  /\ SelectStep(b, a, "idle", "loaded")
  /\ UNCHANGED <<state, winner, chain>>

\* Variant: the settle transaction is handed out before the row is written.
SelectCallUpdateReplying(b, a) ==
  /\ SelectStep(b, a, "loaded", "sent")
  /\ UpdateAccepted(finalized[b])
  /\ updates' = updates \cup {[bounty |-> b, grantee |-> OwnerOf[a]]}
  /\ signed' = [signed EXCEPT ![b] = @ \cup {OwnerOf[a]}]
  /\ settleTxs' = [settleTxs EXCEPT ![b] = @ \cup {OwnerOf[a]}]
  /\ UNCHANGED <<state, winner, vault, finalized>>

SelectCallUpdate(b, a) ==
  /\ SelectStep(b, a, "loaded", "sent")
  /\ CallUpdateEscrow(b, OwnerOf[a])
  /\ UNCHANGED <<state, winner>>

\* A failed update_escrow aborts selectWinner.
SelectUpdateFails(b, a) ==
  /\ SelectStep(b, a, "loaded", "idle")
  /\ CallUpdateEscrowFails(b)
  /\ UNCHANGED <<state, winner>>

\* Variant: the row gets the owner's wallet for its winner.
SelectWriteOwner(b, a) ==
  /\ SelectStep(b, a, "sent", "written")
  /\ winner' = [winner EXCEPT ![b] = OwnerOf[a]]
  /\ state' = [state EXCEPT ![b] = "settled"]
  /\ UNCHANGED chain

\* Variant: the row is written before the authority has signed.
SelectWriteEarly(b, a) ==
  /\ SelectStep(b, a, "loaded", "written")
  /\ winner' = [winner EXCEPT ![b] = a]
  /\ state' = [state EXCEPT ![b] = "settled"]
  /\ UNCHANGED chain

SelectWrite(b, a) ==
  /\ SelectStep(b, a, "sent", "written")
  /\ winner' = [winner EXCEPT ![b] = a]
  /\ state' = [state EXCEPT ![b] = "settled"]
  /\ UNCHANGED chain

\* The answer to the client.
SelectReply(b, a) ==
  /\ SelectStep(b, a, "written", "idle")
  /\ BuildSettleTx(b, OwnerOf[a])
  /\ UNCHANGED <<state, winner>>

\* An await fails: whatever was sent or written before it stays.
SelectFails(b, a) ==
  /\ \/ "throw" \in Faults
     \/ "rpc" \in Faults /\ selecting[b][a] # "loaded"
  /\ selecting[b][a] # "idle"
  /\ SelectStep(b, a, selecting[b][a], "idle")
  /\ UNCHANGED <<state, winner, chain>>

\* claimRefund: an unsigned settle_escrow that pays the client.
ClaimRefund(b) ==
  /\ state[b] = "awaiting_refund"
  /\ BuildRefundTx(b)
  /\ UNCHANGED <<row, passed, events, handlers>>

-----------------------------------------------------------------------------
(* bounties-scheduler.service.ts, handleDeadlines.  The rows come back in no *)
(* particular order; "now" is taken once, at the start.                      *)

TickStep(t) ==
  /\ tick' = t
  /\ UNCHANGED <<winner, escrowPda, passed, events, confirming, selecting,
                 settling>>

\* Variants: the deadline is not compared, the other deadline is compared, and
\* the review query asks for open rows.
FindExpiredOpenAny == {b \in Bounties : state[b] = "open"}
FindExpiredOpenByReview == {b \in Bounties : state[b] = "open" /\ Expired(b)}
FindExpiredReviewOpen == {b \in tick.overdue : state[b] = "open"}

FindExpiredOpen == {b \in Bounties : state[b] = "open" /\ "submission" \in passed[b]}
FindExpiredReview == {b \in tick.overdue : state[b] = "under_review"}

TickStart ==
  /\ tick.phase = "idle"
  /\ TickStep([IdleTick EXCEPT !.phase = "open", !.due = FindExpiredOpen,
                               !.overdue = {b \in Bounties : Expired(b)}])
  /\ UNCHANGED <<state, chain>>

\* The loop takes a bounty of the list and counts its submissions.  Agents
\* submit and deregister at any time, so the count is any.
TickCount(b) ==
  /\ tick.phase = "open"
  /\ tick.step = "next"
  /\ b \in tick.due
  /\ \E step \in {"review", "unfulfil"} :
       TickStep([tick EXCEPT !.due = @ \ {b}, !.at = b, !.step = step])
  /\ UNCHANGED <<state, chain>>

\* There were submissions: the row goes to review.
TickReview ==
  /\ tick.step = "review"
  /\ state' = [state EXCEPT ![tick.at] = "under_review"]
  /\ TickStep([tick EXCEPT !.at = NoBounty, !.step = "next"])
  /\ UNCHANGED chain

\* markUnfulfilledAndAwaitRefund: update_escrow(UnFulfilled), whose failure is
\* logged and otherwise ignored, then the row.
TickUnfulfil ==
  /\ tick.step = "unfulfil"
  /\ CallUpdateEscrow(tick.at, Client) \/ CallUpdateEscrowFails(tick.at)
  /\ TickStep([tick EXCEPT !.step = "await"])
  /\ UNCHANGED state

\* Variant: the row is called refunded before the client has claimed.
TickRefunded ==
  /\ tick.step = "await"
  /\ state' = [state EXCEPT ![tick.at] = "refunded"]
  /\ TickStep([tick EXCEPT !.at = NoBounty, !.step = "next"])
  /\ UNCHANGED chain

TickAwaitRefund ==
  /\ tick.step = "await"
  /\ state' = [state EXCEPT ![tick.at] = "awaiting_refund"]
  /\ TickStep([tick EXCEPT !.at = NoBounty, !.step = "next"])
  /\ UNCHANGED chain

TickPhaseTwo ==
  /\ tick.phase = "open"
  /\ tick.step = "next"
  /\ tick.due = {}
  /\ TickStep([tick EXCEPT !.phase = "review", !.due = FindExpiredReview])
  /\ UNCHANGED <<state, chain>>

TickOverdue(b) ==
  /\ tick.phase = "review"
  /\ tick.step = "next"
  /\ b \in tick.due
  /\ TickStep([tick EXCEPT !.due = @ \ {b}, !.at = b, !.step = "unfulfil"])
  /\ UNCHANGED <<state, chain>>

TickEnd ==
  /\ tick.phase = "review"
  /\ tick.step = "next"
  /\ tick.due = {}
  /\ TickStep(IdleTick)
  /\ UNCHANGED <<state, chain>>

\* An exception leaves handleDeadlines: the rest of the list waits for the
\* next run.  A client whose row is missing is one: usersService.findById
\* throws, so the null check that would skip the bounty is never reached.
TickFails ==
  /\ "throw" \in Faults
  /\ tick.phase # "idle"
  /\ TickStep(IdleTick)
  /\ UNCHANGED <<state, chain>>

-----------------------------------------------------------------------------
World ==
  \/ \E b \in Bounties :
       \/ \E d \in Deadlines : DeadlinePasses(b, d)
       \/ CreateLands(b)
       \/ Finalize(b)
       \/ \E r \in Recipients : SettleLands(b, r)
  \/ \E u \in updates : UpdateLands(u) \/ UpdateDropped(u)
  \/ \E e \in events : EventLost(e)

Requests ==
  \E b \in Bounties :
    \/ CreateBounty(b)
    \/ ConfirmRead(b) \/ ConfirmWrite(b) \/ ConfirmFails(b)
    \/ ClaimRefund(b)
    \/ \E a \in Agents :
         \/ SelectLoad(b, a) \/ SelectCallUpdate(b, a) \/ SelectUpdateFails(b, a)
         \/ SelectWrite(b, a) \/ SelectReply(b, a) \/ SelectFails(b, a)

Helius ==
  \/ \E e \in events : HandleEscrowFunded(e) \/ HandleSettleRead(e)
  \/ \E b \in Bounties : HandleForeignEscrow(b)
  \/ \E b \in Bounties, w \in Agents \cup {NoAgent} :
       HandleSettleWrite(b, w) \/ HandleSettleFails(b, w)

Scheduler ==
  \/ TickStart \/ TickReview \/ TickUnfulfil \/ TickAwaitRefund
  \/ TickPhaseTwo \/ TickEnd \/ TickFails
  \/ \E b \in Bounties : TickCount(b) \/ TickOverdue(b)

Next == World \/ Requests \/ Helius \/ Scheduler

Spec == Init /\ [][Next]_vars

(***************************************************************************)
(* The cron fires every 15 minutes and its loop runs on: some scheduler    *)
(* step is always taken in the end.  Nothing is assumed of clients, of     *)
(* Helius or of the chain.                                                 *)
(***************************************************************************)
CronSpec == Spec /\ WF_vars(Scheduler)

\* What the way of the money needs besides: time passes, what was broadcast
\* lands or fails, blocks become final, Helius delivers, and a client asks for
\* the refund and signs what it was given.
Diligence ==
  /\ \A u \in Updates : WF_vars(UpdateLands(u))
  /\ \A b \in Bounties :
       /\ \A d \in Deadlines : WF_vars(DeadlinePasses(b, d))
       /\ WF_vars(Finalize(b))
       /\ WF_vars(\E e \in events : e.bounty = b /\ HandleEscrowFunded(e))
       /\ WF_vars(ClaimRefund(b))
       /\ WF_vars(SettleLands(b, Client))

-----------------------------------------------------------------------------
(* Safety *)

\* A row never names the vault of its bounty before the deposit is on chain,
\* in whatever order confirmations, late events and other wallets' deposits
\* write escrow_pda (bounties.service.ts and helius.service.ts).
RecordedVaultIsFunded ==
  \A b \in Bounties : escrowPda[b] = "own" => Exists(vault[b])

\* A row says "refunded" only when the prize really went back to the client.
\* handleSettleConfirmed concludes this from an unset winner_agent_id alone.
RefundedMeansReturned ==
  \A b \in Bounties : state[b] = "refunded" => vault[b].state = "Refunded"

\* A row says "completed" only when the escrow is settled one way or the other.
CompletedMeansSettled ==
  \A b \in Bounties : state[b] = "completed" => IsSettled(vault[b])

\* No prize is paid out to an agent while the row names no winner.
PaidHasWinner ==
  \A b \in Bounties : vault[b].state = "Released" => winner[b] # NoAgent

\* A row that says a winner was chosen names one the authority signed for.
SettledWasSigned ==
  \A b \in Bounties : state[b] \in {"settled", "completed"} =>
    winner[b] # NoAgent /\ OwnerOf[winner[b]] \in signed[b]

\* The authority never gives a prize back before a deadline of its bounty has
\* passed, however stale the list is that handleDeadlines works on.
RefundOnlyWhenDue ==
  \A b \in Bounties : Client \in signed[b] => passed[b] # {}

PrizeOf(v) == IF ~Exists(v) THEN "client" ELSE IF IsSettled(v) THEN "paid" ELSE "escrow"
PayeeOf(v) == IF IsSettled(v) THEN Grantee(v) ELSE NoOwner

Promise == INSTANCE Custody WITH
  NoPayee <- NoOwner,
  prize   <- [b \in Bounties |-> PrizeOf(vault[b])],
  payee   <- [b \in Bounties |-> PayeeOf(vault[b])],
  grants  <- signed,
  overdue <- [b \in Bounties |-> passed[b] # {}]

\* Every step of the server, the chain and the client is one the promise
\* allows: the prize moves once, and only to a wallet it was granted to.
KeepsPromise == Promise!Spec

\* "open: escrow funded" (bounty.entity.ts): a bounty the public can see has the
\* deposit of its client behind it.
PublishedIsFunded ==
  \A b \in Bounties : state[b] \notin {"none", "draft"} => Exists(vault[b])

\* confirmEscrow and the webhook "transition the bounty to open", whichever is
\* first; the other is a no-op: a row becomes open only out of draft.
OpensOnce ==
  [][\A b \in Bounties :
       state[b] # "open" /\ state'[b] = "open" => state[b] = "draft"]_vars

\* "The settle_escrow tx, when broadcast, transfers USDC from escrow to the
\* winner's ATA": a completed row names the agent whose owner was paid.
WinnerIsPaid ==
  \A b \in Bounties : state[b] = "completed" =>
    vault[b].state = "Released" /\ vault[b].agentOwner = OwnerOf[winner[b]]

-----------------------------------------------------------------------------
(* Liveness *)

\* An open bounty past its submission deadline is acted on by the cron: it
\* does not stay open for agents to waste work on.
OpenIsActedOn ==
  \A b \in Bounties :
    state[b] = "open" /\ "submission" \in passed[b] ~> state[b] # "open"

\* A review the client lets lapse ends.
ReviewEnds ==
  \A b \in Bounties :
    state[b] = "under_review" /\ Expired(b) ~> state[b] # "under_review"

\* When nothing is selected and no RPC call fails, the prize of a bounty that
\* was final before its deadlines returns to a client who asks for it.
UnclaimedPrizeReturns ==
  Diligence =>
    \A b \in Bounties :
      finalized[b].state = "Funded" /\ passed[b] = {} ~> vault[b].state = "Refunded"

\* "Then sets DB state to awaiting_refund so the client can claim via the app"
\* (markUnfulfilledAndAwaitRefund): the client of a bounty that was funded before
\* its deadlines, who claims the refund and signs it, gets the prize.  It takes the
\* update_escrow of the tick to be sent and to land: no later tick sends another.
RefundIsClaimable ==
  Diligence =>
    \A b \in Bounties :
      [](finalized[b].state = "Funded" /\ passed[b] = {} =>
           [](state[b] = "awaiting_refund" ~> vault[b].state = "Refunded"))
==============================================================================
