------------------------ MODULE BountyLifecycle_proofs ------------------------
(***************************************************************************)
(* Theorems about BountyLifecycle for every set of bounties, agents and    *)
(* wallets, every combination of faults and both readings of update_escrow.*)
(***************************************************************************)
EXTENDS BountyLifecycle, TLAPS

-----------------------------------------------------------------------------
(* Type correctness *)

LEMMA InitTypeOK == Init => TypeOK
  BY BountyAssumption, WalletAssumption
  DEF Init, TypeOK, IdleTick, Ticks, NoVault, Vaults, States, SelectSteps

\* What update_escrow and settle_escrow make of a vault is a vault.
LEMMA VaultTypes ==
  ASSUME NEW v \in Vaults, NEW r \in Recipients
  PROVE  Updated(v, r) \in Vaults /\ Settled(v) \in Vaults
  BY DEF Updated, Settled, Vaults, Recipients

LEMMA WorldTypeOK == TypeOK /\ World => TypeOK'
<1> SUFFICES ASSUME TypeOK, World PROVE TypeOK'
  OBVIOUS
<1> USE DEF TypeOK, row, chain, handlers
<1>1. ASSUME NEW b \in Bounties, NEW d \in Deadlines, DeadlinePasses(b, d) PROVE TypeOK'
  BY <1>1 DEF DeadlinePasses
<1>2. ASSUME NEW b \in Bounties, CreateLands(b) PROVE TypeOK'
  <2>1. FundedVault \in Vaults
    BY DEF FundedVault, Vaults
  <2>2. [type |-> "create", bounty |-> b] \in Events
    BY DEF Events
  <2> QED BY <1>2, <2>1, <2>2 DEF CreateLands
<1>3. ASSUME NEW b \in Bounties, Finalize(b) PROVE TypeOK'
  BY <1>3 DEF Finalize
<1>4. ASSUME NEW b \in Bounties, NEW r \in Recipients, SettleLands(b, r) PROVE TypeOK'
  <2>1. [type |-> "settle", bounty |-> b] \in Events
    BY DEF Events
  <2>2. Settled(vault[b]) \in Vaults
    BY VaultTypes
  <2> QED BY <1>4, <2>1, <2>2 DEF SettleLands
<1>5. ASSUME NEW u \in updates, UpdateLands(u) PROVE TypeOK'
  <2>1. u.bounty \in Bounties /\ Updated(vault[u.bounty], u.grantee) \in Vaults
    BY VaultTypes DEF Updates
  <2> QED BY <1>5, <2>1 DEF UpdateLands
<1>6. ASSUME NEW u \in updates, UpdateDropped(u) PROVE TypeOK'
  BY <1>6 DEF UpdateDropped
<1>7. ASSUME NEW e \in events, EventLost(e) PROVE TypeOK'
  BY <1>7 DEF EventLost
<1> QED BY <1>1, <1>2, <1>3, <1>4, <1>5, <1>6, <1>7 DEF World

LEMMA CallTypes ==
  ASSUME TypeOK, NEW b \in Bounties, NEW r \in Recipients,
         CallUpdateEscrow(b, r) \/ CallUpdateEscrowFails(b)
  PROVE  /\ vault' = vault /\ finalized' = finalized /\ settleTxs' = settleTxs
         /\ updates' \subseteq Updates
         /\ signed' \in [Bounties -> SUBSET Recipients]
<1>1. [bounty |-> b, grantee |-> r] \in Updates
  BY DEF Updates
<1> QED BY <1>1 DEF TypeOK, CallUpdateEscrow, CallUpdateEscrowFails, chain

LEMMA RequestsTypeOK == TypeOK /\ Requests => TypeOK'
<1> SUFFICES ASSUME TypeOK, NEW b \in Bounties,
                    \/ CreateBounty(b)
                    \/ ConfirmRead(b) \/ ConfirmWrite(b) \/ ConfirmFails(b)
                    \/ ClaimRefund(b)
                    \/ \E a \in Agents :
                         \/ SelectLoad(b, a) \/ SelectCallUpdate(b, a)
                         \/ SelectUpdateFails(b, a) \/ SelectWrite(b, a)
                         \/ SelectReply(b, a) \/ SelectFails(b, a)
             PROVE  TypeOK'
  BY DEF Requests
<1>1. CASE CreateBounty(b)
  BY <1>1 DEF CreateBounty, TypeOK, States, chain, handlers
<1>2. CASE ConfirmRead(b)
  BY <1>2 DEF ConfirmRead, TypeOK, row, chain
<1>3. CASE ConfirmWrite(b)
  BY <1>3, BountyAssumption DEF ConfirmWrite, EscrowPdaFromTx, TypeOK, chain, States
<1>4. CASE ConfirmFails(b)
  BY <1>4 DEF ConfirmFails, TypeOK, row, chain
<1>5. CASE ClaimRefund(b)
  BY <1>5 DEF ClaimRefund, BuildRefundTx, TypeOK, row, handlers, Recipients
<1>6. ASSUME NEW a \in Agents, SelectLoad(b, a) PROVE TypeOK'
  BY <1>6 DEF SelectLoad, SelectStep, TypeOK, chain, SelectSteps
<1>7. ASSUME NEW a \in Agents, SelectCallUpdate(b, a) PROVE TypeOK'
  <2>1. OwnerOf[a] \in Recipients
    BY BountyAssumption DEF Recipients
  <2> QED BY <1>7, <2>1, CallTypes DEF SelectCallUpdate, SelectStep, TypeOK, SelectSteps
<1>8. ASSUME NEW a \in Agents, SelectUpdateFails(b, a) PROVE TypeOK'
  BY <1>8 DEF SelectUpdateFails, CallUpdateEscrowFails, SelectStep, TypeOK, chain,
     SelectSteps
<1>9. ASSUME NEW a \in Agents, SelectWrite(b, a) PROVE TypeOK'
  BY <1>9 DEF SelectWrite, SelectStep, TypeOK, chain, SelectSteps, States
<1>10. ASSUME NEW a \in Agents, SelectReply(b, a) PROVE TypeOK'
  <2>1. OwnerOf[a] \in Recipients
    BY BountyAssumption DEF Recipients
  <2> QED BY <1>10, <2>1 DEF SelectReply, BuildSettleTx, SelectStep, TypeOK, SelectSteps
<1>11. ASSUME NEW a \in Agents, SelectFails(b, a) PROVE TypeOK'
  BY <1>11 DEF SelectFails, SelectStep, TypeOK, chain, SelectSteps
<1> QED BY <1>1, <1>2, <1>3, <1>4, <1>5, <1>6, <1>7, <1>8, <1>9, <1>10, <1>11

LEMMA HeliusTypeOK == TypeOK /\ Helius => TypeOK'
<1> SUFFICES ASSUME TypeOK, Helius PROVE TypeOK'
  OBVIOUS
<1> USE DEF TypeOK, row, chain, handlers, Deliver
<1>1. ASSUME NEW e \in events, HandleEscrowFunded(e) PROVE TypeOK'
  BY <1>1 DEF HandleEscrowFunded, OpenRow, States
<1>2. ASSUME NEW e \in events, HandleSettleRead(e) PROVE TypeOK'
  <2>1. e.bounty \in Bounties
    BY DEF Events
  <2> QED BY <1>2, <2>1 DEF HandleSettleRead
<1>3. ASSUME NEW b \in Bounties, NEW w \in Agents \cup {NoAgent}, HandleSettleWrite(b, w)
      PROVE TypeOK'
  BY <1>3 DEF HandleSettleWrite, States
<1>4. ASSUME NEW b \in Bounties, NEW w \in Agents \cup {NoAgent}, HandleSettleFails(b, w)
      PROVE TypeOK'
  BY <1>4 DEF HandleSettleFails
<1>5. ASSUME NEW b \in Bounties, HandleForeignEscrow(b) PROVE TypeOK'
  BY <1>5 DEF HandleForeignEscrow, OpenRow, States
<1> QED BY <1>1, <1>2, <1>3, <1>4, <1>5 DEF Helius

\* Between two bounties the cron holds none.
TickInv ==
  /\ tick.step # "next" => tick.at \in Bounties

LEMMA SchedulerTypeOK == TypeOK /\ TickInv /\ Scheduler => TypeOK' /\ TickInv'
<1> SUFFICES ASSUME TypeOK, TickInv, Scheduler PROVE TypeOK' /\ TickInv'
  OBVIOUS
<1> USE DEF TypeOK, TickInv, chain, TickStep, Ticks, IdleTick, States
<1>1. CASE TickStart
  BY <1>1 DEF TickStart, FindExpiredOpen, Expired
<1>2. ASSUME NEW b \in Bounties, TickCount(b) PROVE TypeOK' /\ TickInv'
  <2>1. PICK step \in {"review", "unfulfil"} :
          TickStep([tick EXCEPT !.due = @ \ {b}, !.at = b, !.step = step])
    BY <1>2 DEF TickCount
  <2> QED BY <1>2, <2>1 DEF TickCount
<1>3. CASE TickReview
  BY <1>3 DEF TickReview
<1>4. CASE TickUnfulfil
  <2>1. tick.at \in Bounties /\ Client \in Recipients
    BY <1>4 DEF TickUnfulfil, Recipients
  <2>2. /\ vault' = vault /\ finalized' = finalized /\ settleTxs' = settleTxs
        /\ updates' \subseteq Updates
        /\ signed' \in [Bounties -> SUBSET Recipients]
    BY <1>4, <2>1, CallTypes DEF TickUnfulfil
  <2> QED BY <1>4, <2>2 DEF TickUnfulfil
<1>5. CASE TickAwaitRefund
  BY <1>5 DEF TickAwaitRefund
<1>6. CASE TickPhaseTwo
  BY <1>6 DEF TickPhaseTwo, FindExpiredReview
<1>7. ASSUME NEW b \in Bounties, TickOverdue(b) PROVE TypeOK' /\ TickInv'
  BY <1>7 DEF TickOverdue
<1>8. CASE TickEnd
  BY <1>8 DEF TickEnd
<1>9. CASE TickFails
  BY <1>9 DEF TickFails
<1> QED BY <1>1, <1>2, <1>3, <1>4, <1>5, <1>6, <1>7, <1>8, <1>9 DEF Scheduler

LEMMA TypeStep == TypeOK /\ TickInv /\ [Next]_vars => TypeOK' /\ TickInv'
<1>1. World \/ Requests \/ Helius => UNCHANGED tick
  BY DEF World, Requests, Helius, handlers, DeadlinePasses, CreateLands, Finalize,
         SettleLands, UpdateLands, UpdateDropped, EventLost, CreateBounty, ConfirmRead,
         ConfirmWrite, EscrowPdaFromTx, ConfirmFails, ClaimRefund, BuildRefundTx,
         SelectStep, SelectLoad,
         SelectCallUpdate, SelectUpdateFails, SelectWrite, SelectReply, BuildSettleTx,
         SelectFails,
         OpenRow, HandleEscrowFunded, HandleForeignEscrow, HandleSettleRead,
         HandleSettleWrite, HandleSettleFails
<1>2. TickInv /\ (World \/ Requests \/ Helius) => TickInv'
  <2> SUFFICES ASSUME TickInv, tick' = tick, Bounties = Bounties PROVE TickInv'
    BY <1>1
  <2> QED BY DEF TickInv
<1>3. TypeOK /\ TickInv /\ UNCHANGED vars => TypeOK' /\ TickInv'
  BY DEF TypeOK, TickInv, vars, row, chain, handlers
<1> QED
  BY <1>2, <1>3, WorldTypeOK, RequestsTypeOK, HeliusTypeOK, SchedulerTypeOK DEF Next

\* Every variable of the model keeps its type; while the cron is at work on a
\* bounty, tick.at names one.
THEOREM TypeCorrect == Spec => [](TypeOK /\ TickInv)
<1>1. Init => TickInv
  BY DEF Init, TickInv, IdleTick
<1> QED BY <1>1, InitTypeOK, TypeStep, PTL DEF Spec

-----------------------------------------------------------------------------
(* The inductive invariant *)

\* What is in the mempool, in the webhook's queue and in the finalized view is
\* about vaults that exist, and every status of a vault was signed for.
ChainInv(b) ==
  /\ Exists(finalized[b]) => Exists(vault[b])
  /\ signed[b] # {} => Exists(vault[b])
  /\ vault[b].state \in {"absent", "Released", "Refunded", "Funded"}
  /\ vault[b].jobStatus = "Fulfilled" => vault[b].agentOwner \in signed[b] \cap Owners
  /\ vault[b].jobStatus = "UnFulfilled" => Client \in signed[b]
  /\ vault[b].state = "Released" => vault[b].jobStatus = "Fulfilled"
  /\ vault[b].state = "Refunded" => vault[b].jobStatus = "UnFulfilled"
  /\ ~Exists(vault[b]) => vault[b].jobStatus = "Active"

FlightInv ==
  /\ \A u \in updates : u.grantee \in signed[u.bounty]
  /\ \A e \in events :
       Exists(vault[e.bounty]) /\ (e.type = "settle" => IsSettled(vault[e.bounty]))

\* The row names a winner, and one that was signed for, before the client can
\* hold a transaction that pays an agent.
WinnerInv(b) ==
  /\ winner[b] # NoAgent => OwnerOf[winner[b]] \in signed[b]
  /\ \A a \in Agents :
       /\ selecting[b][a] \in {"sent", "written"} => OwnerOf[a] \in signed[b]
       /\ selecting[b][a] = "written" => winner[b] # NoAgent
  /\ settleTxs[b] \cap Owners # {} => winner[b] # NoAgent
  /\ vault[b].state = "Released" => winner[b] # NoAgent
  /\ state[b] \in {"settled", "completed"} => winner[b] # NoAgent

\* A settle event, its handler and the row it writes come after settlement; a
\* handler that read no winner is handling a refund.
SettleInv(b) ==
  /\ \A w \in settling[b] :
       /\ IsSettled(vault[b])
       /\ w = NoAgent => vault[b].state = "Refunded"
       /\ w # NoAgent => winner[b] # NoAgent
  /\ state[b] = "refunded" => vault[b].state = "Refunded"
  /\ state[b] = "completed" => IsSettled(vault[b])

\* The cron only ever holds bounties with a deadline in the past.
DueInv ==
  /\ \A b \in tick.due \cup tick.overdue : passed[b] # {}
  /\ tick.step # "next" => passed[tick.at] # {}
  /\ \A b \in Bounties : Client \in signed[b] => passed[b] # {}

IInv ==
  /\ \A b \in Bounties : ChainInv(b) /\ WinnerInv(b) /\ SettleInv(b)
  /\ FlightInv
  /\ DueInv

LEMMA InitIInv == Init => IInv
  BY DEF Init, IInv, ChainInv, WinnerInv, SettleInv, FlightInv, DueInv, NoVault,
         IdleTick, Exists

LEMMA WorldIInv == TypeOK /\ IInv /\ World => IInv'
<1> SUFFICES ASSUME TypeOK, IInv, World PROVE IInv'
  OBVIOUS
<1> USE DEF TypeOK, IInv, ChainInv, WinnerInv, SettleInv, FlightInv, DueInv, row, chain,
            handlers, Exists, IsSettled, Vaults, Events, Updates
<1>1. ASSUME NEW b \in Bounties, NEW d \in Deadlines, DeadlinePasses(b, d) PROVE IInv'
  BY <1>1 DEF DeadlinePasses, Ticks
<1>2. ASSUME NEW b \in Bounties, CreateLands(b) PROVE IInv'
  <2> USE DEF CreateLands, CreateAccepted, FundedVault
  <2>1. \A c \in Bounties : ChainInv(c)' /\ WinnerInv(c)' /\ SettleInv(c)'
    BY <1>2
  <2>2. FlightInv'
    BY <1>2
  <2>3. DueInv'
    BY <1>2
  <2> QED BY <2>1, <2>2, <2>3
<1>3. ASSUME NEW b \in Bounties, Finalize(b) PROVE IInv'
  <2>1. \A c \in Bounties : ChainInv(c)' /\ WinnerInv(c)' /\ SettleInv(c)'
    BY <1>3 DEF Finalize
  <2>2. FlightInv' /\ DueInv'
    BY <1>3 DEF Finalize
  <2> QED BY <2>1, <2>2
<1>4. ASSUME NEW b \in Bounties, NEW r \in Recipients, SettleLands(b, r) PROVE IInv'
  <2>1. \A c \in Bounties : ChainInv(c)'
    BY <1>4 DEF SettleLands, SettleAccepted, Settled
  <2>2. \A c \in Bounties : WinnerInv(c)'
    BY <1>4 DEF SettleLands, SettleAccepted, Settled, Grantee, Recipients
  <2>3. \A c \in Bounties : SettleInv(c)'
    BY <1>4 DEF SettleLands, SettleAccepted, Settled
  <2>4. FlightInv'
    BY <1>4 DEF SettleLands, SettleAccepted, Settled, Events
  <2>5. DueInv'
    BY <1>4 DEF SettleLands
  <2> QED BY <2>1, <2>2, <2>3, <2>4, <2>5
<1>5. ASSUME NEW u \in updates, UpdateLands(u) PROVE IInv'
  <2> USE DEF UpdateLands, UpdateAccepted, Updated, Updates
  <2>1. \A c \in Bounties : ChainInv(c)'
    BY <1>5, WalletAssumption DEF Recipients
  <2>2. \A c \in Bounties : WinnerInv(c)' /\ SettleInv(c)'
    BY <1>5
  <2>3. FlightInv' /\ DueInv'
    BY <1>5 DEF Events
  <2> QED BY <2>1, <2>2, <2>3
<1>6. ASSUME NEW u \in updates, UpdateDropped(u) PROVE IInv'
  <2>1. \A c \in Bounties : ChainInv(c)' /\ WinnerInv(c)' /\ SettleInv(c)'
    BY <1>6 DEF UpdateDropped
  <2>2. FlightInv' /\ DueInv'
    BY <1>6 DEF UpdateDropped
  <2> QED BY <2>1, <2>2
<1>7. ASSUME NEW e \in events, EventLost(e) PROVE IInv'
  BY <1>7 DEF EventLost
<1> QED BY <1>1, <1>2, <1>3, <1>4, <1>5, <1>6, <1>7 DEF World

LEMMA RequestsIInv == TypeOK /\ IInv /\ Requests => IInv'
<1> SUFFICES ASSUME TypeOK, IInv, NEW b \in Bounties,
                    \/ CreateBounty(b)
                    \/ ConfirmRead(b) \/ ConfirmWrite(b) \/ ConfirmFails(b)
                    \/ ClaimRefund(b)
                    \/ \E a \in Agents :
                         \/ SelectLoad(b, a) \/ SelectCallUpdate(b, a)
                         \/ SelectUpdateFails(b, a) \/ SelectWrite(b, a)
                         \/ SelectReply(b, a) \/ SelectFails(b, a)
             PROVE  IInv'
  BY DEF Requests
<1> USE DEF TypeOK, IInv, ChainInv, WinnerInv, SettleInv, FlightInv, DueInv
<1>1. CASE CreateBounty(b)
  BY <1>1 DEF CreateBounty, chain, handlers
<1>2. CASE ConfirmRead(b)
  BY <1>2 DEF ConfirmRead, row, chain
<1>3. CASE ConfirmWrite(b)
  BY <1>3 DEF ConfirmWrite, EscrowPdaFromTx, chain
<1>4. CASE ConfirmFails(b)
  BY <1>4 DEF ConfirmFails, row, chain
<1>5. CASE ClaimRefund(b)
  <2> USE DEF ClaimRefund, BuildRefundTx, row, handlers
  <2>1. \A c \in Bounties : ChainInv(c)' /\ SettleInv(c)'
    BY <1>5
  <2>2. \A c \in Bounties : WinnerInv(c)'
    BY <1>5, WalletAssumption
  <2>3. FlightInv' /\ DueInv'
    BY <1>5
  <2> QED BY <2>1, <2>2, <2>3
<1>6. ASSUME NEW a \in Agents, SelectLoad(b, a) PROVE IInv'
  <2>1. \A c \in Bounties : ChainInv(c)' /\ SettleInv(c)'
    BY <1>6 DEF SelectLoad, SelectStep, chain
  <2>2. \A c \in Bounties : WinnerInv(c)'
    BY <1>6 DEF SelectLoad, SelectStep, chain
  <2>3. FlightInv' /\ DueInv'
    BY <1>6 DEF SelectLoad, SelectStep, chain
  <2> QED BY <2>1, <2>2, <2>3
<1>7. ASSUME NEW a \in Agents, SelectCallUpdate(b, a) PROVE IInv'
  <2> USE DEF SelectCallUpdate, SelectStep, CallUpdateEscrow
  <2>0. OwnerOf[a] \in Owners /\ OwnerOf[a] # Client /\ Exists(vault[b])
    BY <1>7, BountyAssumption, WalletAssumption DEF UpdateAccepted, Exists
  <2>1. \A c \in Bounties : ChainInv(c)'
    BY <1>7, <2>0
  <2>2. \A c \in Bounties : WinnerInv(c)' /\ SettleInv(c)'
    BY <1>7, <2>0
  <2>3. FlightInv'
    BY <1>7, <2>0 DEF Updates, Events, IsSettled
  <2>4. DueInv'
    BY <1>7, <2>0
  <2> QED BY <2>1, <2>2, <2>3, <2>4
<1>8. ASSUME NEW a \in Agents, SelectUpdateFails(b, a) PROVE IInv'
  <2> USE DEF SelectUpdateFails, CallUpdateEscrowFails, SelectStep, chain
  <2>1. \A c \in Bounties : ChainInv(c)' /\ SettleInv(c)'
    BY <1>8
  <2>2. \A c \in Bounties : WinnerInv(c)'
    BY <1>8
  <2>3. FlightInv' /\ DueInv'
    BY <1>8
  <2> QED BY <2>1, <2>2, <2>3
<1>9. ASSUME NEW a \in Agents, SelectWrite(b, a) PROVE IInv'
  <2> USE DEF SelectWrite, SelectStep, chain
  <2>1. \A c \in Bounties : ChainInv(c)'
    BY <1>9
  <2>2. \A c \in Bounties : WinnerInv(c)'
    BY <1>9, BountyAssumption
  <2>3. \A c \in Bounties : SettleInv(c)'
    BY <1>9, BountyAssumption
  <2>4. FlightInv' /\ DueInv'
    BY <1>9
  <2> QED BY <2>1, <2>2, <2>3, <2>4
<1>10. ASSUME NEW a \in Agents, SelectReply(b, a) PROVE IInv'
  <2>1. \A c \in Bounties : ChainInv(c)' /\ SettleInv(c)'
    BY <1>10 DEF SelectReply, BuildSettleTx, SelectStep
  <2>2. \A c \in Bounties : WinnerInv(c)'
    BY <1>10 DEF SelectReply, BuildSettleTx, SelectStep
  <2>3. FlightInv' /\ DueInv'
    BY <1>10 DEF SelectReply, BuildSettleTx, SelectStep
  <2> QED BY <2>1, <2>2, <2>3
<1>11. ASSUME NEW a \in Agents, SelectFails(b, a) PROVE IInv'
  <2>1. \A c \in Bounties : ChainInv(c)' /\ SettleInv(c)'
    BY <1>11 DEF SelectFails, SelectStep, chain
  <2>2. \A c \in Bounties : WinnerInv(c)'
    BY <1>11 DEF SelectFails, SelectStep, chain
  <2>3. FlightInv' /\ DueInv'
    BY <1>11 DEF SelectFails, SelectStep, chain
  <2> QED BY <2>1, <2>2, <2>3
<1> QED BY <1>1, <1>2, <1>3, <1>4, <1>5, <1>6, <1>7, <1>8, <1>9, <1>10, <1>11

LEMMA HeliusIInv == TypeOK /\ IInv /\ Helius => IInv'
<1> SUFFICES ASSUME TypeOK, IInv, Helius PROVE IInv'
  OBVIOUS
<1> USE DEF TypeOK, IInv, ChainInv, WinnerInv, SettleInv, FlightInv, DueInv, row, chain,
            handlers, Deliver, Events
<1>1. ASSUME NEW e \in events, HandleEscrowFunded(e) PROVE IInv'
  BY <1>1 DEF HandleEscrowFunded, OpenRow
<1>2. ASSUME NEW e \in events, HandleSettleRead(e) PROVE IInv'
  <2>1. \A c \in Bounties : ChainInv(c)' /\ WinnerInv(c)'
    BY <1>2 DEF HandleSettleRead
  <2>2. \A c \in Bounties : SettleInv(c)'
    BY <1>2 DEF HandleSettleRead, IsSettled
  <2>3. FlightInv' /\ DueInv'
    BY <1>2 DEF HandleSettleRead
  <2> QED BY <2>1, <2>2, <2>3
<1>3. ASSUME NEW b \in Bounties, NEW w \in Agents \cup {NoAgent}, HandleSettleWrite(b, w)
      PROVE IInv'
  <2>1. \A c \in Bounties : settling'[c] \subseteq settling[c]
    <3>1. CASE settling' = [settling EXCEPT ![b] = @ \ {w}]
      BY <3>1
    <3>2. CASE settling' = settling
      BY <3>2
    <3> QED BY <1>3, <3>1, <3>2 DEF HandleSettleWrite
  <2>2. \A c \in Bounties : ChainInv(c)' /\ WinnerInv(c)'
    BY <1>3 DEF HandleSettleWrite
  <2>3. \A c \in Bounties : SettleInv(c)'
    BY <1>3, <2>1 DEF HandleSettleWrite
  <2>4. FlightInv' /\ DueInv'
    BY <1>3 DEF HandleSettleWrite
  <2> QED BY <2>2, <2>3, <2>4
<1>4. ASSUME NEW b \in Bounties, NEW w \in Agents \cup {NoAgent}, HandleSettleFails(b, w)
      PROVE IInv'
  BY <1>4 DEF HandleSettleFails
<1>5. ASSUME NEW b \in Bounties, HandleForeignEscrow(b) PROVE IInv'
  BY <1>5 DEF HandleForeignEscrow, OpenRow
<1> QED BY <1>1, <1>2, <1>3, <1>4, <1>5 DEF Helius

LEMMA SchedulerIInv == TypeOK /\ TickInv /\ IInv /\ Scheduler => IInv'
<1> SUFFICES ASSUME TypeOK, TickInv, IInv, Scheduler PROVE IInv'
  OBVIOUS
<1> USE DEF TypeOK, TickInv, IInv, ChainInv, WinnerInv, SettleInv, FlightInv, DueInv,
            chain, TickStep, Ticks, IdleTick
<1>1. CASE TickStart
  BY <1>1 DEF TickStart, FindExpiredOpen, Expired
<1>2. ASSUME NEW b \in Bounties, TickCount(b) PROVE IInv'
  <2>1. PICK step \in {"review", "unfulfil"} :
          TickStep([tick EXCEPT !.due = @ \ {b}, !.at = b, !.step = step])
    BY <1>2 DEF TickCount
  <2> QED BY <1>2, <2>1 DEF TickCount
<1>3. CASE TickReview
  BY <1>3 DEF TickReview
<1>4. CASE TickUnfulfil
  <2> DEFINE b == tick.at
  <2>1. b \in Bounties /\ passed[b] # {} /\ Client \notin Owners
    BY <1>4, WalletAssumption DEF TickUnfulfil
  <2>2. CASE CallUpdateEscrow(b, Client)
    <3> USE DEF CallUpdateEscrow
    <3>0. Exists(vault[b])
      BY <2>1, <2>2 DEF UpdateAccepted, Exists
    <3>1. \A c \in Bounties : ChainInv(c)'
      BY <1>4, <2>1, <2>2, <3>0 DEF TickUnfulfil
    <3>2. \A c \in Bounties : WinnerInv(c)' /\ SettleInv(c)'
      BY <1>4, <2>1, <2>2, <3>0 DEF TickUnfulfil
    <3>3. FlightInv' /\ DueInv'
      BY <1>4, <2>1, <2>2, <3>0 DEF TickUnfulfil, Updates
    <3> QED BY <3>1, <3>2, <3>3
  <2>3. CASE CallUpdateEscrowFails(b)
    BY <1>4, <2>1, <2>3 DEF TickUnfulfil, CallUpdateEscrowFails
  <2> QED BY <1>4, <2>2, <2>3 DEF TickUnfulfil
<1>5. CASE TickAwaitRefund
  BY <1>5 DEF TickAwaitRefund
<1>6. CASE TickPhaseTwo
  BY <1>6 DEF TickPhaseTwo, FindExpiredReview
<1>7. ASSUME NEW b \in Bounties, TickOverdue(b) PROVE IInv'
  BY <1>7 DEF TickOverdue
<1>8. CASE TickEnd
  BY <1>8 DEF TickEnd
<1>9. CASE TickFails
  BY <1>9 DEF TickFails
<1> QED BY <1>1, <1>2, <1>3, <1>4, <1>5, <1>6, <1>7, <1>8, <1>9 DEF Scheduler

LEMMA IInvStep == TypeOK /\ TickInv /\ IInv /\ [Next]_vars => IInv'
<1>1. IInv /\ UNCHANGED vars => IInv'
  BY DEF IInv, ChainInv, WinnerInv, SettleInv, FlightInv, DueInv, vars, row, chain,
     handlers
<1> QED
  BY <1>1, WorldIInv, RequestsIInv, HeliusIInv, SchedulerIInv DEF Next

\* The invariant behind the safety theorems: rows, transactions in flight,
\* handlers in flight and vaults never contradict each other.
THEOREM Invariant == Spec => []IInv
<1>1. TypeOK /\ TickInv /\ IInv /\ [Next]_vars => IInv'
  BY IInvStep
<1> QED BY <1>1, InitIInv, TypeCorrect, PTL DEF Spec

-----------------------------------------------------------------------------
(* Safety *)

\* A row says "refunded" only when the prize went back to the client.
THEOREM RefundsReturn == Spec => []RefundedMeansReturned
<1>1. IInv => RefundedMeansReturned
  BY DEF IInv, SettleInv, RefundedMeansReturned
<1> QED BY <1>1, Invariant, PTL

\* A row says "completed" only when the escrow is settled.
THEOREM CompletionsSettle == Spec => []CompletedMeansSettled
<1>1. IInv => CompletedMeansSettled
  BY DEF IInv, SettleInv, CompletedMeansSettled
<1> QED BY <1>1, Invariant, PTL

\* No prize is paid out to an agent while the row names no winner.
THEOREM PaymentsHaveWinner == Spec => []PaidHasWinner
<1>1. IInv => PaidHasWinner
  BY DEF IInv, WinnerInv, PaidHasWinner
<1> QED BY <1>1, Invariant, PTL

\* A row that says a winner was chosen names one the authority signed for.
THEOREM SettlementsSigned == Spec => []SettledWasSigned
<1>1. IInv => SettledWasSigned
  BY DEF IInv, WinnerInv, SettledWasSigned
<1> QED BY <1>1, Invariant, PTL

\* The authority never gives a prize back before a deadline has passed.
THEOREM RefundsDue == Spec => []RefundOnlyWhenDue
<1>1. IInv => RefundOnlyWhenDue
  BY DEF IInv, DueInv, RefundOnlyWhenDue
<1> QED BY <1>1, Invariant, PTL

-----------------------------------------------------------------------------
(* The vault a row names *)

\* A vault never goes away.
LEMMA VaultsStay ==
  ASSUME TypeOK, [Next]_vars, NEW b \in Bounties, Exists(vault[b])
  PROVE  Exists(vault'[b])
<1> USE DEF TypeOK, Exists, Vaults, Updates
<1>1. ASSUME NEW c \in Bounties, CreateLands(c) PROVE Exists(vault'[b])
  BY <1>1 DEF CreateLands, FundedVault
<1>2. ASSUME NEW c \in Bounties, NEW r \in Recipients, SettleLands(c, r)
      PROVE  Exists(vault'[b])
  <2>1. Exists(Settled(vault[c]))
    BY DEF Settled
  <2> QED BY <1>2, <2>1 DEF SettleLands
<1>3. ASSUME NEW u \in updates, UpdateLands(u) PROVE Exists(vault'[b])
  BY <1>3 DEF UpdateLands, Updated
<1>4. CASE UNCHANGED vault
  BY <1>4
<1>5. World => \/ UNCHANGED vault
               \/ \E c \in Bounties : CreateLands(c)
               \/ \E c \in Bounties, r \in Recipients : SettleLands(c, r)
               \/ \E u \in updates : UpdateLands(u)
  BY DEF World, DeadlinePasses, Finalize, UpdateDropped, EventLost, chain
<1>6. Requests => UNCHANGED vault
  BY DEF Requests, CreateBounty, ConfirmRead, ConfirmWrite, EscrowPdaFromTx, ConfirmFails,
     ClaimRefund, BuildRefundTx, SelectStep, SelectLoad, SelectCallUpdate,
     SelectUpdateFails, SelectWrite, SelectReply, BuildSettleTx, SelectFails,
     CallUpdateEscrow, CallUpdateEscrowFails, chain
<1>7. Helius => UNCHANGED vault
  BY DEF Helius, OpenRow, HandleEscrowFunded, HandleForeignEscrow, HandleSettleRead,
     HandleSettleWrite, HandleSettleFails, chain
<1>8. Scheduler => UNCHANGED vault
  BY DEF Scheduler, TickStart, TickCount, TickReview, TickUnfulfil, TickAwaitRefund,
     TickPhaseTwo, TickOverdue, TickEnd, TickFails, CallUpdateEscrow,
     CallUpdateEscrowFails, chain
<1>9. UNCHANGED vars => UNCHANGED vault
  BY DEF vars, chain
<1> QED BY <1>1, <1>2, <1>3, <1>4, <1>5, <1>6, <1>7, <1>8, <1>9 DEF Next

\* escrow_pda is written by a confirmation and by a create_escrow event alone.
LEMMA PdaWriters ==
  ASSUME TypeOK, IInv, [Next]_vars, NEW b \in Bounties, escrowPda'[b] = "own"
  PROVE  escrowPda[b] = "own" \/ Exists(vault[b])
<1>1. ASSUME NEW c \in Bounties, ConfirmWrite(c)
      PROVE  escrowPda[b] = "own" \/ Exists(vault[b])
  BY <1>1 DEF ConfirmWrite, EscrowPdaFromTx, TypeOK
<1>2. ASSUME NEW e \in events, HandleEscrowFunded(e)
      PROVE  escrowPda[b] = "own" \/ Exists(vault[b])
  BY <1>2 DEF HandleEscrowFunded, OpenRow, TypeOK, IInv, FlightInv, Events
<1>3. ASSUME NEW c \in Bounties, HandleForeignEscrow(c)
      PROVE  escrowPda[b] = "own" \/ Exists(vault[b])
  BY <1>3 DEF HandleForeignEscrow, OpenRow, TypeOK
<1>4. World => UNCHANGED escrowPda
  BY DEF World, DeadlinePasses, CreateLands, Finalize, SettleLands, UpdateLands,
     UpdateDropped, EventLost, row
<1>5. Requests => UNCHANGED escrowPda \/ \E c \in Bounties : ConfirmWrite(c)
  BY DEF Requests, CreateBounty, ConfirmRead, ConfirmFails, ClaimRefund, SelectStep,
     SelectLoad, SelectCallUpdate, SelectUpdateFails, SelectWrite, SelectReply,
     SelectFails, row
<1>6. Helius => \/ UNCHANGED escrowPda
                \/ \E e \in events : HandleEscrowFunded(e)
                \/ \E c \in Bounties : HandleForeignEscrow(c)
  BY DEF Helius, HandleSettleRead, HandleSettleWrite, HandleSettleFails, row
<1>7. Scheduler => UNCHANGED escrowPda
  BY DEF Scheduler, TickStart, TickCount, TickReview, TickUnfulfil, TickAwaitRefund,
     TickPhaseTwo, TickOverdue, TickEnd, TickFails, TickStep
<1>8. UNCHANGED vars => UNCHANGED escrowPda
  BY DEF vars, row
<1> QED BY <1>1, <1>2, <1>3, <1>4, <1>5, <1>6, <1>7, <1>8 DEF Next

\* Whatever clients confirm with and whoever deposits under a job id, a row
\* names the vault of its bounty only once the deposit is on chain.
THEOREM RecordedVaultsFunded == Spec => []RecordedVaultIsFunded
<1>1. Init => RecordedVaultIsFunded
  BY DEF Init, RecordedVaultIsFunded
<1>2. TypeOK /\ IInv /\ RecordedVaultIsFunded /\ [Next]_vars => RecordedVaultIsFunded'
  <2> SUFFICES ASSUME TypeOK, IInv, RecordedVaultIsFunded, [Next]_vars, NEW b \in Bounties,
                      escrowPda'[b] = "own"
               PROVE  Exists(vault'[b])
    BY DEF RecordedVaultIsFunded
  <2>1. Exists(vault[b])
    BY PdaWriters DEF RecordedVaultIsFunded
  <2> QED BY <2>1, VaultsStay
<1> QED BY <1>1, <1>2, TypeCorrect, Invariant, PTL DEF Spec

-----------------------------------------------------------------------------
(* The server keeps the escrow's promise *)

LEMMA PromiseInit == Init => Promise!Init
<1>1. PrizeOf(NoVault) = "client" /\ PayeeOf(NoVault) = NoOwner
  BY DEF PrizeOf, PayeeOf, NoVault, Exists, IsSettled
<1> SUFFICES ASSUME Init PROVE Promise!Init
  OBVIOUS
<1>2. \A b \in Bounties : vault[b] = NoVault /\ passed[b] = {}
  BY DEF Init
<1>3. [b \in Bounties |-> PrizeOf(vault[b])] = [b \in Bounties |-> "client"]
  BY <1>1, <1>2
<1>4. [b \in Bounties |-> PayeeOf(vault[b])] = [b \in Bounties |-> NoOwner]
  BY <1>1, <1>2
<1>5. [b \in Bounties |-> passed[b] # {}] = [b \in Bounties |-> FALSE]
  BY <1>2
<1> QED
  BY <1>3, <1>4, <1>5 DEF Promise!Init, Init

\* A step that moves neither a vault, nor what was signed, nor the clock is not
\* seen by the promise.
LEMMA PromiseStutter ==
  ASSUME UNCHANGED <<vault, signed, passed>>
  PROVE  UNCHANGED Promise!vars
  BY DEF Promise!vars

LEMMA PromiseGrant ==
  ASSUME TypeOK, IInv, NEW b \in Bounties, NEW r \in Recipients,
         r = Client => passed[b] # {}, UNCHANGED passed, CallUpdateEscrow(b, r)
  PROVE  Promise!Next
<1>1. Exists(vault[b])
  BY DEF CallUpdateEscrow, UpdateAccepted, IInv, ChainInv, Exists
<1>2. /\ UNCHANGED <<vault, passed>>
      /\ signed' = [signed EXCEPT ![b] = @ \cup {r}]
  BY DEF CallUpdateEscrow
<1>3. Promise!Grant(b, r)
  BY <1>1, <1>2 DEF Promise!Grant, PrizeOf
<1> QED BY <1>3 DEF Promise!Next, Recipients

LEMMA PromiseWorld ==
  ASSUME TypeOK, IInv, World
  PROVE  Promise!Next \/ UNCHANGED Promise!vars
<1> USE DEF TypeOK
<1>1. ASSUME NEW b \in Bounties, NEW d \in Deadlines, DeadlinePasses(b, d)
      PROVE  Promise!Next
  <2>1. Promise!DeadlinePasses(b)
    BY <1>1 DEF DeadlinePasses, Promise!DeadlinePasses, chain
  <2> QED BY <2>1 DEF Promise!Next
<1>2. ASSUME NEW b \in Bounties, CreateLands(b) PROVE Promise!Next
  <2>1. Promise!Deposit(b)
    BY <1>2 DEF CreateLands, CreateAccepted, FundedVault, Exists, IsSettled, PrizeOf,
       PayeeOf, Promise!Deposit
  <2> QED BY <2>1 DEF Promise!Next
<1>3. ASSUME NEW b \in Bounties, NEW r \in Recipients, SettleLands(b, r)
      PROVE  Promise!Next
  <2>1. r \in signed[b]
    BY <1>3 DEF SettleLands, SettleAccepted, Grantee, IInv, ChainInv, Vaults
  <2>2. Promise!Disburse(b, r)
    BY <1>3, <2>1 DEF SettleLands, SettleAccepted, Settled, Grantee, Exists, IsSettled,
       PrizeOf, PayeeOf, Vaults, Promise!Disburse
  <2> QED BY <2>2 DEF Promise!Next, Recipients
\* An update_escrow that lands changes whom the vault will pay, not where the
\* prize is.
<1>4. ASSUME NEW u \in updates, UpdateLands(u) PROVE UNCHANGED Promise!vars
  <2>1. \A b \in Bounties :
          PrizeOf(vault'[b]) = PrizeOf(vault[b]) /\ PayeeOf(vault'[b]) = PayeeOf(vault[b])
    BY <1>4 DEF UpdateLands, UpdateAccepted, Updated, Updates, Exists, IsSettled, PrizeOf,
       PayeeOf, Vaults
  <2> QED BY <1>4, <2>1 DEF UpdateLands, Promise!vars
<1>5. CASE UNCHANGED <<vault, signed, passed>>
  BY <1>5, PromiseStutter
<1> QED
  BY <1>1, <1>2, <1>3, <1>4, <1>5 DEF World, Finalize, UpdateDropped, EventLost, chain

LEMMA PromiseStep ==
  TypeOK /\ TickInv /\ IInv /\ [Next]_vars => [Promise!Next]_(Promise!vars)
<1> SUFFICES ASSUME TypeOK, TickInv, IInv, [Next]_vars
             PROVE  Promise!Next \/ UNCHANGED Promise!vars
  OBVIOUS
<1>1. CASE World
  BY <1>1, PromiseWorld
<1>2. ASSUME NEW b \in Bounties, NEW a \in Agents, SelectCallUpdate(b, a)
      PROVE  Promise!Next
  <2>1. OwnerOf[a] \in Recipients /\ OwnerOf[a] # Client
    BY BountyAssumption, WalletAssumption DEF Recipients
  <2> QED BY <1>2, <2>1, PromiseGrant DEF SelectCallUpdate, SelectStep
<1>3. CASE TickUnfulfil
  <2>1. tick.at \in Bounties /\ passed[tick.at] # {} /\ Client \in Recipients
    BY <1>3 DEF TickUnfulfil, TickInv, IInv, DueInv, Recipients
  <2>2. UNCHANGED passed
    BY <1>3 DEF TickUnfulfil, TickStep
  <2>3. CASE CallUpdateEscrow(tick.at, Client)
    BY <2>1, <2>2, <2>3, PromiseGrant
  <2>4. CASE CallUpdateEscrowFails(tick.at)
    BY <2>2, <2>4, PromiseStutter DEF CallUpdateEscrowFails, chain
  <2> QED BY <1>3, <2>3, <2>4 DEF TickUnfulfil
\* No other step of the server touches the chain or the clock.
<1>4. ASSUME Requests, ~\E b \in Bounties, a \in Agents : SelectCallUpdate(b, a)
      PROVE  UNCHANGED <<vault, signed, passed>>
  BY <1>4 DEF Requests, CreateBounty, ConfirmRead, ConfirmWrite, EscrowPdaFromTx,
     ConfirmFails, ClaimRefund, BuildRefundTx,
     SelectStep, SelectLoad, SelectUpdateFails, SelectWrite, SelectReply, BuildSettleTx,
     SelectFails,
     CallUpdateEscrowFails, chain
<1>5. ASSUME Helius PROVE UNCHANGED <<vault, signed, passed>>
  BY <1>5 DEF Helius, OpenRow, HandleEscrowFunded, HandleForeignEscrow,
     HandleSettleRead, HandleSettleWrite, HandleSettleFails, chain
<1>6. ASSUME Scheduler, ~TickUnfulfil PROVE UNCHANGED <<vault, signed, passed>>
  BY <1>6 DEF Scheduler, TickStart, TickCount, TickReview, TickAwaitRefund, TickPhaseTwo,
     TickOverdue, TickEnd, TickFails, TickStep, chain
<1>7. CASE UNCHANGED vars
  BY <1>7, PromiseStutter DEF vars, chain
<1> QED
  BY <1>1, <1>2, <1>3, <1>4, <1>5, <1>6, <1>7, PromiseStutter DEF Next

\* Whatever is interleaved, lost, repeated or aborted, the prize of a bounty
\* moves once, to a wallet the authority granted it to, and back to the client
\* only when a deadline has passed.
THEOREM PromiseKept == Spec => KeepsPromise
<1>1. Init => Promise!Init
  BY PromiseInit
<1>2. TypeOK /\ TickInv /\ IInv /\ [Next]_vars => [Promise!Next]_(Promise!vars)
  BY PromiseStep
<1> QED
  BY <1>1, <1>2, TypeCorrect, Invariant, PTL DEF Spec, KeepsPromise, Promise!Spec
==============================================================================
