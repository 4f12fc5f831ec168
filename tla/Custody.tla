------------------------------- MODULE Custody -------------------------------
(***************************************************************************)
(* What the escrow of a bounty promises its client and its agents, without *)
(* the database, the scheduler, the webhooks or the transactions in        *)
(* flight: the prize is deposited once and leaves the escrow at most once, *)
(* to somebody the authority granted it to, and the client is granted it   *)
(* back only when one of the bounty's deadlines has passed.                *)
(***************************************************************************)
CONSTANTS Bounties, Owners, Client, NoPayee

VARIABLES
  prize,   \* where the prize of a bounty is: "client", "escrow" or "paid"
  payee,   \* the wallet it was paid to
  grants,  \* the wallets the authority has granted the prize to
  overdue  \* has a deadline of the bounty passed?

vars == <<prize, payee, grants, overdue>>

Init ==
  /\ prize = [b \in Bounties |-> "client"]
  /\ payee = [b \in Bounties |-> NoPayee]
  /\ grants = [b \in Bounties |-> {}]
  /\ overdue = [b \in Bounties |-> FALSE]

Deposit(b) ==
  /\ prize[b] = "client"
  /\ prize' = [prize EXCEPT ![b] = "escrow"]
  /\ UNCHANGED <<payee, grants, overdue>>

DeadlinePasses(b) ==
  /\ overdue' = [overdue EXCEPT ![b] = TRUE]
  /\ UNCHANGED <<prize, payee, grants>>

Grant(b, r) ==
  /\ prize[b] # "client"
  /\ r = Client => overdue[b]
  /\ grants' = [grants EXCEPT ![b] = @ \cup {r}]
  /\ UNCHANGED <<prize, payee, overdue>>

Disburse(b, r) ==
  /\ prize[b] = "escrow"
  /\ r \in grants[b]
  /\ prize' = [prize EXCEPT ![b] = "paid"]
  /\ payee' = [payee EXCEPT ![b] = r]
  /\ UNCHANGED <<grants, overdue>>

Next ==
  \E b \in Bounties :
    \/ Deposit(b)
    \/ DeadlinePasses(b)
    \/ \E r \in Owners \cup {Client} : Grant(b, r) \/ Disburse(b, r)

Spec == Init /\ [][Next]_vars
==============================================================================
