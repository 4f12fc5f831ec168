---------------------------- MODULE EscrowProgram ----------------------------
(***************************************************************************)
(* The on-chain escrow program, as far as the server relies on it.  The    *)
(* program itself is not in the repository: its accounts and error codes   *)
(* are known from the generated client (src/common/program/generated), and *)
(* the order in which they are used from escrow.service.ts.                *)
(*                                                                         *)
(* A vault is the EscrowVault account of one job.  The recipient of a      *)
(* payment identifies what update_escrow granted: an agent owner           *)
(* (fulfilled = true) or the client of the bounty (fulfilled = false).     *)
(***************************************************************************)
CONSTANTS
  Owners,           \* wallets that own agents
  Client,           \* the wallet of a bounty's client
  NoOwner,          \* the unset agentOwner of a vault
  UpdateOverwrites  \* does update_escrow replace a job status already set?

(***************************************************************************)
(* A client that hires an agent of its own is left out: then a refund and  *)
(* a payment have the same recipient.                                      *)
(***************************************************************************)
ASSUME WalletAssumption ==
  /\ Client \notin Owners
  /\ NoOwner \notin Owners \cup {Client}
  /\ UpdateOverwrites \in BOOLEAN

Recipients == Owners \cup {Client}

Vaults == [state      : {"absent", "Funded", "Released", "Refunded"},
           jobStatus  : {"Active", "Fulfilled", "UnFulfilled"},
           agentOwner : Owners \cup {NoOwner}]

NoVault     == [state |-> "absent", jobStatus |-> "Active", agentOwner |-> NoOwner]
FundedVault == [state |-> "Funded", jobStatus |-> "Active", agentOwner |-> NoOwner]

Exists(v)    == v.state # "absent"
IsSettled(v) == v.state \in {"Released", "Refunded"}

\* create_escrow: the account must not exist (InvalidState) and its expiry,
\* the review deadline, must be in the future (InvalidExpiry).
CreateAccepted(v, expired) == ~Exists(v) /\ ~expired

\* update_escrow: only a funded vault (InvalidState).  Whether a status that
\* is already set may be replaced is not visible in the client.
UpdateAccepted(v) ==
  /\ v.state = "Funded"
  /\ v.jobStatus # "Active" => UpdateOverwrites

Updated(v, grantee) ==
  IF grantee = Client
    THEN [v EXCEPT !.jobStatus = "UnFulfilled", !.agentOwner = NoOwner]
    ELSE [v EXCEPT !.jobStatus = "Fulfilled", !.agentOwner = grantee]

\* The wallet a settle_escrow instruction must name as its recipient.
Grantee(v) == IF v.jobStatus = "Fulfilled" THEN v.agentOwner ELSE Client

\* settle_escrow: a funded vault (InvalidState) whose status is set
\* (InvalidJobStatus), paid to the wallet the status names (InvalidRecipient).
SettleAccepted(v, recipient) ==
  /\ v.state = "Funded"
  /\ v.jobStatus # "Active"
  /\ recipient = Grantee(v)

Settled(v) ==
  [v EXCEPT !.state = IF v.jobStatus = "Fulfilled" THEN "Released" ELSE "Refunded"]
==============================================================================
