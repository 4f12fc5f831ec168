-------------------------- MODULE EscrowTransactions --------------------------
(***************************************************************************)
(* The transactions of the escrow program from the builder to the webhook: *)
(* escrow.service.ts builds them with the generated client and a cached    *)
(* blockhash, a wallet signs them, the program executes what it parses,    *)
(* and helius.service.ts and getEscrowPdaFromTx (bounties.service.ts) read *)
(* what happened out of the raw instructions, by hand.                     *)
(*                                                                         *)
(* Four pieces of code derive the same addresses and offsets on their own: *)
(* the builders' defaults, deriveAta, the webhook and the confirmation.    *)
(* Which state a bounty is in is BountyLifecycle's subject: here a row     *)
(* only has what is read out of transactions.  A job id is public: other   *)
(* wallets open vaults of their own under it, and the client may confirm a *)
(* bounty with whatever transaction of the program it names.               *)
(***************************************************************************)
EXTENDS EscrowProgram, EscrowClient, Integers, FiniteSets

CONSTANTS
  Jobs,
  Strangers,       \* other wallets that name the id of a job
  Authority, EmergencyAdmin, Treasury, UsdcMint,
  TreasuryTokenAccounts,  \* what solana.treasuryTokenAccount may be set to
  ComputeBudget,   \* the program of instructions a wallet may put in front
  Prize, FeeBps,   \* of every bounty, in the program's units
  BlockhashTtl,    \* how long the server reuses a blockhash
  MaxTime,         \* bound: the clock stops here
  MaxInFlight,     \* bound: transactions built and not landed
  TxFaults         \* among "rpc", "throw" as in BountyLifecycle

ASSUME TransactionAssumption ==
  /\ ComputeBudget # Program
  /\ TxFaults \subseteq {"rpc", "throw"}
  /\ BlockhashTtl \in Nat /\ MaxTime \in Nat /\ MaxInFlight \in Nat
  /\ Prize \in Nat /\ FeeBps \in 0..10000

VARIABLES
  (* the server *)
  treasuryTokenAccount,  \* solana.treasuryTokenAccount
  now,        \* Date.now(), and the slot time of the latest blockhash
  cache,      \* blockhashCache
  fetching,   \* builders that wait for getLatestBlockhash
  inFlight,   \* calls whose transaction is built: with the client, or broadcast
  (* the chain *)
  config,     \* the ArcadiumConfig account
  vaults,     \* the EscrowVault accounts, by address
  landed,     \* transactions executed
  (* what the server reads back *)
  inserted,   \* jobs whose bounty has a row
  escrowPda,  \* bounties.escrow_pda
  settledSeen \* jobs whose settlement the webhook has seen

server == <<treasuryTokenAccount, now, cache, fetching, inFlight>>
chain  == <<config, vaults, landed>>
rows   == <<inserted, escrowPda, settledSeen>>
vars   == <<server, chain, rows>>

NoCache  == [hash |-> 0, fetchedAt |-> 0, empty |-> TRUE]
NoConfig == [authority |-> NoAddress, emergencyAdmin |-> NoAddress,
             treasury |-> NoAddress, tokenMint |-> NoAddress, paused |-> TRUE]

-----------------------------------------------------------------------------
(* escrow.service.ts: the calls of the generated client *)

\* Variant: the mint comes before the token program among the seeds.
DeriveAtaSwapped(wallet, mint) == Pda(AtaProgram, <<wallet, mint, TokenProgram>>)

DeriveAta(wallet, mint) == Pda(AtaProgram, <<wallet, TokenProgram, mint>>)

BuildCreateEscrowTx(j) ==
  [name |-> "createEscrow",
   in   |-> [client |-> Client, tokenMint |-> UsdcMint, jobId |-> j,
             jobType |-> "Bounty", amount |-> Prize, expiry |-> MaxTime + 1]]

\* t is the configured treasury token account.
BuildSettleTx(j, winner, t) ==
  [name |-> "settleEscrow",
   in   |-> [client |-> Client, jobId |-> j, tokenMint |-> UsdcMint,
             recipientTokenAccount |-> DeriveAta(winner, UsdcMint),
             treasuryTokenAccount |-> t]]

BuildRefundTx(j, t) ==
  [name |-> "settleEscrow",
   in   |-> [client |-> Client, jobId |-> j, tokenMint |-> UsdcMint,
             recipientTokenAccount |-> DeriveAta(Client, UsdcMint),
             treasuryTokenAccount |-> t]]

CallUpdateEscrow(j, fulfilled, agentOwner) ==
  [name |-> "updateEscrow",
   in   |-> [authority |-> Authority, client |-> Client, jobId |-> j,
             fulfilled |-> fulfilled, agentOwner |-> agentOwner]]

\* What the server builds, and what others send through the same client.
ServerCalls ==
  {BuildCreateEscrowTx(j) : j \in Jobs}
  \cup {BuildSettleTx(j, o, t) : j \in Jobs, o \in Owners, t \in TreasuryTokenAccounts}
  \cup {BuildRefundTx(j, t) : j \in Jobs, t \in TreasuryTokenAccounts}
  \cup {CallUpdateEscrow(j, TRUE, o) : j \in Jobs, o \in Owners}
  \cup {CallUpdateEscrow(j, FALSE, NoAddress) : j \in Jobs}

OtherCalls ==
  {[name |-> "initialize",
    in   |-> [authority |-> Authority, platformFeeBps |-> FeeBps,
              emergencyAdmin |-> EmergencyAdmin, treasury |-> Treasury,
              tokenMint |-> UsdcMint]]}
  \cup {[name |-> "setPaused", in |-> [emergencyAdmin |-> EmergencyAdmin, paused |-> p]] :
          p \in BOOLEAN}
  \cup {[name |-> "markDisputed", in |-> [client |-> Client, jobId |-> j]] : j \in Jobs}
  \cup {[name |-> "resolveDispute",
         in   |-> [authority |-> Authority, client |-> Client, jobId |-> j,
                   tokenMint |-> UsdcMint]] : j \in Jobs}
  \cup {[name |-> "createEscrow",
         in   |-> [client |-> w, tokenMint |-> UsdcMint, jobId |-> j,
                   jobType |-> "Bounty", amount |-> Prize, expiry |-> MaxTime + 1]] :
           w \in Strangers, j \in Jobs}
  \cup {[name |-> "settleEscrow",
         in   |-> [client |-> w, jobId |-> j, tokenMint |-> UsdcMint,
                   recipientTokenAccount |-> AssociatedTokenPda(w, UsdcMint),
                   treasuryTokenAccount |-> AssociatedTokenPda(Treasury, UsdcMint)]] :
           w \in Strangers, j \in Jobs}

Calls == ServerCalls \cup OtherCalls

\* The instruction of a call, as it is on the wire.
Wire == [c \in Calls |-> GetInstructionAsync(c.name, c.in)]

ForeignIx == [programAddress |-> ComputeBudget, accounts |-> <<>>, data |-> Bytes(0, 5)]

Transactions == [call : Calls, prefixed : BOOLEAN]
Instructions(tx) ==
  IF tx.prefixed THEN <<ForeignIx, Wire[tx.call]>> ELSE <<Wire[tx.call]>>

VaultAddresses == {EscrowVaultStatePda(w, j) : w \in Strangers \cup {Client}, j \in Jobs}

\* What may stand third among the accounts of an instruction of the program.
ThirdAccounts == VaultAddresses \cup {ConfigPda, SystemProgram}

TypeOK ==
  /\ treasuryTokenAccount \in TreasuryTokenAccounts
  /\ now \in 0..MaxTime
  /\ cache \in [hash : 0..MaxTime, fetchedAt : 0..MaxTime, empty : BOOLEAN]
  /\ fetching \subseteq [call : ServerCalls, at : 0..MaxTime, answer : -1..MaxTime]
  /\ inFlight \subseteq ServerCalls
  /\ DOMAIN vaults \subseteq VaultAddresses
  /\ landed \subseteq Transactions
  /\ inserted \subseteq Jobs
  /\ escrowPda \in [Jobs -> ThirdAccounts \cup {NoAddress}]
  /\ settledSeen \subseteq Jobs

Init ==
  /\ treasuryTokenAccount \in TreasuryTokenAccounts
  /\ now = 0 /\ cache = NoCache /\ fetching = {} /\ inFlight = {}
  /\ config = NoConfig
  /\ vaults = [a \in {} |-> 0]
  /\ landed = {}
  /\ inserted = {}
  /\ escrowPda = [j \in Jobs |-> NoAddress]
  /\ settledSeen = {}

-----------------------------------------------------------------------------
(* The program: what it checks of an instruction and what it does, as far   *)
(* as the server relies on it.  It is taken to read an instruction as the   *)
(* client's parser does, and to take the fee into the associated token      *)
(* account of its treasury.  What moves between token accounts is left out. *)

Parse == [c \in Calls |-> ParseArcadiumEscrowInstruction(Wire[c])]

NewVault(a, d) ==
  [jobId |-> d.jobId, client |-> a.client, jobStatus |-> "Active",
   agentOwner |-> NoOwner, state |-> "Funded"]

\* The config and the vault state are at the addresses their seeds give, and
\* the vault's token account is the one of the vault state.
CreateAccountsHold(a, d) ==
  /\ a.config = ConfigPda /\ config # NoConfig /\ ~config.paused
  /\ a.escrowVaultState = EscrowVaultStatePda(a.client, d.jobId)
  /\ a.escrowVault = EscrowVaultPda(a.escrowVaultState)
  /\ a.tokenMint = config.tokenMint
  /\ a.clientTokenAccount = AssociatedTokenPda(a.client, a.tokenMint)
  /\ a.escrowVaultState \notin DOMAIN vaults

VaultHolds(a, d) ==
  /\ a.config = ConfigPda /\ config # NoConfig
  /\ a.escrowVaultState \in DOMAIN vaults
  /\ a.escrowVaultState = EscrowVaultStatePda(a.client, d.jobId)

Payee(v) == AssociatedTokenPda(Grantee(v), UsdcMint)

\* Would the program accept the call now?  Whether a dispute is resolved while
\* the program is paused is not visible in the client: it may be.
Accepts(call) ==
  LET p == Parse[call]
      a == p.accounts
      d == p.data
      v == vaults[a.escrowVaultState]
  IN  CASE p.instructionType = "createEscrow" -> CreateAccountsHold(a, d) /\ d.expiry > now
        [] p.instructionType = "updateEscrow" ->
             /\ VaultHolds(a, d) /\ a.authority = config.authority
             /\ UpdateAccepted(v)
             /\ d.fulfilled => d.agentOwner # NoAddress
        [] p.instructionType = "settleEscrow" ->
             /\ VaultHolds(a, d) /\ ~config.paused
             /\ a.escrowVault = EscrowVaultPda(a.escrowVaultState)
             /\ v.state = "Funded" /\ v.jobStatus # "Active"
             /\ a.recipientTokenAccount = Payee(v)
             /\ a.treasuryTokenAccount = AssociatedTokenPda(config.treasury, a.tokenMint)
        [] p.instructionType = "markDisputed" -> VaultHolds(a, d) /\ v.state = "Funded"
        [] p.instructionType = "resolveDispute" ->
             /\ VaultHolds(a, d) /\ a.authority = config.authority
             /\ v.state = "Disputed"
        [] p.instructionType = "initialize" -> config = NoConfig /\ a.config = ConfigPda
        [] p.instructionType = "setPaused" ->
             /\ config # NoConfig /\ a.config = ConfigPda
             /\ a.emergencyAdmin = config.emergencyAdmin /\ config.paused # d.paused

Execute(call) ==
  LET p == Parse[call]
      a == p.accounts
      d == p.data
      v == vaults[a.escrowVaultState]
      Put(new) == vaults' = [x \in DOMAIN vaults \cup {a.escrowVaultState} |->
                               IF x = a.escrowVaultState THEN new ELSE vaults[x]]
  IN  CASE p.instructionType = "createEscrow" -> Put(NewVault(a, d)) /\ UNCHANGED config
        [] p.instructionType = "updateEscrow" ->
             /\ Put(Updated(v, IF d.fulfilled THEN d.agentOwner ELSE Client))
             /\ UNCHANGED config
        [] p.instructionType = "settleEscrow" -> Put(Settled(v)) /\ UNCHANGED config
        [] p.instructionType = "markDisputed" ->
             Put([v EXCEPT !.state = "Disputed"]) /\ UNCHANGED config
        [] p.instructionType = "resolveDispute" ->
             Put([v EXCEPT !.state = "Refunded"]) /\ UNCHANGED config
        [] p.instructionType = "initialize" ->
             /\ config' = [authority |-> a.authority, emergencyAdmin |-> d.emergencyAdmin,
                           treasury |-> d.treasury, tokenMint |-> d.tokenMint,
                           paused |-> FALSE]
             /\ UNCHANGED vaults
        [] p.instructionType = "setPaused" ->
             config' = [config EXCEPT !.paused = d.paused] /\ UNCHANGED vaults

Lands(tx) ==
  /\ Accepts(tx.call)
  /\ Execute(tx.call)
  /\ landed' = landed \cup {tx}
  /\ UNCHANGED rows

\* A wallet signs a transaction it was given, or the authority's transaction
\* reaches a validator.  How long it may take is left open.
TransactionLands(call, prefixed) ==
  /\ call \in inFlight
  /\ prefixed => call.name # "updateEscrow"
  /\ Lands([call |-> call, prefixed |-> prefixed])
  /\ inFlight' = inFlight \ {call}
  /\ UNCHANGED <<treasuryTokenAccount, now, cache, fetching>>

\* Transactions of the program that this server does not build.
OtherLands(call) ==
  /\ call \in OtherCalls
  /\ Lands([call |-> call, prefixed |-> FALSE])
  /\ UNCHANGED server

\* A transaction nobody signed in time, or that the client gives up.
TransactionExpires(call) ==
  /\ call \in inFlight
  /\ inFlight' = inFlight \ {call}
  /\ UNCHANGED <<treasuryTokenAccount, now, cache, fetching, chain, rows>>

Tick ==
  /\ now < MaxTime
  /\ now' = now + 1
  /\ UNCHANGED <<treasuryTokenAccount, cache, fetching, inFlight, chain, rows>>

-----------------------------------------------------------------------------
(* escrow.service.ts: a builder needs a blockhash.  Two builders that find   *)
(* the cache stale both ask, and either answer may come last.                *)

CacheIsUsable == ~cache.empty /\ now - cache.fetchedAt < BlockhashTtl

\* create_escrow is simulated after it is built and refused if the program
\* would refuse it, unless the RPC call itself fails; update_escrow passes
\* preflight.  A settlement is handed out as it is.  (A client without the prize
\* is refused before anything is asked of anybody.)
Checked(call) ==
  \/ call.name = "settleEscrow"
  \/ Accepts(call)
  \/ call.name = "createEscrow" /\ "rpc" \in TxFaults

\* The transaction is complete.  createBounty then inserts the row in draft.
Emit(call) ==
  /\ Checked(call)
  /\ inFlight' = inFlight \cup {call}
  /\ inserted' = IF call.name = "createEscrow" THEN inserted \cup {call.in.jobId} ELSE inserted
  /\ UNCHANGED <<treasuryTokenAccount, now, chain, escrowPda, settledSeen>>

\* Every createBounty has a job id of its own; the other builders need a row.  A
\* settlement names the treasury token account of the configuration.
Requested(call) ==
  /\ call.name = "createEscrow" <=> call.in.jobId \notin inserted
  /\ call.name = "createEscrow" => \A f \in fetching : f.call # call
  /\ call.name = "settleEscrow" => call.in.treasuryTokenAccount = treasuryTokenAccount
  /\ Cardinality(inFlight) + Cardinality(fetching) < MaxInFlight

BuildFromCache(call) ==
  /\ Requested(call)
  /\ CacheIsUsable
  /\ Emit(call)
  /\ UNCHANGED <<cache, fetching>>

FetchBlockhash(call) ==
  /\ Requested(call)
  /\ ~CacheIsUsable
  /\ fetching' = fetching \cup {[call |-> call, at |-> now, answer |-> -1]}
  /\ UNCHANGED <<treasuryTokenAccount, now, cache, inFlight, chain, rows>>

\* The RPC node answers with its latest blockhash ...
RpcAnswers(f) ==
  /\ f \in fetching /\ f.answer = -1
  /\ fetching' = (fetching \ {f}) \cup {[f EXCEPT !.answer = now]}
  /\ UNCHANGED <<treasuryTokenAccount, now, cache, inFlight, chain, rows>>

\* Variant: the time is taken when the answer is here.
FetchReturnsLate(f) ==
  /\ f \in fetching /\ f.answer # -1
  /\ fetching' = fetching \ {f}
  /\ cache' = [hash |-> f.answer, fetchedAt |-> now, empty |-> FALSE]
  /\ Emit(f.call)

\* ... and the answer arrives.  It is cached as of when it was asked for.
FetchReturns(f) ==
  /\ f \in fetching /\ f.answer # -1
  /\ fetching' = fetching \ {f}
  /\ cache' = [hash |-> f.answer, fetchedAt |-> f.at, empty |-> FALSE]
  /\ Emit(f.call)

\* The RPC fails, or what was built is refused.
BuildFails(f) ==
  /\ f \in fetching
  /\ fetching' = fetching \ {f}
  /\ \/ "rpc" \in TxFaults /\ UNCHANGED cache
     \/ /\ f.answer # -1 /\ ~Accepts(f.call)
        /\ cache' = [hash |-> f.answer, fetchedAt |-> f.at, empty |-> FALSE]
  /\ UNCHANGED <<treasuryTokenAccount, now, inFlight, chain, rows>>

-----------------------------------------------------------------------------
(* helius.service.ts.  The webhook reads bytes and positions on its own.     *)

DISCRIMINATORS ==
  [createEscrow |-> <<253, 215, 165, 116, 36, 108, 68, 80>>,
   settleEscrow |-> <<22, 135, 160, 194, 23, 186, 124, 110>>]

\* data.subarray(8, 24), looked up in job_id_bytes.
JobsOf(data) == {j \in inserted : SubSeq(data, 9, 24) = Bytes(j, 16)}

\* Variant: every instruction with a job id but a deposit is taken for a settlement.
IsSettlementOther(ix) ==
  /\ ix.programAddress = Program /\ Len(ix.data) >= 24
  /\ SubSeq(ix.data, 1, 8) # DISCRIMINATORS.createEscrow

IsDeposit(ix) ==
  /\ ix.programAddress = Program /\ Len(ix.data) >= 8
  /\ SubSeq(ix.data, 1, 8) = DISCRIMINATORS.createEscrow

IsSettlement(ix) ==
  /\ ix.programAddress = Program /\ Len(ix.data) >= 8
  /\ SubSeq(ix.data, 1, 8) = DISCRIMINATORS.settleEscrow

\* Variant: the account behind the vault state, the vault's token account.
HandleEscrowFundedNext(ixs) ==
  escrowPda' = [j \in Jobs |->
    LET of == {i \in DOMAIN ixs : IsDeposit(ixs[i]) /\ j \in JobsOf(ixs[i].data)}
    IN  IF of = {} THEN escrowPda[j] ELSE ixs[Max(of)].accounts[4].address]

\* The effect of the deposits among the instructions, whoever made them: the last
\* one of a job counts.
HandleEscrowFunded(ixs) ==
  escrowPda' = [j \in Jobs |->
    LET of == {i \in DOMAIN ixs : IsDeposit(ixs[i]) /\ j \in JobsOf(ixs[i].data)}
    IN  IF of = {} THEN escrowPda[j] ELSE ixs[Max(of)].accounts[3].address]

HandleSettleConfirmed(ixs) ==
  settledSeen' = settledSeen \cup
    UNION {JobsOf(ixs[i].data) : i \in {n \in DOMAIN ixs : IsSettlement(ixs[n])}}

\* Helius delivers a transaction: late, more than once, or never.  Its
\* instructions are handled in their order; an exception, which the controller
\* logs and drops, leaves the instructions behind the first k unhandled (all of them
\* is as if the transaction were never delivered).
Route(tx, k) ==
  /\ tx \in landed
  /\ k < Len(Instructions(tx)) => "throw" \in TxFaults
  /\ LET handled == SubSeq(Instructions(tx), 1, k)
     IN  HandleEscrowFunded(handled) /\ HandleSettleConfirmed(handled)
  /\ UNCHANGED <<server, chain, inserted>>

-----------------------------------------------------------------------------
(* bounties.service.ts: the client confirms the deposit by a signature.  That *)
(* the row may be another when the transaction is here is in BountyLifecycle. *)

OfProgram(ixs) == {i \in DOMAIN ixs : ixs[i].programAddress = Program}

\* Variant: the account before the third.
EscrowPdaFromTxPrevious(tx) ==
  LET ixs == Instructions(tx)
  IN  ixs[Min(OfProgram(ixs))].accounts[2].address

\* The first instruction of the program is the one that counts, whichever it is,
\* and its third account is taken for the vault.
EscrowPdaFromTx(tx) ==
  LET ixs == Instructions(tx)
  IN  ixs[Min(OfProgram(ixs))].accounts[3].address

\* The signature may be that of any transaction the chain has.
ConfirmEscrow(j, tx) ==
  /\ j \in inserted /\ escrowPda[j] = NoAddress
  /\ tx \in landed
  /\ LET ixs == Instructions(tx)
     IN  Len(ixs[Min(OfProgram(ixs))].accounts) >= 3
  /\ escrowPda' = [escrowPda EXCEPT ![j] = EscrowPdaFromTx(tx)]
  /\ UNCHANGED <<server, chain, inserted, settledSeen>>

-----------------------------------------------------------------------------
Next ==
  \/ Tick
  \/ \E c \in ServerCalls : BuildFromCache(c) \/ FetchBlockhash(c)
  \/ \E f \in fetching : RpcAnswers(f) \/ FetchReturns(f) \/ BuildFails(f)
  \/ \E c \in inFlight :
       \/ TransactionExpires(c)
       \/ \E p \in BOOLEAN : TransactionLands(c, p)
  \/ \E c \in OtherCalls : OtherLands(c)
  \/ \E tx \in landed : \E k \in 1..Len(Instructions(tx)) : Route(tx, k)
  \/ \E j \in Jobs, tx \in landed : ConfirmEscrow(j, tx)

Spec == Init /\ [][Next]_vars

-----------------------------------------------------------------------------
(* Properties *)

\* What the generated client encodes, its own parser reads back, whichever of
\* the seven instructions it is: the arguments, and the accounts by name.  The
\* builder's lists of fields and accounts and the parser's are not the same lists.
ParsedAsBuilt ==
  \A call \in inFlight \cup OtherCalls :
    LET p == Parse[call]
    IN  /\ p.instructionType = call.name
        /\ \A n \in DOMAIN call.in :
             \/ n \in DOMAIN p.data /\ p.data[n] = call.in[n]
             \/ n \in DOMAIN p.accounts /\ p.accounts[n] = call.in[n]

\* What the webhook writes into escrow_pda is the address of a vault that was
\* opened for that very job: the offsets and positions it reads by hand are those
\* the builder wrote.  Whose vault it is the webhook does not ask.
WebhookRecordsVaults ==
  [][\A j \in Jobs :
       /\ escrowPda'[j] # escrowPda[j]
       /\ \E tx \in landed : \E k \in 1..Len(Instructions(tx)) : Route(tx, k)
       => escrowPda'[j] \in DOMAIN vaults /\ vaults[escrowPda'[j]].jobId = j]_vars

\* The webhook takes a bounty for settled only when the vault of its client paid:
\* a settlement that names the job of another wallet's vault never gets through,
\* because the server decides about the vault of the client alone.
SettledSeenIsSettled ==
  \A j \in settledSeen : IsSettled(vaults[EscrowVaultStatePda(Client, j)])

\* Once the authority has decided, the settlement the server built for that
\* decision is one the program takes, unless it is paused, exactly if the
\* configured treasury token account is the one of the program's treasury: every
\* other account is right, and nothing before the wallet's broadcast finds a
\* wrong setting.
SettlementIsTaken ==
  \A call \in inFlight :
    LET a == EscrowVaultStatePda(Client, call.in.jobId)
    IN  /\ call.name = "settleEscrow"
        /\ a \in DOMAIN vaults /\ vaults[a].state = "Funded"
        /\ vaults[a].jobStatus # "Active" /\ ~config.paused
        /\ call = IF vaults[a].jobStatus = "Fulfilled"
                    THEN BuildSettleTx(call.in.jobId, vaults[a].agentOwner, treasuryTokenAccount)
                    ELSE BuildRefundTx(call.in.jobId, treasuryTokenAccount)
        => (Accepts(call) <=>
              treasuryTokenAccount = AssociatedTokenPda(config.treasury, UsdcMint))

\* A blockhash out of the cache is younger than its time to live, also when the
\* answers to two requests came in the other order.
CachedHashIsFresh == CacheIsUsable => now - cache.hash < BlockhashTtl
==============================================================================
