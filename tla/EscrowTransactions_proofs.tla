---------------------- MODULE EscrowTransactions_proofs ----------------------
(***************************************************************************)
(* The transactions of the escrow program for any set of jobs, any         *)
(* wallets, any setting of the treasury token account, prize and fee.      *)
(* That what is built is what is parsed comes from EscrowClient_proofs;    *)
(* here are the inductive invariants.                                      *)
(***************************************************************************)
EXTENDS EscrowTransactions, EscrowClient_proofs

-----------------------------------------------------------------------------
(* The server: its clock, its cache and its calls *)

\* A builder that waits asked no later than t, and its answer came after it asked.
Asked(f, t) ==
  /\ f \in [call : ServerCalls, at : 0..MaxTime, answer : -1..MaxTime]
  /\ f.at <= t /\ f.answer <= t
  /\ f.answer # -1 => f.at <= f.answer

Timed ==
  /\ treasuryTokenAccount \in TreasuryTokenAccounts
  /\ now \in 0..MaxTime
  /\ cache \in [hash : 0..MaxTime, fetchedAt : 0..MaxTime, empty : BOOLEAN]
  /\ cache.fetchedAt <= cache.hash
  /\ \A f \in fetching : Asked(f, now)
  /\ inFlight \subseteq ServerCalls
  /\ inserted \subseteq Jobs

LEMMA JobOfCall == \A c \in ServerCalls : c.in.jobId \in Jobs
  BY DEF ServerCalls, BuildCreateEscrowTx, BuildSettleTx, BuildRefundTx, CallUpdateEscrow

LEMMA TimedInit == Init => Timed
  BY TransactionAssumption DEF Init, Timed, NoCache

LEMMA TimedNext == Timed /\ [Next]_vars => Timed'
<1> SUFFICES ASSUME Timed, [Next]_vars PROVE Timed'
  OBVIOUS
<1> USE DEF Timed
<1>0. MaxTime \in Nat
  BY TransactionAssumption
<1>1. ASSUME NEW c \in ServerCalls, Emit(c)
      PROVE  /\ inFlight' \subseteq ServerCalls /\ inserted' \subseteq Jobs /\ now' = now
             /\ treasuryTokenAccount' = treasuryTokenAccount
  BY <1>1, JobOfCall DEF Emit
<1>2. CASE Tick
  <2>1. now' \in 0..MaxTime /\ now <= now'
    BY <1>0, <1>2 DEF Tick
  <2>2. ASSUME NEW f \in fetching PROVE Asked(f, now')
    BY <1>0, <2>1 DEF Asked
  <2> QED BY <1>2, <2>1, <2>2 DEF Tick, rows
<1>3. ASSUME NEW c \in ServerCalls, BuildFromCache(c) PROVE Timed'
  BY <1>1, <1>3 DEF BuildFromCache
<1>4. ASSUME NEW c \in ServerCalls, FetchBlockhash(c) PROVE Timed'
  <2>1. Asked([call |-> c, at |-> now, answer |-> -1], now)
    BY <1>0 DEF Asked
  <2> QED BY <1>4, <2>1 DEF FetchBlockhash, rows
<1>5. ASSUME NEW f \in fetching, RpcAnswers(f) PROVE Timed'
  <2>1. Asked([f EXCEPT !.answer = now], now)
    BY <1>0 DEF Asked
  <2> QED BY <1>5, <2>1 DEF RpcAnswers, rows
<1>6. ASSUME NEW f \in fetching, f.answer # -1
      PROVE  LET c == [hash |-> f.answer, fetchedAt |-> f.at, empty |-> FALSE]
             IN  /\ c \in [hash : 0..MaxTime, fetchedAt : 0..MaxTime, empty : BOOLEAN]
                 /\ c.fetchedAt <= c.hash
  BY <1>0, <1>6 DEF Asked
<1>7. ASSUME NEW f \in fetching, FetchReturns(f) PROVE Timed'
  <2>1. f.call \in ServerCalls
    BY DEF Asked
  <2>2. /\ inFlight' \subseteq ServerCalls /\ inserted' \subseteq Jobs /\ now' = now
        /\ treasuryTokenAccount' = treasuryTokenAccount
    BY <1>1, <1>7, <2>1 DEF FetchReturns
  <2>3. /\ cache' \in [hash : 0..MaxTime, fetchedAt : 0..MaxTime, empty : BOOLEAN]
        /\ cache'.fetchedAt <= cache'.hash
    BY <1>6, <1>7 DEF FetchReturns
  <2>4. \A g \in fetching' : Asked(g, now')
    BY <1>7, <2>2 DEF FetchReturns
  <2> QED BY <2>2, <2>3, <2>4
<1>8. ASSUME NEW f \in fetching, BuildFails(f) PROVE Timed'
  <2>1. /\ cache' \in [hash : 0..MaxTime, fetchedAt : 0..MaxTime, empty : BOOLEAN]
        /\ cache'.fetchedAt <= cache'.hash
    BY <1>6, <1>8 DEF BuildFails
  <2>2. \A g \in fetching' : Asked(g, now')
    BY <1>8 DEF BuildFails
  <2> QED BY <1>8, <2>1, <2>2 DEF BuildFails, rows
<1>9. ASSUME NEW c \in inFlight, TransactionExpires(c) PROVE Timed'
  BY <1>9 DEF TransactionExpires, rows
<1>10. ASSUME NEW c \in inFlight, NEW p \in BOOLEAN, TransactionLands(c, p) PROVE Timed'
  BY <1>10 DEF TransactionLands, Lands, rows
<1>11. ASSUME NEW c \in OtherCalls, OtherLands(c) PROVE Timed'
  BY <1>11 DEF OtherLands, Lands, server, rows
<1>12. ASSUME NEW tx \in landed, NEW k, Route(tx, k) PROVE Timed'
  BY <1>12 DEF Route, server
<1>13. ASSUME NEW j \in Jobs, NEW tx \in landed, ConfirmEscrow(j, tx) PROVE Timed'
  BY <1>13 DEF ConfirmEscrow, server
<1>14. CASE UNCHANGED vars
  BY <1>14 DEF vars, server, rows
<1> QED
  BY <1>2, <1>3, <1>4, <1>5, <1>7, <1>8, <1>9, <1>10, <1>11, <1>12, <1>13, <1>14 DEF Next

LEMMA AlwaysTimed == Spec => []Timed
  BY TimedInit, TimedNext, PTL DEF Spec

\* A blockhash out of the cache is younger than its time to live
\* (escrow.service.ts, getLatestBlockhash), however the answers of the RPC node overtake.
THEOREM HashIsFresh == Spec => []CachedHashIsFresh
<1>1. Timed => CachedHashIsFresh
  BY TransactionAssumption DEF Timed, CachedHashIsFresh, CacheIsUsable
<1> QED BY <1>1, AlwaysTimed, PTL

-----------------------------------------------------------------------------
(* The calls, on the wire and parsed *)

Wallets == Strangers \cup {Client}

CreateCall(w, j) ==
  [name |-> "createEscrow",
   in   |-> [client |-> w, tokenMint |-> UsdcMint, jobId |-> j, jobType |-> "Bounty",
             amount |-> Prize, expiry |-> MaxTime + 1]]
SettleCall(w, j, to, t) ==
  [name |-> "settleEscrow",
   in   |-> [client |-> w, jobId |-> j, tokenMint |-> UsdcMint,
             recipientTokenAccount |-> to, treasuryTokenAccount |-> t]]
UpdateCall(j, f, o) ==
  [name |-> "updateEscrow",
   in   |-> [authority |-> Authority, client |-> Client, jobId |-> j, fulfilled |-> f,
             agentOwner |-> o]]
DisputeCall(j) ==
  [name |-> "markDisputed",
   in   |-> [client |-> Client, jobId |-> j]]
ResolveCall(j) ==
  [name |-> "resolveDispute",
   in   |-> [authority |-> Authority, client |-> Client, jobId |-> j,
             tokenMint |-> UsdcMint]]
InitializeCall ==
  [name |-> "initialize",
   in   |-> [authority |-> Authority, platformFeeBps |-> FeeBps,
             emergencyAdmin |-> EmergencyAdmin, treasury |-> Treasury,
             tokenMint |-> UsdcMint]]
PauseCall(p) ==
  [name |-> "setPaused",
   in   |-> [emergencyAdmin |-> EmergencyAdmin, paused |-> p]]

FulfilCall(j, o) == CallUpdateEscrow(j, TRUE, o)
RefuseCall(j) == CallUpdateEscrow(j, FALSE, NoAddress)
FulfilCalls == {FulfilCall(j, o) : j \in Jobs, o \in Owners}
RefuseCalls == {RefuseCall(j) : j \in Jobs}
CreateCalls == {BuildCreateEscrowTx(j) : j \in Jobs}

\* The server names its client in all it builds, and the owner an update grants.
LEMMA ServerCallsAre ==
  \A c \in ServerCalls :
    \/ \E j \in Jobs : c = CreateCall(Client, j)
    \/ \E j \in Jobs : \E to, t : c = SettleCall(Client, j, to, t)
    \/ \E j \in Jobs, f \in BOOLEAN : \E o : c = UpdateCall(j, f, o) /\ (f => o \in Owners)
<1>1. \A j \in Jobs : BuildCreateEscrowTx(j) = CreateCall(Client, j)
  BY DEF BuildCreateEscrowTx, CreateCall
<1>2. \A j \in Jobs : \A o, t :
        BuildSettleTx(j, o, t) = SettleCall(Client, j, DeriveAta(o, UsdcMint), t)
  BY DEF BuildSettleTx, SettleCall
<1>3. \A j \in Jobs : \A t :
        BuildRefundTx(j, t) = SettleCall(Client, j, DeriveAta(Client, UsdcMint), t)
  BY DEF BuildRefundTx, SettleCall
<1>4. /\ \A j, o : FulfilCall(j, o) = UpdateCall(j, TRUE, o)
      /\ \A j : RefuseCall(j) = UpdateCall(j, FALSE, NoAddress)
  BY DEF CallUpdateEscrow, FulfilCall, RefuseCall, UpdateCall
<1> SUFFICES ASSUME NEW c \in ServerCalls
             PROVE  \/ \E j \in Jobs : c = CreateCall(Client, j)
                    \/ \E j \in Jobs : \E to, t : c = SettleCall(Client, j, to, t)
                    \/ \E j \in Jobs, f \in BOOLEAN : \E o :
                         c = UpdateCall(j, f, o) /\ (f => o \in Owners)
  OBVIOUS
<1>5. \/ \E j \in Jobs : c = BuildCreateEscrowTx(j)
      \/ \E j \in Jobs : \E o, t : c = BuildSettleTx(j, o, t)
      \/ \E j \in Jobs : \E t : c = BuildRefundTx(j, t)
      \/ \E j \in Jobs, o \in Owners : c = FulfilCall(j, o)
      \/ \E j \in Jobs : c = RefuseCall(j)
  <2> DEFINE settles == {BuildSettleTx(j, o, t) :
                           j \in Jobs, o \in Owners, t \in TreasuryTokenAccounts}
             refunds == {BuildRefundTx(j, t) : j \in Jobs, t \in TreasuryTokenAccounts}
  <2>1. ServerCalls = CreateCalls \cup settles \cup refunds \cup FulfilCalls \cup RefuseCalls
    BY DEF ServerCalls, CreateCalls, FulfilCalls, RefuseCalls, FulfilCall, RefuseCall
  <2>2. c \in CreateCalls => \E j \in Jobs : c = BuildCreateEscrowTx(j)
    BY DEF CreateCalls
  <2>3. c \in settles => \E j \in Jobs : \E o, t : c = BuildSettleTx(j, o, t)
    OBVIOUS
  <2>4. c \in refunds => \E j \in Jobs : \E t : c = BuildRefundTx(j, t)
    OBVIOUS
  <2>5. c \in FulfilCalls => \E j \in Jobs, o \in Owners : c = FulfilCall(j, o)
    BY DEF FulfilCalls
  <2>6. c \in RefuseCalls => \E j \in Jobs : c = RefuseCall(j)
    BY DEF RefuseCalls
  <2> HIDE DEF settles, refunds
  <2> QED BY <2>1, <2>2, <2>3, <2>4, <2>5, <2>6
<1>6. ASSUME NEW j \in Jobs, c = BuildCreateEscrowTx(j)
      PROVE  \E i \in Jobs : c = CreateCall(Client, i)
  BY <1>1, <1>6
<1>7. ASSUME NEW j \in Jobs, NEW o, NEW t, c = BuildSettleTx(j, o, t) \/ c = BuildRefundTx(j, t)
      PROVE  \E i \in Jobs : \E to, u : c = SettleCall(Client, i, to, u)
  BY <1>2, <1>3, <1>7
<1>8. ASSUME NEW j \in Jobs, NEW o \in Owners, c = FulfilCall(j, o)
      PROVE  \E i \in Jobs, f \in BOOLEAN : \E u : c = UpdateCall(i, f, u) /\ (f => u \in Owners)
  BY <1>4, <1>8
<1>9. ASSUME NEW j \in Jobs, c = RefuseCall(j)
      PROVE  \E i \in Jobs, f \in BOOLEAN : \E u : c = UpdateCall(i, f, u) /\ (f => u \in Owners)
  BY <1>4, <1>9
<1> QED BY <1>5, <1>6, <1>7, <1>8, <1>9

LEMMA OtherCallsAre ==
  \A c \in OtherCalls :
    \/ \E w \in Strangers, j \in Jobs : c = CreateCall(w, j)
    \/ \E w \in Strangers, j \in Jobs : \E to, t : c = SettleCall(w, j, to, t)
    \/ \E j \in Jobs : c = DisputeCall(j) \/ c = ResolveCall(j)
    \/ c = InitializeCall \/ \E p \in BOOLEAN : c = PauseCall(p)
<1> SUFFICES ASSUME NEW c \in OtherCalls
             PROVE  \/ \E w \in Strangers, j \in Jobs : c = CreateCall(w, j)
                    \/ \E w \in Strangers, j \in Jobs : \E to, t : c = SettleCall(w, j, to, t)
                    \/ \E j \in Jobs : c = DisputeCall(j) \/ c = ResolveCall(j)
                    \/ c = InitializeCall \/ \E p \in BOOLEAN : c = PauseCall(p)
  OBVIOUS
<1> DEFINE creates == {CreateCall(w, j) : w \in Strangers, j \in Jobs}
           settles == {SettleCall(w, j, AssociatedTokenPda(w, UsdcMint),
                                  AssociatedTokenPda(Treasury, UsdcMint)) :
                         w \in Strangers, j \in Jobs}
           disputes == {DisputeCall(j) : j \in Jobs}
           resolves == {ResolveCall(j) : j \in Jobs}
           pauses   == {PauseCall(p) : p \in BOOLEAN}
<1>1. c \in {InitializeCall} \cup pauses \cup disputes \cup resolves \cup creates \cup settles
  BY DEF OtherCalls, InitializeCall, PauseCall, DisputeCall, ResolveCall, CreateCall, SettleCall
<1>2. c \in creates => \E w \in Strangers, j \in Jobs : c = CreateCall(w, j)
  OBVIOUS
<1>3. c \in settles => \E w \in Strangers, j \in Jobs : \E to, t : c = SettleCall(w, j, to, t)
  OBVIOUS
<1>4. c \in disputes \cup resolves => \E j \in Jobs : c = DisputeCall(j) \/ c = ResolveCall(j)
  OBVIOUS
<1>5. c \in pauses => \E p \in BOOLEAN : c = PauseCall(p)
  OBVIOUS
<1> HIDE DEF creates, settles, disputes, resolves, pauses
<1> QED BY <1>1, <1>2, <1>3, <1>4, <1>5

LEMMA CallsAre ==
  \A c \in Calls :
    \/ \E w \in Wallets, j \in Jobs : c = CreateCall(w, j)
    \/ \E w \in Wallets, j \in Jobs : \E to, t : c = SettleCall(w, j, to, t)
    \/ \E j \in Jobs, f \in BOOLEAN : \E o : c = UpdateCall(j, f, o) /\ (f => o \in Owners)
    \/ \E j \in Jobs : c = DisputeCall(j) \/ c = ResolveCall(j)
    \/ c = InitializeCall \/ \E p \in BOOLEAN : c = PauseCall(p)
  BY ServerCallsAre, OtherCallsAre DEF Calls, Wallets

\* What the program and the webhook see of a call: the instruction of the name, built
\* of an input with those values.
LEMMA WireIs ==
  \A c \in Calls : /\ Wire[c] = GetInstructionAsync(c.name, c.in)
                   /\ Parse[c] = ParseArcadiumEscrowInstruction(Wire[c])
  BY DEF Wire, Parse

CreateRead(q, w, j) ==
  /\ q.instructionType = "createEscrow"
  /\ {"client", "tokenMint", "config", "escrowVaultState", "escrowVault",
      "clientTokenAccount"} \subseteq DOMAIN q.accounts
  /\ {"jobId", "jobType", "amount", "expiry"} \subseteq DOMAIN q.data
  /\ q.accounts.client = w
  /\ q.accounts.tokenMint = UsdcMint
  /\ q.accounts.config = ConfigPda
  /\ q.accounts.escrowVaultState = EscrowVaultStatePda(w, j)
  /\ q.accounts.escrowVault = EscrowVaultPda(EscrowVaultStatePda(w, j))
  /\ q.accounts.clientTokenAccount = AssociatedTokenPda(w, UsdcMint)
  /\ q.data.jobId = j
  /\ q.data.jobType = "Bounty"
  /\ q.data.amount = Prize
  /\ q.data.expiry = MaxTime + 1

LEMMA CreateOnWire ==
  ASSUME NEW w, NEW j, CreateCall(w, j) \in Calls
  PROVE  \E r : /\ Wire[CreateCall(w, j)] =
                     Instruction("createEscrow", CreateEscrowAccounts, CreateEscrowEncoder, r)
                /\ r.jobId = j
                /\ r.jobType = "Bounty"
                /\ Wire[CreateCall(w, j)].accounts[3].address = EscrowVaultStatePda(w, j)
                /\ CreateRead(Parse[CreateCall(w, j)], w, j)
<1> DEFINE c == CreateCall(w, j)
           in == c.in
<1>1. c \in Calls /\ c.name = "createEscrow"
  BY DEF CreateCall
<1>2. /\ DOMAIN in = {"client", "tokenMint", "jobId", "jobType", "amount", "expiry"}
      /\ in.client = w
      /\ in.tokenMint = UsdcMint
      /\ in.jobId = j
      /\ in.jobType = "Bounty"
      /\ in.amount = Prize
      /\ in.expiry = MaxTime + 1
  BY DEF CreateCall
<1> HIDE DEF c, in
<1>3. PICK r : /\ GetInstructionAsync("createEscrow", in) =
                    Instruction("createEscrow", CreateEscrowAccounts, CreateEscrowEncoder, r)
               /\ Keeps(r, in)
               /\ Given(r, in, "config", ConfigPda)
               /\ Given(r, in, "escrowVaultState", EscrowVaultStatePda(r.client, r.jobId))
               /\ Given(r, in, "escrowVault", EscrowVaultPda(r.escrowVaultState))
               /\ Given(r, in, "clientTokenAccount", AssociatedTokenPda(r.client, r.tokenMint))
  BY <1>2, CreateEscrowBuilt
<1>4. /\ r.client = w
      /\ r.tokenMint = UsdcMint
      /\ r.jobId = j
      /\ r.jobType = "Bounty"
      /\ r.amount = Prize
      /\ r.expiry = MaxTime + 1
  BY <1>2, <1>3 DEF Keeps
<1>5. r.config = ConfigPda
  BY <1>2, <1>3, <1>4 DEF Given
<1>6. r.escrowVaultState = EscrowVaultStatePda(w, j)
  BY <1>2, <1>3, <1>4, <1>5 DEF Given
<1>7. r.escrowVault = EscrowVaultPda(EscrowVaultStatePda(w, j))
  BY <1>2, <1>3, <1>4, <1>5, <1>6 DEF Given
<1>8. r.clientTokenAccount = AssociatedTokenPda(w, UsdcMint)
  BY <1>2, <1>3, <1>4, <1>5, <1>6, <1>7 DEF Given
<1>9. Wire[c] = Instruction("createEscrow", CreateEscrowAccounts, CreateEscrowEncoder, r)
  BY <1>1, <1>3, WireIs DEF in
<1>10. CreateEscrowReads(Parse[c], r)
  BY <1>1, <1>4, <1>9, WireIs, CreateEscrowIsRead
<1>11. CreateRead(Parse[c], w, j)
  BY <1>4, <1>5, <1>6, <1>7, <1>8, <1>10 DEF CreateRead, CreateEscrowReads, Reads
<1>12. Wire[c].accounts[3].address = r.escrowVaultState
  <2>1. 3 \in DOMAIN CreateEscrowAccounts /\ CreateEscrowAccounts[3].name = "escrowVaultState"
    BY DEF CreateEscrowAccounts, SignerW, Writable, Readonly
  <2> QED BY <1>9, <2>1 DEF Instruction
<1> QED BY <1>4, <1>5, <1>6, <1>7, <1>8, <1>9, <1>11, <1>12 DEF c

SettleRead(q, w, j, to, t) ==
  /\ q.instructionType = "settleEscrow"
  /\ {"client", "tokenMint", "recipientTokenAccount", "treasuryTokenAccount", "config",
      "escrowVaultState", "escrowVault"} \subseteq DOMAIN q.accounts
  /\ {"jobId"} \subseteq DOMAIN q.data
  /\ q.accounts.client = w
  /\ q.accounts.tokenMint = UsdcMint
  /\ q.accounts.recipientTokenAccount = to
  /\ q.accounts.treasuryTokenAccount = t
  /\ q.accounts.config = ConfigPda
  /\ q.accounts.escrowVaultState = EscrowVaultStatePda(w, j)
  /\ q.accounts.escrowVault = EscrowVaultPda(EscrowVaultStatePda(w, j))
  /\ q.data.jobId = j

LEMMA SettleOnWire ==
  ASSUME NEW w, NEW j, NEW to, NEW t, SettleCall(w, j, to, t) \in Calls
  PROVE  \E r : /\ Wire[SettleCall(w, j, to, t)] =
                     Instruction("settleEscrow", SettleEscrowAccounts, SettleEscrowEncoder, r)
                /\ r.jobId = j
                /\ Wire[SettleCall(w, j, to, t)].accounts[3].address = EscrowVaultStatePda(w, j)
                /\ SettleRead(Parse[SettleCall(w, j, to, t)], w, j, to, t)
<1> DEFINE c == SettleCall(w, j, to, t)
           in == c.in
<1>1. c \in Calls /\ c.name = "settleEscrow"
  BY DEF SettleCall
<1>2. /\ DOMAIN in = {"client", "jobId", "tokenMint", "recipientTokenAccount",
          "treasuryTokenAccount"}
      /\ in.client = w
      /\ in.jobId = j
      /\ in.tokenMint = UsdcMint
      /\ in.recipientTokenAccount = to
      /\ in.treasuryTokenAccount = t
  BY DEF SettleCall
<1> HIDE DEF c, in
<1>3. PICK r : /\ GetInstructionAsync("settleEscrow", in) =
                    Instruction("settleEscrow", SettleEscrowAccounts, SettleEscrowEncoder, r)
               /\ Keeps(r, in)
               /\ Given(r, in, "config", ConfigPda)
               /\ Given(r, in, "escrowVaultState", EscrowVaultStatePda(r.client, r.jobId))
               /\ Given(r, in, "escrowVault", EscrowVaultPda(r.escrowVaultState))
  BY <1>2, SettleEscrowBuilt
<1>4. /\ r.client = w
      /\ r.jobId = j
      /\ r.tokenMint = UsdcMint
      /\ r.recipientTokenAccount = to
      /\ r.treasuryTokenAccount = t
  BY <1>2, <1>3 DEF Keeps
<1>5. r.config = ConfigPda
  BY <1>2, <1>3, <1>4 DEF Given
<1>6. r.escrowVaultState = EscrowVaultStatePda(w, j)
  BY <1>2, <1>3, <1>4, <1>5 DEF Given
<1>7. r.escrowVault = EscrowVaultPda(EscrowVaultStatePda(w, j))
  BY <1>2, <1>3, <1>4, <1>5, <1>6 DEF Given
<1>8. Wire[c] = Instruction("settleEscrow", SettleEscrowAccounts, SettleEscrowEncoder, r)
  BY <1>1, <1>3, WireIs DEF in
<1>9. SettleEscrowReads(Parse[c], r)
  BY <1>1, <1>4, <1>8, WireIs, SettleEscrowIsRead
<1>10. SettleRead(Parse[c], w, j, to, t)
  BY <1>4, <1>5, <1>6, <1>7, <1>9 DEF SettleRead, SettleEscrowReads, Reads
<1>11. Wire[c].accounts[3].address = r.escrowVaultState
  <2>1. 3 \in DOMAIN SettleEscrowAccounts /\ SettleEscrowAccounts[3].name = "escrowVaultState"
    BY DEF SettleEscrowAccounts, SignerW, Writable, Readonly
  <2> QED BY <1>8, <2>1 DEF Instruction
<1> QED BY <1>4, <1>5, <1>6, <1>7, <1>8, <1>10, <1>11 DEF c

UpdateRead(q, j, f, o) ==
  /\ q.instructionType = "updateEscrow"
  /\ {"authority", "client", "config", "escrowVaultState"} \subseteq DOMAIN q.accounts
  /\ {"jobId", "fulfilled", "agentOwner"} \subseteq DOMAIN q.data
  /\ q.accounts.authority = Authority
  /\ q.accounts.client = Client
  /\ q.accounts.config = ConfigPda
  /\ q.accounts.escrowVaultState = EscrowVaultStatePda(Client, j)
  /\ q.data.jobId = j
  /\ q.data.fulfilled = f
  /\ q.data.agentOwner = o

LEMMA UpdateOnWire ==
  ASSUME NEW j, NEW f, NEW o, UpdateCall(j, f, o) \in Calls
  PROVE  \E r : /\ Wire[UpdateCall(j, f, o)] =
                     Instruction("updateEscrow", UpdateEscrowAccounts, UpdateEscrowEncoder, r)
                /\ r.jobId = j
                /\ Wire[UpdateCall(j, f, o)].accounts[3].address = ConfigPda
                /\ UpdateRead(Parse[UpdateCall(j, f, o)], j, f, o)
<1> DEFINE c == UpdateCall(j, f, o)
           in == c.in
<1>1. c \in Calls /\ c.name = "updateEscrow"
  BY DEF UpdateCall
<1>2. /\ DOMAIN in = {"authority", "client", "jobId", "fulfilled", "agentOwner"}
      /\ in.authority = Authority
      /\ in.client = Client
      /\ in.jobId = j
      /\ in.fulfilled = f
      /\ in.agentOwner = o
  BY DEF UpdateCall
<1> HIDE DEF c, in
<1>3. PICK r : /\ GetInstructionAsync("updateEscrow", in) =
                    Instruction("updateEscrow", UpdateEscrowAccounts, UpdateEscrowEncoder, r)
               /\ Keeps(r, in)
               /\ Given(r, in, "config", ConfigPda)
               /\ Given(r, in, "escrowVaultState", EscrowVaultStatePda(r.client, r.jobId))
  BY <1>2, UpdateEscrowBuilt
<1>4. /\ r.authority = Authority
      /\ r.client = Client
      /\ r.jobId = j
      /\ r.fulfilled = f
      /\ r.agentOwner = o
  BY <1>2, <1>3 DEF Keeps
<1>5. r.config = ConfigPda
  BY <1>2, <1>3, <1>4 DEF Given
<1>6. r.escrowVaultState = EscrowVaultStatePda(Client, j)
  BY <1>2, <1>3, <1>4, <1>5 DEF Given
<1>7. Wire[c] = Instruction("updateEscrow", UpdateEscrowAccounts, UpdateEscrowEncoder, r)
  BY <1>1, <1>3, WireIs DEF in
<1>8. UpdateEscrowReads(Parse[c], r)
  BY <1>1, <1>4, <1>7, WireIs, UpdateEscrowIsRead
<1>9. UpdateRead(Parse[c], j, f, o)
  BY <1>4, <1>5, <1>6, <1>8 DEF UpdateRead, UpdateEscrowReads, Reads
<1>10. Wire[c].accounts[3].address = r.config
  <2>1. 3 \in DOMAIN UpdateEscrowAccounts /\ UpdateEscrowAccounts[3].name = "config"
    BY DEF UpdateEscrowAccounts, SignerW, Writable, Readonly
  <2> QED BY <1>7, <2>1 DEF Instruction
<1> QED BY <1>4, <1>5, <1>6, <1>7, <1>9, <1>10 DEF c

DisputeRead(q, j) ==
  /\ q.instructionType = "markDisputed"
  /\ {"client", "config", "escrowVaultState"} \subseteq DOMAIN q.accounts
  /\ {"jobId"} \subseteq DOMAIN q.data
  /\ q.accounts.client = Client
  /\ q.accounts.config = ConfigPda
  /\ q.accounts.escrowVaultState = EscrowVaultStatePda(Client, j)
  /\ q.data.jobId = j

LEMMA DisputeOnWire ==
  ASSUME NEW j, DisputeCall(j) \in Calls
  PROVE  \E r : /\ Wire[DisputeCall(j)] =
                     Instruction("markDisputed", MarkDisputedAccounts, MarkDisputedEncoder, r)
                /\ r.jobId = j
                /\ Wire[DisputeCall(j)].accounts[3].address = EscrowVaultStatePda(Client, j)
                /\ DisputeRead(Parse[DisputeCall(j)], j)
<1> DEFINE c == DisputeCall(j)
           in == c.in
<1>1. c \in Calls /\ c.name = "markDisputed"
  BY DEF DisputeCall
<1>2. /\ DOMAIN in = {"client", "jobId"}
      /\ in.client = Client
      /\ in.jobId = j
  BY DEF DisputeCall
<1> HIDE DEF c, in
<1>3. PICK r : /\ GetInstructionAsync("markDisputed", in) =
                    Instruction("markDisputed", MarkDisputedAccounts, MarkDisputedEncoder, r)
               /\ Keeps(r, in)
               /\ Given(r, in, "config", ConfigPda)
               /\ Given(r, in, "escrowVaultState", EscrowVaultStatePda(r.client, r.jobId))
  BY <1>2, MarkDisputedBuilt
<1>4. /\ r.client = Client
      /\ r.jobId = j
  BY <1>2, <1>3 DEF Keeps
<1>5. r.config = ConfigPda
  BY <1>2, <1>3, <1>4 DEF Given
<1>6. r.escrowVaultState = EscrowVaultStatePda(Client, j)
  BY <1>2, <1>3, <1>4, <1>5 DEF Given
<1>7. Wire[c] = Instruction("markDisputed", MarkDisputedAccounts, MarkDisputedEncoder, r)
  BY <1>1, <1>3, WireIs DEF in
<1>8. MarkDisputedReads(Parse[c], r)
  BY <1>1, <1>4, <1>7, WireIs, MarkDisputedIsRead
<1>9. DisputeRead(Parse[c], j)
  BY <1>4, <1>5, <1>6, <1>8 DEF DisputeRead, MarkDisputedReads, Reads
<1>10. Wire[c].accounts[3].address = r.escrowVaultState
  <2>1. 3 \in DOMAIN MarkDisputedAccounts /\ MarkDisputedAccounts[3].name = "escrowVaultState"
    BY DEF MarkDisputedAccounts, SignerW, Writable, Readonly
  <2> QED BY <1>7, <2>1 DEF Instruction
<1> QED BY <1>4, <1>5, <1>6, <1>7, <1>9, <1>10 DEF c

ResolveRead(q, j) ==
  /\ q.instructionType = "resolveDispute"
  /\ {"authority", "client", "tokenMint", "config", "escrowVaultState"} \subseteq DOMAIN q.accounts
  /\ {"jobId"} \subseteq DOMAIN q.data
  /\ q.accounts.authority = Authority
  /\ q.accounts.client = Client
  /\ q.accounts.tokenMint = UsdcMint
  /\ q.accounts.config = ConfigPda
  /\ q.accounts.escrowVaultState = EscrowVaultStatePda(Client, j)
  /\ q.data.jobId = j

LEMMA ResolveOnWire ==
  ASSUME NEW j, ResolveCall(j) \in Calls
  PROVE  \E r : /\ Wire[ResolveCall(j)] =
                     Instruction("resolveDispute", ResolveDisputeAccounts, ResolveDisputeEncoder, r)
                /\ r.jobId = j
                /\ Wire[ResolveCall(j)].accounts[3].address = EscrowVaultStatePda(Client, j)
                /\ ResolveRead(Parse[ResolveCall(j)], j)
<1> DEFINE c == ResolveCall(j)
           in == c.in
<1>1. c \in Calls /\ c.name = "resolveDispute"
  BY DEF ResolveCall
<1>2. /\ DOMAIN in = {"authority", "client", "jobId", "tokenMint"}
      /\ in.authority = Authority
      /\ in.client = Client
      /\ in.jobId = j
      /\ in.tokenMint = UsdcMint
  BY DEF ResolveCall
<1> HIDE DEF c, in
<1>3. PICK r : /\ GetInstructionAsync("resolveDispute", in) =
                    Instruction("resolveDispute", ResolveDisputeAccounts, ResolveDisputeEncoder, r)
               /\ Keeps(r, in)
               /\ Given(r, in, "config", ConfigPda)
               /\ Given(r, in, "escrowVaultState", EscrowVaultStatePda(r.client, r.jobId))
  BY <1>2, ResolveDisputeBuilt
<1>4. /\ r.authority = Authority
      /\ r.client = Client
      /\ r.jobId = j
      /\ r.tokenMint = UsdcMint
  BY <1>2, <1>3 DEF Keeps
<1>5. r.config = ConfigPda
  BY <1>2, <1>3, <1>4 DEF Given
<1>6. r.escrowVaultState = EscrowVaultStatePda(Client, j)
  BY <1>2, <1>3, <1>4, <1>5 DEF Given
<1>7. Wire[c] = Instruction("resolveDispute", ResolveDisputeAccounts, ResolveDisputeEncoder, r)
  BY <1>1, <1>3, WireIs DEF in
<1>8. ResolveDisputeReads(Parse[c], r)
  BY <1>1, <1>4, <1>7, WireIs, ResolveDisputeIsRead
<1>9. ResolveRead(Parse[c], j)
  BY <1>4, <1>5, <1>6, <1>8 DEF ResolveRead, ResolveDisputeReads, Reads
<1>10. Wire[c].accounts[3].address = r.escrowVaultState
  <2>1. 3 \in DOMAIN ResolveDisputeAccounts /\ ResolveDisputeAccounts[3].name = "escrowVaultState"
    BY DEF ResolveDisputeAccounts, SignerW, Writable, Readonly
  <2> QED BY <1>7, <2>1 DEF Instruction
<1> QED BY <1>4, <1>5, <1>6, <1>7, <1>9, <1>10 DEF c

InitializeRead(q) ==
  /\ q.instructionType = "initialize"
  /\ {"authority", "config", "systemProgram"} \subseteq DOMAIN q.accounts
  /\ {"platformFeeBps", "emergencyAdmin", "treasury", "tokenMint"} \subseteq DOMAIN q.data
  /\ q.accounts.authority = Authority
  /\ q.accounts.config = ConfigPda
  /\ q.accounts.systemProgram = SystemProgram
  /\ q.data.platformFeeBps = FeeBps
  /\ q.data.emergencyAdmin = EmergencyAdmin
  /\ q.data.treasury = Treasury
  /\ q.data.tokenMint = UsdcMint

LEMMA InitializeOnWire ==
  ASSUME InitializeCall \in Calls
  PROVE  \E r : /\ Wire[InitializeCall] =
                     Instruction("initialize", InitializeAccounts, InitializeEncoder, r)
                /\ Wire[InitializeCall].accounts[3].address = SystemProgram
                /\ InitializeRead(Parse[InitializeCall])
<1> DEFINE c == InitializeCall
           in == c.in
<1>1. c \in Calls /\ c.name = "initialize"
  BY DEF InitializeCall
<1>2. /\ DOMAIN in = {"authority", "platformFeeBps", "emergencyAdmin", "treasury", "tokenMint"}
      /\ in.authority = Authority
      /\ in.platformFeeBps = FeeBps
      /\ in.emergencyAdmin = EmergencyAdmin
      /\ in.treasury = Treasury
      /\ in.tokenMint = UsdcMint
  BY DEF InitializeCall
<1> HIDE DEF c, in
<1>3. PICK r : /\ GetInstructionAsync("initialize", in) =
                    Instruction("initialize", InitializeAccounts, InitializeEncoder, r)
               /\ Keeps(r, in)
               /\ Given(r, in, "config", ConfigPda)
               /\ Given(r, in, "systemProgram", SystemProgram)
  BY <1>2, InitializeBuilt
<1>4. /\ r.authority = Authority
      /\ r.platformFeeBps = FeeBps
      /\ r.emergencyAdmin = EmergencyAdmin
      /\ r.treasury = Treasury
      /\ r.tokenMint = UsdcMint
  BY <1>2, <1>3 DEF Keeps
<1>5. r.config = ConfigPda
  BY <1>2, <1>3, <1>4 DEF Given
<1>6. r.systemProgram = SystemProgram
  BY <1>2, <1>3, <1>4, <1>5 DEF Given
<1>7. Wire[c] = Instruction("initialize", InitializeAccounts, InitializeEncoder, r)
  BY <1>1, <1>3, WireIs DEF in
<1>8. InitializeReads(Parse[c], r)
  BY <1>1, <1>4, <1>7, WireIs, InitializeIsRead
<1>9. InitializeRead(Parse[c])
  BY <1>4, <1>5, <1>6, <1>8 DEF InitializeRead, InitializeReads, Reads
<1>10. Wire[c].accounts[3].address = r.systemProgram
  <2>1. 3 \in DOMAIN InitializeAccounts /\ InitializeAccounts[3].name = "systemProgram"
    BY DEF InitializeAccounts, SignerW, Writable, Readonly
  <2> QED BY <1>7, <2>1 DEF Instruction
<1> QED BY <1>4, <1>5, <1>6, <1>7, <1>9, <1>10 DEF c

PauseRead(q, p) ==
  /\ q.instructionType = "setPaused"
  /\ {"emergencyAdmin", "config"} \subseteq DOMAIN q.accounts
  /\ {"paused"} \subseteq DOMAIN q.data
  /\ q.accounts.emergencyAdmin = EmergencyAdmin
  /\ q.accounts.config = ConfigPda
  /\ q.data.paused = p

LEMMA PauseOnWire ==
  ASSUME NEW p, PauseCall(p) \in Calls
  PROVE  \E r : /\ Wire[PauseCall(p)] =
                     Instruction("setPaused", SetPausedAccounts, SetPausedEncoder, r)
                /\ Len(Wire[PauseCall(p)].accounts) = 2
                /\ PauseRead(Parse[PauseCall(p)], p)
<1> DEFINE c == PauseCall(p)
           in == c.in
<1>1. c \in Calls /\ c.name = "setPaused"
  BY DEF PauseCall
<1>2. /\ DOMAIN in = {"emergencyAdmin", "paused"}
      /\ in.emergencyAdmin = EmergencyAdmin
      /\ in.paused = p
  BY DEF PauseCall
<1> HIDE DEF c, in
<1>3. PICK r : /\ GetInstructionAsync("setPaused", in) =
                    Instruction("setPaused", SetPausedAccounts, SetPausedEncoder, r)
               /\ Keeps(r, in)
               /\ Given(r, in, "config", ConfigPda)
  BY <1>2, SetPausedBuilt
<1>4. /\ r.emergencyAdmin = EmergencyAdmin
      /\ r.paused = p
  BY <1>2, <1>3 DEF Keeps
<1>5. r.config = ConfigPda
  BY <1>2, <1>3, <1>4 DEF Given
<1>6. Wire[c] = Instruction("setPaused", SetPausedAccounts, SetPausedEncoder, r)
  BY <1>1, <1>3, WireIs DEF in
<1>7. SetPausedReads(Parse[c], r)
  BY <1>1, <1>4, <1>6, WireIs, SetPausedIsRead
<1>8. PauseRead(Parse[c], p)
  BY <1>4, <1>5, <1>7 DEF PauseRead, SetPausedReads, Reads
<1>9. Len(Wire[c].accounts) = 2
  <2>1. DOMAIN SetPausedAccounts = 1..2
    BY DEF SetPausedAccounts
  <2>2. DOMAIN Wire[c].accounts = 1..2 /\ Wire[c].accounts = [k \in 1..2 |-> Wire[c].accounts[k]]
    BY <1>6, <2>1 DEF Instruction
  <2> QED BY <2>2
<1> QED BY <1>4, <1>5, <1>6, <1>8, <1>9 DEF c

AsBuilt(c) ==
  LET p == Parse[c]
  IN  /\ p.instructionType = c.name
      /\ \A n \in DOMAIN c.in :
           \/ n \in DOMAIN p.data /\ p.data[n] = c.in[n]
           \/ n \in DOMAIN p.accounts /\ p.accounts[n] = c.in[n]

LEMMA AllAsBuilt == \A c \in Calls : AsBuilt(c)
<1>1. ASSUME NEW w, NEW j, CreateCall(w, j) \in Calls PROVE AsBuilt(CreateCall(w, j))
  <2> DEFINE c == CreateCall(w, j)
             in == c.in
             q == Parse[c]
  <2>1. CreateRead(q, w, j)
    BY <1>1, CreateOnWire
  <2>2. c.name = "createEscrow"
    BY DEF CreateCall
  <2>3. /\ DOMAIN in = {"client", "tokenMint", "jobId", "jobType", "amount", "expiry"}
        /\ in.client = w
        /\ in.tokenMint = UsdcMint
        /\ in.jobId = j
        /\ in.jobType = "Bounty"
        /\ in.amount = Prize
        /\ in.expiry = MaxTime + 1
    BY DEF CreateCall
  <2> HIDE DEF c, in, q
  <2>4. \A n \in DOMAIN in : \/ n \in DOMAIN q.data /\ q.data[n] = in[n]
                             \/ n \in DOMAIN q.accounts /\ q.accounts[n] = in[n]
    <3> DEFINE Match(n) == \/ n \in DOMAIN q.data /\ q.data[n] = in[n]
                           \/ n \in DOMAIN q.accounts /\ q.accounts[n] = in[n]
    <3>1. Match("client")
      BY <2>1, <2>3 DEF CreateRead
    <3>2. Match("tokenMint")
      BY <2>1, <2>3 DEF CreateRead
    <3>3. Match("jobId")
      BY <2>1, <2>3 DEF CreateRead
    <3>4. Match("jobType")
      BY <2>1, <2>3 DEF CreateRead
    <3>5. Match("amount")
      BY <2>1, <2>3 DEF CreateRead
    <3>6. Match("expiry")
      BY <2>1, <2>3 DEF CreateRead
    <3> HIDE DEF Match
    <3>7. \A n \in DOMAIN in : Match(n)
      BY <2>3, <3>1, <3>2, <3>3, <3>4, <3>5, <3>6
    <3> QED BY <3>7 DEF Match
  <2>5. q.instructionType = c.name
    BY <2>1, <2>2 DEF CreateRead
  <2> QED BY <2>4, <2>5 DEF AsBuilt, c, in, q
<1>2. ASSUME NEW w, NEW j, NEW to, NEW t, SettleCall(w, j, to, t) \in Calls
      PROVE  AsBuilt(SettleCall(w, j, to, t))
  <2> DEFINE c == SettleCall(w, j, to, t)
             in == c.in
             q == Parse[c]
  <2>1. SettleRead(q, w, j, to, t)
    BY <1>2, SettleOnWire
  <2>2. c.name = "settleEscrow"
    BY DEF SettleCall
  <2>3. /\ DOMAIN in = {"client", "jobId", "tokenMint", "recipientTokenAccount",
            "treasuryTokenAccount"}
        /\ in.client = w
        /\ in.jobId = j
        /\ in.tokenMint = UsdcMint
        /\ in.recipientTokenAccount = to
        /\ in.treasuryTokenAccount = t
    BY DEF SettleCall
  <2> HIDE DEF c, in, q
  <2>4. \A n \in DOMAIN in : \/ n \in DOMAIN q.data /\ q.data[n] = in[n]
                             \/ n \in DOMAIN q.accounts /\ q.accounts[n] = in[n]
    <3> DEFINE Match(n) == \/ n \in DOMAIN q.data /\ q.data[n] = in[n]
                           \/ n \in DOMAIN q.accounts /\ q.accounts[n] = in[n]
    <3>1. Match("client")
      BY <2>1, <2>3 DEF SettleRead
    <3>2. Match("jobId")
      BY <2>1, <2>3 DEF SettleRead
    <3>3. Match("tokenMint")
      BY <2>1, <2>3 DEF SettleRead
    <3>4. Match("recipientTokenAccount")
      BY <2>1, <2>3 DEF SettleRead
    <3>5. Match("treasuryTokenAccount")
      BY <2>1, <2>3 DEF SettleRead
    <3> HIDE DEF Match
    <3>6. \A n \in DOMAIN in : Match(n)
      BY <2>3, <3>1, <3>2, <3>3, <3>4, <3>5
    <3> QED BY <3>6 DEF Match
  <2>5. q.instructionType = c.name
    BY <2>1, <2>2 DEF SettleRead
  <2> QED BY <2>4, <2>5 DEF AsBuilt, c, in, q
<1>3. ASSUME NEW j, NEW f, NEW o, UpdateCall(j, f, o) \in Calls PROVE AsBuilt(UpdateCall(j, f, o))
  <2> DEFINE c == UpdateCall(j, f, o)
             in == c.in
             q == Parse[c]
  <2>1. UpdateRead(q, j, f, o)
    BY <1>3, UpdateOnWire
  <2>2. c.name = "updateEscrow"
    BY DEF UpdateCall
  <2>3. /\ DOMAIN in = {"authority", "client", "jobId", "fulfilled", "agentOwner"}
        /\ in.authority = Authority
        /\ in.client = Client
        /\ in.jobId = j
        /\ in.fulfilled = f
        /\ in.agentOwner = o
    BY DEF UpdateCall
  <2> HIDE DEF c, in, q
  <2>4. \A n \in DOMAIN in : \/ n \in DOMAIN q.data /\ q.data[n] = in[n]
                             \/ n \in DOMAIN q.accounts /\ q.accounts[n] = in[n]
    <3> DEFINE Match(n) == \/ n \in DOMAIN q.data /\ q.data[n] = in[n]
                           \/ n \in DOMAIN q.accounts /\ q.accounts[n] = in[n]
    <3>1. Match("authority")
      BY <2>1, <2>3 DEF UpdateRead
    <3>2. Match("client")
      BY <2>1, <2>3 DEF UpdateRead
    <3>3. Match("jobId")
      BY <2>1, <2>3 DEF UpdateRead
    <3>4. Match("fulfilled")
      BY <2>1, <2>3 DEF UpdateRead
    <3>5. Match("agentOwner")
      BY <2>1, <2>3 DEF UpdateRead
    <3> HIDE DEF Match
    <3>6. \A n \in DOMAIN in : Match(n)
      BY <2>3, <3>1, <3>2, <3>3, <3>4, <3>5
    <3> QED BY <3>6 DEF Match
  <2>5. q.instructionType = c.name
    BY <2>1, <2>2 DEF UpdateRead
  <2> QED BY <2>4, <2>5 DEF AsBuilt, c, in, q
<1>4. ASSUME NEW j, DisputeCall(j) \in Calls PROVE AsBuilt(DisputeCall(j))
  <2> DEFINE c == DisputeCall(j)
             in == c.in
             q == Parse[c]
  <2>1. DisputeRead(q, j)
    BY <1>4, DisputeOnWire
  <2>2. c.name = "markDisputed"
    BY DEF DisputeCall
  <2>3. /\ DOMAIN in = {"client", "jobId"}
        /\ in.client = Client
        /\ in.jobId = j
    BY DEF DisputeCall
  <2> HIDE DEF c, in, q
  <2>4. \A n \in DOMAIN in : \/ n \in DOMAIN q.data /\ q.data[n] = in[n]
                             \/ n \in DOMAIN q.accounts /\ q.accounts[n] = in[n]
    <3> DEFINE Match(n) == \/ n \in DOMAIN q.data /\ q.data[n] = in[n]
                           \/ n \in DOMAIN q.accounts /\ q.accounts[n] = in[n]
    <3>1. Match("client")
      BY <2>1, <2>3 DEF DisputeRead
    <3>2. Match("jobId")
      BY <2>1, <2>3 DEF DisputeRead
    <3> HIDE DEF Match
    <3>3. \A n \in DOMAIN in : Match(n)
      BY <2>3, <3>1, <3>2
    <3> QED BY <3>3 DEF Match
  <2>5. q.instructionType = c.name
    BY <2>1, <2>2 DEF DisputeRead
  <2> QED BY <2>4, <2>5 DEF AsBuilt, c, in, q
<1>5. ASSUME NEW j, ResolveCall(j) \in Calls PROVE AsBuilt(ResolveCall(j))
  <2> DEFINE c == ResolveCall(j)
             in == c.in
             q == Parse[c]
  <2>1. ResolveRead(q, j)
    BY <1>5, ResolveOnWire
  <2>2. c.name = "resolveDispute"
    BY DEF ResolveCall
  <2>3. /\ DOMAIN in = {"authority", "client", "jobId", "tokenMint"}
        /\ in.authority = Authority
        /\ in.client = Client
        /\ in.jobId = j
        /\ in.tokenMint = UsdcMint
    BY DEF ResolveCall
  <2> HIDE DEF c, in, q
  <2>4. \A n \in DOMAIN in : \/ n \in DOMAIN q.data /\ q.data[n] = in[n]
                             \/ n \in DOMAIN q.accounts /\ q.accounts[n] = in[n]
    <3> DEFINE Match(n) == \/ n \in DOMAIN q.data /\ q.data[n] = in[n]
                           \/ n \in DOMAIN q.accounts /\ q.accounts[n] = in[n]
    <3>1. Match("authority")
      BY <2>1, <2>3 DEF ResolveRead
    <3>2. Match("client")
      BY <2>1, <2>3 DEF ResolveRead
    <3>3. Match("jobId")
      BY <2>1, <2>3 DEF ResolveRead
    <3>4. Match("tokenMint")
      BY <2>1, <2>3 DEF ResolveRead
    <3> HIDE DEF Match
    <3>5. \A n \in DOMAIN in : Match(n)
      BY <2>3, <3>1, <3>2, <3>3, <3>4
    <3> QED BY <3>5 DEF Match
  <2>5. q.instructionType = c.name
    BY <2>1, <2>2 DEF ResolveRead
  <2> QED BY <2>4, <2>5 DEF AsBuilt, c, in, q
<1>6. ASSUME InitializeCall \in Calls PROVE AsBuilt(InitializeCall)
  <2> DEFINE c == InitializeCall
             in == c.in
             q == Parse[c]
  <2>1. InitializeRead(q)
    BY <1>6, InitializeOnWire
  <2>2. c.name = "initialize"
    BY DEF InitializeCall
  <2>3. /\ DOMAIN in = {"authority", "platformFeeBps", "emergencyAdmin", "treasury", "tokenMint"}
        /\ in.authority = Authority
        /\ in.platformFeeBps = FeeBps
        /\ in.emergencyAdmin = EmergencyAdmin
        /\ in.treasury = Treasury
        /\ in.tokenMint = UsdcMint
    BY DEF InitializeCall
  <2> HIDE DEF c, in, q
  <2>4. \A n \in DOMAIN in : \/ n \in DOMAIN q.data /\ q.data[n] = in[n]
                             \/ n \in DOMAIN q.accounts /\ q.accounts[n] = in[n]
    <3> DEFINE Match(n) == \/ n \in DOMAIN q.data /\ q.data[n] = in[n]
                           \/ n \in DOMAIN q.accounts /\ q.accounts[n] = in[n]
    <3>1. Match("authority")
      BY <2>1, <2>3 DEF InitializeRead
    <3>2. Match("platformFeeBps")
      BY <2>1, <2>3 DEF InitializeRead
    <3>3. Match("emergencyAdmin")
      BY <2>1, <2>3 DEF InitializeRead
    <3>4. Match("treasury")
      BY <2>1, <2>3 DEF InitializeRead
    <3>5. Match("tokenMint")
      BY <2>1, <2>3 DEF InitializeRead
    <3> HIDE DEF Match
    <3>6. \A n \in DOMAIN in : Match(n)
      BY <2>3, <3>1, <3>2, <3>3, <3>4, <3>5
    <3> QED BY <3>6 DEF Match
  <2>5. q.instructionType = c.name
    BY <2>1, <2>2 DEF InitializeRead
  <2> QED BY <2>4, <2>5 DEF AsBuilt, c, in, q
<1>7. ASSUME NEW p, PauseCall(p) \in Calls PROVE AsBuilt(PauseCall(p))
  <2> DEFINE c == PauseCall(p)
             in == c.in
             q == Parse[c]
  <2>1. PauseRead(q, p)
    BY <1>7, PauseOnWire
  <2>2. c.name = "setPaused"
    BY DEF PauseCall
  <2>3. /\ DOMAIN in = {"emergencyAdmin", "paused"}
        /\ in.emergencyAdmin = EmergencyAdmin
        /\ in.paused = p
    BY DEF PauseCall
  <2> HIDE DEF c, in, q
  <2>4. \A n \in DOMAIN in : \/ n \in DOMAIN q.data /\ q.data[n] = in[n]
                             \/ n \in DOMAIN q.accounts /\ q.accounts[n] = in[n]
    <3> DEFINE Match(n) == \/ n \in DOMAIN q.data /\ q.data[n] = in[n]
                           \/ n \in DOMAIN q.accounts /\ q.accounts[n] = in[n]
    <3>1. Match("emergencyAdmin")
      BY <2>1, <2>3 DEF PauseRead
    <3>2. Match("paused")
      BY <2>1, <2>3 DEF PauseRead
    <3> HIDE DEF Match
    <3>3. \A n \in DOMAIN in : Match(n)
      BY <2>3, <3>1, <3>2
    <3> QED BY <3>3 DEF Match
  <2>5. q.instructionType = c.name
    BY <2>1, <2>2 DEF PauseRead
  <2> QED BY <2>4, <2>5 DEF AsBuilt, c, in, q
<1> QED BY <1>1, <1>2, <1>3, <1>4, <1>5, <1>6, <1>7, CallsAre

\* What the generated client builds for any call of the server, or of another, its own
\* parser reads back: the instruction, its arguments and its accounts by name.
THEOREM BuiltIsParsed == Spec => []ParsedAsBuilt
<1>1. Timed => ParsedAsBuilt
  <2>1. Timed => inFlight \cup OtherCalls \subseteq Calls
    BY DEF Timed, Calls
  <2>2. inFlight \cup OtherCalls \subseteq Calls => ParsedAsBuilt
    BY AllAsBuilt DEF AsBuilt, ParsedAsBuilt
  <2> QED BY <2>1, <2>2
<1> QED BY <1>1, AlwaysTimed, PTL

-----------------------------------------------------------------------------
(* What the program holds *)

VaultAt(w, j) == EscrowVaultStatePda(w, j)

LEMMA AddressesDiffer ==
  \A u, w, i, j : VaultAt(u, i) = VaultAt(w, j) => u = w /\ i = j
<1> SUFFICES ASSUME NEW u, NEW w, NEW i, NEW j, VaultAt(u, i) = VaultAt(w, j)
             PROVE  u = w /\ i = j
  OBVIOUS
<1>1. \A p, s : Pda(p, s).seeds = s
  BY DEF Pda
<1>2. <<"escrow", u, i>> = <<"escrow", w, j>>
  BY <1>1 DEF VaultAt, EscrowVaultStatePda
<1> QED BY <1>2

\* The authority decides about the vaults of the server's client alone: the vault of
\* another wallet keeps its first status.
GoodVault(v, w, j) ==
  /\ v \in [jobId : {j}, client : {w}, jobStatus : {"Active", "Fulfilled", "UnFulfilled"},
            agentOwner : Owners \cup {NoOwner},
            state : {"Funded", "Released", "Refunded", "Disputed"}]
  /\ w # Client => v.jobStatus = "Active"

ChainHolds ==
  \A a \in DOMAIN vaults :
    \E w \in Wallets, j \in Jobs : a = VaultAt(w, j) /\ GoodVault(vaults[a], w, j)

LEMMA HeldVault ==
  ASSUME ChainHolds, NEW w, NEW j, VaultAt(w, j) \in DOMAIN vaults
  PROVE  GoodVault(vaults[VaultAt(w, j)], w, j)
<1>1. PICK u \in Wallets, i \in Jobs :
        VaultAt(w, j) = VaultAt(u, i) /\ GoodVault(vaults[VaultAt(w, j)], u, i)
  BY DEF ChainHolds
<1>2. u = w /\ i = j
  BY <1>1, AddressesDiffer
<1> QED BY <1>1, <1>2

LEMMA UpdatedIsGood ==
  ASSUME NEW j, NEW v, GoodVault(v, Client, j), NEW g \in Owners \cup {Client}
  PROVE  GoodVault(Updated(v, g), Client, j)
<1>1. CASE g = Client
  BY <1>1 DEF Updated, GoodVault
<1>2. CASE g # Client
  BY <1>2 DEF Updated, GoodVault
<1> QED BY <1>1, <1>2

LEMMA ClosedIsGood ==
  ASSUME NEW w, NEW j, NEW v, GoodVault(v, w, j)
  PROVE  /\ GoodVault(Settled(v), w, j) /\ IsSettled(Settled(v))
         /\ \A s \in {"Disputed", "Refunded"} : GoodVault([v EXCEPT !.state = s], w, j)
<1>1. ASSUME NEW s \in {"Disputed", "Refunded", "Released"}
      PROVE  GoodVault([v EXCEPT !.state = s], w, j) /\ [v EXCEPT !.state = s].state = s
  BY DEF GoodVault
<1>2. Settled(v) = [v EXCEPT !.state =
                      IF v.jobStatus = "Fulfilled" THEN "Released" ELSE "Refunded"]
  BY DEF Settled
<1> QED BY <1>1, <1>2 DEF IsSettled

\* The account of a vault set, which was not settled.
PutVault(vs, a, new) == [x \in DOMAIN vs \cup {a} |-> IF x = a THEN new ELSE vs[x]]

Puts(w, j, new) ==
  /\ GoodVault(new, w, j)
  /\ VaultAt(w, j) \in DOMAIN vaults => ~ IsSettled(vaults[VaultAt(w, j)])
  /\ vaults' = PutVault(vaults, VaultAt(w, j), new)

ChainStep ==
  \/ vaults' = vaults
  \/ \E w \in Wallets, j \in Jobs : \E new : Puts(w, j, new)

-----------------------------------------------------------------------------
(* What an accepted call does *)

LEMMA CreateEffect ==
  ASSUME NEW w, NEW j, CreateCall(w, j) \in Calls,
         Accepts(CreateCall(w, j)), Execute(CreateCall(w, j))
  PROVE  \E new : Puts(w, j, new)
<1> DEFINE q == Parse[CreateCall(w, j)]
           new == NewVault(q.accounts, q.data)
<1>1. CreateRead(q, w, j)
  BY CreateOnWire
<1>2. CreateAccountsHold(q.accounts, q.data)
  BY <1>1 DEF Accepts, CreateRead
<1>3. vaults' = PutVault(vaults, q.accounts.escrowVaultState, new)
  BY <1>1 DEF Execute, CreateRead, PutVault
<1> HIDE DEF q
<1>4. q.accounts.escrowVaultState = VaultAt(w, j) /\ q.accounts.client = w /\ q.data.jobId = j
  BY <1>1 DEF CreateRead, VaultAt
<1>5. GoodVault(new, w, j)
  BY <1>4 DEF NewVault, GoodVault
<1>6. VaultAt(w, j) \notin DOMAIN vaults
  BY <1>2, <1>4 DEF CreateAccountsHold
<1> HIDE DEF new
<1> QED BY <1>3, <1>4, <1>5, <1>6 DEF Puts

\* Only what the authority has decided is paid out.
LEMMA SettleEffect ==
  ASSUME ChainHolds, NEW w, NEW j, NEW to, NEW t, SettleCall(w, j, to, t) \in Calls,
         Accepts(SettleCall(w, j, to, t)), Execute(SettleCall(w, j, to, t))
  PROVE  w = Client /\ \E new : Puts(w, j, new) /\ IsSettled(new)
<1> DEFINE q == Parse[SettleCall(w, j, to, t)]
           v == vaults[q.accounts.escrowVaultState]
           new == Settled(v)
<1>1. SettleRead(q, w, j, to, t)
  BY SettleOnWire
<1>2. VaultHolds(q.accounts, q.data) /\ v.state = "Funded" /\ v.jobStatus # "Active"
  BY <1>1 DEF Accepts, SettleRead
<1>3. vaults' = PutVault(vaults, q.accounts.escrowVaultState, new)
  BY <1>1 DEF Execute, SettleRead, PutVault
<1> HIDE DEF q
<1>4. q.accounts.escrowVaultState = VaultAt(w, j)
  BY <1>1 DEF SettleRead, VaultAt
<1>5. VaultAt(w, j) \in DOMAIN vaults
  BY <1>2, <1>4 DEF VaultHolds
<1>6. GoodVault(v, w, j)
  BY <1>4, <1>5, HeldVault
<1>7. v = vaults[VaultAt(w, j)]
  BY <1>4
<1> HIDE DEF v
<1>8. w = Client /\ ~ IsSettled(v)
  BY <1>2, <1>6 DEF GoodVault, IsSettled
<1>9. GoodVault(new, w, j) /\ IsSettled(new)
  BY <1>6, ClosedIsGood
<1> HIDE DEF new
<1> QED BY <1>3, <1>4, <1>7, <1>8, <1>9 DEF Puts

LEMMA UpdateEffect ==
  ASSUME ChainHolds, NEW j, NEW f \in BOOLEAN, NEW o, f => o \in Owners,
         UpdateCall(j, f, o) \in Calls,
         Accepts(UpdateCall(j, f, o)), Execute(UpdateCall(j, f, o))
  PROVE  \E new : Puts(Client, j, new)
<1> DEFINE q == Parse[UpdateCall(j, f, o)]
           v == vaults[q.accounts.escrowVaultState]
           g == IF q.data.fulfilled THEN q.data.agentOwner ELSE Client
           new == Updated(v, g)
<1>1. UpdateRead(q, j, f, o)
  BY UpdateOnWire
<1>2. VaultHolds(q.accounts, q.data) /\ UpdateAccepted(v)
  BY <1>1 DEF Accepts, UpdateRead
<1>3. vaults' = PutVault(vaults, q.accounts.escrowVaultState, new)
  BY <1>1 DEF Execute, UpdateRead, PutVault
<1> HIDE DEF q
<1>4. q.accounts.escrowVaultState = VaultAt(Client, j) /\ g \in Owners \cup {Client}
  BY <1>1 DEF UpdateRead, VaultAt
<1>5. VaultAt(Client, j) \in DOMAIN vaults
  BY <1>2, <1>4 DEF VaultHolds
<1>6. GoodVault(v, Client, j)
  BY <1>4, <1>5, HeldVault
<1>7. v = vaults[VaultAt(Client, j)]
  BY <1>4
<1> HIDE DEF v, g
<1>8. ~ IsSettled(v)
  BY <1>2 DEF UpdateAccepted, IsSettled
<1>9. GoodVault(new, Client, j)
  BY <1>4, <1>6, UpdatedIsGood
<1> HIDE DEF new
<1> QED BY <1>3, <1>4, <1>7, <1>8, <1>9 DEF Puts

LEMMA DisputeEffect ==
  ASSUME ChainHolds, NEW j, DisputeCall(j) \in Calls,
         Accepts(DisputeCall(j)), Execute(DisputeCall(j))
  PROVE  \E new : Puts(Client, j, new)
<1> DEFINE q == Parse[DisputeCall(j)]
           v == vaults[q.accounts.escrowVaultState]
           new == [v EXCEPT !.state = "Disputed"]
<1>1. DisputeRead(q, j)
  BY DisputeOnWire
<1>2. VaultHolds(q.accounts, q.data) /\ v.state = "Funded"
  BY <1>1 DEF Accepts, DisputeRead
<1>3. vaults' = PutVault(vaults, q.accounts.escrowVaultState, new)
  BY <1>1 DEF Execute, DisputeRead, PutVault
<1> HIDE DEF q
<1>4. q.accounts.escrowVaultState = VaultAt(Client, j)
  BY <1>1 DEF DisputeRead, VaultAt
<1>5. VaultAt(Client, j) \in DOMAIN vaults
  BY <1>2, <1>4 DEF VaultHolds
<1>6. GoodVault(v, Client, j)
  BY <1>4, <1>5, HeldVault
<1>7. v = vaults[VaultAt(Client, j)]
  BY <1>4
<1> HIDE DEF v
<1>8. ~ IsSettled(v)
  BY <1>2 DEF IsSettled
<1>9. GoodVault(new, Client, j)
  BY <1>6, ClosedIsGood
<1> HIDE DEF new
<1> QED BY <1>3, <1>4, <1>7, <1>8, <1>9 DEF Puts

LEMMA ResolveEffect ==
  ASSUME ChainHolds, NEW j, ResolveCall(j) \in Calls,
         Accepts(ResolveCall(j)), Execute(ResolveCall(j))
  PROVE  \E new : Puts(Client, j, new)
<1> DEFINE q == Parse[ResolveCall(j)]
           v == vaults[q.accounts.escrowVaultState]
           new == [v EXCEPT !.state = "Refunded"]
<1>1. ResolveRead(q, j)
  BY ResolveOnWire
<1>2. VaultHolds(q.accounts, q.data) /\ v.state = "Disputed"
  BY <1>1 DEF Accepts, ResolveRead
<1>3. vaults' = PutVault(vaults, q.accounts.escrowVaultState, new)
  BY <1>1 DEF Execute, ResolveRead, PutVault
<1> HIDE DEF q
<1>4. q.accounts.escrowVaultState = VaultAt(Client, j)
  BY <1>1 DEF ResolveRead, VaultAt
<1>5. VaultAt(Client, j) \in DOMAIN vaults
  BY <1>2, <1>4 DEF VaultHolds
<1>6. GoodVault(v, Client, j)
  BY <1>4, <1>5, HeldVault
<1>7. v = vaults[VaultAt(Client, j)]
  BY <1>4
<1> HIDE DEF v
<1>8. ~ IsSettled(v)
  BY <1>2 DEF IsSettled
<1>9. GoodVault(new, Client, j)
  BY <1>6, ClosedIsGood
<1> HIDE DEF new
<1> QED BY <1>3, <1>4, <1>7, <1>8, <1>9 DEF Puts

\* What a call leaves on the chain for good.
Left(c) ==
  /\ c.name = "createEscrow" => VaultAt(c.in.client, c.in.jobId) \in DOMAIN vaults
  /\ c.name = "settleEscrow" => /\ VaultAt(Client, c.in.jobId) \in DOMAIN vaults
                                /\ IsSettled(vaults[VaultAt(Client, c.in.jobId)])

LEMMA CallEffect ==
  ASSUME ChainHolds, NEW c \in Calls, Accepts(c), Execute(c)
  PROVE  ChainStep /\ Left(c)'
<1>1. ASSUME NEW w \in Wallets, NEW j \in Jobs, c = CreateCall(w, j) PROVE ChainStep /\ Left(c)'
  <2>1. PICK new : Puts(w, j, new)
    BY <1>1, CreateEffect
  <2>2. VaultAt(w, j) \in DOMAIN vaults'
    BY <2>1 DEF Puts, PutVault
  <2>3. c.name = "createEscrow" /\ c.in.client = w /\ c.in.jobId = j
    BY <1>1 DEF CreateCall
  <2> QED BY <2>1, <2>2, <2>3 DEF ChainStep, Left
<1>2. ASSUME NEW w \in Wallets, NEW j \in Jobs, NEW to, NEW t, c = SettleCall(w, j, to, t)
      PROVE  ChainStep /\ Left(c)'
  <2>1. w = Client
    BY <1>2, SettleEffect
  <2>2. PICK new : Puts(w, j, new) /\ IsSettled(new)
    BY <1>2, SettleEffect
  <2>3. VaultAt(w, j) \in DOMAIN vaults' /\ vaults'[VaultAt(w, j)] = new
    BY <2>2 DEF Puts, PutVault
  <2>4. c.name = "settleEscrow" /\ c.in.jobId = j
    BY <1>2 DEF SettleCall
  <2> QED BY <2>1, <2>2, <2>3, <2>4 DEF ChainStep, Left
<1>3. Client \in Wallets
  BY DEF Wallets
<1>4. ASSUME NEW j \in Jobs, NEW f \in BOOLEAN, NEW o, c = UpdateCall(j, f, o), f => o \in Owners
      PROVE  ChainStep /\ Left(c)'
  <2>1. \E new : Puts(Client, j, new)
    BY <1>4, UpdateEffect
  <2>2. c.name = "updateEscrow"
    BY <1>4 DEF UpdateCall
  <2> QED BY <1>3, <2>1, <2>2 DEF ChainStep, Left
<1>5. ASSUME NEW j \in Jobs, c = DisputeCall(j) PROVE ChainStep /\ Left(c)'
  <2>1. \E new : Puts(Client, j, new)
    BY <1>5, DisputeEffect
  <2>2. c.name = "markDisputed"
    BY <1>5 DEF DisputeCall
  <2> QED BY <1>3, <2>1, <2>2 DEF ChainStep, Left
<1>6. ASSUME NEW j \in Jobs, c = ResolveCall(j) PROVE ChainStep /\ Left(c)'
  <2>1. \E new : Puts(Client, j, new)
    BY <1>6, ResolveEffect
  <2>2. c.name = "resolveDispute"
    BY <1>6 DEF ResolveCall
  <2> QED BY <1>3, <2>1, <2>2 DEF ChainStep, Left
<1>7. ASSUME c = InitializeCall PROVE ChainStep /\ Left(c)'
  <2>1. vaults' = vaults
    BY <1>7, InitializeOnWire DEF Execute, InitializeRead
  <2>2. c.name = "initialize"
    BY <1>7 DEF InitializeCall
  <2> QED BY <2>1, <2>2 DEF ChainStep, Left
<1>8. ASSUME NEW p \in BOOLEAN, c = PauseCall(p) PROVE ChainStep /\ Left(c)'
  <2>1. vaults' = vaults
    BY <1>8, PauseOnWire DEF Execute, PauseRead
  <2>2. c.name = "setPaused"
    BY <1>8 DEF PauseCall
  <2> QED BY <2>1, <2>2 DEF ChainStep, Left
<1> QED BY <1>1, <1>2, <1>4, <1>5, <1>6, <1>7, <1>8, CallsAre

LEMMA ChainSteps ==
  ASSUME Timed, ChainHolds, [Next]_vars
  PROVE  \/ UNCHANGED <<vaults, landed>>
         \/ /\ ChainStep
            /\ \E tx \in Transactions : landed' = landed \cup {tx} /\ Left(tx.call)'
            /\ UNCHANGED rows
<1> DEFINE Idle == UNCHANGED <<vaults, landed>>
           Moved == /\ ChainStep
                    /\ \E tx \in Transactions : landed' = landed \cup {tx} /\ Left(tx.call)'
                    /\ UNCHANGED rows
<1>1. ASSUME Tick PROVE Idle
  BY <1>1 DEF Tick, chain
<1>2. ASSUME NEW c \in ServerCalls, BuildFromCache(c) \/ FetchBlockhash(c) PROVE Idle
  BY <1>2 DEF BuildFromCache, FetchBlockhash, Emit, chain
<1>3. ASSUME NEW f \in fetching, RpcAnswers(f) \/ FetchReturns(f) \/ BuildFails(f) PROVE Idle
  BY <1>3 DEF RpcAnswers, FetchReturns, BuildFails, Emit, chain
<1>4. ASSUME NEW c \in inFlight, TransactionExpires(c) PROVE Idle
  BY <1>4 DEF TransactionExpires, chain
<1>5. ASSUME NEW c \in Calls, NEW p \in BOOLEAN, Lands([call |-> c, prefixed |-> p]) PROVE Moved
  <2> DEFINE tx == [call |-> c, prefixed |-> p]
  <2>1. tx \in Transactions /\ tx.call = c
    BY DEF Transactions
  <2>2. Accepts(c) /\ Execute(c)
    BY <1>5 DEF Lands
  <2>3. ChainStep /\ Left(c)'
    BY <2>2, CallEffect
  <2>4. landed' = landed \cup {tx} /\ UNCHANGED rows
    BY <1>5 DEF Lands
  <2> HIDE DEF tx
  <2> QED BY <2>1, <2>3, <2>4
<1>6. ASSUME NEW c \in inFlight, NEW p \in BOOLEAN, TransactionLands(c, p) PROVE Moved
  <2>1. c \in Calls
    BY DEF Timed, Calls
  <2> QED BY <1>5, <1>6, <2>1 DEF TransactionLands
<1>7. ASSUME NEW c \in OtherCalls, OtherLands(c) PROVE Moved
  <2>1. c \in Calls
    BY DEF Calls
  <2> QED BY <1>5, <1>7, <2>1 DEF OtherLands
<1>8. ASSUME NEW tx \in landed, NEW k, Route(tx, k) PROVE Idle
  BY <1>8 DEF Route, chain
<1>9. ASSUME NEW j \in Jobs, NEW tx \in landed, ConfirmEscrow(j, tx) PROVE Idle
  BY <1>9 DEF ConfirmEscrow, chain
<1>10. ASSUME UNCHANGED vars PROVE Idle
  BY <1>10 DEF vars, chain
<1> HIDE DEF Moved, Idle
<1>11. Idle \/ Moved
  BY <1>1, <1>2, <1>3, <1>4, <1>6, <1>7, <1>8, <1>9, <1>10 DEF Next
<1> QED BY <1>11 DEF Moved, Idle

LEMMA ChainStepHolds ==
  ASSUME ChainHolds, ChainStep
  PROVE  ChainHolds'
<1>1. CASE vaults' = vaults
  BY <1>1 DEF ChainHolds
<1>2. ASSUME NEW w \in Wallets, NEW j \in Jobs, NEW new, Puts(w, j, new) PROVE ChainHolds'
  <2> DEFINE at == VaultAt(w, j)
  <2>1. /\ DOMAIN vaults' = DOMAIN vaults \cup {at} /\ vaults'[at] = new
        /\ \A a \in DOMAIN vaults : a # at => vaults'[a] = vaults[a]
    BY <1>2 DEF Puts, PutVault
  <2> SUFFICES ASSUME NEW a \in DOMAIN vaults'
               PROVE  \E u \in Wallets, i \in Jobs :
                        a = VaultAt(u, i) /\ GoodVault(vaults'[a], u, i)
    BY DEF ChainHolds
  <2>2. CASE a = at
    BY <1>2, <2>1, <2>2 DEF Puts
  <2>3. CASE a # at
    <3>1. a \in DOMAIN vaults /\ vaults'[a] = vaults[a]
      BY <2>1, <2>3
    <3> QED BY <3>1 DEF ChainHolds
  <2> QED BY <2>2, <2>3
<1> QED BY <1>1, <1>2 DEF ChainStep

\* A vault stays, and one that is settled stays as it is.
LEMMA VaultsLast ==
  ASSUME ChainStep, NEW a \in DOMAIN vaults
  PROVE  a \in DOMAIN vaults' /\ (IsSettled(vaults[a]) => vaults'[a] = vaults[a])
<1>1. ASSUME NEW w, NEW j, NEW new, Puts(w, j, new)
      PROVE  a \in DOMAIN vaults' /\ (IsSettled(vaults[a]) => vaults'[a] = vaults[a])
  <2> DEFINE at == VaultAt(w, j)
  <2>1. DOMAIN vaults' = DOMAIN vaults \cup {at} /\ (a # at => vaults'[a] = vaults[a])
    BY <1>1 DEF Puts, PutVault
  <2>2. a = at => ~ IsSettled(vaults[a])
    BY <1>1 DEF Puts
  <2> HIDE DEF at
  <2> QED BY <2>1, <2>2
<1> QED BY <1>1 DEF ChainStep

Chain == Timed /\ ChainHolds

LEMMA AlwaysChain == Spec => []Chain
<1>1. Init => ChainHolds
  BY DEF Init, ChainHolds
<1>2. Timed /\ ChainHolds /\ [Next]_vars => ChainHolds'
  <2> SUFFICES ASSUME Timed, ChainHolds, [Next]_vars PROVE ChainHolds'
    OBVIOUS
  <2>1. CASE vaults' = vaults
    BY <2>1 DEF ChainHolds
  <2> QED BY <2>1, ChainSteps, ChainStepHolds
<1> QED BY <1>1, <1>2, AlwaysTimed, PTL DEF Spec, Chain

-----------------------------------------------------------------------------
(* What the program takes of the server *)

\* Once the authority has decided, the program takes the settlement that the server built
\* for that decision, unless it is paused, exactly if the setting of the treasury token
\* account is right: on every other account buildSettleTx, buildRefundTx, deriveAta and
\* the program agree.
THEOREM SettlementTaken == Spec => []SettlementIsTaken
<1>1. Timed /\ ChainHolds => SettlementIsTaken
  <2> SUFFICES ASSUME Timed, ChainHolds, NEW call \in inFlight,
                      call.name = "settleEscrow",
                      VaultAt(Client, call.in.jobId) \in DOMAIN vaults,
                      vaults[VaultAt(Client, call.in.jobId)].state = "Funded",
                      vaults[VaultAt(Client, call.in.jobId)].jobStatus # "Active",
                      ~ config.paused,
                      call = IF vaults[VaultAt(Client, call.in.jobId)].jobStatus = "Fulfilled"
                               THEN BuildSettleTx(call.in.jobId,
                                      vaults[VaultAt(Client, call.in.jobId)].agentOwner,
                                      treasuryTokenAccount)
                               ELSE BuildRefundTx(call.in.jobId, treasuryTokenAccount)
               PROVE  Accepts(call) <=>
                        treasuryTokenAccount = AssociatedTokenPda(config.treasury, UsdcMint)
    BY DEF SettlementIsTaken, VaultAt
  <2> DEFINE v == vaults[VaultAt(Client, call.in.jobId)]
             q == Parse[call]
  <2>1. call \in ServerCalls
    BY DEF Timed
  <2>2. PICK j \in Jobs : \E to, t : call = SettleCall(Client, j, to, t)
    <3>1. \A i : CreateCall(Client, i).name = "createEscrow"
      BY DEF CreateCall
    <3>2. \A i, f, o : UpdateCall(i, f, o).name = "updateEscrow"
      BY DEF UpdateCall
    <3> QED BY <2>1, <3>1, <3>2, ServerCallsAre
  <2>3. PICK to, t : call = SettleCall(Client, j, to, t)
    BY <2>2
  <2>4. /\ call.in.jobId = j /\ call.in.recipientTokenAccount = to
        /\ call.in.treasuryTokenAccount = t
    BY <2>3 DEF SettleCall
  <2>5. /\ call.in.recipientTokenAccount = Payee(v)
        /\ call.in.treasuryTokenAccount = treasuryTokenAccount
    <3>1. CASE v.jobStatus = "Fulfilled"
      <4>1. call = BuildSettleTx(call.in.jobId, v.agentOwner, treasuryTokenAccount)
        BY <3>1
      <4>2. \A i, o, u : /\ BuildSettleTx(i, o, u).in.recipientTokenAccount = DeriveAta(o, UsdcMint)
                         /\ BuildSettleTx(i, o, u).in.treasuryTokenAccount = u
        BY DEF BuildSettleTx
      <4> HIDE DEF v
      <4>3. /\ call.in.recipientTokenAccount = DeriveAta(v.agentOwner, UsdcMint)
            /\ call.in.treasuryTokenAccount = treasuryTokenAccount
        BY <4>1, <4>2
      <4> QED BY <3>1, <4>3 DEF Payee, Grantee, DeriveAta, AssociatedTokenPda
    <3>2. CASE v.jobStatus # "Fulfilled"
      <4>1. call = BuildRefundTx(call.in.jobId, treasuryTokenAccount)
        BY <3>2
      <4>2. \A i, u : /\ BuildRefundTx(i, u).in.recipientTokenAccount = DeriveAta(Client, UsdcMint)
                      /\ BuildRefundTx(i, u).in.treasuryTokenAccount = u
        BY DEF BuildRefundTx
      <4> HIDE DEF v
      <4>3. /\ call.in.recipientTokenAccount = DeriveAta(Client, UsdcMint)
            /\ call.in.treasuryTokenAccount = treasuryTokenAccount
        BY <4>1, <4>2
      <4> QED BY <3>2, <4>3 DEF Payee, Grantee, DeriveAta, AssociatedTokenPda
    <3> QED BY <3>1, <3>2
  <2>6. SettleRead(q, Client, j, to, t)
    <3>1. call \in Calls
      BY <2>1 DEF Calls
    <3> QED BY <2>3, <3>1, SettleOnWire
  <2>7. VaultAt(Client, j) \in DOMAIN vaults /\ v = vaults[VaultAt(Client, j)]
    BY <2>4
  <2>8. config # NoConfig
    BY DEF NoConfig
  <2> HIDE DEF q
  <2>9. /\ q.instructionType = "settleEscrow"
        /\ q.accounts.config = ConfigPda /\ q.accounts.client = Client
        /\ q.accounts.escrowVaultState = VaultAt(Client, j) /\ q.data.jobId = j
        /\ q.accounts.escrowVault = EscrowVaultPda(VaultAt(Client, j))
        /\ q.accounts.recipientTokenAccount = to
        /\ q.accounts.tokenMint = UsdcMint
        /\ q.accounts.treasuryTokenAccount = t
    BY <2>6 DEF SettleRead, VaultAt
  <2>10. v = vaults[q.accounts.escrowVaultState]
    BY <2>7, <2>9
  <2>11. q.accounts.recipientTokenAccount = Payee(v)
    BY <2>4, <2>5, <2>9
  <2>12. v.state = "Funded" /\ v.jobStatus # "Active"
    OBVIOUS
  <2>13. VaultHolds(q.accounts, q.data)
    BY <2>7, <2>8, <2>9 DEF VaultHolds, VaultAt
  <2> HIDE DEF v
  <2>14. /\ q.accounts.treasuryTokenAccount = treasuryTokenAccount
         /\ q.accounts.escrowVault = EscrowVaultPda(q.accounts.escrowVaultState)
    BY <2>4, <2>5, <2>9
  <2> QED BY <2>9, <2>10, <2>11, <2>12, <2>13, <2>14 DEF Accepts, q
<1> QED BY <1>1, AlwaysChain, PTL DEF Chain

-----------------------------------------------------------------------------
(* What the webhook and the confirmation see of an instruction *)

\* The bytes that helius.service.ts reads, whatever the client calls them.
Named(ix, name) ==
  /\ name \in InstructionNames
  /\ ix.programAddress = Program /\ SubSeq(ix.data, 1, 8) = Discriminator[name]

Marked(ix, name, j) == Named(ix, name) /\ SubSeq(ix.data, 9, 24) = Bytes(j, 16)

LEMMA JobIdIsFirst ==
  CreateEscrowEncoder[1] = Fixed("jobId", 16) /\ SettleEscrowEncoder[1] = Fixed("jobId", 16)
  BY DEF CreateEscrowEncoder, SettleEscrowEncoder

LEMMA OnlyFixed ==
  ASSUME NEW r
  PROVE  /\ FitsAll(SettleEscrowEncoder, r) /\ FitsAll(UpdateEscrowEncoder, r)
         /\ FitsAll(MarkDisputedEncoder, r) /\ FitsAll(ResolveDisputeEncoder, r)
         /\ FitsAll(InitializeEncoder, r) /\ FitsAll(SetPausedEncoder, r)
         /\ r.jobType = "Bounty" => FitsAll(CreateEscrowEncoder, r)
<1>1. \A n, size : Fits(Fixed(n, size), r[n]) /\ Fixed(n, size).name = n
  BY DEF Fits, Fixed
<1>2. \A n, size : Fits(OptionOf(n, size), r[n]) /\ OptionOf(n, size).name = n
  BY DEF Fits, OptionOf
<1>3. /\ FitsAll(SettleEscrowEncoder, r) /\ FitsAll(MarkDisputedEncoder, r)
      /\ FitsAll(ResolveDisputeEncoder, r)
  BY <1>1 DEF FitsAll, SettleEscrowEncoder, MarkDisputedEncoder, ResolveDisputeEncoder
<1>4. FitsAll(UpdateEscrowEncoder, r)
  BY <1>1, <1>2 DEF FitsAll, UpdateEscrowEncoder
<1>5. FitsAll(InitializeEncoder, r) /\ FitsAll(SetPausedEncoder, r)
  BY <1>1 DEF FitsAll, InitializeEncoder, SetPausedEncoder
<1>6. r.jobType = "Bounty" => FitsAll(CreateEscrowEncoder, r)
  <2>1. Enum("jobType", JobType).name = "jobType"
    BY DEF Enum
  <2>2. r.jobType = "Bounty" => Fits(Enum("jobType", JobType), r["jobType"])
    BY DEF Fits, Enum, JobType
  <2> QED BY <1>1, <2>1, <2>2 DEF FitsAll, CreateEscrowEncoder
<1> QED BY <1>3, <1>4, <1>5, <1>6

LEMMA InstructionNamed ==
  ASSUME NEW name \in InstructionNames, NEW accounts, NEW encoder, IsLayout(encoder),
         NEW r, FitsAll(encoder, r), NEW ix, ix = Instruction(name, accounts, encoder, r)
  PROVE  /\ Named(ix, name)
         /\ encoder[1] = Fixed("jobId", 16) => Marked(ix, name, r.jobId)
<1> DEFINE d == Discriminator[name]
           data == ix.data
<1>1. IsDiscriminator(d)
  BY DiscriminatorsTyped
<1>2. data = Encode(d, encoder, r) /\ ix.programAddress = Program
  BY DEF Instruction
<1> HIDE DEF d, data
<1>3. IsRead(d, encoder, r, data)
  BY <1>1, <1>2, ReadBack
<1>4. encoder[1] = Fixed("jobId", 16) => Starts(data, d, r["jobId"])
  BY <1>1, <1>2, JobIdBehind
<1> QED BY <1>2, <1>3, <1>4 DEF Marked, Named, IsRead, Starts, d, data

\* Every instruction on the wire says which it is, and the two that the webhook knows carry
\* their job where the webhook looks for it.
LEMMA CallsNamed ==
  ASSUME NEW c \in Calls
  PROVE  /\ Named(Wire[c], c.name)
         /\ c.name \in {"createEscrow", "settleEscrow"} => Marked(Wire[c], c.name, c.in.jobId)
         /\ c.name = "createEscrow" =>
              Wire[c].accounts[3].address = VaultAt(c.in.client, c.in.jobId)
         /\ Len(Wire[c].accounts) >= 3 => Wire[c].accounts[3].address \in ThirdAccounts
<1> DEFINE Goal ==
      /\ Named(Wire[c], c.name)
      /\ c.name \in {"createEscrow", "settleEscrow"} => Marked(Wire[c], c.name, c.in.jobId)
      /\ c.name = "createEscrow" =>
           Wire[c].accounts[3].address = VaultAt(c.in.client, c.in.jobId)
      /\ Len(Wire[c].accounts) >= 3 => Wire[c].accounts[3].address \in ThirdAccounts
<1> USE DEF InstructionNames
<1>0. /\ \A w \in Wallets, j \in Jobs : EscrowVaultStatePda(w, j) \in ThirdAccounts
      /\ \A j \in Jobs : EscrowVaultStatePda(Client, j) \in ThirdAccounts
      /\ ConfigPda \in ThirdAccounts /\ SystemProgram \in ThirdAccounts
  BY DEF ThirdAccounts, VaultAddresses, Wallets
<1>1. ASSUME NEW w \in Wallets, NEW j \in Jobs, c = CreateCall(w, j) PROVE Goal
  <2>1. PICK r : /\ Wire[c] = Instruction("createEscrow", CreateEscrowAccounts,
                                           CreateEscrowEncoder, r)
                 /\ r.jobId = j /\ r.jobType = "Bounty"
                 /\ Wire[c].accounts[3].address = EscrowVaultStatePda(w, j)
    BY <1>1, CreateOnWire
  <2>2. c.in.client = w /\ c.in.jobId = j /\ c.name = "createEscrow"
    BY <1>1 DEF CreateCall
  <2>3. Named(Wire[c], "createEscrow") /\ Marked(Wire[c], "createEscrow", j)
    BY <2>1, OnlyFixed, JobIdIsFirst, CreateEscrowEncoderIs, InstructionNamed
  <2> QED BY <1>0, <2>1, <2>2, <2>3 DEF VaultAt
<1>2. ASSUME NEW w \in Wallets, NEW j \in Jobs, NEW to, NEW t, c = SettleCall(w, j, to, t)
      PROVE  Goal
  <2>1. PICK r : /\ Wire[c] = Instruction("settleEscrow", SettleEscrowAccounts,
                                           SettleEscrowEncoder, r)
                 /\ r.jobId = j
                 /\ Wire[c].accounts[3].address = EscrowVaultStatePda(w, j)
    BY <1>2, SettleOnWire
  <2>2. c.in.jobId = j /\ c.name = "settleEscrow"
    BY <1>2 DEF SettleCall
  <2>3. Named(Wire[c], "settleEscrow") /\ Marked(Wire[c], "settleEscrow", j)
    BY <2>1, OnlyFixed, JobIdIsFirst, JobIdEncoder, InstructionNamed
  <2> QED BY <1>0, <2>1, <2>2, <2>3
<1>3. ASSUME NEW j \in Jobs, NEW f \in BOOLEAN, NEW o, c = UpdateCall(j, f, o) PROVE Goal
  <2>1. PICK r : /\ Wire[c] = Instruction("updateEscrow", UpdateEscrowAccounts,
                                           UpdateEscrowEncoder, r)
                 /\ Wire[c].accounts[3].address = ConfigPda
    BY <1>3, UpdateOnWire
  <2>2. c.name = "updateEscrow"
    BY <1>3 DEF UpdateCall
  <2>3. Named(Wire[c], "updateEscrow")
    BY <2>1, OnlyFixed, UpdateEscrowEncoderIs, InstructionNamed
  <2> QED BY <1>0, <2>1, <2>2, <2>3
<1>4. ASSUME NEW j \in Jobs, c = DisputeCall(j) PROVE Goal
  <2>1. PICK r : /\ Wire[c] = Instruction("markDisputed", MarkDisputedAccounts,
                                           MarkDisputedEncoder, r)
                 /\ Wire[c].accounts[3].address = EscrowVaultStatePda(Client, j)
    BY <1>4, DisputeOnWire
  <2>2. c.name = "markDisputed"
    BY <1>4 DEF DisputeCall
  <2>3. Named(Wire[c], "markDisputed")
    BY <2>1, OnlyFixed, JobIdEncoder, InstructionNamed
  <2> QED BY <1>0, <2>1, <2>2, <2>3
<1>5. ASSUME NEW j \in Jobs, c = ResolveCall(j) PROVE Goal
  <2>1. PICK r : /\ Wire[c] = Instruction("resolveDispute", ResolveDisputeAccounts,
                                           ResolveDisputeEncoder, r)
                 /\ Wire[c].accounts[3].address = EscrowVaultStatePda(Client, j)
    BY <1>5, ResolveOnWire
  <2>2. c.name = "resolveDispute"
    BY <1>5 DEF ResolveCall
  <2>3. Named(Wire[c], "resolveDispute")
    BY <2>1, OnlyFixed, JobIdEncoder, InstructionNamed
  <2> QED BY <1>0, <2>1, <2>2, <2>3
<1>6. ASSUME c = InitializeCall PROVE Goal
  <2>1. PICK r : /\ Wire[c] = Instruction("initialize", InitializeAccounts,
                                           InitializeEncoder, r)
                 /\ Wire[c].accounts[3].address = SystemProgram
    BY <1>6, InitializeOnWire
  <2>2. c.name = "initialize"
    BY <1>6 DEF InitializeCall
  <2>3. Named(Wire[c], "initialize")
    BY <2>1, OnlyFixed, InitializeEncoderIs, InstructionNamed
  <2> QED BY <1>0, <2>1, <2>2, <2>3
<1>7. ASSUME NEW p \in BOOLEAN, c = PauseCall(p) PROVE Goal
  <2>1. PICK r : /\ Wire[c] = Instruction("setPaused", SetPausedAccounts, SetPausedEncoder, r)
                 /\ Len(Wire[c].accounts) = 2
    BY <1>7, PauseOnWire
  <2>2. c.name = "setPaused"
    BY <1>7 DEF PauseCall
  <2>3. Named(Wire[c], "setPaused")
    BY <2>1, OnlyFixed, JobIdEncoder, InstructionNamed
  <2> QED BY <2>1, <2>2, <2>3
<1> HIDE DEF Goal
<1>8. Goal
  BY <1>1, <1>2, <1>3, <1>4, <1>5, <1>6, <1>7, CallsAre
<1> QED BY <1>8 DEF Goal

-----------------------------------------------------------------------------
(* What the server has read back *)

Landed == \A tx \in landed : tx \in Transactions /\ Left(tx.call)

RowsHold ==
  /\ escrowPda \in [Jobs -> ThirdAccounts \cup {NoAddress}]
  /\ settledSeen \subseteq Jobs
  /\ \A j \in settledSeen :
       VaultAt(Client, j) \in DOMAIN vaults /\ IsSettled(vaults[VaultAt(Client, j)])

\* The account of a vault that was opened for the job.
OfTheJob(a, j) == a \in VaultAddresses \cap DOMAIN vaults /\ vaults[a].jobId = j

LEMMA DiscriminatorsAgree ==
  /\ DISCRIMINATORS.createEscrow = Discriminator["createEscrow"]
  /\ DISCRIMINATORS.settleEscrow = Discriminator["settleEscrow"]
  BY DEF DISCRIMINATORS, Discriminator

LEMMA InstructionsAre ==
  ASSUME NEW tx
  PROVE  /\ Len(Instructions(tx)) \in {1, 2}
         /\ DOMAIN Instructions(tx) = 1..Len(Instructions(tx))
         /\ \A i \in DOMAIN Instructions(tx) :
              /\ Instructions(tx)[i] \in {ForeignIx, Wire[tx.call]}
              /\ i = Len(Instructions(tx)) => Instructions(tx)[i] = Wire[tx.call]
              /\ i < Len(Instructions(tx)) => Instructions(tx)[i] = ForeignIx
<1> DEFINE w == Wire[tx.call]
<1>1. Instructions(tx) = <<ForeignIx, w>> \/ Instructions(tx) = <<w>>
  BY DEF Instructions
<1> HIDE DEF w
<1>2. ASSUME NEW s, NEW f, s = <<f, w>> \/ s = <<w>>
      PROVE  /\ Len(s) \in {1, 2} /\ DOMAIN s = 1..Len(s)
             /\ \A i \in DOMAIN s : /\ s[i] \in {f, w}
                                    /\ i = Len(s) => s[i] = w
                                    /\ i < Len(s) => s[i] = f
  <2>1. CASE s = <<w>>
    <3>1. Len(s) = 1 /\ DOMAIN s = 1..1 /\ s[1] = w
      BY <2>1
    <3>2. \A i \in 1..1 : i = 1
      OBVIOUS
    <3> QED BY <3>1, <3>2
  <2>2. CASE s = <<f, w>>
    <3>1. Len(s) = 2 /\ DOMAIN s = 1..2 /\ s[1] = f /\ s[2] = w
      BY <2>2
    <3>2. \A i \in 1..2 : i = 1 \/ i = 2
      OBVIOUS
    <3> QED BY <3>1, <3>2
  <2> QED BY <1>2, <2>1, <2>2
<1> QED BY <1>1, <1>2 DEF w

LEMMA ForeignIsNot == ForeignIx.programAddress # Program
  BY TransactionAssumption DEF ForeignIx

\* What the webhook takes for a deposit of a job is one, of some wallet, and what it takes
\* for a settlement is one of the client's vault.
LEMMA SeenIsSo ==
  ASSUME ChainHolds, Landed, inserted \subseteq Jobs, NEW tx \in landed,
         NEW ix \in {ForeignIx, Wire[tx.call]}, NEW j \in JobsOf(ix.data)
  PROVE  /\ j \in Jobs
         /\ IsDeposit(ix) => OfTheJob(ix.accounts[3].address, j)
         /\ IsSettlement(ix) => /\ VaultAt(Client, j) \in DOMAIN vaults
                               /\ IsSettled(vaults[VaultAt(Client, j)])
<1> DEFINE c == tx.call
<1>1. j \in Jobs /\ SubSeq(ix.data, 9, 24) = Bytes(j, 16)
  BY DEF JobsOf
<1>2. CASE ix = ForeignIx
  BY <1>1, <1>2, ForeignIsNot DEF IsDeposit, IsSettlement
<1>3. CASE ix = Wire[c]
  <2>1. c \in Calls /\ Left(c)
    BY DEF Landed, Transactions
  <2> HIDE DEF c
  <2>2. /\ Named(ix, c.name)
        /\ c.name \in {"createEscrow", "settleEscrow"} => Marked(ix, c.name, c.in.jobId)
        /\ c.name = "createEscrow" => ix.accounts[3].address = VaultAt(c.in.client, c.in.jobId)
    BY <1>3, <2>1, CallsNamed
  <2>3. c.name \in {"createEscrow", "settleEscrow"} => c.in.jobId = j
    <3>1. c.name \in {"createEscrow", "settleEscrow"} => Bytes(c.in.jobId, 16) = Bytes(j, 16)
      BY <1>1, <2>2 DEF Marked
    <3>2. 16 \in Nat \ {0}
      OBVIOUS
    <3> QED BY <3>1, <3>2, ValueOfBytes
  <2>4. IsDeposit(ix) => c.name = "createEscrow"
    <3>1. "createEscrow" \in InstructionNames
      BY DEF InstructionNames
    <3> QED BY <2>2, <3>1, DiscriminatorsAgree, DiscriminatorsDiffer DEF IsDeposit, Named
  <2>5. IsSettlement(ix) => c.name = "settleEscrow"
    <3>1. "settleEscrow" \in InstructionNames
      BY DEF InstructionNames
    <3> QED BY <2>2, <3>1, DiscriminatorsAgree, DiscriminatorsDiffer DEF IsSettlement, Named
  <2>6. ASSUME c.name = "createEscrow" PROVE OfTheJob(ix.accounts[3].address, j)
    <3> DEFINE w == c.in.client
               a == ix.accounts[3].address
    <3>1. a = VaultAt(w, j) /\ a \in DOMAIN vaults
      BY <2>1, <2>2, <2>3, <2>6 DEF Left
    <3> HIDE DEF w, a
    <3>2. PICK u \in Wallets, i \in Jobs : a = VaultAt(u, i) /\ GoodVault(vaults[a], u, i)
      BY <3>1 DEF ChainHolds
    <3>3. i = j
      <4>1. VaultAt(u, i) = VaultAt(w, j)
        BY <3>1, <3>2
      <4> QED BY <4>1, AddressesDiffer
    <3>4. vaults[a].jobId = j
      BY <3>2, <3>3 DEF GoodVault
    <3>5. a \in VaultAddresses
      BY <3>2 DEF VaultAddresses, VaultAt, Wallets
    <3> QED BY <3>1, <3>4, <3>5 DEF OfTheJob, a
  <2>7. c.name = "settleEscrow" => /\ VaultAt(Client, j) \in DOMAIN vaults
                                   /\ IsSettled(vaults[VaultAt(Client, j)])
    BY <2>1, <2>3 DEF Left
  <2> QED BY <1>1, <2>4, <2>5, <2>6, <2>7
<1> QED BY <1>2, <1>3

LEMMA HandledAre ==
  ASSUME NEW tx, NEW k \in 1..Len(Instructions(tx))
  PROVE  LET handled == SubSeq(Instructions(tx), 1, k)
         IN  /\ DOMAIN handled = 1..k /\ k \in 0..2
             /\ \A i \in 1..k : handled[i] \in {ForeignIx, Wire[tx.call]}
<1> DEFINE s == Instructions(tx)
           S == {ForeignIx, Wire[tx.call]}
           handled == SubSeq(s, 1, k)
<1>1. k \in 0..2 /\ \A i \in 1..k : s[i] \in S
  <2>1. Len(s) \in {1, 2} /\ DOMAIN s = 1..Len(s) /\ \A i \in DOMAIN s : s[i] \in S
    BY InstructionsAre
  <2>2. k \in 0..Len(s)
    OBVIOUS
  <2> HIDE DEF s, S
  <2> QED BY <2>1, <2>2
<1> HIDE DEF s, S
<1>2. /\ handled \in Seq(S) /\ Len(handled) = IF 1 <= k THEN k - 1 + 1 ELSE 0
      /\ \A i \in 1..(k - 1 + 1) : handled[i] = s[1 + i - 1]
  BY <1>1, SubSeqProperties
<1>3. Len(handled) = k /\ \A i \in 1..k : handled[i] = s[i]
  BY <1>1, <1>2
<1>4. DOMAIN handled = 1..Len(handled)
  BY <1>2
<1> QED BY <1>1, <1>3, <1>4 DEF s, S

LEMMA LastAndFirst ==
  ASSUME NEW S, S \subseteq 1..2, S # {}
  PROVE  Max(S) \in S /\ Min(S) \in S /\ \A i \in S : Min(S) <= i
<1>0. /\ \A x \in S : x = 1 \/ x = 2
      /\ 1 \in S \/ 2 \in S
  <2>1. \A x \in 1..2 : x = 1 \/ x = 2
    OBVIOUS
  <2> QED BY <2>1
<1>1. \E x \in S : \A y \in S : x >= y
  <2>1. CASE 2 \in S
    <3>1. \A y \in S : 2 >= y
      BY <1>0
    <3> QED BY <2>1, <3>1
  <2>2. CASE 2 \notin S
    <3>1. 1 \in S /\ \A y \in S : 1 >= y
      BY <1>0, <2>2
    <3> QED BY <3>1
  <2> QED BY <2>1, <2>2
<1>2. \E x \in S : \A y \in S : x =< y
  <2>1. CASE 1 \in S
    <3>1. \A y \in S : 1 =< y
      BY <1>0
    <3> QED BY <2>1, <3>1
  <2>2. CASE 1 \notin S
    <3>1. 2 \in S /\ \A y \in S : 2 =< y
      BY <1>0, <2>2
    <3> QED BY <3>1
  <2> QED BY <2>1, <2>2
<1> QED BY <1>1, <1>2 DEF Max, Min

LEMMA RowSteps ==
  ASSUME [Next]_vars
  PROVE  \/ UNCHANGED <<escrowPda, settledSeen>>
         \/ \E tx \in landed : \E k \in 1..Len(Instructions(tx)) : Route(tx, k)
         \/ \E j \in Jobs, tx \in landed : ConfirmEscrow(j, tx)
<1>1. ASSUME Tick PROVE UNCHANGED <<escrowPda, settledSeen>>
  BY <1>1 DEF Tick, rows
<1>2. ASSUME NEW c \in ServerCalls, BuildFromCache(c) \/ FetchBlockhash(c)
      PROVE  UNCHANGED <<escrowPda, settledSeen>>
  BY <1>2 DEF BuildFromCache, FetchBlockhash, Emit, rows
<1>3. ASSUME NEW f \in fetching, RpcAnswers(f) \/ FetchReturns(f) \/ BuildFails(f)
      PROVE  UNCHANGED <<escrowPda, settledSeen>>
  BY <1>3 DEF RpcAnswers, FetchReturns, BuildFails, Emit, rows
<1>4. ASSUME NEW c \in inFlight, \/ TransactionExpires(c)
                                 \/ \E p \in BOOLEAN : TransactionLands(c, p)
      PROVE  UNCHANGED <<escrowPda, settledSeen>>
  BY <1>4 DEF TransactionExpires, TransactionLands, Lands, rows
<1>5. ASSUME NEW c \in OtherCalls, OtherLands(c) PROVE UNCHANGED <<escrowPda, settledSeen>>
  BY <1>5 DEF OtherLands, Lands, rows
<1>6. ASSUME UNCHANGED vars PROVE UNCHANGED <<escrowPda, settledSeen>>
  BY <1>6 DEF vars, rows
<1> QED BY <1>1, <1>2, <1>3, <1>4, <1>5, <1>6 DEF Next

LEMMA LandedNext ==
  ASSUME Timed, ChainHolds, Landed, [Next]_vars
  PROVE  Landed'
<1>1. CASE UNCHANGED <<vaults, landed>>
  BY <1>1 DEF Landed, Left
<1>2. ASSUME ChainStep, NEW tx \in Transactions, landed' = landed \cup {tx}, Left(tx.call)'
      PROVE  Landed'
  <2>1. ASSUME NEW c, Left(c) PROVE Left(c)'
    BY <1>2, <2>1, VaultsLast DEF Left
  <2> QED BY <1>2, <2>1 DEF Landed
<1> QED BY <1>1, <1>2, ChainSteps

\* Whatever transaction is delivered, however far its handling comes: what it writes of a
\* job comes from a deposit, or a settlement, of that job.
LEMMA RouteWrites ==
  ASSUME Timed, ChainHolds, Landed, NEW tx \in landed, NEW k \in 1..Len(Instructions(tx)),
         Route(tx, k)
  PROVE  /\ escrowPda' = [j \in Jobs |-> escrowPda'[j]]
         /\ \A j \in Jobs : escrowPda'[j] = escrowPda[j] \/ OfTheJob(escrowPda'[j], j)
         /\ \A j \in settledSeen' \ settledSeen :
              /\ j \in Jobs /\ VaultAt(Client, j) \in DOMAIN vaults
              /\ IsSettled(vaults[VaultAt(Client, j)])
         /\ settledSeen \subseteq settledSeen'
<1> DEFINE handled == SubSeq(Instructions(tx), 1, k)
           of(j) == {i \in DOMAIN handled : IsDeposit(handled[i]) /\ j \in JobsOf(handled[i].data)}
           settling == {n \in DOMAIN handled : IsSettlement(handled[n])}
<1>1. /\ DOMAIN handled = 1..k /\ k \in 0..2
      /\ \A i \in 1..k : handled[i] \in {ForeignIx, Wire[tx.call]}
  BY HandledAre
<1>2. /\ escrowPda' = [j \in Jobs |-> IF of(j) = {} THEN escrowPda[j]
                                        ELSE handled[Max(of(j))].accounts[3].address]
      /\ settledSeen' = settledSeen \cup UNION {JobsOf(handled[i].data) : i \in settling}
  BY DEF Route, HandleEscrowFunded, HandleSettleConfirmed
<1> HIDE DEF handled
<1>3. inserted \subseteq Jobs
  BY DEF Timed
<1>4. ASSUME NEW i \in DOMAIN handled, NEW j \in JobsOf(handled[i].data)
      PROVE  /\ j \in Jobs
             /\ IsDeposit(handled[i]) => OfTheJob(handled[i].accounts[3].address, j)
             /\ IsSettlement(handled[i]) => /\ VaultAt(Client, j) \in DOMAIN vaults
                                           /\ IsSettled(vaults[VaultAt(Client, j)])
  <2> DEFINE ix == handled[i]
  <2>1. ix \in {ForeignIx, Wire[tx.call]} /\ j \in JobsOf(ix.data)
    BY <1>1
  <2> HIDE DEF ix
  <2>2. /\ j \in Jobs
        /\ IsDeposit(ix) => OfTheJob(ix.accounts[3].address, j)
        /\ IsSettlement(ix) => /\ VaultAt(Client, j) \in DOMAIN vaults
                              /\ IsSettled(vaults[VaultAt(Client, j)])
    BY <1>3, <2>1, SeenIsSo
  <2> QED BY <2>2 DEF ix
<1>5. ASSUME NEW j \in Jobs
      PROVE  escrowPda'[j] = escrowPda[j] \/ OfTheJob(escrowPda'[j], j)
  <2>1. CASE of(j) = {}
    BY <1>2, <2>1
  <2>2. CASE of(j) # {}
    <3> DEFINE S == of(j)
    <3>1. S \subseteq 1..2 /\ S # {}
      BY <1>1, <2>2
    <3>2. Max(S) \in S
      <4> HIDE DEF S
      <4> QED BY <3>1, LastAndFirst
    <3> DEFINE m == Max(S)
    <3>3. m \in DOMAIN handled /\ IsDeposit(handled[m]) /\ j \in JobsOf(handled[m].data)
      BY <3>2
    <3>4. escrowPda'[j] = handled[m].accounts[3].address
      BY <1>2, <2>2
    <3> HIDE DEF m
    <3> QED BY <1>4, <3>3, <3>4
  <2> QED BY <2>1, <2>2
<1>6. ASSUME NEW j \in settledSeen' \ settledSeen
      PROVE  /\ j \in Jobs /\ VaultAt(Client, j) \in DOMAIN vaults
             /\ IsSettled(vaults[VaultAt(Client, j)])
  <2>1. PICK i \in settling : j \in JobsOf(handled[i].data)
    BY <1>2
  <2> QED BY <1>4, <2>1
<1> QED BY <1>2, <1>5, <1>6

\* The instruction that the confirmation reads is the one of the program, whatever a wallet
\* has put in front of it.
LEMMA ConfirmHolds ==
  ASSUME Landed, RowsHold, NEW j \in Jobs, NEW tx \in landed, ConfirmEscrow(j, tx)
  PROVE  RowsHold'
<1> DEFINE ixs == Instructions(tx)
           own == OfProgram(ixs)
           c == tx.call
<1>1. c \in Calls
  BY DEF Landed, Transactions
<1>2. Wire[c].programAddress = Program
  BY <1>1, CallsNamed DEF Named
<1>3. /\ Len(ixs) \in {1, 2} /\ DOMAIN ixs = 1..Len(ixs)
      /\ \A i \in DOMAIN ixs : /\ ixs[i] \in {ForeignIx, Wire[c]}
                               /\ i = Len(ixs) => ixs[i] = Wire[c]
  BY InstructionsAre
<1>4. /\ Len(ixs[Min(own)].accounts) >= 3
      /\ escrowPda' = [escrowPda EXCEPT ![j] = ixs[Min(own)].accounts[3].address]
  BY DEF ConfirmEscrow, EscrowPdaFromTx
<1> HIDE DEF ixs, c
<1>5. own \subseteq 1..2 /\ own # {}
  <2>1. Len(ixs) \in own
    BY <1>2, <1>3 DEF OfProgram
  <2> QED BY <1>3, <2>1 DEF OfProgram
<1>6. Min(own) \in own
  <2> HIDE DEF own
  <2> QED BY <1>5, LastAndFirst
<1> DEFINE m == Min(own)
<1>7. ixs[m] = Wire[c]
  <2>1. m \in DOMAIN ixs /\ ixs[m].programAddress = Program
    BY <1>6 DEF OfProgram
  <2> HIDE DEF m
  <2> QED BY <1>3, <2>1, ForeignIsNot
<1>8. ixs[m].accounts[3].address \in ThirdAccounts
  BY <1>1, <1>4, <1>7, CallsNamed
<1>9. escrowPda' \in [Jobs -> ThirdAccounts \cup {NoAddress}]
  BY <1>4, <1>8 DEF RowsHold
<1>10. vaults' = vaults /\ settledSeen' = settledSeen
  BY DEF ConfirmEscrow, chain
<1> QED BY <1>9, <1>10 DEF RowsHold

LEMMA RouteHolds ==
  ASSUME Timed, ChainHolds, Landed, RowsHold, NEW tx \in landed,
         NEW k \in 1..Len(Instructions(tx)), Route(tx, k)
  PROVE  RowsHold'
<1>1. vaults' = vaults
  BY DEF Route, chain
<1>2. escrowPda' \in [Jobs -> ThirdAccounts \cup {NoAddress}]
  <2>1. \A j \in Jobs : escrowPda'[j] \in ThirdAccounts \cup {NoAddress}
    BY RouteWrites DEF RowsHold, OfTheJob, ThirdAccounts
  <2>2. escrowPda' = [j \in Jobs |-> escrowPda'[j]]
    BY RouteWrites
  <2> QED BY <2>1, <2>2
<1>3. ASSUME NEW j \in settledSeen'
      PROVE  /\ j \in Jobs /\ VaultAt(Client, j) \in DOMAIN vaults
             /\ IsSettled(vaults[VaultAt(Client, j)])
  <2>1. CASE j \in settledSeen
    BY <2>1 DEF RowsHold
  <2>2. CASE j \notin settledSeen
    BY <2>2, RouteWrites
  <2> QED BY <2>1, <2>2
<1> QED BY <1>1, <1>2, <1>3 DEF RowsHold

LEMMA RowsNext ==
  ASSUME Timed, ChainHolds, Landed, RowsHold, [Next]_vars
  PROVE  RowsHold'
<1>1. CASE UNCHANGED <<escrowPda, settledSeen>>
  <2>1. CASE ChainStep
    BY <1>1, <2>1, VaultsLast DEF RowsHold
  <2>2. CASE vaults' = vaults
    BY <1>1, <2>2 DEF RowsHold
  <2> QED BY <2>1, <2>2, ChainSteps
<1> QED BY <1>1, RowSteps, RouteHolds, ConfirmHolds

Read == Chain /\ Landed /\ RowsHold

LEMMA AlwaysRead == Spec => []Read
<1>1. Init => Landed /\ RowsHold
  BY DEF Init, Landed, RowsHold
<1>2. Timed /\ ChainHolds /\ Landed /\ RowsHold /\ [Next]_vars => (Landed /\ RowsHold)'
  BY LandedNext, RowsNext
<1> QED BY <1>1, <1>2, AlwaysChain, PTL DEF Spec, Chain, Read

\* The variables keep their types: in particular what stands in escrow_pda is one of the
\* accounts that an instruction of the program names third.
THEOREM TypeCorrect == Spec => []TypeOK
<1>1. Read => TypeOK
  <2> SUFFICES ASSUME Read PROVE TypeOK
    OBVIOUS
  <2>1. /\ treasuryTokenAccount \in TreasuryTokenAccounts /\ now \in 0..MaxTime
        /\ cache \in [hash : 0..MaxTime, fetchedAt : 0..MaxTime, empty : BOOLEAN]
        /\ inFlight \subseteq ServerCalls /\ inserted \subseteq Jobs
    BY DEF Read, Chain, Timed
  <2>2. fetching \subseteq [call : ServerCalls, at : 0..MaxTime, answer : -1..MaxTime]
    BY DEF Read, Chain, Timed, Asked
  <2>3. DOMAIN vaults \subseteq VaultAddresses
    BY DEF Read, Chain, ChainHolds, VaultAddresses, VaultAt, Wallets
  <2>4. landed \subseteq Transactions
    BY DEF Read, Landed
  <2>5. /\ escrowPda \in [Jobs -> ThirdAccounts \cup {NoAddress}]
        /\ settledSeen \subseteq Jobs
    BY DEF Read, RowsHold
  <2> QED BY <2>1, <2>2, <2>3, <2>4, <2>5 DEF TypeOK
<1> QED BY <1>1, AlwaysRead, PTL

\* What the webhook writes into escrow_pda, however often and late a transaction is delivered,
\* is the account of a vault of that very job, if perhaps of another wallet.
THEOREM WebhookVaults == Spec => WebhookRecordsVaults
<1> DEFINE Recorded ==
      \A j \in Jobs :
        /\ escrowPda'[j] # escrowPda[j]
        /\ \E tx \in landed : \E k \in 1..Len(Instructions(tx)) : Route(tx, k)
        => escrowPda'[j] \in DOMAIN vaults /\ vaults[escrowPda'[j]].jobId = j
<1>1. Read /\ [Next]_vars => [Recorded]_vars
  BY RouteWrites DEF Read, Chain, OfTheJob
<1> HIDE DEF Recorded
<1>2. Spec => [][Recorded]_vars
  BY <1>1, AlwaysRead, PTL DEF Spec
<1> QED BY <1>2 DEF Recorded, WebhookRecordsVaults

\* The webhook takes a bounty for settled only when the vault of its client has paid: the
\* discriminator and the offset of the job id that helius.service.ts reads by hand are those
\* of the client, and nobody else's vault is ever settled.
THEOREM SeenIsSettled == Spec => []SettledSeenIsSettled
<1>1. Read => SettledSeenIsSettled
  BY DEF Read, RowsHold, SettledSeenIsSettled, VaultAt
<1> QED BY <1>1, AlwaysRead, PTL
==============================================================================
