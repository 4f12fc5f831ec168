--------------------------- MODULE WalletAuth_proofs ---------------------------
(***************************************************************************)
(* Theorems about WalletAuth for every set of wallets and of requests      *)
(* served at once, all bounds and all faults.                              *)
(***************************************************************************)
EXTENDS WalletAuth, SequenceTheorems, FiniteSetTheorems, TLAPS

-----------------------------------------------------------------------------
(* Types *)

LEMMA InitTypeOK == Init => TypeOK
  BY DEF Init, TypeOK, RequestType, IdleRequest, Request

\* What each step writes into its request.
LEMMA RequestsTyped ==
  ASSUME TypeOK
  PROVE  /\ IdleRequest \in RequestType
         /\ \A w \in Wallets, n \in DOMAIN issued :
              Request("verify", "matched", w, n, 0, FALSE) \in RequestType
         /\ \A q \in Requests, to \in {"consumed", "upserted"} :
              Request("verify", to, handler[q].wallet, handler[q].nonce, 0, FALSE) \in RequestType
         /\ \A op \in {"refresh", "logout"}, s \in DOMAIN sessions, late \in BOOLEAN :
              Request(op, "found", NoWallet, 0, s, late) \in RequestType
<1> USE DEF TypeOK, RequestType, Request
<1>1. IdleRequest \in RequestType
  BY DEF IdleRequest
<1>2. ASSUME NEW w \in Wallets, NEW n \in DOMAIN issued
      PROVE  Request("verify", "matched", w, n, 0, FALSE) \in RequestType
  OBVIOUS
<1>3. ASSUME NEW q \in Requests, NEW to \in {"consumed", "upserted"}
      PROVE  Request("verify", to, handler[q].wallet, handler[q].nonce, 0, FALSE) \in RequestType
  <2>1. handler[q] \in RequestType
    OBVIOUS
  <2>2. handler[q].wallet \in Wallets \cup {NoWallet} /\ handler[q].nonce \in 0..Len(issued)
    BY <2>1
  <2> QED BY <2>2
<1>4. ASSUME NEW op \in {"refresh", "logout"}, NEW s \in DOMAIN sessions, NEW late \in BOOLEAN
      PROVE  Request(op, "found", NoWallet, 0, s, late) \in RequestType
  OBVIOUS
<1> QED BY <1>1, <1>2, <1>3, <1>4

\* The types only grow, with the nonces issued and the sessions.
LEMMA TypesGrow ==
  ASSUME TypeOK,
         \/ UNCHANGED issued
         \/ \E w \in Wallets : issued' = Append(issued, w),
         \/ UNCHANGED sessions
         \/ \E w \in Wallets, n \in 1..Len(issued) :
              sessions' = Append(sessions, [wallet |-> w, nonce |-> n])
  PROVE  /\ RequestType \subseteq RequestType'
         /\ issued' \in Seq(Wallets)
         /\ Len(issued) \in Nat /\ Len(issued') \in Nat /\ Len(issued) <= Len(issued')
         /\ DOMAIN sessions \subseteq DOMAIN sessions'
         /\ sessions' \in Seq([wallet : Wallets, nonce : 1..Len(issued')])
<1> DEFINE S == [wallet : Wallets, nonce : 1..Len(issued)]
<1>1. /\ issued' \in Seq(Wallets)
      /\ Len(issued) \in Nat /\ Len(issued') \in Nat /\ Len(issued) <= Len(issued')
  <2>1. issued \in Seq(Wallets) /\ Len(issued) \in Nat
    BY DEF TypeOK
  <2>2. ASSUME NEW w \in Wallets, issued' = Append(issued, w)
        PROVE  issued' \in Seq(Wallets) /\ Len(issued') = Len(issued) + 1
    BY <2>1, <2>2
  <2> QED BY <2>1, <2>2
<1>2. /\ sessions' \in Seq(S)
      /\ Len(sessions) \in Nat /\ Len(sessions') \in Nat /\ Len(sessions) <= Len(sessions')
      /\ DOMAIN sessions = 1..Len(sessions) /\ DOMAIN sessions' = 1..Len(sessions')
  <2>1. sessions \in Seq(S) /\ Len(sessions) \in Nat
    BY DEF TypeOK
  <2>2. ASSUME NEW w \in Wallets, NEW n \in 1..Len(issued),
               sessions' = Append(sessions, [wallet |-> w, nonce |-> n])
        PROVE  sessions' \in Seq(S) /\ Len(sessions') = Len(sessions) + 1
    <3>1. [wallet |-> w, nonce |-> n] \in S
      OBVIOUS
    <3> HIDE DEF S
    <3> QED BY <2>1, <2>2, <3>1
  <2>3. sessions' \in Seq(S) /\ Len(sessions') \in Nat /\ Len(sessions) <= Len(sessions')
    <3>1. CASE UNCHANGED sessions
      <4> HIDE DEF S
      <4> QED BY <2>1, <3>1
    <3>2. CASE \E w \in Wallets, n \in 1..Len(issued) :
                 sessions' = Append(sessions, [wallet |-> w, nonce |-> n])
      <4>1. sessions' \in Seq(S) /\ Len(sessions') = Len(sessions) + 1
        BY <2>2, <3>2
      <4> HIDE DEF S
      <4> QED BY <2>1, <4>1
    <3> QED BY <3>1, <3>2
  <2> HIDE DEF S
  <2> QED BY <2>1, <2>3, LenProperties
<1>3. 0..Len(issued) \subseteq 0..Len(issued') /\ 1..Len(issued) \subseteq 1..Len(issued')
  BY <1>1
<1>4. 0..Len(sessions) \subseteq 0..Len(sessions') /\ DOMAIN sessions \subseteq DOMAIN sessions'
  <2>1. DOMAIN sessions \subseteq DOMAIN sessions' /\ Len(sessions) <= Len(sessions')
    <3> HIDE DEF S
    <3>1. DOMAIN sessions = 1..Len(sessions) /\ DOMAIN sessions' = 1..Len(sessions')
      BY <1>2
    <3>2. Len(sessions) \in Nat /\ Len(sessions') \in Nat /\ Len(sessions) <= Len(sessions')
      BY <1>2
    <3>3. 1..Len(sessions) \subseteq 1..Len(sessions')
      BY <3>2
    <3> QED BY <3>1, <3>2, <3>3
  <2>2. Len(sessions) \in Nat /\ Len(sessions') \in Nat
    BY <1>2
  <2> QED BY <2>1, <2>2
<1>5. RequestType \subseteq RequestType'
  <2> SUFFICES ASSUME NEW r \in RequestType PROVE r \in RequestType'
    OBVIOUS
  <2>1. r.nonce \in 0..Len(issued') /\ r.session \in 0..Len(sessions')
    BY <1>3, <1>4 DEF RequestType
  <2> QED BY <2>1 DEF RequestType
<1>6. S \subseteq [wallet : Wallets, nonce : 1..Len(issued')]
  BY <1>3
<1>7. sessions' \in Seq([wallet : Wallets, nonce : 1..Len(issued')])
  <2> HIDE DEF S
  <2> QED BY <1>2, <1>6, SeqMonotonic
<1> QED BY <1>1, <1>4, <1>5, <1>7

LEMMA Holding ==
  ASSUME TypeOK, NEW q \in Requests, NEW r \in RequestType, Hold(q, r),
         RequestType \subseteq RequestType'
  PROVE  handler' \in [Requests -> RequestType']
  BY DEF TypeOK, Hold

\* A step that leaves the histories alone changes requests as Holding says.
LEMMA HeldTyped ==
  ASSUME TypeOK, NEW q \in Requests, NEW r \in RequestType, Hold(q, r), UNCHANGED <<issued, sessions>>
  PROVE  handler' \in [Requests -> RequestType']
  BY TypesGrow, Holding

LEMMA NewNonceTyped ==
  ASSUME TypeOK, NEW w \in Wallets, GenerateNonce(w)
  PROVE  TypeOK'
<1>1. /\ RequestType \subseteq RequestType'
      /\ Len(issued) \in Nat /\ issued' \in Seq(Wallets)
      /\ sessions' \in Seq([wallet : Wallets, nonce : 1..Len(issued')])
  BY TypesGrow DEF GenerateNonce
<1>2. Len(issued') = Len(issued) + 1
  BY DEF TypeOK, GenerateNonce
<1>3. nonce' \in [Wallets -> 0..Len(issued')]
  BY <1>1, <1>2 DEF TypeOK, GenerateNonce
<1>4. handler' \in [Requests -> RequestType']
  BY <1>1 DEF TypeOK, GenerateNonce
<1> QED BY <1>1, <1>3, <1>4 DEF TypeOK, GenerateNonce

LEMMA NewSessionTyped ==
  ASSUME TypeOK, NEW q \in Requests, IssueTokens(q), handler[q].wallet \in Wallets,
         handler[q].nonce \in 1..Len(issued)
  PROVE  TypeOK'
<1> DEFINE s == Len(sessions) + 1
<1>1. /\ RequestType \subseteq RequestType'
      /\ DOMAIN sessions \subseteq DOMAIN sessions'
      /\ sessions' \in Seq([wallet : Wallets, nonce : 1..Len(issued')])
  BY TypesGrow DEF IssueTokens
<1>2. s \in DOMAIN sessions'
  BY DEF TypeOK, IssueTokens
<1>3. handler' \in [Requests -> RequestType']
  BY <1>1, RequestsTyped, Holding DEF IssueTokens, Reply
<1>4. refresh' \subseteq DOMAIN sessions' /\ loggedOut' \subseteq DOMAIN sessions'
  BY <1>1, <1>2 DEF TypeOK, IssueTokens
<1>5. access' \subseteq [session : DOMAIN sessions', late : BOOLEAN]
  <2>1. access' = access \cup {[session |-> s, late |-> FALSE]}
    BY DEF IssueTokens
  <2>2. access \subseteq [session : DOMAIN sessions', late : BOOLEAN]
    BY <1>1 DEF TypeOK
  <2>3. [session |-> s, late |-> FALSE] \in [session : DOMAIN sessions', late : BOOLEAN]
    BY <1>2
  <2> HIDE DEF s
  <2> QED BY <2>1, <2>2, <2>3
<1> QED BY <1>1, <1>3, <1>4, <1>5 DEF TypeOK, IssueTokens

-----------------------------------------------------------------------------
(* The inductive invariant *)

\* A verification carries a nonce of its wallet, past the upsert that of a user.
VerifyInv ==
  /\ \A w \in Wallets : nonce[w] # 0 => issued[nonce[w]] = w
  /\ \A q \in Requests : handler[q].op = "verify" =>
       /\ handler[q].wallet \in Wallets
       /\ handler[q].nonce \in DOMAIN issued
       /\ issued[handler[q].nonce] = handler[q].wallet
       /\ handler[q].step = "upserted" => users[handler[q].wallet] # "none"

\* What a request found is the token of a session whose logout had not been answered.
FoundInv ==
  \A q \in Requests :
    ~handler[q].late /\ (handler[q].step = "found" => handler[q].session \in DOMAIN sessions)

AuthInv == TypeOK /\ VerifyInv /\ FoundInv /\ LoginsWereSigned /\ LoggedOutStaysOut

LEMMA InitInv == Init => AuthInv
<1> SUFFICES ASSUME Init PROVE AuthInv
  OBVIOUS
<1>1. TypeOK
  BY InitTypeOK
<1>2. VerifyInv /\ FoundInv
  BY DEF Init, VerifyInv, FoundInv, IdleRequest, Request
<1>3. LoginsWereSigned /\ LoggedOutStaysOut
  BY DEF Init, LoginsWereSigned, LoggedOutStaysOut
<1> QED BY <1>1, <1>2, <1>3 DEF AuthInv

LEMMA SessionTyped ==
  ASSUME TypeOK, NEW s \in DOMAIN sessions
  PROVE  sessions[s].wallet \in Wallets /\ sessions[s].nonce \in 1..Len(issued)
<1> DEFINE S == [wallet : Wallets, nonce : 1..Len(issued)]
<1>1. sessions[s] \in S
  <2>1. sessions \in Seq(S)
    BY DEF TypeOK
  <2> HIDE DEF S
  <2> QED BY <2>1
<1> QED BY <1>1

LEMMA NonceInv ==
  ASSUME AuthInv, NEW w \in Wallets, GenerateNonce(w) \/ NonceExpires(w)
  PROVE  AuthInv'
<1> USE DEF AuthInv
<1>1. CASE GenerateNonce(w)
  <2>1. TypeOK'
    BY <1>1, NewNonceTyped
  <2>2. /\ Len(issued) \in Nat /\ DOMAIN issued = 1..Len(issued)
        /\ \A n \in DOMAIN issued : issued'[n] = issued[n]
        /\ DOMAIN issued \subseteq DOMAIN issued'
        /\ issued'[Len(issued) + 1] = w
    BY <1>1, LenProperties, AppendProperties DEF TypeOK, GenerateNonce
  <2>3. VerifyInv'
    BY <1>1, <2>2 DEF TypeOK, GenerateNonce, VerifyInv
  <2>4. FoundInv' /\ LoggedOutStaysOut'
    BY <1>1 DEF GenerateNonce, FoundInv, LoggedOutStaysOut
  <2>5. LoginsWereSigned'
    <3>1. \A s \in DOMAIN sessions : sessions[s].nonce \in DOMAIN issued
      BY <2>2, SessionTyped
    <3> QED BY <1>1, <2>2, <3>1 DEF GenerateNonce, LoginsWereSigned
  <2> QED BY <2>1, <2>3, <2>4, <2>5
<1>2. CASE NonceExpires(w)
  <2>1. TypeOK'
    BY <1>2 DEF TypeOK, RequestType, NonceExpires
  <2> QED BY <1>2, <2>1 DEF TypeOK, NonceExpires, VerifyInv, FoundInv, LoggedOutStaysOut, LoginsWereSigned
<1> QED BY <1>1, <1>2

\* Every other step leaves the histories alone, but for issuing tokens: it may
\* delete keys and make users, and changes one request.
LEMMA QuietStep ==
  ASSUME AuthInv, UNCHANGED <<issued, sessions>>,
         NEW r \in RequestType, UNCHANGED handler \/ \E q \in Requests : Hold(q, r),
         \/ UNCHANGED nonce
         \/ \E w \in Wallets \cup {NoWallet} : nonce' = [nonce EXCEPT ![w] = 0],
         users' \in [Wallets -> {"none", "new", "onboarded"}],
         \A w \in Wallets : users[w] # "none" => users'[w] # "none",
         ~r.late, r.step = "found" => r.session \in DOMAIN sessions,
         r.op = "verify" =>
           /\ r.wallet \in Wallets
           /\ r.nonce \in DOMAIN issued
           /\ issued[r.nonce] = r.wallet
           /\ r.step = "upserted" => users'[r.wallet] # "none",
         refresh' \subseteq refresh,
         loggedOut' \subseteq DOMAIN sessions, refresh' \cap loggedOut' = {},
         access' \subseteq [session : DOMAIN sessions, late : {FALSE}]
  PROVE  AuthInv'
<1> USE DEF AuthInv
<1>1. RequestType' = RequestType /\ Len(issued') = Len(issued) /\ Len(issued) \in Nat
  BY DEF RequestType, TypeOK
<1>2. handler' \in [Requests -> RequestType']
  BY <1>1 DEF Hold, TypeOK
<1>3. nonce' \in [Wallets -> 0..Len(issued)] /\ \A w \in Wallets : nonce'[w] \in {0, nonce[w]}
  <2>1. nonce \in [Wallets -> 0..Len(issued)]
    BY DEF TypeOK
  <2> QED BY <1>1, <2>1
<1>4. TypeOK'
  <2>1. sessions' \in Seq([wallet : Wallets, nonce : 1..Len(issued')])
    BY DEF TypeOK
  <2>2. access' \subseteq [session : DOMAIN sessions', late : BOOLEAN]
    BY DEF TypeOK
  <2> QED BY <1>2, <1>3, <2>1, <2>2 DEF TypeOK
<1>5. \A p \in Requests : handler'[p] \in {handler[p], r}
  BY DEF Hold, TypeOK
<1>6. VerifyInv'
  BY <1>3, <1>5 DEF VerifyInv
<1>7. FoundInv'
  BY <1>5 DEF FoundInv
<1>8. LoggedOutStaysOut'
  <2>1. \A a \in access' : ~a.late
    OBVIOUS
  <2> QED BY <2>1 DEF LoggedOutStaysOut
<1>9. LoginsWereSigned'
  BY SessionTyped DEF LoginsWereSigned
<1> QED BY <1>4, <1>6, <1>7, <1>8, <1>9

LEMMA AccessEarly ==
  ASSUME AuthInv
  PROVE  access \subseteq [session : DOMAIN sessions, late : {FALSE}]
<1> SUFFICES ASSUME NEW a \in access PROVE a \in [session : DOMAIN sessions, late : {FALSE}]
  OBVIOUS
<1>1. a \in [session : DOMAIN sessions, late : BOOLEAN] /\ ~a.late
  BY DEF AuthInv, TypeOK, LoggedOutStaysOut
<1> QED BY <1>1

\* What a request of either kind is at each step.
LEMMA Served ==
  ASSUME AuthInv, NEW q \in Requests
  PROVE  /\ handler[q] \in RequestType
         /\ handler[q].op = "verify" =>
              /\ handler[q].wallet \in Wallets
              /\ handler[q].nonce \in DOMAIN issued /\ handler[q].nonce \in 1..Len(issued)
              /\ issued[handler[q].nonce] = handler[q].wallet
         /\ ~handler[q].late
  BY DEF AuthInv, TypeOK, VerifyInv, FoundInv

LEMMA VerifyInvStep ==
  ASSUME AuthInv, NEW q \in Requests, NEW w \in Wallets, NEW n \in DOMAIN issued, VerifyLoad(q, w, n)
  PROVE  AuthInv'
<1> DEFINE r == Request("verify", "matched", w, n, 0, FALSE)
<1>1. r \in RequestType /\ Hold(q, r)
  BY RequestsTyped DEF AuthInv, VerifyLoad
<1>2. n # 0 /\ issued[n] = w
  BY DEF AuthInv, TypeOK, VerifyInv, VerifyLoad, NonceMatches
<1>3. /\ ~r.late /\ r.op = "verify" /\ r.step = "matched"
      /\ r.wallet = w /\ r.nonce = n
  BY DEF Request
<1>4. /\ UNCHANGED <<issued, sessions, nonce, users, refresh, loggedOut, access>>
      /\ refresh \cap loggedOut = {} /\ loggedOut \subseteq DOMAIN sessions
      /\ users \in [Wallets -> {"none", "new", "onboarded"}]
  BY DEF VerifyLoad, redis, AuthInv, TypeOK, LoggedOutStaysOut
<1> HIDE DEF r
<1> QED BY <1>1, <1>2, <1>3, <1>4, AccessEarly, QuietStep

LEMMA ConsumeInvStep ==
  ASSUME AuthInv, NEW q \in Requests, ConsumeNonce(q)
  PROVE  AuthInv'
<1> DEFINE r == Request("verify", "consumed", handler[q].wallet, handler[q].nonce, 0, FALSE)
<1>1. r \in RequestType /\ Hold(q, r)
  BY RequestsTyped DEF AuthInv, ConsumeNonce, Proceed
<1>2. /\ ~r.late /\ r.step = "consumed"
      /\ r.wallet = handler[q].wallet /\ r.nonce = handler[q].nonce
  BY DEF Request
<1>3. handler[q].op = "verify" /\ nonce' = [nonce EXCEPT ![handler[q].wallet] = 0]
  BY DEF ConsumeNonce, Serve, DelNonce
<1>4. /\ UNCHANGED <<issued, sessions, users, refresh, loggedOut, access>>
      /\ refresh \cap loggedOut = {} /\ loggedOut \subseteq DOMAIN sessions
      /\ users \in [Wallets -> {"none", "new", "onboarded"}]
  BY DEF ConsumeNonce, redis, AuthInv, TypeOK, LoggedOutStaysOut
<1> HIDE DEF r
<1> QED BY <1>1, <1>2, <1>3, <1>4, Served, AccessEarly, QuietStep

LEMMA UpsertInvStep ==
  ASSUME AuthInv, NEW q \in Requests, UpsertUser(q)
  PROVE  AuthInv'
<1> DEFINE r == Request("verify", "upserted", handler[q].wallet, handler[q].nonce, 0, FALSE)
<1>1. r \in RequestType /\ Hold(q, r)
  BY RequestsTyped DEF AuthInv, UpsertUser, Proceed
<1>2. /\ ~r.late /\ r.step = "upserted" /\ r.wallet = handler[q].wallet /\ r.nonce = handler[q].nonce
  BY DEF Request
<1>3. handler[q].op = "verify"
  BY DEF UpsertUser, Serve
<1>4. /\ UNCHANGED <<issued, sessions, nonce, refresh, loggedOut, access>>
      /\ refresh \cap loggedOut = {} /\ loggedOut \subseteq DOMAIN sessions
  BY DEF UpsertUser, redis, AuthInv, TypeOK, LoggedOutStaysOut
<1>5. /\ users' \in [Wallets -> {"none", "new", "onboarded"}]
      /\ \A w \in Wallets : users[w] # "none" => users'[w] # "none"
      /\ users'[handler[q].wallet] # "none"
  BY <1>3, Served DEF UpsertUser, UpsertRow, AuthInv, TypeOK
<1> HIDE DEF r
<1> QED BY <1>1, <1>2, <1>3, <1>4, <1>5, Served, AccessEarly, QuietStep

LEMMA IssueInvStep ==
  ASSUME AuthInv, NEW q \in Requests, IssueTokens(q)
  PROVE  AuthInv'
<1> DEFINE s == Len(sessions) + 1
<1>1. /\ handler[q].op = "verify" /\ handler[q].step = "upserted"
      /\ handler[q].wallet \in Wallets /\ handler[q].nonce \in 1..Len(issued)
      /\ issued[handler[q].nonce] = handler[q].wallet
      /\ users[handler[q].wallet] # "none"
  BY Served DEF IssueTokens, Serve, AuthInv, VerifyInv
<1>2. TypeOK'
  BY <1>1, NewSessionTyped DEF AuthInv
<1>3. \A p \in Requests : handler'[p] \in {handler[p], IdleRequest}
  BY DEF IssueTokens, Reply, Hold, AuthInv, TypeOK
<1>4. VerifyInv' /\ FoundInv'
  <2>1. DOMAIN sessions \subseteq DOMAIN sessions'
    BY DEF IssueTokens, AuthInv, TypeOK
  <2> QED BY <1>3, <2>1 DEF IssueTokens, AuthInv, VerifyInv, FoundInv, IdleRequest, Request
<1>5. LoggedOutStaysOut'
  <2>1. s \notin loggedOut
    BY DEF AuthInv, TypeOK
  <2>2. \A a \in access' : ~a.late
    BY DEF IssueTokens, AuthInv, LoggedOutStaysOut
  <2> QED BY <2>1, <2>2 DEF IssueTokens, AuthInv, LoggedOutStaysOut
<1>6. LoginsWereSigned'
  <2> DEFINE e == [wallet |-> handler[q].wallet, nonce |-> handler[q].nonce]
  <2>1. sessions' = Append(sessions, e) /\ UNCHANGED <<issued, users>>
    BY DEF IssueTokens
  <2>2. DOMAIN sessions' = DOMAIN sessions \cup {s} /\ sessions'[s] = e
        /\ \A t \in DOMAIN sessions : sessions'[t] = sessions[t]
    <3> HIDE DEF e
    <3> QED BY <2>1 DEF AuthInv, TypeOK
  <2>3. issued[e.nonce] = e.wallet /\ users[e.wallet] # "none"
    BY <1>1
  <2> HIDE DEF e, s
  <2> QED BY <2>1, <2>2, <2>3 DEF AuthInv, LoginsWereSigned
<1> QED BY <1>2, <1>4, <1>5, <1>6 DEF AuthInv

LEMMA LoadInvStep ==
  ASSUME AuthInv, NEW q \in Requests, NEW s \in DOMAIN sessions, RefreshLoad(q, s) \/ LogoutLoad(q, s)
  PROVE  AuthInv'
<1>1. /\ UNCHANGED <<issued, sessions, nonce, users, refresh, access>>
      /\ refresh \cap loggedOut = {} /\ loggedOut \subseteq DOMAIN sessions
      /\ users \in [Wallets -> {"none", "new", "onboarded"}]
      /\ IdleRequest \in RequestType
  BY RequestsTyped DEF RefreshLoad, LogoutLoad, redis, AuthInv, TypeOK, LoggedOutStaysOut
<1>2. ASSUME NEW op \in {"refresh", "logout"}, Hold(q, Request(op, "found", NoWallet, 0, s, FALSE)),
             UNCHANGED loggedOut
      PROVE  AuthInv'
  <2> DEFINE r == Request(op, "found", NoWallet, 0, s, FALSE)
  <2>1. r \in RequestType
    BY RequestsTyped DEF AuthInv
  <2>2. ~r.late /\ r.op # "verify" /\ r.session = s
    BY DEF Request
  <2>3. Hold(q, r) /\ UNCHANGED loggedOut
    BY <1>2
  <2> HIDE DEF r
  <2> QED BY <1>1, <2>1, <2>2, <2>3, AccessEarly, QuietStep
<1>3. CASE RefreshLoad(q, s)
  <2>1. s \notin loggedOut
    BY <1>1, <1>3 DEF RefreshLoad
  <2>2. (s \in loggedOut) = FALSE
    BY <2>1
  <2>3. Hold(q, Request("refresh", "found", NoWallet, 0, s, FALSE)) /\ UNCHANGED loggedOut
    BY <1>3, <2>2 DEF RefreshLoad
  <2> QED BY <1>2, <2>3
<1>4. CASE LogoutLoad(q, s) /\ s \in refresh
  BY <1>2, <1>4 DEF LogoutLoad
<1>5. CASE LogoutLoad(q, s) /\ s \notin refresh
  <2>1. UNCHANGED handler /\ loggedOut' = loggedOut \cup {s}
    BY <1>5 DEF LogoutLoad
  <2>2. ~IdleRequest.late /\ IdleRequest.op # "verify" /\ IdleRequest.step # "found"
    BY DEF IdleRequest, Request
  <2>3. refresh' \cap loggedOut' = {}
    BY <1>1, <1>5, <2>1
  <2> QED BY <1>1, <2>1, <2>2, <2>3, AccessEarly, QuietStep
<1> QED BY <1>3, <1>4, <1>5

\* The steps that end a request, or have none.
LEMMA ReplyInvStep ==
  ASSUME AuthInv, UNCHANGED <<issued, sessions>>,
         UNCHANGED handler \/ \E q \in Requests : Reply(q),
         \/ UNCHANGED nonce
         \/ \E w \in Wallets \cup {NoWallet} : nonce' = [nonce EXCEPT ![w] = 0],
         users' \in [Wallets -> {"none", "new", "onboarded"}],
         \A w \in Wallets : users[w] # "none" => users'[w] # "none",
         refresh' \subseteq refresh,
         loggedOut' \subseteq DOMAIN sessions, refresh' \cap loggedOut' = {},
         access' \subseteq [session : DOMAIN sessions, late : {FALSE}]
  PROVE  AuthInv'
<1>1. IdleRequest \in RequestType
  BY RequestsTyped DEF AuthInv
<1>2. ~IdleRequest.late /\ IdleRequest.op # "verify" /\ IdleRequest.step # "found"
  BY DEF IdleRequest, Request
<1>3. UNCHANGED handler \/ \E q \in Requests : Hold(q, IdleRequest)
  BY DEF Reply
<1> QED BY <1>1, <1>2, <1>3, QuietStep

LEMMA RefreshInvStep ==
  ASSUME AuthInv, NEW q \in Requests, RefreshAccessToken(q)
  PROVE  AuthInv'
<1> DEFINE a == [session |-> handler[q].session, late |-> handler[q].late]
<1>1. UNCHANGED <<nonce, refresh, users, issued, sessions, loggedOut>> /\ Reply(q)
  BY DEF RefreshAccessToken, redis
<1>2. ~handler[q].late
  BY Served
<1>3. access' \subseteq [session : DOMAIN sessions, late : {FALSE}]
  <2>1. CASE handler[q].session \in refresh
    <3>1. a \in [session : DOMAIN sessions, late : {FALSE}]
      BY <1>2, <2>1, Served DEF AuthInv, TypeOK, RequestType
    <3>2. access' = access \cup {a}
      BY <2>1 DEF RefreshAccessToken
    <3> HIDE DEF a
    <3> QED BY <3>1, <3>2, AccessEarly
  <2>2. CASE handler[q].session \notin refresh
    BY <2>2, AccessEarly DEF RefreshAccessToken
  <2> QED BY <2>1, <2>2
<1>4. /\ users \in [Wallets -> {"none", "new", "onboarded"}]
      /\ loggedOut \subseteq DOMAIN sessions /\ refresh \cap loggedOut = {}
  BY DEF AuthInv, TypeOK, LoggedOutStaysOut
<1> QED BY <1>1, <1>3, <1>4, ReplyInvStep

LEMMA RevokeInvStep ==
  ASSUME AuthInv, NEW q \in Requests, RevokeRefreshToken(q)
  PROVE  AuthInv'
<1>1. /\ UNCHANGED <<nonce, users, access, issued, sessions>> /\ Reply(q)
      /\ refresh' = refresh \ {handler[q].session}
      /\ loggedOut' = loggedOut \cup {handler[q].session}
  BY DEF RevokeRefreshToken, DelRefresh
<1>2. /\ users \in [Wallets -> {"none", "new", "onboarded"}]
      /\ loggedOut \subseteq DOMAIN sessions /\ refresh \cap loggedOut = {}
  BY DEF AuthInv, TypeOK, LoggedOutStaysOut
<1>3. handler[q].session \in DOMAIN sessions
  BY DEF RevokeRefreshToken, Serve, AuthInv, FoundInv
<1> QED BY <1>1, <1>2, <1>3, AccessEarly, ReplyInvStep

LEMMA FailInvStep ==
  ASSUME AuthInv, NEW q \in Requests, RequestFails(q)
  PROVE  AuthInv'
<1>1. /\ UNCHANGED <<access, issued, sessions, loggedOut>> /\ Reply(q)
      /\ users \in [Wallets -> {"none", "new", "onboarded"}]
      /\ loggedOut \subseteq DOMAIN sessions /\ refresh \cap loggedOut = {}
      /\ handler[q].wallet \in Wallets \cup {NoWallet}
  BY DEF RequestFails, AuthInv, TypeOK, RequestType, LoggedOutStaysOut
<1>2. CASE UNCHANGED <<redis, users>>
  BY <1>1, <1>2, AccessEarly, ReplyInvStep DEF redis
<1>3. CASE DelNonce(q) /\ UNCHANGED <<refresh, users>>
  BY <1>1, <1>3, AccessEarly, ReplyInvStep DEF DelNonce
<1>4. CASE UpsertRow(handler[q].wallet) /\ UNCHANGED redis
  <2>1. /\ users' \in [Wallets -> {"none", "new", "onboarded"}]
        /\ \A w \in Wallets : users[w] # "none" => users'[w] # "none"
    BY <1>1, <1>4 DEF UpsertRow
  <2> QED BY <1>1, <1>4, <2>1, AccessEarly, ReplyInvStep DEF redis
<1>5. CASE DelRefresh(q) /\ UNCHANGED <<nonce, users>>
  <2>1. refresh' \subseteq refresh
    BY <1>5 DEF DelRefresh
  <2> QED BY <1>1, <1>5, <2>1, AccessEarly, ReplyInvStep
<1> QED BY <1>2, <1>3, <1>4, <1>5 DEF RequestFails

\* Time passes, and the bearers of access tokens use them.
LEMMA ClientInvStep ==
  ASSUME AuthInv,
         \/ \E s \in refresh : RefreshExpires(s)
         \/ \E a \in access : AccessExpires(a) \/ UpdateMe(a)
  PROVE  AuthInv'
<1>1. /\ UNCHANGED <<nonce, handler, issued, sessions, loggedOut>>
      /\ refresh' \subseteq refresh /\ access' \subseteq access
      /\ loggedOut \subseteq DOMAIN sessions /\ refresh \cap loggedOut = {}
  BY DEF RefreshExpires, AccessExpires, UpdateMe, redis, AuthInv, TypeOK, LoggedOutStaysOut
<1>2. /\ users' \in [Wallets -> {"none", "new", "onboarded"}]
      /\ \A w \in Wallets : users[w] # "none" => users'[w] # "none"
  BY DEF RefreshExpires, AccessExpires, UpdateMe, redis, AuthInv, TypeOK
<1>3. access' \subseteq [session : DOMAIN sessions, late : {FALSE}]
  BY <1>1, AccessEarly
<1> QED BY <1>1, <1>2, <1>3, ReplyInvStep

LEMMA InvStep == AuthInv /\ [Next]_vars => AuthInv'
<1> SUFFICES ASSUME AuthInv, [Next]_vars PROVE AuthInv'
  OBVIOUS
<1>1. CASE UNCHANGED vars
  BY <1>1 DEF vars, redis, AuthInv, TypeOK, RequestType, VerifyInv, FoundInv, LoginsWereSigned, LoggedOutStaysOut
<1>2. ASSUME NEW w \in Wallets, GenerateNonce(w) \/ NonceExpires(w) PROVE AuthInv'
  BY <1>2, NonceInv
<1>3. ASSUME NEW q \in Requests, Serving(q) PROVE AuthInv'
  BY <1>3, ConsumeInvStep, UpsertInvStep, IssueInvStep, RefreshInvStep, RevokeInvStep, FailInvStep
     DEF Serving
<1>4. ASSUME NEW q \in Requests, NEW w \in Wallets, NEW n \in DOMAIN issued, VerifyLoad(q, w, n)
      PROVE  AuthInv'
  BY <1>4, VerifyInvStep
<1>5. ASSUME NEW q \in Requests, NEW s \in DOMAIN sessions, RefreshLoad(q, s) \/ LogoutLoad(q, s)
      PROVE  AuthInv'
  BY <1>5, LoadInvStep
<1>6. CASE \/ \E s \in refresh : RefreshExpires(s)
           \/ \E a \in access : AccessExpires(a) \/ UpdateMe(a)
  BY <1>6, ClientInvStep
<1> QED BY <1>1, <1>2, <1>3, <1>4, <1>5, <1>6 DEF Next

\* The inductive invariant: requests hold what their wallet signed, and nothing
\* of a session that was logged out before they looked.
THEOREM Invariant == Spec => []AuthInv
  BY InitInv, InvStep, PTL DEF Spec

-----------------------------------------------------------------------------
\* Every variable keeps its type.
THEOREM TypeCorrect == Spec => []TypeOK
<1>1. AuthInv => TypeOK
  BY DEF AuthInv
<1> QED BY <1>1, Invariant, PTL

\* Every session is of a user who signed a nonce issued to that wallet
\* (consumeNonce, upsertUser and issueTokens, with any requests in between).
THEOREM LoginsSigned == Spec => []LoginsWereSigned
<1>1. AuthInv => LoginsWereSigned
  BY DEF AuthInv
<1> QED BY <1>1, Invariant, PTL

\* After an answered logout the refresh token is gone, and no later request
\* turns it into an access token (findRefreshToken, revokeRefreshToken).
THEOREM LogoutsStay == Spec => []LoggedOutStaysOut
<1>1. AuthInv => LoggedOutStaysOut
  BY DEF AuthInv
<1> QED BY <1>1, Invariant, PTL

\* No step takes back a completed onboarding, logging in again included (upsertUser).
THEOREM ProfilesKept == Spec => LoginKeepsProfile
<1>1. TypeOK /\ [Next]_vars => [\A w \in Wallets : users[w] = "onboarded" => users'[w] = "onboarded"]_vars
  <2> SUFFICES ASSUME TypeOK, [Next]_vars, NEW w \in Wallets, users[w] = "onboarded"
               PROVE  users'[w] = "onboarded" \/ UNCHANGED vars
    OBVIOUS
  <2>1. \/ UNCHANGED users
        \/ \E q \in Requests : UpsertRow(handler[q].wallet)
        \/ \E a \in access : users' = [users EXCEPT ![sessions[a.session].wallet] = "onboarded"]
    BY DEF Next, vars, Serving, GenerateNonce, NonceExpires, ConsumeNonce, UpsertUser, IssueTokens,
           RefreshAccessToken, RevokeRefreshToken, RequestFails, VerifyLoad, RefreshLoad, LogoutLoad,
           RefreshExpires, AccessExpires, UpdateMe
  <2> QED BY <2>1 DEF UpsertRow, TypeOK
<1> QED BY <1>1, TypeCorrect, PTL DEF Spec, LoginKeepsProfile
-----------------------------------------------------------------------------
(* How often a nonce logs in *)

Used(n)   == {s \in DOMAIN sessions : sessions[s].nonce = n}
Behind(n) == {q \in Requests : handler[q].op = "verify" /\ handler[q].nonce = n}

\* A session and a verification that waits for one count together, and nothing
\* is past the deletion of a nonce that is there.
NonceCounts(n) ==
  /\ Cardinality(Used(n)) + Cardinality(Behind(n)) <= Cardinality(Requests)
  /\ (\E w \in Wallets : nonce[w] = n) =>
       Used(n) = {} /\ \A q \in Behind(n) : handler[q].step = "matched"

RepeatInv == \A n \in DOMAIN issued : NonceCounts(n)

LEMMA Finite ==
  ASSUME TypeOK, NEW n
  PROVE  /\ IsFiniteSet(Used(n)) /\ IsFiniteSet(Behind(n))
         /\ Cardinality(Used(n)) \in Nat /\ Cardinality(Behind(n)) \in Nat
         /\ IsFiniteSet(Requests) /\ Cardinality(Requests) \in Nat
<1>1. IsFiniteSet(DOMAIN sessions)
  <2> DEFINE S == [wallet : Wallets, nonce : 1..Len(issued)]
  <2>1. sessions \in Seq(S)
    BY DEF TypeOK
  <2> HIDE DEF S
  <2>2. Len(sessions) \in Nat /\ DOMAIN sessions = 1..Len(sessions)
    BY <2>1
  <2> QED BY <2>2, FS_Interval
<1>2. IsFiniteSet(Used(n)) /\ IsFiniteSet(Behind(n)) /\ IsFiniteSet(Requests)
  BY <1>1, AuthAssumption, FS_Subset DEF Used, Behind
<1> QED BY <1>2, FS_CardinalityType

\* What shrinks counts less.
LEMMA CountShrinks ==
  ASSUME TypeOK, TypeOK', NEW n, NonceCounts(n),
         Used(n)' = Used(n), Behind(n)' \subseteq Behind(n),
         (\E w \in Wallets : nonce'[w] = n) =>
           /\ \E w \in Wallets : nonce[w] = n
           /\ \A q \in Behind(n)' : handler'[q].step = handler[q].step
  PROVE  NonceCounts(n)'
<1>1. Cardinality(Behind(n)') <= Cardinality(Behind(n)) /\ Cardinality(Behind(n)') \in Nat
  BY Finite, FS_Subset, FS_CardinalityType
<1>2. Cardinality(Used(n)') = Cardinality(Used(n))
  OBVIOUS
<1>3. Cardinality(Used(n)') + Cardinality(Behind(n)') <= Cardinality(Requests)
  BY <1>1, <1>2, Finite DEF NonceCounts
<1> QED BY <1>3 DEF NonceCounts

\* Steps that leave the histories alone, delete keys at most, and change a request
\* at most into one that is no verification.
LEMMA QuietCounts ==
  ASSUME TypeOK, TypeOK', RepeatInv, UNCHANGED <<issued, sessions>>,
         \A w \in Wallets : nonce'[w] \in {0, nonce[w]},
         \A q \in Requests : handler'[q] = handler[q] \/ handler'[q].op # "verify"
  PROVE  RepeatInv'
<1> SUFFICES ASSUME NEW n \in DOMAIN issued PROVE NonceCounts(n)'
  BY DEF RepeatInv
<1>1. n # 0
  BY DEF TypeOK
<1>2. NonceCounts(n)
  BY DEF RepeatInv
<1>3. Used(n)' = Used(n) /\ Behind(n)' \subseteq Behind(n)
  BY DEF Used, Behind
<1>4. \A q \in Behind(n)' : handler'[q].step = handler[q].step
  BY DEF Behind
<1> QED BY <1>1, <1>2, <1>3, <1>4, CountShrinks

LEMMA GenerateCounts ==
  ASSUME AuthInv, TypeOK', RepeatInv, NEW w \in Wallets, GenerateNonce(w)
  PROVE  RepeatInv'
<1> SUFFICES ASSUME NEW new, new = Len(issued) + 1 PROVE RepeatInv'
  OBVIOUS
<1>1. /\ Len(issued) \in Nat /\ DOMAIN issued = 1..Len(issued)
      /\ DOMAIN issued' = DOMAIN issued \cup {new}
      /\ UNCHANGED <<sessions, handler>>
      /\ nonce' = [nonce EXCEPT ![w] = new] /\ nonce \in [Wallets -> 0..Len(issued)]
  BY DEF GenerateNonce, AuthInv, TypeOK
<1>2. \A n : Used(n)' = Used(n) /\ Behind(n)' = Behind(n)
  BY <1>1 DEF Used, Behind
<1>3. NonceCounts(new)'
  <2>1. Used(new) = {}
    BY <1>1, SessionTyped DEF Used, AuthInv
  <2>2. Behind(new) = {}
    BY <1>1, Served DEF Behind
  <2>3. Cardinality({}) = 0
    BY FS_EmptySet
  <2>4. Cardinality(Used(new)') = 0 /\ Cardinality(Behind(new)') = 0
    BY <1>2, <2>1, <2>2, <2>3
  <2>5. Cardinality(Requests) \in Nat
    BY Finite DEF AuthInv
  <2> QED BY <1>2, <2>1, <2>2, <2>4, <2>5 DEF NonceCounts
<1>4. ASSUME NEW n \in DOMAIN issued PROVE NonceCounts(n)'
  <2>1. \A v \in Wallets : nonce'[v] = n => nonce[v] = n
    BY <1>1
  <2> QED BY <1>1, <1>2, <2>1, CountShrinks DEF AuthInv, RepeatInv
<1> QED BY <1>1, <1>3, <1>4 DEF RepeatInv

\* As long as a nonce is there nobody has got a session by it.
LEMMA VerifyCounts ==
  ASSUME AuthInv, TypeOK', RepeatInv, NEW q \in Requests, NEW w \in Wallets, NEW m \in DOMAIN issued,
         VerifyLoad(q, w, m)
  PROVE  RepeatInv'
<1> DEFINE r == Request("verify", "matched", w, m, 0, FALSE)
<1>1. /\ UNCHANGED <<issued, sessions, nonce>> /\ nonce[w] = m
      /\ handler[q].step = "idle"
      /\ handler' = [handler EXCEPT ![q] = r]
      /\ r.op = "verify" /\ r.step = "matched" /\ r.nonce = m
  BY DEF VerifyLoad, NonceMatches, Hold, redis, Request
<1>2. /\ handler'[q] = r
      /\ \A p \in Requests : p # q => handler'[p] = handler[p]
  <2> HIDE DEF r
  <2> QED BY <1>1 DEF AuthInv, TypeOK
<1> HIDE DEF r
<1> SUFFICES ASSUME NEW n \in DOMAIN issued PROVE NonceCounts(n)'
  BY <1>1 DEF RepeatInv
<1>3. NonceCounts(n) /\ Used(n)' = Used(n)
  BY <1>1 DEF RepeatInv, Used
<1>4. CASE n = m
  <2>1. Used(m) = {} /\ \A p \in Behind(m) : handler[p].step = "matched"
    BY <1>1, <1>3, <1>4 DEF NonceCounts
  <2>2. Behind(m)' \subseteq Requests /\ \A p \in Behind(m)' : handler'[p].step = "matched"
    BY <1>1, <1>2, <2>1 DEF Behind
  <2>3. Cardinality(Behind(m)') <= Cardinality(Requests) /\ Cardinality(Behind(m)') \in Nat
    BY <2>2, Finite, FS_Subset, FS_CardinalityType DEF AuthInv
  <2>4. Cardinality(Used(m)') = 0
    BY <1>3, <1>4, <2>1, FS_EmptySet
  <2>5. Cardinality(Used(m)') + Cardinality(Behind(m)') <= Cardinality(Requests)
    BY <2>3, <2>4, Finite DEF AuthInv
  <2>6. Used(m)' = {}
    BY <1>3, <1>4, <2>1
  <2> QED BY <1>4, <2>2, <2>5, <2>6 DEF NonceCounts
<1>5. CASE n # m
  <2>1. Behind(n)' \subseteq Behind(n) /\ \A p \in Behind(n)' : handler'[p].step = handler[p].step
    BY <1>1, <1>2, <1>5 DEF Behind
  <2> QED BY <1>1, <1>3, <2>1, CountShrinks DEF AuthInv
<1> QED BY <1>4, <1>5

\* The nonce a verification consumes is gone when it has been consumed: only the
\* wallet it was issued to has ever had it.
LEMMA ConsumeCounts ==
  ASSUME AuthInv, TypeOK', RepeatInv, NEW q \in Requests, ConsumeNonce(q)
  PROVE  RepeatInv'
<1> DEFINE m == handler[q].nonce
           v == handler[q].wallet
           r == Request("verify", "consumed", v, m, 0, FALSE)
<1>1. /\ UNCHANGED <<issued, sessions>>
      /\ nonce' = [nonce EXCEPT ![v] = 0] /\ handler' = [handler EXCEPT ![q] = r]
      /\ handler[q].op = "verify" /\ r.nonce = m
  BY DEF ConsumeNonce, Serve, DelNonce, Proceed, Hold, Request
<1>2. v \in Wallets /\ m \in DOMAIN issued /\ issued[m] = v
  BY <1>1, Served
<1>3. m # 0 /\ nonce \in [Wallets -> 0..Len(issued)]
  BY <1>2 DEF AuthInv, TypeOK
<1>4. \A w \in Wallets : nonce'[w] # m /\ nonce'[w] \in {0, nonce[w]}
  <2>1. \A w \in Wallets : nonce[w] = m => w = v
    BY <1>2, <1>3 DEF AuthInv, VerifyInv
  <2> HIDE DEF m, v
  <2> QED BY <1>1, <1>2, <1>3, <2>1
<1>5. handler'[q].nonce = m /\ \A p \in Requests : p # q => handler'[p] = handler[p]
  <2> HIDE DEF r
  <2> QED BY <1>1 DEF AuthInv, TypeOK
<1> SUFFICES ASSUME NEW n \in DOMAIN issued PROVE NonceCounts(n)'
  BY <1>1 DEF RepeatInv
<1>6. NonceCounts(n) /\ Used(n)' = Used(n) /\ Behind(n)' \subseteq Behind(n) /\ n # 0
  <2>1. NonceCounts(n) /\ n # 0
    BY DEF RepeatInv, AuthInv, TypeOK
  <2>2. Used(n)' = Used(n)
    BY <1>1 DEF Used
  <2>3. Behind(n)' \subseteq Behind(n)
    BY <1>1, <1>5 DEF Behind
  <2> QED BY <2>1, <2>2, <2>3
<1>7. n # m => \A p \in Behind(n)' : handler'[p].step = handler[p].step
  BY <1>5 DEF Behind
<1> HIDE DEF m, v, r
<1> QED BY <1>4, <1>6, <1>7, CountShrinks DEF AuthInv

LEMMA UpsertCounts ==
  ASSUME AuthInv, TypeOK', RepeatInv, NEW q \in Requests, UpsertUser(q)
  PROVE  RepeatInv'
<1> DEFINE m == handler[q].nonce
           r == Request("verify", "upserted", handler[q].wallet, m, 0, FALSE)
<1>1. /\ UNCHANGED <<issued, sessions, nonce>> /\ handler' = [handler EXCEPT ![q] = r]
      /\ handler[q].op = "verify" /\ handler[q].step = "consumed" /\ r.nonce = m
  BY DEF UpsertUser, Serve, Proceed, Hold, redis, Request
<1>2. handler'[q].nonce = m /\ \A p \in Requests : p # q => handler'[p] = handler[p]
  <2> HIDE DEF r
  <2> QED BY <1>1 DEF AuthInv, TypeOK
<1> SUFFICES ASSUME NEW n \in DOMAIN issued PROVE NonceCounts(n)'
  BY <1>1 DEF RepeatInv
<1>3. NonceCounts(n) /\ Used(n)' = Used(n) /\ Behind(n)' \subseteq Behind(n)
  BY <1>1, <1>2 DEF RepeatInv, Used, Behind
<1>4. n = m => \A w \in Wallets : nonce'[w] # n
  BY <1>1, <1>3 DEF NonceCounts, Behind
<1>5. n # m => \A p \in Behind(n)' : handler'[p].step = handler[p].step
  BY <1>2 DEF Behind
<1> HIDE DEF m, r
<1> QED BY <1>1, <1>3, <1>4, <1>5, CountShrinks DEF AuthInv

\* The session takes the place of the verification.
LEMMA IssueCounts ==
  ASSUME AuthInv, TypeOK', RepeatInv, NEW q \in Requests, IssueTokens(q)
  PROVE  RepeatInv'
<1> SUFFICES ASSUME NEW m, m = handler[q].nonce, NEW s, s = Len(sessions) + 1 PROVE RepeatInv'
  OBVIOUS
<1> DEFINE e == [wallet |-> handler[q].wallet, nonce |-> m]
<1>1. /\ UNCHANGED <<issued, nonce>> /\ handler' = [handler EXCEPT ![q] = IdleRequest]
      /\ handler[q].op = "verify" /\ handler[q].step = "upserted"
      /\ IdleRequest.op # "verify" /\ sessions' = Append(sessions, e) /\ e.nonce = m
  BY DEF IssueTokens, Serve, Reply, Hold, IdleRequest, Request
<1>2. /\ handler'[q].op # "verify"
      /\ \A p \in Requests : p # q => handler'[p] = handler[p]
  BY <1>1 DEF AuthInv, TypeOK
<1>3. /\ DOMAIN sessions' = DOMAIN sessions \cup {s} /\ sessions'[s].nonce = m
      /\ \A t \in DOMAIN sessions : sessions'[t] = sessions[t]
      /\ s \notin DOMAIN sessions
  <2> HIDE DEF e
  <2> QED BY <1>1 DEF AuthInv, TypeOK
<1> HIDE DEF e
<1> SUFFICES ASSUME NEW n \in DOMAIN issued PROVE NonceCounts(n)'
  BY <1>1 DEF RepeatInv
<1>4. NonceCounts(n)
  BY DEF RepeatInv
<1>5. CASE n = m
  <2>1. Used(m)' = Used(m) \cup {s} /\ s \notin Used(m)
    BY <1>3 DEF Used
  <2>2. Behind(m)' = Behind(m) \ {q} /\ q \in Behind(m)
    BY <1>1, <1>2 DEF Behind
  <2>3. Cardinality(Used(m)') = Cardinality(Used(m)) + 1
    BY <2>1, Finite, FS_AddElement DEF AuthInv
  <2>4. Cardinality(Behind(m)') = Cardinality(Behind(m)) - 1
    BY <2>2, Finite, FS_RemoveElement DEF AuthInv
  <2>5. Cardinality(Used(m)') + Cardinality(Behind(m)') <= Cardinality(Requests)
    BY <1>4, <1>5, <2>3, <2>4, Finite DEF NonceCounts, AuthInv
  <2>6. \A w \in Wallets : nonce'[w] # m
    BY <1>1, <1>4, <1>5, <2>2 DEF NonceCounts
  <2> QED BY <1>5, <2>5, <2>6 DEF NonceCounts
<1>6. CASE n # m
  <2>1. Used(n)' = Used(n)
    BY <1>3, <1>6 DEF Used
  <2>2. Behind(n)' \subseteq Behind(n) /\ \A p \in Behind(n)' : handler'[p].step = handler[p].step
    BY <1>2 DEF Behind
  <2> QED BY <1>1, <1>4, <2>1, <2>2, CountShrinks DEF AuthInv
<1> QED BY <1>5, <1>6

\* The other steps.
LEMMA OtherCounts ==
  ASSUME AuthInv, TypeOK', RepeatInv,
         \/ \E w \in Wallets : NonceExpires(w)
         \/ \E q \in Requests : RefreshAccessToken(q) \/ RevokeRefreshToken(q) \/ RequestFails(q)
         \/ \E q \in Requests, s \in DOMAIN sessions : RefreshLoad(q, s) \/ LogoutLoad(q, s)
         \/ \E s \in refresh : RefreshExpires(s)
         \/ \E a \in access : AccessExpires(a) \/ UpdateMe(a)
  PROVE  RepeatInv'
<1>1. UNCHANGED <<issued, sessions>>
  BY DEF NonceExpires, RefreshAccessToken, RevokeRefreshToken, RequestFails, RefreshLoad, LogoutLoad,
         RefreshExpires, AccessExpires, UpdateMe
<1>2. \A w \in Wallets : nonce'[w] \in {0, nonce[w]}
  <2>1. \/ UNCHANGED nonce
        \/ \E w \in Wallets \cup {NoWallet} : nonce' = [nonce EXCEPT ![w] = 0]
    BY Served DEF NonceExpires, RefreshAccessToken, RevokeRefreshToken, RequestFails, RefreshLoad,
         LogoutLoad, RefreshExpires, AccessExpires, UpdateMe, redis, DelNonce, RequestType
  <2>2. nonce \in [Wallets -> 0..Len(issued)]
    BY DEF AuthInv, TypeOK
  <2> QED BY <2>1, <2>2
<1>3. \A q \in Requests : handler'[q] = handler[q] \/ handler'[q].op # "verify"
  <2>1. ASSUME NEW q \in Requests, NEW r, r.op # "verify", Hold(q, r)
        PROVE  \A p \in Requests : handler'[p] = handler[p] \/ handler'[p].op # "verify"
    BY <2>1 DEF Hold, AuthInv, TypeOK
  <2>2. ASSUME NEW q \in Requests, Reply(q)
        PROVE  \A p \in Requests : handler'[p] = handler[p] \/ handler'[p].op # "verify"
    <3>1. IdleRequest.op # "verify"
      BY DEF IdleRequest, Request
    <3> QED BY <2>1, <2>2, <3>1 DEF Reply
  <2>3. ASSUME NEW q \in Requests, NEW s \in DOMAIN sessions, RefreshLoad(q, s) \/ LogoutLoad(q, s)
        PROVE  \A p \in Requests : handler'[p] = handler[p] \/ handler'[p].op # "verify"
    <3> DEFINE late == s \in loggedOut
    <3>1. /\ Request("refresh", "found", NoWallet, 0, s, late).op # "verify"
          /\ Request("logout", "found", NoWallet, 0, s, FALSE).op # "verify"
      BY DEF Request
    <3>2. \/ Hold(q, Request("refresh", "found", NoWallet, 0, s, late))
          \/ Hold(q, Request("logout", "found", NoWallet, 0, s, FALSE))
          \/ UNCHANGED handler
      BY <2>3 DEF RefreshLoad, LogoutLoad
    <3> HIDE DEF late
    <3> QED BY <2>1, <3>1, <3>2
  <2>4. ASSUME \/ \E w \in Wallets : NonceExpires(w)
               \/ \E s \in refresh : RefreshExpires(s)
               \/ \E a \in access : AccessExpires(a) \/ UpdateMe(a)
        PROVE  UNCHANGED handler
    BY <2>4 DEF NonceExpires, RefreshExpires, AccessExpires, UpdateMe
  <2>5. ASSUME NEW q \in Requests, RefreshAccessToken(q) \/ RevokeRefreshToken(q) \/ RequestFails(q)
        PROVE  Reply(q)
    BY <2>5 DEF RefreshAccessToken, RevokeRefreshToken, RequestFails
  <2> QED BY <2>2, <2>3, <2>4, <2>5
<1> QED BY <1>1, <1>2, <1>3, QuietCounts DEF AuthInv

LEMMA CountStep == AuthInv /\ AuthInv' /\ RepeatInv /\ [Next]_vars => RepeatInv'
<1> SUFFICES ASSUME AuthInv, TypeOK', RepeatInv, [Next]_vars PROVE RepeatInv'
  BY DEF AuthInv
<1>1. CASE UNCHANGED vars
  BY <1>1, QuietCounts DEF vars, redis, AuthInv
<1>2. ASSUME NEW w \in Wallets, GenerateNonce(w) PROVE RepeatInv'
  BY <1>2, GenerateCounts
<1>3. ASSUME NEW q \in Requests, ConsumeNonce(q) \/ UpsertUser(q) \/ IssueTokens(q) PROVE RepeatInv'
  BY <1>3, ConsumeCounts, UpsertCounts, IssueCounts
<1>4. ASSUME NEW q \in Requests, NEW w \in Wallets, NEW n \in DOMAIN issued, VerifyLoad(q, w, n)
      PROVE  RepeatInv'
  BY <1>4, VerifyCounts
<1> QED BY <1>1, <1>2, <1>3, <1>4, OtherCounts DEF Next, Serving

\* However verifications interleave with each other, with new nonces, expiry and
\* failures, a nonce logs in at most as often as requests are served at once.
THEOREM RepeatsBounded == Spec => []RepeatsOverlap
<1>1. Init => RepeatInv
  BY DEF Init, RepeatInv
<1>2. Spec => []RepeatInv
  BY <1>1, Invariant, CountStep, PTL DEF Spec
<1>3. AuthInv /\ RepeatInv => RepeatsOverlap
  <2> SUFFICES ASSUME AuthInv, RepeatInv, NEW n \in DOMAIN issued
               PROVE  Cardinality(Used(n)) <= Cardinality(Requests)
    BY DEF RepeatsOverlap, Used
  <2> QED BY Finite DEF AuthInv, RepeatInv, NonceCounts
<1> QED BY <1>2, <1>3, Invariant, PTL
================================================================================
