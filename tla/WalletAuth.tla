------------------------------ MODULE WalletAuth ------------------------------
(***************************************************************************)
(* Logging in with a wallet (auth.service.ts, auth.controller.ts): a nonce *)
(* is issued to a wallet, its signature is exchanged for an access token   *)
(* and a refresh token, the refresh token for more access tokens, until it *)
(* is revoked.  Nonces and refresh tokens are keys in Redis that are read  *)
(* and deleted by separate calls, users are rows in Supabase, and an       *)
(* access token is nowhere but with the client, valid until it expires.    *)
(*                                                                         *)
(* A nonce and a refresh token are their numbers: random bytes do not      *)
(* repeat.  A signature is that of the wallet that sends it.               *)
(***************************************************************************)
EXTENDS Naturals, Sequences, FiniteSets

CONSTANTS
  Wallets,
  NoWallet,
  Requests,   \* requests served at once
  AuthFaults, \* "throw": a call fails, with or without its effect, or a restart
  MaxNonces,  \* bound: nonces issued in all
  MaxSessions \* bound: refresh tokens stored in all

ASSUME AuthAssumption ==
  /\ AuthFaults \subseteq {"throw"}
  /\ IsFiniteSet(Requests)
  /\ MaxNonces \in Nat /\ MaxSessions \in Nat

VARIABLES
  nonce,     \* nonce:{pubkey}, 0 when there is none
  refresh,   \* the refresh tokens in refresh:{userId}:{tokenHash}
  users,     \* the row of each wallet: none, new, or its onboarding completed
  access,    \* access tokens that have not expired
  handler,   \* requests in flight
  (* history *)
  issued,    \* the wallet each nonce was issued to
  sessions,  \* the wallet and the nonce behind each refresh token
  loggedOut  \* refresh tokens whose logout has been answered

redis == <<nonce, refresh>>
vars  == <<redis, users, access, handler, issued, sessions, loggedOut>>

\* What a request holds: a verification its nonce, the others their refresh token.
Request(op, step, w, n, s, late) ==
  [op |-> op, step |-> step, wallet |-> w, nonce |-> n, session |-> s, late |-> late]

IdleRequest == Request("none", "idle", NoWallet, 0, 0, FALSE)

RequestType ==
  [op : {"none", "verify", "refresh", "logout"},
   step : {"idle", "matched", "consumed", "upserted", "found"},
   wallet : Wallets \cup {NoWallet}, nonce : 0..Len(issued),
   session : 0..Len(sessions), late : BOOLEAN]

TypeOK ==
  /\ nonce \in [Wallets -> 0..Len(issued)]
  /\ refresh \subseteq DOMAIN sessions
  /\ users \in [Wallets -> {"none", "new", "onboarded"}]
  /\ access \subseteq [session : DOMAIN sessions, late : BOOLEAN]
  /\ handler \in [Requests -> RequestType]
  /\ issued \in Seq(Wallets)
  /\ sessions \in Seq([wallet : Wallets, nonce : 1..Len(issued)])
  /\ loggedOut \subseteq DOMAIN sessions

Init ==
  /\ nonce = [w \in Wallets |-> 0]
  /\ refresh = {}
  /\ users = [w \in Wallets |-> "none"]
  /\ access = {}
  /\ handler = [q \in Requests |-> IdleRequest]
  /\ issued = <<>> /\ sessions = <<>> /\ loggedOut = {}

Serve(q, op, step) == handler[q].op = op /\ handler[q].step = step
Hold(q, r)         == handler' = [handler EXCEPT ![q] = r]
Reply(q)           == Hold(q, IdleRequest)
Proceed(q, to)     == Hold(q, Request("verify", to, handler[q].wallet, handler[q].nonce, 0, FALSE))

-----------------------------------------------------------------------------
(* POST /auth/nonce: a wallet has one nonce, the last one it asked for *)

GenerateNonce(w) ==
  /\ Len(issued) < MaxNonces
  /\ issued' = Append(issued, w)
  /\ nonce' = [nonce EXCEPT ![w] = Len(issued) + 1]
  /\ UNCHANGED <<refresh, users, access, handler, sessions, loggedOut>>

\* After five minutes.
NonceExpires(w) ==
  /\ nonce[w] # 0
  /\ nonce' = [nonce EXCEPT ![w] = 0]
  /\ UNCHANGED <<refresh, users, access, handler, issued, sessions, loggedOut>>

-----------------------------------------------------------------------------
(* POST /auth/verify: the wallet signs some nonce that was issued *)

\* Variant: it is enough that the wallet has asked for a nonce.
NonceMatchesAny(w, n) == nonce[w] # 0

NonceMatches(w, n) == nonce[w] = n

\* WalletAuthGuard has seen the signature, and consumeNonce reads the nonce.
VerifyLoad(q, w, n) ==
  /\ handler[q].step = "idle"
  /\ NonceMatches(w, n)
  /\ Len(sessions) + Cardinality({p \in Requests : handler[p].op = "verify"}) < MaxSessions
  /\ Hold(q, Request("verify", "matched", w, n, 0, FALSE))
  /\ UNCHANGED <<redis, users, access, issued, sessions, loggedOut>>

DelNonce(q) == nonce' = [nonce EXCEPT ![handler[q].wallet] = 0]

\* Variant: the deletion is left to the time to live.
ConsumeNonceKept(q) ==
  /\ Serve(q, "verify", "matched")
  /\ Proceed(q, "consumed")
  /\ UNCHANGED <<redis, users, access, issued, sessions, loggedOut>>

\* ... and deletes the key, whatever nonce it holds by now.
ConsumeNonce(q) ==
  /\ Serve(q, "verify", "matched")
  /\ DelNonce(q)
  /\ Proceed(q, "consumed")
  /\ UNCHANGED <<refresh, users, access, issued, sessions, loggedOut>>

\* Variant: the upsert writes a row with default values.
UpsertRowAnew(w) == users' = [users EXCEPT ![w] = "new"]

\* The upsert names no column but the key: a row that is there stays as it is.
UpsertRow(w) == users' = [users EXCEPT ![w] = IF @ = "none" THEN "new" ELSE @]

UpsertUser(q) ==
  /\ Serve(q, "verify", "consumed")
  /\ UpsertRow(handler[q].wallet)
  /\ Proceed(q, "upserted")
  /\ UNCHANGED <<redis, access, issued, sessions, loggedOut>>

\* Variant: both tokens are those of the session before.
IssueTokensBehind(q) ==
  LET s == Len(sessions)
  IN  /\ Serve(q, "verify", "upserted")
      /\ sessions' = Append(sessions, [wallet |-> handler[q].wallet, nonce |-> handler[q].nonce])
      /\ refresh' = refresh \cup {s}
      /\ access' = access \cup {[session |-> s, late |-> FALSE]}
      /\ Reply(q)
      /\ UNCHANGED <<nonce, users, issued, loggedOut>>

\* issueTokens stores the refresh token and hands out both.
IssueTokens(q) ==
  LET s == Len(sessions) + 1
  IN  /\ Serve(q, "verify", "upserted")
      /\ sessions' = Append(sessions, [wallet |-> handler[q].wallet, nonce |-> handler[q].nonce])
      /\ refresh' = refresh \cup {s}
      /\ access' = access \cup {[session |-> s, late |-> FALSE]}
      /\ Reply(q)
      /\ UNCHANGED <<nonce, users, issued, loggedOut>>

-----------------------------------------------------------------------------
(* POST /auth/refresh and POST /auth/logout: the keys that end in the token's *)
(* hash are listed first, then read or deleted.                               *)

RefreshLoad(q, s) ==
  /\ handler[q].step = "idle"
  /\ s \in refresh
  /\ Hold(q, Request("refresh", "found", NoWallet, 0, s, s \in loggedOut))
  /\ UNCHANGED <<redis, users, access, issued, sessions, loggedOut>>

\* The key may be gone, and then the token is refused after all.
RefreshAccessToken(q) ==
  LET h == handler[q]
  IN  /\ Serve(q, "refresh", "found")
      /\ access' = IF h.session \in refresh
                     THEN access \cup {[session |-> h.session, late |-> h.late]}
                     ELSE access
      /\ Reply(q)
      /\ UNCHANGED <<redis, users, issued, sessions, loggedOut>>

\* A token that is not there counts as logged out.
LogoutLoad(q, s) ==
  /\ handler[q].step = "idle"
  /\ IF s \in refresh
       THEN Hold(q, Request("logout", "found", NoWallet, 0, s, FALSE)) /\ UNCHANGED loggedOut
       ELSE loggedOut' = loggedOut \cup {s} /\ UNCHANGED handler
  /\ UNCHANGED <<redis, users, access, issued, sessions>>

DelRefresh(q) == refresh' = refresh \ {handler[q].session}

\* Variant: the answer does not wait for the deletion to succeed.
RevokeRefreshTokenUnawaited(q) ==
  /\ Serve(q, "logout", "found")
  /\ DelRefresh(q) \/ UNCHANGED refresh
  /\ loggedOut' = loggedOut \cup {handler[q].session}
  /\ Reply(q)
  /\ UNCHANGED <<nonce, users, access, issued, sessions>>

RevokeRefreshToken(q) ==
  /\ Serve(q, "logout", "found")
  /\ DelRefresh(q)
  /\ loggedOut' = loggedOut \cup {handler[q].session}
  /\ Reply(q)
  /\ UNCHANGED <<nonce, users, access, issued, sessions>>

\* After thirty days.
RefreshExpires(s) ==
  /\ s \in refresh
  /\ refresh' = refresh \ {s}
  /\ UNCHANGED <<nonce, users, access, handler, issued, sessions, loggedOut>>

\* After fifteen minutes, which JwtStrategy looks at and nothing else.
AccessExpires(a) ==
  /\ a \in access
  /\ access' = access \ {a}
  /\ UNCHANGED <<redis, users, handler, issued, sessions, loggedOut>>

\* PATCH /users/me by the bearer of an access token.
UpdateMe(a) ==
  /\ a \in access
  /\ users' = [users EXCEPT ![sessions[a.session].wallet] = "onboarded"]
  /\ UNCHANGED <<redis, access, handler, issued, sessions, loggedOut>>

-----------------------------------------------------------------------------
\* A call throws, before its effect or after it, or the process restarts.
RequestFails(q) ==
  /\ "throw" \in AuthFaults
  /\ handler[q].step # "idle"
  /\ Reply(q)
  /\ \/ UNCHANGED <<redis, users>>
     \/ handler[q].step = "matched" /\ DelNonce(q) /\ UNCHANGED <<refresh, users>>
     \/ handler[q].step = "consumed" /\ UpsertRow(handler[q].wallet) /\ UNCHANGED redis
     \/ handler[q].op = "logout" /\ DelRefresh(q) /\ UNCHANGED <<nonce, users>>
  /\ UNCHANGED <<access, issued, sessions, loggedOut>>

Serving(q) ==
  \/ ConsumeNonce(q) \/ UpsertUser(q) \/ IssueTokens(q)
  \/ RefreshAccessToken(q) \/ RevokeRefreshToken(q) \/ RequestFails(q)

Next ==
  \/ \E w \in Wallets : GenerateNonce(w) \/ NonceExpires(w)
  \/ \E q \in Requests :
       \/ Serving(q)
       \/ \E w \in Wallets, n \in DOMAIN issued : VerifyLoad(q, w, n)
       \/ \E s \in DOMAIN sessions : RefreshLoad(q, s) \/ LogoutLoad(q, s)
  \/ \E s \in refresh : RefreshExpires(s)
  \/ \E a \in access : AccessExpires(a) \/ UpdateMe(a)

Spec == Init /\ [][Next]_vars

-----------------------------------------------------------------------------
(* Properties *)

\* Whoever is logged in has signed a nonce that was issued to that very wallet,
\* and is a user.
LoginsWereSigned ==
  \A s \in DOMAIN sessions :
    /\ issued[sessions[s].nonce] = sessions[s].wallet
    /\ users[sessions[s].wallet] # "none"

\* "Removes it (one-time use)": consumeNonce reads and deletes by two calls, so a
\* nonce logs in as often as there are verifications at once, and never again.
RepeatsOverlap ==
  \A n \in DOMAIN issued :
    Cardinality({s \in DOMAIN sessions : sessions[s].nonce = n}) <= Cardinality(Requests)

\* "Subsequent calls to /refresh with the same token will be rejected": once a
\* logout is answered the token is gone for good, whatever refreshes were on the
\* way, and no request that comes later gets an access token.
LoggedOutStaysOut == refresh \cap loggedOut = {} /\ \A a \in access : ~a.late

\* Logging in again, or from a second device, leaves the profile as it is.
LoginKeepsProfile ==
  [][\A w \in Wallets : users[w] = "onboarded" => users'[w] = "onboarded"]_vars
==============================================================================
