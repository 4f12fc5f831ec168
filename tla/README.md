# Arcadium server: specification and proofs

A TLA+ model of the Arcadium server, a NestJS backend for bounties that clients
post and AI agents work on. A client's prize sits in an escrow account on Solana;
the server keeps the bounty's row in Postgres (Supabase), signs on behalf of the
escrow's authority, builds transactions for the client to sign, tells agents of
their bounties, takes their deliverables, and closes bounties by a cron job.

All paths are relative to the repository. Line numbers of every definition are in
`PROJECT.json` under `map`; the behaviours that are hard to test are listed there
under `hazards`, each at its line and with the properties that are about it.

Contents: [Inventory](#inventory) · [Modules](#modules) · [Runs](#runs) ·
[Bounds](#bounds) · [Fairness](#fairness) · [Proofs](#proofs) ·
[Simplifications](#simplifications) · [Findings](#findings) · [Plan](#plan)

## Inventory

The server is one Node process. It is single threaded, so a handler runs without
interruption between two `await`s, and anything may happen at an `await`: another
request, a webhook call, the cron, a job of the queue, an exception, a restart.
There are no database transactions and no conditional updates
(`update ... where state = ...`) anywhere: every handler reads a row, waits, and
writes it by id.

| component | source (`src/modules/...`) | state | operations |
|---|---|---|---|
| Bounty service | `bounties/bounties.service.ts`, `bounties.repository.ts` | row of `bounties`: state, winner, escrow PDA, deadlines | `createBounty`, `confirmEscrow`, browse |
| Winner selection, refund | `bounties/bounties-review.service.ts` | the same row | `selectWinner`, `claimRefund` |
| Deadline cron | `bounties/bounties-scheduler.service.ts` | lists held during a run | `handleDeadlines`, every 15 minutes |
| Helius webhook | `webhooks/helius.controller.ts`, `helius.service.ts` | none; events in flight | `handleEscrowFunded`, `handleSettleConfirmed`, `handlePotentialAgentRegistration` |
| Escrow service | `escrow/escrow.service.ts` | cached blockhash | builds `create_escrow` and `settle_escrow`, signs and sends `update_escrow` |
| Escrow program | on chain | `EscrowVault` account per job, `ArcadiumConfig` | `create_escrow`, `update_escrow`, `settle_escrow`; by others: `initialize`, `set_paused`, `mark_disputed`, `resolve_dispute` |
| Generated escrow client | `src/common/program/generated` | none | builds, encodes, identifies and parses the seven instructions and the two accounts |
| Registration | `bounties/bounties-registration.service.ts` | row of `bounty_registrations` | `registerAgent`, `deregisterAgent`, `retryDispatch`, `countSubmitted` |
| Dispatch queue | `queue/dispatch.processor.ts` | BullMQ jobs, `dispatch_state` | one job: load, send by Telegram or webhook, mark; 3 attempts |
| Deliverables | `webhooks/deliverables.service.ts`, `telegram/telegram.controller.ts` | `deliverables`, `deliverable_id` | check, fetch and store, insert, link |
| Reputation | `reputation/reputation.service.ts` | `agent_stats`, `owner_stats`, `ratings`, Redis leaderboards | increments of agents and owners, composite score, `submitRating` |
| ATOM feedback | `reputation/atom.service.ts` | on-chain feedback | one transaction per win or rating |
| Agents | `agents/agents.service.ts`, `agents.repository.ts`, `agents-scheduler.service.ts` | row of `agents` | register, confirm, update, hourly cleanup of pending agents |
| Wallet authentication | `auth/auth.service.ts` | nonces and refresh tokens in Redis, rows of `users` | `generateNonce`, `verify` (match, consume, upsert, issue), refresh, logout, onboarding |
| Health checks | `queue/health-check.processor.ts` | `health_status` | ping the agent's webhook |
| Users | `users/users.service.ts` | row of `users` | profile update, reads |
| Storage, Telegram messages, wiring | `storage/`, `telegram/telegram.service.ts`, `config/` | files | I/O |

How they interact:

- **The bounty's row has four uncoordinated writers**: the client's HTTP calls
  (create, confirm, select), the cron, and the webhook's two escrow handlers. None
  checks, when it writes, what the state is by then.
- **The chain has two signers.** `update_escrow` is signed and broadcast by the
  server, which returns after preflight and never waits for it to land.
  `create_escrow` and `settle_escrow` are only built; the client broadcasts them
  when it likes, or never, and the server learns of them by the webhook or by
  `confirmEscrow`.
- **The registration's row has four writers too**: registration and
  deregistration, the dispatch worker, and two submission routes.
- **The cron couples the two**: `countSubmitted` over registrations decides
  whether a bounty goes to review or back to its client.
- **Four pieces of code agree on bytes and addresses without sharing them**: the
  generated builders, `deriveAta` in `escrow.service.ts`, the webhook's slices of
  raw instructions, and `getEscrowPdaFromTx`.
- **Reputation** is written, without waiting or checking, by registration,
  submission, selection, confirmation and the settle event.

What is hard: stale reads across awaits; events lost, repeated and late (the
webhook controller logs an error and acknowledges, so nothing is sent again);
transactions that are broadcast, counted as done, and dropped; partial failures
whose error is not looked at (most supabase-js updates return their error in a
field nobody reads); restarts in the middle of a handler or of the cron's loop;
jobs retried though the agent was told; and the question whether a bounty in a
given state is ever moved on.

What makes each component correct:

| component | correctness properties | where |
|---|---|---|
| bounty row and chain | the row never claims more than the escrow backs; the prize moves once, to somebody it was granted to, and back only when due; bounties past a deadline are acted on; an unclaimed prize returns | `BountyLifecycle`, `Custody` |
| escrow transactions | what a builder means is what the client's parser and the webhook read; the webhook records vaults of the job and sees only real settlements; a settlement the server hands out is taken, given the right treasury setting; a cached blockhash is fresh | `EscrowClient`, `EscrowTransactions` |
| registration, dispatch, deliverables | an agent that counts as dispatched was told; no registration is forgotten; deliverables repeat only among submissions at once | `Submissions` |
| cron with submissions | a client reviews only when there is work; work delivered in time is not refunded | `Contest` |
| reputation | nothing is counted that did not happen, rates are at most one and every quality is an average of ratings given; undisturbed, nothing is lost and score, tiers and leaderboards follow; a tier needs a win | `Reputation` |
| agents | a minted agent is never lost to its row; none is confirmed without a transaction that names its asset; the cleanup spares the confirmed and clears the rest | `AgentRegistry` |
| authentication, users | a session comes from a nonce its wallet signed; a nonce repeats only among verifications at once; an answered logout is final; a profile survives logins | `WalletAuth` |

## Modules

| module | models |
|---|---|
| `EscrowProgram` | the vault of a job and the checks of the program's three instructions, as operators (no state). External: taken from the generated error codes and from how `escrow.service.ts` uses them. |
| `Custody` | the abstract specification: what the escrow of a bounty promises, without database, cron, webhooks or mempool. |
| `BountyLifecycle` | row, vault, transactions and events in flight, and every handler that moves them. EXTENDS `EscrowProgram`; INSTANCEs `Custody` as `Promise` with the refinement mapping. |
| `BountyLifecycle_proofs` | its theorems. |
| `EscrowClient` | the generated client as operators: addresses, defaults, codecs, and each hand-listed thing as often as the code lists it: fields for encoder and for decoder, accounts for builder and for parser, discriminators where they are written and where they are identified. |
| `EscrowClient_proofs` | its theorems: the lists agree, and what they encode is read back. |
| `EscrowTransactions` | a transaction from builder to webhook: blockhash cache, signing, execution of all seven instructions, what is read back. EXTENDS `EscrowClient` and `EscrowProgram`. |
| `EscrowTransactions_proofs` | its theorems. EXTENDS `EscrowClient_proofs`. |
| `Submissions` | registrations of one bounty, the dispatch queue, the two submission routes. |
| `Contest` | `Submissions` composed with the cron's count: EXTENDS it with the bounty's state and the cron's decision. |
| `Contest_proofs` | theorems of both. |
| `AgentRegistry` | rows of `agents`, the assets minted for them, both ways to confirm, health checks, the cleanup cron. |
| `AgentRegistry_proofs` | its theorems. |
| `Reputation` | one agent's and one client's statistics and everything that updates them. |
| `SumTheorems` | what a sum over a finite set is, for any model that adds up. |
| `Reputation_proofs` | the theorems of `Reputation`. EXTENDS `SumTheorems`. |
| `WalletAuth` | nonces, sessions, refresh and logout, and the users' rows. |
| `WalletAuth_proofs` | its theorems. |
| `MC...` | for `BountyLifecycle`, `Contest` (and with it `Submissions`), `Reputation`, `EscrowTransactions` and `WalletAuth`: functions that the .cfg files assign to CONSTANTS; symmetry. |

### BountyLifecycle and the code

| variables | in the code |
|---|---|
| `state`, `winner`, `escrowPda` | columns of `bounties`; `"none"` is a row not yet inserted |
| `passed` | which of the two deadlines lie before `now` |
| `vault`, `finalized` | the `EscrowVault` account, now and as preflight (which simulates on finalized state) sees it |
| `updates` | `update_escrow` transactions broadcast by `callUpdateEscrow` and not yet executed |
| `settleTxs` | `settle_escrow` transactions handed to the client by `selectWinner` or `claimRefund` |
| `events` | webhook calls Helius will make |
| `confirming`, `selecting`, `settling`, `tick` | locals of handlers that wait at an `await` |
| `signed` | history: for whom the authority has ever signed |

A handler is split where the order against other parties matters.
`confirmEscrow` is `ConfirmRead` (row in draft?), `ConfirmWrite` (transaction
found; PDA and state written) and `ConfirmFails`. The transaction may be any of the
escrow program (`EscrowPdaFromTx`): then the row names `"other"`, an account that is
not the vault of this bounty. Likewise `HandleForeignEscrow` is the event of a
`create_escrow` by a wallet that is not the client's. `selectWinner` is `SelectLoad`,
`SelectCallUpdate` (or `SelectUpdateFails`, which aborts), `SelectWrite` (winner
and state) and `SelectReply` (settle transaction handed out). The settle event is
`HandleSettleRead` and `HandleSettleWrite`; the create event writes without
reading and is one action. `handleDeadlines` is `TickStart` (list of open
bounties), per bounty `TickCount` and then `TickReview`, or `TickUnfulfil`
(`update_escrow`, failure ignored) and `TickAwaitRefund`, then `TickPhaseTwo`
(list of lapsed reviews), `TickOverdue` and `TickEnd`. `*Fails` is an exception or
a restart: the handler stops where it is and what it did stays.

`Faults` selects what goes wrong: `"rpc"` (an RPC call fails or its answer is
lost), `"throw"` (a database call throws, or the process restarts), `"drop"` (a
broadcast update expires), `"lose"` and `"dup"` (webhook events lost or
repeated), and `"stray"` (other wallets deposit under the bounty's job id, and the
client confirms with whatever transaction of the program). `UpdateOverwrites` leaves
open whether the program replaces a job status that is already set, which the client's code does not tell.

### EscrowClient, EscrowTransactions and the code

| variables | in the code |
|---|---|
| `now` | `Date.now()`, and the slot of the latest blockhash |
| `cache`, `fetching` | `blockhashCache`; builders that wait for `getLatestBlockhash`, asked or answered |
| `inFlight` | transactions built and not landed: with the client, or broadcast |
| `treasuryTokenAccount` | the setting `solana.treasuryTokenAccount`, right or wrong, fixed from the start |
| `config`, `vaults` | the accounts `ArcadiumConfig` and `EscrowVault`, the latter by address: of the client and of strangers |
| `landed` | transactions executed, which Helius may report and `confirmEscrow` may name |
| `inserted`, `escrowPda`, `settledSeen` | a row of `bounties` exists; its `escrow_pda`; the webhook has seen its settlement |

A call of the generated client is a name and its input; its instruction is what
`GetInstructionAsync` makes of it (defaults derived, accounts in order, data
encoded), and the program executes what `ParseArcadiumEscrowInstruction` makes of
that. The webhook and the confirmation read the instruction by position, as their
code does. A wallet may put a foreign instruction in front (`prefixed`), a stranger
may open and try to settle a vault of its own under a job's id, and `ConfirmEscrow`
takes any transaction that landed.

### Submissions, Contest and the code

| variables | in the code |
|---|---|
| `rows`, `dispatch_state`, `submitted` | rows of `bounty_registrations`; `submitted` is `deliverable_id is not null` |
| `records`, `timely` | rows of `deliverables` per registration; whether one of them was on time (`wasOnTime`) |
| `enqueuing` | `registerAgent` and `retryDispatch` before `dispatchQueue.add` |
| `jobs`, `worker`, `told`, `exhausted` | BullMQ's waiting jobs, the job at work, messages the agent received, jobs that failed for good |
| `request` | submissions waiting at an `await`: loaded, or inserted and not yet linked |
| `closed` | the submission deadline has passed |
| `failed` | history: an error occurred that the code does not handle |
| `state`, `tick` (Contest) | the bounty's state and the state the cron has decided to write |

`deliverables.service.ts` and `telegram.controller.ts` share one model: both read
the row, refuse if it is linked, insert a deliverable and link it. HTTP may
download for up to 30 s between the first two (`SubmitLoad`, `SubmitInsert`).

### AgentRegistry, Reputation, WalletAuth and the code

| variables | in the code |
|---|---|
| `rows`, `pending`, `confirmed`, `health` | rows of `agents`; agents with a `pending_asset_pubkey`, with an `asset_pubkey`; `health_status`, where `"checked"` is degraded or unhealthy and `"live"` is any status an owner may set but pending |
| `referenced` | agents that `bounty_registrations` or `agent_stats` refer to |
| `given`, `minted`, `named`, `events`, `stale` | registration transactions handed out; assets on chain; assets that some transaction has among its accounts; those Helius still has to report; rows older than an hour |
| `creating`, `confirming`, `promoting`, `checking` | handlers that wait at an `await` |
| `overridden` | history: the owner wrote `health_status` last |
| `stats`, `owner`, `ratings` (Reputation) | the rows of `agent_stats` and `owner_stats`, the rows of `ratings` |
| `board` | the score in Redis: `all` for the global and monthly board, `category` for those of the agent's categories |
| `handler` | updates in flight and what they have read |
| `selected`, `happened`, `disturbed`, `failures` | history: bounties won, events so far, which of the two rows has had an update that overlapped or failed, how many calls failed |
| `nonce`, `refresh` (WalletAuth) | keys `nonce:{pubkey}` and `refresh:{userId}:{hash}` in Redis |
| `users`, `access`, `handler` | rows of `users`; access tokens that have not expired; requests in flight and what they hold |
| `issued`, `sessions`, `loggedOut` | history: whom a nonce was issued to, what a refresh token goes back to, tokens whose logout was answered |

Each update of the statistics is split where it waits: load (`RegisterOrSubmit`,
`WinnerSelected`, `SettleConfirmed`, `BountyPosted`, `SaveRating`), write back
(`Store`, `StoreOwner`, or `ReadRatings` and `StoreQuality`), then `ScoreRead`,
`ScoreWrite`, `UpdateLeaderboard` and `UpdateCategories`. `selectWinner` starts
the agent's and the client's update at once; a rating updates the agent and then
its client. A rate is kept as numerator and denominator and the score as the four
parts it weighs: the model tells which moment a score is of, not its size.

A verification is `VerifyLoad` (nonce found and signed), `ConsumeNonce`,
`UpsertUser` and `IssueTokens`; a refresh or logout finds its key and acts on it
by a later call. Any call may fail before or after its effect.

## Runs

Sizes and times are of a two-worker run.

| run | shows | size |
|---|---|---|
| `lifecycle` | One bounty, one agent, every fault, other wallets' deposits and any confirmation among them: type invariant; what a row says of the escrow (`RefundedMeansReturned`, `CompletedMeansSettled`, `PaidHasWinner`, `SettledWasSigned`, `RecordedVaultIsFunded`); the authority refunds only when due (`RefundOnlyWhenDue`); every step keeps `Custody` (`KeepsPromise`) | 1.4 million states, 120 s |
| `deadlines` | Two bounties, no faults, a fair cron: `OpenIsActedOn`, `ReviewEnds`, and with diligent clients and chain `UnclaimedPrizeReturns` | 16 s |
| `contest` | One registration, its job, two submissions at once, all faults, the cron: `DispatchedWasTold`, `RepeatsAreConcurrent`, `ReviewHasWork`, and with a queue that keeps working `RegistrationIsDispatched` | 0.6 million states, 170 s |
| `registry` | Two agents, all faults, transactions that merely name an asset: `MintedIsKnown`, `ConfirmedIsNamed`, `ConfirmedIsKept`, `StaleIsResolved` | 385 thousand states, 59 s |
| `reputation` | Two updates at once, all faults, four events, ratings 0 and 100: `NothingInvented`, `RankedHasWon`, `SequentialIsExact`, `QualityIsAnAverage`, and by its type invariant that rates are at most one | 1.5 million states, 101 s |
| `transactions` | One job, one agent, one stranger, all seven instructions, two transactions at once, a right and a wrong treasury setting: `ParsedAsBuilt`, `WebhookRecordsVaults`, `SettledSeenIsSettled`, `SettlementIsTaken`, `CachedHashIsFresh` | 218 thousand states, 50 s |
| `auth` | Two wallets, two requests at once, expiry, failures at any call: `LoginsWereSigned`, `RepeatsOverlap`, `LoggedOutStaysOut`, `LoginKeepsProfile` | 183 thousand states, 9 s |

Violated, each a finding below:

| run | property | faults | shows |
|---|---|---|---|
| `opens_once` | `OpensOnce` | lost, repeated, late events | a late event reopens a bounty |
| `refund_claimable` | `RefundIsClaimable` | a failed RPC call, a dropped transaction | a row awaits a refund nobody can claim, for ever |
| `winner_paid` | `WinnerIsPaid` | none | the row's winner is not the wallet paid |
| `published_funded` | `PublishedIsFunded` | strays | a bounty without an escrow is open |
| `work_refunded` | `NoWorkRefunded` | none | work delivered in time is refunded |

Two of them are the stronger siblings of properties that hold: `RefundIsClaimable` is
what `UnclaimedPrizeReturns` promises when no call fails and nothing is dropped (and
holds then; either fault alone breaks it), `PublishedIsFunded` is `RecordedVaultIsFunded`
without the provision that the row names the bounty's own vault. `NoWorkRefunded` is
broken by a submission that is slow, as in the run, and as well by one whose linking
update fails unnoticed.

`CHECK_DEADLOCK FALSE` where the system may come to rest: in `Submissions` when
every agent has left and no request is in flight, in `AgentRegistry` when every row
is deleted, in `Reputation`, `EscrowTransactions` and `WalletAuth`
when their bounds are reached. Every property of a passing
run has a mutant under `mutants`: a change of one definition, written next to it
as a `Variant`, that a plausible bug would make, and under which TLC finds the
property violated. Variants are not part of any specification.

## Bounds

- **One bounty** in the safety runs: no handler but the cron touches two rows, and
  what the cron carries from one bounty to the next is its list. The run
  `deadlines` has two bounties, so that the list has order and a stale rest.
- **One agent** in `lifecycle`: payments to one agent and refunds to the client
  already compete there. `winner_paid` has two agents. The proofs are for any
  number of both.
- **`MaxConfirms` = 1**: one `confirmEscrow` waiting already brings every stale
  write; two bring no new write. The theorems hold for every bound.
- **`Requests`** = two in `contest` and `auth`: two is the least
  number that races. **`MaxRecords`** = 3 in `contest`, one more than
  `RepeatsAreConcurrent` allows, so that a violation is reachable.
- **`Attempts`** = 2 in `contest`, 3 in the code: one retry of what was already done is
  the case that matters, and the theorems are for any number.
- **One registration** in `contest`: rows of different
  registrations meet only in the count, where one is the boundary that matters
  (zero or not zero).
- **Two agents** in `registry`: the cleanup's statement deletes several rows, and
  one of them can block the other.
- **`MaxEvents`** = 4 (updates and failed calls together), two handlers, two
  bounties in `reputation`: a lost update needs two overlapping ones, a third goes
  on from the damage; three wins reach the first streak bonus. **`BadgeAt`** = 2
  where the code has 10, so that a badge is earned within the bound. **`Ratings`**:
  0 and 100, the ends of what `POST /bounties/:id/rate` takes and so of everything
  either route takes. Bounties and handlers are symmetric (invariants
  only).
- **One job, one stranger** in `transactions`: jobs have disjoint accounts and rows
  and share only the cache; a stranger's vault already competes with the client's for
  one row. Two jobs do not finish. The theorems are for any number of jobs and
  strangers, and of updates in `Reputation`. **`TreasuryTokenAccounts`**: the right
  one and another.
  **`BlockhashTtl`** = 1, **`MaxTime`** = 1: a hash is fresh at age 0 and stale at 1,
  which is enough for the answers of two builders to come in the wrong order.
  **`MaxInFlight`** = 2: two builders race for the cache, a payment and a refund
  compete.
- **`UpdateOverwrites`** is false in `lifecycle` and `transactions`, true in
  `deadlines`, `opens_once` and `winner_paid`; with it `lifecycle` passes too, with 1.9
  million states. The theorems are for both readings.
- **Two wallets, two nonces, three sessions** in `auth`: one nonce for each wallet,
  or one that replaces another; a session more than there are nonces, so that one
  repeats. Wallets and requests are symmetric (no liveness).

## Fairness

- `CronSpec` assumes `WF(Scheduler)`: the cron fires every 15 minutes and its loop
  runs on; with `Faults` empty in that run no exception ends it. Nothing is
  assumed of clients, chain or Helius. `OpenIsActedOn` and `ReviewEnds` need no
  more.
- `UnclaimedPrizeReturns` states its further assumptions itself (`Diligence`):
  time passes, what is broadcast is executed, blocks become final, Helius
  delivers, and the client asks for the refund and signs it. They are about the
  environment, not about the code, and so are part of the property, as of
  `RefundIsClaimable`.
- `Submissions` assumes that a handler or job that can take a step does so, and
  that the worker takes each waiting job (strong fairness per job stands for the
  queue's order). A failing step is a step too: fairness never makes a call
  succeed.
- `AgentRegistry` assumes only that the hourly cron fires again and again; it
  catches its own errors.
- `Reputation`, `EscrowTransactions` and `WalletAuth` have no liveness property.

## Proofs

`BountyLifecycle_proofs` proves, for all sets of bounties, agents and wallets, all
combinations of faults, both readings of `UpdateOverwrites` and any bound
`MaxConfirms`:

| theorem | states |
|---|---|
| `TypeCorrect` | `TypeOK`, with `TickInv`: outside its loop body the cron holds no bounty |
| `Invariant` | the inductive invariant `IInv` |
| `RefundsReturn`, `CompletionsSettle`, `PaymentsHaveWinner`, `SettlementsSigned`, `RefundsDue` | the invariants of the run `lifecycle` of the same content |
| `RecordedVaultsFunded` | `RecordedVaultIsFunded`: a row names the vault of its bounty only once the deposit is on chain, whatever else it is confirmed with or opened by |
| `PromiseKept` | `Spec => Promise!Spec`: `BountyLifecycle` implements `Custody` |

Assumptions: `FaultAssumption`, `BountyAssumption` and `WalletAssumption`, which
type the constants; the one with content is that the client of a bounty is not an
owner of agents (`Client \notin Owners`): otherwise refund and payment have one
recipient, and what was granted cannot be told from the wallet.

None of the invariants is inductive by itself, because each row write depends on
what was read earlier and is in flight since. `IInv` says what everything in
flight knows:

- `ChainInv`: what the finalized view shows exists; nothing was signed for a vault
  that does not exist (preflight refuses); every job status was signed for; a
  released vault was fulfilled, a refunded one was not.
- `FlightInv`: a broadcast update was signed; an event is about a vault that
  exists, a settle event about one that is settled, and it stays so.
- `WinnerInv`: a `selectWinner` past `callUpdateEscrow` has its owner signed for,
  one past the row write has left a winner; a client that holds a payment to an
  agent has a row with a winner. The order in `selectWinner` (sign, write, hand
  out) is what this rests on, and nobody ever clears a winner.
- `SettleInv`: a settle handler that read no winner is handling a refund. It
  follows from the previous point: had an agent been paid, a winner would have
  been written before.
- `DueInv`: the cron's lists and the bounty it holds have a deadline in the past,
  which time does not undo.

The proof of each step goes action by action (`WorldIInv`, `RequestsIInv`,
`HeliusIInv`, `SchedulerIInv`). `RecordedVaultsFunded` needs that a vault never goes
away (`VaultsStay`) and who writes `escrow_pda` (`PdaWriters`); that a published
bounty has an escrow cannot be proved, it is finding 5. `PromiseKept` maps `CreateLands` to
`Deposit`, the two calls of `callUpdateEscrow` to `Grant`, `SettleLands` to
`Disburse`, a deadline to `DeadlinePasses`, and every other action to a stutter.

`AgentRegistry_proofs` proves, for every set of agents and all faults,
`TypeCorrect`, `MintsAreKnown`, `ConfirmationsAreNamed` and the action property
`ConfirmedAreKept`, from `RegistryAssumption` (the names of the faults). The
inductive invariant `RInv` has three parts: `MintInv`, what anybody knows of an
asset was named by a transaction, after its owner was given the key's; `KeyInv`, whoever was
given a transaction has his key in the row, in one of two columns, as long as there
is a row (this is what the order in `registerAgent`, key before reply, buys); and
`HealthInv`, a confirmed agent is `pending` only if its owner said so.

`Contest_proofs` proves, for every set of registrations, agents and requests in
flight, all faults, any number of attempts and any bound on deliverables:

| theorem | states |
|---|---|
| `ContestInvariant`, `ContestTyped` | the inductive invariant `ContestInv`, and `ContestTypeOK` |
| `DispatchesTold`, `ReviewsHaveWork` | `DispatchedWasTold`, `ReviewHasWork` |
| `RepeatsBounded` | `RepeatsAreConcurrent` |
| `SubmissionsInvariant` | the part `WorkInv` for `Submissions` without the cron |

Assumption: `SubmissionsAssumption`, which types the constants and makes the set of
requests finite. `WorkInv` says what a handler that waits has done: a worker past
its message has told its agent, a request past its insert has stored something,
and what is linked was stored. `ReviewInv` extends the last to the cron: a bounty
under review, and a tick about to write it so, have a deliverable, which no step
takes back. `RepeatsBounded` needs a count: as long as nothing failed, deliverables
and requests about to insert one are together no more than all requests
(`Counted`), because until one is linked each deliverable still has its request
waiting, and once one is linked no request starts.

`WalletAuth_proofs` proves, for any wallets, any finite set of requests and any
bounds, from `AuthAssumption` alone, `TypeCorrect`, `LoginsSigned`, `LogoutsStay`,
`RepeatsBounded` and the action property `ProfilesKept`. The inductive invariant
`AuthInv` has, besides types and the two invariants themselves, `VerifyInv`: a
verification carries a nonce issued to its wallet, and past its upsert a wallet
that has a user (an ordering in `verify` that `LoginsWereSigned` rests on); and
`FoundInv`: what a refresh or logout found had not been logged out when it started.
`RepeatInv` counts: the sessions of a nonce and the verifications that still wait
with it are together no more than the requests, and as long as the key is there
nobody has logged in by it.

`Reputation_proofs` proves, for any bounties and updates in flight and every
bound, from `ReputationAssumption` (types; `BadgeAt` is at least 1, as it is 10 in
the code, so that a client without a bounty has no badge):

| theorem | states |
|---|---|
| `TypeCorrect` | `TypeOK`, with it that no rate is above one, through `Typed`: who holds which row at which step |
| `NeverInvented` | `NothingInvented`: no counter is above what happened |
| `TierNeedsWin` | `RankedHasWon`: a row with a tier has a win |
| `QualityAveraged` | `QualityIsAnAverage`: every quality is none or between the least and the greatest rating given, for all of 0 to 100; that the score is then not within 0 to 1 is noted under Findings |
| `SequentialUpdatesAreExact` | `SequentialIsExact`: while no update of a row overlaps another or fails, nothing is lost, and score, tier and leaderboards are those of the counters |

`NothingInvented` is about rows, and rows are overwritten by what somebody read
before. `Invented` therefore credits what each update holds with the event it is
about to count (`AgentCredited`, `OwnerCredited`): two updates may hold the same
row, and each is below what happened by its own event. Ratings on their way from the
agent's row to the client's are counted as a set (`Due`). `RankedWins` adds what
the score is about to be written from, `Bounded` the quality an update holds.
`Undisturbed` and `OwnerUndisturbed` say, for a row without a disturbance, that at
most one update is in flight and how far it is by its step (`Progress`); a step of
the other row leaves this alone (`AgentAlone`, `OwnerAlone`). The
average of the ratings and the experience of the wins' streaks are sums, which is
where `SumTheorems` comes in.

`EscrowClient_proofs` proves, from no assumption:

| theorem | states |
|---|---|
| `InstructionReadsBack` | for each of the seven instructions and any arguments its encoder takes, the program client finds the instruction's name, and the parser, by its own lists, each account by name and each argument as it was given |
| `EscrowVaultReadsBack`, `ArcadiumConfigReadsBack` | the account is identified, and each field of the decoder's list is what the encoder's list had of that name; for the vault whatever bytes follow |

Under them are lemmas for every layout: the encoding of a layout is the
discriminator and its fields one after the other (`EncodedFields`), and a decoder
that walks the same layout meets each field at the offset where the encoder put
it (`ReadEncoded`), whatever comes behind. What is particular to this client is
that its lists agree: `DecodersAgree` and `ParsersAgree` compare them instruction by
instruction, `IdentifiedByAgrees` the discriminators. A field out of order in one of
them, as in the variant `CreateEscrowDecoderSwapped`, and those lemmas fail.

`EscrowTransactions_proofs` proves, for any jobs, owners and strangers, any treasury
setting, prize and fee, every time to live of a blockhash, both readings of
`UpdateOverwrites`, all faults and all bounds:

| theorem | states |
|---|---|
| `TypeCorrect`, `BuiltIsParsed` | `TypeOK`; `ParsedAsBuilt` |
| `WebhookVaults` | `WebhookRecordsVaults`: what the webhook writes to `escrow_pda` is the address of a vault opened for that job |
| `SeenIsSettled` | `SettledSeenIsSettled`: the webhook takes a bounty for settled only when its client's vault has paid, whatever strangers do under its job id |
| `SettlementTaken` | `SettlementIsTaken`: a settlement handed out for a decided vault is one the program takes, if and only if the treasury setting is right |
| `HashIsFresh` | `CachedHashIsFresh` |

Assumptions: `TransactionAssumption` and `WalletAssumption`, which type the constants.
With content are `Client \notin Owners`, as for `BountyLifecycle`, and
`ComputeBudget # Program`, the instruction a wallet puts in front being one of
another program.

The inductive invariant comes in layers, each resting on those before:

- `Timed`: clock and cache. The hash in the cache is not older than its entry: a
  builder asks, the answer is of that moment or later, and the entry's age counts
  from the question. This is what makes the server's time to live one of the hash.
- `ChainHolds`: each vault is at the address of a wallet and a job, and well formed;
  one that is not the client's is never decided, as `callUpdateEscrow` names the
  client. This is why a stranger's settlement never gets through.
- `Landed`: a transaction that landed has left its effect (`Left`), which no later
  step takes back.
- `RowsHold`: what the webhook and the confirmation wrote. Here the byte positions of
  the webhook meet the encoders and account lists of `EscrowClient_proofs`.

Each of the seven instructions is reduced to its effect first, so that the invariants
look at two kinds of step only (`ChainStep`: a vault that is not settled gets a new
well-formed value, or none changes).

### What is proved and what is only checked

Every type invariant, safety invariant and action property of a passing run is
the statement of a theorem. Only model-checked are

- the five liveness properties `OpenIsActedOn`, `ReviewEnds`,
  `UnclaimedPrizeReturns`, `RegistrationIsDispatched` and `StaleIsResolved`: fairness speaks of ENABLED, which the prover does not reason
  about;
- the five violations, which a trace shows and a theorem cannot.

The induction theorems of the library, which take a predicate as a parameter, cannot
be instantiated by the provers. Where a proof needs induction over data, over the
fields of a layout or the elements of a sum, it takes a smallest counterexample
instead (`Least` in `EscrowClient_proofs`, `Smallest` in `SumTheorems`), and shows
that recursive functions exist and are unique before it unfolds them.

## Simplifications

- One run of `handleDeadlines` at a time. (A run of more than 15 minutes would
  overlap with the next.) No two concurrent `selectWinner` calls for the same
  agent: they would do the same with the same arguments.
- `TickCount` of `BountyLifecycle` counts any number of submissions; `Contest` has
  the real count, but only the part of the cron that depends on it.
- Two `update_escrow` with the same bounty and recipient are one: with the cached
  blockhash they have the same signature. In general a second one does nothing the
  first cannot do later, as transactions in flight have no order.
- The transactions clients hold do not expire, and land at once: any landing time
  is covered by the client's choice of when to broadcast.
- An exception and a restart look alike: both leave a handler at an await. A
  restart is several of them, in any order.
- Dispatch: the route is chosen per attempt, since owners change their settings;
  Telegram and webhook differ only in the message. Equal jobs are one.
- Tokens and nonces of submissions only refuse; a refused request changes nothing.
- The schema in the README has no foreign key between `deliverables` and
  `bounty_registrations`; deleting a registration leaves its deliverables. A
  schema with a restricting key refuses the delete (nothing happens, which the
  model allows); one that cascades is not modelled.
- Each transaction is reported at least once or never. Of the escrow program Helius
  is taken to report those that succeeded; of agents it may report any transaction
  that names an asset, failed ones included (`TransactionNames`). The blockhash of a
  registration transaction does not live for an hour.
- `markUnfulfilledAndAwaitRefund` skips a bounty whose client is not found;
  `UsersService.findById` throws in that case (`users.service.ts:30`), so the test
  never succeeds and the tick ends with the exception: `TickFails`.
- `Reputation`: sums of money and what depends on them (earnings, the badge
  `big_spender`), the badges of agents and the leaderboard of a month gone by are
  left out; feedback to the ATOM program is an outgoing call whose outcome nobody
  looks at. An error that a query returns and one that it throws are both there. Ratings
  are whole numbers; the route takes fractions too, which average alike.
- A vault is paid or not: what moves between token accounts, and the fee, is the
  program's business and left out. Amounts are arguments of instructions.
- `EscrowClient`: a byte is a value and a position, not a number; it keeps widths,
  offsets and order, and leaves out what base58 or an integer's digits look like.
  Hashes do not collide: a derived address is its program and seeds.
- `EscrowTransactions`: awaits between a handler's read and write, and finality, are
  `BountyLifecycle`'s subject. How long
  a transaction may take to land is open. The program's checks are those its error
  codes and account lists name.
- `WalletAuth`: a signature is that of the wallet that sends it. A refresh token
  that was stored and whose reply was lost is known to nobody. The guards only
  refuse.

## Findings

Each is a run that TLC finds violated, with the quoted text and the lines in
`PROJECT.json` under `findings`.

1. `OpensOnce`: of the two ways to open a bounty the second is called a no-op; the
   webhook's write is unconditional and may come after anything.
2. `RefundIsClaimable`: `update_escrow(UnFulfilled)` may fail, which is ignored, or be
   dropped after preflight. The row awaits its refund all the same, no tick looks at it
   again, and `claimRefund` hands out a transaction the program refuses, for ever.
3. `WinnerIsPaid`: selections that race each other or the cron leave a completed
   row that names somebody else than was paid.
4. `NoWorkRefunded`: a submission counts as on time when it comes in, but for the
   cron only when it is linked.
5. `PublishedIsFunded`: the webhook looks a bounty up by its job id alone, and another
   wallet's deposit under that id opens a draft that nobody funded. Likewise
   `confirmEscrow` claims to verify a `create_escrow`, and takes any instruction of the
   program, of whatever job, and its third account for the vault.

Noticed and not run, because a step or a constant of the model says as much:

Of bounties: the review deadline is not compared with the submission deadline;
a prize granted by a `selectWinner` whose row write failed can be paid only by
selecting again; `max_participants` is never looked at; a wrong or missing
`TREASURY_TOKEN_ACCOUNT` is noticed only when the program refuses the settlement
(`SettlementIsTaken` says so exactly).

Of registrations: a row whose job could not be added stays `pending`, documented as
"enqueued" (`EnqueueFails`); nothing ever writes `dispatch_state = 'failed'`,
documented as "all retry attempts exhausted"; the update that links a deliverable may
fail unnoticed; `deregisterAgent` works at any time; two submissions that pass the
guard against a double submission together (`telegram.controller.ts:192`) leave two
deliverables.

Of agents: the webhook confirms on any account of any transaction, without looking at
the program, the instruction or the error, so that a confirmed asset need not exist
(`ConfirmedIsNamed` says what it can rely on); one stale pending agent that another
table refers to makes the cleanup's single delete fail, every hour, for all; an owner
may reset `health_status` to `pending`, by which the cleanup takes a confirmed agent
for an orphan; `PATCH /agents/:id` takes `health_status` from another enumeration
(`live`, `partially`, `not_live`) than the column has; an agent whose mint event was
lost and whose owner did not ask is deleted although it is on chain;
`confirmRegistration` throws when the webhook was first; nothing enqueues a health
check.

Of reputation: the score is documented as 0 to 1 and adds 0.4 of an average of ratings
that go to 5 on one route and to 100 on the other; a win is credited when its winner is
selected and again when its settlement arrives; a failed read of the row counts as an
empty row, so that the next increment starts from nothing; an update that was overtaken
takes counters back; registering does not lower the rates until the next submission or win; `win_streak` is never reset;
`confirmEscrow` credits the client for posting, the webhook does not.

Of authentication: a nonce is called one-time, but verifications that overlap all
pass (`RepeatsOverlap` bounds them); one that has matched an older nonce of a
wallet deletes a newer one, whose owner must ask again; a refreshed access token
carries empty `preferred_categories` whatever the user's are; a refresh that is on
its way when a logout is answered may still get its access token, and no logout
revokes one.

## Plan

Done, in this order: `EscrowProgram`, `Custody`, `BountyLifecycle` with its runs
and proofs, `Submissions`, `Contest`, `AgentRegistry` and its proofs, `Reputation`;
then the owners in `Reputation`, `EscrowClient` and `EscrowTransactions` with all
seven instructions, `WalletAuth` and its proofs, `Contest_proofs`; then
`Reputation_proofs` with `SumTheorems`, `EscrowClient_proofs` and
`EscrowTransactions_proofs`.

| next | content |
|---|---|
| one escrow | the vaults of `EscrowTransactions`, job by job, take the steps `Custody` and `EscrowProgram` allow: a refinement that ties the byte-level chain to the one of `BountyLifecycle` |
| sessions | the inductive parts of `WalletAuth` as an action property: only an issue adds a session of a nonce |

### Not modelled

Storage (uploads a file and signs a URL), the text of Telegram messages, the ATOM
client (outgoing calls, no state of the server), configuration, modules, DTOs and
entities (wiring and declarations). None of them keeps state that another part
reads. What the models above leave out of a component they cover is listed under
[Simplifications](#simplifications).
