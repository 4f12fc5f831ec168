----------------------------- MODULE Submissions -----------------------------
(***************************************************************************)
(* Agents at work on one bounty: registration                              *)
(* (bounties-registration.service.ts), the queue that tells the agents     *)
(* (dispatch.processor.ts) and the two routes by which they deliver        *)
(* (deliverables.service.ts over HTTP, telegram.controller.ts).  All of    *)
(* them write the row of a registration, none of them conditionally, and   *)
(* the errors of most of their updates are not looked at.                  *)
(*                                                                         *)
(* The two routes share one model: both read the row and refuse a second   *)
(* submission, then insert a deliverable, then link it.  HTTP may spend    *)
(* half a minute on a download between the first two.  Requests whose      *)
(* token or nonce is wrong change nothing and are left out.                *)
(***************************************************************************)
EXTENDS Naturals, FiniteSets

CONSTANTS
  Registrations,   \* ids of rows of bounty_registrations
  Agents,
  AgentOf,         \* the agent each of them is for; an agent may register twice
  Requests,        \* submissions that may be in flight at once
  NoRegistration,
  Routes,          \* how agents are reached; owners change it at any time
  Faults,          \* "send": the agent's endpoint fails.  "throw": a call to the
                   \* database or Redis fails, or the process restarts
  Attempts,        \* attempts of a dispatch job
  MaxRecords       \* bound: deliverables of one registration

ASSUME SubmissionsAssumption ==
  /\ AgentOf \in [Registrations -> Agents]
  /\ NoRegistration \notin Registrations
  /\ IsFiniteSet(Requests)
  /\ Routes \subseteq {"telegram", "webhook", "polling"}
  /\ Faults \subseteq {"send", "throw"}
  /\ Attempts \in Nat \ {0}
  /\ MaxRecords \in Nat

VARIABLES
  (* table bounty_registrations *)
  rows,            \* is there a row?  "none" not yet, "row", or "deleted"
  dispatch_state,
  submitted,       \* registrations whose deliverable_id is not null
  (* table deliverables *)
  records,         \* how many there are for a registration
  timely,          \* registrations with one whose request came before the deadline
  (* the dispatch queue *)
  enqueuing,       \* requests that will add a job for a registration
  jobs,            \* jobs that wait; two equal ones are one
  worker,          \* the job at work
  told,            \* registrations the agent received a message about
  exhausted,       \* registrations with a job whose attempts all failed
  (* submissions in flight *)
  request,
  (* the clock *)
  closed,          \* has the submission deadline passed?
  (* history *)
  failed           \* registrations with an error that nothing makes up for

table        == <<rows, dispatch_state, submitted>>
deliverables == <<records, timely>>
queue        == <<enqueuing, jobs, worker, told, exhausted>>
vars         == <<table, deliverables, queue, request, closed, failed>>

Jobs == [reg : Registrations, attempt : 1..Attempts]
IdleWorker == [reg |-> NoRegistration, attempt |-> 1, route |-> "polling", step |-> "idle"]
IdleRequest == [reg |-> NoRegistration, step |-> "idle", onTime |-> FALSE]

TypeOK ==
  /\ rows \in [Registrations -> {"none", "row", "deleted"}]
  /\ dispatch_state \in [Registrations -> {"pending", "dispatched", "queued"}]
  /\ submitted \subseteq Registrations
  /\ records \in [Registrations -> Nat]
  /\ timely \subseteq Registrations
  /\ enqueuing \subseteq Registrations
  /\ jobs \subseteq Jobs
  /\ worker \in [reg     : Registrations \cup {NoRegistration},
                 attempt : 1..Attempts,
                 route   : {"telegram", "webhook", "polling"},
                 step    : {"idle", "loaded", "sent"}]
  /\ told \subseteq Registrations
  /\ exhausted \subseteq Registrations
  /\ request \in [Requests -> [reg    : Registrations \cup {NoRegistration},
                               step   : {"idle", "loaded", "inserted"},
                               onTime : BOOLEAN]]
  /\ closed \in BOOLEAN
  /\ failed \subseteq Registrations

Init ==
  /\ rows = [r \in Registrations |-> "none"]
  /\ dispatch_state = [r \in Registrations |-> "pending"]
  /\ submitted = {}
  /\ records = [r \in Registrations |-> 0]
  /\ timely = {}
  /\ enqueuing = {}
  /\ jobs = {}
  /\ worker = IdleWorker
  /\ told = {}
  /\ exhausted = {}
  /\ request = [q \in Requests |-> IdleRequest]
  /\ closed = FALSE
  /\ failed = {}

Present(r) == rows[r] = "row"

DeadlinePasses ==
  /\ ~closed
  /\ closed' = TRUE
  /\ UNCHANGED <<table, deliverables, queue, request, failed>>

-----------------------------------------------------------------------------
(* bounties-registration.service.ts *)

\* Neither the state of the bounty, nor its deadline, nor max_participants,
\* nor an earlier registration of the agent is looked at.
RegisterAgent(r) ==
  /\ rows[r] = "none"
  /\ rows' = [rows EXCEPT ![r] = "row"]
  /\ enqueuing' = enqueuing \cup {r}
  /\ UNCHANGED <<dispatch_state, submitted, deliverables, jobs, worker, told,
                 exhausted, request, closed, failed>>

\* retryDispatch, once it has found the row.
RetryDispatch(r) ==
  /\ Present(r)
  /\ enqueuing' = enqueuing \cup {r}
  /\ UNCHANGED <<table, deliverables, jobs, worker, told, exhausted, request,
                 closed, failed>>

Enqueue(r) ==
  /\ r \in enqueuing
  /\ enqueuing' = enqueuing \ {r}
  /\ jobs' = jobs \cup {[reg |-> r, attempt |-> 1]}
  /\ UNCHANGED <<table, deliverables, worker, told, exhausted, request, closed,
                 failed>>

\* Redis is away: the caller gets an error, the row stays.
EnqueueFails(r) ==
  /\ "throw" \in Faults
  /\ r \in enqueuing
  /\ enqueuing' = enqueuing \ {r}
  /\ failed' = failed \cup {r}
  /\ UNCHANGED <<table, deliverables, jobs, worker, told, exhausted, request,
                 closed>>

\* All rows of the agent, at any time, submitted or not.  The schema in the
\* README ties no deliverable to its registration: deliverables stay.
DeregisterAgent(a) ==
  /\ rows' = [r \in Registrations |->
                IF AgentOf[r] = a /\ Present(r) THEN "deleted" ELSE rows[r]]
  /\ rows' # rows
  /\ UNCHANGED <<dispatch_state, submitted, deliverables, queue, request,
                 closed, failed>>

\* Variant: all registrations are counted, with and without a deliverable.
CountRegistered == Cardinality({r \in Registrations : Present(r)})

CountSubmitted ==
  Cardinality({r \in submitted : Present(r)})

-----------------------------------------------------------------------------
(* dispatch.processor.ts: one job at a time *)

\* Bounty, agent and nonce are loaded; that the registration is gone, or has
\* its deliverable, is not noticed.
JobStart(j, route) ==
  /\ worker.step = "idle"
  /\ j \in jobs
  /\ jobs' = jobs \ {j}
  /\ worker' = [reg |-> j.reg, attempt |-> j.attempt, route |-> route, step |-> "loaded"]
  /\ UNCHANGED <<table, deliverables, enqueuing, told, exhausted, request, closed,
                 failed>>

JobSend ==
  /\ worker.step = "loaded"
  /\ worker.route # "polling"
  /\ told' = told \cup {worker.reg}
  /\ worker' = [worker EXCEPT !.step = "sent"]
  /\ UNCHANGED <<table, deliverables, enqueuing, jobs, exhausted, request, closed,
                 failed>>

\* Variant: the row is updated before the message is sent.
ReadyToMarkEarly == worker.step = "loaded"

ReadyToMark ==
  \/ worker.step = "sent"
  \/ worker.step = "loaded" /\ worker.route = "polling"

\* The update of a row that is gone changes nothing; nor does one that fails,
\* and the job is done all the same.
JobMark ==
  /\ ReadyToMark
  /\ worker' = IdleWorker
  /\ \/ /\ dispatch_state' =
             [r \in Registrations |->
                IF r = worker.reg /\ Present(r)
                  THEN IF worker.route = "polling" THEN "queued" ELSE "dispatched"
                  ELSE dispatch_state[r]]
        /\ UNCHANGED failed
     \/ /\ "throw" \in Faults
        /\ failed' = failed \cup {worker.reg}
        /\ UNCHANGED dispatch_state
  /\ UNCHANGED <<rows, submitted, deliverables, enqueuing, jobs, told, exhausted,
                 request, closed>>

\* Variants: the next attempt is not counted, or there is one too many.
NextAttemptUncounted ==
  /\ jobs' = jobs \cup {[reg |-> worker.reg, attempt |-> worker.attempt]}
  /\ UNCHANGED exhausted
NextAttemptOneMore ==
  IF worker.attempt <= Attempts
    THEN /\ jobs' = jobs \cup {[reg |-> worker.reg, attempt |-> worker.attempt + 1]}
         /\ UNCHANGED exhausted
    ELSE /\ exhausted' = exhausted \cup {worker.reg}
         /\ UNCHANGED jobs

\* BullMQ runs the job again until its attempts are used up.
NextAttempt ==
  IF worker.attempt < Attempts
    THEN /\ jobs' = jobs \cup {[reg |-> worker.reg, attempt |-> worker.attempt + 1]}
         /\ UNCHANGED exhausted
    ELSE /\ exhausted' = exhausted \cup {worker.reg}
         /\ UNCHANGED jobs

\* The endpoint refuses, or takes the message and does not answer in time; or
\* a query throws, or the process restarts.
JobFails ==
  /\ worker.step # "idle"
  /\ \/ /\ "send" \in Faults
        /\ worker.step = "loaded"
        /\ worker.route # "polling"
        /\ told' \in {told, told \cup {worker.reg}}
     \/ /\ "throw" \in Faults
        /\ UNCHANGED told
  /\ worker' = IdleWorker
  /\ NextAttempt
  /\ UNCHANGED <<table, deliverables, enqueuing, request, closed, failed>>

-----------------------------------------------------------------------------
(* deliverables.service.ts and telegram.controller.ts *)

\* Variant: the route has no guard against a second submission.
SubmittableAlways(r) == Present(r)

Submittable(r) == Present(r) /\ r \notin submitted

SubmitLoad(q, r) ==
  /\ request[q].step = "idle"
  /\ Submittable(r)
  /\ records[r] < MaxRecords
  /\ request' = [request EXCEPT ![q] =
                   [reg |-> r, step |-> "loaded", onTime |-> ~closed]]
  /\ UNCHANGED <<table, deliverables, queue, closed, failed>>

\* The file is fetched and the deliverable stored.
SubmitInsert(q) ==
  LET r == request[q].reg
  IN  /\ request[q].step = "loaded"
      /\ records' = [records EXCEPT ![r] = @ + 1]
      /\ timely' = timely \cup (IF request[q].onTime THEN {r} ELSE {})
      /\ request' = [request EXCEPT ![q].step = "inserted"]
      /\ UNCHANGED <<table, queue, closed, failed>>

\* The file cannot be fetched or stored, or the insert fails.
SubmitRefused(q) ==
  /\ request[q].step = "loaded"
  /\ request' = [request EXCEPT ![q] = IdleRequest]
  /\ UNCHANGED <<table, deliverables, queue, closed, failed>>

SubmitLink(q) ==
  LET r == request[q].reg
  IN  /\ request[q].step = "inserted"
      /\ request' = [request EXCEPT ![q] = IdleRequest]
      /\ IF Present(r)
           THEN /\ submitted' = submitted \cup {r}
                /\ dispatch_state' = [dispatch_state EXCEPT ![r] = "dispatched"]
           ELSE UNCHANGED <<submitted, dispatch_state>>
      /\ UNCHANGED <<rows, deliverables, queue, closed, failed>>

\* The update fails, which nobody looks at, or the process restarts.
SubmitLinkFails(q) ==
  /\ "throw" \in Faults
  /\ request[q].step = "inserted"
  /\ request' = [request EXCEPT ![q] = IdleRequest]
  /\ failed' = failed \cup {request[q].reg}
  /\ UNCHANGED <<table, deliverables, queue, closed>>

-----------------------------------------------------------------------------
Registering ==
  \/ \E r \in Registrations :
       RegisterAgent(r) \/ RetryDispatch(r) \/ Enqueue(r) \/ EnqueueFails(r)
  \/ \E a \in Agents : DeregisterAgent(a)

Dispatching ==
  \/ \E j \in jobs, route \in Routes : JobStart(j, route)
  \/ JobSend \/ JobMark \/ JobFails

Answering(q) == SubmitInsert(q) \/ SubmitRefused(q) \/ SubmitLink(q) \/ SubmitLinkFails(q)

Submitting ==
  \E q \in Requests : Answering(q) \/ \E r \in Registrations : SubmitLoad(q, r)

Next == DeadlinePasses \/ Registering \/ Dispatching \/ Submitting

(***************************************************************************)
(* Handlers and the queue's worker run on, as long as the process does;    *)
(* nothing is assumed of agents and owners.  The worker takes waiting jobs *)
(* first in, first out, so that none waits for ever behind others: the set *)
(* of jobs has no order, and each gets strong fairness in its place.       *)
(***************************************************************************)
Fairness ==
  /\ \A r \in Registrations : WF_vars(Enqueue(r))
  /\ \A j \in Jobs : SF_vars(\E route \in Routes : JobStart(j, route))
  /\ WF_vars(JobSend \/ JobMark \/ JobFails)
  /\ \A q \in Requests : WF_vars(Answering(q))

Spec == Init /\ [][Next]_vars /\ Fairness

-----------------------------------------------------------------------------
(* Properties *)

\* A registration that counts as dispatched is one whose agent was told, or who
\* delivered without having been told.
DispatchedWasTold ==
  \A r \in Registrations :
    dispatch_state[r] = "dispatched" => r \in told \/ records[r] > 0

\* Without an error on the way, a registration has no more deliverables than
\* submissions were ever in flight at once: the guard of the routes stops
\* every submission that starts after the first one was linked.
RepeatsAreConcurrent ==
  \A r \in Registrations :
    records[r] > Cardinality(Requests) => r \in failed

\* The agent is told, or his owner polls, or all attempts failed, or the owner
\* left: but for an error nothing makes up for, a registration is not forgotten.
RegistrationIsDispatched ==
  \A r \in Registrations :
    Present(r) ~> \/ dispatch_state[r] # "pending"
                  \/ ~Present(r)
                  \/ r \in exhausted \cup failed
==============================================================================
