---------------------------- MODULE Contest_proofs ----------------------------
(***************************************************************************)
(* Theorems about Contest, and so about Submissions, for every set of      *)
(* registrations, agents and requests in flight, all faults, any number of *)
(* attempts and any bound on deliverables.                                 *)
(***************************************************************************)
EXTENDS Contest, FiniteSetTheorems, TLAPS

-----------------------------------------------------------------------------
(* Types, with what handlers at work hold *)

\* A job or a request at work is about a registration, and has done what its
\* step says: sent its message, inserted its deliverable.
AtWorkInv ==
  /\ worker.step # "idle" => worker.reg \in Registrations
  /\ worker.step = "sent" => worker.reg \in told
  /\ \A q \in Requests :
       /\ request[q].step # "idle" => request[q].reg \in Registrations
       /\ request[q].step = "inserted" => records[request[q].reg] > 0

\* What counts as submitted was stored.
SubmittedInv == \A r \in submitted : records[r] > 0

WorkInv == TypeOK /\ AtWorkInv /\ SubmittedInv /\ DispatchedWasTold

USE SubmissionsAssumption

LEMMA InitWork == Init => WorkInv
<1> SUFFICES ASSUME Init PROVE WorkInv
  OBVIOUS
<1>1. TypeOK
  <2>1. 1 \in 1..Attempts
    OBVIOUS
  <2>2. IdleWorker \in [reg : Registrations \cup {NoRegistration}, attempt : 1..Attempts,
                        route : {"telegram", "webhook", "polling"},
                        step : {"idle", "loaded", "sent"}]
    BY <2>1 DEF IdleWorker
  <2>3. IdleRequest \in [reg : Registrations \cup {NoRegistration},
                         step : {"idle", "loaded", "inserted"}, onTime : BOOLEAN]
    BY DEF IdleRequest
  <2> QED BY <2>2, <2>3 DEF Init, TypeOK
<1>2. AtWorkInv /\ SubmittedInv /\ DispatchedWasTold
  BY DEF Init, AtWorkInv, SubmittedInv, DispatchedWasTold, IdleWorker, IdleRequest
<1> QED BY <1>1, <1>2 DEF WorkInv

LEMMA RegisteringWork ==
  ASSUME WorkInv, Registering \/ DeadlinePasses
  PROVE  WorkInv'
<1> USE DEF WorkInv
<1>1. /\ UNCHANGED <<dispatch_state, submitted, deliverables, worker, told, exhausted, request>>
  BY DEF Registering, DeadlinePasses, RegisterAgent, RetryDispatch, Enqueue, EnqueueFails,
         DeregisterAgent, table, deliverables, queue
<1>2. rows' \in [Registrations -> {"none", "row", "deleted"}]
  BY DEF TypeOK, Registering, DeadlinePasses, RegisterAgent, RetryDispatch, Enqueue, EnqueueFails,
         DeregisterAgent, table, deliverables, queue
<1>3. /\ enqueuing' \subseteq Registrations /\ failed' \subseteq Registrations
      /\ closed' \in BOOLEAN /\ jobs' \subseteq Jobs
  <2>1. \A r \in Registrations : [reg |-> r, attempt |-> 1] \in Jobs
    BY DEF Jobs
  <2> QED BY <2>1 DEF TypeOK, Registering, DeadlinePasses, RegisterAgent, RetryDispatch, Enqueue,
       EnqueueFails, DeregisterAgent, table, deliverables, queue
<1>4. TypeOK'
  BY <1>1, <1>2, <1>3 DEF TypeOK, deliverables
<1>5. AtWorkInv' /\ SubmittedInv' /\ DispatchedWasTold'
  BY <1>1 DEF AtWorkInv, SubmittedInv, DispatchedWasTold, deliverables
<1> QED BY <1>4, <1>5

LEMMA NextAttemptTyped ==
  ASSUME TypeOK, worker.reg \in Registrations, NextAttempt
  PROVE  jobs' \subseteq Jobs /\ exhausted' \subseteq Registrations
<1>1. worker.attempt \in 1..Attempts
  BY DEF TypeOK
<1>2. worker.attempt < Attempts => [reg |-> worker.reg, attempt |-> worker.attempt + 1] \in Jobs
  BY <1>1 DEF Jobs
<1> QED BY <1>2 DEF TypeOK, NextAttempt

LEMMA DispatchingWork ==
  ASSUME WorkInv, Dispatching
  PROVE  WorkInv'
<1> USE DEF WorkInv
<1>1. ASSUME NEW j \in jobs, NEW route \in Routes, JobStart(j, route) PROVE WorkInv'
  <2>1. j.reg \in Registrations /\ j.attempt \in 1..Attempts
    BY DEF TypeOK, Jobs
  <2>2. worker' = [reg |-> j.reg, attempt |-> j.attempt, route |-> route, step |-> "loaded"]
    BY <1>1 DEF JobStart
  <2>3. worker' \in [reg : Registrations \cup {NoRegistration}, attempt : 1..Attempts,
                     route : {"telegram", "webhook", "polling"},
                     step : {"idle", "loaded", "sent"}]
    BY <2>1, <2>2
  <2>5. TypeOK'
    BY <1>1, <2>3 DEF TypeOK, JobStart, table, deliverables
  <2>4. AtWorkInv' /\ SubmittedInv' /\ DispatchedWasTold'
    BY <1>1, <2>1, <2>2
       DEF JobStart, AtWorkInv, SubmittedInv, DispatchedWasTold, table, deliverables
  <2> QED BY <2>4, <2>5
<1>2. CASE JobSend
  <2>1. worker.reg \in Registrations
    BY <1>2 DEF AtWorkInv, JobSend
  <2>2. TypeOK'
    BY <1>2, <2>1 DEF TypeOK, JobSend, table, deliverables
  <2>3. worker'.reg = worker.reg
    BY <1>2 DEF TypeOK, JobSend
  <2>4. AtWorkInv' /\ SubmittedInv' /\ DispatchedWasTold'
    BY <1>2, <2>1, <2>3
       DEF JobSend, AtWorkInv, SubmittedInv, DispatchedWasTold, table, deliverables
  <2> QED BY <2>2, <2>4
<1>3. IdleWorker.step = "idle"
      /\ IdleWorker \in [reg : Registrations \cup {NoRegistration}, attempt : 1..Attempts,
                         route : {"telegram", "webhook", "polling"},
                         step : {"idle", "loaded", "sent"}]
  BY DEF IdleWorker
<1>4. CASE JobMark
  <2>1. worker.reg \in Registrations /\ (worker.route # "polling" => worker.reg \in told)
    BY <1>4 DEF AtWorkInv, JobMark, ReadyToMark
  <2>2. TypeOK'
    BY <1>3, <1>4, <2>1 DEF TypeOK, JobMark, deliverables
  <2>3. AtWorkInv' /\ SubmittedInv'
    BY <1>3, <1>4 DEF JobMark, AtWorkInv, SubmittedInv, deliverables
  <2>4. DispatchedWasTold'
    BY <1>4, <2>1 DEF TypeOK, JobMark, DispatchedWasTold, deliverables
  <2> QED BY <2>2, <2>3, <2>4
<1>5. CASE JobFails
  <2>1. worker.reg \in Registrations
    BY <1>5 DEF AtWorkInv, JobFails
  <2>2. jobs' \subseteq Jobs /\ exhausted' \subseteq Registrations
    BY <1>5, <2>1, NextAttemptTyped DEF JobFails
  <2>3. told \subseteq told' /\ told' \subseteq Registrations
    BY <1>5, <2>1 DEF TypeOK, JobFails
  <2>4. TypeOK'
    BY <1>3, <1>5, <2>2, <2>3 DEF TypeOK, JobFails, table, deliverables
  <2>5. AtWorkInv' /\ SubmittedInv' /\ DispatchedWasTold'
    BY <1>3, <1>5, <2>3
       DEF JobFails, AtWorkInv, SubmittedInv, DispatchedWasTold, table, deliverables
  <2> QED BY <2>4, <2>5
<1> QED BY <1>1, <1>2, <1>4, <1>5 DEF Dispatching

\* A request ends without a trace in the database, or of its deliverable alone.
LEMMA SubmittingWork ==
  ASSUME WorkInv, Submitting
  PROVE  WorkInv'
<1> USE DEF WorkInv
<1> DEFINE R == [reg : Registrations \cup {NoRegistration}, step : {"idle", "loaded", "inserted"},
                 onTime : BOOLEAN]
<1>0. IdleRequest \in R /\ IdleRequest.step = "idle"
  BY DEF IdleRequest
<1>1. ASSUME NEW q \in Requests, NEW r \in Registrations, SubmitLoad(q, r) PROVE WorkInv'
  <2> DEFINE new == [reg |-> r, step |-> "loaded", onTime |-> ~closed]
  <2>1. new \in R /\ new.reg = r /\ new.step = "loaded"
    BY DEF TypeOK
  <2>2. request' = [request EXCEPT ![q] = new]
        /\ UNCHANGED <<table, deliverables, queue, closed, failed>>
    BY <1>1 DEF SubmitLoad
  <2> HIDE DEF new
  <2>3. TypeOK'
    BY <2>1, <2>2 DEF TypeOK, table, deliverables, queue
  <2>4. AtWorkInv' /\ SubmittedInv' /\ DispatchedWasTold'
    BY <2>1, <2>2
       DEF TypeOK, AtWorkInv, SubmittedInv, DispatchedWasTold, table, deliverables, queue
  <2> QED BY <2>3, <2>4
<1>2. ASSUME NEW q \in Requests, SubmitInsert(q) PROVE WorkInv'
  <2>1. request[q].reg \in Registrations
    BY <1>2 DEF SubmitInsert, AtWorkInv
  <2>2. /\ records' = [records EXCEPT ![request[q].reg] = @ + 1]
        /\ timely' \subseteq Registrations
        /\ request' = [request EXCEPT ![q].step = "inserted"]
        /\ UNCHANGED <<table, queue, closed, failed>>
    BY <1>2, <2>1 DEF SubmitInsert, TypeOK
  <2>3. TypeOK'
    BY <2>1, <2>2 DEF TypeOK, table, queue
  <2>4. \A r \in Registrations : records[r] \in Nat /\ records'[r] >= records[r]
        /\ records'[request[q].reg] > 0
    BY <2>1, <2>2 DEF TypeOK
  <2>5. AtWorkInv'
    BY <2>1, <2>2, <2>4 DEF TypeOK, AtWorkInv, queue
  <2>6. SubmittedInv' /\ DispatchedWasTold'
    BY <2>2, <2>4 DEF TypeOK, SubmittedInv, DispatchedWasTold, table, queue
  <2> QED BY <2>3, <2>5, <2>6
<1>3. ASSUME NEW q \in Requests, SubmitRefused(q) \/ SubmitLinkFails(q) PROVE WorkInv'
  <2>1. /\ request' = [request EXCEPT ![q] = IdleRequest]
        /\ failed' \subseteq Registrations
        /\ UNCHANGED <<table, deliverables, queue, closed>>
    BY <1>3 DEF SubmitRefused, SubmitLinkFails, AtWorkInv, TypeOK
  <2>2. TypeOK'
    BY <1>0, <2>1 DEF TypeOK, table, deliverables, queue
  <2>3. AtWorkInv' /\ SubmittedInv' /\ DispatchedWasTold'
    BY <1>0, <2>1
       DEF TypeOK, AtWorkInv, SubmittedInv, DispatchedWasTold, table, deliverables, queue
  <2> QED BY <2>2, <2>3
<1>4. ASSUME NEW q \in Requests, SubmitLink(q) PROVE WorkInv'
  <2>1. request[q].reg \in Registrations /\ records[request[q].reg] > 0
    BY <1>4 DEF SubmitLink, AtWorkInv
  <2>2. /\ request' = [request EXCEPT ![q] = IdleRequest]
        /\ submitted' \in {submitted, submitted \cup {request[q].reg}}
        /\ dispatch_state' \in {dispatch_state,
                                [dispatch_state EXCEPT ![request[q].reg] = "dispatched"]}
        /\ UNCHANGED <<rows, deliverables, queue, closed, failed>>
    BY <1>4 DEF SubmitLink
  <2>3. TypeOK'
    BY <1>0, <2>1, <2>2 DEF TypeOK, deliverables, queue
  <2>4. AtWorkInv' /\ SubmittedInv'
    BY <1>0, <2>1, <2>2 DEF TypeOK, AtWorkInv, SubmittedInv, deliverables, queue
  <2>5. DispatchedWasTold'
    BY <2>1, <2>2 DEF TypeOK, DispatchedWasTold, deliverables, queue
  <2> QED BY <2>3, <2>4, <2>5
<1> QED BY <1>1, <1>2, <1>3, <1>4 DEF Submitting, Answering

LEMMA StepWork == WorkInv /\ [Next]_vars => WorkInv'
<1> SUFFICES ASSUME WorkInv, [Next]_vars PROVE WorkInv'
  OBVIOUS
<1>1. CASE UNCHANGED vars
  BY <1>1 DEF vars, table, deliverables, queue, WorkInv, TypeOK, AtWorkInv, SubmittedInv,
              DispatchedWasTold
<1> QED BY <1>1, RegisteringWork, DispatchingWork, SubmittingWork DEF Next

-----------------------------------------------------------------------------
(* The cron: it sends a bounty into review on a count of linked deliverables, *)
(* and no step takes a deliverable away.                                      *)

ReviewInv ==
  "under_review" \in {state, tick} => \E r \in Registrations : records[r] > 0

TickTyped ==
  /\ state \in {"open", "under_review", "awaiting_refund"}
  /\ tick \in {"idle", "under_review", "awaiting_refund"}

ContestInv == WorkInv /\ TickTyped /\ ReviewInv

LEMMA RecordsGrow ==
  ASSUME WorkInv, [Next]_vars, NEW r \in Registrations, records[r] > 0
  PROVE  records'[r] > 0
<1>1. CASE UNCHANGED records
  BY <1>1
<1>2. ASSUME NEW q \in Requests, SubmitInsert(q) PROVE records'[r] > 0
  <2>1. records' = [records EXCEPT ![request[q].reg] = @ + 1]
    BY <1>2 DEF SubmitInsert
  <2> QED BY <2>1 DEF WorkInv, TypeOK
<1> QED BY <1>1, <1>2
        DEF vars, table, deliverables, queue, Next, DeadlinePasses, Registering, RegisterAgent,
            RetryDispatch, Enqueue, EnqueueFails, DeregisterAgent, Dispatching, JobStart, JobSend,
            JobMark, JobFails, Submitting, Answering, SubmitLoad, SubmitRefused, SubmitLink,
            SubmitLinkFails

LEMMA StepContest == ContestInv /\ [ContestNext]_contestVars => ContestInv'
<1> SUFFICES ASSUME ContestInv, [ContestNext]_contestVars PROVE ContestInv'
  OBVIOUS
<1> USE DEF ContestInv
<1>1. CASE [Next]_vars /\ UNCHANGED <<state, tick>>
  <2>1. WorkInv' /\ TickTyped'
    BY <1>1, StepWork DEF TickTyped
  <2>2. ReviewInv'
    BY <1>1, RecordsGrow DEF ReviewInv
  <2> QED BY <2>1, <2>2
<1>2. CASE TickCount
  <2>1. WorkInv' /\ UNCHANGED records
    BY <1>2, StepWork DEF TickCount, vars, deliverables
  <2>2. tick' = "under_review" => \E r \in Registrations : records[r] > 0
    <3> SUFFICES ASSUME tick' = "under_review" PROVE \E r \in Registrations : records[r] > 0
      OBVIOUS
    <3>1. CountSubmitted # 0
      BY <1>2 DEF TickCount
    <3>2. PICK r \in submitted : Present(r)
      BY <3>1, FS_EmptySet DEF CountSubmitted
    <3> QED BY <3>2 DEF WorkInv, TypeOK, SubmittedInv
  <2>3. TickTyped'
    BY <1>2 DEF TickTyped, TickCount
  <2>4. ReviewInv'
    BY <1>2, <2>1, <2>2 DEF ReviewInv, TickCount
  <2> QED BY <2>1, <2>3, <2>4
<1>3. CASE TickWrite \/ TickFails
  <2>1. WorkInv' /\ UNCHANGED records
    BY <1>3, StepWork DEF TickWrite, TickFails, vars, deliverables
  <2>2. TickTyped' /\ ReviewInv'
    BY <1>3, <2>1 DEF TickTyped, ReviewInv, TickWrite, TickFails
  <2> QED BY <2>1, <2>2
<1> QED BY <1>1, <1>2, <1>3 DEF ContestNext, contestVars

\* The inductive invariant of registration, dispatch, submission and count.
THEOREM ContestInvariant == ContestSpec => []ContestInv
<1>1. ContestInit => ContestInv
  BY InitWork DEF ContestInit, ContestInv, TickTyped, ReviewInv
<1> QED BY <1>1, StepContest, PTL DEF ContestSpec

\* Every variable keeps its type: no attempt beyond the last, no job or request
\* about a registration there never was.
THEOREM ContestTyped == ContestSpec => []ContestTypeOK
<1>1. ContestInv => ContestTypeOK
  BY DEF ContestInv, WorkInv, TickTyped, ContestTypeOK
<1> QED BY <1>1, ContestInvariant, PTL

\* dispatch_state says "dispatched" only of agents who were told, or delivered
\* (dispatch.processor.ts, deliverables.service.ts).
THEOREM DispatchesTold == ContestSpec => []DispatchedWasTold
<1>1. ContestInv => DispatchedWasTold
  BY DEF ContestInv, WorkInv
<1> QED BY <1>1, ContestInvariant, PTL

\* The cron sends a client into review only with a deliverable to look at
\* (handleDeadlines, countSubmitted).
THEOREM ReviewsHaveWork == ContestSpec => []ReviewHasWork
<1>1. ContestInv => ReviewHasWork
  BY DEF ContestInv, ReviewInv, ReviewHasWork
<1> QED BY <1>1, ContestInvariant, PTL

\* What holds of registrations without the cron.
THEOREM SubmissionsInvariant == Spec => []WorkInv
  BY InitWork, StepWork, PTL DEF Spec
-----------------------------------------------------------------------------
(* How many deliverables a registration gets.  Without errors a submission   *)
(* that starts finds only deliverables that are inserted and not yet linked: *)
(* each takes up a request.                                                  *)

Loaded(r) == {q \in Requests : request[q].reg = r /\ request[q].step = "loaded"}
Inserted(r) == {q \in Requests : request[q].reg = r /\ request[q].step = "inserted"}

Counted(r) ==
  r \notin failed =>
    /\ records[r] + Cardinality(Loaded(r)) <= Cardinality(Requests)
    /\ r \notin submitted /\ rows[r] # "deleted" => records[r] <= Cardinality(Inserted(r))

\* Requests are about registrations there are, or were.
StartedInv ==
  \A q \in Requests : request[q].step # "idle" => rows[request[q].reg] # "none"

CountInv == WorkInv /\ StartedInv /\ \A r \in Registrations : Counted(r)

LEMMA CountSizes ==
  ASSUME NEW r
  PROVE  /\ IsFiniteSet(Loaded(r)) /\ IsFiniteSet(Inserted(r))
         /\ Cardinality(Loaded(r)) \in Nat /\ Cardinality(Inserted(r)) \in Nat
         /\ Cardinality(Requests) \in Nat
         /\ Cardinality(Loaded(r)) + Cardinality(Inserted(r)) <= Cardinality(Requests)
<1>1. IsFiniteSet(Loaded(r)) /\ IsFiniteSet(Inserted(r))
  BY FS_Subset DEF Loaded, Inserted
<1>2. /\ Cardinality(Loaded(r)) \in Nat /\ Cardinality(Inserted(r)) \in Nat
      /\ Cardinality(Requests) \in Nat
  BY <1>1, FS_CardinalityType
<1>3. Loaded(r) \cap Inserted(r) = {} /\ Loaded(r) \cup Inserted(r) \subseteq Requests
  BY DEF Loaded, Inserted
<1>4. Cardinality(Loaded(r) \cap Inserted(r)) = 0
  BY <1>3, FS_EmptySet
<1>5. Cardinality(Loaded(r) \cup Inserted(r)) <= Cardinality(Requests)
  BY <1>3, FS_Subset
<1>6. Cardinality(Loaded(r) \cup Inserted(r))
        = Cardinality(Loaded(r)) + Cardinality(Inserted(r)) - Cardinality(Loaded(r) \cap Inserted(r))
  BY <1>1, FS_Union
<1> QED BY <1>1, <1>2, <1>4, <1>5, <1>6

\* A row that is not there may come, and one that is may be deleted.
RowMoves(r) ==
  \/ rows'[r] \in {rows[r], "deleted"}
  \/ rows[r] = "none" /\ rows'[r] = "row"

\* Request q ends: refused, or linked, or with an error, or of a deleted row.
Ends(q) ==
  /\ request'[q].step = "idle"
  /\ \/ request[q].step = "loaded"
     \/ /\ request[q].step = "inserted"
        /\ \/ request[q].reg \in failed' \cup submitted'
           \/ rows'[request[q].reg] = "deleted"

\* Steps that start and insert nothing.
LEMMA QuietCount ==
  ASSUME CountInv, WorkInv', UNCHANGED records,
         failed \subseteq failed', submitted \subseteq submitted',
         \A r \in Registrations : RowMoves(r),
         \A q \in Requests : request'[q] = request[q] \/ Ends(q)
  PROVE  CountInv'
<1>1. StartedInv'
  BY DEF CountInv, WorkInv, AtWorkInv, StartedInv, RowMoves, Ends
<1>2. ASSUME NEW r \in Registrations PROVE Counted(r)'
  <2>1. Counted(r) /\ records[r] \in Nat
    BY DEF CountInv, WorkInv, TypeOK
  <2>2. Loaded(r)' \subseteq Loaded(r)
    BY DEF Loaded, Ends
  <2>3. Cardinality(Loaded(r)') <= Cardinality(Loaded(r)) /\ Cardinality(Loaded(r)') \in Nat
    BY <2>2, CountSizes, FS_Subset, FS_CardinalityType
  <2>4. r \notin failed' => records'[r] + Cardinality(Loaded(r)') <= Cardinality(Requests)
    BY <2>1, <2>3, CountSizes DEF Counted
  <2>5. ASSUME r \notin failed', r \notin submitted', rows'[r] # "deleted"
        PROVE  records'[r] <= Cardinality(Inserted(r)')
    <3>1. Inserted(r)' = Inserted(r)
      BY <2>5 DEF Inserted, Ends
    <3>2. Cardinality(Inserted(r)') = Cardinality(Inserted(r))
      BY <3>1
    <3>3. rows[r] # "deleted"
      BY <2>5 DEF RowMoves
    <3> QED BY <2>1, <2>5, <3>2, <3>3 DEF Counted
  <2> QED BY <2>4, <2>5 DEF Counted
<1> QED BY <1>1, <1>2 DEF CountInv

LEMMA LoadCount ==
  ASSUME CountInv, WorkInv', NEW p \in Requests, NEW s \in Registrations, SubmitLoad(p, s)
  PROVE  CountInv'
<1>1. /\ request[p].step = "idle" /\ Present(s) /\ s \notin submitted
      /\ request'[p].reg = s /\ request'[p].step = "loaded"
      /\ \A q \in Requests : q # p => request'[q] = request[q]
      /\ UNCHANGED <<rows, submitted, records, failed>>
  BY DEF SubmitLoad, Submittable, CountInv, WorkInv, TypeOK, table, deliverables
<1>2. StartedInv'
  BY <1>1 DEF CountInv, StartedInv, Present
<1>3. ASSUME NEW r \in Registrations PROVE Counted(r)'
  <2>1. Counted(r) /\ records[r] \in Nat
    BY DEF CountInv, WorkInv, TypeOK
  <2>2. Inserted(r)' = Inserted(r)
    BY <1>1 DEF Inserted
  <2>3. Cardinality(Inserted(r)') = Cardinality(Inserted(r))
    BY <2>2
  <2>4. CASE r # s
    <3>1. Loaded(r)' = Loaded(r)
      BY <1>1, <2>4 DEF Loaded
    <3>2. Cardinality(Loaded(r)') = Cardinality(Loaded(r))
      BY <3>1
    <3> QED BY <1>1, <2>1, <2>3, <3>2 DEF Counted
  <2>5. CASE r = s
    <3>1. Loaded(r)' \cap Inserted(r) = {} /\ Loaded(r)' \cup Inserted(r) \subseteq Requests
      BY <1>1 DEF Loaded, Inserted
    <3>2. IsFiniteSet(Loaded(r)')
      BY <3>1, FS_Subset
    <3>3. Cardinality(Loaded(r)') + Cardinality(Inserted(r)) <= Cardinality(Requests)
          /\ Cardinality(Loaded(r)') \in Nat
      <4>1. Cardinality(Loaded(r)' \cup Inserted(r)) <= Cardinality(Requests)
        BY <3>1, FS_Subset
      <4>2. Cardinality(Loaded(r)' \cap Inserted(r)) = 0
        BY <3>1, FS_EmptySet
      <4>3. Cardinality(Loaded(r)' \cup Inserted(r))
              = Cardinality(Loaded(r)') + Cardinality(Inserted(r))
                - Cardinality(Loaded(r)' \cap Inserted(r))
        BY <3>2, CountSizes, FS_Union
      <4>4. Cardinality(Loaded(r)') \in Nat
        BY <3>2, FS_CardinalityType
      <4> QED BY <4>1, <4>2, <4>3, <4>4, CountSizes
    <3>4. r \notin failed => records[r] <= Cardinality(Inserted(r))
      BY <1>1, <2>1, <2>5 DEF Counted, Present
    <3> QED BY <1>1, <2>1, <2>3, <3>3, <3>4, CountSizes DEF Counted
  <2> QED BY <2>4, <2>5
<1> QED BY <1>2, <1>3 DEF CountInv

LEMMA InsertCount ==
  ASSUME CountInv, WorkInv', NEW p \in Requests, SubmitInsert(p)
  PROVE  CountInv'
<1> SUFFICES ASSUME NEW s \in Registrations, s = request[p].reg PROVE CountInv'
  BY DEF CountInv, WorkInv, AtWorkInv, SubmitInsert
<1>1. /\ request[p].step = "loaded"
      /\ request'[p].reg = s /\ request'[p].step = "inserted"
      /\ \A q \in Requests : q # p => request'[q] = request[q]
      /\ records' = [records EXCEPT ![s] = @ + 1]
      /\ UNCHANGED <<rows, submitted, failed>>
  BY DEF SubmitInsert, CountInv, WorkInv, TypeOK, table
<1>2. StartedInv'
  BY <1>1 DEF CountInv, StartedInv
<1>3. ASSUME NEW r \in Registrations PROVE Counted(r)'
  <2>1. Counted(r) /\ records[r] \in Nat
    BY DEF CountInv, WorkInv, TypeOK
  <2>2. CASE r # s
    <3>1. Loaded(r)' = Loaded(r) /\ Inserted(r)' = Inserted(r) /\ records'[r] = records[r]
      BY <1>1, <2>2 DEF Loaded, Inserted, CountInv, WorkInv, TypeOK
    <3>2. /\ Cardinality(Loaded(r)') = Cardinality(Loaded(r))
          /\ Cardinality(Inserted(r)') = Cardinality(Inserted(r))
      BY <3>1
    <3> QED BY <1>1, <2>1, <3>1, <3>2 DEF Counted
  <2>3. CASE r = s
    <3>1. records'[r] = records[r] + 1
      BY <1>1, <2>3 DEF CountInv, WorkInv, TypeOK
    <3>2. /\ Loaded(r)' = Loaded(r) \ {p} /\ p \in Loaded(r)
          /\ Inserted(r)' = Inserted(r) \cup {p} /\ p \notin Inserted(r)
      BY <1>1, <2>3 DEF Loaded, Inserted
    <3>3. /\ Cardinality(Loaded(r)') = Cardinality(Loaded(r)) - 1
          /\ Cardinality(Inserted(r)') = Cardinality(Inserted(r)) + 1
      <4>1. IsFiniteSet(Loaded(r)) /\ IsFiniteSet(Inserted(r))
        BY CountSizes
      <4>2. Cardinality(Loaded(r) \ {p}) = Cardinality(Loaded(r)) - 1
        BY <3>2, <4>1, FS_RemoveElement
      <4>3. Cardinality(Inserted(r) \cup {p}) = Cardinality(Inserted(r)) + 1
        BY <3>2, <4>1, FS_AddElement
      <4> QED BY <3>2, <4>2, <4>3
    <3> QED BY <1>1, <2>1, <3>1, <3>3, CountSizes DEF Counted
  <2> QED BY <2>2, <2>3
<1> QED BY <1>2, <1>3 DEF CountInv

LEMMA StepCount == CountInv /\ [Next]_vars => CountInv'
<1> SUFFICES ASSUME CountInv, [Next]_vars PROVE CountInv'
  OBVIOUS
<1>0. WorkInv /\ WorkInv'
  BY StepWork DEF CountInv
<1>1. CASE UNCHANGED <<submitted, records, request>> /\ failed \subseteq failed'
           /\ \A r \in Registrations : RowMoves(r)
  BY <1>0, <1>1, QuietCount
<1>2. ASSUME Registering \/ Dispatching \/ DeadlinePasses \/ UNCHANGED vars PROVE CountInv'
  <2>1. UNCHANGED <<submitted, records, request>>
    BY <1>2 DEF vars, table, deliverables, queue, DeadlinePasses, Registering, RegisterAgent,
                RetryDispatch, Enqueue, EnqueueFails, DeregisterAgent, Dispatching, JobStart,
                JobSend, JobMark, JobFails
  <2>2. failed \subseteq failed'
    BY <1>2 DEF vars, table, deliverables, queue, DeadlinePasses, Registering, RegisterAgent,
                RetryDispatch, Enqueue, EnqueueFails, DeregisterAgent, Dispatching, JobStart,
                JobSend, JobMark, JobFails
  <2>3. ASSUME NEW r \in Registrations
        PROVE  RowMoves(r)
    BY <1>0, <1>2
       DEF RowMoves, WorkInv, TypeOK, vars, table, deliverables, queue, DeadlinePasses, Registering,
           RegisterAgent, RetryDispatch, Enqueue, EnqueueFails, DeregisterAgent, Dispatching,
           JobStart, JobSend, JobMark, JobFails
  <2> QED BY <1>1, <2>1, <2>2, <2>3
<1>3. ASSUME NEW q \in Requests, SubmitRefused(q) \/ SubmitLink(q) \/ SubmitLinkFails(q)
      PROVE  CountInv'
  <2>1. /\ request[q].step \in {"loaded", "inserted"}
        /\ request'[q].step = "idle"
        /\ \A p \in Requests : p # q => request'[p] = request[p]
        /\ UNCHANGED <<rows, records>>
        /\ failed \subseteq failed' /\ submitted \subseteq submitted'
    BY <1>0, <1>3 DEF SubmitRefused, SubmitLink, SubmitLinkFails, IdleRequest, WorkInv, TypeOK,
                      table, deliverables
  <2>2. request[q].reg \in Registrations /\ rows[request[q].reg] # "none"
    BY <1>0, <2>1 DEF CountInv, StartedInv, WorkInv, AtWorkInv
  <2>3. Ends(q)
    BY <1>0, <1>3, <2>1, <2>2
       DEF Ends, SubmitRefused, SubmitLink, SubmitLinkFails, Present, WorkInv, TypeOK
  <2>4. \A r \in Registrations : RowMoves(r)
    BY <2>1 DEF RowMoves
  <2>5. \A p \in Requests : request'[p] = request[p] \/ Ends(p)
    BY <2>1, <2>3
  <2> QED BY <1>0, <2>1, <2>4, <2>5, QuietCount
<1> QED BY <1>0, <1>2, <1>3, LoadCount, InsertCount DEF Next, Submitting, Answering

LEMMA InitCount == Init => CountInv
<1> SUFFICES ASSUME Init PROVE CountInv
  OBVIOUS
<1>1. WorkInv /\ StartedInv
  BY InitWork DEF Init, StartedInv, IdleRequest
<1>2. ASSUME NEW r \in Registrations PROVE Counted(r)
  <2>1. Loaded(r) = {} /\ records[r] = 0
    BY DEF Init, Loaded, IdleRequest
  <2>2. Cardinality(Loaded(r)) = 0
    BY <2>1, FS_EmptySet
  <2> QED BY <2>1, <2>2, CountSizes DEF Counted
<1> QED BY <1>1, <1>2 DEF CountInv

\* But for errors, a registration has at most as many deliverables as submissions
\* were served at once: the guard of both routes stops the rest
\* (submitDeliverable, handleSubmit).
THEOREM RepeatsBounded == ContestSpec => []RepeatsAreConcurrent
<1>1. ContestInit => CountInv
  BY InitCount DEF ContestInit
<1>2. CountInv /\ [ContestNext]_contestVars => CountInv'
  <2> SUFFICES ASSUME CountInv, [ContestNext]_contestVars PROVE CountInv'
    OBVIOUS
  <2>1. [Next]_vars
    BY DEF ContestNext, contestVars, TickCount, TickWrite, TickFails
  <2> QED BY <2>1, StepCount
<1>3. CountInv => RepeatsAreConcurrent
  <2> SUFFICES ASSUME CountInv, NEW r \in Registrations, r \notin failed
               PROVE  ~(records[r] > Cardinality(Requests))
    BY DEF RepeatsAreConcurrent
  <2>1. Counted(r) /\ records[r] \in Nat
    BY DEF CountInv, WorkInv, TypeOK
  <2> QED BY <2>1, CountSizes DEF Counted
<1> QED BY <1>1, <1>2, <1>3, PTL DEF ContestSpec
================================================================================
