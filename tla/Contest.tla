------------------------------- MODULE Contest -------------------------------
(***************************************************************************)
(* The submissions to a bounty and the first half of handleDeadlines       *)
(* (bounties-scheduler.service.ts), which decides from a count of them     *)
(* whether the client reviews work or is refunded.  BountyLifecycle leaves *)
(* the outcome of the count open and has the rest of the cron and all      *)
(* other writers of the bounty's row; here the count is what it is.        *)
(***************************************************************************)
EXTENDS Submissions

VARIABLES
  state,  \* of the bounty
  tick    \* the cron: "idle", or the state it is about to write

contestVars == <<vars, state, tick>>

ContestTypeOK ==
  /\ TypeOK
  /\ state \in {"open", "under_review", "awaiting_refund"}
  /\ tick \in {"idle", "under_review", "awaiting_refund"}

ContestInit == Init /\ state = "open" /\ tick = "idle"

\* findExpiredOpen returns the bounty, and its submissions are counted.
TickCount ==
  /\ tick = "idle"
  /\ state = "open" /\ closed
  /\ tick' = IF CountSubmitted = 0 THEN "awaiting_refund" ELSE "under_review"
  /\ UNCHANGED <<vars, state>>

TickWrite ==
  /\ tick \in {"under_review", "awaiting_refund"}
  /\ state' = tick
  /\ tick' = "idle"
  /\ UNCHANGED vars

TickFails ==
  /\ "throw" \in Faults
  /\ tick # "idle"
  /\ tick' = "idle"
  /\ UNCHANGED <<vars, state>>

ContestNext ==
  \/ Next /\ UNCHANGED <<state, tick>>
  \/ TickCount \/ TickWrite \/ TickFails

ContestSpec ==
  /\ ContestInit
  /\ [][ContestNext]_contestVars
  /\ Fairness
  /\ WF_contestVars(TickCount \/ TickWrite)

\* A client is sent into review only with work to look at: getSubmissions finds
\* a deliverable.
ReviewHasWork ==
  state = "under_review" => \E r \in Registrations : records[r] > 0

\* "No work submitted": the client gets the prize back only when no agent that
\* is still registered delivered in time.
NoWorkRefunded ==
  state = "awaiting_refund" =>
    \A r \in timely : ~Present(r)
==============================================================================
