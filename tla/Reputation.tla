------------------------------ MODULE Reputation ------------------------------
(***************************************************************************)
(* The statistics of one agent and of one client (reputation.service.ts):  *)
(* a row of agent_stats and one of owner_stats, read into memory, changed  *)
(* and written back by everything that happens to them.  The agent's row   *)
(* is then read again for the composite score, which goes back into the    *)
(* row and on to the leaderboards.  Nothing keeps two updates apart.       *)
(*                                                                         *)
(* A rate is kept as its numerator and denominator, and the composite      *)
(* score as the parts it is weighted from: what matters here is of which   *)
(* moment they are.  A call of the database that fails is seldom noticed:  *)
(* its error is not looked at, and a row that cannot be read counts as an  *)
(* empty one.                                                              *)
(***************************************************************************)
EXTENDS Naturals, FiniteSetsExt

CONSTANTS
  Bounties,   \* bounties the agent may win
  Ratings,    \* quality scores clients give
  Handlers,   \* updates of the statistics in flight
  BadgeAt,    \* posts or ratings that earn a client a badge: 10 in the code
  MaxEvents   \* bound: updates that happen, and calls that fail, in all

\* What the two routes that rate a bounty let through, POST /bounties/:id/rate 0
\* to 100 and POST /reputation/:id/rate 1 to 5, for the same column.
Grades == 0..100

ASSUME ReputationAssumption ==
  /\ Ratings \subseteq Grades
  /\ BadgeAt \in Nat \ {0} /\ MaxEvents \in Nat

VARIABLES
  stats,     \* the row of agent_stats
  owner,     \* the row of owner_stats
  ratings,   \* table ratings: the quality score of each rated bounty
  board,     \* the score in the leaderboards: global and monthly, and categories
  handler,   \* updates in flight
  (* history *)
  selected,  \* bounties the agent was selected for
  happened,  \* how often the agent registered, submitted, submitted in time and
             \* was credited with a win, and the client posted, settled and rated
  disturbed, \* the rows an update of which has failed or overlapped with another
  failures   \* how many calls have failed

tables == <<stats, owner, ratings, board>>
vars   == <<tables, handler, selected, happened, disturbed, failures>>

AgentKinds == {"register", "submit", "onTime", "win", "rate"}
OwnerKinds == {"post", "settle", "ownerRate"}
Counted    == {"register", "submit", "onTime", "win", "post", "settle", "rate"}
Fractions == {r \in [of : Nat, in : Nat] : r.of <= r.in}
NoRate == [of |-> 0, in |-> 0]
Parts == [quality : [of : Nat, in : Nat], onTime : Fractions,
          completion : Fractions, winRate : Fractions]
NoParts == [quality |-> NoRate, onTime |-> NoRate, completion |-> NoRate, winRate |-> NoRate]

Stats == [total_registrations : Nat, total_submissions : Nat,
          on_time_submissions : Nat, bounty_wins : Nat, win_streak : Nat,
          xp_points : Nat, parts : Parts, composite_score : Parts, ranked : BOOLEAN]
NoStats == [total_registrations |-> 0, total_submissions |-> 0,
            on_time_submissions |-> 0, bounty_wins |-> 0, win_streak |-> 0,
            xp_points |-> 0, parts |-> NoParts, composite_score |-> NoParts,
            ranked |-> FALSE]

OwnerStats == [bounties_posted : Nat, bounties_settled : Nat, ratings_given : Nat,
               xp_points : Nat, tier : {"client", "bronze", "silver", "gold", "platinum"},
               badges : SUBSET {"active_client", "great_reviewer"}]
NoOwner == [bounties_posted |-> 0, bounties_settled |-> 0, ratings_given |-> 0,
            xp_points |-> 0, tier |-> "client", badges |-> {}]

\* s is what an update has read, or of a rating what it is about to write.
IdleHandler == [kind |-> "register", step |-> "idle", s |-> NoStats]

\* The rates but for the quality are fractions of one, as the entity says, though
\* wins may be more than registrations.
TypeOK ==
  /\ stats \in Stats
  /\ DOMAIN ratings \subseteq Bounties
  /\ \A b \in DOMAIN ratings : ratings[b] \in Ratings
  /\ owner \in OwnerStats
  /\ board \in [all : Parts, category : Parts]
  /\ handler \in [Handlers -> [kind : AgentKinds \cup OwnerKinds,
                               step : {"idle", "loaded", "averaged", "stored", "read",
                                       "written", "pushed", "rated"},
                               s    : Stats \cup OwnerStats]]
  /\ selected \subseteq Bounties
  /\ happened \in [Counted -> Nat]
  /\ disturbed \subseteq {"agent", "owner"}
  /\ failures \in Nat

Init ==
  /\ stats = NoStats
  /\ owner = NoOwner
  /\ ratings = <<>>
  /\ board = [all |-> NoParts, category |-> NoParts]
  /\ handler = [h \in Handlers |-> IdleHandler]
  /\ selected = {}
  /\ happened = [k \in Counted |-> 0]
  /\ disturbed = {}
  /\ failures = 0

Larger(m, n) == IF m > n THEN m ELSE n

\* Variant: a rate is not kept within one.
RateUncapped(of, in) == [of |-> of, in |-> in]

Rate(of, in) == [of |-> of, in |-> Larger(in, of)]

\* Only the milestone tick awards the bonus.
StreakBonus(streak) ==
  CASE streak = 3 -> 150 [] streak = 5 -> 300 [] streak = 10 -> 500 [] OTHER -> 0

\* deriveOwnerTier
OwnerTier(xp) ==
  CASE xp >= 2000 -> "platinum" [] xp >= 800 -> "gold" [] xp >= 200 -> "silver"
    [] xp >= 50 -> "bronze" [] OTHER -> "client"

\* computeOwnerBadges, but for the badge that depends on amounts.
OwnerBadges(o) ==
  {b \in {"active_client", "great_reviewer"} :
     BadgeAt <= IF b = "active_client" THEN o.bounties_posted ELSE o.ratings_given}

RowOf(kind) == IF kind \in OwnerKinds THEN "owner" ELSE "agent"
Busy(row)   == \E h \in Handlers : handler[h].step # "idle" /\ RowOf(handler[h].kind) = row
Idle        == \A h \in Handlers : handler[h].step = "idle"

Happen(kinds) ==
  happened' = [k \in Counted |-> IF k \in kinds THEN happened[k] + 1 ELSE happened[k]]

Events == happened["register"] + happened["submit"] + happened["win"] + happened["post"]
            + happened["rate"] + failures

Fails == Events < MaxEvents /\ failures' = failures + 1

\* A row that cannot be read is taken for one that is not there.
Loads(s, row, none) ==
  \/ s = row /\ UNCHANGED failures
  \/ s = none /\ s # row /\ Events + 1 < MaxEvents /\ Fails

\* An update starts, with the row it has loaded.
Update(kind, step, s) == [kind |-> kind, step |-> step, s |-> s]

DisturbedBy(kind, s) ==
  LET row == RowOf(kind)
  IN  IF Busy(row) \/ (kind # "rate" /\ s # IF row = "agent" THEN stats ELSE owner)
        THEN {row} ELSE {}

Begin(h, kind, step, s) ==
  /\ handler[h].step = "idle"
  /\ handler' = [handler EXCEPT ![h] = Update(kind, step, s)]
  /\ disturbed' = disturbed \cup DisturbedBy(kind, s)
  /\ Events < MaxEvents

Proceed(h, from, to, s) ==
  /\ handler[h].step = from
  /\ handler' = [handler EXCEPT ![h].step = to, ![h].s = s]
  /\ UNCHANGED <<disturbed, failures>>

-----------------------------------------------------------------------------
(* What is called when, and loads the row *)

\* incrementAgentRegistration and incrementAgentSubmission, by
\* bounties-registration.service.ts and deliverables.service.ts.
RegisterOrSubmit(h, kind) ==
  /\ kind \in {"register", "submit", "onTime"}
  /\ \E s \in {stats, NoStats} : Loads(s, stats, NoStats) /\ Begin(h, kind, "loaded", s)
  /\ Happen(IF kind = "onTime" THEN {"submit", "onTime"} ELSE {kind})
  /\ UNCHANGED <<tables, selected>>

\* confirmEscrow calls handleOwnerBountyPosted.
BountyPosted(h) ==
  /\ \E o \in {owner, NoOwner} : Loads(o, owner, NoOwner) /\ Begin(h, "post", "loaded", o)
  /\ Happen({"post"})
  /\ UNCHANGED <<tables, selected>>

\* selectWinner calls handleBountyCompleted and handleOwnerBountySettled at once
\* and does not wait for them, however often a winner is selected.
WinnerSelected(h, g, b) ==
  /\ h # g /\ handler[h].step = "idle" /\ handler[g].step = "idle"
  /\ Events < MaxEvents
  /\ \E s \in {stats, NoStats}, o \in {owner, NoOwner} :
       /\ \/ s = stats /\ Loads(o, owner, NoOwner)
          \/ o = owner /\ Loads(s, stats, NoStats)
       /\ handler' = [handler EXCEPT ![h] = Update("win", "loaded", s),
                                     ![g] = Update("settle", "loaded", o)]
       /\ disturbed' = disturbed \cup DisturbedBy("win", s) \cup DisturbedBy("settle", o)
  /\ selected' = selected \cup {b}
  /\ Happen({"win", "settle"})
  /\ UNCHANGED tables

\* So does the webhook call handleBountyCompleted when the settlement of a bounty
\* with a winner arrives, once or more.
SettleConfirmed(h, b) ==
  /\ b \in selected
  /\ \E s \in {stats, NoStats} : Loads(s, stats, NoStats) /\ Begin(h, "win", "loaded", s)
  /\ Happen({"win"})
  /\ UNCHANGED <<tables, selected>>

\* Variant: the rating is added to an earlier one.
SaveRatingAdded(h, b, q) ==
  /\ b \in selected
  /\ Begin(h, "rate", "loaded", [NoStats EXCEPT !.parts.quality = [of |-> q, in |-> 1]])
  /\ ratings' = [c \in DOMAIN ratings \cup {b} |->
                   IF c # b THEN ratings[c] ELSE IF b \in DOMAIN ratings THEN ratings[b] + q ELSE q]
  /\ Happen({"rate"})
  /\ UNCHANGED <<stats, owner, board, selected, failures>>

\* submitRating saves the rating of a settled bounty, in place of an earlier one ...
SaveRating(h, b, q) ==
  /\ b \in selected
  /\ Begin(h, "rate", "loaded", [NoStats EXCEPT !.parts.quality = [of |-> q, in |-> 1]])
  /\ ratings' = [c \in DOMAIN ratings \cup {b} |-> IF c = b THEN q ELSE ratings[c]]
  /\ Happen({"rate"})
  /\ UNCHANGED <<stats, owner, board, selected, failures>>

-----------------------------------------------------------------------------
(* The change of the row: only the columns of the event are written, with     *)
(* values that come from the row as it was loaded.                            *)

\* The registration's columns; rates are left as they are.
StoreRegistration(s) ==
  stats' = [stats EXCEPT !.total_registrations = s.total_registrations + 1,
                         !.xp_points = s.xp_points + 5]

\* Variant: a late submission counts as one in time.
StoreSubmissionLate(s, onTime) ==
  stats' = [stats EXCEPT
    !.total_submissions = s.total_submissions + 1,
    !.on_time_submissions = s.on_time_submissions + 1,
    !.xp_points = s.xp_points + 35]

StoreSubmission(s, onTime) ==
  LET submissions == s.total_submissions + 1
      inTime      == s.on_time_submissions + (IF onTime THEN 1 ELSE 0)
  IN  stats' = [stats EXCEPT
        !.total_submissions = submissions,
        !.on_time_submissions = inTime,
        !.parts.completion = Rate(submissions, s.total_registrations),
        !.parts.onTime = Rate(inTime, submissions),
        !.xp_points = s.xp_points + (IF onTime THEN 35 ELSE 15)]

\* Variant: no wins are stored.
StoreWinNone(s) ==
  stats' = [stats EXCEPT !.win_streak = s.win_streak + 1,
                         !.xp_points = s.xp_points + 100 + StreakBonus(s.win_streak + 1)]

StoreWin(s) ==
  stats' = [stats EXCEPT
    !.bounty_wins = s.bounty_wins + 1,
    !.parts.winRate = Rate(s.bounty_wins + 1, s.total_registrations),
    !.win_streak = s.win_streak + 1,
    !.xp_points = s.xp_points + 100 + StreakBonus(s.win_streak + 1)]

Store(h) ==
  LET kind == handler[h].kind
      s    == handler[h].s
  IN  /\ kind \in AgentKinds \ {"rate"}
      /\ Proceed(h, "loaded", IF kind = "register" THEN "idle" ELSE "stored", NoStats)
      /\ kind = "register" => StoreRegistration(s)
      /\ kind \in {"submit", "onTime"} => StoreSubmission(s, kind = "onTime")
      /\ kind = "win" => StoreWin(s)
      /\ UNCHANGED <<owner, ratings, board, selected, happened>>

\* What the owner's row is about to be: the counter of the event, experience
\* points, and the tier and the badges of the loaded row with these.
OwnerColumns(o, kind) ==
  LET xp == o.xp_points + (CASE kind = "post" -> 10 [] kind = "settle" -> 25 [] OTHER -> 15)
      merged == [o EXCEPT !.bounties_posted = IF kind = "post" THEN @ + 1 ELSE @,
                          !.bounties_settled = IF kind = "settle" THEN @ + 1 ELSE @,
                          !.ratings_given = IF kind = "ownerRate" THEN @ + 1 ELSE @]
  IN  [merged EXCEPT !.xp_points = xp, !.tier = OwnerTier(xp), !.badges = OwnerBadges(merged)]

\* The upsert leaves the counters of the other events alone.
StoreOwner(h) ==
  LET kind == handler[h].kind
      new  == OwnerColumns(handler[h].s, kind)
  IN  /\ kind \in OwnerKinds
      /\ Proceed(h, "loaded", "idle", NoStats)
      /\ owner' =
           [new EXCEPT
              !.bounties_posted = IF kind = "post" THEN @ ELSE owner.bounties_posted,
              !.bounties_settled = IF kind = "settle" THEN @ ELSE owner.bounties_settled,
              !.ratings_given = IF kind = "ownerRate" THEN @ ELSE owner.ratings_given]
      /\ UNCHANGED <<stats, ratings, board, selected, happened>>

AfterScore(kind) == IF kind = "rate" THEN "rated" ELSE "idle"

\* An error that the query returns is not looked at: the row stays as it is, and
\* the update goes on.  Without a row to be scored, or the agent's categories,
\* it goes on behind the score.
StoreIgnored(h) ==
  LET step == handler[h].step
      kind == handler[h].kind
      Skip(to, s) == handler' = [handler EXCEPT ![h].step = to, ![h].s = s]
  IN  /\ Fails
      /\ \/ /\ step = "loaded"
            /\ kind # "rate"
            /\ Skip(IF kind \in OwnerKinds \cup {"register"} THEN "idle" ELSE "stored", NoStats)
         \/ step = "averaged" /\ Skip("stored", NoStats)
         \/ step = "read" /\ Skip("written", handler[h].s)
         \/ step \in {"stored", "pushed"} /\ Skip(AfterScore(kind), NoStats)
      /\ disturbed' = disturbed \cup {RowOf(kind)}
      /\ UNCHANGED <<tables, selected, happened>>

\* ... and takes the average over all of the agent's ratings.
AverageRating ==
  [of |-> MapThenSumSet(LAMBDA b : ratings[b], DOMAIN ratings),
   in |-> Cardinality(DOMAIN ratings)]

ReadRatings(h) ==
  /\ handler[h].kind = "rate"
  /\ Proceed(h, "loaded", "averaged", [NoStats EXCEPT !.parts.quality = AverageRating])
  /\ UNCHANGED <<tables, selected, happened>>

\* Without an answer the new rating counts for the average.
ReadRatingsFails(h) ==
  /\ Fails
  /\ handler[h].kind = "rate" /\ handler[h].step = "loaded"
  /\ handler' = [handler EXCEPT ![h].step = "averaged"]
  /\ disturbed' = disturbed \cup {"agent"}
  /\ UNCHANGED <<tables, selected, happened>>

StoreQuality(h) ==
  /\ Proceed(h, "averaged", "stored", NoStats)
  /\ stats' = [stats EXCEPT !.parts.quality = handler[h].s.parts.quality]
  /\ UNCHANGED <<owner, ratings, board, selected, happened>>

-----------------------------------------------------------------------------
(* recalculateCompositeScore and updateRedisLeaderboard *)

ScoreRead(h) ==
  /\ Proceed(h, "stored", "read", stats)
  /\ UNCHANGED <<tables, selected, happened>>

\* Variant: the score alone decides about the tier.
RankedByScore(s) == s.parts # NoParts

\* deriveAgentTier: without a win an agent is unranked whatever his score is.
Ranked(s) == s.bounty_wins > 0

ScoreWrite(h) ==
  /\ Proceed(h, "read", "written", handler[h].s)
  /\ stats' = [stats EXCEPT !.composite_score = handler[h].s.parts,
                            !.ranked = Ranked(handler[h].s)]
  /\ UNCHANGED <<owner, ratings, board, selected, happened>>

\* The global and the monthly leaderboard at once, then the agent's categories.
UpdateLeaderboard(h) ==
  /\ Proceed(h, "written", "pushed", handler[h].s)
  /\ board' = [board EXCEPT !.all = handler[h].s.parts]
  /\ UNCHANGED <<stats, owner, ratings, selected, happened>>

UpdateCategories(h) ==
  /\ Proceed(h, "pushed", AfterScore(handler[h].kind), NoStats)
  /\ board' = [board EXCEPT !.category = handler[h].s.parts]
  /\ UNCHANGED <<stats, owner, ratings, selected, happened>>

\* Last of all submitRating calls handleOwnerRatingGiven.
RatingGiven(h) ==
  /\ handler[h].step = "rated"
  /\ \E o \in {owner, NoOwner} :
       /\ Loads(o, owner, NoOwner)
       /\ handler' = [handler EXCEPT ![h] = Update("ownerRate", "loaded", o)]
       /\ disturbed' = disturbed \cup DisturbedBy("ownerRate", o)
  /\ UNCHANGED <<tables, selected, happened>>

\* An exception or a restart.
UpdateFails(h) ==
  /\ Fails
  /\ handler[h].step # "idle"
  /\ handler' = [handler EXCEPT ![h] = IdleHandler]
  /\ disturbed' = disturbed \cup {RowOf(handler[h].kind)}
                            \cup (IF handler[h].kind = "rate" THEN {"owner"} ELSE {})
  /\ UNCHANGED <<tables, selected, happened>>

-----------------------------------------------------------------------------
Next ==
  \E h \in Handlers :
    \/ \E kind \in AgentKinds : RegisterOrSubmit(h, kind)
    \/ BountyPosted(h)
    \/ \E b \in Bounties :
         \/ SettleConfirmed(h, b)
         \/ \E g \in Handlers : WinnerSelected(h, g, b)
         \/ \E q \in Ratings : SaveRating(h, b, q)
    \/ Store(h) \/ StoreOwner(h) \/ StoreIgnored(h)
    \/ ReadRatings(h) \/ ReadRatingsFails(h) \/ StoreQuality(h)
    \/ ScoreRead(h) \/ ScoreWrite(h) \/ UpdateLeaderboard(h) \/ UpdateCategories(h)
    \/ RatingGiven(h) \/ UpdateFails(h)

Spec == Init /\ [][Next]_vars

-----------------------------------------------------------------------------
(* Properties *)

\* Updates that overlap or fail may lose what happened, but never invent any of
\* it: the counters of both rows stay below what happened, on-time submissions
\* within the submissions, and badges are earned.
NothingInvented ==
  /\ stats.total_registrations <= happened["register"]
  /\ stats.total_submissions <= happened["submit"]
  /\ stats.on_time_submissions <= happened["onTime"]
  /\ stats.bounty_wins <= happened["win"]
  /\ stats.on_time_submissions <= stats.total_submissions
  /\ owner.bounties_posted <= happened["post"]
  /\ owner.bounties_settled <= happened["settle"]
  /\ owner.ratings_given <= happened["rate"]
  /\ "active_client" \in owner.badges => happened["post"] >= BadgeAt

\* However many updates are lost, an agent with a tier has a win in its row.
RankedHasWon == stats.ranked => stats.bounty_wins > 0

\* The average rating in the row, in the score and on the leaderboards is one the
\* ratings can have, whichever updates overlap, fail or are repeated between its
\* reading and its writing: from the lowest rating to the highest.
WithinRatings(q) ==
  \A n \in Ratings :
    /\ (\A r \in Ratings : n <= r) => n * q.in <= q.of
    /\ (\A r \in Ratings : r <= n) => q.of <= n * q.in

QualityIsAnAverage ==
  \A p \in {stats.parts, stats.composite_score, board.all, board.category} :
    WithinRatings(p.quality)

\* As long as updates neither overlap nor fail, none is lost: in between, each
\* row counts what happened and its experience points are what was earned, the
\* bonus for three wins in a row once; the score and the leaderboards follow.
SequentialIsExact ==
  Idle =>
    /\ "agent" \notin disturbed =>
         /\ stats.total_registrations = happened["register"]
         /\ stats.total_submissions = happened["submit"]
         /\ stats.on_time_submissions = happened["onTime"]
         /\ stats.bounty_wins = happened["win"]
         /\ stats.xp_points =
              5 * happened["register"] + 15 * happened["submit"] + 20 * happened["onTime"]
                + 100 * happened["win"]
                + MapThenSumSet(StreakBonus, 1..happened["win"])
         /\ stats.parts.quality = AverageRating
         /\ stats.composite_score = stats.parts
         /\ board.all = stats.parts /\ board.category = stats.parts
    /\ "owner" \notin disturbed =>
         /\ owner.bounties_posted = happened["post"]
         /\ owner.bounties_settled = happened["settle"]
         /\ owner.ratings_given = happened["rate"]
         /\ owner.badges = OwnerBadges(owner) /\ owner.tier = OwnerTier(owner.xp_points)
         /\ owner.xp_points =
              10 * happened["post"] + 25 * happened["settle"] + 15 * happened["rate"]
==============================================================================
