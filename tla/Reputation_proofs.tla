--------------------------- MODULE Reputation_proofs ---------------------------
(***************************************************************************)
(* Theorems about Reputation for every set of bounties, ratings and        *)
(* updates in flight, and every bound.                                     *)
(***************************************************************************)
EXTENDS Reputation, SumTheorems

Steps == {"idle", "loaded", "averaged", "stored", "read", "written", "pushed", "rated"}
Updates == [kind : AgentKinds \cup OwnerKinds, step : Steps, s : Stats \cup OwnerStats]

-----------------------------------------------------------------------------
(* What a step does to the updates in flight *)

Moved(h, kind, step, s) == handler' = [handler EXCEPT ![h] = Update(kind, step, s)]

LEMMA KindsDiffer ==
  /\ "rate" \in AgentKinds /\ "rate" \notin OwnerKinds
  /\ \A kind \in AgentKinds : kind \notin OwnerKinds
  BY DEF AgentKinds, OwnerKinds

LEMMA UpdateFields ==
  ASSUME NEW kind, NEW step, NEW s
  PROVE  /\ Update(kind, step, s).kind = kind
         /\ Update(kind, step, s).step = step
         /\ Update(kind, step, s).s = s
  BY DEF Update

LEMMA UpdateExact ==
  ASSUME NEW u \in Updates, NEW step \in Steps, NEW s
  PROVE  [u EXCEPT !.step = step, !.s = s] = Update(u.kind, step, s)
<1> DEFINE v == [u EXCEPT !.step = step]
<1>1. v \in Updates /\ v.kind = u.kind /\ v.step = step
  BY DEF Updates
<1>2. [v EXCEPT !.s = s] = Update(v.kind, v.step, s)
  <2> HIDE DEF v
  <2> QED BY <1>1 DEF Updates, Update
<1> QED BY <1>1, <1>2

LEMMA TypedHandlers == TypeOK => handler \in [Handlers -> Updates]
  BY DEF TypeOK, Updates, Steps

LEMMA ProceedMoves ==
  ASSUME TypeOK, NEW h \in Handlers, NEW from, NEW to \in Steps, NEW s,
         Proceed(h, from, to, s)
  PROVE  Moved(h, handler[h].kind, to, s) /\ handler[h].step = from
<1>1. handler \in [Handlers -> Updates]
  BY TypedHandlers
<1>2. [handler[h] EXCEPT !.step = to, !.s = s] = Update(handler[h].kind, to, s)
  BY <1>1, UpdateExact
<1>3. handler' = [handler EXCEPT ![h] = [handler[h] EXCEPT !.step = to, !.s = s]]
  BY <1>1 DEF Proceed
<1> QED BY <1>2, <1>3 DEF Moved, Proceed

LEMMA MovedFacts ==
  ASSUME TypeOK, NEW h \in Handlers, NEW kind, NEW step, NEW s, Moved(h, kind, step, s)
  PROVE  /\ handler'[h] = Update(kind, step, s)
         /\ \A g \in Handlers \ {h} : handler'[g] = handler[g]
  BY TypedHandlers DEF Moved

LEMMA MovedTyped ==
  ASSUME TypeOK, NEW h \in Handlers, NEW kind \in AgentKinds \cup OwnerKinds,
         NEW step \in Steps, NEW s \in Stats \cup OwnerStats, Moved(h, kind, step, s)
  PROVE  handler' \in [Handlers -> Updates]
<1>1. Update(kind, step, s) \in Updates
  BY DEF Update, Updates
<1> QED BY <1>1, TypedHandlers DEF Moved

-----------------------------------------------------------------------------
(* Type correctness *)

\* The client's events have one step, and hold the client's row; those of the
\* agent hold the agent's.
Held(u) ==
  /\ u.kind \in OwnerKinds => u.step \in {"idle", "loaded"}
  /\ u.kind \in OwnerKinds /\ u.step = "loaded" => u.s \in OwnerStats
  /\ u.kind \in AgentKinds => u.s \in Stats
  /\ u.step \in {"averaged", "rated"} => u.kind = "rate"

Typed ==
  /\ TypeOK
  /\ IsFiniteSet(DOMAIN ratings)
  /\ \A h \in Handlers : Held(handler[h])

LEMMA NoneTyped == NoStats \in Stats /\ NoOwner \in OwnerStats
<1>1. NoRate \in [of : Nat, in : Nat] /\ NoRate \in Fractions
  BY DEF NoRate, Fractions
<1>2. NoParts \in Parts
  BY <1>1 DEF NoParts, Parts
<1> QED BY <1>2 DEF NoStats, Stats, NoOwner, OwnerStats

LEMMA RateTyped == ASSUME NEW m \in Nat, NEW n \in Nat PROVE Rate(m, n) \in Fractions
<1>1. Larger(n, m) \in Nat /\ m <= Larger(n, m)
  BY DEF Larger
<1> QED BY <1>1 DEF Rate, Fractions

\* One rating after the other is a number, and so is what they add up to.
LEMMA AverageTyped == Typed => AverageRating \in [of : Nat, in : Nat]
<1> SUFFICES ASSUME Typed PROVE AverageRating \in [of : Nat, in : Nat]
  OBVIOUS
<1>0. Ratings \subseteq Nat
  BY ReputationAssumption DEF Grades
<1>1. \A b \in DOMAIN ratings : ratings[b] \in Nat
  BY <1>0 DEF Typed, TypeOK
<1>2. SumOver(ratings, DOMAIN ratings) \in Nat
  BY <1>1, SumType DEF Typed
<1>3. Cardinality(DOMAIN ratings) \in Nat
  BY FS_CardinalityType DEF Typed
<1> QED BY <1>2, <1>3 DEF AverageRating, SumOver

\* What each event makes of the agent's row.
LEMMA RegistrationStored ==
  ASSUME stats \in Stats, NEW s \in Stats, StoreRegistration(s)
  PROVE  /\ stats' \in Stats
         /\ stats'.total_registrations = s.total_registrations + 1
         /\ stats'.total_submissions = stats.total_submissions
         /\ stats'.on_time_submissions = stats.on_time_submissions
         /\ stats'.bounty_wins = stats.bounty_wins
         /\ stats'.win_streak = stats.win_streak
         /\ stats'.xp_points = s.xp_points + 5
         /\ stats'.parts = stats.parts
         /\ stats'.composite_score = stats.composite_score
         /\ stats'.ranked = stats.ranked
<1>1. s.total_registrations + 1 \in Nat /\ s.xp_points + 5 \in Nat
  BY DEF Stats
<1> QED BY <1>1 DEF StoreRegistration, Stats

LEMMA SubmissionStored ==
  ASSUME stats \in Stats, NEW s \in Stats, NEW onTime \in BOOLEAN, StoreSubmission(s, onTime)
  PROVE  /\ stats' \in Stats
         /\ stats'.total_registrations = stats.total_registrations
         /\ stats'.total_submissions = s.total_submissions + 1
         /\ stats'.on_time_submissions = s.on_time_submissions + (IF onTime THEN 1 ELSE 0)
         /\ stats'.bounty_wins = stats.bounty_wins
         /\ stats'.win_streak = stats.win_streak
         /\ stats'.xp_points = s.xp_points + (IF onTime THEN 35 ELSE 15)
         /\ stats'.parts.quality = stats.parts.quality
         /\ stats'.composite_score = stats.composite_score
         /\ stats'.ranked = stats.ranked
<1> DEFINE inTime == s.on_time_submissions + (IF onTime THEN 1 ELSE 0)
<1>1. s.total_submissions + 1 \in Nat /\ inTime \in Nat /\ s.total_registrations \in Nat
  BY DEF Stats
<1>2. /\ Rate(s.total_submissions + 1, s.total_registrations) \in Fractions
      /\ Rate(inTime, s.total_submissions + 1) \in Fractions
  BY <1>1, RateTyped
<1>3. s.xp_points + (IF onTime THEN 35 ELSE 15) \in Nat
  BY DEF Stats
<1> HIDE DEF inTime
<1>4. stats' = [stats EXCEPT
        !.total_submissions = s.total_submissions + 1,
        !.on_time_submissions = inTime,
        !.parts.completion = Rate(s.total_submissions + 1, s.total_registrations),
        !.parts.onTime = Rate(inTime, s.total_submissions + 1),
        !.xp_points = s.xp_points + (IF onTime THEN 35 ELSE 15)]
  BY DEF StoreSubmission, inTime
<1> QED BY <1>1, <1>2, <1>3, <1>4 DEF Stats, Parts, inTime

LEMMA WinStored ==
  ASSUME stats \in Stats, NEW s \in Stats, StoreWin(s)
  PROVE  /\ stats' \in Stats
         /\ stats'.total_registrations = stats.total_registrations
         /\ stats'.total_submissions = stats.total_submissions
         /\ stats'.on_time_submissions = stats.on_time_submissions
         /\ stats'.bounty_wins = s.bounty_wins + 1
         /\ stats'.win_streak = s.win_streak + 1
         /\ stats'.xp_points = s.xp_points + 100 + StreakBonus(s.win_streak + 1)
         /\ stats'.parts.quality = stats.parts.quality
         /\ stats'.composite_score = stats.composite_score
         /\ stats'.ranked = stats.ranked
<1>1. Rate(s.bounty_wins + 1, s.total_registrations) \in Fractions
  BY RateTyped DEF Stats
<1>2. /\ s.xp_points + 100 + StreakBonus(s.win_streak + 1) \in Nat
      /\ s.bounty_wins + 1 \in Nat /\ s.win_streak + 1 \in Nat
  BY DEF StreakBonus, Stats
<1> QED BY <1>1, <1>2 DEF StoreWin, Stats, Parts

LEMMA QualityStored ==
  ASSUME stats \in Stats, NEW q \in [of : Nat, in : Nat],
         stats' = [stats EXCEPT !.parts.quality = q]
  PROVE  /\ stats' \in Stats
         /\ stats'.total_registrations = stats.total_registrations
         /\ stats'.total_submissions = stats.total_submissions
         /\ stats'.on_time_submissions = stats.on_time_submissions
         /\ stats'.bounty_wins = stats.bounty_wins
         /\ stats'.win_streak = stats.win_streak
         /\ stats'.xp_points = stats.xp_points
         /\ stats'.parts.quality = q
         /\ stats'.composite_score = stats.composite_score
         /\ stats'.ranked = stats.ranked
  BY DEF Stats, Parts

LEMMA ScoreStored ==
  ASSUME stats \in Stats, NEW p \in Parts, NEW r \in BOOLEAN,
         stats' = [stats EXCEPT !.composite_score = p, !.ranked = r]
  PROVE  /\ stats' \in Stats
         /\ stats'.total_registrations = stats.total_registrations
         /\ stats'.total_submissions = stats.total_submissions
         /\ stats'.on_time_submissions = stats.on_time_submissions
         /\ stats'.bounty_wins = stats.bounty_wins
         /\ stats'.win_streak = stats.win_streak
         /\ stats'.xp_points = stats.xp_points
         /\ stats'.parts = stats.parts
         /\ stats'.composite_score = p
         /\ stats'.ranked = r
  BY DEF Stats

LEMMA OwnerStored ==
  ASSUME NEW h \in Handlers, StoreOwner(h), owner \in OwnerStats, handler[h].s \in OwnerStats
  PROVE  LET kind == handler[h].kind
             s    == handler[h].s
             new  == OwnerColumns(s, kind)
         IN  /\ owner' \in OwnerStats
             /\ owner'.bounties_posted =
                  IF kind = "post" THEN s.bounties_posted + 1 ELSE owner.bounties_posted
             /\ owner'.bounties_settled =
                  IF kind = "settle" THEN s.bounties_settled + 1 ELSE owner.bounties_settled
             /\ owner'.ratings_given =
                  IF kind = "ownerRate" THEN s.ratings_given + 1 ELSE owner.ratings_given
             /\ owner'.xp_points =
                  s.xp_points + (CASE kind = "post" -> 10 [] kind = "settle" -> 25
                                   [] OTHER -> 15)
             /\ owner'.tier = OwnerTier(owner'.xp_points)
             /\ owner'.badges =
                  {b \in {"active_client", "great_reviewer"} :
                     BadgeAt <= IF b = "active_client"
                                  THEN IF kind = "post" THEN s.bounties_posted + 1
                                                        ELSE s.bounties_posted
                                  ELSE IF kind = "ownerRate" THEN s.ratings_given + 1
                                                             ELSE s.ratings_given}
<1> DEFINE kind == handler[h].kind
           s == handler[h].s
           new == OwnerColumns(s, kind)
           xp == s.xp_points + (CASE kind = "post" -> 10 [] kind = "settle" -> 25
                                  [] OTHER -> 15)
           p == IF kind = "post" THEN s.bounties_posted + 1 ELSE s.bounties_posted
           c == IF kind = "settle" THEN s.bounties_settled + 1 ELSE s.bounties_settled
           r == IF kind = "ownerRate" THEN s.ratings_given + 1 ELSE s.ratings_given
           merged == [s EXCEPT !.bounties_posted = p, !.bounties_settled = c,
                               !.ratings_given = r]
           badges == {b \in {"active_client", "great_reviewer"} :
                        BadgeAt <= IF b = "active_client" THEN p ELSE r}
<1>1. xp \in Nat /\ p \in Nat /\ c \in Nat /\ r \in Nat
  BY DEF OwnerStats
<1>2. merged.bounties_posted = p /\ merged.ratings_given = r /\ merged \in OwnerStats
      /\ merged.bounties_settled = c
  <2> HIDE DEF p, c, r, s
  <2> QED BY <1>1 DEF OwnerStats, s
<1>3. OwnerBadges(merged) = badges
  <2> HIDE DEF merged, p, r
  <2> QED BY <1>2 DEF OwnerBadges
<1>4. OwnerTier(xp) \in {"client", "bronze", "silver", "gold", "platinum"}
  BY DEF OwnerTier
<1>5. new = [merged EXCEPT !.xp_points = xp, !.tier = OwnerTier(xp), !.badges = badges]
  <2>1. merged = [s EXCEPT !.bounties_posted = IF kind = "post" THEN @ + 1 ELSE @,
                           !.bounties_settled = IF kind = "settle" THEN @ + 1 ELSE @,
                           !.ratings_given = IF kind = "ownerRate" THEN @ + 1 ELSE @]
    BY DEF OwnerStats
  <2> HIDE DEF badges
  <2> QED BY <1>3, <2>1 DEF OwnerColumns
<1>6. badges \subseteq {"active_client", "great_reviewer"}
  OBVIOUS
<1>7. /\ new \in OwnerStats /\ new.bounties_posted = p /\ new.bounties_settled = c
      /\ new.ratings_given = r /\ new.xp_points = xp /\ new.tier = OwnerTier(xp)
      /\ new.badges = badges
  <2> HIDE DEF new, merged, badges, xp
  <2> QED BY <1>1, <1>2, <1>4, <1>5, <1>6 DEF OwnerStats
<1>8. owner' = [new EXCEPT
              !.bounties_posted = IF kind = "post" THEN @ ELSE owner.bounties_posted,
              !.bounties_settled = IF kind = "settle" THEN @ ELSE owner.bounties_settled,
              !.ratings_given = IF kind = "ownerRate" THEN @ ELSE owner.ratings_given]
  BY DEF StoreOwner
<1>9. /\ owner' \in OwnerStats
      /\ owner'.bounties_posted = IF kind = "post" THEN p ELSE owner.bounties_posted
      /\ owner'.bounties_settled = IF kind = "settle" THEN c ELSE owner.bounties_settled
      /\ owner'.ratings_given = IF kind = "ownerRate" THEN r ELSE owner.ratings_given
      /\ owner'.xp_points = xp /\ owner'.tier = OwnerTier(xp) /\ owner'.badges = badges
  <2> HIDE DEF new, badges, xp, p, c, r, kind
  <2> QED BY <1>1, <1>7, <1>8 DEF OwnerStats
<1> QED BY <1>9

LEMMA LoadedRow ==
  ASSUME TypeOK, NEW s, NEW none, NEW row, Loads(s, row, none)
  PROVE  (s = row \/ s = none) /\ failures' \in Nat
  BY DEF Loads, Fails, TypeOK

LEMMA Disturbs ==
  ASSUME NEW kind, NEW s
  PROVE  DisturbedBy(kind, s) \subseteq {"agent", "owner"}
  BY DEF DisturbedBy, RowOf

LEMMA Happens ==
  ASSUME NEW kinds, happened \in [Counted -> Nat], Happen(kinds)
  PROVE  /\ happened' \in [Counted -> Nat]
         /\ \A k \in Counted : happened[k] <= happened'[k]
         /\ \A k \in Counted \cap kinds : happened'[k] = happened[k] + 1
         /\ \A k \in Counted \ kinds : happened'[k] = happened[k]
  BY DEF Happen

LEMMA MoveTyped ==
  ASSUME Typed, NEW h \in Handlers, NEW kind \in AgentKinds \cup OwnerKinds,
         NEW step \in Steps, NEW s \in Stats \cup OwnerStats,
         Held(Update(kind, step, s)), Moved(h, kind, step, s)
  PROVE  /\ handler' \in [Handlers -> Updates]
         /\ \A g \in Handlers : Held(handler'[g])
<1>1. TypeOK /\ \A g \in Handlers : Held(handler[g])
  BY DEF Typed
<1> HIDE DEF Held
<1> QED BY <1>1, MovedTyped, MovedFacts

\* Where only updates in flight move and nothing happens ...
LEMMA TypedQuiet ==
  ASSUME Typed, handler' \in [Handlers -> Updates], \A g \in Handlers : Held(handler'[g]),
         stats' \in Stats, owner' \in OwnerStats, board' \in [all : Parts, category : Parts],
         UNCHANGED <<ratings, selected, happened>>,
         disturbed' \subseteq {"agent", "owner"}, failures' \in Nat
  PROVE  Typed'
  BY DEF Typed, TypeOK, Updates, Steps

LEMMA TypedInit == Init => Typed
<1> SUFFICES ASSUME Init PROVE Typed
  OBVIOUS
<1>1. DOMAIN ratings = {} /\ IsFiniteSet(DOMAIN ratings)
  BY FS_EmptySet DEF Init
<1>2. IdleHandler \in Updates /\ Held(IdleHandler)
  BY NoneTyped DEF IdleHandler, Updates, Steps, Held, AgentKinds, OwnerKinds
<1>3. handler \in [Handlers -> Updates] /\ \A h \in Handlers : Held(handler[h])
  BY <1>2 DEF Init
<1>4. NoParts \in Parts
  BY NoneTyped DEF NoStats, Stats
<1>5. TypeOK
  BY <1>1, <1>3, <1>4, NoneTyped DEF Init, TypeOK, Updates, Steps
<1> QED BY <1>1, <1>3, <1>5 DEF Typed

-----------------------------------------------------------------------------
LEMMA RegisterTyped ==
  ASSUME Typed, NEW h \in Handlers, NEW kind \in AgentKinds, RegisterOrSubmit(h, kind)
  PROVE  Typed'
<1>1. PICK s : /\ s \in {stats, NoStats} /\ Loads(s, stats, NoStats)
               /\ Begin(h, kind, "loaded", s)
  BY DEF RegisterOrSubmit
<1>2. s \in Stats
  BY <1>1, NoneTyped DEF Typed, TypeOK
<1>3. Held(Update(kind, "loaded", s)) /\ Moved(h, kind, "loaded", s)
  BY <1>1, <1>2, KindsDiffer, UpdateFields DEF Held, Begin, Moved
<1>4. /\ handler' \in [Handlers -> Updates]
      /\ \A g \in Handlers : Held(handler'[g])
  BY <1>2, <1>3, MoveTyped DEF Steps
<1>5. failures' \in Nat
  BY <1>1, LoadedRow DEF Typed
<1>6. disturbed' \subseteq {"agent", "owner"}
  BY <1>1, Disturbs DEF Begin, Typed, TypeOK
<1>7. happened' \in [Counted -> Nat]
  BY Happens DEF RegisterOrSubmit, Typed, TypeOK
<1> QED BY <1>4, <1>5, <1>6, <1>7 DEF RegisterOrSubmit, Typed, TypeOK, tables, Updates, Steps

LEMMA PostedTyped == ASSUME Typed, NEW h \in Handlers, BountyPosted(h) PROVE Typed'
<1>1. PICK o : /\ o \in {owner, NoOwner} /\ Loads(o, owner, NoOwner)
               /\ Begin(h, "post", "loaded", o)
  BY DEF BountyPosted
<1>2. o \in OwnerStats
  BY <1>1, NoneTyped DEF Typed, TypeOK
<1>3. Held(Update("post", "loaded", o)) /\ Moved(h, "post", "loaded", o)
  BY <1>1, <1>2, UpdateFields DEF Held, Begin, Moved, AgentKinds
<1>4. /\ handler' \in [Handlers -> Updates]
      /\ \A g \in Handlers : Held(handler'[g])
  BY <1>2, <1>3, MoveTyped DEF Steps, OwnerKinds
<1>5. failures' \in Nat
  BY <1>1, LoadedRow DEF Typed
<1>6. disturbed' \subseteq {"agent", "owner"}
  BY <1>1, Disturbs DEF Begin, Typed, TypeOK
<1>7. happened' \in [Counted -> Nat]
  BY Happens DEF BountyPosted, Typed, TypeOK
<1> QED BY <1>4, <1>5, <1>6, <1>7 DEF BountyPosted, Typed, TypeOK, tables, Updates, Steps

\* Two updates start at once, one after the other as far as the table goes.
LEMMA TwoMove ==
  ASSUME TypeOK, NEW h \in Handlers, NEW g \in Handlers, h # g, NEW u, NEW v,
         handler' = [handler EXCEPT ![h] = u, ![g] = v]
  PROVE  /\ handler'[h] = u /\ handler'[g] = v
         /\ \A f \in Handlers \ {h, g} : handler'[f] = handler[f]
         /\ DOMAIN handler' = Handlers /\ handler' = [f \in Handlers |-> handler'[f]]
  BY TypedHandlers

LEMMA WinnerTyped ==
  ASSUME Typed, NEW h \in Handlers, NEW g \in Handlers, NEW b \in Bounties,
         WinnerSelected(h, g, b)
  PROVE  Typed'
<1>1. PICK s, o : /\ s \in {stats, NoStats} /\ o \in {owner, NoOwner}
                  /\ (s = stats /\ Loads(o, owner, NoOwner))
                       \/ (o = owner /\ Loads(s, stats, NoStats))
                  /\ handler' = [handler EXCEPT ![h] = Update("win", "loaded", s),
                                                ![g] = Update("settle", "loaded", o)]
                  /\ disturbed' = (disturbed \cup DisturbedBy("win", s))
                                     \cup DisturbedBy("settle", o)
  BY DEF WinnerSelected
<1>2. s \in Stats /\ o \in OwnerStats
  BY <1>1, NoneTyped DEF Typed, TypeOK
<1>3. /\ Held(Update("win", "loaded", s)) /\ Update("win", "loaded", s) \in Updates
      /\ Held(Update("settle", "loaded", o)) /\ Update("settle", "loaded", o) \in Updates
  BY <1>2 DEF Held, AgentKinds, OwnerKinds, Update, Updates, Steps
<1>4. /\ handler' \in [Handlers -> Updates]
      /\ \A f \in Handlers : Held(handler'[f])
  <2>1. h # g /\ TypeOK /\ \A f \in Handlers : Held(handler[f])
    BY DEF WinnerSelected, Typed
  <2> HIDE DEF Held, Update, Updates
  <2> QED BY <1>1, <1>3, <2>1, TwoMove, TypedHandlers
<1>5. failures' \in Nat
  BY <1>1, LoadedRow DEF Typed
<1>6. disturbed' \subseteq {"agent", "owner"}
  BY <1>1, Disturbs DEF Typed, TypeOK
<1>7. happened' \in [Counted -> Nat]
  BY Happens DEF WinnerSelected, Typed, TypeOK
<1> QED BY <1>4, <1>5, <1>6, <1>7 DEF WinnerSelected, Typed, TypeOK, tables, Updates, Steps

LEMMA SettleTyped ==
  ASSUME Typed, NEW h \in Handlers, NEW b \in Bounties, SettleConfirmed(h, b)
  PROVE  Typed'
<1>1. PICK s : /\ s \in {stats, NoStats} /\ Loads(s, stats, NoStats)
               /\ Begin(h, "win", "loaded", s)
  BY DEF SettleConfirmed
<1>2. s \in Stats
  BY <1>1, NoneTyped DEF Typed, TypeOK
<1>3. Held(Update("win", "loaded", s)) /\ Moved(h, "win", "loaded", s)
  BY <1>1, <1>2, UpdateFields DEF Held, Begin, Moved, OwnerKinds
<1>4. /\ handler' \in [Handlers -> Updates]
      /\ \A g \in Handlers : Held(handler'[g])
  BY <1>2, <1>3, MoveTyped DEF Steps, AgentKinds
<1>5. failures' \in Nat
  BY <1>1, LoadedRow DEF Typed
<1>6. disturbed' \subseteq {"agent", "owner"}
  BY <1>1, Disturbs DEF Begin, Typed, TypeOK
<1>7. happened' \in [Counted -> Nat]
  BY Happens DEF SettleConfirmed, Typed, TypeOK
<1> QED BY <1>4, <1>5, <1>6, <1>7 DEF SettleConfirmed, Typed, TypeOK, tables, Updates, Steps

\* What a rating is about to write for want of an average: itself.
LEMMA OneRating ==
  ASSUME NEW q \in [of : Nat, in : Nat]
  PROVE  LET s == [NoStats EXCEPT !.parts.quality = q]
         IN  /\ s \in Stats /\ s.parts.quality = q
             /\ s.total_registrations = 0 /\ s.total_submissions = 0
             /\ s.on_time_submissions = 0 /\ s.bounty_wins = 0
  BY NoneTyped DEF Stats, Parts, NoStats

LEMMA RatingTyped ==
  ASSUME Typed, NEW h \in Handlers, NEW b \in Bounties, NEW q \in Ratings,
         SaveRating(h, b, q)
  PROVE  Typed'
<1> DEFINE s == [NoStats EXCEPT !.parts.quality = [of |-> q, in |-> 1]]
<1>1. Begin(h, "rate", "loaded", s)
  BY DEF SaveRating
<1>2. s \in Stats
  <2>1. [of |-> q, in |-> 1] \in [of : Nat, in : Nat]
    BY ReputationAssumption DEF Grades
  <2> QED BY <2>1, OneRating
<1> HIDE DEF s
<1>3. Held(Update("rate", "loaded", s)) /\ Moved(h, "rate", "loaded", s)
  BY <1>1, <1>2, KindsDiffer, UpdateFields DEF Held, Begin, Moved
<1>4. /\ handler' \in [Handlers -> Updates]
      /\ \A g \in Handlers : Held(handler'[g])
  BY <1>2, <1>3, KindsDiffer, MoveTyped DEF Steps
<1>5. disturbed' \subseteq {"agent", "owner"}
  BY <1>1, Disturbs DEF Begin, Typed, TypeOK
<1>6. happened' \in [Counted -> Nat]
  BY Happens DEF SaveRating, Typed, TypeOK
<1>7. /\ DOMAIN ratings' = DOMAIN ratings \cup {b}
      /\ \A c \in DOMAIN ratings' : ratings'[c] = IF c = b THEN q ELSE ratings[c]
  BY DEF SaveRating
<1>8. IsFiniteSet(DOMAIN ratings')
  BY <1>7, FS_AddElement DEF Typed
<1>9. TypeOK'
  BY <1>4, <1>5, <1>6, <1>7 DEF SaveRating, Typed, TypeOK, Updates, Steps
<1> QED BY <1>4, <1>8, <1>9 DEF Typed

LEMMA StoreTyped == ASSUME Typed, NEW h \in Handlers, Store(h) PROVE Typed'
<1> DEFINE kind == handler[h].kind
           s == handler[h].s
           to == IF kind = "register" THEN "idle" ELSE "stored"
<1>1. /\ kind \in AgentKinds \ {"rate"}
      /\ Proceed(h, "loaded", to, NoStats)
      /\ kind = "register" => StoreRegistration(s)
      /\ kind \in {"submit", "onTime"} => StoreSubmission(s, kind = "onTime")
      /\ kind = "win" => StoreWin(s)
      /\ UNCHANGED <<owner, ratings, board, selected, happened>>
  BY DEF Store
<1>2. s \in Stats /\ stats \in Stats
  BY <1>1 DEF Typed, Held, TypeOK
<1>3. stats' \in Stats
  BY <1>1, <1>2, RegistrationStored, SubmissionStored, WinStored DEF AgentKinds
<1>4. Held(Update(kind, to, NoStats)) /\ Moved(h, kind, to, NoStats)
  <2>1. Held(Update(kind, to, NoStats))
    BY <1>1, NoneTyped, KindsDiffer, UpdateFields DEF Held
  <2>2. TypeOK /\ to \in Steps
    BY DEF Typed, Steps
  <2> HIDE DEF to
  <2> QED BY <1>1, <2>1, <2>2, ProceedMoves
<1>5. /\ handler' \in [Handlers -> Updates]
      /\ \A g \in Handlers : Held(handler'[g])
  <2>1. to \in Steps
    BY DEF Steps
  <2> HIDE DEF kind, to
  <2> QED BY <1>1, <1>4, <2>1, NoneTyped, MoveTyped
<1> QED BY <1>1, <1>3, <1>5, TypedQuiet DEF Typed, TypeOK, Proceed

LEMMA StoreOwnerTyped == ASSUME Typed, NEW h \in Handlers, StoreOwner(h) PROVE Typed'
<1>1. /\ handler[h].kind \in OwnerKinds /\ Proceed(h, "loaded", "idle", NoStats)
      /\ UNCHANGED <<stats, ratings, board, selected, happened>>
  BY DEF StoreOwner
<1>2. handler[h].s \in OwnerStats /\ owner \in OwnerStats
  BY <1>1 DEF Proceed, Typed, Held, TypeOK
<1>3. owner' \in OwnerStats
  BY <1>2, OwnerStored
<1>4. /\ Held(Update(handler[h].kind, "idle", NoStats))
      /\ Moved(h, handler[h].kind, "idle", NoStats)
  <2>1. \A kind : Held(Update(kind, "idle", NoStats))
    BY NoneTyped, UpdateFields DEF Held
  <2>2. TypeOK /\ "idle" \in Steps
    BY DEF Typed, Steps
  <2> QED BY <1>1, <2>1, <2>2, ProceedMoves
<1>5. /\ handler' \in [Handlers -> Updates]
      /\ \A g \in Handlers : Held(handler'[g])
  BY <1>1, <1>4, NoneTyped, MoveTyped DEF Steps
<1> QED BY <1>1, <1>3, <1>5, TypedQuiet DEF Typed, TypeOK, Proceed

LEMMA IgnoredTyped == ASSUME Typed, NEW h \in Handlers, StoreIgnored(h) PROVE Typed'
<1> DEFINE kind == handler[h].kind
<1>1. PICK to \in Steps, s \in {NoStats, handler[h].s} :
        /\ handler' = [handler EXCEPT ![h].step = to, ![h].s = s]
        /\ Held(Update(kind, to, s))
  <2> DEFINE Skip(to, s) == handler' = [handler EXCEPT ![h].step = to, ![h].s = s]
             step == handler[h].step
  <2>1. \/ /\ step = "loaded"
           /\ kind # "rate"
           /\ Skip(IF kind \in OwnerKinds \cup {"register"} THEN "idle" ELSE "stored", NoStats)
        \/ step = "averaged" /\ Skip("stored", NoStats)
        \/ step = "read" /\ Skip("written", handler[h].s)
        \/ step \in {"stored", "pushed"} /\ Skip(AfterScore(kind), NoStats)
    BY DEF StoreIgnored
  <2>2. Held(handler[h])
    BY DEF Typed
  <2>3. CASE /\ step = "loaded"
             /\ Skip(IF kind \in OwnerKinds \cup {"register"} THEN "idle" ELSE "stored", NoStats)
    <3>1. Held(Update(kind, IF kind \in OwnerKinds \cup {"register"} THEN "idle" ELSE "stored",
                      NoStats))
      BY NoneTyped, UpdateFields DEF Held
    <3>2. (IF kind \in OwnerKinds \cup {"register"} THEN "idle" ELSE "stored") \in Steps
      BY DEF Steps
    <3> QED BY <2>3, <3>1, <3>2
  <2>4. CASE step = "averaged" /\ Skip("stored", NoStats)
    <3>1. Held(Update(kind, "stored", NoStats))
      BY <2>2, <2>4, NoneTyped, UpdateFields, KindsDiffer DEF Held
    <3> QED BY <2>4, <3>1 DEF Steps
  <2>5. CASE step = "read" /\ Skip("written", handler[h].s)
    <3>1. Held(Update(kind, "written", handler[h].s))
      BY <2>2, <2>5, UpdateFields DEF Held
    <3> QED BY <2>5, <3>1 DEF Steps
  <2>6. CASE step \in {"stored", "pushed"} /\ Skip(AfterScore(kind), NoStats)
    <3>1. Held(Update(kind, AfterScore(kind), NoStats)) /\ AfterScore(kind) \in Steps
      BY <2>2, <2>6, NoneTyped, UpdateFields DEF Held, AfterScore, Steps
    <3> QED BY <2>6, <3>1
  <2> QED BY <2>1, <2>3, <2>4, <2>5, <2>6
<1>2. handler[h] \in Updates
  BY TypedHandlers DEF Typed
<1>3. kind \in AgentKinds \cup OwnerKinds /\ s \in Stats \cup OwnerStats
  BY <1>2, NoneTyped DEF Updates
<1>4. Moved(h, kind, to, s)
  <2>1. [handler[h] EXCEPT !.step = to, !.s = s] = Update(kind, to, s)
    BY <1>2, UpdateExact
  <2>2. handler' = [handler EXCEPT ![h] = [handler[h] EXCEPT !.step = to, !.s = s]]
    BY <1>1, TypedHandlers DEF Typed
  <2> QED BY <2>1, <2>2 DEF Moved
<1>5. /\ handler' \in [Handlers -> Updates]
      /\ \A g \in Handlers : Held(handler'[g])
  <2> HIDE DEF kind
  <2> QED BY <1>1, <1>3, <1>4, MoveTyped
<1>6. failures' \in Nat /\ disturbed' \subseteq {"agent", "owner"}
  BY DEF StoreIgnored, Fails, Typed, TypeOK, RowOf
<1> QED BY <1>5, <1>6, TypedQuiet DEF StoreIgnored, tables, Typed, TypeOK

LEMMA ReadTyped == ASSUME Typed, NEW h \in Handlers, ReadRatings(h) PROVE Typed'
<1> DEFINE s == [NoStats EXCEPT !.parts.quality = AverageRating]
<1>1. handler[h].kind = "rate" /\ Proceed(h, "loaded", "averaged", s)
  BY DEF ReadRatings
<1>2. s \in Stats
  BY AverageTyped, OneRating
<1> HIDE DEF s
<1>3. Held(Update("rate", "averaged", s)) /\ Moved(h, "rate", "averaged", s)
  BY <1>1, <1>2, KindsDiffer, ProceedMoves, UpdateFields DEF Held, Typed, Steps
<1>4. /\ handler' \in [Handlers -> Updates]
      /\ \A g \in Handlers : Held(handler'[g])
  BY <1>2, <1>3, KindsDiffer, MoveTyped DEF Steps
<1> QED BY <1>1, <1>4, TypedQuiet DEF ReadRatings, Proceed, tables, Typed, TypeOK

LEMMA ReadFailsTyped == ASSUME Typed, NEW h \in Handlers, ReadRatingsFails(h) PROVE Typed'
<1>1. /\ handler[h].kind = "rate" /\ handler[h].step = "loaded"
      /\ handler' = [handler EXCEPT ![h].step = "averaged"]
  BY DEF ReadRatingsFails
<1>2. handler[h] \in Updates /\ Held(handler[h])
  BY TypedHandlers DEF Typed
<1>3. Moved(h, "rate", "averaged", handler[h].s)
  <2>1. [handler[h] EXCEPT !.step = "averaged"] = Update("rate", "averaged", handler[h].s)
    BY <1>1, <1>2 DEF Updates, Update
  <2>2. handler' = [handler EXCEPT ![h] = [handler[h] EXCEPT !.step = "averaged"]]
    BY <1>1, TypedHandlers DEF Typed
  <2> QED BY <2>1, <2>2 DEF Moved
<1>4. handler[h].s \in Stats
  BY <1>1, <1>2, KindsDiffer DEF Held
<1>5. Held(Update("rate", "averaged", handler[h].s))
  BY <1>4, KindsDiffer, UpdateFields DEF Held
<1>6. /\ handler' \in [Handlers -> Updates]
      /\ \A g \in Handlers : Held(handler'[g])
  BY <1>3, <1>4, <1>5, KindsDiffer, MoveTyped DEF Steps
<1>7. failures' \in Nat /\ disturbed' \subseteq {"agent", "owner"}
  BY DEF ReadRatingsFails, Fails, Typed, TypeOK
<1> QED BY <1>6, <1>7, TypedQuiet DEF ReadRatingsFails, tables, Typed, TypeOK

LEMMA QualityTyped == ASSUME Typed, NEW h \in Handlers, StoreQuality(h) PROVE Typed'
<1>1. /\ Proceed(h, "averaged", "stored", NoStats)
      /\ stats' = [stats EXCEPT !.parts.quality = handler[h].s.parts.quality]
  BY DEF StoreQuality
<1>2. Held(handler[h]) /\ handler[h].step = "averaged"
  BY <1>1 DEF Typed, Proceed
<1>3. handler[h].kind = "rate" /\ handler[h].s \in Stats
  BY <1>2, KindsDiffer DEF Held
<1>4. stats' \in Stats
  <2>1. handler[h].s.parts.quality \in [of : Nat, in : Nat]
    BY <1>3 DEF Stats, Parts
  <2> QED BY <1>1, <2>1, QualityStored DEF Typed, TypeOK
<1>5. Held(Update("rate", "stored", NoStats)) /\ Moved(h, "rate", "stored", NoStats)
  BY <1>1, <1>3, NoneTyped, ProceedMoves, KindsDiffer, UpdateFields DEF Held, Typed, Steps
<1>6. /\ handler' \in [Handlers -> Updates]
      /\ \A g \in Handlers : Held(handler'[g])
  BY <1>5, NoneTyped, KindsDiffer, MoveTyped DEF Steps
<1> QED BY <1>1, <1>4, <1>6, TypedQuiet DEF StoreQuality, Proceed, Typed, TypeOK

\* From the second reading of the row on, only the agent's updates proceed.
LEMMA AgentHeld ==
  ASSUME Typed, NEW h \in Handlers, handler[h].step \notin {"idle", "loaded"}
  PROVE  handler[h].kind \in AgentKinds /\ handler[h].s \in Stats
<1>1. Held(handler[h]) /\ handler[h] \in Updates
  BY TypedHandlers DEF Typed
<1>2. handler[h].kind \in AgentKinds \cup OwnerKinds
  BY <1>1 DEF Updates
<1> QED BY <1>1, <1>2 DEF Held

LEMMA ScoreTyped ==
  ASSUME Typed, NEW h \in Handlers,
         ScoreRead(h) \/ ScoreWrite(h) \/ UpdateLeaderboard(h) \/ UpdateCategories(h)
  PROVE  Typed'
<1> DEFINE kind == handler[h].kind
<1>1. PICK to \in Steps, s \in {stats, handler[h].s, NoStats} :
        /\ handler[h].step \in {"stored", "read", "written", "pushed"}
        /\ Proceed(h, handler[h].step, to, s)
        /\ to \in {"read", "written", "pushed", AfterScore(kind)}
  BY DEF ScoreRead, ScoreWrite, UpdateLeaderboard, UpdateCategories, Proceed, Steps, AfterScore
<1>2. kind \in AgentKinds /\ handler[h].s \in Stats
  BY <1>1, AgentHeld
<1>3. s \in Stats /\ handler[h].s.parts \in Parts
  BY <1>1, <1>2, NoneTyped DEF Typed, TypeOK, Stats
<1>4. stats' \in Stats /\ board' \in [all : Parts, category : Parts]
  <2>1. CASE UNCHANGED stats
    BY <1>3, <2>1
    DEF ScoreRead, ScoreWrite, UpdateLeaderboard, UpdateCategories, tables, Typed, TypeOK
  <2>2. CASE ScoreWrite(h)
    <3>1. Ranked(handler[h].s) \in BOOLEAN
      BY DEF Ranked
    <3> QED BY <1>3, <2>2, <3>1, ScoreStored DEF ScoreWrite, Typed, TypeOK
  <2> QED BY <2>1, <2>2 DEF ScoreRead, UpdateLeaderboard, UpdateCategories, tables
<1>5. Held(Update(kind, to, s))
  BY <1>1, <1>2, <1>3, KindsDiffer, UpdateFields DEF Held, AfterScore
<1>6. Moved(h, kind, to, s)
  BY <1>1, ProceedMoves DEF Typed
<1>7. /\ handler' \in [Handlers -> Updates]
      /\ \A g \in Handlers : Held(handler'[g])
  <2> HIDE DEF kind
  <2> QED BY <1>2, <1>3, <1>5, <1>6, MoveTyped
<1>8. UNCHANGED <<owner, ratings, selected, happened, disturbed, failures>>
  BY DEF ScoreRead, ScoreWrite, UpdateLeaderboard, UpdateCategories, tables, Proceed
<1> QED BY <1>4, <1>7, <1>8, TypedQuiet DEF Typed, TypeOK

LEMMA GivenTyped == ASSUME Typed, NEW h \in Handlers, RatingGiven(h) PROVE Typed'
<1>1. PICK o \in {owner, NoOwner} :
        /\ Loads(o, owner, NoOwner)
        /\ Moved(h, "ownerRate", "loaded", o)
        /\ disturbed' = disturbed \cup DisturbedBy("ownerRate", o)
  BY DEF RatingGiven, Moved
<1>2. o \in OwnerStats
  BY <1>1, NoneTyped DEF Typed, TypeOK
<1>3. Held(Update("ownerRate", "loaded", o))
  BY <1>2, UpdateFields DEF Held, AgentKinds
<1>4. /\ handler' \in [Handlers -> Updates]
      /\ \A g \in Handlers : Held(handler'[g])
  BY <1>1, <1>2, <1>3, MoveTyped DEF Steps, OwnerKinds
<1>5. failures' \in Nat /\ disturbed' \subseteq {"agent", "owner"}
  BY <1>1, LoadedRow, Disturbs DEF Typed, TypeOK
<1> QED BY <1>4, <1>5, TypedQuiet DEF RatingGiven, tables, Typed, TypeOK

LEMMA FailsTyped == ASSUME Typed, NEW h \in Handlers, UpdateFails(h) PROVE Typed'
<1>1. Moved(h, "register", "idle", NoStats)
  BY DEF UpdateFails, Moved, IdleHandler, Update
<1>2. Held(Update("register", "idle", NoStats))
  BY NoneTyped, UpdateFields DEF Held
<1>3. /\ handler' \in [Handlers -> Updates]
      /\ \A g \in Handlers : Held(handler'[g])
  BY <1>1, <1>2, NoneTyped, MoveTyped DEF Steps, AgentKinds
<1>4. failures' \in Nat /\ disturbed' \subseteq {"agent", "owner"}
  BY DEF UpdateFails, Fails, Typed, TypeOK, RowOf
<1> QED BY <1>3, <1>4, TypedQuiet DEF UpdateFails, tables, Typed, TypeOK

LEMMA TypedNext == Typed /\ [Next]_vars => Typed'
<1> SUFFICES ASSUME Typed, [Next]_vars PROVE Typed'
  OBVIOUS
<1>1. CASE UNCHANGED vars
  BY <1>1 DEF vars, tables, Typed, TypeOK
<1>2. CASE Next
  BY <1>2, RegisterTyped, PostedTyped, SettleTyped, WinnerTyped, RatingTyped, StoreTyped,
     StoreOwnerTyped, IgnoredTyped, ReadTyped, ReadFailsTyped, QualityTyped, ScoreTyped,
     GivenTyped, FailsTyped DEF Next
<1> QED BY <1>1, <1>2

\* Every column of the rows, every rate and the scores keep their types, whatever
\* updates overlap or fail: no counter of reputation.service.ts leaves the naturals,
\* and every rate but the quality is a fraction of one.
THEOREM TypeCorrect == Spec => []TypeOK
<1>1. Typed => TypeOK
  BY DEF Typed
<1> QED BY <1>1, TypedInit, TypedNext, PTL DEF Spec

-----------------------------------------------------------------------------
(* Nothing is invented *)

One(p) == IF p THEN 1 ELSE 0

\* A row read before an event happened, and about to count it, is below what
\* happened by that event.
AgentCredited(r, kind, hap) ==
  /\ r.total_registrations + One(kind = "register") <= hap["register"]
  /\ r.total_submissions + One(kind \in {"submit", "onTime"}) <= hap["submit"]
  /\ r.on_time_submissions + One(kind = "onTime") <= hap["onTime"]
  /\ r.bounty_wins + One(kind = "win") <= hap["win"]
  /\ r.on_time_submissions <= r.total_submissions

\* n ratings have been saved that the client's row does not count yet.
OwnerCredited(o, kind, hap, n) ==
  /\ o.bounties_posted + One(kind = "post") <= hap["post"]
  /\ o.bounties_settled + One(kind = "settle") <= hap["settle"]
  /\ o.ratings_given + n <= hap["rate"]

Credited(u, hap, n) ==
  u.step = "loaded" =>
    /\ u.kind \in AgentKinds => AgentCredited(u.s, u.kind, hap)
    /\ u.kind \in OwnerKinds => OwnerCredited(u.s, u.kind, hap, n)

\* A rating on its way to the client's row.
RatingDue(u) ==
  \/ u.kind = "rate" /\ u.step # "idle"
  \/ u.kind = "ownerRate" /\ u.step = "loaded"

RatingsDue == {h \in Handlers : RatingDue(handler[h])}
Due == Cardinality(RatingsDue)

\* Two updates that hold the same row each count their own event, and a rating is
\* counted only after the agent's statistics have it: so the rows that updates
\* hold are below what happened by the events they are about to count.
Invented ==
  /\ IsFiniteSet(RatingsDue)
  /\ AgentCredited(stats, "none", happened)
  /\ OwnerCredited(owner, "none", happened, Due)
  /\ "active_client" \in owner.badges => happened["post"] >= BadgeAt
  /\ \A h \in Handlers : Credited(handler[h], happened, Due)

LEMMA InventedSafe == Typed /\ Invented => NothingInvented
<1> SUFFICES ASSUME Typed, Invented PROVE NothingInvented
  OBVIOUS
<1>1. Due \in Nat
  BY FS_CardinalityType DEF Invented, Due
<1>2. owner.ratings_given \in Nat /\ happened["rate"] \in Nat
  BY DEF Typed, TypeOK, OwnerStats, Counted
<1>3. /\ stats \in Stats /\ owner \in OwnerStats
      /\ \A k \in Counted : happened[k] \in Nat
  BY DEF Typed, TypeOK
<1> QED BY <1>1, <1>2, <1>3
        DEF Invented, NothingInvented, AgentCredited, OwnerCredited, One, Stats, OwnerStats

LEMMA AgentCreditedGrows ==
  ASSUME NEW r \in Stats, NEW kind, NEW hap \in [Counted -> Nat],
         NEW hap2 \in [Counted -> Nat], \A k \in Counted : hap[k] <= hap2[k],
         AgentCredited(r, kind, hap)
  PROVE  AgentCredited(r, kind, hap2)
<1>1. \A k \in {"register", "submit", "onTime", "win"} :
        hap[k] \in Nat /\ hap2[k] \in Nat /\ hap[k] <= hap2[k]
  BY DEF Counted
<1> QED BY <1>1 DEF AgentCredited, One, Stats

LEMMA OwnerCreditedGrows ==
  ASSUME NEW o \in OwnerStats, NEW kind, NEW hap \in [Counted -> Nat],
         NEW hap2 \in [Counted -> Nat], \A k \in Counted : hap[k] <= hap2[k],
         NEW n \in Nat, NEW m \in Nat, m + hap["rate"] <= n + hap2["rate"],
         OwnerCredited(o, kind, hap, n)
  PROVE  OwnerCredited(o, kind, hap2, m)
<1>1. \A k \in {"post", "settle", "rate"} :
        hap[k] \in Nat /\ hap2[k] \in Nat /\ hap[k] <= hap2[k]
  BY DEF Counted
<1> QED BY <1>1 DEF OwnerCredited, One, OwnerStats

LEMMA CreditedGrows ==
  ASSUME NEW u \in Updates, Held(u), NEW hap \in [Counted -> Nat],
         NEW hap2 \in [Counted -> Nat], \A k \in Counted : hap[k] <= hap2[k],
         NEW n \in Nat, NEW m \in Nat, m + hap["rate"] <= n + hap2["rate"],
         Credited(u, hap, n)
  PROVE  Credited(u, hap2, m)
<1>1. u.step = "loaded" /\ u.kind \in AgentKinds => AgentCredited(u.s, u.kind, hap2)
  BY AgentCreditedGrows DEF Credited, Held
<1>2. u.step = "loaded" /\ u.kind \in OwnerKinds => OwnerCredited(u.s, u.kind, hap2, m)
  BY OwnerCreditedGrows DEF Credited, Held
<1> QED BY <1>1, <1>2 DEF Credited

\* How the ratings on their way change when one update moves.
LEMMA DueMoves ==
  ASSUME TypeOK, IsFiniteSet(RatingsDue), NEW h \in Handlers, NEW kind, NEW step, NEW s,
         Moved(h, kind, step, s)
  PROVE  /\ IsFiniteSet(RatingsDue') /\ Due \in Nat /\ Due' \in Nat
         /\ Due' + One(RatingDue(handler[h])) = Due + One(RatingDue(Update(kind, step, s)))
<1> DEFINE new == RatingDue(Update(kind, step, s))
           old == RatingDue(handler[h])
<1>1. /\ handler'[h] = Update(kind, step, s)
      /\ \A g \in Handlers \ {h} : handler'[g] = handler[g]
  BY MovedFacts
<1>2. RatingsDue' = IF new THEN RatingsDue \cup {h} ELSE RatingsDue \ {h}
  <2> HIDE DEF RatingDue
  <2> QED BY <1>1 DEF RatingsDue
<1>3. old <=> h \in RatingsDue
  BY DEF RatingsDue
<1>4. /\ IsFiniteSet(RatingsDue \cup {h})
      /\ Cardinality(RatingsDue \cup {h}) =
           IF h \in RatingsDue THEN Cardinality(RatingsDue) ELSE Cardinality(RatingsDue) + 1
  BY FS_AddElement
<1>5. /\ IsFiniteSet(RatingsDue \ {h})
      /\ Cardinality(RatingsDue \ {h}) =
           IF h \in RatingsDue THEN Cardinality(RatingsDue) - 1 ELSE Cardinality(RatingsDue)
  BY FS_RemoveElement
<1>6. Cardinality(RatingsDue) \in Nat /\ IsFiniteSet(RatingsDue')
  BY <1>2, <1>4, <1>5, FS_CardinalityType
<1>7. Cardinality(RatingsDue') \in Nat
  BY <1>6, FS_CardinalityType
<1> HIDE DEF new, old, RatingDue, RatingsDue
<1>8. Due' + One(old) = Due + One(new)
  BY <1>2, <1>3, <1>4, <1>5, <1>6, <1>7 DEF Due, One
<1> QED BY <1>6, <1>7, <1>8 DEF Due, new, old

\* The steps between the change of a row and the end of an update.
Behind(h) ==
  \/ StoreIgnored(h) \/ ReadRatings(h) \/ ReadRatingsFails(h) \/ StoreQuality(h)
  \/ ScoreRead(h) \/ ScoreWrite(h) \/ UpdateLeaderboard(h) \/ UpdateCategories(h)
  \/ UpdateFails(h)

\* They load nothing, and leave the counters and what happened as they are.
LEMMA BehindMoves ==
  ASSUME Typed, NEW h \in Handlers, Behind(h)
  PROVE  /\ \E kind \in AgentKinds \cup OwnerKinds, step \in Steps \ {"loaded"},
              s \in Stats \cup OwnerStats :
              /\ Moved(h, kind, step, s)
              /\ kind = handler[h].kind \/ step = "idle"
         /\ handler[h].step # "idle"
<1> DEFINE Goal == \E kind \in AgentKinds \cup OwnerKinds, step \in Steps \ {"loaded"},
                      s \in Stats \cup OwnerStats :
                      /\ Moved(h, kind, step, s)
                      /\ kind = handler[h].kind \/ step = "idle"
<1>1. TypeOK /\ handler[h] \in Updates /\ handler[h].kind \in AgentKinds \cup OwnerKinds
      /\ handler[h].s \in Stats \cup OwnerStats
  BY TypedHandlers DEF Typed, Updates
<1>2. ASSUME NEW from \in Steps \ {"idle"}, NEW to \in Steps \ {"loaded"},
             NEW s \in Stats \cup OwnerStats, Proceed(h, from, to, s)
      PROVE  Goal /\ handler[h].step # "idle"
  BY <1>1, <1>2, ProceedMoves
<1>3. ASSUME NEW to \in Steps \ {"loaded"}, NEW s \in {NoStats, handler[h].s},
             handler' = [handler EXCEPT ![h].step = to, ![h].s = s]
      PROVE  Goal
  <2>1. [handler[h] EXCEPT !.step = to, !.s = s] = Update(handler[h].kind, to, s)
    BY <1>1, UpdateExact
  <2>2. handler' = [handler EXCEPT ![h] = [handler[h] EXCEPT !.step = to, !.s = s]]
    BY <1>1, <1>3, TypedHandlers
  <2>3. Moved(h, handler[h].kind, to, s)
    BY <2>1, <2>2 DEF Moved
  <2> QED BY <1>1, <2>3, NoneTyped
<1>4. CASE StoreIgnored(h)
  <2>1. \E to \in Steps \ {"loaded"}, s \in {NoStats, handler[h].s} :
          handler' = [handler EXCEPT ![h].step = to, ![h].s = s]
    BY <1>4 DEF StoreIgnored, AfterScore, Steps
  <2>2. handler[h].step # "idle"
    BY <1>4 DEF StoreIgnored
  <2> QED BY <1>3, <2>1, <2>2
<1>5. CASE ReadRatings(h)
  <2>1. [NoStats EXCEPT !.parts.quality = AverageRating] \in Stats
    BY AverageTyped, OneRating
  <2> QED BY <1>2, <1>5, <2>1 DEF ReadRatings, Steps
<1>6. CASE ReadRatingsFails(h)
  <2>1. [handler[h] EXCEPT !.step = "averaged"] =
          Update(handler[h].kind, "averaged", handler[h].s)
    BY <1>1 DEF Updates, Update
  <2>2. handler' = [handler EXCEPT ![h] = [handler[h] EXCEPT !.step = "averaged"]]
    BY <1>6, TypedHandlers DEF Typed, ReadRatingsFails
  <2>3. Moved(h, handler[h].kind, "averaged", handler[h].s)
    BY <2>1, <2>2 DEF Moved
  <2>4. "averaged" \in Steps \ {"loaded"} /\ handler[h].step # "idle"
    BY <1>6 DEF Steps, ReadRatingsFails
  <2> QED BY <1>1, <2>3, <2>4
<1>7. CASE StoreQuality(h)
  BY <1>2, <1>7, NoneTyped DEF StoreQuality, Steps
<1>8. CASE ScoreRead(h)
  BY <1>2, <1>8 DEF ScoreRead, Steps, Typed, TypeOK
<1>9. CASE ScoreWrite(h)
  BY <1>1, <1>2, <1>9 DEF ScoreWrite, Steps
<1>10. CASE UpdateLeaderboard(h)
  BY <1>1, <1>2, <1>10 DEF UpdateLeaderboard, Steps
<1>11. CASE UpdateCategories(h)
  BY <1>2, <1>11, NoneTyped DEF UpdateCategories, Steps, AfterScore
<1>12. CASE UpdateFails(h)
  <2>1. Moved(h, "register", "idle", NoStats)
    BY <1>12 DEF UpdateFails, Moved, IdleHandler, Update
  <2> QED BY <1>12, <2>1, NoneTyped DEF UpdateFails, Steps, AgentKinds
<1> QED BY <1>4, <1>5, <1>6, <1>7, <1>8, <1>9, <1>10, <1>11, <1>12 DEF Behind

LEMMA BehindKeeps ==
  ASSUME Typed, NEW h \in Handlers, Behind(h)
  PROVE  /\ stats'.total_registrations = stats.total_registrations
         /\ stats'.total_submissions = stats.total_submissions
         /\ stats'.on_time_submissions = stats.on_time_submissions
         /\ stats'.bounty_wins = stats.bounty_wins
         /\ stats'.win_streak = stats.win_streak
         /\ stats'.xp_points = stats.xp_points
         /\ UNCHANGED <<owner, ratings, selected, happened>>
<1>1. CASE StoreQuality(h)
  <2>1. handler[h].s \in Stats
    BY <1>1, AgentHeld DEF StoreQuality, Proceed
  <2>2. handler[h].s.parts.quality \in [of : Nat, in : Nat]
    BY <2>1 DEF Stats, Parts
  <2> QED BY <1>1, <2>2, QualityStored DEF StoreQuality, Typed, TypeOK
<1>2. CASE ScoreWrite(h)
  <2>1. handler[h].s \in Stats
    BY <1>2, AgentHeld DEF ScoreWrite, Proceed
  <2>2. handler[h].s.parts \in Parts /\ Ranked(handler[h].s) \in BOOLEAN
    BY <2>1 DEF Stats, Ranked
  <2> QED BY <1>2, <2>2, ScoreStored DEF ScoreWrite, Typed, TypeOK
<1> QED BY <1>1, <1>2 DEF Behind, StoreIgnored, ReadRatings, ReadRatingsFails, ScoreRead,
        UpdateLeaderboard, UpdateCategories, UpdateFails, tables

LEMMA CreditedMoves ==
  ASSUME Typed, Typed', Invented, NEW h \in Handlers, NEW kind, NEW step, NEW s,
         Moved(h, kind, step, s), \A k \in Counted : happened[k] <= happened'[k],
         Due' + happened["rate"] <= Due + happened'["rate"], Due \in Nat, Due' \in Nat,
         Credited(Update(kind, step, s), happened', Due')
  PROVE  \A g \in Handlers : Credited(handler'[g], happened', Due')
<1>1. /\ handler'[h] = Update(kind, step, s)
      /\ \A g \in Handlers \ {h} : handler'[g] = handler[g]
  BY MovedFacts DEF Typed
<1> SUFFICES ASSUME NEW g \in Handlers \ {h} PROVE Credited(handler[g], happened', Due')
  BY <1>1
<1>2. happened \in [Counted -> Nat] /\ happened' \in [Counted -> Nat]
  BY DEF Typed, TypeOK
<1>3. handler[g] \in Updates /\ Held(handler[g]) /\ Credited(handler[g], happened, Due)
  BY TypedHandlers DEF Typed, Invented
<1> HIDE DEF Credited, Held, Updates
<1> QED BY <1>2, <1>3, CreditedGrows

LEMMA RowsCreditedGrow ==
  ASSUME Typed, Typed', Invented, \A k \in Counted : happened[k] <= happened'[k],
         Due' + happened["rate"] <= Due + happened'["rate"], Due \in Nat, Due' \in Nat
  PROVE  /\ AgentCredited(stats, "none", happened')
         /\ OwnerCredited(owner, "none", happened', Due')
         /\ "active_client" \in owner.badges => happened'["post"] >= BadgeAt
<1>1. /\ happened \in [Counted -> Nat] /\ happened' \in [Counted -> Nat]
      /\ stats \in Stats /\ owner \in OwnerStats
  BY DEF Typed, TypeOK
<1>2. /\ AgentCredited(stats, "none", happened')
      /\ OwnerCredited(owner, "none", happened', Due')
  BY <1>1, AgentCreditedGrows, OwnerCreditedGrows DEF Invented
<1>3. happened["post"] <= happened'["post"] /\ happened["post"] \in Nat
      /\ happened'["post"] \in Nat
  BY <1>1 DEF Counted
<1> QED BY <1>2, <1>3, ReputationAssumption DEF Invented

LEMMA BehindInvented ==
  ASSUME Typed, Typed', Invented, NEW h \in Handlers, Behind(h)
  PROVE  Invented'
<1>1. PICK kind \in AgentKinds \cup OwnerKinds, step \in Steps \ {"loaded"},
           s \in Stats \cup OwnerStats :
             /\ Moved(h, kind, step, s)
             /\ kind = handler[h].kind \/ step = "idle"
  BY BehindMoves
<1>2. handler[h].step # "idle"
  BY BehindMoves
<1>3. happened' = happened /\ owner' = owner
  BY BehindKeeps
<1>4. RatingDue(Update(kind, step, s)) => RatingDue(handler[h])
  BY <1>1, <1>2, UpdateFields DEF RatingDue
<1>5. IsFiniteSet(RatingsDue') /\ Due \in Nat /\ Due' \in Nat /\ Due' <= Due
  <2>1. /\ IsFiniteSet(RatingsDue') /\ Due \in Nat /\ Due' \in Nat
        /\ Due' + One(RatingDue(handler[h])) = Due + One(RatingDue(Update(kind, step, s)))
    BY <1>1, DueMoves DEF Typed, Invented
  <2>2. /\ One(RatingDue(Update(kind, step, s))) \in {0, 1}
        /\ One(RatingDue(handler[h])) \in {0, 1}
        /\ One(RatingDue(Update(kind, step, s))) <= One(RatingDue(handler[h]))
    BY <1>4 DEF One
  <2> QED BY <2>1, <2>2
<1>6. Credited(Update(kind, step, s), happened', Due')
  BY <1>1, UpdateFields DEF Credited
<1>7. /\ \A k \in Counted : happened[k] <= happened'[k]
      /\ Due' + happened["rate"] <= Due + happened'["rate"]
  <2>1. \A k \in Counted : happened[k] \in Nat
    BY DEF Typed, TypeOK
  <2> QED BY <1>3, <1>5, <2>1 DEF Counted
<1>8. \A g \in Handlers : Credited(handler'[g], happened', Due')
  BY <1>1, <1>5, <1>6, <1>7, CreditedMoves
<1>9. /\ AgentCredited(stats, "none", happened')
      /\ OwnerCredited(owner', "none", happened', Due')
      /\ "active_client" \in owner'.badges => happened'["post"] >= BadgeAt
  BY <1>3, <1>5, <1>7, RowsCreditedGrow
<1>10. AgentCredited(stats', "none", happened')
  BY <1>9, BehindKeeps DEF AgentCredited
<1> QED BY <1>5, <1>8, <1>9, <1>10 DEF Invented

\* An agent's event that begins holds a row below what has now happened.
LEMMA AgentBegins ==
  ASSUME Typed, Invented, NEW kind \in AgentKinds \ {"rate"}, NEW s \in {stats, NoStats},
         NEW hap \in [Counted -> Nat], \A k \in Counted : happened[k] <= hap[k],
         kind # "onTime" => hap[kind] = happened[kind] + 1,
         kind = "onTime" => /\ hap["submit"] = happened["submit"] + 1
                            /\ hap["onTime"] = happened["onTime"] + 1
  PROVE  AgentCredited(s, kind, hap)
<1>1. \A k \in {"register", "submit", "onTime", "win"} :
        happened[k] \in Nat /\ hap[k] \in Nat /\ happened[k] <= hap[k]
  BY DEF Counted, Typed, TypeOK
<1>2. s \in Stats
  BY NoneTyped DEF Typed, TypeOK
<1>3. AgentCredited(s, "none", happened)
  <2>1. AgentCredited(NoStats, "none", happened)
    BY <1>1 DEF AgentCredited, NoStats, One
  <2> QED BY <2>1 DEF Invented
<1>4. kind \in {"register", "submit", "onTime", "win"}
  BY DEF AgentKinds
<1>5. CASE kind = "register"
  BY <1>1, <1>2, <1>3, <1>5 DEF AgentCredited, One, Stats
<1>6. CASE kind = "submit"
  BY <1>1, <1>2, <1>3, <1>6 DEF AgentCredited, One, Stats
<1>7. CASE kind = "onTime"
  BY <1>1, <1>2, <1>3, <1>7 DEF AgentCredited, One, Stats
<1>8. CASE kind = "win"
  BY <1>1, <1>2, <1>3, <1>8 DEF AgentCredited, One, Stats
<1> QED BY <1>4, <1>5, <1>6, <1>7, <1>8

LEMMA OwnerBegins ==
  ASSUME Typed, Invented, NEW kind \in OwnerKinds, NEW o \in {owner, NoOwner},
         NEW hap \in [Counted -> Nat], \A k \in Counted : happened[k] <= hap[k],
         kind # "ownerRate" => hap[kind] = happened[kind] + 1,
         NEW n \in Nat, Due \in Nat, n + happened["rate"] <= Due + hap["rate"]
  PROVE  OwnerCredited(o, kind, hap, n)
<1>1. \A k \in {"post", "settle", "rate"} :
        happened[k] \in Nat /\ hap[k] \in Nat /\ happened[k] <= hap[k]
  BY DEF Counted, Typed, TypeOK
<1>2. o \in OwnerStats
  BY NoneTyped DEF Typed, TypeOK
<1>3. OwnerCredited(o, "none", happened, Due)
  <2>1. owner.ratings_given \in Nat /\ owner.ratings_given + Due <= happened["rate"]
    BY DEF Invented, OwnerCredited, Typed, TypeOK, OwnerStats
  <2>2. OwnerCredited(NoOwner, "none", happened, Due)
    BY <1>1, <2>1 DEF OwnerCredited, NoOwner, One
  <2> QED BY <2>2 DEF Invented
<1>4. kind \in {"post", "settle", "ownerRate"}
  BY DEF OwnerKinds
<1>5. CASE kind = "post"
  BY <1>1, <1>2, <1>3, <1>5 DEF OwnerCredited, One, OwnerStats
<1>6. CASE kind = "settle"
  BY <1>1, <1>2, <1>3, <1>6 DEF OwnerCredited, One, OwnerStats
<1>7. CASE kind = "ownerRate"
  BY <1>1, <1>2, <1>3, <1>7 DEF OwnerCredited, One, OwnerStats
<1> QED BY <1>4, <1>5, <1>6, <1>7

\* An update of no rating starts from nothing.
LEMMA DueStays ==
  ASSUME Typed, Invented, NEW h \in Handlers, NEW kind, NEW step, NEW s,
         Moved(h, kind, step, s),
         RatingDue(Update(kind, step, s)) <=> RatingDue(handler[h])
  PROVE  IsFiniteSet(RatingsDue') /\ Due \in Nat /\ Due' = Due
<1>1. /\ IsFiniteSet(RatingsDue') /\ Due \in Nat /\ Due' \in Nat
      /\ Due' + One(RatingDue(handler[h])) = Due + One(RatingDue(Update(kind, step, s)))
  BY DueMoves DEF Typed, Invented
<1>2. /\ One(RatingDue(Update(kind, step, s))) \in {0, 1}
      /\ One(RatingDue(handler[h])) = One(RatingDue(Update(kind, step, s)))
  BY DEF One
<1> QED BY <1>1, <1>2

LEMMA AgentBeginInvented ==
  ASSUME Typed, Typed', Invented, NEW h \in Handlers, NEW kind \in AgentKinds \ {"rate"},
         NEW s \in {stats, NoStats}, Begin(h, kind, "loaded", s),
         Happen(IF kind = "onTime" THEN {"submit", "onTime"} ELSE {kind}), UNCHANGED tables
  PROVE  Invented'
<1>1. Moved(h, kind, "loaded", s) /\ handler[h].step = "idle"
  BY DEF Begin, Moved
<1>2. IsFiniteSet(RatingsDue') /\ Due \in Nat /\ Due' = Due
  <2>1. ~ RatingDue(Update(kind, "loaded", s)) /\ ~ RatingDue(handler[h])
    BY <1>1, UpdateFields DEF RatingDue, AgentKinds
  <2> QED BY <1>1, <2>1, DueStays
<1>3. /\ happened' \in [Counted -> Nat] /\ happened \in [Counted -> Nat]
      /\ \A k \in Counted : happened[k] <= happened'[k]
      /\ kind # "onTime" => happened'[kind] = happened[kind] + 1
      /\ kind = "onTime" => /\ happened'["submit"] = happened["submit"] + 1
                            /\ happened'["onTime"] = happened["onTime"] + 1
  <2>1. happened \in [Counted -> Nat]
    BY DEF Typed, TypeOK
  <2>2. kind \in Counted /\ {"submit", "onTime"} \subseteq Counted
    BY DEF AgentKinds, Counted
  <2> QED BY <2>1, <2>2, Happens
<1>4. AgentCredited(s, kind, happened')
  BY <1>3, AgentBegins
<1>5. Credited(Update(kind, "loaded", s), happened', Due')
  BY <1>4, KindsDiffer, UpdateFields DEF Credited
<1>6. Due' + happened["rate"] <= Due + happened'["rate"]
  BY <1>2, <1>3 DEF Counted
<1>7. \A g \in Handlers : Credited(handler'[g], happened', Due')
  BY <1>1, <1>2, <1>3, <1>5, <1>6, CreditedMoves
<1>8. /\ AgentCredited(stats, "none", happened')
      /\ OwnerCredited(owner, "none", happened', Due')
      /\ "active_client" \in owner.badges => happened'["post"] >= BadgeAt
  BY <1>2, <1>3, <1>6, RowsCreditedGrow
<1> QED BY <1>2, <1>7, <1>8 DEF Invented, tables

LEMMA PostedInvented ==
  ASSUME Typed, Typed', Invented, NEW h \in Handlers, BountyPosted(h)
  PROVE  Invented'
<1>1. PICK o \in {owner, NoOwner} : Begin(h, "post", "loaded", o)
  BY DEF BountyPosted
<1>2. Moved(h, "post", "loaded", o) /\ handler[h].step = "idle"
  BY <1>1 DEF Begin, Moved
<1>3. IsFiniteSet(RatingsDue') /\ Due \in Nat /\ Due' = Due
  <2>1. ~ RatingDue(Update("post", "loaded", o)) /\ ~ RatingDue(handler[h])
    BY <1>2, UpdateFields DEF RatingDue
  <2> QED BY <1>2, <2>1, DueStays
<1>4. /\ happened' \in [Counted -> Nat] /\ happened \in [Counted -> Nat]
      /\ \A k \in Counted : happened[k] <= happened'[k]
      /\ happened'["post"] = happened["post"] + 1
  BY Happens DEF BountyPosted, Typed, TypeOK, Counted
<1>5. Due' + happened["rate"] <= Due + happened'["rate"]
  BY <1>3, <1>4 DEF Counted
<1>6. OwnerCredited(o, "post", happened', Due')
  BY <1>3, <1>4, <1>5, OwnerBegins DEF OwnerKinds
<1>7. Credited(Update("post", "loaded", o), happened', Due')
  BY <1>6, UpdateFields DEF Credited, AgentKinds
<1>8. \A g \in Handlers : Credited(handler'[g], happened', Due')
  BY <1>2, <1>3, <1>4, <1>5, <1>7, CreditedMoves
<1>9. /\ AgentCredited(stats, "none", happened')
      /\ OwnerCredited(owner, "none", happened', Due')
      /\ "active_client" \in owner.badges => happened'["post"] >= BadgeAt
  BY <1>3, <1>4, <1>5, RowsCreditedGrow
<1> QED BY <1>3, <1>8, <1>9 DEF Invented, tables, BountyPosted

LEMMA WinnerInvented ==
  ASSUME Typed, Typed', Invented, NEW h \in Handlers, NEW g \in Handlers,
         NEW b \in Bounties, WinnerSelected(h, g, b)
  PROVE  Invented'
<1>1. PICK s \in {stats, NoStats}, o \in {owner, NoOwner} :
        handler' = [handler EXCEPT ![h] = Update("win", "loaded", s),
                                   ![g] = Update("settle", "loaded", o)]
  BY DEF WinnerSelected
<1>2. /\ h # g /\ handler[h].step = "idle" /\ handler[g].step = "idle"
      /\ UNCHANGED tables
  BY DEF WinnerSelected
<1>3. /\ handler'[h] = Update("win", "loaded", s)
      /\ handler'[g] = Update("settle", "loaded", o)
      /\ \A f \in Handlers \ {h, g} : handler'[f] = handler[f]
  BY <1>1, <1>2, TwoMove DEF Typed
<1>4. RatingsDue' = RatingsDue
  <2>1. /\ ~ RatingDue(handler'[h]) /\ ~ RatingDue(handler'[g])
        /\ ~ RatingDue(handler[h]) /\ ~ RatingDue(handler[g])
    BY <1>2, <1>3, UpdateFields DEF RatingDue
  <2> HIDE DEF RatingDue
  <2> QED BY <1>3, <2>1 DEF RatingsDue
<1>5. IsFiniteSet(RatingsDue') /\ Due \in Nat /\ Due' = Due
  BY <1>4, FS_CardinalityType DEF Due, Invented
<1>6. /\ happened' \in [Counted -> Nat] /\ happened \in [Counted -> Nat]
      /\ \A k \in Counted : happened[k] <= happened'[k]
      /\ happened'["win"] = happened["win"] + 1
      /\ happened'["settle"] = happened["settle"] + 1
  BY Happens DEF WinnerSelected, Typed, TypeOK, Counted
<1>7. Due' + happened["rate"] <= Due + happened'["rate"]
  BY <1>5, <1>6 DEF Counted
<1>8. Credited(handler'[h], happened', Due')
  <2>1. AgentCredited(s, "win", happened')
    BY <1>6, AgentBegins DEF AgentKinds
  <2> QED BY <1>3, <2>1, UpdateFields DEF Credited, OwnerKinds
<1>9. Credited(handler'[g], happened', Due')
  <2>1. OwnerCredited(o, "settle", happened', Due')
    BY <1>5, <1>6, <1>7, OwnerBegins DEF OwnerKinds
  <2> QED BY <1>3, <2>1, UpdateFields DEF Credited, AgentKinds
<1>10. ASSUME NEW f \in Handlers \ {h, g} PROVE Credited(handler'[f], happened', Due')
  <2>1. handler[f] \in Updates /\ Held(handler[f]) /\ Credited(handler[f], happened, Due)
    BY TypedHandlers DEF Typed, Invented
  <2> HIDE DEF Credited, Held, Updates
  <2> QED BY <1>3, <1>5, <1>6, <1>7, <2>1, CreditedGrows
<1>11. /\ AgentCredited(stats, "none", happened')
       /\ OwnerCredited(owner, "none", happened', Due')
       /\ "active_client" \in owner.badges => happened'["post"] >= BadgeAt
  BY <1>5, <1>6, <1>7, RowsCreditedGrow
<1> QED BY <1>2, <1>5, <1>8, <1>9, <1>10, <1>11 DEF Invented, tables

LEMMA RegisterInvented ==
  ASSUME Typed, Typed', Invented, NEW h \in Handlers, NEW kind \in AgentKinds,
         RegisterOrSubmit(h, kind)
  PROVE  Invented'
<1>1. PICK s \in {stats, NoStats} : Begin(h, kind, "loaded", s)
  BY DEF RegisterOrSubmit
<1>2. kind # "rate"
  BY DEF RegisterOrSubmit
<1> QED BY <1>1, <1>2, AgentBeginInvented DEF RegisterOrSubmit

LEMMA SettleInvented ==
  ASSUME Typed, Typed', Invented, NEW h \in Handlers, NEW b \in Bounties,
         SettleConfirmed(h, b)
  PROVE  Invented'
<1>1. PICK s \in {stats, NoStats} : Begin(h, "win", "loaded", s)
  BY DEF SettleConfirmed
<1>2. Happen(IF "win" = "onTime" THEN {"submit", "onTime"} ELSE {"win"})
  BY DEF SettleConfirmed
<1>3. "win" \in AgentKinds \ {"rate"} /\ UNCHANGED tables
  BY DEF AgentKinds, SettleConfirmed
<1> QED BY <1>1, <1>2, <1>3, AgentBeginInvented

LEMMA RatingInvented ==
  ASSUME Typed, Typed', Invented, NEW h \in Handlers, NEW b \in Bounties, NEW q \in Ratings,
         SaveRating(h, b, q)
  PROVE  Invented'
<1> DEFINE s == [NoStats EXCEPT !.parts.quality = [of |-> q, in |-> 1]]
<1>1. Moved(h, "rate", "loaded", s) /\ handler[h].step = "idle"
  BY DEF SaveRating, Begin, Moved
<1>2. /\ s.total_registrations = 0 /\ s.total_submissions = 0
      /\ s.on_time_submissions = 0 /\ s.bounty_wins = 0
  <2>1. [of |-> q, in |-> 1] \in [of : Nat, in : Nat]
    BY ReputationAssumption DEF Grades
  <2> QED BY <2>1, OneRating
<1> HIDE DEF s
<1>3. IsFiniteSet(RatingsDue') /\ Due \in Nat /\ Due' = Due + 1
  <2>1. RatingDue(Update("rate", "loaded", s)) /\ ~ RatingDue(handler[h])
    BY <1>1, UpdateFields DEF RatingDue
  <2>2. /\ One(RatingDue(Update("rate", "loaded", s))) = 1
        /\ One(RatingDue(handler[h])) = 0
    BY <2>1 DEF One
  <2>3. /\ IsFiniteSet(RatingsDue') /\ Due \in Nat /\ Due' \in Nat
        /\ Due' + One(RatingDue(handler[h])) =
             Due + One(RatingDue(Update("rate", "loaded", s)))
    BY <1>1, DueMoves DEF Typed, Invented
  <2> QED BY <2>2, <2>3
<1>4. /\ happened' \in [Counted -> Nat] /\ happened \in [Counted -> Nat]
      /\ \A k \in Counted : happened[k] <= happened'[k]
      /\ happened'["rate"] = happened["rate"] + 1
  BY Happens DEF SaveRating, Typed, TypeOK, Counted
<1>5. Due' + happened["rate"] <= Due + happened'["rate"]
  BY <1>3, <1>4 DEF Counted
<1>6. Credited(Update("rate", "loaded", s), happened', Due')
  <2>1. AgentCredited(s, "rate", happened')
    BY <1>2, <1>4 DEF AgentCredited, One, Counted
  <2> QED BY <2>1, KindsDiffer, UpdateFields DEF Credited
<1>7. \A g \in Handlers : Credited(handler'[g], happened', Due')
  BY <1>1, <1>3, <1>4, <1>5, <1>6, CreditedMoves
<1>8. /\ AgentCredited(stats, "none", happened')
      /\ OwnerCredited(owner, "none", happened', Due')
      /\ "active_client" \in owner.badges => happened'["post"] >= BadgeAt
  BY <1>3, <1>4, <1>5, RowsCreditedGrow
<1> QED BY <1>3, <1>7, <1>8 DEF Invented, SaveRating

LEMMA GivenInvented ==
  ASSUME Typed, Typed', Invented, NEW h \in Handlers, RatingGiven(h)
  PROVE  Invented'
<1>1. PICK o \in {owner, NoOwner} : Moved(h, "ownerRate", "loaded", o)
  BY DEF RatingGiven, Moved
<1>2. handler[h].step = "rated" /\ handler[h].kind = "rate"
  BY DEF RatingGiven, Typed, Held
<1>3. IsFiniteSet(RatingsDue') /\ Due \in Nat /\ Due' = Due
  <2>1. RatingDue(Update("ownerRate", "loaded", o)) /\ RatingDue(handler[h])
    BY <1>2, UpdateFields DEF RatingDue
  <2> QED BY <1>1, <2>1, DueStays
<1>4. /\ happened' = happened /\ happened \in [Counted -> Nat]
      /\ \A k \in Counted : happened[k] <= happened'[k]
      /\ Due' + happened["rate"] <= Due + happened'["rate"]
  <2>1. happened' = happened /\ happened \in [Counted -> Nat]
    BY DEF RatingGiven, Typed, TypeOK
  <2> QED BY <1>3, <2>1 DEF Counted
<1>5. OwnerCredited(o, "ownerRate", happened', Due')
  BY <1>3, <1>4, OwnerBegins DEF OwnerKinds
<1>6. Credited(Update("ownerRate", "loaded", o), happened', Due')
  BY <1>5, UpdateFields DEF Credited, AgentKinds
<1>7. \A g \in Handlers : Credited(handler'[g], happened', Due')
  BY <1>1, <1>3, <1>4, <1>6, CreditedMoves
<1>8. /\ AgentCredited(stats, "none", happened')
      /\ OwnerCredited(owner, "none", happened', Due')
      /\ "active_client" \in owner.badges => happened'["post"] >= BadgeAt
  BY <1>3, <1>4, RowsCreditedGrow
<1> QED BY <1>3, <1>7, <1>8 DEF Invented, RatingGiven, tables

LEMMA StoreInvented ==
  ASSUME Typed, Typed', Invented, NEW h \in Handlers, Store(h)
  PROVE  Invented'
<1> DEFINE kind == handler[h].kind
           s == handler[h].s
           to == IF kind = "register" THEN "idle" ELSE "stored"
<1>1. /\ kind \in AgentKinds \ {"rate"}
      /\ Proceed(h, "loaded", to, NoStats)
      /\ kind = "register" => StoreRegistration(s)
      /\ kind \in {"submit", "onTime"} => StoreSubmission(s, kind = "onTime")
      /\ kind = "win" => StoreWin(s)
      /\ UNCHANGED <<owner, ratings, board, selected, happened>>
  BY DEF Store
<1>2. s \in Stats /\ stats \in Stats /\ handler[h].step = "loaded"
  BY <1>1 DEF Typed, Held, TypeOK, Proceed
<1>3. AgentCredited(s, kind, happened) /\ AgentCredited(stats, "none", happened)
  BY <1>1, <1>2 DEF Invented, Credited
<1>4. AgentCredited(stats', "none", happened)
  <2>1. \A k \in {"register", "submit", "onTime", "win"} : happened[k] \in Nat
    BY DEF Counted, Typed, TypeOK
  <2>2. CASE kind = "register"
    BY <1>1, <1>2, <1>3, <2>1, <2>2, RegistrationStored DEF AgentCredited, One, Stats
  <2>3. CASE kind = "submit"
    <3>1. StoreSubmission(s, FALSE)
      BY <1>1, <2>3
    <3>2. /\ stats'.total_registrations = stats.total_registrations
          /\ stats'.total_submissions = s.total_submissions + 1
          /\ stats'.on_time_submissions = s.on_time_submissions + 0
          /\ stats'.bounty_wins = stats.bounty_wins
      BY <1>2, <3>1, SubmissionStored
    <3> QED BY <1>2, <1>3, <2>1, <2>3, <3>2 DEF AgentCredited, One, Stats
  <2>4. CASE kind = "onTime"
    <3>1. StoreSubmission(s, TRUE)
      BY <1>1, <2>4
    <3>2. /\ stats'.total_registrations = stats.total_registrations
          /\ stats'.total_submissions = s.total_submissions + 1
          /\ stats'.on_time_submissions = s.on_time_submissions + 1
          /\ stats'.bounty_wins = stats.bounty_wins
      BY <1>2, <3>1, SubmissionStored
    <3> QED BY <1>2, <1>3, <2>1, <2>4, <3>2 DEF AgentCredited, One, Stats
  <2>5. CASE kind = "win"
    BY <1>1, <1>2, <1>3, <2>1, <2>5, WinStored DEF AgentCredited, One, Stats
  <2> QED BY <1>1, <2>2, <2>3, <2>4, <2>5 DEF AgentKinds
<1>5. Moved(h, kind, to, NoStats)
  <2>1. TypeOK /\ to \in Steps
    BY DEF Typed, Steps
  <2> HIDE DEF to
  <2> QED BY <1>1, <2>1, ProceedMoves
<1>6. IsFiniteSet(RatingsDue') /\ Due \in Nat /\ Due' = Due
  <2>1. ~ RatingDue(Update(kind, to, NoStats)) /\ ~ RatingDue(handler[h])
    BY <1>1, UpdateFields DEF RatingDue, AgentKinds
  <2> HIDE DEF kind, to
  <2> QED BY <1>5, <2>1, DueStays
<1>7. /\ \A k \in Counted : happened[k] <= happened'[k]
      /\ Due' + happened["rate"] <= Due + happened'["rate"]
  <2>1. happened' = happened /\ happened \in [Counted -> Nat]
    BY <1>1 DEF Typed, TypeOK
  <2> QED BY <1>6, <2>1 DEF Counted
<1>8. Credited(Update(kind, to, NoStats), happened', Due')
  BY UpdateFields DEF Credited
<1>9. \A g \in Handlers : Credited(handler'[g], happened', Due')
  <2> HIDE DEF kind, to
  <2> QED BY <1>5, <1>6, <1>7, <1>8, CreditedMoves
<1>10. /\ OwnerCredited(owner, "none", happened', Due')
       /\ "active_client" \in owner.badges => happened'["post"] >= BadgeAt
  BY <1>6, <1>7, RowsCreditedGrow
<1> QED BY <1>1, <1>4, <1>6, <1>9, <1>10 DEF Invented

LEMMA StoreOwnerInvented ==
  ASSUME Typed, Typed', Invented, NEW h \in Handlers, StoreOwner(h)
  PROVE  Invented'
<1> DEFINE kind == handler[h].kind
           s == handler[h].s
<1>1. /\ kind \in OwnerKinds /\ Proceed(h, "loaded", "idle", NoStats)
      /\ UNCHANGED <<stats, ratings, board, selected, happened>>
  BY DEF StoreOwner
<1>2. s \in OwnerStats /\ owner \in OwnerStats /\ handler[h].step = "loaded"
  BY <1>1 DEF Proceed, Typed, Held, TypeOK
<1>3. /\ owner' \in OwnerStats
      /\ owner'.bounties_posted =
           IF kind = "post" THEN s.bounties_posted + 1 ELSE owner.bounties_posted
      /\ owner'.bounties_settled =
           IF kind = "settle" THEN s.bounties_settled + 1 ELSE owner.bounties_settled
      /\ owner'.ratings_given =
           IF kind = "ownerRate" THEN s.ratings_given + 1 ELSE owner.ratings_given
      /\ "active_client" \in owner'.badges =>
           BadgeAt <= IF kind = "post" THEN s.bounties_posted + 1 ELSE s.bounties_posted
  BY <1>2, OwnerStored
<1>4. OwnerCredited(s, kind, happened, Due) /\ OwnerCredited(owner, "none", happened, Due)
  BY <1>1, <1>2 DEF Invented, Credited
<1>5. Moved(h, kind, "idle", NoStats)
  BY <1>1, ProceedMoves DEF Typed, Steps
<1>6. /\ IsFiniteSet(RatingsDue') /\ Due \in Nat /\ Due' \in Nat /\ Due' <= Due
      /\ kind = "ownerRate" => Due' + 1 = Due
  <2>1. /\ IsFiniteSet(RatingsDue') /\ Due \in Nat /\ Due' \in Nat
        /\ Due' + One(RatingDue(handler[h])) =
             Due + One(RatingDue(Update(kind, "idle", NoStats)))
    BY <1>5, DueMoves DEF Typed, Invented
  <2>2. ~ RatingDue(Update(kind, "idle", NoStats))
    BY UpdateFields DEF RatingDue
  <2>3. kind = "ownerRate" => RatingDue(handler[h])
    BY <1>2 DEF RatingDue
  <2>4. /\ One(RatingDue(Update(kind, "idle", NoStats))) = 0
        /\ One(RatingDue(handler[h])) \in {0, 1}
        /\ kind = "ownerRate" => One(RatingDue(handler[h])) = 1
    BY <2>2, <2>3 DEF One
  <2> QED BY <2>1, <2>4
<1>7. \A k \in {"post", "settle", "rate"} : happened[k] \in Nat
  BY DEF Counted, Typed, TypeOK
<1>8. OwnerCredited(owner', "none", happened, Due')
  <2> HIDE DEF kind, s
  <2>1. kind \in {"post", "settle", "ownerRate"}
    BY <1>1 DEF OwnerKinds
  <2> QED BY <1>2, <1>3, <1>4, <1>6, <1>7, <2>1 DEF OwnerCredited, One, OwnerStats
<1>9. "active_client" \in owner'.badges => happened["post"] >= BadgeAt
  <2> HIDE DEF kind, s
  <2> QED BY <1>2, <1>3, <1>4, <1>7, ReputationAssumption DEF OwnerCredited, One, OwnerStats
<1>10. /\ \A k \in Counted : happened[k] <= happened'[k]
       /\ Due' + happened["rate"] <= Due + happened'["rate"]
  <2>1. happened' = happened /\ happened \in [Counted -> Nat]
    BY <1>1 DEF Typed, TypeOK
  <2> QED BY <1>6, <2>1 DEF Counted
<1>11. Credited(Update(kind, "idle", NoStats), happened', Due')
  BY UpdateFields DEF Credited
<1>12. \A g \in Handlers : Credited(handler'[g], happened', Due')
  <2> HIDE DEF kind
  <2> QED BY <1>5, <1>6, <1>10, <1>11, CreditedMoves
<1>13. AgentCredited(stats, "none", happened')
  BY <1>6, <1>10, RowsCreditedGrow
<1> QED BY <1>1, <1>6, <1>8, <1>9, <1>12, <1>13 DEF Invented

LEMMA InventedInit == Init => Invented
<1> SUFFICES ASSUME Init PROVE Invented
  OBVIOUS
<1>1. RatingsDue = {} /\ Due = 0 /\ IsFiniteSet(RatingsDue)
  <2>1. RatingsDue = {}
    BY DEF Init, RatingsDue, RatingDue, IdleHandler
  <2> QED BY <2>1, FS_EmptySet DEF Due
<1>2. AgentCredited(stats, "none", happened) /\ OwnerCredited(owner, "none", happened, Due)
  BY <1>1 DEF Init, AgentCredited, OwnerCredited, NoStats, NoOwner, One, Counted
<1>3. \A h \in Handlers : Credited(handler[h], happened, Due)
  BY DEF Init, Credited, IdleHandler
<1>4. "active_client" \notin owner.badges
  BY DEF Init, NoOwner
<1> QED BY <1>1, <1>2, <1>3, <1>4 DEF Invented

LEMMA InventedNext == Typed /\ Invented /\ [Next]_vars => Invented'
<1> SUFFICES ASSUME Typed, Invented, [Next]_vars PROVE Invented'
  OBVIOUS
<1>1. Typed'
  BY TypedNext
<1>2. CASE UNCHANGED vars
  BY <1>2 DEF vars, tables, Invented, RatingsDue, Due
<1>3. CASE Next
  BY <1>1, <1>3, RegisterInvented, PostedInvented, SettleInvented, WinnerInvented,
     RatingInvented, StoreInvented, StoreOwnerInvented, BehindInvented, GivenInvented
     DEF Next, Behind
<1> QED BY <1>2, <1>3

\* However updates overlap, fail or lose each other's work, no row ever counts more
\* than happened: the counters of the agent and of the client, on-time submissions
\* within the submissions, and the badge for posted bounties.
THEOREM NeverInvented == Spec => []NothingInvented
<1> QED BY TypedInit, TypedNext, InventedInit, InventedNext, InventedSafe, PTL DEF Spec

-----------------------------------------------------------------------------
(* What an update holds, and the tier and the score that come from it *)

\* A rate that comes from ratings.
Rates == {[of |-> p, in |-> 1] : p \in Ratings} \cup {AverageRating}

\* An update keeps what it has, holds the agent's row or nothing of it, or a rate:
\* what it is about to score is the row itself.
Holds(u, v) ==
  \/ v = u
  \/ v.kind \in OwnerKinds
  \/ v.s = stats
  \/ v.s = NoStats /\ v.step # "read"
  \/ v.s = u.s /\ u.kind \in AgentKinds /\ v.step # "read"
  \/ /\ v.step # "read"
     /\ \E q \in Rates : v.s = [NoStats EXCEPT !.parts.quality = q]

LEMMA OnlyMoves ==
  ASSUME Typed, NEW h \in Handlers, NEW kind, NEW step, NEW s, Moved(h, kind, step, s),
         Holds(handler[h], Update(kind, step, s))
  PROVE  \A g \in Handlers : Holds(handler[g], handler'[g])
<1>1. /\ handler'[h] = Update(kind, step, s)
      /\ \A g \in Handlers \ {h} : handler'[g] = handler[g]
  BY MovedFacts DEF Typed
<1>2. \A u : Holds(u, u)
  BY DEF Holds
<1> HIDE DEF Holds
<1> QED BY <1>1, <1>2

LEMMA RateHolds ==
  ASSUME NEW u, NEW kind, NEW step, step # "read", NEW q \in Rates
  PROVE  Holds(u, Update(kind, step, [NoStats EXCEPT !.parts.quality = q]))
<1> DEFINE s == [NoStats EXCEPT !.parts.quality = q]
<1>1. \E p \in Rates : s = [NoStats EXCEPT !.parts.quality = p]
  OBVIOUS
<1>2. Update(kind, step, s).step # "read" /\ Update(kind, step, s).s = s
  BY UpdateFields
<1> HIDE DEF s
<1>3. Holds(u, Update(kind, step, s))
  BY <1>1, <1>2 DEF Holds
<1> QED BY <1>3 DEF s

LEMMA StartsHold ==
  ASSUME Typed, NEW h \in Handlers,
         \/ \E kind \in AgentKinds : RegisterOrSubmit(h, kind)
         \/ BountyPosted(h)
         \/ \E b \in Bounties : \/ SettleConfirmed(h, b)
                                \/ \E q \in Ratings : SaveRating(h, b, q)
         \/ RatingGiven(h)
  PROVE  \A g \in Handlers : Holds(handler[g], handler'[g])
<1>1. ASSUME NEW kind, NEW s \in {stats, NoStats}, Begin(h, kind, "loaded", s)
      PROVE  \A g \in Handlers : Holds(handler[g], handler'[g])
  <2>1. Moved(h, kind, "loaded", s)
    BY <1>1 DEF Begin, Moved
  <2>2. Holds(handler[h], Update(kind, "loaded", s))
    BY UpdateFields DEF Holds
  <2> QED BY <2>1, <2>2, OnlyMoves
<1>2. CASE \E kind \in AgentKinds : RegisterOrSubmit(h, kind)
  BY <1>1, <1>2 DEF RegisterOrSubmit
<1>3. CASE \E b \in Bounties : SettleConfirmed(h, b)
  BY <1>1, <1>3 DEF SettleConfirmed
<1>4. CASE BountyPosted(h)
  <2>1. PICK o : Moved(h, "post", "loaded", o)
    BY <1>4 DEF BountyPosted, Begin, Moved
  <2>2. Holds(handler[h], Update("post", "loaded", o))
    BY UpdateFields DEF Holds, OwnerKinds
  <2> QED BY <2>1, <2>2, OnlyMoves
<1>5. CASE RatingGiven(h)
  <2>1. PICK o : Moved(h, "ownerRate", "loaded", o)
    BY <1>5 DEF RatingGiven, Moved
  <2>2. Holds(handler[h], Update("ownerRate", "loaded", o))
    BY UpdateFields DEF Holds, OwnerKinds
  <2> QED BY <2>1, <2>2, OnlyMoves
<1>6. CASE \E b \in Bounties, q \in Ratings : SaveRating(h, b, q)
  <2>1. PICK q \in Ratings :
          Moved(h, "rate", "loaded", [NoStats EXCEPT !.parts.quality = [of |-> q, in |-> 1]])
    BY <1>6 DEF SaveRating, Begin, Moved
  <2> DEFINE s == [NoStats EXCEPT !.parts.quality = [of |-> q, in |-> 1]]
  <2>2. Holds(handler[h], Update("rate", "loaded", s))
    <3>1. [of |-> q, in |-> 1] \in Rates
      BY DEF Rates
    <3> QED BY <3>1, RateHolds
  <2> HIDE DEF s
  <2> QED BY <2>1, <2>2, OnlyMoves DEF s
<1> QED BY <1>2, <1>3, <1>4, <1>5, <1>6

LEMMA WinnerHolds ==
  ASSUME Typed, NEW h \in Handlers, NEW g \in Handlers, NEW b \in Bounties,
         WinnerSelected(h, g, b)
  PROVE  \A f \in Handlers : Holds(handler[f], handler'[f])
<1>1. PICK s \in {stats, NoStats}, o \in {owner, NoOwner} :
        handler' = [handler EXCEPT ![h] = Update("win", "loaded", s),
                                   ![g] = Update("settle", "loaded", o)]
  BY DEF WinnerSelected
<1>2. /\ handler'[h] = Update("win", "loaded", s)
      /\ handler'[g] = Update("settle", "loaded", o)
      /\ \A f \in Handlers \ {h, g} : handler'[f] = handler[f]
  BY <1>1, TwoMove DEF Typed, WinnerSelected
<1>3. Holds(handler[h], handler'[h])
  BY <1>2, UpdateFields DEF Holds
<1>4. Holds(handler[g], handler'[g])
  BY <1>2, UpdateFields DEF Holds, OwnerKinds
<1>5. \A u : Holds(u, u)
  BY DEF Holds
<1> HIDE DEF Holds
<1> QED BY <1>2, <1>3, <1>4, <1>5

LEMMA ProceedHolds ==
  ASSUME Typed, NEW h \in Handlers, NEW from, NEW to \in Steps, NEW s,
         Proceed(h, from, to, s),
         Holds(handler[h], Update(handler[h].kind, to, s))
  PROVE  \A g \in Handlers : Holds(handler[g], handler'[g])
<1>1. Moved(h, handler[h].kind, to, s)
  BY ProceedMoves DEF Typed
<1> HIDE DEF Holds
<1> QED BY <1>1, OnlyMoves

LEMMA RestHolds ==
  ASSUME Typed, NEW h \in Handlers, Store(h) \/ StoreOwner(h) \/ Behind(h)
  PROVE  \A g \in Handlers : Holds(handler[g], handler'[g])
<1> DEFINE kind == handler[h].kind
           Goal == \A g \in Handlers : Holds(handler[g], handler'[g])
<1>1. /\ TypeOK /\ handler[h] \in Updates /\ Held(handler[h])
      /\ {"idle", "averaged", "stored", "read", "written", "pushed", "rated"} \subseteq Steps
  BY TypedHandlers DEF Typed, Steps
<1>2. \A to \in Steps : to # "read" => Holds(handler[h], Update(kind, to, NoStats))
  BY UpdateFields DEF Holds
<1>3. \A to \in Steps : to # "read" /\ kind \in AgentKinds =>
        Holds(handler[h], Update(kind, to, handler[h].s))
  BY UpdateFields DEF Holds
<1>4. CASE Store(h)
  BY <1>1, <1>2, <1>4, ProceedHolds DEF Store
<1>5. CASE StoreOwner(h)
  BY <1>1, <1>2, <1>5, ProceedHolds DEF StoreOwner
<1>6. CASE StoreIgnored(h)
  <2>1. \E to \in Steps, s \in {NoStats, handler[h].s} :
          /\ handler' = [handler EXCEPT ![h].step = to, ![h].s = s]
          /\ to # "read"
          /\ s = NoStats \/ handler[h].step = "read"
    BY <1>6 DEF StoreIgnored, AfterScore, Steps
  <2>2. PICK to \in Steps, s \in {NoStats, handler[h].s} :
          /\ handler' = [handler EXCEPT ![h].step = to, ![h].s = s]
          /\ to # "read"
          /\ s = NoStats \/ handler[h].step = "read"
    BY <2>1
  <2>3. Holds(handler[h], Update(kind, to, s))
    BY <1>2, <1>3, <2>2, AgentHeld
  <2>4. [handler[h] EXCEPT !.step = to, !.s = s] = Update(kind, to, s)
    BY <1>1, UpdateExact
  <2>5. handler' = [handler EXCEPT ![h] = [handler[h] EXCEPT !.step = to, !.s = s]]
    BY <2>2, TypedHandlers DEF Typed
  <2>6. Moved(h, kind, to, s)
    BY <2>4, <2>5 DEF Moved
  <2> HIDE DEF kind, Holds
  <2> QED BY <2>3, <2>6, OnlyMoves
<1>7. CASE ReadRatings(h)
  <2> DEFINE s == [NoStats EXCEPT !.parts.quality = AverageRating]
  <2>1. Holds(handler[h], Update(kind, "averaged", s))
    BY RateHolds DEF Rates
  <2> HIDE DEF s, Holds
  <2> QED BY <1>1, <1>7, <2>1, ProceedHolds DEF ReadRatings, s
<1>8. CASE ReadRatingsFails(h)
  <2>1. [handler[h] EXCEPT !.step = "averaged"] = Update(kind, "averaged", handler[h].s)
    BY <1>1 DEF Updates, Update
  <2>2. handler' = [handler EXCEPT ![h] = [handler[h] EXCEPT !.step = "averaged"]]
    BY <1>8, TypedHandlers DEF Typed, ReadRatingsFails
  <2>3. Moved(h, kind, "averaged", handler[h].s)
    BY <2>1, <2>2 DEF Moved
  <2>4. Holds(handler[h], Update(kind, "averaged", handler[h].s))
    BY <1>1, <1>3, <1>8, KindsDiffer DEF ReadRatingsFails
  <2> HIDE DEF kind, Holds
  <2> QED BY <2>3, <2>4, OnlyMoves
<1>9. CASE StoreQuality(h)
  BY <1>1, <1>2, <1>9, ProceedHolds DEF StoreQuality
<1>10. CASE ScoreRead(h)
  <2>1. Holds(handler[h], Update(kind, "read", stats))
    BY UpdateFields DEF Holds
  <2> QED BY <1>1, <1>10, <2>1, ProceedHolds DEF ScoreRead
<1>11. CASE ScoreWrite(h)
  <2>1. kind \in AgentKinds
    BY <1>11, AgentHeld DEF ScoreWrite, Proceed
  <2> QED BY <1>1, <1>3, <1>11, <2>1, ProceedHolds DEF ScoreWrite
<1>12. CASE UpdateLeaderboard(h)
  <2>1. kind \in AgentKinds
    BY <1>12, AgentHeld DEF UpdateLeaderboard, Proceed
  <2> QED BY <1>1, <1>3, <1>12, <2>1, ProceedHolds DEF UpdateLeaderboard
<1>13. CASE UpdateCategories(h)
  BY <1>1, <1>2, <1>13, ProceedHolds DEF UpdateCategories, AfterScore
<1>14. CASE UpdateFails(h)
  <2>1. Moved(h, "register", "idle", NoStats)
    BY <1>14 DEF UpdateFails, Moved, IdleHandler, Update
  <2>2. Holds(handler[h], Update("register", "idle", NoStats))
    BY UpdateFields DEF Holds
  <2> HIDE DEF Holds
  <2> QED BY <2>1, <2>2, OnlyMoves
<1> QED BY <1>4, <1>5, <1>6, <1>7, <1>8, <1>9, <1>10, <1>11, <1>12, <1>13, <1>14 DEF Behind

LEMMA NextHolds == Typed /\ Next => \A g \in Handlers : Holds(handler[g], handler'[g])
<1> SUFFICES ASSUME Typed, Next PROVE \A g \in Handlers : Holds(handler[g], handler'[g])
  OBVIOUS
<1> HIDE DEF Holds
<1> QED BY StartsHold, WinnerHolds, RestHolds DEF Next, Behind

\* A row that is about to be scored has no win the table does not have.
RankedWins ==
  /\ RankedHasWon
  /\ \A h \in Handlers :
       handler[h].step = "read" /\ handler[h].s.bounty_wins > 0 => stats.bounty_wins > 0

\* What a step may do to the wins, the tier and the score of the row.
LEMMA RowStep ==
  ASSUME Typed, Next
  PROVE  \E h \in Handlers :
           \/ Store(h)
           \/ ScoreWrite(h)
           \/ StoreQuality(h)
           \/ UNCHANGED stats
  BY DEF Next, RegisterOrSubmit, BountyPosted, SettleConfirmed, WinnerSelected, SaveRating,
     StoreOwner, StoreIgnored, ReadRatings, ReadRatingsFails, ScoreRead, UpdateLeaderboard,
     UpdateCategories, RatingGiven, UpdateFails, tables

LEMMA RowStored ==
  ASSUME Typed, NEW h \in Handlers, Store(h)
  PROVE  /\ stats'.bounty_wins = stats.bounty_wins \/ stats'.bounty_wins > 0
         /\ stats'.ranked = stats.ranked
         /\ stats'.parts.quality = stats.parts.quality
         /\ stats'.composite_score = stats.composite_score
<1> DEFINE kind == handler[h].kind
           s == handler[h].s
<1>1. kind \in AgentKinds \ {"rate"} /\ s \in Stats /\ stats \in Stats
  BY DEF Store, Typed, TypeOK, Held
<1>2. CASE kind = "register"
  BY <1>1, <1>2, RegistrationStored DEF Store
<1>3. CASE kind \in {"submit", "onTime"}
  BY <1>1, <1>3, SubmissionStored DEF Store
<1>4. CASE kind = "win"
  <2>1. stats'.bounty_wins = s.bounty_wins + 1 /\ s.bounty_wins \in Nat
    BY <1>1, <1>4, WinStored DEF Store, Stats
  <2> QED BY <1>1, <1>4, <2>1, WinStored DEF Store
<1> QED BY <1>1, <1>2, <1>3, <1>4 DEF AgentKinds

LEMMA RowScored ==
  ASSUME Typed, NEW h \in Handlers, ScoreWrite(h)
  PROVE  /\ handler[h].s \in Stats /\ handler[h].kind \in AgentKinds
         /\ handler[h].step = "read"
         /\ stats'.bounty_wins = stats.bounty_wins
         /\ stats'.parts = stats.parts
         /\ stats'.composite_score = handler[h].s.parts
         /\ stats'.ranked = Ranked(handler[h].s)
<1>1. handler[h].s \in Stats /\ handler[h].kind \in AgentKinds /\ handler[h].step = "read"
  BY AgentHeld DEF ScoreWrite, Proceed
<1>2. handler[h].s.parts \in Parts /\ Ranked(handler[h].s) \in BOOLEAN /\ stats \in Stats
  BY <1>1 DEF Stats, Ranked, Typed, TypeOK
<1> QED BY <1>1, <1>2, ScoreStored DEF ScoreWrite

LEMMA RowRated ==
  ASSUME Typed, NEW h \in Handlers, StoreQuality(h)
  PROVE  /\ handler[h].s \in Stats /\ handler[h].kind \in AgentKinds
         /\ stats'.bounty_wins = stats.bounty_wins
         /\ stats'.parts.quality = handler[h].s.parts.quality
         /\ stats'.composite_score = stats.composite_score
         /\ stats'.ranked = stats.ranked
<1>1. handler[h].s \in Stats /\ handler[h].kind \in AgentKinds
  BY AgentHeld DEF StoreQuality, Proceed
<1>2. handler[h].s.parts.quality \in [of : Nat, in : Nat] /\ stats \in Stats
  BY <1>1 DEF Stats, Parts, Typed, TypeOK
<1> QED BY <1>1, <1>2, QualityStored DEF StoreQuality

LEMMA RankedNext == Typed /\ RankedWins /\ [Next]_vars => RankedWins'
<1> SUFFICES ASSUME Typed, RankedWins, Next PROVE RankedWins'
  BY DEF vars, tables, RankedWins, RankedHasWon
<1>1. Typed'
  BY TypedNext
<1>2. stats.bounty_wins \in Nat /\ stats'.bounty_wins \in Nat
  BY <1>1 DEF Typed, TypeOK, Stats
<1>3. PICK h \in Handlers : Store(h) \/ ScoreWrite(h) \/ StoreQuality(h) \/ UNCHANGED stats
  BY RowStep
<1>4. stats.bounty_wins > 0 => stats'.bounty_wins > 0
  BY <1>2, <1>3, RowStored, RowScored, RowRated
<1>5. stats'.ranked => stats'.bounty_wins > 0
  <2>1. CASE ScoreWrite(h)
    BY <1>4, <2>1, RowScored DEF RankedWins, Ranked
  <2>2. CASE stats'.ranked = stats.ranked
    BY <1>4, <2>2 DEF RankedWins, RankedHasWon
  <2> QED BY <1>3, <2>1, <2>2, RowStored, RowRated
<1>6. ASSUME NEW g \in Handlers, handler'[g].step = "read", handler'[g].s.bounty_wins > 0
      PROVE  stats'.bounty_wins > 0
  <2>1. Holds(handler[g], handler'[g]) /\ Held(handler'[g])
    BY <1>1, NextHolds DEF Typed
  <2>2. handler'[g] = handler[g] \/ handler'[g].s = stats
    BY <1>6, <2>1 DEF Holds, Held
  <2> QED BY <1>4, <1>6, <2>2 DEF RankedWins
<1> QED BY <1>5, <1>6 DEF RankedWins, RankedHasWon

\* However many updates are lost, an agent with a tier has a win in its row: the
\* tier is derived from a row that was read, and a stored win is never taken back
\* to none.
THEOREM TierNeedsWin == Spec => []RankedHasWon
<1>1. Init => RankedWins
  BY DEF Init, RankedWins, RankedHasWon, NoStats, IdleHandler
<1>2. RankedWins => RankedHasWon
  BY DEF RankedWins
<1> QED BY <1>1, <1>2, TypedInit, TypedNext, RankedNext, PTL DEF Spec

-----------------------------------------------------------------------------
\* Every rate that ratings can have is from the lowest to the highest, or none.
Bounded ==
  /\ QualityIsAnAverage
  /\ \A h \in Handlers :
       handler[h].kind \in AgentKinds => WithinRatings(handler[h].s.parts.quality)

LEMMA ScoreRanges ==
  QualityIsAnAverage <=> /\ WithinRatings(stats.parts.quality)
                         /\ WithinRatings(stats.composite_score.quality)
                         /\ WithinRatings(board.all.quality)
                         /\ WithinRatings(board.category.quality)
  BY DEF QualityIsAnAverage

\* The average of ratings is from the lowest to the highest of them.
LEMMA AverageWithin ==
  ASSUME Typed
  PROVE  WithinRatings(AverageRating)
<1>1. /\ IsFiniteSet(DOMAIN ratings)
      /\ \A b \in DOMAIN ratings : ratings[b] \in Ratings /\ ratings[b] \in 0..100
  BY ReputationAssumption DEF Typed, TypeOK, Grades
<1>2. /\ AverageRating.of = SumOver(ratings, DOMAIN ratings)
      /\ AverageRating.in = Cardinality(DOMAIN ratings)
  BY DEF AverageRating, SumOver
<1>3. ASSUME NEW n \in Nat, \A r \in Ratings : n <= r
      PROVE  n * AverageRating.in <= AverageRating.of
  <2>1. \A b \in DOMAIN ratings : ratings[b] \in n..100
    BY <1>1, <1>3
  <2> QED BY <1>1, <1>2, <2>1, SumBounds
<1>4. ASSUME NEW n \in Nat, \A r \in Ratings : r <= n
      PROVE  AverageRating.of <= n * AverageRating.in
  <2>1. \A b \in DOMAIN ratings : ratings[b] \in 0..n
    BY <1>1, <1>4
  <2> QED BY <1>1, <1>2, <2>1, SumBounds
<1> QED BY <1>3, <1>4, ReputationAssumption DEF WithinRatings, Grades

LEMMA RatesWithin ==
  ASSUME Typed, NEW q \in Rates
  PROVE  WithinRatings(q) /\ [NoStats EXCEPT !.parts.quality = q].parts.quality = q
<1>1. CASE q = AverageRating
  BY <1>1, AverageWithin, AverageTyped, OneRating
<1>2. CASE q \in {[of |-> p, in |-> 1] : p \in Ratings}
  <2>1. PICK p \in Ratings : q = [of |-> p, in |-> 1]
    BY <1>2
  <2>2. p \in Nat /\ q \in [of : Nat, in : Nat]
    BY <2>1, ReputationAssumption DEF Grades
  <2>3. WithinRatings(q)
    BY <2>1, <2>2, ReputationAssumption DEF WithinRatings, Grades
  <2> QED BY <2>2, <2>3, OneRating
<1> QED BY <1>1, <1>2 DEF Rates

LEMMA NoneWithin == WithinRatings(NoRate)
  BY ReputationAssumption DEF NoRate, WithinRatings, Grades

LEMMA BoundedNext == Typed /\ Bounded /\ [Next]_vars => Bounded'
<1>0. Bounded /\ UNCHANGED vars => Bounded'
  BY DEF vars, tables, Bounded, QualityIsAnAverage, WithinRatings
<1> SUFFICES ASSUME Typed, Bounded, Next PROVE Bounded'
  BY <1>0
<1>1. Typed' /\ WithinRatings(NoStats.parts.quality)
  BY TypedNext, NoneWithin DEF NoStats, NoParts
<1>2. /\ WithinRatings(stats.parts.quality) /\ WithinRatings(stats.composite_score.quality)
      /\ WithinRatings(board.all.quality) /\ WithinRatings(board.category.quality)
  BY ScoreRanges DEF Bounded
<1>3. WithinRatings(stats'.parts.quality) /\ WithinRatings(stats'.composite_score.quality)
  <2>1. PICK h \in Handlers : Store(h) \/ ScoreWrite(h) \/ StoreQuality(h) \/ UNCHANGED stats
    BY RowStep
  <2>2. CASE Store(h) \/ UNCHANGED stats
    BY <1>2, <2>2, RowStored
  <2>3. CASE ScoreWrite(h)
    BY <1>2, <2>3, RowScored DEF Bounded
  <2>4. CASE StoreQuality(h)
    BY <1>2, <2>4, RowRated DEF Bounded
  <2> QED BY <2>1, <2>2, <2>3, <2>4
<1>4. WithinRatings(board'.all.quality) /\ WithinRatings(board'.category.quality)
  <2>1. \/ UNCHANGED board
        \/ \E h \in Handlers : UpdateLeaderboard(h) \/ UpdateCategories(h)
    BY DEF Next, RegisterOrSubmit, BountyPosted, SettleConfirmed, WinnerSelected, SaveRating,
       Store, StoreOwner, StoreIgnored, ReadRatings, ReadRatingsFails, StoreQuality, ScoreRead,
       ScoreWrite, RatingGiven, UpdateFails, tables
  <2>2. ASSUME NEW h \in Handlers, UpdateLeaderboard(h) \/ UpdateCategories(h)
        PROVE  WithinRatings(board'.all.quality) /\ WithinRatings(board'.category.quality)
    <3>1. handler[h].kind \in AgentKinds
      BY <2>2, AgentHeld DEF UpdateLeaderboard, UpdateCategories, Proceed
    <3>2. WithinRatings(handler[h].s.parts.quality) /\ board \in [all : Parts, category : Parts]
      BY <3>1 DEF Bounded, Typed, TypeOK
    <3> QED BY <1>2, <2>2, <3>2 DEF UpdateLeaderboard, UpdateCategories
  <2> QED BY <1>2, <2>1, <2>2
<1>5. ASSUME NEW g \in Handlers, handler'[g].kind \in AgentKinds
      PROVE  WithinRatings(handler'[g].s.parts.quality)
  <2>1. Holds(handler[g], handler'[g])
    BY NextHolds
  <2>2. handler'[g].kind \notin OwnerKinds
    BY <1>5, KindsDiffer
  <2>3. CASE \E q \in Rates : handler'[g].s = [NoStats EXCEPT !.parts.quality = q]
    BY <2>3, RatesWithin
  <2>4. CASE handler'[g] = handler[g]
    BY <1>5, <2>4 DEF Bounded
  <2>5. CASE handler'[g].s = handler[g].s /\ handler[g].kind \in AgentKinds
    BY <2>5 DEF Bounded
  <2>6. CASE handler'[g].s \in {stats, NoStats}
    BY <1>1, <1>2, <2>6
  <2> QED BY <2>1, <2>2, <2>3, <2>4, <2>5, <2>6 DEF Holds
<1> QED BY <1>3, <1>4, <1>5 DEF Bounded, QualityIsAnAverage

\* Whatever ratings the two routes let through, the average rating in the row, in
\* the composite score and on the leaderboards is from the lowest to the highest,
\* whichever updates overlap or fail between its reading and its writing.
THEOREM QualityAveraged == Spec => []QualityIsAnAverage
<1>1. Init => Bounded
  BY NoneWithin
  DEF Init, Bounded, QualityIsAnAverage, NoStats, NoParts, IdleHandler
<1>2. Bounded => QualityIsAnAverage
  BY DEF Bounded
<1> QED BY <1>1, <1>2, TypedInit, TypedNext, BoundedNext, PTL DEF Spec

-----------------------------------------------------------------------------
(* As long as updates neither overlap nor fail, none is lost: the agent's row *)

Bonus(n) == MapThenSumSet(StreakBonus, 1..n)
Bonuses == [i \in Nat |-> StreakBonus(i)]

\* The bonuses, as a sum of the values of a function.
LEMMA BonusSum == ASSUME NEW n \in Nat PROVE Bonus(n) = SumOver(Bonuses, 1..n)
<1> DEFINE S == 1..n
           IsBonus(g) ==
             g = [s \in SUBSET S |-> IF s = {} THEN 0
                                     ELSE StreakBonus(Any(s)) + g[s \ {Any(s)}]]
<1>1. IsFiniteSet(S) /\ S \subseteq Nat
  BY FS_Interval
<1>2. \A s \in SUBSET S : s # {} => Bonuses[Any(s)] = StreakBonus(Any(s))
  BY <1>1, AnyIn DEF Bonuses
<1>3. \A g : IsBonus(g) <=> Recursive(g, Bonuses, S)
  <2> SUFFICES ASSUME NEW g PROVE IsBonus(g) <=> Recursive(g, Bonuses, S)
    OBVIOUS
  <2>1. [s \in SUBSET S |-> IF s = {} THEN 0 ELSE StreakBonus(Any(s)) + g[s \ {Any(s)}]]
          = [s \in SUBSET S |-> IF s = {} THEN 0 ELSE Bonuses[Any(s)] + g[s \ {Any(s)}]]
    <3> HIDE DEF S
    <3> QED BY <1>2
  <2> QED BY <2>1 DEF Recursive
<1> DEFINE g0 == CHOOSE g : IsBonus(g)
<1>4. IsBonus(g0)
  <2> HIDE DEF IsBonus
  <2> QED BY <1>1, <1>3, RecursionExists
<1>5. Bonus(n) = g0[S]
  BY <1>4 DEF Bonus, MapThenSumSet, MapThenFoldSet, Any
<1>6. Recursive(g0, Bonuses, S)
  <2> HIDE DEF IsBonus, g0
  <2> QED BY <1>3, <1>4
<1>7. SumOver(Bonuses, S) = g0[S]
  <2> HIDE DEF g0, S
  <2> QED BY <1>1, <1>6, SumRecursive
<1> QED BY <1>5, <1>7

LEMMA BonusNext ==
  ASSUME NEW n \in Nat
  PROVE  Bonus(n) \in Nat /\ Bonus(n + 1) = Bonus(n) + StreakBonus(n + 1)
<1>1. \A i \in Nat : Bonuses[i] \in Nat /\ Bonuses[i] = StreakBonus(i)
  BY DEF Bonuses, StreakBonus
<1>2. /\ IsFiniteSet(1..n) /\ IsFiniteSet(1..(n + 1))
      /\ (1..(n + 1)) \ {n + 1} = 1..n /\ n + 1 \in 1..(n + 1)
      /\ \A i \in 1..(n + 1) : i \in Nat
      /\ \A i \in 1..n : i \in Nat
  BY FS_Interval
<1>3. SumOver(Bonuses, 1..(n + 1)) = SumOver(Bonuses, 1..n) + Bonuses[n + 1]
  BY <1>1, <1>2, SumRemove
<1>4. SumOver(Bonuses, 1..n) \in Nat
  BY <1>1, <1>2, SumType
<1> QED BY <1>1, <1>3, <1>4, BonusSum

LEMMA BonusNone == Bonus(0) = 0
<1>1. 1..0 = {}
  OBVIOUS
<1> QED BY <1>1, BonusSum, SumEmpty

AverageSums ==
  AverageRating = [of |-> SumOver(ratings, DOMAIN ratings), in |-> Cardinality(DOMAIN ratings)]

LEMMA AverageIsSum == AverageSums
  BY DEF AverageSums, AverageRating, SumOver

LEMMA AverageStays == UNCHANGED ratings => AverageRating' = AverageRating
<1>1. AverageSums'
  BY AverageIsSum, PTL
<1> QED BY <1>1, AverageIsSum DEF AverageSums

\* A row read before an event of some kind counts everything else that happened.
Counts(r, kind, hap) ==
  /\ r.total_registrations + One(kind = "register") = hap["register"]
  /\ r.total_submissions + One(kind \in {"submit", "onTime"}) = hap["submit"]
  /\ r.on_time_submissions + One(kind = "onTime") = hap["onTime"]
  /\ r.bounty_wins + One(kind = "win") = hap["win"]
  /\ r.win_streak = r.bounty_wins
  /\ r.xp_points = 5 * r.total_registrations + 15 * r.total_submissions
                     + 20 * r.on_time_submissions + 100 * r.bounty_wins
                     + Bonus(r.bounty_wins)

\* How far the only update of the agent's row has got: r is the row, b the
\* leaderboards and avg the average of the ratings.
Progress(u, r, b, avg, hap) ==
  /\ Counts(r, IF u.step = "loaded" THEN u.kind ELSE "none", hap)
  /\ u.step = "loaded" /\ u.kind # "rate" => u.s = r
  /\ u.kind # "rate" \/ u.step \notin {"loaded", "averaged"} => r.parts.quality = avg
  /\ u.step = "averaged" => u.s.parts.quality = avg
  /\ u.step \in {"read", "written", "pushed"} => u.s.parts = r.parts
  /\ u.step \in {"written", "pushed", "rated"} \/ (u.step = "loaded" /\ u.kind = "register") =>
       r.composite_score = r.parts
  /\ u.step \in {"pushed", "rated"} \/ (u.step = "loaded" /\ u.kind = "register") =>
       b.all = r.parts
  /\ u.step = "rated" \/ (u.step = "loaded" /\ u.kind = "register") => b.category = r.parts

AgentExact(r, b, avg, hap) ==
  /\ Counts(r, "none", hap)
  /\ r.parts.quality = avg
  /\ r.composite_score = r.parts
  /\ b.all = r.parts /\ b.category = r.parts

OfAgent(u) == u.step # "idle" /\ u.kind \in AgentKinds

\* Without a disturbance one update of the agent's row is in flight at a time, and it
\* is as far as its step says.
Undisturbed ==
  "agent" \notin disturbed =>
    /\ \A g, h \in Handlers : OfAgent(handler[g]) /\ OfAgent(handler[h]) => g = h
    /\ (\A h \in Handlers : ~ OfAgent(handler[h])) =>
         AgentExact(stats, board, AverageRating, happened)
    /\ \A h \in Handlers :
         OfAgent(handler[h]) => Progress(handler[h], stats, board, AverageRating, happened)

LEMMA BusyAgent ==
  ASSUME TypeOK
  PROVE  Busy("agent") <=> \E h \in Handlers : OfAgent(handler[h])
<1>1. \A h \in Handlers : handler[h].kind \in AgentKinds \cup OwnerKinds
  BY TypedHandlers DEF Updates
<1>2. \A h \in Handlers : RowOf(handler[h].kind) = "agent" <=> handler[h].kind \in AgentKinds
  BY <1>1, KindsDiffer DEF RowOf
<1> QED BY <1>2 DEF Busy, OfAgent

\* A step of one update, others of the agent being none, leads to what the update has
\* got to, or to a row that is exact.
LEMMA UndisturbedMoves ==
  ASSUME Typed, NEW h \in Handlers, NEW kind, NEW step, NEW s, Moved(h, kind, step, s),
         "agent" \notin disturbed' =>
           /\ \A g \in Handlers \ {h} : ~ OfAgent(handler[g])
           /\ OfAgent(Update(kind, step, s)) =>
                Progress(Update(kind, step, s), stats', board', AverageRating', happened')
           /\ ~ OfAgent(Update(kind, step, s)) =>
                AgentExact(stats', board', AverageRating', happened')
  PROVE  Undisturbed'
<1>1. /\ handler'[h] = Update(kind, step, s)
      /\ \A g \in Handlers \ {h} : handler'[g] = handler[g]
  BY MovedFacts DEF Typed
<1> HIDE DEF OfAgent, Progress, AgentExact
<1> QED BY <1>1 DEF Undisturbed

\* A step of the client's leaves the agent's updates and row alone.
AgentAlone ==
  /\ disturbed \subseteq disturbed' /\ UNCHANGED <<stats, ratings, board>>
  /\ \A k \in {"register", "submit", "onTime", "win"} : happened'[k] = happened[k]
  /\ \A g \in Handlers : \/ handler'[g] = handler[g]
                         \/ ~ OfAgent(handler[g]) /\ ~ OfAgent(handler'[g])

LEMMA UndisturbedStays == Undisturbed /\ AgentAlone => Undisturbed'
<1> SUFFICES ASSUME Undisturbed, AgentAlone PROVE Undisturbed'
  OBVIOUS
<1> USE DEF AgentAlone
<1>1. AverageRating' = AverageRating
  BY AverageStays
<1>2. \A kind : Counts(stats, kind, happened) => Counts(stats, kind, happened')
  BY DEF Counts
<1>3. AgentExact(stats, board, AverageRating, happened) =>
        AgentExact(stats', board', AverageRating', happened')
  BY <1>1, <1>2 DEF AgentExact
<1>4. \A u : Progress(u, stats, board, AverageRating, happened) =>
              Progress(u, stats', board', AverageRating', happened')
  BY <1>1, <1>2 DEF Progress
<1> HIDE DEF OfAgent, Progress, AgentExact
<1> QED BY <1>3, <1>4 DEF Undisturbed

LEMMA DisturbsAgent ==
  ASSUME TypeOK, NEW kind \in AgentKinds \ {"rate"}, NEW s,
         "agent" \notin DisturbedBy(kind, s)
  PROVE  s = stats /\ \A g \in Handlers : ~ OfAgent(handler[g])
<1>1. RowOf(kind) = "agent"
  BY KindsDiffer DEF RowOf
<1>2. ~ Busy("agent") /\ s = stats
  BY <1>1 DEF DisturbedBy
<1> QED BY <1>2, BusyAgent

\* An event of the agent's begins with the row as it is.
LEMMA EventProgress ==
  ASSUME Typed, Typed', Undisturbed, NEW kind \in AgentKinds \ {"rate"},
         "agent" \notin disturbed, \A g \in Handlers : ~ OfAgent(handler[g]),
         UNCHANGED <<stats, ratings, board>>,
         NEW kinds, kinds \cap {"register", "submit", "onTime", "win"} =
                      IF kind = "onTime" THEN {"submit", "onTime"} ELSE {kind},
         Happen(kinds)
  PROVE  Progress(Update(kind, "loaded", stats), stats', board', AverageRating', happened')
<1>1. AgentExact(stats, board, AverageRating, happened) /\ AverageRating' = AverageRating
  BY AverageStays DEF Undisturbed
<1>2. \A k \in {"register", "submit", "onTime", "win"} :
        /\ happened[k] \in Nat
        /\ happened'[k] = happened[k] + One(k \in kinds)
  <2>1. happened \in [Counted -> Nat]
    BY DEF Typed, TypeOK
  <2> QED BY <2>1 DEF Happen, Counted, One
<1>3. kind \in {"register", "submit", "onTime", "win"}
  BY DEF AgentKinds
<1>4. Counts(stats, kind, happened')
  <2> DEFINE own == IF kind = "onTime" THEN {"submit", "onTime"} ELSE {kind}
  <2>1. \A k \in {"register", "submit", "onTime", "win"} : k \in kinds <=> k \in own
    OBVIOUS
  <2>2. /\ One("register" \in kinds) = One(kind = "register")
        /\ One("submit" \in kinds) = One(kind \in {"submit", "onTime"})
        /\ One("onTime" \in kinds) = One(kind = "onTime")
        /\ One("win" \in kinds) = One(kind = "win")
    BY <1>3, <2>1 DEF One
  <2>3. /\ stats.total_registrations = happened["register"]
        /\ stats.total_submissions = happened["submit"]
        /\ stats.on_time_submissions = happened["onTime"]
        /\ stats.bounty_wins = happened["win"]
    <3>1. stats \in Stats
      BY DEF Typed, TypeOK
    <3> QED BY <1>1, <3>1 DEF AgentExact, Counts, One, Stats
  <2> QED BY <1>1, <1>2, <2>2, <2>3 DEF AgentExact, Counts
<1> QED BY <1>1, <1>3, <1>4, UpdateFields DEF Progress, AgentExact

LEMMA AgentBeginUndisturbed ==
  ASSUME Typed, Typed', Undisturbed, NEW h \in Handlers,
         \/ \E kind \in AgentKinds : RegisterOrSubmit(h, kind)
         \/ \E b \in Bounties : SettleConfirmed(h, b)
  PROVE  Undisturbed'
<1>1. PICK kind, s :
        /\ kind \in AgentKinds \ {"rate"}
        /\ Begin(h, kind, "loaded", s)
        /\ Happen(IF kind = "onTime" THEN {"submit", "onTime"} ELSE {kind})
  <2>1. CASE \E kind \in AgentKinds : RegisterOrSubmit(h, kind)
    BY <2>1 DEF RegisterOrSubmit, AgentKinds
  <2>2. CASE \E b \in Bounties : SettleConfirmed(h, b)
    BY <2>2 DEF SettleConfirmed, AgentKinds
  <2> QED BY <2>1, <2>2
<1>2. Moved(h, kind, "loaded", s)
  BY <1>1 DEF Begin, Moved
<1>3. UNCHANGED <<stats, ratings, board>>
  BY DEF RegisterOrSubmit, SettleConfirmed, tables
<1>4. ASSUME "agent" \notin disturbed'
      PROVE  /\ \A g \in Handlers \ {h} : ~ OfAgent(handler[g])
             /\ OfAgent(Update(kind, "loaded", s))
             /\ Progress(Update(kind, "loaded", s), stats', board', AverageRating', happened')
  <2>1. "agent" \notin disturbed /\ "agent" \notin DisturbedBy(kind, s)
    BY <1>1, <1>4 DEF Begin
  <2>2. s = stats /\ \A g \in Handlers : ~ OfAgent(handler[g])
    BY <1>1, <2>1, DisturbsAgent DEF Typed
  <2>3. LET kinds == IF kind = "onTime" THEN {"submit", "onTime"} ELSE {kind}
        IN  kinds \cap {"register", "submit", "onTime", "win"} = kinds
    BY <1>1 DEF AgentKinds
  <2>4. Progress(Update(kind, "loaded", stats), stats', board', AverageRating', happened')
    BY <1>1, <1>3, <2>1, <2>2, <2>3, EventProgress
  <2> QED BY <1>1, <2>2, <2>4, UpdateFields DEF OfAgent
<1> QED BY <1>2, <1>4, UndisturbedMoves

LEMMA RatingUndisturbed ==
  ASSUME Typed, Typed', Undisturbed, NEW h \in Handlers, NEW b \in Bounties,
         NEW q \in Ratings, SaveRating(h, b, q)
  PROVE  Undisturbed'
<1> DEFINE s == [NoStats EXCEPT !.parts.quality = [of |-> q, in |-> 1]]
<1>1. Begin(h, "rate", "loaded", s) /\ Happen({"rate"}) /\ UNCHANGED <<stats, board>>
  BY DEF SaveRating
<1> HIDE DEF s
<1>2. Moved(h, "rate", "loaded", s)
  BY <1>1 DEF Begin, Moved
<1>3. OfAgent(Update("rate", "loaded", s))
  BY KindsDiffer, UpdateFields DEF OfAgent
<1>4. ASSUME "agent" \notin disturbed'
      PROVE  /\ \A g \in Handlers \ {h} : ~ OfAgent(handler[g])
             /\ Progress(Update("rate", "loaded", s), stats', board', AverageRating', happened')
  <2>1. "agent" \notin disturbed /\ ~ Busy("agent")
    BY <1>1, <1>4, KindsDiffer DEF Begin, DisturbedBy, RowOf
  <2>2. \A g \in Handlers : ~ OfAgent(handler[g])
    BY <2>1, BusyAgent DEF Typed
  <2>3. AgentExact(stats, board, AverageRating, happened)
    BY <2>1, <2>2 DEF Undisturbed
  <2>4. \A k \in {"register", "submit", "onTime", "win"} : happened'[k] = happened[k]
    BY <1>1 DEF Happen, Counted
  <2>5. Counts(stats, "rate", happened')
    BY <2>3, <2>4 DEF AgentExact, Counts, One
  <2> QED BY <1>1, <2>2, <2>5, UpdateFields DEF Progress
<1> QED BY <1>2, <1>3, <1>4, UndisturbedMoves

LEMMA WinnerUndisturbed ==
  ASSUME Typed, Typed', Undisturbed, NEW h \in Handlers, NEW g \in Handlers,
         NEW b \in Bounties, WinnerSelected(h, g, b)
  PROVE  Undisturbed'
<1>1. PICK s, o :
        /\ handler' = [handler EXCEPT ![h] = Update("win", "loaded", s),
                                      ![g] = Update("settle", "loaded", o)]
        /\ disturbed' = disturbed \cup DisturbedBy("win", s) \cup DisturbedBy("settle", o)
  BY DEF WinnerSelected
<1>2. /\ h # g /\ Happen({"win", "settle"}) /\ UNCHANGED <<stats, ratings, board>>
  BY DEF WinnerSelected, tables
<1>3. /\ handler'[h] = Update("win", "loaded", s)
      /\ handler'[g] = Update("settle", "loaded", o)
      /\ \A f \in Handlers \ {h, g} : handler'[f] = handler[f]
  BY <1>1, <1>2, TwoMove DEF Typed
<1> SUFFICES ASSUME "agent" \notin disturbed' PROVE Undisturbed'
  BY DEF Undisturbed
<1>4. "agent" \notin disturbed /\ "agent" \notin DisturbedBy("win", s)
  BY <1>1
<1>5. "win" \in AgentKinds \ {"rate"} /\ "settle" \notin AgentKinds
  BY DEF AgentKinds
<1>6. s = stats /\ \A f \in Handlers : ~ OfAgent(handler[f])
  BY <1>4, <1>5, DisturbsAgent DEF Typed
<1>7. Progress(Update("win", "loaded", stats), stats', board', AverageRating', happened')
  <2>1. {"win", "settle"} \cap {"register", "submit", "onTime", "win"} =
          IF "win" = "onTime" THEN {"submit", "onTime"} ELSE {"win"}
    OBVIOUS
  <2> QED BY <1>2, <1>4, <1>5, <1>6, <2>1, EventProgress
<1>8. OfAgent(handler'[h]) /\ ~ OfAgent(handler'[g])
  BY <1>3, <1>5, UpdateFields DEF OfAgent
<1>9. \A f \in Handlers : OfAgent(handler'[f]) => f = h
  <2> HIDE DEF OfAgent
  <2> QED BY <1>3, <1>6, <1>8
<1> HIDE DEF OfAgent, Progress, AgentExact
<1> QED BY <1>3, <1>6, <1>7, <1>8, <1>9 DEF Undisturbed

\* The only update of the agent's row stores what it was about.
LEMMA StoredCounts ==
  ASSUME Typed, NEW h \in Handlers, Store(h), handler[h].s = stats,
         Counts(stats, handler[h].kind, happened)
  PROVE  Counts(stats', "none", happened')
<1> DEFINE kind == handler[h].kind
<1>1. kind \in {"register", "submit", "onTime", "win"} /\ happened' = happened
  BY DEF Store, AgentKinds
<1>2. stats \in Stats
  BY DEF Typed, TypeOK
<1>3. /\ stats.total_registrations \in Nat /\ stats.total_submissions \in Nat
      /\ stats.on_time_submissions \in Nat /\ stats.bounty_wins \in Nat
      /\ stats.win_streak \in Nat /\ stats.xp_points \in Nat
      /\ Bonus(stats.bounty_wins) \in Nat
      /\ Bonus(stats.bounty_wins + 1) =
           Bonus(stats.bounty_wins) + StreakBonus(stats.bounty_wins + 1)
  BY <1>2, BonusNext DEF Stats
<1>4. /\ One("register" = "none") = 0 /\ One("none" \in {"submit", "onTime"}) = 0
      /\ One("none" = "register") = 0 /\ One("none" = "onTime") = 0 /\ One("none" = "win") = 0
  BY DEF One
<1>5. CASE kind = "register"
  <2>1. /\ stats'.total_registrations = stats.total_registrations + 1
        /\ stats'.total_submissions = stats.total_submissions
        /\ stats'.on_time_submissions = stats.on_time_submissions
        /\ stats'.bounty_wins = stats.bounty_wins
        /\ stats'.win_streak = stats.win_streak
        /\ stats'.xp_points = stats.xp_points + 5
    BY <1>2, <1>5, RegistrationStored DEF Store
  <2>2. /\ One(kind = "register") = 1 /\ One(kind \in {"submit", "onTime"}) = 0
        /\ One(kind = "onTime") = 0 /\ One(kind = "win") = 0
    BY <1>5 DEF One
  <2>3. stats'.xp_points = 5 * stats'.total_registrations + 15 * stats'.total_submissions
                             + 20 * stats'.on_time_submissions + 100 * stats'.bounty_wins
                             + Bonus(stats'.bounty_wins)
    BY <1>3, <2>1 DEF Counts
  <2> QED BY <1>1, <1>3, <1>4, <2>1, <2>2, <2>3 DEF Counts
<1>6. CASE kind = "submit"
  <2>1. StoreSubmission(stats, FALSE)
    BY <1>6 DEF Store
  <2>2. /\ stats'.total_registrations = stats.total_registrations
        /\ stats'.total_submissions = stats.total_submissions + 1
        /\ stats'.on_time_submissions = stats.on_time_submissions + 0
        /\ stats'.bounty_wins = stats.bounty_wins
        /\ stats'.win_streak = stats.win_streak
        /\ stats'.xp_points = stats.xp_points + 15
    BY <1>2, <2>1, SubmissionStored
  <2>3. /\ One(kind = "register") = 0 /\ One(kind \in {"submit", "onTime"}) = 1
        /\ One(kind = "onTime") = 0 /\ One(kind = "win") = 0
    BY <1>6 DEF One
  <2> QED BY <1>1, <1>3, <1>4, <2>2, <2>3 DEF Counts
<1>7. CASE kind = "onTime"
  <2>1. StoreSubmission(stats, TRUE)
    BY <1>7 DEF Store
  <2>2. /\ stats'.total_registrations = stats.total_registrations
        /\ stats'.total_submissions = stats.total_submissions + 1
        /\ stats'.on_time_submissions = stats.on_time_submissions + 1
        /\ stats'.bounty_wins = stats.bounty_wins
        /\ stats'.win_streak = stats.win_streak
        /\ stats'.xp_points = stats.xp_points + 35
    BY <1>2, <2>1, SubmissionStored
  <2>3. /\ One(kind = "register") = 0 /\ One(kind \in {"submit", "onTime"}) = 1
        /\ One(kind = "onTime") = 1 /\ One(kind = "win") = 0
    BY <1>7 DEF One
  <2>4. stats'.xp_points = 5 * stats'.total_registrations + 15 * stats'.total_submissions
                             + 20 * stats'.on_time_submissions + 100 * stats'.bounty_wins
                             + Bonus(stats'.bounty_wins)
    BY <1>3, <2>2 DEF Counts
  <2> QED BY <1>1, <1>3, <1>4, <2>2, <2>3, <2>4 DEF Counts
<1>8. CASE kind = "win"
  <2>1. /\ stats'.total_registrations = stats.total_registrations
        /\ stats'.total_submissions = stats.total_submissions
        /\ stats'.on_time_submissions = stats.on_time_submissions
        /\ stats'.bounty_wins = stats.bounty_wins + 1
        /\ stats'.win_streak = stats.win_streak + 1
        /\ stats'.xp_points = stats.xp_points + 100 + StreakBonus(stats.win_streak + 1)
    BY <1>2, <1>8, WinStored DEF Store
  <2>2. /\ One(kind = "register") = 0 /\ One(kind \in {"submit", "onTime"}) = 0
        /\ One(kind = "onTime") = 0 /\ One(kind = "win") = 1
    BY <1>8 DEF One
  <2>3. StreakBonus(stats.bounty_wins + 1) \in Nat /\ stats.win_streak = stats.bounty_wins
    BY DEF StreakBonus, Counts
  <2> QED BY <1>1, <1>3, <1>4, <2>1, <2>2, <2>3 DEF Counts
<1> QED BY <1>1, <1>5, <1>6, <1>7, <1>8

LEMMA StoreUndisturbed ==
  ASSUME Typed, Typed', Undisturbed, NEW h \in Handlers, Store(h)
  PROVE  Undisturbed'
<1> DEFINE kind == handler[h].kind
           to == IF kind = "register" THEN "idle" ELSE "stored"
<1>1. /\ kind \in AgentKinds \ {"rate"} /\ handler[h].step = "loaded"
      /\ Proceed(h, "loaded", to, NoStats)
      /\ UNCHANGED <<ratings, board, happened, disturbed>>
  BY DEF Store, Proceed
<1>2. Moved(h, kind, to, NoStats)
  <2>1. TypeOK /\ to \in Steps
    BY DEF Typed, Steps
  <2> HIDE DEF to
  <2> QED BY <1>1, <2>1, ProceedMoves
<1>3. ASSUME "agent" \notin disturbed'
      PROVE  /\ \A g \in Handlers \ {h} : ~ OfAgent(handler[g])
             /\ OfAgent(Update(kind, to, NoStats)) =>
                  Progress(Update(kind, to, NoStats), stats', board', AverageRating', happened')
             /\ ~ OfAgent(Update(kind, to, NoStats)) =>
                  AgentExact(stats', board', AverageRating', happened')
  <2>1. OfAgent(handler[h]) /\ "agent" \notin disturbed
    BY <1>1, <1>3 DEF OfAgent
  <2>2. \A g \in Handlers \ {h} : ~ OfAgent(handler[g])
    BY <2>1 DEF Undisturbed
  <2>3. Progress(handler[h], stats, board, AverageRating, happened)
    BY <2>1 DEF Undisturbed
  <2>4. /\ handler[h].s = stats /\ Counts(stats, kind, happened)
        /\ stats.parts.quality = AverageRating
    BY <1>1, <2>3 DEF Progress
  <2>5. Counts(stats', "none", happened') /\ AverageRating' = AverageRating
    BY <1>1, <2>4, StoredCounts, AverageStays
  <2>6. stats'.parts.quality = AverageRating'
    BY <2>4, <2>5, RowStored
  <2>7. CASE kind = "register"
    <3>1. stats' = [stats EXCEPT !.total_registrations = stats.total_registrations + 1,
                                 !.xp_points = stats.xp_points + 5]
      BY <2>4, <2>7 DEF Store, StoreRegistration
    <3>2. stats \in Stats
      BY DEF Typed, TypeOK
    <3>3. stats'.parts = stats.parts /\ stats'.composite_score = stats.composite_score
      BY <2>4, <2>7, <3>2, RegistrationStored DEF Store
    <3>4. /\ stats.composite_score = stats.parts
          /\ board.all = stats.parts /\ board.category = stats.parts
      BY <1>1, <2>3, <2>7 DEF Progress
    <3>5. AgentExact(stats', board', AverageRating', happened')
      BY <1>1, <2>5, <2>6, <3>3, <3>4 DEF AgentExact
    <3> QED BY <2>2, <2>7, <3>5, UpdateFields DEF OfAgent
  <2>8. CASE kind # "register"
    <3>1. Progress(Update(kind, "stored", NoStats), stats', board', AverageRating', happened')
      BY <2>5, <2>6, UpdateFields DEF Progress
    <3>2. OfAgent(Update(kind, "stored", NoStats))
      BY <1>1, UpdateFields DEF OfAgent
    <3> QED BY <2>2, <2>8, <3>1, <3>2
  <2> QED BY <2>7, <2>8
<1> HIDE DEF kind, to
<1> QED BY <1>2, <1>3, UndisturbedMoves

\* The client's steps, an update of the client that fails, and a post that begins.
LEMMA ClientUndisturbed ==
  ASSUME Typed, Typed', Undisturbed, NEW h \in Handlers,
         \/ BountyPosted(h)
         \/ StoreOwner(h)
         \/ handler[h].kind \in OwnerKinds /\ (StoreIgnored(h) \/ UpdateFails(h))
  PROVE  Undisturbed'
<1>1. \E kind, step, s : Moved(h, kind, step, s) /\ (kind \in OwnerKinds \/ step = "idle")
  <2>1. CASE BountyPosted(h)
    BY <2>1 DEF BountyPosted, Begin, Moved, OwnerKinds
  <2>2. CASE StoreOwner(h)
    BY <2>2, ProceedMoves DEF StoreOwner, Typed, Steps
  <2>3. CASE handler[h].kind \in OwnerKinds /\ (StoreIgnored(h) \/ UpdateFails(h))
    BY <2>3, BehindMoves DEF Behind
  <2> QED BY <2>1, <2>2, <2>3
<1>2. ~ OfAgent(handler[h])
  BY KindsDiffer DEF BountyPosted, Begin, StoreOwner, OfAgent
<1>3. \A g \in Handlers : \/ handler'[g] = handler[g]
                          \/ ~ OfAgent(handler[g]) /\ ~ OfAgent(handler'[g])
  <2>1. PICK kind, step, s : Moved(h, kind, step, s) /\ (kind \in OwnerKinds \/ step = "idle")
    BY <1>1
  <2>2. /\ handler'[h] = Update(kind, step, s)
        /\ \A g \in Handlers \ {h} : handler'[g] = handler[g]
    BY <2>1, MovedFacts DEF Typed
  <2>3. ~ OfAgent(handler'[h])
    BY <2>1, <2>2, KindsDiffer, UpdateFields DEF OfAgent
  <2> HIDE DEF OfAgent
  <2> QED BY <1>2, <2>2, <2>3
<1>4. /\ disturbed \subseteq disturbed' /\ UNCHANGED <<stats, ratings, board>>
      /\ \A k \in {"register", "submit", "onTime", "win"} : happened'[k] = happened[k]
  <2>1. \A k \in {"register", "submit", "onTime", "win"} : k \in Counted /\ k # "post"
    BY DEF Counted
  <2> QED BY <2>1 DEF BountyPosted, Begin, StoreOwner, Proceed, StoreIgnored, UpdateFails,
          tables, Happen
<1>5. AgentAlone
  BY <1>3, <1>4 DEF AgentAlone
<1> QED BY <1>5, UndisturbedStays

\* The steps behind the change of the row: ratings read, stored and scored.  h is the
\* only update of the agent's, and r, b are the row and the leaderboards afterwards.
LEMMA ScoreUndisturbed ==
  ASSUME Typed, Typed', Undisturbed, NEW h \in Handlers, NEW from \in Steps \ {"idle"},
         NEW to \in Steps \ {"idle"}, NEW s, Proceed(h, from, to, s),
         handler[h].kind \in AgentKinds, UNCHANGED <<ratings, happened>>,
         Progress(handler[h], stats, board, AverageRating, happened) =>
           Progress(Update(handler[h].kind, to, s), stats', board', AverageRating, happened)
  PROVE  Undisturbed'
<1>1. Moved(h, handler[h].kind, to, s) /\ handler[h].step = from
  BY ProceedMoves DEF Typed
<1>2. OfAgent(Update(handler[h].kind, to, s)) /\ OfAgent(handler[h])
  BY <1>1, UpdateFields DEF OfAgent
<1>3. AverageRating' = AverageRating /\ disturbed' = disturbed
  BY AverageStays DEF Proceed
<1>4. ASSUME "agent" \notin disturbed'
      PROVE  /\ \A g \in Handlers \ {h} : ~ OfAgent(handler[g])
             /\ Progress(Update(handler[h].kind, to, s), stats', board', AverageRating', happened')
  <2>1. /\ \A g \in Handlers \ {h} : ~ OfAgent(handler[g])
        /\ Progress(handler[h], stats, board, AverageRating, happened)
    BY <1>2, <1>3, <1>4 DEF Undisturbed
  <2> QED BY <1>3, <2>1
<1> HIDE DEF OfAgent, Progress
<1> QED BY <1>1, <1>2, <1>4, UndisturbedMoves

\* A change of the row that leaves the counters alone leaves what they count alone.
LEMMA CountsStay ==
  ASSUME Typed, NEW h \in Handlers, Behind(h), NEW kind, Counts(stats, kind, happened)
  PROVE  Counts(stats', kind, happened)
  BY BehindKeeps DEF Counts

LEMMA ReadUndisturbed ==
  ASSUME Typed, Typed', Undisturbed, NEW h \in Handlers, ReadRatings(h)
  PROVE  Undisturbed'
<1> DEFINE s == [NoStats EXCEPT !.parts.quality = AverageRating]
<1>1. /\ handler[h].kind = "rate" /\ Proceed(h, "loaded", "averaged", s)
      /\ UNCHANGED <<stats, board, ratings, happened>> /\ handler[h].step = "loaded"
  BY DEF ReadRatings, tables, Proceed
<1>2. s.parts.quality = AverageRating
  BY AverageTyped, OneRating
<1> HIDE DEF s
<1>3. ASSUME Progress(handler[h], stats, board, AverageRating, happened)
      PROVE  Progress(Update("rate", "averaged", s), stats', board', AverageRating, happened)
  <2>1. Counts(stats, "none", happened)
    BY <1>1, <1>3 DEF Progress, Counts, One
  <2> QED BY <1>1, <1>2, <2>1, UpdateFields DEF Progress
<1> QED BY <1>1, <1>3, KindsDiffer, ScoreUndisturbed DEF Steps

LEMMA QualityUndisturbed ==
  ASSUME Typed, Typed', Undisturbed, NEW h \in Handlers, StoreQuality(h)
  PROVE  Undisturbed'
<1>1. /\ Proceed(h, "averaged", "stored", NoStats) /\ handler[h].step = "averaged"
      /\ UNCHANGED <<board, ratings, happened>>
  BY DEF StoreQuality, Proceed
<1>2. stats'.parts.quality = handler[h].s.parts.quality /\ handler[h].kind \in AgentKinds
  BY RowRated
<1>3. ASSUME Progress(handler[h], stats, board, AverageRating, happened)
      PROVE  Progress(Update(handler[h].kind, "stored", NoStats), stats', board',
                      AverageRating, happened)
  <2>1. Counts(stats', "none", happened)
    BY <1>1, <1>3, CountsStay DEF Progress, Behind
  <2> QED BY <1>1, <1>2, <1>3, <2>1, UpdateFields DEF Progress
<1> QED BY <1>1, <1>2, <1>3, ScoreUndisturbed DEF Steps

LEMMA ScoreReadUndisturbed ==
  ASSUME Typed, Typed', Undisturbed, NEW h \in Handlers, ScoreRead(h)
  PROVE  Undisturbed'
<1>1. /\ Proceed(h, "stored", "read", stats) /\ handler[h].step = "stored"
      /\ UNCHANGED <<stats, board, ratings, happened>>
  BY DEF ScoreRead, tables, Proceed
<1>2. handler[h].kind \in AgentKinds
  BY <1>1, AgentHeld
<1>3. ASSUME Progress(handler[h], stats, board, AverageRating, happened)
      PROVE  Progress(Update(handler[h].kind, "read", stats), stats', board',
                      AverageRating, happened)
  BY <1>1, <1>3, UpdateFields DEF Progress
<1> QED BY <1>1, <1>2, <1>3, ScoreUndisturbed DEF Steps

LEMMA ScoreWriteUndisturbed ==
  ASSUME Typed, Typed', Undisturbed, NEW h \in Handlers, ScoreWrite(h)
  PROVE  Undisturbed'
<1>1. /\ Proceed(h, "read", "written", handler[h].s) /\ handler[h].step = "read"
      /\ UNCHANGED <<board, ratings, happened>>
  BY DEF ScoreWrite, Proceed
<1>2. /\ handler[h].kind \in AgentKinds /\ stats'.parts = stats.parts
      /\ stats'.composite_score = handler[h].s.parts
  BY RowScored
<1>3. ASSUME Progress(handler[h], stats, board, AverageRating, happened)
      PROVE  Progress(Update(handler[h].kind, "written", handler[h].s), stats', board',
                      AverageRating, happened)
  <2>1. Counts(stats', "none", happened)
    BY <1>1, <1>3, CountsStay DEF Progress, Behind
  <2> QED BY <1>1, <1>2, <1>3, <2>1, UpdateFields DEF Progress
<1> QED BY <1>1, <1>2, <1>3, ScoreUndisturbed DEF Steps

LEMMA BoardUndisturbed ==
  ASSUME Typed, Typed', Undisturbed, NEW h \in Handlers, UpdateLeaderboard(h)
  PROVE  Undisturbed'
<1>1. /\ Proceed(h, "written", "pushed", handler[h].s) /\ handler[h].step = "written"
      /\ UNCHANGED <<stats, ratings, happened>>
      /\ board' = [board EXCEPT !.all = handler[h].s.parts]
  BY DEF UpdateLeaderboard, Proceed
<1>2. handler[h].kind \in AgentKinds
  BY <1>1, AgentHeld
<1>3. board'.all = handler[h].s.parts
  BY <1>1 DEF Typed, TypeOK
<1>4. ASSUME Progress(handler[h], stats, board, AverageRating, happened)
      PROVE  Progress(Update(handler[h].kind, "pushed", handler[h].s), stats', board',
                      AverageRating, happened)
  BY <1>1, <1>3, <1>4, UpdateFields DEF Progress
<1> QED BY <1>1, <1>2, <1>4, ScoreUndisturbed DEF Steps

LEMMA CategoriesUndisturbed ==
  ASSUME Typed, Typed', Undisturbed, NEW h \in Handlers, UpdateCategories(h)
  PROVE  Undisturbed'
<1> DEFINE kind == handler[h].kind
<1>1. /\ Proceed(h, "pushed", AfterScore(kind), NoStats) /\ handler[h].step = "pushed"
      /\ UNCHANGED <<stats, ratings, happened, disturbed>>
      /\ board' = [board EXCEPT !.category = handler[h].s.parts]
  BY DEF UpdateCategories, Proceed
<1>2. kind \in AgentKinds /\ AfterScore(kind) \in Steps /\ OfAgent(handler[h])
  BY <1>1, AgentHeld DEF AfterScore, Steps, OfAgent
<1>3. board'.all = board.all /\ board'.category = handler[h].s.parts
  BY <1>1 DEF Typed, TypeOK
<1>4. Moved(h, kind, AfterScore(kind), NoStats) /\ AverageRating' = AverageRating
  BY <1>1, <1>2, ProceedMoves, AverageStays DEF Typed
<1>5. ASSUME "agent" \notin disturbed'
      PROVE  /\ \A g \in Handlers \ {h} : ~ OfAgent(handler[g])
             /\ AgentExact(stats', board', AverageRating', happened')
             /\ AfterScore(kind) # "idle" =>
                  Progress(Update(kind, AfterScore(kind), NoStats), stats', board',
                           AverageRating', happened')
  <2>1. /\ \A g \in Handlers \ {h} : ~ OfAgent(handler[g])
        /\ Progress(handler[h], stats, board, AverageRating, happened)
    BY <1>1, <1>2, <1>5 DEF Undisturbed
  <2>2. AgentExact(stats', board', AverageRating', happened')
    BY <1>1, <1>3, <1>4, <2>1 DEF Progress, AgentExact
  <2>3. AfterScore(kind) # "idle" => AfterScore(kind) = "rated"
    BY DEF AfterScore
  <2>4. Progress(Update(kind, "rated", NoStats), stats', board', AverageRating', happened')
    BY <2>2, UpdateFields DEF Progress, AgentExact
  <2> QED BY <2>1, <2>2, <2>3, <2>4
<1>6. OfAgent(Update(kind, AfterScore(kind), NoStats)) => AfterScore(kind) # "idle"
  BY UpdateFields DEF OfAgent
<1> HIDE DEF kind, OfAgent, Progress
<1> QED BY <1>4, <1>5, <1>6, UndisturbedMoves

\* The rating goes over to the client's row.
LEMMA GivenUndisturbed ==
  ASSUME Typed, Typed', Undisturbed, NEW h \in Handlers, RatingGiven(h)
  PROVE  Undisturbed'
<1>1. PICK o : /\ Moved(h, "ownerRate", "loaded", o) /\ disturbed \subseteq disturbed'
  BY DEF RatingGiven, Moved
<1>2. /\ handler[h].step = "rated" /\ UNCHANGED <<stats, board, ratings, happened>>
  BY DEF RatingGiven, tables
<1>3. OfAgent(handler[h]) /\ ~ OfAgent(Update("ownerRate", "loaded", o))
  BY <1>2, AgentHeld, UpdateFields DEF OfAgent, AgentKinds
<1>4. ASSUME "agent" \notin disturbed'
      PROVE  /\ \A g \in Handlers \ {h} : ~ OfAgent(handler[g])
             /\ AgentExact(stats', board', AverageRating', happened')
  <2>1. /\ \A g \in Handlers \ {h} : ~ OfAgent(handler[g])
        /\ Progress(handler[h], stats, board, AverageRating, happened)
    BY <1>1, <1>3, <1>4 DEF Undisturbed
  <2>2. AverageRating' = AverageRating
    BY <1>2, AverageStays
  <2> QED BY <1>2, <2>1, <2>2 DEF Progress, AgentExact
<1> HIDE DEF OfAgent
<1> QED BY <1>1, <1>3, <1>4, UndisturbedMoves

\* Whatever fails disturbs the agent's row.
LEMMA FailsUndisturbed ==
  ASSUME Typed, NEW h \in Handlers,
         \/ ReadRatingsFails(h)
         \/ handler[h].kind \notin OwnerKinds /\ (StoreIgnored(h) \/ UpdateFails(h))
  PROVE  Undisturbed'
<1>1. "agent" \in disturbed'
  BY DEF ReadRatingsFails, StoreIgnored, UpdateFails, RowOf
<1> QED BY <1>1 DEF Undisturbed

LEMMA UndisturbedInit == Init => Undisturbed
<1> SUFFICES ASSUME Init PROVE Undisturbed
  OBVIOUS
<1>1. \A h \in Handlers : ~ OfAgent(handler[h])
  BY DEF Init, OfAgent, IdleHandler
<1>2. AverageRating = NoRate
  <2>1. DOMAIN ratings = {}
    BY DEF Init
  <2>2. AverageRating = [of |-> SumOver(ratings, {}), in |-> Cardinality({})]
    BY <2>1, AverageIsSum DEF AverageSums
  <2> QED BY <2>2, SumEmpty, FS_EmptySet DEF NoRate
<1>3. Counts(stats, "none", happened)
  BY BonusNone DEF Init, Counts, One, NoStats, Counted
<1>4. AgentExact(stats, board, AverageRating, happened)
  BY <1>2, <1>3 DEF Init, AgentExact, NoStats, NoParts
<1> HIDE DEF OfAgent, AgentExact
<1> QED BY <1>1, <1>4 DEF Undisturbed

LEMMA UndisturbedNext == Typed /\ Undisturbed /\ [Next]_vars => Undisturbed'
<1> SUFFICES ASSUME Typed, Undisturbed, [Next]_vars PROVE Undisturbed'
  OBVIOUS
<1>1. Typed'
  BY TypedNext
<1>2. CASE UNCHANGED vars
  <2>1. AgentAlone
    BY <1>2 DEF vars, tables, AgentAlone
  <2> QED BY <2>1, UndisturbedStays
<1>3. CASE Next
  BY <1>1, <1>3, AgentBeginUndisturbed, RatingUndisturbed, WinnerUndisturbed,
     StoreUndisturbed, ClientUndisturbed, ReadUndisturbed, QualityUndisturbed,
     ScoreReadUndisturbed, ScoreWriteUndisturbed, BoardUndisturbed, CategoriesUndisturbed,
     GivenUndisturbed, FailsUndisturbed
  DEF Next
<1> QED BY <1>2, <1>3

-----------------------------------------------------------------------------
(* The client's row *)

OwnerCounts(o, kind, hap, n) ==
  /\ o.bounties_posted + One(kind = "post") = hap["post"]
  /\ o.bounties_settled + One(kind = "settle") = hap["settle"]
  /\ o.ratings_given + n = hap["rate"]
  /\ o.xp_points = 10 * o.bounties_posted + 25 * o.bounties_settled + 15 * o.ratings_given
  /\ o.tier = OwnerTier(o.xp_points) /\ o.badges = OwnerBadges(o)

OfOwner(u) == u.step # "idle" /\ u.kind \in OwnerKinds

\* Without a disturbance one update of the client's row is in flight at a time, with
\* the row as it is, and every rating is in the row or still on its way to it.
OwnerUndisturbed ==
  "owner" \notin disturbed =>
    /\ \A g, h \in Handlers : OfOwner(handler[g]) /\ OfOwner(handler[h]) => g = h
    /\ (\A h \in Handlers : ~ OfOwner(handler[h])) => OwnerCounts(owner, "none", happened, Due)
    /\ \A h \in Handlers : OfOwner(handler[h]) =>
         /\ handler[h].s = owner
         /\ OwnerCounts(owner, handler[h].kind, happened, Due)

LEMMA BusyOwner ==
  Busy("owner") <=> \E h \in Handlers : OfOwner(handler[h])
<1>1. \A h \in Handlers : RowOf(handler[h].kind) = "owner" <=> handler[h].kind \in OwnerKinds
  BY DEF RowOf
<1> QED BY <1>1 DEF Busy, OfOwner

LEMMA DisturbsOwner ==
  ASSUME NEW kind \in OwnerKinds, NEW o, "owner" \notin DisturbedBy(kind, o)
  PROVE  o = owner /\ \A g \in Handlers : ~ OfOwner(handler[g])
<1>1. RowOf(kind) = "owner" /\ kind # "rate"
  BY KindsDiffer DEF RowOf
<1>2. ~ Busy("owner") /\ o = owner
  BY <1>1 DEF DisturbedBy
<1> QED BY <1>2, BusyOwner

LEMMA OwnerMoves ==
  ASSUME Typed, NEW h \in Handlers, NEW kind, NEW step, NEW s, Moved(h, kind, step, s),
         "owner" \notin disturbed' =>
           /\ \A g \in Handlers \ {h} : ~ OfOwner(handler[g])
           /\ OfOwner(Update(kind, step, s)) =>
                s = owner' /\ OwnerCounts(owner', kind, happened', Due')
           /\ ~ OfOwner(Update(kind, step, s)) => OwnerCounts(owner', "none", happened', Due')
  PROVE  OwnerUndisturbed'
<1>1. /\ handler'[h] = Update(kind, step, s)
      /\ \A g \in Handlers \ {h} : handler'[g] = handler[g]
  BY MovedFacts DEF Typed
<1> HIDE DEF OfOwner, OwnerCounts
<1> QED BY <1>1, UpdateFields DEF OwnerUndisturbed

\* A step of the agent's that may save a rating, but counts none.
OwnerAlone ==
  /\ disturbed \subseteq disturbed' /\ UNCHANGED owner
  /\ \A k \in {"post", "settle"} : happened'[k] = happened[k]
  /\ "owner" \notin disturbed' => happened'["rate"] - happened["rate"] = Due' - Due
  /\ \A g \in Handlers : \/ handler'[g] = handler[g]
                         \/ ~ OfOwner(handler[g]) /\ ~ OfOwner(handler'[g])

LEMMA OwnerStays ==
  ASSUME Typed, Typed', OwnerUndisturbed, OwnerAlone, Due \in Nat, Due' \in Nat
  PROVE  OwnerUndisturbed'
<1> SUFFICES ASSUME "owner" \notin disturbed' PROVE OwnerUndisturbed'
  BY DEF OwnerUndisturbed
<1>1. /\ "owner" \notin disturbed /\ owner' = owner
      /\ happened'["rate"] - happened["rate"] = Due' - Due
  <2>1. disturbed \subseteq disturbed' /\ owner' = owner
    BY DEF OwnerAlone
  <2>2. happened'["rate"] - happened["rate"] = Due' - Due
    BY Zenon DEF OwnerAlone
  <2> QED BY <2>1, <2>2
<1>2. owner.ratings_given \in Nat /\ happened["rate"] \in Nat /\ happened'["rate"] \in Nat
  BY DEF Typed, TypeOK, OwnerStats, Counted
<1>3. \A kind : OwnerCounts(owner, kind, happened, Due) =>
                 OwnerCounts(owner', kind, happened', Due')
  BY <1>1, <1>2 DEF OwnerCounts, OwnerAlone
<1>4. \A g \in Handlers : \/ handler'[g] = handler[g]
                          \/ ~ OfOwner(handler[g]) /\ ~ OfOwner(handler'[g])
  BY DEF OwnerAlone
<1> HIDE DEF OfOwner, OwnerCounts
<1> QED BY <1>1, <1>3, <1>4 DEF OwnerUndisturbed

\* One update of the agent's moves, and stays the agent's.
LEMMA AgentMoves ==
  ASSUME Typed, NEW h \in Handlers, NEW kind, NEW step, NEW s, Moved(h, kind, step, s),
         ~ OfOwner(handler[h]), ~ OfOwner(Update(kind, step, s))
  PROVE  \A g \in Handlers : \/ handler'[g] = handler[g]
                             \/ ~ OfOwner(handler[g]) /\ ~ OfOwner(handler'[g])
<1>1. /\ handler'[h] = Update(kind, step, s)
      /\ \A g \in Handlers \ {h} : handler'[g] = handler[g]
  BY MovedFacts DEF Typed
<1>2. ~ OfOwner(handler'[h])
  BY <1>1
<1> SUFFICES ASSUME NEW g \in Handlers
             PROVE  \/ handler'[g] = handler[g]
                    \/ ~ OfOwner(handler[g]) /\ ~ OfOwner(handler'[g])
  OBVIOUS
<1>3. CASE g = h
  BY <1>2, <1>3
<1>4. CASE g # h
  BY <1>1, <1>4
<1> QED BY <1>3, <1>4

LEMMA AgentBeginOwner ==
  ASSUME Typed, Typed', Invented, OwnerUndisturbed, NEW h \in Handlers,
         \/ \E kind \in AgentKinds : RegisterOrSubmit(h, kind)
         \/ \E b \in Bounties : SettleConfirmed(h, b)
  PROVE  OwnerUndisturbed'
<1>1. PICK kind, s :
        /\ kind \in AgentKinds \ {"rate"}
        /\ Begin(h, kind, "loaded", s)
        /\ Happen(IF kind = "onTime" THEN {"submit", "onTime"} ELSE {kind})
  <2>1. CASE \E kind \in AgentKinds : RegisterOrSubmit(h, kind)
    BY <2>1 DEF RegisterOrSubmit, AgentKinds
  <2>2. CASE \E b \in Bounties : SettleConfirmed(h, b)
    BY <2>2 DEF SettleConfirmed, AgentKinds
  <2> QED BY <2>1, <2>2
<1>2. Moved(h, kind, "loaded", s) /\ handler[h].step = "idle"
  BY <1>1 DEF Begin, Moved
<1>3. ~ OfOwner(handler[h]) /\ ~ OfOwner(Update(kind, "loaded", s))
  BY <1>1, <1>2, KindsDiffer, UpdateFields DEF OfOwner
<1>4. Due \in Nat /\ Due' = Due
  <2>1. ~ RatingDue(Update(kind, "loaded", s)) /\ ~ RatingDue(handler[h])
    BY <1>1, <1>2, UpdateFields DEF RatingDue, AgentKinds
  <2> QED BY <1>2, <2>1, DueStays
<1>5. /\ happened'["post"] = happened["post"] /\ happened'["settle"] = happened["settle"]
      /\ happened'["rate"] = happened["rate"] /\ happened["rate"] \in Nat
  BY <1>1 DEF Happen, Counted, AgentKinds, Typed, TypeOK
<1>6. disturbed \subseteq disturbed' /\ UNCHANGED owner
  BY <1>1 DEF Begin, RegisterOrSubmit, SettleConfirmed, tables
<1>7. OwnerAlone
  BY <1>2, <1>3, <1>4, <1>5, <1>6, AgentMoves DEF OwnerAlone
<1> QED BY <1>4, <1>7, OwnerStays

LEMMA RatingOwner ==
  ASSUME Typed, Typed', Invented, OwnerUndisturbed, NEW h \in Handlers, NEW b \in Bounties,
         NEW q \in Ratings, SaveRating(h, b, q)
  PROVE  OwnerUndisturbed'
<1> DEFINE s == [NoStats EXCEPT !.parts.quality = [of |-> q, in |-> 1]]
<1>1. /\ Moved(h, "rate", "loaded", s) /\ handler[h].step = "idle"
      /\ Happen({"rate"}) /\ UNCHANGED owner /\ disturbed \subseteq disturbed'
  BY DEF SaveRating, Begin, Moved
<1> HIDE DEF s
<1>2. ~ OfOwner(handler[h]) /\ ~ OfOwner(Update("rate", "loaded", s))
  BY <1>1, KindsDiffer, UpdateFields DEF OfOwner
<1>3. Due \in Nat /\ Due' = Due + 1
  <2>1. RatingDue(Update("rate", "loaded", s)) /\ ~ RatingDue(handler[h])
    BY <1>1, UpdateFields DEF RatingDue
  <2>2. /\ One(RatingDue(Update("rate", "loaded", s))) = 1
        /\ One(RatingDue(handler[h])) = 0
    BY <2>1 DEF One
  <2>3. /\ Due \in Nat /\ Due' \in Nat
        /\ Due' + One(RatingDue(handler[h])) =
             Due + One(RatingDue(Update("rate", "loaded", s)))
    BY <1>1, DueMoves DEF Typed, Invented
  <2> QED BY <2>2, <2>3
<1>4. /\ happened'["post"] = happened["post"] /\ happened'["settle"] = happened["settle"]
      /\ happened'["rate"] = happened["rate"] + 1 /\ happened["rate"] \in Nat
  BY <1>1 DEF Happen, Counted, Typed, TypeOK
<1>5. happened'["rate"] - happened["rate"] = Due' - Due
  BY <1>3, <1>4
<1>6. OwnerAlone
  BY <1>1, <1>2, <1>4, <1>5, AgentMoves DEF OwnerAlone
<1> QED BY <1>3, <1>6, OwnerStays

LEMMA StoreAlone ==
  ASSUME Typed, Typed', Invented, OwnerUndisturbed, NEW h \in Handlers, Store(h)
  PROVE  OwnerUndisturbed'
<1> DEFINE kind == handler[h].kind
           to == IF kind = "register" THEN "idle" ELSE "stored"
<1>1. /\ kind \in AgentKinds \ {"rate"} /\ Proceed(h, "loaded", to, NoStats)
      /\ UNCHANGED <<owner, happened, disturbed>>
  BY DEF Store, Proceed
<1>2. Moved(h, kind, to, NoStats)
  <2>1. TypeOK /\ to \in Steps
    BY DEF Typed, Steps
  <2> HIDE DEF to
  <2> QED BY <1>1, <2>1, ProceedMoves
<1>3. ~ OfOwner(handler[h]) /\ ~ OfOwner(Update(kind, to, NoStats))
  BY <1>1, KindsDiffer, UpdateFields DEF OfOwner
<1>4. Due \in Nat /\ Due' = Due
  <2>1. ~ RatingDue(Update(kind, to, NoStats)) /\ ~ RatingDue(handler[h])
    BY <1>1, UpdateFields DEF RatingDue, AgentKinds
  <2> HIDE DEF kind, to
  <2> QED BY <1>2, <2>1, DueStays
<1>5. happened["rate"] \in Nat
  BY DEF Typed, TypeOK, Counted
<1>6. OwnerAlone
  <2> HIDE DEF kind, to
  <2> QED BY <1>1, <1>2, <1>3, <1>4, <1>5, AgentMoves DEF OwnerAlone
<1> QED BY <1>4, <1>6, OwnerStays

\* Where nothing happens, an update that is not the client's moves, and no rating is
\* lost on its way unless that disturbs the client's row.
LEMMA BehindOwner ==
  ASSUME Typed, Typed', Invented, OwnerUndisturbed, NEW h \in Handlers, Behind(h)
  PROVE  OwnerUndisturbed'
<1>1. PICK kind \in AgentKinds \cup OwnerKinds, step \in Steps \ {"loaded"},
           s \in Stats \cup OwnerStats :
             /\ Moved(h, kind, step, s)
             /\ kind = handler[h].kind \/ step = "idle"
  BY BehindMoves
<1>2. /\ handler[h].step # "idle" /\ UNCHANGED <<owner, happened>>
      /\ disturbed \subseteq disturbed'
  BY BehindMoves, BehindKeeps
  DEF Behind, StoreIgnored, ReadRatings, ReadRatingsFails, StoreQuality, ScoreRead, ScoreWrite,
      UpdateLeaderboard, UpdateCategories, UpdateFails, Proceed
<1> SUFFICES ASSUME "owner" \notin disturbed' PROVE OwnerUndisturbed'
  BY DEF OwnerUndisturbed
<1>3. handler[h].kind \notin OwnerKinds
  <2>1. handler[h].kind \in OwnerKinds => StoreIgnored(h) \/ UpdateFails(h)
    <3>1. handler[h].kind \in OwnerKinds => handler[h].step = "loaded" /\ handler[h].kind # "rate"
      BY <1>2, KindsDiffer DEF Typed, Held
    <3> QED BY <3>1 DEF Behind, ReadRatings, ReadRatingsFails, StoreQuality, ScoreRead,
            ScoreWrite, UpdateLeaderboard, UpdateCategories, Proceed
  <2> QED BY <2>1 DEF StoreIgnored, UpdateFails, RowOf
<1>4. ~ OfOwner(handler[h]) /\ ~ OfOwner(Update(kind, step, s))
  BY <1>1, <1>3, UpdateFields DEF OfOwner
<1>5. RatingDue(Update(kind, step, s)) <=> RatingDue(handler[h])
  <2>1. CASE handler[h].kind # "rate"
    BY <1>1, <1>3, <2>1, UpdateFields DEF RatingDue, OwnerKinds
  <2>2. CASE handler[h].kind = "rate"
    <3>1. ~ UpdateFails(h)
      BY <2>2 DEF UpdateFails
    <3>2. handler'[h].step # "idle" /\ handler'[h].kind = "rate"
      <4>1. handler[h] \in Updates /\ TypeOK
        BY TypedHandlers DEF Typed
      <4>2. \A to \in Steps : \A z : Proceed(h, handler[h].step, to, z) =>
              handler'[h].step = to /\ handler'[h].kind = "rate"
        BY <2>2, <4>1, ProceedMoves, MovedFacts, UpdateFields
      <4>3. CASE StoreIgnored(h)
        <5>1. handler'[h].step = step /\ handler'[h].kind = kind
          BY <1>1, MovedFacts, UpdateFields DEF Typed
        <5>2. \E to \in Steps \ {"idle"} : \E z :
                handler' = [handler EXCEPT ![h].step = to, ![h].s = z]
          BY <2>2, <4>3, KindsDiffer DEF StoreIgnored, AfterScore, Steps
        <5>3. handler \in [Handlers -> Updates]
          BY <4>1, TypedHandlers
        <5>4. PICK to, z :
                /\ to \in Steps \ {"idle"}
                /\ handler' = [handler EXCEPT ![h] = [handler[h] EXCEPT !.step = to, !.s = z]]
          BY <5>2, <5>3
        <5>5. handler'[h] = Update("rate", to, z)
          BY <2>2, <4>1, <5>3, <5>4, UpdateExact
        <5>6. to # "idle"
          BY <5>4
        <5> QED BY <5>5, <5>6, UpdateFields
      <4>4. CASE ReadRatingsFails(h)
        <5>1. handler'[h] = [handler[h] EXCEPT !.step = "averaged"]
          BY <4>1, <4>4, TypedHandlers DEF ReadRatingsFails
        <5> QED BY <2>2, <4>1, <5>1 DEF Updates
      <4>5. CASE ~ StoreIgnored(h) /\ ~ ReadRatingsFails(h)
        <5>1. \E to \in Steps \ {"idle"} : \E z : Proceed(h, handler[h].step, to, z)
          BY <2>2, <3>1, <4>5
          DEF Behind, ReadRatings, StoreQuality, ScoreRead, ScoreWrite, UpdateLeaderboard,
              UpdateCategories, AfterScore, Proceed, Steps
        <5> QED BY <4>2, <5>1
      <4> QED BY <4>3, <4>4, <4>5
    <3>3. handler'[h] = Update(kind, step, s)
      BY <1>1, MovedFacts DEF Typed
    <3> QED BY <1>2, <2>2, <3>2, <3>3 DEF RatingDue
  <2> QED BY <2>1, <2>2
<1>6. Due \in Nat /\ Due' = Due
  BY <1>1, <1>5, DueStays
<1>7. happened["rate"] \in Nat
  BY DEF Typed, TypeOK, Counted
<1>8. OwnerAlone
  BY <1>1, <1>2, <1>4, <1>6, <1>7, AgentMoves DEF OwnerAlone
<1> QED BY <1>6, <1>8, OwnerStays

\* The event that an update of the client's row is about to count.
LEMMA OwnerEvent ==
  ASSUME Typed, OwnerUndisturbed, "owner" \notin disturbed,
         \A g \in Handlers : ~ OfOwner(handler[g]), UNCHANGED owner,
         NEW kind \in {"post", "settle"}, NEW kinds, Happen(kinds),
         kinds \cap {"post", "settle", "rate"} = {kind}, Due' = Due
  PROVE  OwnerCounts(owner', kind, happened', Due')
<1>1. OwnerCounts(owner, "none", happened, Due)
  BY DEF OwnerUndisturbed
<1>2. \A k \in {"post", "settle", "rate"} :
        happened[k] \in Nat
          /\ happened'[k] = (IF k = kind THEN happened[k] + 1 ELSE happened[k])
  BY DEF Happen, Counted, Typed, TypeOK
<1>3. owner \in OwnerStats
  BY DEF Typed, TypeOK
<1> QED BY <1>1, <1>2, <1>3 DEF OwnerCounts, One, OwnerStats

LEMMA PostedOwner ==
  ASSUME Typed, Typed', Invented, OwnerUndisturbed, NEW h \in Handlers, BountyPosted(h)
  PROVE  OwnerUndisturbed'
<1>1. PICK o : Begin(h, "post", "loaded", o)
  BY DEF BountyPosted
<1>2. /\ Moved(h, "post", "loaded", o) /\ handler[h].step = "idle"
      /\ disturbed' = disturbed \cup DisturbedBy("post", o)
  BY <1>1 DEF Begin, Moved
<1>3. Happen({"post"}) /\ UNCHANGED owner
  BY DEF BountyPosted, tables
<1>4. Due' = Due
  <2>1. ~ RatingDue(Update("post", "loaded", o)) /\ ~ RatingDue(handler[h])
    BY <1>2, UpdateFields DEF RatingDue
  <2> QED BY <1>2, <2>1, DueStays
<1>5. ASSUME "owner" \notin disturbed'
      PROVE  /\ \A g \in Handlers : ~ OfOwner(handler[g])
             /\ o = owner' /\ OwnerCounts(owner', "post", happened', Due')
  <2>1. "owner" \notin disturbed /\ "owner" \notin DisturbedBy("post", o)
    BY <1>2, <1>5
  <2>2. o = owner /\ \A g \in Handlers : ~ OfOwner(handler[g])
    BY <2>1, DisturbsOwner DEF OwnerKinds
  <2>3. {"post"} \cap {"post", "settle", "rate"} = {"post"}
    OBVIOUS
  <2>4. OwnerCounts(owner', "post", happened', Due')
    BY <1>3, <1>4, <2>1, <2>2, <2>3, OwnerEvent
  <2> QED BY <1>3, <2>2, <2>4
<1>6. OfOwner(Update("post", "loaded", o))
  BY UpdateFields DEF OfOwner, OwnerKinds
<1> HIDE DEF OfOwner, OwnerCounts
<1> QED BY <1>2, <1>5, <1>6, OwnerMoves

LEMMA WinnerOwner ==
  ASSUME Typed, Typed', Invented, OwnerUndisturbed, NEW h \in Handlers, NEW g \in Handlers,
         NEW b \in Bounties, WinnerSelected(h, g, b)
  PROVE  OwnerUndisturbed'
<1>1. PICK s, o :
        /\ handler' = [handler EXCEPT ![h] = Update("win", "loaded", s),
                                      ![g] = Update("settle", "loaded", o)]
        /\ disturbed' = disturbed \cup DisturbedBy("win", s) \cup DisturbedBy("settle", o)
  BY DEF WinnerSelected
<1>2. /\ h # g /\ handler[h].step = "idle" /\ handler[g].step = "idle"
      /\ Happen({"win", "settle"}) /\ UNCHANGED owner
  BY DEF WinnerSelected, tables
<1>3. /\ handler'[h] = Update("win", "loaded", s)
      /\ handler'[g] = Update("settle", "loaded", o)
      /\ \A f \in Handlers \ {h, g} : handler'[f] = handler[f]
  BY <1>1, <1>2, TwoMove DEF Typed
<1> SUFFICES ASSUME "owner" \notin disturbed' PROVE OwnerUndisturbed'
  BY DEF OwnerUndisturbed
<1>4. RatingsDue' = RatingsDue
  <2>1. /\ ~ RatingDue(handler'[h]) /\ ~ RatingDue(handler'[g])
        /\ ~ RatingDue(handler[h]) /\ ~ RatingDue(handler[g])
    BY <1>2, <1>3, UpdateFields DEF RatingDue
  <2> HIDE DEF RatingDue
  <2> QED BY <1>3, <2>1 DEF RatingsDue
<1>5. Due' = Due
  BY <1>4 DEF Due
<1>6. "owner" \notin disturbed /\ "owner" \notin DisturbedBy("settle", o)
  BY <1>1
<1>7. "settle" \in OwnerKinds /\ "win" \notin OwnerKinds
  BY DEF OwnerKinds
<1>8. o = owner /\ \A f \in Handlers : ~ OfOwner(handler[f])
  BY <1>6, <1>7, DisturbsOwner
<1>9. OwnerCounts(owner', "settle", happened', Due')
  <2>1. {"win", "settle"} \cap {"post", "settle", "rate"} = {"settle"}
    OBVIOUS
  <2> QED BY <1>2, <1>5, <1>6, <1>8, <2>1, OwnerEvent
<1>10. OfOwner(handler'[g]) /\ ~ OfOwner(handler'[h])
  BY <1>3, <1>7, UpdateFields DEF OfOwner
<1>11. \A f \in Handlers : OfOwner(handler'[f]) => f = g
  <2> HIDE DEF OfOwner
  <2> QED BY <1>3, <1>8, <1>10
<1>12. handler'[g].s = owner' /\ handler'[g].kind = "settle"
  BY <1>2, <1>3, <1>8, UpdateFields
<1> HIDE DEF OfOwner, OwnerCounts
<1> QED BY <1>9, <1>10, <1>11, <1>12 DEF OwnerUndisturbed

\* The rating that the client's row is about to count has been saved long before.
LEMMA GivenOwner ==
  ASSUME Typed, Typed', Invented, OwnerUndisturbed, NEW h \in Handlers, RatingGiven(h)
  PROVE  OwnerUndisturbed'
<1>1. PICK o : /\ Moved(h, "ownerRate", "loaded", o)
               /\ disturbed' = disturbed \cup DisturbedBy("ownerRate", o)
  BY DEF RatingGiven, Moved
<1>2. /\ handler[h].step = "rated" /\ handler[h].kind = "rate"
      /\ UNCHANGED <<owner, happened>>
  BY DEF RatingGiven, Typed, Held, tables
<1>3. Due' = Due
  <2>1. RatingDue(Update("ownerRate", "loaded", o)) /\ RatingDue(handler[h])
    BY <1>2, UpdateFields DEF RatingDue
  <2> QED BY <1>1, <2>1, DueStays
<1>4. ASSUME "owner" \notin disturbed'
      PROVE  /\ \A g \in Handlers : ~ OfOwner(handler[g])
             /\ o = owner' /\ OwnerCounts(owner', "ownerRate", happened', Due')
  <2>1. "owner" \notin disturbed /\ "owner" \notin DisturbedBy("ownerRate", o)
    BY <1>1, <1>4
  <2>2. o = owner /\ \A g \in Handlers : ~ OfOwner(handler[g])
    BY <2>1, DisturbsOwner DEF OwnerKinds
  <2>3. OwnerCounts(owner, "none", happened, Due)
    BY <2>1, <2>2 DEF OwnerUndisturbed
  <2>4. OwnerCounts(owner, "ownerRate", happened, Due)
    BY <2>3 DEF OwnerCounts, One
  <2> QED BY <1>2, <1>3, <2>2, <2>4
<1>5. OfOwner(Update("ownerRate", "loaded", o))
  BY UpdateFields DEF OfOwner, OwnerKinds
<1> HIDE DEF OfOwner, OwnerCounts
<1> QED BY <1>1, <1>4, <1>5, OwnerMoves

\* The only update of the client's row stores its event.
LEMMA StoreOwnerOwner ==
  ASSUME Typed, Typed', Invented, OwnerUndisturbed, NEW h \in Handlers, StoreOwner(h)
  PROVE  OwnerUndisturbed'
<1> DEFINE kind == handler[h].kind
<1>1. /\ kind \in OwnerKinds /\ Proceed(h, "loaded", "idle", NoStats)
      /\ handler[h].step = "loaded" /\ UNCHANGED <<happened, disturbed>>
  BY DEF StoreOwner, Proceed
<1>2. Moved(h, kind, "idle", NoStats)
  BY <1>1, ProceedMoves DEF Typed, Steps
<1> SUFFICES ASSUME "owner" \notin disturbed' PROVE OwnerUndisturbed'
  BY DEF OwnerUndisturbed
<1>3. OfOwner(handler[h]) /\ "owner" \notin disturbed
  BY <1>1 DEF OfOwner
<1>4. \A g \in Handlers \ {h} : ~ OfOwner(handler[g])
  <2> HIDE DEF OfOwner
  <2> QED BY <1>3 DEF OwnerUndisturbed
<1>5. handler[h].s = owner /\ OwnerCounts(owner, kind, happened, Due)
  BY <1>3 DEF OwnerUndisturbed
<1>6. owner \in OwnerStats
  BY DEF Typed, TypeOK
<1>7. /\ owner' \in OwnerStats
      /\ owner'.bounties_posted = owner.bounties_posted + One(kind = "post")
      /\ owner'.bounties_settled = owner.bounties_settled + One(kind = "settle")
      /\ owner'.ratings_given = owner.ratings_given + One(kind = "ownerRate")
      /\ owner'.xp_points = owner.xp_points
           + (CASE kind = "post" -> 10 [] kind = "settle" -> 25 [] OTHER -> 15)
      /\ owner'.tier = OwnerTier(owner'.xp_points)
      /\ owner'.badges = OwnerBadges(owner')
  <2>1. \A n \in Nat : /\ (IF kind = "post" THEN n + 1 ELSE n) = n + One(kind = "post")
                       /\ (IF kind = "settle" THEN n + 1 ELSE n) = n + One(kind = "settle")
                       /\ (IF kind = "ownerRate" THEN n + 1 ELSE n)
                            = n + One(kind = "ownerRate")
    BY DEF One
  <2>2. /\ owner.bounties_posted \in Nat /\ owner.bounties_settled \in Nat
        /\ owner.ratings_given \in Nat
    BY <1>6 DEF OwnerStats
  <2>3. /\ owner' \in OwnerStats
        /\ owner'.bounties_posted =
             IF kind = "post" THEN owner.bounties_posted + 1 ELSE owner.bounties_posted
        /\ owner'.bounties_settled =
             IF kind = "settle" THEN owner.bounties_settled + 1 ELSE owner.bounties_settled
        /\ owner'.ratings_given =
             IF kind = "ownerRate" THEN owner.ratings_given + 1 ELSE owner.ratings_given
        /\ owner'.xp_points = owner.xp_points
             + (CASE kind = "post" -> 10 [] kind = "settle" -> 25 [] OTHER -> 15)
        /\ owner'.tier = OwnerTier(owner'.xp_points)
        /\ owner'.badges =
             {b \in {"active_client", "great_reviewer"} :
                BadgeAt <= IF b = "active_client"
                             THEN IF kind = "post" THEN owner.bounties_posted + 1
                                                   ELSE owner.bounties_posted
                             ELSE IF kind = "ownerRate" THEN owner.ratings_given + 1
                                                        ELSE owner.ratings_given}
    BY <1>5, <1>6, OwnerStored
  <2>4. owner'.badges = OwnerBadges(owner')
    BY <2>3 DEF OwnerBadges
  <2> HIDE DEF kind
  <2> QED BY <2>1, <2>2, <2>3, <2>4
<1>8. Due \in Nat /\ Due' \in Nat /\ Due' + One(kind = "ownerRate") = Due
  <2>1. /\ Due \in Nat /\ Due' \in Nat
        /\ Due' + One(RatingDue(handler[h])) =
             Due + One(RatingDue(Update(kind, "idle", NoStats)))
    BY <1>2, DueMoves DEF Typed, Invented
  <2>2. ~ RatingDue(Update(kind, "idle", NoStats))
    BY UpdateFields DEF RatingDue
  <2>3. RatingDue(handler[h]) <=> kind = "ownerRate"
    BY <1>1, KindsDiffer DEF RatingDue, AgentKinds
  <2>4. /\ One(RatingDue(Update(kind, "idle", NoStats))) = 0
        /\ One(RatingDue(handler[h])) = One(kind = "ownerRate")
        /\ One(kind = "ownerRate") \in {0, 1}
    BY <2>2, <2>3 DEF One
  <2> QED BY <2>1, <2>4
<1>9. OwnerCounts(owner', "none", happened', Due')
  <2>1. \A k \in {"post", "settle", "rate"} : happened[k] \in Nat /\ happened'[k] = happened[k]
    BY <1>1 DEF Counted, Typed, TypeOK
  <2>2. /\ owner.bounties_posted \in Nat /\ owner.bounties_settled \in Nat
        /\ owner.ratings_given \in Nat /\ owner.xp_points \in Nat
    BY <1>6 DEF OwnerStats
  <2>3. kind \in {"post", "settle", "ownerRate"}
    BY <1>1 DEF OwnerKinds
  <2>4. /\ owner.bounties_posted + One(kind = "post") = happened["post"]
        /\ owner.bounties_settled + One(kind = "settle") = happened["settle"]
        /\ owner.ratings_given + Due = happened["rate"]
        /\ owner.xp_points = 10 * owner.bounties_posted + 25 * owner.bounties_settled
                               + 15 * owner.ratings_given
    BY <1>5 DEF OwnerCounts
  <2>5. /\ One("none" = "post") = 0 /\ One("none" = "settle") = 0
        /\ One(kind = "post") \in Nat /\ One(kind = "settle") \in Nat
        /\ One(kind = "ownerRate") \in Nat
    BY DEF One
  <2> HIDE DEF kind
  <2>6. /\ owner'.bounties_posted + 0 = happened'["post"]
        /\ owner'.bounties_settled + 0 = happened'["settle"]
    BY <1>7, <2>1, <2>4
  <2>7. owner'.ratings_given + Due' = happened'["rate"]
    <3>1. owner'.ratings_given = owner.ratings_given + One(kind = "ownerRate")
      BY <1>7
    <3>2. owner.ratings_given + Due = happened'["rate"]
      BY <2>1, <2>4
    <3> QED BY <1>8, <2>2, <2>5, <3>1, <3>2
  <2>8. owner'.xp_points = 10 * owner'.bounties_posted + 25 * owner'.bounties_settled
                             + 15 * owner'.ratings_given
    <3>1. \/ /\ One(kind = "post") = 1 /\ One(kind = "settle") = 0
             /\ One(kind = "ownerRate") = 0 /\ owner'.xp_points = owner.xp_points + 10
          \/ /\ One(kind = "post") = 0 /\ One(kind = "settle") = 1
             /\ One(kind = "ownerRate") = 0 /\ owner'.xp_points = owner.xp_points + 25
          \/ /\ One(kind = "post") = 0 /\ One(kind = "settle") = 0
             /\ One(kind = "ownerRate") = 1 /\ owner'.xp_points = owner.xp_points + 15
      BY <1>7, <2>3 DEF One
    <3>2. /\ owner'.bounties_posted = owner.bounties_posted + One(kind = "post")
          /\ owner'.bounties_settled = owner.bounties_settled + One(kind = "settle")
          /\ owner'.ratings_given = owner.ratings_given + One(kind = "ownerRate")
      BY <1>7
    <3> QED BY <2>2, <2>4, <3>1, <3>2
  <2>9. owner'.tier = OwnerTier(owner'.xp_points) /\ owner'.badges = OwnerBadges(owner')
    BY <1>7
  <2> QED BY <2>5, <2>6, <2>7, <2>8, <2>9 DEF OwnerCounts
<1>10. ~ OfOwner(Update(kind, "idle", NoStats))
  BY UpdateFields DEF OfOwner
<1> HIDE DEF OfOwner, OwnerCounts, kind
<1> QED BY <1>2, <1>4, <1>9, <1>10, OwnerMoves

LEMMA OwnerUndisturbedInit == Init => OwnerUndisturbed
<1> SUFFICES ASSUME Init PROVE OwnerUndisturbed
  OBVIOUS
<1>1. \A h \in Handlers : ~ OfOwner(handler[h])
  BY DEF Init, OfOwner, IdleHandler
<1>2. Due = 0
  <2>1. RatingsDue = {}
    BY DEF Init, RatingsDue, RatingDue, IdleHandler
  <2> QED BY <2>1, FS_EmptySet DEF Due
<1>3. owner = NoOwner /\ \A k \in Counted : happened[k] = 0
  BY DEF Init
<1>4. OwnerBadges(NoOwner) = {}
  BY ReputationAssumption DEF OwnerBadges, NoOwner
<1>5. OwnerTier(0) = "client"
  BY DEF OwnerTier
<1>6. OwnerCounts(owner, "none", happened, Due)
  BY <1>2, <1>3, <1>4, <1>5 DEF OwnerCounts, One, NoOwner, Counted
<1> HIDE DEF OfOwner, OwnerCounts
<1> QED BY <1>1, <1>6 DEF OwnerUndisturbed

LEMMA OwnerUndisturbedNext ==
  Typed /\ Invented /\ OwnerUndisturbed /\ [Next]_vars => OwnerUndisturbed'
<1> SUFFICES ASSUME Typed, Invented, OwnerUndisturbed, [Next]_vars PROVE OwnerUndisturbed'
  OBVIOUS
<1>1. Typed'
  BY TypedNext
<1>2. CASE UNCHANGED vars
  BY <1>2 DEF vars, tables, OwnerUndisturbed, Due, RatingsDue
<1>3. CASE Next
  BY <1>1, <1>3, AgentBeginOwner, PostedOwner, WinnerOwner, RatingOwner, StoreAlone,
     StoreOwnerOwner, BehindOwner, GivenOwner
  DEF Next, Behind
<1> QED BY <1>2, <1>3

-----------------------------------------------------------------------------
(* Undisturbed, the statistics are exact *)

LEMMA UndisturbedExact ==
  Typed /\ Undisturbed /\ OwnerUndisturbed => SequentialIsExact
<1> SUFFICES ASSUME Typed, Undisturbed, OwnerUndisturbed, Idle PROVE SequentialIsExact
  BY DEF SequentialIsExact
<1>1. \A h \in Handlers : ~ OfAgent(handler[h]) /\ ~ OfOwner(handler[h])
  BY DEF Idle, OfAgent, OfOwner
<1>2. Due = 0
  <2>1. RatingsDue = {}
    BY DEF Idle, RatingsDue, RatingDue
  <2> QED BY <2>1, FS_EmptySet DEF Due
<1>3. /\ stats \in Stats /\ owner \in OwnerStats
      /\ \A k \in Counted : happened[k] \in Nat
  BY DEF Typed, TypeOK
<1>4. ASSUME "agent" \notin disturbed
      PROVE  /\ stats.total_registrations = happened["register"]
             /\ stats.total_submissions = happened["submit"]
             /\ stats.on_time_submissions = happened["onTime"]
             /\ stats.bounty_wins = happened["win"]
             /\ stats.xp_points =
                  5 * happened["register"] + 15 * happened["submit"] + 20 * happened["onTime"]
                    + 100 * happened["win"]
                    + MapThenSumSet(StreakBonus, 1..happened["win"])
             /\ stats.parts.quality = AverageRating
             /\ stats.composite_score = stats.parts
             /\ board.all = stats.parts /\ board.category = stats.parts
  <2>1. AgentExact(stats, board, AverageRating, happened)
    <3> HIDE DEF OfAgent, AgentExact
    <3> QED BY <1>1, <1>4 DEF Undisturbed
  <2>2. /\ stats.total_registrations = happened["register"]
        /\ stats.total_submissions = happened["submit"]
        /\ stats.on_time_submissions = happened["onTime"]
        /\ stats.bounty_wins = happened["win"]
        /\ stats.xp_points = 5 * stats.total_registrations + 15 * stats.total_submissions
                               + 20 * stats.on_time_submissions + 100 * stats.bounty_wins
                               + Bonus(stats.bounty_wins)
    <3>1. One("none" = "register") = 0 /\ One("none" \in {"submit", "onTime"}) = 0
          /\ One("none" = "onTime") = 0 /\ One("none" = "win") = 0
      BY DEF One
    <3> QED BY <1>3, <2>1, <3>1 DEF AgentExact, Counts, Stats
  <2>3. stats.xp_points = 5 * happened["register"] + 15 * happened["submit"]
                            + 20 * happened["onTime"] + 100 * happened["win"]
                            + Bonus(happened["win"])
    BY <2>2, Zenon
  <2> QED BY <2>1, <2>2, <2>3 DEF AgentExact, Bonus
<1>5. ASSUME "owner" \notin disturbed
      PROVE  /\ owner.bounties_posted = happened["post"]
             /\ owner.bounties_settled = happened["settle"]
             /\ owner.ratings_given = happened["rate"]
             /\ owner.badges = OwnerBadges(owner) /\ owner.tier = OwnerTier(owner.xp_points)
             /\ owner.xp_points =
                  10 * happened["post"] + 25 * happened["settle"] + 15 * happened["rate"]
  <2>1. OwnerCounts(owner, "none", happened, 0)
    <3> HIDE DEF OfOwner, OwnerCounts
    <3> QED BY <1>1, <1>2, <1>5 DEF OwnerUndisturbed
  <2> QED BY <1>3, <2>1 DEF OwnerCounts, One, OwnerStats
<1> QED BY <1>4, <1>5 DEF SequentialIsExact

\* As long as the updates of a row neither overlap nor fail, none of them is lost: once
\* nothing is in flight each row counts exactly what happened, with the experience
\* points that it earned, and the score and the leaderboards follow the agent's row.
THEOREM SequentialUpdatesAreExact == Spec => []SequentialIsExact
<1> QED BY TypedInit, TypedNext, InventedInit, InventedNext, UndisturbedInit, UndisturbedNext,
        OwnerUndisturbedInit, OwnerUndisturbedNext, UndisturbedExact, PTL DEF Spec
=============================================================================
