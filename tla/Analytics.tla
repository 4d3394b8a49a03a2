------------------------------ MODULE Analytics ------------------------------
(***************************************************************************)
(* Event analytics (blocks/analytics): POST /track takes events once per   *)
(* key, POST /rollup (cron) cuts them into sessions, recounts the last     *)
(* days and dates each actor's cohort, three statements one after the      *)
(* other; GET /funnel and GET /retention read.  A statement reads its      *)
(* snapshot and writes later, so rollups that overlap interleave in them.  *)
(*                                                                         *)
(* A fact is something that happened at a client: who, what and when; the  *)
(* client may send it again.  Left out: properties, entry and exit events, *)
(* the 90 days of the funnel, and last_seen_at.                            *)
(***************************************************************************)
EXTENDS Naturals, FiniteSets, SequencesExt, FiniteSetsExt

CONSTANTS Facts, ActorOf, NameOf, At,  \* what happened: [Facts -> ...]
          KeyOf, NoKey,                \* dedupe key of a fact
          Resent,                      \* bound: the facts that are delivered twice
          Gap, DayLength, WeekLength,  \* in units of At
          DaysBack, Today,             \* the rollup recounts DaysBack days before today
          Rollups,                     \* invocations of the trigger
          Funnels, Window              \* the funnels that are asked for: sequences of names

VARIABLES events,    \* rows: [fact, session]; session 0 is NULL
          sessions,  \* rows: [actor, from, to, count], and by, the rollup that made it
          daily,     \* [day, name] -> [count, actors]
          cohort,    \* actor -> first_seen_at
          rollup,    \* invocation -> [at, upto, plan]
          sends,
          report,    \* the last /retention: [at, sizes, active]
          dated,     \* history: rows that a finished rollup has dated
          overtaken  \* history: rollups whose snapshot was older than another's sessions

vars == <<events, sessions, daily, cohort, rollup, sends, report, dated, overtaken>>

Actors == {ActorOf[f] : f \in Facts}
Names == {NameOf[f] : f \in Facts}
DayOf(t) == t \div DayLength
WeekOf(t) == t \div WeekLength
Days == {DayOf(At[f]) : f \in Facts}
Actor(i) == ActorOf[events[i].fact]
Name(i) == NameOf[events[i].fact]
Time(i) == At[events[i].fact]
Never == 1000  \* no first_seen_at yet

Init ==
    /\ events = << >> /\ sessions = << >> /\ dated = 0 /\ overtaken = {}
    /\ daily = [d \in Days \X Names |-> [count |-> 0, actors |-> 0]]
    /\ cohort = [a \in Actors |-> Never]
    /\ rollup = [r \in Rollups |-> [at |-> "new", upto |-> 0, plan |-> {}]]
    /\ sends = [f \in Facts |-> 0]
    /\ report = [at |-> "new", sizes |-> {}, active |-> {}]

-----------------------------------------------------------------------------
\* events_dedupe_uniq, which does not look at events without a key.
Admitted(f) == KeyOf[f] = NoKey \/ \A e \in Range(events) : KeyOf[e.fact] # KeyOf[f]

\* POST /track, a batch being one statement per event as far as they tell.
Track(f) ==
    /\ sends[f] < IF f \in Resent THEN 2 ELSE 1
    /\ sends' = [sends EXCEPT ![f] = @ + 1]
    /\ events' = IF Admitted(f) THEN Append(events, [fact |-> f, session |-> 0]) ELSE events
    /\ UNCHANGED <<sessions, daily, cohort, rollup, report, dated, overtaken>>

Begin(r, at, plan) ==
    rollup' = [rollup EXCEPT ![r] = [at |-> at, upto |-> Len(events), plan |-> plan]]

\* gapped and numbered: an event more than Gap after its predecessor starts a session.
Starts(times) == {t \in times : \A u \in times : u < t => t - u > Gap}

\* Of the first n rows those of a visit that are in no session.
Unlinked(a, from, to, n) ==
    {i \in 1..n : events[i].session = 0 /\ Actor(i) = a /\ Time(i) \in from..to}

\* bounds
Visit(r, a, from, times) ==
    LET to == Max({t \in times : t >= from /\ \A s \in Starts(times) : s > from => t < s})
    IN  [actor |-> a, from |-> from, to |-> to, by |-> r,
         count |-> Cardinality(Unlinked(a, from, to, Len(events)))]

Visits(r) == UNION {LET times == {Time(i) : i \in {j \in DOMAIN events :
                                                   Actor(j) = a /\ events[j].session = 0}}
                    IN  {Visit(r, a, s, times) : s \in Starts(times)} : a \in Actors}

ReadVisits(r) == rollup[r].at = "new" /\ Begin(r, "visits", Visits(r))

\* linked without e.session_id IS NULL
RowsOf(v, n) == {i \in 1..n : Actor(i) = v.actor /\ Time(i) \in v.from..v.to}

\* linked leaves alone a row that another rollup has linked by now: e.session_id IS NULL.
LinkedBy(v, n) == Unlinked(v.actor, v.from, v.to, n)

\* created, whose event_count is that of the snapshot and which no key keeps from making a
\* session that another rollup has made by now, and linked.
WriteVisits(r) ==
    /\ rollup[r].at = "visits"
    /\ LET made == SetToSeq(rollup[r].plan)
           links(i, k) == i \in LinkedBy(made[k], rollup[r].upto)
       IN  /\ sessions' = sessions \o made
           /\ events' = [i \in DOMAIN events |->
                  IF \E k \in DOMAIN made : links(i, k)
                  THEN [events[i] EXCEPT !.session = Len(sessions) +
                                                     CHOOSE k \in DOMAIN made : links(i, k)]
                  ELSE events[i]]
    /\ rollup' = [rollup EXCEPT ![r] = [@ EXCEPT !.at = "cut", !.plan = {}]]
    /\ overtaken' = overtaken \cup {q \in Rollups \ {r} : rollup[q].at = "visits"}
    /\ UNCHANGED dated

Recounted(today) == {c \in {<<DayOf(Time(i)), Name(i)>> : i \in DOMAIN events} :
                        c[1] + DaysBack >= today}
Rows(cell) == {i \in DOMAIN events : DayOf(Time(i)) = cell[1] /\ Name(i) = cell[2]}
Counted(cell) == [count |-> Cardinality(Rows(cell)),
                  actors |-> Cardinality({Actor(i) : i \in Rows(cell)})]

ReadCounts(r) ==
    /\ rollup[r].at = "cut"
    /\ \E today \in Today : Begin(r, "counts", {<<c, Counted(c)>> : c \in Recounted(today)})

Accumulated(old, new) == [count |-> old.count + new.count, actors |-> old.actors + new.actors]

\* DO UPDATE SET event_count = EXCLUDED.event_count, unique_actors = EXCLUDED.unique_actors
Merged(old, new) == new

WriteCounts(r) ==
    /\ rollup[r].at = "counts"
    /\ daily' = [c \in DOMAIN daily |->
           IF \E p \in rollup[r].plan : p[1] = c
           THEN Merged(daily[c], (CHOOSE p \in rollup[r].plan : p[1] = c)[2])
           ELSE daily[c]]
    /\ rollup' = [rollup EXCEPT ![r] = [@ EXCEPT !.at = "counted", !.plan = {}]]

ReadCohorts(r) ==
    /\ rollup[r].at = "counted"
    /\ Begin(r, "cohorts", {<<a, Min({Time(i) : i \in {j \in DOMAIN events : Actor(j) = a}})>> :
                            a \in {Actor(i) : i \in DOMAIN events}})

NewerOf(old, new) == new

\* LEAST of the row's first_seen_at and the new one.
EarlierOf(old, new) == IF old < new THEN old ELSE new

WriteCohorts(r) ==
    /\ rollup[r].at = "cohorts"
    /\ cohort' = [a \in Actors |->
           IF \E p \in rollup[r].plan : p[1] = a
           THEN EarlierOf(cohort[a], (CHOOSE p \in rollup[r].plan : p[1] = a)[2])
           ELSE cohort[a]]
    /\ dated' = IF rollup[r].upto > dated THEN rollup[r].upto ELSE dated
    /\ rollup' = [rollup EXCEPT ![r] = [@ EXCEPT !.at = "done", !.plan = {}]]

\* A statement that fails and a function that dies are rollups that go no further.
Rollup(r) ==
    /\ \/ /\ ReadVisits(r) \/ ReadCounts(r) \/ ReadCohorts(r)
          /\ UNCHANGED <<events, sessions, daily, cohort, dated, overtaken>>
       \/ WriteVisits(r) /\ UNCHANGED <<daily, cohort>>
       \/ WriteCounts(r) /\ UNCHANGED <<events, sessions, cohort, dated, overtaken>>
       \/ WriteCohorts(r) /\ UNCHANGED <<events, sessions, daily, overtaken>>
    /\ UNCHANGED <<sends, report>>

-----------------------------------------------------------------------------
\* GET /retention: the sizes of the cohorts, then who was active how many weeks later; the
\* divisions and the weeks before the first are left out.
ReadSizes ==
    /\ report.at = "new"
    /\ report' = [at |-> "sized", active |-> {},
                  sizes |-> {<<WeekOf(cohort[a]), a>> : a \in {b \in Actors : cohort[b] # Never}}]
    /\ UNCHANGED <<events, sessions, daily, cohort, rollup, sends, dated, overtaken>>

ReadActive ==
    /\ report.at = "sized"
    /\ report' = [report EXCEPT !.at = "answered", !.active =
           {<<WeekOf(cohort[s.actor]), WeekOf(s.from) - WeekOf(cohort[s.actor]), s.actor>> :
               s \in {z \in Range(sessions) : /\ cohort[z.actor] # Never
                                              /\ WeekOf(z.from) >= WeekOf(cohort[z.actor])}}]
    /\ UNCHANGED <<events, sessions, daily, cohort, rollup, sends, dated, overtaken>>

\* GET /funnel: an actor's first time for each step, and computeFunnel over them.
First(a, n) == LET times == {Time(i) : i \in {j \in DOMAIN events : Actor(j) = a /\ Name(j) = n}}
               IN  IF times = {} THEN Never ELSE Min(times)

AnyOrder(a, steps, i) == TRUE

\* t < prevTime breaks the loop.
InOrder(a, steps, i) == First(a, steps[i]) >= First(a, steps[i - 1])

Progresses(a, steps, i) ==
    /\ First(a, steps[i]) # Never
    /\ i > 1 => /\ InOrder(a, steps, i)
                /\ First(a, steps[i]) <= First(a, steps[1]) + Window

Reached(a, steps, i) == \A j \in 1..i : Progresses(a, steps, j)

Next == \/ \E f \in Facts : Track(f)
        \/ \E r \in Rollups : Rollup(r)
        \/ ReadSizes \/ ReadActive

Spec == Init /\ [][Next]_vars

-----------------------------------------------------------------------------
TypeOK ==
    /\ \A i \in DOMAIN events : events[i].fact \in Facts /\ events[i].session \in 0..Len(sessions)
    /\ \A r \in Rollups : rollup[r].at \in {"new", "visits", "cut", "counts", "counted",
                                            "cohorts", "done"}

\* A keyed fact is stored once however often it is sent, and no repeated, overlapping or
\* half-done rollup makes a row of daily_events larger than the events of that day.
CountedOnce ==
    /\ \A i, j \in DOMAIN events :
          events[i].fact = events[j].fact /\ KeyOf[events[i].fact] # NoKey => i = j
    /\ \A c \in DOMAIN daily : /\ daily[c].count <= Counted(c).count
                               /\ daily[c].actors <= Counted(c).actors

\* event_count is never less than the events of the session, and is their number as long as
\* no other rollup made its sessions between the snapshot and the write of this one.
Linked(s) == {i \in DOMAIN events : events[i].session = s}
CountsItsEvents ==
    \A s \in DOMAIN sessions :
        /\ Cardinality(Linked(s)) <= sessions[s].count
        /\ sessions[s].by \notin overtaken => Cardinality(Linked(s)) = sessions[s].count

\* The events of a session are of one actor, and no pause in it is longer than Gap.
NoPauseInside ==
    \A i \in DOMAIN events :
        LET s == events[i].session
        IN  s # 0 =>
              /\ sessions[s].actor = Actor(i) /\ Time(i) \in sessions[s].from..sessions[s].to
              /\ Time(i) = sessions[s].from \/
                    \E j \in DOMAIN events : /\ Actor(j) = Actor(i) /\ Time(j) < Time(i)
                                             /\ Time(j) + Gap >= Time(i)

\* The cohort of an actor is that of the first event that any finished rollup saw, in
\* whatever order rollups that overlap finish.
CohortIsFirst ==
    \A i \in 1..dated : cohort[Actor(i)] <= Time(i)

\* Whoever reaches the last step of a funnel took all of them in order, within the window.
FunnelIsWalked ==
    \A a \in Actors, steps \in Funnels : Reached(a, steps, Len(steps)) =>
        \E walk \in [DOMAIN steps -> DOMAIN events] :
            \A i \in DOMAIN steps :
                /\ Actor(walk[i]) = a /\ Name(walk[i]) = steps[i]
                /\ i > 1 => /\ Time(walk[i]) >= Time(walk[i - 1])
                            /\ Time(walk[i]) <= Time(walk[1]) + Window

Safety == TypeOK /\ CountedOnce /\ CountsItsEvents /\ NoPauseInside /\ CohortIsFirst /\ FunnelIsWalked

-----------------------------------------------------------------------------
(* Why Safety holds: an inductive invariant.                               *)

Sane == At \in [Facts -> Nat] /\ Gap \in Nat /\ Funnels \subseteq Seq(Names)

Session == [actor : Actors, from : Nat, to : Nat, count : Nat, by : Rollups]
Tally == [count : Nat, actors : Nat]

Shape ==
    /\ events \in Seq([fact : Facts, session : Nat]) /\ sessions \in Seq(Session)
    /\ \A i \in DOMAIN events : events[i].session <= Len(sessions)
    /\ daily \in [Days \X Names -> Tally] /\ cohort \in [Actors -> Nat]
    /\ dated \in 0..Len(events) /\ DOMAIN rollup = Rollups
    /\ \A r \in Rollups :
          /\ DOMAIN rollup[r] = {"at", "upto", "plan"}
          /\ rollup[r].at \in {"new", "visits", "cut", "counts", "counted", "cohorts", "done"}
          /\ rollup[r].upto \in 0..Len(events)

\* An event opens its session, or one of the same actor is no more than Gap before it.
Joined(i, from) ==
    \/ Time(i) = from
    \/ \E j \in DOMAIN events : Actor(j) = Actor(i) /\ Time(j) < Time(i) /\ Time(j) + Gap >= Time(i)

\* What a rollup has read still holds of the events that it saw when it writes.
VisitsHold(r) ==
    /\ rollup[r].plan \subseteq Session /\ IsFiniteSet(rollup[r].plan)
    /\ \A v \in rollup[r].plan, i \in 1..rollup[r].upto :
          events[i].session = 0 /\ Actor(i) = v.actor /\ Time(i) \in v.from..v.to => Joined(i, v.from)

\* Its visits do not overlap, and each counts the rows that it would link now or more.
VisitsCount(r) ==
    /\ \A v \in rollup[r].plan :
          LET n == Cardinality(LinkedBy(v, rollup[r].upto))
          IN  v.by = r /\ n <= v.count /\ (r \notin overtaken => n = v.count)
    /\ \A v, w \in rollup[r].plan :
          v.actor = w.actor /\ v # w => v.to < w.from \/ w.to < v.from

Holds(cell, tally) == tally.count <= Counted(cell).count /\ tally.actors <= Counted(cell).actors
CountsHold(r) == \A p \in rollup[r].plan : p[1] \in Days \X Names /\ p[2] \in Tally /\ Holds(p[1], p[2])
CohortsHold(r) ==
    /\ \A p \in rollup[r].plan : p[1] \in Actors /\ p[2] \in Nat
    /\ \A i \in 1..rollup[r].upto :
          /\ \E p \in rollup[r].plan : p[1] = Actor(i)
          /\ \A p \in rollup[r].plan : p[1] = Actor(i) => p[2] <= Time(i)

Planned(r) == /\ rollup[r].at = "visits" => VisitsHold(r) /\ VisitsCount(r)
              /\ rollup[r].at = "counts" => CountsHold(r)
              /\ rollup[r].at = "cohorts" => CohortsHold(r)

IInv == /\ Shape /\ CountedOnce /\ CountsItsEvents /\ NoPauseInside /\ CohortIsFirst
        /\ \A r \in Rollups : Planned(r)

\* The events that sessions count are those that are in them.
SessionsCountOnce ==
    \A s \in DOMAIN sessions : sessions[s].count = Cardinality(Linked(s))

\* Two events of one actor with no more than Gap between them are in one session.
PauseOnlyBetween ==
    \A i, j \in DOMAIN events :
        /\ Actor(i) = Actor(j) /\ Time(i) <= Time(j) /\ Time(j) - Time(i) <= Gap
        /\ events[i].session # 0 /\ events[j].session # 0
        => events[i].session = events[j].session

\* What /retention reports is a fraction: the active of a week are of the cohort counted.
RetentionIsFraction ==
    \A x \in report.active : <<x[1], x[3]>> \in report.sizes
=============================================================================
