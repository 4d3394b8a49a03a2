------------------------------ MODULE Billing ------------------------------
(***************************************************************************)
(* Billing (blocks/billing): POST /sync, GET /entitlements, POST /usage    *)
(* and the cron run POST /sweep, for the subscriptions of one account.     *)
(*                                                                         *)
(* A payload is one normalized state of a subscription at the provider;    *)
(* its webhook may come late, twice or never.  One statement is one        *)
(* action.  Time is counted in days.  All usage has one metric and lies in *)
(* the current period.                                                     *)
(***************************************************************************)
EXTENDS Naturals, FiniteSets

CONSTANTS Payloads, Sub,       \* payload -> its subscription
          Stamp,               \* payload -> provider_updated_at, 0 when it has none
          Status, PaidTo,      \* payload -> status; -> end of the period or trial
          Callers,             \* each asks for the quota, then meters one unit
          Limit, Grace,
          Schedule,            \* stage -> days overdue
          Sweepers,            \* overlapping runs of /sweep
          LastDay              \* bound on the days

VARIABLES held,       \* subscription -> payload in its row, or NoRow
          delivered,  \* history: payloads that /sync was called with
          day,
          caller,     \* caller -> "idle", "allowed", "denied" or "metered"
          meter,      \* idempotency keys of usage_events
          crowd,      \* history: the most callers that were under way at once
          notices,    \* dunning_notices: pairs subscription, stage
          dunned,     \* history: pair -> events billing.dunning_due
          overdue,    \* sweeper -> payloads it read and has not come to
          announcing  \* sweeper -> notices it has recorded and not published

vars == <<held, delivered, day, caller, meter, crowd, notices, dunned, overdue, announcing>>

NoRow == "none"
Subs == {Sub[p] : p \in Payloads}
Stages == DOMAIN Schedule

Init ==
    /\ held = [s \in Subs |-> NoRow]
    /\ delivered = {}
    /\ day = 0
    /\ caller = [c \in Callers |-> "idle"]
    /\ meter = {}
    /\ crowd = 0
    /\ notices = {}
    /\ dunned = [n \in Subs \X Stages |-> 0]
    /\ overdue = [w \in Sweepers |-> {}]
    /\ announcing = [w \in Sweepers |-> {}]

-----------------------------------------------------------------------------
(* POST /sync                                                              *)

\* The last webhook wins.
AppliesAlways(old, new) == TRUE

\* The WHERE clause of the upsert: not older, as far as the stamps tell.
Applies(old, new) ==
    old = NoRow \/ Stamp[old] = 0 \/ Stamp[new] = 0 \/ Stamp[new] >= Stamp[old]

Sync(p) ==
    /\ held' = [held EXCEPT ![Sub[p]] = IF Applies(@, p) THEN p ELSE @]
    /\ delivered' = delivered \union {p}
    /\ UNCHANGED <<day, caller, meter, crowd, notices, dunned, overdue, announcing>>

-----------------------------------------------------------------------------
(* GET /entitlements and POST /usage                                       *)

\* evaluateAccess
Grants(p) ==
    CASE Status[p] = "active"                 -> TRUE
      [] Status[p] = "trialing"               -> day < PaidTo[p]
      [] Status[p] \in {"past_due", "unpaid"} -> day <= PaidTo[p] + Grace
      [] Status[p] = "canceled"               -> day <= PaidTo[p]
      [] OTHER                                -> FALSE  \* paused, incomplete

\* loadEntitlements: a live subscription first, then the one that ends last.
Rows == {held[s] : s \in Subs} \ {NoRow}
LiveRows == {p \in Rows : Status[p] \in {"active", "trialing"}}
Candidates == IF LiveRows # {} THEN LiveRows ELSE Rows
Chosen == {p \in Candidates : \A q \in Candidates : PaidTo[q] <= PaidTo[p]}

\* Off by one unit.
FitsAlmost(used) == used <= Limit

\* checkQuota with an increment of 1.
Fits(used) == used + 1 <= Limit

\* evaluateAccess, then checkQuota over the raw events.
Ask(c) ==
    /\ caller[c] = "idle" /\ Rows # {}
    /\ \E p \in Chosen :
          caller' = [caller EXCEPT ![c] =
                        IF Grants(p) /\ Fits(Cardinality(meter)) THEN "allowed" ELSE "denied"]
    /\ crowd' = LET now == Cardinality({d \in Callers : caller'[d] = "allowed"})
                IN  IF now > crowd THEN now ELSE crowd
    /\ UNCHANGED <<held, delivered, day, meter, notices, dunned, overdue, announcing>>

\* The insert does nothing for a key that is there: calls are repeated freely.
Meter(c) ==
    /\ caller[c] \in {"allowed", "metered"}
    /\ caller' = [caller EXCEPT ![c] = "metered"]
    /\ meter' = meter \union {c}
    /\ UNCHANGED <<held, delivered, day, crowd, notices, dunned, overdue, announcing>>

-----------------------------------------------------------------------------
(* POST /sweep                                                             *)

Select(w) ==
    /\ overdue[w] = {} /\ announcing[w] = {}
    /\ overdue' = [overdue EXCEPT ![w] = {p \in Rows : Status[p] \in {"past_due", "unpaid"}}]
    /\ UNCHANGED <<held, delivered, day, caller, meter, crowd, notices, dunned, announcing>>

\* dunningStage: the highest threshold reached, as the row was when it was read.
Reached(p) == {i \in Stages : day >= PaidTo[p] + Schedule[i]}
Stage(p) == {i \in Reached(p) : \A j \in Reached(p) : j <= i}

\* Announce whatever the table says.
IsNewAlways(n) == TRUE

\* ON CONFLICT DO NOTHING returned a row.
IsNew(n) == n \notin notices

Record(w) ==
    /\ announcing[w] = {}
    /\ \E p \in overdue[w] :
          /\ overdue' = [overdue EXCEPT ![w] = @ \ {p}]
          /\ LET due == {<<Sub[p], i>> : i \in Stage(p)}
             IN  /\ notices' = notices \union due
                 /\ announcing' = [announcing EXCEPT ![w] = {n \in due : IsNew(n)}]
    /\ UNCHANGED <<held, delivered, day, caller, meter, crowd, dunned>>

Announce(w) ==
    /\ \E n \in announcing[w] :
          /\ dunned' = [dunned EXCEPT ![n] = @ + 1]
          /\ announcing' = [announcing EXCEPT ![w] = @ \ {n}]
    /\ UNCHANGED <<held, delivered, day, caller, meter, crowd, notices, overdue>>

\* The function dies, or a statement fails, between two statements.
SweepDies(w) ==
    /\ overdue[w] # {} \/ announcing[w] # {}
    /\ overdue' = [overdue EXCEPT ![w] = {}]
    /\ announcing' = [announcing EXCEPT ![w] = {}]
    /\ UNCHANGED <<held, delivered, day, caller, meter, crowd, notices, dunned>>

PassDay ==
    /\ day < LastDay /\ day' = day + 1
    /\ UNCHANGED <<held, delivered, caller, meter, crowd, notices, dunned, overdue, announcing>>

Next ==
    \/ \E p \in Payloads : Sync(p)
    \/ \E c \in Callers : Ask(c) \/ Meter(c)
    \/ \E w \in Sweepers : Select(w) \/ Record(w) \/ Announce(w) \/ SweepDies(w)
    \/ PassDay

Spec == Init /\ [][Next]_vars

-----------------------------------------------------------------------------
TypeOK ==
    /\ held \in [Subs -> Payloads \union {NoRow}]
    /\ delivered \subseteq Payloads /\ day \in 0..LastDay
    /\ caller \in [Callers -> {"idle", "allowed", "denied", "metered"}]
    /\ meter \subseteq Callers /\ crowd \in 0..Cardinality(Callers)
    /\ notices \subseteq Subs \X Stages
    /\ dunned \in [Subs \X Stages -> Nat]
    /\ overdue \in [Sweepers -> SUBSET Payloads]
    /\ announcing \in [Sweepers -> SUBSET (Subs \X Stages)]

\* Once the cancellation has been delivered as the newest state and the period is
\* over, no late or repeated webhook brings access back (all are stamped, and no other
\* has the same stamp: of two with one stamp the later call wins).
CancellationHolds ==
    \A p \in delivered :
        /\ Status[p] = "canceled" /\ day > PaidTo[p] /\ Stamp[p] > 0
        /\ \A q \in delivered \ {p} : Sub[q] = Sub[p] => Stamp[q] \in 1..(Stamp[p] - 1)
        => ~Grants(held[Sub[p]])

\* The quota is asked for and metered in two calls, so that it can be passed, but
\* by one unit for each caller that was under way beside another; a redelivered
\* call never counts.
OverrunBounded == meter # {} => Cardinality(meter) < Limit + crowd

\* Overlapping and repeated runs announce an escalation once per subscription,
\* and never one that no delivered state has reached.
DunnedOnce ==
    \A n \in Subs \X Stages :
        /\ dunned[n] <= 1
        /\ dunned[n] > 0 => \E p \in delivered : /\ Sub[p] = n[1]
                                                 /\ day >= PaidTo[p] + Schedule[n[2]]

Safety == TypeOK /\ CancellationHolds /\ OverrunBounded /\ DunnedOnce

\* Each recorded notice is announced by the run that recorded it.
NoticesAnnounced ==
    \A n \in notices : dunned[n] > 0 \/ \E w \in Sweepers : n \in announcing[w]
-----------------------------------------------------------------------------
(* Why Safety holds: a row has the newest stamp that came; the callers     *)
(* under way were each let in while there was quota; and the insert of a   *)
(* notice decides which run announces it.                                  *)

Sane ==
    /\ NoRow \notin Payloads /\ IsFiniteSet(Callers) /\ Limit \in Nat /\ LastDay \in Nat
    /\ Stamp \in [Payloads -> Nat] /\ PaidTo \in [Payloads -> Nat] /\ Schedule \in [Stages -> Nat]

HeldIsNewest ==
    \A s \in Subs :
        LET came == {p \in delivered : Sub[p] = s}
        IN  IF held[s] = NoRow THEN came = {}
            ELSE /\ held[s] \in came
                 /\ (\A q \in came : Stamp[q] > 0) => \A q \in came : Stamp[q] <= Stamp[held[s]]

Under(way) == {c \in Callers : caller[c] = way}

Admitted ==
    /\ meter = Under("metered")
    /\ Cardinality(Under("allowed")) <= crowd
    /\ meter \union Under("allowed") # {} =>
           Cardinality(meter \union Under("allowed")) < Limit + crowd

OneAnnouncer ==
    /\ \A w \in Sweepers : overdue[w] \subseteq delivered
    /\ \A n \in notices :
          \E p \in delivered : Sub[p] = n[1] /\ day >= PaidTo[p] + Schedule[n[2]]
    /\ \A n \in Subs \X Stages : dunned[n] = 0 \/ (dunned[n] = 1 /\ n \in notices)
    /\ \A w \in Sweepers : \A n \in announcing[w] :
          /\ n \in notices /\ dunned[n] = 0
          /\ \A v \in Sweepers : n \in announcing[v] => v = w

IInv == TypeOK /\ HeldIsNewest /\ Admitted /\ OneAnnouncer
=============================================================================
