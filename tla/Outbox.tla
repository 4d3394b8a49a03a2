------------------------------- MODULE Outbox -------------------------------
(***************************************************************************)
(* The event outbox: the table blocks_core.outbox_events, the statements   *)
(* of packages/events/src/outbox.ts, the drain loop of                     *)
(* packages/events/src/consumer.ts, and the purge of the daily sweep.      *)
(*                                                                         *)
(* One SQL statement is one action, as in JobQueue.  A claim locks rows    *)
(* only while its statement runs; a row that some statement has locked is  *)
(* skipped by the claims that run at the same time.  Time is abstracted to *)
(* what claim compares with now(): a row waits for retry_at or it is due.  *)
(* Attempts are counted up to MaxAttempts, the only number the code        *)
(* compares them with.  MaxCrashes bounds the invocations that die.        *)
(***************************************************************************)
EXTENDS Naturals, FiniteSets

CONSTANTS
    Events,        \* publish requests; a request that inserts a row names it
    Handlers,      \* registrations of the consumer
    Matching,      \* request -> the registrations whose pattern matches it
    Wildcard,      \* is some pattern a wildcard, so that claim asks for all
    NoKey, KeyOf,  \* request -> idempotency_key
    OccurredAt,    \* request -> occurred_at
    Drains,        \* concurrent invocations of drain
    NoEvent,       \* no event is being dispatched
    Limit,         \* the size of a batch
    MaxAttempts,   \* attempts before an event is dead-lettered
    MaxCrashes

ASSUME ParametersAssumption ==
    /\ Matching \in [Events -> SUBSET Handlers]
    /\ Wildcard \in BOOLEAN
    /\ OccurredAt \in [Events -> Nat]
    /\ NoEvent \notin Events
    /\ Limit \in Nat \ {0}
    /\ MaxAttempts \in Nat \ {0}
    /\ MaxCrashes \in Nat

VARIABLES
    \* The table: is there a row, delivered_at and dead_lettered_at set or not,
    \* retry_at in the future or not, attempts.
    row, delivered, dead, waiting, attempts,
    \* The callers of publish.
    call,
    \* The drains: claimed events not yet dispatched, the one being dispatched,
    \* its registrations not yet called, did one throw, the list acked, and the
    \* attempts that RETURNING gave.
    pc, todo, cur, left, failed, acked, snap,
    \* History: the registrations that have returned for an event; crashes.
    ran, crashes

rowVars   == <<row, delivered, dead, waiting, attempts>>
drainVars == <<pc, todo, cur, left, failed, acked, snap>>
vars      == <<rowVars, call, drainVars, ran, crashes>>

Init ==
    /\ row = [e \in Events |-> "absent"]
    /\ delivered = [e \in Events |-> FALSE]
    /\ dead = [e \in Events |-> FALSE]
    /\ waiting = [e \in Events |-> FALSE]
    /\ attempts = [e \in Events |-> 0]
    /\ call = [e \in Events |-> "idle"]
    /\ pc = [d \in Drains |-> "idle"]
    /\ todo = [d \in Drains |-> {}]
    /\ cur = [d \in Drains |-> NoEvent]
    /\ left = [d \in Drains |-> {}]
    /\ failed = [d \in Drains |-> FALSE]
    /\ acked = [d \in Drains |-> {}]
    /\ snap = [d \in Drains |-> [e \in Events |-> 0]]
    /\ ran = [e \in Events |-> {}]
    /\ crashes = 0

-----------------------------------------------------------------------------
(* publish                                                                 *)

\* An index over the undelivered rows only.
SameKeyUndelivered(e) == {i \in Events : /\ KeyOf[i] = KeyOf[e] /\ KeyOf[e] # NoKey
                                         /\ row[i] = "stored" /\ ~delivered[i]}

\* The rows that outbox_idempotency_key_uniq puts in the way of a request.
SameKey(e) == {i \in Events : /\ KeyOf[i] = KeyOf[e] /\ KeyOf[e] # NoKey
                              /\ row[i] = "stored"}

\* INSERT ... ON CONFLICT (idempotency_key) DO NOTHING.
PublishInsert(e) ==
    /\ call[e] = "idle"
    /\ IF SameKey(e) = {}
       THEN /\ row' = [row EXCEPT ![e] = "stored"]
            /\ call' = [call EXCEPT ![e] = "published"]
       ELSE /\ call' = [call EXCEPT ![e] = "conflict"]
            /\ UNCHANGED row
    /\ UNCHANGED <<delivered, dead, waiting, attempts, drainVars, ran, crashes>>

\* The SELECT for the duplicate's id, which throws when it finds no row.
PublishReselect(e) ==
    /\ call[e] = "conflict"
    /\ call' = [call EXCEPT ![e] = IF SameKey(e) # {} THEN "duplicate" ELSE "error"]
    /\ UNCHANGED <<rowVars, drainVars, ran, crashes>>

-----------------------------------------------------------------------------
(* drain: the claim                                                        *)

\* The WHERE clause.  It looks at delivered_at and retry_at, not at
\* dead_lettered_at; a consumer without wildcards asks for its types only.
Claimable(e) ==
    /\ row[e] = "stored" /\ ~delivered[e]
    /\ ~waiting[e]
    /\ Wildcard \/ Matching[e] # {}

\* Rows that statements of other drains may have locked: a claim, a fail or an
\* ack locks rows its drain holds; when it does is left open.
Lockable(d) == UNION {todo[o] \union acked[o] \union {cur[o]} : o \in Drains \ {d}}

\* ORDER BY occurred_at LIMIT.
OldestFirst(S, R) ==
    /\ S \subseteq R
    /\ Cardinality(S) = IF Cardinality(R) <= Limit THEN Cardinality(R) ELSE Limit
    /\ \A e \in S, f \in R \ S : OccurredAt[e] <= OccurredAt[f]

CountAttempt(a) == IF a < MaxAttempts THEN a + 1 ELSE a

Claim(d) ==
    /\ pc[d] = "idle"
    /\ \E locked \in SUBSET Lockable(d) :
       LET R == {e \in Events : Claimable(e)} \ locked
       IN  \E S \in SUBSET R :
              /\ S # {}
              /\ OldestFirst(S, R)
              /\ attempts' = [e \in Events |-> IF e \in S THEN CountAttempt(attempts[e])
                                                          ELSE attempts[e]]
              /\ todo' = [todo EXCEPT ![d] = S]
              /\ snap' = [snap EXCEPT ![d] = [e \in Events |->
                             IF e \in S THEN CountAttempt(attempts[e]) ELSE 0]]
    /\ pc' = [pc EXCEPT ![d] = "looping"]
    /\ UNCHANGED <<row, delivered, dead, waiting, call, cur, left, failed, acked,
                   ran, crashes>>

\* A claim that returns no row ends the drain at once.
ClaimNothing(d) ==
    /\ pc[d] = "idle"
    /\ {e \in Events : Claimable(e)} \subseteq Lockable(d)
    /\ UNCHANGED vars

-----------------------------------------------------------------------------
(* drain: the loop                                                         *)

\* An event that no registration matches is acked without a handler.
SkipUnmatched(d) ==
    /\ pc[d] = "looping"
    /\ \E e \in todo[d] :
          /\ Matching[e] = {}
          /\ todo' = [todo EXCEPT ![d] = @ \ {e}]
          /\ acked' = [acked EXCEPT ![d] = @ \union {e}]
    /\ UNCHANGED <<rowVars, call, pc, cur, left, failed, snap, ran, crashes>>

Dispatch(d) ==
    /\ pc[d] = "looping"
    /\ \E e \in todo[d] :
          /\ Matching[e] # {}
          /\ todo' = [todo EXCEPT ![d] = @ \ {e}]
          /\ cur' = [cur EXCEPT ![d] = e]
          /\ left' = [left EXCEPT ![d] = Matching[e]]
    /\ pc' = [pc EXCEPT ![d] = "dispatching"]
    /\ failed' = [failed EXCEPT ![d] = FALSE]
    /\ UNCHANGED <<rowVars, call, acked, snap, ran, crashes>>

HandlerReturns(d) ==
    /\ pc[d] = "dispatching"
    /\ \E h \in left[d] :
          /\ left' = [left EXCEPT ![d] = @ \ {h}]
          /\ ran' = [ran EXCEPT ![cur[d]] = @ \union {h}]
    /\ UNCHANGED <<rowVars, call, pc, todo, cur, failed, acked, snap, crashes>>

\* The catch block collects the error and the next registration runs.
HandlerThrows(d) ==
    /\ pc[d] = "dispatching"
    /\ \E h \in left[d] : left' = [left EXCEPT ![d] = @ \ {h}]
    /\ failed' = [failed EXCEPT ![d] = TRUE]
    /\ UNCHANGED <<rowVars, call, pc, todo, cur, acked, snap, ran, crashes>>

\* A drain that forgets the errors it collected.
AllSucceededIgnoringErrors(d) == pc[d] = "dispatching" /\ left[d] = {}

AllSucceeded(d) == pc[d] = "dispatching" /\ left[d] = {} /\ ~failed[d]

Acknowledge(d) ==
    /\ AllSucceeded(d)
    /\ acked' = [acked EXCEPT ![d] = @ \union {cur[d]}]
    /\ pc' = [pc EXCEPT ![d] = "looping"]
    /\ cur' = [cur EXCEPT ![d] = NoEvent]
    /\ UNCHANGED <<rowVars, call, todo, left, failed, snap, ran, crashes>>

\* Giving up one attempt early.
GiveUpEarly(d) == snap[d][cur[d]] + 1 >= MaxAttempts

GiveUp(d) == snap[d][cur[d]] >= MaxAttempts

\* fail() updates the row by id: dead-lettered without a retry_at, or waiting
\* for one.
Fail(d) ==
    /\ pc[d] = "dispatching" /\ left[d] = {} /\ failed[d]
    /\ dead' = [dead EXCEPT ![cur[d]] = GiveUp(d)]
    /\ waiting' = [waiting EXCEPT ![cur[d]] = ~GiveUp(d)]
    /\ pc' = [pc EXCEPT ![d] = "looping"]
    /\ cur' = [cur EXCEPT ![d] = NoEvent]
    /\ UNCHANGED <<row, delivered, attempts, call, todo, left, failed, acked, snap,
                   ran, crashes>>

\* What the end of a drain, however it comes, makes of its local variables.
EndDrain(d) ==
    /\ pc' = [pc EXCEPT ![d] = "idle"]
    /\ todo' = [todo EXCEPT ![d] = {}]
    /\ cur' = [cur EXCEPT ![d] = NoEvent]
    /\ left' = [left EXCEPT ![d] = {}]
    /\ failed' = [failed EXCEPT ![d] = FALSE]
    /\ acked' = [acked EXCEPT ![d] = {}]
    /\ snap' = [snap EXCEPT ![d] = [e \in Events |-> 0]]

\* An ack of everything that was claimed.
AckedWithFailed(d) == {e \in Events : snap[d][e] > 0}

AckedNow(d) == acked[d]

\* ack() for the whole batch, at the end of it.
Ack(d) ==
    /\ pc[d] = "looping" /\ todo[d] = {}
    /\ delivered' = [e \in Events |-> delivered[e] \/ e \in AckedNow(d)]
    /\ waiting' = [e \in Events |-> waiting[e] /\ e \notin AckedNow(d)]
    /\ EndDrain(d)
    /\ UNCHANGED <<row, dead, attempts, call, ran, crashes>>

\* The invocation dies, or fail() or ack() throws out of drain.
Crash(d) ==
    /\ pc[d] # "idle"
    /\ crashes < MaxCrashes
    /\ crashes' = crashes + 1
    /\ EndDrain(d)
    /\ UNCHANGED <<rowVars, call, ran>>

-----------------------------------------------------------------------------
(* Time and the sweep                                                      *)

RetryComesDue(e) ==
    /\ waiting[e]
    /\ waiting' = [waiting EXCEPT ![e] = FALSE]
    /\ UNCHANGED <<row, delivered, dead, attempts, call, drainVars, ran, crashes>>

\* purgeDeliveredEvents: delivered days ago, so no drain still holds the event.
Purge(e) ==
    /\ row[e] = "stored" /\ delivered[e]
    /\ \A d \in Drains : e \notin todo[d] \union acked[d] \union {cur[d]}
    /\ row' = [row EXCEPT ![e] = "purged"]
    /\ UNCHANGED <<delivered, dead, waiting, attempts, call, drainVars, ran, crashes>>

DrainStep(d) ==
    \/ Claim(d) \/ ClaimNothing(d) \/ SkipUnmatched(d) \/ Dispatch(d)
    \/ HandlerReturns(d) \/ HandlerThrows(d)
    \/ Acknowledge(d) \/ Fail(d) \/ Ack(d) \/ Crash(d)

EventStep(e) ==
    PublishInsert(e) \/ PublishReselect(e) \/ RetryComesDue(e) \/ Purge(e)

Next == (\E d \in Drains : DrainStep(d)) \/ (\E e \in Events : EventStep(e))

Spec == Init /\ [][Next]_vars

\* Cron starts drains, a drain that is not killed takes its next step, handlers
\* end one way or the other, and time passes.
Fairness ==
    /\ \A d \in Drains :
          /\ WF_vars(Claim(d))
          /\ WF_vars(SkipUnmatched(d) \/ Dispatch(d) \/ Acknowledge(d) \/ Fail(d) \/ Ack(d))
          /\ WF_vars(HandlerReturns(d) \/ HandlerThrows(d))
    /\ \A e \in Events : WF_vars(RetryComesDue(e))

FairSpec == Spec /\ Fairness

-----------------------------------------------------------------------------
(* Properties                                                              *)

TypeOK ==
    /\ row \in [Events -> {"absent", "stored", "purged"}]
    /\ delivered \in [Events -> BOOLEAN]
    /\ dead \in [Events -> BOOLEAN]
    /\ waiting \in [Events -> BOOLEAN]
    /\ attempts \in [Events -> 0..MaxAttempts]
    /\ call \in [Events -> {"idle", "published", "conflict", "duplicate", "error"}]
    /\ pc \in [Drains -> {"idle", "looping", "dispatching"}]
    /\ todo \in [Drains -> SUBSET Events]
    /\ cur \in [Drains -> Events \union {NoEvent}]
    /\ left \in [Drains -> SUBSET Handlers]
    /\ failed \in [Drains -> BOOLEAN]
    /\ acked \in [Drains -> SUBSET Events]
    /\ snap \in [Drains -> [Events -> 0..MaxAttempts]]
    /\ ran \in [Events -> SUBSET Handlers]
    /\ crashes \in 0..MaxCrashes

\* At least once, for each registration: an event is marked delivered, and
\* later purged, only after every registration that matches it has returned for
\* it, whatever drains overlap, fail and die in between.
DeliveredWasHandled ==
    \A e \in Events : delivered[e] \/ row[e] = "purged" => Matching[e] \subseteq ran[e]

\* An event is dead-lettered only when its attempts are used up, even if the
\* drain that gives up on it is not the one that claimed it last.
DeadWasSpent == \A e \in Events : dead[e] => attempts[e] = MaxAttempts

\* A retried publish adds no second event: among the requests with one key a
\* second one is stored only after the first has been purged.
OneEventPerKey ==
    \A e, f \in Events :
        (/\ e # f
         /\ KeyOf[e] = KeyOf[f]
         /\ KeyOf[e] # NoKey) => ~(row[e] = "stored" /\ row[f] = "stored")

\* The outbox as DurableWork: what an event looks like to its publisher.
Phase(e) ==
    IF row[e] = "absent" THEN "new"
    ELSE IF row[e] = "purged" THEN "forgotten"
    ELSE IF delivered[e] THEN "done"
    ELSE IF dead[e] THEN "failed" ELSE "open"

Worked == {e \in Events : row[e] # "absent" /\ Matching[e] \subseteq ran[e]}

D == INSTANCE DurableWork WITH
        Items <- Events, phase <- [e \in Events |-> Phase(e)], worked <- Worked

\* Overlapping and dying drains, late failures and purges keep the promises of
\* DurableWork to the publisher.
ImplementsDurableWork == D!Spec

\* What a drain holds was published, what it will ack was handled, and what it
\* remembers of an event's attempts is not more than the row's.
DrainInv ==
    \A d \in Drains :
        /\ \A e \in todo[d] \union acked[d] \union ({cur[d]} \ {NoEvent}) :
              row[e] # "absent"
        /\ pc[d] = "dispatching" => cur[d] \in Events
        /\ pc[d] = "dispatching" /\ ~failed[d] =>
              Matching[cur[d]] \subseteq ran[cur[d]] \union left[d]
        /\ \A e \in acked[d] : Matching[e] \subseteq ran[e]
        /\ \A e \in Events : snap[d][e] <= attempts[e]

\* A row exists only for a request that inserted it.
RowInv ==
    \A e \in Events :
        /\ row[e] # "absent" => call[e] = "published"
        /\ row[e] = "absent" => ~delivered[e] /\ ~dead[e]
        /\ row[e] = "purged" => delivered[e]

\* The inductive invariant of the proofs: a drain acts on what it has seen of an
\* event, and what it has seen stays true however other drains overlap with it.
IInv == TypeOK /\ DrainInv /\ RowInv /\ DeliveredWasHandled /\ DeadWasSpent

\* Every stored event is delivered or dead-lettered: one poison event does not
\* stall the stream.
EventuallySettled ==
    \A e \in Events : row[e] = "stored" ~> delivered[e] \/ dead[e]
=============================================================================
