----------------------------- MODULE QueueBlock -----------------------------
(***************************************************************************)
(* The queue block: POST /work drains the outbox and then runs the worker  *)
(* (blocks/queue/src/index.ts).  The two tables meet in one registration,  *)
(* "outbox_to_queue", whose handler enqueues a job for every event under   *)
(* the idempotency key event:<id>.  This module composes Outbox and        *)
(* JobQueue: the handler's call in a drain is a request of the queue.      *)
(*                                                                         *)
(* A request is a pair <<event, n>>: the n-th time a drain hands the event *)
(* to the handler; MaxDispatches bounds n.  Drains and worker runs of      *)
(* different invocations interleave, so they are separate processes here.  *)
(***************************************************************************)
EXTENDS Naturals, FiniteSetTheorems, TLAPS

CONSTANTS
    Events, Drains, Workers,
    MaxDispatches,      \* times one event may reach the handler
    MaxCrashes,         \* drains that may die
    MaxFaults,          \* faults of the workers, of the kinds FaultKinds
    FaultKinds,
    Limit, MaxEventAttempts, BatchSize, MaxJobAttempts,
    NoEvent, NoJob, NoKey

ASSUME ParametersAssumption ==
    /\ MaxDispatches \in Nat \ {0}
    /\ NoJob \notin Events \X (1..MaxDispatches)
    /\ NoKey \notin Events

VARIABLES
    row, delivered, dead, waiting, eventAttempts, published,
    drainPc, todo, event, left, failed, acked, eventSnap, ran, crashes,
    state, jobAttempts, due, lease, call,
    workPc, eligible, batch, job, jobSnap, handled, poisoned, faults, replays,
    request      \* drain -> the request its handler waits for, or NoJob

outboxVars == <<row, delivered, dead, waiting, eventAttempts, published,
                drainPc, todo, event, left, failed, acked, eventSnap, ran, crashes>>
queueVars  == <<state, jobAttempts, due, lease, call, workPc, eligible, batch, job,
                jobSnap, handled, poisoned, faults, replays>>
vars       == <<outboxVars, queueVars, request>>

Requests == Events \X (1..MaxDispatches)

O == INSTANCE Outbox WITH
        Handlers <- {"outbox_to_queue"},
        Matching <- [e \in Events |-> {"outbox_to_queue"}],
        Wildcard <- TRUE,
        KeyOf <- [e \in Events |-> NoKey],
        OccurredAt <- [e \in Events |-> 0],
        MaxAttempts <- MaxEventAttempts,
        attempts <- eventAttempts, call <- published, pc <- drainPc,
        cur <- event, snap <- eventSnap

\* A key for each dispatch.
KeyOfDispatch(r) == r

\* The idempotency key of the handler's request is the event's id.
KeyOfRequest(r) == r[1]

Q == INSTANCE JobQueue WITH
        Jobs <- Requests,
        Types <- {"event"},
        TypeOf <- [r \in Requests |-> "event"],
        KeyOf <- [r \in Requests |-> KeyOfRequest(r)],
        PriorityOf <- [r \in Requests |-> 0],
        MaxAttempts <- MaxJobAttempts,
        Cap <- [t \in {} |-> 0],
        ArbiterExists <- TRUE,
        MaxReplays <- 0,
        attempts <- jobAttempts, pc <- workPc, cur <- job, snap <- jobSnap

Init == O!Init /\ Q!Init /\ request = [d \in Drains |-> NoJob]

\* The requests of an event that are not used yet; the handler takes the first.
Unused(e) == {n \in 1..MaxDispatches : call[<<e, n>>] = "idle"}

NextRequest(e) == {r \in {e} \X Unused(e) : \A m \in Unused(e) : r[2] <= m}

\* The handler calls enqueue: its INSERT.
BridgeInsert(d) ==
    /\ drainPc[d] = "dispatching" /\ left[d] # {}
    /\ request[d] = NoJob
    /\ \E r \in NextRequest(event[d]) :
          /\ Q!EnqueueInsert(r)
          /\ request' = [request EXCEPT ![d] = r]
    /\ UNCHANGED outboxVars

\* enqueue re-selects the job that holds the key.
BridgeReselect(d) ==
    /\ request[d] # NoJob
    /\ Q!EnqueueReselect(request[d])
    /\ UNCHANGED <<outboxVars, request>>

\* A handler that does not await enqueue.
BridgeReturnsUnawaited(d) ==
    /\ drainPc[d] = "dispatching" /\ left[d] # {}
    /\ request[d] = NoJob
    /\ O!HandlerReturns(d)
    /\ UNCHANGED <<queueVars, request>>

\* enqueue has returned a job, a new one or an old one, or it has thrown.
BridgeReturns(d) ==
    /\ request[d] # NoJob
    /\ call[request[d]] \in {"created", "deduplicated"}
    /\ O!HandlerReturns(d)
    /\ request' = [request EXCEPT ![d] = NoJob]
    /\ UNCHANGED queueVars

BridgeFails(d) ==
    /\ request[d] # NoJob
    /\ call[request[d]] = "error"
    /\ O!HandlerThrows(d)
    /\ request' = [request EXCEPT ![d] = NoJob]
    /\ UNCHANGED queueVars

\* The steps of a drain that do not call the handler.
DrainStep(d) ==
    /\ \/ O!Claim(d) \/ O!ClaimNothing(d) \/ O!Dispatch(d)
       \/ O!Acknowledge(d) \/ O!Fail(d) \/ O!Ack(d)
    /\ UNCHANGED <<queueVars, request>>

\* An invocation dies in its drain, with or without a job for the event.
DrainCrash(d) ==
    /\ O!Crash(d)
    /\ request' = [request EXCEPT ![d] = NoJob]
    /\ UNCHANGED queueVars

TableStep(e) ==
    /\ O!PublishInsert(e) \/ O!RetryComesDue(e) \/ O!Purge(e)
    /\ UNCHANGED <<queueVars, request>>

WorkerStep(w) ==
    /\ \/ Q!StartRun(w) \/ Q!ClaimNothing(w) \/ Q!Claim(w)
       \/ Q!NextJob(w) \/ Q!ReleaseRest(w)
       \/ Q!HandlerReturns(w) \/ Q!HandlerThrows(w)
       \/ Q!Complete(w) \/ Q!CompleteThrows(w) \/ Q!RecordFailure(w)
       \/ Q!Crash(w)
    /\ UNCHANGED <<outboxVars, request>>

JobStep(r) ==
    /\ Q!BecomesDue(r) \/ Q!LeaseExpires(r)
    /\ UNCHANGED <<outboxVars, request>>

SweepStep ==
    /\ Q!Reclaim \/ Q!Purge
    /\ UNCHANGED <<outboxVars, request>>

Next ==
    \/ \E d \in Drains : \/ BridgeInsert(d) \/ BridgeReselect(d)
                         \/ BridgeReturns(d) \/ BridgeFails(d)
                         \/ DrainStep(d) \/ DrainCrash(d)
    \/ \E e \in Events : TableStep(e)
    \/ \E w \in Workers : WorkerStep(w)
    \/ \E r \in Requests : JobStep(r)
    \/ SweepStep

Spec == Init /\ [][Next]_vars

\* Cron starts drains and runs; what is not killed takes its next step.
Fairness ==
    /\ \A d \in Drains :
          WF_vars(\/ BridgeInsert(d) \/ BridgeReselect(d)
                  \/ BridgeReturns(d) \/ BridgeFails(d) \/ DrainStep(d))
    /\ \A w \in Workers :
          WF_vars(/\ \/ Q!StartRun(w) \/ Q!ClaimNothing(w) \/ Q!Claim(w) \/ Q!NextJob(w)
                     \/ Q!HandlerReturns(w) \/ Q!HandlerThrows(w)
                     \/ Q!Complete(w) \/ Q!RecordFailure(w)
                  /\ UNCHANGED <<outboxVars, request>>)
    /\ \A e \in Events : WF_vars(O!RetryComesDue(e) /\ UNCHANGED <<queueVars, request>>)
    /\ \A r \in Requests : WF_vars(JobStep(r))
    /\ WF_vars(Q!Reclaim /\ UNCHANGED <<outboxVars, request>>)

FairSpec == Spec /\ Fairness

-----------------------------------------------------------------------------
(* Properties                                                              *)

JobsOf(e) == {r \in Requests : r[1] = e /\ state[r] # "absent"}

TypeOK ==
    /\ O!TypeOK
    /\ Q!TypeOK
    /\ request \in [Drains -> Requests \union {NoJob}]

\* No event gets lost between the tables: when it is marked delivered there is,
\* or was, a job for it, whatever drains and workers die in between.
DeliveredHasJob ==
    \A e \in Events : delivered[e] \/ row[e] = "purged" => JobsOf(e) # {}

\* At most one job of an event is pending or running.
OneActiveJob ==
    \A e \in Events : Cardinality({r \in JobsOf(e) : state[r] \in {"pending", "running"}}) <= 1

\* A published event becomes a job that is settled, or it is dead-lettered.
EventuallyWorked ==
    \A e \in Events :
        row[e] = "stored" ~>
            \/ dead[e]
            \/ \E r \in JobsOf(e) : state[r] \in {"succeeded", "dead", "purged"}

\* A redelivered event does not enqueue twice.
EnqueuedOnce == \A e \in Events : Cardinality(JobsOf(e)) <= 1
-----------------------------------------------------------------------------
(* DeliveredHasJob and OneActiveJob for any number of events, drains and   *)
(* workers.  The queue's part: a row never becomes absent again, and the   *)
(* index keeps a second active row of an event out.  The outbox's part: a  *)
(* drain acknowledges an event only when enqueue has returned, so when a   *)
(* row with the event's key was there.                                     *)

JobStates == {"absent", "pending", "running", "succeeded", "dead", "purged"}

ActiveRow(r) == state[r] \in {"pending", "running"}

HasJob(e) == \E r \in Requests : r[1] = e /\ state[r] # "absent"

QueueInv ==
    /\ state \in [Requests -> JobStates]
    /\ DOMAIN call = Requests
    /\ \A r, q \in Requests : r # q /\ r[1] = q[1] /\ ActiveRow(r) => ~ActiveRow(q)
    /\ \A r \in Requests : call[r] \in {"created", "deduplicated"} => HasJob(r[1])

DrainInv ==
    \A d \in Drains :
        /\ request[d] # NoJob =>
              /\ request[d] \in Requests /\ request[d][1] = event[d]
              /\ drainPc[d] = "dispatching" /\ left[d] # {}
        /\ drainPc[d] = "dispatching" =>
              /\ event[d] \in Events
              /\ left[d] = {} /\ ~failed[d] => HasJob(event[d])
        /\ \A e \in acked[d] : HasJob(e)

DrainTypes ==
    /\ request \in [Drains -> Requests \union {NoJob}]
    /\ drainPc \in [Drains -> {"idle", "looping", "dispatching"}]
    /\ event \in [Drains -> Events \union {NoEvent}]
    /\ todo \in [Drains -> SUBSET Events]
    /\ left \in [Drains -> SUBSET {"outbox_to_queue"}]
    /\ acked \in [Drains -> SUBSET Events]
    /\ DOMAIN failed = Drains
    /\ DOMAIN delivered = Events /\ DOMAIN row = Events

DeliveredInv ==
    \A e \in Events : /\ delivered[e] => HasJob(e)
                      /\ row[e] = "purged" => delivered[e]

IInv == QueueInv /\ DrainTypes /\ DrainInv /\ DeliveredInv

\* What a step of the queue may do to its rows.
RowsKept ==
    /\ state' \in [Requests -> JobStates]
    /\ \A r \in Requests : state[r] # "absent" => state'[r] # "absent"

NoneActivated == \A r \in Requests : ActiveRow(r)' => ActiveRow(r)

Admitted == \A r, q \in Requests : r # q /\ r[1] = q[1] /\ ActiveRow(r)' => ~ActiveRow(q)'

LEMMA IndexIsOnEvents ==
    ASSUME NEW s, Q!IndexAdmits(s)
    PROVE  \A r, q \in Requests :
              r # q /\ r[1] = q[1] /\ s[r] \in {"pending", "running"} =>
                  s[q] \notin {"pending", "running"}
<1>1. \A r \in Requests : r[1] # NoKey
  BY ParametersAssumption DEF Requests
<1> QED BY <1>1 DEF Q!IndexAdmits, Q!Active, KeyOfRequest

LEMMA WorkerKeepsRows ==
    ASSUME QueueInv, NEW w \in Workers, WorkerStep(w)
    PROVE  RowsKept /\ (NoneActivated \/ Admitted) /\ UNCHANGED call
<1> USE DEF QueueInv, RowsKept, NoneActivated, ActiveRow, JobStates
<1>1. CASE Q!Claim(w)
  BY <1>1 DEF Q!Claim, Q!Runnable
<1>2. CASE Q!ReleaseRest(w)
  BY <1>2 DEF Q!ReleaseRest
<1>3. CASE Q!Complete(w) \/ Q!CompleteThrows(w)
  BY <1>3 DEF Q!Complete, Q!CompleteThrows, Q!SetSucceeded, Q!rowVars
<1>4. CASE Q!RecordFailure(w)
  <2> DEFINE s == [state EXCEPT ![job[w]] = Q!FailedState(w)]
  <2>1. CASE state' = s /\ Q!IndexAdmits(s) /\ UNCHANGED call
    <3>1. Q!FailedState(w) \in {"dead", "pending"}
      BY DEF Q!FailedState
    <3>2. RowsKept
      BY <2>1, <3>1
    <3>3. Admitted
      BY <2>1, IndexIsOnEvents DEF Admitted
    <3> QED BY <2>1, <3>2, <3>3
  <2>2. CASE UNCHANGED <<state, call>>
    BY <2>2
  <2> QED BY <1>4, <2>1, <2>2 DEF Q!RecordFailure, Q!rowVars
<1>5. CASE UNCHANGED <<state, call>>
  BY <1>5
<1> QED
  BY <1>1, <1>2, <1>3, <1>4, <1>5
  DEF WorkerStep, Q!StartRun, Q!ClaimNothing, Q!NextJob, Q!HandlerReturns, Q!HandlerThrows,
      Q!Crash, Q!rowVars

LEMMA SweepKeepsRows ==
    ASSUME QueueInv, SweepStep
    PROVE  RowsKept /\ NoneActivated /\ UNCHANGED call
BY DEF SweepStep, Q!Reclaim, Q!Purge, QueueInv, RowsKept, NoneActivated, ActiveRow, JobStates

\* Rows that are kept keep what the drains know of them.
LEMMA HasJobStays == ASSUME RowsKept, NEW e, HasJob(e) PROVE HasJob(e)'
BY DEF RowsKept, HasJob

CallsKnown == \A q \in Requests : call[q] \in {"created", "deduplicated"} => HasJob(q[1])

LEMMA QueueInvHolds ==
    ASSUME RowsKept, Admitted, DOMAIN call' = Requests, CallsKnown'
    PROVE  QueueInv'
BY DEF QueueInv, RowsKept, Admitted, ActiveRow, CallsKnown

LEMMA QueueInvStays ==
    ASSUME QueueInv, RowsKept, NoneActivated \/ Admitted, UNCHANGED call
    PROVE  QueueInv'
<1>1. \A r \in Requests : call'[r] \in {"created", "deduplicated"} => HasJob(r[1])'
  BY HasJobStays DEF QueueInv
<1>2. \A r, q \in Requests : r # q /\ r[1] = q[1] /\ ActiveRow(r)' => ~ActiveRow(q)'
  BY DEF QueueInv, NoneActivated, Admitted
<1>3. state' \in [Requests -> JobStates] /\ DOMAIN call' = Requests
  BY DEF QueueInv, RowsKept
<1> QED BY <1>1, <1>2, <1>3 DEF QueueInv, ActiveRow

LEMMA OutboxStays ==
    ASSUME IInv, RowsKept, UNCHANGED <<outboxVars, request>>
    PROVE  DrainTypes' /\ DrainInv' /\ DeliveredInv'
<1>1. DrainInv'
  BY HasJobStays DEF IInv, DrainInv, outboxVars
<1>2. DeliveredInv'
  BY HasJobStays DEF IInv, DeliveredInv, outboxVars
<1>3. DrainTypes'
  BY DEF IInv, DrainTypes, outboxVars
<1> QED BY <1>1, <1>2, <1>3
-----------------------------------------------------------------------------
(* The steps of the bridge, of the drains and of the table of events       *)

LEMMA InsertKeeps == ASSUME IInv, NEW d \in Drains, BridgeInsert(d) PROVE IInv'
<1>1. PICK r \in NextRequest(event[d]) : Q!EnqueueInsert(r) /\ request' = [request EXCEPT ![d] = r]
  BY DEF BridgeInsert
<1>2. /\ drainPc[d] = "dispatching" /\ left[d] # {} /\ event[d] \in Events
      /\ UNCHANGED outboxVars
  BY DEF BridgeInsert, IInv, DrainInv
<1>3. r \in Requests /\ r[1] = event[d]
  BY <1>2 DEF NextRequest, Unused, Requests
<1>4. call[r] = "idle"
  BY <1>1 DEF Q!EnqueueInsert
<1> DEFINE s == [state EXCEPT ![r] = "pending"]
<1>5. ASSUME /\ state' = s /\ Q!IndexAdmits(s)
             /\ call' = [call EXCEPT ![r] = "created"]
      PROVE  RowsKept /\ QueueInv'
  <2>1. RowsKept
    BY <1>3, <1>5 DEF RowsKept, IInv, QueueInv, JobStates
  <2>2. Admitted
    BY <1>5, IndexIsOnEvents DEF Admitted, ActiveRow
  <2>3. HasJob(r[1])'
    BY <1>3, <1>5 DEF HasJob, IInv, QueueInv
  <2>4. CallsKnown'
    BY <1>3, <1>5, <2>1, <2>3, HasJobStays DEF CallsKnown, IInv, QueueInv
  <2>5. DOMAIN call' = Requests
    BY <1>5 DEF IInv, QueueInv
  <2> QED BY <2>1, <2>2, <2>4, <2>5, QueueInvHolds
<1>6. ASSUME /\ UNCHANGED state
             /\ \E c \in {"conflict", "error"} : call' = [call EXCEPT ![r] = c]
      PROVE  RowsKept /\ QueueInv'
  <2>1. RowsKept /\ NoneActivated
    BY <1>6 DEF RowsKept, NoneActivated, ActiveRow, IInv, QueueInv
  <2>2. \A q \in Requests : call'[q] \in {"created", "deduplicated"} => call'[q] = call[q]
    BY <1>6 DEF IInv, QueueInv
  <2>3. CallsKnown'
    BY <2>1, <2>2, HasJobStays DEF CallsKnown, IInv, QueueInv
  <2>4. DOMAIN call' = Requests
    BY <1>6 DEF IInv, QueueInv
  <2>5. Admitted
    BY <2>1 DEF Admitted, NoneActivated, IInv, QueueInv
  <2> QED BY <2>1, <2>3, <2>4, <2>5, QueueInvHolds
<1>7. RowsKept /\ QueueInv'
  <2>1. \/ state' = s /\ Q!IndexAdmits(s) /\ call' = [call EXCEPT ![r] = "created"]
        \/ /\ UNCHANGED state
           /\ \E c \in {"conflict", "error"} : call' = [call EXCEPT ![r] = c]
    BY <1>1 DEF Q!EnqueueInsert, Q!rowVars
  <2> QED BY <1>5, <1>6, <2>1
<1>8. DrainInv'
  BY <1>1, <1>2, <1>3, <1>7, HasJobStays DEF outboxVars, IInv, DrainInv, DrainTypes
<1>9. DrainTypes' /\ DeliveredInv'
  BY <1>1, <1>2, <1>3, <1>7, HasJobStays DEF outboxVars, IInv, DrainTypes, DeliveredInv
<1> QED BY <1>7, <1>8, <1>9 DEF IInv

LEMMA ReselectKeeps == ASSUME IInv, NEW d \in Drains, BridgeReselect(d) PROVE IInv'
<1> DEFINE r == request[d]
<1>1. /\ r \in Requests /\ UNCHANGED <<outboxVars, request, state>>
      /\ call' = [call EXCEPT ![r] = IF Q!Holders(r) # {} THEN "deduplicated" ELSE "error"]
  BY DEF BridgeReselect, Q!EnqueueReselect, Q!rowVars, IInv, DrainInv
<1>2. RowsKept
  BY <1>1 DEF RowsKept, IInv, QueueInv
<1>3. Q!Holders(r) = {q \in Requests : q[1] = r[1] /\ ActiveRow(q)}
  BY <1>1 DEF Q!Holders, Q!Active, ActiveRow, KeyOfRequest
<1>4. Q!Holders(r) # {} => HasJob(r[1])
  BY <1>3 DEF HasJob, ActiveRow
<1>5. CallsKnown'
  BY <1>1, <1>2, <1>4, HasJobStays DEF CallsKnown, IInv, QueueInv
<1>6. DOMAIN call' = Requests
  BY <1>1 DEF IInv, QueueInv
<1>7. Admitted
  BY <1>1 DEF Admitted, IInv, QueueInv, ActiveRow
<1>8. QueueInv'
  BY <1>2, <1>5, <1>6, <1>7, QueueInvHolds
<1> QED BY <1>1, <1>2, <1>8, OutboxStays DEF IInv

LEMMA ReturnKeeps ==
    ASSUME IInv, NEW d \in Drains, BridgeReturns(d) \/ BridgeFails(d)
    PROVE  IInv'
<1>1. /\ drainPc[d] = "dispatching" /\ event[d] \in Events /\ left' = [left EXCEPT ![d] = {}]
      /\ request' = [request EXCEPT ![d] = NoJob]
      /\ UNCHANGED <<queueVars, row, delivered, drainPc, todo, event, acked>>
      /\ BridgeFails(d) => failed' = [failed EXCEPT ![d] = TRUE]
      /\ BridgeReturns(d) => UNCHANGED failed
  BY DEF BridgeReturns, BridgeFails, O!HandlerReturns, O!HandlerThrows, O!rowVars, IInv,
         DrainInv, DrainTypes
<1>2. BridgeReturns(d) => HasJob(event[d])
  BY DEF BridgeReturns, IInv, QueueInv, DrainInv
<1>3. RowsKept /\ QueueInv'
  BY <1>1 DEF queueVars, RowsKept, IInv, QueueInv, HasJob, ActiveRow
<1>4. DrainInv'
  BY <1>1, <1>2, <1>3, HasJobStays DEF IInv, DrainInv, DrainTypes
<1>5. DrainTypes' /\ DeliveredInv'
  BY <1>1, <1>3, HasJobStays DEF IInv, DrainTypes, DeliveredInv
<1> QED BY <1>3, <1>4, <1>5 DEF IInv

\* The steps that only the outbox takes: the jobs stay as they are.
LEMMA JobsUnchanged ==
    ASSUME IInv, UNCHANGED queueVars
    PROVE  QueueInv' /\ \A e : HasJob(e)' <=> HasJob(e)
BY DEF queueVars, IInv, QueueInv, HasJob, ActiveRow

LEMMA DrainKeeps ==
    ASSUME IInv, NEW d \in Drains, DrainStep(d) \/ DrainCrash(d)
    PROVE  IInv'
<1>1. QueueInv' /\ \A e : HasJob(e)' <=> HasJob(e)
  BY JobsUnchanged DEF DrainStep, DrainCrash
<1> USE DEF IInv, DrainTypes, DrainInv, DeliveredInv
<1>2. CASE DrainStep(d) /\ O!Claim(d)
  BY <1>1, <1>2 DEF DrainStep, O!Claim, O!Claimable
<1>3. CASE DrainStep(d) /\ O!ClaimNothing(d)
  BY <1>1, <1>3 DEF DrainStep, O!ClaimNothing, O!vars, O!rowVars, O!drainVars
<1>4. CASE DrainStep(d) /\ O!Dispatch(d)
  <2>1. PICK e \in todo[d] :
           /\ todo' = [todo EXCEPT ![d] = @ \ {e}] /\ event' = [event EXCEPT ![d] = e]
           /\ left' = [left EXCEPT ![d] = {"outbox_to_queue"}]
    BY <1>4 DEF O!Dispatch
  <2>2. /\ drainPc' = [drainPc EXCEPT ![d] = "dispatching"]
        /\ failed' = [failed EXCEPT ![d] = FALSE]
        /\ UNCHANGED <<row, delivered, acked, request>> /\ drainPc[d] = "looping"
    BY <1>4 DEF DrainStep, O!Dispatch, O!rowVars
  <2>3. DrainTypes'
    BY <2>1, <2>2
  <2>4. DrainInv' /\ DeliveredInv'
    BY <1>1, <2>1, <2>2
  <2> QED BY <1>1, <2>3, <2>4
<1>5. CASE DrainStep(d) /\ O!Acknowledge(d)
  BY <1>1, <1>5 DEF DrainStep, O!Acknowledge, O!AllSucceeded, O!rowVars
<1>6. CASE DrainStep(d) /\ O!Fail(d)
  BY <1>1, <1>6 DEF DrainStep, O!Fail
<1>7. CASE DrainStep(d) /\ O!Ack(d)
  BY <1>1, <1>7 DEF DrainStep, O!Ack, O!EndDrain, O!AckedNow
<1>8. CASE DrainCrash(d)
  BY <1>1, <1>8 DEF DrainCrash, O!Crash, O!EndDrain, O!rowVars
<1> QED BY <1>2, <1>3, <1>4, <1>5, <1>6, <1>7, <1>8 DEF DrainStep

LEMMA TableKeeps == ASSUME IInv, NEW e \in Events, TableStep(e) PROVE IInv'
<1>1. QueueInv' /\ \A f : HasJob(f)' <=> HasJob(f)
  BY JobsUnchanged DEF TableStep
<1> QED BY <1>1 DEF TableStep, O!PublishInsert, O!RetryComesDue, O!Purge, O!drainVars,
                   IInv, DrainTypes, DrainInv, DeliveredInv

LEMMA StepKeeps == ASSUME IInv, [Next]_vars PROVE IInv'
<1>1. ASSUME NEW w \in Workers, WorkerStep(w) PROVE IInv'
  <2>1. UNCHANGED <<outboxVars, request>>
    BY <1>1 DEF WorkerStep
  <2> QED BY <1>1, <2>1, WorkerKeepsRows, QueueInvStays, OutboxStays DEF IInv
<1>2. CASE SweepStep
  <2>1. UNCHANGED <<outboxVars, request>>
    BY <1>2 DEF SweepStep
  <2> QED BY <1>2, <2>1, SweepKeepsRows, QueueInvStays, OutboxStays DEF IInv
<1>3. CASE /\ UNCHANGED <<outboxVars, request, state, call>>
  <2>1. RowsKept /\ NoneActivated
    BY <1>3 DEF RowsKept, NoneActivated, ActiveRow, IInv, QueueInv
  <2> QED BY <1>3, <2>1, QueueInvStays, OutboxStays DEF IInv
<1>4. ASSUME NEW r \in Requests, JobStep(r) PROVE IInv'
  BY <1>3, <1>4 DEF JobStep, Q!BecomesDue, Q!LeaseExpires
<1>5. CASE UNCHANGED vars
  BY <1>3, <1>5 DEF vars, queueVars
<1> QED
  BY <1>1, <1>2, <1>4, <1>5, InsertKeeps, ReselectKeeps, ReturnKeeps, DrainKeeps, TableKeeps
  DEF Next

LEMMA InitHolds == Init => IInv
<1> SUFFICES ASSUME Init PROVE IInv
  OBVIOUS
<1>1. QueueInv
  BY DEF Init, Q!Init, QueueInv, ActiveRow, JobStates
<1>2. DrainTypes /\ DrainInv /\ DeliveredInv
  BY DEF Init, O!Init, DrainTypes, DrainInv, DeliveredInv
<1> QED BY <1>1, <1>2 DEF IInv

\* What a drain knows of the jobs of its events holds in every state.
THEOREM Invariant == Spec => []IInv
<1>1. Init => IInv
  BY InitHolds
<1>2. IInv /\ [Next]_vars => IInv'
  BY StepKeeps
<1> QED BY <1>1, <1>2, PTL DEF Spec

\* An event that is marked as delivered has, or had, a job, whatever drains and workers
\* overlap and die between the two tables.
THEOREM NoEventLost == Spec => []DeliveredHasJob
<1>1. IInv => DeliveredHasJob
  BY DEF IInv, DeliveredInv, HasJob, DeliveredHasJob, JobsOf
<1> QED BY Invariant, <1>1, PTL

\* The event's id as the idempotency key keeps two jobs of one event from being pending
\* or running at once.
THEOREM OneJobPerEvent == Spec => []OneActiveJob
<1>1. ASSUME IInv, NEW e \in Events
      PROVE  Cardinality({r \in JobsOf(e) : state[r] \in {"pending", "running"}}) <= 1
  <2> DEFINE A == {r \in JobsOf(e) : state[r] \in {"pending", "running"}}
  <2>1. \A r, q \in A : r = q
    BY <1>1 DEF IInv, QueueInv, ActiveRow, JobsOf
  <2>2. CASE A = {}
    BY <2>2, FS_EmptySet
  <2>3. CASE A # {}
    <3>1. PICK r : r \in A
      BY <2>3
    <3>2. A = {r}
      BY <2>1, <3>1
    <3>3. Cardinality({r}) = 1
      BY FS_Singleton
    <3> QED BY <3>2, <3>3
  <2> QED BY <2>2, <2>3
<1>2. IInv => OneActiveJob
  BY <1>1 DEF OneActiveJob
<1> QED BY Invariant, <1>2, PTL
=============================================================================
