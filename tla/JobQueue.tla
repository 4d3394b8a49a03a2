------------------------------ MODULE JobQueue ------------------------------
(***************************************************************************)
(* The durable job queue: the table blocks_queue.jobs, the statements of   *)
(* packages/queue/src/queue.ts that read and write it, the worker loop of  *)
(* packages/queue/src/worker.ts, and the reclaim and purge statements of   *)
(* the daily sweep (blocks/queue/src/sweep.ts).                            *)
(*                                                                         *)
(* Every SQL statement runs in a transaction of its own (the pool is in    *)
(* autocommit), so one statement is one action and anything may happen     *)
(* between two statements of one handler.  Time is abstracted to what the  *)
(* statements compare with now(): a row is due or not (run_at), a lease is *)
(* live or expired (leased_until).  BecomesDue and LeaseExpires let time   *)
(* pass.  Which faults may happen is the constant FaultKinds:              *)
(*   "crash"       an invocation dies, or one of its statements throws out *)
(*                 of runOnce, and its batch is forgotten                  *)
(*   "overrun"     a lease runs out while its worker is still alive        *)
(*   "db_error"    the UPDATE of complete() fails and changes nothing      *)
(*   "ack_lost"    the UPDATE of complete() commits but the call throws    *)
(*   "slow_claim"  the budget is spent before the first handler starts     *)
(* MaxFaults bounds their number and MaxReplays the operator's replays.    *)
(***************************************************************************)
EXTENDS Naturals, FiniteSets

CONSTANTS
    Jobs,          \* enqueue requests; a request that inserts a row names it
    Workers,       \* concurrent invocations of POST /work
    Types,         \* job types with a registered handler
    NoKey,         \* the idempotency_key of a request that has none
    NoJob,         \* no job is being handled
    TypeOf,        \* request -> job_type
    KeyOf,         \* request -> idempotency_key or NoKey
    PriorityOf,    \* request -> priority
    MaxAttempts,   \* max_attempts
    BatchSize,     \* QUEUE_BATCH_SIZE
    Cap,           \* QUEUE_CONCURRENCY: a function on the capped types
    ArbiterExists, \* is jobs_idempotency_active a constraint, as enqueue needs
    FaultKinds, MaxFaults, MaxReplays

ASSUME ParametersAssumption ==
    /\ NoJob \notin Jobs
    /\ TypeOf \in [Jobs -> Types]
    /\ PriorityOf \in [Jobs -> Nat]
    /\ MaxAttempts \in Nat \ {0}
    /\ BatchSize \in Nat \ {0}
    /\ DOMAIN Cap \subseteq Types
    /\ \A t \in DOMAIN Cap : Cap[t] \in Nat \ {0}
    /\ ArbiterExists \in BOOLEAN
    /\ FaultKinds \subseteq
          {"crash", "overrun", "db_error", "ack_lost", "slow_claim"}
    /\ MaxFaults \in Nat
    /\ MaxReplays \in Nat

VARIABLES
    \* The table.  A request without a row is "absent" before the insert and
    \* "purged" after the delete.
    state, attempts, due, lease,
    \* The callers of enqueue: how far each request got.
    call,
    \* The invocations: program counter, types below their cap, claimed jobs
    \* not yet settled, the one being handled, attempts as RETURNING gave them.
    pc, eligible, batch, cur, snap,
    \* History: jobs whose handler returned, jobs whose handler threw a
    \* PermanentJobError, and the faults and replays so far.
    handled, poisoned, faults, replays

rowVars  == <<state, attempts, due, lease>>
workVars == <<pc, eligible, batch, cur, snap>>
histVars == <<handled, poisoned>>
vars == <<rowVars, call, workVars, histVars, faults, replays>>

Active  == {"pending", "running"}
Settled == {"succeeded", "dead", "purged"}

Init ==
    /\ state = [j \in Jobs |-> "absent"]
    /\ attempts = [j \in Jobs |-> 0]
    /\ due = [j \in Jobs |-> FALSE]
    /\ lease = [j \in Jobs |-> "none"]
    /\ call = [j \in Jobs |-> "idle"]
    /\ pc = [w \in Workers |-> "idle"]
    /\ eligible = [w \in Workers |-> {}]
    /\ batch = [w \in Workers |-> {}]
    /\ cur = [w \in Workers |-> NoJob]
    /\ snap = [w \in Workers |-> [j \in Jobs |-> 0]]
    /\ handled = {}
    /\ poisoned = {}
    /\ faults = 0
    /\ replays = 0

Fault(kind) ==
    /\ kind \in FaultKinds
    /\ faults < MaxFaults
    /\ faults' = faults + 1

-----------------------------------------------------------------------------
(***************************************************************************)
(* enqueue()                                                               *)
(***************************************************************************)

\* An index that forgets the running rows.
IndexAdmitsPendingOnly(s) ==
    \A i, j \in Jobs :
        (/\ i # j
         /\ KeyOf[i] = KeyOf[j]
         /\ KeyOf[i] # NoKey
         /\ s[i] = "pending") => s[j] # "pending"

\* What the partial unique index jobs_idempotency_active enforces: a key has
\* at most one pending or running row.
IndexAdmits(s) ==
    \A i, j \in Jobs :
        (/\ i # j
         /\ KeyOf[i] = KeyOf[j]
         /\ KeyOf[i] # NoKey
         /\ s[i] \in Active) => s[j] \notin Active

\* The rows the second statement of enqueue selects.
Holders(j) == {i \in Jobs : KeyOf[i] = KeyOf[j] /\ state[i] \in Active}

\* INSERT ... ON CONFLICT ON CONSTRAINT jobs_idempotency_active DO NOTHING.
\* Without a constraint of that name PostgreSQL rejects the statement.  A
\* request may be delayed: its row is not due yet.
EnqueueInsert(j) ==
    /\ call[j] = "idle"
    /\ LET s == [state EXCEPT ![j] = "pending"]
       IN  \/ /\ ArbiterExists /\ IndexAdmits(s)
              /\ state' = s
              /\ \E delayed \in BOOLEAN : due' = [due EXCEPT ![j] = ~delayed]
              /\ call' = [call EXCEPT ![j] = "created"]
              /\ UNCHANGED <<attempts, lease>>
           \/ /\ ~(ArbiterExists /\ IndexAdmits(s))
              /\ call' = [call EXCEPT ![j] = IF ArbiterExists THEN "conflict" ELSE "error"]
              /\ UNCHANGED rowVars
    /\ UNCHANGED <<workVars, histVars, faults, replays>>

\* The SELECT after DO NOTHING: return the job that holds the key, or throw.
EnqueueReselect(j) ==
    /\ call[j] = "conflict"
    /\ call' = [call EXCEPT ![j] =
                   IF Holders(j) # {} THEN "deduplicated" ELSE "error"]
    /\ UNCHANGED <<rowVars, workVars, histVars, faults, replays>>

-----------------------------------------------------------------------------
(***************************************************************************)
(* The beginning of runOnce: the concurrency caps and the claim            *)
(***************************************************************************)

\* runningByType counts the running rows whose lease is live.
Running(t) ==
    Cardinality({j \in Jobs : /\ TypeOf[j] = t
                              /\ state[j] = "running"
                              /\ lease[j] = "live"})

BelowCap == {t \in Types : t \in DOMAIN Cap => Running(t) < Cap[t]}

\* POST /work starts a run of the worker: it reads the counts and keeps the
\* types below their cap, or returns when there is none.
StartRun(w) ==
    /\ pc[w] = "idle"
    /\ BelowCap # {}
    /\ pc' = [pc EXCEPT ![w] = "counted"]
    /\ eligible' = [eligible EXCEPT ![w] = BelowCap]
    /\ UNCHANGED <<rowVars, call, batch, cur, snap, histVars, faults, replays>>

\* Without the lease condition a claim takes a job from a living worker.
RunnableIgnoringLease(j, types) ==
    /\ due[j]
    /\ TypeOf[j] \in types
    /\ state[j] \in Active

Runnable(j, types) ==
    /\ due[j]
    /\ TypeOf[j] \in types
    /\ \/ state[j] = "pending"
       \/ state[j] = "running" /\ lease[j] = "expired"

\* ORDER BY priority DESC, run_at ... LIMIT: the run_at order is left open.
HighestFirst(S, R) ==
    /\ S \subseteq R
    /\ Cardinality(S) = IF Cardinality(R) <= BatchSize
                        THEN Cardinality(R) ELSE BatchSize
    /\ \A i \in S, j \in R \ S : PriorityOf[i] >= PriorityOf[j]

\* An invocation ends and forgets what it holds.
EndRun(w) ==
    /\ pc' = [pc EXCEPT ![w] = "idle"]
    /\ eligible' = [eligible EXCEPT ![w] = {}]
    /\ batch' = [batch EXCEPT ![w] = {}]
    /\ cur' = [cur EXCEPT ![w] = NoJob]
    /\ snap' = [snap EXCEPT ![w] = [j \in Jobs |-> 0]]

ClaimNothing(w) ==
    /\ pc[w] = "counted"
    /\ {j \in Jobs : Runnable(j, eligible[w])} = {}
    /\ EndRun(w)
    /\ UNCHANGED <<rowVars, call, histVars, faults, replays>>

Claim(w) ==
    /\ pc[w] = "counted"
    /\ LET R == {j \in Jobs : Runnable(j, eligible[w])}
       IN  \E S \in SUBSET R :
              /\ S # {}
              /\ HighestFirst(S, R)
              /\ state' = [j \in Jobs |-> IF j \in S THEN "running" ELSE state[j]]
              /\ attempts' = [j \in Jobs |->
                                IF j \in S THEN attempts[j] + 1 ELSE attempts[j]]
              /\ lease' = [j \in Jobs |-> IF j \in S THEN "live" ELSE lease[j]]
              /\ batch' = [batch EXCEPT ![w] = S]
              /\ snap' = [snap EXCEPT ![w] =
                            [j \in Jobs |-> IF j \in S THEN attempts[j] + 1 ELSE 0]]
    /\ pc' = [pc EXCEPT ![w] = "claimed"]
    /\ eligible' = [eligible EXCEPT ![w] = {}]
    /\ UNCHANGED <<due, call, cur, histVars, faults, replays>>

-----------------------------------------------------------------------------
(***************************************************************************)
(* The loop of runOnce: one job after the other                            *)
(***************************************************************************)

\* RETURNING promises no order, so any job of the batch may come next.
NextJob(w) ==
    /\ pc[w] \in {"claimed", "looping"}
    /\ \E j \in batch[w] : cur' = [cur EXCEPT ![w] = j]
    /\ pc' = [pc EXCEPT ![w] = "handling"]
    /\ UNCHANGED <<rowVars, call, eligible, batch, snap, histVars, faults, replays>>

\* The budget is spent: hand the unstarted jobs back.  The statement asks
\* only that the rows are running, not who runs them.
ReleaseRest(w) ==
    /\ pc[w] \in {"claimed", "looping"}
    /\ batch[w] # {}
    /\ IF pc[w] = "claimed" THEN Fault("slow_claim") ELSE UNCHANGED faults
    /\ LET S == {j \in batch[w] : state[j] = "running"}
       IN  /\ state' = [j \in Jobs |-> IF j \in S THEN "pending" ELSE state[j]]
           /\ attempts' = [j \in Jobs |-> IF j \in S /\ attempts[j] > 0
                                          THEN attempts[j] - 1 ELSE attempts[j]]
           /\ lease' = [j \in Jobs |-> IF j \in S THEN "none" ELSE lease[j]]
    /\ EndRun(w)
    /\ UNCHANGED <<due, call, histVars, replays>>

HandlerReturns(w) ==
    /\ pc[w] = "handling"
    /\ pc' = [pc EXCEPT ![w] = "returned"]
    /\ handled' = handled \union {cur[w]}
    /\ UNCHANGED <<rowVars, call, eligible, batch, cur, snap, poisoned, faults, replays>>

\* A handler that swallows its error looks like one that succeeded.
HandlerThrowsSwallowed(w) ==
    /\ pc[w] = "handling"
    /\ pc' = [pc EXCEPT ![w] = "returned"]
    /\ UNCHANGED <<rowVars, call, eligible, batch, cur, snap, histVars, faults, replays>>

HandlerThrows(w) ==
    /\ pc[w] = "handling"
    /\ \/ /\ pc' = [pc EXCEPT ![w] = "threw"]
          /\ UNCHANGED poisoned
       \/ /\ pc' = [pc EXCEPT ![w] = "threw_permanent"]
          /\ poisoned' = poisoned \union {cur[w]}
    /\ UNCHANGED <<rowVars, call, eligible, batch, cur, snap, handled, faults, replays>>

\* The job is settled: go on with the rest of the batch or end the run.
LeaveJob(w) ==
    IF batch[w] = {cur[w]}
    THEN EndRun(w)
    ELSE /\ pc' = [pc EXCEPT ![w] = "looping"]
         /\ batch' = [batch EXCEPT ![w] = @ \ {cur[w]}]
         /\ cur' = [cur EXCEPT ![w] = NoJob]
         /\ snap' = [snap EXCEPT ![w][cur[w]] = 0]
         /\ UNCHANGED eligible

\* UPDATE ... SET state = 'succeeded' WHERE id = $1, whatever the row's state.
\* (The row is there: the purge deletes no row of a batch.)
SetSucceeded(j) ==
    /\ state' = [state EXCEPT ![j] = "succeeded"]
    /\ lease' = [lease EXCEPT ![j] = "none"]
    /\ UNCHANGED <<attempts, due>>

Complete(w) ==
    /\ pc[w] = "returned"
    /\ SetSucceeded(cur[w])
    /\ LeaveJob(w)
    /\ UNCHANGED <<call, histVars, faults, replays>>

\* complete() is inside the try block: when it throws, the catch block records
\* a failure for a job whose handler returned.
CompleteThrows(w) ==
    /\ pc[w] = "returned"
    /\ \/ Fault("db_error") /\ UNCHANGED rowVars
       \/ Fault("ack_lost") /\ SetSucceeded(cur[w])
    /\ pc' = [pc EXCEPT ![w] = "threw"]
    /\ UNCHANGED <<call, eligible, batch, cur, snap, histVars, replays>>

\* One attempt too many, and one too few.
ExhaustedLate(a)  == a > MaxAttempts
ExhaustedEarly(a) == a + 1 >= MaxAttempts

Exhausted(a) == a >= MaxAttempts

\* fail() that forgets to take the job out of 'running'.
FailedStateStuck(w) ==
    IF pc[w] = "threw_permanent" \/ Exhausted(snap[w][cur[w]])
    THEN "dead" ELSE "running"

\* The catch block gives up on permanent errors and on exhausted attempts, as
\* the claim returned them, and otherwise schedules a retry.
FailedState(w) ==
    IF pc[w] = "threw_permanent" \/ Exhausted(snap[w][cur[w]])
    THEN "dead" ELSE "pending"

\* fail() updates the row by id alone.  The unique index may reject the row's
\* return to 'pending': then fail() throws and runOnce with it.
RecordFailure(w) ==
    /\ pc[w] \in {"threw", "threw_permanent"}
    /\ LET j == cur[w]
           s == [state EXCEPT ![j] = FailedState(w)]
       IN  \/ /\ IndexAdmits(s)
              /\ state' = s
              /\ due' = [due EXCEPT ![j] = @ /\ FailedState(w) = "dead"]
              /\ lease' = [lease EXCEPT ![j] = "none"]
              /\ UNCHANGED attempts
              /\ LeaveJob(w)
           \/ /\ ~IndexAdmits(s)
              /\ UNCHANGED rowVars
              /\ EndRun(w)
    /\ UNCHANGED <<call, histVars, faults, replays>>

\* The invocation dies, or a statement other than complete() throws.
Crash(w) ==
    /\ pc[w] # "idle"
    /\ Fault("crash")
    /\ EndRun(w)
    /\ UNCHANGED <<rowVars, call, histVars, replays>>

-----------------------------------------------------------------------------
(***************************************************************************)
(* The sweep, the operator, and the passage of time                        *)
(***************************************************************************)

\* reclaimExpiredLeases: one statement over all rows.  Sweep runs it before
\* the purge; since it changes nothing when no lease has expired, letting each
\* statement run at any time adds no behaviour.
Reclaim ==
    /\ LET S == {j \in Jobs : state[j] = "running" /\ lease[j] = "expired"}
       IN  /\ S # {}
           /\ state' = [j \in Jobs |->
                          IF j \notin S THEN state[j]
                          ELSE IF Exhausted(attempts[j]) THEN "dead" ELSE "pending"]
           /\ lease' = [j \in Jobs |-> IF j \in S THEN "none" ELSE lease[j]]
    /\ UNCHANGED <<attempts, due, call, workVars, histVars, faults, replays>>

\* purgeSucceeded deletes rows that finished at least a day ago, which is
\* longer than any invocation lives: none of them is in a batch.
Purge ==
    /\ \E S \in SUBSET {j \in Jobs : state[j] = "succeeded"} :
          /\ S # {}
          /\ \A w \in Workers : S \cap batch[w] = {}
          /\ state' = [j \in Jobs |-> IF j \in S THEN "purged" ELSE state[j]]
    /\ UNCHANGED <<attempts, due, lease, call, workVars, histVars, faults, replays>>

\* A replay that forgets its filter.
ReplayableFinished(j) == state[j] \in {"dead", "succeeded"}

Replayable(j) == state[j] = "dead"

\* replayDead: the oldest dead rows of a type or of all types, up to a limit;
\* which they are is left open.  The unique index rejects the whole statement
\* when one of the rows cannot return to 'pending'.
Replay ==
    /\ replays < MaxReplays
    /\ \E S \in SUBSET {j \in Jobs : Replayable(j)} :
          LET s == [j \in Jobs |-> IF j \in S THEN "pending" ELSE state[j]]
          IN  /\ S # {}
              /\ IndexAdmits(s)
              /\ state' = s
              /\ attempts' = [j \in Jobs |-> IF j \in S THEN 0 ELSE attempts[j]]
              /\ due' = [j \in Jobs |-> IF j \in S THEN TRUE ELSE due[j]]
    /\ replays' = replays + 1
    /\ UNCHANGED <<lease, call, workVars, histVars, faults>>

BecomesDue(j) ==
    /\ state[j] = "pending"
    /\ ~due[j]
    /\ due' = [due EXCEPT ![j] = TRUE]
    /\ UNCHANGED <<state, attempts, lease, call, workVars, histVars, faults, replays>>

Held(j) == \E w \in Workers : j \in batch[w]

\* The lease of a job nobody works on runs out; with "overrun" also one of a
\* job whose worker is slower than the lease.
LeaseExpires(j) ==
    /\ state[j] = "running"
    /\ lease[j] = "live"
    /\ IF Held(j) THEN Fault("overrun") ELSE UNCHANGED faults
    /\ lease' = [lease EXCEPT ![j] = "expired"]
    /\ UNCHANGED <<state, attempts, due, call, workVars, histVars, replays>>

-----------------------------------------------------------------------------
WorkerStep(w) ==
    \/ StartRun(w) \/ ClaimNothing(w) \/ Claim(w)
    \/ NextJob(w) \/ ReleaseRest(w)
    \/ HandlerReturns(w) \/ HandlerThrows(w)
    \/ Complete(w) \/ CompleteThrows(w) \/ RecordFailure(w)
    \/ Crash(w)

JobStep(j) ==
    \/ EnqueueInsert(j) \/ EnqueueReselect(j)
    \/ BecomesDue(j) \/ LeaseExpires(j)

Next ==
    \/ \E w \in Workers : WorkerStep(w)
    \/ \E j \in Jobs : JobStep(j)
    \/ Reclaim \/ Purge \/ Replay

Spec == Init /\ [][Next]_vars

\* Cron fires POST /work every minute, an invocation that is not killed takes
\* its next step, handlers end, time passes, and the sweep runs every day.
Fairness ==
    /\ \A w \in Workers :
          /\ WF_vars(StartRun(w) \/ ClaimNothing(w) \/ Claim(w) \/ NextJob(w))
          /\ WF_vars(HandlerReturns(w) \/ HandlerThrows(w))
          /\ WF_vars(Complete(w) \/ RecordFailure(w))
    /\ \A j \in Jobs : WF_vars(BecomesDue(j)) /\ WF_vars(LeaseExpires(j))
    /\ WF_vars(Reclaim)

FairSpec == Spec /\ Fairness

-----------------------------------------------------------------------------
(***************************************************************************)
(* Properties                                                              *)
(***************************************************************************)

TypeOK ==
    /\ state \in [Jobs -> {"absent"} \union Active \union Settled]
    /\ attempts \in [Jobs -> Nat]
    /\ due \in [Jobs -> BOOLEAN]
    /\ lease \in [Jobs -> {"none", "live", "expired"}]
    /\ call \in [Jobs -> {"idle", "created", "conflict", "deduplicated", "error"}]
    /\ pc \in [Workers -> {"idle", "counted", "claimed", "looping", "handling",
                           "returned", "threw", "threw_permanent"}]
    /\ eligible \in [Workers -> SUBSET Types]
    /\ batch \in [Workers -> SUBSET Jobs]
    /\ cur \in [Workers -> Jobs \union {NoJob}]
    /\ snap \in [Workers -> [Jobs -> Nat]]
    /\ handled \subseteq Jobs
    /\ poisoned \subseteq Jobs
    /\ faults \in 0..MaxFaults
    /\ replays \in 0..MaxReplays

\* Leases outlive the invocations that hold them.
SafeLeases == "overrun" \notin FaultKinds

\* Every acknowledged UPDATE of complete() is known to have committed.
SafeAcks == "ack_lost" \notin FaultKinds

\* A job is recorded as succeeded, and later purged, only after its handler has
\* returned: no crash, steal or failed statement loses a job silently.
SuccessWasHandled ==
    \A j \in Jobs : state[j] \in {"succeeded", "purged"} => j \in handled

\* At most one pending or running job per idempotency key, through claims,
\* failures, releases, reclaims and replays: no statement but the three that
\* the model guards can hit the unique index.
ActiveKeysUnique ==
    \A i, j \in Jobs :
        (/\ i # j
         /\ KeyOf[i] = KeyOf[j]
         /\ KeyOf[i] # NoKey) => state[i] \notin Active \/ state[j] \notin Active

\* Concurrent invocations never hold the same job, as long as no lease runs out
\* under a living worker: neither the claim, nor a crash, a reclaim, a release
\* or a retry puts one job into two batches.
DisjointBatches ==
    SafeLeases => \A v, w \in Workers : v # w => batch[v] \cap batch[w] = {}

\* A job is dead-lettered only for a permanent error or when its attempts are
\* used up: a crash or a release never costs it a retry it still had.
DeadWasSpent ==
    SafeLeases => \A j \in Jobs :
        state[j] = "dead" => j \in poisoned \/ attempts[j] >= MaxAttempts

\* The claim does not look at max_attempts, so a job that kills its workers is
\* started again; but each attempt over the limit is paid for by a fault.
OverrunsPaidByFaults ==
    \A j \in Jobs : attempts[j] <= MaxAttempts + faults

\* A job that was recorded as succeeded is never brought back.
SuccessIsFinal ==
    [][SafeLeases /\ SafeAcks =>
          \A j \in Jobs : state[j] \in {"succeeded", "purged"} =>
                          state'[j] \in {"succeeded", "purged"}]_vars

\* The queue as DurableWork: what a job looks like to who enqueued it.
Phase(j) ==
    CASE state[j] = "absent"    -> "new"
      [] state[j] = "dead"      -> "failed"
      [] state[j] = "succeeded" -> "done"
      [] state[j] = "purged"    -> "forgotten"
      [] OTHER                  -> "open"

D == INSTANCE DurableWork WITH
        Items <- Jobs, phase <- [j \in Jobs |-> Phase(j)], worked <- handled

\* With safe leases and acknowledged updates the queue, its workers, the sweep
\* and the operator together keep the promises of DurableWork.
ImplementsDurableWork == D!Spec

\* Only a request that inserted a row has one, and only its job is ever held.
CallInv ==
    /\ \A j \in Jobs : call[j] # "created" => state[j] = "absent"
    /\ \A w \in Workers : \A j \in batch[w] : call[j] = "created"

InHandler == {"handling", "returned", "threw", "threw_permanent"}

\* A worker's program counter says what it holds and has seen of its job.
WorkerInv ==
    \A w \in Workers :
        /\ pc[w] \in InHandler => cur[w] \in batch[w]
        /\ pc[w] \in {"idle", "counted"} => batch[w] = {}
        /\ pc[w] = "returned" => cur[w] \in handled
        /\ pc[w] = "threw_permanent" => cur[w] \in poisoned

\* A row has a lease exactly while it is running.
LeaseInv == \A j \in Jobs : state[j] = "running" <=> lease[j] # "none"

\* cur[w] was completed, but the worker was told that the UPDATE failed.
AckLost(w, j) ==
    ~SafeAcks /\ j = cur[w] /\ pc[w] = "threw" /\ state[j] = "succeeded"

\* With safe leases a held row is still the one that was claimed.
HoldInv ==
    SafeLeases => \A w \in Workers : \A j \in batch[w] :
        /\ attempts[j] = snap[w][j]
        /\ \/ state[j] = "running" /\ lease[j] = "live"
           \/ AckLost(w, j)

\* The inductive invariant of the proofs: what a worker holds in its memory, the
\* rows and the attempts it was given agree through crashes, reclaims, releases
\* and late answers.
IInv == /\ TypeOK /\ CallInv /\ WorkerInv /\ LeaseInv /\ HoldInv
        /\ SuccessWasHandled /\ DisjointBatches /\ DeadWasSpent

-----------------------------------------------------------------------------
(***************************************************************************)
(* Why OverrunsPaidByFaults holds                                          *)
(***************************************************************************)
Holds == {h \in Workers \X Jobs : h[2] \in batch[h[1]]}

\* O is a set of holds that the rows agree with: the claim that made such a hold
\* is still the last word on its row.  No row has two of them.
Rightful(O) ==
    /\ O \subseteq Holds
    /\ \A h \in O : /\ state[h[2]] = "running" /\ lease[h[2]] = "live"
                    /\ snap[h[1]][h[2]] = attempts[h[2]]
    /\ \A g, h \in O : g[2] = h[2] => g = h

\* The others: someone has settled, handed back, reclaimed or stolen the row.
Stale(O) == Holds \ O

\* The stale holds that could still put row j back to 'pending', or reject the
\* rest of a batch with j in it: not those whose failure makes j dead.
Harmful(O, j) ==
    {h \in Stale(O) : h[2] = j => ~Exhausted(snap[h[1]][j])}

\* The next claim of j is one that nobody has been charged for yet.
Claimable(O, j) == state[j] \in Active /\ \A w \in Workers : <<w, j>> \notin O

\* The attempts of j with the one that its next claim will count.
WithNext(O, j) == attempts[j] + (IF Claimable(O, j) THEN 1 ELSE 0)

\* Each stale hold is paid for by a fault, and each attempt over the limit, the
\* next one included, by a fault whose stale hold is gone.
PaidWith(O) ==
    /\ Rightful(O)
    /\ IsFiniteSet(Stale(O))
    /\ Cardinality(Stale(O)) <= faults
    /\ \A j \in Jobs :
          WithNext(O, j) + Cardinality(Harmful(O, j)) <= MaxAttempts + faults

PaidInv ==
    /\ \A j \in Jobs : state[j] = "absent" => attempts[j] = 0
    /\ \E O \in SUBSET (Workers \X Jobs) : PaidWith(O)

\* Every job that was accepted is settled: crashed workers and lost leases heal
\* once the faults stop.
EventuallySettled ==
    \A j \in Jobs : state[j] \in Active ~> state[j] \in Settled

\* enqueue() returns a job, a new one or the one that holds the key.
EnqueueReturns == \A j \in Jobs : call[j] # "error"

\* An operator can replay any dead job.
DeadIsReplayable ==
    \A j \in Jobs : state[j] = "dead" => IndexAdmits([state EXCEPT ![j] = "pending"])

\* The configured ceiling on jobs of one type that run at the same time.
CapHolds == \A t \in DOMAIN Cap : Running(t) <= Cap[t]

\* A release hands back unstarted jobs: it takes none that another invocation
\* is handling.
ReleasesOnlyUnstarted ==
    [][\A v, w \in Workers :
          ReleaseRest(v) /\ v # w /\ pc[w] = "handling" =>
             ~(state[cur[w]] = "running" /\ state'[cur[w]] = "pending")]_vars
=============================================================================
