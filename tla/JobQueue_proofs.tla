-------------------------- MODULE JobQueue_proofs --------------------------
(***************************************************************************)
(* Proofs about JobQueue for every value of its constants: the inductive   *)
(* invariant IInv and the safety properties that follow from it, the       *)
(* uniqueness of active keys, which is inductive by itself, the account of *)
(* the attempts over max_attempts (PaidInv), and the refinement of         *)
(* DurableWork.  One lemma per action says that the action preserves IInv; *)
(* the actions that end the handling of a job share LeaveJobEffect, and    *)
(* those that take holds away share the counting lemma LeaveStep.          *)
(***************************************************************************)
EXTENDS JobQueue, FiniteSetTheorems, TLAPS

LEMMA InitIInv == Init => IInv
BY ParametersAssumption
DEF Init, IInv, TypeOK, CallInv, WorkerInv, LeaseInv, HoldInv, InHandler,
    SuccessWasHandled, DisjointBatches, DeadWasSpent, Active, Settled

-----------------------------------------------------------------------------
(* Producers                                                               *)

LEMMA EnqueueInsertKeeps ==
    ASSUME IInv, NEW j \in Jobs, EnqueueInsert(j)
    PROVE  IInv'
<1>1. CASE /\ \E r \in {"error", "conflict"} : call' = [call EXCEPT ![j] = r]
           /\ UNCHANGED rowVars
  <2>1. UNCHANGED <<rowVars, workVars, histVars, faults, replays>> /\ call[j] = "idle"
    BY <1>1 DEF EnqueueInsert
  <2> QED BY <1>1, <2>1 DEF rowVars, workVars, histVars,
    IInv, TypeOK, CallInv, WorkerInv, LeaseInv, HoldInv, AckLost,
    SafeLeases, SafeAcks, SuccessWasHandled, DisjointBatches, DeadWasSpent,
    InHandler, Active, Settled
<1>2. CASE /\ state' = [state EXCEPT ![j] = "pending"]
           /\ \E delayed \in BOOLEAN : due' = [due EXCEPT ![j] = ~delayed]
           /\ call' = [call EXCEPT ![j] = "created"]
           /\ UNCHANGED <<attempts, lease>>
  <2>1. due' \in [Jobs -> BOOLEAN]
    BY <1>2, Zenon DEF IInv, TypeOK
  <2>2. UNCHANGED <<workVars, histVars, faults, replays>> /\ state[j] = "absent"
    BY DEF EnqueueInsert, IInv, CallInv
  <2>3. /\ state' = [state EXCEPT ![j] = "pending"]
        /\ call' = [call EXCEPT ![j] = "created"]
        /\ UNCHANGED <<attempts, lease>>
    BY <1>2
  <2>4. TypeOK'
    BY <2>1, <2>2, <2>3 DEF IInv, TypeOK, workVars, histVars, Active, Settled
  <2>5. CallInv'
    BY <2>2, <2>3 DEF IInv, TypeOK, CallInv, workVars
  <2> QED
    BY <2>2, <2>3, <2>4, <2>5 DEF workVars, histVars, IInv, TypeOK, CallInv, WorkerInv,
      LeaseInv, HoldInv, AckLost, SafeLeases, SafeAcks, SuccessWasHandled,
      DisjointBatches, DeadWasSpent, InHandler
<1> QED BY <1>1, <1>2, ZenonT(30) DEF EnqueueInsert

LEMMA EnqueueReselectKeeps == ASSUME IInv, NEW j \in Jobs, EnqueueReselect(j) PROVE IInv'
BY ParametersAssumption
DEF EnqueueReselect, rowVars, workVars, histVars,
    IInv, TypeOK, CallInv, WorkerInv, LeaseInv, HoldInv, AckLost,
    SafeLeases, SafeAcks, SuccessWasHandled, DisjointBatches, DeadWasSpent,
    InHandler, Active, Settled

-----------------------------------------------------------------------------
(* The claim and the loop of a worker                                      *)

LEMMA StartRunKeeps == ASSUME IInv, NEW w \in Workers, StartRun(w) PROVE IInv'
BY ParametersAssumption
DEF StartRun, BelowCap, rowVars, histVars,
    IInv, TypeOK, CallInv, WorkerInv, LeaseInv, HoldInv, AckLost,
    SafeLeases, SafeAcks, SuccessWasHandled, DisjointBatches, DeadWasSpent,
    InHandler, Active, Settled

LEMMA ClaimNothingKeeps == ASSUME IInv, NEW w \in Workers, ClaimNothing(w) PROVE IInv'
BY ParametersAssumption
DEF ClaimNothing, EndRun, rowVars, histVars,
    IInv, TypeOK, CallInv, WorkerInv, LeaseInv, HoldInv, AckLost,
    SafeLeases, SafeAcks, SuccessWasHandled, DisjointBatches, DeadWasSpent,
    InHandler, Active, Settled

LEMMA ClaimKeeps ==
    ASSUME IInv, NEW w \in Workers, Claim(w)
    PROVE  IInv'
<1>1. PICK S \in SUBSET {j \in Jobs : Runnable(j, eligible[w])} :
         /\ state' = [j \in Jobs |-> IF j \in S THEN "running" ELSE state[j]]
         /\ attempts' = [j \in Jobs |->
                           IF j \in S THEN attempts[j] + 1 ELSE attempts[j]]
         /\ lease' = [j \in Jobs |-> IF j \in S THEN "live" ELSE lease[j]]
         /\ batch' = [batch EXCEPT ![w] = S]
         /\ snap' = [snap EXCEPT ![w] =
                       [j \in Jobs |-> IF j \in S THEN attempts[j] + 1 ELSE 0]]
  BY DEF Claim
<1>2. /\ pc[w] = "counted" /\ pc' = [pc EXCEPT ![w] = "claimed"]
      /\ eligible' = [eligible EXCEPT ![w] = {}]
      /\ UNCHANGED <<due, call, cur, histVars, faults, replays>>
  BY DEF Claim
<1>3. \A j \in S : /\ j \in Jobs
                   /\ \/ state[j] = "pending"
                      \/ state[j] = "running" /\ lease[j] = "expired"
  BY <1>1 DEF Runnable
<1>4. TypeOK'
  BY <1>1, <1>2, <1>3 DEF IInv, TypeOK, Active, Settled, histVars
<1>5. CallInv'
  <2>1. \A j \in S : call[j] = "created"
    BY <1>3 DEF IInv, CallInv
  <2>2. \A j \in Jobs : call[j] # "created" => state'[j] = "absent"
    BY <1>1, <1>3 DEF IInv, CallInv
  <2>3. \A v \in Workers : \A j \in batch'[v] : call[j] = "created"
    BY <1>1, <2>1 DEF IInv, TypeOK, CallInv
  <2> QED BY <1>2, <2>2, <2>3 DEF CallInv
<1>6. WorkerInv'
  BY <1>1, <1>2 DEF IInv, TypeOK, WorkerInv, InHandler, histVars
<1>7. LeaseInv'
  BY <1>1, <1>3 DEF IInv, TypeOK, LeaseInv
<1>8. HoldInv'
  <2> SUFFICES ASSUME SafeLeases, NEW v \in Workers, NEW j \in batch'[v]
               PROVE  /\ attempts'[j] = snap'[v][j]
                      /\ (state'[j] = "running" /\ lease'[j] = "live") \/ AckLost(v, j)'
    BY DEF HoldInv, SafeLeases
  <2>1. CASE v = w
    BY <1>1, <1>3, <2>1 DEF IInv, TypeOK
  <2>2. CASE v # w
    <3>1. j \in batch[v] /\ snap'[v] = snap[v]
      BY <1>1, <2>2 DEF IInv, TypeOK
    <3>2. /\ attempts[j] = snap[v][j]
          /\ (state[j] = "running" /\ lease[j] = "live") \/ AckLost(v, j)
      BY <3>1 DEF IInv, HoldInv
    <3>3. j \in Jobs /\ j \notin S
      BY <1>3, <3>1, <3>2 DEF IInv, TypeOK, AckLost
    <3>4. attempts'[j] = attempts[j] /\ state'[j] = state[j] /\ lease'[j] = lease[j]
      BY <1>1, <3>3
    <3>5. pc'[v] = pc[v] /\ cur'[v] = cur[v]
      BY <1>2, <2>2 DEF IInv, TypeOK
    <3> QED BY <3>1, <3>2, <3>4, <3>5 DEF AckLost, SafeAcks
  <2> QED BY <2>1, <2>2
<1>9. DisjointBatches'
  BY <1>1, <1>3 DEF IInv, TypeOK, HoldInv, AckLost, DisjointBatches, SafeLeases
<1>10. SuccessWasHandled' /\ DeadWasSpent'
  BY <1>1, <1>2, <1>3 DEF IInv, TypeOK, SuccessWasHandled, DeadWasSpent, SafeLeases, histVars
<1> QED BY <1>4, <1>5, <1>6, <1>7, <1>8, <1>9, <1>10 DEF IInv

LEMMA NextJobKeeps == ASSUME IInv, NEW w \in Workers, NextJob(w) PROVE IInv'
BY ParametersAssumption
DEF NextJob, rowVars, histVars,
    IInv, TypeOK, CallInv, WorkerInv, LeaseInv, HoldInv, AckLost,
    SafeLeases, SafeAcks, SuccessWasHandled, DisjointBatches, DeadWasSpent,
    InHandler, Active, Settled

LEMMA ReleaseRestKeeps == ASSUME IInv, NEW w \in Workers, ReleaseRest(w) PROVE IInv'
BY ParametersAssumption
DEF ReleaseRest, Fault, EndRun, histVars,
    IInv, TypeOK, CallInv, WorkerInv, LeaseInv, HoldInv, AckLost,
    SafeLeases, SafeAcks, SuccessWasHandled, DisjointBatches, DeadWasSpent,
    InHandler, Active, Settled

LEMMA HandlerReturnsKeeps == ASSUME IInv, NEW w \in Workers, HandlerReturns(w) PROVE IInv'
BY ParametersAssumption
DEF HandlerReturns, rowVars,
    IInv, TypeOK, CallInv, WorkerInv, LeaseInv, HoldInv, AckLost,
    SafeLeases, SafeAcks, SuccessWasHandled, DisjointBatches, DeadWasSpent,
    InHandler, Active, Settled

LEMMA HandlerThrowsKeeps == ASSUME IInv, NEW w \in Workers, HandlerThrows(w) PROVE IInv'
BY ParametersAssumption
DEF HandlerThrows, rowVars,
    IInv, TypeOK, CallInv, WorkerInv, LeaseInv, HoldInv, AckLost,
    SafeLeases, SafeAcks, SuccessWasHandled, DisjointBatches, DeadWasSpent,
    InHandler, Active, Settled

\* What going on with the rest of the batch, or ending the run, does to the
\* worker that leaves its job and to the others.
LEMMA LeaveJobEffect ==
    ASSUME TypeOK, NEW w \in Workers, cur[w] \in batch[w], LeaveJob(w)
    PROVE  /\ pc' \in [Workers -> {"idle", "counted", "claimed", "looping",
                          "handling", "returned", "threw", "threw_permanent"}]
           /\ eligible' \in [Workers -> SUBSET Types]
           /\ batch' \in [Workers -> SUBSET Jobs]
           /\ cur' \in [Workers -> Jobs \union {NoJob}]
           /\ snap' \in [Workers -> [Jobs -> Nat]]
           /\ pc'[w] \in {"idle", "looping"}
           /\ pc'[w] = "idle" => batch'[w] = {}
           /\ cur[w] \notin batch'[w]
           /\ \A j \in batch'[w] : j \in batch[w] /\ snap'[w][j] = snap[w][j]
           /\ \A v \in Workers \ {w} :
                 /\ pc'[v] = pc[v] /\ batch'[v] = batch[v]
                 /\ cur'[v] = cur[v] /\ snap'[v] = snap[v]
<1> DEFINE zero == [j \in Jobs |-> 0]
<1>0. zero \in [Jobs -> Nat] /\ cur[w] \in Jobs
  BY DEF TypeOK
<1>1. CASE batch[w] = {cur[w]}
  <2>1. EndRun(w)
    BY <1>1 DEF LeaveJob
  <2>2. snap' = [snap EXCEPT ![w] = zero]
    BY <2>1 DEF EndRun
  <2> HIDE DEF zero
  <2> QED BY <2>1, <2>2, <1>0 DEF EndRun, TypeOK
<1>2. CASE batch[w] # {cur[w]}
  <2>1. /\ pc' = [pc EXCEPT ![w] = "looping"]
        /\ batch' = [batch EXCEPT ![w] = @ \ {cur[w]}]
        /\ cur' = [cur EXCEPT ![w] = NoJob]
        /\ snap' = [snap EXCEPT ![w] = [snap[w] EXCEPT ![cur[w]] = 0]]
        /\ eligible' = eligible
    BY <1>2 DEF LeaveJob
  <2>2. [snap[w] EXCEPT ![cur[w]] = 0] \in [Jobs -> Nat]
    BY <1>0 DEF TypeOK
  <2> QED BY <1>0, <2>1, <2>2 DEF TypeOK
<1> QED BY <1>1, <1>2

LEMMA CompleteKeeps ==
    ASSUME IInv, NEW w \in Workers, Complete(w)
    PROVE  IInv'
<1>1. cur[w] \in Jobs /\ cur[w] \in batch[w] /\ call[cur[w]] = "created"
  BY DEF IInv, TypeOK, WorkerInv, CallInv, InHandler, Complete
<1>2. /\ pc[w] = "returned" /\ cur[w] \in handled
      /\ state' = [state EXCEPT ![cur[w]] = "succeeded"]
      /\ lease' = [lease EXCEPT ![cur[w]] = "none"]
      /\ UNCHANGED <<attempts, due, call, handled, poisoned, faults, replays>>
  BY DEF Complete, SetSucceeded, histVars, IInv, WorkerInv
<1> USE LeaveJobEffect, <1>1, <1>2
<1>3. LeaveJob(w)
  BY DEF Complete
<1>4. TypeOK'
  <2>1. /\ state' \in [Jobs -> {"absent"} \union Active \union Settled]
        /\ lease' \in [Jobs -> {"none", "live", "expired"}]
    BY DEF IInv, TypeOK, Active, Settled
  <2> QED BY <1>3, <2>1 DEF IInv, TypeOK
<1>5. CallInv'
  <2>1. \A j \in Jobs : call[j] # "created" => state'[j] = "absent"
    BY DEF IInv, TypeOK, CallInv
  <2>2. \A v \in Workers : batch'[v] \subseteq batch[v]
    BY <1>3 DEF IInv
  <2> QED BY <2>1, <2>2 DEF IInv, CallInv
<1>6. WorkerInv'
  BY <1>3 DEF IInv, TypeOK, WorkerInv, InHandler
<1>7. LeaseInv'
  BY DEF IInv, TypeOK, LeaseInv
<1>8. HoldInv'
  <2> SUFFICES ASSUME SafeLeases, NEW v \in Workers, NEW j \in batch'[v]
               PROVE  /\ attempts[j] = snap'[v][j]
                      /\ \/ state'[j] = "running" /\ lease'[j] = "live"
                         \/ AckLost(v, j)'
    BY DEF HoldInv, SafeLeases
  <2>1. j \in batch[v] /\ j \in Jobs /\ j # cur[w] /\ snap'[v][j] = snap[v][j]
    <3>1. CASE v = w
      BY <1>3, <3>1 DEF IInv, TypeOK
    <3>2. CASE v # w
      BY <1>3, <3>2 DEF IInv, TypeOK, DisjointBatches
    <3> QED BY <3>1, <3>2
  <2>2. /\ attempts[j] = snap[v][j]
        /\ \/ state[j] = "running" /\ lease[j] = "live"
           \/ AckLost(v, j)
    BY <2>1 DEF IInv, HoldInv
  <2>3. state'[j] = state[j] /\ lease'[j] = lease[j]
    BY <2>1 DEF IInv, TypeOK
  <2>4. AckLost(v, j) => v # w
    BY <2>1 DEF AckLost
  <2>5. AckLost(v, j) => AckLost(v, j)'
    BY <1>3, <2>3, <2>4 DEF IInv, AckLost, SafeAcks
  <2> QED BY <2>1, <2>2, <2>3, <2>5
<1>9. SuccessWasHandled'
  BY DEF IInv, TypeOK, SuccessWasHandled
<1>10. DisjointBatches'
  <2>1. \A v \in Workers : batch'[v] \subseteq batch[v]
    BY <1>3 DEF IInv
  <2> QED BY <2>1 DEF IInv, DisjointBatches, SafeLeases
<1>11. DeadWasSpent'
  BY DEF IInv, TypeOK, DeadWasSpent, SafeLeases
<1> QED BY <1>4, <1>5, <1>6, <1>7, <1>8, <1>9, <1>10, <1>11 DEF IInv

LEMMA CompleteThrowsKeeps ==
    ASSUME IInv, NEW w \in Workers, CompleteThrows(w)
    PROVE  IInv'
<1>1. /\ cur[w] \in batch[w] /\ cur[w] \in Jobs /\ cur[w] \in handled
      /\ call[cur[w]] = "created"
  BY DEF IInv, TypeOK, WorkerInv, CallInv, InHandler, CompleteThrows
<1>2. CASE UNCHANGED rowVars
  BY ParametersAssumption, <1>1, <1>2 DEF CompleteThrows, Fault, rowVars, histVars,
    IInv, TypeOK, CallInv, WorkerInv, LeaseInv, HoldInv, AckLost,
    SafeLeases, SafeAcks, SuccessWasHandled, DisjointBatches, DeadWasSpent,
    InHandler, Active, Settled
<1>3. CASE Fault("ack_lost") /\ SetSucceeded(cur[w])
  BY ParametersAssumption, <1>1, <1>3 DEF CompleteThrows, Fault, SetSucceeded, histVars,
    IInv, TypeOK, CallInv, WorkerInv, LeaseInv, HoldInv, AckLost,
    SafeLeases, SafeAcks, SuccessWasHandled, DisjointBatches, DeadWasSpent,
    InHandler, Active, Settled
<1> QED BY <1>2, <1>3 DEF CompleteThrows

LEMMA RecordFailureKeeps ==
    ASSUME IInv, NEW w \in Workers, RecordFailure(w)
    PROVE  IInv'
<1>1. /\ cur[w] \in Jobs /\ cur[w] \in batch[w] /\ call[cur[w]] = "created"
      /\ UNCHANGED <<call, handled, poisoned, faults, replays>>
  BY DEF IInv, TypeOK, WorkerInv, CallInv, InHandler, RecordFailure, histVars
<1>2. CASE /\ state' = [state EXCEPT ![cur[w]] = FailedState(w)]
           /\ due' = [due EXCEPT ![cur[w]] = @ /\ FailedState(w) = "dead"]
           /\ lease' = [lease EXCEPT ![cur[w]] = "none"]
           /\ UNCHANGED attempts
           /\ LeaveJob(w)
  <2>1. /\ FailedState(w) \in {"dead", "pending"}
        /\ SafeLeases /\ FailedState(w) = "dead" =>
              cur[w] \in poisoned \/ attempts[cur[w]] >= MaxAttempts
    BY <1>1 DEF IInv, TypeOK, WorkerInv, HoldInv, FailedState, Exhausted
  <2> USE LeaveJobEffect, <1>1, <1>2, <2>1
  <2>2. TypeOK'
    <3>1. due' \in [Jobs -> BOOLEAN]
      BY Zenon DEF IInv, TypeOK
    <3>2. /\ state' \in [Jobs -> {"absent"} \union Active \union Settled]
          /\ lease' \in [Jobs -> {"none", "live", "expired"}]
      BY DEF IInv, TypeOK, Active, Settled
    <3> QED BY <3>1, <3>2 DEF IInv, TypeOK
  <2>3. CallInv'
    <3>1. \A j \in Jobs : call[j] # "created" => state'[j] = "absent"
      BY DEF IInv, TypeOK, CallInv
    <3>2. \A v \in Workers : batch'[v] \subseteq batch[v]
      BY DEF IInv
    <3> QED BY <3>1, <3>2 DEF IInv, CallInv
  <2>4. WorkerInv'
    <3> SUFFICES ASSUME NEW v \in Workers
                 PROVE  /\ pc'[v] \in InHandler => cur'[v] \in batch'[v]
                        /\ pc'[v] \in {"idle", "counted"} => batch'[v] = {}
                        /\ pc'[v] = "returned" => cur'[v] \in handled
                        /\ pc'[v] = "threw_permanent" => cur'[v] \in poisoned
      BY DEF WorkerInv
    <3>1. CASE v = w
      BY <3>1 DEF IInv, TypeOK, InHandler
    <3>2. CASE v # w
      BY <3>2 DEF IInv, TypeOK, WorkerInv
    <3> QED BY <3>1, <3>2
  <2>5. LeaseInv'
    BY DEF IInv, TypeOK, LeaseInv
  <2>6. HoldInv'
    <3> SUFFICES ASSUME SafeLeases, NEW v \in Workers, NEW j \in batch'[v]
                 PROVE  /\ attempts[j] = snap'[v][j]
                        /\ \/ state'[j] = "running" /\ lease'[j] = "live"
                           \/ AckLost(v, j)'
      BY DEF HoldInv, SafeLeases
    <3>1. j \in batch[v] /\ j \in Jobs /\ j # cur[w] /\ snap'[v][j] = snap[v][j]
      BY DEF IInv, TypeOK, DisjointBatches
    <3>2. /\ attempts[j] = snap[v][j]
          /\ \/ state[j] = "running" /\ lease[j] = "live"
             \/ AckLost(v, j)
      BY <3>1 DEF IInv, HoldInv
    <3>3. state'[j] = state[j] /\ lease'[j] = lease[j]
      BY <3>1 DEF IInv, TypeOK
    <3>4. AckLost(v, j) => v # w
      BY <3>1 DEF AckLost
    <3>5. AckLost(v, j) => AckLost(v, j)'
      BY <3>3, <3>4 DEF IInv, AckLost, SafeAcks
    <3> QED BY <3>1, <3>2, <3>3, <3>5
  <2>7. SuccessWasHandled'
    BY DEF IInv, TypeOK, SuccessWasHandled
  <2>8. DisjointBatches'
    BY DEF IInv, TypeOK, DisjointBatches, SafeLeases
  <2>9. DeadWasSpent'
    BY DEF IInv, TypeOK, DeadWasSpent, SafeLeases
  <2> QED BY <2>2, <2>3, <2>4, <2>5, <2>6, <2>7, <2>8, <2>9 DEF IInv
<1>3. CASE UNCHANGED rowVars /\ EndRun(w)
  BY <1>1, <1>3 DEF IInv, TypeOK, CallInv, WorkerInv, LeaseInv, HoldInv, AckLost,
     SuccessWasHandled, DisjointBatches, DeadWasSpent, InHandler, EndRun, rowVars
<1> QED BY <1>2, <1>3 DEF RecordFailure

LEMMA CrashKeeps == ASSUME IInv, NEW w \in Workers, Crash(w) PROVE IInv'
BY ParametersAssumption
DEF Crash, Fault, EndRun, rowVars, histVars,
    IInv, TypeOK, CallInv, WorkerInv, LeaseInv, HoldInv, AckLost,
    SafeLeases, SafeAcks, SuccessWasHandled, DisjointBatches, DeadWasSpent,
    InHandler, Active, Settled

-----------------------------------------------------------------------------
(* The sweep, the operator and the passage of time                         *)

LEMMA ReclaimKeeps == ASSUME IInv, Reclaim PROVE IInv'
BY ParametersAssumption
DEF Reclaim, Exhausted, workVars, histVars,
    IInv, TypeOK, CallInv, WorkerInv, LeaseInv, HoldInv, AckLost,
    SafeLeases, SafeAcks, SuccessWasHandled, DisjointBatches, DeadWasSpent,
    InHandler, Active, Settled

LEMMA PurgeKeeps == ASSUME IInv, Purge PROVE IInv'
BY ParametersAssumption
DEF Purge, workVars, histVars,
    IInv, TypeOK, CallInv, WorkerInv, LeaseInv, HoldInv, AckLost,
    SafeLeases, SafeAcks, SuccessWasHandled, DisjointBatches, DeadWasSpent,
    InHandler, Active, Settled

LEMMA ReplayKeeps == ASSUME IInv, Replay PROVE IInv'
<1>1. PICK S \in SUBSET {j \in Jobs : Replayable(j)} :
         /\ state' = [j \in Jobs |-> IF j \in S THEN "pending" ELSE state[j]]
         /\ attempts' = [j \in Jobs |-> IF j \in S THEN 0 ELSE attempts[j]]
         /\ due' = [j \in Jobs |-> IF j \in S THEN TRUE ELSE due[j]]
  BY DEF Replay
<1>2. /\ \A j \in S : state[j] = "dead"
      /\ replays < MaxReplays /\ replays' = replays + 1
      /\ UNCHANGED <<lease, call, workVars, histVars, faults>>
  BY DEF Replay, Replayable
<1>3. TypeOK'
  <2>1. due' \in [Jobs -> BOOLEAN]
    BY <1>1, Zenon DEF IInv, TypeOK
  <2>2. /\ state' \in [Jobs -> {"absent"} \union Active \union Settled]
        /\ attempts' \in [Jobs -> Nat]
        /\ replays' \in 0..MaxReplays
    BY <1>1, <1>2, ParametersAssumption DEF IInv, TypeOK, Active, Settled
  <2> QED BY <1>2, <2>1, <2>2 DEF IInv, TypeOK, workVars, histVars
<1>4. CallInv' /\ WorkerInv' /\ LeaseInv'
  BY <1>1, <1>2 DEF IInv, TypeOK, CallInv, WorkerInv, LeaseInv, InHandler, workVars, histVars
<1>5. HoldInv'
  BY <1>1, <1>2 DEF IInv, TypeOK, HoldInv, AckLost, SafeLeases, SafeAcks, workVars
<1>6. SuccessWasHandled' /\ DisjointBatches' /\ DeadWasSpent'
  BY <1>1, <1>2 DEF IInv, TypeOK, SuccessWasHandled, DisjointBatches, DeadWasSpent,
     SafeLeases, workVars, histVars
<1> QED BY <1>3, <1>4, <1>5, <1>6 DEF IInv

LEMMA BecomesDueKeeps == ASSUME IInv, NEW j \in Jobs, BecomesDue(j) PROVE IInv'
BY ParametersAssumption
DEF BecomesDue, workVars, histVars,
    IInv, TypeOK, CallInv, WorkerInv, LeaseInv, HoldInv, AckLost,
    SafeLeases, SafeAcks, SuccessWasHandled, DisjointBatches, DeadWasSpent,
    InHandler, Active, Settled

LEMMA LeaseExpiresKeeps == ASSUME IInv, NEW j \in Jobs, LeaseExpires(j) PROVE IInv'
BY ParametersAssumption
DEF LeaseExpires, Held, Fault, workVars, histVars,
    IInv, TypeOK, CallInv, WorkerInv, LeaseInv, HoldInv, AckLost,
    SafeLeases, SafeAcks, SuccessWasHandled, DisjointBatches, DeadWasSpent,
    InHandler, Active, Settled

-----------------------------------------------------------------------------
(* The invariant and its consequences                                      *)

LEMMA StutterKeeps == ASSUME IInv, UNCHANGED vars PROVE IInv'
BY DEF vars, rowVars, workVars, histVars,
    IInv, TypeOK, CallInv, WorkerInv, LeaseInv, HoldInv, AckLost,
    SafeLeases, SafeAcks, SuccessWasHandled, DisjointBatches, DeadWasSpent,
    InHandler, Active, Settled

\* IInv is an inductive invariant: every action of every invocation, producer,
\* sweep and operator preserves it.
THEOREM Invariant == Spec => []IInv
<1>1. ASSUME IInv, [Next]_vars PROVE IInv'
  <2>1. CASE \E w \in Workers : WorkerStep(w)
    BY <1>1, <2>1, StartRunKeeps, ClaimNothingKeeps, ClaimKeeps, NextJobKeeps,
       ReleaseRestKeeps, HandlerReturnsKeeps, HandlerThrowsKeeps, CompleteKeeps,
       CompleteThrowsKeeps, RecordFailureKeeps, CrashKeeps
    DEF WorkerStep
  <2>2. CASE \E j \in Jobs : JobStep(j)
    BY <1>1, <2>2, EnqueueInsertKeeps, EnqueueReselectKeeps, BecomesDueKeeps,
       LeaseExpiresKeeps
    DEF JobStep
  <2>3. CASE Reclaim \/ Purge \/ Replay
    BY <1>1, <2>3, ReclaimKeeps, PurgeKeeps, ReplayKeeps
  <2>4. CASE UNCHANGED vars
    BY <1>1, <2>4, StutterKeeps
  <2> QED BY <1>1, <2>1, <2>2, <2>3, <2>4 DEF Next
<1> QED BY InitIInv, <1>1, PTL DEF Spec

\* The state of the queue, its workers and its producers is well typed, and the
\* counters of faults and replays stay within their bounds.
THEOREM Typed == Spec => []TypeOK
<1>1. IInv => TypeOK
  BY DEF IInv
<1> QED BY Invariant, <1>1, PTL

\* No job is recorded as succeeded before its handler has returned, whatever
\* crashes, steals and failed statements happen.
THEOREM NoSilentSuccess == Spec => []SuccessWasHandled
<1>1. IInv => SuccessWasHandled
  BY DEF IInv
<1> QED BY Invariant, <1>1, PTL

\* The claim gives a job to one invocation at a time while leases outlive the
\* invocations that hold them.
THEOREM ExclusiveHandling == Spec => []DisjointBatches
<1>1. IInv => DisjointBatches
  BY DEF IInv
<1> QED BY Invariant, <1>1, PTL

\* Only a permanent error or used-up attempts dead-letter a job.
THEOREM NoEarlyDeath == Spec => []DeadWasSpent
<1>1. IInv => DeadWasSpent
  BY DEF IInv
<1> QED BY Invariant, <1>1, PTL

\* With safe leases and acknowledged updates no step brings back a job that was
\* recorded as succeeded.
THEOREM SuccessStays == Spec => SuccessIsFinal
<1> DEFINE Final == {"succeeded", "purged"}
           Keep == SafeLeases /\ SafeAcks =>
                     \A j \in Jobs : state[j] \in Final => state'[j] \in Final
<1>1. ASSUME IInv, Next PROVE Keep
  <2> SUFFICES ASSUME SafeLeases, SafeAcks, NEW j \in Jobs, state[j] \in Final
               PROVE  state'[j] \in Final
    OBVIOUS
  <2>1. ASSUME NEW w \in Workers, WorkerStep(w) PROVE state'[j] \in Final
    <3>1. CASE Claim(w)
      BY <1>1, <3>1 DEF Claim, Runnable
    <3>2. CASE ReleaseRest(w)
      BY <1>1, <3>2 DEF ReleaseRest
    <3>3. CASE Complete(w) \/ CompleteThrows(w)
      BY <1>1, <3>3 DEF Complete, CompleteThrows, SetSucceeded, rowVars, IInv, TypeOK
    <3>4. CASE RecordFailure(w)
      <4>1. cur[w] \in batch[w] /\ state[cur[w]] = "running"
        BY <1>1, <3>4 DEF RecordFailure, IInv, WorkerInv, InHandler, HoldInv, AckLost
      <4> QED BY <1>1, <3>4, <4>1 DEF RecordFailure, rowVars, IInv, TypeOK
    <3>5. CASE UNCHANGED state
      BY <3>5
    <3> QED
      BY <2>1, <3>1, <3>2, <3>3, <3>4, <3>5
      DEF WorkerStep, StartRun, ClaimNothing, NextJob, HandlerReturns, HandlerThrows,
          Crash, rowVars
  <2>2. ASSUME NEW i \in Jobs, JobStep(i) PROVE state'[j] \in Final
    BY <1>1, <2>2 DEF JobStep, EnqueueInsert, EnqueueReselect, BecomesDue, LeaseExpires,
       rowVars, IInv, TypeOK, CallInv
  <2>3. CASE Reclaim \/ Purge \/ Replay
    BY <2>3 DEF Reclaim, Purge, Replay, Replayable
  <2> QED BY <1>1, <2>1, <2>2, <2>3 DEF Next
<1>2. IInv /\ [Next]_vars => [Keep]_vars
  BY <1>1
<1> QED BY Invariant, <1>2, PTL DEF Spec, SuccessIsFinal

\* The statements that return a row to 'pending' are the only ones that can hit
\* the unique index, and the index rejects them: an idempotency key never has
\* two active rows.
THEOREM OneActiveRowPerKey == Spec => []ActiveKeysUnique
<1>1. Init => ActiveKeysUnique
  BY DEF Init, ActiveKeysUnique, Active
<1>2. ASSUME IInv, ActiveKeysUnique, [Next]_vars PROVE ActiveKeysUnique'
  <2> DEFINE NoneActivated ==
        \A j \in Jobs : state'[j] \in Active => state[j] \in Active
  <2>1. NoneActivated => ActiveKeysUnique'
    BY <1>2 DEF ActiveKeysUnique
  <2>2. ASSUME NEW w \in Workers, WorkerStep(w)
        PROVE  NoneActivated \/ IndexAdmits(state')
    <3>1. CASE Claim(w)
      BY <1>2, <3>1 DEF Claim, Runnable, Active
    <3>2. CASE ReleaseRest(w)
      BY <1>2, <3>2 DEF ReleaseRest, Active
    <3>3. CASE Complete(w) \/ CompleteThrows(w)
      BY <1>2, <3>3 DEF Complete, CompleteThrows, SetSucceeded, rowVars, IInv, TypeOK, Active
    <3>4. CASE RecordFailure(w)
      BY <1>2, <3>4 DEF RecordFailure, rowVars
    <3>5. CASE UNCHANGED state
      BY <3>5
    <3> QED
      BY <2>2, <3>1, <3>2, <3>3, <3>4, <3>5
      DEF WorkerStep, StartRun, ClaimNothing, NextJob, HandlerReturns, HandlerThrows,
          Crash, rowVars
  <2>3. ASSUME NEW j \in Jobs, JobStep(j)
        PROVE  NoneActivated \/ IndexAdmits(state')
    BY <1>2, <2>3 DEF JobStep, EnqueueInsert, EnqueueReselect, BecomesDue, LeaseExpires,
       rowVars
  <2>4. ASSUME Reclaim \/ Purge \/ Replay
        PROVE  NoneActivated \/ IndexAdmits(state')
    BY <1>2, <2>4 DEF Reclaim, Purge, Replay, Active
  <2>5. CASE UNCHANGED vars
    BY <1>2, <2>5 DEF vars, rowVars, ActiveKeysUnique
  <2>6. IndexAdmits(state') => ActiveKeysUnique'
    BY DEF IndexAdmits, ActiveKeysUnique
  <2> QED BY <1>2, <2>1, <2>2, <2>3, <2>4, <2>5, <2>6 DEF Next
<1> QED BY Invariant, <1>1, <1>2, PTL DEF Spec

-----------------------------------------------------------------------------
(* Every attempt over the limit is paid for                                *)



\* Two finite sets of pairs: each pair that joins pushes out one of w's, on the
\* same second component, and no two that join share it.
LEMMA SwapCount ==
    ASSUME NEW w, NEW S, NEW T, IsFiniteSet(S),
           \A p \in T \ S : <<w, p[2]>> \in S \ T,
           \A p, q \in T \ S : p[2] = q[2] => p = q
    PROVE  IsFiniteSet(T) /\ Cardinality(T) <= Cardinality(S)
<1> DEFINE f == [p \in T |-> IF p \in S THEN p ELSE <<w, p[2]>>]
<1>1. f \in [T -> S]
  OBVIOUS
<1>2. ASSUME NEW p \in T, NEW q \in T, f[p] = f[q] PROVE p = q
  <2>1. CASE p \in S /\ q \in S
    BY <1>2, <2>1
  <2>2. CASE p \in S /\ q \notin S
    BY <1>2, <2>2
  <2>3. CASE p \notin S /\ q \in S
    BY <1>2, <2>3
  <2>4. CASE p \notin S /\ q \notin S
    <3>1. <<w, p[2]>> = <<w, q[2]>>
      BY <1>2, <2>4
    <3> QED BY <2>4, <3>1
  <2> QED BY <2>1, <2>2, <2>3, <2>4
<1>3. f \in Injection(T, S)
  <2> HIDE DEF f
  <2> QED BY <1>1, <1>2 DEF Injection, IsInjective
<1> QED BY <1>3, FS_Injection

\* The same when a pair leaves that none of the joining ones pushes out.
LEMMA SwapCountLess ==
    ASSUME NEW w, NEW S, NEW T, IsFiniteSet(S), NEW d, d \in S \ T,
           \A p \in T \ S : <<w, p[2]>> \in (S \ {d}) \ T,
           \A p, q \in T \ S : p[2] = q[2] => p = q
    PROVE  Cardinality(T) < Cardinality(S)
<1> DEFINE R == S \ {d}
<1>1. IsFiniteSet(R) /\ Cardinality(R) = Cardinality(S) - 1
  BY FS_RemoveElement
<1>2. T \ R = T \ S
  OBVIOUS
<1>3. \A p \in T \ R : <<w, p[2]>> \in R \ T
  BY <1>2
<1>4. \A p, q \in T \ R : p[2] = q[2] => p = q
  BY <1>2
<1> HIDE DEF R
<1>5. IsFiniteSet(T) /\ Cardinality(T) <= Cardinality(R)
  BY <1>1, <1>3, <1>4, SwapCount
<1> QED BY <1>1, <1>5, FS_CardinalityType

LEMMA OneMore ==
    ASSUME NEW S, NEW p, NEW T \in SUBSET (S \union {p}), IsFiniteSet(S)
    PROVE  IsFiniteSet(T) /\ Cardinality(T) <= Cardinality(S) + 1
<1>1. /\ IsFiniteSet(S \union {p})
      /\ Cardinality(S \union {p}) <= Cardinality(S) + 1
  <2>1. /\ IsFiniteSet(S \cup {p})
        /\ Cardinality(S \cup {p}) = IF p \in S THEN Cardinality(S) ELSE Cardinality(S) + 1
    BY FS_AddElement
  <2>2. Cardinality(S) \in Nat
    BY FS_CardinalityType
  <2> QED BY <2>1, <2>2
<1> QED BY <1>1, FS_Subset, FS_CardinalityType

\* What a subset of paid stale holds adds stays within the faults.
LEMMA WithinFaults ==
    ASSUME NEW T, IsFiniteSet(T), NEW f \in Nat, Cardinality(T) <= f,
           NEW H \in SUBSET T, NEW a \in Nat, a <= MaxAttempts
    PROVE  a + Cardinality(H) <= MaxAttempts + f
BY FS_Subset, FS_CardinalityType, ParametersAssumption

LEMMA WithNextType ==
    ASSUME TypeOK, NEW O, NEW k \in Jobs
    PROVE  /\ WithNext(O, k) \in Nat
           /\ attempts[k] <= WithNext(O, k) /\ WithNext(O, k) <= attempts[k] + 1
BY DEF TypeOK, WithNext

LEMMA WithNextTypePrime ==
    ASSUME TypeOK', NEW O, NEW k \in Jobs
    PROVE  /\ WithNext(O, k)' \in Nat
           /\ attempts'[k] <= WithNext(O, k)' /\ WithNext(O, k)' <= attempts'[k] + 1
BY DEF TypeOK, WithNext

\* A step that takes holds away.  The rightful holds it leaves as they are are
\* O2; where it makes another one stale, w gives up a stale hold of that row.
HoldsLeave(O, O2, w) ==
    /\ O2 \subseteq O
    /\ \A h \in Holds' : h \in Holds /\ snap'[h[1]][h[2]] = snap[h[1]][h[2]]
    /\ \A h \in O2 : /\ h \in Holds'
                     /\ state'[h[2]] = state[h[2]]
                     /\ lease'[h[2]] = lease[h[2]]
                     /\ attempts'[h[2]] = attempts[h[2]]
    /\ \A h \in O \ O2 : <<w, h[2]>> \in Holds \ Holds'

\* What the next claims may cost more is cheap, paid by a fault, or paid by a
\* harmful hold that leaves.
ChargesPaid(O, O2, w) ==
    /\ faults <= faults'
    /\ \A k \in Jobs :
         /\ attempts'[k] <= attempts[k]
         /\ \/ WithNext(O2, k)' <= MaxAttempts
            \/ WithNext(O2, k)' <= WithNext(O, k) + (faults' - faults)
            \/ \E d \in Harmful(O, k) \ Holds' :
                 \A h \in (O \ O2) \cap Holds' : h[2] # k => d # <<w, h[2]>>

LEMMA LeaveStep ==
    ASSUME TypeOK, TypeOK', NEW O, PaidWith(O), NEW O2, NEW w,
           HoldsLeave(O, O2, w), ChargesPaid(O, O2, w)
    PROVE  PaidWith(O2)'
<1> USE DEF HoldsLeave, ChargesPaid
<1> DEFINE S == Stale(O)
           T == Stale(O2)'
           New == (O \ O2) \cap Holds'
<1>0. /\ faults \in Nat /\ faults' \in Nat /\ MaxAttempts \in Nat
      /\ \A h \in Holds : h = <<h[1], h[2]>> /\ h[2] \in Jobs
      /\ O \subseteq Holds /\ \A g, h \in O : g[2] = h[2] => g = h
      /\ IsFiniteSet(S) /\ Cardinality(S) <= faults
  BY ParametersAssumption DEF TypeOK, Holds, PaidWith, Rightful
<1>1. Rightful(O2)'
  BY DEF PaidWith, Rightful
<1>2. T \ S = New
  BY DEF Stale
<1>3. \A p \in New : <<w, p[2]>> \in S \ T
  BY <1>0 DEF Stale
<1>4. \A p, q \in New : p[2] = q[2] => p = q
  BY <1>0
<1>5. IsFiniteSet(T) /\ Cardinality(T) <= faults'
  <2>1. IsFiniteSet(T) /\ Cardinality(T) <= Cardinality(S)
    <3> HIDE DEF S, T, New
    <3> QED BY <1>0, <1>2, <1>3, <1>4, SwapCount
  <2> QED BY <1>0, <2>1, FS_CardinalityType
<1>6. ASSUME NEW k \in Jobs
      PROVE  WithNext(O2, k)' + Cardinality(Harmful(O2, k)') <= MaxAttempts + faults'
  <2> DEFINE HS == Harmful(O, k)
             HT == Harmful(O2, k)'
             a == WithNext(O, k)
             b == WithNext(O2, k)'
  <2>0. /\ HS \subseteq S /\ HT \subseteq T
        /\ a \in Nat /\ b \in Nat /\ attempts'[k] <= b /\ b <= attempts'[k] + 1
        /\ attempts[k] <= a /\ attempts[k] \in Nat /\ attempts'[k] \in Nat
        /\ attempts'[k] <= attempts[k]
    <3>1. HS \subseteq S /\ HT \subseteq T
      BY DEF Harmful
    <3> QED BY <3>1, WithNextType, WithNextTypePrime DEF TypeOK
  <2>1. /\ IsFiniteSet(HS) /\ Cardinality(HS) \in Nat
        /\ a + Cardinality(HS) <= MaxAttempts + faults
    <3>1. IsFiniteSet(HS)
      BY <1>0, <2>0, FS_Subset
    <3> QED BY <3>1, FS_CardinalityType DEF PaidWith
  <2>2. ASSUME b <= MaxAttempts PROVE b + Cardinality(HT) <= MaxAttempts + faults'
    <3> HIDE DEF b, HT, T
    <3> QED BY <1>0, <1>5, <2>0, <2>2, WithinFaults
  <2>3. ASSUME ~(b <= MaxAttempts) PROVE b + Cardinality(HT) <= MaxAttempts + faults'
    <3>1. MaxAttempts <= attempts[k]
      <4> HIDE DEF a, b
      <4> QED BY <1>0, <2>0, <2>3
    <3>2. ASSUME NEW p \in HT \ HS PROVE p \in New /\ p[2] # k
      <4>1. p \in T /\ p \in Holds' /\ p \in Holds
        BY DEF Harmful, Stale
      <4>2. snap'[p[1]][p[2]] = snap[p[1]][p[2]]
        BY <4>1
      <4>3. p[2] = k => ~Exhausted(snap[p[1]][k])
        BY <4>2 DEF Harmful, Exhausted
      <4>4. p \notin S
        BY <4>3 DEF Harmful
      <4>5. p \in New
        BY <1>2, <4>1, <4>4
      <4>6. snap[p[1]][p[2]] = attempts[p[2]]
        BY <4>5 DEF PaidWith, Rightful
      <4>7. p[2] = k => Exhausted(snap[p[1]][k])
        BY <3>1, <4>6 DEF Exhausted
      <4> QED BY <4>3, <4>5, <4>7
    <3>3. ASSUME NEW p \in HT \ HS PROVE <<w, p[2]>> \in HS \ HT
      <4>1. <<w, p[2]>> \in S \ T /\ p[2] # k
        BY <1>3, <3>2
      <4> QED BY <4>1 DEF Harmful
    <3>4. \A p, q \in HT \ HS : p[2] = q[2] => p = q
      BY <1>4, <3>2
    <3>5. IsFiniteSet(HT) /\ Cardinality(HT) <= Cardinality(HS) /\ Cardinality(HT) \in Nat
      <4>1. IsFiniteSet(HT) /\ Cardinality(HT) <= Cardinality(HS)
        <5> HIDE DEF HS, HT
        <5> QED BY <2>1, <3>3, <3>4, SwapCount
      <4> QED BY <4>1, FS_CardinalityType
    <3>6. CASE b <= a + (faults' - faults)
      <4> HIDE DEF a, b, HS, HT
      <4> QED BY <1>0, <2>0, <2>1, <3>5, <3>6
    <3>7. ASSUME NEW e, e \in HS \ HT,
                 \A p \in HT \ HS : <<w, p[2]>> \in (HS \ {e}) \ HT
          PROVE  Cardinality(HT) < Cardinality(HS)
      <4>1. IsFiniteSet(HS)
        BY <2>1
      <4> HIDE DEF HS, HT
      <4> QED BY <4>1, <3>4, <3>7, SwapCountLess
    <3>8. CASE \E d \in HS \ Holds' : \A h \in New : h[2] # k => d # <<w, h[2]>>
      <4>1. PICK d \in HS \ Holds' : \A h \in New : h[2] # k => d # <<w, h[2]>>
        BY <3>8
      <4>2. d \in HS \ HT
        BY <4>1 DEF Harmful, Stale
      <4>3. \A p \in HT \ HS : <<w, p[2]>> \in (HS \ {d}) \ HT
        BY <3>2, <3>3, <4>1
      <4>4. Cardinality(HT) < Cardinality(HS)
        BY <3>7, <4>2, <4>3
      <4> HIDE DEF a, b, HS, HT
      <4> QED BY <1>0, <2>0, <2>1, <3>5, <4>4
    <3> QED BY <2>3, <3>6, <3>8
  <2> QED BY <2>2, <2>3
<1> QED BY <1>1, <1>5, <1>6 DEF PaidWith
LEMMA WithNextKept ==
    ASSUME TypeOK, TypeOK', NEW O, NEW O2, NEW k \in Jobs,
           attempts'[k] <= attempts[k], Claimable(O2, k)' => Claimable(O, k)
    PROVE  WithNext(O2, k)' <= WithNext(O, k)
BY DEF TypeOK, WithNext

\* A step that leaves the rightful holds alone and makes no settled row active
\* again, but for rows that have no attempts.
LEMMA QuietStep ==
    ASSUME TypeOK, TypeOK', NEW O, PaidWith(O),
           batch' = batch, \A h \in Holds : snap'[h[1]] = snap[h[1]],
           faults <= faults',
           \A k \in Jobs :
             state[k] = "running" /\ lease[k] = "live" /\ Held(k) =>
                state'[k] = "running" /\ lease'[k] = "live" /\ attempts'[k] = attempts[k],
           \A k \in Jobs :
             \/ attempts'[k] = 0
             \/ attempts'[k] = attempts[k] /\ (state'[k] \in Active => state[k] \in Active)
    PROVE  PaidWith(O)'
<1>1. Holds' = Holds /\ O \subseteq Holds /\ \A h \in Holds : h[2] \in Jobs
  BY DEF Holds, PaidWith, Rightful
<1>2. \A h \in Holds' : h \in Holds /\ snap'[h[1]][h[2]] = snap[h[1]][h[2]]
  BY <1>1
<1>3. \A h \in O : /\ h \in Holds' /\ state'[h[2]] = state[h[2]]
                   /\ lease'[h[2]] = lease[h[2]] /\ attempts'[h[2]] = attempts[h[2]]
  <2>1. \A h \in O : Held(h[2])
    BY <1>1 DEF Holds, Held
  <2> QED BY <1>1, <2>1 DEF PaidWith, Rightful
<1>4. ASSUME NEW k \in Jobs PROVE attempts'[k] <= attempts[k]
  <2>1. attempts[k] \in Nat
    BY DEF TypeOK
  <2>2. attempts'[k] = 0 \/ attempts'[k] = attempts[k]
    OBVIOUS
  <2> QED BY <2>1, <2>2
<1>5. ASSUME NEW k \in Jobs
      PROVE  WithNext(O, k)' <= MaxAttempts \/ WithNext(O, k)' <= WithNext(O, k)
  <2>1. CASE attempts'[k] = 0
    BY <2>1, WithNextTypePrime, ParametersAssumption
  <2>2. CASE attempts'[k] = attempts[k] /\ (state'[k] \in Active => state[k] \in Active)
    <3>1. Claimable(O, k)' => Claimable(O, k)
      BY <2>2 DEF Claimable
    <3> QED BY <1>4, <3>1, WithNextKept
  <2> QED BY <2>1, <2>2
<1>6. \A k \in Jobs : /\ WithNext(O, k) \in Nat /\ WithNext(O, k)' \in Nat
                      /\ faults \in Nat /\ faults' \in Nat
  BY WithNextType, WithNextTypePrime DEF TypeOK
<1>7. \A k \in Jobs :
        \/ WithNext(O, k)' <= MaxAttempts
        \/ WithNext(O, k)' <= WithNext(O, k) + (faults' - faults)
        \/ \E d \in Harmful(O, k) \ Holds' :
             \A h \in (O \ O) \cap Holds' : h[2] # k => d # <<NoJob, h[2]>>
  BY <1>5, <1>6
<1>8. \A h \in O \ O : <<NoJob, h[2]>> \in Holds \ Holds'
  OBVIOUS
<1>9. HoldsLeave(O, O, NoJob)
  BY <1>2, <1>3, <1>8 DEF HoldsLeave
<1>10. ChargesPaid(O, O, NoJob)
  BY <1>4, <1>7 DEF ChargesPaid
<1> QED BY <1>9, <1>10, LeaveStep

\* A fault that ends the rightful hold of one row.
LEMMA FaultStep ==
    ASSUME TypeOK, TypeOK', NEW O, PaidWith(O), NEW j \in Jobs,
           NEW O2, O2 = {h \in O : h[2] # j},
           batch' = batch, snap' = snap, attempts' = attempts, faults' = faults + 1,
           \A k \in Jobs \ {j} : state'[k] = state[k] /\ lease'[k] = lease[k]
    PROVE  PaidWith(O2)'
<1>0. /\ faults \in Nat /\ faults' \in Nat /\ MaxAttempts \in Nat
      /\ Holds' = Holds /\ O \subseteq Holds /\ \A h \in Holds : h[2] \in Jobs
      /\ \A h \in Holds : h = <<h[1], h[2]>> /\ h[1] \in Workers
      /\ \A g, h \in O : g[2] = h[2] => g = h
      /\ IsFiniteSet(Stale(O)) /\ Cardinality(Stale(O)) <= faults
  BY ParametersAssumption DEF TypeOK, Holds, PaidWith, Rightful
<1>1. Rightful(O2)'
  BY <1>0 DEF PaidWith, Rightful
<1>2. PICK p : {h \in O : h[2] = j} \subseteq {p}
  BY <1>0
<1>3. Stale(O2)' \subseteq Stale(O) \union {p}
  BY <1>0, <1>2 DEF Stale
<1>4. IsFiniteSet(Stale(O2)') /\ Cardinality(Stale(O2)') <= faults'
  <2>1. /\ IsFiniteSet(Stale(O2)') /\ Cardinality(Stale(O)) \in Nat
        /\ Cardinality(Stale(O2)') <= Cardinality(Stale(O)) + 1
    BY <1>0, <1>3, OneMore, FS_CardinalityType
  <2>2. Cardinality(Stale(O2)') \in Nat
    BY <2>1, FS_CardinalityType
  <2> QED BY <1>0, <2>1, <2>2
<1>5. ASSUME NEW k \in Jobs
      PROVE  WithNext(O2, k)' + Cardinality(Harmful(O2, k)') <= MaxAttempts + faults'
  <2> DEFINE HS == Harmful(O, k)
             HT == Harmful(O2, k)'
             a == WithNext(O, k)
             b == WithNext(O2, k)'
  <2>1. /\ a \in Nat /\ b \in Nat /\ b <= attempts[k] + 1 /\ attempts[k] <= a
        /\ attempts[k] \in Nat
    BY WithNextType, WithNextTypePrime DEF TypeOK
  <2>2. /\ IsFiniteSet(HS) /\ Cardinality(HS) \in Nat
        /\ a + Cardinality(HS) <= MaxAttempts + faults
    <3>1. IsFiniteSet(HS)
      BY <1>0, FS_Subset DEF Harmful
    <3> QED BY <3>1, FS_CardinalityType DEF PaidWith
  <2>3. HT \subseteq HS \union {p}
    BY <1>0, <1>3 DEF Harmful, Stale, Exhausted
  <2>4. /\ IsFiniteSet(HT) /\ Cardinality(HT) \in Nat
        /\ Cardinality(HT) <= Cardinality(HS) + 1
    <3>1. IsFiniteSet(HT) /\ Cardinality(HT) <= Cardinality(HS) + 1
      <4> HIDE DEF HS, HT
      <4> QED BY <2>2, <2>3, OneMore
    <3> QED BY <3>1, FS_CardinalityType
  <2>5. ASSUME k # j PROVE b + Cardinality(HT) <= MaxAttempts + faults'
    <3>1. Claimable(O2, k)' => Claimable(O, k)
      BY <2>5 DEF Claimable
    <3>2. b <= a
      BY <2>1, <3>1, WithNextKept
    <3> HIDE DEF a, b, HS, HT
    <3> QED BY <1>0, <2>1, <2>2, <2>4, <3>2
  <2>6. ASSUME k = j, attempts[k] + 1 <= MaxAttempts
        PROVE  b + Cardinality(HT) <= MaxAttempts + faults'
    <3>1. HT \subseteq Stale(O2)'
      BY DEF Harmful
    <3>2. b <= MaxAttempts
      BY <1>0, <2>1, <2>6
    <3> HIDE DEF b, HT
    <3> QED BY <1>0, <1>4, <2>1, <3>1, <3>2, WithinFaults
  <2>7. ASSUME k = j, ~(attempts[k] + 1 <= MaxAttempts)
        PROVE  b + Cardinality(HT) <= MaxAttempts + faults'
    <3>1. Exhausted(attempts[k])
      BY <1>0, <2>1, <2>7 DEF Exhausted
    <3>2. ASSUME NEW h \in HT PROVE h \in HS
      <4>1. h \in Holds /\ h \notin O2 /\ (h[2] = k => ~Exhausted(snap[h[1]][k]))
        BY <1>0 DEF Harmful, Stale, Exhausted
      <4>2. h \notin O
        BY <2>7, <3>1, <4>1 DEF PaidWith, Rightful
      <4> QED BY <4>1, <4>2 DEF Harmful, Stale
    <3>3. Cardinality(HT) <= Cardinality(HS)
      <4> HIDE DEF HS, HT
      <4> QED BY <2>2, <3>2, FS_Subset
    <3> HIDE DEF a, b, HS, HT
    <3> QED BY <1>0, <2>1, <2>2, <2>4, <3>3
  <2> QED BY <2>5, <2>6, <2>7
<1> QED BY <1>1, <1>4, <1>5 DEF PaidWith

\* A claim makes its rows rightfully held, and counts the attempt that was
\* already charged.
LEMMA ClaimPaid ==
    ASSUME IInv, TypeOK', NEW O, PaidWith(O), NEW w \in Workers, Claim(w)
    PROVE  \E O2 \in SUBSET (Workers \X Jobs) : PaidWith(O2)'
<1>1. PICK S \in SUBSET {j \in Jobs : Runnable(j, eligible[w])} :
         /\ state' = [j \in Jobs |-> IF j \in S THEN "running" ELSE state[j]]
         /\ attempts' = [j \in Jobs |->
                           IF j \in S THEN attempts[j] + 1 ELSE attempts[j]]
         /\ lease' = [j \in Jobs |-> IF j \in S THEN "live" ELSE lease[j]]
         /\ batch' = [batch EXCEPT ![w] = S]
         /\ snap' = [snap EXCEPT ![w] =
                       [j \in Jobs |-> IF j \in S THEN attempts[j] + 1 ELSE 0]]
  BY DEF Claim
<1>2. pc[w] = "counted" /\ faults' = faults /\ batch[w] = {}
  BY DEF Claim, IInv, WorkerInv
<1>3. \A j \in S : /\ j \in Jobs
                   /\ \/ state[j] = "pending"
                      \/ state[j] = "running" /\ lease[j] = "expired"
  BY <1>1 DEF Runnable
<1>4. PICK C : C = {<<w, j>> : j \in S}
  OBVIOUS
<1>5. PICK O2 : O2 = O \union C
  OBVIOUS
<1>6. /\ batch'[w] = S /\ \A v \in Workers \ {w} : batch'[v] = batch[v] /\ snap'[v] = snap[v]
      /\ \A j \in S : snap'[w][j] = attempts'[j]
      /\ TypeOK
  BY <1>1, <1>3 DEF IInv, TypeOK
<1>7. /\ Holds' = Holds \union C
      /\ \A h \in Holds : h[1] \in Workers \ {w}
      /\ \A h \in C : h \notin Holds /\ h[1] = w /\ h[2] \in S
  BY <1>2, <1>3, <1>4, <1>6 DEF Holds
<1>8. \A h \in O : h \in Holds /\ h[2] \in Jobs /\ h[2] \notin S
  BY <1>3 DEF PaidWith, Rightful, Holds
<1>9. Rightful(O2)'
  <2>1. O2 \subseteq Holds'
    BY <1>5, <1>7, <1>8
  <2>2. ASSUME NEW h \in O2
        PROVE  /\ state'[h[2]] = "running" /\ lease'[h[2]] = "live"
               /\ snap'[h[1]][h[2]] = attempts'[h[2]]
    <3>1. CASE h \in C
      BY <1>1, <1>3, <1>6, <1>7, <3>1
    <3>2. CASE h \in O
      <4>1. snap'[h[1]] = snap[h[1]] /\ h[2] \in Jobs /\ h[2] \notin S
        BY <1>6, <1>7, <1>8, <3>2
      <4> QED BY <1>1, <3>2, <4>1 DEF PaidWith, Rightful
    <3> QED BY <1>5, <3>1, <3>2
  <2>3. \A g, h \in O2 : g[2] = h[2] => g = h
    <3>1. \A g, h \in O : g[2] = h[2] => g = h
      BY DEF PaidWith, Rightful
    <3>2. \A g, h \in C : g[2] = h[2] => g = h
      BY <1>4
    <3>3. \A g \in O, h \in C : g[2] # h[2]
      BY <1>7, <1>8
    <3> QED BY <1>5, <3>1, <3>2, <3>3
  <2> QED BY <2>1, <2>2, <2>3 DEF Rightful
<1>10. Stale(O2)' = Stale(O)
  BY <1>5, <1>7, <1>8 DEF Stale
<1>11. ASSUME NEW k \in Jobs
       PROVE  WithNext(O2, k)' = WithNext(O, k) /\ Harmful(O2, k)' = Harmful(O, k)
  <2>1. Harmful(O2, k)' = Harmful(O, k)
    <3>1. \A h \in Stale(O) : snap'[h[1]] = snap[h[1]]
      BY <1>6, <1>7 DEF Stale
    <3> QED BY <1>10, <3>1 DEF Harmful, Exhausted
  <2>2. CASE k \in S
    <3>1. Claimable(O, k)
      BY <1>3, <1>8, <2>2 DEF Claimable, Active
    <3>2. ~Claimable(O2, k)'
      BY <1>4, <1>5, <2>2 DEF Claimable
    <3> QED BY <1>1, <2>1, <2>2, <3>1, <3>2, <1>6 DEF WithNext, TypeOK
  <2>3. CASE k \notin S
    <3>1. \A v \in Workers : <<v, k>> \in O2 <=> <<v, k>> \in O
      BY <1>5, <1>7, <2>3
    <3>2. state'[k] = state[k] /\ attempts'[k] = attempts[k]
      BY <1>1, <2>3
    <3>3. Claimable(O2, k)' <=> Claimable(O, k)
      BY <3>1, <3>2 DEF Claimable
    <3> QED BY <2>1, <3>2, <3>3 DEF WithNext
  <2> QED BY <2>2, <2>3
<1>12. PaidWith(O2)'
  BY <1>2, <1>9, <1>10, <1>11 DEF PaidWith
<1>13. O2 \in SUBSET (Workers \X Jobs)
  BY <1>9 DEF Rightful, Holds
<1> QED BY <1>12, <1>13
\* A worker settles the job it handles: the others keep what they hold.
LEMMA LeavesOne ==
    ASSUME TypeOK, TypeOK', NEW O, PaidWith(O), NEW w \in Workers,
           cur[w] \in batch[w], LeaveJob(w), UNCHANGED <<attempts, faults>>,
           \A k \in Jobs \ {cur[w]} : state'[k] = state[k] /\ lease'[k] = lease[k],
           \/ state'[cur[w]] \notin Active
           \/ ~Exhausted(snap[w][cur[w]])
    PROVE  \E O2 \in SUBSET (Workers \X Jobs) : PaidWith(O2)'
<1>1. PICK j \in Jobs : j = cur[w]
  BY DEF TypeOK
<1>2. PICK O2 : O2 = {h \in O : h[2] # j}
  OBVIOUS
<1>3. batch'[w] = batch[w] \ {j}
  BY <1>1 DEF LeaveJob, EndRun, TypeOK
<1>4. /\ \A k \in batch'[w] : snap'[w][k] = snap[w][k]
      /\ \A v \in Workers \ {w} : batch'[v] = batch[v] /\ snap'[v] = snap[v]
  BY LeaveJobEffect
<1>5. /\ \A h \in Holds' : h \in Holds /\ snap'[h[1]][h[2]] = snap[h[1]][h[2]]
      /\ Holds \ Holds' = {<<w, j>>}
      /\ O \subseteq Holds /\ O \subseteq Workers \X Jobs
  <2>1. O \subseteq Holds /\ Holds \subseteq Workers \X Jobs
    BY DEF PaidWith, Rightful, Holds
  <2>2. \A h \in Workers \X Jobs : h \in Holds' <=> h \in Holds /\ h # <<w, j>>
    BY <1>1, <1>3, <1>4 DEF Holds
  <2>3. Holds' \subseteq Workers \X Jobs /\ <<w, j>> \in Holds
    BY <1>1 DEF Holds
  <2>4. ASSUME NEW h \in Holds' PROVE snap'[h[1]][h[2]] = snap[h[1]][h[2]]
    <3>1. h[1] \in Workers /\ h[2] \in batch'[h[1]]
      BY DEF Holds
    <3> QED BY <1>4, <3>1
  <2> QED BY <2>1, <2>2, <2>3, <2>4
<1>6. \A h \in O2 : /\ h \in Holds' /\ state'[h[2]] = state[h[2]]
                    /\ lease'[h[2]] = lease[h[2]] /\ attempts'[h[2]] = attempts[h[2]]
  <2> SUFFICES ASSUME NEW h \in O2
               PROVE  /\ h \in Holds' /\ state'[h[2]] = state[h[2]]
                      /\ lease'[h[2]] = lease[h[2]] /\ attempts'[h[2]] = attempts[h[2]]
    OBVIOUS
  <2>1. h \in Holds /\ h[2] \in Jobs \ {j} /\ h # <<w, j>>
    BY <1>2, <1>5
  <2> QED BY <1>1, <1>5, <2>1
<1>7. \A h \in O \ O2 : <<w, h[2]>> \in Holds \ Holds'
  BY <1>2, <1>5
<1>8. \A k \in Jobs : attempts'[k] <= attempts[k]
  BY DEF TypeOK
<1>9. ASSUME NEW k \in Jobs
      PROVE  \/ WithNext(O2, k)' <= MaxAttempts
             \/ WithNext(O2, k)' <= WithNext(O, k) + (faults' - faults)
             \/ \E d \in Harmful(O, k) \ Holds' :
                  \A h \in (O \ O2) \cap Holds' : h[2] # k => d # <<w, h[2]>>
  <2>0. /\ WithNext(O, k) \in Nat /\ WithNext(O2, k)' \in Nat
        /\ faults \in Nat /\ faults' = faults
    BY WithNextType, WithNextTypePrime DEF TypeOK
  <2>1. ASSUME Claimable(O2, k)' => Claimable(O, k)
        PROVE  WithNext(O2, k)' <= WithNext(O, k) + (faults' - faults)
    BY <1>8, <2>0, <2>1, WithNextKept
  <2>2. CASE k # j
    <3>1. Claimable(O2, k)' => Claimable(O, k)
      BY <1>1, <1>2, <2>2 DEF Claimable
    <3> QED BY <2>1, <3>1
  <2>3. CASE k = j /\ state'[j] \notin Active
    BY <2>1, <2>3 DEF Claimable
  <2>4. CASE k = j /\ ~Exhausted(snap[w][j])
    <3>1. CASE <<w, j>> \in O
      <4>1. attempts[j] = snap[w][j]
        BY <3>1 DEF PaidWith, Rightful
      <4>2. attempts'[k] + 1 <= MaxAttempts
        BY <2>4, <4>1, ParametersAssumption DEF Exhausted, TypeOK
      <4>3. WithNext(O2, k)' <= attempts'[k] + 1 /\ attempts'[k] \in Nat
        BY WithNextTypePrime DEF TypeOK
      <4> QED BY <2>0, <4>2, <4>3, ParametersAssumption
    <3>2. CASE <<w, j>> \notin O
      <4>1. <<w, j>> \in Harmful(O, k) \ Holds'
        BY <1>5, <2>4, <3>2 DEF Harmful, Stale
      <4>2. \A h \in O \ O2 : h[2] = k
        BY <1>2, <2>4
      <4> QED BY <4>1, <4>2
    <3> QED BY <3>1, <3>2
  <2> QED BY <1>1, <2>2, <2>3, <2>4
<1>10. PaidWith(O2)'
  <2>1. HoldsLeave(O, O2, w)
    BY <1>2, <1>5, <1>6, <1>7 DEF HoldsLeave
  <2>2. faults <= faults'
    BY DEF TypeOK
  <2>3. ChargesPaid(O, O2, w)
    BY <1>8, <1>9, <2>2 DEF ChargesPaid
  <2> QED BY <2>1, <2>3, LeaveStep
<1> QED BY <1>2, <1>5, <1>10

\* A worker ends its run and forgets its batch.  A row it held rightfully can be
\* claimed again; that claim was charged to a fault of this step, or to the
\* stale hold that made the index reject its failure.
LEMMA ForgetsAll ==
    ASSUME TypeOK, TypeOK', NEW O, PaidWith(O), NEW w \in Workers, EndRun(w),
           UNCHANGED rowVars, faults <= faults',
           \/ faults' = faults + 1
           \/ cur[w] \in batch[w] /\ state[cur[w]] \notin Active
    PROVE  \E O2 \in SUBSET (Workers \X Jobs) : PaidWith(O2)'
<1>1. PICK O2 : O2 = {h \in O : h[1] # w}
  OBVIOUS
<1>2. batch'[w] = {} /\ \A v \in Workers \ {w} : batch'[v] = batch[v] /\ snap'[v] = snap[v]
  BY DEF EndRun, TypeOK
<1>3. /\ \A h \in Workers \X Jobs : h \in Holds' <=> h \in Holds /\ h[1] # w
      /\ O \subseteq Holds /\ Holds \subseteq Workers \X Jobs /\ Holds' \subseteq Workers \X Jobs
  BY <1>2 DEF Holds, PaidWith, Rightful
<1>4. \A h \in Holds' : h \in Holds /\ snap'[h[1]][h[2]] = snap[h[1]][h[2]]
  <2> SUFFICES ASSUME NEW h \in Holds'
               PROVE  h \in Holds /\ snap'[h[1]][h[2]] = snap[h[1]][h[2]]
    OBVIOUS
  <2>1. h[1] \in Workers \ {w} /\ h \in Holds
    BY <1>3
  <2> QED BY <1>2, <2>1
<1>5. \A h \in O2 : /\ h \in Holds' /\ state'[h[2]] = state[h[2]]
                    /\ lease'[h[2]] = lease[h[2]] /\ attempts'[h[2]] = attempts[h[2]]
  BY <1>1, <1>3 DEF rowVars
<1>6. \A h \in O \ O2 : <<w, h[2]>> \in Holds \ Holds'
  BY <1>1, <1>3
<1>7. \A k \in Jobs : attempts'[k] <= attempts[k]
  BY DEF TypeOK, rowVars
<1>8. ASSUME NEW k \in Jobs
      PROVE  \/ WithNext(O2, k)' <= MaxAttempts
             \/ WithNext(O2, k)' <= WithNext(O, k) + (faults' - faults)
             \/ \E d \in Harmful(O, k) \ Holds' :
                  \A h \in (O \ O2) \cap Holds' : h[2] # k => d # <<w, h[2]>>
  <2>0. /\ WithNext(O, k) \in Nat /\ WithNext(O2, k)' \in Nat
        /\ faults \in Nat /\ faults' \in Nat
        /\ WithNext(O2, k)' <= attempts[k] + 1 /\ attempts[k] <= WithNext(O, k)
        /\ attempts[k] \in Nat
    BY WithNextType, WithNextTypePrime DEF TypeOK, rowVars
  <2>1. CASE faults' = faults + 1
    BY <2>0, <2>1
  <2>2. CASE <<w, k>> \notin O
    <3>1. \A v \in Workers : <<v, k>> \in O2 <=> <<v, k>> \in O
      BY <1>1, <2>2
    <3>2. Claimable(O2, k)' => Claimable(O, k)
      BY <3>1 DEF Claimable, rowVars
    <3>3. WithNext(O2, k)' <= WithNext(O, k)
      BY <1>7, <3>2, WithNextKept
    <3> QED BY <2>0, <3>3
  <2>3. CASE <<w, k>> \in O /\ cur[w] \in batch[w] /\ state[cur[w]] \notin Active
    <3>1. state[k] \in Active
      BY <2>3 DEF PaidWith, Rightful, Active
    <3>2. <<w, cur[w]>> \in Holds /\ cur[w] # k /\ <<w, cur[w]>> \notin O
      BY <2>3, <3>1 DEF Holds, TypeOK, PaidWith, Rightful, Active
    <3>3. <<w, cur[w]>> \in Harmful(O, k) \ Holds'
      BY <1>3, <3>2 DEF Harmful, Stale
    <3>4. (O \ O2) \cap Holds' = {}
      BY <1>1, <1>3
    <3> QED BY <3>3, <3>4
  <2> QED BY <2>1, <2>2, <2>3
<1>9. PaidWith(O2)'
  <2>1. HoldsLeave(O, O2, w)
    BY <1>1, <1>4, <1>5, <1>6 DEF HoldsLeave
  <2>2. ChargesPaid(O, O2, w)
    BY <1>7, <1>8 DEF ChargesPaid
  <2> QED BY <2>1, <2>2, LeaveStep
<1> QED BY <1>1, <1>3, <1>9

\* A release hands back the attempt of each row that is running, rightfully or
\* not.
LEMMA ReleasePaid ==
    ASSUME TypeOK, TypeOK', NEW O, PaidWith(O), NEW w \in Workers, ReleaseRest(w)
    PROVE  \E O2 \in SUBSET (Workers \X Jobs) : PaidWith(O2)'
<1>1. PICK O2 : O2 = {h \in O : h[2] \notin batch[w]}
  OBVIOUS
<1>2. /\ batch'[w] = {}
      /\ \A v \in Workers \ {w} : batch'[v] = batch[v] /\ snap'[v] = snap[v]
      /\ faults <= faults' /\ faults \in Nat /\ faults' \in Nat
  BY DEF ReleaseRest, EndRun, Fault, TypeOK
<1>3. ASSUME NEW k \in Jobs, k \notin batch[w] \/ state[k] # "running"
      PROVE  state'[k] = state[k] /\ attempts'[k] = attempts[k] /\ lease'[k] = lease[k]
  BY <1>3 DEF ReleaseRest
<1>4. /\ \A h \in Workers \X Jobs : h \in Holds' <=> h \in Holds /\ h[1] # w
      /\ O \subseteq Holds /\ Holds \subseteq Workers \X Jobs /\ Holds' \subseteq Workers \X Jobs
  BY <1>2 DEF Holds, PaidWith, Rightful
<1>5. \A h \in Holds' : h \in Holds /\ snap'[h[1]][h[2]] = snap[h[1]][h[2]]
  <2> SUFFICES ASSUME NEW h \in Holds'
               PROVE  h \in Holds /\ snap'[h[1]][h[2]] = snap[h[1]][h[2]]
    OBVIOUS
  <2>1. h[1] \in Workers \ {w} /\ h \in Holds
    BY <1>4
  <2> QED BY <1>2, <2>1
<1>6. \A h \in O2 : /\ h \in Holds' /\ state'[h[2]] = state[h[2]]
                    /\ lease'[h[2]] = lease[h[2]] /\ attempts'[h[2]] = attempts[h[2]]
  <2> SUFFICES ASSUME NEW h \in O2
               PROVE  /\ h \in Holds' /\ state'[h[2]] = state[h[2]]
                      /\ lease'[h[2]] = lease[h[2]] /\ attempts'[h[2]] = attempts[h[2]]
    OBVIOUS
  <2>1. h \in Holds /\ h \in Workers \X Jobs /\ h[2] \in Jobs /\ h[2] \notin batch[w]
    BY <1>1, <1>4
  <2>2. h[1] # w
    BY <2>1 DEF Holds
  <2> QED BY <1>3, <1>4, <2>1, <2>2
<1>7. \A h \in O \ O2 : <<w, h[2]>> \in Holds \ Holds'
  <2> SUFFICES ASSUME NEW h \in O \ O2 PROVE <<w, h[2]>> \in Holds \ Holds'
    OBVIOUS
  <2>1. h[2] \in batch[w] /\ h[2] \in Jobs
    BY <1>1, <1>4
  <2>2. <<w, h[2]>> \in Holds
    BY <2>1 DEF Holds
  <2> QED BY <1>4, <2>2
<1>8. ASSUME NEW k \in Jobs
      PROVE  /\ attempts'[k] <= attempts[k]
             /\ WithNext(O2, k)' <= MaxAttempts \/ WithNext(O2, k)' <= WithNext(O, k)
  <2>0. /\ WithNext(O, k) \in Nat /\ WithNext(O2, k)' \in Nat
        /\ WithNext(O2, k)' <= attempts'[k] + 1 /\ attempts[k] <= WithNext(O, k)
        /\ attempts[k] \in Nat /\ attempts'[k] \in Nat
    BY WithNextType, WithNextTypePrime DEF TypeOK
  <2>1. CASE k \in batch[w] /\ state[k] = "running"
    <3>1. attempts'[k] = IF attempts[k] > 0 THEN attempts[k] - 1 ELSE attempts[k]
      BY <2>1 DEF ReleaseRest
    <3> QED BY <2>0, <3>1, ParametersAssumption
  <2>2. CASE k \notin batch[w] \/ state[k] # "running"
    <3>1. \A v \in Workers : <<v, k>> \in O2 <=> <<v, k>> \in O
      BY <1>1, <2>2 DEF PaidWith, Rightful
    <3>2. Claimable(O2, k)' => Claimable(O, k)
      BY <1>3, <2>2, <3>1 DEF Claimable
    <3>3. attempts'[k] = attempts[k]
      BY <1>3, <2>2
    <3>4. attempts'[k] <= attempts[k]
      BY <2>0, <3>3
    <3> QED BY <3>2, <3>4, WithNextKept
  <2> QED BY <2>1, <2>2
<1>9. PaidWith(O2)'
  <2>1. HoldsLeave(O, O2, w)
    BY <1>1, <1>5, <1>6, <1>7 DEF HoldsLeave
  <2>2. ASSUME NEW k \in Jobs
        PROVE  \/ WithNext(O2, k)' <= MaxAttempts
               \/ WithNext(O2, k)' <= WithNext(O, k) + (faults' - faults)
    BY <1>2, <1>8, WithNextType, WithNextTypePrime
  <2>3. ChargesPaid(O, O2, w)
    BY <1>2, <1>8, <2>2 DEF ChargesPaid
  <2> QED BY <2>1, <2>3, LeaveStep
<1> QED BY <1>1, <1>4, <1>9

LEMMA WorkerStepPaid ==
    ASSUME IInv, TypeOK', ActiveKeysUnique, NEW O, PaidWith(O),
           NEW w \in Workers, WorkerStep(w)
    PROVE  \E O2 \in SUBSET (Workers \X Jobs) : PaidWith(O2)'
<1>0. TypeOK /\ O \in SUBSET (Workers \X Jobs) /\ faults \in Nat
  BY DEF IInv, TypeOK, PaidWith, Rightful, Holds
<1>1. CASE StartRun(w) \/ NextJob(w) \/ HandlerReturns(w) \/ HandlerThrows(w)
  <2>1. UNCHANGED <<rowVars, batch, snap, faults>>
    BY <1>1 DEF StartRun, NextJob, HandlerReturns, HandlerThrows
  <2>2. PaidWith(O)'
    BY <1>0, <2>1, QuietStep DEF rowVars
  <2> QED BY <1>0, <2>2
<1>2. CASE ClaimNothing(w)
  <2>1. /\ batch[w] = {} /\ batch' = [batch EXCEPT ![w] = {}]
        /\ \A v \in Workers \ {w} : snap'[v] = snap[v]
        /\ UNCHANGED <<rowVars, faults>>
    BY <1>2 DEF ClaimNothing, EndRun, IInv, TypeOK, WorkerInv
  <2>2. batch' = batch
    BY <1>0, <2>1 DEF TypeOK
  <2>3. \A h \in Holds : snap'[h[1]] = snap[h[1]]
    BY <2>1 DEF Holds
  <2>4. PaidWith(O)'
    BY <1>0, <2>1, <2>2, <2>3, QuietStep DEF rowVars
  <2> QED BY <1>0, <2>4
<1>3. CASE Claim(w)
  BY <1>3, ClaimPaid
<1>4. CASE ReleaseRest(w)
  BY <1>0, <1>4, ReleasePaid
<1>5. CASE Complete(w)
  <2>1. /\ cur[w] \in batch[w] /\ LeaveJob(w) /\ UNCHANGED <<attempts, faults>>
        /\ state' = [state EXCEPT ![cur[w]] = "succeeded"]
        /\ lease' = [lease EXCEPT ![cur[w]] = "none"]
    BY <1>5 DEF Complete, SetSucceeded, IInv, WorkerInv, InHandler
  <2>2. \A k \in Jobs \ {cur[w]} : state'[k] = state[k] /\ lease'[k] = lease[k]
    BY <1>0, <2>1 DEF TypeOK
  <2>3. state'[cur[w]] \notin Active
    BY <1>0, <2>1 DEF TypeOK, Active
  <2> QED BY <1>0, <2>1, <2>2, <2>3, LeavesOne
<1>6. CASE CompleteThrows(w)
  <2>1. batch' = batch /\ snap' = snap /\ cur[w] \in Jobs
    BY <1>6 DEF CompleteThrows, IInv, TypeOK, WorkerInv, InHandler
  <2>2. CASE Fault("db_error") /\ UNCHANGED rowVars
    <3>1. PaidWith(O)'
      BY <1>0, <2>1, <2>2, QuietStep DEF Fault, rowVars
    <3> QED BY <1>0, <3>1
  <2>3. CASE Fault("ack_lost") /\ SetSucceeded(cur[w])
    <3>1. PICK O2 : O2 = {h \in O : h[2] # cur[w]}
      OBVIOUS
    <3>2. /\ attempts' = attempts /\ faults' = faults + 1
          /\ \A k \in Jobs \ {cur[w]} : state'[k] = state[k] /\ lease'[k] = lease[k]
      BY <1>0, <2>3 DEF Fault, SetSucceeded, TypeOK
    <3>3. PaidWith(O2)'
      BY <1>0, <2>1, <3>1, <3>2, FaultStep
    <3> QED BY <1>0, <3>1, <3>3
  <2> QED BY <1>6, <2>2, <2>3 DEF CompleteThrows
<1>7. CASE RecordFailure(w)
  <2>1. cur[w] \in Jobs /\ cur[w] \in batch[w] /\ faults' = faults
    BY <1>7 DEF RecordFailure, IInv, TypeOK, WorkerInv, InHandler
  <2>2. CASE /\ state' = [state EXCEPT ![cur[w]] = FailedState(w)]
             /\ lease' = [lease EXCEPT ![cur[w]] = "none"]
             /\ UNCHANGED attempts
             /\ LeaveJob(w)
    <3>1. \A k \in Jobs \ {cur[w]} : state'[k] = state[k] /\ lease'[k] = lease[k]
      BY <1>0, <2>2 DEF TypeOK
    <3>2. state'[cur[w]] \notin Active \/ ~Exhausted(snap[w][cur[w]])
      BY <1>0, <2>1, <2>2 DEF TypeOK, FailedState, Active
    <3> QED BY <1>0, <2>1, <2>2, <3>1, <3>2, LeavesOne
  <2>3. CASE /\ ~IndexAdmits([state EXCEPT ![cur[w]] = FailedState(w)])
             /\ UNCHANGED rowVars /\ EndRun(w)
    <3>1. state[cur[w]] \notin Active
      BY <1>0, <2>1, <2>3
      DEF TypeOK, IndexAdmits, ActiveKeysUnique, FailedState, Active
    <3> QED BY <1>0, <2>1, <2>3, <3>1, ForgetsAll
  <2> QED BY <1>7, <2>2, <2>3 DEF RecordFailure
<1>8. CASE Crash(w)
  <2>1. EndRun(w) /\ UNCHANGED rowVars /\ faults' = faults + 1
    BY <1>8 DEF Crash, Fault
  <2> QED BY <1>0, <2>1, ForgetsAll
<1> QED BY <1>1, <1>2, <1>3, <1>4, <1>5, <1>6, <1>7, <1>8 DEF WorkerStep

LEMMA OtherStepPaid ==
    ASSUME TypeOK, TypeOK', CallInv, \A k \in Jobs : state[k] = "absent" => attempts[k] = 0,
           NEW O, PaidWith(O),
           (\E j \in Jobs : JobStep(j)) \/ Reclaim \/ Purge \/ Replay \/ UNCHANGED vars
    PROVE  \E O2 \in SUBSET (Workers \X Jobs) : PaidWith(O2)'
<1>0. O \in SUBSET (Workers \X Jobs) /\ faults \in Nat
  BY DEF TypeOK, PaidWith, Rightful, Holds
<1>1. ASSUME NEW j \in Jobs, EnqueueInsert(j) PROVE PaidWith(O)'
  <2>1. /\ UNCHANGED <<batch, snap, faults, attempts, lease>>
        /\ \A k \in Jobs \ {j} : state'[k] = state[k]
        /\ state[j] = "absent" /\ attempts[j] = 0
    BY <1>1 DEF EnqueueInsert, rowVars, workVars, TypeOK, CallInv
  <2> QED BY <1>0, <2>1, QuietStep
<1>2. ASSUME NEW j \in Jobs, EnqueueReselect(j) \/ BecomesDue(j) PROVE PaidWith(O)'
  <2>1. UNCHANGED <<state, attempts, lease, batch, snap, faults>>
    BY <1>2 DEF EnqueueReselect, BecomesDue, rowVars, workVars
  <2> QED BY <1>0, <2>1, QuietStep
<1>3. ASSUME NEW j \in Jobs, LeaseExpires(j)
      PROVE  \E O2 \in SUBSET (Workers \X Jobs) : PaidWith(O2)'
  <2>1. /\ UNCHANGED <<state, attempts, batch, snap>>
        /\ \A k \in Jobs \ {j} : state'[k] = state[k] /\ lease'[k] = lease[k]
        /\ IF Held(j) THEN faults' = faults + 1 ELSE faults' = faults
    BY <1>3 DEF LeaseExpires, Fault, workVars, TypeOK
  <2>2. CASE Held(j)
    <3>1. PICK O2 : O2 = {h \in O : h[2] # j}
      OBVIOUS
    <3>2. PaidWith(O2)'
      BY <2>1, <2>2, <3>1, FaultStep
    <3> QED BY <1>0, <3>1, <3>2
  <2>3. CASE ~Held(j)
    <3>1. PaidWith(O)'
      BY <1>0, <2>1, <2>3, QuietStep
    <3> QED BY <1>0, <3>1
  <2> QED BY <2>2, <2>3
<1>4. CASE Reclaim
  <2>1. UNCHANGED <<attempts, batch, snap, faults>>
    BY <1>4 DEF Reclaim, workVars
  <2>2. \A k \in Jobs :
          /\ state'[k] \in Active => state[k] \in Active
          /\ lease[k] = "live" => state'[k] = state[k] /\ lease'[k] = lease[k]
    BY <1>4 DEF Reclaim, Active
  <2>3. PaidWith(O)'
    BY <1>0, <2>1, <2>2, QuietStep
  <2> QED BY <1>0, <2>3
<1>5. CASE Purge
  <2>1. UNCHANGED <<attempts, lease, batch, snap, faults>>
    BY <1>5 DEF Purge, workVars
  <2>2. \A k \in Jobs :
          /\ state'[k] \in Active => state[k] \in Active
          /\ state[k] = "running" => state'[k] = state[k]
    BY <1>5 DEF Purge, Active
  <2>3. PaidWith(O)'
    BY <1>0, <2>1, <2>2, QuietStep
  <2> QED BY <1>0, <2>3
<1>6. CASE Replay
  <2>1. UNCHANGED <<lease, batch, snap, faults>>
    BY <1>6 DEF Replay, workVars
  <2>2. \A k \in Jobs : \/ state[k] = "dead" /\ attempts'[k] = 0
                        \/ state'[k] = state[k] /\ attempts'[k] = attempts[k]
    BY <1>6 DEF Replay, Replayable
  <2>3. PaidWith(O)'
    BY <1>0, <2>1, <2>2, QuietStep
  <2> QED BY <1>0, <2>3
<1>7. CASE UNCHANGED vars
  <2>1. UNCHANGED <<state, attempts, lease, batch, snap, faults>>
    BY <1>7 DEF vars, rowVars, workVars
  <2>2. PaidWith(O)'
    BY <1>0, <2>1, QuietStep
  <2> QED BY <1>0, <2>2
<1> QED BY <1>0, <1>1, <1>2, <1>3, <1>4, <1>5, <1>6, <1>7 DEF JobStep

\* A row that is not there yet has no attempts.
LEMMA AbsentKept ==
    ASSUME IInv, \A k \in Jobs : state[k] = "absent" => attempts[k] = 0, [Next]_vars,
           NEW j \in Jobs, state'[j] = "absent"
    PROVE  attempts'[j] = 0
<1>1. ASSUME NEW w \in Workers, WorkerStep(w) PROVE attempts'[j] = 0
  <2>1. CASE Claim(w)
    BY <2>1 DEF Claim, Runnable
  <2>2. CASE ReleaseRest(w)
    BY <2>2 DEF ReleaseRest
  <2>3. CASE Complete(w) \/ CompleteThrows(w)
    BY <2>3 DEF Complete, CompleteThrows, SetSucceeded, rowVars, IInv, TypeOK
  <2>4. CASE RecordFailure(w)
    BY <2>4 DEF RecordFailure, FailedState, rowVars, IInv, TypeOK
  <2>5. CASE UNCHANGED <<state, attempts>>
    BY <2>5
  <2> QED
    BY <1>1, <2>1, <2>2, <2>3, <2>4, <2>5
    DEF WorkerStep, StartRun, ClaimNothing, NextJob, HandlerReturns, HandlerThrows,
        Crash, rowVars
<1>2. ASSUME NEW i \in Jobs, JobStep(i) PROVE attempts'[j] = 0
  BY <1>2 DEF JobStep, EnqueueInsert, EnqueueReselect, BecomesDue, LeaseExpires,
     rowVars, IInv, TypeOK
<1>3. CASE Reclaim \/ Purge \/ Replay
  BY <1>3 DEF Reclaim, Purge, Replay, Exhausted
<1>4. CASE UNCHANGED vars
  BY <1>4 DEF vars, rowVars
<1> QED BY <1>1, <1>2, <1>3, <1>4 DEF Next

\* The bill is always settled: each stale hold and each attempt over the limit
\* belongs to a fault of its own.
THEOREM EveryOverrunIsPaid == Spec => []PaidInv
<1>1. Init => PaidInv
  <2> SUFFICES ASSUME Init PROVE PaidInv
    OBVIOUS
  <2>1. Holds = {} /\ faults = 0
    BY DEF Init, Holds
  <2>2. Stale({}) = {} /\ \A j \in Jobs : Harmful({}, j) = {}
    BY <2>1 DEF Stale, Harmful
  <2>3. \A j \in Jobs : WithNext({}, j) = 0
    BY DEF Init, WithNext, Claimable, Active
  <2>4. PaidWith({})
    BY <2>1, <2>2, <2>3, FS_EmptySet, ParametersAssumption DEF PaidWith, Rightful
  <2>5. \A j \in Jobs : attempts[j] = 0
    BY DEF Init
  <2> QED BY <2>4, <2>5 DEF PaidInv
<1>2. ASSUME IInv, IInv', ActiveKeysUnique, PaidInv, [Next]_vars PROVE PaidInv'
  <2>1. PICK O \in SUBSET (Workers \X Jobs) : PaidWith(O)
    BY <1>2 DEF PaidInv
  <2>2. TypeOK /\ TypeOK' /\ CallInv /\ \A k \in Jobs : state[k] = "absent" => attempts[k] = 0
    BY <1>2 DEF IInv, PaidInv
  <2>3. \E O2 \in SUBSET (Workers \X Jobs) : PaidWith(O2)'
    BY <1>2, <2>1, <2>2, WorkerStepPaid, OtherStepPaid DEF Next
  <2>4. \A j \in Jobs : state'[j] = "absent" => attempts'[j] = 0
    BY <1>2, <2>2, AbsentKept
  <2> QED BY <2>3, <2>4 DEF PaidInv
<1> QED BY Invariant, OneActiveRowPerKey, <1>1, <1>2, PTL DEF Spec

\* The claim does not look at max_attempts, yet no row gets more attempts than
\* max_attempts and the number of faults so far.
THEOREM OverrunsArePaid == Spec => []OverrunsPaidByFaults
<1>1. TypeOK /\ PaidInv => OverrunsPaidByFaults
  <2> SUFFICES ASSUME TypeOK, PaidInv, NEW j \in Jobs
               PROVE  attempts[j] <= MaxAttempts + faults
    BY DEF OverrunsPaidByFaults
  <2>1. PICK O \in SUBSET (Workers \X Jobs) : PaidWith(O)
    BY DEF PaidInv
  <2>2. Cardinality(Harmful(O, j)) \in Nat
    <3>1. Harmful(O, j) \subseteq Stale(O) /\ IsFiniteSet(Stale(O))
      BY <2>1 DEF Harmful, PaidWith
    <3> QED BY <3>1, FS_Subset, FS_CardinalityType
  <2>3. WithNext(O, j) + Cardinality(Harmful(O, j)) <= MaxAttempts + faults
    BY <2>1 DEF PaidWith
  <2>4. attempts[j] \in Nat /\ faults \in Nat /\ MaxAttempts \in Nat
    BY ParametersAssumption DEF TypeOK
  <2> QED BY <2>2, <2>3, <2>4, WithNextType
<1> QED BY Typed, EveryOverrunIsPaid, <1>1, PTL

-----------------------------------------------------------------------------
(* Refinement of DurableWork                                               *)

LEMMA PhaseUnchanged ==
    ASSUME \A j \in Jobs : Phase(j)' = Phase(j), UNCHANGED handled
    PROVE  UNCHANGED D!vars
BY DEF D!vars

\* A step that takes a set of jobs from one phase to another is a Move.
LEMMA PhaseMoves ==
    ASSUME NEW S \in SUBSET Jobs, NEW from, NEW to,
           \A j \in S : Phase(j) \in from /\ Phase(j)' = to,
           \A j \in Jobs \ S : Phase(j)' = Phase(j),
           UNCHANGED handled
    PROVE  D!Move(S, from, to)
BY DEF D!Move

\* Every step of the queue is a step of DurableWork or changes none of its
\* variables.
LEMMA StepImplements ==
    ASSUME IInv, SafeLeases, SafeAcks, [Next]_vars
    PROVE  [D!Next]_(D!vars)
<1>1. ASSUME UNCHANGED <<state, handled>> PROVE UNCHANGED D!vars
  BY <1>1, PhaseUnchanged DEF Phase
<1>2. ASSUME NEW w \in Workers, WorkerStep(w) PROVE [D!Next]_(D!vars)
  <2>1. CASE Claim(w)
    <3>1. \A j \in Jobs : Phase(j)' = Phase(j)
      BY <2>1 DEF Claim, Runnable, Phase, Active
    <3> QED BY <2>1, <3>1, PhaseUnchanged DEF Claim, histVars
  <2>2. CASE ReleaseRest(w)
    <3>1. \A j \in Jobs : Phase(j)' = Phase(j)
      BY <2>2 DEF ReleaseRest, Phase, Active
    <3> QED BY <2>2, <3>1, PhaseUnchanged DEF ReleaseRest, histVars
  <2>3. CASE HandlerReturns(w)
    <3>1. cur[w] \in Jobs /\ state[cur[w]] = "running"
      BY <2>3 DEF HandlerReturns, IInv, TypeOK, WorkerInv, InHandler, HoldInv, AckLost
    <3>2. Phase(cur[w]) # "new"
      BY <3>1 DEF Phase, Active
    <3>3. state' = state /\ handled' = handled \union {cur[w]}
      BY <2>3 DEF HandlerReturns, rowVars
    <3>4. \A j \in Jobs : Phase(j)' = Phase(j)
      BY <3>3 DEF Phase
    <3>5. D!Work
      BY <3>1, <3>2, <3>3, <3>4 DEF D!Work
    <3> QED BY <3>5 DEF D!Next
  <2>4. CASE Complete(w)
    <3>1. PICK j \in Jobs : j = cur[w]
      BY <2>4 DEF Complete, IInv, TypeOK, WorkerInv, InHandler
    <3>2. /\ state[j] = "running" /\ j \in handled
          /\ handled' = handled /\ state' = [state EXCEPT ![j] = "succeeded"]
      BY <2>4, <3>1 DEF Complete, SetSucceeded, histVars, IInv, TypeOK, WorkerInv, InHandler,
         HoldInv, AckLost
    <3>3. /\ Phase(j) = "open" /\ Phase(j)' = "done"
          /\ \A i \in Jobs \ {j} : Phase(i)' = Phase(i)
      BY <3>2 DEF Phase, IInv, TypeOK
    <3>4. D!Move({j}, {"open", "failed"}, "done")
      BY <3>2, <3>3, PhaseMoves
    <3>5. D!Finish
      BY <3>2, <3>4 DEF D!Finish
    <3> QED BY <3>5 DEF D!Next
  <2>5. CASE RecordFailure(w)
    <3>1. PICK j \in Jobs : j = cur[w]
      BY <2>5 DEF RecordFailure, IInv, TypeOK, WorkerInv, InHandler
    <3>2. state[j] = "running" /\ handled' = handled
      BY <2>5, <3>1 DEF RecordFailure, histVars, IInv, TypeOK, WorkerInv, InHandler, HoldInv, AckLost
    <3>3. CASE state' = [state EXCEPT ![j] = "dead"]
      <4>1. /\ Phase(j) = "open" /\ Phase(j)' = "failed"
            /\ \A i \in Jobs \ {j} : Phase(i)' = Phase(i)
        BY <3>2, <3>3 DEF Phase, IInv, TypeOK
      <4>2. D!Move({j}, {"open"}, "failed")
        BY <3>2, <4>1, PhaseMoves
      <4>3. D!GiveUp
        BY <4>2 DEF D!GiveUp
      <4> QED BY <4>3 DEF D!Next
    <3>4. CASE state' = [state EXCEPT ![j] = "pending"] \/ state' = state
      <4>1. \A i \in Jobs : Phase(i)' = Phase(i)
        BY <3>2, <3>4 DEF Phase, IInv, TypeOK
      <4> QED BY <3>2, <4>1, PhaseUnchanged
    <3> QED BY <2>5, <3>1, <3>3, <3>4 DEF RecordFailure, FailedState, rowVars
  <2>6. CASE UNCHANGED <<state, handled>>
    BY <1>1, <2>6
  <2> QED
    BY <1>2, <2>1, <2>2, <2>3, <2>4, <2>5, <2>6
    DEF WorkerStep, StartRun, ClaimNothing, NextJob, HandlerThrows, CompleteThrows, Fault,
        SafeAcks, Crash, rowVars, histVars
<1>3. ASSUME NEW j \in Jobs, JobStep(j) PROVE [D!Next]_(D!vars)
  <2>1. CASE state' = [state EXCEPT ![j] = "pending"] /\ EnqueueInsert(j)
    <3>1. state[j] = "absent" /\ handled' = handled
      BY <2>1 DEF EnqueueInsert, IInv, CallInv, histVars
    <3>2. Phase(j) = "new" /\ Phase(j)' = "open"
      BY <2>1, <3>1 DEF Phase, Active, IInv, TypeOK
    <3>3. \A i \in Jobs \ {j} : Phase(i)' = Phase(i)
      BY <2>1 DEF Phase, IInv, TypeOK
    <3>4. D!Accept
      BY <3>1, <3>2, <3>3 DEF D!Accept
    <3> QED BY <3>4 DEF D!Next
  <2>2. CASE UNCHANGED <<state, handled>>
    BY <1>1, <2>2
  <2> QED
    BY <1>3, <2>1, <2>2
    DEF JobStep, EnqueueInsert, EnqueueReselect, BecomesDue, LeaseExpires, rowVars, histVars
<1>4. CASE Reclaim
  <2> DEFINE S == {j \in Jobs : /\ state[j] = "running" /\ lease[j] = "expired"
                                /\ Exhausted(attempts[j])}
  <2>1. \A j \in S : Phase(j) \in {"open"} /\ Phase(j)' = "failed"
    BY <1>4 DEF Reclaim, Phase, Active
  <2>2. \A j \in Jobs \ S : Phase(j)' = Phase(j)
    BY <1>4 DEF Reclaim, Phase, Active
  <2>3. D!Move(S, {"open"}, "failed")
    BY <1>4, <2>1, <2>2, PhaseMoves DEF Reclaim, histVars
  <2>4. D!GiveUp
    BY <2>3 DEF D!GiveUp
  <2> QED BY <2>4 DEF D!Next
<1>5. CASE Purge
  <2>1. PICK S \in SUBSET {j \in Jobs : state[j] = "succeeded"} :
           state' = [j \in Jobs |-> IF j \in S THEN "purged" ELSE state[j]]
    BY <1>5 DEF Purge
  <2>2. \A j \in S : Phase(j) \in {"done"} /\ Phase(j)' = "forgotten"
    BY <2>1 DEF Phase, Active
  <2>3. \A j \in Jobs \ S : Phase(j)' = Phase(j)
    BY <2>1 DEF Phase
  <2>4. D!Move(S, {"done"}, "forgotten")
    BY <1>5, <2>2, <2>3, PhaseMoves DEF Purge, histVars
  <2>5. D!Forget
    BY <2>4 DEF D!Forget
  <2> QED BY <2>5 DEF D!Next
<1>6. CASE Replay
  <2>1. PICK S \in SUBSET {j \in Jobs : Replayable(j)} :
           state' = [j \in Jobs |-> IF j \in S THEN "pending" ELSE state[j]]
    BY <1>6 DEF Replay
  <2>2. \A j \in S : Phase(j) \in {"failed"} /\ Phase(j)' = "open"
    BY <2>1 DEF Phase, Active, Replayable
  <2>3. \A j \in Jobs \ S : Phase(j)' = Phase(j)
    BY <2>1 DEF Phase
  <2>4. D!Move(S, {"failed"}, "open")
    BY <1>6, <2>2, <2>3, PhaseMoves DEF Replay, histVars
  <2>5. D!Reopen
    BY <2>4 DEF D!Reopen
  <2> QED BY <2>5 DEF D!Next
<1>7. CASE UNCHANGED vars
  BY <1>1, <1>7 DEF vars, rowVars, histVars
<1> QED BY <1>2, <1>3, <1>4, <1>5, <1>6, <1>7 DEF Next

\* While leases outlive the invocations that hold them and the updates of
\* complete() are acknowledged, the queue keeps the promises of DurableWork.
THEOREM Refinement ==
    ASSUME SafeLeases, SafeAcks
    PROVE  Spec => ImplementsDurableWork
<1>1. Init => D!Init
  <2> SUFFICES ASSUME Init PROVE D!Init
    OBVIOUS
  <2>1. handled = {} /\ \A j \in Jobs : Phase(j) = "new"
    BY DEF Init, Phase
  <2> QED BY <2>1 DEF D!Init
<1>2. IInv /\ [Next]_vars => [D!Next]_(D!vars)
  BY StepImplements
<1> QED BY Invariant, <1>1, <1>2, PTL DEF Spec, ImplementsDurableWork, D!Spec
=============================================================================
