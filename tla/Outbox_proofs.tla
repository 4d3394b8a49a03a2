--------------------------- MODULE Outbox_proofs ---------------------------
(***************************************************************************)
(* Proofs about Outbox for every value of its constants: the inductive     *)
(* invariant IInv and the two safety properties it implies.                *)
(***************************************************************************)
EXTENDS Outbox, TLAPS

LEMMA InitIInv == Init => IInv
BY ParametersAssumption
DEF Init, IInv, TypeOK, DrainInv, RowInv, DeliveredWasHandled, DeadWasSpent

LEMMA PublishInsertKeeps == ASSUME IInv, NEW e \in Events, PublishInsert(e) PROVE IInv'
<1>1. /\ UNCHANGED <<delivered, dead, waiting, attempts, drainVars, ran, crashes>>
      /\ call[e] = "idle"
      /\ \/ row' = [row EXCEPT ![e] = "stored"] /\ call' = [call EXCEPT ![e] = "published"]
         \/ row' = row /\ call' = [call EXCEPT ![e] = "conflict"]
  BY DEF PublishInsert
<1>2. CASE row' = [row EXCEPT ![e] = "stored"] /\ call' = [call EXCEPT ![e] = "published"]
  BY <1>1, <1>2 DEF drainVars, IInv, TypeOK, DrainInv, RowInv, DeliveredWasHandled,
     DeadWasSpent
<1>3. CASE row' = row /\ call' = [call EXCEPT ![e] = "conflict"]
  BY <1>1, <1>3 DEF drainVars, IInv, TypeOK, DrainInv, RowInv, DeliveredWasHandled,
     DeadWasSpent
<1> QED BY <1>1, <1>2, <1>3

LEMMA PublishReselectKeeps == ASSUME IInv, NEW e \in Events, PublishReselect(e) PROVE IInv'
BY ParametersAssumption
DEF PublishReselect, rowVars, drainVars, IInv, TypeOK, DrainInv, RowInv,
    DeliveredWasHandled, DeadWasSpent

LEMMA RetryComesDueKeeps == ASSUME IInv, NEW e \in Events, RetryComesDue(e) PROVE IInv'
BY ParametersAssumption
DEF RetryComesDue, drainVars, IInv, TypeOK, DrainInv, RowInv,
    DeliveredWasHandled, DeadWasSpent

LEMMA PurgeKeeps == ASSUME IInv, NEW e \in Events, Purge(e) PROVE IInv'
BY ParametersAssumption
DEF Purge, drainVars, IInv, TypeOK, DrainInv, RowInv,
    DeliveredWasHandled, DeadWasSpent

LEMMA ClaimKeeps == ASSUME IInv, NEW d \in Drains, Claim(d) PROVE IInv'
BY ParametersAssumption
DEF Claim, Claimable, CountAttempt, rowVars, IInv, TypeOK, DrainInv, RowInv,
    DeliveredWasHandled, DeadWasSpent

LEMMA SkipUnmatchedKeeps == ASSUME IInv, NEW d \in Drains, SkipUnmatched(d) PROVE IInv'
BY ParametersAssumption
DEF SkipUnmatched, rowVars, IInv, TypeOK, DrainInv, RowInv,
    DeliveredWasHandled, DeadWasSpent

LEMMA DispatchKeeps == ASSUME IInv, NEW d \in Drains, Dispatch(d) PROVE IInv'
BY ParametersAssumption
DEF Dispatch, rowVars, IInv, TypeOK, DrainInv, RowInv,
    DeliveredWasHandled, DeadWasSpent

LEMMA HandlerReturnsKeeps == ASSUME IInv, NEW d \in Drains, HandlerReturns(d) PROVE IInv'
BY ParametersAssumption
DEF HandlerReturns, rowVars, IInv, TypeOK, DrainInv, RowInv,
    DeliveredWasHandled, DeadWasSpent

LEMMA HandlerThrowsKeeps == ASSUME IInv, NEW d \in Drains, HandlerThrows(d) PROVE IInv'
BY ParametersAssumption
DEF HandlerThrows, rowVars, IInv, TypeOK, DrainInv, RowInv,
    DeliveredWasHandled, DeadWasSpent

LEMMA AcknowledgeKeeps == ASSUME IInv, NEW d \in Drains, Acknowledge(d) PROVE IInv'
BY ParametersAssumption
DEF Acknowledge, AllSucceeded, rowVars, IInv, TypeOK, DrainInv, RowInv,
    DeliveredWasHandled, DeadWasSpent

LEMMA FailKeeps == ASSUME IInv, NEW d \in Drains, Fail(d) PROVE IInv'
<1>1. /\ cur[d] \in Events /\ pc[d] = "dispatching"
      /\ pc' = [pc EXCEPT ![d] = "looping"]
      /\ cur' = [cur EXCEPT ![d] = NoEvent]
      /\ UNCHANGED <<row, delivered, attempts, call, todo, left, failed, acked, snap,
                     ran, crashes>>
  BY DEF Fail, IInv, DrainInv
<1>2. \/ /\ GiveUp(d)
         /\ dead' = [dead EXCEPT ![cur[d]] = TRUE]
         /\ waiting' = [waiting EXCEPT ![cur[d]] = FALSE]
      \/ /\ dead' = [dead EXCEPT ![cur[d]] = FALSE]
         /\ waiting' = [waiting EXCEPT ![cur[d]] = TRUE]
  <2>1. GiveUp(d) = TRUE \/ GiveUp(d) = FALSE
    BY DEF GiveUp
  <2>2. /\ dead' = [dead EXCEPT ![cur[d]] = GiveUp(d)]
        /\ waiting' = [waiting EXCEPT ![cur[d]] = ~GiveUp(d)]
    BY Zenon DEF Fail
  <2>3. CASE GiveUp(d) = TRUE
    <3>1. (~GiveUp(d)) = FALSE
      BY <2>3
    <3> QED BY <2>2, <2>3, <3>1, Zenon
  <2>4. CASE GiveUp(d) = FALSE
    <3>1. (~GiveUp(d)) = TRUE
      BY <2>4
    <3> QED BY <2>2, <2>4, <3>1, Zenon
  <2> QED BY <2>1, <2>3, <2>4
<1>3. GiveUp(d) => attempts[cur[d]] = MaxAttempts
  <2>1. /\ snap[d][cur[d]] <= attempts[cur[d]] /\ attempts[cur[d]] \in 0..MaxAttempts
        /\ snap[d][cur[d]] \in 0..MaxAttempts
    BY <1>1 DEF IInv, TypeOK, DrainInv
  <2> QED BY <2>1, ParametersAssumption DEF GiveUp
<1>4. TypeOK'
  BY <1>1, <1>2 DEF IInv, TypeOK
<1>5. DeadWasSpent'
  BY <1>1, <1>2, <1>3 DEF IInv, TypeOK, DeadWasSpent
<1>6. DrainInv' /\ DeliveredWasHandled'
  BY <1>1 DEF IInv, TypeOK, DrainInv, DeliveredWasHandled
<1>7. RowInv'
  <2>1. row[cur[d]] # "absent"
    BY <1>1, ParametersAssumption DEF IInv, DrainInv
  <2> QED BY <1>1, <1>2, <2>1 DEF IInv, TypeOK, RowInv
<1> QED BY <1>4, <1>5, <1>6, <1>7 DEF IInv

LEMMA AckKeeps == ASSUME IInv, NEW d \in Drains, Ack(d) PROVE IInv'
BY ParametersAssumption
DEF Ack, AckedNow, EndDrain, IInv, TypeOK, DrainInv, RowInv,
    DeliveredWasHandled, DeadWasSpent

LEMMA CrashKeeps == ASSUME IInv, NEW d \in Drains, Crash(d) PROVE IInv'
BY ParametersAssumption
DEF Crash, EndDrain, rowVars, IInv, TypeOK, DrainInv, RowInv,
    DeliveredWasHandled, DeadWasSpent

LEMMA StutterKeeps == ASSUME IInv, UNCHANGED vars PROVE IInv'
BY DEF vars, rowVars, drainVars, IInv, TypeOK, DrainInv, RowInv,
    DeliveredWasHandled, DeadWasSpent

-----------------------------------------------------------------------------
(* The invariant and its consequences                                      *)

LEMMA StepKeeps == ASSUME IInv, [Next]_vars PROVE IInv'
<1>1. CASE \E d \in Drains : DrainStep(d)
  BY <1>1, ClaimKeeps, SkipUnmatchedKeeps, DispatchKeeps, HandlerReturnsKeeps,
     HandlerThrowsKeeps, AcknowledgeKeeps, FailKeeps, AckKeeps, CrashKeeps, StutterKeeps
  DEF DrainStep, ClaimNothing
<1>2. CASE \E e \in Events : EventStep(e)
  BY <1>2, PublishInsertKeeps, PublishReselectKeeps, RetryComesDueKeeps, PurgeKeeps
  DEF EventStep
<1>3. CASE UNCHANGED vars
  BY <1>3, StutterKeeps
<1> QED BY <1>1, <1>2, <1>3 DEF Next

\* IInv is an inductive invariant of the outbox and its drains.
THEOREM Invariant == Spec => []IInv
BY InitIInv, StepKeeps, PTL DEF Spec

\* An event is marked delivered only after every registration that matches it
\* has returned for it: the at-least-once promise of the drain, for any number
\* of overlapping and dying drains.
THEOREM AtLeastOnce == Spec => []DeliveredWasHandled
<1>1. IInv => DeliveredWasHandled
  BY DEF IInv
<1> QED BY Invariant, <1>1, PTL

\* An event is dead-lettered only when its attempts are used up.
THEOREM NoEarlyDeadLetter == Spec => []DeadWasSpent
<1>1. IInv => DeadWasSpent
  BY DEF IInv
<1> QED BY Invariant, <1>1, PTL

\* The unique index and the no-op insert keep one stored event per key.
THEOREM OneStoredEventPerKey == Spec => []OneEventPerKey
<1>1. Init => OneEventPerKey
  BY DEF Init, OneEventPerKey
<1>2. ASSUME IInv, OneEventPerKey, [Next]_vars PROVE OneEventPerKey'
  <2>1. ASSUME NEW e \in Events, PublishInsert(e) PROVE OneEventPerKey'
    BY <1>2, <2>1 DEF PublishInsert, SameKey, OneEventPerKey, IInv, TypeOK
  <2>2. ASSUME NEW e \in Events, Purge(e) PROVE OneEventPerKey'
    BY <1>2, <2>2 DEF Purge, OneEventPerKey, IInv, TypeOK
  <2>3. CASE UNCHANGED row
    BY <1>2, <2>3 DEF OneEventPerKey
  <2> QED
    BY <1>2, <2>1, <2>2, <2>3
    DEF Next, DrainStep, EventStep, Claim, ClaimNothing, SkipUnmatched, Dispatch,
        HandlerReturns, HandlerThrows, Acknowledge, Fail, Ack, Crash, PublishReselect,
        RetryComesDue, rowVars, vars
<1> QED BY Invariant, <1>1, <1>2, PTL DEF Spec

-----------------------------------------------------------------------------
(* Refinement of DurableWork                                               *)

LEMMA PhaseUnchanged ==
    ASSUME UNCHANGED <<row, delivered, dead, ran>>
    PROVE  UNCHANGED D!vars
BY DEF D!vars, Phase, Worked

\* A step that takes a set of events from one phase to another is a Move.
LEMMA PhaseMoves ==
    ASSUME NEW S \in SUBSET Events, NEW from, NEW to,
           \A e \in S : Phase(e) \in from /\ Phase(e)' = to,
           \A e \in Events \ S : Phase(e)' = Phase(e),
           UNCHANGED Worked
    PROVE  D!Move(S, from, to)
BY DEF D!Move

\* A late success of a dead-lettered event, a late failure of a delivered one:
\* every step of the outbox is a step of DurableWork or none.
LEMMA StepImplements ==
    ASSUME IInv, [Next]_vars
    PROVE  [D!Next]_(D!vars)
<1>1. ASSUME NEW d \in Drains, HandlerReturns(d) PROVE [D!Next]_(D!vars)
  <2>1. PICK e \in Events : e = cur[d] /\ row[e] # "absent"
    BY <1>1, ParametersAssumption DEF HandlerReturns, IInv, TypeOK, DrainInv
  <2>2. /\ UNCHANGED <<row, delivered, dead>>
        /\ \E h \in left[d] : ran' = [ran EXCEPT ![e] = @ \union {h}]
    BY <1>1, <2>1 DEF HandlerReturns, rowVars
  <2>3. \A i \in Events : Phase(i)' = Phase(i)
    BY <2>2 DEF Phase
  <2>4. Phase(e) # "new"
    BY <2>1 DEF Phase
  <2>5. Worked' = Worked \/ Worked' = Worked \union {e}
    BY <2>1, <2>2 DEF Worked, IInv, TypeOK
  <2>6. D!Work \/ UNCHANGED D!vars
    BY <2>3, <2>4, <2>5 DEF D!Work, D!vars
  <2> QED BY <2>6 DEF D!Next
<1>2. ASSUME NEW d \in Drains, Fail(d) PROVE [D!Next]_(D!vars)
  <2>1. PICK e \in Events : e = cur[d] /\ row[e] # "absent"
    BY <1>2, ParametersAssumption DEF Fail, IInv, TypeOK, DrainInv
  <2>2. /\ UNCHANGED <<row, delivered, ran>> /\ dead' = [dead EXCEPT ![e] = GiveUp(d)]
    BY <1>2, <2>1 DEF Fail
  <2>3. /\ \A i \in Events \ {e} : Phase(i)' = Phase(i)
        /\ Worked' = Worked
    BY <2>2 DEF Phase, Worked, IInv, TypeOK
  <2>4. \/ Phase(e)' = Phase(e)
        \/ Phase(e) = "open" /\ Phase(e)' = "failed"
        \/ Phase(e) = "failed" /\ Phase(e)' = "open"
    BY <2>1, <2>2 DEF Phase, IInv, TypeOK
  <2>5. CASE Phase(e)' = Phase(e)
    BY <2>3, <2>5 DEF D!vars
  <2>6. CASE Phase(e) = "open" /\ Phase(e)' = "failed"
    <3>1. D!Move({e}, {"open"}, "failed")
      BY <2>3, <2>6, PhaseMoves
    <3> QED BY <3>1 DEF D!GiveUp, D!Next
  <2>7. CASE Phase(e) = "failed" /\ Phase(e)' = "open"
    <3>1. D!Move({e}, {"failed"}, "open")
      BY <2>3, <2>7, PhaseMoves
    <3> QED BY <3>1 DEF D!Reopen, D!Next
  <2> QED BY <2>4, <2>5, <2>6, <2>7
<1>3. ASSUME NEW d \in Drains, Ack(d) PROVE [D!Next]_(D!vars)
  <2> DEFINE S == {e \in acked[d] : row[e] = "stored" /\ ~delivered[e]}
  <2>1. /\ UNCHANGED <<row, dead, ran>>
        /\ delivered' = [e \in Events |-> delivered[e] \/ e \in acked[d]]
    BY <1>3 DEF Ack, AckedNow
  <2>2. /\ acked[d] \subseteq Events
        /\ \A e \in acked[d] : row[e] # "absent" /\ Matching[e] \subseteq ran[e]
    BY <1>3 DEF IInv, TypeOK, DrainInv
  <2>3. S \in SUBSET Worked /\ S \in SUBSET Events
    BY <2>2 DEF Worked
  <2>4. \A e \in S : Phase(e) \in {"open", "failed"} /\ Phase(e)' = "done"
    BY <2>1, <2>2 DEF Phase
  <2>5. \A e \in Events \ S : Phase(e)' = Phase(e)
    BY <2>1, <2>2 DEF Phase, IInv, TypeOK
  <2>6. D!Move(S, {"open", "failed"}, "done")
    <3>1. UNCHANGED Worked
      BY <2>1 DEF Worked
    <3> HIDE DEF S
    <3> QED BY <2>3, <2>4, <2>5, <3>1, PhaseMoves
  <2>7. D!Finish
    BY <2>3, <2>6 DEF D!Finish
  <2> QED BY <2>7 DEF D!Next
<1>4. ASSUME NEW e \in Events, PublishInsert(e) PROVE [D!Next]_(D!vars)
  <2>1. UNCHANGED <<delivered, dead, ran>>
    BY <1>4 DEF PublishInsert
  <2>2. CASE row' = [row EXCEPT ![e] = "stored"] /\ row[e] = "absent"
    <3>1. /\ Phase(e) = "new" /\ Phase(e)' = "open"
          /\ \A i \in Events \ {e} : Phase(i)' = Phase(i)
      BY <2>1, <2>2 DEF Phase, IInv, TypeOK, RowInv
    <3>2. Worked' \in {Worked, Worked \union {e}}
      BY <2>1, <2>2 DEF Worked, IInv, TypeOK
    <3>3. D!Accept
      BY <3>1, <3>2 DEF D!Accept
    <3> QED BY <3>3 DEF D!Next
  <2>3. CASE row' = row
    BY <2>1, <2>3, PhaseUnchanged
  <2> QED BY <1>4, <2>2, <2>3 DEF PublishInsert, IInv, RowInv
<1>5. ASSUME NEW e \in Events, Purge(e) PROVE [D!Next]_(D!vars)
  <2>1. /\ UNCHANGED <<delivered, dead, ran>>
        /\ row[e] = "stored" /\ delivered[e]
        /\ row' = [row EXCEPT ![e] = "purged"]
    BY <1>5 DEF Purge
  <2>2. /\ Phase(e) = "done" /\ Phase(e)' = "forgotten"
        /\ \A i \in Events \ {e} : Phase(i)' = Phase(i)
        /\ Worked' = Worked
    BY <2>1 DEF Phase, Worked, IInv, TypeOK
  <2>3. D!Move({e}, {"done"}, "forgotten")
    BY <2>2, PhaseMoves
  <2> QED BY <2>3 DEF D!Forget, D!Next
<1>6. CASE UNCHANGED <<row, delivered, dead, ran>>
  BY <1>6, PhaseUnchanged
<1> QED
  BY <1>1, <1>2, <1>3, <1>4, <1>5, <1>6
  DEF Next, DrainStep, EventStep, Claim, ClaimNothing, SkipUnmatched, Dispatch,
      HandlerThrows, Acknowledge, Crash, PublishReselect, RetryComesDue, rowVars, vars

\* The outbox and its drains keep the promises of DurableWork: with any overlap
\* and any crash an event is done only after its handlers, and stays done.
THEOREM Refinement == Spec => ImplementsDurableWork
<1>1. Init => D!Init
  <2> SUFFICES ASSUME Init PROVE D!Init
    OBVIOUS
  <2>1. Worked = {} /\ \A e \in Events : Phase(e) = "new"
    BY DEF Init, Phase, Worked
  <2> QED BY <2>1 DEF D!Init
<1>2. IInv /\ [Next]_vars => [D!Next]_(D!vars)
  BY StepImplements
<1> QED BY Invariant, <1>1, <1>2, PTL DEF Spec, ImplementsDurableWork, D!Spec
=============================================================================
