------------------------- MODULE BatchLease_proofs -------------------------
(* Proofs about BatchLease for every configuration.                         *)
EXTENDS BatchLease, TLAPS

\* A handler starts within the budget and after the claim, for every lease,
\* budget and batch size.
THEOREM Invariant == Spec => []IInv
<1>1. Init => IInv
  BY ParametersAssumption DEF Init, IInv, TypeOK, ClockInv
<1>2. ASSUME IInv, [Next]_vars PROVE IInv'
  <2> USE <1>2, ParametersAssumption DEF IInv, TypeOK, ClockInv
  <2>1. CASE Claim
    BY <2>1 DEF Claim
  <2>2. CASE StartHandler
    BY <2>2 DEF StartHandler, BudgetSpent
  <2>3. CASE FinishHandler
    BY <2>3 DEF FinishHandler
  <2>4. CASE EndRun
    BY <2>4 DEF EndRun
  <2>5. CASE Tick
    BY <2>5 DEF Tick
  <2>6. CASE UNCHANGED vars
    BY <2>6 DEF vars
  <2> QED BY <2>1, <2>2, <2>3, <2>4, <2>5, <2>6 DEF Next
<1> QED BY <1>1, <1>2, PTL DEF Spec

\* A lease that covers the budget and the slowest handler is never outlived: the
\* condition under which JobQueue's "overrun" cannot happen.
THEOREM SafeLease == Spec => []HandledUnderLease
<1>1. IInv => HandledUnderLease
  BY ParametersAssumption
  DEF IInv, TypeOK, ClockInv, HandledUnderLease, LeaseCoversBudget, LeaseIsLive
<1> QED BY Invariant, <1>1, PTL

\* The invocation is over when the budget and one handler have passed.
THEOREM BoundedRun == Spec => []EndsInTime
<1>1. IInv => EndsInTime
  BY ParametersAssumption DEF IInv, TypeOK, ClockInv, EndsInTime
<1> QED BY Invariant, <1>1, PTL
=============================================================================
