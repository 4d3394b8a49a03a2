----------------------------- MODULE BatchLease -----------------------------
(***************************************************************************)
(* The clock of one runOnce (packages/queue/src/worker.ts).  JobQueue says *)
(* what happens when a lease runs out under a living worker; this module   *)
(* says when it does.  All jobs of a batch get one lease at the claim, the *)
(* jobs run one after the other, and the budget is checked only between    *)
(* two jobs.                                                               *)
(*                                                                         *)
(* clock counts seconds from the start of runOnce.  ClaimMax bounds the    *)
(* time until the claim has run; HandlerMax bounds a handler with the      *)
(* statement that records its outcome.                                     *)
(***************************************************************************)
EXTENDS Integers

CONSTANTS
    BatchSize,    \* QUEUE_BATCH_SIZE
    Lease,        \* QUEUE_LEASE_SECONDS
    Budget,       \* QUEUE_BUDGET_MS, in seconds
    HandlerMax, ClaimMax

ASSUME ParametersAssumption ==
    /\ BatchSize \in Nat \ {0}
    /\ Lease \in Nat \ {0}
    /\ Budget \in Nat
    /\ HandlerMax \in Nat \ {0}
    /\ ClaimMax \in Nat

VARIABLES
    pc,         \* "claiming", "looping", "handling" or "ended"
    clock,
    claimedAt,  \* when the leases began
    startedAt,  \* when the current handler began
    unstarted   \* jobs of the batch that have not begun

vars == <<pc, clock, claimedAt, startedAt, unstarted>>

Init ==
    /\ pc = "claiming"
    /\ clock = 0 /\ claimedAt = 0 /\ startedAt = 0
    /\ unstarted = 0

\* The claim returns up to BatchSize jobs; leased_until is counted from it.
Claim ==
    /\ pc = "claiming"
    /\ pc' = "looping"
    /\ claimedAt' = clock
    /\ unstarted' \in 0..BatchSize
    /\ UNCHANGED <<clock, startedAt>>

\* A budget that restarts with each job.
BudgetSpentPerJob == clock - startedAt > Budget

BudgetSpent == clock > Budget

StartHandler ==
    /\ pc = "looping" /\ unstarted > 0
    /\ ~BudgetSpent
    /\ pc' = "handling"
    /\ startedAt' = clock
    /\ unstarted' = unstarted - 1
    /\ UNCHANGED <<clock, claimedAt>>

FinishHandler ==
    /\ pc = "handling"
    /\ pc' = "looping"
    /\ UNCHANGED <<clock, claimedAt, startedAt, unstarted>>

\* The batch is done, or the budget is spent and the rest is released.
EndRun ==
    /\ pc = "looping"
    /\ unstarted = 0 \/ BudgetSpent
    /\ pc' = "ended"
    /\ unstarted' = 0
    /\ UNCHANGED <<clock, claimedAt, startedAt>>

\* Time passes in the statements before the loop and in the handlers.
Tick ==
    /\ \/ pc = "claiming" /\ clock < ClaimMax
       \/ pc = "handling" /\ clock - startedAt < HandlerMax
    /\ clock' = clock + 1
    /\ UNCHANGED <<pc, claimedAt, startedAt, unstarted>>

Next == Claim \/ StartHandler \/ FinishHandler \/ EndRun \/ Tick

Spec == Init /\ [][Next]_vars

-----------------------------------------------------------------------------
(* Properties                                                              *)

TypeOK ==
    /\ pc \in {"claiming", "looping", "handling", "ended"}
    /\ clock \in Nat /\ claimedAt \in Nat /\ startedAt \in Nat
    /\ unstarted \in 0..BatchSize

\* No other worker can steal the job that is being handled: its lease is live.
LeaseIsLive == clock <= claimedAt + Lease

\* The slowest handler that starts at the end of the budget stays in the lease.
LeaseCoversBudget == Budget + HandlerMax <= Lease

\* The configuration that keeps a batch safe: while the lease covers the budget
\* and the slowest handler, no job is handled past its lease.
HandledUnderLease == LeaseCoversBudget => (pc = "handling" => LeaseIsLive)

\* The invocation ends in time: the last handler starts within the budget, so
\* the run lasts at most the budget and one handler, or as long as its claim.
EndsInTime ==
    clock <= ClaimMax \/ clock <= Budget + HandlerMax

\* A handler starts within the budget, after the claim, and lasts at most
\* HandlerMax.
ClockInv ==
    /\ pc = "claiming" => clock <= ClaimMax
    /\ pc # "claiming" => claimedAt <= clock /\ claimedAt <= ClaimMax
    /\ pc = "handling" => /\ startedAt <= Budget /\ claimedAt <= startedAt
                          /\ startedAt <= clock
                          /\ clock <= startedAt + HandlerMax
    /\ pc \in {"looping", "ended"} => clock <= ClaimMax \/ clock <= Budget + HandlerMax

\* The inductive invariant of the proofs: where the clock of a run can be in each
\* phase, counted from the claim and from the start of the current handler.
IInv == TypeOK /\ ClockInv

\* The documented rule: a lease longer than the slowest handler is enough.
DocumentedLeaseRule == HandlerMax < Lease => (pc = "handling" => LeaseIsLive)
=============================================================================
