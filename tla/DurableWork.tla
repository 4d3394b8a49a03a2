---------------------------- MODULE DurableWork ----------------------------
(***************************************************************************)
(* What the job queue and the outbox promise of the things they accept     *)
(* (jobs, events), with no word of tables, leases or workers: an accepted  *)
(* item is kept; it becomes done only after its work has been done at      *)
(* least once; what is done stays done until it is forgotten; what was     *)
(* given up is kept, can be reopened, and is done if its work still ends.  *)
(***************************************************************************)
CONSTANT Items

VARIABLES
    phase,   \* "new", "open", "failed", "done" or "forgotten"
    worked   \* items whose work has been done at least once

vars == <<phase, worked>>

Init ==
    /\ phase = [i \in Items |-> "new"]
    /\ worked = {}

\* An item without any work to do is worked when it is accepted.
Accept ==
    \E i \in Items :
        /\ phase[i] = "new"
        /\ phase' = [phase EXCEPT ![i] = "open"]
        /\ worked' \in {worked, worked \union {i}}

\* Work may be repeated, and may end after its item was settled.
Work ==
    /\ \E i \in Items : phase[i] # "new" /\ worked' = worked \union {i}
    /\ UNCHANGED phase

Move(S, from, to) ==
    /\ \A i \in S : phase[i] \in from
    /\ phase' = [i \in Items |-> IF i \in S THEN to ELSE phase[i]]
    /\ UNCHANGED worked

Finish == \E S \in SUBSET worked : Move(S, {"open", "failed"}, "done")
GiveUp == \E S \in SUBSET Items : Move(S, {"open"}, "failed")
Reopen == \E S \in SUBSET Items : Move(S, {"failed"}, "open")
Forget == \E S \in SUBSET Items : Move(S, {"done"}, "forgotten")

Next == Accept \/ Work \/ Finish \/ GiveUp \/ Reopen \/ Forget

Spec == Init /\ [][Next]_vars
=============================================================================
