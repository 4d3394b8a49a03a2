------------------------------ MODULE MCOutbox ------------------------------
(* Instances of Outbox for TLC.  Events are numbers.  Events 1 and 2 share an *)
(* idempotency key; two registrations match event 1, one matches event 2, and *)
(* none matches event 3.  Event 2 is the oldest.                              *)
EXTENDS Outbox, TLC

MCMatching == [e \in Events |-> CASE e = 1 -> {"h1", "h2"}
                                  [] e = 2 -> {"h1"}
                                  [] OTHER -> {}]
MCAllMatch == [e \in Events |-> {"h1"}]
MCKeyOf == [e \in Events |-> IF e = 3 THEN NoKey ELSE "k"]
MCNoKeys == [e \in Events |-> NoKey]
MCOccurredAt == [e \in Events |-> IF e = 2 THEN 0 ELSE 1]

Symmetry == Permutations(Drains)
=============================================================================
