----------------------------- MODULE MCJobQueue -----------------------------
(* Instances of JobQueue for TLC.  Requests are numbers; requests 1 and 2     *)
(* share an idempotency key, request 3 has none and a higher priority.        *)
EXTENDS JobQueue, TLC

MCTypeOf == [j \in Jobs |-> IF j = 3 THEN "b" ELSE "a"]
MCKeyOf == [j \in Jobs |-> IF j = 3 THEN NoKey ELSE "k"]
MCOneType == [j \in Jobs |-> "a"]
MCPriorityOf == [j \in Jobs |-> IF j = 3 THEN 1 ELSE 0]

\* No type is capped; type "a" may run one job at a time.
MCUncapped == [t \in {} |-> 0]
MCOneOfA == [t \in {"a"} |-> 1]

Symmetry == Permutations(Workers)
=============================================================================
