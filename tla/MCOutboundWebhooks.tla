------------------------- MODULE MCOutboundWebhooks -------------------------
(* Instances of OutboundWebhooks for TLC.  Every event matches every endpoint. *)
EXTENDS OutboundWebhooks, TLC

MCMatching == [v \in Events |-> Endpoints]
MCEventOf == [p \in Publishers |-> CHOOSE v \in Events : \A u \in Events : v <= u]
MCEventOfEach == [p \in Publishers |-> p]

EndpointSymmetry == Permutations(Endpoints)
=============================================================================
