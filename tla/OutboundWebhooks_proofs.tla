---------------------- MODULE OutboundWebhooks_proofs ----------------------
(***************************************************************************)
(* Proofs about OutboundWebhooks for every value of its constants: the     *)
(* inductive invariant IInv and the safety properties it implies.          *)
(***************************************************************************)
EXTENDS OutboundWebhooks, TLAPS

LEMMA InitIInv == Init => IInv
<1> SUFFICES ASSUME Init PROVE IInv
  OBVIOUS
<1>1. TypeOK
  BY ParametersAssumption DEF Init, Circuits, TypeOK
<1>2. AttemptsInv
  BY ParametersAssumption DEF Init, AttemptsInv
<1>3. SenderInv /\ FanoutInv /\ DeliveredWasAccepted /\ DeadWasSpent
  BY DEF Init, SenderInv, FanoutInv, DeliveredWasAccepted, DeadWasSpent
<1>4. CircuitMatchesFailures
  BY ParametersAssumption DEF Init, CircuitMatchesFailures
<1> QED BY <1>1, <1>2, <1>3, <1>4 DEF IInv

LEMMA RegisterKeeps == ASSUME IInv, NEW e \in Endpoints, Register(e) PROVE IInv'
<1>1. TypeOK'
  BY ParametersAssumption
  DEF Register, deliveryVars, pubVars, sendVars, histVars, Deliveries,
      Circuits, IInv, TypeOK
<1>2. AttemptsInv' /\ SenderInv'
  BY ParametersAssumption
  DEF Register, deliveryVars, pubVars, sendVars, histVars, Deliveries,
      IInv, TypeOK, AttemptsInv, SenderInv
<1>3. FanoutInv' /\ DeliveredWasAccepted' /\ DeadWasSpent' /\ CircuitMatchesFailures'
  BY ParametersAssumption
  DEF Register, deliveryVars, pubVars, sendVars, histVars, Deliveries,
      IInv, TypeOK, FanoutInv, DeliveredWasAccepted, DeadWasSpent, CircuitMatchesFailures
<1> QED BY <1>1, <1>2, <1>3 DEF IInv

LEMMA RemoveKeeps == ASSUME IInv, NEW e \in Endpoints, Remove(e) PROVE IInv'
<1>1. TypeOK'
  BY ParametersAssumption
  DEF Remove, pubVars, sendVars, histVars, Deliveries,
      Circuits, IInv, TypeOK
<1>2. AttemptsInv' /\ SenderInv'
  BY ParametersAssumption
  DEF Remove, pubVars, sendVars, histVars, Deliveries,
      IInv, TypeOK, AttemptsInv, SenderInv
<1>3. FanoutInv' /\ DeliveredWasAccepted' /\ DeadWasSpent' /\ CircuitMatchesFailures'
  BY ParametersAssumption
  DEF Remove, pubVars, sendVars, histVars, Deliveries,
      IInv, TypeOK, FanoutInv, DeliveredWasAccepted, DeadWasSpent, CircuitMatchesFailures
<1> QED BY <1>1, <1>2, <1>3 DEF IInv

LEMMA EnableKeeps == ASSUME IInv, NEW e \in Endpoints, Enable(e) PROVE IInv'
<1>1. TypeOK'
  BY ParametersAssumption
  DEF Enable, deliveryVars, pubVars, sendVars, histVars, Deliveries,
      Circuits, IInv, TypeOK
<1>2. AttemptsInv' /\ SenderInv'
  BY ParametersAssumption
  DEF Enable, deliveryVars, pubVars, sendVars, histVars, Deliveries,
      IInv, TypeOK, AttemptsInv, SenderInv
<1>3. FanoutInv' /\ DeliveredWasAccepted' /\ DeadWasSpent' /\ CircuitMatchesFailures'
  BY ParametersAssumption
  DEF Enable, deliveryVars, pubVars, sendVars, histVars, Deliveries,
      IInv, TypeOK, FanoutInv, DeliveredWasAccepted, DeadWasSpent, CircuitMatchesFailures
<1> QED BY <1>1, <1>2, <1>3 DEF IInv

LEMMA ReviveKeeps == ASSUME IInv, NEW e \in Endpoints, Revive(e) PROVE IInv'
<1>1. TypeOK'
  BY ParametersAssumption
  DEF Revive, endpointVars, pubVars, sendVars, histVars, Deliveries,
      Circuits, IInv, TypeOK
<1>2. AttemptsInv' /\ SenderInv'
  BY ParametersAssumption
  DEF Revive, endpointVars, pubVars, sendVars, histVars, Deliveries,
      IInv, TypeOK, AttemptsInv, SenderInv
<1>3. FanoutInv' /\ DeliveredWasAccepted' /\ DeadWasSpent' /\ CircuitMatchesFailures'
  BY ParametersAssumption
  DEF Revive, endpointVars, pubVars, sendVars, histVars, Deliveries,
      IInv, TypeOK, FanoutInv, DeliveredWasAccepted, DeadWasSpent, CircuitMatchesFailures
<1> QED BY <1>1, <1>2, <1>3 DEF IInv

LEMMA CoolDownKeeps == ASSUME IInv, NEW e \in Endpoints, CoolDown(e) PROVE IInv'
<1>1. TypeOK'
  BY ParametersAssumption
  DEF CoolDown, SnapshotsCool, Cooled, deliveryVars, pubVars, histVars, Deliveries,
      Circuits, IInv, TypeOK
<1>2. AttemptsInv' /\ SenderInv'
  BY ParametersAssumption
  DEF CoolDown, SnapshotsCool, Cooled, deliveryVars, pubVars, histVars, Deliveries,
      IInv, TypeOK, AttemptsInv, SenderInv
<1>3. FanoutInv' /\ DeliveredWasAccepted' /\ DeadWasSpent' /\ CircuitMatchesFailures'
  BY ParametersAssumption
  DEF CoolDown, SnapshotsCool, Cooled, deliveryVars, pubVars, histVars, Deliveries,
      IInv, TypeOK, FanoutInv, DeliveredWasAccepted, DeadWasSpent, CircuitMatchesFailures
<1> QED BY <1>1, <1>2, <1>3 DEF IInv

LEMMA SnapshotCoolsKeeps == ASSUME IInv, NEW e \in Endpoints, SnapshotCools(e) PROVE IInv'
<1>1. TypeOK'
  BY ParametersAssumption
  DEF SnapshotCools, SnapshotsCool, Cooled, endpointVars, deliveryVars, pubVars, histVars, Deliveries,
      Circuits, IInv, TypeOK
<1>2. AttemptsInv' /\ SenderInv'
  BY ParametersAssumption
  DEF SnapshotCools, SnapshotsCool, Cooled, endpointVars, deliveryVars, pubVars, histVars, Deliveries,
      IInv, TypeOK, AttemptsInv, SenderInv
<1>3. FanoutInv' /\ DeliveredWasAccepted' /\ DeadWasSpent' /\ CircuitMatchesFailures'
  BY ParametersAssumption
  DEF SnapshotCools, SnapshotsCool, Cooled, endpointVars, deliveryVars, pubVars, histVars, Deliveries,
      IInv, TypeOK, FanoutInv, DeliveredWasAccepted, DeadWasSpent, CircuitMatchesFailures
<1> QED BY <1>1, <1>2, <1>3 DEF IInv

LEMMA SelectEndpointsKeeps == ASSUME IInv, NEW p \in Publishers, SelectEndpoints(p) PROVE IInv'
<1>1. TypeOK'
  BY ParametersAssumption
  DEF SelectEndpoints, Usable, endpointVars, deliveryVars, sendVars, histVars, Deliveries,
      Circuits, IInv, TypeOK
<1>2. AttemptsInv' /\ SenderInv'
  BY ParametersAssumption
  DEF SelectEndpoints, Usable, endpointVars, deliveryVars, sendVars, histVars, Deliveries,
      IInv, TypeOK, AttemptsInv, SenderInv
<1>3. FanoutInv' /\ DeliveredWasAccepted' /\ DeadWasSpent' /\ CircuitMatchesFailures'
  BY ParametersAssumption
  DEF SelectEndpoints, Usable, endpointVars, deliveryVars, sendVars, histVars, Deliveries,
      IInv, TypeOK, FanoutInv, DeliveredWasAccepted, DeadWasSpent, CircuitMatchesFailures
<1> QED BY <1>1, <1>2, <1>3 DEF IInv

LEMMA InsertDeliveryKeeps == ASSUME IInv, NEW p \in Publishers, InsertDelivery(p) PROVE IInv'
<1>1. PICK e \in fanout[p] : LET d == <<e, EventOf[p]>>
          IN  \/ /\ endpoint[e] = "active"
                 /\ status' = [status EXCEPT ![d] = IF @ = "none" THEN "pending" ELSE @]
                 /\ due' = [due EXCEPT ![d] = @ \/ status[d] = "none"]
                 /\ fanout' = [fanout EXCEPT ![p] = RestOfFanout(p, e)]
                 /\ UNCHANGED pub
              \/ /\ endpoint[e] = "deleted"
                 /\ pub' = [pub EXCEPT ![p] = "failed"]
                 /\ fanout' = [fanout EXCEPT ![p] = {}]
                 /\ UNCHANGED <<status, due>>
  BY DEF InsertDelivery
<1> DEFINE d == <<e, EventOf[p]>>
<1>2. /\ UNCHANGED <<endpointVars, attempts, selected, enabling, sendVars, histVars,
                     crashes, enables>>
      /\ pub[p] = "inserting"
  BY DEF InsertDelivery
<1>3. e \in Endpoints /\ d \in Deliveries /\ EventOf[p] \in Events
  BY ParametersAssumption DEF IInv, TypeOK, Deliveries
<1>4. \/ UNCHANGED status
      \/ status[d] = "none" /\ status' = [status EXCEPT ![d] = "pending"]
  BY <1>1, <1>3 DEF IInv, TypeOK
<1>5. due' \in [Deliveries -> BOOLEAN]
  <2>1. CASE due' = due
    BY <2>1 DEF IInv, TypeOK
  <2>2. CASE due' = [due EXCEPT ![d] = @ \/ status[d] = "none"]
    BY <2>2, Zenon DEF IInv, TypeOK
  <2> QED BY <1>1, <2>1, <2>2
<1>6. /\ pub' \in [Publishers -> {"idle", "inserting", "accepted", "failed"}]
      /\ fanout' \in [Publishers -> SUBSET Endpoints]
  <2>1. \/ fanout' = [fanout EXCEPT ![p] = RestOfFanout(p, e)] /\ UNCHANGED pub
        \/ fanout' = [fanout EXCEPT ![p] = {}] /\ pub' = [pub EXCEPT ![p] = "failed"]
    BY <1>1, Zenon
  <2> QED BY <2>1 DEF IInv, TypeOK, RestOfFanout
<1>7. TypeOK'
  <2>1. status' \in [Deliveries -> {"none", "pending", "delivered", "dead", "deleted"}]
    <3>1. status \in [Deliveries -> {"none", "pending", "delivered", "dead", "deleted"}]
      BY DEF IInv, TypeOK
    <3> HIDE DEF d
    <3> QED BY <1>3, <1>4, <3>1
  <2> QED BY <1>2, <1>5, <1>6, <2>1 DEF IInv, TypeOK, endpointVars, sendVars, histVars
<1>8. AttemptsInv'
  <2>1. \A c \in Deliveries : \/ status'[c] = status[c]
                              \/ status[c] = "none" /\ status'[c] = "pending"
    BY <1>3, <1>4 DEF IInv, TypeOK
  <2>2. attempts' = attempts /\ posts' = posts /\ snapAttempts' = snapAttempts
    BY <1>2 DEF sendVars, histVars
  <2> QED BY <2>1, <2>2, ParametersAssumption DEF IInv, TypeOK, AttemptsInv
<1>9. SenderInv'
  BY <1>2 DEF IInv, SenderInv, sendVars, histVars
<1>10. FanoutInv'
  <2> SUFFICES ASSUME NEW q \in Publishers, pub'[q] \in {"inserting", "accepted"},
                      NEW f \in selected'[q]
               PROVE  \/ f \in fanout'[q] /\ pub'[q] = "inserting"
                      \/ endpoint'[f] = "deleted"
                      \/ status'[<<f, EventOf[q]>>] # "none"
    BY DEF FanoutInv
  <2>1. f \in Endpoints /\ <<f, EventOf[q]>> \in Deliveries
    BY <1>2, ParametersAssumption DEF IInv, TypeOK, Deliveries
  <2>2. selected' = selected /\ endpoint' = endpoint
    BY <1>2 DEF endpointVars
  <2>3. status[<<f, EventOf[q]>>] # "none" => status'[<<f, EventOf[q]>>] # "none"
    BY <1>3, <1>4, <2>1 DEF IInv, TypeOK
  <2>4. CASE pub' = [pub EXCEPT ![p] = "failed"] /\ fanout' = [fanout EXCEPT ![p] = {}]
    <3>1. q # p /\ pub'[q] = pub[q] /\ fanout'[q] = fanout[q]
      BY <2>4 DEF IInv, TypeOK
    <3> QED BY <3>1, <2>2, <2>3 DEF IInv, FanoutInv
  <2>5. CASE /\ status' = [status EXCEPT ![d] = IF @ = "none" THEN "pending" ELSE @]
             /\ fanout' = [fanout EXCEPT ![p] = RestOfFanout(p, e)]
             /\ UNCHANGED pub
    <3>1. \/ f \in fanout[q] /\ pub[q] = "inserting"
          \/ endpoint[f] = "deleted"
          \/ status[<<f, EventOf[q]>>] # "none"
      BY <2>2, <2>5 DEF IInv, FanoutInv
    <3>2. CASE f \in fanout[q] /\ q = p /\ f = e
      <4>1. status'[d] # "none"
        BY <1>3, <2>5 DEF IInv, TypeOK
      <4> QED BY <3>2, <4>1
    <3>3. CASE f \in fanout[q] /\ ~(q = p /\ f = e)
      <4>1. f \in fanout'[q]
        BY <2>5, <3>3 DEF IInv, TypeOK, RestOfFanout
      <4> QED BY <3>1, <2>2, <2>3, <2>5, <4>1
    <3> QED BY <3>1, <3>2, <3>3, <2>2, <2>3
  <2> QED BY <1>1, <2>4, <2>5
<1>11. DeliveredWasAccepted' /\ DeadWasSpent'
  BY <1>2, <1>3, <1>4 DEF IInv, TypeOK, DeliveredWasAccepted, DeadWasSpent, histVars
<1>12. CircuitMatchesFailures'
  BY <1>2 DEF IInv, CircuitMatchesFailures, endpointVars
<1> QED BY <1>7, <1>8, <1>9, <1>10, <1>11, <1>12 DEF IInv

LEMMA AcceptKeeps == ASSUME IInv, NEW p \in Publishers, Accept(p) PROVE IInv'
<1>1. TypeOK'
  BY ParametersAssumption
  DEF Accept, endpointVars, deliveryVars, sendVars, histVars, Deliveries,
      Circuits, IInv, TypeOK
<1>2. AttemptsInv' /\ SenderInv'
  BY ParametersAssumption
  DEF Accept, endpointVars, deliveryVars, sendVars, histVars, Deliveries,
      IInv, TypeOK, AttemptsInv, SenderInv
<1>3. FanoutInv' /\ DeliveredWasAccepted' /\ DeadWasSpent' /\ CircuitMatchesFailures'
  BY ParametersAssumption
  DEF Accept, endpointVars, deliveryVars, sendVars, histVars, Deliveries,
      IInv, TypeOK, FanoutInv, DeliveredWasAccepted, DeadWasSpent, CircuitMatchesFailures
<1> QED BY <1>1, <1>2, <1>3 DEF IInv

LEMMA PublisherDiesKeeps == ASSUME IInv, NEW p \in Publishers, PublisherDies(p) PROVE IInv'
<1>1. TypeOK'
  BY ParametersAssumption
  DEF PublisherDies, Crashes, endpointVars, deliveryVars, sendVars, histVars, Deliveries,
      Circuits, IInv, TypeOK
<1>2. AttemptsInv' /\ SenderInv'
  BY ParametersAssumption
  DEF PublisherDies, Crashes, endpointVars, deliveryVars, sendVars, histVars, Deliveries,
      IInv, TypeOK, AttemptsInv, SenderInv
<1>3. FanoutInv' /\ DeliveredWasAccepted' /\ DeadWasSpent' /\ CircuitMatchesFailures'
  BY ParametersAssumption
  DEF PublisherDies, Crashes, endpointVars, deliveryVars, sendVars, histVars, Deliveries,
      IInv, TypeOK, FanoutInv, DeliveredWasAccepted, DeadWasSpent, CircuitMatchesFailures
<1> QED BY <1>1, <1>2, <1>3 DEF IInv

LEMMA ClaimKeeps == ASSUME IInv, NEW s \in Senders, Claim(s) PROVE IInv'
<1>1. TypeOK'
  BY ParametersAssumption
  DEF Claim, Claimable, endpointVars, deliveryVars, pubVars, histVars, Deliveries,
      Circuits, IInv, TypeOK
<1>2. AttemptsInv' /\ SenderInv'
  BY ParametersAssumption
  DEF Claim, Claimable, endpointVars, deliveryVars, pubVars, histVars, Deliveries,
      IInv, TypeOK, AttemptsInv, SenderInv
<1>3. FanoutInv' /\ DeliveredWasAccepted' /\ DeadWasSpent' /\ CircuitMatchesFailures'
  BY ParametersAssumption
  DEF Claim, Claimable, endpointVars, deliveryVars, pubVars, histVars, Deliveries,
      IInv, TypeOK, FanoutInv, DeliveredWasAccepted, DeadWasSpent, CircuitMatchesFailures
<1> QED BY <1>1, <1>2, <1>3 DEF IInv

LEMMA StartPostKeeps == ASSUME IInv, NEW s \in Senders, StartPost(s) PROVE IInv'
<1>1. TypeOK'
  BY ParametersAssumption
  DEF StartPost, endpointVars, deliveryVars, pubVars, histVars, Deliveries,
      Circuits, IInv, TypeOK
<1>2. AttemptsInv' /\ SenderInv'
  BY ParametersAssumption
  DEF StartPost, endpointVars, deliveryVars, pubVars, histVars, Deliveries,
      IInv, TypeOK, AttemptsInv, SenderInv
<1>3. FanoutInv' /\ DeliveredWasAccepted' /\ DeadWasSpent' /\ CircuitMatchesFailures'
  BY ParametersAssumption
  DEF StartPost, endpointVars, deliveryVars, pubVars, histVars, Deliveries,
      IInv, TypeOK, FanoutInv, DeliveredWasAccepted, DeadWasSpent, CircuitMatchesFailures
<1> QED BY <1>1, <1>2, <1>3 DEF IInv

LEMMA SkipKeeps == ASSUME IInv, NEW s \in Senders, Skip(s) PROVE IInv'
<1>1. TypeOK'
  BY ParametersAssumption
  DEF Skip, AttemptsAfterSkip, endpointVars, pubVars, histVars, Deliveries,
      Circuits, IInv, TypeOK
<1>2. AttemptsInv' /\ SenderInv'
  BY ParametersAssumption
  DEF Skip, AttemptsAfterSkip, endpointVars, pubVars, histVars, Deliveries,
      IInv, TypeOK, AttemptsInv, SenderInv
<1>3. FanoutInv' /\ DeliveredWasAccepted' /\ DeadWasSpent' /\ CircuitMatchesFailures'
  BY ParametersAssumption
  DEF Skip, AttemptsAfterSkip, endpointVars, pubVars, histVars, Deliveries,
      IInv, TypeOK, FanoutInv, DeliveredWasAccepted, DeadWasSpent, CircuitMatchesFailures
<1> QED BY <1>1, <1>2, <1>3 DEF IInv

LEMMA RespondKeeps == ASSUME IInv, NEW s \in Senders, Respond(s) PROVE IInv'
<1>1. /\ pc[s] = "posting" /\ cur[s] \in Deliveries
      /\ UNCHANGED <<endpointVars, deliveryVars, pubVars, enabling, batch, cur,
                     snapAttempts, snapFailing, snapCircuit, crashes, enables>>
      /\ pc' = [pc EXCEPT ![s] = "answered"]
      /\ posts' = [posts EXCEPT ![cur[s]] = CountPost(@)]
  BY DEF Respond, IInv, SenderInv
<1>2. posts[cur[s]] \in 0..MaxAttempts /\ CountPost(posts[cur[s]]) \in 0..MaxAttempts
  BY <1>1, ParametersAssumption DEF IInv, TypeOK, CountPost
<1>3. /\ outcome' \in [Senders -> {"none", "ok", "retry", "refused"}]
      /\ accepted' \in SUBSET Deliveries /\ refused' \in SUBSET Deliveries
      /\ accepted \subseteq accepted' /\ refused \subseteq refused'
  BY <1>1 DEF Respond, IInv, TypeOK
<1>4. TypeOK'
  BY <1>1, <1>2, <1>3 DEF IInv, TypeOK, endpointVars, deliveryVars, pubVars
<1>5. \A d \in Deliveries : posts[d] <= posts'[d] /\ posts'[d] \in 0..MaxAttempts
  BY <1>1, <1>2, ParametersAssumption DEF IInv, TypeOK, CountPost
<1>6. AttemptsInv'
  BY <1>1, <1>5 DEF IInv, TypeOK, AttemptsInv, deliveryVars
<1>7. SenderInv'
  <2>1. snapAttempts[s][cur[s]] + 1 <= posts'[cur[s]]
    BY <1>1, <1>2, ParametersAssumption DEF IInv, TypeOK, AttemptsInv, CountPost
  <2> SUFFICES ASSUME NEW r \in Senders
               PROVE  /\ pc'[r] \in {"posting", "answered", "logged", "recorded"} =>
                            cur'[r] \in Deliveries
                      /\ pc'[r] \in {"answered", "logged", "recorded"} =>
                            /\ outcome'[r] \in {"ok", "retry", "refused"}
                            /\ outcome'[r] = "ok" => cur'[r] \in accepted'
                            /\ outcome'[r] = "refused" => cur'[r] \in refused'
                            /\ snapAttempts'[r][cur'[r]] + 1 <= posts'[cur'[r]]
    BY DEF SenderInv
  <2>2. CASE r = s
    BY <1>1, <2>1, <2>2 DEF Respond, IInv, TypeOK
  <2>3. CASE r # s
    <3>1. pc'[r] = pc[r] /\ outcome'[r] = outcome[r] /\ cur'[r] = cur[r]
      BY <1>1, <2>3 DEF Respond, IInv, TypeOK
    <3>2. snapAttempts' = snapAttempts
      BY <1>1
    <3> QED BY <1>3, <1>5, <3>1, <3>2 DEF IInv, TypeOK, SenderInv
  <2> QED BY <2>2, <2>3
<1>8. FanoutInv' /\ CircuitMatchesFailures'
  BY <1>1 DEF IInv, FanoutInv, CircuitMatchesFailures, endpointVars, deliveryVars, pubVars
<1>9. DeliveredWasAccepted' /\ DeadWasSpent'
  <2>1. \A d \in Deliveries : posts[d] = MaxAttempts => posts'[d] = MaxAttempts
    BY <1>5, ParametersAssumption
  <2> QED BY <1>1, <1>3, <2>1
          DEF IInv, DeliveredWasAccepted, DeadWasSpent, deliveryVars
<1> QED BY <1>4, <1>6, <1>7, <1>8, <1>9 DEF IInv

\* Both ways to end an invocation leave its memory empty.
LEMMA EndSendKeeps ==
    ASSUME IInv, NEW s \in Senders, EndSend(s), crashes' \in 0..MaxCrashes,
           UNCHANGED <<endpointVars, deliveryVars, pubVars, enabling, histVars, enables>>
    PROVE  IInv'
<1>1. TypeOK'
  BY DEF IInv, TypeOK, EndSend, Circuits, endpointVars, deliveryVars, pubVars, histVars
<1>2. AttemptsInv'
  BY ParametersAssumption DEF IInv, TypeOK, AttemptsInv, EndSend, deliveryVars, histVars
<1>3. SenderInv'
  BY DEF IInv, TypeOK, SenderInv, EndSend, histVars
<1>4. FanoutInv' /\ CircuitMatchesFailures' /\ DeliveredWasAccepted' /\ DeadWasSpent'
  BY DEF IInv, FanoutInv, CircuitMatchesFailures, DeliveredWasAccepted, DeadWasSpent,
         endpointVars, deliveryVars, pubVars, histVars
<1> QED BY <1>1, <1>2, <1>3, <1>4 DEF IInv

LEMMA LogAttemptKeeps == ASSUME IInv, NEW s \in Senders, LogAttempt(s) PROVE IInv'
<1>1. CASE EndSend(s)
  BY <1>1, EndSendKeeps DEF LogAttempt, IInv, TypeOK
<1>2. CASE /\ pc' = [pc EXCEPT ![s] = "logged"]
           /\ UNCHANGED <<batch, cur, outcome, snapAttempts, snapFailing, snapCircuit>>
  <2>1. UNCHANGED <<endpointVars, deliveryVars, pubVars, enabling, histVars, crashes, enables>>
        /\ pc[s] = "answered"
    BY DEF LogAttempt
  <2>2. TypeOK' /\ AttemptsInv'
    BY <1>2, <2>1 DEF IInv, TypeOK, AttemptsInv, endpointVars, deliveryVars, pubVars, histVars
  <2>3. SenderInv'
    BY <1>2, <2>1 DEF IInv, TypeOK, SenderInv, histVars
  <2>4. FanoutInv' /\ CircuitMatchesFailures' /\ DeliveredWasAccepted' /\ DeadWasSpent'
    BY <2>1 DEF IInv, FanoutInv, CircuitMatchesFailures, DeliveredWasAccepted, DeadWasSpent,
       endpointVars, deliveryVars, pubVars, histVars
  <2> QED BY <2>2, <2>3, <2>4 DEF IInv
<1> QED BY <1>1, <1>2 DEF LogAttempt

LEMMA RecordDeliveryKeeps == ASSUME IInv, NEW s \in Senders, RecordDelivery(s) PROVE IInv'
<1>1. /\ pc[s] = "logged" /\ cur[s] \in Deliveries
      /\ pc' = [pc EXCEPT ![s] = "recorded"]
      /\ UNCHANGED <<endpointVars, pubVars, enabling, batch, cur, outcome, snapAttempts,
                     snapFailing, snapCircuit, histVars, crashes, enables>>
      /\ outcome[s] \in {"ok", "retry", "refused"}
      /\ outcome[s] = "ok" => cur[s] \in accepted
      /\ outcome[s] = "refused" => cur[s] \in refused
      /\ snapAttempts[s][cur[s]] + 1 <= posts[cur[s]]
  BY DEF RecordDelivery, IInv, SenderInv
<1>2. SenderInv'
  BY <1>1 DEF IInv, TypeOK, SenderInv, histVars
<1>3. CircuitMatchesFailures'
  BY <1>1 DEF IInv, CircuitMatchesFailures, endpointVars
<1>4. CASE UNCHANGED deliveryVars
  BY <1>1, <1>2, <1>3, <1>4 DEF IInv, TypeOK, AttemptsInv, FanoutInv, DeliveredWasAccepted,
     DeadWasSpent, endpointVars, deliveryVars, pubVars, histVars
<1>5. CASE /\ status' = [status EXCEPT ![cur[s]] = Recorded(s)]
           /\ attempts' = [attempts EXCEPT ![cur[s]] = Attempt(s)]
           /\ due' = [due EXCEPT ![cur[s]] = @ /\ outcome[s] = "ok"]
  <2>1. /\ Attempt(s) \in Nat /\ Attempt(s) <= posts[cur[s]]
        /\ posts[cur[s]] \in 0..MaxAttempts
    BY <1>1 DEF IInv, TypeOK, Attempt
  <2>2. /\ Recorded(s) \in {"delivered", "dead", "pending"}
        /\ Recorded(s) = "delivered" => cur[s] \in accepted
        /\ Recorded(s) = "pending" => Attempt(s) < MaxAttempts
        /\ Recorded(s) = "dead" => cur[s] \in refused \/ posts[cur[s]] = MaxAttempts
    BY <1>1, <2>1, ParametersAssumption DEF Recorded, GivesUp
  <2>3. due' \in [Deliveries -> BOOLEAN]
    BY <1>5, Zenon DEF IInv, TypeOK
  <2>4. TypeOK'
    BY <1>1, <1>5, <2>1, <2>2, <2>3 DEF IInv, TypeOK, endpointVars, pubVars, histVars
  <2>5. AttemptsInv'
    <3> SUFFICES ASSUME NEW d \in Deliveries
                 PROVE  /\ attempts'[d] <= posts'[d]
                        /\ status'[d] = "none" => attempts'[d] = 0
                        /\ status'[d] = "pending" => attempts'[d] < MaxAttempts
      BY <1>1 DEF IInv, AttemptsInv, histVars
    <3>1. CASE d = cur[s]
      BY <1>1, <1>5, <2>1, <2>2, <3>1 DEF IInv, TypeOK, histVars
    <3>2. CASE d # cur[s]
      BY <1>1, <1>5, <3>2 DEF IInv, TypeOK, AttemptsInv, histVars
    <3> QED BY <3>1, <3>2
  <2>6. FanoutInv'
    <3>1. \A d \in Deliveries : status[d] # "none" => status'[d] # "none"
      BY <1>1, <1>5, <2>2 DEF IInv, TypeOK
    <3>2. \A p \in Publishers : \A e \in selected[p] : <<e, EventOf[p]>> \in Deliveries
      BY ParametersAssumption DEF IInv, TypeOK, Deliveries
    <3> QED BY <1>1, <3>1, <3>2 DEF IInv, FanoutInv, endpointVars, pubVars
  <2>7. DeliveredWasAccepted' /\ DeadWasSpent'
    BY <1>1, <1>5, <2>2 DEF IInv, TypeOK, DeliveredWasAccepted, DeadWasSpent, histVars
  <2> QED BY <1>2, <1>3, <2>4, <2>5, <2>6, <2>7 DEF IInv
<1> QED BY <1>4, <1>5 DEF RecordDelivery

LEMMA RecordHealthKeeps == ASSUME IInv, NEW s \in Senders, RecordHealth(s) PROVE IInv'
<1>0. PICK e \in Endpoints : e = cur[s][1]
  BY DEF RecordHealth, IInv, SenderInv, Deliveries
<1>1. /\ pc[s] = "recorded" /\ cur[s] \in Deliveries
      /\ pc' = [pc EXCEPT ![s] = "looping"]
      /\ cur' = [cur EXCEPT ![s] = NoDelivery]
      /\ outcome' = [outcome EXCEPT ![s] = "none"]
      /\ UNCHANGED <<endpoint, deliveryVars, pubVars, enabling, batch, snapAttempts,
                     snapFailing, snapCircuit, histVars, crashes, enables>>
  BY DEF RecordHealth, IInv, SenderInv, Deliveries
<1>2. \/ /\ failures' = [failures EXCEPT ![e] = 0]
         /\ circuit' = [circuit EXCEPT ![e] = "closed"]
         /\ UNCHANGED disabled
      \/ /\ failures' = [failures EXCEPT ![e] = CountFailure(@)]
         /\ circuit' = [circuit EXCEPT ![e] =
                          IF Opens(e) /\ @ = "closed" THEN "cooling" ELSE @]
         /\ disabled' = [disabled EXCEPT ![e] =
                          @ \/ failures[e] + 1 >= DisableThreshold]
  BY <1>0, Zenon DEF RecordHealth
<1>3. disabled' \in [Endpoints -> BOOLEAN]
  BY <1>2, Zenon DEF IInv, TypeOK
<1>4. failures[e] \in 0..DisableThreshold /\ CountFailure(failures[e]) \in 0..DisableThreshold
  BY <1>1, ParametersAssumption DEF IInv, TypeOK, CountFailure
<1>5. TypeOK'
  <2>1. failures' \in [Endpoints -> 0..DisableThreshold]
    <3>1. \/ failures' = [failures EXCEPT ![e] = 0]
          \/ failures' = [failures EXCEPT ![e] = CountFailure(@)]
      BY <1>2, Zenon
    <3>2. failures \in [Endpoints -> 0..DisableThreshold] /\ 0 \in 0..DisableThreshold
      BY ParametersAssumption DEF IInv, TypeOK
    <3> QED BY <1>4, <3>1, <3>2
  <2>2. circuit' \in [Endpoints -> Circuits]
    <3>1. \/ circuit' = [circuit EXCEPT ![e] = "closed"]
          \/ circuit' = [circuit EXCEPT ![e] =
                           IF Opens(e) /\ @ = "closed" THEN "cooling" ELSE @]
      BY <1>2, Zenon
    <3>2. circuit \in [Endpoints -> Circuits]
      BY DEF IInv, TypeOK
    <3> QED BY <3>1, <3>2 DEF Circuits
  <2> QED BY <1>1, <1>3, <2>1, <2>2 DEF IInv, TypeOK, deliveryVars, pubVars, histVars
<1>6. CircuitMatchesFailures'
  <2>1. ASSUME NEW f \in Endpoints, f # e
        PROVE  failures'[f] = failures[f] /\ circuit'[f] = circuit[f]
    BY <1>2, <2>1 DEF IInv, TypeOK
  <2>2. failures'[e] >= FailureThreshold <=> circuit'[e] # "closed"
    <3>1. failures[e] >= FailureThreshold <=> circuit[e] # "closed"
      BY <1>1 DEF IInv, CircuitMatchesFailures
    <3>2. CASE circuit' = [circuit EXCEPT ![e] = "closed"] /\ failures' = [failures EXCEPT ![e] = 0]
      BY <1>1, <3>2, ParametersAssumption DEF IInv, TypeOK
    <3>3. CASE /\ failures' = [failures EXCEPT ![e] = CountFailure(@)]
               /\ circuit' = [circuit EXCEPT ![e] =
                               IF Opens(e) /\ @ = "closed" THEN "cooling" ELSE @]
      <4>1. /\ failures'[e] = CountFailure(failures[e])
            /\ circuit'[e] = IF Opens(e) /\ circuit[e] = "closed"
                             THEN "cooling" ELSE circuit[e]
        BY <1>1, <3>3 DEF IInv, TypeOK
      <4> QED BY <1>4, <3>1, <4>1, ParametersAssumption DEF CountFailure, Opens
    <3> QED BY <1>2, <3>2, <3>3
  <2> QED BY <2>1, <2>2 DEF IInv, CircuitMatchesFailures
<1>7. SenderInv'
  BY <1>1 DEF IInv, TypeOK, SenderInv, histVars
<1>8. AttemptsInv' /\ FanoutInv' /\ DeliveredWasAccepted' /\ DeadWasSpent'
  BY <1>1 DEF IInv, AttemptsInv, FanoutInv, DeliveredWasAccepted, DeadWasSpent,
     deliveryVars, pubVars, histVars
<1> QED BY <1>5, <1>6, <1>7, <1>8 DEF IInv


LEMMA ReturnKeeps == ASSUME IInv, NEW s \in Senders, Return(s) PROVE IInv'
BY EndSendKeeps, ParametersAssumption DEF Return, Crashes, IInv, TypeOK

LEMMA SenderDiesKeeps == ASSUME IInv, NEW s \in Senders, SenderDies(s) PROVE IInv'
BY EndSendKeeps, ParametersAssumption DEF SenderDies, Crashes, IInv, TypeOK

LEMMA BecomesDueKeeps == ASSUME IInv, NEW d \in Deliveries, BecomesDue(d) PROVE IInv'
<1>1. TypeOK'
  BY ParametersAssumption
  DEF BecomesDue, endpointVars, pubVars, sendVars, histVars, Deliveries,
      Circuits, IInv, TypeOK
<1>2. AttemptsInv' /\ SenderInv'
  BY ParametersAssumption
  DEF BecomesDue, endpointVars, pubVars, sendVars, histVars, Deliveries,
      IInv, TypeOK, AttemptsInv, SenderInv
<1>3. FanoutInv' /\ DeliveredWasAccepted' /\ DeadWasSpent' /\ CircuitMatchesFailures'
  BY ParametersAssumption
  DEF BecomesDue, endpointVars, pubVars, sendVars, histVars, Deliveries,
      IInv, TypeOK, FanoutInv, DeliveredWasAccepted, DeadWasSpent, CircuitMatchesFailures
<1> QED BY <1>1, <1>2, <1>3 DEF IInv

LEMMA StepKeeps == IInv /\ [Next]_vars => IInv'
<1> SUFFICES ASSUME IInv, [Next]_vars PROVE IInv'
  OBVIOUS
<1>1. CASE UNCHANGED vars
  BY <1>1 DEF vars, endpointVars, deliveryVars, pubVars, sendVars, histVars,
     IInv, TypeOK, AttemptsInv, SenderInv, FanoutInv, DeliveredWasAccepted,
     DeadWasSpent, CircuitMatchesFailures
<1>2. ASSUME NEW e \in Endpoints, EndpointStep(e) PROVE IInv'
  BY <1>2, RegisterKeeps, RemoveKeeps, EnableKeeps, ReviveKeeps, CoolDownKeeps,
     SnapshotCoolsKeeps DEF EndpointStep
<1>3. ASSUME NEW p \in Publishers, PublisherStep(p) PROVE IInv'
  BY <1>3, SelectEndpointsKeeps, InsertDeliveryKeeps, AcceptKeeps, PublisherDiesKeeps
  DEF PublisherStep
<1>4. ASSUME NEW s \in Senders, SenderStep(s) PROVE IInv'
  BY <1>4, ClaimKeeps, StartPostKeeps, SkipKeeps, RespondKeeps, LogAttemptKeeps,
     RecordDeliveryKeeps, RecordHealthKeeps, ReturnKeeps, SenderDiesKeeps
  DEF SenderStep
<1> QED BY <1>1, <1>2, <1>3, <1>4, BecomesDueKeeps DEF Next

\* IInv holds in every reachable state.
THEOREM Invariant == Spec => []IInv
BY InitIInv, StepKeeps, PTL DEF Spec

\* What overlapping senders overwrite never makes a delivery "delivered" that no
\* subscriber accepted.
THEOREM NoFalseDelivery == Spec => []DeliveredWasAccepted
<1>1. IInv => DeliveredWasAccepted
  BY DEF IInv
<1> QED BY <1>1, Invariant, PTL

\* No delivery dies before it was refused or posted MaxAttempts times.
THEOREM NoEarlyDeath == Spec => []DeadWasSpent
<1>1. IInv => DeadWasSpent
  BY DEF IInv
<1> QED BY <1>1, Invariant, PTL

\* failures and circuit_opened_at agree on whether a circuit is open.
THEOREM BreakerIsConsistent == Spec => []CircuitMatchesFailures
<1>1. IInv => CircuitMatchesFailures
  BY DEF IInv
<1> QED BY <1>1, Invariant, PTL

\* An accepted event has reached every endpoint it was meant for.
THEOREM FanoutIsComplete == Spec => []FannedOut
<1>1. IInv => FannedOut
  BY DEF IInv, FanoutInv, FannedOut
<1> QED BY <1>1, Invariant, PTL
=============================================================================
