-------------------------- MODULE OutboundWebhooks --------------------------
(***************************************************************************)
(* Outbound webhook delivery (blocks/webhooks-outbound): the tables        *)
(* endpoints and deliveries, the handlers that register, remove and enable *)
(* an endpoint, the fan-out of POST /events, and the loop of POST /send    *)
(* with its circuit breaker (shouldDeliver of sign.ts).                    *)
(*                                                                         *)
(* One SQL statement is one action: the row locks of the claim end with    *)
(* its statement.  A delivery is a pair <<endpoint, event>>, as the table's*)
(* unique constraint has it.  Time is abstracted to what the code compares *)
(* with the clock: a delivery is due or not (next_attempt_at), an open     *)
(* circuit is "cooling" or "cooled" (circuit_opened_at).  Failures are     *)
(* counted up to DisableThreshold and posts up to MaxAttempts, the largest *)
(* numbers they are compared with.  MaxCrashes bounds the invocations that *)
(* die, MaxEnables the operator's calls of /enable.                        *)
(***************************************************************************)
EXTENDS Naturals, FiniteSets

CONSTANTS
    Endpoints, Events,
    Publishers,       \* calls of POST /events
    EventOf,          \* call -> its event
    Matching,         \* event -> the endpoints whose patterns match it
    Senders,          \* concurrent invocations of POST /send
    NoDelivery,       \* no delivery is being made
    BatchSize,        \* OUTBOUND_BATCH_SIZE
    MaxAttempts,      \* OUTBOUND_MAX_ATTEMPTS
    FailureThreshold, DisableThreshold,
    MaxCrashes, MaxEnables

Deliveries == Endpoints \X Events

ASSUME ParametersAssumption ==
    /\ EventOf \in [Publishers -> Events]
    /\ Matching \in [Events -> SUBSET Endpoints]
    /\ NoDelivery \notin Deliveries
    /\ BatchSize \in Nat \ {0}
    /\ MaxAttempts \in Nat \ {0}
    /\ FailureThreshold \in Nat \ {0}
    /\ DisableThreshold \in Nat
    /\ FailureThreshold <= DisableThreshold
    /\ MaxCrashes \in Nat
    /\ MaxEnables \in Nat

VARIABLES
    \* The table endpoints: is there a row, consecutive_failures,
    \* circuit_opened_at, is disabled_at set.
    endpoint, failures, circuit, disabled,
    \* The table deliveries: status, attempts, next_attempt_at.
    status, attempts, due,
    \* The calls of POST /events: how far, and the endpoints not yet reached.
    pub, fanout, selected,
    \* Endpoints whose /enable has cleared the breaker but not yet re-armed.
    enabling,
    \* The senders: claimed deliveries not yet handled, the one being made, and
    \* what the claim returned: attempts, failures over the threshold, circuit.
    pc, batch, cur, outcome, snapAttempts, snapFailing, snapCircuit,
    \* History: deliveries answered with a 2xx, deliveries answered with a
    \* permanent refusal, posts per delivery; crashes and enables so far.
    accepted, refused, posts, crashes, enables

endpointVars == <<endpoint, failures, circuit, disabled>>
deliveryVars == <<status, attempts, due>>
pubVars  == <<pub, fanout, selected>>
sendVars == <<pc, batch, cur, outcome, snapAttempts, snapFailing, snapCircuit>>
histVars == <<accepted, refused, posts>>
vars == <<endpointVars, deliveryVars, pubVars, enabling, sendVars, histVars,
          crashes, enables>>

Init ==
    /\ endpoint = [e \in Endpoints |-> "absent"]
    /\ failures = [e \in Endpoints |-> 0]
    /\ circuit = [e \in Endpoints |-> "closed"]
    /\ disabled = [e \in Endpoints |-> FALSE]
    /\ status = [d \in Deliveries |-> "none"]
    /\ attempts = [d \in Deliveries |-> 0]
    /\ due = [d \in Deliveries |-> FALSE]
    /\ pub = [p \in Publishers |-> "idle"]
    /\ fanout = [p \in Publishers |-> {}]
    /\ selected = [p \in Publishers |-> {}]
    /\ enabling = {}
    /\ pc = [s \in Senders |-> "idle"]
    /\ batch = [s \in Senders |-> {}]
    /\ cur = [s \in Senders |-> NoDelivery]
    /\ outcome = [s \in Senders |-> "none"]
    /\ snapAttempts = [s \in Senders |-> [d \in Deliveries |-> 0]]
    /\ snapFailing = [s \in Senders |-> {}]
    /\ snapCircuit = [s \in Senders |-> [e \in Endpoints |-> "closed"]]
    /\ accepted = {}
    /\ refused = {}
    /\ posts = [d \in Deliveries |-> 0]
    /\ crashes = 0
    /\ enables = 0

Crashes == crashes < MaxCrashes /\ crashes' = crashes + 1

-----------------------------------------------------------------------------
(* The endpoints                                                           *)

Register(e) ==
    /\ endpoint[e] = "absent"
    /\ endpoint' = [endpoint EXCEPT ![e] = "active"]
    /\ UNCHANGED <<failures, circuit, disabled, deliveryVars, pubVars, enabling,
                   sendVars, histVars, crashes, enables>>

\* DELETE removes the endpoint and, by the foreign key, its deliveries.
Remove(e) ==
    /\ endpoint[e] = "active"
    /\ endpoint' = [endpoint EXCEPT ![e] = "deleted"]
    /\ status' = [d \in Deliveries |-> IF d[1] = e /\ status[d] # "none"
                                       THEN "deleted" ELSE status[d]]
    /\ UNCHANGED <<failures, circuit, disabled, attempts, due, pubVars, enabling,
                   sendVars, histVars, crashes, enables>>

\* The first statement of /enable clears the disabled flag and the breaker.
Enable(e) ==
    /\ enables < MaxEnables
    /\ enables' = enables + 1
    /\ endpoint[e] = "active"
    /\ disabled' = [disabled EXCEPT ![e] = FALSE]
    /\ circuit' = [circuit EXCEPT ![e] = "closed"]
    /\ failures' = [failures EXCEPT ![e] = 0]
    /\ enabling' = enabling \union {e}
    /\ UNCHANGED <<endpoint, deliveryVars, pubVars, sendVars, histVars, crashes>>

\* The second re-arms the dead deliveries; it may never come.
Revive(e) ==
    /\ e \in enabling
    /\ enabling' = enabling \ {e}
    /\ LET S == {d \in Deliveries : d[1] = e /\ status[d] = "dead"}
       IN  /\ status' = [d \in Deliveries |-> IF d \in S THEN "pending" ELSE status[d]]
           /\ attempts' = [d \in Deliveries |-> IF d \in S THEN 0 ELSE attempts[d]]
           /\ due' = [d \in Deliveries |-> due[d] \/ d \in S]
    /\ UNCHANGED <<endpointVars, pubVars, sendVars, histVars, crashes, enables>>

-----------------------------------------------------------------------------
(* POST /events                                                            *)

Usable(e) == endpoint[e] = "active" /\ ~disabled[e]

SelectEndpoints(p) ==
    /\ pub[p] = "idle"
    /\ LET S == {e \in Matching[EventOf[p]] : Usable(e)}
       IN  /\ selected' = [selected EXCEPT ![p] = S]
           /\ fanout' = [fanout EXCEPT ![p] = S]
    /\ pub' = [pub EXCEPT ![p] = "inserting"]
    /\ UNCHANGED <<endpointVars, deliveryVars, enabling, sendVars, histVars,
                   crashes, enables>>

\* A loop that takes the first conflict for the end of the fan-out.
RestAfterEarlyReturn(p, e) ==
    IF status[<<e, EventOf[p]>>] # "none" THEN {} ELSE fanout[p] \ {e}

RestOfFanout(p, e) == fanout[p] \ {e}

\* INSERT ... ON CONFLICT (endpoint_id, event_id) DO NOTHING for one endpoint;
\* the foreign key rejects it when the endpoint is gone, and the call fails.
InsertDelivery(p) ==
    /\ pub[p] = "inserting"
    /\ \E e \in fanout[p] :
          LET d == <<e, EventOf[p]>>
          IN  \/ /\ endpoint[e] = "active"
                 /\ status' = [status EXCEPT ![d] = IF @ = "none" THEN "pending" ELSE @]
                 /\ due' = [due EXCEPT ![d] = @ \/ status[d] = "none"]
                 /\ fanout' = [fanout EXCEPT ![p] = RestOfFanout(p, e)]
                 /\ UNCHANGED pub
              \/ /\ endpoint[e] = "deleted"
                 /\ pub' = [pub EXCEPT ![p] = "failed"]
                 /\ fanout' = [fanout EXCEPT ![p] = {}]
                 /\ UNCHANGED <<status, due>>
    /\ UNCHANGED <<endpointVars, attempts, selected, enabling, sendVars, histVars,
                   crashes, enables>>

\* 202: the event is fanned out.
Accept(p) ==
    /\ pub[p] = "inserting"
    /\ fanout[p] = {}
    /\ pub' = [pub EXCEPT ![p] = "accepted"]
    /\ UNCHANGED <<endpointVars, deliveryVars, fanout, selected, enabling, sendVars,
                   histVars, crashes, enables>>

PublisherDies(p) ==
    /\ pub[p] = "inserting"
    /\ Crashes
    /\ pub' = [pub EXCEPT ![p] = "failed"]
    /\ fanout' = [fanout EXCEPT ![p] = {}]
    /\ UNCHANGED <<endpointVars, deliveryVars, selected, enabling, sendVars,
                   histVars, enables>>

-----------------------------------------------------------------------------
(* POST /send: the claim                                                   *)

Claimable(d) == status[d] = "pending" /\ due[d] /\ Usable(d[1])

\* The rows another sender's statement may have locked at this moment.
Lockable(s) == UNION {batch[o] \union {cur[o]} : o \in Senders \ {s}}

\* A plain SELECT: nothing marks the rows as claimed.  ORDER BY next_attempt_at
\* is left open; fewer than BatchSize rows only when the others are locked.
Claim(s) ==
    /\ pc[s] = "idle"
    /\ LET R == {d \in Deliveries : Claimable(d)}
       IN  \E S \in SUBSET R :
              /\ S # {}
              /\ Cardinality(S) <= BatchSize
              /\ Cardinality(S) = BatchSize \/ R \ S \subseteq Lockable(s)
              /\ batch' = [batch EXCEPT ![s] = S]
    /\ snapAttempts' = [snapAttempts EXCEPT ![s] =
                          [d \in Deliveries |-> IF d \in batch'[s] THEN attempts[d] ELSE 0]]
    /\ snapFailing' = [snapFailing EXCEPT ![s] =
                          {e \in Endpoints : /\ \E d \in batch'[s] : d[1] = e
                                             /\ failures[e] >= FailureThreshold}]
    /\ snapCircuit' = [snapCircuit EXCEPT ![s] =
                          [e \in Endpoints |-> IF \E d \in batch'[s] : d[1] = e
                                               THEN circuit[e] ELSE "closed"]]
    /\ pc' = [pc EXCEPT ![s] = "claimed"]
    /\ UNCHANGED <<endpointVars, deliveryVars, pubVars, enabling, cur, outcome,
                   histVars, crashes, enables>>

\* The end of an invocation, however it comes: its local variables are gone.
EndSend(s) ==
    /\ pc' = [pc EXCEPT ![s] = "idle"]
    /\ batch' = [batch EXCEPT ![s] = {}]
    /\ cur' = [cur EXCEPT ![s] = NoDelivery]
    /\ outcome' = [outcome EXCEPT ![s] = "none"]
    /\ snapAttempts' = [snapAttempts EXCEPT ![s] = [d \in Deliveries |-> 0]]
    /\ snapFailing' = [snapFailing EXCEPT ![s] = {}]
    /\ snapCircuit' = [snapCircuit EXCEPT ![s] = [e \in Endpoints |-> "closed"]]

\* The batch is done, or the budget is spent after at least one delivery.
Return(s) ==
    /\ pc[s] = "looping"
    /\ EndSend(s)
    /\ UNCHANGED <<endpointVars, deliveryVars, pubVars, enabling, histVars,
                   crashes, enables>>

SenderDies(s) ==
    /\ pc[s] # "idle"
    /\ Crashes
    /\ EndSend(s)
    /\ UNCHANGED <<endpointVars, deliveryVars, pubVars, enabling, histVars, enables>>

-----------------------------------------------------------------------------
(* POST /send: the loop                                                    *)

\* A breaker without the half-open state.
ShouldDeliverNoTrial(s, e) == e \notin snapFailing[s]

\* shouldDeliver on the endpoint's health as the claim returned it (and the
\* claim returns no delivery of a disabled endpoint): below the threshold, or
\* half-open once the cooldown has passed.
ShouldDeliver(s, e) == e \notin snapFailing[s] \/ snapCircuit[s][e] = "cooled"

\* The next delivery, in the order RETURNING gave: post it.
StartPost(s) ==
    /\ pc[s] \in {"claimed", "looping"}
    /\ \E d \in batch[s] :
          /\ ShouldDeliver(s, d[1])
          /\ cur' = [cur EXCEPT ![s] = d]
          /\ batch' = [batch EXCEPT ![s] = @ \ {d}]
    /\ pc' = [pc EXCEPT ![s] = "posting"]
    /\ UNCHANGED <<endpointVars, deliveryVars, pubVars, enabling, outcome,
                   snapAttempts, snapFailing, snapCircuit, histVars, crashes, enables>>

\* A skip is no attempt.
AttemptsAfterSkip(s, d) == attempts[d]

\* The circuit is open: push the delivery out without counting an attempt.  The
\* row is updated by its id, whatever became of it.
Skip(s) ==
    /\ pc[s] \in {"claimed", "looping"}
    /\ \E d \in batch[s] :
          /\ ~ShouldDeliver(s, d[1])
          /\ due' = [due EXCEPT ![d] = FALSE]
          /\ attempts' = [attempts EXCEPT ![d] = AttemptsAfterSkip(s, d)]
          /\ batch' = [batch EXCEPT ![s] = @ \ {d}]
    /\ pc' = [pc EXCEPT ![s] = "looping"]
    /\ UNCHANGED <<endpointVars, status, pubVars, enabling, cur, outcome, snapAttempts,
                   snapFailing, snapCircuit, histVars, crashes, enables>>

CountPost(n) == IF n < MaxAttempts THEN n + 1 ELSE n

\* attemptDelivery never throws.  "retry" stands for a timeout, a network error
\* and a retryable status; "refused" for every other status.
Respond(s) ==
    /\ pc[s] = "posting"
    /\ pc' = [pc EXCEPT ![s] = "answered"]
    /\ posts' = [posts EXCEPT ![cur[s]] = CountPost(@)]
    /\ \/ /\ outcome' = [outcome EXCEPT ![s] = "ok"]
          /\ accepted' = accepted \union {cur[s]}
          /\ UNCHANGED refused
       \/ /\ outcome' = [outcome EXCEPT ![s] = "retry"]
          /\ UNCHANGED <<accepted, refused>>
       \/ /\ outcome' = [outcome EXCEPT ![s] = "refused"]
          /\ refused' = refused \union {cur[s]}
          /\ UNCHANGED accepted
    /\ UNCHANGED <<endpointVars, deliveryVars, pubVars, enabling, batch, cur,
                   snapAttempts, snapFailing, snapCircuit, crashes, enables>>

\* INSERT INTO attempts.  When the endpoint was removed in the meantime the
\* foreign key rejects the row and the whole run ends.
LogAttempt(s) ==
    /\ pc[s] = "answered"
    /\ \/ /\ status[cur[s]] = "deleted"
          /\ EndSend(s)
       \/ /\ status[cur[s]] # "deleted"
          /\ pc' = [pc EXCEPT ![s] = "logged"]
          /\ UNCHANGED <<batch, cur, outcome, snapAttempts, snapFailing, snapCircuit>>
    /\ UNCHANGED <<endpointVars, deliveryVars, pubVars, enabling, histVars,
                   crashes, enables>>

Attempt(s) == snapAttempts[s][cur[s]] + 1

\* Giving up one attempt early.
GivesUpEarly(s) == outcome[s] = "refused" \/ Attempt(s) + 1 >= MaxAttempts

\* A failure is final when the status is not retryable or the attempts, as the
\* claim returned them, are used up.
GivesUp(s) == outcome[s] = "refused" \/ Attempt(s) >= MaxAttempts

\* A loop that records every answer as a delivery.
AnyAnswer(s) == IF GivesUp(s) THEN "dead" ELSE "delivered"

Recorded(s) == IF outcome[s] = "ok" THEN "delivered"
               ELSE IF GivesUp(s) THEN "dead" ELSE "pending"

\* UPDATE deliveries by id: what another sender recorded is overwritten.
RecordDelivery(s) ==
    /\ pc[s] = "logged"
    /\ pc' = [pc EXCEPT ![s] = "recorded"]
    /\ LET d == cur[s]
       IN  IF status[d] = "deleted"
           THEN UNCHANGED deliveryVars
           ELSE /\ status' = [status EXCEPT ![d] = Recorded(s)]
                /\ attempts' = [attempts EXCEPT ![d] = Attempt(s)]
                /\ due' = [due EXCEPT ![d] = @ /\ outcome[s] = "ok"]
    /\ UNCHANGED <<endpointVars, pubVars, enabling, batch, cur, outcome, snapAttempts,
                   snapFailing, snapCircuit, histVars, crashes, enables>>

CountFailure(n) == IF n < DisableThreshold THEN n + 1 ELSE n

\* A threshold compared with the count before the failure.
OpensLate(e) == failures[e] >= FailureThreshold

Opens(e) == failures[e] + 1 >= FailureThreshold

\* UPDATE endpoints: success closes the circuit; a failure may open it, and
\* keeps the time it was opened at (COALESCE), or disable the endpoint.
RecordHealth(s) ==
    /\ pc[s] = "recorded"
    /\ LET e == cur[s][1]
       IN  IF outcome[s] = "ok"
           THEN /\ failures' = [failures EXCEPT ![e] = 0]
                /\ circuit' = [circuit EXCEPT ![e] = "closed"]
                /\ UNCHANGED disabled
           ELSE /\ failures' = [failures EXCEPT ![e] = CountFailure(@)]
                /\ circuit' = [circuit EXCEPT ![e] =
                                 IF Opens(e) /\ @ = "closed" THEN "cooling" ELSE @]
                /\ disabled' = [disabled EXCEPT ![e] =
                                 @ \/ failures[e] + 1 >= DisableThreshold]
    /\ pc' = [pc EXCEPT ![s] = "looping"]
    /\ cur' = [cur EXCEPT ![s] = NoDelivery]
    /\ outcome' = [outcome EXCEPT ![s] = "none"]
    /\ UNCHANGED <<endpoint, deliveryVars, pubVars, enabling, batch, snapAttempts,
                   snapFailing, snapCircuit, histVars, crashes, enables>>

-----------------------------------------------------------------------------
(* Time                                                                    *)

BecomesDue(d) ==
    /\ status[d] = "pending" /\ ~due[d]
    /\ due' = [due EXCEPT ![d] = TRUE]
    /\ UNCHANGED <<endpointVars, status, attempts, pubVars, enabling, sendVars,
                   histVars, crashes, enables>>

Cooled(c) == IF c = "cooling" THEN "cooled" ELSE c

SnapshotsCool(e) ==
    snapCircuit' = [s \in Senders |-> [snapCircuit[s] EXCEPT ![e] = Cooled(@)]]

\* The cooldown passes.
CoolDown(e) ==
    /\ circuit[e] = "cooling"
    /\ circuit' = [circuit EXCEPT ![e] = "cooled"]
    /\ SnapshotsCool(e)
    /\ UNCHANGED <<endpoint, failures, disabled, deliveryVars, pubVars, enabling, pc,
                   batch, cur, outcome, snapAttempts, snapFailing, histVars,
                   crashes, enables>>

\* What a sender remembers of a circuit is at least as old as the row, which may
\* have been closed and opened again: it may cool before the row does.
SnapshotCools(e) ==
    /\ \E s \in Senders : snapCircuit[s][e] = "cooling"
    /\ SnapshotsCool(e)
    /\ UNCHANGED <<endpointVars, deliveryVars, pubVars, enabling, pc,
                   batch, cur, outcome, snapAttempts, snapFailing, histVars,
                   crashes, enables>>

-----------------------------------------------------------------------------
EndpointStep(e) ==
    \/ Register(e) \/ Remove(e) \/ Enable(e) \/ Revive(e)
    \/ CoolDown(e) \/ SnapshotCools(e)

PublisherStep(p) ==
    SelectEndpoints(p) \/ InsertDelivery(p) \/ Accept(p) \/ PublisherDies(p)

SenderStep(s) ==
    \/ Claim(s) \/ StartPost(s) \/ Skip(s) \/ Respond(s)
    \/ LogAttempt(s) \/ RecordDelivery(s) \/ RecordHealth(s)
    \/ Return(s) \/ SenderDies(s)

Next ==
    \/ \E e \in Endpoints : EndpointStep(e)
    \/ \E p \in Publishers : PublisherStep(p)
    \/ \E s \in Senders : SenderStep(s)
    \/ \E d \in Deliveries : BecomesDue(d)

Spec == Init /\ [][Next]_vars

\* Cron starts a sender every minute, a sender that is not killed takes its next
\* step, subscribers answer or time out, and time passes.
Fairness ==
    /\ \A s \in Senders :
          WF_vars(\/ Claim(s) \/ StartPost(s) \/ Skip(s) \/ Respond(s) \/ LogAttempt(s)
                  \/ RecordDelivery(s) \/ RecordHealth(s) \/ Return(s))
    /\ \A d \in Deliveries : WF_vars(BecomesDue(d))
    /\ \A e \in Endpoints : WF_vars(CoolDown(e))

FairSpec == Spec /\ Fairness

-----------------------------------------------------------------------------
(* Properties                                                              *)

Circuits == {"closed", "cooling", "cooled"}

TypeOK ==
    /\ endpoint \in [Endpoints -> {"absent", "active", "deleted"}]
    /\ failures \in [Endpoints -> 0..DisableThreshold]
    /\ circuit \in [Endpoints -> Circuits]
    /\ disabled \in [Endpoints -> BOOLEAN]
    /\ status \in [Deliveries -> {"none", "pending", "delivered", "dead", "deleted"}]
    /\ attempts \in [Deliveries -> Nat]
    /\ due \in [Deliveries -> BOOLEAN]
    /\ pub \in [Publishers -> {"idle", "inserting", "accepted", "failed"}]
    /\ fanout \in [Publishers -> SUBSET Endpoints]
    /\ selected \in [Publishers -> SUBSET Endpoints]
    /\ enabling \in SUBSET Endpoints
    /\ pc \in [Senders -> {"idle", "claimed", "looping", "posting", "answered",
                           "logged", "recorded"}]
    /\ batch \in [Senders -> SUBSET Deliveries]
    /\ cur \in [Senders -> Deliveries \union {NoDelivery}]
    /\ outcome \in [Senders -> {"none", "ok", "retry", "refused"}]
    /\ snapAttempts \in [Senders -> [Deliveries -> Nat]]
    /\ snapFailing \in [Senders -> SUBSET Endpoints]
    /\ snapCircuit \in [Senders -> [Endpoints -> Circuits]]
    /\ accepted \in SUBSET Deliveries
    /\ refused \in SUBSET Deliveries
    /\ posts \in [Deliveries -> 0..MaxAttempts]
    /\ crashes \in 0..MaxCrashes
    /\ enables \in 0..MaxEnables

\* A delivery is recorded as delivered only after the subscriber answered it with
\* a 2xx, whatever overlapping and dying senders overwrite.
DeliveredWasAccepted ==
    \A d \in Deliveries : status[d] = "delivered" => d \in accepted

\* A delivery dies only of a permanent refusal or after MaxAttempts posts: time
\* spent behind an open circuit, crashes and removed neighbours never cost it an
\* attempt, and neither does an /enable that resets the count under a sender.
DeadWasSpent ==
    \A d \in Deliveries : status[d] = "dead" => d \in refused \/ posts[d] = MaxAttempts

\* An endpoint has an open circuit exactly when its failures have reached the
\* threshold, so the branch of shouldDeliver for a threshold that was reached
\* without a recorded opening is never taken.
CircuitMatchesFailures ==
    \A e \in Endpoints : failures[e] >= FailureThreshold <=> circuit[e] # "closed"

\* When POST /events has answered 202, every endpoint it selected has a delivery
\* of the event, its own or one of another call, or has been removed.
FannedOut ==
    \A p \in Publishers : pub[p] = "accepted" =>
        \A e \in selected[p] :
            endpoint[e] = "deleted" \/ status[<<e, EventOf[p]>>] # "none"

\* A count of attempts, in the table or in a sender's memory, never exceeds the
\* posts (counted up to MaxAttempts), and a pending delivery has an attempt left.
AttemptsInv ==
    /\ \A d \in Deliveries :
          /\ attempts[d] <= posts[d]
          /\ status[d] = "none" => attempts[d] = 0
          /\ status[d] = "pending" => attempts[d] < MaxAttempts
    /\ \A s \in Senders : \A d \in Deliveries :
          snapAttempts[s][d] <= posts[d] /\ snapAttempts[s][d] < MaxAttempts

\* The outcome in a sender's hands is one that a subscriber gave.
SenderInv ==
    \A s \in Senders :
        /\ pc[s] \in {"posting", "answered", "logged", "recorded"} => cur[s] \in Deliveries
        /\ pc[s] \in {"answered", "logged", "recorded"} =>
              /\ outcome[s] \in {"ok", "retry", "refused"}
              /\ outcome[s] = "ok" => cur[s] \in accepted
              /\ outcome[s] = "refused" => cur[s] \in refused
              /\ snapAttempts[s][cur[s]] + 1 <= posts[cur[s]]

\* An endpoint that a call has selected and will not come to has been served.
FanoutInv ==
    \A p \in Publishers : pub[p] \in {"inserting", "accepted"} =>
        \A e \in selected[p] :
            \/ e \in fanout[p] /\ pub[p] = "inserting"
            \/ endpoint[e] = "deleted"
            \/ status[<<e, EventOf[p]>>] # "none"

\* The inductive invariant of the proofs: the counts, the outcomes and the
\* fan-outs in the memory of overlapping handlers stay true of the tables.
IInv == /\ TypeOK /\ AttemptsInv /\ SenderInv /\ FanoutInv
        /\ DeliveredWasAccepted /\ DeadWasSpent /\ CircuitMatchesFailures

\* In the end every delivery is settled for good, or its endpoint is disabled:
\* an open circuit delays deliveries but starves none, and senders that overwrite
\* each other's results do not keep one pending for ever.
EventuallySettled ==
    \A d \in Deliveries : <>[](status[d] # "pending" \/ disabled[d[1]])

\* Overlapping senders take disjoint work.
DisjointWork ==
    \A r, s \in Senders : r # s => batch[r] \cap batch[s] = {} /\ cur[r] \notin batch[s]

\* No delivery is posted to an endpoint while its circuit is open and cooling.
OpenCircuitIsRespected ==
    [][\A s \in Senders :
          StartPost(s) => circuit[cur'[s][1]] # "cooling"]_vars

\* A failed trial delivery reopens the circuit.
FailedTrialReopens ==
    [][\A s \in Senders :
          (/\ RecordHealth(s)
           /\ outcome[s] # "ok"
           /\ circuit[cur[s][1]] = "cooled") => circuit'[cur[s][1]] = "cooling"]_vars
=============================================================================
