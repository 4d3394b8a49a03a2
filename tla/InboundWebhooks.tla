-------------------------- MODULE InboundWebhooks --------------------------
(***************************************************************************)
(* Inbound webhooks (blocks/webhooks-inbound): POST /hooks/:provider and   *)
(* POST /replay over the archive, handing events to the outbox.            *)
(*                                                                         *)
(* A call is one request of a provider; calls of one event are its         *)
(* retries, with the same bytes and id.  One statement is one action.      *)
(* Event, body hash and idempotency key are one thing here.  Signatures    *)
(* are abstracted to the keys a call is signed with.                       *)
(***************************************************************************)
EXTENDS Naturals, FiniteSets

CONSTANTS Calls, EventOf,  \* call -> its event
          Provider,        \* event -> its provider
          SignedWith,      \* call -> the keys whose signatures it carries
          Fresh,           \* calls with a timestamp inside the tolerance
          ReplayLimit

VARIABLES secret,      \* the key this block is configured with
          hook,        \* call -> how far its handler is, or how it was answered
          archived,    \* call -> status of the row it wrote
          inWindow,    \* calls whose row is younger than the dedupe window
          inboxKeys,   \* events whose idempotency key is in the outbox
          inboxSent,   \* history: event -> outbox events from first deliveries
          replaying,   \* rows that /replay has marked and not yet published
          replayed     \* history: rows that a replay has published

vars == <<secret, hook, archived, inWindow, inboxKeys, inboxSent, replaying, replayed>>

Events == {EventOf[c] : c \in Calls}

Init ==
    /\ secret = "old"
    /\ hook = [c \in Calls |-> "idle"]
    /\ archived = [c \in Calls |-> "none"]
    /\ inWindow = {}
    /\ inboxKeys = {}
    /\ inboxSent = [e \in Events |-> 0]
    /\ replaying = {}
    /\ replayed = {}

-----------------------------------------------------------------------------
(* What the schemes of verify.ts have in common                            *)

Timed    == {"stripe", "slack", "clerk"}           \* sign a timestamp
Rotating == {"stripe", "clerk"}                    \* may carry several signatures
Named    == {"stripe", "github", "shopify", "clerk"}  \* carry an event id

\* A verifier takes any candidate that matches where the scheme has several.
Verifies(c) ==
    LET p == Provider[EventOf[c]]
    IN  /\ p \in Timed => c \in Fresh
        /\ secret \in SignedWith[c]
        /\ p \notin Rotating => SignedWith[c] = {secret}

HasId(e) == Provider[e] \in Named

-----------------------------------------------------------------------------
(* POST /hooks/:provider                                                   *)

\* A lookup that takes a row of any status for a duplicate.
DuplicatesOfAnyStatus(e) ==
    {c \in Calls : EventOf[c] = e /\ archived[c] # "none" /\ (HasId(e) \/ c \in inWindow)}

\* findDuplicate: by the provider's id for ever, by the bytes within a window.
Duplicates(e) ==
    {c \in Calls : EventOf[c] = e /\ archived[c] = "accepted" /\ (HasId(e) \/ c \in inWindow)}

WriteRow(c, status) ==
    /\ archived' = [archived EXCEPT ![c] = status]
    /\ inWindow' = inWindow \union {c}

\* Verify; a request that fails is archived as rejected and answered 401, for
\* any other the lookup decides.
Receive(c) ==
    /\ hook[c] = "idle"
    /\ IF ~Verifies(c)
       THEN /\ WriteRow(c, "rejected")
            /\ hook' = [hook EXCEPT ![c] = "401"]
       ELSE /\ hook' = [hook EXCEPT ![c] = IF Duplicates(EventOf[c]) # {}
                                           THEN "seen" ELSE "new"]
            /\ UNCHANGED <<archived, inWindow>>
    /\ UNCHANGED <<secret, inboxKeys, inboxSent, replaying, replayed>>

\* The unique index on the ids of accepted rows.
IndexAdmits(e) ==
    HasId(e) => \A c \in Calls : EventOf[c] = e => archived[c] # "accepted"

\* archive: a duplicate is answered 200; the index rejects a second accepted row,
\* and the provider gets a 500.
Archive(c) ==
    /\ \/ /\ hook[c] = "seen"
          /\ WriteRow(c, "duplicate")
          /\ hook' = [hook EXCEPT ![c] = "200"]
       \/ /\ hook[c] = "new" /\ IndexAdmits(EventOf[c])
          /\ WriteRow(c, "accepted")
          /\ hook' = [hook EXCEPT ![c] = "archived"]
       \/ /\ hook[c] = "new" /\ ~IndexAdmits(EventOf[c])
          /\ hook' = [hook EXCEPT ![c] = "500"]
          /\ UNCHANGED <<archived, inWindow>>
    /\ UNCHANGED <<secret, inboxKeys, inboxSent, replaying, replayed>>

\* publish with the event's key, which the outbox stores at most once; 202.
Publish(c) ==
    /\ hook[c] = "archived"
    /\ hook' = [hook EXCEPT ![c] = "202"]
    /\ LET e == EventOf[c]
       IN  /\ inboxKeys' = inboxKeys \union {e}
           /\ inboxSent' = [inboxSent EXCEPT ![e] = IF e \in inboxKeys THEN @ ELSE @ + 1]
    /\ UNCHANGED <<secret, archived, inWindow, replaying, replayed>>

\* The function dies, or a statement fails, between two steps.
Die(c) ==
    /\ hook[c] \in {"seen", "new", "archived"}
    /\ hook' = [hook EXCEPT ![c] = "500"]
    /\ UNCHANGED <<secret, archived, inWindow, inboxKeys, inboxSent, replaying, replayed>>

-----------------------------------------------------------------------------
(* POST /replay                                                            *)

\* One UPDATE marks at most ReplayLimit accepted rows; which ones, the filters
\* of the request decide.  They are published one by one, under new keys.
Replay ==
    /\ replaying = {}
    /\ \E S \in SUBSET {c \in Calls : archived[c] = "accepted"} :
          /\ S # {} /\ Cardinality(S) <= ReplayLimit
          /\ replaying' = S
    /\ UNCHANGED <<secret, hook, archived, inWindow, inboxKeys, inboxSent, replayed>>

PublishReplay ==
    /\ \E c \in replaying : /\ replaying' = replaying \ {c}
                            /\ replayed' = replayed \union {c}
    /\ UNCHANGED <<secret, hook, archived, inWindow, inboxKeys, inboxSent>>

ReplayDies ==
    /\ replaying # {}
    /\ replaying' = {}
    /\ UNCHANGED <<secret, hook, archived, inWindow, inboxKeys, inboxSent, replayed>>

-----------------------------------------------------------------------------
(* The surroundings                                                        *)

\* The secret is rotated here, before or after the provider does.
Rotate ==
    /\ secret = "old" /\ secret' = "new"
    /\ UNCHANGED <<hook, archived, inWindow, inboxKeys, inboxSent, replaying, replayed>>

AgeOut(c) ==
    /\ c \in inWindow /\ inWindow' = inWindow \ {c}
    /\ UNCHANGED <<secret, hook, archived, inboxKeys, inboxSent, replaying, replayed>>

\* The daily sweep of the queue block deletes a delivered event, days later: no
\* request of it is under way.
PurgeOutbox(e) ==
    /\ e \in inboxKeys
    /\ \A c \in Calls : EventOf[c] = e => hook[c] \notin {"seen", "new", "archived"}
    /\ inboxKeys' = inboxKeys \ {e}
    /\ UNCHANGED <<secret, hook, archived, inWindow, inboxSent, replaying, replayed>>

Next ==
    \/ \E c \in Calls : Receive(c) \/ Archive(c) \/ Publish(c) \/ Die(c) \/ AgeOut(c)
    \/ Replay \/ PublishReplay \/ ReplayDies \/ Rotate
    \/ \E e \in Events : PurgeOutbox(e)

Spec == Init /\ [][Next]_vars

-----------------------------------------------------------------------------
TypeOK ==
    /\ secret \in {"old", "new"}
    /\ hook \in [Calls -> {"idle", "seen", "new", "archived", "200", "202", "401", "500"}]
    /\ archived \in [Calls -> {"none", "accepted", "rejected", "duplicate"}]
    /\ inWindow \subseteq Calls /\ replaying \subseteq Calls /\ replayed \subseteq Calls
    /\ inboxKeys \subseteq Events
    /\ inboxSent \in [Events -> Nat]

\* An event that any retry of was answered with success has an accepted row, from
\* which it can be replayed: rejections (a rotated secret) and crashed attempts
\* never make a later genuine delivery count as a duplicate.
AnsweredIsReplayable ==
    \A c \in Calls : hook[c] \in {"200", "202"} =>
        \E d \in Calls : EventOf[d] = EventOf[c] /\ archived[d] = "accepted"

\* Concurrent and repeated deliveries of an event with an id publish it once,
\* however long after the outbox has forgotten the key they come.
PublishedOnce == \A e \in Events : HasId(e) => inboxSent[e] <= 1

Safety == TypeOK /\ AnsweredIsReplayable /\ PublishedOnce

\* 'accepted' means that the event was queued: once its handler is over.
AcceptedWasQueued ==
    \A c \in Calls : archived[c] = "accepted" /\ hook[c] # "archived" =>
        inboxSent[EventOf[c]] > 0
-----------------------------------------------------------------------------
(* Why Safety holds: a row is written before the answer and stays what it  *)
(* is, and of an event with an id there is one accepted row: who wrote it  *)
(* is the only one that may publish, and does so once.                     *)

Accepted(e) == {c \in Calls : EventOf[c] = e /\ archived[c] = "accepted"}

RowsStay ==
    \A c \in Calls :
        /\ archived[c] = "accepted" => hook[c] \notin {"idle", "seen", "new"}
        /\ hook[c] = "archived" => archived[c] = "accepted"
        /\ hook[c] = "seen" => Accepted(EventOf[c]) # {}

OnePublisher ==
    \A e \in Events : HasId(e) =>
        /\ \A c, d \in Accepted(e) : c = d
        /\ inboxSent[e] = 0 \/ (inboxSent[e] = 1 /\ \E c \in Accepted(e) : hook[c] # "archived")

IInv == TypeOK /\ RowsStay /\ AnsweredIsReplayable /\ OnePublisher
=============================================================================
