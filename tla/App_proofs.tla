------------------------------ MODULE App_proofs ----------------------------
(* Safety of seven blocks of App, for every value of their constants:      *)
(* webhooks, notifications, billing, streams, keys, embeddings, schema.    *)
(* Each part proves an inductive invariant of one block, IInv, and that it *)
(* implies what the block promises.                                        *)
EXTENDS App, FiniteSetTheorems, TLAPS

-----------------------------------------------------------------------------
(* InboundWebhooks                                                         *)

LEMMA InboundInitHolds == ASSUME Inbound!Init PROVE Inbound!IInv
<1> USE DEF Inbound!Init
<1>1. Inbound!TypeOK
  BY DEF Inbound!TypeOK
<1>2. Inbound!RowsStay /\ Inbound!AnsweredIsReplayable /\ Inbound!OnePublisher
  BY DEF Inbound!RowsStay, Inbound!AnsweredIsReplayable, Inbound!OnePublisher, Inbound!Accepted
<1> QED BY <1>1, <1>2 DEF Inbound!IInv

\* A handler that moves on without writing to the archive or the outbox.
LEMMA InboundHookStep ==
    ASSUME Inbound!IInv, NEW c \in Calls, NEW s \in {"seen", "new", "200", "401", "500"},
           hook[c] \notin {"200", "202"} \/ s = hook[c], s \in {"seen", "200"} => Inbound!Accepted(EventOf[c]) # {},
           s \in {"seen", "new"} => archived[c] # "accepted",
           hook' = [hook EXCEPT ![c] = s],
           UNCHANGED <<secret, archived, inboxKeys, inboxSent, replaying, replayed>>, inWindow' \subseteq Calls
    PROVE  Inbound!IInv'
<1> USE DEF Inbound!IInv
<1>1. /\ hook'[c] = s /\ \A d \in Calls \ {c} : hook'[d] = hook[d]
      /\ hook' \in [Calls -> {"idle", "seen", "new", "archived", "200", "202", "401", "500"}]
  BY DEF Inbound!TypeOK
<1>2. Inbound!TypeOK'
  BY <1>1 DEF Inbound!TypeOK
<1>3. \A e : Inbound!Accepted(e)' = Inbound!Accepted(e)
  BY DEF Inbound!Accepted
<1>4. Inbound!RowsStay'
  BY <1>1, <1>3 DEF Inbound!RowsStay
<1>5. Inbound!AnsweredIsReplayable'
  BY <1>1 DEF Inbound!AnsweredIsReplayable, Inbound!Accepted
<1>6. Inbound!OnePublisher'
  <2>1. \A d \in Calls : hook[d] # "archived" => hook'[d] # "archived"
    BY <1>1
  <2>2. \A e : Inbound!Accepted(e) \subseteq Calls
    BY DEF Inbound!Accepted
  <2> QED BY <1>3, <2>1, <2>2 DEF Inbound!OnePublisher, Inbound!HasId
<1> QED BY <1>2, <1>4, <1>5, <1>6

\* A handler that writes its row.
LEMMA InboundRowStep ==
    ASSUME Inbound!IInv, NEW c \in Calls, NEW s \in {"200", "401", "archived"},
           hook[c] \in {"idle", "seen", "new"}, hook' = [hook EXCEPT ![c] = s],
           NEW a \in {"accepted", "rejected", "duplicate"}, archived' = [archived EXCEPT ![c] = a],
           a = "accepted" <=> s = "archived", s = "200" => Inbound!Accepted(EventOf[c]) # {},
           s = "archived" => Inbound!IndexAdmits(EventOf[c]),
           inWindow' \subseteq Calls, UNCHANGED <<secret, inboxKeys, inboxSent, replaying, replayed>>
    PROVE  Inbound!IInv'
<1> USE DEF Inbound!IInv
<1>1. /\ hook'[c] = s /\ \A d \in Calls \ {c} : hook'[d] = hook[d]
      /\ archived'[c] = a /\ \A d \in Calls \ {c} : archived'[d] = archived[d]
      /\ archived[c] # "accepted"
  BY DEF Inbound!TypeOK, Inbound!RowsStay
<1>2. Inbound!TypeOK'
  BY DEF Inbound!TypeOK
<1>3. \A e : /\ a # "accepted" => Inbound!Accepted(e)' = Inbound!Accepted(e)
             /\ a = "accepted" => Inbound!Accepted(e)' = Inbound!Accepted(e) \union {d \in {c} : EventOf[d] = e}
  BY <1>1 DEF Inbound!Accepted
<1>4. Inbound!RowsStay'
  BY <1>1, <1>3 DEF Inbound!RowsStay
<1>5. Inbound!AnsweredIsReplayable'
  BY <1>1, <1>3 DEF Inbound!AnsweredIsReplayable, Inbound!Accepted
<1>6. Inbound!OnePublisher'
  <2> SUFFICES ASSUME NEW e \in Inbound!Events, Inbound!HasId(e)
               PROVE  /\ \A x, d \in Inbound!Accepted(e)' : x = d
                      /\ \/ inboxSent[e] = 0
                         \/ inboxSent[e] = 1 /\ \E x \in Inbound!Accepted(e)' : hook'[x] # "archived"
    BY DEF Inbound!OnePublisher, Inbound!HasId
  <2>1. /\ \A x, d \in Inbound!Accepted(e) : x = d
        /\ \/ inboxSent[e] = 0
           \/ inboxSent[e] = 1 /\ \E x \in Inbound!Accepted(e) : hook[x] # "archived"
    BY DEF Inbound!OnePublisher
  <2>2. \A x \in Inbound!Accepted(e) : x # c /\ hook'[x] = hook[x]
    BY <1>1 DEF Inbound!Accepted
  <2>3. CASE a = "accepted" /\ EventOf[c] = e
    <3>1. Inbound!Accepted(e) = {}
      BY <2>3 DEF Inbound!IndexAdmits, Inbound!Accepted
    <3> QED BY <1>3, <2>1, <2>3, <3>1
  <2>4. CASE ~(a = "accepted" /\ EventOf[c] = e)
    <3>1. Inbound!Accepted(e)' = Inbound!Accepted(e)
      BY <1>3, <2>4
    <3> QED BY <2>1, <2>2, <3>1
  <2> QED BY <2>3, <2>4
<1> QED BY <1>2, <1>4, <1>5, <1>6

LEMMA InboundStepHolds == ASSUME Inbound!IInv, [Inbound!Next]_(Inbound!vars) PROVE Inbound!IInv'
<1> USE DEF Inbound!IInv
<1>1. ASSUME NEW c \in Calls, Inbound!Receive(c) PROVE Inbound!IInv'
  <2>1. /\ hook[c] = "idle" /\ archived[c] # "accepted"
        /\ UNCHANGED <<secret, inboxKeys, inboxSent, replaying, replayed>>
    BY <1>1 DEF Inbound!Receive, Inbound!RowsStay
  <2>2. CASE Inbound!Verifies(c)
    <3>1. /\ hook' = [hook EXCEPT ![c] = IF Inbound!Duplicates(EventOf[c]) # {} THEN "seen" ELSE "new"]
          /\ UNCHANGED <<archived, inWindow>>
      BY <1>1, <2>2 DEF Inbound!Receive
    <3>2. Inbound!Duplicates(EventOf[c]) # {} => Inbound!Accepted(EventOf[c]) # {}
      BY DEF Inbound!Duplicates, Inbound!Accepted
    <3>3. inWindow' \subseteq Calls
      BY <3>1 DEF Inbound!TypeOK
    <3> QED BY <2>1, <3>1, <3>2, <3>3, InboundHookStep
  <2>3. CASE ~Inbound!Verifies(c)
    <3>1. /\ hook' = [hook EXCEPT ![c] = "401"] /\ archived' = [archived EXCEPT ![c] = "rejected"]
          /\ inWindow' \subseteq Calls
      BY <1>1, <2>3 DEF Inbound!Receive, Inbound!WriteRow, Inbound!TypeOK
    <3> QED BY <2>1, <3>1, InboundRowStep
  <2> QED BY <2>2, <2>3
<1>2. ASSUME NEW c \in Calls, Inbound!Archive(c) PROVE Inbound!IInv'
  <2>1. /\ hook[c] \in {"seen", "new"} /\ archived[c] # "accepted"
        /\ UNCHANGED <<secret, inboxKeys, inboxSent, replaying, replayed>>
    BY <1>2 DEF Inbound!Archive, Inbound!RowsStay
  <2>2. CASE hook[c] = "seen"
    <3>1. /\ hook' = [hook EXCEPT ![c] = "200"] /\ archived' = [archived EXCEPT ![c] = "duplicate"]
          /\ inWindow' \subseteq Calls /\ Inbound!Accepted(EventOf[c]) # {}
      BY <1>2, <2>2 DEF Inbound!Archive, Inbound!WriteRow, Inbound!TypeOK, Inbound!RowsStay
    <3> QED BY <2>1, <3>1, InboundRowStep
  <2>3. CASE hook[c] = "new" /\ Inbound!IndexAdmits(EventOf[c])
    <3>1. /\ hook' = [hook EXCEPT ![c] = "archived"] /\ archived' = [archived EXCEPT ![c] = "accepted"]
          /\ inWindow' \subseteq Calls
      BY <1>2, <2>3 DEF Inbound!Archive, Inbound!WriteRow, Inbound!TypeOK
    <3> QED BY <2>1, <2>3, <3>1, InboundRowStep
  <2>4. CASE hook[c] = "new" /\ ~Inbound!IndexAdmits(EventOf[c])
    <3>1. hook' = [hook EXCEPT ![c] = "500"] /\ UNCHANGED archived /\ inWindow' \subseteq Calls
      BY <1>2, <2>4 DEF Inbound!Archive, Inbound!TypeOK
    <3> QED BY <2>1, <3>1, InboundHookStep
  <2> QED BY <2>1, <2>2, <2>3, <2>4
<1>3. ASSUME NEW c \in Calls, Inbound!Publish(c) PROVE Inbound!IInv'
  <2> DEFINE n == IF EventOf[c] \in inboxKeys THEN inboxSent[EventOf[c]] ELSE inboxSent[EventOf[c]] + 1
  <2>1. /\ hook[c] = "archived" /\ hook' = [hook EXCEPT ![c] = "202"] /\ EventOf[c] \in Inbound!Events
        /\ inboxKeys' = inboxKeys \union {EventOf[c]} /\ inboxSent' = [inboxSent EXCEPT ![EventOf[c]] = n]
        /\ UNCHANGED <<secret, archived, inWindow, replaying, replayed>>
    BY <1>3 DEF Inbound!Publish, Inbound!Events, Inbound!TypeOK
  <2>2. inboxSent[EventOf[c]] \in Nat
    BY <2>1 DEF Inbound!TypeOK
  <2>3. n \in Nat /\ n \in {inboxSent[EventOf[c]], inboxSent[EventOf[c]] + 1}
    BY <2>2
  <2> HIDE DEF n
  <2>4. Inbound!TypeOK'
    BY <2>1, <2>3 DEF Inbound!TypeOK
  <2>5. /\ hook'[c] = "202" /\ \A d \in Calls \ {c} : hook'[d] = hook[d]
        /\ inboxSent'[EventOf[c]] = n /\ \A e \in Inbound!Events \ {EventOf[c]} : inboxSent'[e] = inboxSent[e]
    BY <2>1 DEF Inbound!TypeOK
  <2>6. \A e : Inbound!Accepted(e)' = Inbound!Accepted(e)
    BY <2>1 DEF Inbound!Accepted
  <2>7. c \in Inbound!Accepted(EventOf[c])
    BY <2>1 DEF Inbound!RowsStay, Inbound!Accepted
  <2>8. Inbound!RowsStay'
    BY <2>1, <2>5, <2>6 DEF Inbound!RowsStay
  <2>9. Inbound!AnsweredIsReplayable'
    BY <2>1, <2>5, <2>7 DEF Inbound!AnsweredIsReplayable, Inbound!Accepted
  <2>10. Inbound!OnePublisher'
    <3> SUFFICES ASSUME NEW e \in Inbound!Events, Inbound!HasId(e)
                 PROVE  /\ \A x, d \in Inbound!Accepted(e) : x = d
                        /\ \/ inboxSent'[e] = 0
                           \/ inboxSent'[e] = 1 /\ \E x \in Inbound!Accepted(e) : hook'[x] # "archived"
      BY <2>6 DEF Inbound!OnePublisher, Inbound!HasId
    <3>1. /\ \A x, d \in Inbound!Accepted(e) : x = d
          /\ \/ inboxSent[e] = 0
             \/ inboxSent[e] = 1 /\ \E x \in Inbound!Accepted(e) : hook[x] # "archived"
      BY DEF Inbound!OnePublisher
    <3>2. CASE e = EventOf[c]
      <4>1. inboxSent[e] = 0 /\ hook'[c] # "archived"
        BY <2>1, <2>5, <2>7, <3>1, <3>2
      <4>2. inboxSent'[e] \in {0, 1}
        BY <2>3, <2>5, <3>2, <4>1
      <4> QED BY <2>7, <3>1, <3>2, <4>1, <4>2
    <3>3. CASE e # EventOf[c]
      <4>1. \A x \in Inbound!Accepted(e) : hook'[x] = hook[x]
        BY <2>5, <3>3 DEF Inbound!Accepted
      <4> QED BY <2>5, <3>1, <3>3, <4>1
    <3> QED BY <3>2, <3>3
  <2> QED BY <2>4, <2>8, <2>9, <2>10
<1>4. ASSUME NEW c \in Calls, Inbound!Die(c) PROVE Inbound!IInv'
  <2>1. /\ hook[c] \in {"seen", "new", "archived"} /\ hook' = [hook EXCEPT ![c] = "500"]
        /\ UNCHANGED <<secret, archived, inWindow, inboxKeys, inboxSent, replaying, replayed>>
    BY <1>4 DEF Inbound!Die
  <2>2. inWindow' \subseteq Calls
    BY <2>1 DEF Inbound!TypeOK
  <2> QED BY <2>1, <2>2, InboundHookStep
<1>5. CASE Inbound!Replay \/ Inbound!PublishReplay \/ Inbound!ReplayDies \/ Inbound!Rotate \/ (\E c \in Calls : Inbound!AgeOut(c))
           \/ (\E e \in Inbound!Events : Inbound!PurgeOutbox(e)) \/ UNCHANGED Inbound!vars
  <2>1. UNCHANGED <<hook, archived, inboxSent>>
    BY <1>5 DEF Inbound!Replay, Inbound!PublishReplay, Inbound!ReplayDies, Inbound!Rotate,
         Inbound!AgeOut, Inbound!PurgeOutbox, Inbound!vars
  <2>2. Inbound!TypeOK'
    BY <1>5 DEF Inbound!TypeOK, Inbound!Replay, Inbound!PublishReplay, Inbound!ReplayDies,
         Inbound!Rotate, Inbound!AgeOut, Inbound!PurgeOutbox, Inbound!vars
  <2>3. \A e : Inbound!Accepted(e)' = Inbound!Accepted(e)
    BY <2>1 DEF Inbound!Accepted
  <2> QED BY <2>1, <2>2, <2>3 DEF Inbound!RowsStay, Inbound!AnsweredIsReplayable,
       Inbound!OnePublisher, Inbound!HasId
<1> QED BY <1>1, <1>2, <1>3, <1>4, <1>5 DEF Inbound!Next

\* Only what an accepted row records is published, and an event with an id once.
LEMMA InboundHolds == Inbound!Spec => []Inbound!Safety
<1>1. Inbound!IInv => Inbound!Safety
  <2>1. ASSUME Inbound!IInv, NEW e \in Inbound!Events, Inbound!HasId(e) PROVE inboxSent[e] <= 1
    BY <2>1 DEF Inbound!IInv, Inbound!OnePublisher
  <2> QED BY <2>1 DEF Inbound!IInv, Inbound!Safety, Inbound!PublishedOnce
<1> QED BY <1>1, InboundInitHolds, InboundStepHolds, PTL DEF Inbound!Spec

-----------------------------------------------------------------------------
(* Notifications                                                           *)

LEMMA NotesInitHolds == ASSUME Notes!Sane, Notes!Init PROVE Notes!IInv
<1> USE DEF Notes!Sane
<1>1. Notes!TypeOK
  <2>1. letters \in [Senders -> SUBSET Messages] /\ mailing \in [Senders -> SUBSET Messages]
    BY DEF Notes!Init
  <2>2. note \in [Messages -> {"none", "pending", "deferred", "sent", "failed", "suppressed",
                             "digested", "deduplicated"}]
    BY DEF Notes!Init
  <2>3. /\ task \in [Senders -> {"idle", "release", "send", "digest"}]
        /\ receipt \in [Senders -> {"none", "ok", "error"}]
    BY DEF Notes!Init
  <2>4. /\ tries \in [Messages -> Nat] /\ mailed \in [Messages -> Nat]
        /\ refusals \in [Messages -> Nat] /\ cronRuns \in 0..CronRuns
    BY DEF Notes!Init
  <2>5. quiet \in BOOLEAN
    BY DEF Notes!Init
  <2> QED BY <2>1, <2>2, <2>3, <2>4, <2>5 DEF Notes!TypeOK
<1>2. Notes!StatusIsEarned /\ Notes!OneLivePerKey /\ Notes!Accounts
  BY DEF Notes!Init, Notes!StatusIsEarned, Notes!OneLivePerKey, Notes!Accounts, Notes!Live
<1> QED BY <1>1, <1>2 DEF Notes!IInv, Notes!Safety

LEMMA NotesStepHolds ==
    ASSUME Notes!Sane, Notes!IInv, [Notes!Next]_(Notes!vars)
    PROVE  Notes!IInv'
<1> USE DEF Notes!Sane, Notes!IInv, Notes!Safety, Notes!TypeOK, Notes!StatusIsEarned,
     Notes!OneLivePerKey, Notes!Accounts, Notes!SameKey, Notes!Live
<1>1. ASSUME NEW m \in Messages, NEW p \in {"disabled", "digest", "immediate"}, Notes!Notify(m, p)
      PROVE  Notes!IInv'
  <2>1. CASE note' = [note EXCEPT ![m] = "deduplicated"]
    BY <1>1, <2>1 DEF Notes!Notify, Notes!senderVars
  <2>2. CASE \E status \in {"suppressed", "digested", "deferred", "pending"} :
                /\ status \in Notes!Live => Notes!IndexAdmits({m})
                /\ note' = [note EXCEPT ![m] = status]
    BY <1>1, <2>2 DEF Notes!Notify, Notes!senderVars, Notes!IndexAdmits
  <2> QED BY <1>1, <2>1, <2>2 DEF Notes!Notify
<1>2. CASE Notes!QuietHours
  BY <1>2 DEF Notes!QuietHours, Notes!senderVars
<1>3. ASSUME NEW s \in Senders, Notes!Release(s) PROVE Notes!IInv'
  BY <1>3 DEF Notes!Release
<1>4. ASSUME NEW s \in Senders, Notes!Select(s) PROVE Notes!IInv'
  BY <1>4 DEF Notes!Select
<1>5. ASSUME NEW s \in Senders, Notes!SelectDigest(s) PROVE Notes!IInv'
  <2>1. {m \in Messages : note[m] = "digested"} \in SUBSET Messages
    OBVIOUS
  <2>2. mailing' \in [Senders -> SUBSET Messages]
    BY <1>5, <2>1 DEF Notes!SelectDigest
  <2>3. Notes!TypeOK'
    BY <1>5, <2>2 DEF Notes!SelectDigest
  <2>4. Notes!StatusIsEarned' /\ Notes!OneLivePerKey'
    BY <1>5 DEF Notes!SelectDigest
  <2>5. Notes!Accounts'
    BY <1>5, <2>2 DEF Notes!SelectDigest
  <2> QED BY <2>3, <2>4, <2>5
<1>6. ASSUME NEW s \in Senders, Notes!TakeLetter(s) PROVE Notes!IInv'
  BY <1>6 DEF Notes!TakeLetter
<1>7. ASSUME NEW s \in Senders, Notes!Mail(s) PROVE Notes!IInv'
  <2>1. CASE receipt' = [receipt EXCEPT ![s] = "error"] /\ UNCHANGED mailed
    BY <1>7, <2>1 DEF Notes!Mail
  <2>2. CASE /\ receipt' = [receipt EXCEPT ![s] = "ok"]
             /\ mailed' = [m \in Messages |-> mailed[m] + IF m \in mailing[s] THEN 1 ELSE 0]
    <3>1. mailed' \in [Messages -> Nat]
      BY <2>2
    <3>2. \A m \in Messages : mailed'[m] >= mailed[m] /\ (m \in mailing[s] => mailed'[m] > 0)
      BY <2>2
    <3>3. Notes!TypeOK'
      BY <1>7, <2>2, <3>1 DEF Notes!Mail
    <3>4. Notes!StatusIsEarned' /\ Notes!OneLivePerKey'
      BY <1>7, <3>1, <3>2 DEF Notes!Mail
    <3>5. Notes!Accounts'
      BY <1>7, <2>2, <3>1, <3>2 DEF Notes!Mail
    <3> QED BY <3>3, <3>4, <3>5
  <2> QED BY <1>7, <2>1, <2>2 DEF Notes!Mail
<1>8. ASSUME NEW s \in Senders, Notes!MarkSent(s) PROVE Notes!IInv'
  <2>1. CASE Notes!IndexAdmits(mailing[s]) /\ Notes!Done(s)
             /\ note' = [m \in Messages |-> IF m \in mailing[s] THEN "sent" ELSE note[m]]
    BY <1>8, <2>1 DEF Notes!MarkSent, Notes!Done, Notes!IndexAdmits
  <2>2. CASE receipt' = [receipt EXCEPT ![s] = "error"] /\ UNCHANGED <<note, task, mailing>>
    BY <1>8, <2>2 DEF Notes!MarkSent
  <2> QED BY <1>8, <2>1, <2>2 DEF Notes!MarkSent
<1>9. ASSUME NEW s \in Senders, Notes!MarkFailed(s) PROVE Notes!IInv'
  <2>1. CASE task[s] = "digest"
    BY <1>9, <2>1 DEF Notes!MarkFailed, Notes!Done
  <2>2. CASE task[s] # "digest"
    <3>1. PICK m \in mailing[s] :
             /\ tries' = [tries EXCEPT ![m] = @ + 1]
             /\ note' = [note EXCEPT ![m] = IF Notes!GivesUp(m) THEN "failed" ELSE @]
      BY <1>9, <2>2 DEF Notes!MarkFailed
    <3> QED BY <1>9, <3>1 DEF Notes!MarkFailed, Notes!Done, Notes!GivesUp
  <2> QED BY <2>1, <2>2
<1>10. ASSUME NEW s \in Senders, Notes!EndRun(s) PROVE Notes!IInv'
  BY <1>10 DEF Notes!EndRun
<1>11. CASE UNCHANGED Notes!vars
  BY <1>11 DEF Notes!vars, Notes!senderVars
<1> QED
  BY <1>1, <1>2, <1>3, <1>4, <1>5, <1>6, <1>7, <1>8, <1>9, <1>10, <1>11 DEF Notes!Next

\* Whatever the runs of /send and /digest do beside each other, a row never says more
\* than the provider did, and a key has one live message.
LEMMA NotesHolds == Notes!Spec => []Notes!Safety
<1>1. Notes!Init => Notes!IInv
  BY NotesSane, NotesInitHolds
<1>2. Notes!IInv /\ [Notes!Next]_(Notes!vars) => Notes!IInv'
  BY NotesSane, NotesStepHolds
<1>3. Notes!IInv => Notes!Safety
  BY DEF Notes!IInv
<1> QED BY <1>1, <1>2, <1>3, PTL DEF Notes!Spec

-----------------------------------------------------------------------------
(* Billing                                                                 *)

\* The block counts as FiniteSets does.
LEMMA MoneyFinite ==
    \A S : (Money!IsFiniteSet(S) <=> IsFiniteSet(S)) /\ Money!Cardinality(S) = Cardinality(S)
BY DEF Money!IsFiniteSet, IsFiniteSet, Money!Cardinality, Cardinality

LEMMA MoneyUnderFacts ==
    ASSUME Money!IInv
    PROVE  /\ meter \subseteq Callers /\ IsFiniteSet(meter) /\ IsFiniteSet(Money!Under("allowed"))
           /\ IsFiniteSet(meter \union Money!Under("allowed"))
           /\ Cardinality(meter) \in Nat /\ Cardinality(Money!Under("allowed")) \in Nat
           /\ Cardinality(meter \union Money!Under("allowed")) \in Nat /\ crowd \in Nat
           /\ Cardinality(meter) <= Cardinality(meter \union Money!Under("allowed"))
<1>1. meter \subseteq Callers /\ Money!Under("allowed") \subseteq Callers /\ IsFiniteSet(Callers)
  BY MoneySane, MoneyFinite DEF Money!IInv, Money!TypeOK, Money!Under, Money!Sane
<1>2. meter \union Money!Under("allowed") \subseteq Callers /\ meter \subseteq meter \union Money!Under("allowed")
  BY <1>1
<1>3. /\ IsFiniteSet(meter) /\ IsFiniteSet(Money!Under("allowed"))
      /\ IsFiniteSet(meter \union Money!Under("allowed"))
  BY <1>1, <1>2, FS_Subset
<1>4. /\ Cardinality(meter) \in Nat /\ Cardinality(Money!Under("allowed")) \in Nat
      /\ Cardinality(meter \union Money!Under("allowed")) \in Nat /\ Cardinality(Callers) \in Nat
  BY <1>1, <1>3, FS_CardinalityType
<1>5. Cardinality(meter) <= Cardinality(meter \union Money!Under("allowed"))
  BY <1>2, <1>3, FS_Subset
<1>6. crowd \in Nat
  BY <1>4 DEF Money!IInv, Money!TypeOK
<1> QED BY <1>1, <1>3, <1>4, <1>5, <1>6

LEMMA MoneyInitHolds == ASSUME Money!Init PROVE Money!IInv
<1> USE DEF Money!Init
<1>1. Money!Under("allowed") = {} /\ Money!Under("metered") = {} /\ Cardinality({}) = 0
  BY FS_EmptySet DEF Money!Under
<1>2. Cardinality(Callers) \in Nat
  BY MoneySane, FS_CardinalityType, MoneyFinite DEF Money!Sane
<1>3. Money!TypeOK
  <2>1. /\ held \in [Money!Subs -> Payloads \union {Money!NoRow}] /\ delivered \subseteq Payloads
        /\ caller \in [Callers -> {"idle", "allowed", "denied", "metered"}] /\ meter \subseteq Callers
        /\ notices \subseteq Money!Subs \X Money!Stages /\ dunned \in [Money!Subs \X Money!Stages -> Nat]
        /\ overdue \in [Sweepers -> SUBSET Payloads]
        /\ announcing \in [Sweepers -> SUBSET (Money!Subs \X Money!Stages)]
    OBVIOUS
  <2>2. day \in 0..LastDay /\ crowd \in 0..Cardinality(Callers)
    BY <1>2, MoneySane DEF Money!Sane
  <2> QED BY <2>1, <2>2, MoneyFinite DEF Money!TypeOK
<1>4. Money!HeldIsNewest
  BY DEF Money!HeldIsNewest
<1>5. Money!Admitted
  <2>1. meter = Money!Under("metered") /\ meter \union Money!Under("allowed") = {}
    BY <1>1
  <2>2. Cardinality(Money!Under("allowed")) = 0
    BY <1>1
  <2>3. Cardinality(Money!Under("allowed")) <= crowd
    BY <2>2
  <2> QED BY <2>1, <2>3, MoneyFinite DEF Money!Admitted
<1>6. Money!OneAnnouncer
  BY DEF Money!OneAnnouncer
<1> QED BY <1>3, <1>4, <1>5, <1>6 DEF Money!IInv

LEMMA MoneyStepHolds == ASSUME Money!IInv, [Money!Next]_(Money!vars) PROVE Money!IInv'
<1> USE DEF Money!IInv
<1>0. /\ Money!NoRow \notin Payloads /\ Quota \in Nat /\ LastDay \in Nat
      /\ \A p \in Payloads : Stamp[p] \in Nat /\ PaidTo[p] \in Nat /\ Sub[p] \in Money!Subs
      /\ \A i \in Money!Stages : Schedule[i] \in Nat
  BY MoneySane DEF Money!Sane, Money!Subs
<1>1. ASSUME NEW p \in Payloads, Money!Sync(p) PROVE Money!IInv'
  <2> DEFINE s == Sub[p]
             h == IF Money!Applies(held[s], p) THEN p ELSE held[s]
  <2>1. /\ held' = [held EXCEPT ![s] = h] /\ delivered' = delivered \union {p} /\ s \in Money!Subs
        /\ UNCHANGED <<day, caller, meter, crowd, notices, dunned, overdue, announcing>>
    BY <1>0, <1>1 DEF Money!Sync, Money!TypeOK
  <2>2. held[s] \in Payloads \union {Money!NoRow} /\ h \in Payloads \union {Money!NoRow}
    BY <2>1 DEF Money!TypeOK
  <2>3. /\ h \in {p, held[s]} /\ (h = p \/ ~Money!Applies(held[s], p)) /\ (~Money!Applies(held[s], p) => h = held[s])
    OBVIOUS
  <2> HIDE DEF h
  <2>4. Money!TypeOK'
    BY <2>1, <2>2 DEF Money!TypeOK
  <2>5. Money!HeldIsNewest'
    <3> SUFFICES ASSUME NEW t \in Money!Subs
                 PROVE  IF held'[t] = Money!NoRow THEN {q \in delivered' : Sub[q] = t} = {}
                        ELSE /\ held'[t] \in {q \in delivered' : Sub[q] = t}
                             /\ (\A q \in {q \in delivered' : Sub[q] = t} : Stamp[q] > 0) =>
                                   \A q \in {q \in delivered' : Sub[q] = t} : Stamp[q] <= Stamp[held'[t]]
      BY DEF Money!HeldIsNewest
    <3>1. IF held[t] = Money!NoRow THEN {q \in delivered : Sub[q] = t} = {}
          ELSE /\ held[t] \in {q \in delivered : Sub[q] = t}
               /\ (\A q \in {q \in delivered : Sub[q] = t} : Stamp[q] > 0) =>
                     \A q \in {q \in delivered : Sub[q] = t} : Stamp[q] <= Stamp[held[t]]
      BY DEF Money!HeldIsNewest
    <3>2. CASE t # s
      BY <2>1, <3>1, <3>2 DEF Money!TypeOK
    <3>3. CASE t = s /\ held[s] = Money!NoRow
      BY <1>0, <2>1, <2>3, <3>1, <3>3 DEF Money!Applies, Money!TypeOK
    <3>4. CASE t = s /\ held[s] # Money!NoRow
      <4>1. held'[t] = h /\ held'[t] # Money!NoRow /\ held'[t] \in {q \in delivered' : Sub[q] = t}
        BY <1>0, <2>1, <2>3, <3>1, <3>4 DEF Money!TypeOK
      <4>2. ASSUME \A q \in {q \in delivered' : Sub[q] = t} : Stamp[q] > 0,
                   NEW q \in {q \in delivered' : Sub[q] = t}
            PROVE  Stamp[q] <= Stamp[h]
        <5>1. /\ Stamp[p] > 0 /\ held[s] \in delivered /\ Sub[held[s]] = s /\ Stamp[held[s]] > 0
              /\ held[s] \in Payloads
          BY <2>1, <2>2, <3>1, <3>4, <4>2
        <5>2. \A x \in delivered : Sub[x] = s => Stamp[x] <= Stamp[held[s]]
          BY <2>1, <3>1, <3>4, <4>2
        <5>3. q = p \/ (q \in delivered /\ Sub[q] = s)
          BY <2>1, <3>4
        <5>4. q \in Payloads
          BY <5>3 DEF Money!TypeOK
        <5>5. CASE Stamp[p] >= Stamp[held[s]]
          <6>1. h = p
            BY <2>3, <5>5 DEF Money!Applies
          <6> QED BY <1>0, <5>1, <5>2, <5>3, <5>4, <5>5, <6>1
        <5>6. CASE ~(Stamp[p] >= Stamp[held[s]])
          <6>1. ~Money!Applies(held[s], p)
            BY <1>0, <3>4, <5>1, <5>6 DEF Money!Applies
          <6>2. h = held[s]
            BY <1>0, <2>3, <5>6, <6>1
          <6> QED BY <1>0, <5>1, <5>2, <5>3, <5>4, <5>6, <6>2
        <5> QED BY <5>5, <5>6
      <4> QED BY <4>1, <4>2
    <3> QED BY <3>2, <3>3, <3>4
  <2>6. Money!Admitted'
    BY <2>1 DEF Money!Admitted, Money!Under
  <2>7. Money!OneAnnouncer'
    BY <2>1 DEF Money!OneAnnouncer
  <2> QED BY <2>4, <2>5, <2>6, <2>7
<1>2. ASSUME NEW c \in Callers, Money!Ask(c) PROVE Money!IInv'
  <2> DEFINE many == Cardinality(Money!Under("allowed")')
  <2>1. PICK a \in {"allowed", "denied"} :
           /\ caller' = [caller EXCEPT ![c] = a] /\ (a = "allowed" => Money!Fits(Cardinality(meter)))
    BY <1>2, MoneyFinite DEF Money!Ask
  <2>2. /\ caller[c] = "idle" /\ crowd' = IF many > crowd THEN many ELSE crowd
        /\ UNCHANGED <<held, delivered, day, meter, notices, dunned, overdue, announcing>>
    BY <1>2, MoneyFinite DEF Money!Ask, Money!Under
  <2>3. Money!Under("metered")' = Money!Under("metered") /\ c \notin Money!Under("allowed")
    BY <2>1, <2>2 DEF Money!Under, Money!TypeOK
  <2>4. Money!Under("allowed")' = IF a = "allowed" THEN Money!Under("allowed") \union {c} ELSE Money!Under("allowed")
    BY <2>1, <2>2 DEF Money!Under, Money!TypeOK
  <2>5. caller' \in [Callers -> {"idle", "allowed", "denied", "metered"}]
    BY <2>1 DEF Money!TypeOK
  <2>6. Money!Under("allowed")' \subseteq Callers
    BY DEF Money!Under
  <2>7. /\ IsFiniteSet(Money!Under("allowed")') /\ many \in Nat /\ many <= Cardinality(Callers)
        /\ Cardinality(Callers) \in Nat
    BY <2>6, MoneySane, FS_Subset, FS_CardinalityType, MoneyFinite DEF Money!Sane
  <2>8. /\ many = IF a = "allowed" THEN Cardinality(Money!Under("allowed")) + 1 ELSE Cardinality(Money!Under("allowed"))
    BY <2>3, <2>4, MoneyUnderFacts, FS_AddElement
  <2>9. crowd \in Nat /\ crowd <= Cardinality(Callers)
    BY <2>7, MoneyFinite DEF Money!TypeOK
  <2> HIDE DEF many
  <2>10. /\ many <= crowd' /\ crowd <= crowd' /\ crowd' \in Nat /\ crowd' <= Cardinality(Callers)
    BY <2>2, <2>7, <2>9
  <2>11. Money!TypeOK'
    BY <2>2, <2>5, <2>7, <2>10, MoneyFinite DEF Money!TypeOK
  <2>12. Money!HeldIsNewest' /\ Money!OneAnnouncer'
    BY <2>2 DEF Money!HeldIsNewest, Money!OneAnnouncer
  <2>13. Money!Admitted'
    <3>1. meter' = Money!Under("metered")' /\ Cardinality(Money!Under("allowed")') <= crowd'
      BY <2>2, <2>3, <2>10 DEF Money!Admitted, many
    <3>2. CASE a = "denied"
      <4>1. meter' \union Money!Under("allowed")' = meter \union Money!Under("allowed")
        BY <2>2, <2>4, <3>2
      <4>2. ASSUME meter \union Money!Under("allowed") # {}
            PROVE  Cardinality(meter \union Money!Under("allowed")) < Quota + crowd'
        <5>1. Cardinality(meter \union Money!Under("allowed")) < Quota + crowd
          BY <4>2, MoneyFinite DEF Money!Admitted
        <5> QED BY <1>0, <2>9, <2>10, <5>1, MoneyUnderFacts
      <4> QED BY <3>1, <4>1, <4>2, MoneyFinite DEF Money!Admitted
    <3>3. CASE a = "allowed"
      <4>1. Cardinality(meter) + 1 <= Quota
        BY <2>1, <3>3 DEF Money!Fits
      <4>2. Cardinality(meter \union Money!Under("allowed")') <= Cardinality(meter) + many
        <5>1. meter \cap Money!Under("allowed")' = {}
          BY <2>3 DEF Money!Admitted, Money!Under
        <5> DEFINE A == Money!Under("allowed")'
        <5>2. IsFiniteSet(A) /\ IsFiniteSet(meter) /\ many = Cardinality(A) /\ meter \cap A = {}
          BY <2>7, <5>1, MoneyUnderFacts DEF many
        <5> HIDE DEF A
        <5>3. Cardinality(meter \union A) = Cardinality(meter) + Cardinality(A) - Cardinality(meter \cap A)
          BY <5>2, FS_Union
        <5>4. Cardinality(meter \cap A) = 0
          BY <5>2, FS_EmptySet
        <5>5. Cardinality(meter \union A) <= Cardinality(meter) + many
          BY <2>7, <5>2, <5>3, <5>4, MoneyUnderFacts
        <5> QED BY <5>5 DEF A
      <4>3. Cardinality(meter \union Money!Under("allowed")') \in Nat
        BY <2>7, MoneyUnderFacts, FS_Union, FS_CardinalityType
      <4>4. Cardinality(meter \union Money!Under("allowed")') < Quota + crowd'
        BY <1>0, <2>7, <2>10, <4>1, <4>2, <4>3, MoneyUnderFacts
      <4> QED BY <2>2, <3>1, <4>4, MoneyFinite DEF Money!Admitted
    <3> QED BY <3>2, <3>3
  <2> QED BY <2>11, <2>12, <2>13
<1>3. ASSUME NEW c \in Callers, Money!Meter(c) PROVE Money!IInv'
  <2>1. /\ caller[c] \in {"allowed", "metered"} /\ caller' = [caller EXCEPT ![c] = "metered"]
        /\ meter' = meter \union {c}
        /\ UNCHANGED <<held, delivered, day, crowd, notices, dunned, overdue, announcing>>
    BY <1>3 DEF Money!Meter
  <2>2. Money!TypeOK'
    BY <2>1 DEF Money!TypeOK
  <2>3. Money!HeldIsNewest' /\ Money!OneAnnouncer'
    BY <2>1 DEF Money!HeldIsNewest, Money!OneAnnouncer
  <2>4. Money!Admitted'
    <3>1. Money!Under("metered")' = Money!Under("metered") \union {c} /\ Money!Under("allowed")' = Money!Under("allowed") \ {c}
      BY <2>1 DEF Money!Under, Money!TypeOK
    <3>2. meter' \union Money!Under("allowed")' = meter \union Money!Under("allowed")
      BY <2>1, <3>1 DEF Money!Admitted, Money!Under
    <3>3. Cardinality(Money!Under("allowed")') <= Cardinality(Money!Under("allowed")) /\ Cardinality(Money!Under("allowed")') \in Nat
      <4>1. Money!Under("allowed") \ {c} \subseteq Money!Under("allowed")
        OBVIOUS
      <4>2. IsFiniteSet(Money!Under("allowed") \ {c}) /\ Cardinality(Money!Under("allowed") \ {c}) <= Cardinality(Money!Under("allowed"))
        BY <4>1, MoneyUnderFacts, FS_Subset
      <4> QED BY <3>1, <4>2, FS_CardinalityType
    <3>4. Cardinality(Money!Under("allowed")') <= crowd'
      BY <2>1, <3>3, MoneyUnderFacts, MoneyFinite DEF Money!Admitted
    <3> QED BY <2>1, <3>1, <3>2, <3>4, MoneyFinite DEF Money!Admitted
  <2> QED BY <2>2, <2>3, <2>4
<1>4. ASSUME NEW w \in Sweepers, Money!Select(w) PROVE Money!IInv'
  <2> DEFINE S == {p \in Money!Rows : Status[p] \in {"past_due", "unpaid"}}
  <2>1. /\ overdue' = [overdue EXCEPT ![w] = S]
        /\ UNCHANGED <<held, delivered, day, caller, meter, crowd, notices, dunned, announcing>>
    BY <1>4 DEF Money!Select
  <2>2. S \subseteq delivered /\ S \subseteq Payloads
    <3>1. \A s \in Money!Subs : held[s] = Money!NoRow \/ held[s] \in delivered
      BY DEF Money!HeldIsNewest
    <3> QED BY <3>1 DEF Money!Rows, Money!TypeOK
  <2> HIDE DEF S
  <2>3. Money!TypeOK'
    BY <2>1, <2>2 DEF Money!TypeOK
  <2>4. Money!OneAnnouncer'
    BY <2>1, <2>2 DEF Money!OneAnnouncer, Money!TypeOK
  <2> QED BY <2>1, <2>3, <2>4 DEF Money!HeldIsNewest, Money!Admitted, Money!Under
<1>5. ASSUME NEW w \in Sweepers, Money!Record(w) PROVE Money!IInv'
  <2>1. PICK p \in overdue[w] :
           /\ overdue' = [overdue EXCEPT ![w] = overdue[w] \ {p}]
           /\ notices' = notices \union {<<Sub[p], i>> : i \in Money!Stage(p)}
           /\ announcing' = [announcing EXCEPT ![w] = {n \in {<<Sub[p], i>> : i \in Money!Stage(p)} : Money!IsNew(n)}]
    BY <1>5 DEF Money!Record, Money!TypeOK
  <2> DEFINE due == {<<Sub[p], i>> : i \in Money!Stage(p)}
             new == {n \in due : n \notin notices}
  <2>2. /\ announcing[w] = {} /\ p \in delivered /\ p \in Payloads
        /\ UNCHANGED <<held, delivered, day, caller, meter, crowd, dunned>>
    BY <1>5 DEF Money!Record, Money!OneAnnouncer, Money!TypeOK
  <2>3. due \subseteq Money!Subs \X Money!Stages /\ \A n \in due : n[1] = Sub[p] /\ day >= PaidTo[p] + Schedule[n[2]]
    BY <1>0, <2>2 DEF Money!Stage, Money!Reached
  <2>4. /\ notices' = notices \union due /\ announcing' = [announcing EXCEPT ![w] = new]
    BY <2>1 DEF Money!IsNew
  <2>5. new \subseteq due /\ \A n \in new : n \notin notices
    OBVIOUS
  <2> HIDE DEF due, new
  <2>6. Money!TypeOK'
    BY <2>1, <2>2, <2>3, <2>4, <2>5 DEF Money!TypeOK
  <2>7. /\ announcing'[w] = new /\ \A v \in Sweepers \ {w} : announcing'[v] = announcing[v]
        /\ \A v \in Sweepers : overdue'[v] \subseteq overdue[v]
    BY <2>1, <2>4 DEF Money!TypeOK
  <2>8. Money!OneAnnouncer'
    <3>1. \A v \in Sweepers : overdue'[v] \subseteq delivered'
      BY <2>2, <2>7 DEF Money!OneAnnouncer
    <3>2. \A n \in notices' : \E q \in delivered' : Sub[q] = n[1] /\ day' >= PaidTo[q] + Schedule[n[2]]
      BY <2>2, <2>3, <2>4 DEF Money!OneAnnouncer
    <3>3. \A n \in Money!Subs \X Money!Stages : dunned'[n] = 0 \/ (dunned'[n] = 1 /\ n \in notices')
      BY <2>2, <2>4 DEF Money!OneAnnouncer
    <3>4. \A n \in new : dunned[n] = 0 /\ \A v \in Sweepers : n \notin announcing[v]
      BY <2>3, <2>5 DEF Money!OneAnnouncer
    <3>5. ASSUME NEW v \in Sweepers, NEW n \in announcing'[v]
          PROVE  /\ n \in notices' /\ dunned'[n] = 0
                 /\ \A u \in Sweepers : n \in announcing'[u] => u = v
      BY <2>2, <2>4, <2>5, <2>7, <3>4, <3>5 DEF Money!OneAnnouncer
    <3> QED BY <3>1, <3>2, <3>3, <3>5 DEF Money!OneAnnouncer
  <2> QED BY <2>2, <2>6, <2>8 DEF Money!HeldIsNewest, Money!Admitted, Money!Under
<1>6. ASSUME NEW w \in Sweepers, Money!Announce(w) PROVE Money!IInv'
  <2>1. PICK n \in announcing[w] : /\ dunned' = [dunned EXCEPT ![n] = dunned[n] + 1]
                                   /\ announcing' = [announcing EXCEPT ![w] = announcing[w] \ {n}]
    BY <1>6 DEF Money!Announce, Money!TypeOK
  <2>2. /\ UNCHANGED <<held, delivered, day, caller, meter, crowd, notices, overdue>>
        /\ n \in Money!Subs \X Money!Stages /\ dunned[n] = 0 /\ n \in notices
        /\ \A v \in Sweepers : n \in announcing[v] => v = w
    BY <1>6 DEF Money!Announce, Money!OneAnnouncer, Money!TypeOK
  <2>3. /\ dunned'[n] = 1 /\ \A m \in (Money!Subs \X Money!Stages) \ {n} : dunned'[m] = dunned[m]
        /\ dunned' \in [Money!Subs \X Money!Stages -> Nat]
    BY <2>1, <2>2 DEF Money!TypeOK
  <2>4. /\ announcing'[w] = announcing[w] \ {n} /\ \A v \in Sweepers \ {w} : announcing'[v] = announcing[v]
        /\ announcing' \in [Sweepers -> SUBSET (Money!Subs \X Money!Stages)]
    BY <2>1 DEF Money!TypeOK
  <2>5. Money!TypeOK'
    BY <2>2, <2>3, <2>4 DEF Money!TypeOK
  <2>6. Money!OneAnnouncer'
    <3>1. \A m \in Money!Subs \X Money!Stages : dunned'[m] = 0 \/ (dunned'[m] = 1 /\ m \in notices')
      BY <2>2, <2>3 DEF Money!OneAnnouncer
    <3>2. ASSUME NEW v \in Sweepers, NEW m \in announcing'[v]
          PROVE  /\ m \in notices' /\ dunned'[m] = 0
                 /\ \A u \in Sweepers : m \in announcing'[u] => u = v
      <4>1. m \in announcing[v] /\ m # n
        BY <2>2, <2>4, <3>2
      <4>2. m \in Money!Subs \X Money!Stages
        BY <4>1 DEF Money!TypeOK
      <4> QED BY <2>2, <2>3, <2>4, <4>1, <4>2 DEF Money!OneAnnouncer
    <3> QED BY <2>2, <3>1, <3>2 DEF Money!OneAnnouncer
  <2> QED BY <2>2, <2>5, <2>6 DEF Money!HeldIsNewest, Money!Admitted, Money!Under
<1>7. ASSUME NEW w \in Sweepers, Money!SweepDies(w) PROVE Money!IInv'
  <2>1. /\ overdue' = [overdue EXCEPT ![w] = {}] /\ announcing' = [announcing EXCEPT ![w] = {}]
        /\ UNCHANGED <<held, delivered, day, caller, meter, crowd, notices, dunned>>
    BY <1>7 DEF Money!SweepDies
  <2>2. Money!TypeOK'
    BY <2>1 DEF Money!TypeOK
  <2>3. \A v \in Sweepers : overdue'[v] \subseteq overdue[v] /\ announcing'[v] \subseteq announcing[v]
    BY <2>1 DEF Money!TypeOK
  <2>4. Money!OneAnnouncer'
    BY <2>1, <2>3 DEF Money!OneAnnouncer
  <2> QED BY <2>1, <2>2, <2>4 DEF Money!HeldIsNewest, Money!Admitted, Money!Under
<1>8. CASE Money!PassDay
  <2>1. /\ day \in Nat /\ day' = day + 1 /\ day' \in 0..LastDay
        /\ UNCHANGED <<held, delivered, caller, meter, crowd, notices, dunned, overdue, announcing>>
    BY <1>0, <1>8 DEF Money!PassDay, Money!TypeOK
  <2>2. Money!TypeOK'
    BY <2>1 DEF Money!TypeOK
  <2>3. ASSUME NEW n \in notices
        PROVE  \E p \in delivered : Sub[p] = n[1] /\ day' >= PaidTo[p] + Schedule[n[2]]
    <3>1. PICK p \in delivered : Sub[p] = n[1] /\ day >= PaidTo[p] + Schedule[n[2]]
      BY DEF Money!OneAnnouncer
    <3>2. PaidTo[p] \in Nat /\ Schedule[n[2]] \in Nat
      BY <1>0 DEF Money!TypeOK
    <3> QED BY <2>1, <3>1, <3>2
  <2>4. Money!OneAnnouncer'
    BY <2>1, <2>3 DEF Money!OneAnnouncer
  <2> QED BY <2>1, <2>2, <2>4 DEF Money!HeldIsNewest, Money!Admitted, Money!Under
<1>9. CASE UNCHANGED Money!vars
  BY <1>9 DEF Money!vars, Money!TypeOK, Money!HeldIsNewest, Money!Admitted, Money!Under,
       Money!OneAnnouncer
<1> QED BY <1>1, <1>2, <1>3, <1>4, <1>5, <1>6, <1>7, <1>8, <1>9 DEF Money!Next

\* Access ends with a subscription, the quota is passed by at most those under way, and
\* nobody is dunned twice.
LEMMA MoneyHolds == Money!Spec => []Money!Safety
<1>1. Money!IInv => Money!Safety
  <2> SUFFICES ASSUME Money!IInv PROVE Money!Safety
    OBVIOUS
  <2> USE DEF Money!IInv
  <2>0. Quota \in Nat /\ Money!NoRow \notin Payloads /\ \A p \in Payloads : Stamp[p] \in Nat /\ PaidTo[p] \in Nat /\ Sub[p] \in Money!Subs
    BY MoneySane DEF Money!Sane, Money!Subs
  <2>1. Money!CancellationHolds
    <3> SUFFICES ASSUME NEW p \in delivered, Status[p] = "canceled", day > PaidTo[p], Stamp[p] > 0,
                        \A q \in delivered \ {p} : Sub[q] = Sub[p] => Stamp[q] \in 1..(Stamp[p] - 1)
                 PROVE  ~Money!Grants(held[Sub[p]])
      BY DEF Money!CancellationHolds
    <3>1. p \in Payloads /\ Sub[p] \in Money!Subs /\ delivered \subseteq Payloads
      BY <2>0 DEF Money!TypeOK
    <3>2. \A q \in delivered : Sub[q] = Sub[p] => Stamp[q] > 0
      BY <2>0, <3>1
    <3>3. held[Sub[p]] \in delivered /\ Sub[held[Sub[p]]] = Sub[p] /\ Stamp[p] <= Stamp[held[Sub[p]]]
      BY <3>1, <3>2 DEF Money!HeldIsNewest
    <3>4. held[Sub[p]] = p
      <4> SUFFICES ASSUME held[Sub[p]] # p PROVE FALSE
        OBVIOUS
      <4>1. Stamp[held[Sub[p]]] \in 1..(Stamp[p] - 1)
        BY <3>3
      <4> QED BY <2>0, <3>1, <3>3, <4>1
    <3>5. day \in Nat /\ PaidTo[p] \in Nat
      BY <2>0, <3>1 DEF Money!TypeOK
    <3> QED BY <3>4, <3>5 DEF Money!Grants
  <2>2. Money!OverrunBounded
    BY <2>0, MoneyUnderFacts, MoneyFinite DEF Money!OverrunBounded, Money!Admitted
  <2>3. Money!DunnedOnce
    BY DEF Money!DunnedOnce, Money!OneAnnouncer
  <2> QED BY <2>1, <2>2, <2>3 DEF Money!Safety
<1> QED BY <1>1, MoneyInitHolds, MoneyStepHolds, PTL DEF Money!Spec

-----------------------------------------------------------------------------
(* Realtime                                                                *)

\* The block counts as FiniteSets does.
LEMMA LiveFinite ==
    \A S : (Live!IsFiniteSet(S) <=> IsFiniteSet(S)) /\ Live!Cardinality(S) = Cardinality(S)
BY DEF Live!IsFiniteSet, IsFiniteSet, Live!Cardinality, Cardinality

LEMMA LiveInitHolds == ASSUME Live!Init PROVE Live!IInv
<1> USE DEF Live!Init
<1>1. Live!TypeOK
  <2>1. 0 \in 0..LastId /\ 1 \in 1..(LastId + 1)
    BY LiveSane DEF Live!Sane
  <2>2. drains \in [Streams -> Seq(Live!Queries)]
    OBVIOUS
  <2> QED BY <2>1, <2>2 DEF Live!TypeOK, Live!Stages
<1>2. Live!Given /\ Live!CursorsSeen
  BY DEF Live!Given, Live!CursorsSeen
<1>3. Live!Connected /\ Live!UnderWay /\ Live!NoGap
  BY DEF Live!Connected, Live!UnderWay, Live!NoGap, Live!Missed
<1> QED BY <1>1, <1>2, <1>3 DEF Live!IInv

LEMMA LiveAdded ==
    ASSUME NEW S, NEW q \in Seq(S), NEW x \in S
    PROVE  /\ Append(q, x) \in Seq(S) /\ Append(q, x) # << >>
           /\ \A i \in DOMAIN Append(q, x) : Append(q, x)[i] = x \/ \E j \in DOMAIN q : Append(q, x)[i] = q[j]
<1>1. /\ Append(q, x) \in Seq(S) /\ Append(q, x) # << >>
      /\ \A i \in 1..Len(q) : Append(q, x)[i] = q[i]
      /\ Append(q, x)[Len(q) + 1] = x /\ Len(Append(q, x)) = Len(q) + 1
  OBVIOUS
<1> QED BY <1>1

LEMMA LiveTaken ==
    ASSUME NEW S, NEW q \in Seq(S), q # << >>
    PROVE  /\ Head(q) \in S /\ Tail(q) \in Seq(S) /\ 1 \in DOMAIN q /\ Head(q) = q[1]
           /\ \A i \in DOMAIN Tail(q) : \E j \in DOMAIN q : Tail(q)[i] = q[j]
<1>1. /\ Head(q) \in S /\ Tail(q) \in Seq(S) /\ 1 \in DOMAIN q /\ Head(q) = q[1]
      /\ Len(Tail(q)) = Len(q) - 1 /\ Len(q) \in Nat
      /\ \A i \in 1..(Len(q) - 1) : Tail(q)[i] = q[i + 1]
  OBVIOUS
<1>2. \A i \in DOMAIN Tail(q) : i + 1 \in DOMAIN q /\ Tail(q)[i] = q[i + 1]
  BY <1>1
<1> QED BY <1>1, <1>2

\* A step of one stream that reads and writes no event.
LEMMA LiveStreamStep ==
    ASSUME Live!IInv, NEW s \in Streams,
           UNCHANGED <<inserting, buffer, nextId, late, pruned, seenIds>>,
           stage' \in [Streams -> Live!Stages],
           closed' \subseteq Streams, checkedOut' \subseteq Streams, listed' \subseteq Streams,
           stalled' \subseteq Streams,
           cursor' \in [Streams -> 0..LastId], drains' \in [Streams -> Seq(Live!Queries)],
           signals' \in [Streams -> Nat],
           \A t \in Streams \ {s} :
               /\ stage'[t] = stage[t] /\ cursor'[t] = cursor[t] /\ drains'[t] = drains[t]
               /\ signals'[t] = signals[t]
               /\ t \in closed' <=> t \in closed
               /\ t \in checkedOut' <=> t \in checkedOut
               /\ t \in stalled' <=> t \in stalled,
           cursor'[s] \in seenIds \union {0},
           \A i \in DOMAIN drains'[s] : drains'[s][i].after \in seenIds \union {0},
           stage'[s] \in {"listen", "replay", "live"} /\ s \notin closed' => s \in checkedOut',
           /\ stage'[s] \in {"replay", "live"} /\ s \notin closed' /\ s \notin stalled'
           /\ drains'[s] = <<>> /\ signals'[s] = 0
           => Live!Missed = {}
    PROVE  Live!IInv'
<1> USE DEF Live!IInv
<1>1. Live!TypeOK'
  BY DEF Live!TypeOK
<1>2. Live!Given' /\ Live!NoGap'
  BY DEF Live!Given, Live!NoGap, Live!Missed
<1>3. Live!CursorsSeen'
  BY DEF Live!CursorsSeen
<1>4. Live!Connected'
  BY DEF Live!Connected
<1>5. Live!UnderWay'
  BY DEF Live!UnderWay, Live!Missed
<1> QED BY <1>1, <1>2, <1>3, <1>4, <1>5

LEMMA LiveStepHolds == ASSUME Live!IInv, [Live!Next]_(Live!vars) PROVE Live!IInv'
<1> USE DEF Live!IInv
<1>0. /\ LastId \in Nat /\ nextId \in Nat /\ buffer \subseteq Live!Ids /\ seenIds \subseteq Live!Ids /\ inserting \subseteq Live!Ids
      /\ Live!Ids \subseteq Nat /\ pruned \subseteq Live!Ids /\ late \subseteq Live!Ids
      /\ \A i \in Live!Ids : i >= 1 /\ i <= LastId
  BY LiveSane DEF Live!TypeOK, Live!Sane, Live!Ids
<1>1. CASE Live!Insert
  <2>1. /\ nextId \in Live!Ids /\ nextId' = nextId + 1 /\ inserting' = inserting \union {nextId}
        /\ UNCHANGED <<buffer, late, pruned, stage, closed, cursor, drains, signals,
                       checkedOut, seenIds, listed, stalled>>
    BY <1>1 DEF Live!Insert
  <2>2. Live!TypeOK'
    <3>1. nextId' \in 1..(LastId + 1)
      BY <1>0, <2>1
    <3> QED BY <2>1, <3>1 DEF Live!TypeOK
  <2>3. Live!Given'
    <3>1. \A e \in inserting' \union buffer' \union pruned' : e < nextId'
      <4>1. \A e \in inserting \union buffer \union pruned : e < nextId /\ e \in Nat
        BY <1>0 DEF Live!Given
      <4> QED BY <1>0, <2>1, <4>1
    <3>2. inserting' \intersect (buffer' \union pruned') = {}
      <4>1. nextId \notin buffer \union pruned
        BY <1>0 DEF Live!Given
      <4> QED BY <2>1, <4>1 DEF Live!Given
    <3> QED BY <2>1, <3>1, <3>2 DEF Live!Given
  <2>4. Live!CursorsSeen' /\ Live!Connected' /\ Live!UnderWay' /\ Live!NoGap'
    BY <2>1 DEF Live!CursorsSeen, Live!Connected, Live!UnderWay, Live!NoGap, Live!Missed
  <2> QED BY <2>2, <2>3, <2>4
<1>2. CASE Live!Prune
  <2>1. PICK e \in buffer : buffer' = buffer \ {e} /\ pruned' = pruned \union {e}
    BY <1>2 DEF Live!Prune
  <2>2. UNCHANGED <<inserting, nextId, late, stage, closed, cursor, drains, signals,
                    checkedOut, seenIds, listed, stalled>>
    BY <1>2 DEF Live!Prune
  <2>3. Live!TypeOK'
    BY <2>1, <2>2 DEF Live!TypeOK
  <2>4. Live!Given'
    BY <2>1, <2>2 DEF Live!Given
  <2>5. Live!Missed' \subseteq Live!Missed
    BY <2>1, <2>2 DEF Live!Missed
  <2>6. Live!CursorsSeen' /\ Live!Connected' /\ Live!UnderWay' /\ Live!NoGap'
    BY <2>2, <2>5 DEF Live!CursorsSeen, Live!Connected, Live!UnderWay, Live!NoGap
  <2> QED BY <2>3, <2>4, <2>6
<1>3. ASSUME NEW e \in Live!Ids, Live!Commit(e) PROVE Live!IInv'
  <2>1. /\ e \in inserting /\ inserting' = inserting \ {e} /\ buffer' = buffer \union {e}
        /\ late' = IF \E f \in buffer \union pruned : f > e THEN late \union {e} ELSE late
        /\ signals' = [s \in Streams |-> signals[s] + IF Live!Hears(s) THEN 1 ELSE 0]
        /\ UNCHANGED <<nextId, pruned, stage, closed, cursor, drains, checkedOut, seenIds, listed, stalled>>
    BY <1>3 DEF Live!Commit
  <2>2. \A s \in Streams : /\ signals[s] \in Nat /\ signals'[s] \in Nat
                           /\ Live!Hears(s) => signals'[s] # 0
                           /\ ~Live!Hears(s) => signals'[s] = signals[s]
    <3>1. \A s \in Streams : signals[s] \in Nat
      BY DEF Live!TypeOK
    <3>2. \A s \in Streams : signals'[s] = signals[s] + IF Live!Hears(s) THEN 1 ELSE 0
      BY <2>1
    <3> HIDE DEF Live!Hears
    <3> QED BY <3>1, <3>2
  <2>3. Live!TypeOK'
    <3>1. signals' \in [Streams -> Nat]
      BY <2>1, <2>2
    <3> QED BY <2>1, <3>1 DEF Live!TypeOK
  <2>4. Live!Given'
    BY <2>1 DEF Live!Given
  <2>5. Live!CursorsSeen' /\ Live!Connected'
    BY <2>1 DEF Live!CursorsSeen, Live!Connected
  <2>6. Live!UnderWay'
    <3> SUFFICES ASSUME NEW s \in Streams \ stalled, stage[s] \in {"replay", "live"}, s \notin closed,
                        drains[s] = <<>>, signals'[s] = 0
                 PROVE  FALSE
      BY <2>1 DEF Live!UnderWay
    <3>1. Live!Hears(s)
      BY DEF Live!Connected, Live!Hears
    <3> QED BY <2>2, <3>1
  <2>7. Live!NoGap'
    <3> SUFFICES ASSUME NEW f \in Live!Missed', NEW i \in seenIds PROVE i < f
      BY <2>1 DEF Live!NoGap
    <3>1. CASE f = e
      <4>1. e \notin late'
        BY <3>1 DEF Live!Missed
      <4>2. \A g \in buffer \union pruned : ~(g > e) /\ g # e /\ g \in Nat
        BY <1>0, <2>1, <4>1 DEF Live!Given
      <4>3. i \in buffer \union pruned
        BY DEF Live!Given
      <4> QED BY <1>0, <2>1, <3>1, <4>2, <4>3
    <3>2. CASE f # e
      <4>1. f \in Live!Missed
        BY <2>1, <3>2 DEF Live!Missed
      <4> QED BY <4>1 DEF Live!NoGap
    <3> QED BY <3>1, <3>2
  <2> QED BY <2>3, <2>4, <2>5, <2>6, <2>7
<1>4. ASSUME NEW s \in Streams, Live!Subscribe(s) PROVE Live!IInv'
  <2>1. PICK id \in 0..LastId : Live!IsLast(id, seenIds, 0) /\ cursor' = [cursor EXCEPT ![s] = id]
    BY <1>4 DEF Live!Subscribe
  <2>2. /\ stage' = [stage EXCEPT ![s] = "connect"] /\ listed' = listed \union {s}
        /\ UNCHANGED <<inserting, buffer, nextId, late, pruned, seenIds, closed, drains, signals, checkedOut, stalled>>
    BY <1>4 DEF Live!Subscribe, Live!tableVars
  <2>3. /\ stage' \in [Streams -> Live!Stages] /\ stage'[s] = "connect"
        /\ cursor' \in [Streams -> 0..LastId] /\ cursor'[s] = id
        /\ \A t \in Streams \ {s} : stage'[t] = stage[t] /\ cursor'[t] = cursor[t]
    BY <2>1, <2>2 DEF Live!TypeOK, Live!Stages
  <2>4. id \in seenIds \union {0} /\ stage'[s] \notin {"listen", "replay", "live"} /\ stage'[s] \notin {"replay", "live"}
    BY <2>1, <2>3 DEF Live!IsLast
  <2>5. \A i \in DOMAIN drains[s] : drains[s][i].after \in seenIds \union {0}
    BY DEF Live!CursorsSeen
  <2>6. /\ closed' \subseteq Streams /\ checkedOut' \subseteq Streams /\ listed' \subseteq Streams
        /\ drains' \in [Streams -> Seq(Live!Queries)] /\ signals' \in [Streams -> Nat]
        /\ stalled' \subseteq Streams
    BY <2>2 DEF Live!TypeOK
  <2>7. \A t \in Streams \ {s} :
           /\ stage'[t] = stage[t] /\ cursor'[t] = cursor[t] /\ drains'[t] = drains[t]
           /\ signals'[t] = signals[t]
           /\ t \in closed' <=> t \in closed
           /\ t \in checkedOut' <=> t \in checkedOut
           /\ t \in stalled' <=> t \in stalled
    BY <2>2, <2>3
  <2>8. cursor'[s] \in seenIds \union {0}
        /\ \A i \in DOMAIN drains'[s] : drains'[s][i].after \in seenIds \union {0}
    BY <2>2, <2>3, <2>4, <2>5
  <2> QED BY <2>2, <2>3, <2>4, <2>6, <2>7, <2>8, LiveStreamStep
<1>5. ASSUME NEW s \in Streams, Live!Connect(s) PROVE Live!IInv'
  <2>1. /\ stage' = [stage EXCEPT ![s] = "listen"] /\ checkedOut' = checkedOut \union {s}
        /\ UNCHANGED <<inserting, buffer, nextId, late, pruned, closed, cursor, drains, signals, seenIds, listed, stalled>>
    BY <1>5 DEF Live!Connect, Live!tableVars
  <2>2. /\ stage' \in [Streams -> Live!Stages] /\ stage'[s] = "listen"
        /\ \A t \in Streams \ {s} : stage'[t] = stage[t]
    BY <2>1 DEF Live!TypeOK, Live!Stages
  <2>3. cursor[s] \in seenIds \union {0} /\ \A i \in DOMAIN drains[s] : drains[s][i].after \in seenIds \union {0}
    BY DEF Live!CursorsSeen
  <2> QED BY <2>1, <2>2, <2>3, LiveStreamStep DEF Live!TypeOK
<1>6. ASSUME NEW s \in Streams, Live!Listen(s) PROVE Live!IInv'
  <2>1. /\ s \in checkedOut /\ stage' = [stage EXCEPT ![s] = "replay"]
        /\ drains' = [drains EXCEPT ![s] = IF s \in closed THEN <<>> ELSE <<Live!Query(cursor[s], TRUE)>>]
        /\ UNCHANGED <<inserting, buffer, nextId, late, pruned, closed, cursor, signals, checkedOut, seenIds, listed, stalled>>
    BY <1>6 DEF Live!Listen, Live!tableVars
  <2>2. /\ stage' \in [Streams -> Live!Stages] /\ stage'[s] = "replay"
        /\ \A t \in Streams \ {s} : stage'[t] = stage[t]
    BY <2>1 DEF Live!TypeOK, Live!Stages
  <2>3. /\ cursor[s] \in seenIds \union {0} /\ Live!Query(cursor[s], TRUE) \in Live!Queries
        /\ Live!Query(cursor[s], TRUE).after = cursor[s]
    BY DEF Live!CursorsSeen, Live!TypeOK, Live!Query, Live!Queries
  <2> DEFINE x == Live!Query(cursor[s], TRUE)
             q == IF s \in closed THEN <<>> ELSE <<x>>
  <2>4. /\ q \in Seq(Live!Queries) /\ (s \notin closed => q # <<>>)
        /\ \A i \in DOMAIN q : q[i].after \in seenIds \union {0}
    <3>1. CASE s \in closed
      BY <3>1
    <3>2. CASE s \notin closed
      <4>1. q = <<x>> /\ x \in Live!Queries /\ x.after \in seenIds \union {0}
        BY <2>3, <3>2
      <4> HIDE DEF q, x, Live!IInv
      <4> QED BY <4>1
    <3> QED BY <3>1, <3>2
  <2>5. drains' = [drains EXCEPT ![s] = q]
    BY <2>1
  <2> HIDE DEF q, x
  <2>6. /\ drains' \in [Streams -> Seq(Live!Queries)] /\ drains'[s] = q
        /\ \A t \in Streams \ {s} : drains'[t] = drains[t]
    BY <2>4, <2>5 DEF Live!TypeOK
  <2> QED BY <2>1, <2>2, <2>3, <2>4, <2>6, LiveStreamStep DEF Live!TypeOK
<1>7. ASSUME NEW s \in Streams, Live!Notified(s) PROVE Live!IInv'
  <2> DEFINE q == IF s \in closed THEN drains[s] ELSE Append(drains[s], Live!Query(cursor[s], FALSE))
  <2>1. /\ signals[s] > 0 /\ signals' = [signals EXCEPT ![s] = signals[s] - 1]
        /\ drains' = [drains EXCEPT ![s] = q]
        /\ UNCHANGED <<inserting, buffer, nextId, late, pruned, stage, closed, cursor, checkedOut, seenIds, listed, stalled>>
    BY <1>7 DEF Live!Notified, Live!tableVars
  <2> DEFINE x == Live!Query(cursor[s], FALSE)
  <2>2. /\ x.after \in seenIds \union {0} /\ x \in Live!Queries
        /\ drains[s] \in Seq(Live!Queries) /\ \A i \in DOMAIN drains[s] : drains[s][i].after \in seenIds \union {0}
    BY DEF Live!CursorsSeen, Live!TypeOK, Live!Query, Live!Queries
  <2>3. /\ q \in Seq(Live!Queries) /\ (s \notin closed => q # <<>>)
        /\ \A i \in DOMAIN q : q[i].after \in seenIds \union {0}
    <3>1. CASE s \in closed
      BY <2>2, <3>1
    <3>2. CASE s \notin closed
      <4>1. q = Append(drains[s], x)
        BY <3>2
      <4> HIDE DEF q, x, Live!IInv
      <4> QED BY <2>2, <4>1, LiveAdded
    <3> QED BY <3>1, <3>2
  <2> HIDE DEF q, x
  <2>4. /\ drains' \in [Streams -> Seq(Live!Queries)] /\ drains'[s] = q
        /\ \A t \in Streams \ {s} : drains'[t] = drains[t]
    BY <2>1, <2>3 DEF Live!TypeOK
  <2>5. /\ signals' \in [Streams -> Nat] /\ \A t \in Streams \ {s} : signals'[t] = signals[t]
    <3>1. signals[s] - 1 \in Nat
      BY <2>1 DEF Live!TypeOK
    <3> QED BY <2>1, <3>1 DEF Live!TypeOK
  <2>6. stage[s] \in {"listen", "replay", "live"} /\ s \notin closed => s \in checkedOut
    BY DEF Live!Connected
  <2>7. /\ stage' \in [Streams -> Live!Stages] /\ cursor' \in [Streams -> 0..LastId]
        /\ closed' \subseteq Streams /\ checkedOut' \subseteq Streams
        /\ listed' \subseteq Streams /\ stalled' \subseteq Streams
        /\ cursor'[s] \in seenIds \union {0}
    BY <2>1 DEF Live!TypeOK, Live!CursorsSeen
  <2>8. /\ \A i \in DOMAIN drains'[s] : drains'[s][i].after \in seenIds \union {0}
        /\ s \in closed' \/ drains'[s] # <<>>
    BY <2>1, <2>3, <2>4
  <2> QED BY <2>1, <2>4, <2>5, <2>6, <2>7, <2>8, LiveStreamStep
<1>8. ASSUME NEW s \in Streams, Live!Drain(s) PROVE Live!IInv'
  <2>1. PICK S \in Live!Page(Head(drains[s]).after), id \in 0..LastId :
            /\ Live!IsLast(id, S, cursor[s]) /\ seenIds' = seenIds \union S
            /\ cursor' = [cursor EXCEPT ![s] = id]
            /\ drains' = [drains EXCEPT ![s] =
                   IF Cardinality(S) = DrainBatch
                   THEN Append(Tail(drains[s]), Live!Query(id, Head(drains[s]).replay)) ELSE Tail(drains[s])]
    BY <1>8, LiveFinite DEF Live!Drain
  <2>2. /\ drains[s] # <<>> /\ s \notin closed
        /\ UNCHANGED <<inserting, buffer, nextId, late, pruned, stage, closed, signals, checkedOut, listed>>
        /\ stalled' = stalled \ {s}
    BY <1>8 DEF Live!Drain, Live!tableVars
  <2> DEFINE c == Head(drains[s]).after
             x == Live!Query(id, Head(drains[s]).replay)
             q == IF Cardinality(S) = DrainBatch THEN Append(Tail(drains[s]), x) ELSE Tail(drains[s])
  <2>3. drains[s] \in Seq(Live!Queries) /\ \A i \in DOMAIN drains[s] : drains[s][i].after \in seenIds \union {0}
    BY DEF Live!TypeOK, Live!CursorsSeen
  <2>4. /\ c \in 0..LastId /\ c \in seenIds \union {0} /\ Tail(drains[s]) \in Seq(Live!Queries)
        /\ \A i \in DOMAIN Tail(drains[s]) : Tail(drains[s])[i].after \in seenIds \union {0}
        /\ x \in Live!Queries /\ x.after = id
    <3>1. /\ Head(drains[s]) \in Live!Queries /\ Head(drains[s]).after \in seenIds \union {0}
          /\ Tail(drains[s]) \in Seq(Live!Queries)
          /\ \A i \in DOMAIN Tail(drains[s]) : Tail(drains[s])[i].after \in seenIds \union {0}
      BY <2>2, <2>3, LiveTaken
    <3> QED BY <3>1 DEF Live!Queries, Live!Query
  <2>5. /\ S \subseteq buffer /\ \A e \in S : e > c
        /\ \A e \in S, f \in buffer \ S : f > c => e < f
        /\ Cardinality(S) = DrainBatch \/ S = {e \in buffer : e > c}
    BY LiveFinite DEF Live!Page, Live!AnyPage
  <2>6. id \in seenIds' \union {0}
    BY <2>1 DEF Live!IsLast, Live!CursorsSeen
  <2>7. /\ q \in Seq(Live!Queries) /\ \A i \in DOMAIN q : q[i].after \in seenIds' \union {0}
    <3>1. CASE Cardinality(S) = DrainBatch
      <4>1. q = Append(Tail(drains[s]), x)
        BY <3>1
      <4> DEFINE r == Tail(drains[s])
      <4>2. x.after \in seenIds' \union {0} /\ x \in Live!Queries /\ r \in Seq(Live!Queries) /\ \A i \in DOMAIN r : r[i].after \in seenIds' \union {0}
        BY <2>1, <2>4, <2>6
      <4>3. q = Append(r, x)
        BY <4>1
      <4> HIDE DEF q, r, x, Live!IInv
      <4> QED BY <4>2, <4>3, LiveAdded
    <3>2. CASE Cardinality(S) # DrainBatch
      BY <2>1, <2>4, <3>2
    <3> QED BY <3>1, <3>2
  <2>8. drains' = [drains EXCEPT ![s] = q]
    BY <2>1
  <2>9. Cardinality(S) # DrainBatch => q = Tail(drains[s])
    OBVIOUS
  <2>10. q = <<>> => Cardinality(S) # DrainBatch
    <3> SUFFICES ASSUME Cardinality(S) = DrainBatch PROVE q # <<>>
      OBVIOUS
    <3>1. q = Append(Tail(drains[s]), x)
      OBVIOUS
    <3> HIDE DEF q, x, Live!IInv
    <3> QED BY <2>4, <3>1, LiveAdded
  <2> HIDE DEF q
  <2>11. /\ drains' \in [Streams -> Seq(Live!Queries)] /\ drains'[s] = q
         /\ \A t \in Streams \ {s} : drains'[t] = drains[t]
         /\ cursor' \in [Streams -> 0..LastId] /\ cursor'[s] = id
         /\ \A t \in Streams \ {s} : cursor'[t] = cursor[t]
    BY <2>1, <2>7, <2>8 DEF Live!TypeOK
  <2>12. Live!TypeOK'
    <3>1. seenIds' \subseteq Live!Ids
      BY <1>0, <2>1, <2>5
    <3> QED BY <2>2, <2>11, <3>1 DEF Live!TypeOK
  <2>13. Live!Given'
    BY <2>1, <2>2, <2>5 DEF Live!Given
  <2>14. Live!CursorsSeen'
    <3> SUFFICES ASSUME NEW t \in Streams
                 PROVE  /\ cursor'[t] \in seenIds' \union {0}
                        /\ \A i \in DOMAIN drains'[t] : drains'[t][i].after \in seenIds' \union {0}
      BY DEF Live!CursorsSeen
    <3>1. CASE t = s
      BY <2>6, <2>7, <2>11, <3>1
    <3>2. CASE t # s
      BY <2>1, <2>11, <3>2 DEF Live!CursorsSeen
    <3> QED BY <3>1, <3>2
  <2>15. Live!Connected'
    BY <2>2 DEF Live!Connected
  <2>16. Live!Missed' \subseteq Live!Missed /\ \A e \in Live!Missed : e > c
    <3>1. Live!Missed' \subseteq Live!Missed
      BY <2>1, <2>2 DEF Live!Missed
    <3>2. \A e \in Live!Missed : e \in Live!Ids
      BY <1>0 DEF Live!Missed
    <3>3. \A e \in Live!Missed : \A i \in seenIds : i < e
      BY DEF Live!NoGap
    <3>4. \A e \in Live!Missed : e > 0 /\ \A i \in seenIds : e > i
      <4>1. Live!Ids \subseteq Nat /\ seenIds \subseteq Live!Ids /\ \A i \in Live!Ids : i >= 1
        BY <1>0
      <4>2. \A e \in Live!Ids : e > 0
        BY <4>1
      <4>3. \A e \in Live!Ids : \A i \in seenIds : i < e => e > i
        BY <4>1
      <4> HIDE DEF Live!Missed, Live!IInv, c
      <4> QED BY <3>2, <3>3, <4>2, <4>3
    <3>5. c = 0 \/ c \in seenIds
      BY <2>4
    <3> HIDE DEF c, Live!Missed, Live!IInv
    <3>6. \A e \in Live!Missed : e > c
      BY <3>4, <3>5
    <3> QED BY <3>1, <3>6
  <2>17. Live!NoGap'
    <3> SUFFICES ASSUME NEW e \in Live!Missed', NEW i \in seenIds' PROVE i < e
      BY DEF Live!NoGap
    <3>1. CASE i \in seenIds
      BY <2>16, <3>1 DEF Live!NoGap
    <3>2. CASE i \in S
      <4>1. e \in buffer \ S /\ e > c
        BY <2>1, <2>2, <2>16 DEF Live!Missed
      <4> QED BY <2>5, <3>2, <4>1
    <3> QED BY <2>1, <3>1, <3>2
  <2>18. Live!UnderWay'
    <3> SUFFICES ASSUME NEW t \in Streams \ stalled', stage[t] \in {"replay", "live"}, t \notin closed,
                        drains'[t] = <<>>, signals[t] = 0
                 PROVE  Live!Missed' = {}
      BY <2>2 DEF Live!UnderWay
    <3>1. CASE t = s
      <4>1. S = {e \in buffer : e > c}
        BY <2>5, <2>10, <2>11, <3>1
      <4>2. \A e \in Live!Missed' : e \in buffer /\ e \notin S
        BY <2>1, <2>2 DEF Live!Missed
      <4> QED BY <2>16, <4>1, <4>2
    <3>2. CASE t # s
      BY <2>2, <2>11, <2>16, <3>2 DEF Live!UnderWay
    <3> QED BY <3>1, <3>2
  <2> QED BY <2>12, <2>13, <2>14, <2>15, <2>17, <2>18
<1>9. ASSUME NEW s \in Streams, Live!GoLive(s) PROVE Live!IInv'
  <2>1. /\ stage[s] = "replay" /\ stage' = [stage EXCEPT ![s] = "live"]
        /\ UNCHANGED <<inserting, buffer, nextId, late, pruned, closed, cursor, drains, signals, checkedOut, seenIds, listed, stalled>>
    BY <1>9 DEF Live!GoLive, Live!tableVars
  <2>2. /\ stage' \in [Streams -> Live!Stages] /\ stage'[s] = "live"
        /\ \A t \in Streams \ {s} : stage'[t] = stage[t]
    BY <2>1 DEF Live!TypeOK, Live!Stages
  <2>3. /\ cursor[s] \in seenIds \union {0} /\ \A i \in DOMAIN drains[s] : drains[s][i].after \in seenIds \union {0}
        /\ s \notin closed => s \in checkedOut
        /\ s \notin closed /\ s \notin stalled /\ drains[s] = <<>> /\ signals[s] = 0 => Live!Missed = {}
    BY <2>1 DEF Live!CursorsSeen, Live!Connected, Live!UnderWay
  <2> QED BY <2>1, <2>2, <2>3, LiveStreamStep DEF Live!TypeOK
<1>10. ASSUME NEW s \in Streams, Live!Shutdown(s), listed' \subseteq listed,
              UNCHANGED <<inserting, buffer, nextId, late, pruned, stage, cursor, seenIds, stalled>>
       PROVE  Live!IInv'
  <2>1. /\ closed' = closed \union {s} /\ checkedOut' = checkedOut \ {s}
        /\ drains' = [drains EXCEPT ![s] = <<>>] /\ signals' = [signals EXCEPT ![s] = 0]
    BY <1>10 DEF Live!Shutdown
  <2>2. /\ drains' \in [Streams -> Seq(Live!Queries)] /\ drains'[s] = <<>>
        /\ signals' \in [Streams -> Nat]
        /\ \A t \in Streams \ {s} : drains'[t] = drains[t] /\ signals'[t] = signals[t]
    BY <2>1 DEF Live!TypeOK
  <2>3. /\ stage' \in [Streams -> Live!Stages]
        /\ closed' \subseteq Streams /\ checkedOut' \subseteq Streams /\ listed' \subseteq Streams
        /\ cursor' \in [Streams -> 0..LastId] /\ cursor'[s] \in seenIds \union {0}
        /\ stalled' \subseteq Streams
        /\ s \in closed' /\ \A t \in Streams \ {s} : (t \in closed' <=> t \in closed) /\ (t \in checkedOut' <=> t \in checkedOut)
    BY <1>10, <2>1 DEF Live!TypeOK, Live!CursorsSeen
  <2>4. \A i \in DOMAIN drains'[s] : drains'[s][i].after \in seenIds \union {0}
    BY <2>2
  <2> QED BY <1>10, <2>2, <2>3, <2>4, LiveStreamStep
<1>11. ASSUME NEW s \in Streams, Live!Disconnect(s) \/ Live!EndStream(s) PROVE Live!IInv'
  BY <1>10, <1>11 DEF Live!Disconnect, Live!EndStream, Live!tableVars
<1>12. ASSUME NEW s \in Streams, Live!Expire(s) PROVE Live!IInv'
  <2>1. listed' \subseteq listed /\ UNCHANGED <<inserting, buffer, nextId, late, pruned, stage, closed,
            cursor, drains, signals, checkedOut, seenIds, stalled>>
    BY <1>12 DEF Live!Expire, Live!tableVars
  <2> QED BY <2>1 DEF Live!TypeOK, Live!Given, Live!CursorsSeen, Live!Connected, Live!UnderWay,
       Live!NoGap, Live!Missed
<1>14. ASSUME NEW s \in Streams, Live!ConnectFails(s) PROVE Live!IInv'
  <2>1. /\ stage' = [stage EXCEPT ![s] = "over"] /\ closed' = closed \union {s}
        /\ UNCHANGED <<inserting, buffer, nextId, late, pruned, cursor, drains, signals, checkedOut, seenIds, listed, stalled>>
    BY <1>14 DEF Live!ConnectFails, Live!tableVars
  <2>2. /\ stage' \in [Streams -> Live!Stages] /\ stage'[s] = "over"
        /\ \A t \in Streams \ {s} : stage'[t] = stage[t]
    BY <2>1 DEF Live!TypeOK, Live!Stages
  <2>3. cursor[s] \in seenIds \union {0} /\ \A i \in DOMAIN drains[s] : drains[s][i].after \in seenIds \union {0}
    BY DEF Live!CursorsSeen
  <2> QED BY <2>1, <2>2, <2>3, LiveStreamStep DEF Live!TypeOK
<1>15. ASSUME NEW s \in Streams, Live!DrainFails(s) PROVE Live!IInv'
  <2>1. /\ drains[s] # <<>> /\ drains' = [drains EXCEPT ![s] = Tail(drains[s])]
        /\ stalled' = stalled \union {s}
        /\ UNCHANGED <<inserting, buffer, nextId, late, pruned, stage, closed, cursor, signals, checkedOut, seenIds, listed>>
    BY <1>15 DEF Live!DrainFails, Live!tableVars
  <2>2. /\ drains[s] \in Seq(Live!Queries) /\ cursor[s] \in seenIds \union {0}
        /\ \A i \in DOMAIN drains[s] : drains[s][i].after \in seenIds \union {0}
    BY DEF Live!TypeOK, Live!CursorsSeen
  <2>3. /\ Tail(drains[s]) \in Seq(Live!Queries)
        /\ \A i \in DOMAIN Tail(drains[s]) : Tail(drains[s])[i].after \in seenIds \union {0}
    BY <2>1, <2>2, LiveTaken
  <2>4. /\ drains' \in [Streams -> Seq(Live!Queries)] /\ drains'[s] = Tail(drains[s])
        /\ \A t \in Streams \ {s} : drains'[t] = drains[t]
        /\ stalled' \subseteq Streams /\ s \in stalled'
    BY <2>1, <2>3 DEF Live!TypeOK
  <2>5. stage[s] \in {"listen", "replay", "live"} /\ s \notin closed => s \in checkedOut
    BY DEF Live!Connected
  <2> QED BY <2>1, <2>2, <2>3, <2>4, <2>5, LiveStreamStep DEF Live!TypeOK
<1>13. CASE UNCHANGED Live!vars
  BY <1>13 DEF Live!vars, Live!TypeOK, Live!Given, Live!CursorsSeen, Live!Connected,
       Live!UnderWay, Live!NoGap, Live!Missed
<1> QED BY <1>1, <1>2, <1>3, <1>4, <1>5, <1>6, <1>7, <1>8, <1>9, <1>11, <1>12,
     <1>13, <1>14, <1>15 DEF Live!Next

\* No cursor passes an event that its client still misses, and an open stream at rest has caught
\* up if its last query succeeded.
LEMMA LiveHolds == Live!Spec => []Live!Safety
<1>1. Live!IInv => Live!Safety
  BY DEF Live!IInv, Live!Safety, Live!CaughtUp, Live!AtRest, Live!UnderWay
<1> QED BY <1>1, LiveInitHolds, LiveStepHolds, PTL DEF Live!Spec

-----------------------------------------------------------------------------
(* ApiEdge                                                                 *)

LEMMA EdgeStartFacts ==
    ASSUME NEW t \in 0..LastTime
    PROVE  /\ Edge!WindowStart(t) \in Edge!Starts /\ Edge!WindowStart(t) \in 0..t
           /\ t < Edge!WindowStart(t) + WindowLen
<1>1. t \in Nat /\ WindowLen \in Nat /\ WindowLen > 0
  BY EdgeSane DEF Edge!Sane
<1>2. t % WindowLen \in 0..(WindowLen - 1) /\ t % WindowLen <= t
  BY <1>1
<1> QED BY <1>1, <1>2 DEF Edge!WindowStart, Edge!Starts

LEMMA EdgeStartsAreTimes == Edge!Starts \subseteq 0..LastTime
<1> SUFFICES ASSUME NEW t \in 0..LastTime PROVE Edge!WindowStart(t) \in 0..LastTime
  BY DEF Edge!Starts
<1> QED BY EdgeStartFacts, EdgeSane DEF Edge!Sane

LEMMA EdgeFinite ==
    \A S : (Edge!IsFiniteSet(S) <=> IsFiniteSet(S)) /\ Edge!Cardinality(S) = Cardinality(S)
BY DEF Edge!IsFiniteSet, IsFiniteSet, Edge!Cardinality, Cardinality

\* What is taken of some requests is finite, and grows by one with one more.
LEMMA EdgeOf ==
    ASSUME NEW S \in SUBSET Requests, NEW w
    PROVE  /\ IsFiniteSet(Edge!Of(S, w)) /\ Cardinality(Edge!Of(S, w)) \in Nat
           /\ \A T \in SUBSET S : Cardinality(Edge!Of(T, w)) <= Cardinality(Edge!Of(S, w))
           /\ \A r \in Requests \ S :
                 Cardinality(Edge!Of(S \union {r}, w)) =
                     IF Edge!WindowOf(r) = w THEN Cardinality(Edge!Of(S, w)) + 1
                     ELSE Cardinality(Edge!Of(S, w))
<1>1. IsFiniteSet(Requests)
  BY EdgeSane, EdgeFinite DEF Edge!Sane
<1>2. IsFiniteSet(Edge!Of(S, w))
  BY <1>1, FS_Subset DEF Edge!Of
<1>3. Cardinality(Edge!Of(S, w)) \in Nat
  BY <1>2, FS_CardinalityType
<1>4. ASSUME NEW T \in SUBSET S PROVE Cardinality(Edge!Of(T, w)) <= Cardinality(Edge!Of(S, w))
  <2>1. Edge!Of(T, w) \subseteq Edge!Of(S, w)
    BY DEF Edge!Of
  <2> QED BY <1>2, <2>1, FS_Subset
<1>5. ASSUME NEW r \in Requests \ S
      PROVE  Cardinality(Edge!Of(S \union {r}, w)) =
                 IF Edge!WindowOf(r) = w THEN Cardinality(Edge!Of(S, w)) + 1
                 ELSE Cardinality(Edge!Of(S, w))
  <2>1. CASE Edge!WindowOf(r) = w
    <3>1. Edge!Of(S \union {r}, w) = Edge!Of(S, w) \union {r} /\ r \notin Edge!Of(S, w)
      BY <2>1 DEF Edge!Of
    <3> QED BY <1>2, <2>1, <3>1, FS_AddElement
  <2>2. CASE Edge!WindowOf(r) # w
    <3>1. Edge!Of(S \union {r}, w) = Edge!Of(S, w)
      BY <2>2 DEF Edge!Of
    <3> QED BY <2>2, <3>1
  <2> QED BY <2>1, <2>2
<1> QED BY <1>2, <1>3, <1>4, <1>5

LEMMA EdgeInitHolds == ASSUME Edge!Init PROVE Edge!IInv
<1> USE DEF Edge!Init
<1>0. RateLimit \in Nat /\ LastTime \in Nat
  BY EdgeSane DEF Edge!Sane
<1>1. Edge!TypeOK
  BY <1>0 DEF Edge!TypeOK
<1>2. Edge!InTime
  BY EdgeSane DEF Edge!InTime, Edge!Sane
<1>3. \A w : Edge!Cardinality(Edge!Of(passed, w)) = 0
  <2>1. \A w : Edge!Of(passed, w) = {}
    BY DEF Edge!Of
  <2> QED BY <2>1, EdgeFinite, FS_EmptySet
<1>4. Edge!CountsAll
  BY <1>0, <1>3 DEF Edge!CountsAll
<1>5. Edge!Accounts /\ Edge!RefusedWhenUsedUp /\ Edge!SweepSparesUse
  BY <1>0, <1>3 DEF Edge!Accounts, Edge!RefusedWhenUsedUp, Edge!SweepSparesUse, Edge!Answered
<1> QED BY <1>1, <1>2, <1>4, <1>5 DEF Edge!IInv

\* A step of a request that counts nothing: it gives up, or it answers what it was counted as.
LEMMA EdgeQuietStep ==
    ASSUME Edge!IInv, NEW r \in Requests, NEW a \in {"200", "429", "failed"},
           verify[r] \in {"found", "touch"}, verify' = [verify EXCEPT ![r] = a],
           UNCHANGED <<clock, key, windows, askedAt, passed, swept>>,
           a = "200" => r \in passed,
           a = "429" => /\ r \notin passed
                        /\ Edge!WindowOf(r) \notin swept =>
                              Edge!Cardinality(Edge!Of(passed, Edge!WindowOf(r))) = RateLimit
    PROVE  Edge!IInv'
<1> USE DEF Edge!IInv
<1>1. /\ verify'[r] = a /\ \A x \in Requests \ {r} : verify'[x] = verify[x]
      /\ verify' \in [Requests -> {"idle", "found", "touch", "200", "429", "401", "failed"}]
  BY DEF Edge!TypeOK
<1>2. Edge!TypeOK'
  BY <1>1 DEF Edge!TypeOK
<1>3. Edge!InTime'
  BY <1>1 DEF Edge!InTime
<1>4. \A x, S : Edge!WindowOf(x)' = Edge!WindowOf(x) /\ Edge!Of(passed, x)' = Edge!Of(passed, x)
  BY DEF Edge!WindowOf, Edge!WindowStart, Edge!Of
<1>5. \A w : Edge!InUse(w)' => Edge!InUse(w)
  BY <1>1, <1>4 DEF Edge!InUse
<1>6. Edge!CountsAll'
  BY <1>4, <1>5 DEF Edge!CountsAll
<1>7. /\ \A x \in Requests \ {r} : \A b : x \in Edge!Answered(b)' <=> x \in Edge!Answered(b)
      /\ \A b : r \in Edge!Answered(b)' <=> b = a
  BY <1>1 DEF Edge!Answered
<1>8. Edge!Accounts'
  <2>1. Edge!Answered("200")' \subseteq passed'
    BY <1>7 DEF Edge!Accounts, Edge!Answered
  <2>2. \A x \in Edge!Answered("touch")' : x \in passed' <=> Edge!Allows(1)
    BY <1>7 DEF Edge!Accounts, Edge!Answered
  <2>3. \A w \in Edge!Starts \ swept : Edge!Cardinality(Edge!Of(passed, w)) <= RateLimit
    BY DEF Edge!Accounts
  <2> QED BY <1>4, <2>1, <2>2, <2>3 DEF Edge!Accounts
<1>9. Edge!RefusedWhenUsedUp'
  <2>1. ASSUME NEW x \in Edge!Answered("429")', Edge!WindowOf(x) \notin swept
        PROVE  Edge!Cardinality(Edge!Of(passed, Edge!WindowOf(x))) = RateLimit
    <3>1. x \in Requests
      BY DEF Edge!Answered
    <3>2. CASE x = r
      BY <1>7, <2>1, <3>2
    <3>3. CASE x # r
      BY <1>7, <2>1, <3>1, <3>3 DEF Edge!RefusedWhenUsedUp
    <3> QED BY <3>2, <3>3
  <2>2. passed' \subseteq UNION {Edge!Answered(b)' : b \in {"touch", "200", "failed"}}
    <3> SUFFICES ASSUME NEW x \in passed
                 PROVE  \E b \in {"touch", "200", "failed"} : x \in Edge!Answered(b)'
      OBVIOUS
    <3>1. \E b \in {"touch", "200", "failed"} : x \in Edge!Answered(b)
      BY DEF Edge!RefusedWhenUsedUp
    <3> QED BY <1>7, <3>1 DEF Edge!Answered
  <2> QED BY <1>4, <2>1, <2>2 DEF Edge!RefusedWhenUsedUp
<1>10. Edge!SweepSparesUse'
  BY DEF Edge!SweepSparesUse
<1> QED BY <1>2, <1>3, <1>6, <1>8, <1>9, <1>10

LEMMA EdgeStepHolds == ASSUME Edge!IInv, [Edge!Next]_(Edge!vars) PROVE Edge!IInv'
<1> USE DEF Edge!IInv
<1>0. /\ RateLimit \in Nat /\ WindowLen \in Nat /\ Retention \in Nat /\ Slowest \in Nat /\ LastTime \in Nat
      /\ clock \in Nat /\ clock <= LastTime
  BY EdgeSane DEF Edge!Sane, Edge!TypeOK
<1>1. CASE Edge!CreateKey \/ Edge!RevokeKey \/ Edge!ExpireKey \/ UNCHANGED Edge!vars
  <2>1. UNCHANGED <<clock, windows, verify, askedAt, passed, swept>>
    BY <1>1 DEF Edge!CreateKey, Edge!RevokeKey, Edge!ExpireKey, Edge!vars
  <2>2. key' \in {"none", "active", "expired", "revoked"}
    BY <1>1 DEF Edge!CreateKey, Edge!RevokeKey, Edge!ExpireKey, Edge!vars, Edge!TypeOK
  <2>3. Edge!TypeOK'
    BY <2>1, <2>2 DEF Edge!TypeOK
  <2> QED BY <2>1, <2>3 DEF Edge!InTime, Edge!CountsAll, Edge!Accounts, Edge!RefusedWhenUsedUp,
       Edge!SweepSparesUse, Edge!InUse, Edge!Of, Edge!Answered, Edge!WindowOf, Edge!WindowStart
<1>2. ASSUME NEW r \in Requests, Edge!LookUp(r) PROVE Edge!IInv'
  <2>1. PICK a \in {"found", "401"} : verify' = [verify EXCEPT ![r] = a]
    BY <1>2 DEF Edge!LookUp
  <2>2. /\ verify[r] = "idle" /\ askedAt' = [askedAt EXCEPT ![r] = clock]
        /\ UNCHANGED <<clock, key, windows, passed, swept>>
    BY <1>2 DEF Edge!LookUp
  <2>3. Edge!TypeOK'
    BY <2>1, <2>2 DEF Edge!TypeOK
  <2>4. Edge!InTime'
    BY <1>0, <2>1, <2>2 DEF Edge!InTime, Edge!TypeOK
  <2>5. /\ verify'[r] = a /\ \A x \in Requests \ {r} : verify'[x] = verify[x]
        /\ askedAt'[r] = clock /\ \A x \in Requests \ {r} : askedAt'[x] = askedAt[x]
    BY <2>1, <2>2 DEF Edge!TypeOK
  <2>6. /\ \A x \in Requests \ {r} : Edge!WindowOf(x)' = Edge!WindowOf(x)
        /\ Edge!WindowOf(r)' = Edge!WindowStart(clock)
    BY <2>5 DEF Edge!WindowOf, Edge!WindowStart
  <2>7. r \notin passed /\ passed \subseteq Requests
    BY <2>2 DEF Edge!RefusedWhenUsedUp, Edge!Answered, Edge!TypeOK
  <2>8. \A w : Edge!Of(passed, w)' = Edge!Of(passed, w)
    BY <2>2, <2>6, <2>7 DEF Edge!Of
  <2>9. \A w : Edge!InUse(w)' => Edge!InUse(w)
    <3> SUFFICES ASSUME NEW w, NEW x \in Requests, verify'[x] = "found", Edge!WindowOf(x)' = w
                 PROVE  Edge!InUse(w)
      BY <2>2 DEF Edge!InUse
    <3>1. CASE x = r
      <4>1. clock < Edge!WindowStart(clock) + WindowLen
        BY <1>0, EdgeStartFacts
      <4> QED BY <2>6, <3>1, <4>1 DEF Edge!InUse
    <3>2. CASE x # r
      BY <2>5, <2>6, <3>2 DEF Edge!InUse
    <3> QED BY <3>1, <3>2
  <2>10. Edge!CountsAll'
    BY <2>2, <2>8, <2>9 DEF Edge!CountsAll
  <2>11. \A b \in {"200", "429", "touch", "failed"} : Edge!Answered(b)' = Edge!Answered(b) /\ r \notin Edge!Answered(b)
    BY <2>1, <2>2, <2>5 DEF Edge!Answered
  <2>12. Edge!Accounts'
    BY <2>2, <2>8, <2>11 DEF Edge!Accounts, Edge!Allows
  <2>13. Edge!RefusedWhenUsedUp'
    <3>1. \A x \in Edge!Answered("429") : Edge!WindowOf(x)' = Edge!WindowOf(x)
      BY <2>6, <2>11 DEF Edge!Answered
    <3>2. {Edge!Answered(b)' : b \in {"touch", "200", "failed"}} = {Edge!Answered(b) : b \in {"touch", "200", "failed"}}
      BY <2>11
    <3> QED BY <2>2, <2>8, <2>11, <3>1, <3>2 DEF Edge!RefusedWhenUsedUp
  <2>14. Edge!SweepSparesUse'
    BY <2>2 DEF Edge!SweepSparesUse
  <2> QED BY <2>3, <2>4, <2>10, <2>12, <2>13, <2>14
<1>3. ASSUME NEW r \in Requests, Edge!Count(r) PROVE Edge!IInv'
  <2> DEFINE w == Edge!WindowOf(r)
             n == windows[w] + 1
             p == IF Edge!Allows(n) THEN passed \union {r} ELSE passed
  <2>1. /\ verify[r] = "found" /\ windows' = [windows EXCEPT ![w] = n] /\ passed' = p
        /\ UNCHANGED <<clock, key, askedAt, swept>>
    BY <1>3 DEF Edge!Count
  <2>2. PICK a \in {IF n = 1 THEN "touch" ELSE Edge!Answer(n), "failed"} : verify' = [verify EXCEPT ![r] = a]
    BY <1>3 DEF Edge!Count
  <2>3. w \in Edge!Starts /\ Edge!InUse(w)
    <3>1. askedAt[r] \in 0..LastTime
      BY DEF Edge!TypeOK
    <3> QED BY <2>1, <3>1, EdgeStartFacts DEF Edge!WindowOf, Edge!InUse
  <2>4. windows[w] \in Nat /\ n \in Nat /\ n > 0
    BY <2>3 DEF Edge!TypeOK
  <2>5. r \notin passed /\ passed \subseteq Requests /\ p \subseteq Requests
    BY <2>1 DEF Edge!RefusedWhenUsedUp, Edge!Answered, Edge!TypeOK
  <2>6. /\ a \in {"touch", "200", "429", "failed"} /\ (a = "200" => n <= RateLimit)
        /\ (a = "429" => n > RateLimit) /\ (a = "touch" => n = 1) /\ (Edge!Allows(n) <=> n <= RateLimit)
    BY <1>0, <2>4 DEF Edge!Answer, Edge!Allows
  <2>7. /\ r \in p <=> n <= RateLimit
        /\ \A x \in Requests \ {r} : x \in p <=> x \in passed
    BY <2>5, <2>6
  <2>8. w \notin swept => Cardinality(Edge!Of(passed, w)) = IF windows[w] <= RateLimit THEN windows[w] ELSE RateLimit
    BY <2>3, EdgeFinite DEF Edge!CountsAll
  <2>9. w \notin swept => Cardinality(Edge!Of(p, w)) = IF n <= RateLimit THEN n ELSE RateLimit
    <3>1. CASE n <= RateLimit
      <4>1. p = passed \union {r}
        BY <2>6, <3>1
      <4>2. Cardinality(Edge!Of(passed \union {r}, w)) = Cardinality(Edge!Of(passed, w)) + 1
        BY <2>5, EdgeOf
      <4> HIDE DEF p, w
      <4> QED BY <1>0, <2>4, <2>8, <3>1, <4>1, <4>2
    <3>2. CASE n > RateLimit
      <4>1. p = passed
        BY <1>0, <2>4, <2>6, <3>2
      <4> HIDE DEF p, w
      <4> QED BY <1>0, <2>4, <2>8, <3>2, <4>1
    <3> QED BY <1>0, <2>4, <3>1, <3>2
  <2>10. \A x \in Edge!Starts \ {w} : Cardinality(Edge!Of(p, x)) = Cardinality(Edge!Of(passed, x))
    <3> SUFFICES ASSUME NEW x \in Edge!Starts \ {w}
                 PROVE  Edge!Of(p, x) = Edge!Of(passed, x)
      OBVIOUS
    <3> QED BY <2>5 DEF Edge!Of
  <2>11. \A x, y : Edge!WindowOf(x)' = Edge!WindowOf(x) /\ Edge!Of(passed, y)' = Edge!Of(p, y)
    BY <2>1 DEF Edge!WindowOf, Edge!WindowStart, Edge!Of
  <2> HIDE DEF p, n, w
  <2>12. /\ windows'[w] = n /\ \A x \in Edge!Starts \ {w} : windows'[x] = windows[x]
         /\ windows' \in [Edge!Starts -> Nat]
         /\ verify'[r] = a /\ \A x \in Requests \ {r} : verify'[x] = verify[x]
         /\ verify' \in [Requests -> {"idle", "found", "touch", "200", "429", "401", "failed"}]
    BY <2>1, <2>2, <2>3, <2>4, <2>6 DEF Edge!TypeOK
  <2>13. Edge!TypeOK'
    BY <2>1, <2>5, <2>12 DEF Edge!TypeOK
  <2>14. Edge!InTime'
    BY <2>1, <2>6, <2>12 DEF Edge!InTime
  <2>15. \A x : Edge!InUse(x)' => Edge!InUse(x)
    BY <2>1, <2>6, <2>11, <2>12 DEF Edge!InUse
  <2>16. Edge!CountsAll'
    <3> SUFFICES ASSUME NEW x \in Edge!Starts \ swept, Edge!InUse(x)
                 PROVE  Cardinality(Edge!Of(p, x)) = IF windows'[x] <= RateLimit THEN windows'[x] ELSE RateLimit
      BY <2>1, <2>11, <2>15, EdgeFinite DEF Edge!CountsAll
    <3>1. CASE x = w
      BY <2>9, <2>12, <3>1
    <3>2. CASE x # w
      <4>1. Cardinality(Edge!Of(passed, x)) = IF windows[x] <= RateLimit THEN windows[x] ELSE RateLimit
        BY EdgeFinite DEF Edge!CountsAll
      <4> QED BY <2>10, <2>12, <3>2, <4>1
    <3> QED BY <3>1, <3>2
  <2>17. /\ \A x \in Requests \ {r} : \A b : x \in Edge!Answered(b)' <=> x \in Edge!Answered(b)
         /\ \A b : r \in Edge!Answered(b)' <=> b = a
    BY <2>12 DEF Edge!Answered
  <2>18. Edge!Accounts'
    <3>1. Edge!Answered("200")' \subseteq passed'
      <4> SUFFICES ASSUME NEW x \in Edge!Answered("200")' PROVE x \in p
        BY <2>1
      <4> QED BY <2>6, <2>7, <2>17 DEF Edge!Accounts, Edge!Answered
    <3>2. \A x \in Edge!Answered("touch")' : x \in passed' <=> Edge!Allows(1)
      <4> SUFFICES ASSUME NEW x \in Edge!Answered("touch")' PROVE x \in p <=> Edge!Allows(1)
        BY <2>1 DEF Edge!Allows
      <4>1. CASE x = r
        BY <2>6, <2>7, <2>17, <4>1
      <4>2. CASE x # r
        BY <2>7, <2>17, <4>2 DEF Edge!Accounts, Edge!Answered
      <4> QED BY <4>1, <4>2
    <3>3. \A x \in Edge!Starts \ swept : Cardinality(Edge!Of(p, x)) <= RateLimit
      <4> SUFFICES ASSUME NEW x \in Edge!Starts \ swept PROVE Cardinality(Edge!Of(p, x)) <= RateLimit
        OBVIOUS
      <4>1. CASE x = w
        BY <1>0, <2>4, <2>9, <4>1
      <4>2. CASE x # w
        BY <2>10, <4>2, EdgeFinite DEF Edge!Accounts
      <4> QED BY <4>1, <4>2
    <3>4. \A x \in Edge!Starts \ swept : Edge!Cardinality(Edge!Of(passed, x)') <= RateLimit
      BY <2>11, <3>3, EdgeFinite
    <3> QED BY <2>1, <3>1, <3>2, <3>4 DEF Edge!Accounts
  <2>19. Edge!RefusedWhenUsedUp'
    <3>1. ASSUME NEW x \in Edge!Answered("429")', Edge!WindowOf(x) \notin swept
          PROVE  Cardinality(Edge!Of(p, Edge!WindowOf(x))) = RateLimit
      <4>0. x \in Requests
        BY DEF Edge!Answered
      <4>1. CASE x = r
        <5>1. n > RateLimit
          BY <2>6, <2>17, <3>1, <4>1
        <5> QED BY <1>0, <2>4, <2>9, <3>1, <4>1, <5>1 DEF w
      <4>2. CASE x # r
        <5>1. /\ x \in Edge!Answered("429") /\ Edge!WindowOf(x) \in Edge!Starts
              /\ Cardinality(Edge!Of(passed, Edge!WindowOf(x))) = RateLimit
          <6>1. x \in Edge!Answered("429") /\ askedAt[x] \in 0..LastTime
            BY <2>17, <3>1, <4>0, <4>2 DEF Edge!TypeOK
          <6> QED BY <3>1, <6>1, EdgeStartFacts, EdgeFinite DEF Edge!RefusedWhenUsedUp, Edge!WindowOf
        <5>2. CASE Edge!WindowOf(x) # w
          BY <2>10, <5>1, <5>2
        <5>3. CASE Edge!WindowOf(x) = w
          <6>1. n > RateLimit
            BY <1>0, <2>4, <2>8, <3>1, <5>1, <5>3 DEF n
          <6> QED BY <1>0, <2>4, <2>9, <3>1, <5>3, <6>1
        <5> QED BY <5>2, <5>3
      <4> QED BY <4>1, <4>2
    <3>2. passed' \subseteq UNION {Edge!Answered(b)' : b \in {"touch", "200", "failed"}}
      <4> SUFFICES ASSUME NEW x \in p
                   PROVE  \E b \in {"touch", "200", "failed"} : x \in Edge!Answered(b)'
        BY <2>1
      <4>1. CASE x = r
        BY <1>0, <2>4, <2>6, <2>7, <2>17, <4>1
      <4>2. CASE x # r
        <5>1. x \in passed /\ x \in Requests
          BY <2>5, <2>7, <4>2
        <5>2. \E b \in {"touch", "200", "failed"} : x \in Edge!Answered(b)
          BY <5>1 DEF Edge!RefusedWhenUsedUp
        <5> QED BY <2>17, <4>2, <5>1, <5>2
      <4> QED BY <4>1, <4>2
    <3>3. \A x \in Edge!Answered("429")' : Edge!WindowOf(x)' \notin swept' =>
              Edge!Cardinality(Edge!Of(passed, Edge!WindowOf(x))') = RateLimit
      <4> SUFFICES ASSUME NEW x \in Edge!Answered("429")', Edge!WindowOf(x)' \notin swept'
                   PROVE  Edge!Cardinality(Edge!Of(passed, Edge!WindowOf(x))') = RateLimit
        OBVIOUS
      <4>1. Edge!Of(passed, Edge!WindowOf(x))' = Edge!Of(p, Edge!WindowOf(x))
        BY <2>1, <2>11 DEF Edge!Of
      <4> QED BY <2>1, <2>11, <3>1, <4>1, EdgeFinite
    <3> QED BY <3>2, <3>3 DEF Edge!RefusedWhenUsedUp
  <2>20. Edge!SweepSparesUse'
    BY <2>1 DEF Edge!SweepSparesUse
  <2> QED BY <2>13, <2>14, <2>16, <2>18, <2>19, <2>20
<1>4. ASSUME NEW r \in Requests, Edge!Touch(r) PROVE Edge!IInv'
  <2>1. /\ verify[r] = "touch" /\ verify' = [verify EXCEPT ![r] = Edge!Answer(1)]
        /\ UNCHANGED <<clock, key, windows, askedAt, passed, swept>>
    BY <1>4 DEF Edge!Touch
  <2>2. r \in passed <=> Edge!Allows(1)
    BY <2>1 DEF Edge!Accounts, Edge!Answered
  <2>3. CASE Edge!Allows(1)
    BY <2>1, <2>2, <2>3, EdgeQuietStep DEF Edge!Answer
  <2>4. CASE ~ Edge!Allows(1)
    <3>1. RateLimit = 0
      BY <1>0, <2>4 DEF Edge!Allows
    <3>2. askedAt[r] \in 0..LastTime /\ passed \in SUBSET Requests
      BY DEF Edge!TypeOK
    <3>3. Edge!WindowOf(r) \in Edge!Starts
      BY <3>2, EdgeStartFacts DEF Edge!WindowOf
    <3>4. Edge!WindowOf(r) \notin swept => Edge!Cardinality(Edge!Of(passed, Edge!WindowOf(r))) = RateLimit
      <4>1. Cardinality(Edge!Of(passed, Edge!WindowOf(r))) \in Nat
        BY <3>2, EdgeOf
      <4> QED BY <3>1, <3>3, <4>1, EdgeFinite DEF Edge!Accounts
    <3>5. verify' = [verify EXCEPT ![r] = "429"]
      BY <2>1, <2>4 DEF Edge!Answer
    <3> QED BY <2>1, <2>2, <2>4, <3>4, <3>5, EdgeQuietStep
  <2> QED BY <2>3, <2>4
<1>5. ASSUME NEW r \in Requests, Edge!Fail(r) PROVE Edge!IInv'
  BY <1>5, EdgeQuietStep DEF Edge!Fail
<1>6. CASE Edge!Sweep
  <2>1. /\ windows' = [w \in Edge!Starts |-> IF w \in Edge!Prunable THEN 0 ELSE windows[w]]
        /\ swept' = swept \union {w \in Edge!Prunable : windows[w] > 0 /\ Edge!InUse(w)}
        /\ UNCHANGED <<clock, key, verify, askedAt, passed>>
    BY <1>6 DEF Edge!Sweep
  <2>2. windows' \in [Edge!Starts -> Nat] /\ swept' \subseteq Edge!Starts /\ swept \subseteq swept'
    BY <2>1 DEF Edge!TypeOK, Edge!Prunable
  <2>3. Edge!TypeOK'
    BY <2>1, <2>2 DEF Edge!TypeOK
  <2>4. Edge!InTime'
    BY <2>1 DEF Edge!InTime
  <2>5. \A x, y : /\ Edge!WindowOf(x)' = Edge!WindowOf(x) /\ Edge!Of(passed, y)' = Edge!Of(passed, y)
                  /\ Edge!InUse(y)' = Edge!InUse(y) /\ Edge!Answered(y)' = Edge!Answered(y)
    BY <2>1 DEF Edge!WindowOf, Edge!WindowStart, Edge!Of, Edge!InUse, Edge!Answered
  <2>6. Edge!CountsAll'
    <3> SUFFICES ASSUME NEW w \in Edge!Starts \ swept', Edge!InUse(w) PROVE windows'[w] = windows[w]
      BY <2>2, <2>5 DEF Edge!CountsAll
    <3>1. w \in Edge!Prunable => windows[w] = 0
      BY <2>1 DEF Edge!TypeOK
    <3> QED BY <2>1, <3>1
  <2>7. Edge!Accounts'
    BY <2>1, <2>2, <2>5 DEF Edge!Accounts, Edge!Allows
  <2>8. Edge!RefusedWhenUsedUp'
    <3>1. {Edge!Answered(b)' : b \in {"touch", "200", "failed"}} = {Edge!Answered(b) : b \in {"touch", "200", "failed"}}
      BY <2>5
    <3>2. \A x : Edge!Of(passed, Edge!WindowOf(x))' = Edge!Of(passed, Edge!WindowOf(x))
      BY <2>1 DEF Edge!WindowOf, Edge!WindowStart, Edge!Of
    <3> QED BY <2>1, <2>2, <2>5, <3>1, <3>2 DEF Edge!RefusedWhenUsedUp
  <2>9. Edge!SweepSparesUse'
    <3> SUFFICES ASSUME WindowLen + Slowest <= Retention + 1, NEW w \in Edge!Prunable, Edge!InUse(w)
                 PROVE  FALSE
      BY <2>1 DEF Edge!SweepSparesUse
    <3>1. w \in Nat /\ w + Retention < clock
      BY EdgeStartsAreTimes DEF Edge!Prunable
    <3>2. CASE clock < w + WindowLen
      <4>1. WindowLen <= Retention + 1
        BY <1>0
      <4> QED BY <1>0, <3>1, <3>2, <4>1
    <3>3. ASSUME NEW r \in Requests, verify[r] = "found", Edge!WindowOf(r) = w PROVE FALSE
      <4>1. askedAt[r] \in 0..LastTime /\ clock <= askedAt[r] + Slowest
        BY <3>3 DEF Edge!TypeOK, Edge!InTime
      <4>2. askedAt[r] < w + WindowLen
        BY <3>3, <4>1, EdgeStartFacts DEF Edge!WindowOf
      <4> QED BY <1>0, <3>1, <4>1, <4>2
    <3> QED BY <3>2, <3>3 DEF Edge!InUse
  <2> QED BY <2>3, <2>4, <2>6, <2>7, <2>8, <2>9
<1>7. CASE Edge!Tick
  <2>1. /\ clock < LastTime /\ clock' = clock + 1
        /\ \A r \in Requests : verify[r] = "found" => clock < askedAt[r] + Slowest
        /\ UNCHANGED <<key, windows, verify, askedAt, passed, swept>>
    BY <1>7 DEF Edge!Tick
  <2>2. Edge!TypeOK'
    BY <1>0, <2>1 DEF Edge!TypeOK
  <2>3. Edge!InTime'
    <3>1. \A r \in Requests : askedAt[r] \in Nat
      BY <1>0 DEF Edge!TypeOK
    <3> QED BY <1>0, <2>1, <3>1 DEF Edge!InTime
  <2>4. \A x, y : /\ Edge!WindowOf(x)' = Edge!WindowOf(x) /\ Edge!Of(passed, y)' = Edge!Of(passed, y)
                  /\ Edge!Answered(y)' = Edge!Answered(y)
    BY <2>1 DEF Edge!WindowOf, Edge!WindowStart, Edge!Of, Edge!Answered
  <2>5. \A w \in Edge!Starts : Edge!InUse(w)' => Edge!InUse(w)
    <3> SUFFICES ASSUME NEW w \in Edge!Starts, clock + 1 < w + WindowLen PROVE clock < w + WindowLen
      BY <2>1, <2>4 DEF Edge!InUse
    <3> QED BY <1>0, EdgeStartsAreTimes
  <2>6. Edge!CountsAll'
    BY <2>1, <2>4, <2>5 DEF Edge!CountsAll
  <2>7. Edge!Accounts' /\ Edge!SweepSparesUse'
    BY <2>1, <2>4 DEF Edge!Accounts, Edge!SweepSparesUse, Edge!Allows
  <2>8. Edge!RefusedWhenUsedUp'
    <3>1. {Edge!Answered(b)' : b \in {"touch", "200", "failed"}} = {Edge!Answered(b) : b \in {"touch", "200", "failed"}}
      BY <2>4
    <3>2. \A x : Edge!Of(passed, Edge!WindowOf(x))' = Edge!Of(passed, Edge!WindowOf(x))
      BY <2>1 DEF Edge!WindowOf, Edge!WindowStart, Edge!Of
    <3> QED BY <2>1, <2>4, <3>1, <3>2 DEF Edge!RefusedWhenUsedUp
  <2> QED BY <2>2, <2>3, <2>6, <2>7, <2>8
<1> QED BY <1>1, <1>2, <1>3, <1>4, <1>5, <1>6, <1>7 DEF Edge!Next

\* No window lets more through than its limit, none refuses before that, and the sweep leaves
\* windows in use alone if they end in time.
LEMMA EdgeHolds == Edge!Spec => []Edge!Safety
<1>1. ASSUME Edge!IInv PROVE Edge!Safety
  <2> USE DEF Edge!IInv
  <2>1. ASSUME NEW w \in Edge!Starts \ swept
        PROVE  Edge!Cardinality(Edge!Of(Edge!Answered("200"), w)) <= RateLimit
    <3>1. passed \in SUBSET Requests /\ Edge!Answered("200") \in SUBSET passed
      BY <1>1 DEF Edge!TypeOK, Edge!Accounts
    <3>2. /\ Cardinality(Edge!Of(Edge!Answered("200"), w)) <= Cardinality(Edge!Of(passed, w))
          /\ Cardinality(Edge!Of(passed, w)) \in Nat
      BY <3>1, EdgeOf
    <3>3. Edge!Answered("200") \in SUBSET Requests
      BY DEF Edge!Answered
    <3>4. Cardinality(Edge!Of(Edge!Answered("200"), w)) \in Nat
      BY <3>3, EdgeOf
    <3>5. Cardinality(Edge!Of(passed, w)) <= RateLimit
      BY <1>1, EdgeFinite DEF Edge!Accounts
    <3>6. RateLimit \in Nat
      BY EdgeSane DEF Edge!Sane
    <3> QED BY <3>2, <3>4, <3>5, <3>6, EdgeFinite
  <2> QED BY <1>1, <2>1 DEF Edge!Safety, Edge!WithinLimit
<1> QED BY <1>1, EdgeInitHolds, EdgeStepHolds, PTL DEF Edge!Spec

-----------------------------------------------------------------------------
(* EmbeddingFreshness                                                      *)

LEMMA VectorsFloorIsBelow ==
    ASSUME NEW t \in Int
    PROVE  Vectors!Floor(t) \in Int /\ Vectors!Floor(t) <= t
<1>1. t % Grain \in 0..(Grain - 1)
    BY VectorsSane DEF Vectors!Sane
<1> QED BY <1>1, VectorsSane DEF Vectors!Floor, Vectors!Sane

LEMMA VectorsAwayIsScan ==
    ASSUME now \in Nat
    PROVE  Vectors!IsScan(Vectors!Away) /\ DOMAIN Vectors!Nothing = {}
<1>1. DOMAIN Vectors!Nothing = {}
    BY DEF Vectors!Nothing
<1>2. /\ Vectors!Away.at = "idle" /\ Vectors!Away.mark = 0 /\ Vectors!Away.got = Vectors!Nothing /\ Vectors!Away.left = {}
      /\ DOMAIN Vectors!Away = {"at", "mark", "got", "left", "key"}
    BY DEF Vectors!Away
<1>3. \A k \in DOMAIN Vectors!Away.got : FALSE
    BY <1>1, <1>2
<1>4. Vectors!Away.got = Vectors!Nothing /\ DOMAIN Vectors!Away.got = {}
    BY <1>1, <1>2
<1> QED BY <1>1, <1>2, <1>3, <1>4 DEF Vectors!IsScan

LEMMA VectorsInitHolds == Vectors!Init => Vectors!IInv
<1> SUFFICES ASSUME Vectors!Init PROVE Vectors!IInv OBVIOUS
<1>1. Vectors!Shape
    BY DEF Vectors!Init, Vectors!Shape, Vectors!NoRow, Vectors!Pending
<1>2. Vectors!ScanShape
    <2>1. Vectors!IsScan(Vectors!Away)
        BY VectorsAwayIsScan DEF Vectors!Init
    <2> QED BY <2>1 DEF Vectors!Init, Vectors!ScanShape
<1>3. \A s \in Scans : embedder[s].at = "idle" /\ embedder[s].key = ""
    BY DEF Vectors!Init, Vectors!Away
<1>4. ASSUME NEW k \in SourceRows PROVE Vectors!KeyInv(k)
    <2>1. Vectors!Alone(k)
        BY <1>3 DEF Vectors!Alone
    <2>2. ~ Vectors!Due(k) /\ embedded[k] = vectors[k]
        BY DEF Vectors!Init, Vectors!Due, Vectors!Stale, Vectors!Mistaken, Vectors!Lost, Vectors!NoRow
    <2>3. \A s \in Scans : Vectors!Detected(s, k) /\ Vectors!Held(s, k)
        BY <1>3 DEF Vectors!Detected, Vectors!Held, Vectors!Embedding
    <2> QED BY <2>1, <2>2, <2>3 DEF Vectors!KeyInv
<1> QED BY <1>1, <1>2, <1>4 DEF Vectors!IInv

LEMMA VectorsScanStep ==
    ASSUME Vectors!Shape, Vectors!ScanShape, NEW s \in Scans, NEW r, Vectors!IsScan(r),
           embedder' = [embedder EXCEPT ![s] = r], UNCHANGED <<rows, open, now, deleted>>,
           watermark' \in Int, watermark' <= now, Vectors!Pending' \subseteq SourceRows,
           vectors' = [k \in SourceRows |-> vectors'[k]], embedded' = [k \in SourceRows |-> embedded'[k]],
           excused \subseteq excused', excused' \subseteq SourceRows
    PROVE  Vectors!Shape' /\ Vectors!ScanShape' /\ excused \subseteq excused'
<1>1. embedder' = [x \in Scans |-> IF x = s THEN r ELSE embedder[x]]
    BY DEF Vectors!ScanShape
<1>2. \A x \in Scans : Vectors!IsScan(embedder'[x])
    BY <1>1 DEF Vectors!ScanShape
<1>3. Vectors!ScanShape'
    BY <1>1, <1>2 DEF Vectors!ScanShape, Vectors!IsScan
<1>4. Vectors!Shape'
    BY DEF Vectors!Shape
<1> QED BY <1>3, <1>4

LEMMA VectorsShapeStep ==
    ASSUME Vectors!IInv, [Vectors!Next]_(Vectors!vars)
    PROVE  Vectors!Shape' /\ Vectors!ScanShape' /\ excused \subseteq excused'
<1>0. Vectors!Shape /\ Vectors!ScanShape
    BY DEF Vectors!IInv
<1>1. CASE Vectors!Begin
    <2>1. now' \in Nat /\ now <= now'
        BY <1>0, <1>1 DEF Vectors!Begin, Vectors!Shape
    <2>2. Vectors!Shape'
        <3>1. rows' \in [SourceRows -> [text : Texts \union {0}, at : 0..now']]
            <4>1. rows \in [SourceRows -> [text : Texts \union {0}, at : 0..now]]
                BY <1>0 DEF Vectors!Shape
            <4>2. 0..now \subseteq 0..now'
                BY <1>0, <2>1 DEF Vectors!Shape
            <4>3. [text : Texts \union {0}, at : 0..now]
                      \subseteq [text : Texts \union {0}, at : 0..now']
                BY <4>2
            <4> QED BY <4>1, <4>3, <1>1 DEF Vectors!Begin
        <3> QED BY <1>0, <1>1, <2>1, <3>1 DEF Vectors!Begin, Vectors!Shape, Vectors!Pending
    <2>3. Vectors!ScanShape'
        <3>1. ASSUME NEW s \in Scans PROVE Vectors!IsScan(embedder[s])'
            <4>1. \A k \in DOMAIN embedder[s].got :
                    embedder[s].got[k] \in [text : Texts \union {0}, at : 0..now']
                <5>1. 0..now \subseteq 0..now'
                    BY <1>0, <2>1 DEF Vectors!Shape
                <5>2. [text : Texts \union {0}, at : 0..now]
                          \subseteq [text : Texts \union {0}, at : 0..now']
                    BY <5>1
                <5>3. \A k \in DOMAIN embedder[s].got :
                        embedder[s].got[k] \in [text : Texts \union {0}, at : 0..now]
                    BY <1>0 DEF Vectors!ScanShape, Vectors!IsScan
                <5> QED BY <5>2, <5>3
            <4>2. embedder[s].mark \in Int /\ embedder[s].mark <= now'
                BY <1>0, <2>1 DEF Vectors!ScanShape, Vectors!IsScan, Vectors!Shape
            <4>3. embedder'[s] = embedder[s]
                BY <1>1 DEF Vectors!Begin
            <4> QED BY <1>0, <4>1, <4>2, <4>3 DEF Vectors!ScanShape, Vectors!IsScan
        <3> QED BY <1>0, <1>1, <3>1 DEF Vectors!Begin, Vectors!ScanShape
    <2> QED BY <1>1, <2>2, <2>3 DEF Vectors!Begin
<1>2. ASSUME NEW t \in open, NEW S \in SUBSET SourceRows, NEW text \in Texts \union {0},
             Vectors!Commit(t, S, text)
      PROVE  Vectors!Shape' /\ Vectors!ScanShape' /\ excused \subseteq excused'
    <2>1. rows' \in [SourceRows -> [text : Texts \union {0}, at : 0..now]]
        BY <1>0, <1>2 DEF Vectors!Commit, Vectors!Shape
    <2>2. excused' \subseteq SourceRows /\ excused \subseteq excused'
        BY <1>0, <1>2 DEF Vectors!Commit, Vectors!Shape
    <2>3. Vectors!Shape'
        BY <1>0, <1>2, <2>1, <2>2 DEF Vectors!Commit, Vectors!Shape, Vectors!Pending
    <2>4. Vectors!ScanShape'
        BY <1>0, <1>2 DEF Vectors!Commit, Vectors!ScanShape, Vectors!IsScan
    <2> QED BY <2>2, <2>3, <2>4
<1>3. ASSUME NEW s \in Scans, Vectors!Start(s)
      PROVE  Vectors!Shape' /\ Vectors!ScanShape' /\ excused \subseteq excused'
    <2> DEFINE r == [Vectors!Away EXCEPT !.at = "started", !.mark = watermark]
    <2>1. Vectors!IsScan(r)
        <3>1. /\ r.at = "started"
              /\ r.mark = watermark
              /\ r.got = Vectors!Nothing
              /\ r.left = {}
              /\ DOMAIN r = {"at", "mark", "got", "left", "key"}
            BY DEF Vectors!Away
        <3> HIDE DEF r
        <3>2. /\ DOMAIN r.got \subseteq SourceRows /\ r.mark \in Int /\ r.mark <= now
              /\ r.left \subseteq SourceRows /\ \A k \in DOMAIN r.got : FALSE
            BY <1>0, <3>1, VectorsAwayIsScan DEF Vectors!Shape
        <3> QED BY <3>1, <3>2 DEF Vectors!IsScan
    <2>2. embedder' = [embedder EXCEPT ![s] = r]
        BY <1>3 DEF Vectors!Start
    <2> HIDE DEF r
    <2>3. /\ Vectors!Pending' \subseteq SourceRows /\ excused \subseteq excused' /\ excused' \subseteq SourceRows
          /\ watermark' \in Int /\ watermark' <= now
          /\ vectors' = [x \in SourceRows |-> vectors'[x]] /\ embedded' = [x \in SourceRows |-> embedded'[x]]
        BY <1>0, <1>3 DEF Vectors!Start, Vectors!Shape, Vectors!Pending
    <2>4. UNCHANGED <<rows, open, now, deleted>>
        BY <1>3 DEF Vectors!Start
    <2> QED BY <1>0, <2>1, <2>2, <2>3, <2>4, VectorsScanStep
<1>4. ASSUME NEW s \in Scans, NEW S \in SUBSET SourceRows, Vectors!Candidates(s, S)
      PROVE  Vectors!Shape' /\ Vectors!ScanShape' /\ excused \subseteq excused'
    <2> DEFINE r == [embedder[s] EXCEPT !.at = IF S = {} THEN "process" ELSE "candidates",
                               !.got = [k \in S |-> rows[k]]]
    <2>1. Vectors!IsScan(r)
        <3>1. /\ r.at = (IF S = {} THEN "process" ELSE "candidates")
              /\ r.mark = embedder[s].mark
              /\ r.got = [k \in S |-> rows[k]]
              /\ r.left = embedder[s].left
              /\ DOMAIN r = {"at", "mark", "got", "left", "key"}
            BY <1>0 DEF Vectors!ScanShape, Vectors!IsScan
        <3>2. \A k0 \in SourceRows : rows[k0] \in [text : Texts \union {0}, at : 0..now]
            BY <1>0 DEF Vectors!Shape
        <3> HIDE DEF r
        <3>3. /\ DOMAIN r.got \subseteq SourceRows
              /\ \A k0 \in DOMAIN r.got : r.got[k0] \in [text : Texts \union {0}, at : 0..now]
            BY <1>0, <3>1, <3>2 DEF Vectors!ScanShape, Vectors!IsScan
        <3>4. r.mark \in Int /\ r.mark <= now /\ r.left \subseteq SourceRows
            BY <1>0, <3>1 DEF Vectors!ScanShape, Vectors!IsScan
        <3>5. r.at \in {"process", "candidates", "embedding"}
            BY <3>1
        <3> QED BY <3>1, <3>3, <3>4, <3>5 DEF Vectors!IsScan
    <2>2. embedder' = [embedder EXCEPT ![s] = r]
        BY <1>4 DEF Vectors!Candidates
    <2> HIDE DEF r
    <2>3. /\ Vectors!Pending' \subseteq SourceRows /\ excused \subseteq excused' /\ excused' \subseteq SourceRows
          /\ watermark' \in Int /\ watermark' <= now
          /\ vectors' = [x \in SourceRows |-> vectors'[x]] /\ embedded' = [x \in SourceRows |-> embedded'[x]]
        BY <1>0, <1>4 DEF Vectors!Candidates, Vectors!Shape, Vectors!Pending, Vectors!CutOff,
             Vectors!Later
    <2>4. UNCHANGED <<rows, open, now, deleted>>
        BY <1>4 DEF Vectors!Candidates
    <2> QED BY <1>0, <2>1, <2>2, <2>3, <2>4, VectorsScanStep
<1>5. ASSUME NEW s \in Scans, Vectors!Diff(s)
      PROVE  Vectors!Shape' /\ Vectors!ScanShape' /\ excused \subseteq excused'
    <2> DEFINE r == [embedder[s] EXCEPT !.at = "marking",
                    !.left = {k \in DOMAIN embedder[s].got : embedded[k] # embedder[s].got[k].text}]
    <2>1. Vectors!IsScan(r)
        <3>1. /\ r.at = "marking"
              /\ r.mark = embedder[s].mark
              /\ r.got = embedder[s].got
              /\ r.left = {k \in DOMAIN embedder[s].got : embedded[k] # embedder[s].got[k].text}
              /\ DOMAIN r = {"at", "mark", "got", "left", "key"}
            BY <1>0 DEF Vectors!ScanShape, Vectors!IsScan
        <3> HIDE DEF r
        <3> QED BY <1>0, <3>1 DEF Vectors!ScanShape, Vectors!IsScan
    <2>2. embedder' = [embedder EXCEPT ![s] = r]
        BY <1>5 DEF Vectors!Diff
    <2> HIDE DEF r
    <2>3. /\ Vectors!Pending' \subseteq SourceRows /\ excused \subseteq excused' /\ excused' \subseteq SourceRows
          /\ watermark' \in Int /\ watermark' <= now
          /\ vectors' = [x \in SourceRows |-> vectors'[x]] /\ embedded' = [x \in SourceRows |-> embedded'[x]]
        BY <1>0, <1>5 DEF Vectors!Diff, Vectors!Shape, Vectors!Pending
    <2>4. UNCHANGED <<rows, open, now, deleted>>
        BY <1>5 DEF Vectors!Diff
    <2> QED BY <1>0, <2>1, <2>2, <2>3, <2>4, VectorsScanStep
<1>6. ASSUME NEW s \in Scans, NEW k \in SourceRows, Vectors!Mark(s, k)
      PROVE  Vectors!Shape' /\ Vectors!ScanShape' /\ excused \subseteq excused'
    <2> DEFINE r == [embedder[s] EXCEPT !.left = embedder[s].left \ {k}]
    <2>1. Vectors!IsScan(r)
        <3>1. /\ r.at = embedder[s].at
              /\ r.mark = embedder[s].mark
              /\ r.got = embedder[s].got
              /\ r.left = embedder[s].left \ {k}
              /\ DOMAIN r = {"at", "mark", "got", "left", "key"}
            BY <1>0 DEF Vectors!ScanShape, Vectors!IsScan
        <3> HIDE DEF r
        <3> QED BY <1>0, <3>1 DEF Vectors!ScanShape, Vectors!IsScan
    <2>2. embedder' = [embedder EXCEPT ![s] = r]
        BY <1>6 DEF Vectors!Mark
    <2> HIDE DEF r
    <2>3. /\ Vectors!Pending' \subseteq SourceRows /\ excused \subseteq excused' /\ excused' \subseteq SourceRows
          /\ watermark' \in Int /\ watermark' <= now
          /\ vectors' = [x \in SourceRows |-> vectors'[x]] /\ embedded' = [x \in SourceRows |-> embedded'[x]]
        BY <1>0, <1>6 DEF Vectors!Mark, Vectors!Shape, Vectors!Pending
    <2>4. UNCHANGED <<rows, open, now, deleted>>
        BY <1>6 DEF Vectors!Mark
    <2> QED BY <1>0, <2>1, <2>2, <2>3, <2>4, VectorsScanStep
<1>7. ASSUME NEW s \in Scans, NEW mark \in 0..now, Vectors!Advance(s, mark)
      PROVE  Vectors!Shape' /\ Vectors!ScanShape' /\ excused \subseteq excused'
    <2> DEFINE r == [Vectors!Away EXCEPT !.at = "process"]
    <2>1. Vectors!IsScan(r)
        <3>1. /\ r.at = "process"
              /\ r.mark = 0
              /\ r.got = Vectors!Nothing
              /\ r.left = {}
              /\ DOMAIN r = {"at", "mark", "got", "left", "key"}
            BY DEF Vectors!Away
        <3> HIDE DEF r
        <3>2. /\ DOMAIN r.got \subseteq SourceRows /\ r.mark \in Int /\ r.mark <= now
              /\ r.left \subseteq SourceRows /\ \A k \in DOMAIN r.got : FALSE
            BY <1>0, <3>1, VectorsAwayIsScan DEF Vectors!Shape
        <3> QED BY <3>1, <3>2 DEF Vectors!IsScan
    <2>2. embedder' = [embedder EXCEPT ![s] = r]
        BY <1>7 DEF Vectors!Advance
    <2> HIDE DEF r
    <2>3. /\ Vectors!Pending' \subseteq SourceRows /\ excused \subseteq excused' /\ excused' \subseteq SourceRows
          /\ watermark' \in Int /\ watermark' <= now
          /\ vectors' = [x \in SourceRows |-> vectors'[x]] /\ embedded' = [x \in SourceRows |-> embedded'[x]]
        BY <1>0, <1>7 DEF Vectors!Advance, Vectors!Shape, Vectors!Pending
    <2>4. UNCHANGED <<rows, open, now, deleted>>
        BY <1>7 DEF Vectors!Advance
    <2> QED BY <1>0, <2>1, <2>2, <2>3, <2>4, VectorsScanStep
<1>8. ASSUME NEW s \in Scans, NEW S \in SUBSET SourceRows, Vectors!TakePending(s, S)
      PROVE  Vectors!Shape' /\ Vectors!ScanShape' /\ excused \subseteq excused'
    <2> DEFINE r == IF S = {} THEN Vectors!Away ELSE [Vectors!Away EXCEPT !.at = "taken", !.left = S]
    <2>1. Vectors!IsScan(r)
        <3>1. CASE S = {}
            BY <1>0, <3>1, VectorsAwayIsScan DEF Vectors!Shape
        <3>2. CASE S # {}
            <4>1. /\ r.at = "taken"
              /\ r.mark = 0
              /\ r.got = Vectors!Nothing
              /\ r.left = S
              /\ DOMAIN r = {"at", "mark", "got", "left", "key"}
                BY <3>2 DEF Vectors!Away
            <4> HIDE DEF r
            <4>2. /\ DOMAIN r.got \subseteq SourceRows /\ r.mark \in Int /\ r.mark <= now
                  /\ r.left \subseteq SourceRows /\ \A k \in DOMAIN r.got : FALSE
                BY <1>0, <4>1, VectorsAwayIsScan DEF Vectors!Shape
            <4> QED BY <4>1, <4>2 DEF Vectors!IsScan
        <3> QED BY <3>1, <3>2
    <2>2. embedder' = [embedder EXCEPT ![s] = r]
        BY <1>8 DEF Vectors!TakePending
    <2> HIDE DEF r
    <2>3. /\ Vectors!Pending' \subseteq SourceRows /\ excused \subseteq excused' /\ excused' \subseteq SourceRows
          /\ watermark' \in Int /\ watermark' <= now
          /\ vectors' = [x \in SourceRows |-> vectors'[x]] /\ embedded' = [x \in SourceRows |-> embedded'[x]]
        BY <1>0, <1>8 DEF Vectors!TakePending, Vectors!Shape, Vectors!Pending
    <2>4. UNCHANGED <<rows, open, now, deleted>>
        BY <1>8 DEF Vectors!TakePending
    <2> QED BY <1>0, <2>1, <2>2, <2>3, <2>4, VectorsScanStep
<1>9. ASSUME NEW s \in Scans, Vectors!ReadRows(s)
      PROVE  Vectors!Shape' /\ Vectors!ScanShape' /\ excused \subseteq excused'
    <2> DEFINE r == [embedder[s] EXCEPT !.at = "embedding",
                    !.left = {k \in embedder[s].left : rows[k].text # 0},
                    !.got = [k \in {x \in embedder[s].left : rows[x].text # 0} |-> rows[k]]]
    <2>1. Vectors!IsScan(r)
        <3>1. /\ r.at = "embedding"
              /\ r.mark = embedder[s].mark
              /\ r.got = [k \in {x \in embedder[s].left : rows[x].text # 0} |-> rows[k]]
              /\ r.left = {k \in embedder[s].left : rows[k].text # 0}
              /\ DOMAIN r = {"at", "mark", "got", "left", "key"}
            BY <1>0 DEF Vectors!ScanShape, Vectors!IsScan
        <3>2. \A k0 \in SourceRows : rows[k0] \in [text : Texts \union {0}, at : 0..now]
            BY <1>0 DEF Vectors!Shape
        <3> HIDE DEF r
        <3>3. /\ DOMAIN r.got \subseteq SourceRows
              /\ \A k0 \in DOMAIN r.got : r.got[k0] \in [text : Texts \union {0}, at : 0..now]
            BY <1>0, <3>1, <3>2 DEF Vectors!ScanShape, Vectors!IsScan
        <3>4. r.mark \in Int /\ r.mark <= now /\ r.left \subseteq SourceRows
            BY <1>0, <3>1 DEF Vectors!ScanShape, Vectors!IsScan
        <3>5. r.at \in {"process", "candidates", "embedding"}
            BY <3>1
        <3> QED BY <3>1, <3>3, <3>4, <3>5 DEF Vectors!IsScan
    <2>2. embedder' = [embedder EXCEPT ![s] = r]
        BY <1>9 DEF Vectors!ReadRows
    <2> HIDE DEF r
    <2>3. /\ Vectors!Pending' \subseteq SourceRows /\ excused \subseteq excused' /\ excused' \subseteq SourceRows
          /\ watermark' \in Int /\ watermark' <= now
          /\ vectors' = [x \in SourceRows |-> vectors'[x]] /\ embedded' = [x \in SourceRows |-> embedded'[x]]
        BY <1>0, <1>9 DEF Vectors!ReadRows, Vectors!Shape, Vectors!Pending
    <2>4. UNCHANGED <<rows, open, now, deleted>>
        BY <1>9 DEF Vectors!ReadRows
    <2> QED BY <1>0, <2>1, <2>2, <2>3, <2>4, VectorsScanStep
<1>10. ASSUME NEW s \in Scans, NEW k \in SourceRows, Vectors!SaveVector(s, k)
      PROVE  Vectors!Shape' /\ Vectors!ScanShape' /\ excused \subseteq excused'
    <2> DEFINE r == [embedder[s] EXCEPT !.at = "vector", !.key = k]
    <2>1. Vectors!IsScan(r)
        <3>1. /\ r.at = "vector"
              /\ r.mark = embedder[s].mark
              /\ r.got = embedder[s].got
              /\ r.left = embedder[s].left
              /\ DOMAIN r = {"at", "mark", "got", "left", "key"}
            BY <1>0 DEF Vectors!ScanShape, Vectors!IsScan
        <3> HIDE DEF r
        <3> QED BY <1>0, <3>1 DEF Vectors!ScanShape, Vectors!IsScan
    <2>2. embedder' = [embedder EXCEPT ![s] = r]
        BY <1>10 DEF Vectors!SaveVector
    <2> HIDE DEF r
    <2>3. /\ Vectors!Pending' \subseteq SourceRows /\ excused \subseteq excused' /\ excused' \subseteq SourceRows
          /\ watermark' \in Int /\ watermark' <= now
          /\ vectors' = [x \in SourceRows |-> vectors'[x]] /\ embedded' = [x \in SourceRows |-> embedded'[x]]
        BY <1>0, <1>10 DEF Vectors!SaveVector, Vectors!Shape, Vectors!Pending
    <2>4. UNCHANGED <<rows, open, now, deleted>>
        BY <1>10 DEF Vectors!SaveVector
    <2> QED BY <1>0, <2>1, <2>2, <2>3, <2>4, VectorsScanStep
<1>11. ASSUME NEW s \in Scans, NEW k \in SourceRows, Vectors!SaveState(s, k)
      PROVE  Vectors!Shape' /\ Vectors!ScanShape' /\ excused \subseteq excused'
    <2> DEFINE r == [embedder[s] EXCEPT !.at = "state"]
    <2>1. Vectors!IsScan(r)
        <3>1. /\ r.at = "state"
              /\ r.mark = embedder[s].mark
              /\ r.got = embedder[s].got
              /\ r.left = embedder[s].left
              /\ DOMAIN r = {"at", "mark", "got", "left", "key"}
            BY <1>0 DEF Vectors!ScanShape, Vectors!IsScan
        <3> HIDE DEF r
        <3> QED BY <1>0, <3>1 DEF Vectors!ScanShape, Vectors!IsScan
    <2>2. embedder' = [embedder EXCEPT ![s] = r]
        BY <1>11 DEF Vectors!SaveState
    <2> HIDE DEF r
    <2>3. /\ Vectors!Pending' \subseteq SourceRows /\ excused \subseteq excused' /\ excused' \subseteq SourceRows
          /\ watermark' \in Int /\ watermark' <= now
          /\ vectors' = [x \in SourceRows |-> vectors'[x]] /\ embedded' = [x \in SourceRows |-> embedded'[x]]
        BY <1>0, <1>11 DEF Vectors!SaveState, Vectors!Shape, Vectors!Pending
    <2>4. UNCHANGED <<rows, open, now, deleted>>
        BY <1>11 DEF Vectors!SaveState
    <2> QED BY <1>0, <2>1, <2>2, <2>3, <2>4, VectorsScanStep
<1>12. ASSUME NEW s \in Scans, NEW k \in SourceRows, Vectors!Unmark(s, k)
      PROVE  Vectors!Shape' /\ Vectors!ScanShape' /\ excused \subseteq excused'
    <2> DEFINE r == [embedder[s] EXCEPT !.at = "embedding", !.left = embedder[s].left \ {k}, !.key = ""]
    <2>1. Vectors!IsScan(r)
        <3>1. /\ r.at = "embedding"
              /\ r.mark = embedder[s].mark
              /\ r.got = embedder[s].got
              /\ r.left = embedder[s].left \ {k}
              /\ DOMAIN r = {"at", "mark", "got", "left", "key"}
            BY <1>0 DEF Vectors!ScanShape, Vectors!IsScan
        <3> HIDE DEF r
        <3> QED BY <1>0, <3>1 DEF Vectors!ScanShape, Vectors!IsScan
    <2>2. embedder' = [embedder EXCEPT ![s] = r]
        BY <1>12 DEF Vectors!Unmark
    <2> HIDE DEF r
    <2>3. /\ Vectors!Pending' \subseteq SourceRows /\ excused \subseteq excused' /\ excused' \subseteq SourceRows
          /\ watermark' \in Int /\ watermark' <= now
          /\ vectors' = [x \in SourceRows |-> vectors'[x]] /\ embedded' = [x \in SourceRows |-> embedded'[x]]
        BY <1>0, <1>12 DEF Vectors!Unmark, Vectors!Shape, Vectors!Pending
    <2>4. UNCHANGED <<rows, open, now, deleted>>
        BY <1>12 DEF Vectors!Unmark
    <2> QED BY <1>0, <2>1, <2>2, <2>3, <2>4, VectorsScanStep
<1>13. ASSUME NEW s \in Scans, Vectors!EndScan(s) \/ Vectors!Die(s)
      PROVE  Vectors!Shape' /\ Vectors!ScanShape' /\ excused \subseteq excused'
    <2>1. Vectors!IsScan(Vectors!Away)
        BY <1>0, VectorsAwayIsScan DEF Vectors!Shape
    <2>2. embedder' = [embedder EXCEPT ![s] = Vectors!Away]
        BY <1>13 DEF Vectors!EndScan, Vectors!Die
    <2>3. UNCHANGED <<rows, open, now, watermark, pending, vectors, embedded, deleted, excused>>
        BY <1>13 DEF Vectors!EndScan, Vectors!Die
    <2>4. /\ Vectors!Pending' \subseteq SourceRows /\ excused \subseteq excused' /\ excused' \subseteq SourceRows
          /\ watermark' \in Int /\ watermark' <= now
          /\ vectors' = [x \in SourceRows |-> vectors'[x]] /\ embedded' = [x \in SourceRows |-> embedded'[x]]
        BY <1>0, <2>3 DEF Vectors!Shape, Vectors!Pending
    <2> QED BY <1>0, <2>1, <2>2, <2>3, <2>4, VectorsScanStep
<1>14. CASE UNCHANGED Vectors!vars
    BY <1>0, <1>14 DEF Vectors!vars, Vectors!Shape, Vectors!ScanShape, Vectors!IsScan,
         Vectors!Pending
<1> QED
    BY <1>1, <1>2, <1>3, <1>4, <1>5, <1>6, <1>7, <1>8, <1>9, <1>10, <1>11, <1>12, <1>13, <1>14
    DEF Vectors!Next

\* While a key is not excused, the scan that takes a step is the one that runs.
LEMMA VectorsOthersIdle ==
    ASSUME Vectors!IInv, NEW k \in SourceRows \ excused, NEW s \in Scans, embedder[s].at # "idle"
    PROVE  \A x \in Scans \ {s} : embedder[x].at = "idle"
BY DEF Vectors!IInv, Vectors!KeyInv, Vectors!Alone

LEMMA VectorsOneScan ==
    ASSUME NEW k \in SourceRows, NEW s \in Scans,
           \A x \in Scans \ {s} : embedder'[x].at = "idle",
           embedder'[s].at \in {"started", "candidates", "marking"} => embedder'[s].mark = watermark',
           Vectors!Due(k)' => k \in Vectors!Pending' \/ rows'[k].at > watermark',
           embedded'[k] # vectors'[k] => k \in Vectors!Pending' \/ Vectors!Lost(k)',
           Vectors!Detected(s, k)', Vectors!Held(s, k)'
    PROVE  Vectors!KeyInv(k)'
<1>1. Vectors!Alone(k)'
    BY DEF Vectors!Alone
<1>2. ASSUME NEW x \in Scans \ {s}
      PROVE  Vectors!Detected(x, k)' /\ Vectors!Held(x, k)'
    BY <1>2 DEF Vectors!Detected, Vectors!Held, Vectors!Embedding
<1> QED BY <1>1, <1>2 DEF Vectors!KeyInv

LEMMA VectorsChanged ==
    ASSUME Vectors!ScanShape, NEW s \in Scans, NEW r, embedder' = [embedder EXCEPT ![s] = r]
    PROVE  embedder'[s] = r /\ \A x \in Scans \ {s} : embedder'[x] = embedder[x]
BY DEF Vectors!ScanShape

\* The invariant of a key that no scan may have missed is preserved by every step.
LEMMA VectorsKeyStep ==
    ASSUME Vectors!IInv, [Vectors!Next]_(Vectors!vars), NEW k \in SourceRows \ excused'
    PROVE  Vectors!KeyInv(k)'
<1>0. /\ k \in SourceRows \ excused /\ Vectors!Shape /\ Vectors!ScanShape /\ Vectors!KeyInv(k)
      /\ excused \subseteq excused' /\ Vectors!Shape' /\ Vectors!ScanShape'
    BY VectorsShapeStep DEF Vectors!IInv
<1>a. /\ rows[k].at \in 0..now /\ now \in Nat /\ watermark \in Int
      /\ \A x \in Scans : \A y \in DOMAIN embedder[x].got : y \in SourceRows /\ embedder[x].got[y].at \in Int
    BY <1>0 DEF Vectors!Shape, Vectors!ScanShape, Vectors!IsScan
<1>b. \A x \in Scans : DOMAIN embedder[x] = {"at", "mark", "got", "left", "key"}
    BY <1>0 DEF Vectors!ScanShape, Vectors!IsScan
<1>c. /\ Vectors!Away.at = "idle" /\ Vectors!Away.mark = 0 /\ Vectors!Away.left = {} /\ Vectors!Away.got = Vectors!Nothing
      /\ Vectors!Away.key = "" /\ DOMAIN Vectors!Away = {"at", "mark", "got", "left", "key"}
    BY DEF Vectors!Away
<1>d. embedder = [x \in Scans |-> embedder[x]]
    BY <1>0 DEF Vectors!ScanShape
<1>1. CASE Vectors!Begin
    BY <1>0, <1>1 DEF Vectors!Begin, Vectors!KeyInv, Vectors!Alone, Vectors!Due, Vectors!Stale, Vectors!Mistaken, Vectors!Lost,
         Vectors!Detected, Vectors!Held, Vectors!Beyond, Vectors!Embedding, Vectors!Pending
<1>2. ASSUME NEW t \in open, NEW S \in SUBSET SourceRows, NEW text \in Texts \union {0},
             Vectors!Commit(t, S, text)
      PROVE  Vectors!KeyInv(k)'
    <2>1. UNCHANGED <<watermark, pending, embedded, embedder>>
        BY <1>2 DEF Vectors!Commit
    <2>c. /\ vectors'[k] = vectors[k] \/ (vectors'[k] = 0 /\ k \in deleted')
          /\ deleted \subseteq deleted'
        BY <1>0, <1>2 DEF Vectors!Commit
    <2>2. CASE k \notin S
        <3>1. rows'[k] = rows[k] /\ vectors'[k] = vectors[k] /\ (k \in deleted' <=> k \in deleted)
            BY <1>0, <1>2, <2>2 DEF Vectors!Commit
        <3> QED BY <1>0, <2>1, <3>1
                DEF Vectors!KeyInv, Vectors!Alone, Vectors!Due, Vectors!Stale, Vectors!Mistaken, Vectors!Lost, Vectors!Detected, Vectors!Held, Vectors!Beyond, Vectors!Embedding, Vectors!Pending
    <2>3. CASE k \in S
        <3>1. rows'[k].at = t
            BY <1>0, <1>2, <2>3 DEF Vectors!Commit
        <3>2. ~ Vectors!Overtaken(t)
            BY <1>0, <1>2, <2>3 DEF Vectors!Commit
        <3>3. rows'[k].at > watermark
            BY <1>a, <1>0, <3>1, <3>2 DEF Vectors!Overtaken, Vectors!Shape
        <3>4. ASSUME NEW s \in Scans, embedder[s].at \in {"candidates", "marking"}
              PROVE  Vectors!Beyond(s, k)'
            <4>1. embedder[s].mark = watermark
                BY <1>0, <3>4 DEF Vectors!KeyInv, Vectors!Alone
            <4>2. Vectors!Floor(watermark) \in Int /\ Vectors!Floor(watermark) <= watermark
                BY <1>a, VectorsFloorIsBelow
            <4>3. rows'[k].at > Vectors!Floor(embedder[s].mark)
                BY <1>a, <1>0, <3>1, <3>3, <4>1, <4>2 DEF Vectors!Shape
            <4>4. ASSUME NEW x \in DOMAIN embedder[s].got
                  PROVE  rows'[k].at > Vectors!Floor(embedder[s].got[x].at)
                <5>1. t > embedder[s].got[x].at
                    BY <1>a, <1>0, <3>2, <3>4 DEF Vectors!Overtaken, Vectors!Shape
                <5>2. /\ Vectors!Floor(embedder[s].got[x].at) \in Int
                      /\ Vectors!Floor(embedder[s].got[x].at) <= embedder[s].got[x].at
                    BY <1>a, VectorsFloorIsBelow
                <5> QED BY <1>a, <1>0, <3>1, <5>1, <5>2 DEF Vectors!Shape
            <4> QED BY <2>1, <4>3, <4>4 DEF Vectors!Beyond, Vectors!Floor
        <3>5. ASSUME NEW s \in Scans PROVE Vectors!Detected(s, k)' /\ Vectors!Held(s, k)'
            <4>1. Vectors!Detected(s, k)'
                BY <2>1, <3>4 DEF Vectors!Detected
            <4>2. Vectors!Held(s, k)
                BY <1>0 DEF Vectors!KeyInv
            <4>3. Vectors!Held(s, k)'
                <5>1. rows'[k].text = 0 => Vectors!Lost(k)'
                    BY <1>0, <1>2, <2>3 DEF Vectors!Commit, Vectors!Lost
                <5>2. Vectors!Lost(k) => Vectors!Lost(k)'
                    BY <2>c DEF Vectors!Lost
                <5>3. vectors'[k] = vectors[k] \/ Vectors!Lost(k)'
                    BY <2>c DEF Vectors!Lost
                <5> QED BY <2>1, <3>3, <4>2, <5>1, <5>2, <5>3 DEF Vectors!Held, Vectors!Embedding, Vectors!Pending
            <4> QED BY <4>1, <4>3
        <3>6. Vectors!Alone(k)'
            BY <1>0, <2>1 DEF Vectors!KeyInv, Vectors!Alone
        <3>7. embedded'[k] # vectors'[k] => k \in Vectors!Pending' \/ Vectors!Lost(k)'
            BY <1>0, <2>1, <2>c DEF Vectors!KeyInv, Vectors!Pending, Vectors!Lost
        <3>8. Vectors!Due(k)' => k \in Vectors!Pending' \/ rows'[k].at > watermark'
            BY <2>1, <3>3
        <3> QED BY <3>5, <3>6, <3>7, <3>8 DEF Vectors!KeyInv
    <2> QED BY <2>2, <2>3
<1>3. ASSUME NEW s \in Scans, Vectors!Start(s)
      PROVE  Vectors!KeyInv(k)'
    <2>1. embedder'[s].at = "started" /\ embedder'[s].mark = watermark
        BY <1>b, <1>c, <1>d, <1>3 DEF Vectors!Start
    <2>2. \A x \in Scans \ {s} : embedder[x].at = "idle" /\ embedder'[x] = embedder[x]
        <3>1. excused' # SourceRows
            BY <1>0
        <3>2. \A x \in Scans \ {s} : embedder[x].at = "idle"
            BY <3>1, <1>3 DEF Vectors!Start
        <3> QED BY <1>0, <1>3, <1>d, <3>2 DEF Vectors!Start
    <2>3. UNCHANGED <<rows, watermark, pending, vectors, embedded, deleted>>
        BY <1>3 DEF Vectors!Start
    <2>4. embedder'[s].at \in {"started", "candidates", "marking"} => embedder'[s].mark = watermark'
        BY <1>0, <2>1, <2>3 DEF Vectors!KeyInv, Vectors!Alone
    <2>5. /\ Vectors!Due(k)' => k \in Vectors!Pending' \/ rows'[k].at > watermark'
          /\ embedded'[k] # vectors'[k] => k \in Vectors!Pending' \/ Vectors!Lost(k)'
        BY <1>0, <2>3 DEF Vectors!KeyInv, Vectors!Due, Vectors!Stale, Vectors!Mistaken, Vectors!Lost, Vectors!Pending
    <2>6. Vectors!Detected(s, k)'
        BY <2>1 DEF Vectors!Detected
    <2>7. Vectors!Held(s, k)'
        BY <2>1 DEF Vectors!Held, Vectors!Embedding, Vectors!Lost
    <2> QED BY <1>0, <2>1, <2>2, <2>3, <2>4, <2>5, <2>6, <2>7, VectorsOneScan
<1>4. ASSUME NEW s \in Scans, NEW S \in SUBSET SourceRows, Vectors!Candidates(s, S)
      PROVE  Vectors!KeyInv(k)'
    <2>1. /\ embedder[s].at = "started"
          /\ embedder'[s].at = IF S = {} THEN "process" ELSE "candidates"
          /\ embedder'[s].mark = embedder[s].mark /\ embedder'[s].got = [x \in S |-> rows[x]]
        BY <1>b, <1>c, <1>d, <1>4 DEF Vectors!Candidates
    <2>2. \A x \in Scans \ {s} : embedder[x].at = "idle" /\ embedder'[x] = embedder[x]
        BY <1>0, <1>4, <1>d, VectorsOthersIdle DEF Vectors!Candidates
    <2>3. UNCHANGED <<rows, watermark, pending, vectors, embedded, deleted>>
        BY <1>4 DEF Vectors!Candidates
    <2>4. embedder'[s].at \in {"started", "candidates", "marking"} => embedder'[s].mark = watermark'
        BY <1>0, <2>1, <2>3 DEF Vectors!KeyInv, Vectors!Alone
    <2>5. /\ Vectors!Due(k)' => k \in Vectors!Pending' \/ rows'[k].at > watermark'
          /\ embedded'[k] # vectors'[k] => k \in Vectors!Pending' \/ Vectors!Lost(k)'
        BY <1>0, <2>3 DEF Vectors!KeyInv, Vectors!Due, Vectors!Stale, Vectors!Mistaken, Vectors!Lost, Vectors!Pending
    <2>a. embedder[s].mark = watermark
        BY <1>0, <2>1 DEF Vectors!KeyInv, Vectors!Alone
    <2>6. Vectors!Detected(s, k)'
        <3>1. SUFFICES ASSUME embedder'[s].at = "candidates", Vectors!Due(k)', k \notin Vectors!Pending', k \notin S
                       PROVE  Vectors!Beyond(s, k)'
            BY <2>1, <2>3 DEF Vectors!Detected, Vectors!Due, Vectors!Stale, Vectors!Mistaken, Vectors!Lost
        <3>2. rows[k].at > watermark /\ rows[k].text # 0
            BY <1>0, <2>3, <3>1 DEF Vectors!KeyInv, Vectors!Due, Vectors!Stale, Vectors!Mistaken, Vectors!Lost, Vectors!Pending
        <3>3. k \in Vectors!Later(embedder[s].mark) \ S
            BY <1>0, <2>a, <3>1, <3>2 DEF Vectors!Later
        <3>4. k \notin Vectors!CutOff(S, embedder[s].mark)
            BY <1>0, <1>4 DEF Vectors!Candidates
        <3>5. ASSUME NEW x \in S PROVE rows[k].at > Vectors!Floor(rows[x].at)
            <4>1. rows[x].at \in Int
                BY <1>0 DEF Vectors!Shape
            <4>2. ~ (rows[k].at <= Vectors!Floor(rows[x].at))
                BY <3>3, <3>4 DEF Vectors!CutOff
            <4> QED BY <1>a, <4>1, <4>2, VectorsFloorIsBelow
        <3>6. rows[k].at > Vectors!Floor(embedder[s].mark)
            BY <1>a, <2>a, <3>2, VectorsFloorIsBelow
        <3>7. /\ rows'[k].at > Vectors!Floor(embedder'[s].mark)
              /\ \A x \in DOMAIN embedder'[s].got : rows'[k].at > Vectors!Floor(embedder'[s].got[x].at)
            BY <2>1, <2>3, <3>5, <3>6
        <3> QED BY <3>7 DEF Vectors!Beyond, Vectors!Floor
    <2>7. Vectors!Held(s, k)'
        BY <2>1 DEF Vectors!Held, Vectors!Embedding, Vectors!Lost
    <2> QED BY <1>0, <2>1, <2>2, <2>3, <2>4, <2>5, <2>6, <2>7, VectorsOneScan
<1>5. ASSUME NEW s \in Scans, Vectors!Diff(s)
      PROVE  Vectors!KeyInv(k)'
    <2>1. /\ embedder[s].at = "candidates" /\ embedder'[s].at = "marking"
          /\ embedder'[s].mark = embedder[s].mark /\ embedder'[s].got = embedder[s].got
          /\ embedder'[s].left = {x \in DOMAIN embedder[s].got : embedded[x] # embedder[s].got[x].text}
        BY <1>b, <1>c, <1>d, <1>5 DEF Vectors!Diff
    <2>2. \A x \in Scans \ {s} : embedder[x].at = "idle" /\ embedder'[x] = embedder[x]
        BY <1>0, <1>5, <1>d, VectorsOthersIdle DEF Vectors!Diff
    <2>3. UNCHANGED <<rows, watermark, pending, vectors, embedded, deleted>>
        BY <1>5 DEF Vectors!Diff
    <2>4. embedder'[s].at \in {"started", "candidates", "marking"} => embedder'[s].mark = watermark'
        BY <1>0, <2>1, <2>3 DEF Vectors!KeyInv, Vectors!Alone
    <2>5. /\ Vectors!Due(k)' => k \in Vectors!Pending' \/ rows'[k].at > watermark'
          /\ embedded'[k] # vectors'[k] => k \in Vectors!Pending' \/ Vectors!Lost(k)'
        BY <1>0, <2>3 DEF Vectors!KeyInv, Vectors!Due, Vectors!Stale, Vectors!Mistaken, Vectors!Lost, Vectors!Pending
    <2>6. Vectors!Detected(s, k)'
        <3>1. SUFFICES ASSUME Vectors!Due(k), k \notin Vectors!Pending, ~ Vectors!Beyond(s, k)
                       PROVE  k \in embedder'[s].left
            <4>1. Vectors!Beyond(s, k)' <=> Vectors!Beyond(s, k)
                BY <2>1, <2>3 DEF Vectors!Beyond, Vectors!Floor
            <4> QED BY <2>1, <2>3, <4>1 DEF Vectors!Detected, Vectors!Due, Vectors!Stale, Vectors!Mistaken, Vectors!Lost, Vectors!Pending
        <3>2. k \in DOMAIN embedder[s].got /\ embedder[s].got[k].text = rows[k].text
            BY <1>0, <2>1, <3>1 DEF Vectors!KeyInv, Vectors!Detected
        <3>3. (embedded[k] = vectors[k] \/ Vectors!Lost(k)) /\ vectors[k] # rows[k].text /\ ~ Vectors!Mistaken(k)
            BY <1>0, <3>1 DEF Vectors!KeyInv, Vectors!Due, Vectors!Stale, Vectors!Mistaken, Vectors!Lost
        <3> QED BY <2>1, <3>2, <3>3 DEF Vectors!Mistaken
    <2>7. Vectors!Held(s, k)'
        BY <2>1 DEF Vectors!Held, Vectors!Embedding, Vectors!Lost
    <2> QED BY <1>0, <2>1, <2>2, <2>3, <2>4, <2>5, <2>6, <2>7, VectorsOneScan
<1>6. ASSUME NEW s \in Scans, NEW x \in SourceRows, Vectors!Mark(s, x)
      PROVE  Vectors!KeyInv(k)'
    <2>1. /\ embedder[s].at = "marking" /\ embedder'[s].at = "marking"
          /\ embedder'[s].mark = embedder[s].mark /\ embedder'[s].got = embedder[s].got
          /\ embedder'[s].left = embedder[s].left \ {x}
        BY <1>b, <1>c, <1>d, <1>6 DEF Vectors!Mark
    <2>2. \A z \in Scans \ {s} : embedder[z].at = "idle" /\ embedder'[z] = embedder[z]
        BY <1>0, <1>6, <1>d, VectorsOthersIdle DEF Vectors!Mark
    <2>3. UNCHANGED <<rows, watermark, vectors, embedded, deleted>>
        BY <1>6 DEF Vectors!Mark
    <2>p. Vectors!Pending' = Vectors!Pending \union {x}
        BY <1>6 DEF Vectors!Mark, Vectors!Pending
    <2>4. embedder'[s].at \in {"started", "candidates", "marking"} => embedder'[s].mark = watermark'
        BY <1>0, <2>1, <2>3 DEF Vectors!KeyInv, Vectors!Alone
    <2>5. /\ Vectors!Due(k)' => k \in Vectors!Pending' \/ rows'[k].at > watermark'
          /\ embedded'[k] # vectors'[k] => k \in Vectors!Pending' \/ Vectors!Lost(k)'
        BY <1>0, <2>3, <2>p DEF Vectors!KeyInv, Vectors!Due, Vectors!Stale, Vectors!Mistaken, Vectors!Lost
    <2>6. Vectors!Detected(s, k)'
        <3>1. Vectors!Beyond(s, k)' <=> Vectors!Beyond(s, k)
            BY <2>1, <2>3 DEF Vectors!Beyond, Vectors!Floor
        <3> QED BY <1>0, <2>1, <2>3, <2>p, <3>1 DEF Vectors!KeyInv, Vectors!Detected,
             Vectors!Due, Vectors!Stale, Vectors!Mistaken, Vectors!Lost
    <2>7. Vectors!Held(s, k)'
        BY <2>1 DEF Vectors!Held, Vectors!Embedding, Vectors!Lost
    <2> QED BY <1>0, <2>1, <2>2, <2>3, <2>4, <2>5, <2>6, <2>7, VectorsOneScan
<1>7. ASSUME NEW s \in Scans, NEW mark \in 0..now, Vectors!Advance(s, mark)
      PROVE  Vectors!KeyInv(k)'
    <2>1. /\ embedder[s].at = "marking" /\ embedder[s].left = {} /\ embedder'[s].at = "process"
        BY <1>b, <1>c, <1>d, <1>7 DEF Vectors!Advance
    <2>2. \A z \in Scans \ {s} : embedder[z].at = "idle" /\ embedder'[z] = embedder[z]
        BY <1>0, <1>7, <1>d, VectorsOthersIdle DEF Vectors!Advance
    <2>3. UNCHANGED <<rows, pending, vectors, embedded, deleted>>
        BY <1>7 DEF Vectors!Advance
    <2>4. embedder'[s].at \in {"started", "candidates", "marking"} => embedder'[s].mark = watermark'
        BY <2>1
    <2>5. /\ Vectors!Due(k)' => k \in Vectors!Pending' \/ rows'[k].at > watermark'
          /\ embedded'[k] # vectors'[k] => k \in Vectors!Pending' \/ Vectors!Lost(k)'
        <3>1. embedded'[k] # vectors'[k] => k \in Vectors!Pending' \/ Vectors!Lost(k)'
            BY <1>0, <2>3 DEF Vectors!KeyInv, Vectors!Pending, Vectors!Lost
        <3>2. ASSUME Vectors!Due(k)', k \notin Vectors!Pending' PROVE rows'[k].at > watermark'
            <4>1. Vectors!Beyond(s, k)
                BY <1>0, <2>1, <2>3, <3>2 DEF Vectors!KeyInv, Vectors!Detected, Vectors!Due, Vectors!Stale, Vectors!Mistaken, Vectors!Lost,
                     Vectors!Pending
            <4>2. watermark' = mark /\ Vectors!IsNextMark(s, mark)
                BY <1>7 DEF Vectors!Advance
            <4>3. mark = Vectors!Floor(embedder[s].mark) \/ \E x \in DOMAIN embedder[s].got :
                                                              mark = Vectors!Floor(embedder[s].got[x].at)
                BY <4>2 DEF Vectors!IsNextMark
            <4> QED BY <2>3, <4>1, <4>2, <4>3 DEF Vectors!Beyond
        <3> QED BY <3>1, <3>2
    <2>6. Vectors!Detected(s, k)'
        BY <2>1 DEF Vectors!Detected
    <2>7. Vectors!Held(s, k)'
        BY <2>1 DEF Vectors!Held, Vectors!Embedding, Vectors!Lost
    <2> QED BY <1>0, <2>1, <2>2, <2>3, <2>4, <2>5, <2>6, <2>7, VectorsOneScan
<1>8. ASSUME NEW s \in Scans, NEW S \in SUBSET SourceRows, Vectors!TakePending(s, S)
      PROVE  Vectors!KeyInv(k)'
    <2>1. embedder'[s].at = "idle" \/ (embedder'[s].at = "taken" /\ embedder'[s].left = S)
        BY <1>b, <1>c, <1>d, <1>8 DEF Vectors!TakePending
    <2>2. \A z \in Scans \ {s} : embedder[z].at = "idle" /\ embedder'[z] = embedder[z]
        BY <1>0, <1>8, <1>d, VectorsOthersIdle DEF Vectors!TakePending
    <2>3. UNCHANGED <<rows, watermark, pending, vectors, embedded, deleted>>
        BY <1>8 DEF Vectors!TakePending
    <2>4. embedder'[s].at \in {"started", "candidates", "marking"} => embedder'[s].mark = watermark'
        BY <1>0, <2>1, <2>3 DEF Vectors!KeyInv, Vectors!Alone
    <2>5. /\ Vectors!Due(k)' => k \in Vectors!Pending' \/ rows'[k].at > watermark'
          /\ embedded'[k] # vectors'[k] => k \in Vectors!Pending' \/ Vectors!Lost(k)'
        BY <1>0, <2>3 DEF Vectors!KeyInv, Vectors!Due, Vectors!Stale, Vectors!Mistaken, Vectors!Lost, Vectors!Pending
    <2>6. Vectors!Detected(s, k)'
        BY <2>1 DEF Vectors!Detected
    <2>7. Vectors!Held(s, k)'
        <3>1. S \subseteq Vectors!Pending
            BY <1>8 DEF Vectors!TakePending
        <3> QED BY <2>1, <2>3, <3>1 DEF Vectors!Held, Vectors!Embedding, Vectors!Lost, Vectors!Pending
    <2> QED BY <1>0, <2>1, <2>2, <2>3, <2>4, <2>5, <2>6, <2>7, VectorsOneScan
<1>9. ASSUME NEW s \in Scans, Vectors!ReadRows(s)
      PROVE  Vectors!KeyInv(k)'
    <2>1. /\ embedder[s].at = "taken" /\ embedder'[s].at = "embedding"
          /\ embedder'[s].left = {x \in embedder[s].left : rows[x].text # 0}
          /\ embedder'[s].got = [x \in embedder'[s].left |-> rows[x]]
        BY <1>b, <1>c, <1>d, <1>9 DEF Vectors!ReadRows
    <2>2. \A z \in Scans \ {s} : embedder[z].at = "idle" /\ embedder'[z] = embedder[z]
        BY <1>0, <1>9, <1>d, VectorsOthersIdle DEF Vectors!ReadRows
    <2>3. UNCHANGED <<rows, watermark, pending, vectors, embedded, deleted>>
        BY <1>9 DEF Vectors!ReadRows
    <2>4. embedder'[s].at \in {"started", "candidates", "marking"} => embedder'[s].mark = watermark'
        BY <1>0, <2>1, <2>3 DEF Vectors!KeyInv, Vectors!Alone
    <2>5. /\ Vectors!Due(k)' => k \in Vectors!Pending' \/ rows'[k].at > watermark'
          /\ embedded'[k] # vectors'[k] => k \in Vectors!Pending' \/ Vectors!Lost(k)'
        BY <1>0, <2>3 DEF Vectors!KeyInv, Vectors!Due, Vectors!Stale, Vectors!Mistaken, Vectors!Lost, Vectors!Pending
    <2>6. Vectors!Detected(s, k)'
        BY <2>1 DEF Vectors!Detected
    <2>7. Vectors!Held(s, k)'
        <3>1. ASSUME k \in embedder'[s].left
              PROVE  k \in Vectors!Pending' /\ k \in DOMAIN embedder'[s].got /\ rows'[k].text = embedder'[s].got[k].text
            BY <1>0, <2>1, <2>3, <3>1 DEF Vectors!KeyInv, Vectors!Held, Vectors!Pending
        <3> QED BY <2>1, <3>1 DEF Vectors!Held, Vectors!Embedding, Vectors!Lost
    <2> QED BY <1>0, <2>1, <2>2, <2>3, <2>4, <2>5, <2>6, <2>7, VectorsOneScan
<1>10. ASSUME NEW s \in Scans, NEW x \in SourceRows, Vectors!SaveVector(s, x)
      PROVE  Vectors!KeyInv(k)'
    <2>1. /\ embedder[s].at = "embedding" /\ embedder'[s].at = "vector" /\ x \in embedder[s].left
          /\ embedder'[s].left = embedder[s].left /\ embedder'[s].got = embedder[s].got /\ embedder'[s].key = x
        BY <1>b, <1>c, <1>d, <1>10 DEF Vectors!SaveVector
    <2>2. \A z \in Scans \ {s} : embedder[z].at = "idle" /\ embedder'[z] = embedder[z]
        BY <1>0, <1>10, <1>d, VectorsOthersIdle DEF Vectors!SaveVector
    <2>3. UNCHANGED <<rows, watermark, pending, embedded, deleted>>
        BY <1>10 DEF Vectors!SaveVector
    <2>v. vectors'[k] = IF k = x /\ rows[k].text # 0 THEN embedder[s].got[k].text ELSE vectors[k]
        BY <1>0, <1>10 DEF Vectors!SaveVector, Vectors!Shape
    <2>h. Vectors!Held(s, k) /\ (x = k => k \in Vectors!Pending /\ k \in embedder[s].left)
        BY <1>0, <2>1 DEF Vectors!KeyInv, Vectors!Held, Vectors!Embedding, Vectors!Lost
    <2>4. embedder'[s].at \in {"started", "candidates", "marking"} => embedder'[s].mark = watermark'
        BY <2>1
    <2>5. /\ Vectors!Due(k)' => k \in Vectors!Pending' \/ rows'[k].at > watermark'
          /\ embedded'[k] # vectors'[k] => k \in Vectors!Pending' \/ Vectors!Lost(k)'
        BY <1>0, <2>3, <2>v, <2>h DEF Vectors!KeyInv, Vectors!Due, Vectors!Stale, Vectors!Mistaken, Vectors!Lost, Vectors!Pending
    <2>6. Vectors!Detected(s, k)'
        BY <2>1 DEF Vectors!Detected
    <2>7. Vectors!Held(s, k)'
        BY <2>1, <2>3, <2>v, <2>h DEF Vectors!Held, Vectors!Embedding, Vectors!Lost, Vectors!Pending
    <2> QED BY <1>0, <2>1, <2>2, <2>3, <2>4, <2>5, <2>6, <2>7, VectorsOneScan
<1>11. ASSUME NEW s \in Scans, NEW x \in SourceRows, Vectors!SaveState(s, x)
      PROVE  Vectors!KeyInv(k)'
    <2>1. /\ embedder[s].at = "vector" /\ embedder'[s].at = "state" /\ x = embedder[s].key
          /\ embedder'[s].left = embedder[s].left /\ embedder'[s].got = embedder[s].got
          /\ embedder'[s].key = embedder[s].key
        BY <1>b, <1>c, <1>d, <1>11 DEF Vectors!SaveState
    <2>2. \A z \in Scans \ {s} : embedder[z].at = "idle" /\ embedder'[z] = embedder[z]
        BY <1>0, <1>11, <1>d, VectorsOthersIdle DEF Vectors!SaveState
    <2>3. UNCHANGED <<rows, watermark, pending, vectors, deleted>>
        BY <1>11 DEF Vectors!SaveState
    <2>v. embedded'[k] = IF k = x THEN embedder[s].got[k].text ELSE embedded[k]
        BY <1>0, <1>11 DEF Vectors!SaveState, Vectors!Shape
    <2>h. Vectors!Held(s, k) /\ (x = k => k \in Vectors!Pending /\ k \in embedder[s].left)
        BY <1>0, <2>1 DEF Vectors!KeyInv, Vectors!Held, Vectors!Embedding, Vectors!Lost
    <2>4. embedder'[s].at \in {"started", "candidates", "marking"} => embedder'[s].mark = watermark'
        BY <2>1
    <2>5. /\ Vectors!Due(k)' => k \in Vectors!Pending' \/ rows'[k].at > watermark'
          /\ embedded'[k] # vectors'[k] => k \in Vectors!Pending' \/ Vectors!Lost(k)'
        BY <1>0, <2>3, <2>v, <2>h DEF Vectors!KeyInv, Vectors!Due, Vectors!Stale, Vectors!Mistaken, Vectors!Lost, Vectors!Pending
    <2>6. Vectors!Detected(s, k)'
        BY <2>1 DEF Vectors!Detected
    <2>7. Vectors!Held(s, k)'
        BY <2>1, <2>3, <2>v, <2>h DEF Vectors!Held, Vectors!Embedding, Vectors!Lost, Vectors!Pending
    <2> QED BY <1>0, <2>1, <2>2, <2>3, <2>4, <2>5, <2>6, <2>7, VectorsOneScan
<1>12. ASSUME NEW s \in Scans, NEW x \in SourceRows, Vectors!Unmark(s, x)
      PROVE  Vectors!KeyInv(k)'
    <2>1. /\ embedder[s].at = "state" /\ embedder'[s].at = "embedding" /\ x = embedder[s].key
          /\ embedder'[s].left = embedder[s].left \ {x} /\ embedder'[s].got = embedder[s].got
        BY <1>b, <1>c, <1>d, <1>12 DEF Vectors!Unmark
    <2>2. \A z \in Scans \ {s} : embedder[z].at = "idle" /\ embedder'[z] = embedder[z]
        BY <1>0, <1>12, <1>d, VectorsOthersIdle DEF Vectors!Unmark
    <2>3. UNCHANGED <<rows, watermark, vectors, embedded, deleted>>
        BY <1>12 DEF Vectors!Unmark
    <2>p. Vectors!Pending' = Vectors!Pending \ {x}
        BY <1>12 DEF Vectors!Unmark, Vectors!Pending
    <2>h. /\ Vectors!Held(s, k)
          /\ x = k => /\ vectors[k] = embedder[s].got[k].text \/ Vectors!Lost(k)
                      /\ embedded[k] = embedder[s].got[k].text
                      /\ rows[k].text \in {0, embedded[k]} \/ rows[k].at > watermark
        BY <1>0, <2>1 DEF Vectors!KeyInv, Vectors!Held, Vectors!Embedding, Vectors!Lost
    <2>4. embedder'[s].at \in {"started", "candidates", "marking"} => embedder'[s].mark = watermark'
        BY <2>1
    <2>5. /\ Vectors!Due(k)' => k \in Vectors!Pending' \/ rows'[k].at > watermark'
          /\ embedded'[k] # vectors'[k] => k \in Vectors!Pending' \/ Vectors!Lost(k)'
        BY <1>0, <2>3, <2>p, <2>h DEF Vectors!KeyInv, Vectors!Due, Vectors!Stale, Vectors!Mistaken, Vectors!Lost
    <2>6. Vectors!Detected(s, k)'
        BY <2>1 DEF Vectors!Detected
    <2>7. Vectors!Held(s, k)'
        BY <2>1, <2>3, <2>p, <2>h DEF Vectors!Held, Vectors!Embedding, Vectors!Lost
    <2> QED BY <1>0, <2>1, <2>2, <2>3, <2>4, <2>5, <2>6, <2>7, VectorsOneScan
<1>13. ASSUME NEW s \in Scans, Vectors!EndScan(s)
      PROVE  Vectors!KeyInv(k)'
    <2>1. embedder'[s].at = "idle"
        BY <1>b, <1>c, <1>d, <1>13 DEF Vectors!EndScan
    <2>2. \A z \in Scans \ {s} : embedder[z].at = "idle" /\ embedder'[z] = embedder[z]
        BY <1>0, <1>13, <1>d, VectorsOthersIdle DEF Vectors!EndScan
    <2>3. UNCHANGED <<rows, watermark, pending, vectors, embedded, deleted>>
        BY <1>13 DEF Vectors!EndScan
    <2>4. embedder'[s].at \in {"started", "candidates", "marking"} => embedder'[s].mark = watermark'
        BY <1>0, <2>1, <2>3 DEF Vectors!KeyInv, Vectors!Alone
    <2>5. /\ Vectors!Due(k)' => k \in Vectors!Pending' \/ rows'[k].at > watermark'
          /\ embedded'[k] # vectors'[k] => k \in Vectors!Pending' \/ Vectors!Lost(k)'
        BY <1>0, <2>3 DEF Vectors!KeyInv, Vectors!Due, Vectors!Stale, Vectors!Mistaken, Vectors!Lost, Vectors!Pending
    <2>6. Vectors!Detected(s, k)'
        BY <2>1 DEF Vectors!Detected
    <2>7. Vectors!Held(s, k)'
        BY <2>1 DEF Vectors!Held, Vectors!Embedding, Vectors!Lost
    <2> QED BY <1>0, <2>1, <2>2, <2>3, <2>4, <2>5, <2>6, <2>7, VectorsOneScan
<1>14. ASSUME NEW s \in Scans, Vectors!Die(s)
      PROVE  Vectors!KeyInv(k)'
    <2>1. embedder'[s].at = "idle"
        BY <1>b, <1>c, <1>d, <1>14 DEF Vectors!Die
    <2>2. \A z \in Scans \ {s} : embedder[z].at = "idle" /\ embedder'[z] = embedder[z]
        BY <1>0, <1>14, <1>d, VectorsOthersIdle DEF Vectors!Die
    <2>3. UNCHANGED <<rows, watermark, pending, vectors, embedded, deleted>>
        BY <1>14 DEF Vectors!Die
    <2>4. embedder'[s].at \in {"started", "candidates", "marking"} => embedder'[s].mark = watermark'
        BY <1>0, <2>1, <2>3 DEF Vectors!KeyInv, Vectors!Alone
    <2>5. /\ Vectors!Due(k)' => k \in Vectors!Pending' \/ rows'[k].at > watermark'
          /\ embedded'[k] # vectors'[k] => k \in Vectors!Pending' \/ Vectors!Lost(k)'
        BY <1>0, <2>3 DEF Vectors!KeyInv, Vectors!Due, Vectors!Stale, Vectors!Mistaken, Vectors!Lost, Vectors!Pending
    <2>6. Vectors!Detected(s, k)'
        BY <2>1 DEF Vectors!Detected
    <2>7. Vectors!Held(s, k)'
        BY <2>1 DEF Vectors!Held, Vectors!Embedding, Vectors!Lost
    <2> QED BY <1>0, <2>1, <2>2, <2>3, <2>4, <2>5, <2>6, <2>7, VectorsOneScan
<1>15. CASE UNCHANGED Vectors!vars
    BY <1>0, <1>15 DEF Vectors!vars, Vectors!KeyInv, Vectors!Alone, Vectors!Due, Vectors!Stale, Vectors!Mistaken, Vectors!Lost,
         Vectors!Detected, Vectors!Held, Vectors!Beyond, Vectors!Embedding, Vectors!Pending
<1> QED
    BY <1>1, <1>2, <1>3, <1>4, <1>5, <1>6, <1>7, <1>8, <1>9, <1>10, <1>11, <1>12, <1>13, <1>14,
         <1>15
    DEF Vectors!Next

LEMMA VectorsStepHolds == Vectors!IInv /\ [Vectors!Next]_(Vectors!vars) => Vectors!IInv'
<1> SUFFICES ASSUME Vectors!IInv, [Vectors!Next]_(Vectors!vars) PROVE Vectors!IInv' OBVIOUS
<1>1. Vectors!Shape' /\ Vectors!ScanShape'
    BY VectorsShapeStep
<1>2. \A k \in SourceRows \ excused' : Vectors!KeyInv(k)'
    BY VectorsKeyStep
<1> QED BY <1>1, <1>2 DEF Vectors!IInv

LEMMA VectorsIInvIsSafe == Vectors!IInv => Vectors!Safety
<1> SUFFICES ASSUME Vectors!IInv PROVE Vectors!Safety OBVIOUS
<1>1. Vectors!TypeOK
    BY DEF Vectors!IInv, Vectors!Shape, Vectors!ScanShape, Vectors!IsScan, Vectors!TypeOK
<1>2. Vectors!Fresh /\ Vectors!HashHeals
    BY DEF Vectors!IInv, Vectors!KeyInv, Vectors!Fresh, Vectors!HashHeals
<1> QED BY <1>1, <1>2 DEF Vectors!Safety

\* A vector that is out of date is pending, or the watermark has still to reach its row, and
\* a hash that is not the vector's is pending: for every number of rows, batch size and
\* fineness of the clock.
LEMMA VectorsHolds == Vectors!Spec => []Vectors!Safety
<1> QED BY VectorsInitHolds, VectorsStepHolds, VectorsIInvIsSafe, PTL DEF Vectors!Spec

-----------------------------------------------------------------------------
(* Migrations                                                              *)

LEMMA SchemaInitHolds == ASSUME Schema!Sane, Schema!Init PROVE Schema!IInv
<1>1. Schema!Shape
  BY DEF Schema!Init, Schema!Shape, Schema!Cold, Schema!Record, Schema!Busy
<1>2. Schema!OneMigrates
  BY DEF Schema!Init, Schema!OneMigrates, Schema!Cold
<1>3. Schema!NothingSkipped
  BY DEF Schema!Init, Schema!NothingSkipped, Schema!Passed, Schema!Cold
<1> QED BY <1>1, <1>2, <1>3 DEF Schema!IInv

LEMMA SchemaStepHolds ==
    ASSUME Schema!Sane, Schema!IInv, [Schema!Next]_(Schema!vars)
    PROVE  Schema!IInv'
<1> USE DEF Schema!IInv, Schema!Sane, Schema!Shape, Schema!Record, Schema!Busy, Schema!Instances
<1>1. ASSUME NEW i \in Schema!Instances, Schema!Lock(i) PROVE Schema!IInv'
  BY <1>1 DEF Schema!Lock, Schema!IsFree, Schema!OneMigrates, Schema!NothingSkipped,
       Schema!Passed
<1>2. ASSUME NEW i \in Schema!Instances, Schema!ReadLedger(i) PROVE Schema!IInv'
  <2>1. Schema!Shape' /\ Schema!OneMigrates'
    BY <1>2 DEF Schema!ReadLedger, Schema!OneMigrates
  <2>2. Schema!NothingSkipped'
    BY <1>2 DEF Schema!ReadLedger, Schema!NothingSkipped, Schema!Passed
  <2> QED BY <2>1, <2>2
<1>3. ASSUME NEW i \in Schema!Instances, Schema!RunUp(i) PROVE Schema!IInv'
  <2>1. PICK v \in Schema!Left(i) : /\ \A x \in Schema!Left(i) : v <= x
                                    /\ instance' = [instance EXCEPT ![i].at = "running", ![i].next = v]
    BY <1>3 DEF Schema!RunUp
  <2>2. v \in 1..ReleaseOf[i] /\ v \in Nat
    BY DEF Schema!Left
  <2>3. Schema!Shape'
    <3>1. [instance[i] EXCEPT !.at = "running", !.next = v] \in Schema!Record
      BY <2>2
    <3>2. instance' \in [Schema!Instances -> Schema!Record]
      BY <2>1, <3>1
    <3> QED BY <1>3, <3>2 DEF Schema!RunUp
  <2>4. Schema!OneMigrates'
    BY <1>3, <2>1 DEF Schema!RunUp, Schema!OneMigrates
  <2>5. ASSUME rolledBack = {} PROVE Schema!Passed(i)'
    <3>1. ASSUME NEW x \in 1..ReleaseOf[i], x < v PROVE x \in ledger
      BY <1>3, <2>1, <2>2, <2>5, <3>1 DEF Schema!RunUp, Schema!Left, Schema!NothingSkipped,
           Schema!Passed
    <3> QED BY <1>3, <2>1, <2>2, <2>5, <3>1 DEF Schema!RunUp, Schema!NothingSkipped,
         Schema!Passed
  <2>6. ASSUME NEW j \in Schema!Instances, j # i, rolledBack = {} PROVE Schema!Passed(j)'
    BY <1>3, <2>1, <2>6 DEF Schema!RunUp, Schema!NothingSkipped, Schema!Passed
  <2>7. Schema!NothingSkipped'
    BY <1>3, <2>5, <2>6 DEF Schema!RunUp, Schema!NothingSkipped
  <2> QED BY <2>3, <2>4, <2>7
<1>4. ASSUME NEW i \in Schema!Instances, Schema!CommitUp(i) PROVE Schema!IInv'
  <2>1. CASE instance[i].next \in ledger
    BY <1>4, <2>1 DEF Schema!CommitUp, Schema!OneMigrates, Schema!NothingSkipped, Schema!Passed
  <2>2. CASE instance[i].next \notin ledger
    <3> DEFINE v == instance[i].next
    <3>1. /\ ledger' = ledger \union {v}
          /\ instance' = [instance EXCEPT ![i].at = "applying", ![i].next = v + 1]
      BY <1>4, <2>2 DEF Schema!CommitUp
    <3>2. Schema!Shape' /\ Schema!OneMigrates'
      BY <1>4, <3>1 DEF Schema!CommitUp, Schema!OneMigrates
    <3>3. Schema!NothingSkipped'
      BY <1>4, <3>1 DEF Schema!CommitUp, Schema!NothingSkipped, Schema!Passed
    <3> QED BY <3>2, <3>3
  <2> QED BY <2>1, <2>2
<1>5. ASSUME NEW i \in Schema!Instances, Schema!FailUp(i) PROVE Schema!IInv'
  BY <1>5 DEF Schema!FailUp, Schema!OneMigrates, Schema!NothingSkipped, Schema!Passed
<1>6. ASSUME NEW i \in Schema!Instances, Schema!Unlock(i) PROVE Schema!IInv'
  BY <1>6 DEF Schema!Unlock, Schema!GiveBack, Schema!Cold, Schema!Left, Schema!OneMigrates,
       Schema!NothingSkipped, Schema!Passed
<1>7. ASSUME NEW i \in Schema!Instances, Schema!Die(i) PROVE Schema!IInv'
  BY <1>7 DEF Schema!Die, Schema!GiveBack, Schema!Cold, Schema!OneMigrates,
       Schema!NothingSkipped, Schema!Passed
<1>8. ASSUME NEW n \in SchemaVersions, Schema!SelectVersions(n) PROVE Schema!IInv'
  BY <1>8 DEF Schema!SelectVersions, Schema!OneMigrates, Schema!NothingSkipped, Schema!Passed
<1>9. CASE Schema!RollBack
  BY <1>9 DEF Schema!RollBack, Schema!OneMigrates, Schema!NothingSkipped, Schema!Passed
<1>10. CASE Schema!EndRollback
  BY <1>10 DEF Schema!EndRollback, Schema!OneMigrates, Schema!NothingSkipped, Schema!Passed
<1>11. CASE UNCHANGED Schema!vars
  BY <1>11 DEF Schema!vars, Schema!OneMigrates, Schema!NothingSkipped, Schema!Passed
<1> QED
  BY <1>1, <1>2, <1>3, <1>4, <1>5, <1>6, <1>7, <1>8, <1>9, <1>10, <1>11 DEF Schema!Next

\* However many releases boot at once, one at a time runs scripts, and without rollbacks

\* However many releases boot at once, one at a time runs scripts, and without rollbacks
\* no version is skipped and whoever serves has all of its own.
LEMMA SchemaHolds == Schema!Spec => []Schema!Safety
<1>1. Schema!Init => Schema!IInv
  BY SchemaSane, SchemaInitHolds
<1>2. Schema!IInv /\ [Schema!Next]_(Schema!vars) => Schema!IInv'
  BY SchemaSane, SchemaStepHolds
<1>3. Schema!IInv => Schema!Safety
  BY DEF Schema!IInv, Schema!Shape, Schema!Record, Schema!Busy, Schema!NothingSkipped,
       Schema!Passed, Schema!Safety, Schema!TypeOK, Schema!InOrder
<1> QED BY <1>1, <1>2, <1>3, PTL DEF Schema!Spec

-----------------------------------------------------------------------------
(* App: each block runs by its own specification, and holds what it        *)
(* promises.                                                               *)

\* No block sees what another one does: to each of them, that is a stutter.
LEMMA BlocksRun == Spec =>
    /\ Inbound!Spec
    /\ Notes!Spec
    /\ Money!Spec
    /\ Live!Spec
    /\ Edge!Spec
    /\ Vectors!Spec
    /\ Schema!Spec
<1>1. Init =>
        /\ Inbound!Init
        /\ Notes!Init
        /\ Money!Init
        /\ Live!Init
        /\ Edge!Init
        /\ Vectors!Init
        /\ Schema!Init
  BY DEF Init
<1> USE DEF Next, allVars, inboundVars, notesVars, billingVars, rtVars, edgeVars, flagsVars,
     freshVars, memVars, chatVars, cacheVars, anaVars, migVars, auditVars, subjVars, piiVars
<1>2. [Next]_allVars => [Inbound!Next]_(Inbound!vars)
  BY DEF Inbound!vars
<1>3. [Next]_allVars => [Notes!Next]_(Notes!vars)
  BY DEF Notes!vars
<1>4. [Next]_allVars => [Money!Next]_(Money!vars)
  BY DEF Money!vars
<1>5. [Next]_allVars => [Live!Next]_(Live!vars)
  BY DEF Live!vars
<1>6. [Next]_allVars => [Edge!Next]_(Edge!vars)
  BY DEF Edge!vars
<1>7. [Next]_allVars => [Vectors!Next]_(Vectors!vars)
  BY DEF Vectors!vars
<1>8. [Next]_allVars => [Schema!Next]_(Schema!vars)
  BY DEF Schema!vars
<1> HIDE DEF Next, allVars
<1> QED BY <1>1, <1>2, <1>3, <1>4, <1>5, <1>6, <1>7, <1>8, PTL DEF Spec, Inbound!Spec,
     Notes!Spec, Money!Spec, Live!Spec, Edge!Spec, Vectors!Spec, Schema!Spec

\* An event that was acknowledged can be replayed, and is published once.
THEOREM InboundIsSafe == Spec => []InboundSafe
BY BlocksRun, InboundHolds, PTL DEF InboundSafe

\* A note says 'sent' or 'failed' only if it earned that, and one per dedupe key is live.
THEOREM NotesAreSafe == Spec => []NotesSafe
BY BlocksRun, NotesHolds, PTL DEF NotesSafe

\* No webhook gives ended access back, and metering overruns a quota by its crowd at most.
THEOREM MoneyIsSafe == Spec => []MoneySafe
BY BlocksRun, MoneyHolds, PTL DEF MoneySafe

\* A stream with nothing under way has missed nothing but what committed late.
THEOREM LiveIsSafe == Spec => []LiveSafe
BY BlocksRun, LiveHolds, PTL DEF LiveSafe

\* A window admits its limit, no more and no less.
THEOREM EdgeIsSafe == Spec => []EdgeSafe
BY BlocksRun, EdgeHolds, PTL DEF EdgeSafe

\* A vector that is out of date is pending, or its row is still to be read.
THEOREM VectorsAreSafe == Spec => []VectorsSafe
BY BlocksRun, VectorsHolds, PTL DEF VectorsSafe

\* Scripts never run beside each other, and every version comes after all before it.
THEOREM SchemaIsSafe == Spec => []SchemaSafe
BY BlocksRun, SchemaHolds, PTL DEF SchemaSafe
=============================================================================
