----------------------------- MODULE AuditChain -----------------------------
(***************************************************************************)
(* The audit log of blocks/compliance: the trigger that chains each entry  *)
(* to the one before it, POST /purge with reanchor_audit_chain, and the    *)
(* verification of the chain.                                              *)
(*                                                                         *)
(* Transactions are READ COMMITTED: a row-level lock waits for the row     *)
(* that the statement's snapshot has found, and then gives its newest      *)
(* version, not a newer row.  An entry is the text that is hashed (the     *)
(* fields one after the other) and the rest, which is not: occurred_at,    *)
(* where a field ends, and whether it is NULL or empty.  A hash stands for *)
(* all it was computed from: the previous hash and the text.  Left out:    *)
(* entries that somebody deletes by hand.                                  *)
(***************************************************************************)
EXTENDS Naturals, Sequences

CONSTANTS Writers,    \* transactions that change an audited row
          MaxEntries, \* bound
          MaxPurges, MaxEdits  \* bounds

VARIABLES log,        \* id -> [there, text, rest, prev, hash]: the committed entries
          lastId,     \* of the sequence
          writer,     \* transaction -> [at, row, prev]
          purge,      \* [at, gone, seen]
          purges, edits,
          edited,     \* entries whose text was edited in place and not hashed anew since
          everEdited, \* ... at any time
          overlapped  \* two of the transactions above ran at once

vars == <<log, lastId, writer, purge, purges, edits, edited, everEdited, overlapped>>

Ids == 1..MaxEntries
NoRow == 0
Null == <<>>
Present == {i \in Ids : log[i].there}
IsLast(i, S) == IF S = {} THEN i = NoRow ELSE i \in S /\ \A x \in S : x <= i
HashOf(i) == IF i = NoRow THEN Null ELSE log[i].hash
Away == [at |-> "idle", row |-> NoRow, prev |-> Null]
Quiet == [at |-> "idle", gone |-> {}, seen |-> {}]

\* audit_entry_hash: sha256 of different texts differs.
Hash(prev, text) == Append(prev, text)

Init ==
    /\ log = [i \in Ids |-> [there |-> FALSE, text |-> 0, rest |-> 0, prev |-> Null, hash |-> Null]]
    /\ lastId = 0 /\ writer = [w \in Writers |-> Away] /\ purge = Quiet
    /\ purges = 0 /\ edits = 0 /\ edited = {} /\ everEdited = {} /\ overlapped = FALSE

Busy(w) == writer[w].at # "idle"
LockedBy(w) == IF writer[w].at = "locked" THEN {writer[w].row} ELSE {}
Begins(w) == overlapped' = (overlapped \/ purge.at # "idle" \/ \E x \in Writers \ {w} : Busy(x))

\* SELECT ... ORDER BY id DESC LIMIT 1 FOR UPDATE: the last row of its snapshot.
SelectLast(w, row) ==
    /\ writer[w].at = "idle" /\ lastId < MaxEntries /\ IsLast(row, Present)
    /\ writer' = [writer EXCEPT ![w] = [at |-> "waiting", prev |-> Null, row |-> row]]
    /\ Begins(w)
    /\ UNCHANGED <<log, lastId, purge, purges, edits, edited, everEdited>>

\* The lock is free: the row as it is now; a row that was purged has no hash to give.
Locked(w) ==
    /\ writer[w].at = "waiting"
    /\ LET row == writer[w].row
       IN  /\ row # NoRow => \A x \in Writers : row \notin LockedBy(x)
           /\ row \notin purge.gone
           /\ writer' = [writer EXCEPT ![w] =
                  [at |-> "locked", row |-> row,
                   prev |-> IF row \in Present THEN HashOf(row) ELSE Null]]
    /\ UNCHANGED <<log, lastId, purge, purges, edits, edited, everEdited, overlapped>>

\* The INSERT, and the COMMIT that gives the lock back.
Write(w) ==
    /\ writer[w].at = "locked" /\ lastId < MaxEntries
    /\ lastId' = lastId + 1
    /\ log' = [log EXCEPT ![lastId + 1] =
                  [there |-> TRUE, text |-> lastId + 1, rest |-> 0, prev |-> writer[w].prev,
                   hash |-> Hash(writer[w].prev, lastId + 1)]]
    /\ writer' = [writer EXCEPT ![w] = Away]
    /\ UNCHANGED <<purge, purges, edits, edited, everEdited, overlapped>>

RollBack(w) ==
    /\ Busy(w) /\ writer' = [writer EXCEPT ![w] = Away]
    /\ UNCHANGED <<log, lastId, purge, purges, edits, edited, everEdited, overlapped>>

\* Somebody with access to the table edits an entry, in what is hashed or in the rest.
Edit(i) ==
    /\ edits < MaxEdits /\ i \in Present
    /\ edits' = edits + 1
    /\ \/ /\ log' = [log EXCEPT ![i] = [log[i] EXCEPT !.text = MaxEntries + edits + 1]]
          /\ edited' = edited \union {i} /\ everEdited' = everEdited \union {i}
       \/ /\ log' = [log EXCEPT ![i] = [log[i] EXCEPT !.rest = edits + 1]]
          /\ UNCHANGED <<edited, everEdited>>
    /\ UNCHANGED <<lastId, writer, purge, purges, overlapped>>

\* occurred_at is the start of a transaction: ids follow it, unless transactions overlapped or
\* somebody edited a date.
OlderFirst(old) ==
    \A i \in old, j \in Present \ old :
        j < i => overlapped \/ log[i].rest # 0 \/ log[j].rest # 0

\* reanchor_audit_chain: the DELETE of what is old enough, if anything.
Purge(old) ==
    /\ purge.at = "idle" /\ purges < MaxPurges /\ old \subseteq Present /\ OlderFirst(old)
    /\ \A w \in Writers : LockedBy(w) \intersect old = {}
    /\ purge' = [at |-> "deleted", gone |-> old, seen |-> {}]
    /\ purges' = purges + 1
    /\ overlapped' = (overlapped \/ \E w \in Writers : Busy(w))
    /\ UNCHANGED <<log, lastId, writer, edits, edited, everEdited>>

\* The snapshot of its loop over the entries that stay,
PurgeScan ==
    /\ purge.at = "deleted"
    /\ purge' = [purge EXCEPT !.at = "scanned", !.seen = Present \ purge.gone]
    /\ UNCHANGED <<log, lastId, writer, purges, edits, edited, everEdited, overlapped>>

\* A plain DELETE keeps them.
KeptHashes(seen) == log

\* what their hashes are from a new anchor on,
NewHashes(seen) ==
    LET hash[i \in 0..MaxEntries] ==
            IF i = 0 THEN Null
            ELSE IF i \in seen THEN Hash(hash[i - 1], log[i].text) ELSE hash[i - 1]
    IN  hash

Rehashed(seen) ==
    LET hash == NewHashes(seen)
    IN  [i \in Ids |-> [there |-> log[i].there, text |-> log[i].text, rest |-> log[i].rest,
                        prev |-> hash[i - 1], hash |-> hash[i]]]

\* and the end of its transaction.
PurgeCommit ==
    /\ purge.at = "scanned"
    /\ \A w \in Writers : LockedBy(w) \intersect purge.seen = {}
    /\ log' = [i \in Ids |->
                  IF i \in purge.seen THEN Rehashed(purge.seen)[i]
                  ELSE IF i \in purge.gone THEN [log[i] EXCEPT !.there = FALSE] ELSE log[i]]
    /\ edited' = edited \ (purge.seen \union purge.gone)
    /\ everEdited' = everEdited \ purge.gone
    /\ purge' = Quiet
    /\ UNCHANGED <<lastId, writer, purges, edits, overlapped>>

Next ==
    \/ \E w \in Writers : \/ Locked(w) \/ Write(w) \/ RollBack(w)
                          \/ \E row \in Ids \union {NoRow} : SelectLast(w, row)
    \/ \E i \in Ids : Edit(i)
    \/ \E old \in SUBSET Ids : Purge(old)
    \/ PurgeScan \/ PurgeCommit

Spec == Init /\ [][Next]_vars

\* verify_audit_chain, and verifyLinkage for its first condition.
Before(i) == {x \in Present : x < i}
Linked(i) == \E j \in Ids \union {NoRow} : IsLast(j, Before(i)) /\ log[i].prev = HashOf(j)
Verifies == \A i \in Present : Linked(i) /\ log[i].hash = Hash(log[i].prev, log[i].text)

-----------------------------------------------------------------------------
TypeOK ==
    /\ lastId \in 0..MaxEntries /\ Present \subseteq 1..lastId
    /\ \A w \in Writers : writer[w].at \in {"idle", "waiting", "locked"}
    /\ purge.at \in {"idle", "deleted", "scanned"} /\ edited \subseteq everEdited

\* Writes and purges that come one after the other leave a chain that verifies, unless the
\* text of an entry was edited; and an entry whose text was edited is found, as long as no
\* purge has hashed it anew.
ChainTells ==
    /\ ~overlapped /\ edited = {} => Verifies
    /\ edited # {} => ~Verifies

Safety == TypeOK /\ ChainTells

\* FOR UPDATE serialises audit writes: whoever writes at once, the chain verifies.
WritersKeepChain == everEdited = {} /\ purges = 0 => Verifies

\* Editing history breaks the chain detectably: an edit of the text, whatever purges do later,
EditingShows == everEdited # {} => ~Verifies

\* and an edit of the rest.
EveryFieldShows == (\E i \in Present : log[i].rest # 0) => ~Verifies

-----------------------------------------------------------------------------
(* The inductive invariant.                                                *)

Shape ==
    /\ log \in [Ids -> [there : BOOLEAN, text : Nat, rest : Nat, prev : Seq(Nat), hash : Seq(Nat)]]
    /\ lastId \in 0..MaxEntries /\ Present \subseteq 1..lastId
    /\ writer \in [Writers -> [at : {"idle", "waiting", "locked"}, row : Ids \union {NoRow},
                              prev : Seq(Nat)]]
    /\ purge \in [at : {"idle", "deleted", "scanned"}, gone : SUBSET Ids, seen : SUBSET Ids]
    /\ edits \in Nat /\ edited \subseteq Present /\ edited \subseteq everEdited
    /\ purge.seen \subseteq Present /\ purge.seen \intersect purge.gone = {}

\* The hashes up to entry n, as NewHashes defines them.
AreHashes(h, seen, n) ==
    /\ h \in [0..n -> Seq(Nat)]
    /\ h = [i \in 0..n |-> IF i = 0 THEN Null
                           ELSE IF i \in seen THEN Hash(h[i - 1], log[i].text)
                           ELSE h[i - 1]]

\* The text that an entry's hash was computed from, and whether that is the one it has.
Sealed(i) == log[i].hash[Len(log[i].hash)]
Seal ==
    \A i \in Present :
        /\ log[i].hash = Hash(log[i].prev, Sealed(i))
        /\ log[i].text <= MaxEntries + edits /\ Sealed(i) <= MaxEntries + edits
        /\ i \in edited <=> Sealed(i) # log[i].text

\* Of transactions that run one after the other.
InTurn ==
    /\ \A w \in Writers : Busy(w) =>
          /\ purge.at = "idle" /\ \A x \in Writers \ {w} : ~Busy(x)
          /\ IsLast(writer[w].row, Present)
          /\ writer[w].at = "locked" => writer[w].prev = HashOf(writer[w].row)
    /\ purge.at = "scanned" => purge.seen = Present \ purge.gone
    /\ \A i \in Present : Linked(i)

IInv == Shape /\ Seal /\ (~overlapped => InTurn)

\* What TLC gives as bounds are numbers.
Sane == MaxEntries \in Nat
=============================================================================
