--------------------------- MODULE SubjectRequests ---------------------------
(***************************************************************************)
(* Subject requests (blocks/compliance): POST /requests with runExport and *)
(* runErase, under the legal holds.  Holds and the rows of the linked      *)
(* tables are written by others, at any time; a row is added once.         *)
(*                                                                         *)
(* A row names the subject in some columns of its table, and a table may   *)
(* be linked by more than one column.                                      *)
(***************************************************************************)
EXTENDS Naturals, Sequences

CONSTANTS Rows,       \* row -> [table, columns]: where it names the subject
          Links,      \* sequence of [table, column, handling], as the SELECT returns them
          Requests,   \* request -> "export" or "erase"
          MaxHolds    \* bound

VARIABLES present,    \* row -> "new", "there" or "deleted"
          masked,     \* <<row, column>> that was anonymised
          holds,      \* active holds: sequence of "subject" or "everyone"
          placed,     \* holds ever placed
          request     \* request -> [at, link, status, doc, hit, saw, held]

vars == <<present, masked, holds, placed, request>>

Ids == DOMAIN Requests
Tables == {Rows[r].table : r \in DOMAIN Rows}

\* The rows of a link's table that name the subject in its column.
Found(l) == {r \in DOMAIN Rows : /\ present[r] = "there" /\ Rows[r].table = l.table
                                 /\ l.column \in Rows[r].columns /\ <<r, l.column>> \notin masked}
Named == UNION {Found(Links[i]) : i \in DOMAIN Links}

Init ==
    /\ present = [r \in DOMAIN Rows |-> "new"] /\ masked = {} /\ holds = <<>> /\ placed = 0
    /\ request = [q \in Ids |-> [at |-> "new", link |-> 1, status |-> "none", hit |-> {}, saw |-> {},
                                 doc |-> [t \in Tables |-> {}], held |-> FALSE]]

AddRow(r) ==
    /\ present[r] = "new" /\ present' = [present EXCEPT ![r] = "there"]
    /\ UNCHANGED <<masked, holds, placed, request>>

Place(h) ==
    /\ placed < MaxHolds /\ placed' = placed + 1
    /\ holds' = Append(holds, h)
    /\ UNCHANGED <<present, masked, request>>

Lift ==
    /\ holds # <<>> /\ holds' = Tail(holds)
    /\ UNCHANGED <<present, masked, placed, request>>

CoversSubject == \E i \in DOMAIN holds : holds[i] = "subject"

\* The holds of the subject, and those of everyone.
Covered == holds # <<>>

\* An erasure under a hold is refused, an export is not.
CheckHolds(q) ==
    /\ request[q].at = "new"
    /\ request' = [request EXCEPT ![q].held = holds # <<>>,
           ![q].at = IF Requests[q] = "erase" /\ Covered THEN "done" ELSE "admitted"]
    /\ UNCHANGED <<present, masked, holds, placed>>

\* INSERT of the request, and the SELECT of the links.
Start(q) ==
    /\ request[q].at = "admitted"
    /\ request' = [request EXCEPT ![q].at = "running", ![q].status = "running", ![q].saw = Named]
    /\ UNCHANGED <<present, masked, holds, placed>>

\* runExport: a SELECT per link in autocommit; assembleExportDoc gives a table the rows of
\* the last link that names it.
ExportLink(q) ==
    /\ request[q].at = "running" /\ Requests[q] = "export" /\ request[q].link <= Len(Links)
    /\ LET l == Links[request[q].link]
       IN  request' = [request EXCEPT ![q].doc[l.table] = Found(l), ![q].link = @ + 1]
    /\ UNCHANGED <<present, masked, holds, placed>>

\* runErase: a statement per link, in one transaction.  It waits for rows that another
\* transaction has locked.
Skips(l) == l.handling = "export"
EraseLink(q) ==
    /\ request[q].at = "running" /\ Requests[q] = "erase" /\ request[q].link <= Len(Links)
    /\ LET l == Links[request[q].link]
           found == IF Skips(l) THEN {} ELSE Found(l)
       IN  /\ \A x \in Ids \ {q} : \A h \in request[x].hit : h[1] \notin found
           /\ request' = [request EXCEPT ![q].link = @ + 1,
                  ![q].hit = @ \union {<<r, l.column, l.handling>> : r \in found}]
    /\ UNCHANGED <<present, masked, holds, placed>>

Commit(q) ==
    /\ request[q].at = "running" /\ Requests[q] = "erase" /\ request[q].link = Len(Links) + 1
    /\ LET hit == request[q].hit IN
       /\ present' = [r \in DOMAIN Rows |->
                         IF \E h \in hit : h[1] = r /\ h[3] = "erase" THEN "deleted" ELSE present[r]]
       /\ masked' = masked \union {<<h[1], h[2]>> : h \in {x \in hit : x[3] = "anonymize"}}
    /\ request' = [request EXCEPT ![q].at = "answering", ![q].hit = {}]
    /\ UNCHANGED <<holds, placed>>

Complete(q) ==
    /\ \/ request[q].at = "answering"
       \/ request[q].at = "running" /\ Requests[q] = "export" /\ request[q].link = Len(Links) + 1
    /\ request' = [request EXCEPT ![q].at = "done", ![q].status = "complete"]
    /\ UNCHANGED <<present, masked, holds, placed>>

\* A statement fails: the transaction is rolled back and the request is marked.
Fail(q) ==
    /\ request[q].at \in {"running", "answering"}
    /\ request' = [request EXCEPT ![q].at = "done", ![q].status = "failed", ![q].hit = {}]
    /\ UNCHANGED <<present, masked, holds, placed>>

\* The function is killed; an open transaction is rolled back.
Die(q) ==
    /\ request[q].at \in {"admitted", "running", "answering"}
    /\ request' = [request EXCEPT ![q].at = "done", ![q].hit = {}]
    /\ UNCHANGED <<present, masked, holds, placed>>

Next ==
    \/ Lift
    \/ \E r \in DOMAIN Rows : AddRow(r)
    \/ \E h \in {"subject", "everyone"} : Place(h)
    \/ \E q \in Ids : \/ CheckHolds(q) \/ Start(q) \/ ExportLink(q) \/ EraseLink(q)
                      \/ Commit(q) \/ Complete(q) \/ Fail(q) \/ Die(q)

Spec == Init /\ [][Next]_vars

-----------------------------------------------------------------------------
TypeOK ==
    /\ \A r \in DOMAIN Rows : present[r] \in {"new", "there", "deleted"}
    /\ \A q \in Ids :
          /\ request[q].at \in {"new", "admitted", "running", "answering", "done"}
          /\ request[q].status \in {"none", "running", "complete", "failed"}

\* Once an erasure is complete, no link that erases or anonymises finds a row that was
\* there when it began (runErase, index.ts:126).
ErasedIsGone ==
    \A q \in Ids : request[q].status = "complete" /\ Requests[q] = "erase" =>
        \A i \in DOMAIN Links : Links[i].handling # "export" =>
            Found(Links[i]) \intersect request[q].saw = {}

\* An erasure that met a hold leaves no request behind (index.ts:81).
HeldIsRefused ==
    \A q \in Ids : Requests[q] = "erase" /\ request[q].held => request[q].status = "none"

\* A row disappears, or is masked, only by an erasure that was admitted without a hold.
LostToErasures ==
    (masked # {} \/ \E r \in DOMAIN Rows : present[r] = "deleted") =>
        \E q \in Ids : Requests[q] = "erase" /\ request[q].status # "none" /\ ~request[q].held

Safety == TypeOK /\ ErasedIsGone /\ HeldIsRefused /\ LostToErasures

\* README.md:8 and index.ts:81: while a hold is active nothing of the subject is erased.  The
\* holds are looked at before the erasure, not in its transaction.
HeldSurvives == [][holds # <<>> => /\ masked' = masked
                                   /\ \A r \in DOMAIN Rows : present'[r] = "deleted" => present[r] = "deleted"]_vars

\* subject.ts:55 and requests.ts:16: a complete export has every row the links found when it
\* began and which is still there.
ExportIsWhole ==
    \A q \in Ids : request[q].status = "complete" /\ Requests[q] = "export" =>
        \A r \in request[q].saw : r \in Named => r \in request[q].doc[Rows[r].table]
-----------------------------------------------------------------------------
(* Why Safety holds: what a link has found by its turn is hit or gone, and *)
(* no row comes back.                                                      *)

Sane ==
    /\ Links \in Seq({Links[i] : i \in DOMAIN Links})
    /\ \A i \in DOMAIN Links : Links[i].handling \in {"export", "erase", "anonymize"}

RequestFields == {"at", "link", "status", "hit", "saw", "doc", "held"}

Shape ==
    /\ DOMAIN present = DOMAIN Rows /\ DOMAIN request = Ids
    /\ \A q \in Ids : DOMAIN request[q] = RequestFields /\ request[q].link \in Nat

Phases ==
    \A q \in Ids :
        LET w == request[q]
        IN  /\ w.at \in {"new", "admitted"} => w.status = "none" /\ w.link = 1
            /\ w.at \in {"running", "answering"} => w.status = "running"
            /\ w.status = "complete" => w.at = "done"
            /\ Requests[q] = "erase" /\ w.held => w.at = "done" /\ w.status = "none"

\* What a request saw is not a row that is still to be added.
SawRows == \A q \in Ids : \A r \in request[q].saw : r \in DOMAIN Rows /\ present[r] # "new"

\* The rows that a link before the i-th would still find are locked by the erasure.
HitsCover ==
    \A q \in Ids : request[q].at = "running" /\ Requests[q] = "erase" =>
        \A i \in DOMAIN Links : i < request[q].link /\ Links[i].handling # "export" =>
            \A r \in Found(Links[i]) \intersect request[q].saw :
                <<r, Links[i].column, Links[i].handling>> \in request[q].hit

Erased ==
    \A q \in Ids : (request[q].at = "answering" \/ request[q].status = "complete")
                   /\ Requests[q] = "erase" =>
        \A i \in DOMAIN Links : Links[i].handling # "export" =>
            Found(Links[i]) \intersect request[q].saw = {}

IInv == TypeOK /\ Shape /\ Phases /\ SawRows /\ HitsCover /\ Erased /\ LostToErasures
=============================================================================
