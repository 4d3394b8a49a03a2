------------------------------ MODULE CsvImport ------------------------------
(***************************************************************************)
(* CSV import (blocks/csv-import): the storage trigger POST /import, which *)
(* runs runImport, and the cron run POST /reconcile.                       *)
(*                                                                         *)
(* One object is written again and again; its versions are numbered.  Of a *)
(* version the model knows how many of its data rows are valid and how     *)
(* many are not (Csv checks how they are told apart).  A statement, a      *)
(* transaction or a storage call is one action.  An import ends there with *)
(* an exception, or the function dies there.                               *)
(***************************************************************************)
EXTENDS Naturals

CONSTANTS Versions,       \* 1..n
          Valid, Invalid, \* version -> its rows with and without errors
          Mapped,         \* versions with a header that the definition names
          Clashing,       \* versions the target table rejects (two rows of one key)
          AbortOnError    \* CSV_ABORT_ON_ERROR

VARIABLES current,        \* version of the object, 0 before the first upload
          imports,        \* version -> row of imports: [status, read, imported, rejected, report]
          importer,       \* delivery -> [at, etag, body, left]
          merged,         \* version -> how often its valid rows were inserted
          errorRows,      \* version -> row_errors of its import
          reports         \* versions whose import has a report in the bucket

vars == <<current, imports, importer, merged, errorRows, reports>>

Deliveries == {"first", "again"}
NoImport == [status |-> "none", read |-> 0, imported |-> 0, rejected |-> 0, report |-> FALSE]
Away == [at |-> "idle", etag |-> 0, body |-> 0, left |-> 0]
Mid == {"parsing", "merging"}

Init ==
    /\ current = 0
    /\ imports = [v \in Versions |-> NoImport]
    /\ importer = [p \in Deliveries |-> Away]
    /\ merged = [v \in Versions |-> 0]
    /\ errorRows = [v \in Versions |-> 0]
    /\ reports = {}

Upload ==
    /\ current + 1 \in Versions /\ current' = current + 1
    /\ UNCHANGED <<imports, importer, merged, errorRows, reports>>

\* A delivery of the trigger, any number of times: HEAD supplies the etag of now.
Deliver(p) ==
    /\ importer[p].at = "idle" /\ current > 0
    /\ importer' = [importer EXCEPT ![p] = [Away EXCEPT !.at = "seen", !.etag = current]]
    /\ UNCHANGED <<current, imports, merged, errorRows, reports>>

\* One that was reset may be taken up again.
KnownUnlessPending(v) == imports[v].status \notin {"none", "pending"}

\* The unique constraint imports_identity.
Known(v) == imports[v].status # "none"

\* INSERT ... ON CONFLICT DO NOTHING: a version that has a row is skipped.
Claim(p) ==
    /\ importer[p].at = "seen"
    /\ LET v == importer[p].etag
       IN  IF Known(v)
           THEN importer' = [importer EXCEPT ![p] = Away] /\ UNCHANGED imports
           ELSE /\ imports' = [imports EXCEPT ![v] = [NoImport EXCEPT !.status = "parsing"]]
                /\ importer' = [importer EXCEPT ![p].at = "claimed"]
    /\ UNCHANGED <<current, merged, errorRows, reports>>

\* getObject reads the object as it is by then; a header that names no column fails.
Read(p) ==
    /\ importer[p].at = "claimed"
    /\ IF current \in Mapped
       THEN /\ importer' = [importer EXCEPT ![p].at = "read", ![p].body = current]
            /\ UNCHANGED imports
       ELSE /\ imports' = [imports EXCEPT ![importer[p].etag] =
                              [NoImport EXCEPT !.status = "failed"]]
            /\ importer' = [importer EXCEPT ![p] = Away]
    /\ UNCHANGED <<current, merged, errorRows, reports>>

StartMerge(p) ==
    /\ importer[p].at = "read"
    /\ imports' = [imports EXCEPT ![importer[p].etag].status = "merging"]
    /\ importer' = [importer EXCEPT ![p].at = "merging"]
    /\ UNCHANGED <<current, merged, errorRows, reports>>

\* One INSERT of all valid rows, in a transaction.
Merge(p) ==
    /\ importer[p].at = "merging"
    /\ LET v == importer[p].body
       IN  IF v \in Clashing
           THEN importer' = [importer EXCEPT ![p] = Away] /\ UNCHANGED merged
           ELSE /\ merged' = [merged EXCEPT ![importer[p].etag] = @ + IF Valid[v] > 0 THEN 1 ELSE 0]
                /\ importer' = [importer EXCEPT ![p].at = "reporting", ![p].left = Invalid[v]]
    /\ UNCHANGED <<current, imports, errorRows, reports>>

\* The errors of the rejected rows, one INSERT each.
RecordError(p) ==
    /\ importer[p].at = "reporting" /\ importer[p].left > 0
    /\ errorRows' = [errorRows EXCEPT ![importer[p].etag] = @ + 1]
    /\ importer' = [importer EXCEPT ![p].left = @ - 1]
    /\ UNCHANGED <<current, imports, merged, reports>>

PutReport(p) ==
    /\ importer[p].at = "reporting" /\ importer[p].left = 0
    /\ reports' = IF Invalid[importer[p].body] > 0
                  THEN reports \union {importer[p].etag} ELSE reports
    /\ importer' = [importer EXCEPT ![p].at = "reported"]
    /\ UNCHANGED <<current, imports, merged, errorRows>>

Outcome(v) == IF AbortOnError /\ Invalid[v] > 0 THEN "failed" ELSE "ready"

Finish(p) ==
    /\ importer[p].at = "reported"
    /\ LET v == importer[p].body
       IN  imports' = [imports EXCEPT ![importer[p].etag] =
                          [status |-> Outcome(v), read |-> v, imported |-> Valid[v],
                           rejected |-> Invalid[v], report |-> Invalid[v] > 0]]
    /\ importer' = [importer EXCEPT ![p] = Away]
    /\ UNCHANGED <<current, merged, errorRows, reports>>

\* A call fails, or the function dies: the row stays where it is.
Die(p) ==
    /\ importer[p].at # "idle" /\ importer' = [importer EXCEPT ![p] = Away]
    /\ UNCHANGED <<current, imports, merged, errorRows, reports>>

\* reconcile, an hour after the last step that wrote the row.
ResetStuck ==
    /\ \E S \in SUBSET {v \in Versions : imports[v].status \in Mid} :
          imports' = [v \in Versions |->
                         IF v \in S THEN [imports[v] EXCEPT !.status = "pending"] ELSE imports[v]]
    /\ UNCHANGED <<current, importer, merged, errorRows, reports>>

Next ==
    \/ Upload \/ ResetStuck
    \/ \E p \in Deliveries :
          \/ Deliver(p) \/ Claim(p) \/ Read(p) \/ StartMerge(p) \/ Merge(p)
          \/ RecordError(p) \/ PutReport(p) \/ Finish(p) \/ Die(p)

Spec == Init /\ [][Next]_vars

-----------------------------------------------------------------------------
TypeOK ==
    /\ current \in Versions \union {0}
    /\ \A v \in Versions :
          /\ imports[v].status \in {"none", "pending", "parsing", "merging", "ready", "failed"}
          /\ imports[v].read \in Versions \union {0}
    /\ \A p \in Deliveries : importer[p].at \in
          {"idle", "seen", "claimed", "read", "merging", "reporting", "reported"}
    /\ merged \in [Versions -> Nat] /\ errorRows \in [Versions -> Nat]
    /\ reports \subseteq Versions

\* Whatever fails, comes twice or is reset between, the rows of a version are inserted
\* once at most: also without conflict keys no row is doubled.
MergedOnce == \A v \in Versions : merged[v] <= 1

\* An import that came to its end, ready or failed for its bad rows, has all its valid
\* rows in the table, every other row among its errors, and its report in the bucket.
FinishedIsComplete ==
    \A v \in Versions :
        LET i == imports[v]
        IN  i.status \in {"ready", "failed"} /\ i.read > 0 =>
                /\ i.imported > 0 => merged[v] = 1
                /\ errorRows[v] = i.rejected
                /\ i.report => v \in reports

Safety == TypeOK /\ MergedOnce /\ FinishedIsComplete

\* With CSV_ABORT_ON_ERROR an import with bad rows applies nothing.
AbortedAppliesNothing ==
    \A v \in Versions : imports[v].status = "failed" => merged[v] = 0
-----------------------------------------------------------------------------
(* Safety for any number of versions and rows.  The row of imports is the  *)
(* claim: it is never deleted, so a version has one importer in all of its *)
(* history, and what is in the tables is what this importer has done.      *)

Owning == {"claimed", "read", "merging", "reporting", "reported"}

Sane == /\ Versions \subseteq Nat \ {0}
        /\ Valid \in [Versions -> Nat] /\ Invalid \in [Versions -> Nat]

ImportRow == [status : {"none", "pending", "parsing", "merging", "ready", "failed"},
              read : Versions \union {0}, imported : Nat, rejected : Nat, report : BOOLEAN]

Importer == [at : Owning \union {"idle", "seen"}, etag : Versions \union {0},
             body : Versions \union {0}, left : Nat]

Shape ==
    /\ imports \in [Versions -> ImportRow] /\ importer \in [Deliveries -> Importer]
    /\ merged \in [Versions -> Nat] /\ errorRows \in [Versions -> Nat]
    /\ reports \subseteq Versions /\ current \in Versions \union {0}
    /\ \A p \in Deliveries : importer[p].at # "idle" => importer[p].etag \in Versions
                                                        /\ current \in Versions

Owner(p, v) == importer[p].at \in Owning /\ importer[p].etag = v

OneOwner ==
    \A v \in Versions :
        /\ \A p, q \in Deliveries : Owner(p, v) /\ Owner(q, v) => p = q
        /\ \A p \in Deliveries : Owner(p, v) => Known(v) /\ imports[v].read = 0

\* What the owner of a version has put into the tables.
DoneBy(i) ==
    LET v == i.etag
        w == i.body
    IN  /\ i.at \in {"claimed", "read", "merging"} => merged[v] = 0 /\ errorRows[v] = 0
        /\ i.at \in {"read", "merging", "reporting", "reported"} => w \in Versions
        /\ i.at \in {"reporting", "reported"} => /\ Valid[w] > 0 => merged[v] = 1
                                                 /\ errorRows[v] + i.left = Invalid[w]
        /\ i.at = "reported" => /\ i.left = 0
                                /\ Invalid[w] > 0 => v \in reports

Progress ==
    /\ \A v \in Versions : ~Known(v) => merged[v] = 0 /\ errorRows[v] = 0
    /\ \A p \in Deliveries : DoneBy(importer[p])

IInv == Shape /\ MergedOnce /\ FinishedIsComplete /\ OneOwner /\ Progress
=============================================================================
