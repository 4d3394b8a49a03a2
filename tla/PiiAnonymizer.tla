---------------------------- MODULE PiiAnonymizer ----------------------------
(***************************************************************************)
(* Masking of a branch (blocks/pii-anonymizer): POST /rules declares a     *)
(* column, POST /run masks every declared column in batches that follow    *)
(* the primary key, beside the application and beside other runs.          *)
(*                                                                         *)
(* What a row holds is how often it has been masked: 0 is what somebody    *)
(* wrote, and maskValue of a value is the next one, the same for the same  *)
(* value.  Each rule has a table of its own.  A key goes back to its table *)
(* as the text that JavaScript makes of it; where that is not the text the *)
(* database makes of it, as for a date, no row has that key.  Left out:    *)
(* the strategies, the salt and the text of the statements.                *)
(***************************************************************************)
EXTENDS Naturals, FiniteSets

CONSTANTS Rules,
          HasKey,        \* rules whose table has a primary key,
          SameText,      \* and one whose values are the same text in both
          Keys,          \* its values, numbers from 1
          Filled,        \* cells that hold something at the start
          Batch,         \* ANONYMIZE_BATCH_ROWS
          Runs,
          Written,       \* bounds: cells that the application writes, and how often
          MaxWrites

VARIABLES active,        \* declared rules
          cell,          \* [rule, key] -> Null or times masked
          run,           \* run -> where its invocation is
          runs,          \* run -> its row: [status, applied, masked, detail]
          writes,
          touched        \* history: run -> cells written by the application since its start

vars == <<active, cell, run, runs, writes, touched>>

Null == 99
Cells == Rules \X Keys
maskValue(times) == IF times = 2 THEN 2 ELSE times + 1  \* enough to tell once from twice
NoDetail == [rows |-> 0, done |-> FALSE, cursor |-> 0]

Init ==
    /\ active = {} /\ writes = 0
    /\ cell = [c \in Cells |-> IF c \in Filled THEN 0 ELSE Null]
    /\ run = [n \in Runs |-> [at |-> "new", rules |-> {}, todo |-> {}, rule |-> "none",
                              cursor |-> 0, batch |-> << >>, detail |-> [r \in Rules |-> NoDetail],
                              masked |-> 0, applied |-> 0]]
    /\ runs = [n \in Runs |-> [status |-> "none", applied |-> 0, masked |-> 0,
                               detail |-> [r \in Rules |-> NoDetail]]]
    /\ touched = [n \in Runs |-> {}]

-----------------------------------------------------------------------------
Declare(r) ==
    /\ r \notin active /\ active' = active \union {r}
    /\ UNCHANGED <<cell, run, runs, writes, touched>>

\* isBranchAllowed fails: a row for the record.  No rules: no row, a 400.
Refuse(n) ==
    /\ run[n].at = "new"
    /\ run' = [run EXCEPT ![n].at = "refused"]
    /\ \/ runs' = [runs EXCEPT ![n].status = "refused"]
       \/ active = {} /\ UNCHANGED runs
    /\ UNCHANGED <<active, cell, writes, touched>>

Start(n) ==
    /\ run[n].at = "new" /\ active # {}
    /\ run' = [run EXCEPT ![n] = [@ EXCEPT !.at = "next", !.rules = active, !.todo = active]]
    /\ runs' = [runs EXCEPT ![n].status = "running"]
    /\ UNCHANGED <<active, cell, writes, touched>>

\* The rules come in no order.  Without a key a table cannot be read in batches: continue.
NextRule(n) ==
    /\ run[n].at = "next"
    /\ \E r \in run[n].todo :
          run' = [run EXCEPT ![n] =
                     IF r \in HasKey
                     THEN [run[n] EXCEPT !.at = "reading", !.todo = @ \ {r}, !.rule = r, !.cursor = 0]
                     ELSE [run[n] EXCEPT !.todo = @ \ {r}]]
    /\ UNCHANGED <<active, cell, runs, writes, touched>>

\* What buildSelectBatchSql asks for: the rows behind the cursor, the first Batch by the key.
After(n) == {k \in Keys : k > run[n].cursor /\ cell[<<run[n].rule, k>>] # Null}
IsPage(page, rows) ==
    /\ \A k \in page, j \in rows \ page : k < j
    /\ Cardinality(page) <= Batch /\ (Cardinality(page) < Batch => page = rows)

ReadBatch(n) ==
    /\ run[n].at = "reading"
    /\ \/ /\ After(n) = {}
          /\ run' = [run EXCEPT ![n] = [run[n] EXCEPT !.at = "next", !.applied = @ + 1]]
       \/ \E page \in SUBSET After(n) \ {{}} :
             /\ IsPage(page, After(n))
             /\ run' = [run EXCEPT ![n] =
                    [run[n] EXCEPT !.at = "masking",
                                   !.batch = [k \in page |-> cell[<<run[n].rule, k>>]]]]
    /\ UNCHANGED <<active, cell, runs, writes, touched>>

\* buildUpdateSql: the new value was made from what was read, and goes to whatever is there with
\* String(key) for a key; if nothing is, that is no error.
WriteBatch(n) ==
    /\ run[n].at = "masking"
    /\ cell' = [c \in Cells |->
                   IF c[1] = run[n].rule /\ c[1] \in SameText /\ c[2] \in DOMAIN run[n].batch
                   THEN maskValue(run[n].batch[c[2]]) ELSE cell[c]]
    /\ run' = [run EXCEPT ![n].at = "recording"]
    /\ UNCHANGED <<active, runs, writes, touched>>

LastIfFull(n) == Cardinality(DOMAIN run[n].batch) <= Batch

IsLast(n) == Cardinality(DOMAIN run[n].batch) < Batch

mergeProgress(d, rows, done, cursor) ==
    [rows |-> d.rows + rows, done |-> done, cursor |-> cursor]

Record(n) ==
    /\ run[n].at = "recording"
    /\ \E last \in DOMAIN run[n].batch :
       /\ \A k \in DOMAIN run[n].batch : k <= last
       /\ LET size == Cardinality(DOMAIN run[n].batch)
              r == run[n].rule
              detail == [run[n].detail EXCEPT ![r] = mergeProgress(@, size, IsLast(n), last)]
          IN  /\ run' = [run EXCEPT ![n] =
                     [run[n] EXCEPT !.at = IF IsLast(n) THEN "next" ELSE "reading",
                                    !.applied = IF IsLast(n) THEN @ + 1 ELSE @,
                                    !.cursor = last, !.batch = << >>, !.detail = detail,
                                    !.masked = @ + size]]
              /\ runs' = [runs EXCEPT ![n] = [runs[n] EXCEPT !.masked = run[n].masked + size,
                                                             !.detail = detail]]
    /\ UNCHANGED <<active, cell, writes, touched>>

Complete(n) ==
    /\ run[n].at = "next" /\ run[n].todo = {}
    /\ run' = [run EXCEPT ![n].at = "done"]
    /\ runs' = [runs EXCEPT ![n] = [@ EXCEPT !.status = "complete", !.applied = run[n].applied,
                                             !.masked = run[n].masked]]
    /\ UNCHANGED <<active, cell, writes, touched>>

\* A statement of runMasking fails.  A function that dies goes no further and stays 'running'.
Fail(n) ==
    /\ run[n].at \in {"next", "reading", "masking", "recording"}
    /\ run' = [run EXCEPT ![n] = [@ EXCEPT !.at = "done", !.batch = << >>, !.todo = {}]]
    /\ runs' = [runs EXCEPT ![n].status = "failed"]
    /\ UNCHANGED <<active, cell, writes, touched>>

\* External: the application inserts or updates a row, or clears its column.
Write(c) ==
    /\ writes < MaxWrites /\ writes' = writes + 1
    /\ \E v \in {0, Null} : cell' = [cell EXCEPT ![c] = v]
    /\ touched' = [n \in Runs |-> IF runs[n].status = "none" THEN touched[n]
                                  ELSE touched[n] \union {c}]
    /\ UNCHANGED <<active, run, runs>>

Next == \/ \E r \in Rules : Declare(r)
        \/ \E n \in Runs : \/ Refuse(n) \/ Start(n) \/ NextRule(n) \/ ReadBatch(n)
                           \/ WriteBatch(n) \/ Record(n) \/ Complete(n) \/ Fail(n)
        \/ \E c \in Written : Write(c)

Spec == Init /\ [][Next]_vars

-----------------------------------------------------------------------------
TypeOK ==
    /\ cell \in [Cells -> 0..2 \union {Null}]
    /\ \A n \in Runs : runs[n].status \in {"none", "refused", "running", "complete", "failed"}

Masked(n, r, k) == cell[<<r, k>>] # 0 \/ <<r, k>> \in touched[n]

\* Masked, or of a table whose keys a run cannot name.
Done(n, r, k) == r \in SameText => cell[<<r, k>>] # 0 \/ <<r, k>> \in touched[n]

\* In a complete run every row of every table that can be read in batches, and whose keys are
\* the same text in both, is masked, save what the application wrote meanwhile, whatever other
\* runs have done to these rows.
CompleteIsMasked ==
    \A n \in Runs : runs[n].status = "complete" =>
        \A r \in run[n].rules \intersect HasKey, k \in Keys : Done(n, r, k)

\* The progress of a run, dead or alive, never claims a row of such a table that is not
\* masked: what lies at or before its cursor is done.
CursorIsSafe ==
    \A n \in Runs, r \in Rules, k \in Keys :
        k <= runs[n].detail[r].cursor => Done(n, r, k)

Safety == TypeOK /\ CompleteIsMasked /\ CursorIsSafe

\* A complete run has masked every declared column.
CompleteIsWhole ==
    \A n \in Runs : runs[n].status = "complete" =>
        \A r \in run[n].rules, k \in Keys : Masked(n, r, k)

\* Keys are compared as text so the statement works for any key type.
AnyKeyWorks ==
    \A n \in Runs : runs[n].status = "complete" =>
        \A r \in run[n].rules \intersect HasKey, k \in Keys : Masked(n, r, k)

\* The same value is masked to the same value, so joins survive a complete run.
JoinsSurvive ==
    \A n \in Runs : runs[n].status = "complete" =>
        \A c, d \in ((run[n].rules \intersect HasKey) \X Keys) \ touched[n] :
            cell[c] = cell[d] \/ Null \in {cell[c], cell[d]}

\* The detail of a complete run says of every rule that it is done.
DetailSaysDone ==
    \A n \in Runs : runs[n].status = "complete" =>
        \A r \in run[n].rules \intersect HasKey : runs[n].detail[r].done
-----------------------------------------------------------------------------
(* Why Safety holds: behind the cursor of a run, and in the tables it has  *)
(* left, everything is done; of its batch, once it is written.             *)

Sane == Keys \subseteq Nat \ {0} /\ Batch \in Nat /\ Written \subseteq Cells

RunFields == {"at", "rules", "todo", "rule", "cursor", "batch", "detail", "masked", "applied"}
InTable == {"reading", "masking", "recording"}
Alive == InTable \union {"next"}

\* Done, were the cells these.
DoneIn(cells, n, r, k) == r \in SameText => cells[<<r, k>>] # 0 \/ <<r, k>> \in touched[n]

Shape ==
    /\ DOMAIN run = Runs /\ DOMAIN runs = Runs /\ touched \in [Runs -> SUBSET Cells]
    /\ active \subseteq Rules /\ runs = [n \in Runs |-> runs[n]]
    /\ \A n \in Runs :
          /\ DOMAIN run[n] = RunFields /\ DOMAIN runs[n] = {"status", "applied", "masked", "detail"}
          /\ run[n].detail = runs[n].detail /\ DOMAIN run[n].detail = Rules
          /\ run[n].cursor \in Nat /\ run[n].todo \subseteq Rules /\ run[n].rules \subseteq Rules

Phases ==
    \A n \in Runs :
        LET w == run[n]
        IN  /\ w.at \in Alive => runs[n].status = "running"
            /\ w.at \notin Alive => w.at = "new" \/ w.at = "refused" \/ w.at = "done"
            /\ w.at = "new" => runs[n].status = "none"
            /\ runs[n].status = "complete" => w.at = "done" /\ w.todo = {}
            /\ runs[n].status = "none" =>
                   w.at \in {"new", "refused"} /\ \A r \in Rules : w.detail[r].cursor = 0

\* The tables that a run has left are done.
LeftTables ==
    \A n \in Runs : run[n].at \in Alive \/ runs[n].status = "complete" =>
        \A r \in run[n].rules \intersect HasKey :
            \/ r \in run[n].todo
            \/ run[n].at \in InTable /\ r = run[n].rule
            \/ \A k \in Keys : Done(n, r, k)

BehindCursor ==
    \A n \in Runs : run[n].at \in InTable =>
        /\ run[n].rule \in Rules
        /\ \A k \in Keys : k <= run[n].cursor => Done(n, run[n].rule, k)

\* The batch skips only what need not be masked, and is masked before it is recorded.
Batches ==
    \A n \in Runs : run[n].at \in {"masking", "recording"} =>
        LET batch == run[n].batch
        IN  /\ DOMAIN batch \subseteq Keys /\ \A k \in DOMAIN batch : batch[k] \in 0..2
            /\ \A k \in Keys \ DOMAIN batch :
                  (\E j \in DOMAIN batch : k <= j) \/ IsLast(n) => Done(n, run[n].rule, k)
            /\ run[n].at = "recording" => \A k \in DOMAIN batch : Done(n, run[n].rule, k)

IInv == TypeOK /\ Shape /\ Phases /\ LeftTables /\ BehindCursor /\ Batches /\ CursorIsSafe
=============================================================================
