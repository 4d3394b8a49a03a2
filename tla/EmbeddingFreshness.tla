-------------------------- MODULE EmbeddingFreshness --------------------------
(***************************************************************************)
(* The embedding freshness worker (blocks/embedding-freshness): the cron   *)
(* run POST /scan for one active source: detectChanges, then               *)
(* processPending.  Invocations may overlap.                               *)
(*                                                                         *)
(* Applications write rows of the source table in transactions; updated_at *)
(* is the time their transaction began.  Timestamps are finer than the     *)
(* milliseconds of a JavaScript Date: Grain of them fall in one.  The      *)
(* vector is a column of the row, as it is unless the source is registered *)
(* with another table.                                                     *)
(***************************************************************************)
EXTENDS Integers, FiniteSets

CONSTANTS Scans,      \* invocations that may run at once
          Keys,       \* rows of the source table
          Texts,      \* 1..n, what a row may say; 0 when there is no row
          BatchSize,  \* LIMIT of both queries
          Grain,      \* timestamps per millisecond
          MaxTime     \* bound on the transactions

VARIABLES rows,       \* key -> [text, at]
          open,       \* times at which the transactions under way began
          clock,
          watermark,  \* of the source
          pending,    \* pending key -> the keys whose detected_at is older
          vectors,    \* key -> text its vector was made from
          embedded,   \* key -> text of embedded_state.content_hash
          scan,       \* invocation -> [at, mark, got, left, key]
          deleted,    \* history: keys whose row was deleted, with its vector
          excused     \* keys whose change the scan is not built to find, see Fresh

vars == <<rows, open, clock, watermark, pending, vectors, embedded, scan, deleted, excused>>

NoRow == [text |-> 0, at |-> 0]
Nothing == [k \in {} |-> NoRow]
Away == [at |-> "idle", mark |-> 0, got |-> Nothing, left |-> {}, key |-> ""]
Pending == DOMAIN pending
Floor(t) == t - (t % Grain)

Init ==
    /\ rows = [k \in Keys |-> NoRow] /\ open = {} /\ clock = 0
    /\ watermark = 0 /\ pending = [k \in {} |-> {}] /\ deleted = {} /\ excused = {}
    /\ vectors = [k \in Keys |-> 0] /\ embedded = [k \in Keys |-> 0]
    /\ scan = [s \in Scans |-> Away]

\* A transaction begins: its time is what it gives to updated_at.
Begin ==
    /\ clock < MaxTime
    /\ clock' = clock + 1 /\ open' = open \union {clock + 1}
    /\ UNCHANGED <<rows, watermark, pending, vectors, embedded, scan, deleted, excused>>

\* A scan has a row of this time, or a later one, behind it.
Overtaken(t) ==
    \/ t <= watermark
    \/ \E s \in Scans :
          /\ scan[s].at \in {"candidates", "marking"}
          /\ \E k \in DOMAIN scan[s].got : t <= scan[s].got[k].at

\* It has written (or deleted) rows, and commits.
Commit(t, S, text) ==
    /\ t \in open
    /\ rows' = [k \in Keys |-> IF k \in S THEN [text |-> text, at |-> t] ELSE rows[k]]
    /\ open' = open \ {t}
    /\ vectors' = [k \in Keys |-> IF k \in S /\ text = 0 THEN 0 ELSE vectors[k]]
    /\ deleted' = IF text = 0 THEN deleted \union S ELSE deleted
    /\ excused' = IF Overtaken(t) THEN excused \union S ELSE excused
    /\ UNCHANGED <<clock, watermark, pending, embedded, scan>>

\* SELECT ... FROM sources.
Start(s) ==
    /\ scan[s].at = "idle"
    /\ scan' = [scan EXCEPT ![s] = [Away EXCEPT !.at = "started", !.mark = watermark]]
    /\ excused' = IF \E x \in Scans \ {s} : scan[x].at # "idle" THEN Keys ELSE excused
    /\ UNCHANGED <<rows, open, clock, watermark, pending, vectors, embedded, deleted>>

Later(mark) == {k \in Keys : rows[k].text # 0 /\ rows[k].at > mark}

\* buildCandidateSql: the first of the rows after the mark, ties in any order.
IsBatch(S, mark) ==
    /\ S \subseteq Later(mark) /\ Cardinality(S) <= BatchSize
    /\ Cardinality(S) = BatchSize \/ S = Later(mark)
    /\ \A k \in S, x \in Later(mark) \ S : rows[k].at <= rows[x].at

\* Rows that the LIMIT cut off, at the very time up to which the batch is examined.
CutOff(S, mark) ==
    {x \in Later(mark) \ S : \E k \in S : rows[x].at <= Floor(rows[k].at)}

Candidates(s, S) ==
    /\ scan[s].at = "started" /\ IsBatch(S, scan[s].mark)
    /\ scan' = [scan EXCEPT ![s] = [scan[s] EXCEPT
                    !.at = IF S = {} THEN "process" ELSE "candidates",
                    !.got = [k \in S |-> rows[k]]]]
    /\ excused' = excused \union CutOff(S, scan[s].mark)
    /\ UNCHANGED <<rows, open, clock, watermark, pending, vectors, embedded, deleted>>

\* diffRows against embedded_state.
Diff(s) ==
    /\ scan[s].at = "candidates"
    /\ LET got == scan[s].got
       IN  scan' = [scan EXCEPT ![s] = [scan[s] EXCEPT !.at = "marking",
                       !.left = {k \in DOMAIN got : embedded[k] # got[k].text}]]
    /\ UNCHANGED <<rows, open, clock, watermark, pending, vectors, embedded, deleted, excused>>

\* INSERT ... ON CONFLICT DO UPDATE SET detected_at = now().
Mark(s, k) ==
    /\ scan[s].at = "marking" /\ k \in scan[s].left
    /\ pending' = [x \in Pending \union {k} |->
                     (IF x = k THEN Pending ELSE pending[x]) \ {k}]
    /\ scan' = [scan EXCEPT ![s] = [scan[s] EXCEPT !.left = scan[s].left \ {k}]]
    /\ UNCHANGED <<rows, open, clock, watermark, vectors, embedded, deleted, excused>>

\* The mark follows the time of the scan.
IsNow(s, mark) == mark = clock

\* nextWatermark: the last row that was examined, in milliseconds, and never backwards.
IsNextMark(s, mark) ==
    LET got == scan[s].got
        examined == {Floor(got[k].at) : k \in DOMAIN got} \union {Floor(scan[s].mark)}
    IN  mark \in examined /\ \A x \in examined : x <= mark

Advance(s, mark) ==
    /\ scan[s].at = "marking" /\ scan[s].left = {} /\ IsNextMark(s, mark)
    /\ watermark' = mark
    /\ scan' = [scan EXCEPT ![s] = [Away EXCEPT !.at = "process"]]
    /\ UNCHANGED <<rows, open, clock, pending, vectors, embedded, deleted, excused>>

\* processPending: the oldest of the pending keys ...
TakePending(s, S) ==
    /\ scan[s].at = "process"
    /\ S \subseteq Pending /\ \A k \in S : pending[k] \subseteq S
    /\ Cardinality(S) <= BatchSize /\ (Cardinality(S) = BatchSize \/ S = Pending)
    /\ scan' = [scan EXCEPT ![s] = IF S = {} THEN Away
                                   ELSE [Away EXCEPT !.at = "taken", !.left = S]]
    /\ UNCHANGED <<rows, open, clock, watermark, pending, vectors, embedded, deleted, excused>>

\* ... and their text as it is then.  A key without a row stays pending.
ReadRows(s) ==
    /\ scan[s].at = "taken"
    /\ LET there == {k \in scan[s].left : rows[k].text # 0}
       IN  scan' = [scan EXCEPT ![s] = [scan[s] EXCEPT
                    !.at = "embedding", !.left = there, !.got = [k \in there |-> rows[k]]]]
    /\ UNCHANGED <<rows, open, clock, watermark, pending, vectors, embedded, deleted, excused>>

\* The provider answered for the whole batch: row by row the vector, which updates nothing
\* when the row is gone,
SaveVector(s, k) ==
    /\ scan[s].at = "embedding" /\ k \in scan[s].left
    /\ vectors' = [vectors EXCEPT ![k] = IF rows[k].text # 0 THEN scan[s].got[k].text ELSE @]
    /\ scan' = [scan EXCEPT ![s] = [scan[s] EXCEPT !.at = "vector", !.key = k]]
    /\ UNCHANGED <<rows, open, clock, watermark, pending, embedded, deleted, excused>>

\* its hash,
SaveState(s, k) ==
    /\ scan[s].at = "vector" /\ k = scan[s].key
    /\ embedded' = [embedded EXCEPT ![k] = scan[s].got[k].text]
    /\ scan' = [scan EXCEPT ![s] = [scan[s] EXCEPT !.at = "state"]]
    /\ UNCHANGED <<rows, open, clock, watermark, pending, vectors, deleted, excused>>

\* and the mark of the key, whoever set it.
Unmark(s, k) ==
    /\ scan[s].at = "state" /\ k = scan[s].key
    /\ pending' = [x \in Pending \ {k} |-> pending[x] \ {k}]
    /\ scan' = [scan EXCEPT ![s] = [scan[s] EXCEPT
                    !.at = "embedding", !.left = scan[s].left \ {k}, !.key = ""]]
    /\ UNCHANGED <<rows, open, clock, watermark, vectors, embedded, deleted, excused>>

EndScan(s) ==
    /\ scan[s].at = "embedding" /\ scan[s].left = {}
    /\ scan' = [scan EXCEPT ![s] = Away]
    /\ UNCHANGED <<rows, open, clock, watermark, pending, vectors, embedded, deleted, excused>>

\* The provider or a statement fails, or the function dies.
Die(s) ==
    /\ scan[s].at # "idle" /\ scan' = [scan EXCEPT ![s] = Away]
    /\ UNCHANGED <<rows, open, clock, watermark, pending, vectors, embedded, deleted, excused>>

Next ==
    \/ Begin
    \/ \E t \in open, S \in SUBSET Keys, text \in Texts \union {0} : Commit(t, S, text)
    \/ \E s \in Scans :
          \/ Start(s) \/ Diff(s) \/ ReadRows(s) \/ EndScan(s) \/ Die(s)
          \/ \E S \in SUBSET Keys : Candidates(s, S) \/ TakePending(s, S)
          \/ \E mark \in 0..clock : Advance(s, mark)
          \/ \E k \in Keys : Mark(s, k) \/ SaveVector(s, k) \/ SaveState(s, k) \/ Unmark(s, k)

Spec == Init /\ [][Next]_vars

-----------------------------------------------------------------------------
TypeOK ==
    /\ \A k \in Keys : rows[k].text \in Texts \union {0} /\ rows[k].at <= clock
    /\ watermark <= clock /\ Pending \subseteq Keys /\ deleted \union excused \subseteq Keys
    /\ \A s \in Scans : scan[s].at \in {"idle", "started", "candidates", "marking", "process",
                                        "taken", "embedding", "vector", "state"}

Stale(k) == rows[k].text # 0 /\ vectors[k] # rows[k].text

\* The vector went with a row that was deleted, and the hash stayed ...
Lost(k) == k \in deleted /\ vectors[k] = 0

\* ... so that the same text in a new row passes for embedded.
Mistaken(k) == Lost(k) /\ embedded[k] = rows[k].text

Due(k) == Stale(k) /\ ~Mistaken(k)

\* A stale vector is never forgotten: its key is pending, or the watermark has still to
\* reach its row.  That holds of a source whose scans do not overlap, for rows that no scan
\* overtook while their transaction was under way, that the LIMIT of a batch did not
\* separate from others of the same updated_at, and that do not bring back the text of a
\* deleted row.
Fresh == \A k \in Keys \ excused : Due(k) => k \in Pending \/ rows[k].at > watermark

\* Where the stored hash is not that of the vector's text (a scan died between the two
\* writes), the key is still pending: a text that went back is not mistaken for embedded,
\* unless its row was deleted in between.
HashHeals == \A k \in Keys \ excused : embedded[k] # vectors[k] => k \in Pending \/ Lost(k)

Safety == TypeOK /\ Fresh /\ HashHeals

\* No text is edited without its embedding being regenerated, or due to be.
NothingForgotten ==
    \A k \in Keys : Stale(k) =>
        \/ k \in Pending \/ rows[k].at > watermark
        \/ \E s \in Scans : scan[s].at # "idle"

\* A row that comes back is embedded, or due to be.
ReturnedIsEmbedded ==
    \A k \in (deleted \ excused) : Stale(k) => k \in Pending \/ rows[k].at > watermark

-----------------------------------------------------------------------------
(* The inductive invariant: what a scan that runs alone may rely on.        *)

\* It is at the vectors of the keys that it took.
Embedding(s) == scan[s].at \in {"embedding", "vector", "state"}

Shape ==
    /\ rows \in [Keys -> [text : Texts \union {0}, at : 0..clock]]
    /\ clock \in Nat /\ watermark \in Int /\ watermark <= clock /\ open \subseteq 0..clock
    /\ Pending \subseteq Keys /\ deleted \union excused \subseteq Keys
    /\ vectors = [k \in Keys |-> vectors[k]] /\ embedded = [k \in Keys |-> embedded[k]]

IsScan(r) ==
    /\ DOMAIN r = {"at", "mark", "got", "left", "key"}
    /\ r.at \in {"idle", "started", "candidates", "marking", "process",
                 "taken", "embedding", "vector", "state"}
    /\ r.mark \in Int /\ r.mark <= clock
    /\ DOMAIN r.got \subseteq Keys /\ r.left \subseteq Keys
    /\ \A k \in DOMAIN r.got : r.got[k] \in [text : Texts \union {0}, at : 0..clock]

\* While a key is not excused, one scan runs, and from the watermark that it read.
Alone(k) ==
    /\ \A s, x \in Scans : scan[s].at # "idle" /\ scan[x].at # "idle" => s = x
    /\ \A s \in Scans :
          scan[s].at \in {"started", "candidates", "marking"} => scan[s].mark = watermark

\* A row is after the mark that the scan will set.
Beyond(s, k) ==
    /\ rows[k].at > Floor(scan[s].mark)
    /\ \A x \in DOMAIN scan[s].got : rows[k].at > Floor(scan[s].got[x].at)

\* What the scan has under way for a key whose vector it must replace.
Detected(s, k) ==
    /\ scan[s].at = "candidates" /\ Due(k) =>
          \/ k \in Pending \/ Beyond(s, k)
          \/ k \in DOMAIN scan[s].got /\ scan[s].got[k].text = rows[k].text
    /\ scan[s].at = "marking" /\ Due(k) => k \in Pending \/ Beyond(s, k) \/ k \in scan[s].left

\* What it has under way for a key that it embeds.
Held(s, k) ==
    /\ scan[s].at = "taken" /\ k \in scan[s].left => k \in Pending
    /\ Embedding(s) /\ k \in scan[s].left =>
          /\ k \in Pending /\ k \in DOMAIN scan[s].got
          /\ rows[k].text \in {0, scan[s].got[k].text} \/ rows[k].at > watermark
          /\ rows[k].text = 0 => Lost(k)
    /\ scan[s].at \in {"vector", "state"} /\ k = scan[s].key =>
          k \in scan[s].left /\ (vectors[k] = scan[s].got[k].text \/ Lost(k))
    /\ scan[s].at = "state" /\ k = scan[s].key => embedded[k] = scan[s].got[k].text

KeyInv(k) ==
    /\ Alone(k)
    /\ Due(k) => k \in Pending \/ rows[k].at > watermark
    /\ embedded[k] # vectors[k] => k \in Pending \/ Lost(k)
    /\ \A s \in Scans : Detected(s, k) /\ Held(s, k)

ScanShape == scan = [s \in Scans |-> scan[s]] /\ \A s \in Scans : IsScan(scan[s])

IInv == Shape /\ ScanShape /\ \A k \in Keys \ excused : KeyInv(k)

\* There are timestamps in a millisecond.
Sane == Grain \in Nat \ {0}
=============================================================================
