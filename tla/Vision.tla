-------------------------------- MODULE Vision --------------------------------
(***************************************************************************)
(* Image analysis (blocks/vision): the storage trigger POST /analyze and   *)
(* the cron run POST /reconcile, both of which run analyzeObject.          *)
(*                                                                         *)
(* The etag of an object stands for its bytes, so that bytes that come     *)
(* back have their old etag.  A statement, a storage call and the model's  *)
(* answer are one action each.  An analysis ends with an exception, or its *)
(* function dies, at every step.                                           *)
(***************************************************************************)
EXTENDS Naturals, Sequences

CONSTANTS Listing,      \* the keys in the order of the listing
          Listed,       \* keys an image may hide behind (image extension, or none)
          Kind,         \* key -> "image", "other" or "big", what HEAD tells
          Etags,        \* 1..n
          PageSize,     \* maxKeys of the listing (500)
          Batch,        \* analyses per sweep (10)
          MaxUploads, MaxCalls, MaxOverlaps  \* bounds

VARIABLES object,       \* key -> etag, 0 when there is none
          analyses,     \* <<key, etag>> -> [status, of]: the row, the bytes the answer is about
          analyst,      \* who -> [at, key, etag]
          todo,         \* keys the sweep has still to analyse
          listing,      \* the sweep's page: <<key, etag>> pairs, in order
          uploads, calls,
          paid,         \* <<key, etag>> -> answers asked for, less those that failed or were lost
          overlaps      \* <<key, etag>> -> analyses begun while another was busy with it

vars == <<object, analyses, analyst, todo, listing, uploads, calls, paid, overlaps>>

Keys == {Listing[i] : i \in 1..Len(Listing)}
Images == Keys \X Etags
Who == {"event", "sweep"}
Away == [at |-> "idle", key |-> Listing[1], etag |-> 0]

Init ==
    /\ object = [k \in Keys |-> 0]
    /\ analyses = [i \in Images |-> [status |-> "none", of |-> 0]]
    /\ analyst = [w \in Who |-> Away]
    /\ todo = <<>> /\ listing = <<>> /\ uploads = 0 /\ calls = 0
    /\ paid = [i \in Images |-> 0] /\ overlaps = [i \in Images |-> 0]

\* An upload, an overwrite (back to earlier bytes too) or a deletion.
Write(k, e) ==
    /\ uploads < MaxUploads /\ e # object[k]
    /\ object' = [object EXCEPT ![k] = e] /\ uploads' = uploads + 1
    /\ UNCHANGED <<analyses, analyst, todo, listing, calls, paid, overlaps>>

\* The trigger names a key, any number of times.
Deliver(w, k) ==
    /\ w # "sweep" /\ analyst[w].at = "idle" /\ uploads > 0
    /\ analyst' = [analyst EXCEPT ![w] = [Away EXCEPT !.at = "head", !.key = k]]
    /\ UNCHANGED <<object, analyses, todo, listing, uploads, calls, paid, overlaps>>

SetRow(i, status) == analyses' = [analyses EXCEPT ![i].status = status]

\* HEAD: what is gone leaves no row; what is no image, or too big, is recorded as skipped.
HeadObject(w) ==
    /\ analyst[w].at = "head"
    /\ LET k == analyst[w].key
           e == object[k]
       IN  IF e # 0 /\ Kind[k] = "image"
           THEN /\ analyst' = [analyst EXCEPT ![w].at = "check", ![w].etag = e]
                /\ UNCHANGED analyses
           ELSE /\ analyst' = [analyst EXCEPT ![w] = Away]
                /\ IF e = 0 THEN UNCHANGED analyses ELSE SetRow(<<k, e>>, "skipped")
    /\ UNCHANGED <<object, todo, listing, uploads, calls, paid, overlaps>>

Image(w) == <<analyst[w].key, analyst[w].etag>>
Busy(w) == analyst[w].at \in {"checked", "pending", "asked"}
On(w, i) == Busy(w) /\ Image(w) = i

\* One that was asked about is not asked about again.
NeverReady(i) == FALSE

\* The row that says an analysis of this etag is there.
IsReady(i) == analyses[i].status = "ready"

Check(w) ==
    /\ analyst[w].at = "check"
    /\ LET i == Image(w)
       IN  IF IsReady(i)
           THEN analyst' = [analyst EXCEPT ![w] = Away] /\ UNCHANGED overlaps
           ELSE /\ analyst' = [analyst EXCEPT ![w].at = "checked"]
                /\ IF \A x \in Who \ {w} : ~On(x, i) THEN UNCHANGED overlaps
                   ELSE overlaps[i] < MaxOverlaps /\ overlaps' = [overlaps EXCEPT ![i] = @ + 1]
    /\ UNCHANGED <<object, analyses, todo, listing, uploads, calls, paid>>

\* record: the row becomes 'pending', whatever it was.
Pend(w) ==
    /\ analyst[w].at = "checked"
    /\ SetRow(Image(w), "pending")
    /\ analyst' = [analyst EXCEPT ![w].at = "pending"]
    /\ UNCHANGED <<object, todo, listing, uploads, calls, paid, overlaps>>

\* The model fetches the presigned URL: the bytes of now, which it answers for.
Ask(w) ==
    /\ analyst[w].at = "pending" /\ object[analyst[w].key] # 0 /\ calls < MaxCalls
    /\ calls' = calls + 1
    /\ paid' = [paid EXCEPT ![Image(w)] = @ + 1]
    /\ analyst' = [analyst EXCEPT ![w].at = "asked"]
    /\ UNCHANGED <<object, analyses, todo, listing, uploads, overlaps>>

\* The answer is an object: everything in the row is replaced.
Save(w) ==
    /\ analyst[w].at = "asked"
    /\ analyses' = [analyses EXCEPT ![Image(w)] =
                       [status |-> "ready", of |-> object[analyst[w].key]]]
    /\ analyst' = [analyst EXCEPT ![w] = Away]
    /\ UNCHANGED <<object, todo, listing, uploads, calls, paid, overlaps>>

LoseCall(w) == paid' = IF analyst[w].at = "asked" THEN [paid EXCEPT ![Image(w)] = @ - 1] ELSE paid

\* No answer, one that holds no JSON object, or a failed UPDATE: recorded as failed.
Fail(w) ==
    /\ analyst[w].at \in {"pending", "asked"}
    /\ SetRow(Image(w), "failed") /\ LoseCall(w)
    /\ analyst' = [analyst EXCEPT ![w] = Away]
    /\ UNCHANGED <<object, todo, listing, uploads, calls, overlaps>>

\* The function dies, or a statement outside the try block fails.
Die(w) ==
    /\ analyst[w].at # "idle" /\ LoseCall(w)
    /\ analyst' = [analyst EXCEPT ![w] = Away]
    /\ todo' = IF w = "sweep" THEN <<>> ELSE todo
    /\ listing' = IF w = "sweep" THEN <<>> ELSE listing
    /\ UNCHANGED <<object, analyses, uploads, calls, overlaps>>

FirstOf(seq, n) == SubSeq(seq, 1, IF Len(seq) < n THEN Len(seq) ELSE n)

\* reconcile: the first page, less the keys that cannot be images.
List ==
    /\ analyst["sweep"].at = "idle" /\ todo = <<>> /\ listing = <<>> /\ uploads > 0
    /\ LET page == FirstOf(SelectSeq(Listing, LAMBDA k : object[k] # 0), PageSize)
           held == SelectSeq(page, LAMBDA k : k \in Listed)
       IN  listing' = [j \in 1..Len(held) |-> <<held[j], object[held[j]]>>]
    /\ UNCHANGED <<object, analyses, analyst, todo, uploads, calls, paid, overlaps>>

\* ... less those that are done at the listed etag, and no more than a batch of them.
Diff ==
    /\ listing # <<>>
    /\ LET left == SelectSeq(listing, LAMBDA i : analyses[i].status \notin {"ready", "skipped"})
           now == FirstOf(left, Batch)
       IN  todo' = [j \in 1..Len(now) |-> now[j][1]]
    /\ listing' = <<>>
    /\ UNCHANGED <<object, analyses, analyst, uploads, calls, paid, overlaps>>

NextImage(k) ==
    /\ todo # <<>> /\ k = todo[1] /\ analyst["sweep"].at = "idle"
    /\ analyst' = [analyst EXCEPT !["sweep"] = [Away EXCEPT !.at = "head", !.key = k]]
    /\ todo' = Tail(todo)
    /\ UNCHANGED <<object, analyses, listing, uploads, calls, paid, overlaps>>

Next ==
    \/ \E k \in Keys :
          (\E e \in Etags \union {0} : Write(k, e)) \/ (\E w \in Who : Deliver(w, k)) \/ NextImage(k)
    \/ List \/ Diff
    \/ \E w \in Who :
          HeadObject(w) \/ Check(w) \/ Pend(w) \/ Ask(w) \/ Save(w) \/ Fail(w) \/ Die(w)

Spec == Init /\ [][Next]_vars

-----------------------------------------------------------------------------
TypeOK ==
    /\ object \in [Keys -> Etags \union {0}]
    /\ analyses \in [Images -> [status : {"none", "pending", "ready", "failed", "skipped"},
                                of : Etags \union {0}]]
    /\ \A w \in Who : analyst[w].at \in {"idle", "head", "check", "checked", "pending", "asked"}
    /\ paid \in [Images -> Nat] /\ overlaps \in [Images -> Nat]

\* An etag costs one answered call, and one more at most for each analysis that began while
\* another was busy with it, however often it is delivered, swept or overwritten and back; once
\* all of these are paid for and nobody is busy with it, an answer is in the row.
PaidOnce ==
    \A i \in Images :
        /\ paid[i] <= 1 + overlaps[i]
        /\ paid[i] > overlaps[i] /\ (\A w \in Who : ~On(w, i)) => analyses[i].status = "ready"

Safety == TypeOK /\ PaidOnce

\* An unchanged image is never analysed again.
AnalysedOnce == \A i \in Images : paid[i] <= 1

\* The row of an etag describes the bytes that have this etag.
DescribesItsBytes == \A i \in Images : analyses[i].status = "ready" => analyses[i].of = i[2]

-----------------------------------------------------------------------------
(* Why Safety holds: an analyst that begins alone with an etag found its   *)
(* row not ready, so that the answer the etag may cost is still to come;   *)
(* every other analyst that begins is an overlap.                          *)

Analysis == [status : {"none", "pending", "ready", "failed", "skipped"}, of : Etags \union {0}]
Analyst == [at : {"idle", "head", "check", "checked", "pending", "asked"},
            key : Keys \union {Listing[1]}, etag : Etags \union {0}]

Shape ==
    /\ object \in [Keys -> Etags \union {0}] /\ analyses \in [Images -> Analysis]
    /\ analyst \in [Who -> Analyst] /\ paid \in [Images -> Nat] /\ overlaps \in [Images -> Nat]
    /\ \A w \in Who :
          /\ analyst[w].at # "idle" => analyst[w].key \in Keys
          /\ analyst[w].at \notin {"idle", "head"} =>
                analyst[w].etag \in Etags /\ Kind[analyst[w].key] = "image"

Asked(w, i) == analyst[w].at = "asked" /\ Image(w) = i

\* Each call that is under way is counted, and only images are asked about.
Counted ==
    /\ \A i \in Images, w \in Who : Asked(w, i) => paid[i] >= 1
    /\ \A i \in Images, w, x \in Who : Asked(w, i) /\ Asked(x, i) /\ w # x => paid[i] >= 2
    /\ \A i \in Images : paid[i] > 0 => Kind[i[1]] = "image"

\* Paid for, and still to be asked by an analyst that is busy.
Due(w, i) == IF On(w, i) /\ ~Asked(w, i) THEN 1 ELSE 0
Covered == \A i \in Images : paid[i] + Due("event", i) + Due("sweep", i) <= 1 + overlaps[i]

IInv == Shape /\ Counted /\ Covered /\ PaidOnce
=============================================================================
