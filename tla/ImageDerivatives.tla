-------------------------- MODULE ImageDerivatives ---------------------------
(***************************************************************************)
(* Image derivatives (blocks/image-derivatives): GET /i/:key, which makes  *)
(* a derivative on a miss (resize.ts), and the cron run POST /reconcile.   *)
(*                                                                         *)
(* One transform is asked for.  The etag of a source stands for its        *)
(* content; a client may put an older content back.  A derivative is known *)
(* by the content it was made from.  A statement or a storage call is one  *)
(* action; a codec is configured.                                          *)
(***************************************************************************)
EXTENDS Naturals, FiniteSets

CONSTANTS Sources,       \* keys: 1..n, in the listing's order
          Prefixed,      \* those under IMAGES_SOURCE_PREFIX
          Contents,      \* key -> the contents it may have, of 1..n
          BaseName,      \* source -> the last part of its key without the extension
          WithHeight,    \* the transform has a height; the unique constraint holds then
          Requests,      \* requests, under way at once or not; bounds how many come
          Rows,          \* ids of rows; bounds how many are made
          MaxSources,    \* limit of the listing
          MaxPuts,       \* bound
          OverBudget     \* contents with more pixels than IMAGES_MAX_PIXELS

VARIABLES source,        \* key -> its content, 0 when it is gone
          puts,
          derivs,        \* row -> [key, etag, status, marked]; status "none" when free
          files,         \* derivative key <<base name, etag>> -> content it was made from
          request,       \* request -> where it is: [at, key, etag, body, row]
          orphanRun,     \* step of the reconcile run
          seen,          \* sources it listed
          absent,        \* history: sources that were gone when it listed
          batch,         \* orphaned rows it has not come to
          doomed,        \* the one whose file it has deleted, or 0
          wronged        \* history: sources that were there when a run listed and marked their rows

vars == <<source, puts, derivs, files, request, orphanRun, seen, absent, batch, doomed, wronged>>
runVars == <<orphanRun, seen, absent, batch, doomed, wronged>>

NoRow == [key |-> 0, etag |-> 0, status |-> "none", marked |-> FALSE]
NoRequest == [at |-> "idle", key |-> 0, etag |-> 0, body |-> 0, row |-> 0]
Answered == [NoRequest EXCEPT !.at = "answered"]
AllContents == UNION {Contents[k] : k \in Sources}
Names == {BaseName[k] : k \in Sources} \X AllContents
DerivativeKey(r) == <<BaseName[derivs[r].key], derivs[r].etag>>

Init ==
    /\ source = [k \in Sources |-> 0] /\ puts = 0
    /\ derivs = [r \in Rows |-> NoRow]
    /\ files = [n \in Names |-> 0]
    /\ request = [q \in Requests |-> NoRequest]
    /\ orphanRun = "idle" /\ seen = {} /\ absent = {} /\ batch = {} /\ doomed = 0 /\ wronged = {}

PutSource(k, c) ==
    /\ puts < MaxPuts /\ puts' = puts + 1
    /\ source[k] # c /\ source' = [source EXCEPT ![k] = c]
    /\ UNCHANGED <<derivs, files, request, runVars>>

-----------------------------------------------------------------------------
(* GET /i/:key, of any key                                                 *)

Cached(k, e) == {r \in Rows : derivs[r].key = k /\ derivs[r].etag = e /\ derivs[r].status = "ready"}

\* HEAD supplies the etag.
Ask(q, k) ==
    /\ request[q].at = "idle" /\ source[k] > 0
    /\ request' = [request EXCEPT ![q] =
           [at |-> "headed", key |-> k, etag |-> source[k], body |-> 0, row |-> 0]]
    /\ UNCHANGED <<source, puts, derivs, files, runVars>>

IsCached(q) == Cached(request[q].key, request[q].etag) # {}

\* A hit redirects to the derivative, and counts.
Hit(q) ==
    /\ request[q].at = "headed" /\ IsCached(q)
    /\ request' = [request EXCEPT ![q] = Answered]
    /\ UNCHANGED <<source, puts, derivs, files, runVars>>

\* A miss, found by a statement before the one that makes a row of it.
Miss(q) ==
    /\ request[q].at = "headed" /\ ~IsCached(q)
    /\ request' = [request EXCEPT ![q].at = "missed"]
    /\ UNCHANGED <<source, puts, derivs, files, runVars>>

\* The row a miss upserts: nulls are distinct to the unique constraint.
Conflicting(k, e) == {r \in Rows : /\ WithHeight
                                   /\ derivs[r].key = k /\ derivs[r].etag = e
                                   /\ derivs[r].status # "none"}

Upsert(q) ==
    /\ request[q].at = "missed"
    /\ LET k == request[q].key
           e == request[q].etag
           old == Conflicting(k, e)
       IN  \E r \in Rows :
              /\ IF old = {} THEN derivs[r].status = "none" ELSE r \in old
              /\ derivs' = [derivs EXCEPT ![r] =
                    IF old = {} THEN [key |-> k, etag |-> e, status |-> "generating", marked |-> FALSE]
                    ELSE [@ EXCEPT !.status = "generating"]]
              /\ request' = [request EXCEPT ![q] = [@ EXCEPT !.at = "upserted", !.row = r]]
    /\ UNCHANGED <<source, puts, files, runVars>>

\* getObject reads the source as it is by then.
Get(q) ==
    /\ request[q].at = "upserted" /\ source[request[q].key] > 0
    /\ request' = [request EXCEPT ![q] = [@ EXCEPT !.at = "got", !.body = source[request[q].key]]]
    /\ UNCHANGED <<source, puts, derivs, files, runVars>>

\* An update by id: nothing, when the row is gone.
Set(r, status) ==
    derivs' = [derivs EXCEPT ![r].status = IF @ = "none" THEN @ ELSE status]

\* By the content HEAD saw.
FitsAtHead(q) == request[q].etag \notin OverBudget
\* readImageDimensions and withinPixelBudget, of the body.
FitsBudget(q) == request[q].body \notin OverBudget

Reject(q) ==
    /\ request[q].at = "got" /\ ~FitsBudget(q)
    /\ Set(request[q].row, "rejected")
    /\ request' = [request EXCEPT ![q] = Answered]
    /\ UNCHANGED <<source, puts, files, runVars>>

Put(q) ==
    /\ request[q].at = "got" /\ FitsBudget(q)
    /\ files' = [files EXCEPT ![<<BaseName[request[q].key], request[q].etag>>] = request[q].body]
    /\ request' = [request EXCEPT ![q] = [@ EXCEPT !.at = "put", !.body = 0]]
    /\ UNCHANGED <<source, puts, derivs, runVars>>

Ready(q) ==
    /\ request[q].at = "put"
    /\ Set(request[q].row, "ready")
    /\ request' = [request EXCEPT ![q] = Answered]
    /\ UNCHANGED <<source, puts, files, runVars>>

\* A call fails, or the function dies.
FailRequest(q) ==
    /\ request[q].at \notin {"idle", "answered"} /\ request' = [request EXCEPT ![q] = Answered]
    /\ UNCHANGED <<source, puts, derivs, files, runVars>>

-----------------------------------------------------------------------------
(* reconcile                                                               *)

Existing == {k \in Sources : source[k] > 0}

\* Of the sources under the prefix.
ListSources ==
    /\ orphanRun = "idle"
    /\ seen' = {k \in Existing \intersect Prefixed :
                   Cardinality({j \in Existing \intersect Prefixed : j < k}) < MaxSources}
    /\ absent' = Sources \ Existing
    /\ orphanRun' = "listed"
    /\ UNCHANGED <<source, puts, derivs, files, request, batch, doomed, wronged>>

\* Whatever it listed.
Complete == Cardinality(absent \intersect Prefixed) + Cardinality(seen) = Cardinality(Prefixed)
TrustsAnyListing == TRUE
\* Not from a truncated listing.
TrustsListing == Complete

\* The UPDATE takes rows by key alone, ready or not, that no run has marked before;
\* the SELECT after it every row with the status 'orphaned'.
MarkOrphans ==
    /\ orphanRun = "listed" /\ TrustsListing
    /\ LET gone == {r \in Rows : /\ derivs[r].status # "none" /\ ~derivs[r].marked
                                 /\ derivs[r].key \notin seen}
       IN  /\ derivs' = [r \in Rows |->
                 IF r \in gone THEN [derivs[r] EXCEPT !.status = "orphaned", !.marked = TRUE]
                 ELSE derivs[r]]
           /\ wronged' = wronged \union ({derivs[r].key : r \in gone} \ absent)
    /\ batch' = {r \in Rows : derivs'[r].status = "orphaned"}
    /\ orphanRun' = "file" /\ seen' = {} /\ absent' = {}
    /\ UNCHANGED <<source, puts, files, request, doomed>>

\* One by one; a failed call leaves the row as it is.
DeleteFile ==
    /\ orphanRun = "file" /\ doomed = 0
    /\ \E r \in batch :
          /\ batch' = batch \ {r}
          /\ \/ files' = [files EXCEPT ![DerivativeKey(r)] = 0] /\ doomed' = r
             \/ UNCHANGED <<files, doomed>>
    /\ UNCHANGED <<source, puts, derivs, request, orphanRun, seen, absent, wronged>>

DeleteRow ==
    /\ doomed # 0 /\ doomed' = 0
    /\ derivs' = [derivs EXCEPT ![doomed] = NoRow]
    /\ UNCHANGED <<source, puts, files, request, orphanRun, seen, absent, batch, wronged>>

\* The run is over, or dies.
EndRun ==
    /\ orphanRun # "idle"
    /\ orphanRun' = "idle" /\ seen' = {} /\ absent' = {} /\ batch' = {} /\ doomed' = 0
    /\ UNCHANGED <<source, puts, derivs, files, request, wronged>>

Next ==
    \/ \E k \in Sources : \E c \in Contents[k] \union {0} : PutSource(k, c)
    \/ \E q \in Requests :
          \/ \E k \in Sources : Ask(q, k)
          \/ Hit(q) \/ Miss(q) \/ Upsert(q) \/ Get(q) \/ Reject(q) \/ Put(q) \/ Ready(q)
          \/ FailRequest(q)
    \/ ListSources \/ MarkOrphans \/ DeleteFile \/ DeleteRow \/ EndRun

Spec == Init /\ [][Next]_vars

-----------------------------------------------------------------------------
TypeOK ==
    /\ source \in [Sources -> AllContents \union {0}]
    /\ derivs \in [Rows -> [key : Sources \union {0}, etag : AllContents \union {0},
                             status : {"none", "generating", "ready", "rejected", "orphaned"},
                             marked : BOOLEAN]]
    /\ files \in [Names -> AllContents \union {0}]
    /\ orphanRun \in {"idle", "listed", "file"}
    /\ seen \subseteq Prefixed /\ absent \subseteq Sources /\ wronged \subseteq Sources
    /\ batch \subseteq Rows /\ doomed \in Rows \union {0}

\* No source over the pixel budget is ever decoded into a derivative, also when the
\* object is overwritten between its HEAD and its GET.
BudgetHolds == \A n \in Names : files[n] \notin OverBudget

\* No run marks the derivatives of a source under the prefix that was there when it listed,
\* however few of the sources the listing returned.
ListedSourcesKeep == wronged \intersect Prefixed = {}

\* With a height in the transform a version of a source has one row at most, however many
\* requests miss it at once.
OneRowEach ==
    WithHeight => \A q, r \in Rows :
        derivs[q].status # "none" /\ derivs[q].key = derivs[r].key
            /\ derivs[q].etag = derivs[r].etag => q = r

Safety == TypeOK /\ BudgetHolds /\ ListedSourcesKeep /\ OneRowEach

\* reconcile marks derivatives whose source is gone, of every source that GET serves.
LiveSourcesKeep == wronged = {}

\* A derivative that is ready can be fetched.
ReadyHasFile == \A r \in Rows : derivs[r].status = "ready" => files[DerivativeKey(r)] > 0

\* An overwritten source cannot serve a stale derivative.
NeverStale ==
    \A r \in Rows : derivs[r].status = "ready" => files[DerivativeKey(r)] \in {0, derivs[r].etag}

\* Every file in the derivative bucket has a row by which it can be deleted.
FilesAreKnown ==
    \A n \in Names : files[n] > 0 => \E r \in Rows :
        derivs[r].status # "none" /\ DerivativeKey(r) = n
-----------------------------------------------------------------------------
(* Why Safety holds: a free row is empty, a request has what HEAD told,    *)
(* and a source is listed or was gone when the run listed.                 *)

Sane == IsFiniteSet(Sources) /\ Prefixed \subseteq Sources /\ 0 \notin Sources /\ 0 \notin OverBudget

Row == [key : Sources \union {0}, etag : AllContents \union {0},
        status : {"none", "generating", "ready", "rejected", "orphaned"}, marked : BOOLEAN]
Request == [at : {"idle", "headed", "missed", "upserted", "got", "put", "answered"}, key : Sources \union {0},
            etag : AllContents \union {0}, body : AllContents \union {0}, row : Rows \union {0}]

Requested ==
    /\ request \in [Requests -> Request]
    /\ \A q \in Requests :
          /\ request[q].at \notin {"idle", "answered"} => request[q].key \in Sources
          /\ request[q].at \in {"upserted", "got", "put"} => request[q].row \in Rows

RowsAreOfSources ==
    \A r \in Rows : IF derivs[r].status = "none" THEN derivs[r] = NoRow ELSE derivs[r].key \in Sources

Listed == seen \intersect absent = {}

IInv == TypeOK /\ Requested /\ RowsAreOfSources /\ Listed /\ BudgetHolds /\ ListedSourcesKeep /\ OneRowEach
=============================================================================
