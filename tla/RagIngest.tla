------------------------------ MODULE RagIngest ------------------------------
(***************************************************************************)
(* Document search (blocks/rag): the storage trigger POST /ingest, the     *)
(* cron run POST /reconcile and what POST /search can find.                *)
(*                                                                         *)
(* A document is a version <<key, etag>> of an object; the etag stands for *)
(* the content.  A chunk is known by its index, the content and the model  *)
(* of its vector.  A deployment fixes the model and how many chunks a      *)
(* content has.  A statement, a storage call or a call of the gateway is   *)
(* one action.                                                             *)
(***************************************************************************)
EXTENDS Naturals, FiniteSets

CONSTANTS Documents,     \* the versions there can be, <<key, etag>>
          NoText,        \* contents that are skipped
          TooLarge,      \* deployment -> contents over its RAG_MAX_BYTES
          ChunkCount,    \* deployment -> content -> chunks
          MaxObjects,    \* limit of the listing
          MaxEvents      \* bounds writes of clients, deliveries and runs

VARIABLES bucket,        \* key -> etag of its object, 0 when it is gone
          document,      \* version -> [status, deleted, hash, model, count]
          chunks,        \* version -> {<<index, content, model>>}
          deployed,
          ingester,      \* "event", "run" -> [at, doc, body, by]
          reused,        \* ... -> chunks it has copied
          sweep,         \* step of the reconcile run
          listed,        \* versions it listed
          cut,           \* the listing was truncated
          missing,       \* keys it has yet to ingest
          alone,         \* history: nobody else has acted since the listing
          copied,        \* history: documents with chunks copied from a twin
          overlapped,    \* history: two ingests were in one document at a time
          events         \* counter for the bound

vars == <<bucket, document, chunks, deployed, ingester, reused, sweep, listed, cut, missing,
          alone, copied, overlapped, events>>
sweepVars == <<sweep, listed, cut, missing>>

Keys == {d[1] : d \in Documents}
Etags == {d[2] : d \in Documents}
Callers == {"event", "run"}
Resting == [at |-> "idle", doc |-> <<0, 0>>, body |-> 0, by |-> 0]
NoDocument == [status |-> "none", deleted |-> FALSE, hash |-> 0, model |-> 0, count |-> 0]
Working(p, d) == ingester[p].doc = d /\ ingester[p].at \notin {"idle", "headed", "found"}

Init ==
    /\ bucket = [k \in Keys |-> 0]
    /\ document = [d \in Documents |-> NoDocument]
    /\ chunks = [d \in Documents |-> {}]
    /\ deployed = 1
    /\ ingester = [p \in Callers |-> Resting] /\ reused = [p \in Callers |-> 0]
    /\ sweep = "idle" /\ listed = {} /\ cut = FALSE /\ missing = {}
    /\ alone = FALSE /\ copied = {} /\ overlapped = FALSE
    /\ events = 0

Count == events < MaxEvents /\ events' = events + 1

\* Clients write, overwrite and delete objects.
Store(k, e) ==
    /\ bucket[k] # e /\ <<k, e>> \in Documents \union {<<k, 0>>}
    /\ bucket' = [bucket EXCEPT ![k] = e]
    /\ Count /\ alone' = FALSE
    /\ UNCHANGED <<document, chunks, deployed, ingester, reused, sweepVars, copied, overlapped>>

\* Another model, or another chunk size.
Redeploy ==
    /\ deployed + 1 \in DOMAIN ChunkCount /\ deployed' = deployed + 1
    /\ UNCHANGED <<bucket, document, chunks, ingester, reused, sweepVars, alone, copied, overlapped,
                   events>>

-----------------------------------------------------------------------------
(* ingestObject                                                            *)

Step(p, at) == ingester' = [ingester EXCEPT ![p].at = at]
Move(p, at) == Step(p, at) /\ UNCHANGED reused
End(p) ==
    /\ ingester' = [ingester EXCEPT ![p] = Resting] /\ reused' = [reused EXCEPT ![p] = 0]
SetDocument(d, row) == document' = [document EXCEPT ![d] = row]
Own(p) == alone' = (alone /\ p = "run")

\* headVerified: without an object nothing is written.
Head(p, k) ==
    /\ ingester[p].at = "idle" /\ bucket[k] > 0
    /\ ingester' = [ingester EXCEPT ![p] = [at |-> "headed", doc |-> <<k, bucket[k]>>,
                                            body |-> 0, by |-> deployed]]
    /\ UNCHANGED reused

\* The trigger delivers an event late, twice or never.
Deliver(k) ==
    /\ Head("event", k) /\ alone' = FALSE
    /\ Count
    /\ UNCHANGED <<bucket, document, chunks, deployed, sweepVars, copied, overlapped>>

IsReady(d) == document[d].status = "ready" /\ ~document[d].deleted

\* What is over the limit is upserted as skipped, whatever it was.
SkipLarge(p) ==
    LET d == ingester[p].doc
    IN  /\ ingester[p].at = "headed" /\ d[2] \in TooLarge[ingester[p].by]
        /\ SetDocument(d, [document[d] EXCEPT !.status = "skipped", !.deleted = FALSE])
        /\ End(p) /\ Own(p)
        /\ UNCHANGED <<bucket, chunks, deployed, sweepVars, copied, overlapped, events>>

FindReady(p) ==
    /\ ingester[p].at = "headed" /\ ingester[p].doc[2] \notin TooLarge[ingester[p].by]
    /\ IF IsReady(ingester[p].doc) THEN End(p) ELSE Move(p, "found")
    /\ Own(p)
    /\ UNCHANGED <<bucket, document, chunks, deployed, sweepVars, copied, overlapped, events>>

\* upsertDocument clears the deletion.
Upsert(p) ==
    LET d == ingester[p].doc
    IN  /\ ingester[p].at = "found"
        /\ SetDocument(d, [document[d] EXCEPT !.status = "extracting", !.deleted = FALSE])
        /\ Move(p, "upserted") /\ Own(p)
        /\ overlapped' = (overlapped \/ \E q \in Callers : Working(q, d))
        /\ UNCHANGED <<bucket, chunks, deployed, sweepVars, copied, events>>

\* getObject reads the object of now, unless it is over the limit; a kind without text, or a
\* text without chunks, is skipped.
Extract(p) ==
    LET d == ingester[p].doc
        body == bucket[d[1]]
    IN  /\ ingester[p].at = "upserted" /\ body > 0 /\ body \notin TooLarge[ingester[p].by]
        /\ IF body \in NoText
           THEN SetDocument(d, [document[d] EXCEPT !.status = "skipped"]) /\ End(p)
           ELSE /\ ingester' = [ingester EXCEPT ![p].at = "extracted", ![p].body = body]
                /\ UNCHANGED <<document, reused>>
        /\ Own(p)
        /\ UNCHANGED <<bucket, chunks, deployed, sweepVars, copied, overlapped, events>>

\* copyChunksFromTwin: the chunks of ready documents with the hash and the model, where
\* the document has none of the index.
TwinChunks(d, body, model) ==
    UNION {chunks[t] : t \in {u \in Documents \ {d} : /\ document[u].status = "ready"
                                                      /\ document[u].hash = body
                                                      /\ document[u].model = model}}
CopyTwin(p) ==
    LET d == ingester[p].doc
        own == {c[1] : c \in chunks[d]}
        new == {c \in TwinChunks(d, ingester[p].body, ingester[p].by) : c[1] \notin own}
    IN  /\ ingester[p].at = "extracted"
        /\ \E pick \in SUBSET new :
              /\ {c[1] : c \in pick} = {c[1] : c \in new}
              /\ Cardinality(pick) = Cardinality({c[1] : c \in new})
              /\ chunks' = [chunks EXCEPT ![d] = @ \union pick]
              /\ Step(p, IF pick = {} THEN "fresh" ELSE "copied")
              /\ reused' = [reused EXCEPT ![p] = Cardinality(pick)]
              /\ copied' = IF pick = {} THEN copied ELSE copied \union {d}
        /\ Own(p)
        /\ UNCHANGED <<bucket, document, deployed, sweepVars, overlapped, events>>

SetEmbedding(p) ==
    LET d == ingester[p].doc
    IN  /\ ingester[p].at = "fresh"
        /\ SetDocument(d, [document[d] EXCEPT !.status = "embedding", !.hash = ingester[p].body])
        /\ Move(p, "embedding") /\ Own(p)
        /\ UNCHANGED <<bucket, chunks, deployed, sweepVars, copied, overlapped, events>>

NewChunks(p) ==
    {<<i, ingester[p].body, ingester[p].by>> :
        i \in 1..ChunkCount[ingester[p].by][ingester[p].body]}

\* Those the new ones replace.
ClearedByIndex(p, old) == {c \in old : \A n \in NewChunks(p) : n[1] # c[1]}
\* All.
Cleared(p, old) == {}

\* replaceChunks, after the vectors have come: DELETE, then INSERT, which fails on an
\* index that is taken.
DeleteChunks(p) ==
    LET d == ingester[p].doc
    IN  /\ ingester[p].at = "embedding"
        /\ chunks' = [chunks EXCEPT ![d] = Cleared(p, @)]
        /\ copied' = copied \ {d}
        /\ Move(p, "cleared") /\ Own(p)
        /\ UNCHANGED <<bucket, document, deployed, sweepVars, overlapped, events>>

InsertChunks(p) ==
    LET d == ingester[p].doc
        taken == {c \in chunks[d] : \E n \in NewChunks(p) : n[1] = c[1]}
    IN  /\ ingester[p].at = "cleared"
        /\ chunks' = [chunks EXCEPT ![d] = IF taken = {} THEN @ \union NewChunks(p) ELSE @]
        /\ Move(p, IF taken = {} THEN "inserted" ELSE "failing")
        /\ Own(p)
        /\ UNCHANGED <<bucket, document, deployed, sweepVars, copied, overlapped, events>>

\* With the number of chunks this ingest has copied, or made.
SetReady(p) ==
    LET d == ingester[p].doc
        w == ingester[p]
    IN  /\ w.at \in {"copied", "inserted"}
        /\ SetDocument(d, [document[d] EXCEPT !.status = "ready", !.hash = w.body, !.model = w.by,
              !.count = IF w.at = "inserted" THEN ChunkCount[w.by][w.body] ELSE reused[p]])
        /\ End(p) /\ Own(p)
        /\ UNCHANGED <<bucket, chunks, deployed, sweepVars, copied, overlapped, events>>

\* Any call may fail after the upsert: the failure is recorded, unless the function dies.
Fail(p) ==
    LET d == ingester[p].doc
    IN  /\ ingester[p].at # "idle"
        /\ \/ /\ Working(p, d)
              /\ SetDocument(d, [document[d] EXCEPT !.status = "failed"])
           \/ UNCHANGED document
        /\ End(p) /\ alone' = FALSE
        /\ UNCHANGED <<bucket, chunks, deployed, sweepVars, copied, overlapped, events>>

-----------------------------------------------------------------------------
(* reconcile                                                               *)

Stored == {d \in Documents : bucket[d[1]] = d[2]}
Page == {d \in Stored : Cardinality({c \in Stored : c[1] < d[1]}) < MaxObjects}

List ==
    /\ sweep = "idle" /\ sweep' = "listed" /\ Count
    /\ listed' = Page /\ cut' = (Page # Stored)
    /\ alone' = (ingester["event"] = Resting)
    /\ UNCHANGED <<bucket, document, chunks, deployed, ingester, reused, missing, copied,
                   overlapped>>

\* By the key alone.
KnownByKey(d) ==
    \E c \in Documents : c[1] = d[1] /\ document[c].status # "none" /\ ~document[c].deleted
\* By key and etag: an overwritten object is missing.
IsKnown(d) == document[d].status # "none" /\ ~document[d].deleted

Diff ==
    /\ sweep = "listed" /\ sweep' = "diffed"
    /\ missing' = {d[1] : d \in {c \in listed : ~IsKnown(c)}}
    /\ UNCHANGED <<bucket, document, chunks, deployed, ingester, reused, listed, cut, alone, copied,
                   overlapped, events>>

\* Orphans, from a complete listing only.
MarkOrphans ==
    /\ sweep = "diffed" /\ sweep' = "marked"
    /\ document' = [d \in Documents |->
          IF ~cut /\ IsKnown(d) /\ (\A c \in listed : c[1] # d[1])
          THEN [document[d] EXCEPT !.status = "deleted", !.deleted = TRUE] ELSE document[d]]
    /\ UNCHANGED <<bucket, chunks, deployed, ingester, reused, listed, cut, missing, alone, copied,
                   overlapped, events>>

\* Those that no statement has touched for an hour.
ResetStuck ==
    /\ sweep = "marked" /\ sweep' = "ingesting"
    /\ \E S \in SUBSET {d \in Documents : document[d].status \in {"extracting", "embedding"}} :
          document' = [d \in Documents |->
              IF d \in S THEN [document[d] EXCEPT !.status = "pending"] ELSE document[d]]
    /\ UNCHANGED <<bucket, chunks, deployed, ingester, reused, listed, cut, missing, alone, copied,
                   overlapped, events>>

IngestMissing ==
    /\ sweep = "ingesting"
    /\ \E k \in missing : Head("run", k) /\ missing' = missing \ {k}
    /\ UNCHANGED <<bucket, document, chunks, deployed, sweep, listed, cut, alone, copied,
                   overlapped, events>>

EndSweep ==
    /\ sweep # "idle" /\ ingester["run"] = Resting
    /\ sweep' = "idle" /\ listed' = {} /\ cut' = FALSE /\ missing' = {} /\ alone' = FALSE
    /\ UNCHANGED <<bucket, document, chunks, deployed, ingester, reused, copied,
                   overlapped, events>>

Next ==
    \/ \E k \in Keys : Deliver(k) \/ \E e \in Etags \union {0} : Store(k, e)
    \/ Redeploy
    \/ \E p \in Callers :
          \/ SkipLarge(p) \/ FindReady(p) \/ Upsert(p) \/ Extract(p) \/ CopyTwin(p)
          \/ SetEmbedding(p) \/ DeleteChunks(p) \/ InsertChunks(p) \/ SetReady(p) \/ Fail(p)
    \/ List \/ Diff \/ MarkOrphans \/ ResetStuck \/ IngestMissing \/ EndSweep

Spec == Init /\ [][Next]_vars

-----------------------------------------------------------------------------
TypeOK ==
    /\ bucket \in [Keys -> Etags \union {0}]
    /\ \A d \in Documents : document[d].status \in
          {"none", "pending", "extracting", "embedding", "ready", "skipped", "failed", "deleted"}
    /\ \A p \in Callers : ingester[p].at \in
          {"idle", "headed", "found", "upserted", "extracted", "copied", "fresh", "embedding",
           "cleared", "inserted", "failing"}
    /\ listed \subseteq Documents /\ missing \subseteq Keys /\ copied \subseteq Documents
    /\ deployed \in DOMAIN ChunkCount
    /\ cut \in BOOLEAN /\ alone \in BOOLEAN /\ overlapped \in BOOLEAN

\* As long as no two ingests were in one document at a time, a ready document whose chunks
\* were embedded for it, and not copied from a twin, has the chunks of one text and one
\* model, all of them and no other, although ingests of it died half way, of another text,
\* model or chunk size.  ReadyIsWhole, without the two conditions, does not hold.
EmbeddedIsWhole ==
    \A d \in Documents : document[d].status = "ready" /\ d \notin copied /\ ~overlapped =>
        chunks[d] = {<<i, document[d].hash, document[d].model>> : i \in 1..document[d].count}

Live(d) == document[d].status # "none" /\ ~document[d].deleted

\* After a run that nobody disturbed every object it listed has a document of the
\* version it has, and every document of a key without an object is marked as deleted,
\* also one whose ingest was still under way when an earlier run marked it.
ReconciledCovers ==
    sweep = "ingesting" /\ alone /\ missing = {} /\ ingester["run"] = Resting =>
        /\ \A d \in listed : Live(d)
        /\ cut \/ \A d \in Documents : bucket[d[1]] = 0 => ~Live(d)

Safety == TypeOK /\ EmbeddedIsWhole /\ ReconciledCovers

\* Every ready document is whole, also with chunks copied from a twin.
ReadyIsWhole ==
    \A d \in Documents : document[d].status = "ready" =>
        chunks[d] = {<<i, document[d].hash, document[d].model>> : i \in 1..document[d].count}

\* Once the version an object has is ready, its older versions are not found any more.
SearchIsFresh ==
    \A d \in Stored : IsReady(d) => \A c \in Documents \ Stored : c[1] = d[1] => ~IsReady(c)

\* A document that was reset is retried by the run that reset it.
StuckIsRetried ==
    sweep = "ingesting" /\ alone /\ missing = {} /\ ingester["run"] = Resting =>
        \A d \in listed : document[d].status # "pending"
-----------------------------------------------------------------------------
(* Why Safety holds: an ingest that no other overlaps knows the chunks of  *)
(* its document, which is not ready; and the run of an undisturbed sweep   *)
(* has of each object it listed a live document, or still has to ingest it.*)

Sane == (\A d \in Documents : d = <<d[1], d[2]>> /\ d[2] # 0) /\ 1 \in DOMAIN ChunkCount

RowFields == {"status", "deleted", "hash", "model", "count"}
Ingester == [at : {"idle", "headed", "found", "upserted", "extracted", "copied", "fresh",
                   "embedding", "cleared", "inserted", "failing"},
             doc : Documents \union {<<0, 0>>}, body : Etags \union {0},
             by : DOMAIN ChunkCount \union {0}]

Tables ==
    /\ DOMAIN document = Documents /\ DOMAIN chunks = Documents
    /\ \A d \in Documents : DOMAIN document[d] = RowFields
    /\ \A k \in Keys : bucket[k] # 0 => <<k, bucket[k]>> \in Documents
    /\ ingester \in [Callers -> Ingester]
    /\ \A p \in Callers : IF ingester[p].at = "idle" THEN ingester[p] = Resting
                          ELSE ingester[p].doc \in Documents

Solo ==
    ~overlapped =>
        /\ \A p, q \in Callers, d \in Documents : Working(p, d) /\ Working(q, d) => p = q
        /\ \A p \in Callers, d \in Documents : Working(p, d) =>
              /\ document[d].status # "ready"
              /\ ingester[p].at = "cleared" => chunks[d] = {}
              /\ ingester[p].at = "inserted" => chunks[d] = NewChunks(p)
              /\ ingester[p].at = "copied" => d \in copied

Covered ==
    /\ sweep # "ingesting" => ingester["run"] = Resting
    /\ alone =>
          /\ sweep # "idle" /\ ingester["event"] = Resting
          /\ \A d \in listed : bucket[d[1]] = d[2]
          /\ LET r == ingester["run"]
             IN  /\ r.at # "idle" => bucket[r.doc[1]] = r.doc[2]
                 /\ sweep \in {"diffed", "marked", "ingesting"} =>
                       \A d \in listed :
                           Live(d) \/ d[1] \in missing \/ (r.doc = d /\ r.at \in {"headed", "found"})
          /\ sweep \in {"marked", "ingesting"} /\ ~cut =>
                \A d \in Documents : bucket[d[1]] = 0 => ~Live(d)

IInv == TypeOK /\ Tables /\ Solo /\ Covered /\ EmbeddedIsWhole
=============================================================================
