---------------------------- MODULE DocExtraction ----------------------------
(***************************************************************************)
(* Document extraction (blocks/doc-extraction): POST /schemas, the storage *)
(* trigger POST /extract with runExtraction, the cron run POST /reconcile  *)
(* and the review queue.                                                   *)
(*                                                                         *)
(* One scanned document of one schema code is written again and again;     *)
(* its etags are numbered.  Of a field in an answer the model knows        *)
(* whether it has a value, and its confidence: a value without one has     *)
(* confidence 0, a field that is missing has neither.                      *)
(***************************************************************************)
EXTENDS Naturals

CONSTANTS Etags,        \* 1..n
          Schemas,      \* the field sets that may be declared for the code
          Confidences,  \* of a field, in steps
          Threshold     \* EXTRACT_CONFIDENCE_THRESHOLD

VARIABLES current,      \* etag of the object, 0 before the first upload
          schema,       \* the fields of the code, {} when it is not declared
          extractions,  \* etag -> [status, fields, doubtful]: the row, and what its answer leaves open
          extractor,    \* delivery -> [at, etag, fields, left]
          queue,        \* <<etag, field>> -> "none", "open" or "reviewed"
          calls,        \* etag -> answers paid for
          lost          \* history: <<etag, field>>, not queued yet when the extractor died

vars == <<current, schema, extractions, extractor, queue, calls, lost>>

Deliveries == {"first", "again"}
Fields == UNION Schemas
Answers(fields) == [fields -> [has : BOOLEAN, conf : Confidences]]
Away == [at |-> "idle", etag |-> 0, fields |-> {}, left |-> {}]

Init ==
    /\ current = 0 /\ schema = {} /\ lost = {}
    /\ extractions = [e \in Etags |-> [status |-> "none", fields |-> {}, doubtful |-> {}]]
    /\ extractor = [p \in Deliveries |-> Away]
    /\ queue = [i \in Etags \X Fields |-> "none"]
    /\ calls = [e \in Etags |-> 0]

Upload ==
    /\ current + 1 \in Etags /\ current' = current + 1
    /\ UNCHANGED <<schema, extractions, extractor, queue, calls, lost>>

\* POST /schemas: an upsert, at any time.
Declare(fields) ==
    /\ schema # fields /\ schema' = fields
    /\ UNCHANGED <<current, extractions, extractor, queue, calls, lost>>

\* A delivery of the trigger, any number of times: HEAD supplies the etag.
Deliver(p) ==
    /\ extractor[p].at = "idle" /\ current # 0
    /\ extractor' = [extractor EXCEPT ![p] = [Away EXCEPT !.at = "seen", !.etag = current]]
    /\ UNCHANGED <<current, schema, extractions, queue, calls, lost>>

\* Without a schema nothing is recorded: the delivery is answered and gone.
ReadSchema(p) ==
    /\ extractor[p].at = "seen"
    /\ extractor' = [extractor EXCEPT ![p] =
                        IF schema = {} THEN Away ELSE [@ EXCEPT !.at = "schema", !.fields = schema]]
    /\ UNCHANGED <<current, schema, extractions, queue, calls, lost>>

\* A failed extraction is taken up again when it is delivered again.
KnownUnlessFailed(e) == extractions[e].status \notin {"none", "failed"}

\* The unique constraint extractions_identity.
Known(e) == extractions[e].status # "none"

Claim(p) ==
    /\ extractor[p].at = "schema"
    /\ LET e == extractor[p].etag
       IN  IF Known(e)
           THEN extractor' = [extractor EXCEPT ![p] = Away] /\ UNCHANGED extractions
           ELSE /\ extractions' = [extractions EXCEPT ![e] =
                      [status |-> "extracting", fields |-> extractor[p].fields, doubtful |-> {}]]
                /\ extractor' = [extractor EXCEPT ![p].at = "claimed"]
    /\ UNCHANGED <<current, schema, queue, calls, lost>>

\* splitByConfidence: what a human has to look at.
Doubtful(fields, answer) ==
    {f \in fields : ~answer[f].has \/ answer[f].conf < Threshold}

\* The answer to the prompt that was built from the claimed schema.
Answer(p, answer) ==
    /\ extractor[p].at = "claimed"
    /\ LET doubtful == Doubtful(extractor[p].fields, answer)
       IN  /\ extractions' = [extractions EXCEPT ![extractor[p].etag].status =
                                 IF doubtful = {} THEN "ready" ELSE "needs_review",
                              ![extractor[p].etag].doubtful = doubtful]
           /\ extractor' = [extractor EXCEPT ![p] =
                  IF doubtful = {} THEN Away ELSE [@ EXCEPT !.at = "queueing", !.left = doubtful]]
    /\ calls' = [calls EXCEPT ![extractor[p].etag] = @ + 1]
    /\ UNCHANGED <<current, schema, queue, lost>>

\* One INSERT per field, in autocommit, with ON CONFLICT (extraction, field) DO UPDATE.
QueueField(p, f) ==
    /\ extractor[p].at = "queueing" /\ f \in extractor[p].left
    /\ queue' = [queue EXCEPT ![<<extractor[p].etag, f>>] = IF @ = "none" THEN "open" ELSE @]
    /\ extractor' = [extractor EXCEPT ![p] =
                        IF @.left = {f} THEN Away ELSE [@ EXCEPT !.left = extractor[p].left \ {f}]]
    /\ UNCHANGED <<current, schema, extractions, calls, lost>>

\* An extractor that stops after its claim has paid for an answer, or has not asked yet.
MayHaveCalled(p) ==
    \/ UNCHANGED calls
    \/ /\ extractor[p].at = "claimed"
       /\ calls' = [calls EXCEPT ![extractor[p].etag] = @ + 1]

\* No answer, one that is no JSON object, or an INSERT that fails: also an extraction
\* whose answer was stored is marked failed.
Fail(p) ==
    /\ extractor[p].at \in {"claimed", "queueing"}
    /\ extractions' = [extractions EXCEPT ![extractor[p].etag].status = "failed"]
    /\ extractor' = [extractor EXCEPT ![p] = Away]
    /\ MayHaveCalled(p)
    /\ UNCHANGED <<current, schema, queue, lost>>

\* The function dies, or cannot record its failure, at any point.
Die(p) ==
    /\ extractor[p].at # "idle"
    /\ MayHaveCalled(p)
    /\ lost' = lost \union ({extractor[p].etag} \X extractor[p].left)
    /\ extractor' = [extractor EXCEPT ![p] = Away]
    /\ UNCHANGED <<current, schema, extractions, queue>>

\* reconcile, an hour after the row was last written: no statement takes up a pending row.
Reset(e) ==
    /\ extractions[e].status \in {"extracting", "pending"}
    /\ \A p \in Deliveries : extractor[p].at \in {"idle", "seen", "schema"} \/ extractor[p].etag # e
    /\ extractions' = [extractions EXCEPT ![e].status = "pending"]
    /\ UNCHANGED <<current, schema, extractor, queue, calls, lost>>

\* POST /review/:id, once per row.
Review(e, f) ==
    /\ queue[<<e, f>>] = "open"
    /\ queue' = [queue EXCEPT ![<<e, f>>] = "reviewed"]
    /\ UNCHANGED <<current, schema, extractions, extractor, calls, lost>>

Next ==
    \/ Upload
    \/ \E fields \in Schemas : Declare(fields)
    \/ \E p \in Deliveries :
          \/ Deliver(p) \/ ReadSchema(p) \/ Claim(p) \/ Fail(p) \/ Die(p)
          \/ \E answer \in Answers(extractor[p].fields) : Answer(p, answer)
          \/ \E f \in Fields : QueueField(p, f)
    \/ \E e \in Etags : Reset(e) \/ \E f \in Fields : Review(e, f)

Spec == Init /\ [][Next]_vars

-----------------------------------------------------------------------------
TypeOK ==
    /\ current \in Etags \union {0} /\ schema \in Schemas \union {{}}
    /\ \A e \in Etags :
          /\ extractions[e].status \in {"none", "extracting", "pending", "ready", "needs_review", "failed"}
          /\ extractions[e].doubtful \subseteq extractions[e].fields
    /\ \A p \in Deliveries :
          extractor[p].at \in {"idle", "seen", "schema", "claimed", "queueing"}
    /\ queue \in [Etags \X Fields -> {"none", "open", "reviewed"}] /\ lost \subseteq Etags \X Fields

\* However often a version is delivered, fails or is reset, it is paid for once at most:
\* also a correction that was made can never be overwritten by a second extraction.
ExtractedOnce == \A e \in Etags : calls[e] <= 1

\* An extraction for which no extractor works any more has each doubtful field of its
\* answer in the review queue, but those its extractor had still to queue when it died;
\* nothing else is there, and what is ready leaves no doubt, whoever died.
DoubtIsReviewed ==
    \A e \in Etags :
        /\ (extractions[e].status = "needs_review"
              /\ \A p \in Deliveries : extractor[p].at = "queueing" => extractor[p].etag # e) =>
               \A f \in extractions[e].doubtful : queue[<<e, f>>] # "none" \/ <<e, f>> \in lost
        /\ extractions[e].status = "ready" => extractions[e].doubtful = {}
        /\ \A f \in Fields : queue[<<e, f>>] # "none" => f \in extractions[e].doubtful

Safety == TypeOK /\ ExtractedOnce /\ DoubtIsReviewed

\* Whatever dies, an extraction that needs review has its fields in the queue.
ReviewIsComplete ==
    \A e \in Etags :
        (extractions[e].status = "needs_review" /\ \A p \in Deliveries : extractor[p].at = "idle") =>
            \A f \in extractions[e].doubtful : queue[<<e, f>>] # "none"
-----------------------------------------------------------------------------
(* Why Safety holds: the row of a version is claimed once and never        *)
(* deleted, so a version has one extractor in all of its history, which    *)
(* has not asked yet or has queued what is not left.                       *)

Extraction == [status : {"none", "extracting", "pending", "ready", "needs_review", "failed"},
               fields : SUBSET Fields, doubtful : SUBSET Fields]
Extractor == [at : {"idle", "seen", "schema", "claimed", "queueing"}, etag : Etags \union {0},
              fields : SUBSET Fields, left : SUBSET Fields]

Shape ==
    /\ current \in Etags \union {0} /\ schema \in Schemas \union {{}} /\ lost \subseteq Etags \X Fields
    /\ extractions \in [Etags -> Extraction] /\ extractor \in [Deliveries -> Extractor]
    /\ queue \in [Etags \X Fields -> {"none", "open", "reviewed"}] /\ calls \in [Etags -> Nat]
    /\ \A p \in Deliveries : extractor[p].at # "idle" => extractor[p].etag \in Etags
    /\ \A e \in Etags : extractions[e].doubtful \subseteq extractions[e].fields

Owns(p, e) == extractor[p].at \in {"claimed", "queueing"} /\ extractor[p].etag = e

OneOwner == \A e \in Etags, p, q \in Deliveries : Owns(p, e) /\ Owns(q, e) => p = q

OwnersWork ==
    \A e \in Etags, p \in Deliveries : Owns(p, e) =>
        /\ extractor[p].at = "claimed" =>
              /\ extractions[e].status = "extracting" /\ calls[e] = 0
              /\ extractions[e].doubtful = {} /\ extractions[e].fields = extractor[p].fields
        /\ extractor[p].at = "queueing" =>
              /\ extractions[e].status = "needs_review" /\ extractor[p].left # {}
              /\ \A f \in extractions[e].doubtful \ extractor[p].left : queue[<<e, f>>] # "none"
              /\ extractor[p].left \subseteq extractions[e].doubtful

\* What is not claimed yet has cost nothing, and only doubtful fields are queued.
Unclaimed ==
    \A e \in Etags :
        /\ extractions[e].status = "none" => calls[e] = 0 /\ extractions[e].doubtful = {}
        /\ \A f \in Fields : queue[<<e, f>>] # "none" => f \in extractions[e].doubtful

IInv == Shape /\ OneOwner /\ OwnersWork /\ Unclaimed /\ ExtractedOnce /\ DoubtIsReviewed
=============================================================================
