------------------------------ MODULE Moderation ------------------------------
(***************************************************************************)
(* Content moderation (blocks/moderation): the storage trigger POST /scan, *)
(* the texts of POST /text, and the decisions of POST /decide/:id.  The    *)
(* cron run resets items that are 'scanning', a status no statement sets:  *)
(* it changes nothing and is left out.                                     *)
(*                                                                         *)
(* Scores are in tenths.  HEAD and the INSERT after it are one step, since *)
(* what happens between them could as well happen after both.              *)
(***************************************************************************)
EXTENDS Naturals, Sequences

CONSTANTS Keys,          \* object keys under the watched prefix
          Image,         \* those that hold images; detectKind says so of the key
          Base,          \* key -> its last path segment
          Versions,      \* 1..n: each upload is a new version of its key
          Threshold,     \* category -> score that blocks
          Margin,        \* REVIEW_MARGIN
          Values,        \* scores an answer may name
          MaxItems, MaxJudged  \* bounds

VARIABLES object,        \* key -> version, 0 when there is none
          uploaded,      \* versions written so far
          quarantine,    \* last path segment -> version under the quarantine prefix
          items,         \* the rows, in the order of their ids
          scanner,       \* item -> [at, body, next]: the function that classifies it
          human,         \* [at, item, as, left]: the moderator's request, and how many more
          decisions,     \* <<item, decision, source>> of the history
          lost,          \* items with an UPDATE whose history row was lost
          disturbed      \* keys that were overwritten after an event of theirs was delivered

vars == <<object, uploaded, quarantine, items, scanner, human, decisions, lost, disturbed>>

Categories == DOMAIN Threshold
Missing == 0
Answers == [Categories -> Values \union {Missing}]
Ids == 1..Len(items)
Resting == [at |-> "idle", body |-> 0, next |-> "none"]

Init ==
    /\ object = [k \in Keys |-> 0] /\ uploaded = 0
    /\ quarantine = [b \in {Base[k] : k \in Keys} |-> 0]
    /\ items = <<>> /\ scanner = <<>> /\ decisions = {} /\ lost = {} /\ disturbed = {}
    /\ human = [at |-> "idle", item |-> 0, as |-> "none", left |-> MaxJudged]

\* An upload or an overwrite.
Upload(k) ==
    /\ uploaded + 1 \in Versions
    /\ uploaded' = uploaded + 1
    /\ object' = [object EXCEPT ![k] = uploaded + 1]
    /\ disturbed' = IF \E i \in Ids : items[i].key = k THEN disturbed \union {k} ELSE disturbed
    /\ UNCHANGED <<quarantine, items, scanner, human, decisions, lost>>

\* The row starts as one that may be served.
InsertOpen(key, etag, at) ==
    /\ Len(items) < MaxItems
    /\ items' = Append(items, [key |-> key, etag |-> etag, status |-> "approved",
                               by |-> "none", scored |-> FALSE])
    /\ scanner' = Append(scanner, [Resting EXCEPT !.at = at])

\* An item starts as 'quarantined'.
Insert(key, etag, at) ==
    /\ Len(items) < MaxItems
    /\ items' = Append(items, [key |-> key, etag |-> etag, status |-> "quarantined",
                               by |-> "none", scored |-> FALSE])
    /\ scanner' = Append(scanner, [Resting EXCEPT !.at = at])

\* The row first.  Nothing is unique but the id: the ON CONFLICT never applies, and a
\* second delivery has a row of its own.  What is no image stays as it is.
Scan(k) ==
    /\ object[k] # 0
    /\ Insert(k, object[k], IF k \in Image THEN "asking" ELSE "idle")
    /\ UNCHANGED <<object, uploaded, quarantine, human, decisions, lost, disturbed>>

Text ==
    /\ Insert("text", 0, "asking")
    /\ UNCHANGED <<object, uploaded, quarantine, human, decisions, lost, disturbed>>

Flagged(answer) == {c \in Categories : answer[c] >= Threshold[c]}

\* decide: a category that the answer does not name has the score 0.
Decide(answer) ==
    IF Flagged(answer) # {} THEN "blocked"
    ELSE IF \E c \in Categories : answer[c] + Margin >= Threshold[c] THEN "needs_review"
    ELSE "approved"

DecisionOf(status) ==
    CASE status = "approved" -> "approve" [] status = "blocked" -> "block" [] OTHER -> "escalate"

\* The answer, whatever it is: one without a JSON object names no category.
\* persist's first statement has no condition on the status.
Classify(i, answer) ==
    /\ scanner[i].at = "asking"
    /\ LET status == Decide(answer)
       IN  /\ items' = [items EXCEPT ![i].status = status, ![i].by = "model",
                           ![i].scored = \A c \in Categories : answer[c] # Missing]
           /\ scanner' = [scanner EXCEPT ![i].at = "deciding", ![i].next = status]
    /\ UNCHANGED <<object, uploaded, quarantine, human, decisions, lost, disturbed>>

\* persist's second; only a blocked object is moved.
RecordModel(i) ==
    /\ scanner[i].at = "deciding"
    /\ decisions' = decisions \union {<<i, DecisionOf(scanner[i].next), "model">>}
    /\ scanner' = [scanner EXCEPT ![i].at =
                      IF scanner[i].next = "blocked" /\ items[i].key # "text"
                      THEN "moving" ELSE "idle"]
    /\ UNCHANGED <<object, uploaded, quarantine, items, human, lost, disturbed>>

\* moveToQuarantine reads the object of now, writes it and deletes the key.
GetObject(i) ==
    /\ scanner[i].at = "moving" /\ object[items[i].key] # 0
    /\ scanner' = [scanner EXCEPT ![i].at = "got", ![i].body = object[items[i].key]]
    /\ UNCHANGED <<object, uploaded, quarantine, items, human, decisions, lost, disturbed>>

PutObject(i) ==
    /\ scanner[i].at = "got"
    /\ quarantine' = [quarantine EXCEPT ![Base[items[i].key]] = scanner[i].body]
    /\ scanner' = [scanner EXCEPT ![i].at = "put"]
    /\ UNCHANGED <<object, uploaded, items, human, decisions, lost, disturbed>>

DeleteObject(i) ==
    /\ scanner[i].at = "put"
    /\ object' = [object EXCEPT ![items[i].key] = 0]
    /\ scanner' = [scanner EXCEPT ![i] = Resting]
    /\ UNCHANGED <<uploaded, quarantine, items, human, decisions, lost, disturbed>>

\* The call or a statement fails, the function dies, or the move fails and is forgotten.
Die(i) ==
    /\ scanner[i].at \notin {"idle", "dead"}
    /\ lost' = IF scanner[i].at = "deciding" THEN lost \union {i} ELSE lost
    /\ scanner' = [scanner EXCEPT ![i] = [Resting EXCEPT !.at = "dead"]]
    /\ UNCHANGED <<object, uploaded, quarantine, items, human, decisions, disturbed>>

\* A moderator decides any item at any time: the status first.
DecideItem(i, status) ==
    /\ human.at = "idle" /\ human.left > 0
    /\ items' = [items EXCEPT ![i].status = status, ![i].by = "human"]
    /\ human' = [at |-> "deciding", item |-> i, as |-> status, left |-> human.left - 1]
    /\ UNCHANGED <<object, uploaded, quarantine, scanner, decisions, lost, disturbed>>

\* Then the history, or the request dies before it.
RecordHuman ==
    /\ human.at = "deciding"
    /\ \/ /\ decisions' = decisions \union {<<human.item, DecisionOf(human.as), "human">>}
          /\ UNCHANGED lost
       \/ /\ lost' = lost \union {human.item}
          /\ UNCHANGED decisions
    /\ human' = [human EXCEPT !.at = "idle"]
    /\ UNCHANGED <<object, uploaded, quarantine, items, scanner, disturbed>>

Next ==
    \/ Text \/ RecordHuman
    \/ \E k \in Keys : Upload(k) \/ Scan(k)
    \/ \E i \in Ids :
          \/ \E a \in Answers : Classify(i, a)
          \/ \E s \in {"approved", "blocked", "needs_review"} : DecideItem(i, s)
          \/ RecordModel(i) \/ GetObject(i) \/ PutObject(i) \/ DeleteObject(i) \/ Die(i)

Spec == Init /\ [][Next]_vars

-----------------------------------------------------------------------------
TypeOK ==
    /\ object \in [Keys -> Versions \union {0}] /\ Len(scanner) = Len(items)
    /\ \A i \in Ids :
          /\ items[i].status \in {"quarantined", "approved", "blocked", "needs_review"}
          /\ scanner[i].at \in {"idle", "dead", "asking", "deciding", "moving", "got", "put"}
    /\ lost \subseteq Ids /\ disturbed \subseteq Keys

\* Without a death the history explains every item: when nobody writes it any more, its
\* status is one that the history has, from the source that the row names.
HistoryExplains ==
    \A i \in Ids \ lost :
        items[i].by # "none" /\ scanner[i].at # "deciding" /\ human.at = "idle" =>
            <<i, DecisionOf(items[i].status), items[i].by>> \in decisions

\* An item is closed until a model answered or a human decided, whatever dies meanwhile,
\* and one that is no image until a human did.  (That an answer scored anything is
\* another matter: UnscoredStaysClosed.)
StaysClosed ==
    \A i \in Ids :
        /\ items[i].by = "none" => items[i].status = "quarantined"
        /\ items[i].key \in Keys \ Image /\ items[i].status # "quarantined" =>
               items[i].by = "human"

\* While its key is not overwritten, an image that the model blocked is taken from its
\* users when the function that asked has come to its end; and however often the image is
\* delivered, whoever decides and whatever dies between copy and delete, an image that is
\* gone is in quarantine, unless another key has its last segment.
BlockedIsMoved ==
    \A i \in Ids :
        LET k == items[i].key
        IN  k \in Image \ disturbed =>
                /\ items[i].status = "blocked" /\ items[i].by = "model" /\ scanner[i].at = "idle" =>
                       object[k] = 0
                /\ object[k] = 0 /\ (\A x \in Keys \ {k} : Base[x] # Base[k]) =>
                       quarantine[Base[k]] = items[i].etag

Safety == TypeOK /\ HistoryExplains /\ StaysClosed /\ BlockedIsMoved

\* A human decision always beats a model score.
HumanBeatsModel ==
    \A i \in Ids : (\E d \in {"approve", "block"} : <<i, d, "human">> \in decisions) =>
                       items[i].by = "human"

\* An image that the model did not score is not approved by it.
UnscoredStaysClosed ==
    \A i \in Ids : items[i].status = "approved" /\ items[i].by = "model" => items[i].scored

\* What is blocked does not stay where its users see it: violated by a death before the
\* delete, and by a moderator, whose 'block' moves nothing.
BlockedIsGone ==
    \A i \in Ids :
        items[i].key \in Image \ disturbed /\ items[i].status = "blocked"
            /\ scanner[i].at \in {"idle", "dead"} => object[items[i].key] = 0

\* Nothing is deleted that is not in quarantine, but by its owner.
NoUploadLost ==
    uploaded # 0 => \E k \in Keys : object[k] = uploaded \/ quarantine[Base[k]] = uploaded
-----------------------------------------------------------------------------
(* Why Safety holds: an item whose last writer has not come to the history *)
(* is at that writer, and the functions of an image that nobody            *)
(* overwrote all carry the one version of it.                              *)

Sane == "text" \notin Keys /\ Image \subseteq Keys

Status == {"quarantined", "approved", "blocked", "needs_review"}
Item == [key : Keys \union {"text"}, etag : Versions \union {0}, status : Status,
         by : {"none", "model", "human"}, scored : BOOLEAN]
Scanner == [at : {"idle", "dead", "asking", "deciding", "moving", "got", "put"},
            body : Versions \union {0}, next : Status \union {"none"}]

Rows ==
    /\ items \in Seq(Item) /\ scanner \in Seq(Scanner)
    /\ uploaded \in Nat /\ (human.at = "deciding" => human.item \in Ids)
    /\ DOMAIN quarantine = {Base[k] : k \in Keys}

\* What is written is in the history, or its writer has still to come to it.
ExplainedItem(i) ==
    /\ items[i].by = "model" =>
          \/ <<i, DecisionOf(items[i].status), "model">> \in decisions
          \/ scanner[i].at = "deciding" /\ scanner[i].next = items[i].status
    /\ items[i].by = "human" =>
          \/ <<i, DecisionOf(items[i].status), "human">> \in decisions
          \/ human.at = "deciding" /\ human.item = i /\ human.as = items[i].status

Explained == \A i \in Ids \ lost : ExplainedItem(i)

\* Only images and texts are classified, and no text is moved.
ClassifiedItem(i) ==
    /\ scanner[i].at # "idle" => items[i].key \notin Keys \ Image
    /\ scanner[i].at \in {"moving", "got", "put"} => items[i].key \in Keys

Classified == \A i \in Ids : ClassifiedItem(i)

\* The items of an image, and their functions, know the one version of it.
MovedItem(i) ==
    LET k == items[i].key
        w == scanner[i]
    IN  /\ \A j \in Ids : items[j].key = k => items[j].etag = items[i].etag
        /\ items[i].etag # 0 /\ object[k] \in {0, items[i].etag}
        /\ items[i].status = "blocked" /\ items[i].by = "model" =>
               \/ w.at \in {"moving", "got", "put", "dead"} \/ object[k] = 0
               \/ w.at = "deciding" /\ w.next = "blocked"
        /\ w.at \in {"got", "put"} => w.body = items[i].etag
        /\ (w.at = "put" \/ object[k] = 0) /\ (\A x \in Keys \ {k} : Base[x] # Base[k]) =>
               quarantine[Base[k]] = items[i].etag

Moved == \A i \in Ids : items[i].key \in Image \ disturbed => MovedItem(i)

IInv == TypeOK /\ Rows /\ Explained /\ StaysClosed /\ Classified /\ Moved
=============================================================================
