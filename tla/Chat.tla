--------------------------------- MODULE Chat ---------------------------------
(***************************************************************************)
(* The chat endpoint (blocks/chat): POST /chat.  A turn is one request; it *)
(* looks its key up, finds or creates its conversation, reads the history, *)
(* stores the question and streams the model's answer, one await after the *)
(* other, beside other turns.  Streams may break and requests may die.     *)
(*                                                                         *)
(* A message is known by the turn that sent it.  Left out: the token check *)
(* of index.ts:98 but for its place, POST /generate, and the seams that    *)
(* the source marks as not implemented (JWTs, tools, retrieval, cache).    *)
(***************************************************************************)
EXTENDS Naturals, FiniteSets, Sequences

CONSTANTS Turns,         \* requests; a retry is one with the key of another
          Caller,        \* turn -> tenant
          MessageId,     \* turn -> clientMessageId, or NoKey
          NoKey,
          HistoryLimit

VARIABLES tenant,        \* conversation -> its owner, or "none"
          messages,      \* the table in the order of created_at
          turn,          \* turn -> [at, conv, context, answer]; context: places in messages
          billed,        \* history: turns that the model was called for
          after          \* history: turns that began when their key was done

vars == <<tenant, messages, turn, billed, after>>

\* A conversation is named by the turn that creates it.
Arrived == [at |-> "new", conv |-> 0, context |-> {}, answer |-> 0]
Keyed(r) == MessageId[r] # NoKey
SameRequest(r, q) == Keyed(r) /\ MessageId[q] = MessageId[r] /\ Caller[q] = Caller[r]

Init ==
    /\ tenant = [c \in Turns |-> "none"] /\ messages = << >>
    /\ turn = [r \in Turns |-> Arrived]
    /\ billed = {} /\ after = {}

Go(r, at) == turn' = [turn EXCEPT ![r].at = at]

-----------------------------------------------------------------------------
\* Replies to this key in any conversation of the caller.
IsReply(i, r) == messages[i].role = "assistant" /\ SameRequest(r, messages[i].of)
Stored(r) == {i \in DOMAIN messages : IsReply(i, r) /\ tenant[messages[i].conv] = Caller[r]}

Lookup(r) ==
    /\ turn[r].at = "new"
    /\ IF Keyed(r) /\ Stored(r) # {}
       THEN \E i \in Stored(r) :
               turn' = [turn EXCEPT ![r].at = "replayed", ![r].answer = messages[i].of]
       ELSE Go(r, "missed")
    /\ after' = IF \E q \in Turns : SameRequest(r, q) /\ turn[q].at = "done"
                THEN after \union {r} ELSE after
    /\ UNCHANGED <<tenant, messages, billed>>

AnyTenants(c, r) == tenant[c] # "none"

\* WHERE id = $1 AND tenant = $2
IsOwn(c, r) == tenant[c] = Caller[r]

\* A conversation id that a client sends may be a guess: what is not its own is not found.
Resolve(r) ==
    /\ turn[r].at = "missed"
    /\ \/ /\ tenant' = [tenant EXCEPT ![r] = Caller[r]]
          /\ turn' = [turn EXCEPT ![r].at = "resolved", ![r].conv = r]
       \/ \E c \in Turns :
             /\ tenant[c] # "none"
             /\ turn' = IF IsOwn(c, r)
                        THEN [turn EXCEPT ![r].at = "resolved", ![r].conv = c]
                        ELSE [turn EXCEPT ![r].at = "rejected"]
             /\ UNCHANGED tenant
    /\ UNCHANGED <<messages, billed, after>>

\* The newest HistoryLimit messages of the conversation.
Said(c) == {i \in DOMAIN messages : messages[i].conv = c}
IsHistory(page, c) ==
    /\ \A i \in page, j \in Said(c) \ page : j < i
    /\ Cardinality(page) <= HistoryLimit /\ (Cardinality(page) < HistoryLimit => page = Said(c))

\* Too many tokens: the turn is rejected before anything is stored or billed.
LoadHistory(r) ==
    /\ turn[r].at = "resolved"
    /\ \/ \E page \in SUBSET Said(turn[r].conv) :
             /\ IsHistory(page, turn[r].conv)
             /\ turn' = [turn EXCEPT ![r].at = "loaded", ![r].context = page]
       \/ Go(r, "rejected")
    /\ UNCHANGED <<tenant, messages, billed, after>>

\* insertMessage of the question, which carries no key.
InsertUser(r) ==
    /\ turn[r].at = "loaded"
    /\ messages' = Append(messages, [role |-> "user", conv |-> turn[r].conv, of |-> r])
    /\ Go(r, "asking")
    /\ UNCHANGED <<tenant, billed, after>>

\* The provider takes the request, and its last chunk arrives.
Ask(r) ==
    /\ turn[r].at = "asking"
    /\ billed' = billed \union {r} /\ Go(r, "streaming")
    /\ UNCHANGED <<tenant, messages, after>>

Answered(r) ==
    /\ turn[r].at = "streaming"
    /\ turn' = [turn EXCEPT ![r].at = "answered", ![r].answer = r]
    /\ UNCHANGED <<tenant, messages, billed, after>>

NoConflict(r) == FALSE

\* messages_idempotency_idx: one reply for a key in a conversation.
Conflicts(r) == \E i \in DOMAIN messages : IsReply(i, r) /\ messages[i].conv = turn[r].conv

\* insertMessage of the reply: ON CONFLICT DO NOTHING.
InsertReply(r) ==
    /\ turn[r].at = "answered"
    /\ messages' = IF Conflicts(r) THEN messages
                   ELSE Append(messages, [role |-> "assistant", conv |-> turn[r].conv, of |-> r])
    /\ Go(r, "stored")
    /\ UNCHANGED <<tenant, billed, after>>

\* updated_at, then the frame that ends the stream.
Done(r) == turn[r].at = "stored" /\ Go(r, "done") /\ UNCHANGED <<tenant, messages, billed, after>>

\* The provider fails, the client goes away, a statement fails, or the function dies.
Break(r) ==
    /\ turn[r].at \in {"missed", "resolved", "loaded", "asking", "streaming", "answered", "stored"}
    /\ Go(r, "failed")
    /\ UNCHANGED <<tenant, messages, billed, after>>

Next == \E r \in Turns :
    \/ Lookup(r) \/ Resolve(r) \/ LoadHistory(r) \/ InsertUser(r) \/ Ask(r)
    \/ Answered(r) \/ InsertReply(r) \/ Done(r) \/ Break(r)

Spec == Init /\ [][Next]_vars

-----------------------------------------------------------------------------
TypeOK ==
    /\ tenant \in [Turns -> {"none"} \union {Caller[r] : r \in Turns}]
    /\ \A r \in Turns : turn[r].at \in {"new", "missed", "replayed", "rejected", "resolved",
           "loaded", "asking", "streaming", "answered", "stored", "done", "failed"}

\* A caller who saw the end of a reply and retries gets a reply to that request, and the
\* model is not asked again.
RetriesAreFree == \A r \in after : /\ turn[r].at = "replayed" /\ r \notin billed
                                   /\ SameRequest(r, turn[r].answer)

\* Whatever ids are guessed, what the model is given was said by or to the caller, each
\* reply after its question unless the limit has cut it off.
ContextIsOwn ==
    \A r \in Turns : \A i \in turn[r].context :
        /\ Caller[messages[i].of] = Caller[r]
        /\ messages[i].role = "assistant" =>
               \/ Cardinality(turn[r].context) = HistoryLimit
               \/ \E j \in turn[r].context :
                      j < i /\ messages[j] = [messages[i] EXCEPT !.role = "user"]

\* A conversation holds one reply to a key, however many retries raced for it.
OneReply ==
    \A i, j \in DOMAIN messages :
        /\ messages[i].role = "assistant" /\ messages[j].role = "assistant"
        /\ messages[i].conv = messages[j].conv /\ SameRequest(messages[i].of, messages[j].of)
        => i = j

Safety == TypeOK /\ RetriesAreFree /\ ContextIsOwn /\ OneReply

\* A dropped connection does not double-bill: one call of the model for a key.
BilledOnce == \A r, q \in billed : SameRequest(r, q) => r = q

\* The reply that a caller saw is the one that the conversation keeps.
SeenIsKept == \A r \in Turns : turn[r].at = "done" =>
    \E i \in DOMAIN messages : messages[i].role = "assistant" /\ messages[i].of = r
-----------------------------------------------------------------------------
(* Why Safety holds: a message is said by the owner of its conversation, a *)
(* reply has its question before it, and a turn past its reply has one.    *)

Sane == HistoryLimit \in Nat /\ \A r \in Turns : Caller[r] # "none"

Message == [role : {"user", "assistant"}, conv : Turns, of : Turns]
TurnFields == {"at", "conv", "context", "answer"}
Resolved == {"resolved", "loaded", "asking", "streaming", "answered", "stored", "done"}

Shape ==
    /\ messages \in Seq(Message) /\ billed \subseteq Turns /\ after \subseteq Turns
    /\ DOMAIN turn = Turns
    /\ \A r \in Turns : DOMAIN turn[r] = TurnFields /\ turn[r].context \subseteq DOMAIN messages

Owners ==
    /\ \A c \in Turns : tenant[c] = "none" \/ tenant[c] = Caller[c]
    /\ \A r \in Turns : turn[r].at \in Resolved =>
          turn[r].conv \in Turns /\ tenant[turn[r].conv] = Caller[r]
    /\ \A i \in DOMAIN messages : tenant[messages[i].conv] = Caller[messages[i].of]

QuestionFirst ==
    /\ \A i \in DOMAIN messages : messages[i].role = "assistant" =>
          \E j \in DOMAIN messages :
             j < i /\ messages[j] = [messages[i] EXCEPT !.role = "user"]
    /\ \A r \in Turns : turn[r].at \in {"asking", "streaming", "answered"} =>
          \E j \in DOMAIN messages :
             messages[j] = [role |-> "user", conv |-> turn[r].conv, of |-> r]

StoredTurns ==
    \A r \in Turns : turn[r].at \in {"stored", "done"} /\ Keyed(r) =>
        \E i \in DOMAIN messages : IsReply(i, r) /\ messages[i].conv = turn[r].conv

BilledTurns == \A r \in billed : turn[r].at \notin {"new", "replayed"}

IInv == /\ TypeOK /\ Shape /\ Owners /\ QuestionFirst /\ StoredTurns /\ BilledTurns
        /\ RetriesAreFree /\ ContextIsOwn /\ OneReply
=============================================================================
