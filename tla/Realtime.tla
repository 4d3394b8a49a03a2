------------------------------ MODULE Realtime ------------------------------
(***************************************************************************)
(* Realtime fan-out (blocks/realtime): publish and NOTIFY, GET /subscribe  *)
(* with its LISTEN connection and drains, presence, and POST /sweep.       *)
(*                                                                         *)
(* One client subscribes to one channel and reconnects with the last id it *)
(* has seen; a subscription is one stream object.  Queries of a stream run *)
(* on its one connection in the order in which they were asked for, so     *)
(* that a drain is a cursor in a queue until its query runs.  The rows it  *)
(* returns are sent in the same step, or the query fails: the connection   *)
(* lives on, and only a replay that fails ends the stream.                 *)
(***************************************************************************)
EXTENDS Naturals, FiniteSets, Sequences

CONSTANTS Streams,    \* 1..n, the client's subscriptions one after the other
          LastId,     \* bound on the published events
          Batch       \* LIMIT of a drain's query

VARIABLES inserting,  \* ids of events whose transaction is open
          buffer,     \* ids of the committed rows
          nextId,
          late,       \* history: committed after a higher id
          pruned,     \* history: removed by the sweep
          stage,      \* stream -> where it is, one of Stages
          closed,     \* streams on which shutdown has run
          cursor,     \* stream -> last id it has sent
          drains,     \* stream -> the queries that are asked for
          signals,    \* stream -> notifications under way to it
          checkedOut, \* streams that hold a client of the pool
          seenIds,    \* history: ids the client has received
          listed,     \* streams with a presence row inside the TTL
          stalled     \* history: streams whose last query failed

vars == <<inserting, buffer, nextId, late, pruned, stage, closed, cursor, drains,
          signals, checkedOut, seenIds, listed, stalled>>
tableVars == <<inserting, buffer, nextId, late, pruned>>

Ids == 1..LastId
Stages == {"idle", "connect", "listen", "replay", "live", "over"}

\* A drain: the cursor it reads from, and whether start waits for it.
Query(after, replay) == [after |-> after, replay |-> replay]
Queries == [after : 0..LastId, replay : BOOLEAN]

\* The last id of S, or the one given when there is none.
IsLast(id, S, none) == IF S = {} THEN id = none ELSE id \in S /\ \A e \in S : e <= id

Init ==
    /\ inserting = {} /\ buffer = {} /\ nextId = 1 /\ late = {} /\ pruned = {}
    /\ stage = [s \in Streams |-> "idle"]
    /\ closed = {}
    /\ cursor = [s \in Streams |-> 0]
    /\ drains = [s \in Streams |-> <<>>]
    /\ signals = [s \in Streams |-> 0]
    /\ checkedOut = {}
    /\ seenIds = {}
    /\ listed = {}
    /\ stalled = {}

-----------------------------------------------------------------------------
(* Publishing                                                              *)

\* Notifications only after the replay has been read.
HearsOnceLive(s) == stage[s] = "live" /\ s \in checkedOut

\* LISTEN comes before the replay.
Hears(s) == stage[s] \in {"replay", "live"} /\ s \in checkedOut

\* publish() in a transaction that may be the caller's: the id is given out here,
Insert ==
    /\ nextId \in Ids
    /\ nextId' = nextId + 1
    /\ inserting' = inserting \union {nextId}
    /\ UNCHANGED <<buffer, late, pruned, stage, closed, cursor, drains, signals,
                   checkedOut, seenIds, listed, stalled>>

\* and the row and its notification are there with the commit.
Commit(e) ==
    /\ e \in inserting
    /\ inserting' = inserting \ {e}
    /\ buffer' = buffer \union {e}
    /\ late' = IF \E f \in buffer \union pruned : f > e THEN late \union {e} ELSE late
    /\ signals' = [s \in Streams |-> signals[s] + IF Hears(s) THEN 1 ELSE 0]
    /\ UNCHANGED <<nextId, pruned, stage, closed, cursor, drains, checkedOut, seenIds, listed,
                   stalled>>

\* Retention ends for the oldest events.
Prune ==
    /\ \E e \in buffer : /\ \A f \in buffer : e <= f
                       /\ buffer' = buffer \ {e} /\ pruned' = pruned \union {e}
    /\ UNCHANGED <<inserting, nextId, late, stage, closed, cursor, drains, signals,
                   checkedOut, seenIds, listed, stalled>>

-----------------------------------------------------------------------------
(* GET /subscribe and createEventStream                                    *)

\* since is the last id the client has seen; without one the buffer is replayed.
Subscribe(s) ==
    /\ stage[s] = "idle"
    /\ \A t \in 1..(s - 1) : t \in closed
    /\ stage' = [stage EXCEPT ![s] = "connect"]
    /\ \E id \in 0..LastId : IsLast(id, seenIds, 0) /\ cursor' = [cursor EXCEPT ![s] = id]
    /\ listed' = listed \union {s}
    /\ UNCHANGED <<tableVars, closed, drains, signals, checkedOut, seenIds, stalled>>

\* pool.connect resolves, whatever has happened to the stream meanwhile.
Connect(s) ==
    /\ stage[s] = "connect"
    /\ stage' = [stage EXCEPT ![s] = "listen"]
    /\ checkedOut' = checkedOut \union {s}
    /\ UNCHANGED <<tableVars, closed, cursor, drains, signals, seenIds, listed, stalled>>

\* It rejects, as an exhausted pool does: shutdown has no client to give back.
ConnectFails(s) ==
    /\ stage[s] = "connect"
    /\ stage' = [stage EXCEPT ![s] = "over"]
    /\ closed' = closed \union {s}
    /\ UNCHANGED <<tableVars, cursor, drains, signals, checkedOut, seenIds, listed, stalled>>

\* LISTEN, the ready frame, and the first drain, which a closed stream skips.
Listen(s) ==
    /\ stage[s] = "listen" /\ s \in checkedOut
    /\ stage' = [stage EXCEPT ![s] = "replay"]
    /\ drains' = [drains EXCEPT ![s] = IF s \in closed THEN <<>> ELSE <<Query(cursor[s], TRUE)>>]
    /\ UNCHANGED <<tableVars, closed, cursor, signals, checkedOut, seenIds, listed, stalled>>

\* A notification on a subscribed channel asks for a drain from the cursor of now.
Notified(s) ==
    /\ signals[s] > 0
    /\ signals' = [signals EXCEPT ![s] = @ - 1]
    /\ drains' = [drains EXCEPT ![s] =
                     IF s \in closed THEN @ ELSE Append(@, Query(cursor[s], FALSE))]
    /\ UNCHANGED <<tableVars, stage, closed, cursor, checkedOut, seenIds, listed, stalled>>

\* The rows of a page that is read in no order.
AnyPage(after) ==
    {S \in SUBSET {e \in buffer : e > after} :
        Cardinality(S) = Batch \/ (Cardinality(S) < Batch /\ S = {e \in buffer : e > after})}

\* The page a drain reads: the Batch lowest ids after its cursor.
Page(after) == {S \in AnyPage(after) : \A e \in S, f \in buffer \ S : f > after => e < f}

\* The rows are sent and the cursor follows; a full page asks for the next one.
Drain(s) ==
    /\ drains[s] # <<>> /\ s \notin closed
    /\ \E S \in Page(Head(drains[s]).after), after \in 0..LastId :
          /\ IsLast(after, S, cursor[s])
          /\ seenIds' = seenIds \union S
          /\ cursor' = [cursor EXCEPT ![s] = after]
          /\ drains' = [drains EXCEPT ![s] =
                           IF Cardinality(S) = Batch
                           THEN Append(Tail(@), Query(after, Head(@).replay)) ELSE Tail(@)]
    /\ stalled' = stalled \ {s}
    /\ UNCHANGED <<tableVars, stage, closed, signals, checkedOut, listed>>

\* The query runs into its statement_timeout, or fails otherwise.  When a notification
\* asked for it, that is logged and no more: the stream stays open, and nothing asks
\* again.  A replay that fails is an EndStream.
DrainFails(s) ==
    /\ drains[s] # <<>> /\ s \notin closed /\ ~Head(drains[s]).replay
    /\ drains' = [drains EXCEPT ![s] = Tail(@)]
    /\ stalled' = stalled \union {s}
    /\ UNCHANGED <<tableVars, stage, closed, cursor, signals, checkedOut, seenIds, listed>>

\* The replay has been sent: heartbeat and lifetime timers start.
GoLive(s) ==
    /\ stage[s] = "replay"
    /\ s \in closed \/ \A i \in DOMAIN drains[s] : ~drains[s][i].replay
    /\ stage' = [stage EXCEPT ![s] = "live"]
    /\ UNCHANGED <<tableVars, closed, cursor, drains, signals, checkedOut, seenIds, listed,
                   stalled>>

\* shutdown: the client goes back if there is one by now; only once per stream.
Shutdown(s) ==
    /\ s \notin closed
    /\ closed' = closed \union {s}
    /\ checkedOut' = checkedOut \ {s}
    /\ drains' = [drains EXCEPT ![s] = <<>>]
    /\ signals' = [signals EXCEPT ![s] = 0]

\* Abort or cancel by the client; an abort removes the presence row as well.
Disconnect(s) ==
    /\ stage[s] # "idle" /\ Shutdown(s)
    /\ listed' = listed \ {s}
    /\ UNCHANGED <<tableVars, stage, cursor, seenIds, stalled>>

\* The lifetime is over, LISTEN, a query of the replay or the connection fails, or the
\* consumer only cancels.
EndStream(s) ==
    /\ stage[s] \notin {"idle", "connect"} /\ Shutdown(s)
    /\ UNCHANGED <<tableVars, stage, cursor, seenIds, listed, stalled>>

-----------------------------------------------------------------------------
(* Presence                                                                *)

\* The TTL passes: no heartbeat writes last_seen_at.  listPresence leaves the row
\* out from now on, the sweep deletes it later.
Expire(s) ==
    /\ s \in listed /\ listed' = listed \ {s}
    /\ UNCHANGED <<tableVars, stage, closed, cursor, drains, signals, checkedOut, seenIds,
                   stalled>>

Next ==
    \/ Insert \/ Prune
    \/ \E e \in Ids : Commit(e)
    \/ \E s \in Streams : \/ Subscribe(s) \/ Connect(s) \/ ConnectFails(s) \/ Listen(s)
                          \/ Notified(s) \/ Drain(s) \/ DrainFails(s) \/ GoLive(s)
                          \/ Disconnect(s) \/ EndStream(s) \/ Expire(s)

Spec == Init /\ [][Next]_vars

-----------------------------------------------------------------------------
TypeOK ==
    /\ inserting \subseteq Ids /\ buffer \subseteq Ids /\ nextId \in 1..(LastId + 1)
    /\ late \subseteq Ids /\ pruned \subseteq Ids /\ seenIds \subseteq Ids
    /\ stage \in [Streams -> Stages]
    /\ closed \subseteq Streams /\ checkedOut \subseteq Streams
    /\ cursor \in [Streams -> 0..LastId]
    /\ drains \in [Streams -> Seq(Queries)] /\ signals \in [Streams -> Nat]
    /\ listed \subseteq Streams /\ stalled \subseteq Streams

Missed == (buffer \ late) \ seenIds

\* An open stream that has neither a query nor a notification under way.
AtRest(s) == /\ stage[s] = "live" /\ s \notin closed
             /\ drains[s] = <<>> /\ signals[s] = 0

\* When an open stream is at rest and its last query did not fail, its client has
\* every event of the buffer, but for events that committed after one with a higher
\* id: nothing is lost between LISTEN and replay, between pages or across a
\* reconnect, and one query that succeeds brings back what failed ones left behind.
CaughtUp == \A s \in Streams \ stalled : AtRest(s) => Missed = {}

\* A cursor never passes an event that the client still misses, late ones apart;
\* so a client that reconnects at any moment, after a failed query too, resumes
\* without a gap.
NoGap == \A e \in Missed : \A i \in seenIds : i < e

Safety == TypeOK /\ CaughtUp /\ NoGap

\* An open stream at rest has missed nothing.
OpenIsCaughtUp == \A s \in Streams : AtRest(s) => Missed = {}

\* Every exit path returns the client to the pool.
ClosedReleases == closed \intersect checkedOut = {}

\* Presence lists show the connections that are open.
OpenAreListed ==
    \A s \in Streams : stage[s] = "live" /\ s \notin closed => s \in listed

\* The cursor loses no event at all: ids follow the commit order.
NothingLost == \A e \in buffer \ seenIds : \A i \in seenIds : i < e
-----------------------------------------------------------------------------
(* Why Safety holds: a drain starts behind an id that the client has, and  *)
(* an open stream has something under way until nothing is missed, or its  *)
(* last query failed.                                                      *)

Sane == LastId \in Nat

\* What is not committed, or was, is given out; what is seen was committed.
Given ==
    /\ \A e \in inserting \union buffer \union pruned : e < nextId
    /\ inserting \intersect (buffer \union pruned) = {}
    /\ seenIds \subseteq buffer \union pruned

CursorsSeen ==
    \A s \in Streams :
        /\ cursor[s] \in seenIds \union {0}
        /\ \A i \in DOMAIN drains[s] : drains[s][i].after \in seenIds \union {0}

Connected ==
    \A s \in Streams : stage[s] \in {"listen", "replay", "live"} /\ s \notin closed => s \in checkedOut

UnderWay ==
    \A s \in Streams \ stalled : /\ stage[s] \in {"replay", "live"} /\ s \notin closed
                                 /\ drains[s] = <<>> /\ signals[s] = 0
                                 => Missed = {}

IInv == TypeOK /\ Given /\ CursorsSeen /\ Connected /\ UnderWay /\ NoGap
=============================================================================
