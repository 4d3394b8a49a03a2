------------------------------ MODULE ApiEdge ------------------------------
(***************************************************************************)
(* API keys and fixed-window rate limits (blocks/api-edge): POST /keys,    *)
(* DELETE /keys/:id, POST /verify, which looks the key up, counts and, for *)
(* the first of a window, writes last_used_at before it answers, and the   *)
(* pruning of POST /sweep.                                                 *)
(*                                                                         *)
(* One key, the subject of all windows.  The function's clock and the      *)
(* database's are one.  No handler writes the idempotency table.           *)
(***************************************************************************)
EXTENDS Naturals, FiniteSets

CONSTANTS Requests,    \* calls of /verify
          Limit,
          WindowLen,   \* API_RATE_WINDOW_SECONDS
          Retention,   \* the hour after which the sweep deletes a window
          Slowest,     \* bound on the time a call takes
          LastTime     \* bound on the clock

VARIABLES clock,
          key,         \* "none", "active", "expired" or "revoked"
          windows,     \* start -> count in rate_windows, 0 when there is no row
          verify,      \* request -> "idle", "found", "touch", "200", "429", "401", "failed"
          askedAt,     \* request -> its clock reading
          passed,      \* history: requests that were counted within the limit
          swept          \* history: windows that the sweep deleted while in use

vars == <<clock, key, windows, verify, askedAt, passed, swept>>

WindowStart(t) == t - (t % WindowLen)
Starts == {WindowStart(t) : t \in 0..LastTime}
WindowOf(r) == WindowStart(askedAt[r])

Init ==
    /\ clock = 0
    /\ key = "none"
    /\ windows = [w \in Starts |-> 0]
    /\ verify = [r \in Requests |-> "idle"]
    /\ askedAt = [r \in Requests |-> 0]
    /\ passed = {}
    /\ swept = {}

\* POST /keys, DELETE /keys/:id (which keeps the row), and the passing of
\* expires_at.
CreateKey ==
    /\ key = "none" /\ key' = "active"
    /\ UNCHANGED <<clock, windows, verify, askedAt, passed, swept>>

RevokeKey ==
    /\ key \in {"active", "expired"} /\ key' = "revoked"
    /\ UNCHANGED <<clock, windows, verify, askedAt, passed, swept>>

ExpireKey ==
    /\ key = "active" /\ key' = "expired"
    /\ UNCHANGED <<clock, windows, verify, askedAt, passed, swept>>

\* verifyKey reads the clock and looks the key up: unknown, revoked and expired are
\* one 401.
LookUp(r) ==
    /\ verify[r] = "idle"
    /\ askedAt' = [askedAt EXCEPT ![r] = clock]
    /\ verify' = [verify EXCEPT ![r] = IF key = "active" THEN "found" ELSE "401"]
    /\ UNCHANGED <<clock, key, windows, passed, swept>>

\* The request that reaches the limit is refused.
AllowsLess(count) == count < Limit

\* rateDecision, on the count after the increment.
Allows(count) == count <= Limit

Answer(count) == IF Allows(count) THEN "200" ELSE "429"

\* One upsert counts and returns the count.  The first of a window has another
\* statement to wait for, the others are answered; or the upsert commits and its
\* result is lost.
Count(r) ==
    /\ verify[r] = "found"
    /\ LET w == WindowOf(r)
           n == windows[w] + 1
       IN  /\ windows' = [windows EXCEPT ![w] = n]
           /\ passed' = IF Allows(n) THEN passed \union {r} ELSE passed
           /\ \E a \in {IF n = 1 THEN "touch" ELSE Answer(n), "failed"} :
                 verify' = [verify EXCEPT ![r] = a]
    /\ UNCHANGED <<clock, key, askedAt, swept>>

\* The UPDATE of last_used_at, then the answer.
Touch(r) ==
    /\ verify[r] = "touch"
    /\ verify' = [verify EXCEPT ![r] = Answer(1)]
    /\ UNCHANGED <<clock, key, windows, askedAt, passed, swept>>

\* A statement fails or the function dies: no answer, and what is counted stays so.
Fail(r) ==
    /\ verify[r] \in {"found", "touch"}
    /\ verify' = [verify EXCEPT ![r] = "failed"]
    /\ UNCHANGED <<clock, key, windows, askedAt, passed, swept>>

\* Windows that could still be written to are deleted as well.
PrunableAtEnd == {w \in Starts : w + WindowLen <= clock + 1}

\* window_start < now() - interval '1 hour'
Prunable == {w \in Starts : w + Retention < clock}

\* Some request counts in the window, or may come to.
InUse(w) ==
    \/ clock < w + WindowLen
    \/ \E r \in Requests : verify[r] = "found" /\ WindowOf(r) = w

Sweep ==
    /\ \E w \in Prunable : windows[w] > 0
    /\ windows' = [w \in Starts |-> IF w \in Prunable THEN 0 ELSE windows[w]]
    /\ swept' = swept \union {w \in Prunable : windows[w] > 0 /\ InUse(w)}
    /\ UNCHANGED <<clock, key, verify, askedAt, passed>>

Tick ==
    /\ clock < LastTime /\ clock' = clock + 1
    /\ \A r \in Requests : verify[r] = "found" => clock < askedAt[r] + Slowest
    /\ UNCHANGED <<key, windows, verify, askedAt, passed, swept>>

Next ==
    \/ CreateKey \/ RevokeKey \/ ExpireKey \/ Sweep \/ Tick
    \/ \E r \in Requests : LookUp(r) \/ Count(r) \/ Touch(r) \/ Fail(r)

Spec == Init /\ [][Next]_vars

-----------------------------------------------------------------------------
TypeOK ==
    /\ clock \in 0..LastTime
    /\ key \in {"none", "active", "expired", "revoked"}
    /\ windows \in [Starts -> Nat]
    /\ verify \in [Requests -> {"idle", "found", "touch", "200", "429", "401", "failed"}]
    /\ askedAt \in [Requests -> 0..LastTime]
    /\ passed \subseteq Requests /\ swept \subseteq Starts

\* The requests of window w in S.
Of(S, w) == {r \in S : WindowOf(r) = w}
Answered(a) == {r \in Requests : verify[r] = a}

\* Concurrent and slow requests are not admitted above the limit of their window,
\* unless the sweep deleted it while it was in use.
WithinLimit == \A w \in Starts \ swept : Cardinality(Of(Answered("200"), w)) <= Limit

\* And none is refused before as many as the limit have been counted in its window,
\* each of which is admitted, on its way to be, or has failed after it was counted.
RefusedWhenUsedUp ==
    /\ \A r \in Answered("429") : WindowOf(r) \notin swept => Cardinality(Of(passed, WindowOf(r))) = Limit
    /\ passed \subseteq UNION {Answered(a) : a \in {"touch", "200", "failed"}}

\* When a window ends before its retention does, with the time of the slowest call to
\* spare, no window in use is deleted.
SweepSparesUse == WindowLen + Slowest <= Retention + 1 => swept = {}

Safety == TypeOK /\ WithinLimit /\ RefusedWhenUsedUp /\ SweepSparesUse

\* The sweep prunes expired windows.
PrunesExpired == swept = {}

\* A request is refused only when as many as the limit are admitted.
RefusedOnlyAtLimit ==
    \A r \in Answered("429") : Cardinality(Of(Answered("touch") \union Answered("200"), WindowOf(r))) >= Limit
-----------------------------------------------------------------------------
(* Why Safety holds: as long as somebody may count in a window that was    *)
(* not swept, its row has the count of all that came.                        *)

Sane ==
    /\ IsFiniteSet(Requests)
    /\ Limit \in Nat /\ WindowLen \in Nat \ {0} /\ Retention \in Nat /\ Slowest \in Nat
    /\ LastTime \in Nat

InTime ==
    \A r \in Requests :
        /\ askedAt[r] <= clock
        /\ verify[r] = "found" => clock <= askedAt[r] + Slowest

\* A window in use has all that counted.
CountsAll ==
    \A w \in Starts \ swept : InUse(w) =>
        Cardinality(Of(passed, w)) = IF windows[w] <= Limit THEN windows[w] ELSE Limit

\* What a request has been counted as.
Accounts ==
    /\ Answered("200") \subseteq passed
    /\ \A r \in Answered("touch") : r \in passed <=> Allows(1)
    /\ \A w \in Starts \ swept : Cardinality(Of(passed, w)) <= Limit

IInv == TypeOK /\ InTime /\ CountsAll /\ Accounts /\ RefusedWhenUsedUp /\ SweepSparesUse
=============================================================================
