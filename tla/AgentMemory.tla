----------------------------- MODULE AgentMemory -----------------------------
(***************************************************************************)
(* The agent memory store (blocks/agent-memory): POST /turns, the cron run *)
(* POST /compact and GET /context, for one active session.                 *)
(*                                                                         *)
(* Compactions may overlap and may die between their three statements.     *)
(* Of a text the model knows its tokens.  No statement writes the          *)
(* embedding of a turn, so that GET /context retrieves none.               *)
(***************************************************************************)
EXTENDS Integers, FiniteSets

CONSTANTS MaxTurns,        \* bound
          TurnTokens,      \* what a turn may count
          SummaryTokens,   \* what a summary may count
          Threshold,       \* MEMORY_COMPACT_AT_TOKENS
          KeepRecent       \* MEMORY_KEEP_RECENT_TURNS

VARIABLES turnCount, totalTokens, compactedThrough,  \* the session's row
          turns,           \* turn -> [tokens, compacted]
          summaries,       \* <<from, to>> -> tokens, or Missing
          compactor,       \* run -> [at, from, to, original, summary]
          disturbed        \* two compactions overlapped, or one died half-way

vars == <<turnCount, totalTokens, compactedThrough, turns, summaries, compactor, disturbed>>

Runs == {"one", "two"}
Away == [at |-> "idle", from |-> 0, to |-> 0, original |-> 0, summary |-> 0]
Ranges == (1..MaxTurns) \X (1..MaxTurns)
Missing == -1
Held == {r \in (1..turnCount) \X (1..turnCount) : summaries[r] >= 0}

UpTo(f, S, last) ==
    LET sum[n \in 0..last] == IF n = 0 THEN 0 ELSE sum[n - 1] + IF n \in S THEN f[n] ELSE 0
    IN  sum[last]
SumOver(f, S) == UpTo(f, S, turnCount)

Init ==
    /\ turnCount = 0 /\ totalTokens = 0 /\ compactedThrough = 0 /\ disturbed = FALSE
    /\ turns = [t \in 1..MaxTurns |-> [tokens |-> 0, compacted |-> FALSE]]
    /\ summaries = [r \in Ranges |-> Missing]
    /\ compactor = [c \in Runs |-> Away]

\* POST /turns: the count, the total and the turn in one statement.
AddTurn(tokens) ==
    /\ turnCount < MaxTurns
    /\ turnCount' = turnCount + 1 /\ totalTokens' = totalTokens + tokens
    /\ turns' = [turns EXCEPT ![turnCount + 1].tokens = tokens]
    /\ UNCHANGED <<compactedThrough, summaries, compactor, disturbed>>

ShouldCompact == totalTokens > Threshold /\ turnCount > compactedThrough

\* compactionWindow of the row that the run has read, and the turns in it.
Select(c) ==
    /\ compactor[c].at = "idle" /\ ShouldCompact
    /\ compactedThrough + 1 + KeepRecent <= turnCount
    /\ LET from == compactedThrough + 1
           to == turnCount - KeepRecent
       IN  compactor' = [compactor EXCEPT ![c] =
               [at |-> "asking", from |-> from, to |-> to, summary |-> 0,
                original |-> SumOver([t \in 1..MaxTurns |-> turns[t].tokens], from..to)]]
    /\ disturbed' = (disturbed \/ \E x \in Runs \ {c} : compactor[x].at # "idle")
    /\ UNCHANGED <<turnCount, totalTokens, compactedThrough, turns, summaries>>

\* The model's summary: a range that has one already keeps the tokens of the first.
SaveSummary(c, n) ==
    /\ compactor[c].at = "asking"
    /\ LET r == <<compactor[c].from, compactor[c].to>>
       IN  summaries' = [summaries EXCEPT ![r] = IF @ = Missing THEN n ELSE @]
    /\ compactor' = [compactor EXCEPT ![c].at = "saved", ![c].summary = n]
    /\ UNCHANGED <<turnCount, totalTokens, compactedThrough, turns, disturbed>>

MarkTurns(c) ==
    /\ compactor[c].at = "saved"
    /\ turns' = [t \in 1..MaxTurns |->
                    IF t \in compactor[c].from..compactor[c].to
                    THEN [turns[t] EXCEPT !.compacted = TRUE] ELSE turns[t]]
    /\ compactor' = [compactor EXCEPT ![c].at = "marked"]
    /\ UNCHANGED <<turnCount, totalTokens, compactedThrough, summaries, disturbed>>

AllOfIt(original, summary) == original

\* tokenReduction: a summary longer than its turns reclaims nothing.
Reclaimed(original, summary) == IF summary < original THEN original - summary ELSE 0

UpdateSession(c) ==
    /\ compactor[c].at = "marked"
    /\ LET n == Reclaimed(compactor[c].original, compactor[c].summary)
       IN  totalTokens' = IF n < totalTokens THEN totalTokens - n ELSE 0
    /\ compactedThrough' = compactor[c].to
    /\ compactor' = [compactor EXCEPT ![c] = Away]
    /\ UNCHANGED <<turnCount, turns, summaries, disturbed>>

\* The model or a statement fails, or the function dies.
Die(c) ==
    /\ compactor[c].at # "idle" /\ compactor' = [compactor EXCEPT ![c] = Away]
    /\ disturbed' = (disturbed \/ compactor[c].at # "asking")
    /\ UNCHANGED <<turnCount, totalTokens, compactedThrough, turns, summaries>>

Next ==
    \/ \E n \in TurnTokens : AddTurn(n)
    \/ \E c \in Runs :
          \/ Select(c) \/ MarkTurns(c) \/ UpdateSession(c) \/ Die(c)
          \/ \E n \in SummaryTokens : SaveSummary(c, n)

Spec == Init /\ [][Next]_vars

\* GET /context: every summary, and the newest turns that are not compacted.
Open == {t \in 1..turnCount : ~turns[t].compacted}
Recent == {t \in Open : Cardinality({x \in Open : x > t}) < KeepRecent}
InContext == Recent \union UNION {r[1]..r[2] : r \in Held}

-----------------------------------------------------------------------------
TypeOK ==
    /\ turnCount \in 0..MaxTurns /\ compactedThrough \in 0..MaxTurns /\ totalTokens \in Nat
    /\ summaries \in [Ranges -> Nat \union {Missing}] /\ disturbed \in BOOLEAN
    /\ \A c \in Runs : compactor[c].at \in {"idle", "asking", "saved", "marked"}

\* Whatever overlaps or dies, what is marked compacted has a summary that covers it.
CompactedIsSummarised ==
    \A t \in 1..turnCount : turns[t].compacted => \E r \in Held : t \in r[1]..r[2]

Tokens(S) == SumOver([t \in 1..MaxTurns |-> turns[t].tokens], S)
Counted(r) == IF summaries[r] < Tokens(r[1]..r[2]) THEN summaries[r] ELSE Tokens(r[1]..r[2])

\* Compactions that neither overlap nor die half-way summarise each turn once, leave no
\* gap, and keep the session's total at what its turns and summaries count (a summary
\* longer than its turns for no more than they did).
TotalIsTrue ==
    LET kept == Held
    IN  ~disturbed =>
        /\ \A r, q \in kept : r # q => r[2] < q[1] \/ q[2] < r[1]
        /\ (\A c \in Runs : compactor[c].at \in {"idle", "asking"}) =>
               /\ Open = compactedThrough + 1 .. turnCount
               /\ totalTokens = Tokens(Open)
                      + SumOver([t \in 1..MaxTurns |->
                                    IF \E r \in kept : r[1] = t
                                    THEN Counted(CHOOSE r \in kept : r[1] = t) ELSE 0],
                                1..MaxTurns)

Safety == TypeOK /\ CompactedIsSummarised /\ TotalIsTrue

-----------------------------------------------------------------------------
(* Why Safety holds: an inductive invariant.                               *)

Sane == /\ MaxTurns \in Nat /\ KeepRecent \in Nat
        /\ TurnTokens \subseteq Nat /\ SummaryTokens \subseteq Nat

Run == [at : {"idle", "asking", "saved", "marked"},
        from : Nat, to : Nat, original : Nat, summary : Nat]
Span(c) == <<compactor[c].from, compactor[c].to>>

Shape ==
    /\ turnCount \in 0..MaxTurns /\ compactedThrough \in 0..turnCount /\ totalTokens \in Nat
    /\ turns \in [1..MaxTurns -> [tokens : Nat, compacted : BOOLEAN]]
    /\ \A t \in 1..MaxTurns : turns[t].compacted => t <= turnCount
    /\ summaries \in [Ranges -> Nat \union {Missing}]
    /\ \A r \in Ranges : summaries[r] >= 0 => r[1] <= r[2] /\ r[2] <= turnCount
    /\ compactor \in [Runs -> Run] /\ disturbed \in BOOLEAN
    /\ \A c \in Runs : compactor[c].at # "idle" =>
          /\ 1 <= compactor[c].from /\ compactor[c].from <= compactor[c].to
          /\ compactor[c].to <= turnCount
          /\ compactor[c].at \in {"saved", "marked"} => summaries[Span(c)] >= 0

\* What a turn adds to the total: its tokens, or those of the summary that starts there.
Worth == [t \in 1..MaxTurns |->
    IF t > compactedThrough THEN turns[t].tokens
    ELSE IF \E r \in Held : r[1] = t THEN Counted(CHOOSE r \in Held : r[1] = t) ELSE 0]

Undisturbed ==
    /\ \A c, d \in Runs : compactor[c].at = "idle" \/ compactor[d].at = "idle" \/ c = d
    /\ \A c \in Runs : compactor[c].at # "idle" =>
          /\ compactor[c].from = compactedThrough + 1
          /\ compactor[c].original = Tokens(compactor[c].from..compactor[c].to)
          /\ compactor[c].at \in {"saved", "marked"} => compactor[c].summary = summaries[Span(c)]
    /\ \A r \in Held : r[2] > compactedThrough =>
          \E c \in Runs : compactor[c].at \in {"saved", "marked"} /\ r = Span(c)
    /\ \A r, q \in Held : r # q => r[2] < q[1] \/ q[2] < r[1]
    /\ \A t \in 1..turnCount : turns[t].compacted <=>
          \/ t <= compactedThrough
          \/ \E c \in Runs : compactor[c].at = "marked" /\ t <= compactor[c].to
    /\ totalTokens = SumOver(Worth, 1..turnCount)

IInv == Shape /\ CompactedIsSummarised /\ (~disturbed => Undisturbed)

\* No turn is dropped from the context: it is replayed or summarised.
NothingDropped == InContext = 1..turnCount

\* Also when compactions overlap or die, a turn is summarised once at most.
SummarisedOnce == \A r, q \in Held : r # q => r[2] < q[1] \/ q[2] < r[1]
=============================================================================
