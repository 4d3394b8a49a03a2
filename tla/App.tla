--------------------------------- MODULE App --------------------------------
(* The blocks that serve an application, side by side: webhooks,           *)
(* notifications, billing, streams, keys, flags, embeddings, memory,       *)
(* chat, answers, analytics, schema changes, compliance, masking.          *)
(* They share no table, so each has its own specification over its own     *)
(* variables.  A constant keeps the name that it has in its block unless   *)
(* another block uses that name too.                                       *)
EXTENDS Naturals, FiniteSets, Sequences

CONSTANTS Calls, EventOf, Provider, SignedWith, FreshCalls, ReplayLimit
VARIABLES secret, hook, archived, inWindow, inboxKeys, inboxSent, replaying,
          replayed
Inbound == INSTANCE InboundWebhooks WITH Fresh <- FreshCalls

CONSTANTS Messages, DedupeKeyOf, NoKey, Senders, LettersPerRun, MaxAttempts,
          CronRuns
VARIABLES note, tries, quiet, task, letters, mailing, receipt, mailed,
          refusals, cronRuns
Notes == INSTANCE Notifications WITH
    KeyOf <- DedupeKeyOf, BatchSize <- LettersPerRun, Runs <- CronRuns

CONSTANTS Payloads, Sub, Stamp, Status, PaidTo, Callers, Quota, Grace,
          Schedule, Sweepers, LastDay
VARIABLES held, delivered, day, caller, meter, crowd, notices, dunned,
          overdue, announcing
Money == INSTANCE Billing WITH Limit <- Quota

CONSTANTS Streams, LastId, DrainBatch
VARIABLES inserting, buffer, nextId, late, pruned, stage, closed, cursor,
          drains, signals, checkedOut, seenIds, listed, stalled
Live == INSTANCE Realtime WITH Batch <- DrainBatch

CONSTANTS Requests, RateLimit, WindowLen, Retention, Slowest, LastTime
VARIABLES clock, key, windows, verify, askedAt, passed, swept
Edge == INSTANCE ApiEdge WITH Limit <- RateLimit

CONSTANTS Subjects, Testers, Buckets, Weights, Percentages, Slips, LastDate,
          Lookback, MaxExposures
VARIABLES flag, override, exposures, conversions, results, date
Flags == INSTANCE FeatureFlags

CONSTANTS Scans, SourceRows, Texts, RowsPerScan, Grain, MaxTime
VARIABLES rows, open, now, watermark, pending, vectors, embedded, embedder,
          deleted, excused
Vectors == INSTANCE EmbeddingFreshness WITH
    Keys <- SourceRows, BatchSize <- RowsPerScan, scan <- embedder, clock <- now

CONSTANTS MaxTurns, TurnTokens, SummaryTokens, CompactAt, KeepRecent
VARIABLES turnCount, totalTokens, compactedThrough, turns, summaries,
          compactor, disturbed
Memory == INSTANCE AgentMemory WITH Threshold <- CompactAt

CONSTANTS Turns, Caller, MessageId, HistoryLimit
VARIABLES tenant, messages, turn, billed, after
Talk == INSTANCE Chat

CONSTANTS Stores, Lookups, AskOf, TokensOf, Ttl, LastNow, Reach
VARIABLES entries, store, lookup, stats, moment, written, expiry
Cache == INSTANCE SemanticCache WITH now <- moment

CONSTANTS Facts, ActorOf, NameOf, At, FactKeyOf, Resent, Gap, DayLength,
          WeekLength, DaysBack, Today, Rollups, Funnels, Window
VARIABLES events, sessions, daily, cohort, rollup, sends, report, dated, overtaken
Counts == INSTANCE Analytics WITH KeyOf <- FactKeyOf

CONSTANTS SchemaVersions, ReleaseOf, MaxRollbacks, MaxDeaths
VARIABLES ledger, holder, instance, operator, rollbacks, deaths, rolledBack
Schema == INSTANCE Migrations WITH
    Versions <- SchemaVersions, Release <- ReleaseOf

CONSTANTS Writers, MaxEntries, MaxPurges, MaxEdits
VARIABLES log, lastId, writer, purge, purges, edits, edited, everEdited,
          overlapped
Audit == INSTANCE AuditChain

CONSTANTS SubjectRows, Links, Inquiries, MaxHolds
VARIABLES present, masked, holds, placed, request
Erasure == INSTANCE SubjectRequests WITH
    Rows <- SubjectRows, Requests <- Inquiries

CONSTANTS Rules, HasKey, SameText, PrimaryKeys, Filled, MaskBatch, MaskRuns, Written,
          MaxWrites
VARIABLES active, cell, run, runs, writes, touched
Masking == INSTANCE PiiAnonymizer WITH
    Keys <- PrimaryKeys, Batch <- MaskBatch, Runs <- MaskRuns

-----------------------------------------------------------------------------
(* What the blocks take for granted of their constants.                    *)

ASSUME NotesSane == Notes!Sane
ASSUME MoneySane == Money!Sane
ASSUME LiveSane == Live!Sane
ASSUME EdgeSane == Edge!Sane
ASSUME FlagsSane == Flags!Sane
ASSUME VectorsSane == Vectors!Sane
ASSUME MemorySane == Memory!Sane
ASSUME TalkSane == Talk!Sane
ASSUME CacheSane == Cache!Sane
ASSUME CountsSane == Counts!Sane
ASSUME SchemaSane == Schema!Sane
ASSUME AuditSane == Audit!Sane
ASSUME ErasureSane == Erasure!Sane
ASSUME MaskingSane == Masking!Sane

-----------------------------------------------------------------------------
(* As the blocks share no table, one of them runs in each behaviour, and   *)
(* the others stay at rest: what one does, nobody else sees.               *)

VARIABLE which  \* the block that runs

inboundVars == <<secret, hook, archived, inWindow, inboxKeys, inboxSent,
                 replaying, replayed>>
notesVars == <<note, tries, quiet, task, letters, mailing, receipt, mailed,
               refusals, cronRuns>>
billingVars == <<held, delivered, day, caller, meter, crowd, notices, dunned,
                 overdue, announcing>>
rtVars == <<inserting, buffer, nextId, late, pruned, stage, closed, cursor,
            drains, signals, checkedOut, seenIds, listed, stalled>>
edgeVars == <<clock, key, windows, verify, askedAt, passed, swept>>
flagsVars == <<flag, override, exposures, conversions, results, date>>
freshVars == <<rows, open, now, watermark, pending, vectors, embedded,
               embedder, deleted, excused>>
memVars == <<turnCount, totalTokens, compactedThrough, turns, summaries,
             compactor, disturbed>>
chatVars == <<tenant, messages, turn, billed, after>>
cacheVars == <<entries, store, lookup, stats, moment, written, expiry>>
anaVars == <<events, sessions, daily, cohort, rollup, sends, report, dated, overtaken>>
migVars == <<ledger, holder, instance, operator, rollbacks, deaths,
             rolledBack>>
auditVars == <<log, lastId, writer, purge, purges, edits, edited, everEdited,
               overlapped>>
subjVars == <<present, masked, holds, placed, request>>
piiVars == <<active, cell, run, runs, writes, touched>>

Init ==
    /\ which \in {"inbound", "notes", "billing", "rt", "edge", "flags", "fresh", "mem", "chat", "cache", "ana", "mig", "audit", "subj", "pii"}
    /\ Inbound!Init
    /\ Notes!Init
    /\ Money!Init
    /\ Live!Init
    /\ Edge!Init
    /\ Flags!Init
    /\ Vectors!Init
    /\ Memory!Init
    /\ Talk!Init
    /\ Cache!Init
    /\ Counts!Init
    /\ Schema!Init
    /\ Audit!Init
    /\ Erasure!Init
    /\ Masking!Init

Next ==
    \/ /\ which = "inbound" /\ Inbound!Next
       /\ UNCHANGED <<which, notesVars, billingVars, rtVars, edgeVars,
                      flagsVars, freshVars, memVars, chatVars, cacheVars,
                      anaVars, migVars, auditVars, subjVars, piiVars>>
    \/ /\ which = "notes" /\ Notes!Next
       /\ UNCHANGED <<which, inboundVars, billingVars, rtVars, edgeVars,
                      flagsVars, freshVars, memVars, chatVars, cacheVars,
                      anaVars, migVars, auditVars, subjVars, piiVars>>
    \/ /\ which = "billing" /\ Money!Next
       /\ UNCHANGED <<which, inboundVars, notesVars, rtVars, edgeVars,
                      flagsVars, freshVars, memVars, chatVars, cacheVars,
                      anaVars, migVars, auditVars, subjVars, piiVars>>
    \/ /\ which = "rt" /\ Live!Next
       /\ UNCHANGED <<which, inboundVars, notesVars, billingVars, edgeVars,
                      flagsVars, freshVars, memVars, chatVars, cacheVars,
                      anaVars, migVars, auditVars, subjVars, piiVars>>
    \/ /\ which = "edge" /\ Edge!Next
       /\ UNCHANGED <<which, inboundVars, notesVars, billingVars, rtVars,
                      flagsVars, freshVars, memVars, chatVars, cacheVars,
                      anaVars, migVars, auditVars, subjVars, piiVars>>
    \/ /\ which = "flags" /\ Flags!Next
       /\ UNCHANGED <<which, inboundVars, notesVars, billingVars, rtVars,
                      edgeVars, freshVars, memVars, chatVars, cacheVars,
                      anaVars, migVars, auditVars, subjVars, piiVars>>
    \/ /\ which = "fresh" /\ Vectors!Next
       /\ UNCHANGED <<which, inboundVars, notesVars, billingVars, rtVars,
                      edgeVars, flagsVars, memVars, chatVars, cacheVars,
                      anaVars, migVars, auditVars, subjVars, piiVars>>
    \/ /\ which = "mem" /\ Memory!Next
       /\ UNCHANGED <<which, inboundVars, notesVars, billingVars, rtVars,
                      edgeVars, flagsVars, freshVars, chatVars, cacheVars,
                      anaVars, migVars, auditVars, subjVars, piiVars>>
    \/ /\ which = "chat" /\ Talk!Next
       /\ UNCHANGED <<which, inboundVars, notesVars, billingVars, rtVars,
                      edgeVars, flagsVars, freshVars, memVars, cacheVars,
                      anaVars, migVars, auditVars, subjVars, piiVars>>
    \/ /\ which = "cache" /\ Cache!Next
       /\ UNCHANGED <<which, inboundVars, notesVars, billingVars, rtVars,
                      edgeVars, flagsVars, freshVars, memVars, chatVars,
                      anaVars, migVars, auditVars, subjVars, piiVars>>
    \/ /\ which = "ana" /\ Counts!Next
       /\ UNCHANGED <<which, inboundVars, notesVars, billingVars, rtVars,
                      edgeVars, flagsVars, freshVars, memVars, chatVars,
                      cacheVars, migVars, auditVars, subjVars, piiVars>>
    \/ /\ which = "mig" /\ Schema!Next
       /\ UNCHANGED <<which, inboundVars, notesVars, billingVars, rtVars,
                      edgeVars, flagsVars, freshVars, memVars, chatVars,
                      cacheVars, anaVars, auditVars, subjVars, piiVars>>
    \/ /\ which = "audit" /\ Audit!Next
       /\ UNCHANGED <<which, inboundVars, notesVars, billingVars, rtVars,
                      edgeVars, flagsVars, freshVars, memVars, chatVars,
                      cacheVars, anaVars, migVars, subjVars, piiVars>>
    \/ /\ which = "subj" /\ Erasure!Next
       /\ UNCHANGED <<which, inboundVars, notesVars, billingVars, rtVars,
                      edgeVars, flagsVars, freshVars, memVars, chatVars,
                      cacheVars, anaVars, migVars, auditVars, piiVars>>
    \/ /\ which = "pii" /\ Masking!Next
       /\ UNCHANGED <<which, inboundVars, notesVars, billingVars, rtVars,
                      edgeVars, flagsVars, freshVars, memVars, chatVars,
                      cacheVars, anaVars, migVars, auditVars, subjVars>>

allVars == <<which, inboundVars, notesVars, billingVars, rtVars, edgeVars,
             flagsVars, freshVars, memVars, chatVars, cacheVars, anaVars,
             migVars, auditVars, subjVars, piiVars>>

Spec == Init /\ [][Next]_allVars

-----------------------------------------------------------------------------
\* An event that a provider was told is received can be replayed, and its retries, in any
\* order and at once, publish it once (webhooks-inbound).
InboundSafe == which = "inbound" => Inbound!Safety

\* Overlapping runs of POST /send and the digest: a row says 'sent' or 'failed' only if that
\* was earned, and one message per dedupe key is live (notifications).
NotesSafe == which = "notes" => Notes!Safety

\* Late and repeated webhooks give no access back, metering overruns a quota by no more than
\* its crowd, and an escalation is announced once (billing).
MoneySafe == which = "billing" => Money!Safety

\* An open stream at rest whose last query succeeded has missed nothing, and any client resumes
\* without a gap, but for events that committed after one with a higher id (realtime).
LiveSafe == which = "rt" => Live!Safety

\* Concurrent requests are admitted up to the limit of their window and refused only when it is
\* used up, unless the sweep deletes a window in use, which takes a window or a call that
\* outlasts the retention (api-edge).
EdgeSafe == which = "edge" => Edge!Safety

\* Rollups that run again count the subjects of a day, never rows, and no rollout takes a subject
\* out again or favours a variant by more than a bucket (feature-flags).
FlagsSafe == which = "flags" => Flags!Safety

\* A vector that is out of date is pending, or the watermark has still to reach its row; a
\* stored hash that is not the vector's heals: for scans that do not overlap, of rows that no
\* scan overtook or cut off, unless one brings back the text of a deleted one
\* (embedding-freshness).
VectorsSafe == which = "fresh" => Vectors!Safety

\* What is marked compacted is in a summary, and undisturbed compactions leave no gap
\* (agent-memory).
MemorySafe == which = "mem" => Memory!Safety

\* A retry of a reply that was seen to its end costs nothing, and no guessed id shows a model
\* what another caller said; a stored answer is found for its term, in its scope (chat,
\* semantic-cache).
AssistantSafe ==
    /\ which = "chat" => Talk!Safety
    /\ which = "cache" => Cache!Safety

\* Retries, overlapping rollups and late events: a day counts no event that did not happen and
\* a keyed one once, a session counts its own events unless rollups overlapped, a cohort is no
\* later than what was seen, and a funnel that was reached was walked (analytics).
CountsSafe == which = "ana" => Counts!Safety

\* Releases that boot at once never run scripts beside each other, and apply every version
\* after all before it (packages/migrate).
SchemaSafe == which = "mig" => Schema!Safety

\* A chain that was written in sequence verifies unless the text of an entry was edited, and
\* then it does not until a purge hashes it anew; a complete erasure leaves nothing it had to
\* erase, and none is admitted that finds a hold; and a complete masking run has masked every
\* row of a table whose key reads the same in SQL and in JavaScript (compliance,
\* pii-anonymizer).
ComplianceSafe ==
    /\ which = "audit" => Audit!Safety
    /\ which = "subj" => Erasure!Safety
    /\ which = "pii" => Masking!Safety

-----------------------------------------------------------------------------
(* What docs and comments say and the code does not do.  TLC finds each of *)
(* these violated; see section 6 of README.md.                             *)

\* 001_inbound.sql:24: 'accepted' means that the event was queued.
AcceptedWasQueued == Inbound!AcceptedWasQueued
\* billing: each notice that is recorded is announced.
NoticesAnnounced == Money!NoticesAnnounced
\* realtime, stream.ts:13: every exit path returns the client to the pool.
ClosedReleases == Live!ClosedReleases
\* realtime, README.md:50: a subscriber that is woken finds the row.
OpenIsCaughtUp == Live!OpenIsCaughtUp
\* realtime: the cursor loses no event, whatever order transactions commit in.
NothingLost == Live!NothingLost
\* api-edge, README.md:40: the sweep prunes expired windows (violated with Retention = 0).
PrunesExpired == Edge!PrunesExpired
\* api-edge, README.md:49: the limit is one of requests, not of failures.
RefusedOnlyAtLimit == Edge!RefusedOnlyAtLimit
\* feature-flags, README.md:13: assignment is sticky, also when the rollout is widened.
KeepsVariant == Flags!KeepsVariant
\* feature-flags, index.ts:164: /results counts distinct subjects, not exposures.
SummedOnce == Flags!SummedOnce
\* feature-flags, 001_feature_flags.sql:81: the subjects of a result are those exposed.
RatesCountExposed == Flags!RatesCountExposed
\* embedding-freshness: no edited text keeps its old embedding for good.
NothingForgotten == Vectors!NothingForgotten
\* embedding-freshness, README.md:3: a row that is deleted and comes back is embedded again.
ReturnedIsEmbedded == Vectors!ReturnedIsEmbedded
\* agent-memory: no turn drops out of the context, none is summarised twice.
NothingDropped == Memory!NothingDropped
SummarisedOnce == Memory!SummarisedOnce
\* packages/migrate: no version is applied on top of one that is missing.
NoHole == Schema!NoHole
\* 001_compliance.sql:125: FOR UPDATE serialises the writers of the chain.
WritersKeepChain == Audit!WritersKeepChain
\* compliance, README.md:29: editing history breaks the chain detectably.
EditingShows == Audit!EditingShows
\* ... and of occurred_at, or of where a field of the entry ends.
EveryFieldShows == Audit!EveryFieldShows
\* compliance, subject.ts:55: an export has every row that the links found.
ExportIsWhole == Erasure!ExportIsWhole
\* notifications, index.ts:204: ten comments become one email (a PROPERTY).
DigestedOnce == Notes!DigestedOnce
\* compliance, index.ts:81: no subject under a legal hold is erased (a PROPERTY).
HeldSurvives == Erasure!HeldSurvives
\* 001_chat.sql:38: a dropped connection does not double-bill, one call for each key.
BilledOnce == Talk!BilledOnce
\* chat: the reply that a caller saw to its end is the one that is kept.
SeenIsKept == Talk!SeenIsKept
\* semantic-cache, README.md: the cost saved is that of the answer which was served.
SavedIsTrue == Cache!SavedIsTrue
\* analytics, README.md:32: a user active from 10:55 to 11:05 is one session.
PauseOnlyBetween == Counts!PauseOnlyBetween
\* analytics, README.md:32: so a session count counts a visit once, and its events.
SessionsCountOnce == Counts!SessionsCountOnce
\* analytics, retention.ts:28: retention is a fraction of the cohort.
RetentionIsFraction == Counts!RetentionIsFraction
\* pii-anonymizer: a complete run has masked every declared column.
CompleteIsWhole == Masking!CompleteIsWhole
\* pii-anonymizer, run.ts:57: keys are compared as text, so any key type will do.
AnyKeyWorks == Masking!AnyKeyWorks
\* pii-anonymizer, README.md:24: the same input always masks to the same output.
JoinsSurvive == Masking!JoinsSurvive
\* 001_pii_anonymizer.sql:38: the detail says what a run has done of each rule.
DetailSaysDone == Masking!DetailSaysDone

=============================================================================
