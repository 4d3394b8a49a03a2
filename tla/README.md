# Verification of Neon Blocks

This directory holds TLA+ models of the parts of Neon Blocks (`packages/`, `blocks/`) that have to
be right when functions overlap, die, retry and answer late: their TLC configurations, and TLAPS
proofs of their main theorems. `PROJECT.json` lists the components, the runs, the mutants that show
each property can fail, the lines of code behind every definition, the disagreements between code
and documentation, and the hazards.

## 1. The system

Neon Blocks is a set of serverless functions over one Postgres database. A function is started by
HTTP, by cron or by an object-storage event; it may run several times at once and may be killed at
any point. All state is in Postgres. `packages/core/src/db.ts` gives a handler a pool in
autocommit: **a statement is a transaction, and anything can happen between two statements of a
handler.** Row locks (`FOR UPDATE SKIP LOCKED`) last as long as their statement. This is the
granularity of every model here.

| Part | State | Operations | What is hard | What makes it correct |
|---|---|---|---|---|
| Event outbox (`packages/events`) | `blocks_core.outbox_events`: `delivered_at`, `dead_lettered_at`, `retry_at`, `attempts`, unique key | publish, claim, ack, fail, `EventConsumer.drain` | overlapping drains hold one event; the batch is acked by one statement at the end; dead letters stay claimable | at least once per registration; dead letters have used their attempts; one event per key; every event is settled |
| Job queue (`packages/queue/src/queue.ts`) | `blocks_queue.jobs`: `state`, `attempts`, `run_at`, `leased_until`, partial unique index on active keys | enqueue, claim, complete, fail, release, replayDead, reclaim, purge | leases that run out, late answers, keys that become free, rejected statements | no silent success, no early death, one active job per key, every job settled |
| Worker (`packages/queue/src/worker.ts`) | one invocation's batch, budget, current job | runOnce, eligible types, runJob, release | one lease for a batch handled in sequence; counts read before the claim; complete inside the try block | batches disjoint while leases are safe; the run ends in time |
| Queue block (`blocks/queue`) | both tables | POST /work, /publish, /enqueue, daily sweep | two tables, no common transaction | no event delivered without a job, and no second active job |
| Outbound webhooks (`blocks/webhooks-outbound`) | endpoints (failures, circuit, disabled), deliveries | register, remove, enable, fan-out, send | the claim marks nothing; results overwrite each other; breaker state read with the claim | delivered means accepted; dead means exhausted; breaker columns agree; the fan-out is complete |
| Inbound webhooks | `deliveries`, unique provider event id of accepted rows | POST /hooks/:provider, /replay | archive and publish are two statements; retries race; secrets rotate | an accepted event can be replayed; an event is published once |
| Billing | `subscriptions`, usage, dunning notices | POST /sync, /usage, /sweep, GET /entitlements | provider events out of order; a quota is asked for and metered in two calls; notice stored before it is published | no stale state wins; overruns are bounded; one announcement per stage |
| Notifications | `notifications`, preferences, dedupe index of live rows | POST /notify, /send, /digest | overlapping senders, late UPDATEs, quiet hours | a status is earned; one live row per key |
| Realtime | `events`, presence, one LISTEN connection per stream | publish, GET /subscribe, /sweep | replay joined to live notifications, pages, reconnects | no event passed, but for those that commit late; at rest and after a query that succeeded, none missed |
| API keys and limits | `api_keys`, `rate_windows` | POST /keys, /verify, /sweep | two statements on a moving clock, beside the sweep | no window admits more than its limit, and none refuses before the limit is counted |
| Feature flags | flags, overrides, exposures, results | POST /flags, /convert, /rollup, GET /evaluate | repeated exposures and rollups | subjects are counted, not rows; rollouts only add |
| File registry | `objects` and a bucket | POST /uploads, /finalize, /reconcile, DELETE | bucket and table have no common transaction; listings are cut short | rows tell what was in the bucket |
| Ingest router | `dispatches`, jobs of the queue | POST /route, /reconcile | duplicate events beside a cron run, and jobs that write into the bucket | each job of a version once |
| CSV import | `imports`, `row_errors`, a target table | POST /import, /reconcile | death between claim, merge and report | rows inserted once; the report re-parses into the rejected rows |
| Image derivatives | `derivatives`, two buckets | GET /i/:key, POST /reconcile | the source changes between HEAD and GET | no decompression over the budget; listed sources under the prefix keep theirs |
| RAG, vision, extraction | a row per object version, chunks or answers | storage event, cron run, review | claim, paid call, result, in statements of their own, while objects change | an embedded document is whole while ingests do not overlap; one answer paid per version; doubt is queued for review unless the function dies |
| Moderation | `items`, `decisions`, quarantine prefix | POST /scan, /text, /decide/:id | a human and a model decide at once | nothing is released unanswered; what is removed is in quarantine first |
| Fresh embeddings | source rows, watermark, `pending`, vectors | POST /scan | rows commit late, scans die between two writes | a stale vector that a scan could see is due or pending |
| Agent memory, chat, semantic cache | sessions and summaries; conversations and messages; entries | turns, compaction; POST /chat; lookup, store, sweep | overlapping compactions; retries beside the answer that streams; terms that end meanwhile | compacted is summarised; a finished reply is never billed again; answers stay in their scope |
| Analytics | `events`, `sessions`, `daily_events`, `actor_cohorts` | POST /track, /rollup, GET /funnel, /retention | rollups overlap and events come late | a day counts what happened; a session counts its own events, unless rollups overlap |
| Compliance | hash-chained `audit_log`; links, holds, requests | trigger, purge, verify; export, erase | READ COMMITTED locks; holds placed meanwhile | of writes in turn, an entry with edited text is found until a purge; what an erasure covers is gone |
| PII anonymizer | rules, runs with their progress | POST /rules, /run | batches beside writers and other runs; death | what lies before the cursor is masked, if SQL and JavaScript write the key alike |
| Migrations (`packages/migrate`) | `blocks_core.migrations`, an advisory lock | autoMigrate, rollback | two releases boot at once; rollback takes no lock | one migrates at a time, in order |
| Hybrid search, db health, `packages/core`, `ai`, `storage`, `cli`, `scripts` | logs, snapshots, none | queries, reports, clients, tools | - | section 7 |

Interactions: a block publishes to the outbox or enqueues a job; cron calls POST /work, which drains
the outbox, whose registration `outbox_to_queue` enqueues a job for every event under the key
`event:<id>`, and then runs the worker; the daily sweep reclaims expired leases and purges both tables.
Cron calls POST /send of the outbound block. The outbound block has its own tables and meets the others at
POST /events only. Inbound webhooks and billing publish to the outbox, the ingest router enqueues jobs; in
their modules the outbox is the set of its keys and the queue that of its active jobs, which is what
`OneEventPerKey` and `ActiveKeysUnique` establish of them. The other blocks share no table with each other.

## 2. Modules and how they correspond to the code

    DurableWork            what a durable table promises         (abstract)
      ^ implements   ^
    JobQueue       Outbox                                        (one table and its processes each)
      \--- QueueBlock ---/                                       (both, joined by the bridge)
    BatchLease             when a lease can run out              (clock of one runOnce)
    OutboundWebhooks       endpoints, deliveries, senders

    Content     FileRegistry IngestRouter Csv CsvImport ImageDerivatives RagIngest Vision DocExtraction
                Moderation
    App         InboundWebhooks Notifications Billing Realtime ApiEdge FeatureFlags
                EmbeddingFreshness AgentMemory Chat SemanticCache Analytics Migrations AuditChain
                SubjectRequests PiiAnonymizer

Modules of the first group have an `MC...` module where their instances need definitions. The blocks of
the second group share no table. Content and App instantiate one module per block, each over variables of
its own, and state the properties of the blocks under names that runs and theorems share (`FilesSafe`,
`MoneySafe`, ...) with what the blocks assume of their constants (`Sane`). Their variable `which` chooses, in
the initial state, the block that runs; the others rest. Since the blocks share nothing, a behaviour in which
several run is, for the properties of each, one in which it runs alone: the reachable states of the blocks add
up instead of being multiplied, and every one of them is explored completely. MCContent and MCApp extend Content
and App with the values of the constants.

Theorems stand in `JobQueue_proofs`, `Outbox_proofs`, `BatchLease_proofs`, `OutboundWebhooks_proofs`, at the
end of `QueueBlock`, and for the blocks of Content in `Content_proofs`, for those of App in `App_proofs` and
`AppData_proofs`. The inductive invariant that a proof uses, `IInv`, is at the end of the module of the block.

**JobQueue.** `state`, `attempts`, `due`, `lease` are the columns of a row; a request that inserted a
row names it. `call` is how far a caller of `enqueue` got: its INSERT and its SELECT are two
actions. `pc`, `eligible`, `batch`, `cur`, `snap` are the local variables of an invocation of
`runOnce`; `snap` holds the attempts that `RETURNING` gave, which is what the catch block compares
with `max_attempts`. `StartRun` is the count of running jobs, `Claim` the UPDATE, `NextJob` to
`RecordFailure` the loop, `CompleteThrows` the case in which `complete()` itself throws inside the try
block. `Reclaim` and `Purge` are statements of the sweep, `Replay` is `replayDead`. Every UPDATE has
the WHERE clause of the code: `complete` and `fail` go by id alone, `release` asks only for 'running'.
Time is abstracted to *due or not* and *lease live or expired*.

**BatchLease.** The clock that JobQueue leaves out: one claim, one lease for the batch, a budget that
is looked at between two jobs, handlers of bounded length.

**Outbox.** `row`, `delivered`, `dead`, `waiting`, `attempts` are the columns; `todo`, `cur`, `left`,
`failed`, `acked`, `snap` the local variables of `drain`. A claim marks nothing but the attempt;
rows other statements may have locked at that moment are skipped (`Lockable`).

**QueueBlock.** Instances of Outbox and JobQueue. The handler's call of `enqueue` inside a drain
(`BridgeInsert`, `BridgeReselect`, `BridgeReturns`, `BridgeFails`) is a request of the queue; the
steps of a drain, a worker and the sweep that stay in one table are those of the two modules. The
n-th dispatch of an event is the request `<<event, n>>`.

**OutboundWebhooks.** `endpoint`, `failures`, `circuit`, `disabled`, `status`, `attempts`, `due` are
columns; `pub`, `fanout`, `selected` a call of POST /events; `pc` to `snapCircuit` an invocation of
POST /send with the health its claim returned; `enabling` the gap between the two statements of
/enable. Removal cascades to deliveries, and the foreign keys reject a later insert.

**DurableWork.** Work items are new, open, done, failed or forgotten; an item is done only after it was
worked, and forgotten only after it was done. It can fail and be reopened.

In the modules below a statement, a storage call and an answer of a model are one action each, named after
the step of the handler; an invocation is a record `[at |-> ..., ...]` that holds the step it is at and the
local variables it has read. A death or an exception ends it there. Each has a `Safety` invariant: its type
invariant and the properties named here.

**FileRegistry.** `regRow`, `regSize` against `object`, one finalizer for the trigger and one for the cron
run, and a listing that may be cut. `ReadyWasSeen`, `ReconciledIsTrue`, `ListedFilesAreKept`.
**IngestRouter.** Versions `<<key, etag>>`, their row, the jobs stored for them; handled jobs write
derivatives. `EnqueuedOnce` (loops through derivatives included), `ReconcileCovers`.
**Csv.** Reader, writer, header mapping, validation and placeholders as functions over sequences of
characters: `RoundTrip`, `LineEnds`, `ReportRoundTrip`, `InsertedInPlace`. Its one
step reads any sheet of `Sheets`. **CsvImport.** The phases of `runImport` around them: `MergedOnce`,
`FinishedIsComplete`.
**ImageDerivatives.** Requests of any key, several under way at once, and the orphan run, which lists one
prefix, over sources, rows and files: `BudgetHolds`, `ListedSourcesKeep` (sources under the prefix),
`OneRowEach` (transforms with a height).
**RagIngest.** `ingestObject` called by event and by sweep, chunks known by index, content and model, and
deployments that change model, chunk size and size limit: `EmbeddedIsWhole` (no two ingests in one document
at a time, and chunks that were not copied from a twin), `ReconciledCovers` (a run that nothing disturbed).
**Vision.** `analyzeObject` called by both: `PaidOnce`, an etag costs one answered call and one more for
each analysis that began while another was busy with it. **DocExtraction.** Claim, answer, review queue and
reviews: `ExtractedOnce`, `DoubtIsReviewed` (`lost` are the fields a dead extractor had still to queue: they
are the exception, and there is no other).

**InboundWebhooks.** Calls are requests of a provider, several for one event, signed with the keys that are
valid then. `AnsweredIsReplayable`, `PublishedOnce`.
**Notifications.** `note` and `tries` are columns, `letters` and `mailing` what a run selected. The SELECT of
/send is modelled as it is meant (section 6). `StatusIsEarned`, `OneLivePerKey`.
**Billing.** A payload is a state of a subscription at the provider, and its row is the payload it was
written from. `CancellationHolds`, `OverrunBounded`, `DunnedOnce`.
**Realtime.** Ids are given out before they are committed. A stream owns one connection, whose queries run
in the order in which they were asked for: `drains` is that queue; two drains may hold the same cursor, and the
client then gets an event twice. A query may fail: the replay's ends the stream, a notification's leaves it open
and behind (`stalled`) until another one succeeds. `CaughtUp`, `NoGap`.
**ApiEdge.** The statements of /verify on a clock, each of which may fail, beside the sweep; `swept` are windows that
it deletes while in use: `WithinLimit`, `RefusedWhenUsedUp`, `SweepSparesUse`.
**FeatureFlags.** The hash is the bucket a subject falls into. The quotient is floating point in the code: it falls
on the side of the exact one unless it equals a sum of weights, and there `Slips` says what rounding does. Results
are rows per day and metric group: `ResultsCountSubjects`, `RolloutIsFair`.
**Moderation.** Items, scanners, a moderator, quarantine: `HistoryExplains`, `StaysClosed`, `BlockedIsMoved`.
**EmbeddingFreshness.** Source transactions with `updated_at` from their beginning, timestamps finer than
the milliseconds of the watermark, `pending` in its order; a deleted row takes its vector with it and leaves its
hash: `Fresh`, `HashHeals`.
**AgentMemory.** `CompactedIsSummarised`, `TotalIsTrue`. **Chat.** `RetriesAreFree`, `ContextIsOwn`,
`OneReply`. **SemanticCache.** `HitsAreInScope`, `StoredIsFound`.
**Analytics.** The three statements of the rollup read a snapshot and write later: `CountedOnce`,
`CountsItsEvents` (its exception, `overtaken`, is a rollup that another one overtook), `NoPauseInside`, `CohortIsFirst`, `FunnelIsWalked`.
**Migrations.** Instances of several releases, the advisory lock, a rollback without it: `OneMigrates`,
`InOrder`.
**AuditChain.** A row-level lock gives the newest version of the row that the snapshot found, not a newer
row. An entry has a text, which is hashed, and the rest, which is not (`occurred_at`, where a field ends):
`ChainTells`, of writes and purges one after the other and of edits of the text. **SubjectRequests.** `ErasedIsGone`, `HeldIsRefused`, `LostToErasures`.
**PiiAnonymizer.** A cell counts how often it was masked. `SameText` are the rules whose keys are the same
text for Postgres and for JavaScript, which numbers and strings are and dates are not; an UPDATE for another
key matches no row and is no error: `CompleteIsMasked`, `CursorIsSafe`, of the rules in `SameText`.

## 3. Runs

| Run | Module, specification | What it shows |
|---|---|---|
| `queue_safety` | JobQueue, `Spec` | 3 requests (two share a key), 2 workers, 1 fault of crash, failed complete, slow claim; 1 replay: `DisjointBatches`, `DeadWasSpent`, `SuccessIsFinal`, refinement of DurableWork |
| `queue_live` | JobQueue, `FairSpec` | 2 requests with one key, a capped type, 1 fault of every kind, 1 replay: `SuccessWasHandled`, `ActiveKeysUnique`, `OverrunsPaidByFaults`, `EventuallySettled` |
| `outbox_safety` | Outbox, `Spec` | 3 events, 2 drains, 1 crash, shared keys, two, one and no registration: `DeliveredWasHandled`, `DeadWasSpent`, `OneEventPerKey`, refinement |
| `bridge` | QueueBlock, `FairSpec` | 1 event, 2 drains (1 crash), 1 worker (1 fault of every kind): `DeliveredHasJob`, `OneActiveJob`, `EventuallyWorked` |
| `lease_safe` | BatchLease | batch of 4: `HandledUnderLease`, `EndsInTime` |
| `outbound_safety` | OutboundWebhooks, `Spec` | 2 endpoints, 2 calls, 1 sender: `FannedOut`, `CircuitMatchesFailures`, `DeadWasSpent` |
| `outbound_live` | OutboundWebhooks, `FairSpec` | 1 delivery, 2 senders, 1 crash, 1 /enable: `DeliveredWasAccepted`, `EventuallySettled` |
| `content_safety` | MCContent, `Spec` | the 9 modules of the blocks that take in files, `Safety` of each, grouped as `FilesSafe`, `SheetSafe`, `ImportSafe`, `ImagesSafe`, `DocumentsSafe`, `GateSafe`; 2.0 million states |
| `app_safety` | MCApp, `Spec` | the 15 modules of the blocks that serve an application, grouped as `InboundSafe`, `NotesSafe`, `MoneySafe`, `LiveSafe`, `EdgeSafe`, `FlagsSafe`, `VectorsSafe`, `MemorySafe`, `AssistantSafe`, `CountsSafe`, `SchemaSafe`, `ComplianceSafe`; 2.3 million states |
| `queue_enqueue`, `outbox_stall`, `moderation_human` | | violations, see section 6 |

The suites, `lease_safe` and the runs of the outbound block say `CHECK_DEADLOCK FALSE`: their systems stop
when every bounded request, upload, event or run is used up.

**Bounds and why they are enough.** Two concurrent invocations are what every race here needs: one that
acts on what it read and one that changes it in between. Two attempts give a first, a last and a
retry between them (the sender of notifications has the code's three). One fault and two attempts reach a
fault at every step and the recovery from it, a second crash repeats the first. Two requests with one key
and one without show every use of the unique indexes; in `queue_safety` at most two rows are active at
once, so the LIMIT of the claim does not cut there (it does in `outbox_safety`, where three events meet a
batch of two). In `bridge`, two dispatches of an event are the least at which the redelivery exists; a third
meets the same states of the key. Attempts, failures and posts are counted up to the largest number they are
compared with. Symmetry (of workers, drains, endpoints) is used in runs without liveness only.

In the suites every limit of a query or listing is smaller than what it may find (`BatchSize`, `MaxObjects`,
`Batch` are 1 or 2 against two or three rows), so that listings are cut and pages follow. Two versions of an
object are an overwrite, and the older one may come back where an etag is the content. Clocks run just past
the longest term they are compared with: a window, its retention and the slowest call in ApiEdge, one term
and its renewal in SemanticCache, two timestamps to the millisecond and one after it in EmbeddingFreshness.
FeatureFlags has 6 buckets with weights 1:2 and rollouts of 2 and 6, of which the first is no multiple of the
weights and in the second a bucket on the boundary slips (`Slips`), and two days of which a rollup counts one. AgentMemory has five turns: two that stay, and two compactions after each other. Migrations has an
old release and two instances of a new one. The sheets of Csv are all sheets of up to two rows and two cells over
the characters that have a meaning, and longer ones of quotes next to separators.

**What the instances leave open.** A claim's order by time in JobQueue and OutboundWebhooks, delays of
retries, which rows of a limit `replayDead` takes, and the filters of /replay of the inbound block are
nondeterministic: the code may do less.

## 4. Fairness

* Cron starts POST /work and POST /send every minute and the sweep every day
  (`triggers` in the `block.json` of the blocks): the first steps and `Reclaim` are weakly fair.
* An invocation that is not killed takes its next step; a killed one is started again by cron. Faults
  are not fair and are bounded by `MaxFaults` or `MaxCrashes`: liveness is claimed for the time after
  the last fault.
* A handler returns or throws: JobQueue's handlers run under an abort timer, a webhook post under a
  timeout. An event handler without a timeout that never answers ends with the function's own limit, as
  a crash.
* Time passes: rows become due, leases run out, circuits cool.
* `ReleaseRest`, replays, /enable, registrations, removals, publishes and purges are never required to
  happen. Which outcome a handler has is not fair either: one may fail every time.

The suites check safety and action properties only and state no fairness.

Jobs of a type without a registered handler are never claimed; `EventuallySettled` is about types of
`Types`, the registered ones.

## 5. Proofs

Every theorem is for arbitrary constants that satisfy the module's `ParametersAssumption`, or the assumption
`Sane` of a block, which App and Content `ASSUME` and TLC evaluates with the instances' values. `Sane` says that
numbers are numbers (times, gaps, the tokens of a turn), that sets that are counted are finite, that funnels are
sequences of names, that cells are texts, and that a name for "nobody" or "nothing" is not one of somebody. Only
two blocks need more: Migrations, that a release contains all earlier versions; and Csv, that
the two columns which the report adds (`_line` and `_errors` in the code) are not columns of the import itself.

| Module | Theorems |
|---|---|
| `JobQueue_proofs` | `Invariant`, `NoSilentSuccess`, `ExclusiveHandling`, `NoEarlyDeath`, `SuccessStays`, `OneActiveRowPerKey`, `EveryOverrunIsPaid`, `OverrunsArePaid`, `Refinement` |
| `Outbox_proofs` | `Invariant`, `AtLeastOnce`, `NoEarlyDeadLetter`, `OneStoredEventPerKey`, `Refinement` |
| `BatchLease_proofs` | `Invariant`, `SafeLease`, `BoundedRun` |
| `OutboundWebhooks_proofs` | `Invariant`, `NoFalseDelivery`, `NoEarlyDeath`, `BreakerIsConsistent`, `FanoutIsComplete` |
| `QueueBlock` | `Invariant`, `NoEventLost`, `OneJobPerEvent` |
| `App_proofs` | `InboundIsSafe`, `NotesAreSafe`, `MoneyIsSafe`, `LiveIsSafe`, `EdgeIsSafe`, `VectorsAreSafe`, `SchemaIsSafe` |
| `AppData_proofs` | `FlagsAreSafe`, `AssistantIsSafe`, `MemoryIsSafe`, `CountsAreSafe`, `ComplianceIsSafe` |
| `Content_proofs` | `FilesAreSafe`, `SheetsAreSafe`, `ImportsAreSafe`, `ImagesAreSafe`, `DocumentsAreSafe`, `GateIsSafe` |

The theorems of the last three say `Spec => []Safe` of the specification and the property that the runs
`app_safety` and `content_safety` check. Each part proves, for one block, a lemma for every action that `IInv`
survives it, and that `IInv` gives each of the block's properties; `BlocksRun` says that a behaviour of App or
Content is one of each of its blocks, in which the steps of the others are stutters. A module that is
instantiated has copies of `Cardinality` and `IsFiniteSet` of its own; the lemmas `...Finite` say that they are
the library's, so that its theorems apply.
The proofs of FeatureFlags, SemanticCache, AgentMemory, Analytics and Csv go by induction over numbers: `Induct`
is the library's well-founded minimum, with a set in the place of the predicate.

**A text that is written and read again.** `SheetsAreSafe` holds for all texts and sheets, of any length. Csv's
recursive functions are over positions (`read[i]` is the reader after i characters), and `Recursion` says that a
function so defined exists. The proof describes the text by places: `Joined` and `Piled` say that each cell, comma
and line end stands (`Here`) where the ones before it end. `Reads` says what the reader does with one character;
from it follow what it has read after a quoted cell with its doubled quotes (`ReadsQuoted`), any cell
(`ReadsCell`), a row (`ReadsRow`), a line end (`ReadsEnd`, where the one character of lookahead matters: a CR
ends the record alone unless an LF follows, and no cell begins with an unquoted LF, `CellStart`) and all rows
(`ReadsLines`), each by induction over the parts of the one before. `AsRead` is what the format cannot tell
apart: a row without cells and a row of one empty cell. Both are blank, so that `FilledAgrees` has the same rows with
content at the end. Rows of two cells or more come back as they were (`WideRows`), which is why the report of
rejected rows does.

**Why the invariants need strengthening.** What a block promises is about its tables; what keeps the promise is
what its invocations have read, and at which statement they are.

* *Queue, outbox, outbound.* `DisjointBatches` says that no job is in two batches, but what keeps the next claim
  away from a held job is its row: `HoldInv` says that a held row is still running under a live lease with the
  attempts that its worker was given, and `CallInv` that a purged or absent request cannot be inserted again
  under a worker. The exception `AckLost` is the one state in which a worker holds a row that is already
  'succeeded'. `NoEarlyDeath` needs the same agreement, since the catch block compares a remembered count. In
  the outbox nothing protects a claimed row, so the invariant only says that what a drain remembers is a lower
  bound (`snap <= attempts`) and that what it will ack has been handled. In the outbound block attempts can
  even go down (an overlapping sender overwrites them, /enable resets them), so they are bounded by the posts
  that were made. The bridge needs little of its two tables: a queue row never becomes absent again, the index
  keeps a second active row of an event out (`QueueInv`), and a drain whose handler has returned without an
  error, or that has an event to acknowledge, has seen a row for it (`DrainInv`).
* *Who owns a row.* Where a claim or a unique index chooses one invocation, the invariant follows that one: one
  importer of a version in its whole history and what it has done so far (CsvImport `OneOwner`, `Progress`),
  one extractor (DocExtraction `OneOwner`, `OwnersWork`, and `Unclaimed` where its row is gone), one claimant of
  a version (IngestRouter `OneClaim`), one publisher of an event (InboundWebhooks `OnePublisher`), one
  announcer of a stage (Billing `OneAnnouncer`).
* *What was read is still so, or somebody interfered.* The properties except what interferes (`calm`,
  `overlapped`, `touched`, `excused`); the invariant says what holds in its absence: FileRegistry `Undisturbed`,
  RagIngest `Solo` and `Covered`, Vision `Covered`, ImageDerivatives `Listed`, AuditChain `Sealed` (the committed
  entries and the writer's predecessor are one chain of hashes), SubjectRequests `SawRows` and `HitsCover`,
  PiiAnonymizer `BehindCursor`. For EmbeddingFreshness, `Detected` and `Held` say for each of the nine steps of
  a scan where a stale key is: pending, after the mark that the scan will set, or among what it holds.
* *Debts.* An overrun is seen long after its fault: a worker whose job was stolen may still put the row back, and
  only the next claim counts the attempt. `PaidInv` says that there is a choice of rightful holds, those whose
  claim is the last word on their row, such that each other hold, and each attempt of a row over the limit with
  its next claim, belongs to a fault of its own.
* *Sums.* AgentMemory's `TotalIsTrue` equates a running total with a sum over turns and summaries. `Worth` gives
  each turn what it adds to that total, so that a compaction moves the worth of a span into its first turn, and
  `Undisturbed` says that nobody else has come in between while it does.
* *What a rollup has seen.* The rollup of Analytics reads events and writes later what it has made of them.
  `Planned` says that its plan still holds of the events it saw: its visits have no gap, do not overlap and count the rows that it would still link (no fewer once another
  rollup has overtaken it), its counts are not above
  those there are now, and its cohorts are no later than the first event of each actor.
* *Counts.* A status in Notifications is earned because an idle sender holds no message, one that has a receipt
  holds at least one, and attempts never exceed the sends that failed (`Accounts`). Billing's overrun is bounded
  because the crowd of a caller holds everybody who was let in beside it (`Admitted`). ApiEdge's window
  has the count of all that came as long as somebody may still count in it (`CountsAll`).
* *Histories.* Chat: a stored reply is of a turn that was answered (`StoredTurns`), after its question
  (`QuestionFirst`), in a conversation of its tenant (`Owners`). SemanticCache: each entry was stored with the term
  it has (`StoredLives`), each answer served was one of them (`LookupsServed`). Realtime: what is under way to
  a client accounts for all that it has not seen (`UnderWay`). Moderation: what a scanner will write is what
  its item explains (`Classified`, `Moved`). Migrations: `InOrder` follows from what an instance has come past
  (`NothingSkipped`); the advisory lock is not part of that argument: it keeps the scripts apart
  (`OneMigrates`), the ledger keeps them in order.

The conditions `SafeLeases` and `SafeAcks` in the JobQueue properties exclude leases that run out under
a living worker and acknowledgements that get lost. They are real: section 3's `queue_live` shows what
holds without them, and `BatchLease!SafeLease` proves when the first one is met: budget plus slowest
handler within the lease. The refinements map a row to a phase (`Phase`) and take the handlers' history as
`worked`; each action maps to a step of DurableWork or to a stutter.

**What the proofs found.** Three properties were true of the instances only. Billing: two events of a
subscription with one stamp may come in either order, so `CancellationHolds` asks that the cancellation is
strictly the newest. RagIngest: a document that is uploaded again under an older etag is one that a reconcile
run may still be right about, so `ReconciledCovers` speaks of the documents that are live. EmbeddingFreshness: a
bulk need not be larger than a batch for the LIMIT to cut it, it may begin in the middle of one; what is cut off
on the timestamp up to which the batch is examined is excused (`CutOff`), nothing else.

**Only model-checked:**

* liveness (`EventuallySettled` of the queue and of the outbound block, `EventuallyWorked` of the bridge), under
  fairness, which is out of the prover's reach. Every invariant that a passing run checks is proved.

The invariants `IInv` were checked by TLC on the instances of section 3 before they were proved; no run repeats
them. **Assumed:** `ArbiterExists = TRUE` in every run but `queue_enqueue`, which is the statement as it is meant;
see the next section.

## 6. Disagreements between the code and what it says

Listed in `PROJECT.json` with a run each:

* `queue_enqueue`: the migration creates an index, `enqueue` needs a constraint of that name.
* `outbox_stall`: dead-lettered events stay claimable and are the oldest, so a full batch of them keeps every
  later event from ever being delivered.
* `moderation_human`: a scan that was asking the model while a moderator decided overwrites the human decision.

The others are shown by a configuration that TLC finds violated (`tlc -config X.cfg M`), or by a changed
copy of one:

| Configuration | Property | What happens |
|---|---|---|
| `MCJobQueue_documented.cfg` | `CapHolds` | the concurrency ceiling is read before the claim, which has no limit per type |
| | `ReleasesOnlyUnstarted` | a late release takes back a job another worker has stolen and is handling |
| | `EnqueueReturns` | the holder of the key finishes between enqueue's INSERT and SELECT, and enqueue throws |
| | `DeadIsReplayable` | a dead job whose key was reused cannot be replayed, nor can others of the same statement |
| `BatchLease_safe.cfg` with `Lease = 8` | `DocumentedLeaseRule` | a lease longer than the slowest handler does not protect the later jobs of a batch |
| `QueueBlock_bridge.cfg`, `SPECIFICATION Spec` | `EnqueuedOnce` | an event redelivered after its job has finished is enqueued again |
| `MCOutboundWebhooks_documented.cfg` | `DisjointWork` | the sender's claim marks nothing; overlapping cron runs take the same deliveries |
| | `OpenCircuitIsRespected` | a batch keeps posting to the endpoint whose circuit it has opened itself |
| | `FailedTrialReopens` | a failed trial keeps the old opening time, so there is no new cooldown |

(A configuration with several properties reports the first it reaches; keep one line to see another. In the
changed copies the property named here is the only one.)

The properties below are stated at the end of App and Content. TLC finds each of them violated when it is the
only property of a copy of `MCApp.cfg` or `MCContent.cfg` (`DigestedOnce`, `RatesCountExposed` and `HeldSurvives` as a `PROPERTY`).
Paths are below `blocks/`.

| Property | What is said | What happens |
|---|---|---|
| InboundWebhooks `AcceptedWasQueued` | webhooks-inbound/migrations/001_inbound.sql:24 | a crash between archive and publish leaves an accepted row that was never queued; only /replay finds it |
| Notifications `DigestedOnce` | notifications/src/index.ts:204, one email | overlapping digests collect the same rows |
| Billing `NoticesAnnounced` | the comment at billing/src/index.ts:284 | a crash between notice and publish; the notice keeps the next sweep away |
| Realtime `ClosedReleases` | realtime/src/stream.ts:13, every exit path releases | a stream closed while it waits for its connection keeps it |
| Realtime `OpenAreListed` | presence is of open connections | a connection that outlives the presence term is no longer listed |
| Realtime `OpenIsCaughtUp` | realtime/README.md:49, a woken subscriber finds the row | a drain that a notification asked for fails (db.ts:41 sets a statement timeout): stream.ts:133 logs it and keeps the stream open, behind until the next event |
| Realtime `NothingLost` | the cursor replays what was missed | an id that commits after a higher one was sent is skipped |
| ApiEdge `PrunesExpired` | api-edge/README.md:40, prune expired windows | config.ts:29 takes a window of any length, index.ts:123 deletes those that began an hour ago: a longer one starts over each hour (`Retention = 0` in the cfg) |
| ApiEdge `RefusedOnlyAtLimit` | api-edge/README.md:49, requests per window | the first request of a window fails at its UPDATE of last_used_at after it was counted |
| FeatureFlags `KeepsVariant` | feature-flags/README.md:13, sticky | one bucket decides both rollout and variant, weights are spread over the rollout: widening it moves subjects |
| FeatureFlags `SummedOnce` | feature-flags/src/index.ts:164, distinct subjects and not exposures | /results adds up the subjects of each day: one that is exposed on two days counts twice |
| FeatureFlags `RatesCountExposed` | feature-flags/migrations/001_feature_flags.sql:81, distinct subjects exposed | a metric's group has those who converted and nobody else, so its subjects are its conversions |
| FileRegistry `DeletedWasRemoved` | a deleted row has no object | DELETE marks the row and dies, or fails, before it deletes the object, which stays |
| IngestRouter `RoutedHasJobs` | ingest-router/src/dispatch.ts:277, the next run continues | the claim stays when enqueue fails, and no run looks at claimed versions |
| Csv `LineNumbersTrue` | `_line` of the report | blank rows are dropped before rows are numbered |
| Csv `ShortRowsRoundTrip` | csv-import/src/coerce.ts:137, the round trip is the feature | `_line` and `_errors` are appended to the cells a row has: in the report of a short row they stand in the columns it had no cell for, so that a missing number is read as the line |
| CsvImport `AbortedAppliesNothing` | csv-import/README.md:33 | valid rows are merged before the abort is decided |
| ImageDerivatives `ReadyHasFile`, `FilesAreKnown` | cache and reconcile | a row is made ready again while its file is being deleted; a file is put when its row is deleted already |
| ImageDerivatives `NeverStale` | derivative key has the etag | a source overwritten between HEAD and GET: new bytes under the old etag |
| ImageDerivatives `LiveSourcesKeep` | image-derivatives/src/index.ts:18, derivatives whose source is gone | GET serves any key, reconcile lists `sourcePrefix` only: the derivatives of a source outside it are orphaned and deleted (index.ts:172-201) |
| RagIngest `ReadyIsWhole`, `SearchIsFresh`, `StuckIsRetried` | ingest and reconcile of rag | two ingests overlap and one deletes the chunks of a ready document; older versions of a key stay searchable; a reset row is not ingested by its run |
| Vision `AnalysedOnce`, `DescribesItsBytes` | one analysis per etag | check and call are two steps; bytes are read after the etag |
| DocExtraction `ReviewIsComplete` | every doubtful field is reviewed | a death between the status and the queue's rows |
| Moderation `UnscoredStaysClosed` | moderation/src/index.ts:135, fails closed | an answer that names no category is approved |
| Moderation `BlockedIsGone` | moderation/src/run.ts:3, moves what is blocked | a death, or a failure that is swallowed, before the delete leaves a blocked image in public; a moderator's 'block' moves nothing |
| Moderation `NoUploadLost` | quarantine keeps what it removes | equal last segments overwrite each other in quarantine |
| EmbeddingFreshness `NothingForgotten` | no text keeps an old vector | rows that commit behind the watermark, or share its timestamp past the LIMIT |
| EmbeddingFreshness `ReturnedIsEmbedded` | embedding-freshness/README.md:3, re-embed rows whose text changed | a deleted row leaves its hash (README.md:57 says that deletes are not seen), and freshness.ts:85 takes a new row with this text for embedded, though its vector is NULL |
| AgentMemory `NothingDropped`, `SummarisedOnce` | a turn is replayed or summarised | turns beyond the recent ones and below the threshold are in neither; overlapping compactions summarise twice |
| Chat `BilledOnce` | chat/migrations/001_chat.sql:37 | a retry while the answer streams, or after it broke, asks the model again |
| Chat `SeenIsKept` | the stored reply is the reply | of two racing retries the later one's answer is dropped by the index after it was streamed |
| SemanticCache `SavedIsTrue` | tokens saved | the entry is replaced between lookup and count |
| Analytics `PauseOnlyBetween` | analytics/README.md:32 | a rollup that runs inside a session cuts it |
| Analytics `SessionsCountOnce` | analytics/README.md:32, one visit is one session | `sessions` has no unique key: two overlapping rollups insert the sessions of a visit twice and count its events twice; only `linked` spares a row |
| Analytics `RetentionIsFraction` | analytics/src/retention.ts:28 | sizes and activity are two statements; a rollup moves an actor between them |
| Migrations `NoHole` | versions are applied in order | a rollback beside a boot removes a version below one that is applied after it |
| AuditChain `WritersKeepChain` | compliance/migrations/001_compliance.sql:125, serialises | a writer that waited gets the row of its snapshot, not the newer one: two entries with one predecessor |
| AuditChain `EditingShows` | compliance/README.md:29 | a purge hashes the edited entry anew |
| AuditChain `EveryFieldShows` | compliance/README.md:29 | `audit_entry_hash` (002_chain_ops.sql:11) leaves out `occurred_at`, joins the fields without a separator and takes NULL for empty |
| SubjectRequests `HeldSurvives` | compliance/src/index.ts:81 | a hold placed after the check |
| SubjectRequests `ExportIsWhole` | compliance/src/subject.ts:55 | two links of one table overwrite each other in the document |
| PiiAnonymizer `CompleteIsWhole`, `DetailSaysDone` | a complete run has masked everything declared | tables without a primary key are skipped; a table whose rows fill its last batch is never noted as done |
| PiiAnonymizer `AnyKeyWorks` | pii-anonymizer/src/run.ts:57, any key type | `key::text` is compared with `String(key)`: for a date no row matches, nothing is masked and the run is complete |
| PiiAnonymizer `JoinsSurvive` | pii-anonymizer/README.md:24 | a second run masks again what is masked already, as far as it has come |

One disagreement has no run, since the model has nothing to say of it: notifications/README.md:34 and :55 dedupe
a key "within a window" of `NOTIFY_DEDUPE_WINDOW_MINUTES`, which config.ts:38 reads and no statement uses. The
index suppresses a key as long as a live row holds it, which is what `OneLivePerKey` says.

Seen on the way, without a property: the claim of /send of the notifications block is
`SELECT ... LEFT JOIN ... FOR UPDATE`, which Postgres rejects for the nullable side; `POST /reconcile` of
csv-import sets imports to 'pending', from which no statement picks them up; that of moderation resets
'scanning', which nothing sets; the idempotency table of api-edge is read and swept, never written.

## 7. Not modelled, and why

* `packages/core` (but for `withAdvisoryLock`, in Migrations), `ai`, `storage`: clients and helpers without
  state of their own. They appear as what they let happen: a statement that is a transaction, a model call
  that answers, fails or never ends, a listing that is cut, a `HEAD` and a `GET` with time in between.
* Retry policy: `backoffMs`, `isRetryableStatus`, `circuitAllows` are functions of a number. A row that waits
  may become due at any time in the models.
* Hybrid search and db health: queries, with logs and snapshots that no decision reads. Rank fusion, the
  significance test of feature flags and similarity are arithmetic on real numbers.
* `packages/cli`, `scripts`, `templates`: tools of development.
* Signatures, secrets, payloads, prompts, templates, formatting: no property is about them. Model providers,
  object storage, subscribers and mail providers appear as the answers they give.
* Of modelled parts: the row trigger `attach_outbox_trigger` and the native transport (a stub); POST
  /sources, /sessions and /subject-links, which write the rows that the initial states have (their
  components are marked `partly`); statistics, lists and health checks everywhere; what the header comment of
  each module says it leaves out.

## 8. Plan

Done: queue, outbox, bridge, leases, outbound webhooks; the application, storage and AI blocks, compliance and
migrations as modules of the two suites; every safety property that a passing run checks is proved.

Left, in the order of what matters most:

1. Liveness of the blocks that have a cron run: files, documents and images that were missed are taken in
   when uploads stop, under the fairness of section 4.
2. A table that converges to its bucket as an abstract specification that FileRegistry, RagIngest and
   ImageDerivatives implement while nothing disturbs their runs; fail-closed moderation as another.
3. The retry policy, chunking and rank fusion as operators against reference definitions.
