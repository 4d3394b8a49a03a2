------------------------------- MODULE Content ------------------------------
(* The blocks that take in files, side by side: registry, router,          *)
(* spreadsheets, images, documents, moderation.  They share no table, so   *)
(* each has its own specification over its own variables.  A constant      *)
(* keeps the name that it has in its block unless another block uses that  *)
(* name too.                                                               *)
EXTENDS Naturals, FiniteSets, Sequences

CONSTANTS Files, ReconcileLimit
VARIABLES regRow, regSize, object, finalizer, recon, listing, truncated,
          pendingKeys, calm, deleting, there, taken, removed
Registry == INSTANCE FileRegistry WITH MaxObjects <- ReconcileLimit

CONSTANTS Uploads, Routes, TooBig, UploadEtags, SweepLimit
VARIABLES stored, dispatched, dispatcher, enqueued, active, scan, scanning,
          settled
Ingest == INSTANCE IngestRouter WITH Etags <- UploadEtags, MaxObjects <- SweepLimit

CONSTANTS Sheets, ColumnMap
VARIABLE sheet
Sheet == INSTANCE Csv

CONSTANTS SheetVersions, Valid, Invalid, Mapped, Clashing, AbortOnError
VARIABLES current, imports, importer, merged, errorRows, reports
Import == INSTANCE CsvImport WITH Versions <- SheetVersions

CONSTANTS Sources, Prefixed, Contents, BaseName, WithHeight, ImageRequests, DerivRows,
          MaxSources, MaxPuts, OverBudget
VARIABLES source, puts, derivs, files, request, orphanRun, seen, absent, batch,
          doomed, wronged
Images == INSTANCE ImageDerivatives WITH Rows <- DerivRows, Requests <- ImageRequests

CONSTANTS Texts, NoText, TooLarge, ChunkCount, ListLimit, MaxEvents
VARIABLES bucket, document, chunks, deployed, ingester, reused, sweep, listed, cut,
          missing, alone, copied, overlapped, events
Documents == INSTANCE RagIngest WITH Documents <- Texts, MaxObjects <- ListLimit

CONSTANTS PhotoOrder, PhotoKeys, Kind, PhotoEtags, PageSize, Batch, MaxUploads,
          MaxCalls, MaxCrossings
VARIABLES photo, analyses, analyst, todo, worklist, uploads, asked, paid,
          crossed
Sight == INSTANCE Vision WITH
    Listing <- PhotoOrder, Listed <- PhotoKeys, Etags <- PhotoEtags, object <- photo, calls <- asked,
    MaxOverlaps <- MaxCrossings, overlaps <- crossed, listing <- worklist

CONSTANTS PaperEtags, Schemas, Confidences, Threshold
VARIABLES paper, schema, extractions, extractor, queue, calls, lost
Papers == INSTANCE DocExtraction WITH Etags <- PaperEtags, current <- paper

CONSTANTS Objects, Pictures, Base, ObjectVersions, BlockAt, Margin, Values,
          MaxItems, MaxJudged
VARIABLES upload, uploaded, quarantine, items, scanner, human, decisions,
          abandoned, unsettled
Gate == INSTANCE Moderation WITH
    Keys <- Objects, Image <- Pictures, Versions <- ObjectVersions, Threshold <- BlockAt,
    object <- upload, lost <- abandoned, disturbed <- unsettled

-----------------------------------------------------------------------------
(* What the blocks take for granted of their constants.                    *)

ASSUME RegistrySane == Registry!Sane
ASSUME SheetSane == Sheet!Sane
ASSUME ImportSane == Import!Sane
ASSUME ImagesSane == Images!Sane
ASSUME DocumentsSane == Documents!Sane
ASSUME GateSane == Gate!Sane

-----------------------------------------------------------------------------
(* As the blocks share no table, one of them runs in each behaviour, and   *)
(* the others stay at rest: what one does, nobody else sees.               *)

VARIABLE which  \* the block that runs

regVars == <<regRow, regSize, object, finalizer, recon, listing, truncated,
             pendingKeys, calm, deleting, there, taken, removed>>
ingVars == <<stored, dispatched, dispatcher, enqueued, active, scan,
             scanning, settled>>
csvVars == <<sheet>>
importVars == <<current, imports, importer, merged, errorRows, reports>>
imgVars == <<source, puts, derivs, files, request, orphanRun, seen, absent, batch,
             doomed, wronged>>
ragVars == <<bucket, document, chunks, deployed, ingester, reused, sweep, listed,
             cut, missing, alone, copied, overlapped, events>>
visionVars == <<photo, analyses, analyst, todo, worklist, uploads, asked,
                paid, crossed>>
docVars == <<paper, schema, extractions, extractor, queue, calls, lost>>
modVars == <<upload, uploaded, quarantine, items, scanner, human, decisions,
             abandoned, unsettled>>

Init ==
    /\ which \in {"reg", "ing", "csv", "import", "img", "rag", "vision", "doc", "mod"}
    /\ Registry!Init
    /\ Ingest!Init
    /\ Sheet!Init
    /\ Import!Init
    /\ Images!Init
    /\ Documents!Init
    /\ Sight!Init
    /\ Papers!Init
    /\ Gate!Init

Next ==
    \/ /\ which = "reg" /\ Registry!Next
       /\ UNCHANGED <<which, ingVars, csvVars, importVars, imgVars, ragVars,
                      visionVars, docVars, modVars>>
    \/ /\ which = "ing" /\ Ingest!Next
       /\ UNCHANGED <<which, regVars, csvVars, importVars, imgVars, ragVars,
                      visionVars, docVars, modVars>>
    \/ /\ which = "csv" /\ Sheet!Next
       /\ UNCHANGED <<which, regVars, ingVars, importVars, imgVars, ragVars,
                      visionVars, docVars, modVars>>
    \/ /\ which = "import" /\ Import!Next
       /\ UNCHANGED <<which, regVars, ingVars, csvVars, imgVars, ragVars,
                      visionVars, docVars, modVars>>
    \/ /\ which = "img" /\ Images!Next
       /\ UNCHANGED <<which, regVars, ingVars, csvVars, importVars, ragVars,
                      visionVars, docVars, modVars>>
    \/ /\ which = "rag" /\ Documents!Next
       /\ UNCHANGED <<which, regVars, ingVars, csvVars, importVars, imgVars,
                      visionVars, docVars, modVars>>
    \/ /\ which = "vision" /\ Sight!Next
       /\ UNCHANGED <<which, regVars, ingVars, csvVars, importVars, imgVars,
                      ragVars, docVars, modVars>>
    \/ /\ which = "doc" /\ Papers!Next
       /\ UNCHANGED <<which, regVars, ingVars, csvVars, importVars, imgVars,
                      ragVars, visionVars, modVars>>
    \/ /\ which = "mod" /\ Gate!Next
       /\ UNCHANGED <<which, regVars, ingVars, csvVars, importVars, imgVars,
                      ragVars, visionVars, docVars>>

allVars == <<which, regVars, ingVars, csvVars, importVars, imgVars, ragVars,
             visionVars, docVars, modVars>>

Spec == Init /\ [][Next]_allVars

-----------------------------------------------------------------------------
\* Uploads, late and repeated storage events and reconcile runs, in any order: rows tell
\* what was in the bucket, a listed file is never taken away, and each version of an object
\* gets each of its jobs once (file-registry, ingest-router).
FilesSafe ==
    /\ which = "reg" => Registry!Safety
    /\ which = "ing" => Ingest!Safety

\* What is written is read back as it was, rejected rows with their report included, and each
\* value goes to its row and column (csv-import).
SheetSafe == which = "csv" => Sheet!Safety

\* A version that fails, is delivered twice or reset has its rows in the table once, the
\* others in its report (csv-import).
ImportSafe == which = "import" => Import!Safety

\* No source over the pixel budget is decoded although it is overwritten between HEAD and GET,
\* a listing never costs a source under the listed prefix its derivatives, and a version has
\* one row if the transform has a height, however many requests miss at once; an etag costs one
\* answered model call, whose answer is stored, and one more at most for each analysis that
\* began while another was busy with it (image-derivatives, vision).
ImagesSafe ==
    /\ which = "img" => Images!Safety
    /\ which = "vision" => Sight!Safety

\* If no two ingests overlapped in one document, a ready one that was embedded, not copied from
\* a twin, has the chunks of one text and one model although ingests died half way; after a
\* reconcile run that nothing disturbed the listed documents have rows, and of the others none
\* is live unless the listing was cut (rag).  One answer is paid for each version, and each
\* doubtful field of it is in review, but those still to be queued by an extractor that died
\* (doc-extraction).
DocumentsSafe ==
    /\ which = "rag" => Documents!Safety
    /\ which = "doc" => Papers!Safety

\* The history explains every decision that was not cut short by a death; an item is closed
\* until a model answered or a human decided, one that is no image until a human did; and an
\* image that was not overwritten is in quarantine before it is gone, whatever dies (moderation).
GateSafe == which = "mod" => Gate!Safety

-----------------------------------------------------------------------------
(* What docs and comments say and the code does not do.  TLC finds each of *)
(* these violated, HumanWins by MCContent_human.cfg; see section 6 of      *)
(* README.md.                                                              *)

\* file-registry: a file is marked as deleted only if its object was deleted.
DeletedWasRemoved == Registry!DeletedWasRemoved
\* ingest-router: a version that is recorded as routed has its jobs.
RoutedHasJobs == Ingest!RoutedHasJobs
\* csv-import: a rejected row is reported with its line of the file.
LineNumbersTrue == Sheet!LineNumbersTrue
\* csv-import, coerce.ts:137: the round trip of the report is the feature.
ShortRowsRoundTrip == Sheet!ShortRowsRoundTrip
\* csv-import, README.md:33: an aborted import applies nothing.
AbortedAppliesNothing == Import!AbortedAppliesNothing
\* image-derivatives: a ready derivative is there, and of the current source.
ReadyHasFile == Images!ReadyHasFile
\* image-derivatives, index.ts:18: the derivatives that are marked are those of sources that are gone.
LiveSourcesKeep == Images!LiveSourcesKeep
NeverStale == Images!NeverStale
\* rag: a ready document has all its chunks, and old versions are not found.
ReadyIsWhole == Documents!ReadyIsWhole
SearchIsFresh == Documents!SearchIsFresh
\* vision: an unchanged image is never analysed again.
AnalysedOnce == Sight!AnalysedOnce
DescribesItsBytes == Sight!DescribesItsBytes
\* doc-extraction: an extraction that needs review has its fields in the queue.
ReviewIsComplete == Papers!ReviewIsComplete
\* 001_moderation.sql:56: a human decision always beats a model score.
HumanWins == Gate!HumanBeatsModel
\* moderation, index.ts:135: the block fails closed, also for an image without scores.
UnscoredStaysClosed == Gate!UnscoredStaysClosed
\* moderation, run.ts:3: what is blocked is moved under the quarantine prefix.
BlockedIsGone == Gate!BlockedIsGone

=============================================================================
