---------------------------- MODULE FileRegistry ----------------------------
(***************************************************************************)
(* File registry (blocks/file-registry): POST /uploads, the storage        *)
(* trigger POST /finalize, the cron run POST /reconcile and                *)
(* DELETE /files/:key, over one bucket.                                    *)
(*                                                                         *)
(* A file is an object key; keys hold a fresh id, so that each has one     *)
(* row.  A statement or a storage call is one action.  Objects of size 2   *)
(* are over the agreed limit of 1.                                         *)
(***************************************************************************)
EXTENDS Naturals, FiniteSets

CONSTANTS Files,       \* 1..n, in the order of their keys
          MaxObjects   \* listing limit of a reconcile run

VARIABLES regRow,      \* file -> status of its row, "none" before /uploads
          regSize,     \* file -> size_bytes
          object,      \* file -> size of its object, 0 when there is none
          finalizer,   \* "trigger", "cron" -> [at, file, size] of finalizeUpload
          recon,       \* step of the reconcile run
          listing,     \* keys it has listed
          truncated,
          pendingKeys, \* pending rows among them it has not come to
          calm,        \* history: nobody else has acted since the listing
          deleting,    \* files with a row marked deleted by a call under way
          there,       \* history: objects that were in the bucket when it listed
          taken,       \* history: files a run marked as deleted in spite of that
          removed      \* history: files whose object was deleted at some time

vars == <<regRow, regSize, object, finalizer, recon, listing, truncated, pendingKeys,
          calm, deleting, there, taken, removed>>
reconVars == <<recon, listing, truncated, pendingKeys>>

Idle == [at |-> "idle", file |-> 0, size |-> 0]
LiveRow == {"pending", "ready"}

Init ==
    /\ regRow = [f \in Files |-> "none"]
    /\ regSize = [f \in Files |-> 0]
    /\ object = [f \in Files |-> 0]
    /\ finalizer = [p \in {"trigger", "cron"} |-> Idle]
    /\ recon = "idle" /\ listing = {} /\ truncated = FALSE /\ pendingKeys = {}
    /\ calm = FALSE
    /\ deleting = {}
    /\ there = {} /\ taken = {} /\ removed = {}

-----------------------------------------------------------------------------
(* Clients                                                                 *)

\* issueUpload: the pending row, then the presigned URL.
Issue(f) ==
    /\ regRow[f] = "none"
    /\ regRow' = [regRow EXCEPT ![f] = "pending"]
    /\ calm' = FALSE
    /\ UNCHANGED <<regSize, object, finalizer, reconVars, deleting, there, taken, removed>>

\* The URL is good for any number of uploads while it lasts, of any size.
Put(f, size) ==
    /\ regRow[f] # "none"
    /\ object' = [object EXCEPT ![f] = size]
    /\ calm' = FALSE
    /\ UNCHANGED <<regRow, regSize, finalizer, reconVars, deleting, there, taken, removed>>

\* deleteFile: the row, then the object, unless the call fails or dies.
DeleteRow(f) ==
    /\ regRow[f] \in LiveRow
    /\ regRow' = [regRow EXCEPT ![f] = "deleted"]
    /\ deleting' = deleting \union {f}
    /\ calm' = FALSE
    /\ UNCHANGED <<regSize, object, finalizer, reconVars, there, taken, removed>>

DeleteObject(f) ==
    /\ f \in deleting /\ deleting' = deleting \ {f}
    /\ \/ object' = [object EXCEPT ![f] = 0] /\ removed' = removed \union {f}
       \/ UNCHANGED <<object, removed>>
    /\ calm' = FALSE
    /\ UNCHANGED <<regRow, regSize, finalizer, reconVars, there, taken>>

-----------------------------------------------------------------------------
(* finalizeUpload                                                          *)

\* A call that knows the key looks for a live row; without one it is ignored.
Lookup(p, f) ==
    /\ finalizer[p].at = "idle" /\ regRow[f] \in LiveRow
    /\ finalizer' = [finalizer EXCEPT ![p] = [at |-> "found", file |-> f, size |-> 0]]

\* The storage trigger may deliver an event late, twice, or never.
Trigger(f) ==
    /\ Lookup("trigger", f)
    /\ calm' = FALSE
    /\ UNCHANGED <<regRow, regSize, object, reconVars, deleting, there, taken, removed>>

\* headVerified: an object that is not there, or a failed call, ends it.
Head(p) ==
    /\ finalizer[p].at = "found"
    /\ LET size == object[finalizer[p].file]
       IN  finalizer' = [finalizer EXCEPT ![p] =
              IF size = 0 THEN Idle ELSE [@ EXCEPT !.at = "headed", !.size = size]]
    /\ calm' = (calm /\ p = "cron")
    /\ UNCHANGED <<regRow, regSize, object, reconVars, deleting, there, taken, removed>>

\* Larger is taken as well.
AcceptsAny(size) == TRUE

\* The agreed limit.
Accepts(size) == size <= 1

\* The UPDATE by id, whatever has become of the row since the lookup.
Finalize(p) ==
    /\ finalizer[p].at = "headed"
    /\ LET f == finalizer[p].file
           size == finalizer[p].size
       IN  /\ regRow' = [regRow EXCEPT ![f] = IF Accepts(size) THEN "ready" ELSE "rejected"]
           /\ regSize' = [regSize EXCEPT ![f] = size]
    /\ finalizer' = [finalizer EXCEPT ![p] = Idle]
    /\ calm' = (calm /\ p = "cron")
    /\ UNCHANGED <<object, reconVars, deleting, there, taken, removed>>

-----------------------------------------------------------------------------
(* reconcile                                                               *)

Present == {f \in Files : object[f] > 0}

\* One page of the listing, in key order.
List ==
    /\ recon = "idle"
    /\ listing' = {f \in Present : Cardinality({g \in Present : g < f}) < MaxObjects}
    /\ truncated' = (Cardinality(Present) > MaxObjects)
    /\ recon' = "listed"
    /\ calm' = \A p \in DOMAIN finalizer : finalizer[p] = Idle
    /\ there' = Present
    /\ UNCHANGED <<regRow, regSize, object, finalizer, pendingKeys, deleting, taken, removed>>

SelectPending ==
    /\ recon = "listed"
    /\ pendingKeys' = {f \in listing : regRow[f] = "pending"}
    /\ recon' = "finalizing"
    /\ UNCHANGED <<regRow, regSize, object, finalizer, listing, truncated, calm, deleting,
                   there, taken, removed>>

\* One by one; a row that is no longer live is ignored.
FinalizeNext ==
    /\ recon = "finalizing" /\ finalizer["cron"] = Idle
    /\ \E f \in pendingKeys :
          /\ pendingKeys' = pendingKeys \ {f}
          /\ IF regRow[f] \in LiveRow THEN Lookup("cron", f) ELSE UNCHANGED finalizer
    /\ UNCHANGED <<regRow, regSize, object, recon, listing, truncated, calm, deleting,
                   there, taken, removed>>

\* From any listing.
TrustsAlways == TRUE

\* Deletions are told from complete listings only.
Trusts == ~truncated

MarkDeleted ==
    /\ recon = "finalizing" /\ pendingKeys = {} /\ finalizer["cron"] = Idle
    /\ LET gone == {f \in Files \ listing : Trusts /\ regRow[f] = "ready"}
       IN  /\ regRow' = [f \in Files |-> IF f \in gone THEN "deleted" ELSE regRow[f]]
           /\ taken' = taken \union (gone \intersect there)
    /\ recon' = "marked"
    /\ UNCHANGED <<regSize, object, finalizer, listing, truncated, pendingKeys, calm, deleting,
                   there, removed>>

\* Rows that have waited too long, of those that were not listed.
MarkAbandoned ==
    /\ recon = "marked"
    /\ \E S \in SUBSET {f \in Files \ listing : regRow[f] = "pending"} :
          regRow' = [f \in Files |-> IF f \in S THEN "abandoned" ELSE regRow[f]]
    /\ recon' = "done"
    /\ UNCHANGED <<regSize, object, finalizer, listing, truncated, pendingKeys, calm, deleting,
                   there, taken, removed>>

\* The run is over, or dies.
EndReconcile ==
    /\ recon # "idle"
    /\ recon' = "idle" /\ listing' = {} /\ truncated' = FALSE /\ pendingKeys' = {}
    /\ finalizer' = [finalizer EXCEPT !["cron"] = Idle]
    /\ calm' = FALSE /\ there' = {}
    /\ UNCHANGED <<regRow, regSize, object, deleting, taken, removed>>

Next ==
    \/ \E f \in Files : \/ Issue(f) \/ DeleteRow(f) \/ DeleteObject(f) \/ Trigger(f)
                        \/ \E size \in 1..2 : Put(f, size)
    \/ \E p \in DOMAIN finalizer : Head(p) \/ Finalize(p)
    \/ List \/ SelectPending \/ FinalizeNext \/ MarkDeleted \/ MarkAbandoned \/ EndReconcile

Spec == Init /\ [][Next]_vars

-----------------------------------------------------------------------------
TypeOK ==
    /\ regRow \in [Files -> {"none", "pending", "ready", "deleted", "abandoned", "rejected"}]
    /\ regSize \in [Files -> 0..2] /\ object \in [Files -> 0..2]
    /\ finalizer \in [{"trigger", "cron"} ->
                         [at : {"idle", "found", "headed"}, file : Files \union {0}, size : 0..2]]
    /\ recon \in {"idle", "listed", "finalizing", "marked", "done"}
    /\ listing \subseteq Files /\ pendingKeys \subseteq Files
    /\ truncated \in BOOLEAN /\ calm \in BOOLEAN
    /\ deleting \subseteq Files /\ removed \subseteq Files
    /\ there \subseteq Files /\ taken \subseteq Files

\* However uploads, late triggers and runs interleave, a ready row has the size of
\* an object that was seen, and within the limit.
ReadyWasSeen == \A f \in Files : regRow[f] = "ready" => regSize[f] = 1

\* After a run that nobody disturbed, the rows tell what the bucket holds: no file
\* that was listed is pending, a ready row is only without an object, and only then
\* kept, when the listing was cut short.
ReconciledIsTrue ==
    recon = "done" /\ calm =>
        /\ \A f \in listing : regRow[f] # "pending"
        /\ \A f \in Files : regRow[f] = "ready" => f \in Present \/ truncated

\* No run takes a file away whose object was in the bucket when it listed, however
\* few of the objects the listing returned.
ListedFilesAreKept == taken = {}

Safety == TypeOK /\ ReadyWasSeen /\ ReconciledIsTrue /\ ListedFilesAreKept

\* A file is marked as deleted only if its object was once deleted.
DeletedWasRemoved ==
    \A f \in Files : regRow[f] = "deleted" => f \in removed \/ f \in deleting
-----------------------------------------------------------------------------
(* Why Safety holds: until somebody else acts, the rows a run has to       *)
(* finalize are those it has not come to and the one it is busy with.      *)

Sane == IsFiniteSet(Files) /\ Files \subseteq Nat /\ MaxObjects \in Nat

Busy == finalizer["cron"].at # "idle"

Finalizing ==
    /\ \A p \in {"trigger", "cron"} :
          /\ finalizer[p].at # "idle" => finalizer[p].file \in Files
          /\ finalizer[p].at = "headed" => finalizer[p].size \in 1..2
    /\ recon # "finalizing" => finalizer["cron"] = Idle
    /\ Busy => finalizer["cron"].file \in listing

Run ==
    /\ recon \in {"idle", "listed"} => pendingKeys = {}
    /\ pendingKeys \subseteq listing
    /\ recon # "idle" /\ ~truncated => there \subseteq listing

Undisturbed ==
    calm =>
        /\ recon # "idle" /\ finalizer["trigger"] = Idle /\ listing \subseteq Present
        /\ recon = "finalizing" =>
              \A f \in listing :
                  regRow[f] = "pending" => f \in pendingKeys \/ (Busy /\ finalizer["cron"].file = f)
        /\ recon \in {"marked", "done"} =>
              /\ \A f \in listing : regRow[f] # "pending"
              /\ \A f \in Files : regRow[f] = "ready" => f \in Present \/ truncated

IInv == TypeOK /\ Finalizing /\ Run /\ Undisturbed /\ ReadyWasSeen /\ ListedFilesAreKept
=============================================================================
