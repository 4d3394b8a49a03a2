---------------------------- MODULE IngestRouter ----------------------------
(***************************************************************************)
(* Ingest router (blocks/ingest-router): the storage trigger POST /route   *)
(* and the cron run POST /reconcile, which turn an object into the jobs of *)
(* its kind, once per (key, etag).                                         *)
(*                                                                         *)
(* A handled job writes a derivative into the bucket, under the watched    *)
(* prefix.  A statement or a storage call is one action.  enqueue is       *)
(* modelled as meant: it stores a job unless one with the key is active.   *)
(***************************************************************************)
EXTENDS Naturals, FiniteSets

CONSTANTS Uploads,      \* keys that clients write: 1..n, in the listing's order
          Routes,       \* upload -> the job types of its kind
          TooBig,       \* versions <<key, etag>> over ROUTER_MAX_BYTES
          Etags,        \* 1..n, the versions of an upload
          MaxObjects    \* listing limit of a reconcile run

VARIABLES stored,       \* key -> etag of its object, 0 when there is none
          dispatched,   \* version -> status of its row in dispatches, or "none"
          dispatcher,   \* "event", "run" -> [at, key, etag, jobs] of dispatchObject
          enqueued,     \* <<version, type>> -> jobs stored
          active,       \* <<version, type>> of the jobs that are not done
          scan,         \* versions the reconcile run listed and has not come to
          scanning,
          settled       \* history: nobody else has acted since the listing

vars == <<stored, dispatched, dispatcher, enqueued, active, scan, scanning, settled>>

Derivative(k) == k + 10             \* the key a job of k writes
Keys == Uploads \union {Derivative(k) : k \in Uploads}
Versions == Keys \X Etags
Types == UNION {Routes[k] : k \in Uploads}
RoutesOf(k) == Routes[IF k \in Uploads THEN k ELSE k - 10]
Free == [at |-> "idle", key |-> 0, etag |-> 0, jobs |-> {}]

Init ==
    /\ stored = [k \in Keys |-> 0]
    /\ dispatched = [v \in Versions |-> "none"]
    /\ dispatcher = [p \in {"event", "run"} |-> Free]
    /\ enqueued = [j \in Versions \X Types |-> 0]
    /\ active = {}
    /\ scan = {} /\ scanning = FALSE /\ settled = FALSE

\* A new object, or a new version of it.
Upload(k) ==
    /\ stored[k] + 1 \in Etags
    /\ stored' = [stored EXCEPT ![k] = @ + 1]
    /\ settled' = FALSE
    /\ UNCHANGED <<dispatched, dispatcher, enqueued, active, scan, scanning>>

-----------------------------------------------------------------------------
(* dispatchObject                                                          *)

\* A guard that looks at nothing.
PassesAll(k) == TRUE

\* The loop guard and the prefix check, before any I/O.
Passes(k) == k \in Uploads

\* HEAD supplies the etag of now; an object over the limit is recorded as rejected.
Begin(p, k) ==
    /\ dispatcher[p].at = "idle" /\ stored[k] > 0 /\ Passes(k)
    /\ LET v == <<k, stored[k]>>
       IN  IF v \in TooBig
           THEN /\ dispatched' = [dispatched EXCEPT ![v] = "rejected"]
                /\ UNCHANGED dispatcher
           ELSE /\ dispatcher' = [dispatcher EXCEPT ![p] =
                                     [at |-> "seen", key |-> k, etag |-> stored[k], jobs |-> {}]]
                /\ UNCHANGED dispatched

\* The storage trigger delivers an event late, twice or never.
Event(k) ==
    /\ Begin("event", k)
    /\ settled' = FALSE
    /\ UNCHANGED <<stored, enqueued, active, scan, scanning>>

\* By the key alone.
TakenByKey(k, e) == \E f \in Etags : dispatched[<<k, f>>] # "none"

\* The unique constraint of dispatches.
Taken(k, e) == dispatched[<<k, e>>] # "none"

\* claim: INSERT ... ON CONFLICT DO NOTHING, with the status 'routed'.
Claim(p) ==
    LET d == dispatcher[p]
    IN  /\ d.at = "seen"
        /\ IF Taken(d.key, d.etag)
           THEN dispatcher' = [dispatcher EXCEPT ![p] = Free] /\ UNCHANGED dispatched
           ELSE /\ dispatched' = [dispatched EXCEPT ![<<d.key, d.etag>>] = "routed"]
                /\ dispatcher' = [dispatcher EXCEPT
                                     ![p].at = "claimed", ![p].jobs = RoutesOf(d.key)]
        /\ settled' = (settled /\ p = "run")
        /\ UNCHANGED <<stored, enqueued, active, scan, scanning>>

\* The jobs one by one, each with its version and type as idempotency key.
Enqueue(p) ==
    LET d == dispatcher[p]
    IN  /\ d.at = "claimed"
        /\ \E t \in d.jobs :
              LET j == <<<<d.key, d.etag>>, t>>
              IN  /\ active' = active \union {j}
                  /\ enqueued' = [enqueued EXCEPT ![j] = @ + IF j \in active THEN 0 ELSE 1]
                  /\ dispatcher' = [dispatcher EXCEPT ![p].jobs = @ \ {t}]
        /\ settled' = (settled /\ p = "run")
        /\ UNCHANGED <<stored, dispatched, scan, scanning>>

\* record: 'unrouted' for a kind without a route, else 'routed'.
Record(p) ==
    LET d == dispatcher[p]
    IN  /\ d.at = "claimed" /\ d.jobs = {}
        /\ dispatched' = [dispatched EXCEPT ![<<d.key, d.etag>>] =
                             IF RoutesOf(d.key) = {} THEN "unrouted" ELSE "routed"]
        /\ dispatcher' = [dispatcher EXCEPT ![p] = Free]
        /\ settled' = (settled /\ p = "run")
        /\ UNCHANGED <<stored, enqueued, active, scan, scanning>>

\* The function dies, or a statement fails, between two steps.
Fail(p) ==
    /\ dispatcher[p].at # "idle"
    /\ dispatcher' = [dispatcher EXCEPT ![p] = Free]
    /\ settled' = FALSE
    /\ UNCHANGED <<stored, dispatched, enqueued, active, scan, scanning>>

\* A job is handled: its derivative appears in the bucket.
Handle(j) ==
    /\ j \in active /\ active' = active \ {j}
    /\ stored' = [stored EXCEPT ![IF j[1][1] \in Uploads THEN Derivative(j[1][1]) ELSE j[1][1]] = j[1][2]]
    /\ settled' = FALSE
    /\ UNCHANGED <<dispatched, dispatcher, enqueued, scan, scanning>>

-----------------------------------------------------------------------------
(* reconcile                                                               *)

\* The first page of the listing, without the versions that have a row.
Listing == {k \in Uploads :
               /\ stored[k] > 0
               /\ Cardinality({m \in Uploads : m < k /\ stored[m] > 0}) < MaxObjects}

List ==
    /\ ~scanning /\ scanning' = TRUE
    /\ scan' = {v \in {<<k, stored[k]>> : k \in Listing} : dispatched[v] = "none"}
    /\ settled' = (dispatcher["event"] = Free)
    /\ UNCHANGED <<stored, dispatched, dispatcher, enqueued, active>>

DispatchNext ==
    /\ dispatcher["run"] = Free
    /\ \E v \in scan : Begin("run", v[1]) /\ scan' = scan \ {v}
    /\ UNCHANGED <<stored, enqueued, active, scanning, settled>>

EndRun ==
    /\ scanning /\ scanning' = FALSE /\ scan' = {} /\ settled' = FALSE
    /\ dispatcher' = [dispatcher EXCEPT !["run"] = Free]
    /\ UNCHANGED <<stored, dispatched, enqueued, active>>

Next ==
    \/ \E k \in Uploads : Upload(k)
    \/ \E k \in Keys : Event(k)
    \/ \E p \in DOMAIN dispatcher : Claim(p) \/ Enqueue(p) \/ Record(p) \/ Fail(p)
    \/ \E j \in active : Handle(j)
    \/ List \/ DispatchNext \/ EndRun

Spec == Init /\ [][Next]_vars

-----------------------------------------------------------------------------
TypeOK ==
    /\ stored \in [Keys -> Etags \union {0}]
    /\ dispatched \in [Versions -> {"none", "routed", "unrouted", "rejected"}]
    /\ dispatcher \in [{"event", "run"} ->
           [at : {"idle", "seen", "claimed"}, key : Keys \union {0}, etag : Etags \union {0},
            jobs : SUBSET Types]]
    /\ enqueued \in [Versions \X Types -> Nat] /\ active \subseteq Versions \X Types
    /\ scan \subseteq Versions /\ scanning \in BOOLEAN /\ settled \in BOOLEAN

\* Events that come late or twice, beside a reconcile run, enqueue each job of a
\* version once, also when the first job is done by then; and derivatives, whatever
\* jobs write, none.
EnqueuedOnce ==
    \A v \in Versions, t \in Types :
        enqueued[<<v, t>>] <= IF v[1] \in Uploads /\ t \in Routes[v[1]] THEN 1 ELSE 0

\* After a run that nothing disturbed every object on the page it listed has a row
\* for the version it has: an overwritten object is routed again.
ReconcileCovers ==
    scanning /\ settled /\ scan = {} /\ dispatcher["run"] = Free =>
        \A k \in Listing : dispatched[<<k, stored[k]>>] # "none"

Safety == TypeOK /\ EnqueuedOnce /\ ReconcileCovers

\* Every arrival is routed: a version with a row that nobody works on has its jobs.
RoutedHasJobs ==
    \A v \in Versions :
        dispatched[v] = "routed" /\ (\A p \in DOMAIN dispatcher : dispatcher[p].at # "claimed")
            => \A t \in RoutesOf(v[1]) : enqueued[<<v, t>>] > 0
-----------------------------------------------------------------------------
(* Why Safety holds: a version is claimed by one dispatcher, which has     *)
(* enqueued none of the jobs it has left; and a run has of the page it     *)
(* listed a row, the version still to come, or the version in its hands.   *)

Dispatcher == [at : {"idle", "seen", "claimed"}, key : Keys \union {0}, etag : Etags \union {0},
               jobs : SUBSET Types]

Claimed(p, v) == dispatcher[p].at = "claimed" /\ <<dispatcher[p].key, dispatcher[p].etag>> = v

Working ==
    \A p \in {"event", "run"} :
        dispatcher[p].at # "idle" =>
            /\ dispatcher[p].key \in Uploads /\ dispatcher[p].etag \in Etags
            /\ dispatcher[p].jobs \subseteq Routes[dispatcher[p].key]

OneClaim ==
    \A v \in Versions :
        /\ Claimed("event", v) => ~Claimed("run", v)
        /\ \A p \in {"event", "run"} : Claimed(p, v) =>
              dispatched[v] # "none" /\ \A t \in dispatcher[p].jobs : enqueued[<<v, t>>] = 0
        /\ dispatched[v] = "none" => \A t \in Types : enqueued[<<v, t>>] = 0

Scanned ==
    /\ ~scanning => scan = {} /\ dispatcher["run"] = Free
    /\ scanning /\ settled =>
          /\ dispatcher["event"] = Free
          /\ \A v \in scan : v[2] = stored[v[1]]
          /\ \A k \in Listing :
                \/ dispatched[<<k, stored[k]>>] # "none"
                \/ <<k, stored[k]>> \in scan
                \/ dispatcher["run"].at = "seen" /\ dispatcher["run"].key = k
                                                /\ dispatcher["run"].etag = stored[k]

IInv == TypeOK /\ Working /\ OneClaim /\ Scanned /\ EnqueuedOnce
=============================================================================
