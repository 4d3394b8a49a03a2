------------------------------ MODULE Migrations ------------------------------
(***************************************************************************)
(* Migrations (packages/migrate, with withAdvisoryLock and withTransaction *)
(* of packages/core/src/db.ts): applyMigrations behind autoMigrate, and    *)
(* rollbackMigrations, which an operator runs and which takes no lock.     *)
(*                                                                         *)
(* A block's versions are 1..n.  An instance of the function has the files *)
(* of its release: its first so many migrations.  The up and the down script of a *)
(* version are in one transaction with the statement on the ledger.        *)
(***************************************************************************)
EXTENDS Naturals, FiniteSets, Sequences

CONSTANTS Versions,     \* 1..n
          Release,      \* instance -> how many versions its files have
          MaxRollbacks, MaxDeaths  \* bounds

VARIABLES ledger,       \* versions in blocks_core.migrations, whose effect is in the schema
          holder,       \* instance that holds the advisory lock, or "nobody"
          instance,     \* instance -> [at, known, next]
          operator,     \* [at, todo]: the versions still to roll back
          rollbacks, deaths,
          rolledBack    \* versions that were rolled back at some time

vars == <<ledger, holder, instance, operator, rollbacks, deaths, rolledBack>>

Instances == DOMAIN Release
Cold == [at |-> "cold", known |-> {}, next |-> 1]
MaxOf(S) == CHOOSE x \in S : \A y \in S : y <= x

Init ==
    /\ ledger = {} /\ holder = "nobody" /\ rollbacks = 0 /\ deaths = 0
    /\ instance = [i \in Instances |-> Cold]
    /\ operator = [at |-> "idle", todo |-> <<>>] /\ rolledBack = {}

IsFreeOrNot == TRUE
IsFree == holder = "nobody"

\* The first request: ensure, applyMigrations, pg_try_advisory_lock.  When another has
\* the lock the request fails, and the next one tries again.
Lock(i) ==
    /\ instance[i].at = "cold" /\ IsFree
    /\ holder' = i
    /\ instance' = [instance EXCEPT ![i].at = "locked"]
    /\ UNCHANGED <<ledger, operator, rollbacks, deaths, rolledBack>>

ReadLedger(i) ==
    /\ instance[i].at = "locked"
    /\ instance' = [instance EXCEPT ![i] = [at |-> "applying", known |-> ledger, next |-> 1]]
    /\ UNCHANGED <<ledger, holder, operator, rollbacks, deaths, rolledBack>>

Left(i) == {v \in 1..Release[i] : v \notin instance[i].known /\ v >= instance[i].next}

\* BEGIN and the up script of the next version that the ledger did not have.
RunUp(i) ==
    /\ instance[i].at = "applying"
    /\ \E v \in Left(i) :
          /\ \A x \in Left(i) : v <= x
          /\ instance' = [instance EXCEPT ![i].at = "running", ![i].next = v]
    /\ UNCHANGED <<ledger, holder, operator, rollbacks, deaths, rolledBack>>

\* INSERT INTO the ledger and COMMIT: a version that is there by now rolls all of it back.
CommitUp(i) ==
    /\ instance[i].at = "running"
    /\ LET v == instance[i].next
       IN  IF v \in ledger
           THEN /\ instance' = [instance EXCEPT ![i].at = "failed"]
                /\ UNCHANGED ledger
           ELSE /\ ledger' = ledger \union {v}
                /\ instance' = [instance EXCEPT ![i].at = "applying", ![i].next = v + 1]
    /\ UNCHANGED <<holder, operator, rollbacks, deaths, rolledBack>>

\* The script or a statement fails: the transaction is undone.
FailUp(i) ==
    /\ instance[i].at \in {"locked", "running"} /\ deaths < MaxDeaths
    /\ deaths' = deaths + 1
    /\ instance' = [instance EXCEPT ![i].at = "failed"]
    /\ UNCHANGED <<ledger, holder, operator, rollbacks, rolledBack>>

GiveBack(i) == holder' = IF holder = i THEN "nobody" ELSE holder

\* The lock is given back; the request and all that wait for it fail, the next starts anew.
Unlock(i) ==
    /\ instance[i].at = "failed" \/ (instance[i].at = "applying" /\ Left(i) = {})
    /\ GiveBack(i)
    /\ instance' = [instance EXCEPT ![i] =
                       IF instance[i].at = "failed" THEN Cold ELSE [Cold EXCEPT !.at = "serving"]]
    /\ UNCHANGED <<ledger, operator, rollbacks, deaths, rolledBack>>

\* The process dies, with its connections: its lock and its open transaction go with them.
Die(i) ==
    /\ instance[i].at # "cold" /\ deaths < MaxDeaths
    /\ deaths' = deaths + 1
    /\ GiveBack(i)
    /\ instance' = [instance EXCEPT ![i] = Cold]
    /\ UNCHANGED <<ledger, operator, rollbacks, rolledBack>>

\* rollbackMigrations: the newest so many versions, and only when each has a down script.
SelectVersions(n) ==
    /\ operator.at = "idle" /\ rollbacks < MaxRollbacks /\ ledger # {}
    /\ LET newest == {v \in ledger : Cardinality({x \in ledger : x > v}) < n}
       IN  operator' = [at |-> "rolling",
               todo |-> SelectSeq([k \in 1..MaxOf(Versions) |-> MaxOf(Versions) + 1 - k],
                                  LAMBDA v : v \in newest)]
    /\ rollbacks' = rollbacks + 1
    /\ UNCHANGED <<ledger, holder, instance, deaths, rolledBack>>

\* The down script of the next one, and the DELETE, in a transaction.
RollBack ==
    /\ operator.todo # <<>>
    /\ ledger' = ledger \ {operator.todo[1]}
    /\ rolledBack' = rolledBack \union {operator.todo[1]}
    /\ operator' = [operator EXCEPT !.todo = Tail(@)]
    /\ UNCHANGED <<holder, instance, rollbacks, deaths>>

EndRollback ==
    /\ operator.at = "rolling" /\ operator.todo = <<>>
    /\ operator' = [operator EXCEPT !.at = "idle"]
    /\ UNCHANGED <<ledger, holder, instance, rollbacks, deaths, rolledBack>>

Next ==
    \/ RollBack \/ EndRollback
    \/ \E n \in Versions : SelectVersions(n)
    \/ \E i \in Instances :
          \/ Lock(i) \/ ReadLedger(i) \/ RunUp(i) \/ CommitUp(i) \/ FailUp(i)
          \/ Unlock(i) \/ Die(i)

Spec == Init /\ [][Next]_vars

-----------------------------------------------------------------------------
TypeOK ==
    /\ ledger \subseteq Versions
    /\ holder \in Instances \union {"nobody"}
    /\ \A i \in Instances : instance[i].at \in
          {"cold", "locked", "applying", "running", "failed", "serving"}
    /\ operator.at \in {"idle", "rolling"}

\* Two releases that boot at once never run scripts at the same time, and none of them
\* runs one without the lock.
OneMigrates ==
    \A i \in Instances :
        instance[i].at \in {"locked", "applying", "running", "failed"} => holder = i

\* Without rollbacks a version is applied after all before it, whichever release does it,
\* and whoever serves has all the versions of its files.
InOrder ==
    rolledBack = {} =>
        /\ \A v \in ledger : 1..v \subseteq ledger
        /\ \A i \in Instances : instance[i].at = "serving" => 1..Release[i] \subseteq ledger

Safety == TypeOK /\ OneMigrates /\ InOrder

\* No version is applied on top of one that is missing.
NoHole == \A v \in ledger : 1..v \subseteq ledger
-----------------------------------------------------------------------------
(* OneMigrates and InOrder for any number of versions, releases and        *)
(* instances.  Why InOrder holds: an instance has passed by a version only *)
(* if the ledger had it, when it was read or when it was committed, and    *)
(* as long as nothing is rolled back the ledger loses none.  The lock is   *)
(* not part of this argument.                                              *)

Busy == {"locked", "applying", "running", "failed"}

Record == [at : Busy \union {"cold", "serving"}, known : SUBSET Versions, next : Nat]

Shape ==
    /\ ledger \subseteq Versions
    /\ instance \in [Instances -> Record]
    /\ holder \in Instances \union {"nobody"}
    /\ operator.at \in {"idle", "rolling"}
    /\ operator = [at |-> operator.at, todo |-> operator.todo]

\* All that an instance has come past is in the ledger.
Passed(i) ==
    /\ instance[i].known \subseteq ledger
    /\ instance[i].at \in {"applying", "running"} =>
          \A v \in 1..Release[i] : v < instance[i].next => v \in ledger
    /\ instance[i].at = "running" => instance[i].next \in 1..Release[i]
    /\ instance[i].at = "serving" => 1..Release[i] \subseteq ledger

NothingSkipped ==
    rolledBack = {} => /\ \A v \in ledger : 1..v \subseteq ledger
                       /\ \A i \in Instances : Passed(i)

IInv == Shape /\ OneMigrates /\ NothingSkipped

Sane == /\ Versions \subseteq Nat \ {0}
        /\ Release \in [Instances -> Nat]
        /\ \A i \in Instances : 1..Release[i] \subseteq Versions
        /\ "nobody" \notin Instances
=============================================================================
