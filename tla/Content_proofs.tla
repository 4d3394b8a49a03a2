---------------------------- MODULE Content_proofs --------------------------
(* Safety of the blocks of Content, for every value of their constants.    *)
(* Each part proves an inductive invariant of one block, IInv, and that it *)
(* implies what the block promises.                                        *)
EXTENDS Content, FiniteSetTheorems, SequenceTheorems, WellFoundedInduction, TLAPS

-----------------------------------------------------------------------------
(* FileRegistry                                                            *)

\* The block counts as FiniteSets does.
LEMMA RegistryFinite ==
    \A S : (Registry!IsFiniteSet(S) <=> IsFiniteSet(S)) /\ Registry!Cardinality(S) = Cardinality(S)
BY DEF Registry!IsFiniteSet, IsFiniteSet, Registry!Cardinality, Cardinality

LEMMA RegistryFinalizerChange ==
    ASSUME NEW c, NEW f \in Files, NEW z \in 0..2,
           c \in [at : {"idle", "found", "headed"}, file : Files \union {0}, size : 0..2]
    PROVE  /\ Registry!Idle \in [at : {"idle", "found", "headed"}, file : Files \union {0}, size : 0..2]
           /\ [at |-> "found", file |-> f, size |-> 0]
                 \in [at : {"idle", "found", "headed"}, file : Files \union {0}, size : 0..2]
           /\ [c EXCEPT !.at = "headed", !.size = z]
                 \in [at : {"idle", "found", "headed"}, file : Files \union {0}, size : 0..2]
<1> DEFINE Z == 0..2
           F == Files \union {0}
<1>1. 0 \in Z /\ 0 \in F /\ f \in F
  OBVIOUS
<1> HIDE DEF Z, F
<1>2. [at |-> "idle", file |-> 0, size |-> 0] \in [at : {"idle", "found", "headed"}, file : F, size : Z]
  BY <1>1
<1>3. [at |-> "found", file |-> f, size |-> 0] \in [at : {"idle", "found", "headed"}, file : F, size : Z]
  BY <1>1
<1>4. ASSUME NEW y \in [at : {"idle", "found", "headed"}, file : F, size : Z], NEW x \in Z
      PROVE  [y EXCEPT !.at = "headed", !.size = x] \in [at : {"idle", "found", "headed"}, file : F, size : Z]
  BY <1>4
<1> QED BY <1>2, <1>3, <1>4 DEF Registry!Idle, Z, F

LEMMA RegistryInitHolds == ASSUME Registry!Init PROVE Registry!IInv
<1> USE DEF Registry!Init, Registry!Idle
<1>1. Registry!TypeOK
  <2> DEFINE R == [at : {"idle", "found", "headed"}, file : Files \union {0}, size : 0..2]
  <2>1. Registry!Idle \in R
    <3>1. 0 \in 0..2 /\ 0 \in Files \union {0}
      OBVIOUS
    <3> QED BY <3>1 DEF Registry!Idle
  <2>2. finalizer \in [{"trigger", "cron"} -> R]
    <3> HIDE DEF R
    <3> QED BY <2>1
  <2>3. regSize \in [Files -> 0..2] /\ object \in [Files -> 0..2]
    OBVIOUS
  <2> QED BY <2>2, <2>3 DEF Registry!TypeOK
<1>2. Registry!Finalizing /\ Registry!Run
  BY DEF Registry!Finalizing, Registry!Run, Registry!Busy
<1>3. Registry!Undisturbed /\ Registry!ReadyWasSeen /\ Registry!ListedFilesAreKept
  BY DEF Registry!Undisturbed, Registry!ReadyWasSeen, Registry!ListedFilesAreKept
<1> QED BY <1>1, <1>2, <1>3 DEF Registry!IInv

\* A listing that was not cut short holds every object.
LEMMA RegistryWholeListing ==
    ASSUME ~(Cardinality(Registry!Present) > ReconcileLimit)
    PROVE  Registry!Present \subseteq {f \in Registry!Present : Cardinality({g \in Registry!Present : g < f}) < ReconcileLimit}
<1> SUFFICES ASSUME NEW f \in Registry!Present
             PROVE  Cardinality({g \in Registry!Present : g < f}) < ReconcileLimit
  OBVIOUS
<1> DEFINE Below == {g \in Registry!Present : g < f}
<1>1. IsFiniteSet(Registry!Present) /\ Registry!Present \subseteq Nat
  BY RegistrySane, FS_Subset, RegistryFinite DEF Registry!Sane, Registry!Present
<1>2. f \notin Below /\ Below \subseteq Registry!Present \ {f}
  BY <1>1
<1>3. /\ IsFiniteSet(Registry!Present \ {f}) /\ Cardinality(Registry!Present \ {f}) = Cardinality(Registry!Present) - 1
      /\ Cardinality(Registry!Present) \in Nat
  BY <1>1, FS_RemoveElement, FS_CardinalityType
<1>4. Cardinality(Below) <= Cardinality(Registry!Present \ {f}) /\ Cardinality(Below) \in Nat
  BY <1>2, <1>3, FS_Subset, FS_CardinalityType
<1> QED BY <1>3, <1>4, RegistrySane DEF Registry!Sane

LEMMA RegistryStepHolds == ASSUME Registry!IInv, [Registry!Next]_(Registry!vars) PROVE Registry!IInv'
<1> USE DEF Registry!IInv
<1>0. Registry!TypeOK /\ DOMAIN finalizer = {"trigger", "cron"}
  BY DEF Registry!TypeOK
<1>1. ASSUME NEW f \in Files, Registry!Issue(f) PROVE Registry!IInv'
  <2>1. Registry!TypeOK'
    BY <1>0, <1>1 DEF Registry!Issue, Registry!TypeOK, Registry!reconVars
  <2>2. Registry!Finalizing' /\ Registry!Run' /\ Registry!Undisturbed'
    BY <1>1 DEF Registry!Issue, Registry!reconVars, Registry!Finalizing, Registry!Run,
         Registry!Undisturbed, Registry!Busy
  <2>3. Registry!ReadyWasSeen' /\ Registry!ListedFilesAreKept'
    BY <1>0, <1>1 DEF Registry!Issue, Registry!TypeOK, Registry!ReadyWasSeen,
         Registry!ListedFilesAreKept
  <2> QED BY <2>1, <2>2, <2>3
<1>2. ASSUME NEW f \in Files, NEW size \in 1..2, Registry!Put(f, size) PROVE Registry!IInv'
  <2>1. Registry!TypeOK'
    <3>1. object' \in [Files -> 0..2]
      BY <1>0, <1>2 DEF Registry!Put, Registry!TypeOK
    <3> QED BY <1>0, <1>2, <3>1 DEF Registry!Put, Registry!TypeOK, Registry!reconVars
  <2>2. Registry!Finalizing' /\ Registry!Run' /\ Registry!Undisturbed'
    BY <1>2 DEF Registry!Put, Registry!reconVars, Registry!Finalizing, Registry!Run,
         Registry!Undisturbed, Registry!Busy
  <2>3. Registry!ReadyWasSeen' /\ Registry!ListedFilesAreKept'
    BY <1>2 DEF Registry!Put, Registry!ReadyWasSeen, Registry!ListedFilesAreKept
  <2> QED BY <2>1, <2>2, <2>3
<1>3. ASSUME NEW f \in Files, Registry!DeleteRow(f) PROVE Registry!IInv'
  <2>1. Registry!TypeOK'
    BY <1>0, <1>3 DEF Registry!DeleteRow, Registry!TypeOK, Registry!reconVars
  <2>2. Registry!Finalizing' /\ Registry!Run' /\ Registry!Undisturbed'
    BY <1>3 DEF Registry!DeleteRow, Registry!reconVars, Registry!Finalizing, Registry!Run,
         Registry!Undisturbed, Registry!Busy
  <2>3. Registry!ReadyWasSeen' /\ Registry!ListedFilesAreKept'
    BY <1>0, <1>3 DEF Registry!DeleteRow, Registry!TypeOK, Registry!ReadyWasSeen,
         Registry!ListedFilesAreKept
  <2> QED BY <2>1, <2>2, <2>3
<1>4. ASSUME NEW f \in Files, Registry!DeleteObject(f) PROVE Registry!IInv'
  <2>1. Registry!TypeOK'
    <3>1. object' \in [Files -> 0..2]
      BY <1>0, <1>4 DEF Registry!DeleteObject, Registry!TypeOK
    <3>2. deleting' \subseteq Files /\ removed' \subseteq Files
      BY <1>0, <1>4 DEF Registry!DeleteObject, Registry!TypeOK
    <3> QED BY <1>0, <1>4, <3>1, <3>2 DEF Registry!DeleteObject, Registry!TypeOK,
         Registry!reconVars
  <2>2. Registry!Finalizing' /\ Registry!Run' /\ Registry!Undisturbed'
    BY <1>4 DEF Registry!DeleteObject, Registry!reconVars, Registry!Finalizing, Registry!Run,
         Registry!Undisturbed, Registry!Busy
  <2>3. Registry!ReadyWasSeen' /\ Registry!ListedFilesAreKept'
    BY <1>4 DEF Registry!DeleteObject, Registry!ReadyWasSeen, Registry!ListedFilesAreKept
  <2> QED BY <2>1, <2>2, <2>3
<1>5. ASSUME NEW f \in Files, Registry!Trigger(f) PROVE Registry!IInv'
  <2>1. /\ finalizer' = [finalizer EXCEPT !["trigger"] = [at |-> "found", file |-> f, size |-> 0]]
        /\ calm' = FALSE
        /\ UNCHANGED <<regRow, regSize, object, recon, listing, truncated, pendingKeys, deleting,
                       there, taken, removed>>
    BY <1>5 DEF Registry!Trigger, Registry!Lookup, Registry!reconVars
  <2>2. finalizer' \in [{"trigger", "cron"} ->
            [at : {"idle", "found", "headed"}, file : Files \union {0}, size : 0..2]]
    BY <1>0, <2>1 DEF Registry!TypeOK
  <2>3. Registry!TypeOK'
    BY <1>0, <2>1, <2>2 DEF Registry!TypeOK
  <2>4. finalizer'["cron"] = finalizer["cron"] /\ finalizer'["trigger"].at = "found"
        /\ finalizer'["trigger"].file = f
    BY <1>0, <2>1 DEF Registry!TypeOK
  <2>5. Registry!Finalizing' /\ Registry!Run' /\ Registry!Undisturbed'
    BY <2>1, <2>4 DEF Registry!Finalizing, Registry!Run, Registry!Undisturbed, Registry!Busy
  <2>6. Registry!ReadyWasSeen' /\ Registry!ListedFilesAreKept'
    BY <2>1 DEF Registry!ReadyWasSeen, Registry!ListedFilesAreKept
  <2> QED BY <2>3, <2>5, <2>6
<1>6. ASSUME NEW p \in {"trigger", "cron"}, Registry!Head(p) PROVE Registry!IInv'
  <2> DEFINE c == finalizer[p]
             size == object[c.file]
  <2>1. /\ c.at = "found" /\ c.file \in Files /\ size \in 0..2
        /\ c \in [at : {"idle", "found", "headed"}, file : Files \union {0}, size : 0..2]
    BY <1>0, <1>6 DEF Registry!Head, Registry!TypeOK, Registry!Finalizing
  <2>2. /\ finalizer' = [finalizer EXCEPT ![p] =
               IF size = 0 THEN Registry!Idle ELSE [c EXCEPT !.at = "headed", !.size = size]]
        /\ UNCHANGED <<regRow, regSize, object, recon, listing, truncated, pendingKeys, deleting,
                       there, taken, removed>>
        /\ calm' = (calm /\ p = "cron")
    BY <1>0, <1>6 DEF Registry!Head, Registry!TypeOK, Registry!reconVars
  <2>3. finalizer' \in [{"trigger", "cron"} ->
            [at : {"idle", "found", "headed"}, file : Files \union {0}, size : 0..2]]
    BY <1>0, <2>1, <2>2, RegistryFinalizerChange DEF Registry!TypeOK
  <2>4. /\ size = 0 => finalizer'[p] = Registry!Idle
        /\ size # 0 => /\ finalizer'[p].at = "headed" /\ finalizer'[p].file = c.file
                       /\ finalizer'[p].size = size
        /\ \A q \in {"trigger", "cron"} \ {p} : finalizer'[q] = finalizer[q]
    BY <1>0, <2>1, <2>2 DEF Registry!TypeOK
  <2>5. Registry!TypeOK'
    <3>1. calm' \in BOOLEAN
      BY <2>2
    <3> QED BY <1>0, <2>2, <2>3, <3>1 DEF Registry!TypeOK
  <2>6. Registry!Finalizing' /\ Registry!Run'
    BY <2>1, <2>2, <2>4 DEF Registry!Finalizing, Registry!Run, Registry!Busy, Registry!Idle
  <2>7. Registry!Undisturbed'
    <3> SUFFICES ASSUME calm' PROVE Registry!Undisturbed'
      BY DEF Registry!Undisturbed
    <3>1. calm /\ p = "cron"
      BY <2>2
    <3>2. c.file \in listing /\ size # 0 /\ finalizer'["trigger"] = Registry!Idle
      BY <2>1, <2>4, <3>1 DEF Registry!Finalizing, Registry!Undisturbed, Registry!Present,
           Registry!Busy
    <3>3. Registry!Busy' /\ finalizer'["cron"].file = finalizer["cron"].file
      BY <2>4, <3>1, <3>2 DEF Registry!Busy
    <3> QED BY <2>2, <3>1, <3>2, <3>3 DEF Registry!Undisturbed, Registry!Present
  <2>8. Registry!ReadyWasSeen' /\ Registry!ListedFilesAreKept'
    BY <2>2 DEF Registry!ReadyWasSeen, Registry!ListedFilesAreKept
  <2> QED BY <2>5, <2>6, <2>7, <2>8
<1>7. ASSUME NEW p \in {"trigger", "cron"}, Registry!Finalize(p) PROVE Registry!IInv'
  <2> DEFINE f == finalizer[p].file
             size == finalizer[p].size
  <2>1. finalizer[p].at = "headed" /\ f \in Files /\ size \in 1..2
    BY <1>7 DEF Registry!Finalize, Registry!Finalizing
  <2>2. /\ regRow' = [regRow EXCEPT ![f] = IF size <= 1 THEN "ready" ELSE "rejected"]
        /\ regSize' = [regSize EXCEPT ![f] = size]
        /\ finalizer' = [finalizer EXCEPT ![p] = Registry!Idle]
        /\ UNCHANGED <<object, recon, listing, truncated, pendingKeys, deleting,
                       there, taken, removed>>
        /\ calm' = (calm /\ p = "cron")
    BY <1>7 DEF Registry!Finalize, Registry!Accepts, Registry!reconVars
  <2>3. /\ finalizer' \in [{"trigger", "cron"} ->
              [at : {"idle", "found", "headed"}, file : Files \union {0}, size : 0..2]]
        /\ finalizer'[p] = Registry!Idle
        /\ \A q \in {"trigger", "cron"} \ {p} : finalizer'[q] = finalizer[q]
    <3>1. Registry!Idle \in [at : {"idle", "found", "headed"}, file : Files \union {0}, size : 0..2]
      BY DEF Registry!Idle
    <3> QED BY <1>0, <2>2, <3>1 DEF Registry!TypeOK
  <2>4. /\ regRow' \in [Files -> {"none", "pending", "ready", "deleted", "abandoned", "rejected"}]
        /\ regSize' \in [Files -> 0..2]
        /\ regRow'[f] \in {"ready", "rejected"} /\ regSize'[f] = size
        /\ regRow'[f] = "ready" => size = 1
        /\ \A g \in Files \ {f} : regRow'[g] = regRow[g] /\ regSize'[g] = regSize[g]
    BY <1>0, <2>1, <2>2 DEF Registry!TypeOK
  <2>5. Registry!TypeOK'
    <3>1. calm' \in BOOLEAN
      BY <2>2
    <3> QED BY <1>0, <2>2, <2>3, <2>4, <3>1 DEF Registry!TypeOK
  <2>6. Registry!Finalizing' /\ Registry!Run'
    BY <2>1, <2>2, <2>3 DEF Registry!Finalizing, Registry!Run, Registry!Busy, Registry!Idle
  <2>7. Registry!Undisturbed'
    <3> SUFFICES ASSUME calm' PROVE Registry!Undisturbed'
      BY DEF Registry!Undisturbed
    <3>1. calm /\ p = "cron" /\ finalizer["trigger"] = Registry!Idle /\ finalizer'["trigger"] = Registry!Idle
      BY <2>2, <2>3 DEF Registry!Undisturbed
    <3>2. recon = "finalizing" /\ listing \subseteq Files
      BY <1>0, <2>1, <3>1 DEF Registry!Finalizing, Registry!Idle, Registry!TypeOK
    <3>3. \A g \in listing : regRow'[g] = "pending" => g \in pendingKeys
      BY <2>4, <3>1, <3>2 DEF Registry!Undisturbed
    <3> QED BY <2>2, <3>1, <3>2, <3>3 DEF Registry!Undisturbed, Registry!Present
  <2>8. Registry!ReadyWasSeen' /\ Registry!ListedFilesAreKept'
    BY <2>2, <2>4 DEF Registry!ReadyWasSeen, Registry!ListedFilesAreKept
  <2> QED BY <2>5, <2>6, <2>7, <2>8
<1>8. CASE Registry!List
  <2>0. Registry!Present \subseteq Files
    BY DEF Registry!Present
  <2>1. /\ recon = "idle" /\ recon' = "listed" /\ listing' \subseteq Registry!Present /\ there' = Registry!Present
        /\ ~truncated' => Registry!Present \subseteq listing'
        /\ truncated' \in BOOLEAN /\ calm' \in BOOLEAN
        /\ calm' => \A p \in {"trigger", "cron"} : finalizer[p] = Registry!Idle
        /\ UNCHANGED <<regRow, regSize, object, finalizer, pendingKeys, deleting, taken, removed>>
    <3>1. truncated' = (Cardinality(Registry!Present) > ReconcileLimit)
      BY <1>8, RegistryFinite DEF Registry!List
    <3>2. listing' = {f \in Registry!Present : Cardinality({g \in Registry!Present : g < f}) < ReconcileLimit}
      BY <1>8, RegistryFinite DEF Registry!List
    <3>3. truncated' \in BOOLEAN /\ (~truncated' => Registry!Present \subseteq listing')
      <4> DEFINE Cut == Cardinality(Registry!Present) > ReconcileLimit
      <4>1. Cut \in BOOLEAN
        <5>1. IsFiniteSet(Registry!Present)
          BY RegistrySane, FS_Subset, RegistryFinite DEF Registry!Sane, Registry!Present
        <5>2. Cardinality(Registry!Present) \in Nat /\ ReconcileLimit \in Nat
          BY <5>1, RegistrySane, FS_CardinalityType DEF Registry!Sane
        <5> QED BY <5>2
      <4>2. ~Cut => Registry!Present \subseteq listing'
        BY <3>2, RegistryWholeListing
      <4>3. truncated' = Cut
        BY <3>1
      <4> HIDE DEF Cut
      <4> QED BY <4>1, <4>2, <4>3
    <3>4. calm' = \A p \in {"trigger", "cron"} : finalizer[p] = Registry!Idle
      BY <1>0, <1>8 DEF Registry!List
    <3>5. calm' \in BOOLEAN /\ (calm' => \A p \in {"trigger", "cron"} : finalizer[p] = Registry!Idle)
      BY <3>4
    <3>6. listing' \subseteq Registry!Present
      BY <3>2
    <3> QED BY <1>8, <3>3, <3>5, <3>6 DEF Registry!List
  <2>2. Registry!TypeOK'
    BY <1>0, <2>0, <2>1 DEF Registry!TypeOK
  <2>3. finalizer["cron"] = Registry!Idle /\ pendingKeys = {}
    BY <2>1 DEF Registry!Finalizing, Registry!Run
  <2>4. Registry!Finalizing' /\ Registry!Run'
    BY <2>1, <2>3 DEF Registry!Finalizing, Registry!Run, Registry!Busy, Registry!Idle
  <2>5. Registry!Undisturbed'
    BY <2>1 DEF Registry!Undisturbed, Registry!Present
  <2>6. Registry!ReadyWasSeen' /\ Registry!ListedFilesAreKept'
    BY <2>1 DEF Registry!ReadyWasSeen, Registry!ListedFilesAreKept
  <2> QED BY <2>2, <2>4, <2>5, <2>6
<1>9. CASE Registry!SelectPending
  <2>1. Registry!TypeOK'
    BY <1>0, <1>9 DEF Registry!SelectPending, Registry!TypeOK
  <2>2. Registry!Finalizing' /\ Registry!Run'
    BY <1>9 DEF Registry!SelectPending, Registry!Finalizing, Registry!Run, Registry!Busy
  <2>3. Registry!Undisturbed'
    BY <1>9 DEF Registry!SelectPending, Registry!Undisturbed, Registry!Present
  <2>4. Registry!ReadyWasSeen' /\ Registry!ListedFilesAreKept'
    BY <1>9 DEF Registry!SelectPending, Registry!ReadyWasSeen, Registry!ListedFilesAreKept
  <2> QED BY <2>1, <2>2, <2>3, <2>4
<1>10. CASE Registry!FinalizeNext
  <2>1. PICK f \in pendingKeys :
            /\ pendingKeys' = pendingKeys \ {f}
            /\ IF regRow[f] \in Registry!LiveRow THEN Registry!Lookup("cron", f) ELSE UNCHANGED finalizer
    BY <1>10 DEF Registry!FinalizeNext
  <2>2. /\ recon = "finalizing" /\ finalizer["cron"] = Registry!Idle
        /\ UNCHANGED <<regRow, regSize, object, recon, listing, truncated, calm, deleting,
                       there, taken, removed>>
    BY <1>10 DEF Registry!FinalizeNext
  <2>3. f \in Files /\ f \in listing
    BY <1>0 DEF Registry!TypeOK, Registry!Run
  <2>4. CASE regRow[f] \in Registry!LiveRow
    <3>1. finalizer' = [finalizer EXCEPT !["cron"] = [at |-> "found", file |-> f, size |-> 0]]
      BY <2>1, <2>4 DEF Registry!Lookup
    <3>2. finalizer' \in [{"trigger", "cron"} ->
              [at : {"idle", "found", "headed"}, file : Files \union {0}, size : 0..2]]
      BY <1>0, <2>3, <3>1 DEF Registry!TypeOK
    <3>3. finalizer'["trigger"] = finalizer["trigger"] /\ finalizer'["cron"].at = "found"
          /\ finalizer'["cron"].file = f
      BY <1>0, <3>1 DEF Registry!TypeOK
    <3>4. Registry!TypeOK'
      BY <1>0, <2>1, <2>2, <3>2 DEF Registry!TypeOK
    <3>5. Registry!Finalizing' /\ Registry!Run'
      BY <2>1, <2>2, <2>3, <3>3 DEF Registry!Finalizing, Registry!Run, Registry!Busy
    <3>6. Registry!Undisturbed'
      BY <2>1, <2>2, <3>3 DEF Registry!Undisturbed, Registry!Present, Registry!Busy,
           Registry!Idle
    <3>7. Registry!ReadyWasSeen' /\ Registry!ListedFilesAreKept'
      BY <2>2 DEF Registry!ReadyWasSeen, Registry!ListedFilesAreKept
    <3> QED BY <3>4, <3>5, <3>6, <3>7
  <2>5. CASE regRow[f] \notin Registry!LiveRow
    <3>1. UNCHANGED finalizer
      BY <2>1, <2>5
    <3>2. Registry!TypeOK'
      BY <1>0, <2>1, <2>2, <3>1 DEF Registry!TypeOK
    <3>3. Registry!Finalizing' /\ Registry!Run'
      BY <2>1, <2>2, <3>1 DEF Registry!Finalizing, Registry!Run, Registry!Busy
    <3>4. Registry!Undisturbed'
      BY <2>1, <2>2, <2>5, <3>1 DEF Registry!Undisturbed, Registry!Present, Registry!Busy,
           Registry!LiveRow
    <3>5. Registry!ReadyWasSeen' /\ Registry!ListedFilesAreKept'
      BY <2>2 DEF Registry!ReadyWasSeen, Registry!ListedFilesAreKept
    <3> QED BY <3>2, <3>3, <3>4, <3>5
  <2> QED BY <2>4, <2>5
<1>11. CASE Registry!MarkDeleted
  <2> DEFINE gone == {f \in Files \ listing : ~truncated /\ regRow[f] = "ready"}
  <2>1. /\ recon = "finalizing" /\ pendingKeys = {} /\ finalizer["cron"] = Registry!Idle
        /\ regRow' = [f \in Files |-> IF f \in gone THEN "deleted" ELSE regRow[f]]
        /\ taken' = taken \union (gone \intersect there) /\ recon' = "marked"
        /\ UNCHANGED <<regSize, object, finalizer, listing, truncated, pendingKeys, calm, deleting,
                       there, removed>>
    BY <1>11 DEF Registry!MarkDeleted, Registry!Trusts
  <2>2. gone \intersect there = {}
    BY <2>1 DEF Registry!Run
  <2>3. \A f \in Files : regRow'[f] = IF f \in gone THEN "deleted" ELSE regRow[f]
    BY <2>1
  <2> HIDE DEF gone
  <2>4. Registry!TypeOK'
    BY <1>0, <2>1, <2>2 DEF Registry!TypeOK
  <2>5. Registry!Finalizing' /\ Registry!Run'
    BY <2>1 DEF Registry!Finalizing, Registry!Run, Registry!Busy
  <2>6. Registry!Undisturbed'
    <3> SUFFICES ASSUME calm PROVE Registry!Undisturbed'
      BY <2>1 DEF Registry!Undisturbed
    <3>1. ~Registry!Busy
      BY <2>1 DEF Registry!Busy, Registry!Idle
    <3>2. listing \subseteq Files
      BY <1>0 DEF Registry!TypeOK
    <3>3. \A f \in listing : regRow'[f] # "pending"
      BY <2>1, <2>3, <3>1, <3>2 DEF Registry!Undisturbed
    <3>4. \A f \in Files : regRow'[f] = "ready" => f \in Registry!Present \/ truncated
      BY <2>1, <2>3 DEF Registry!Undisturbed, gone
    <3> QED BY <2>1, <3>3, <3>4 DEF Registry!Undisturbed, Registry!Present
  <2>7. Registry!ReadyWasSeen' /\ Registry!ListedFilesAreKept'
    BY <2>1, <2>2, <2>3 DEF Registry!ReadyWasSeen, Registry!ListedFilesAreKept
  <2> QED BY <2>4, <2>5, <2>6, <2>7
<1>12. CASE Registry!MarkAbandoned
  <2>1. PICK S \in SUBSET {f \in Files \ listing : regRow[f] = "pending"} :
            regRow' = [f \in Files |-> IF f \in S THEN "abandoned" ELSE regRow[f]]
    BY <1>12 DEF Registry!MarkAbandoned
  <2>2. /\ recon = "marked" /\ recon' = "done"
        /\ UNCHANGED <<regSize, object, finalizer, listing, truncated, pendingKeys, calm, deleting,
                       there, taken, removed>>
    BY <1>12 DEF Registry!MarkAbandoned
  <2>3. \A f \in Files : regRow'[f] = regRow[f] \/ regRow'[f] = "abandoned"
    BY <2>1
  <2>4. Registry!TypeOK'
    BY <1>0, <2>1, <2>2 DEF Registry!TypeOK
  <2>5. Registry!Finalizing' /\ Registry!Run'
    BY <2>2 DEF Registry!Finalizing, Registry!Run, Registry!Busy
  <2>6. Registry!Undisturbed'
    <3>1. listing \subseteq Files
      BY <1>0 DEF Registry!TypeOK
    <3> QED BY <2>2, <2>3, <3>1 DEF Registry!Undisturbed, Registry!Present
  <2>7. Registry!ReadyWasSeen' /\ Registry!ListedFilesAreKept'
    BY <2>2, <2>3 DEF Registry!ReadyWasSeen, Registry!ListedFilesAreKept
  <2> QED BY <2>4, <2>5, <2>6, <2>7
<1>13. CASE Registry!EndReconcile
  <2>1. /\ finalizer' = [finalizer EXCEPT !["cron"] = Registry!Idle]
        /\ recon' = "idle" /\ listing' = {} /\ truncated' = FALSE /\ pendingKeys' = {}
        /\ calm' = FALSE /\ there' = {}
        /\ UNCHANGED <<regRow, regSize, object, deleting, taken, removed>>
    BY <1>13 DEF Registry!EndReconcile
  <2>2. /\ finalizer' \in [{"trigger", "cron"} ->
              [at : {"idle", "found", "headed"}, file : Files \union {0}, size : 0..2]]
        /\ finalizer'["cron"] = Registry!Idle /\ finalizer'["trigger"] = finalizer["trigger"]
    <3>1. Registry!Idle \in [at : {"idle", "found", "headed"}, file : Files \union {0}, size : 0..2]
      BY DEF Registry!Idle
    <3> QED BY <1>0, <2>1, <3>1 DEF Registry!TypeOK
  <2>3. Registry!TypeOK'
    BY <1>0, <2>1, <2>2 DEF Registry!TypeOK
  <2>4. Registry!Finalizing' /\ Registry!Run' /\ Registry!Undisturbed'
    BY <2>1, <2>2 DEF Registry!Finalizing, Registry!Run, Registry!Undisturbed, Registry!Busy,
         Registry!Idle
  <2>5. Registry!ReadyWasSeen' /\ Registry!ListedFilesAreKept'
    BY <2>1 DEF Registry!ReadyWasSeen, Registry!ListedFilesAreKept
  <2> QED BY <2>3, <2>4, <2>5
<1>14. CASE UNCHANGED Registry!vars
  <2>1. Registry!TypeOK'
    BY <1>0, <1>14 DEF Registry!vars, Registry!TypeOK, Registry!reconVars
  <2>2. Registry!Finalizing' /\ Registry!Run' /\ Registry!Undisturbed'
    BY <1>14 DEF Registry!vars, Registry!Finalizing, Registry!Run, Registry!Undisturbed,
         Registry!Busy, Registry!Present
  <2>3. Registry!ReadyWasSeen' /\ Registry!ListedFilesAreKept'
    BY <1>14 DEF Registry!vars, Registry!ReadyWasSeen, Registry!ListedFilesAreKept
  <2> QED BY <2>1, <2>2, <2>3
<1> QED
  BY <1>0, <1>1, <1>2, <1>3, <1>4, <1>5, <1>6, <1>7, <1>8, <1>9, <1>10, <1>11, <1>12, <1>13,
       <1>14
  DEF Registry!Next

\* Late and doubled triggers, deletions and reconcile runs: what is ready was seen within the
\* limit, an undisturbed run leaves the truth, and no run takes a file that was there.
LEMMA RegistryHolds == Registry!Spec => []Registry!Safety
<1>1. Registry!Init => Registry!IInv
  BY RegistryInitHolds
<1>2. Registry!IInv /\ [Registry!Next]_(Registry!vars) => Registry!IInv'
  BY RegistryStepHolds
<1>3. Registry!IInv => Registry!Safety
  BY DEF Registry!IInv, Registry!Safety, Registry!Undisturbed, Registry!ReconciledIsTrue
<1> QED BY <1>1, <1>2, <1>3, PTL DEF Registry!Spec

-----------------------------------------------------------------------------
(* IngestRouter                                                            *)

LEMMA IngestInitHolds == ASSUME Ingest!Init PROVE Ingest!IInv
<1> USE DEF Ingest!Init, Ingest!Free
<1>1. Ingest!TypeOK
  <2>1. dispatcher \in [{"event", "run"} ->
           [at : {"idle", "seen", "claimed"}, key : Ingest!Keys \union {0}, etag : UploadEtags \union {0},
            jobs : SUBSET Ingest!Types]]
    OBVIOUS
  <2> QED BY <2>1 DEF Ingest!TypeOK
<1>2. Ingest!Working /\ Ingest!Scanned
  BY DEF Ingest!Working, Ingest!Scanned
<1>3. Ingest!OneClaim /\ Ingest!EnqueuedOnce
  BY DEF Ingest!OneClaim, Ingest!Claimed, Ingest!EnqueuedOnce, Ingest!TypeOK
<1> QED BY <1>1, <1>2, <1>3 DEF Ingest!IInv

LEMMA IngestDispatcherChange ==
    ASSUME NEW d \in Ingest!Dispatcher, NEW k \in Ingest!Keys, NEW e \in UploadEtags, NEW S \in SUBSET Ingest!Types
    PROVE  /\ Ingest!Free \in Ingest!Dispatcher
           /\ [at |-> "seen", key |-> k, etag |-> e, jobs |-> {}] \in Ingest!Dispatcher
           /\ [d EXCEPT !.at = "claimed", !.jobs = S] \in Ingest!Dispatcher
           /\ [d EXCEPT !.jobs = S] \in Ingest!Dispatcher
BY DEF Ingest!Dispatcher, Ingest!Free

\* The steps of a dispatcher that touches neither the rows nor the jobs.
LEMMA IngestQuietStep ==
    ASSUME Ingest!IInv, Ingest!TypeOK', Ingest!Scanned', UNCHANGED <<dispatched, enqueued>>,
           NEW p \in {"event", "run"},
           \A q \in {"event", "run"} \ {p} : dispatcher'[q] = dispatcher[q],
           \/ dispatcher'[p] = dispatcher[p] \/ dispatcher'[p].at = "idle"
           \/ /\ dispatcher'[p].at = "seen" /\ dispatcher'[p].jobs = {}
              /\ dispatcher'[p].key \in Uploads /\ dispatcher'[p].etag \in UploadEtags
    PROVE  Ingest!IInv'
<1> USE DEF Ingest!IInv
<1>1. Ingest!Working'
  BY DEF Ingest!Working
<1>2. \A q \in {"event", "run"}, v \in Ingest!Versions :
         Ingest!Claimed(q, v)' => Ingest!Claimed(q, v) /\ dispatcher'[q] = dispatcher[q]
  BY DEF Ingest!Claimed
<1>3. Ingest!OneClaim'
  BY <1>2 DEF Ingest!OneClaim
<1>4. Ingest!EnqueuedOnce'
  BY DEF Ingest!EnqueuedOnce
<1> QED BY <1>1, <1>3, <1>4

\* The row of a version that a dispatcher has at HEAD, or finds taken.
LEMMA IngestBeginStep ==
    ASSUME Ingest!IInv, NEW p \in {"event", "run"}, NEW k \in Ingest!Keys, Ingest!Begin(p, k), Ingest!Scanned',
           UNCHANGED <<stored, enqueued, active, scanning>>, scan' \subseteq scan,
           settled' \in BOOLEAN
    PROVE  Ingest!IInv'
<1> USE DEF Ingest!IInv
<1> DEFINE v == <<k, stored[k]>>
<1>0. Ingest!TypeOK /\ dispatcher \in [{"event", "run"} -> Ingest!Dispatcher]
  BY DEF Ingest!TypeOK, Ingest!Dispatcher
<1>1. k \in Uploads /\ stored[k] \in UploadEtags /\ v \in Ingest!Versions /\ dispatcher[p].at = "idle"
  BY <1>0 DEF Ingest!Begin, Ingest!Passes, Ingest!TypeOK, Ingest!Keys, Ingest!Versions
<1>2. CASE v \in TooBig
  <2>1. dispatched' = [dispatched EXCEPT ![v] = "rejected"] /\ UNCHANGED dispatcher
    BY <1>2 DEF Ingest!Begin
  <2>2. Ingest!TypeOK'
    BY <1>0, <1>1, <2>1 DEF Ingest!TypeOK
  <2>3. \A x \in Ingest!Versions : dispatched'[x] = "none" => dispatched[x] = "none"
    BY <1>0, <1>1, <2>1 DEF Ingest!TypeOK
  <2>4. \A x \in Ingest!Versions : dispatched[x] # "none" => dispatched'[x] # "none"
    BY <1>0, <1>1, <2>1 DEF Ingest!TypeOK
  <2>5. Ingest!Working' /\ Ingest!EnqueuedOnce'
    BY <2>1 DEF Ingest!Working, Ingest!EnqueuedOnce
  <2>6. Ingest!OneClaim'
    BY <2>1, <2>3, <2>4 DEF Ingest!OneClaim, Ingest!Claimed
  <2> QED BY <2>2, <2>5, <2>6
<1>3. CASE v \notin TooBig
  <2> DEFINE d == [at |-> "seen", key |-> k, etag |-> stored[k], jobs |-> {}]
  <2>1. dispatcher' = [dispatcher EXCEPT ![p] = d] /\ UNCHANGED dispatched
    BY <1>3 DEF Ingest!Begin
  <2>2. /\ dispatcher' \in [{"event", "run"} -> Ingest!Dispatcher] /\ dispatcher'[p] = d
        /\ \A q \in {"event", "run"} \ {p} : dispatcher'[q] = dispatcher[q]
    <3>1. d \in Ingest!Dispatcher
      BY <1>0, <1>1, IngestDispatcherChange
    <3> QED BY <1>0, <2>1, <3>1
  <2>3. Ingest!TypeOK'
    BY <1>0, <2>1, <2>2 DEF Ingest!TypeOK, Ingest!Dispatcher
  <2>4. d.at = "seen" /\ d.key = k /\ d.etag = stored[k] /\ d.jobs = {}
    OBVIOUS
  <2> HIDE DEF d
  <2> QED BY <1>1, <2>1, <2>2, <2>3, <2>4, IngestQuietStep
<1> QED BY <1>2, <1>3

LEMMA IngestStepHolds == ASSUME Ingest!IInv, [Ingest!Next]_(Ingest!vars) PROVE Ingest!IInv'
<1> USE DEF Ingest!IInv
<1>0. Ingest!TypeOK /\ DOMAIN dispatcher = {"event", "run"} /\ dispatcher \in [{"event", "run"} -> Ingest!Dispatcher]
  BY DEF Ingest!TypeOK, Ingest!Dispatcher
<1>1. ASSUME NEW k \in Uploads, Ingest!Upload(k) PROVE Ingest!IInv'
  <2>1. /\ stored' = [stored EXCEPT ![k] = @ + 1] /\ stored[k] + 1 \in UploadEtags /\ settled' = FALSE
        /\ UNCHANGED <<dispatched, dispatcher, enqueued, active, scan, scanning>>
    BY <1>1 DEF Ingest!Upload
  <2>2. Ingest!TypeOK'
    BY <1>0, <2>1 DEF Ingest!TypeOK
  <2>3. Ingest!Working' /\ Ingest!EnqueuedOnce'
    BY <2>1 DEF Ingest!Working, Ingest!EnqueuedOnce
  <2>4. Ingest!OneClaim'
    BY <2>1 DEF Ingest!OneClaim, Ingest!Claimed
  <2>5. Ingest!Scanned'
    BY <2>1 DEF Ingest!Scanned
  <2> QED BY <2>2, <2>3, <2>4, <2>5
<1>2. ASSUME NEW k \in Ingest!Keys, Ingest!Event(k) PROVE Ingest!IInv'
  <2>1. /\ Ingest!Begin("event", k) /\ settled' = FALSE
        /\ UNCHANGED <<stored, enqueued, active, scan, scanning>>
    BY <1>2 DEF Ingest!Event
  <2>2. dispatcher'["run"] = dispatcher["run"]
    BY <1>0, <2>1 DEF Ingest!Begin, Ingest!TypeOK
  <2>3. Ingest!Scanned'
    BY <2>1, <2>2 DEF Ingest!Scanned
  <2> QED BY <2>1, <2>3, IngestBeginStep
<1>3. ASSUME NEW p \in {"event", "run"}, Ingest!Claim(p) PROVE Ingest!IInv'
  <2> DEFINE d == dispatcher[p]
             v == <<d.key, d.etag>>
  <2>1. /\ d.at = "seen" /\ d.key \in Uploads /\ d.etag \in UploadEtags /\ d \in Ingest!Dispatcher
        /\ v \in Ingest!Versions
    BY <1>0, <1>3 DEF Ingest!Claim, Ingest!Working, Ingest!Versions, Ingest!Keys
  <2>2. /\ settled' \in BOOLEAN /\ (settled' => settled /\ p = "run")
        /\ UNCHANGED <<stored, enqueued, active, scan, scanning>>
    BY <1>3 DEF Ingest!Claim
  <2>3. CASE Ingest!Taken(d.key, d.etag)
    <3>1. dispatcher' = [dispatcher EXCEPT ![p] = Ingest!Free] /\ UNCHANGED dispatched
      BY <1>3, <2>3 DEF Ingest!Claim
    <3>2. /\ dispatcher' \in [{"event", "run"} -> Ingest!Dispatcher] /\ dispatcher'[p] = Ingest!Free
          /\ \A q \in {"event", "run"} \ {p} : dispatcher'[q] = dispatcher[q]
      <4>1. Ingest!Free \in Ingest!Dispatcher
        BY DEF Ingest!Free, Ingest!Dispatcher
      <4> QED BY <1>0, <3>1, <4>1
    <3>3. Ingest!Free.at = "idle"
      BY DEF Ingest!Free
    <3>4. Ingest!TypeOK'
      BY <1>0, <2>2, <3>1, <3>2 DEF Ingest!TypeOK, Ingest!Dispatcher
    <3>5. Ingest!Scanned'
      <4>1. ~scanning => UNCHANGED <<scan, dispatcher>> \/ p = "event"
        BY <2>1 DEF Ingest!Scanned, Ingest!Free
      <4>2. CASE ~scanning
        BY <2>1, <2>2, <3>2, <4>1, <4>2 DEF Ingest!Scanned, Ingest!Free
      <4>3. CASE settled' /\ scanning
        <5>1. settled /\ p = "run" /\ dispatcher'["event"] = Ingest!Free
          BY <2>2, <3>2, <4>3 DEF Ingest!Scanned
        <5>2. dispatched[<<d.key, d.etag>>] # "none"
          BY <2>3 DEF Ingest!Taken
        <5>3. Ingest!Listing' = Ingest!Listing
          BY <2>2 DEF Ingest!Listing
        <5> QED BY <2>2, <3>1, <4>3, <5>1, <5>2, <5>3 DEF Ingest!Scanned
      <4> QED BY <2>2, <4>2, <4>3 DEF Ingest!Scanned
    <3> QED BY <2>2, <3>1, <3>2, <3>3, <3>4, <3>5, IngestQuietStep
  <2>4. CASE ~Ingest!Taken(d.key, d.etag)
    <3>1. /\ dispatched' = [dispatched EXCEPT ![v] = "routed"]
          /\ dispatcher' = [dispatcher EXCEPT ![p].at = "claimed", ![p].jobs = Ingest!RoutesOf(d.key)]
          /\ dispatched[v] = "none"
      BY <1>3, <2>4 DEF Ingest!Claim, Ingest!Taken
    <3>2. Ingest!RoutesOf(d.key) = Routes[d.key] /\ Ingest!RoutesOf(d.key) \in SUBSET Ingest!Types
      BY <2>1 DEF Ingest!RoutesOf, Ingest!Types
    <3>3. /\ dispatcher' \in [{"event", "run"} -> Ingest!Dispatcher]
          /\ dispatcher'[p].at = "claimed" /\ dispatcher'[p].jobs = Routes[d.key]
          /\ dispatcher'[p].key = d.key /\ dispatcher'[p].etag = d.etag
          /\ \A q \in {"event", "run"} \ {p} : dispatcher'[q] = dispatcher[q]
      <4>1. dispatcher' = [dispatcher EXCEPT ![p] = [d EXCEPT !.at = "claimed", !.jobs = Ingest!RoutesOf(d.key)]]
        BY <1>0, <3>1
      <4>2. [d EXCEPT !.at = "claimed", !.jobs = Ingest!RoutesOf(d.key)] \in Ingest!Dispatcher
        BY <2>1, <3>2 DEF Ingest!Dispatcher
      <4>3. dispatcher' \in [{"event", "run"} -> Ingest!Dispatcher]
        BY <1>0, <4>1, <4>2
      <4> QED BY <1>0, <2>1, <3>2, <4>1, <4>3 DEF Ingest!Dispatcher
    <3>4. /\ dispatched'[v] = "routed"
          /\ \A x \in Ingest!Versions \ {v} : dispatched'[x] = dispatched[x]
      BY <1>0, <2>1, <3>1 DEF Ingest!TypeOK
    <3>5. Ingest!TypeOK'
      <4>1. dispatched' \in [Ingest!Versions -> {"none", "routed", "unrouted", "rejected"}]
        BY <1>0, <2>1, <3>1 DEF Ingest!TypeOK
      <4> QED BY <1>0, <2>2, <3>3, <4>1 DEF Ingest!TypeOK, Ingest!Dispatcher
    <3>6. Ingest!Working'
      BY <2>1, <3>3 DEF Ingest!Working
    <3>7. /\ \A q \in {"event", "run"} : ~Ingest!Claimed(q, v)
          /\ \A t \in Ingest!Types : enqueued[<<v, t>>] = 0
      BY <2>1, <3>1 DEF Ingest!OneClaim
    <3>8. \A q \in {"event", "run"}, x \in Ingest!Versions : Ingest!Claimed(q, x)' <=>
             IF q = p THEN x = v ELSE Ingest!Claimed(q, x)
      BY <3>3 DEF Ingest!Claimed
    <3>9. Ingest!OneClaim'
      <4>1. \A x \in Ingest!Versions : Ingest!Claimed("event", x)' => ~Ingest!Claimed("run", x)'
        BY <3>7, <3>8, <2>1 DEF Ingest!OneClaim
      <4>2. ASSUME NEW q \in {"event", "run"}, NEW x \in Ingest!Versions, Ingest!Claimed(q, x)'
            PROVE  dispatched'[x] # "none" /\ \A t \in dispatcher'[q].jobs : enqueued'[<<x, t>>] = 0
        <5>1. CASE q = p
          BY <2>2, <3>2, <3>3, <3>4, <3>7, <3>8, <4>2, <5>1
        <5>2. CASE q # p
          BY <2>2, <3>3, <3>4, <3>7, <3>8, <4>2, <5>2 DEF Ingest!OneClaim
        <5> QED BY <5>1, <5>2
      <4>3. \A x \in Ingest!Versions : dispatched'[x] = "none" => dispatched[x] = "none"
        BY <3>4
      <4> QED BY <2>2, <4>1, <4>2, <4>3 DEF Ingest!OneClaim
    <3>10. Ingest!EnqueuedOnce'
      BY <2>2 DEF Ingest!EnqueuedOnce
    <3>11. Ingest!Scanned'
      <4>1. CASE ~scanning
        BY <2>1, <2>2, <3>3, <4>1 DEF Ingest!Scanned, Ingest!Free
      <4>2. CASE settled' /\ scanning
        <5>1. settled /\ p = "run" /\ dispatcher'["event"] = Ingest!Free
          BY <2>2, <3>3, <4>2 DEF Ingest!Scanned
        <5>2. Ingest!Listing' = Ingest!Listing
          BY <2>2 DEF Ingest!Listing
        <5>3. \A k \in Ingest!Listing : stored[k] \in UploadEtags /\ <<k, stored[k]>> \in Ingest!Versions
          BY <1>0 DEF Ingest!Listing, Ingest!TypeOK, Ingest!Versions, Ingest!Keys
        <5> QED BY <2>2, <3>3, <3>4, <4>2, <5>1, <5>2, <5>3 DEF Ingest!Scanned
      <4> QED BY <2>2, <4>1, <4>2 DEF Ingest!Scanned
    <3> QED BY <3>5, <3>6, <3>9, <3>10, <3>11
  <2> QED BY <2>3, <2>4
<1>4. ASSUME NEW p \in {"event", "run"}, Ingest!Enqueue(p) PROVE Ingest!IInv'
  <2> DEFINE d == dispatcher[p]
             v == <<d.key, d.etag>>
  <2>1. /\ d.at = "claimed" /\ d.key \in Uploads /\ d.etag \in UploadEtags /\ d \in Ingest!Dispatcher
        /\ v \in Ingest!Versions /\ Ingest!Claimed(p, v) /\ d.jobs \subseteq Routes[d.key]
    BY <1>0, <1>4 DEF Ingest!Enqueue, Ingest!Working, Ingest!Versions, Ingest!Keys,
         Ingest!Claimed
  <2>2. PICK t \in d.jobs :
            /\ active' = active \union {<<v, t>>}
            /\ enqueued' = [enqueued EXCEPT ![<<v, t>>] = @ + IF <<v, t>> \in active THEN 0 ELSE 1]
            /\ dispatcher' = [dispatcher EXCEPT ![p].jobs = @ \ {t}]
    BY <1>4 DEF Ingest!Enqueue
  <2>3. /\ settled' \in BOOLEAN /\ (settled' => settled /\ p = "run")
        /\ UNCHANGED <<stored, dispatched, scan, scanning>>
    BY <1>4 DEF Ingest!Enqueue
  <2>4. t \in Ingest!Types /\ <<v, t>> \in Ingest!Versions \X Ingest!Types /\ t \in Routes[d.key]
    BY <2>1, <2>2 DEF Ingest!Types
  <2>5. /\ dispatcher' \in [{"event", "run"} -> Ingest!Dispatcher]
        /\ dispatcher'[p].at = "claimed" /\ dispatcher'[p].jobs = d.jobs \ {t}
        /\ dispatcher'[p].key = d.key /\ dispatcher'[p].etag = d.etag
        /\ \A q \in {"event", "run"} \ {p} : dispatcher'[q] = dispatcher[q]
    <3>1. dispatcher' = [dispatcher EXCEPT ![p] = [d EXCEPT !.jobs = d.jobs \ {t}]]
      BY <1>0, <2>2
    <3>2. [d EXCEPT !.jobs = d.jobs \ {t}] \in Ingest!Dispatcher
      BY <2>1 DEF Ingest!Dispatcher
    <3>3. dispatcher' \in [{"event", "run"} -> Ingest!Dispatcher]
      BY <1>0, <3>1, <3>2
    <3> QED BY <1>0, <2>1, <3>1, <3>3 DEF Ingest!Dispatcher
  <2>6. /\ enqueued[<<v, t>>] = 0 /\ enqueued'[<<v, t>>] \in {0, 1}
        /\ \A x \in Ingest!Versions, u \in Ingest!Types :
              <<x, u>> # <<v, t>> => enqueued'[<<x, u>>] = enqueued[<<x, u>>]
        /\ enqueued' \in [Ingest!Versions \X Ingest!Types -> Nat]
    <3>1. enqueued[<<v, t>>] = 0
      BY <2>1, <2>2 DEF Ingest!OneClaim
    <3> QED BY <1>0, <2>2, <2>4, <3>1 DEF Ingest!TypeOK
  <2>7. Ingest!TypeOK'
    BY <1>0, <2>2, <2>3, <2>4, <2>5, <2>6 DEF Ingest!TypeOK, Ingest!Dispatcher
  <2>8. Ingest!Working'
    BY <2>1, <2>5 DEF Ingest!Working
  <2>9. \A q \in {"event", "run"}, x \in Ingest!Versions : Ingest!Claimed(q, x)' <=> Ingest!Claimed(q, x)
    BY <2>1, <2>5 DEF Ingest!Claimed
  <2>10. dispatched[v] # "none"
    BY <2>1 DEF Ingest!OneClaim
  <2>11. Ingest!OneClaim'
    <3>1. ASSUME NEW q \in {"event", "run"}, NEW x \in Ingest!Versions, Ingest!Claimed(q, x)',
                 NEW u \in dispatcher'[q].jobs
          PROVE  enqueued'[<<x, u>>] = 0
      <4>0. u \in Ingest!Types
        BY <2>5, <3>1 DEF Ingest!Dispatcher
      <4>1. CASE q = p
        <5>1. x = v /\ u \in d.jobs /\ u # t
          BY <2>1, <2>5, <2>9, <3>1, <4>1 DEF Ingest!Claimed
        <5> QED BY <2>1, <2>6, <4>0, <5>1 DEF Ingest!OneClaim
      <4>2. CASE q # p
        <5>1. Ingest!Claimed(q, x) /\ x # v /\ u \in dispatcher[q].jobs
          BY <2>1, <2>5, <2>9, <3>1, <4>2 DEF Ingest!OneClaim
        <5> QED BY <2>6, <4>0, <5>1 DEF Ingest!OneClaim
      <4> QED BY <4>1, <4>2
    <3>2. ASSUME NEW x \in Ingest!Versions, dispatched[x] = "none", NEW u \in Ingest!Types
          PROVE  enqueued'[<<x, u>>] = 0
      BY <2>6, <2>10, <3>2 DEF Ingest!OneClaim
    <3> QED BY <2>3, <2>9, <3>1, <3>2 DEF Ingest!OneClaim
  <2>12. Ingest!EnqueuedOnce'
    <3>1. ASSUME NEW x \in Ingest!Versions, NEW u \in Ingest!Types
          PROVE  enqueued'[<<x, u>>] <= IF x[1] \in Uploads /\ u \in Routes[x[1]] THEN 1 ELSE 0
      <4>1. CASE <<x, u>> = <<v, t>>
        <5>1. x = v /\ u = t /\ x[1] = d.key
          BY <4>1
        <5> QED BY <2>1, <2>4, <2>6, <5>1
      <4>2. CASE <<x, u>> # <<v, t>>
        BY <2>6, <4>2 DEF Ingest!EnqueuedOnce
      <4> QED BY <4>1, <4>2
    <3> QED BY <3>1 DEF Ingest!EnqueuedOnce
  <2>13. Ingest!Scanned'
    <3>1. ~scanning => p # "run"
      BY <2>1 DEF Ingest!Scanned, Ingest!Free
    <3>2. settled' /\ scanning => settled /\ p = "run" /\ dispatcher'["event"] = Ingest!Free
      BY <2>3, <2>5 DEF Ingest!Scanned
    <3>3. Ingest!Listing' = Ingest!Listing
      BY <2>3 DEF Ingest!Listing
    <3> QED BY <2>1, <2>3, <2>5, <3>1, <3>2, <3>3 DEF Ingest!Scanned
  <2> QED BY <2>7, <2>8, <2>11, <2>12, <2>13
<1>5. ASSUME NEW p \in {"event", "run"}, Ingest!Record(p) PROVE Ingest!IInv'
  <2> DEFINE d == dispatcher[p]
             v == <<d.key, d.etag>>
  <2>1. /\ d.at = "claimed" /\ d.key \in Uploads /\ d.etag \in UploadEtags /\ d \in Ingest!Dispatcher
        /\ v \in Ingest!Versions /\ Ingest!Claimed(p, v)
    BY <1>0, <1>5 DEF Ingest!Record, Ingest!Working, Ingest!Versions, Ingest!Keys,
         Ingest!Claimed
  <2>2. PICK s \in {"unrouted", "routed"} : dispatched' = [dispatched EXCEPT ![v] = s]
    BY <1>5 DEF Ingest!Record
  <2>3. /\ settled' \in BOOLEAN /\ (settled' => settled /\ p = "run")
        /\ dispatcher' = [dispatcher EXCEPT ![p] = Ingest!Free]
        /\ UNCHANGED <<stored, enqueued, active, scan, scanning>>
    BY <1>5 DEF Ingest!Record
  <2>4. /\ dispatcher' \in [{"event", "run"} -> Ingest!Dispatcher] /\ dispatcher'[p] = Ingest!Free
        /\ \A q \in {"event", "run"} \ {p} : dispatcher'[q] = dispatcher[q]
    <3>1. Ingest!Free \in Ingest!Dispatcher
      BY DEF Ingest!Free, Ingest!Dispatcher
    <3> QED BY <1>0, <2>3, <3>1
  <2>5. /\ dispatched' \in [Ingest!Versions -> {"none", "routed", "unrouted", "rejected"}]
        /\ dispatched'[v] # "none"
        /\ \A x \in Ingest!Versions \ {v} : dispatched'[x] = dispatched[x]
    BY <1>0, <2>1, <2>2 DEF Ingest!TypeOK
  <2>6. Ingest!TypeOK'
    BY <1>0, <2>3, <2>4, <2>5 DEF Ingest!TypeOK, Ingest!Dispatcher
  <2>7. Ingest!Working' /\ Ingest!EnqueuedOnce'
    BY <2>3, <2>4 DEF Ingest!Working, Ingest!EnqueuedOnce, Ingest!Free
  <2>8. \A q \in {"event", "run"}, x \in Ingest!Versions :
           Ingest!Claimed(q, x)' => Ingest!Claimed(q, x) /\ dispatcher'[q] = dispatcher[q]
    BY <2>4 DEF Ingest!Claimed, Ingest!Free
  <2>9. Ingest!OneClaim'
    BY <2>3, <2>5, <2>8 DEF Ingest!OneClaim
  <2>10. Ingest!Scanned'
    <3>1. ~scanning => p # "run"
      BY <2>1 DEF Ingest!Scanned, Ingest!Free
    <3>2. settled' /\ scanning => settled /\ p = "run" /\ dispatcher'["event"] = Ingest!Free
      BY <2>3, <2>4 DEF Ingest!Scanned
    <3>3. Ingest!Listing' = Ingest!Listing
      BY <2>3 DEF Ingest!Listing
    <3>4. \A k \in Ingest!Listing : <<k, stored[k]>> \in Ingest!Versions
      BY <1>0 DEF Ingest!Listing, Ingest!TypeOK, Ingest!Versions, Ingest!Keys
    <3> QED BY <2>1, <2>3, <2>4, <2>5, <3>1, <3>2, <3>3, <3>4 DEF Ingest!Scanned
  <2> QED BY <2>6, <2>7, <2>9, <2>10
<1>6. ASSUME NEW p \in {"event", "run"}, Ingest!Fail(p) PROVE Ingest!IInv'
  <2>1. /\ dispatcher' = [dispatcher EXCEPT ![p] = Ingest!Free] /\ settled' = FALSE
        /\ UNCHANGED <<stored, dispatched, enqueued, active, scan, scanning>>
    BY <1>6 DEF Ingest!Fail
  <2>2. /\ dispatcher' \in [{"event", "run"} -> Ingest!Dispatcher] /\ dispatcher'[p] = Ingest!Free
        /\ \A q \in {"event", "run"} \ {p} : dispatcher'[q] = dispatcher[q]
    <3>1. Ingest!Free \in Ingest!Dispatcher
      BY DEF Ingest!Free, Ingest!Dispatcher
    <3> QED BY <1>0, <2>1, <3>1
  <2>3. Ingest!Free.at = "idle"
    BY DEF Ingest!Free
  <2>4. Ingest!TypeOK'
    BY <1>0, <2>1, <2>2 DEF Ingest!TypeOK, Ingest!Dispatcher
  <2>5. Ingest!Scanned'
    BY <2>1, <2>2 DEF Ingest!Scanned
  <2> QED BY <2>1, <2>2, <2>3, <2>4, <2>5, IngestQuietStep
<1>7. ASSUME NEW j \in active, Ingest!Handle(j) PROVE Ingest!IInv'
  <2>1. j \in Ingest!Versions \X Ingest!Types /\ j[1][1] \in Ingest!Keys /\ j[1][2] \in UploadEtags
    BY <1>0 DEF Ingest!TypeOK, Ingest!Versions
  <2>2. /\ settled' = FALSE /\ active' = active \ {j}
        /\ UNCHANGED <<dispatched, dispatcher, enqueued, scan, scanning>>
    BY <1>7 DEF Ingest!Handle
  <2>3. stored' \in [Ingest!Keys -> UploadEtags \union {0}]
    <3> DEFINE k == IF j[1][1] \in Uploads THEN Ingest!Derivative(j[1][1]) ELSE j[1][1]
    <3>1. stored' = [stored EXCEPT ![k] = j[1][2]]
      BY <1>7 DEF Ingest!Handle
    <3> QED BY <1>0, <2>1, <3>1 DEF Ingest!TypeOK
  <2>4. Ingest!TypeOK'
    BY <1>0, <2>2, <2>3 DEF Ingest!TypeOK
  <2>5. Ingest!Working' /\ Ingest!EnqueuedOnce'
    BY <2>2 DEF Ingest!Working, Ingest!EnqueuedOnce
  <2>6. Ingest!OneClaim'
    BY <2>2 DEF Ingest!OneClaim, Ingest!Claimed
  <2>7. Ingest!Scanned'
    BY <2>2 DEF Ingest!Scanned
  <2> QED BY <2>4, <2>5, <2>6, <2>7
<1>8. CASE Ingest!List
  <2>1. /\ ~scanning /\ scanning' = TRUE
        /\ scan' = {v \in {<<k, stored[k]>> : k \in Ingest!Listing} : dispatched[v] = "none"}
        /\ settled' \in BOOLEAN /\ (settled' => dispatcher["event"] = Ingest!Free)
        /\ UNCHANGED <<stored, dispatched, dispatcher, enqueued, active>>
    BY <1>8 DEF Ingest!List
  <2>2. \A k \in Ingest!Listing : <<k, stored[k]>> \in Ingest!Versions /\ k \in Uploads
    BY <1>0 DEF Ingest!Listing, Ingest!TypeOK, Ingest!Versions, Ingest!Keys
  <2>3. Ingest!TypeOK'
    BY <1>0, <2>1, <2>2 DEF Ingest!TypeOK
  <2>4. Ingest!Working' /\ Ingest!EnqueuedOnce'
    BY <2>1 DEF Ingest!Working, Ingest!EnqueuedOnce
  <2>5. Ingest!OneClaim'
    BY <2>1 DEF Ingest!OneClaim, Ingest!Claimed
  <2>6. Ingest!Scanned'
    <3>1. Ingest!Listing' = Ingest!Listing
      BY <2>1 DEF Ingest!Listing
    <3>2. \A v \in scan' : v[2] = stored[v[1]]
      BY <2>1
    <3>3. \A k \in Ingest!Listing : dispatched[<<k, stored[k]>>] # "none" \/ <<k, stored[k]>> \in scan'
      BY <2>1
    <3> QED BY <2>1, <3>1, <3>2, <3>3 DEF Ingest!Scanned
  <2> QED BY <2>3, <2>4, <2>5, <2>6
<1>9. CASE Ingest!DispatchNext
  <2>1. PICK v \in scan : Ingest!Begin("run", v[1]) /\ scan' = scan \ {v}
    BY <1>9 DEF Ingest!DispatchNext
  <2>2. /\ dispatcher["run"] = Ingest!Free
        /\ UNCHANGED <<stored, enqueued, active, scanning, settled>>
    BY <1>9 DEF Ingest!DispatchNext
  <2>3. v \in Ingest!Versions /\ v[1] \in Ingest!Keys /\ v = <<v[1], v[2]>> /\ scanning
    BY <1>0 DEF Ingest!TypeOK, Ingest!Versions, Ingest!Scanned
  <2>4. dispatcher'["event"] = dispatcher["event"]
    BY <1>0, <2>1 DEF Ingest!Begin, Ingest!TypeOK
  <2>5. Ingest!Scanned'
    <3>1. CASE settled
      <4> DEFINE k == v[1]
      <4>1. v = <<k, stored[k]>>
        BY <2>3, <3>1 DEF Ingest!Scanned
      <4>2. stored[k] \in UploadEtags /\ v \in Ingest!Versions
        BY <1>0, <2>1, <2>3 DEF Ingest!Begin, Ingest!TypeOK
      <4>3. Ingest!Listing' = Ingest!Listing
        BY <2>2 DEF Ingest!Listing
      <4>4. CASE v \in TooBig
        <5>1. dispatched' = [dispatched EXCEPT ![v] = "rejected"] /\ UNCHANGED dispatcher
          BY <2>1, <4>1, <4>4 DEF Ingest!Begin
        <5>2. dispatched'[v] # "none" /\ \A x \in Ingest!Versions : dispatched[x] # "none" => dispatched'[x] # "none"
          BY <1>0, <4>2, <5>1 DEF Ingest!TypeOK
        <5>3. \A m \in Ingest!Listing : <<m, stored[m]>> \in Ingest!Versions
          BY <1>0 DEF Ingest!Listing, Ingest!TypeOK, Ingest!Versions, Ingest!Keys
        <5> QED BY <2>1, <2>2, <2>3, <3>1, <4>1, <4>3, <5>1, <5>2, <5>3 DEF Ingest!Scanned
      <4>5. CASE v \notin TooBig
        <5>1. UNCHANGED dispatched
          BY <2>1, <4>1, <4>5 DEF Ingest!Begin
        <5>2. dispatcher' = [dispatcher EXCEPT !["run"] =
                                 [at |-> "seen", key |-> k, etag |-> stored[k], jobs |-> {}]]
          BY <2>1, <4>1, <4>5 DEF Ingest!Begin
        <5>3. /\ dispatcher'["run"].at = "seen" /\ dispatcher'["run"].key = k
              /\ dispatcher'["run"].etag = stored[k]
          BY <1>0, <5>2
        <5>4. ~(dispatcher["run"].at = "seen")
          BY <2>2 DEF Ingest!Free
        <5> QED BY <2>1, <2>2, <2>3, <2>4, <3>1, <4>1, <4>3, <5>1, <5>3, <5>4 DEF Ingest!Scanned
      <4> QED BY <4>4, <4>5
    <3>2. CASE ~settled
      BY <2>2, <2>3, <3>2 DEF Ingest!Scanned
    <3> QED BY <3>1, <3>2
  <2> QED BY <1>0, <2>1, <2>2, <2>3, <2>5, IngestBeginStep DEF Ingest!TypeOK
<1>10. CASE Ingest!EndRun
  <2>1. /\ dispatcher' = [dispatcher EXCEPT !["run"] = Ingest!Free] /\ settled' = FALSE
        /\ scanning' = FALSE /\ scan' = {}
        /\ UNCHANGED <<stored, dispatched, enqueued, active>>
    BY <1>10 DEF Ingest!EndRun
  <2>2. /\ dispatcher' \in [{"event", "run"} -> Ingest!Dispatcher] /\ dispatcher'["run"] = Ingest!Free
        /\ \A q \in {"event", "run"} \ {"run"} : dispatcher'[q] = dispatcher[q]
    <3>1. Ingest!Free \in Ingest!Dispatcher
      BY DEF Ingest!Free, Ingest!Dispatcher
    <3> QED BY <1>0, <2>1, <3>1
  <2>3. Ingest!Free.at = "idle"
    BY DEF Ingest!Free
  <2>4. Ingest!TypeOK'
    BY <1>0, <2>1, <2>2 DEF Ingest!TypeOK, Ingest!Dispatcher
  <2>5. Ingest!Scanned'
    BY <2>1, <2>2 DEF Ingest!Scanned
  <2> QED BY <2>1, <2>2, <2>3, <2>4, <2>5, IngestQuietStep
<1>11. CASE UNCHANGED Ingest!vars
  <2>1. Ingest!TypeOK'
    BY <1>0, <1>11 DEF Ingest!vars, Ingest!TypeOK
  <2>2. Ingest!Working' /\ Ingest!EnqueuedOnce'
    BY <1>11 DEF Ingest!vars, Ingest!Working, Ingest!EnqueuedOnce
  <2>3. Ingest!OneClaim'
    BY <1>11 DEF Ingest!vars, Ingest!OneClaim, Ingest!Claimed
  <2>4. Ingest!Scanned'
    BY <1>11 DEF Ingest!vars, Ingest!Scanned, Ingest!Listing
  <2> QED BY <2>1, <2>2, <2>3, <2>4
<1> QED
  BY <1>0, <1>1, <1>2, <1>3, <1>4, <1>5, <1>6, <1>7, <1>8, <1>9, <1>10, <1>11 DEF Ingest!Next

\* Events that come late or twice beside a reconcile run enqueue each job of a version once,
\* derivatives enqueue none, and an undisturbed run leaves no listed version without a row.
LEMMA IngestHolds == Ingest!Spec => []Ingest!Safety
<1>1. Ingest!Init => Ingest!IInv
  BY IngestInitHolds
<1>2. Ingest!IInv /\ [Ingest!Next]_(Ingest!vars) => Ingest!IInv'
  BY IngestStepHolds
<1>3. Ingest!IInv => Ingest!Safety
  <2>1. Ingest!IInv => Ingest!ReconcileCovers
    BY DEF Ingest!IInv, Ingest!Scanned, Ingest!ReconcileCovers, Ingest!Free
  <2> QED BY <2>1 DEF Ingest!IInv, Ingest!Safety
<1> QED BY <1>1, <1>2, <1>3, PTL DEF Ingest!Spec

-----------------------------------------------------------------------------
(* Naturals, induction over them, and functions defined by recursion.      *)

\* A set of naturals that is not empty has a least element.
LEMMA Least ==
    ASSUME NEW T, T \subseteq Nat, T # {}
    PROVE  \E n \in T : \A m \in T : n <= m
<1> DEFINE R == OpToRel(<, Nat)
<1>1. IsWellFoundedOn(R, Nat)
    BY NatLessThanWellFounded
<1>2. \A m, n \in Nat : m < n => <<m, n>> \in R
    BY DEF OpToRel
<1> HIDE DEF R
<1>3. PICK n \in T : \A m \in T : ~ (<<m, n>> \in R)
    BY <1>1, WFMin
<1>4. \A m \in T : ~ (m < n)
    BY <1>2, <1>3
<1> QED BY <1>4

\* Induction, over a set instead of a predicate.
LEMMA Induct ==
    ASSUME NEW S, 0 \in S, \A n \in Nat : n \in S => n + 1 \in S
    PROVE  Nat \subseteq S
<1> SUFFICES ASSUME Nat \ S # {} PROVE FALSE OBVIOUS
<1>1. PICK n \in Nat \ S : \A m \in Nat \ S : n <= m
    BY Least
<1>2. n # 0 /\ n - 1 \in Nat /\ ~ (n <= n - 1)
    OBVIOUS
<1>3. n - 1 \in S
    BY <1>1, <1>2
<1> QED BY <1>2, <1>3

\* f is defined by recursion over 0..n.
Recursive(n, V, base, next, f) ==
    /\ f \in [0..n -> V]
    /\ f = [k \in 0..n |-> IF k = 0 THEN base ELSE next[<<f[k - 1], k>>]]

\* A function that is defined by recursion over 0..n exists.
LEMMA Recursion ==
    ASSUME NEW n \in Nat, NEW V, NEW base \in V, NEW next \in [V \X (1..n) -> V]
    PROVE  \E f : Recursive(n, V, base, next, f)
<1> DEFINE Is(f, m) == /\ f \in [0..m -> V]
                       /\ \A k \in 0..m : f[k] = IF k = 0 THEN base ELSE next[<<f[k - 1], k>>]
           E == {m \in Nat : m <= n => \E f : Is(f, m)}
<1>1. 0 \in E
    <2>1. Is([k \in 0..0 |-> base], 0)
        OBVIOUS
    <2> QED BY <2>1
<1>2. ASSUME NEW m \in Nat, m \in E PROVE m + 1 \in E
    <2>1. SUFFICES ASSUME m + 1 <= n PROVE \E f : Is(f, m + 1)
        OBVIOUS
    <2> HIDE DEF Is
    <2>2. PICK f : Is(f, m)
        BY <1>2, <2>1
    <2> USE DEF Is
    <2> DEFINE g == [k \in 0..(m + 1) |-> IF k = m + 1 THEN next[<<f[m], m + 1>>] ELSE f[k]]
    <2>3. f[m] \in V /\ m + 1 \in 1..n /\ next[<<f[m], m + 1>>] \in V
        BY <2>1, <2>2
    <2>4. g \in [0..(m + 1) -> V]
        BY <2>2, <2>3
    <2>5. ASSUME NEW k \in 0..(m + 1)
          PROVE  g[k] = IF k = 0 THEN base ELSE next[<<g[k - 1], k>>]
        <3>1. CASE k = m + 1
            BY <3>1
        <3>2. CASE k # m + 1
            <4>1. k \in 0..m /\ g[k] = f[k] /\ (k # 0 => g[k - 1] = f[k - 1])
                BY <3>2
            <4> QED BY <2>2, <4>1
        <3> QED BY <3>1, <3>2
    <2> HIDE DEF g
    <2> QED BY <2>4, <2>5
<1> HIDE DEF E
<1>3. n \in E
    BY <1>1, <1>2, Induct
<1>4. PICK f : Is(f, n)
    BY <1>3 DEF E
<1>5. f = [k \in 0..n |-> IF k = 0 THEN base ELSE next[<<f[k - 1], k>>]]
    BY <1>4
<1> QED BY <1>4, <1>5 DEF Recursive

-----------------------------------------------------------------------------
(* Csv: texts, and where one stands in another.  What a loop of the code   *)
(* builds is described by positions: each cell, row and line end stands    *)
(* where the ones before it end, and the reader, at the position where one *)
(* of them begins, comes to where it ends with it read.                    *)

\* u stands in text after the first p elements.
Here(text, p, u) ==
    /\ p \in Nat /\ p + Len(u) <= Len(text)
    /\ \A k \in 1..Len(u) : text[p + k] = u[k]

\* The first k elements of u.
First(u, k) == [i \in 1..k |-> u[i]]

LEMMA FirstOf ==
    ASSUME NEW S, NEW u \in Seq(S)
    PROVE  /\ First(u, 0) = << >> /\ First(u, Len(u)) = u
           /\ \A k \in 0..Len(u) : First(u, k) \in Seq(S) /\ Len(First(u, k)) = k
           /\ \A k \in 1..Len(u) : Append(First(u, k - 1), u[k]) = First(u, k)
<1>1. First(u, 0) = << >> /\ First(u, Len(u)) = u
    BY DEF First
<1>2. ASSUME NEW k \in 0..Len(u) PROVE First(u, k) \in Seq(S) /\ Len(First(u, k)) = k
    BY DEF First
<1>3. ASSUME NEW k \in 1..Len(u) PROVE Append(First(u, k - 1), u[k]) = First(u, k)
    <2> DEFINE a == First(u, k - 1)
    <2>1. a \in Seq(S) /\ Len(a) = k - 1 /\ u[k] \in S /\ \A i \in 1..(k - 1) : a[i] = u[i]
        BY <1>2 DEF First
    <2>2. First(u, k) \in Seq(S) /\ Len(First(u, k)) = k /\ \A i \in 1..k : First(u, k)[i] = u[i]
        BY <1>2 DEF First
    <2> HIDE DEF a
    <2>3. Append(a, u[k]) \in Seq(S) /\ Len(Append(a, u[k])) = k
        BY <2>1, AppendProperties
    <2>4. \A i \in 1..k : Append(a, u[k])[i] = u[i]
        BY <2>1, AppendProperties
    <2>5. Append(a, u[k]) = First(u, k)
        BY <2>2, <2>3, <2>4, SeqEqual
    <2> QED BY <2>5 DEF a
<1> QED BY <1>1, <1>2, <1>3

\* What stands in a text stands in a longer one, and in one around it.
LEMMA HereGrows ==
    ASSUME NEW S, NEW a \in Seq(S), NEW b \in Seq(S)
    PROVE  /\ Here(a \o b, Len(a), b) /\ Here(a \o b, 0, a)
           /\ \A p, u : u \in Seq(S) /\ Here(a, p, u) => Here(a \o b, p, u)
<1>1. a \o b \in Seq(S) /\ Len(a \o b) = Len(a) + Len(b) /\ Len(a) \in Nat /\ Len(b) \in Nat
    BY ConcatProperties
<1>2. \A i \in 1..Len(a) : (a \o b)[i] = a[i]
    BY <1>1, ConcatProperties
<1>3. ASSUME NEW i \in 1..Len(b) PROVE (a \o b)[Len(a) + i] = b[i]
    <2>1. Len(a) + i \in 1..(Len(a) + Len(b)) /\ ~(Len(a) + i <= Len(a)) /\ (Len(a) + i) - Len(a) = i
        BY <1>1
    <2> QED BY <2>1, ConcatProperties
<1>4. ASSUME NEW p, NEW u \in Seq(S), Here(a, p, u) PROVE Here(a \o b, p, u)
    <2>1. p \in Nat /\ Len(u) \in Nat /\ p + Len(u) <= Len(a)
        BY <1>4 DEF Here
    <2>2. \A k \in 1..Len(u) : p + k \in 1..Len(a) /\ a[p + k] = u[k]
        BY <1>1, <1>4, <2>1 DEF Here
    <2> QED BY <1>1, <1>2, <2>1, <2>2 DEF Here
<1> QED BY <1>1, <1>2, <1>3, <1>4 DEF Here

LEMMA HereWithin ==
    ASSUME NEW S, NEW text \in Seq(S), NEW u \in Seq(S), NEW v \in Seq(S), NEW p, NEW q,
           Here(text, p, u), Here(u, q, v)
    PROVE  Here(text, p + q, v)
<1>1. /\ p \in Nat /\ q \in Nat /\ Len(u) \in Nat /\ Len(v) \in Nat /\ Len(text) \in Nat
      /\ p + Len(u) <= Len(text) /\ q + Len(v) <= Len(u)
    BY DEF Here
<1>2. ASSUME NEW k \in 1..Len(v) PROVE text[(p + q) + k] = v[k]
    <2>1. q + k \in 1..Len(u) /\ (p + q) + k = p + (q + k)
        BY <1>1
    <2>2. text[p + (q + k)] = u[q + k] /\ u[q + k] = v[k]
        BY <2>1 DEF Here
    <2> QED BY <2>1, <2>2
<1> QED BY <1>1, <1>2 DEF Here

\* The texts w[1] to w[n], one after the other, of which each stands where the ones before it end.
Piled(n, w, text, pos) ==
    /\ pos \in [0..n -> Nat] /\ pos[0] = 0 /\ Len(text) = pos[n]
    /\ \A k \in 1..n : pos[k] = pos[k - 1] + Len(w[k]) /\ Here(text, pos[k - 1], w[k])

LEMMA Piles ==
    ASSUME NEW S, NEW n \in Nat, NEW w \in [1..n -> Seq(S)], NEW H,
           H[0] = << >>, \A i \in 1..n : H[i] = H[i - 1] \o w[i]
    PROVE  H[n] \in Seq(S) /\ \E pos : Piled(n, w, H[n], pos)
<1> DEFINE Fits(m) == H[m] \in Seq(S) /\ \E pos : Piled(m, w, H[m], pos)
           E == {m \in Nat : m <= n => Fits(m)}
<1>1. 0 \in E
    <2>1. Piled(0, w, H[0], [k \in 0..0 |-> 0])
        BY DEF Piled
    <2>2. H[0] \in Seq(S)
        OBVIOUS
    <2> QED BY <2>1, <2>2
<1>2. ASSUME NEW m \in Nat, m \in E PROVE m + 1 \in E
    <2>1. CASE m + 1 <= n
        <3>1. H[m] \in Seq(S) /\ \E pos : Piled(m, w, H[m], pos)
            BY <1>2, <2>1
        <3>2. PICK pos : Piled(m, w, H[m], pos)
            BY <3>1
        <3>3. m + 1 \in 1..n /\ (m + 1) - 1 = m
            BY <2>1
        <3>4. w[m + 1] \in Seq(S) /\ H[m + 1] = H[m] \o w[m + 1]
            BY <3>3
        <3>5. H[m + 1] \in Seq(S) /\ Len(H[m + 1]) = Len(H[m]) + Len(w[m + 1])
            BY <3>1, <3>4, ConcatProperties
        <3>6. /\ pos \in [0..m -> Nat] /\ pos[0] = 0 /\ Len(H[m]) = pos[m]
              /\ \A k \in 1..m : pos[k] = pos[k - 1] + Len(w[k]) /\ Here(H[m], pos[k - 1], w[k])
            BY <3>2 DEF Piled
        <3> DEFINE new == [k \in 0..(m + 1) |-> IF k = m + 1 THEN pos[m] + Len(w[k]) ELSE pos[k]]
        <3>7. Len(w[m + 1]) \in Nat /\ pos[m] \in Nat
            BY <3>4, <3>6
        <3>8. new \in [0..(m + 1) -> Nat] /\ new[0] = 0 /\ new[m + 1] = Len(H[m + 1])
            BY <3>5, <3>6, <3>7
        <3>9. ASSUME NEW k \in 1..(m + 1)
              PROVE  new[k] = new[k - 1] + Len(w[k]) /\ Here(H[m + 1], new[k - 1], w[k])
            <4>1. CASE k = m + 1
                <5>1. Here(H[m] \o w[m + 1], Len(H[m]), w[m + 1])
                    BY <3>1, <3>4, HereGrows
                <5>2. new[k] = pos[m] + Len(w[k]) /\ new[k - 1] = pos[m]
                    BY <4>1
                <5> QED BY <3>4, <3>6, <4>1, <5>1, <5>2
            <4>2. CASE k \in 1..m
                <5>1. pos[k] = pos[k - 1] + Len(w[k]) /\ Here(H[m], pos[k - 1], w[k]) /\ k \in 1..n
                    BY <2>1, <3>6, <4>2
                <5>2. w[k] \in Seq(S)
                    BY <5>1
                <5>3. Here(H[m] \o w[m + 1], pos[k - 1], w[k])
                    BY <3>1, <3>4, <5>1, <5>2, HereGrows
                <5>4. new[k] = pos[k] /\ new[k - 1] = pos[k - 1]
                    BY <4>2
                <5> QED BY <3>4, <5>1, <5>3, <5>4
            <4>3. k = m + 1 \/ k \in 1..m
                OBVIOUS
            <4> QED BY <4>1, <4>2, <4>3
        <3> HIDE DEF new
        <3>10. Piled(m + 1, w, H[m + 1], new)
            BY <3>8, <3>9 DEF Piled
        <3> QED BY <3>5, <3>10
    <2>2. CASE ~(m + 1 <= n)
        BY <2>2
    <2> QED BY <2>1, <2>2
<1> HIDE DEF E
<1>3. n \in E
    BY <1>1, <1>2, Induct
<1> QED BY <1>3 DEF E

\* A recursion that puts one text after the other.
Pile(S, n, w, H) ==
    H \in [0..n -> Seq(S)] /\ H[0] = << >> /\ \A i \in 1..n : H[i] = H[i - 1] \o w[i]

LEMMA PileExists ==
    ASSUME NEW S, NEW n \in Nat, NEW w \in [1..n -> Seq(S)]
    PROVE  \E H : Pile(S, n, w, H)
<1> DEFINE next == [x \in Seq(S) \X (1..n) |-> x[1] \o w[x[2]]]
<1>1. next \in [Seq(S) \X (1..n) -> Seq(S)]
    <2>1. ASSUME NEW x \in Seq(S) \X (1..n) PROVE x[1] \o w[x[2]] \in Seq(S)
        <3>1. x[1] \in Seq(S) /\ w[x[2]] \in Seq(S)
            OBVIOUS
        <3> QED BY <3>1, ConcatProperties
    <2> QED BY <2>1
<1>2. << >> \in Seq(S)
    OBVIOUS
<1>3. \A h \in Seq(S), i \in 1..n : next[<<h, i>>] = h \o w[i]
    OBVIOUS
<1> HIDE DEF next
<1> DEFINE V == Seq(S)
           base == << >>
<1>a. base \in V /\ next \in [V \X (1..n) -> V]
    BY <1>1, <1>2
<1> HIDE DEF V, base
<1>b. \E f : Recursive(n, V, base, next, f)
    BY <1>a, Recursion
<1> USE DEF V, base
<1>4. PICK f \in [0..n -> Seq(S)] : f = [k \in 0..n |-> IF k = 0 THEN << >> ELSE next[<<f[k - 1], k>>]]
    BY <1>b DEF Recursive
<1>5. f[0] = << >>
    BY <1>4
<1>6. ASSUME NEW i \in 1..n PROVE f[i] = f[i - 1] \o w[i]
    <2>1. f[i] = next[<<f[i - 1], i>>] /\ f[i - 1] \in Seq(S)
        BY <1>4
    <2> QED BY <1>3, <2>1
<1> QED BY <1>5, <1>6 DEF Pile

LEMMA FlatHas ==
    ASSUME NEW S, NEW n \in Nat, NEW u \in Seq(Seq(S)), n = Len(u)
    PROVE  Sheet!FlattenSeq(u) \in Seq(S) /\ \E pos : Piled(n, u, Sheet!FlattenSeq(u), pos)
<1>0. u \in [1..n -> Seq(S)]
    OBVIOUS
<1>a. n \in Nat
    OBVIOUS
<1>b. PICK H : Pile(S, n, u, H)
    BY <1>0, <1>a, PileExists
<1>1. H \in [0..n -> Seq(S)] /\ H[0] = << >> /\ \A i \in 1..n : H[i] = H[i - 1] \o u[i]
    BY <1>b DEF Pile
<1>2. CASE n = 0
    <2>1. u = << >>
        BY <1>2, EmptySeq
    <2>2. Sheet!FlattenSeq(u) = << >>
        BY <2>1 DEF Sheet!FlattenSeq
    <2>3. H[n] = Sheet!FlattenSeq(u)
        BY <1>1, <1>2, <2>2
    <2>4. H[n] \in Seq(S) /\ \E pos : Piled(n, u, H[n], pos)
        BY <1>0, <1>1, Piles
    <2> QED BY <2>3, <2>4
<1>3. CASE n # 0
    <2> DEFINE Is(f) == f = [i \in 1..n |-> IF i = 1 THEN u[i] ELSE f[i - 1] \o u[i]]
               h == CHOOSE f : Is(f)
               g == [i \in 1..n |-> H[i]]
    <2>1. ASSUME NEW i \in 1..n PROVE g[i] = IF i = 1 THEN u[i] ELSE g[i - 1] \o u[i]
        <3>1. CASE i = 1
            <4>1. g[i] = H[i] /\ H[i] = << >> \o u[i] /\ u[i] \in Seq(S)
                BY <1>0, <1>1, <3>1
            <4>2. << >> \o u[i] = u[i]
                BY <4>1, ConcatEmptySeq
            <4> QED BY <3>1, <4>1, <4>2
        <3>2. CASE i # 1
            <4>1. H[i] = H[i - 1] \o u[i]
                BY <1>1
            <4>2. g[i] = H[i] /\ g[i - 1] = H[i - 1]
                BY <3>2
            <4> QED BY <3>2, <4>1, <4>2
        <3> QED BY <3>1, <3>2
    <2>2. Is(g)
        <3> DEFINE b == g
        <3>1. b = [i \in 1..n |-> IF i = 1 THEN u[i] ELSE b[i - 1] \o u[i]]
            BY <2>1
        <3> QED BY <3>1
    <2>3. Is(h)
        <3>1. \E f : Is(f)
            BY <2>2
        <3> HIDE DEF Is, g
        <3> QED BY <3>1
    <2>4. Sheet!FlattenSeq(u) = h[n]
        BY <1>3 DEF Sheet!FlattenSeq
    <2> HIDE DEF h, g
    <2>b. h = [i \in 1..n |-> IF i = 1 THEN u[i] ELSE h[i - 1] \o u[i]]
        BY <2>3
    <2>c. 1 \in 1..n
        BY <1>3
    <2>d. \A i \in 1..n : h[i] = IF i = 1 THEN u[i] ELSE h[i - 1] \o u[i]
        BY <2>b
    <2>5. h[1] = u[1] /\ \A i \in 1..n : i # 1 => h[i] = h[i - 1] \o u[i]
        BY <2>c, <2>d
    <2> HIDE DEF Is
    <2> DEFINE K == [i \in 0..n |-> IF i = 0 THEN << >> ELSE h[i]]
    <2>6. ASSUME NEW i \in 1..n PROVE K[i] = K[i - 1] \o u[i]
        <3>1. CASE i = 1
            <4>1. K[i] = u[1] /\ K[i - 1] = << >> /\ u[1] \in Seq(S)
                BY <1>0, <2>5, <3>1
            <4> HIDE DEF K
            <4> QED BY <3>1, <4>1, ConcatEmptySeq
        <3>2. CASE i # 1
            <4>1. K[i] = h[i] /\ K[i - 1] = h[i - 1]
                BY <3>2
            <4> QED BY <2>5, <3>2, <4>1
        <3> QED BY <3>1, <3>2
    <2>7. K[0] = << >> /\ K[n] = h[n]
        BY <1>3
    <2> HIDE DEF K
    <2>8. K[n] \in Seq(S) /\ \E pos : Piled(n, u, K[n], pos)
        BY <1>0, <2>6, <2>7, Piles
    <2> QED BY <2>4, <2>7, <2>8
<1> QED BY <1>2, <1>3

Regrouped(x, y, z) == (x \o y) \o z = x \o (y \o z)

LEMMA Regroup ==
    ASSUME NEW S, NEW x \in Seq(S), NEW y \in Seq(S), NEW z \in Seq(S)
    PROVE  Regrouped(x, y, z)
BY ConcatAssociative DEF Regrouped

\* The texts of u with sep between them.
LEMMA JoinHas ==
    ASSUME NEW S, NEW n \in Nat \ {0}, NEW u \in Seq(Seq(S)), n = Len(u), NEW sep \in Seq(S)
    PROVE  LET w == [i \in 1..n |-> IF i = 1 THEN u[i] ELSE sep \o u[i]]
           IN  /\ Sheet!Join(u, sep) \in Seq(S) /\ w \in [1..n -> Seq(S)]
               /\ \E pos : Piled(n, w, Sheet!Join(u, sep), pos)
<1> DEFINE w == [i \in 1..n |-> IF i = 1 THEN u[i] ELSE sep \o u[i]]
<1>0. w \in [1..n -> Seq(S)]
    <2>1. ASSUME NEW i \in 1..n PROVE u[i] \in Seq(S) /\ sep \o u[i] \in Seq(S)
        <3>1. u[i] \in Seq(S)
            OBVIOUS
        <3> QED BY <3>1, ConcatProperties
    <2> QED BY <2>1
<1>a. n \in Nat /\ n # 0 /\ \A i \in 1..n : w[i] = (IF i = 1 THEN u[i] ELSE sep \o u[i]) /\ u[i] \in Seq(S)
    OBVIOUS
<1> HIDE DEF w
<1>b. PICK H : Pile(S, n, w, H)
    BY <1>0, <1>a, PileExists
<1>1. H \in [0..n -> Seq(S)] /\ H[0] = << >> /\ \A i \in 1..n : H[i] = H[i - 1] \o w[i]
    BY <1>b DEF Pile
<1> DEFINE Is(f) == f = [i \in 0..n |-> IF i = 0 THEN << >>
                                        ELSE IF i = 1 THEN u[1] ELSE f[i - 1] \o sep \o u[i]]
           h == CHOOSE f : Is(f)
<1>2. Is(H)
    <2>1. ASSUME NEW i \in 0..n
          PROVE  H[i] = IF i = 0 THEN << >> ELSE IF i = 1 THEN u[1] ELSE H[i - 1] \o sep \o u[i]
        <3>1. CASE i = 0
            BY <1>1, <3>1
        <3>2. CASE i = 1
            <4>1. 1 \in 1..n /\ 1 - 1 = 0
                BY <1>a
            <4>a. w[1] = u[1] /\ u[1] \in Seq(S)
                BY <1>a, <4>1
            <4>2. H[1] = << >> \o u[1]
                BY <1>1, <4>1, <4>a
            <4>3. << >> \o u[1] = u[1]
                BY <4>a, ConcatEmptySeq
            <4> QED BY <3>2, <4>2, <4>3
        <3>3. CASE i # 0 /\ i # 1
            <4>1. i \in 1..n /\ i - 1 \in 0..n
                BY <3>3
            <4>2. w[i] = sep \o u[i] /\ u[i] \in Seq(S)
                BY <1>a, <3>3, <4>1
            <4>3. H[i] = H[i - 1] \o (sep \o u[i]) /\ H[i - 1] \in Seq(S)
                BY <1>1, <4>1, <4>2
            <4>a. H[i - 1] \in Seq(S) /\ sep \in Seq(S) /\ u[i] \in Seq(S)
                BY <4>2, <4>3
            <4> DEFINE x == H[i - 1]
                       y == u[i]
            <4>b. x \in Seq(S) /\ sep \in Seq(S) /\ y \in Seq(S)
                BY <4>a
            <4> HIDE DEF x, y
            <4>4. (x \o sep) \o y = x \o (sep \o y)
                <5>1. Regrouped(x, sep, y)
                    BY <4>b, Regroup
                <5> QED BY <5>1 DEF Regrouped
            <4> USE DEF x, y
            <4> QED BY <3>3, <4>3, <4>4
        <3> QED BY <3>1, <3>2, <3>3
    <2> QED BY <1>1, <2>1
<1>3. Is(h)
    BY <1>2
<1>4. Sheet!Join(u, sep) = h[n]
    BY DEF Sheet!Join
<1> HIDE DEF h
<1>5. \A i \in 0..n : h[i] = IF i = 0 THEN << >> ELSE IF i = 1 THEN u[1] ELSE h[i - 1] \o sep \o u[i]
    BY <1>3
<1> DEFINE E == {m \in Nat : m <= n => h[m] = H[m]}
<1>6. 0 \in E
    BY <1>1, <1>5
<1>7. ASSUME NEW m \in Nat, m \in E PROVE m + 1 \in E
    <2>1. CASE m + 1 <= n
        <3>1. H[m + 1] = IF m + 1 = 0 THEN << >> ELSE IF m + 1 = 1 THEN u[1] ELSE H[m] \o sep \o u[m + 1]
            <4>1. m + 1 \in 0..n /\ (m + 1) - 1 = m
                BY <2>1
            <4>2. \A i \in 0..n : H[i] = IF i = 0 THEN << >> ELSE IF i = 1 THEN u[1] ELSE H[i - 1] \o sep \o u[i]
                BY <1>2
            <4> QED BY <4>1, <4>2
        <3>2. h[m + 1] = IF m + 1 = 0 THEN << >> ELSE IF m + 1 = 1 THEN u[1] ELSE h[m] \o sep \o u[m + 1]
            BY <1>5, <2>1
        <3> QED BY <1>7, <2>1, <3>1, <3>2
    <2> QED BY <2>1
<1> HIDE DEF E
<1>8. n \in E
    BY <1>6, <1>7, Induct
<1>9. h[n] = H[n]
    BY <1>8 DEF E
<1>10. H[n] \in Seq(S) /\ \E pos : Piled(n, w, H[n], pos)
    BY <1>0, <1>1, <1>a, Piles
<1> QED BY <1>0, <1>4, <1>9, <1>10 DEF w

-----------------------------------------------------------------------------
(* Csv: one character.                                                     *)

\* The provers do not find a string in STRING.
Chars == STRING \union {Sheet!Quote, Sheet!Comma, Sheet!CR, Sheet!LF, "l", "e", "1"}
Text == Seq(Chars)
State == [rows : Seq(Seq(Text)), row : Seq(Text), field : Text,
          quoted : BOOLEAN, content : BOOLEAN, skip : BOOLEAN]

\* What the reader has read when it is at s.
At(s, rows, row, field, quoted, skip) ==
    /\ s \in State
    /\ s.rows = rows /\ s.row = row /\ s.field = field /\ s.quoted = quoted /\ s.skip = skip

Special == {Sheet!Quote, Sheet!Comma, Sheet!CR, Sheet!LF}

LEMMA Ends ==
    ASSUME NEW s \in State
    PROVE  /\ Sheet!EndRecord(s) \in State
           /\ Sheet!EndRecord(s).rows = Append(s.rows, Append(s.row, s.field))
           /\ Sheet!EndRecord(s).row = << >> /\ Sheet!EndRecord(s).field = << >>
           /\ Sheet!EndRecord(s).quoted = s.quoted /\ Sheet!EndRecord(s).skip = s.skip
<1>1. Append(s.row, s.field) \in Seq(Text) /\ Append(s.rows, Append(s.row, s.field)) \in Seq(Seq(Text))
    <2>1. s.row \in Seq(Text) /\ s.field \in Text /\ s.rows \in Seq(Seq(Text))
        BY DEF State
    <2>2. Append(s.row, s.field) \in Seq(Text)
        BY <2>1
    <2> QED BY <2>1, <2>2
<1>2. << >> \in Seq(Text) /\ << >> \in Text
    BY DEF Text
<1> QED BY <1>1, <1>2 DEF State, Sheet!EndRecord

LEMMA Reads ==
    ASSUME NEW s \in State, NEW ch \in Chars, NEW next
    PROVE  /\ Sheet!ReadChar(s, ch, next) \in State
           /\ s.skip => At(Sheet!ReadChar(s, ch, next), s.rows, s.row, s.field, s.quoted, FALSE)
           /\ ~s.skip /\ s.quoted /\ ch # Sheet!Quote =>
                 At(Sheet!ReadChar(s, ch, next), s.rows, s.row, Append(s.field, ch), TRUE, FALSE)
           /\ ~s.skip /\ s.quoted /\ ch = Sheet!Quote /\ next = Sheet!Quote =>
                 At(Sheet!ReadChar(s, ch, next), s.rows, s.row, Append(s.field, ch), TRUE, TRUE)
           /\ ~s.skip /\ s.quoted /\ ch = Sheet!Quote /\ next # Sheet!Quote =>
                 At(Sheet!ReadChar(s, ch, next), s.rows, s.row, s.field, FALSE, FALSE)
           /\ ~s.skip /\ ~s.quoted /\ ch = Sheet!Quote =>
                 At(Sheet!ReadChar(s, ch, next), s.rows, s.row, s.field, TRUE, FALSE)
           /\ ~s.skip /\ ~s.quoted /\ ch = Sheet!Comma =>
                 At(Sheet!ReadChar(s, ch, next), s.rows, Append(s.row, s.field), << >>, FALSE, FALSE)
           /\ ~s.skip /\ ~s.quoted /\ ch = Sheet!LF =>
                 At(Sheet!ReadChar(s, ch, next),
                    Append(s.rows, Append(s.row, s.field)), << >>, << >>, FALSE, FALSE)
           /\ ~s.skip /\ ~s.quoted /\ ch = Sheet!CR =>
                 At(Sheet!ReadChar(s, ch, next),
                    Append(s.rows, Append(s.row, s.field)), << >>, << >>, FALSE, next = Sheet!LF)
           /\ ~s.skip /\ ~s.quoted /\ ch \notin Special =>
                 At(Sheet!ReadChar(s, ch, next), s.rows, s.row, Append(s.field, ch), FALSE, FALSE)
<1> DEFINE t == Sheet!ReadChar(s, ch, next)
<1>0. /\ s.rows \in Seq(Seq(Text)) /\ s.row \in Seq(Text) /\ s.field \in Text
      /\ s.quoted \in BOOLEAN /\ s.content \in BOOLEAN /\ s.skip \in BOOLEAN
    BY DEF State
<1>1. Append(s.field, ch) \in Text /\ Append(s.row, s.field) \in Seq(Text) /\ << >> \in Text
    BY <1>0 DEF Text
<1>2. CASE s.skip
    <2>1. t = [s EXCEPT !.skip = FALSE]
        BY <1>2 DEF Sheet!ReadChar
    <2>2. At(t, s.rows, s.row, s.field, s.quoted, FALSE)
        BY <2>1 DEF At, State
    <2> QED BY <1>2, <2>2 DEF At
<1>3. CASE ~s.skip /\ s.quoted /\ ch # Sheet!Quote
    <2>1. t = [s EXCEPT !.field = Append(@, ch)]
        BY <1>3 DEF Sheet!ReadChar
    <2>2. At(t, s.rows, s.row, Append(s.field, ch), TRUE, FALSE)
        BY <1>0, <1>1, <1>3, <2>1 DEF At, State
    <2> QED BY <1>3, <2>2 DEF At
<1>4. CASE ~s.skip /\ s.quoted /\ ch = Sheet!Quote /\ next = Sheet!Quote
    <2>1. t = [s EXCEPT !.field = Append(@, ch), !.skip = TRUE]
        BY <1>4 DEF Sheet!ReadChar
    <2>2. At(t, s.rows, s.row, Append(s.field, ch), TRUE, TRUE)
        BY <1>0, <1>1, <1>4, <2>1 DEF At, State
    <2> QED BY <1>4, <2>2 DEF At
<1>5. CASE ~s.skip /\ s.quoted /\ ch = Sheet!Quote /\ next # Sheet!Quote
    <2>1. t = [s EXCEPT !.quoted = FALSE]
        BY <1>5 DEF Sheet!ReadChar
    <2>2. At(t, s.rows, s.row, s.field, FALSE, FALSE)
        BY <1>0, <1>5, <2>1 DEF At, State
    <2> QED BY <1>5, <2>2 DEF At
<1>6. CASE ~s.skip /\ ~s.quoted /\ ch = Sheet!Quote
    <2>1. t = [s EXCEPT !.quoted = TRUE, !.content = TRUE]
        BY <1>6 DEF Sheet!ReadChar, Sheet!Quote, Sheet!Comma, Sheet!CR, Sheet!LF
    <2>2. At(t, s.rows, s.row, s.field, TRUE, FALSE)
        BY <1>0, <1>6, <2>1 DEF At, State
    <2> QED BY <1>6, <2>2 DEF At, Sheet!Quote, Sheet!Comma, Sheet!CR, Sheet!LF, Special
<1>7. CASE ~s.skip /\ ~s.quoted /\ ch = Sheet!Comma
    <2>1. t = [s EXCEPT !.row = Append(@, s.field), !.field = << >>, !.content = TRUE]
        BY <1>7 DEF Sheet!ReadChar, Sheet!Quote, Sheet!Comma, Sheet!CR, Sheet!LF
    <2>2. At(t, s.rows, Append(s.row, s.field), << >>, FALSE, FALSE)
        BY <1>0, <1>1, <1>7, <2>1 DEF At, State
    <2> QED BY <1>7, <2>2 DEF At, Sheet!Quote, Sheet!Comma, Sheet!CR, Sheet!LF, Special
<1>8. CASE ~s.skip /\ ~s.quoted /\ ch = Sheet!LF
    <2>1. t = Sheet!EndRecord(s)
        BY <1>8 DEF Sheet!ReadChar, Sheet!Quote, Sheet!Comma, Sheet!CR, Sheet!LF
    <2>2. At(t, Append(s.rows, Append(s.row, s.field)), << >>, << >>, FALSE, FALSE)
        BY <1>0, <1>8, <2>1, Ends DEF At
    <2> QED BY <1>8, <2>2 DEF At, Sheet!Quote, Sheet!Comma, Sheet!CR, Sheet!LF, Special
<1>9. CASE ~s.skip /\ ~s.quoted /\ ch = Sheet!CR
    <2>1. t = [Sheet!EndRecord(s) EXCEPT !.skip = (next = Sheet!LF)]
        BY <1>9 DEF Sheet!ReadChar, Sheet!Quote, Sheet!Comma, Sheet!CR, Sheet!LF
    <2>2. At(t, Append(s.rows, Append(s.row, s.field)), << >>, << >>, FALSE, next = Sheet!LF)
        <3> DEFINE e == Sheet!EndRecord(s)
        <3>1. e \in State /\ e.rows = Append(s.rows, Append(s.row, s.field)) /\ e.row = << >>
              /\ e.field = << >> /\ e.quoted = FALSE
            BY <1>0, <1>9, Ends
        <3>2. t = [e EXCEPT !.skip = (next = Sheet!LF)]
            BY <2>1
        <3> HIDE DEF e, t
        <3>3. (next = Sheet!LF) \in BOOLEAN
            OBVIOUS
        <3> QED BY <3>1, <3>2, <3>3 DEF At, State
    <2> QED BY <1>9, <2>2 DEF At, Sheet!Quote, Sheet!Comma, Sheet!CR, Sheet!LF, Special
<1>10. CASE ~s.skip /\ ~s.quoted /\ ch \notin Special
    <2>1. t = [s EXCEPT !.field = Append(@, ch), !.content = TRUE]
        BY <1>10 DEF Sheet!ReadChar, Special
    <2>2. At(t, s.rows, s.row, Append(s.field, ch), FALSE, FALSE)
        BY <1>0, <1>1, <1>10, <2>1 DEF At, State
    <2> QED BY <1>10, <2>2 DEF At, Special
<1> QED BY <1>0, <1>2, <1>3, <1>4, <1>5, <1>6, <1>7, <1>8, <1>9, <1>10 DEF Special

-----------------------------------------------------------------------------
(* Csv: a text, character by character.                                    *)

After(text, i) == IF i < Len(text) THEN text[i + 1] ELSE "end"

Reading(text, read) ==
    /\ text \in Text /\ read \in [0..Len(text) -> State] /\ read[0] = Sheet!Blank
    /\ \A i \in 1..Len(text) : read[i] = Sheet!ReadChar(read[i - 1], text[i], After(text, i))

Result(last) ==
    IF last.content \/ last.field # << >> \/ last.row # << >> THEN Sheet!EndRecord(last).rows ELSE last.rows

LEMMA BlankIsAState == At(Sheet!Blank, << >>, << >>, << >>, FALSE, FALSE)
<1>1. << >> \in Seq(Seq(Text)) /\ << >> \in Seq(Text) /\ << >> \in Text
    BY DEF Text
<1> QED BY <1>1 DEF At, State, Sheet!Blank

LEMMA Parses ==
    ASSUME NEW text \in Text
    PROVE  \E read : Reading(text, read) /\ Sheet!ParseCsv(text) = Result(read[Len(text)])
<1> DEFINE n == Len(text)
<1>1. n \in Nat /\ (\A i \in 1..n : text[i] \in Chars) /\ Sheet!Blank \in State
    BY BlankIsAState DEF At, Text
<1> DEFINE next == [x \in State \X (1..n) |-> Sheet!ReadChar(x[1], text[x[2]], After(text, x[2]))]
           base == Sheet!Blank
<1>2. next \in [State \X (1..n) -> State]
    <2>1. ASSUME NEW x \in State \X (1..n)
          PROVE  Sheet!ReadChar(x[1], text[x[2]], After(text, x[2])) \in State
        <3>1. x[1] \in State /\ text[x[2]] \in Chars
            BY <1>1
        <3> QED BY <3>1, Reads
    <2> QED BY <2>1
<1>3. \A s \in State, i \in 1..n : next[<<s, i>>] = Sheet!ReadChar(s, text[i], After(text, i))
    OBVIOUS
<1> HIDE DEF n, next, base
<1>a. base \in State
    BY <1>1 DEF base
<1>4. PICK f : Recursive(n, State, base, next, f)
    BY <1>1, <1>2, <1>a, Recursion
<1> DEFINE Is(h) == h = [i \in 0..n |-> IF i = 0 THEN Sheet!Blank
                                        ELSE Sheet!ReadChar(h[i - 1], text[i], After(text, i))]
<1>5. Is(f)
    <2>1. f \in [0..n -> State] /\ f = [k \in 0..n |-> IF k = 0 THEN base ELSE next[<<f[k - 1], k>>]]
        BY <1>4 DEF Recursive
    <2>2. ASSUME NEW i \in 0..n
          PROVE  f[i] = IF i = 0 THEN Sheet!Blank ELSE Sheet!ReadChar(f[i - 1], text[i], After(text, i))
        <3>1. CASE i = 0
            BY <2>1, <3>1 DEF base
        <3>2. CASE i # 0
            <4>1. i \in 1..n /\ f[i - 1] \in State /\ f[i] = next[<<f[i - 1], i>>]
                BY <1>1, <2>1, <3>2
            <4> QED BY <1>3, <3>2, <4>1
        <3> QED BY <3>1, <3>2
    <2> QED BY <2>1, <2>2
<1> DEFINE h == CHOOSE h : Is(h)
<1>6. Is(h)
    <2>1. \E g : Is(g)
        BY <1>5
    <2> HIDE DEF Is
    <2> QED BY <2>1
<1>7. Sheet!ParseCsv(text) = Result(h[Len(text)])
    BY DEF Sheet!ParseCsv, Result, After, n
<1> HIDE DEF h
<1>8. /\ DOMAIN h = 0..n /\ h[0] = Sheet!Blank
      /\ \A i \in 1..n : h[i] = Sheet!ReadChar(h[i - 1], text[i], After(text, i))
    <2>1. h = [i \in 0..n |-> IF i = 0 THEN Sheet!Blank
                              ELSE Sheet!ReadChar(h[i - 1], text[i], After(text, i))]
        BY <1>6
    <2>2. \A i \in 0..n : h[i] = IF i = 0 THEN Sheet!Blank
                                 ELSE Sheet!ReadChar(h[i - 1], text[i], After(text, i))
        BY <2>1
    <2>3. 0 \in 0..n /\ \A i \in 1..n : i \in 0..n /\ i # 0
        BY <1>1
    <2>4. DOMAIN h = 0..n
        BY <2>1
    <2> QED BY <2>2, <2>3, <2>4
<1> DEFINE E == {m \in Nat : m <= n => h[m] \in State}
<1>9. 0 \in E
    BY <1>1, <1>8
<1>10. ASSUME NEW m \in Nat, m \in E PROVE m + 1 \in E
    <2>1. CASE m + 1 <= n
        <3>1. h[m] \in State /\ m + 1 \in 1..n /\ (m + 1) - 1 = m
            BY <1>1, <1>10, <2>1
        <3>2. h[m + 1] = Sheet!ReadChar(h[m], text[m + 1], After(text, m + 1)) /\ text[m + 1] \in Chars
            BY <1>1, <1>8, <3>1
        <3> DEFINE s == h[m]
                   ch == text[m + 1]
                   d == After(text, m + 1)
        <3>a. s \in State /\ ch \in Chars /\ h[m + 1] = Sheet!ReadChar(s, ch, d)
            BY <3>1, <3>2
        <3> HIDE DEF s, ch, d
        <3>3. Sheet!ReadChar(s, ch, d) \in State
            BY <3>a, Reads
        <3> QED BY <3>a, <3>3
    <2> QED BY <2>1
<1> HIDE DEF E
<1>11. Nat \subseteq E
    BY <1>9, <1>10, Induct
<1>12. \A m \in 0..n : h[m] \in State
    BY <1>1, <1>11 DEF E
<1>13. h = [i \in 0..n |-> h[i]]
    <2>1. \A i \in 0..n : h[i] = h[i]
        OBVIOUS
    <2>2. h = [i \in DOMAIN h |-> h[i]]
        <3>1. h = [i \in 0..n |-> IF i = 0 THEN Sheet!Blank
                              ELSE Sheet!ReadChar(h[i - 1], text[i], After(text, i))]
            BY <1>6
        <3> HIDE DEF Is
        <3> QED BY <3>1
    <2> QED BY <1>8, <2>2
<1>14. h \in [0..n -> State]
    BY <1>12, <1>13
<1>15. Reading(text, h)
    BY <1>8, <1>14 DEF Reading, n
<1> QED BY <1>7, <1>15

-----------------------------------------------------------------------------
(* Csv: a cell.                                                            *)

LEMMA ReadsNext ==
    ASSUME NEW text, NEW read, Reading(text, read), NEW p \in Nat, p + 1 <= Len(text),
           NEW rows, NEW row, NEW field, NEW quoted, NEW skip,
           At(read[p], rows, row, field, quoted, skip), NEW ch, ch = text[p + 1]
    PROVE  /\ skip => At(read[p + 1], rows, row, field, quoted, FALSE)
           /\ ~skip /\ quoted /\ ch # Sheet!Quote => At(read[p + 1], rows, row, Append(field, ch), TRUE, FALSE)
           /\ ~skip /\ quoted /\ ch = Sheet!Quote /\ After(text, p + 1) = Sheet!Quote =>
                 At(read[p + 1], rows, row, Append(field, ch), TRUE, TRUE)
           /\ ~skip /\ quoted /\ ch = Sheet!Quote /\ After(text, p + 1) # Sheet!Quote =>
                 At(read[p + 1], rows, row, field, FALSE, FALSE)
           /\ ~skip /\ ~quoted /\ ch = Sheet!Quote => At(read[p + 1], rows, row, field, TRUE, FALSE)
           /\ ~skip /\ ~quoted /\ ch = Sheet!Comma =>
                 At(read[p + 1], rows, Append(row, field), << >>, FALSE, FALSE)
           /\ ~skip /\ ~quoted /\ ch = Sheet!LF =>
                 At(read[p + 1], Append(rows, Append(row, field)), << >>, << >>, FALSE, FALSE)
           /\ ~skip /\ ~quoted /\ ch = Sheet!CR =>
                 At(read[p + 1], Append(rows, Append(row, field)), << >>, << >>, FALSE,
                    After(text, p + 1) = Sheet!LF)
           /\ ~skip /\ ~quoted /\ ch \notin Special =>
                 At(read[p + 1], rows, row, Append(field, ch), FALSE, FALSE)
<1> DEFINE s == read[p]
           t == read[p + 1]
           next == After(text, p + 1)
<1>1. s \in State /\ s.rows = rows /\ s.row = row /\ s.field = field /\ s.quoted = quoted /\ s.skip = skip
    BY DEF At
<1>2. p + 1 \in 1..Len(text) /\ (p + 1) - 1 = p
    BY DEF Reading, Text
<1>3. t = Sheet!ReadChar(s, ch, next) /\ ch \in Chars
    BY <1>2 DEF Reading, Text
<1> HIDE DEF s, t, next
<1>4. /\ skip => At(t, rows, row, field, quoted, FALSE)
      /\ ~skip /\ quoted /\ ch # Sheet!Quote => At(t, rows, row, Append(field, ch), TRUE, FALSE)
      /\ ~skip /\ quoted /\ ch = Sheet!Quote /\ next = Sheet!Quote =>
            At(t, rows, row, Append(field, ch), TRUE, TRUE)
      /\ ~skip /\ quoted /\ ch = Sheet!Quote /\ next # Sheet!Quote =>
            At(t, rows, row, field, FALSE, FALSE)
      /\ ~skip /\ ~quoted /\ ch = Sheet!Quote => At(t, rows, row, field, TRUE, FALSE)
      /\ ~skip /\ ~quoted /\ ch = Sheet!Comma =>
            At(t, rows, Append(row, field), << >>, FALSE, FALSE)
      /\ ~skip /\ ~quoted /\ ch = Sheet!LF =>
            At(t, Append(rows, Append(row, field)), << >>, << >>, FALSE, FALSE)
      /\ ~skip /\ ~quoted /\ ch = Sheet!CR =>
            At(t, Append(rows, Append(row, field)), << >>, << >>, FALSE,
            next = Sheet!LF)
      /\ ~skip /\ ~quoted /\ ch \notin Special =>
            At(t, rows, row, Append(field, ch), FALSE, FALSE)
    BY <1>1, <1>3, Reads
<1> QED BY <1>4 DEF t, next

LEMMA ReadsPlain ==
    ASSUME NEW text, NEW read, Reading(text, read), NEW cell \in Text, NEW p,
           Here(text, p, cell), \A i \in 1..Len(cell) : cell[i] \notin Special,
           NEW rows, NEW row, At(read[p], rows, row, << >>, FALSE, FALSE)
    PROVE  At(read[p + Len(cell)], rows, row, cell, FALSE, FALSE)
<1> DEFINE n == Len(cell)
           Upto(k) == At(read[p + k], rows, row, First(cell, k), FALSE, FALSE)
           E == {k \in Nat : k <= n => Upto(k)}
<1>0. /\ n \in Nat /\ p \in Nat /\ Len(text) \in Nat /\ p + n <= Len(text)
      /\ \A k \in 1..n : text[p + k] = cell[k]
    BY DEF Here, Text, Reading
<1>1. /\ First(cell, 0) = << >> /\ First(cell, n) = cell
      /\ \A k \in 1..n : Append(First(cell, k - 1), cell[k]) = First(cell, k)
    BY FirstOf DEF Text
<1>2. 0 \in E
    <2>1. p + 0 = p
        BY <1>0
    <2> QED BY <1>1, <2>1
<1>3. ASSUME NEW k \in Nat, k \in E PROVE k + 1 \in E
    <2>1. CASE k + 1 <= n
        <3>1. k + 1 \in 1..n /\ (k + 1) - 1 = k /\ (p + k) + 1 = p + (k + 1) /\ p + k \in Nat
              /\ (p + k) + 1 <= Len(text)
            BY <1>0, <2>1
        <3>2. At(read[p + k], rows, row, First(cell, k), FALSE, FALSE)
            <4> HIDE DEF Upto
            <4>1. k <= n
                BY <1>0, <2>1
            <4>2. Upto(k)
                BY <1>3, <4>1
            <4> QED BY <4>2 DEF Upto
        <3>3. text[(p + k) + 1] = cell[k + 1] /\ cell[k + 1] \notin Special
            BY <1>0, <3>1
        <3>4. Append(First(cell, k), cell[k + 1]) = First(cell, k + 1)
            BY <1>1, <3>1
        <3> DEFINE j == p + k
                   ch == cell[k + 1]
                   field == First(cell, k)
        <3>5. j \in Nat /\ j + 1 <= Len(text) /\ ch = text[j + 1] /\ ch \notin Special
              /\ At(read[j], rows, row, field, FALSE, FALSE)
            BY <3>1, <3>2, <3>3
        <3> HIDE DEF j, ch, field
        <3>6. At(read[j + 1], rows, row, Append(field, ch), FALSE, FALSE)
            BY <3>5, ReadsNext
        <3>7. At(read[p + (k + 1)], rows, row, First(cell, k + 1), FALSE, FALSE)
            BY <3>1, <3>4, <3>6 DEF j, ch, field
        <3>8. Upto(k + 1)
            BY <3>7
        <3> HIDE DEF Upto
        <3> QED BY <3>8
    <2> HIDE DEF Upto
    <2> QED BY <2>1
<1> HIDE DEF E, Upto
<1>4. Nat \subseteq E
    BY <1>2, <1>3, Induct
<1>5. Upto(n)
    BY <1>0, <1>4 DEF E
<1> QED BY <1>1, <1>5 DEF Upto

\* The characters of a cell between quotes.
Doubled(cell) ==
    [i \in DOMAIN cell |-> IF cell[i] = Sheet!Quote THEN <<Sheet!Quote, Sheet!Quote>> ELSE <<cell[i]>>]

LEMMA DoubledIs ==
    ASSUME NEW cell \in Text
    PROVE  /\ Doubled(cell) \in Seq(Text) /\ Len(Doubled(cell)) = Len(cell)
           /\ \A k \in 1..Len(cell) :
                 /\ cell[k] = Sheet!Quote => Doubled(cell)[k] = <<Sheet!Quote, Sheet!Quote>>
                 /\ cell[k] # Sheet!Quote => Doubled(cell)[k] = <<cell[k]>>
<1>1. DOMAIN cell = 1..Len(cell) /\ Len(cell) \in Nat /\ \A i \in 1..Len(cell) : cell[i] \in Chars
    BY DEF Text
<1>2. Doubled(cell) = [i \in 1..Len(cell) |-> IF cell[i] = Sheet!Quote THEN <<Sheet!Quote, Sheet!Quote>> ELSE <<cell[i]>>]
    BY <1>1 DEF Doubled
<1>a. Sheet!Quote \in Chars
    BY DEF Chars
<1>3. \A i \in 1..Len(cell) : <<cell[i]>> \in Text /\ <<Sheet!Quote, Sheet!Quote>> \in Text
    BY <1>1, <1>a DEF Text
<1>4. Doubled(cell) \in [1..Len(cell) -> Text]
    BY <1>2, <1>3
<1>5. Doubled(cell) \in Seq(Text) /\ Len(Doubled(cell)) = Len(cell)
    <2> HIDE DEF Doubled
    <2> QED BY <1>1, <1>4
<1> QED BY <1>2, <1>5

\* Where the parts of an escaped cell stand.
LEMMA QuotedParts ==
    ASSUME NEW body \in Text
    PROVE  LET esc == <<Sheet!Quote>> \o body \o <<Sheet!Quote>>
           IN  /\ esc \in Text /\ Len(esc) = Len(body) + 2
               /\ Here(esc, 0, <<Sheet!Quote>>) /\ Here(esc, 1, body)
               /\ Here(esc, 1 + Len(body), <<Sheet!Quote>>)
<1> DEFINE one == <<Sheet!Quote>>
<1>a. Sheet!Quote \in Chars
    BY DEF Chars
<1>1. one \in Text /\ Len(one) = 1 /\ Len(body) \in Nat
    BY <1>a DEF Text
<1> HIDE DEF one
<1> DEFINE two == one \o body
<1>2. two \in Text /\ Len(two) = 1 + Len(body) /\ Here(two, 0, one) /\ Here(two, 1, body)
    BY <1>1, HereGrows, ConcatProperties DEF Text
<1> HIDE DEF two
<1>3. /\ two \o one \in Text /\ Len(two \o one) = (1 + Len(body)) + 1 /\ Here(two \o one, 0, one)
      /\ Here(two \o one, 1, body) /\ Here(two \o one, 1 + Len(body), one)
    BY <1>1, <1>2, HereGrows, ConcatProperties DEF Text
<1> USE DEF two, one
<1> QED BY <1>1, <1>3

LEMMA ReadsQuoted ==
    ASSUME NEW text, NEW read, Reading(text, read), NEW cell \in Text, NEW body \in Text, NEW pos,
           Piled(Len(cell), Doubled(cell), body, pos), NEW b, Here(text, b, body),
           NEW rows, NEW row, At(read[b], rows, row, << >>, TRUE, FALSE)
    PROVE  At(read[b + Len(body)], rows, row, cell, TRUE, FALSE)
<1> DEFINE n == Len(cell)
           v == Doubled(cell)
           Upto(k) == At(read[b + pos[k]], rows, row, First(cell, k), TRUE, FALSE)
           E == {k \in Nat : k <= n => Upto(k)}
<1>0. /\ n \in Nat /\ b \in Nat /\ text \in Seq(Chars) /\ Len(text) \in Nat
      /\ pos \in [0..n -> Nat] /\ pos[0] = 0 /\ Len(body) = pos[n]
      /\ \A k \in 1..n : pos[k] = pos[k - 1] + Len(v[k]) /\ Here(body, pos[k - 1], v[k])
    BY DEF Here, Text, Reading, Piled
<1>1. /\ First(cell, 0) = << >> /\ First(cell, n) = cell
      /\ \A k \in 1..n : Append(First(cell, k - 1), cell[k]) = First(cell, k)
    BY FirstOf DEF Text
<1>2. /\ \A k \in 1..n : v[k] \in Text
      /\ \A k \in 1..n : /\ cell[k] = Sheet!Quote => v[k] = <<Sheet!Quote, Sheet!Quote>>
                         /\ cell[k] # Sheet!Quote => v[k] = <<cell[k]>>
    <2>1. v \in Seq(Text) /\ Len(v) = n
        BY DoubledIs
    <2> HIDE DEF v
    <2>2. \A k \in 1..n : v[k] \in Text
        BY <2>1, ElementOfSeq
    <2> USE DEF v
    <2> QED BY <2>2, DoubledIs
<1> HIDE DEF v
<1>3. 0 \in E
    <2>1. b + pos[0] = b
        BY <1>0
    <2> QED BY <1>1, <2>1
<1>4. ASSUME NEW k \in Nat, k \in E PROVE k + 1 \in E
    <2>1. CASE k + 1 <= n
        <3>1. k + 1 \in 1..n /\ (k + 1) - 1 = k /\ k \in 0..n /\ k + 1 \in 0..n
            BY <1>0, <2>1
        <3>2. At(read[b + pos[k]], rows, row, First(cell, k), TRUE, FALSE)
            <4> HIDE DEF Upto
            <4>1. k <= n
                BY <1>0, <2>1
            <4>2. Upto(k)
                BY <1>4, <4>1
            <4> QED BY <4>2 DEF Upto
        <3>3. Append(First(cell, k), cell[k + 1]) = First(cell, k + 1)
            BY <1>1, <3>1
        <3> DEFINE j == b + pos[k]
                   w == v[k + 1]
                   ch == cell[k + 1]
                   field == First(cell, k)
        <3>a. pos[k] \in Nat /\ pos[k + 1] = pos[k] + Len(w) /\ Here(body, pos[k], w) /\ w \in Text
            BY <1>0, <1>2, <3>1
        <3>4. Here(text, j, w)
            <4> HIDE DEF w
            <4> QED BY <1>0, <3>a, HereWithin DEF Text
        <3>5. /\ ch = Sheet!Quote => w = <<Sheet!Quote, Sheet!Quote>>
              /\ ch # Sheet!Quote => w = <<ch>>
            BY <1>2, <3>1
        <3>6. j \in Nat /\ At(read[j], rows, row, field, TRUE, FALSE)
            <4>1. pos[k] \in Nat /\ b \in Nat
                BY <1>0, <3>a
            <4>2. j \in Nat
                BY <4>1
            <4>3. At(read[j], rows, row, field, TRUE, FALSE)
                BY <3>2
            <4> QED BY <4>2, <4>3
        <3>b. b + pos[k + 1] = j + Len(w)
            <4>1. Len(w) \in Nat
                <5> HIDE DEF w
                <5> QED BY <3>a DEF Text
            <4> HIDE DEF w
            <4> QED BY <1>0, <3>a, <4>1
        <3> HIDE DEF j, w, ch, field
        <3>7. At(read[j + Len(w)], rows, row, Append(field, ch), TRUE, FALSE)
            <4>1. CASE ch # Sheet!Quote
                <5>1. Len(w) = 1 /\ w[1] = ch
                    BY <3>5, <4>1
                <5>2. j + 1 <= Len(text) /\ text[j + 1] = ch
                    BY <3>4, <5>1 DEF Here
                <5>3. At(read[j + 1], rows, row, Append(field, ch), TRUE, FALSE)
                    BY <3>6, <4>1, <5>2, ReadsNext
                <5> QED BY <5>1, <5>3
            <4>2. CASE ch = Sheet!Quote
                <5>1. Len(w) = 2 /\ w[1] = ch /\ w[2] = ch
                    BY <3>5, <4>2
                <5>2. j + 2 <= Len(text) /\ text[j + 1] = ch /\ text[j + 2] = ch
                    BY <3>4, <5>1 DEF Here
                <5>3. j + 1 <= Len(text) /\ After(text, j + 1) = ch /\ (j + 1) + 1 = j + 2 /\ j + 1 \in Nat
                    BY <1>0, <3>6, <5>2 DEF After
                <5>4. At(read[j + 1], rows, row, Append(field, ch), TRUE, TRUE)
                    BY <3>6, <4>2, <5>2, <5>3, ReadsNext
                <5> DEFINE i == j + 1
                           c == text[i + 1]
                <5>5. i \in Nat /\ i + 1 <= Len(text) /\ c = text[i + 1]
                      /\ At(read[i], rows, row, Append(field, ch), TRUE, TRUE)
                    BY <1>0, <3>6, <5>2, <5>3, <5>4
                <5> HIDE DEF i, c
                <5>6. At(read[i + 1], rows, row, Append(field, ch), TRUE, FALSE)
                    BY <5>5, ReadsNext
                <5>7. At(read[j + 2], rows, row, Append(field, ch), TRUE, FALSE)
                    BY <5>3, <5>6 DEF i
                <5> QED BY <5>1, <5>7
            <4> QED BY <4>1, <4>2
        <3>8. Upto(k + 1)
            BY <3>3, <3>7, <3>b DEF ch, field
        <3> HIDE DEF Upto
        <3> QED BY <3>8
    <2> HIDE DEF Upto
    <2> QED BY <2>1
<1> HIDE DEF E, Upto
<1>5. Nat \subseteq E
    BY <1>3, <1>4, Induct
<1>6. Upto(n)
    BY <1>0, <1>5 DEF E
<1> QED BY <1>0, <1>1, <1>6 DEF Upto

\* An escaped cell is a text, and is read as what it was, whatever comes after it but a quote.
LEMMA ReadsCell ==
    ASSUME NEW cell \in Text
    PROVE  /\ Sheet!CsvEscape(cell) \in Text
           /\ \A text, read, p, rows, row :
                 /\ Reading(text, read) /\ Here(text, p, Sheet!CsvEscape(cell))
                 /\ At(read[p], rows, row, << >>, FALSE, FALSE)
                 /\ After(text, p + Len(Sheet!CsvEscape(cell))) # Sheet!Quote
                 => At(read[p + Len(Sheet!CsvEscape(cell))], rows, row, cell, FALSE, FALSE)
<1>0. DOMAIN cell = 1..Len(cell) /\ Len(cell) \in Nat
    BY DEF Text
<1>1. CASE ~Sheet!NeedsQuotes(cell)
    <2>1. Sheet!CsvEscape(cell) = cell
        BY <1>1 DEF Sheet!CsvEscape
    <2>2. \A i \in 1..Len(cell) : cell[i] \notin Special
        BY <1>0, <1>1 DEF Sheet!NeedsQuotes, Special
    <2>3. ASSUME NEW text, NEW read, NEW p, NEW rows, NEW row,
                 Reading(text, read), Here(text, p, cell), At(read[p], rows, row, << >>, FALSE, FALSE)
          PROVE  At(read[p + Len(cell)], rows, row, cell, FALSE, FALSE)
        BY <2>2, <2>3, ReadsPlain
    <2> QED BY <2>1, <2>3
<1>2. CASE Sheet!NeedsQuotes(cell)
    <2> DEFINE body == Sheet!FlattenSeq(Doubled(cell))
               esc == <<Sheet!Quote>> \o body \o <<Sheet!Quote>>
    <2>1. Sheet!CsvEscape(cell) = esc
        BY <1>2 DEF Sheet!CsvEscape, Doubled
    <2>2. body \in Text /\ \E pos : Piled(Len(cell), Doubled(cell), body, pos)
        <3> DEFINE v == Doubled(cell)
                   n == Len(cell)
        <3>1. v \in Seq(Seq(Chars)) /\ n \in Nat /\ n = Len(v)
            BY <1>0, DoubledIs DEF Text
        <3> HIDE DEF v, n
        <3>2. Sheet!FlattenSeq(v) \in Seq(Chars) /\ \E pos : Piled(n, v, Sheet!FlattenSeq(v), pos)
            BY <3>1, FlatHas
        <3> QED BY <3>2 DEF v, n, Text
    <2>3. PICK pos : Piled(Len(cell), Doubled(cell), body, pos)
        BY <2>2
    <2> HIDE DEF body
    <2>4. /\ esc \in Text /\ Len(esc) = Len(body) + 2 /\ Len(body) \in Nat
          /\ Here(esc, 0, <<Sheet!Quote>>) /\ Here(esc, 1, body) /\ Here(esc, 1 + Len(body), <<Sheet!Quote>>)
        BY <2>2, QuotedParts DEF Text
    <2> DEFINE one == <<Sheet!Quote>>
    <2>5. one \in Text /\ Len(one) = 1 /\ one[1] = Sheet!Quote
        <3>1. Sheet!Quote \in Chars
            BY DEF Chars
        <3> QED BY <3>1 DEF Text
    <2> HIDE DEF esc, one
    <2>6. Here(esc, 0, one) /\ Here(esc, 1 + Len(body), one)
        BY <2>4 DEF one
    <2>7. ASSUME NEW text, NEW read, NEW p, NEW rows, NEW row,
                 Reading(text, read), Here(text, p, esc), At(read[p], rows, row, << >>, FALSE, FALSE),
                 After(text, p + Len(esc)) # Sheet!Quote
          PROVE  At(read[p + Len(esc)], rows, row, cell, FALSE, FALSE)
        <3>1. p \in Nat /\ text \in Text /\ Len(text) \in Nat /\ p + Len(esc) <= Len(text)
            BY <2>7 DEF Here, Reading, Text
        <3>2. Here(text, p + 1, body) /\ Here(text, p + 0, one) /\ Here(text, p + (1 + Len(body)), one)
            BY <2>2, <2>4, <2>5, <2>6, <2>7, <3>1, HereWithin DEF Text
        <3>3. p + 1 <= Len(text) /\ text[p + 1] = Sheet!Quote
            BY <2>4, <2>5, <3>1, <3>2 DEF Here
        <3>4. At(read[p + 1], rows, row, << >>, TRUE, FALSE)
            BY <2>7, <3>1, <3>3, ReadsNext
        <3>5. At(read[(p + 1) + Len(body)], rows, row, cell, TRUE, FALSE)
            BY <2>2, <2>3, <2>7, <3>2, <3>4, ReadsQuoted
        <3> DEFINE j == (p + 1) + Len(body)
        <3>6. j \in Nat /\ j + 1 = p + Len(esc) /\ j = p + (1 + Len(body))
            BY <2>4, <3>1
        <3> HIDE DEF j
        <3>7. Here(text, j, one)
            BY <3>2, <3>6
        <3>8. j + 1 <= Len(text) /\ text[j + 1] = Sheet!Quote
            BY <2>5, <3>7, <3>1, <3>6 DEF Here
        <3>9. At(read[j], rows, row, cell, TRUE, FALSE)
            BY <3>5 DEF j
        <3>10. After(text, j + 1) # Sheet!Quote
            BY <2>7, <3>6
        <3>11. At(read[j + 1], rows, row, cell, FALSE, FALSE)
            BY <2>7, <3>6, <3>8, <3>9, <3>10, ReadsNext
        <3> QED BY <3>6, <3>11
    <2> QED BY <2>1, <2>4, <2>7
<1> QED BY <1>1, <1>2

-----------------------------------------------------------------------------
(* Csv: a row.                                                             *)

\* The texts of u, each of which ends at its pos, with sep between them.
Joined(n, u, sep, text, pos) ==
    /\ pos \in [1..n -> Nat] /\ Len(text) = pos[n] /\ pos[1] = Len(u[1]) /\ Here(text, 0, u[1])
    /\ \A k \in 1..(n - 1) :
          /\ Here(text, pos[k], sep) /\ Here(text, pos[k] + Len(sep), u[k + 1])
          /\ pos[k + 1] = pos[k] + Len(sep) + Len(u[k + 1])

LEMMA JoinParts ==
    ASSUME NEW S, NEW n \in Nat \ {0}, NEW u \in Seq(Seq(S)), n = Len(u), NEW sep \in Seq(S)
    PROVE  Sheet!Join(u, sep) \in Seq(S) /\ \E pos : Joined(n, u, sep, Sheet!Join(u, sep), pos)
<1> DEFINE w == [i \in 1..n |-> IF i = 1 THEN u[i] ELSE sep \o u[i]]
           flat == Sheet!Join(u, sep)
<1>1. flat \in Seq(S) /\ w \in [1..n -> Seq(S)] /\ \E pos : Piled(n, w, flat, pos)
    BY JoinHas
<1>2. PICK at : Piled(n, w, flat, at)
    BY <1>1
<1>3. /\ n \in Nat /\ 1 \in 1..n /\ (\A i \in 1..n : u[i] \in Seq(S)) /\ w[1] = u[1]
      /\ \A k \in 1..(n - 1) : k + 1 \in 1..n /\ k \in 1..n /\ (k + 1) - 1 = k /\ w[k + 1] = sep \o u[k + 1]
    OBVIOUS
<1> HIDE DEF w, flat
<1>4. /\ at \in [0..n -> Nat] /\ at[0] = 0 /\ Len(flat) = at[n]
      /\ \A k \in 1..n : at[k] = at[k - 1] + Len(w[k]) /\ Here(flat, at[k - 1], w[k])
    BY <1>2 DEF Piled
<1> DEFINE pos == [k \in 1..n |-> at[k]]
<1>5. pos \in [1..n -> Nat] /\ \A k \in 1..n : pos[k] = at[k]
    BY <1>3, <1>4
<1> HIDE DEF pos
<1>6. pos[1] = Len(u[1]) /\ Here(flat, 0, u[1]) /\ Len(flat) = pos[n]
    <2>1. at[1] = at[0] + Len(w[1]) /\ Here(flat, at[0], w[1])
        BY <1>3, <1>4
    <2>2. Len(u[1]) \in Nat
        BY <1>3
    <2>3. n \in 1..n
        BY <1>3
    <2> QED BY <1>3, <1>4, <1>5, <2>1, <2>2, <2>3
<1>7. ASSUME NEW k \in 1..(n - 1)
      PROVE  /\ Here(flat, pos[k], sep) /\ Here(flat, pos[k] + Len(sep), u[k + 1])
             /\ pos[k + 1] = pos[k] + Len(sep) + Len(u[k + 1])
    <2> DEFINE a == u[k + 1]
               i == pos[k]
    <2>1. a \in Seq(S) /\ w[k + 1] = sep \o a /\ k + 1 \in 1..n /\ k \in 1..n /\ (k + 1) - 1 = k
        BY <1>3
    <2>2. i \in Nat /\ i = at[k] /\ pos[k + 1] = at[k + 1]
        BY <1>5, <2>1
    <2>3. at[k + 1] = at[k] + Len(w[k + 1]) /\ Here(flat, at[k], w[k + 1])
        BY <1>4, <2>1
    <2>4. Here(flat, i, sep \o a) /\ pos[k + 1] = i + Len(sep \o a)
        BY <2>1, <2>2, <2>3
    <2> HIDE DEF a, i
    <2>5. sep \in Seq(S) /\ sep \o a \in Seq(S) /\ Len(sep \o a) = Len(sep) + Len(a)
          /\ Len(sep) \in Nat /\ Len(a) \in Nat
        BY <2>1, ConcatProperties
    <2>6. Here(sep \o a, 0, sep) /\ Here(sep \o a, Len(sep), a)
        BY <2>1, <2>5, HereGrows
    <2>7. Here(flat, i + 0, sep) /\ Here(flat, i + Len(sep), a)
        BY <1>1, <2>1, <2>4, <2>5, <2>6, HereWithin
    <2>8. i + 0 = i
        BY <2>2
    <2>9. pos[k + 1] = i + Len(sep) + Len(a)
        BY <2>2, <2>4, <2>5
    <2> QED BY <2>7, <2>8, <2>9 DEF a, i
<1>8. Joined(n, u, sep, flat, pos)
    BY <1>5, <1>6, <1>7 DEF Joined
<1> QED BY <1>1, <1>8 DEF flat

LEMMA JoinNone == ASSUME NEW sep PROVE Sheet!Join(<< >>, sep) = << >>
<1> DEFINE u == << >>
           Is(f) == f = [i \in 0..Len(u) |-> IF i = 0 THEN << >>
                                             ELSE IF i = 1 THEN u[1] ELSE f[i - 1] \o sep \o u[i]]
           h == CHOOSE f : Is(f)
<1>1. Len(u) = 0
    BY EmptySeq
<1>2. Sheet!Join(u, sep) = h[Len(u)]
    BY DEF Sheet!Join
<1>3. Is([i \in 0..0 |-> << >>])
    BY <1>1
<1>4. Is(h)
    <2>1. \E f : Is(f)
        BY <1>3
    <2> HIDE DEF Is
    <2> QED BY <2>1
<1> HIDE DEF h
<1>5. h[0] = << >>
    BY <1>1, <1>4
<1> QED BY <1>1, <1>2, <1>5

LEMMA JoinOne == ASSUME NEW S, NEW a \in Seq(S), NEW sep \in Seq(S) PROVE Sheet!Join(<<a>>, sep) = a
<1> DEFINE u == <<a>>
           flat == Sheet!Join(u, sep)
<1>1. u \in Seq(Seq(S)) /\ Len(u) = 1 /\ u[1] = a
    OBVIOUS
<1> HIDE DEF u
<1>2. flat \in Seq(S) /\ \E pos : Joined(1, u, sep, flat, pos)
    <2>1. 1 \in Nat \ {0} /\ 1 = Len(u)
        BY <1>1
    <2> QED BY <1>1, <2>1, JoinParts
<1> HIDE DEF flat
<1>3. Len(flat) = Len(a) /\ Here(flat, 0, a)
    BY <1>1, <1>2 DEF Joined
<1>4. \A k \in 1..Len(a) : flat[k] = a[k]
    BY <1>3 DEF Here
<1>5. flat = a
    BY <1>2, <1>3, <1>4, SeqEqual
<1> QED BY <1>5 DEF flat, u

Escaped(row) == [c \in DOMAIN row |-> Sheet!CsvEscape(row[c])]
RowText(row) == Sheet!Join(Escaped(row), <<Sheet!Comma>>)

\* No cell and one without a character are the same in a file.
AsRead(row) == IF row = << >> THEN << << >> >> ELSE row

LEMMA RowParts ==
    ASSUME NEW row \in Seq(Text), row # << >>, NEW n, n = Len(row)
    PROVE  /\ n \in Nat \ {0} /\ RowText(row) \in Text /\ Escaped(row) \in Seq(Text)
           /\ \A c \in 1..n : Escaped(row)[c] = Sheet!CsvEscape(row[c])
           /\ \E pos : Joined(n, Escaped(row), <<Sheet!Comma>>, RowText(row), pos)
<1>1. n \in Nat \ {0} /\ DOMAIN row = 1..n /\ \A c \in 1..n : row[c] \in Text
    <2>1. n \in Nat \ {0}
        BY EmptySeq
    <2> QED BY <2>1, ElementOfSeq
<1>2. \A c \in 1..n : Escaped(row)[c] = Sheet!CsvEscape(row[c]) /\ Sheet!CsvEscape(row[c]) \in Text
    BY <1>1, ReadsCell DEF Escaped
<1>3. Escaped(row) \in [1..n -> Text]
    <2>1. Escaped(row) = [c \in 1..n |-> Sheet!CsvEscape(row[c])]
        BY <1>1 DEF Escaped
    <2> QED BY <1>2, <2>1
<1> DEFINE u == Escaped(row)
           sep == <<Sheet!Comma>>
<1>4. sep \in Text
    <2>1. Sheet!Comma \in Chars
        BY DEF Chars
    <2> QED BY <2>1 DEF Text
<1>a. u \in [1..n -> Text]
    BY <1>3
<1> HIDE DEF u, sep
<1>5. u \in Seq(Text) /\ Len(u) = n
    BY <1>1, <1>a
<1>6. Sheet!Join(u, sep) \in Text /\ \E pos : Joined(n, u, sep, Sheet!Join(u, sep), pos)
    BY <1>1, <1>4, <1>5, JoinParts DEF Text
<1> QED BY <1>1, <1>2, <1>5, <1>6 DEF u, sep, RowText

LEMMA EmptyRow == RowText(<< >>) = << >> /\ << >> \in Text
<1>1. Escaped(<< >>) = << >>
    BY DEF Escaped
<1> QED BY <1>1, JoinNone DEF RowText, Text

\* The reader is at the end of a row, before what ends it.
RowRead(s, rows, row) == \E cells, field : At(s, rows, cells, field, FALSE, FALSE) /\ Append(cells, field) = AsRead(row)

LEMMA ReadsCells ==
    ASSUME NEW row \in Seq(Text), row # << >>, NEW text, NEW read, NEW p, NEW rows,
           Reading(text, read), Here(text, p, RowText(row)),
           At(read[p], rows, << >>, << >>, FALSE, FALSE), After(text, p + Len(RowText(row))) # Sheet!Quote
    PROVE  RowRead(read[p + Len(RowText(row))], rows, row)
<1> DEFINE n == Len(row)
           u == Escaped(row)
           sep == <<Sheet!Comma>>
           flat == RowText(row)
<1>1. /\ n \in Nat \ {0} /\ flat \in Text /\ u \in Seq(Text)
      /\ (\A c \in 1..n : u[c] = Sheet!CsvEscape(row[c])) /\ \E pos : Joined(n, u, sep, flat, pos)
    BY RowParts
<1>2. PICK pos : Joined(n, u, sep, flat, pos)
    BY <1>1
<1>3. p \in Nat /\ text \in Text /\ Len(text) \in Nat /\ p + Len(flat) <= Len(text)
    BY DEF Here, Reading, Text
<1>4. \A c \in 1..n : row[c] \in Text /\ Sheet!CsvEscape(row[c]) \in Text
    <2>1. \A c \in 1..n : row[c] \in Text
        BY ElementOfSeq
    <2> QED BY <2>1, ReadsCell
<1>a. Sheet!Comma \in Chars
    BY DEF Chars
<1>5. sep \in Text /\ Len(sep) = 1 /\ sep[1] = Sheet!Comma
    BY <1>a DEF Text
<1> HIDE DEF u, sep, flat
<1>6. /\ pos \in [1..n -> Nat] /\ Len(flat) = pos[n] /\ pos[1] = Len(u[1]) /\ Here(flat, 0, u[1])
      /\ \A k \in 1..(n - 1) :
            /\ Here(flat, pos[k], sep) /\ Here(flat, pos[k] + 1, u[k + 1])
            /\ pos[k + 1] = pos[k] + 1 + Len(u[k + 1])
    BY <1>2, <1>5 DEF Joined
<1>b. Here(text, p, flat) /\ After(text, p + Len(flat)) # Sheet!Quote
    BY DEF flat
<1> DEFINE End(k) == At(read[p + pos[k]], rows, First(row, k - 1), row[k], FALSE, FALSE)
<1>7. \A k \in 1..(n - 1) : pos[k] \in Nat /\ p + pos[k] + 1 <= Len(text) /\ text[p + pos[k] + 1] = Sheet!Comma
    <2> SUFFICES ASSUME NEW k \in 1..(n - 1)
                 PROVE  pos[k] \in Nat /\ p + pos[k] + 1 <= Len(text) /\ text[p + pos[k] + 1] = Sheet!Comma
        OBVIOUS
    <2>a. k \in 1..n
        BY <1>1
    <2>1. pos[k] \in Nat /\ Here(flat, pos[k], sep)
        BY <1>6, <2>a
    <2>2. Here(text, p + pos[k], sep)
        BY <1>1, <1>3, <1>5, <1>b, <2>1, HereWithin DEF Text
    <2>3. 1 \in 1..Len(sep)
        BY <1>5
    <2> QED BY <1>5, <2>1, <2>2, <2>3 DEF Here
<1>8. \A k \in 1..n : After(text, p + pos[k]) # Sheet!Quote
    <2> SUFFICES ASSUME NEW k \in 1..n PROVE After(text, p + pos[k]) # Sheet!Quote
        OBVIOUS
    <2>1. CASE k = n
        BY <1>6, <1>b, <2>1
    <2>2. CASE k # n
        <3>1. k \in 1..(n - 1)
            BY <1>1, <2>2
        <3>2. pos[k] \in Nat /\ p + pos[k] + 1 <= Len(text) /\ text[p + pos[k] + 1] = Sheet!Comma
            BY <1>7, <3>1
        <3>3. After(text, p + pos[k]) = Sheet!Comma
            BY <1>3, <3>2 DEF After
        <3> QED BY <3>3 DEF Sheet!Comma, Sheet!Quote
    <2> QED BY <2>1, <2>2
<1>9. /\ First(row, 0) = << >> /\ First(row, n) = row
      /\ \A k \in 1..n : Append(First(row, k - 1), row[k]) = First(row, k)
    BY FirstOf
\* The cell k from where it starts.
<1>10. ASSUME NEW k \in 1..n, NEW b \in Nat, Here(flat, b, u[k]), pos[k] = b + Len(u[k]),
              At(read[p + b], rows, First(row, k - 1), << >>, FALSE, FALSE)
       PROVE  End(k)
    <2> DEFINE cell == row[k]
               esc == Sheet!CsvEscape(cell)
               before == First(row, k - 1)
               i == p + b
    <2>1. cell \in Text /\ u[k] = esc /\ esc \in Text
        BY <1>1, <1>4
    <2>2. Here(flat, b, esc) /\ pos[k] = b + Len(esc)
        BY <1>10, <2>1
    <2>3. Len(esc) \in Nat
        <3> HIDE DEF esc
        <3> QED BY <2>1 DEF Text
    <2>4. p + pos[k] = i + Len(esc) /\ i \in Nat
        <3> DEFINE m == Len(esc)
        <3>1. m \in Nat /\ pos[k] = b + m
            BY <2>2, <2>3
        <3> HIDE DEF m
        <3>2. p + pos[k] = i + m /\ i \in Nat
            BY <1>3, <3>1
        <3> QED BY <3>2 DEF m
    <2>5. Here(text, i, esc)
        <3> HIDE DEF esc
        <3> QED BY <1>1, <1>3, <1>b, <2>1, <2>2, HereWithin DEF Text
    <2>6. After(text, i + Len(esc)) # Sheet!Quote
        BY <1>8, <2>4
    <2>7. At(read[i], rows, before, << >>, FALSE, FALSE)
        BY <1>10
    <2> HIDE DEF cell, before, i
    <2>8. At(read[i + Len(esc)], rows, before, cell, FALSE, FALSE)
        BY <2>1, <2>5, <2>6, <2>7, ReadsCell
    <2> QED BY <2>4, <2>8 DEF cell, before
<1> DEFINE E == {m \in Nat : m + 1 <= n => End(m + 1)}
<1>11. 0 \in E
    <2>1. 1 \in 1..n /\ 1 - 1 = 0 /\ p + 0 = p
        BY <1>1, <1>3
    <2>2. u[1] \in Text
        BY <1>1, <1>4, <2>1
    <2>3. pos[1] = 0 + Len(u[1])
        BY <1>6, <2>2 DEF Text
    <2>4. At(read[p + 0], rows, First(row, 1 - 1), << >>, FALSE, FALSE)
        BY <1>9, <2>1
    <2>5. End(1)
        BY <1>6, <1>10, <2>1, <2>3, <2>4
    <2> HIDE DEF End
    <2> QED BY <2>5
<1>12. ASSUME NEW m \in Nat, m \in E PROVE m + 1 \in E
    <2> DEFINE k == m + 1
    <2>1. CASE k + 1 <= n
        <3>0. k \in 1..(n - 1) /\ k \in 1..n /\ k + 1 \in 1..n /\ (k + 1) - 1 = k
            BY <1>1, <2>1
        <3>1. End(k)
            <4> HIDE DEF End
            <4>1. k <= n
                BY <3>0
            <4> QED BY <1>12, <4>1
        <3> HIDE DEF k
        <3>2. At(read[p + pos[k]], rows, First(row, k - 1), row[k], FALSE, FALSE)
            BY <3>1
        <3> DEFINE i == p + pos[k]
                   cells == First(row, k - 1)
                   field == row[k]
        <3>3. i \in Nat /\ i + 1 <= Len(text) /\ text[i + 1] = Sheet!Comma
            BY <1>3, <1>7, <3>0
        <3>4. At(read[i], rows, cells, field, FALSE, FALSE)
            BY <3>2
        <3>5. Append(cells, field) = First(row, k)
            BY <1>9, <3>0
        <3> HIDE DEF i, cells, field
        <3>6. At(read[i + 1], rows, Append(cells, field), << >>, FALSE, FALSE)
            BY <3>3, <3>4, ReadsNext
        <3>7. At(read[i + 1], rows, First(row, k), << >>, FALSE, FALSE)
            BY <3>5, <3>6
        <3>8. pos[k] \in Nat /\ Here(flat, pos[k] + 1, u[k + 1]) /\ pos[k + 1] = (pos[k] + 1) + Len(u[k + 1])
            BY <1>6, <1>7, <3>0
        <3> DEFINE b == pos[k] + 1
        <3>9. b \in Nat /\ Here(flat, b, u[k + 1]) /\ pos[k + 1] = b + Len(u[k + 1])
            BY <3>8
        <3>10. i + 1 = p + b
            BY <1>3, <3>8 DEF i
        <3> HIDE DEF b
        <3>11. At(read[p + b], rows, First(row, (k + 1) - 1), << >>, FALSE, FALSE)
            BY <3>0, <3>7, <3>10
        <3>12. End(k + 1)
            BY <1>10, <3>0, <3>9, <3>11
        <3> HIDE DEF End
        <3> USE DEF k
        <3> QED BY <3>12
    <2> HIDE DEF End
    <2> QED BY <2>1
<1> HIDE DEF E
<1>13. Nat \subseteq E
    BY <1>11, <1>12, Induct
<1>14. End(n)
    <2>1. n - 1 \in E /\ (n - 1) + 1 = n
        BY <1>1, <1>13
    <2> HIDE DEF End
    <2> QED BY <2>1 DEF E
<1>15. At(read[p + Len(flat)], rows, First(row, n - 1), row[n], FALSE, FALSE)
    BY <1>6, <1>14
<1>16. Append(First(row, n - 1), row[n]) = AsRead(row)
    <2>1. n \in 1..n
        BY <1>1
    <2> QED BY <1>9, <2>1 DEF AsRead
<1> QED BY <1>15, <1>16 DEF RowRead, flat

LEMMA ReadsRow ==
    ASSUME NEW row \in Seq(Text), NEW text, NEW read, NEW p, NEW rows,
           Reading(text, read), Here(text, p, RowText(row)),
           At(read[p], rows, << >>, << >>, FALSE, FALSE), After(text, p + Len(RowText(row))) # Sheet!Quote
    PROVE  RowRead(read[p + Len(RowText(row))], rows, row)
<1>1. CASE row # << >>
    BY <1>1, ReadsCells
<1>2. CASE row = << >>
    <2>1. p \in Nat /\ RowText(row) = << >> /\ p + Len(<< >>) = p
        BY <1>2, EmptyRow, EmptySeq DEF Here
    <2>2. Append(<< >>, << >>) = << << >> >>
        OBVIOUS
    <2>3. At(read[p + Len(RowText(row))], rows, << >>, << >>, FALSE, FALSE)
        BY <2>1
    <2> QED BY <1>2, <2>2, <2>3 DEF RowRead, AsRead
<1> QED BY <1>1, <1>2

-----------------------------------------------------------------------------
(* Csv: a sheet.                                                           *)

LineEnd == {<<Sheet!CR>>, <<Sheet!LF>>, <<Sheet!CR, Sheet!LF>>}

LEMMA LineEndIs ==
    ASSUME NEW end \in LineEnd
    PROVE  /\ end \in Text /\ Len(end) \in {1, 2} /\ 1 \in 1..Len(end)
           /\ end[1] \in {Sheet!CR, Sheet!LF} /\ (end[1] = Sheet!CR \/ end = <<Sheet!LF>>)
<1>1. Sheet!CR \in Chars /\ Sheet!LF \in Chars
    BY DEF Chars
<1>2. <<Sheet!CR>> \in Text /\ <<Sheet!LF>> \in Text /\ <<Sheet!CR, Sheet!LF>> \in Text
    BY <1>1 DEF Text
<1>3. end \in Text
    BY <1>2 DEF LineEnd
<1>4. CASE end = <<Sheet!CR>>
    BY <1>3, <1>4
<1>5. CASE end = <<Sheet!LF>>
    BY <1>3, <1>5
<1>6. CASE end = <<Sheet!CR, Sheet!LF>>
    BY <1>3, <1>6
<1> QED BY <1>4, <1>5, <1>6 DEF LineEnd

\* A cell does not begin with a line end: it would be quoted.
LEMMA CellStart ==
    ASSUME NEW cell \in Text, NEW esc, esc = Sheet!CsvEscape(cell), esc # << >>
    PROVE  1 \in 1..Len(esc) /\ esc[1] # Sheet!LF
<1>1. esc \in Text
    BY ReadsCell
<1>2. 1 \in 1..Len(esc)
    BY <1>1, EmptySeq DEF Text
<1>3. CASE Sheet!NeedsQuotes(cell)
    <2> DEFINE body == Sheet!FlattenSeq(Doubled(cell))
               one == <<Sheet!Quote>>
    <2>1. esc = one \o body \o one
        BY <1>3 DEF Sheet!CsvEscape, Doubled
    <2>2. body \in Text
        <3> DEFINE v == Doubled(cell)
                   n == Len(cell)
        <3>1. v \in Seq(Seq(Chars)) /\ n \in Nat /\ n = Len(v)
            BY DoubledIs DEF Text
        <3> HIDE DEF v, n
        <3>2. Sheet!FlattenSeq(v) \in Seq(Chars)
            BY <3>1, FlatHas
        <3> QED BY <3>2 DEF v, Text
    <2> HIDE DEF body
    <2>3. Here(esc, 0, one)
        BY <2>1, <2>2, QuotedParts
    <2>4. Len(one) = 1 /\ one[1] = Sheet!Quote
        OBVIOUS
    <2> HIDE DEF one
    <2>5. esc[0 + 1] = one[1]
        BY <2>3, <2>4 DEF Here
    <2> QED BY <1>2, <2>4, <2>5 DEF Sheet!Quote, Sheet!LF
<1>4. CASE ~Sheet!NeedsQuotes(cell)
    <2>1. esc = cell
        BY <1>4 DEF Sheet!CsvEscape
    <2>2. 1 \in DOMAIN cell
        BY <1>2, <2>1 DEF Text
    <2>3. cell[1] \notin {Sheet!Quote, Sheet!Comma, Sheet!CR, Sheet!LF}
        BY <1>4, <2>2 DEF Sheet!NeedsQuotes
    <2> QED BY <1>2, <2>1, <2>3
<1> QED BY <1>3, <1>4

LEMMA RowStart ==
    ASSUME NEW row \in Seq(Text), RowText(row) # << >>
    PROVE  1 \in 1..Len(RowText(row)) /\ RowText(row)[1] # Sheet!LF
<1> DEFINE n == Len(row)
           u == Escaped(row)
           sep == <<Sheet!Comma>>
           flat == RowText(row)
<1>1. row # << >>
    BY EmptyRow
<1>2. /\ n \in Nat \ {0} /\ flat \in Text /\ u \in Seq(Text)
      /\ (\A c \in 1..n : u[c] = Sheet!CsvEscape(row[c])) /\ \E pos : Joined(n, u, sep, flat, pos)
    BY <1>1, RowParts
<1>3. PICK pos : Joined(n, u, sep, flat, pos)
    BY <1>2
<1>4. Len(sep) = 1 /\ sep[1] = Sheet!Comma
    OBVIOUS
<1>5. 1 \in 1..n /\ row[1] \in Text /\ u[1] = Sheet!CsvEscape(row[1])
    <2>1. 1 \in 1..n
        BY <1>2
    <2>2. row[1] \in Text
        BY <2>1, ElementOfSeq
    <2> QED BY <1>2, <2>1, <2>2
<1>6. u[1] \in Text
    BY <1>5, ReadsCell
<1> HIDE DEF u, sep, flat
<1>7. 1 \in 1..Len(flat)
    BY <1>2, EmptySeq DEF flat, Text
<1>8. CASE u[1] # << >>
    <2>1. 1 \in 1..Len(u[1]) /\ u[1][1] # Sheet!LF
        BY <1>5, <1>8, CellStart
    <2>2. flat[0 + 1] = u[1][1]
        BY <1>3, <2>1 DEF Joined, Here
    <2> QED BY <1>7, <2>1, <2>2 DEF flat
<1>9. CASE u[1] = << >>
    <2>1. pos \in [1..n -> Nat] /\ pos[1] = 0 /\ Len(flat) = pos[n]
        BY <1>3, <1>9, EmptySeq DEF Joined
    <2>2. n # 1
        <3>1. SUFFICES ASSUME n = 1 PROVE FALSE
            OBVIOUS
        <3>2. Len(flat) = 0
            BY <2>1, <3>1
        <3> QED BY <1>7, <3>2
    <2>a. n \in Nat \ {0}
        BY <1>2
    <2>3. 1 \in 1..(n - 1)
        <3> HIDE DEF n
        <3>1. 1 <= n - 1 /\ n - 1 \in Int
            BY <2>2, <2>a
        <3> QED BY <3>1
    <2>4. Here(flat, pos[1], sep)
        BY <1>3, <2>3 DEF Joined
    <2>5. flat[0 + 1] = sep[1]
        BY <1>4, <2>1, <2>4 DEF Here
    <2>6. flat[1] = Sheet!Comma
        BY <1>4, <2>5
    <2> QED BY <1>7, <2>6 DEF flat, Sheet!Comma, Sheet!LF
<1> QED BY <1>8, <1>9

\* Whatever ends a row, the next one begins after it.
LEMMA ReadsEnd ==
    ASSUME NEW text, NEW read, Reading(text, read), NEW p, NEW end \in LineEnd, Here(text, p, end),
           NEW rows, NEW row, RowRead(read[p], rows, row),
           end = <<Sheet!CR>> => After(text, p + 1) # Sheet!LF
    PROVE  At(read[p + Len(end)], Append(rows, AsRead(row)), << >>, << >>, FALSE, FALSE)
<1>1. PICK cells, field : At(read[p], rows, cells, field, FALSE, FALSE) /\ Append(cells, field) = AsRead(row)
    BY DEF RowRead
<1>2. p \in Nat /\ Len(text) \in Nat /\ p + Len(end) <= Len(text) /\ \A k \in 1..Len(end) : text[p + k] = end[k]
    BY DEF Here, Reading, Text
<1> DEFINE new == Append(rows, AsRead(row))
<1>3. CASE end = <<Sheet!LF>>
    <2>1. Len(end) = 1 /\ end[1] = Sheet!LF
        BY <1>3
    <2>2. p + 1 <= Len(text) /\ text[p + 1] = Sheet!LF
        BY <1>2, <2>1
    <2>3. At(read[p + 1], Append(rows, Append(cells, field)), << >>, << >>, FALSE, FALSE)
        BY <1>1, <1>2, <2>2, ReadsNext
    <2> QED BY <1>1, <2>1, <2>3
<1>4. CASE end = <<Sheet!CR>>
    <2>1. Len(end) = 1 /\ end[1] = Sheet!CR
        BY <1>4
    <2>2. p + 1 <= Len(text) /\ text[p + 1] = Sheet!CR
        BY <1>2, <2>1
    <2>3. At(read[p + 1], Append(rows, Append(cells, field)), << >>, << >>, FALSE, After(text, p + 1) = Sheet!LF)
        BY <1>1, <1>2, <2>2, ReadsNext
    <2>4. (After(text, p + 1) = Sheet!LF) = FALSE
        BY <1>4
    <2> QED BY <1>1, <2>1, <2>3, <2>4
<1>5. CASE end = <<Sheet!CR, Sheet!LF>>
    <2>1. Len(end) = 2 /\ end[1] = Sheet!CR /\ end[2] = Sheet!LF
        BY <1>5
    <2>2. p + 2 <= Len(text) /\ text[p + 1] = Sheet!CR /\ text[p + 2] = Sheet!LF
        BY <1>2, <2>1
    <2>3. p + 1 <= Len(text) /\ (p + 1) + 1 = p + 2 /\ After(text, p + 1) = Sheet!LF
        BY <1>2, <2>2 DEF After
    <2>4. At(read[p + 1], Append(rows, Append(cells, field)), << >>, << >>, FALSE, After(text, p + 1) = Sheet!LF)
        BY <1>1, <1>2, <2>2, <2>3, ReadsNext
    <2>5. (After(text, p + 1) = Sheet!LF) = TRUE
        BY <2>3
    <2> DEFINE i == p + 1
               c == text[i + 1]
    <2>6. i \in Nat /\ i + 1 <= Len(text) /\ c = text[i + 1] /\ i + 1 = p + 2
        BY <1>2, <2>2, <2>3
    <2>7. At(read[i], new, << >>, << >>, FALSE, TRUE)
        BY <1>1, <2>4, <2>5
    <2> HIDE DEF i, c, new
    <2>8. At(read[i + 1], new, << >>, << >>, FALSE, FALSE)
        BY <2>6, <2>7, ReadsNext
    <2> QED BY <2>1, <2>6, <2>8 DEF new
<1> QED BY <1>3, <1>4, <1>5 DEF LineEnd

RowTexts(rows) == [r \in DOMAIN rows |-> RowText(rows[r])]
AllRead(rows) == [r \in DOMAIN rows |-> AsRead(rows[r])]

\* The rows u, each of which ends at its pos, with end after each but maybe the last.
Lines(n, u, end, text, pos) ==
    /\ pos \in [1..n -> Nat] /\ pos[1] = Len(u[1]) /\ Here(text, 0, u[1])
    /\ \A k \in 1..(n - 1) :
          /\ Here(text, pos[k], end) /\ Here(text, pos[k] + Len(end), u[k + 1])
          /\ pos[k + 1] = pos[k] + Len(end) + Len(u[k + 1])
    /\ (pos[n] = Len(text) \/ (Here(text, pos[n], end) /\ Len(text) = pos[n] + Len(end)))

LEMMA RowsAre ==
    ASSUME NEW rows \in Seq(Seq(Text))
    PROVE  /\ Len(rows) \in Nat /\ DOMAIN rows = 1..Len(rows)
           /\ RowTexts(rows) \in Seq(Text) /\ Len(RowTexts(rows)) = Len(rows)
           /\ AllRead(rows) \in Seq(Seq(Text)) /\ Len(AllRead(rows)) = Len(rows)
           /\ \A r \in 1..Len(rows) : /\ rows[r] \in Seq(Text) /\ AllRead(rows)[r] = AsRead(rows[r])
                                      /\ RowTexts(rows)[r] = RowText(rows[r]) /\ RowText(rows[r]) \in Text
<1> DEFINE n == Len(rows)
<1>1. n \in Nat /\ DOMAIN rows = 1..n /\ \A r \in 1..n : rows[r] \in Seq(Text)
    BY ElementOfSeq
<1>2. \A r \in 1..n : RowText(rows[r]) \in Text
    BY <1>1, RowParts, EmptyRow
<1>3. \A r \in 1..n : AsRead(rows[r]) \in Seq(Text)
    <2>1. << << >> >> \in Seq(Text)
        BY EmptyRow
    <2> QED BY <1>1, <2>1 DEF AsRead
<1>4. RowTexts(rows) = [r \in 1..n |-> RowText(rows[r])] /\ AllRead(rows) = [r \in 1..n |-> AsRead(rows[r])]
    BY <1>1 DEF RowTexts, AllRead
<1>5. RowTexts(rows) \in [1..n -> Text] /\ AllRead(rows) \in [1..n -> Seq(Text)]
    BY <1>2, <1>3, <1>4
<1>6. RowTexts(rows) \in Seq(Text) /\ Len(RowTexts(rows)) = n
    <2> DEFINE v == RowTexts(rows)
               m == n
    <2>1. v \in [1..m -> Text] /\ m \in Nat
        BY <1>1, <1>5
    <2> HIDE DEF v, m
    <2>2. v \in Seq(Text) /\ Len(v) = m
        BY <2>1
    <2> QED BY <2>2 DEF v, m
<1>7. AllRead(rows) \in Seq(Seq(Text)) /\ Len(AllRead(rows)) = n
    <2> DEFINE v == AllRead(rows)
               m == n
    <2>1. v \in [1..m -> Seq(Text)] /\ m \in Nat
        BY <1>1, <1>5
    <2> HIDE DEF v, m
    <2>2. v \in Seq(Seq(Text)) /\ Len(v) = m
        BY <2>1
    <2> QED BY <2>2 DEF v, m
<1> QED BY <1>1, <1>2, <1>4, <1>6, <1>7

LEMMA ReadsLines ==
    ASSUME NEW rows \in Seq(Seq(Text)), NEW n \in Nat \ {0}, n = Len(rows), NEW end \in LineEnd,
           NEW text, NEW read, Reading(text, read), NEW pos, Lines(n, RowTexts(rows), end, text, pos)
    PROVE  /\ RowRead(read[pos[n]], First(AllRead(rows), n - 1), rows[n])
           /\ pos[n] # Len(text) => At(read[Len(text)], AllRead(rows), << >>, << >>, FALSE, FALSE)
<1> DEFINE u == RowTexts(rows)
           all == AllRead(rows)
<1>1. \A r \in 1..n : /\ rows[r] \in Seq(Text) /\ all[r] = AsRead(rows[r])
                      /\ u[r] = RowText(rows[r]) /\ u[r] \in Text
    BY RowsAre
<1>2. /\ First(all, 0) = << >> /\ First(all, n) = all
      /\ \A k \in 1..n : Append(First(all, k - 1), all[k]) = First(all, k)
    <2>1. all \in Seq(Seq(Text)) /\ Len(all) = n
        BY RowsAre
    <2> HIDE DEF all
    <2> QED BY <2>1, FirstOf
<1> HIDE DEF u, all
<1>3. /\ pos \in [1..n -> Nat] /\ pos[1] = Len(u[1]) /\ Here(text, 0, u[1])
      /\ \A k \in 1..(n - 1) :
            /\ Here(text, pos[k], end) /\ Here(text, pos[k] + Len(end), u[k + 1])
            /\ pos[k + 1] = pos[k] + Len(end) + Len(u[k + 1])
      /\ (pos[n] = Len(text) \/ (Here(text, pos[n], end) /\ Len(text) = pos[n] + Len(end)))
    BY DEF Lines, u
<1>4. text \in Text /\ Len(text) \in Nat
    BY DEF Reading, Text
<1>5. /\ end \in Text /\ Len(end) \in Nat /\ 1 \in 1..Len(end)
      /\ end[1] \in {Sheet!CR, Sheet!LF} /\ (end # <<Sheet!LF>> => end[1] = Sheet!CR)
    BY LineEndIs DEF Text
<1>6. \A k \in 1..(n - 1) : k \in 1..n /\ k + 1 \in 1..n /\ (k + 1) - 1 = k
    OBVIOUS
<1>7. \A r \in 1..n : pos[r] \in Nat /\ (Here(text, pos[r], end) \/ pos[r] = Len(text))
    <2> SUFFICES ASSUME NEW r \in 1..n PROVE pos[r] \in Nat /\ (Here(text, pos[r], end) \/ pos[r] = Len(text))
        OBVIOUS
    <2>1. pos[r] \in Nat
        BY <1>3
    <2>2. CASE r = n
        BY <1>3, <2>1, <2>2
    <2>3. CASE r # n
        <3>1. r \in 1..(n - 1)
            BY <2>3
        <3> QED BY <1>3, <2>1, <3>1
    <2> QED BY <2>2, <2>3
\* What follows a row.
<1>8. \A r \in 1..n : /\ After(text, pos[r]) \in {Sheet!CR, Sheet!LF, "end"}
                      /\ end # <<Sheet!LF>> => After(text, pos[r]) \in {Sheet!CR, "end"}
    <2> SUFFICES ASSUME NEW r \in 1..n
                 PROVE  /\ After(text, pos[r]) \in {Sheet!CR, Sheet!LF, "end"}
                        /\ end # <<Sheet!LF>> => After(text, pos[r]) \in {Sheet!CR, "end"}
        OBVIOUS
    <2> DEFINE i == pos[r]
    <2>1. i \in Nat /\ (Here(text, i, end) \/ i = Len(text))
        BY <1>7
    <2> HIDE DEF i
    <2>2. CASE Here(text, i, end)
        <3>1. i < Len(text) /\ text[i + 1] = end[1]
            <4>1. i + Len(end) <= Len(text) /\ text[i + 1] = end[1]
                BY <1>5, <2>2 DEF Here
            <4>2. 1 <= Len(end)
                BY <1>5
            <4> QED BY <1>4, <1>5, <2>1, <4>1, <4>2
        <3>2. After(text, i) = end[1]
            BY <3>1 DEF After
        <3> QED BY <1>5, <3>2 DEF i
    <2>3. CASE i = Len(text)
        <3>1. After(text, i) = "end"
            BY <1>4, <2>3 DEF After
        <3> QED BY <3>1 DEF i
    <2> QED BY <2>1, <2>2, <2>3
<1>9. \A r \in 1..n : After(text, pos[r]) # Sheet!Quote
    BY <1>8 DEF Sheet!CR, Sheet!LF, Sheet!Quote
<1>10. ASSUME NEW r \in 1..(n - 1), end = <<Sheet!CR>> PROVE After(text, pos[r] + 1) # Sheet!LF
    <2> DEFINE i == pos[r] + 1
               next == u[r + 1]
    <2>1. Len(end) = 1 /\ end # <<Sheet!LF>>
        BY <1>10 DEF Sheet!CR, Sheet!LF
    <2>2. pos[r] \in Nat /\ r + 1 \in 1..n /\ next \in Text /\ Here(text, pos[r] + Len(end), next)
          /\ pos[r + 1] = pos[r] + Len(end) + Len(next)
        BY <1>1, <1>3, <1>6, <1>7
    <2>3. i \in Nat /\ Here(text, i, next) /\ pos[r + 1] = i + Len(next)
        BY <2>1, <2>2
    <2>4. CASE next = << >>
        <3>1. pos[r + 1] = i
            <4>1. Len(next) = 0
                BY <2>4, EmptySeq
            <4> QED BY <2>3, <4>1
        <3>2. After(text, pos[r + 1]) \in {Sheet!CR, "end"}
            BY <1>8, <2>1, <2>2
        <3> QED BY <3>1, <3>2 DEF Sheet!CR, Sheet!LF
    <2>5. CASE next # << >>
        <3>1. rows[r + 1] \in Seq(Text) /\ next = RowText(rows[r + 1])
            BY <1>1, <2>2
        <3>2. 1 \in 1..Len(next) /\ next[1] # Sheet!LF
            BY <2>5, <3>1, RowStart
        <3> HIDE DEF i, next
        <3>3. i < Len(text) /\ text[i + 1] = next[1]
            <4>1. i + Len(next) <= Len(text) /\ text[i + 1] = next[1]
                BY <2>3, <3>2 DEF Here
            <4>2. 1 <= Len(next) /\ Len(next) \in Nat
                BY <2>2, <3>2 DEF Text
            <4> QED BY <1>4, <2>3, <4>1, <4>2
        <3>4. After(text, i) # Sheet!LF
            BY <3>2, <3>3 DEF After
        <3> QED BY <3>4 DEF i
    <2> QED BY <2>4, <2>5
<1> DEFINE LineRead(r) == RowRead(read[pos[r]], First(all, r - 1), rows[r])
           E == {m \in Nat : m + 1 <= n => LineRead(m + 1)}
<1>11. 0 \in E
    <2>1. 1 \in 1..n /\ 1 - 1 = 0
        OBVIOUS
    <2>2. At(read[0], << >>, << >>, << >>, FALSE, FALSE)
        BY BlankIsAState DEF Reading
    <2>3. rows[1] \in Seq(Text) /\ Here(text, 0, RowText(rows[1])) /\ pos[1] = 0 + Len(RowText(rows[1]))
        <3>1. u[1] = RowText(rows[1]) /\ Len(u[1]) \in Nat
            BY <1>1, <2>1 DEF Text
        <3> QED BY <1>1, <1>3, <2>1, <3>1
    <2>4. After(text, 0 + Len(RowText(rows[1]))) # Sheet!Quote
        BY <1>9, <2>1, <2>3
    <2>5. RowRead(read[0 + Len(RowText(rows[1]))], << >>, rows[1])
        BY <2>2, <2>3, <2>4, ReadsRow
    <2>6. LineRead(1)
        BY <1>2, <2>1, <2>3, <2>5
    <2> HIDE DEF LineRead
    <2> QED BY <2>6
<1>12. ASSUME NEW r \in 1..n, LineRead(r), Here(text, pos[r], end),
              end = <<Sheet!CR>> => After(text, pos[r] + 1) # Sheet!LF
       PROVE  At(read[pos[r] + Len(end)], First(all, r), << >>, << >>, FALSE, FALSE)
    <2> DEFINE i == pos[r]
               before == First(all, r - 1)
               row == rows[r]
    <2>1. /\ RowRead(read[i], before, row) /\ Here(text, i, end)
          /\ end = <<Sheet!CR>> => After(text, i + 1) # Sheet!LF
        BY <1>12
    <2>2. Append(before, AsRead(row)) = First(all, r)
        BY <1>1, <1>2
    <2> HIDE DEF i, before, row
    <2>3. At(read[i + Len(end)], Append(before, AsRead(row)), << >>, << >>, FALSE, FALSE)
        BY <2>1, ReadsEnd
    <2> QED BY <2>2, <2>3 DEF i
<1>13. ASSUME NEW m \in Nat, m \in E PROVE m + 1 \in E
    <2> DEFINE r == m + 1
    <2>1. CASE r + 1 <= n
        <3>1. r \in 1..(n - 1) /\ r \in 1..n /\ r + 1 \in 1..n /\ (r + 1) - 1 = r
            BY <2>1
        <3>2. LineRead(r)
            <4> HIDE DEF LineRead
            <4>1. r <= n
                BY <3>1
            <4> QED BY <1>13, <4>1
        <3> HIDE DEF r
        <3>3. Here(text, pos[r], end) /\ Here(text, pos[r] + Len(end), u[r + 1])
              /\ pos[r + 1] = pos[r] + Len(end) + Len(u[r + 1])
            BY <1>3, <3>1
        <3>4. end = <<Sheet!CR>> => After(text, pos[r] + 1) # Sheet!LF
            BY <1>10, <3>1
        <3> DEFINE i == pos[r] + Len(end)
                   before == First(all, r)
                   row == rows[r + 1]
        <3>5. At(read[i], before, << >>, << >>, FALSE, FALSE)
            <4> HIDE DEF LineRead
            <4> QED BY <1>12, <3>1, <3>2, <3>3, <3>4
        <3>6. row \in Seq(Text) /\ u[r + 1] = RowText(row)
            BY <1>1, <3>1
        <3>7. Here(text, i, RowText(row)) /\ pos[r + 1] = i + Len(RowText(row))
            BY <3>3, <3>6
        <3>8. After(text, i + Len(RowText(row))) # Sheet!Quote
            BY <1>9, <3>1, <3>7
        <3> HIDE DEF i, before, row
        <3>9. RowRead(read[i + Len(RowText(row))], before, row)
            BY <3>5, <3>6, <3>7, <3>8, ReadsRow
        <3>10. LineRead(r + 1)
            BY <3>1, <3>7, <3>9 DEF before, row
        <3> HIDE DEF LineRead
        <3> USE DEF r
        <3> QED BY <3>10
    <2> HIDE DEF LineRead
    <2> QED BY <2>1
<1> HIDE DEF E
<1>14. Nat \subseteq E
    BY <1>11, <1>13, Induct
<1>15. LineRead(n)
    <2>1. n - 1 \in E /\ (n - 1) + 1 = n
        BY <1>14
    <2> HIDE DEF LineRead
    <2> QED BY <2>1 DEF E
<1>16. ASSUME pos[n] # Len(text) PROVE At(read[Len(text)], all, << >>, << >>, FALSE, FALSE)
    <2>1. Here(text, pos[n], end) /\ Len(text) = pos[n] + Len(end) /\ n \in 1..n
        BY <1>3, <1>16
    <2>2. end = <<Sheet!CR>> => After(text, pos[n] + 1) # Sheet!LF
        <3> SUFFICES ASSUME end = <<Sheet!CR>> PROVE After(text, pos[n] + 1) # Sheet!LF
            OBVIOUS
        <3>1. Len(end) = 1
            OBVIOUS
        <3>2. ~(pos[n] + 1 < Len(text))
            BY <1>4, <2>1, <3>1
        <3> QED BY <3>2 DEF After, Sheet!LF
    <2> HIDE DEF LineRead
    <2>3. At(read[pos[n] + Len(end)], First(all, n), << >>, << >>, FALSE, FALSE)
        BY <1>12, <1>15, <2>1, <2>2
    <2> QED BY <1>2, <2>1, <2>3
<1> QED BY <1>15, <1>16 DEF all

-----------------------------------------------------------------------------
(* Csv: what is picked from a sequence.                                    *)

Kept(A, n, s, P, K) ==
    /\ K \in [0..n -> Seq(A)] /\ K[0] = << >>
    /\ \A i \in 1..n : K[i] = IF i \in P THEN Append(K[i - 1], s[i]) ELSE K[i - 1]

LEMMA Picks ==
    ASSUME NEW A, NEW n \in Nat, NEW s \in Seq(A), n = Len(s), NEW P
    PROVE  \E K : Kept(A, n, s, P, K) /\ Sheet!Picked(s, P) = K[n]
<1>1. \A i \in 1..n : s[i] \in A
    BY ElementOfSeq
<1> DEFINE V == Seq(A)
           base == << >>
           next == [x \in V \X (1..n) |-> IF x[2] \in P THEN Append(x[1], s[x[2]]) ELSE x[1]]
<1>2. next \in [V \X (1..n) -> V] /\ base \in V
    <2>1. ASSUME NEW x \in V \X (1..n) PROVE (IF x[2] \in P THEN Append(x[1], s[x[2]]) ELSE x[1]) \in V
        <3>1. x[1] \in V /\ s[x[2]] \in A
            BY <1>1
        <3>2. Append(x[1], s[x[2]]) \in V
            BY <3>1, AppendProperties
        <3> QED BY <3>1, <3>2
    <2> QED BY <2>1
<1>3. \A k \in V, i \in 1..n : next[<<k, i>>] = IF i \in P THEN Append(k, s[i]) ELSE k
    OBVIOUS
<1> HIDE DEF V, base, next
<1>4. PICK f : Recursive(n, V, base, next, f)
    BY <1>2, Recursion
<1>5. f \in [0..n -> V] /\ f = [k \in 0..n |-> IF k = 0 THEN base ELSE next[<<f[k - 1], k>>]]
    BY <1>4 DEF Recursive
<1> DEFINE Is(h) == h = [i \in 0..n |-> IF i = 0 THEN << >>
                                        ELSE IF i \in P THEN Append(h[i - 1], s[i]) ELSE h[i - 1]]
           h == CHOOSE h : Is(h)
<1>6. ASSUME NEW i \in 0..n
      PROVE  f[i] = IF i = 0 THEN << >> ELSE IF i \in P THEN Append(f[i - 1], s[i]) ELSE f[i - 1]
    <2>1. CASE i = 0
        BY <1>5, <2>1 DEF base
    <2>2. CASE i # 0
        <3>a. i \in 1..n /\ i - 1 \in 0..n
            BY <2>2
        <3>1. f[i - 1] \in V /\ f[i] = next[<<f[i - 1], i>>]
            BY <1>5, <2>2, <3>a
        <3> QED BY <1>3, <2>2, <3>1, <3>a
    <2> QED BY <2>1, <2>2
<1>7. Is(f)
    BY <1>5, <1>6
<1>8. Is(h)
    <2>1. \E g : Is(g)
        BY <1>7
    <2> HIDE DEF Is
    <2> QED BY <2>1
<1>9. Sheet!Picked(s, P) = h[n]
    BY DEF Sheet!Picked
<1> HIDE DEF h
<1>10. h = [i \in 0..n |-> IF i = 0 THEN << >> ELSE IF i \in P THEN Append(h[i - 1], s[i]) ELSE h[i - 1]]
    BY <1>8
<1>11. /\ h[0] = << >>
       /\ \A i \in 1..n : h[i] = IF i \in P THEN Append(h[i - 1], s[i]) ELSE h[i - 1]
    <2>1. \A i \in 0..n : h[i] = IF i = 0 THEN << >> ELSE IF i \in P THEN Append(h[i - 1], s[i]) ELSE h[i - 1]
        BY <1>10
    <2>2. 0 \in 0..n /\ \A i \in 1..n : i \in 0..n /\ i # 0
        OBVIOUS
    <2> QED BY <2>1, <2>2
<1> DEFINE E == {m \in Nat : m <= n => h[m] \in Seq(A)}
<1>12. 0 \in E
    <2>1. h[0] = << >> /\ << >> \in Seq(A)
        BY <1>11
    <2> QED BY <2>1
<1>13. ASSUME NEW m \in Nat, m \in E PROVE m + 1 \in E
    <2>1. CASE m + 1 <= n
        <3>1. h[m] \in Seq(A) /\ m + 1 \in 1..n /\ (m + 1) - 1 = m
            BY <1>13, <2>1
        <3>2. h[m + 1] = IF m + 1 \in P THEN Append(h[m], s[m + 1]) ELSE h[m]
            BY <1>11, <3>1
        <3>3. s[m + 1] \in A
            BY <1>1, <3>1
        <3>4. Append(h[m], s[m + 1]) \in Seq(A)
            BY <3>1, <3>3, AppendProperties
        <3>5. h[m + 1] \in Seq(A)
            BY <3>1, <3>2, <3>4
        <3> QED BY <3>5
    <2> QED BY <2>1
<1> HIDE DEF E
<1>14. Nat \subseteq E
    BY <1>12, <1>13, Induct
<1>15. \A m \in 0..n : h[m] \in Seq(A)
    BY <1>14 DEF E
<1>16. h \in [0..n -> Seq(A)]
    BY <1>10, <1>15
<1>17. Kept(A, n, s, P, h)
    BY <1>11, <1>16 DEF Kept
<1> QED BY <1>9, <1>17

\* What is not picked leaves no trace.
NoneAfter(m, n, P) == \A i \in (m + 1)..n : i \notin P

LEMMA KeptStays ==
    ASSUME NEW A, NEW n \in Nat, NEW s, NEW P, NEW K, Kept(A, n, s, P, K),
           NEW m \in 0..n, NoneAfter(m, n, P)
    PROVE  K[n] = K[m]
<1> DEFINE E == {d \in Nat : m + d <= n => K[m + d] = K[m]}
<1>1. 0 \in E
    OBVIOUS
<1>2. ASSUME NEW d \in Nat, d \in E PROVE d + 1 \in E
    <2>1. CASE m + (d + 1) <= n
        <3>1. m + (d + 1) \in 1..n /\ m + (d + 1) \in (m + 1)..n /\ (m + (d + 1)) - 1 = m + d
            BY <2>1
        <3>2. K[m + (d + 1)] = K[m + d]
            BY <3>1 DEF Kept, NoneAfter
        <3>3. K[m + d] = K[m]
            BY <1>2, <2>1
        <3> QED BY <3>2, <3>3
    <2> QED BY <2>1
<1> HIDE DEF E
<1>3. n - m \in E
    <2>1. n - m \in Nat
        OBVIOUS
    <2> QED BY <1>1, <1>2, <2>1, Induct
<1>4. m + (n - m) = n
    OBVIOUS
<1> QED BY <1>3, <1>4 DEF E

LEMMA FilledAgrees ==
    ASSUME NEW A, NEW a \in Seq(A), NEW b \in Seq(A), NEW m \in Nat, m <= Len(a), m <= Len(b),
           \A i \in 1..m : a[i] = b[i] \/ ~(Sheet!HasContent(a[i]) \/ Sheet!HasContent(b[i])),
           \A i \in (m + 1)..Len(a) : ~Sheet!HasContent(a[i]),
           \A i \in (m + 1)..Len(b) : ~Sheet!HasContent(b[i])
    PROVE  Sheet!Filled(a) = Sheet!Filled(b)
<1> DEFINE P == {r \in DOMAIN a : Sheet!HasContent(a[r])}
           Q == {r \in DOMAIN b : Sheet!HasContent(b[r])}
           k == Len(a)
           n == Len(b)
<1>0. k \in Nat /\ n \in Nat /\ DOMAIN a = 1..k /\ DOMAIN b = 1..n
    BY LenProperties
<1>1. /\ \A i \in 1..m : (i \in P <=> i \in Q) /\ (i \in P => a[i] = b[i])
      /\ \A i \in (m + 1)..k : i \notin P
      /\ \A i \in (m + 1)..n : i \notin Q
    BY <1>0
<1>2. Sheet!Filled(a) = Sheet!Picked(a, P) /\ Sheet!Filled(b) = Sheet!Picked(b, Q)
    BY DEF Sheet!Filled
<1>3. k = Len(a) /\ n = Len(b) /\ m \in 0..k /\ m \in 0..n
    BY <1>0
<1> HIDE DEF P, Q, k, n
<1>4. PICK K : Kept(A, k, a, P, K) /\ Sheet!Picked(a, P) = K[k]
    BY <1>0, <1>3, Picks
<1>5. PICK L : Kept(A, n, b, Q, L) /\ Sheet!Picked(b, Q) = L[n]
    BY <1>0, <1>3, Picks
<1>6. K[k] = K[m] /\ L[n] = L[m]
    <2>1. K[k] = K[m]
        <3>1. Kept(A, k, a, P, K) /\ k \in Nat
            BY <1>0, <1>4
        <3>2. m \in 0..k /\ NoneAfter(m, k, P)
            BY <1>1, <1>3 DEF NoneAfter
        <3> QED BY <3>1, <3>2, KeptStays
    <2>2. L[n] = L[m]
        <3>1. Kept(A, n, b, Q, L) /\ n \in Nat
            BY <1>0, <1>5
        <3>2. m \in 0..n /\ NoneAfter(m, n, Q)
            BY <1>1, <1>3 DEF NoneAfter
        <3> QED BY <3>1, <3>2, KeptStays
    <2> QED BY <2>1, <2>2
<1> DEFINE E == {i \in Nat : i <= m => K[i] = L[i]}
<1>7. 0 \in E
    BY <1>4, <1>5 DEF Kept
<1>8. ASSUME NEW i \in Nat, i \in E PROVE i + 1 \in E
    <2>1. CASE i + 1 <= m
        <3>1. i + 1 \in 1..m /\ i + 1 \in 1..k /\ i + 1 \in 1..n /\ (i + 1) - 1 = i
            BY <1>0, <1>3, <2>1
        <3>2. K[i + 1] = IF i + 1 \in P THEN Append(K[i], a[i + 1]) ELSE K[i]
            BY <1>4, <3>1 DEF Kept
        <3>3. L[i + 1] = IF i + 1 \in Q THEN Append(L[i], b[i + 1]) ELSE L[i]
            BY <1>5, <3>1 DEF Kept
        <3>4. K[i] = L[i]
            BY <1>8, <2>1
        <3>5. K[i + 1] = L[i + 1]
            BY <1>1, <3>1, <3>2, <3>3, <3>4
        <3> QED BY <3>5
    <2> QED BY <2>1
<1> HIDE DEF E
<1>9. m \in E
    BY <1>7, <1>8, Induct
<1>10. K[m] = L[m]
    BY <1>9 DEF E
<1> QED BY <1>2, <1>4, <1>5, <1>6, <1>10

-----------------------------------------------------------------------------
(* Csv: RoundTrip and LineEnds.                                            *)

BlankRow == << << >> >>

LEMMA BlankRows ==
    /\ BlankRow \in Seq(Text) /\ Append(<< >>, << >>) = BlankRow /\ Len(BlankRow) = 1
    /\ ~Sheet!HasContent(<< >>) /\ ~Sheet!HasContent(BlankRow)
<1>1. BlankRow \in Seq(Text) /\ Len(BlankRow) = 1
    <2>1. << >> \in Text
        BY EmptyRow
    <2> QED BY <2>1 DEF BlankRow
<1>2. Append(<< >>, << >>) = BlankRow
    BY DEF BlankRow
<1>3. ~Sheet!HasContent(<< >>)
    BY DEF Sheet!HasContent
<1>4. ~Sheet!HasContent(BlankRow)
    BY DEF Sheet!HasContent, BlankRow
<1> QED BY <1>1, <1>2, <1>3, <1>4

\* To read a row changes nothing that Filled sees.
LEMMA AllReadAgrees ==
    ASSUME NEW rows \in Seq(Seq(Text))
    PROVE  \A i \in 1..Len(rows) :
              AllRead(rows)[i] = rows[i] \/ ~(Sheet!HasContent(AllRead(rows)[i]) \/ Sheet!HasContent(rows[i]))
<1>1. \A i \in 1..Len(rows) : AllRead(rows)[i] = AsRead(rows[i])
    BY RowsAre
<1>2. \A row : AsRead(row) = row \/ (AsRead(row) = BlankRow /\ row = << >>)
    BY DEF AsRead, BlankRow
<1> QED BY <1>1, <1>2, BlankRows

LEMMA ParsesLines ==
    ASSUME NEW rows \in Seq(Seq(Text)), NEW n \in Nat \ {0}, n = Len(rows), NEW end \in LineEnd,
           NEW text \in Text, NEW pos, Lines(n, RowTexts(rows), end, text, pos)
    PROVE  /\ Sheet!Filled(Sheet!ParseCsv(text)) = Sheet!Filled(rows)
           /\ pos[n] = Len(text) /\ Len(rows[n]) >= 2 => Sheet!ParseCsv(text) = AllRead(rows)
<1>1. PICK read : Reading(text, read) /\ Sheet!ParseCsv(text) = Result(read[Len(text)])
    BY Parses
<1> DEFINE last == read[Len(text)]
           all == AllRead(rows)
           result == Sheet!ParseCsv(text)
<1>2. /\ RowRead(read[pos[n]], First(all, n - 1), rows[n])
      /\ pos[n] # Len(text) => At(last, all, << >>, << >>, FALSE, FALSE)
    BY <1>1, ReadsLines
<1>3. all \in Seq(Seq(Text)) /\ Len(all) = n /\ rows[n] \in Seq(Text) /\ all[n] = AsRead(rows[n])
    <2>1. n \in 1..n
        OBVIOUS
    <2> QED BY <2>1, RowsAre
<1>4. \A i \in 1..n : all[i] = rows[i] \/ ~(Sheet!HasContent(all[i]) \/ Sheet!HasContent(rows[i]))
    BY AllReadAgrees
<1>5. result = Result(last)
    BY <1>1
<1> HIDE DEF last, all, result
<1>6. Sheet!Filled(all) = Sheet!Filled(rows)
    <2>1. /\ n \in Nat /\ n <= Len(all) /\ n <= Len(rows)
          /\ \A i \in (n + 1)..Len(all) : ~Sheet!HasContent(all[i])
          /\ \A i \in (n + 1)..Len(rows) : ~Sheet!HasContent(rows[i])
        BY <1>3
    <2> QED BY <1>3, <1>4, <2>1, FilledAgrees
<1>7. CASE pos[n] # Len(text)
    <2>1. last \in State /\ last.rows = all /\ last.row = << >> /\ last.field = << >>
        BY <1>2, <1>7 DEF At
    <2>2. result = all \/ result = Append(all, BlankRow)
        BY <1>5, <2>1, Ends, BlankRows DEF Result
    <2>3. Sheet!Filled(Append(all, BlankRow)) = Sheet!Filled(rows)
        <3> DEFINE more == Append(all, BlankRow)
        <3>1. /\ more \in Seq(Seq(Text)) /\ Len(more) = n + 1 /\ more[n + 1] = BlankRow
              /\ \A i \in 1..n : more[i] = all[i]
            BY <1>3, BlankRows, AppendProperties
        <3> HIDE DEF more
        <3>2. \A i \in 1..n : more[i] = rows[i] \/ ~(Sheet!HasContent(more[i]) \/ Sheet!HasContent(rows[i]))
            BY <1>4, <3>1
        <3>3. \A i \in (n + 1)..Len(more) : ~Sheet!HasContent(more[i])
            <4>1. \A i \in (n + 1)..Len(more) : i = n + 1
                BY <3>1
            <4> QED BY <3>1, <4>1, BlankRows
        <3>4. n \in Nat /\ n <= Len(more) /\ n <= Len(rows) /\ \A i \in (n + 1)..Len(rows) : ~Sheet!HasContent(rows[i])
            BY <3>1
        <3> QED BY <3>1, <3>2, <3>3, <3>4, FilledAgrees DEF more
    <2> QED BY <1>6, <1>7, <2>2, <2>3 DEF result
<1>8. CASE pos[n] = Len(text)
    <2> DEFINE before == First(all, n - 1)
    <2>1. /\ before \in Seq(Seq(Text)) /\ Len(before) = n - 1 /\ Append(before, all[n]) = all
          /\ \A i \in 1..(n - 1) : before[i] = all[i]
        <3>1. n \in 1..n /\ n - 1 \in 0..n
            OBVIOUS
        <3>2. First(all, n) = all /\ before \in Seq(Seq(Text)) /\ Len(before) = n - 1 /\ Append(before, all[n]) = First(all, n)
            BY <1>3, <3>1, FirstOf
        <3>3. \A i \in 1..(n - 1) : before[i] = all[i]
            BY DEF First
        <3> QED BY <3>2, <3>3
    <2>a. read[pos[n]] = last
        BY <1>8 DEF last
    <2>2. PICK cells, field : /\ At(last, before, cells, field, FALSE, FALSE)
                              /\ Append(cells, field) = AsRead(rows[n])
        BY <1>2, <2>a DEF RowRead
    <2> HIDE DEF before
    <2>3. last \in State /\ last.rows = before /\ last.row = cells /\ last.field = field
        BY <2>2 DEF At
    <2>4. result = all \/ (result = before /\ cells = << >> /\ field = << >>)
        <3>1. Sheet!EndRecord(last).rows = Append(before, Append(cells, field))
            BY <2>3, Ends
        <3>2. Append(before, Append(cells, field)) = all
            BY <1>3, <2>1, <2>2
        <3>3. result = Sheet!EndRecord(last).rows \/ (result = before /\ cells = << >> /\ field = << >>)
            BY <1>5, <2>3 DEF Result
        <3> QED BY <3>1, <3>2, <3>3
    <2>5. CASE cells = << >> /\ field = << >>
        <3>1. AsRead(rows[n]) = BlankRow
            BY <2>2, <2>5, BlankRows
        <3>2. rows[n] = << >> \/ rows[n] = BlankRow
            BY <3>1 DEF AsRead
        <3>3. Len(rows[n]) < 2 /\ ~Sheet!HasContent(rows[n])
            <4>1. CASE rows[n] = << >>
                <5>1. Len(rows[n]) = 0
                    BY <4>1
                <5> QED BY <4>1, <5>1, BlankRows
            <4>2. CASE rows[n] = BlankRow
                <5>1. Len(rows[n]) = 1
                    BY <4>2, BlankRows
                <5> QED BY <4>2, <5>1, BlankRows
            <4> QED BY <3>2, <4>1, <4>2
        <3>4. Sheet!Filled(before) = Sheet!Filled(rows)
            <4> DEFINE m == n - 1
            <4>1. m \in Nat /\ m <= Len(before) /\ m <= Len(rows) /\ m + 1 = n /\ Len(before) = m
                BY <2>1
            <4>2. \A i \in 1..m : i \in 1..n
                OBVIOUS
            <4> HIDE DEF m
            <4>3. \A i \in 1..m : before[i] = rows[i] \/ ~(Sheet!HasContent(before[i]) \/ Sheet!HasContent(rows[i]))
                BY <1>4, <2>1, <4>2 DEF m
            <4>4. \A i \in (m + 1)..Len(before) : ~Sheet!HasContent(before[i])
                BY <4>1
            <4>5. \A i \in (m + 1)..Len(rows) : ~Sheet!HasContent(rows[i])
                <5>1. \A i \in (m + 1)..Len(rows) : i = n
                    BY <4>1
                <5> QED BY <3>3, <5>1
            <4> QED BY <2>1, <4>1, <4>3, <4>4, <4>5, FilledAgrees
        <3>5. ~(Len(rows[n]) >= 2)
            <4>1. Len(rows[n]) \in Nat
                BY <1>3
            <4> QED BY <3>3, <4>1
        <3> QED BY <1>6, <2>4, <3>4, <3>5 DEF result
    <2>6. CASE ~(cells = << >> /\ field = << >>)
        <3>1. result = all
            BY <2>4, <2>6
        <3> QED BY <1>6, <3>1 DEF result, all
    <2> QED BY <2>5, <2>6
<1> QED BY <1>7, <1>8

\* A sheet as it is written: rows with line ends between them.
LEMMA Written ==
    ASSUME NEW rows \in Seq(Seq(Text)), NEW n \in Nat \ {0}, n = Len(rows), NEW end \in LineEnd
    PROVE  LET text == Sheet!Join(RowTexts(rows), end)
           IN  text \in Text /\ \E pos : Lines(n, RowTexts(rows), end, text, pos) /\ pos[n] = Len(text)
<1> DEFINE u == RowTexts(rows)
<1>1. u \in Seq(Text) /\ n = Len(u) /\ end \in Text
    BY RowsAre, LineEndIs
<1> HIDE DEF u
<1> DEFINE text == Sheet!Join(u, end)
<1>2. text \in Text /\ \E pos : Joined(n, u, end, text, pos)
    BY <1>1, JoinParts DEF Text
<1> HIDE DEF text
<1>3. PICK pos : Joined(n, u, end, text, pos)
    BY <1>2
<1>4. Lines(n, u, end, text, pos) /\ pos[n] = Len(text)
    BY <1>3 DEF Joined, Lines
<1> QED BY <1>2, <1>4 DEF text, u

\* The same with a line end after the last row.
LEMMA WrittenClosed ==
    ASSUME NEW rows \in Seq(Seq(Text)), NEW n \in Nat \ {0}, n = Len(rows), NEW end \in LineEnd
    PROVE  LET text == Sheet!Join(RowTexts(rows), end) \o end
           IN  text \in Text /\ \E pos : Lines(n, RowTexts(rows), end, text, pos)
<1> DEFINE u == RowTexts(rows)
           flat == Sheet!Join(u, end)
           text == flat \o end
<1>1. end \in Text /\ flat \in Text /\ \E pos : Lines(n, u, end, flat, pos) /\ pos[n] = Len(flat)
    BY Written, LineEndIs
<1>2. \A r \in 1..n : u[r] \in Text
    BY RowsAre
<1> HIDE DEF u, flat
<1>3. PICK pos : Lines(n, u, end, flat, pos) /\ pos[n] = Len(flat)
    BY <1>1
<1>4. /\ text \in Text /\ Len(text) = Len(flat) + Len(end) /\ Here(text, Len(flat), end)
      /\ \A p, v : v \in Text /\ Here(flat, p, v) => Here(text, p, v)
    BY <1>1, ConcatProperties, HereGrows DEF Text
<1> HIDE DEF text
<1>5. /\ pos \in [1..n -> Nat] /\ pos[1] = Len(u[1]) /\ Here(flat, 0, u[1])
      /\ \A k \in 1..(n - 1) :
            /\ Here(flat, pos[k], end) /\ Here(flat, pos[k] + Len(end), u[k + 1])
            /\ pos[k + 1] = pos[k] + Len(end) + Len(u[k + 1])
    BY <1>3 DEF Lines
<1>6. u[1] \in Text /\ \A k \in 1..(n - 1) : u[k + 1] \in Text
    <2>1. 1 \in 1..n /\ \A k \in 1..(n - 1) : k + 1 \in 1..n
        OBVIOUS
    <2> QED BY <1>2, <2>1
<1>7. Lines(n, u, end, text, pos)
    BY <1>1, <1>3, <1>4, <1>5, <1>6 DEF Lines
<1> QED BY <1>4, <1>7 DEF text, u, flat

LEMMA ToCsvIs ==
    ASSUME NEW rows
    PROVE  Sheet!ToCsv(rows) = Sheet!Join(RowTexts(rows), <<Sheet!CR, Sheet!LF>>)
BY DEF Sheet!ToCsv, RowTexts, RowText, Escaped

LEMMA OneRow == ASSUME NEW row \in Seq(Text) PROVE Sheet!ToCsv(<<row>>) = RowText(row)
<1> DEFINE rows == <<row>>
           end == <<Sheet!CR, Sheet!LF>>
<1>1. rows \in Seq(Seq(Text)) /\ Len(rows) = 1 /\ rows[1] = row /\ DOMAIN rows = {1}
    OBVIOUS
<1> HIDE DEF rows
<1>2. RowTexts(rows) = [r \in {1} |-> RowText(row)] /\ RowText(row) \in Text
    <2>1. 1 \in 1..Len(rows)
        BY <1>1
    <2>2. RowTexts(rows) = [r \in {1} |-> RowText(row)]
        BY <1>1 DEF RowTexts
    <2>3. RowText(row) \in Text
        BY <1>1, <2>1, RowsAre
    <2> QED BY <2>2, <2>3
<1>3. RowTexts(rows) = <<RowText(row)>>
    BY <1>2
<1>4. end \in Text
    BY LineEndIs DEF LineEnd
<1> HIDE DEF end
<1>5. Sheet!Join(<<RowText(row)>>, end) = RowText(row)
    BY <1>2, <1>4, JoinOne DEF Text
<1>6. Sheet!ToCsv(rows) = Sheet!Join(RowTexts(rows), end)
    BY ToCsvIs DEF end
<1> QED BY <1>3, <1>5, <1>6 DEF rows

\* A table that is written and read again.
LEMMA ReadsWritten ==
    ASSUME NEW rows \in Seq(Seq(Text)), NEW n \in Nat \ {0}, n = Len(rows)
    PROVE  /\ Sheet!Filled(Sheet!ParseCsv(Sheet!ToCsv(rows))) = Sheet!Filled(rows)
           /\ Len(rows[n]) >= 2 => Sheet!ParseCsv(Sheet!ToCsv(rows)) = AllRead(rows)
<1> DEFINE end == <<Sheet!CR, Sheet!LF>>
           text == Sheet!Join(RowTexts(rows), end)
<1>1. end \in LineEnd
    BY DEF LineEnd
<1>2. Sheet!ToCsv(rows) = text
    BY ToCsvIs
<1> HIDE DEF end
<1>3. text \in Text /\ \E pos : Lines(n, RowTexts(rows), end, text, pos) /\ pos[n] = Len(text)
    BY <1>1, Written
<1> HIDE DEF text
<1>4. PICK pos : Lines(n, RowTexts(rows), end, text, pos) /\ pos[n] = Len(text)
    BY <1>3
<1> QED BY <1>1, <1>2, <1>3, <1>4, ParsesLines

LEMMA RoundTrips ==
    ASSUME sheet \in Seq(Seq(Text)), sheet # << >>
    PROVE  Sheet!RoundTrip
<1>1. Len(sheet) \in Nat \ {0}
    BY EmptySeq
<1> QED BY <1>1, ReadsWritten DEF Sheet!RoundTrip

LEMMA LineEndsAreAlike ==
    ASSUME sheet \in Seq(Seq(Text)), sheet # << >>
    PROVE  Sheet!LineEnds
<1> DEFINE n == Len(sheet)
<1>1. n \in Nat \ {0} /\ DOMAIN sheet = 1..n /\ \A r \in 1..n : sheet[r] \in Seq(Text)
    BY EmptySeq, RowsAre
<1>2. [r \in DOMAIN sheet |-> Sheet!ToCsv(<<sheet[r]>>)] = RowTexts(sheet)
    <2>1. \A r \in DOMAIN sheet : Sheet!ToCsv(<<sheet[r]>>) = RowText(sheet[r])
        BY <1>1, OneRow
    <2> QED BY <2>1 DEF RowTexts
<1>3. ASSUME NEW end \in LineEnd
      PROVE  Sheet!Filled(Sheet!ParseCsv(Sheet!Join(RowTexts(sheet), end) \o end)) = Sheet!Filled(sheet)
    <2> DEFINE text == Sheet!Join(RowTexts(sheet), end) \o end
    <2>1. n \in Nat \ {0} /\ n = Len(sheet)
        BY <1>1
    <2> HIDE DEF n
    <2>2. text \in Text /\ \E pos : Lines(n, RowTexts(sheet), end, text, pos)
        BY <2>1, WrittenClosed
    <2> HIDE DEF text
    <2>3. PICK pos : Lines(n, RowTexts(sheet), end, text, pos)
        BY <2>2
    <2>4. Sheet!Filled(Sheet!ParseCsv(text)) = Sheet!Filled(sheet)
        BY <2>1, <2>2, <2>3, ParsesLines
    <2> QED BY <2>4 DEF text
<1> DEFINE u == [r \in DOMAIN sheet |-> Sheet!ToCsv(<<sheet[r]>>)]
<1>4. Sheet!LineEnds <=> \A end \in LineEnd : Sheet!Filled(Sheet!ParseCsv(Sheet!Join(u, end) \o end)) = Sheet!Filled(sheet)
    BY DEF Sheet!LineEnds, LineEnd
<1>5. u = RowTexts(sheet)
    BY <1>2
<1> HIDE DEF u
<1> QED BY <1>3, <1>4, <1>5

-----------------------------------------------------------------------------
(* Csv: ReportRoundTrip.                                                   *)

Extends(long, row, a, b) ==
    /\ long \in Seq(Text) /\ Len(long) = Len(row) + 2 /\ \A c \in 1..Len(row) : long[c] = row[c]
    /\ long[Len(row) + 1] = a /\ long[Len(row) + 2] = b

LEMMA ReportedIs ==
    ASSUME NEW row \in Seq(Text), NEW a \in Text, NEW b \in Text
    PROVE  Extends(Sheet!Reported(row, a, b), row, a, b)
<1> DEFINE one == Append(row, a)
           n == Len(row)
<1>1. /\ one \in Seq(Text) /\ Len(one) = n + 1 /\ one[n + 1] = a /\ n \in Nat
      /\ \A c \in 1..n : one[c] = row[c]
    BY AppendProperties
<1> HIDE DEF one, n
<1> DEFINE two == Append(one, b)
<1>2. /\ two \in Seq(Text) /\ Len(two) = Len(one) + 1 /\ two[Len(one) + 1] = b
      /\ \A c \in 1..Len(one) : two[c] = one[c]
    BY <1>1, AppendProperties
<1> HIDE DEF two
<1>3. Len(two) = n + 2 /\ two[n + 2] = b /\ two[n + 1] = a /\ \A c \in 1..n : two[c] = row[c]
    <2>1. (n + 1) + 1 = n + 2 /\ n + 1 \in 1..(n + 1) /\ \A c \in 1..n : c \in 1..(n + 1)
        BY <1>1
    <2> QED BY <1>1, <1>2, <2>1
<1> QED BY <1>2, <1>3 DEF Sheet!Reported, Extends, one, two, n

Extra == {<<"l">>, <<"e">>}

LEMMA ExtraIs == Extra \subseteq Text /\ <<"1">> \in Text
<1>1. "l" \in Chars /\ "e" \in Chars /\ "1" \in Chars
    BY DEF Chars
<1> QED BY <1>1 DEF Extra, Text

\* The two columns of the report change no error.
LEMMA SameErrors ==
    ASSUME NEW header \in Seq(Text), NEW row \in Seq(Text), Len(row) >= Len(header),
           NEW a \in Extra, NEW b \in Extra, NEW x \in Text, NEW y \in Text,
           Extra \intersect DOMAIN ColumnMap = {}
    PROVE  Sheet!RowErrors(Sheet!Reported(row, x, y), Sheet!Reported(header, a, b)) = Sheet!RowErrors(row, header)
<1> DEFINE n == Len(header)
           h == Sheet!Reported(header, a, b)
           r == Sheet!Reported(row, x, y)
<1>1. a \in Text /\ b \in Text /\ a \notin DOMAIN ColumnMap /\ b \notin DOMAIN ColumnMap
    BY ExtraIs
<1>2. /\ n \in Nat /\ h \in Seq(Text) /\ Len(h) = n + 2 /\ h[n + 1] = a /\ h[n + 2] = b
      /\ \A c \in 1..n : h[c] = header[c]
    <2>1. Extends(h, header, a, b)
        BY <1>1, ReportedIs
    <2> HIDE DEF h
    <2> QED BY <2>1 DEF Extends
<1>3. r \in Seq(Text) /\ Len(r) >= n /\ Len(row) >= n /\ \A c \in 1..n : r[c] = row[c]
    <2>1. Extends(r, row, x, y)
        BY ReportedIs
    <2> HIDE DEF r
    <2>2. Len(row) \in Nat /\ n \in Nat /\ Len(row) >= n
        OBVIOUS
    <2>3. \A c \in 1..n : c \in 1..Len(row)
        BY <2>2
    <2> HIDE DEF n
    <2> QED BY <2>1, <2>2, <2>3 DEF Extends
<1>a. DOMAIN header = 1..n
    OBVIOUS
<1> HIDE DEF n, h, r
<1>4. Sheet!MapHeaders(h) = Sheet!MapHeaders(header)
    <2>1. DOMAIN h = 1..(n + 2)
        BY <1>2
    <2>2. \A c \in 1..(n + 2) : c \in 1..n \/ c = n + 1 \/ c = n + 2
        BY <1>2
    <2>3. \A c \in 1..n : c \in 1..(n + 2)
        BY <1>2
    <2>4. \A c : (c \in DOMAIN h /\ h[c] \in DOMAIN ColumnMap) <=> (c \in DOMAIN header /\ header[c] \in DOMAIN ColumnMap)
        BY <1>1, <1>2, <1>a, <2>1, <2>2, <2>3
    <2> QED BY <2>4 DEF Sheet!MapHeaders
<1>5. ASSUME NEW c \in Sheet!MapHeaders(header)
      PROVE  h[c] = header[c] /\ Sheet!Cell(r, c) = Sheet!Cell(row, c)
    <2>1. c \in 1..n
        BY <1>a DEF Sheet!MapHeaders
    <2>2. c <= Len(r) /\ c <= Len(row)
        BY <1>2, <1>3, <2>1
    <2>3. Sheet!Cell(r, c) = r[c] /\ Sheet!Cell(row, c) = row[c]
        BY <1>3, <2>2 DEF Sheet!Cell
    <2> QED BY <1>2, <1>3, <2>1, <2>3
<1>6. Sheet!RowErrors(r, h) = Sheet!RowErrors(row, header)
    BY <1>4, <1>5 DEF Sheet!RowErrors
<1> QED BY <1>6 DEF h, r

\* Rows of at least two cells are read as they were written.
LEMMA WideRows ==
    ASSUME NEW rows \in Seq(Seq(Text)), rows # << >>, \A r \in 1..Len(rows) : Len(rows[r]) >= 2
    PROVE  Sheet!ParseCsv(Sheet!ToCsv(rows)) = rows
<1> DEFINE n == Len(rows)
<1>1. n \in Nat \ {0} /\ DOMAIN rows = 1..n /\ Len(rows[n]) >= 2
    <2>1. n \in Nat \ {0}
        BY EmptySeq
    <2>2. n \in 1..n
        BY <2>1
    <2> QED BY <2>1, <2>2
<1>2. \A r \in 1..n : AsRead(rows[r]) = rows[r]
    <2> SUFFICES ASSUME NEW r \in 1..n PROVE AsRead(rows[r]) = rows[r]
        OBVIOUS
    <2>1. Len(<< >>) = 0 /\ Len(rows[r]) >= 2
        OBVIOUS
    <2>2. rows[r] # << >>
        BY <2>1
    <2> QED BY <2>2 DEF AsRead
<1>3. AllRead(rows) = rows
    <2>1. AllRead(rows) = [r \in 1..n |-> rows[r]]
        BY <1>1, <1>2 DEF AllRead
    <2>2. rows = [r \in 1..n |-> rows[r]]
        OBVIOUS
    <2> QED BY <2>1, <2>2
<1>4. n = Len(rows)
    OBVIOUS
<1> HIDE DEF n
<1> QED BY <1>1, <1>3, <1>4, ReadsWritten

Records == [line : Nat, cells : Seq(Text)]

LEMMA PicksFrom ==
    ASSUME NEW A, NEW s \in Seq(A), NEW P
    PROVE  Sheet!Picked(s, P) \in Seq(A)
<1> DEFINE n == Len(s)
<1>1. n \in Nat /\ n = Len(s)
    BY LenProperties
<1> HIDE DEF n
<1>2. PICK K : Kept(A, n, s, P, K) /\ Sheet!Picked(s, P) = K[n]
    BY <1>1, Picks
<1>3. n \in 0..n
    BY <1>1
<1> QED BY <1>2, <1>3 DEF Kept

LEMMA DataAre ==
    ASSUME NEW A, NEW rows \in Seq(A), rows # << >>
    PROVE  Sheet!DataRows(rows) \in Seq(A)
<1>1. Tail(rows) \in Seq(A)
    BY HeadTailProperties
<1> QED BY <1>1, PicksFrom DEF Sheet!DataRows, Sheet!Filled

LEMMA RejectedAre ==
    ASSUME NEW rows \in Seq(Seq(Text)), rows # << >>
    PROVE  Sheet!Rejected(rows) \in Seq(Records)
<1> DEFINE data == Sheet!DataRows(rows)
           n == Len(data)
           records == [i \in DOMAIN data |-> [line |-> i + 1, cells |-> data[i]]]
           P == {i \in DOMAIN data : Sheet!RowErrors(data[i], rows[1]) # {}}
<1>1. data \in Seq(Seq(Text))
    BY DataAre
<1>2. Sheet!Rejected(rows) = Sheet!Picked(records, P)
    BY DEF Sheet!Rejected
<1> HIDE DEF data, P
<1>3. n \in Nat /\ DOMAIN data = 1..n /\ \A i \in 1..n : data[i] \in Seq(Text)
    BY <1>1
<1>4. records \in [1..n -> Records]
    <2>1. \A i \in 1..n : i + 1 \in Nat
        OBVIOUS
    <2> QED BY <1>3, <2>1 DEF Records
<1> HIDE DEF n, records
<1>5. records \in Seq(Records)
    BY <1>3, <1>4
<1> QED BY <1>2, <1>5, PicksFrom

LEMMA ReportsRoundTrip ==
    ASSUME sheet \in Seq(Seq(Text)), sheet # << >>, Extra \intersect DOMAIN ColumnMap = {}
    PROVE  Sheet!ReportRoundTrip
<1> DEFINE header == sheet[1]
           l == <<"l">>
           e == <<"e">>
           o == <<"1">>
           R == Sheet!Rejected(sheet)
           n == Len(R)
           top == Sheet!Reported(header, l, e)
           rest == [i \in DOMAIN R |-> Sheet!Reported(R[i].cells, o, e)]
           rows == <<top>> \o rest
<1>1. Sheet!RejectedCsv(sheet) = Sheet!ToCsv(rows) /\ Sheet!Header = header
    BY DEF Sheet!RejectedCsv, Sheet!Reported, Sheet!Header
<1>2. l \in Extra /\ e \in Extra /\ l \in Text /\ e \in Text /\ o \in Text
    BY ExtraIs DEF Extra
<1>3. header \in Seq(Text)
    <2>1. Len(sheet) \in Nat \ {0}
        BY EmptySeq
    <2>2. 1 \in 1..Len(sheet)
        BY <2>1
    <2> QED BY <2>2, ElementOfSeq
<1>5. R \in Seq(Records)
    BY RejectedAre
<1> HIDE DEF R, l, e, o
<1>6. n \in Nat /\ DOMAIN R = 1..n /\ \A i \in 1..n : R[i].cells \in Seq(Text)
    <2>1. n \in Nat /\ DOMAIN R = 1..n /\ \A i \in 1..n : R[i] \in Records
        BY <1>5, ElementOfSeq
    <2> QED BY <2>1 DEF Records
<1>7. top \in Seq(Text) /\ Len(top) >= 2
    <2>1. Extends(top, header, l, e)
        BY <1>2, <1>3, ReportedIs
    <2> HIDE DEF top
    <2> QED BY <1>3, <2>1 DEF Extends
<1>8. \A i \in 1..n : rest[i] \in Seq(Text) /\ Len(rest[i]) >= 2
    <2> SUFFICES ASSUME NEW i \in 1..n PROVE rest[i] \in Seq(Text) /\ Len(rest[i]) >= 2
        OBVIOUS
    <2>1. rest[i] = Sheet!Reported(R[i].cells, o, e)
        BY <1>6
    <2> DEFINE row == R[i].cells
    <2>2. row \in Seq(Text) /\ Len(row) \in Nat
        BY <1>6
    <2> HIDE DEF row
    <2>3. Extends(Sheet!Reported(row, o, e), row, o, e)
        BY <1>2, <2>2, ReportedIs
    <2>4. rest[i] = Sheet!Reported(row, o, e)
        BY <2>1 DEF row
    <2> HIDE DEF rest
    <2> QED BY <2>2, <2>3, <2>4 DEF Extends
<1> HIDE DEF header, top, n
<1>9. rest \in Seq(Seq(Text)) /\ Len(rest) = n
    <2>1. rest \in [1..n -> Seq(Text)]
        BY <1>6, <1>8
    <2> HIDE DEF rest
    <2> QED BY <1>6, <2>1
<1>10. \A i \in 1..n : rest[i] = Sheet!Reported(R[i].cells, o, e)
    BY <1>6
<1> HIDE DEF rest
<1>11. /\ rows \in Seq(Seq(Text)) /\ Len(rows) = 1 + n /\ rows[1] = top
       /\ \A i \in 1..n : rows[i + 1] = rest[i]
    <2> DEFINE one == <<top>>
    <2>1. one \in Seq(Seq(Text)) /\ Len(one) = 1 /\ one[1] = top
        BY <1>7
    <2> HIDE DEF one
    <2>2. /\ one \o rest \in Seq(Seq(Text)) /\ Len(one \o rest) = 1 + n
          /\ \A i \in 1..(1 + n) : (one \o rest)[i] = IF i <= 1 THEN one[i] ELSE rest[i - 1]
        <3>1. one \in Seq(Seq(Text)) /\ rest \in Seq(Seq(Text))
            BY <1>9, <2>1
        <3>2. /\ one \o rest \in Seq(Seq(Text)) /\ Len(one \o rest) = Len(one) + Len(rest)
              /\ \A i \in 1..(Len(one) + Len(rest)) : (one \o rest)[i] =
                     IF i <= Len(one) THEN one[i] ELSE rest[i - Len(one)]
            BY <3>1, ConcatProperties
        <3> QED BY <1>9, <2>1, <3>2
    <2>3. 1 \in 1..(1 + n) /\ \A i \in 1..n : i + 1 \in 1..(1 + n) /\ ~(i + 1 <= 1) /\ (i + 1) - 1 = i
        BY <1>6
    <2> QED BY <2>1, <2>2, <2>3 DEF one
<1> HIDE DEF rows
<1>12. Sheet!ParseCsv(Sheet!ToCsv(rows)) = rows
    <2>1. rows # << >>
        <3>1. Len(rows) # 0 /\ Len(<< >>) = 0
            BY <1>6, <1>11
        <3> QED BY <3>1
    <2>2. \A r \in 1..Len(rows) : Len(rows[r]) >= 2
        <3> SUFFICES ASSUME NEW r \in 1..(1 + n) PROVE Len(rows[r]) >= 2
            BY <1>11
        <3>1. CASE r = 1
            BY <1>7, <1>11, <3>1
        <3>2. CASE r # 1
            <4>1. r - 1 \in 1..n /\ (r - 1) + 1 = r
                BY <1>6, <3>2
            <4> QED BY <1>8, <1>11, <4>1
        <3> QED BY <3>1, <3>2
    <2> QED BY <1>11, <2>1, <2>2, WideRows
<1>13. ASSUME NEW i \in 1..n
       PROVE  /\ rows[i + 1] = Sheet!Reported(R[i].cells, o, e)
              /\ Len(R[i].cells) >= Len(header) =>
                     Sheet!RowErrors(rows[i + 1], rows[1]) = Sheet!RowErrors(R[i].cells, header)
    <2>1. rows[i + 1] = Sheet!Reported(R[i].cells, o, e) /\ R[i].cells \in Seq(Text)
        BY <1>6, <1>10, <1>11
    <2>2. ASSUME Len(R[i].cells) >= Len(header)
          PROVE  Sheet!RowErrors(rows[i + 1], rows[1]) = Sheet!RowErrors(R[i].cells, header)
        <3> DEFINE row == R[i].cells
        <3>1. row \in Seq(Text) /\ Len(row) >= Len(header) /\ rows[i + 1] = Sheet!Reported(row, o, e)
            BY <2>1, <2>2
        <3> HIDE DEF row
        <3>2. Sheet!RowErrors(Sheet!Reported(row, o, e), Sheet!Reported(header, l, e)) = Sheet!RowErrors(row, header)
            BY <1>2, <1>3, <3>1, SameErrors
        <3> QED BY <1>11, <3>1, <3>2 DEF top, row
    <2> QED BY <2>1, <2>2
<1>14. rows[1] = Sheet!Reported(header, l, e)
    BY <1>11 DEF top
<1> QED BY <1>1, <1>6, <1>11, <1>12, <1>13, <1>14 DEF R, n, header, Sheet!Header, l, e, o, Sheet!ReportRoundTrip

-----------------------------------------------------------------------------
(* Csv: InsertedInPlace.                                                   *)

LEMMA SheetFinite ==
    \A S : (Sheet!IsFiniteSet(S) <=> IsFiniteSet(S)) /\ Sheet!Cardinality(S) = Cardinality(S)
BY DEF Sheet!IsFiniteSet, IsFiniteSet, Sheet!Cardinality, Cardinality

LEMMA ColumnsListed ==
    ASSUME NEW header \in Seq(Text)
    PROVE  \E k \in Nat : DOMAIN Sheet!Columns(header) = 1..k /\ Len(Sheet!Columns(header)) = k
<1> DEFINE M == Sheet!MapHeaders(header)
           S == {ColumnMap[header[c]].column : c \in M}
           n == Cardinality(S)
           list == Sheet!Columns(header)
<1>1. IsFiniteSet(S)
    <2>1. IsFiniteSet(1..Len(header)) /\ M \subseteq 1..Len(header)
        BY FS_Interval DEF Sheet!MapHeaders
    <2>2. IsFiniteSet(M)
        BY <2>1, FS_Subset
    <2> DEFINE f == [c \in M |-> ColumnMap[header[c]].column]
    <2>3. f \in Surjection(M, S)
        BY DEF Surjection
    <2> HIDE DEF M, S, f
    <2> QED BY <2>2, <2>3, FS_Surjection
<1>2. n \in Nat /\ ExistsBijection(1..n, S)
    <2> HIDE DEF S
    <2> QED BY <1>1, FS_CardinalityType
<1>3. list = Sheet!SetToSeq(S)
    BY DEF Sheet!Columns
<1> HIDE DEF S, list
<1>4. PICK f \in [1..n -> S] : Sheet!IsInjective(f)
    BY <1>2 DEF ExistsBijection, Bijection, Injection, IsInjective, Sheet!IsInjective
<1>5. list \in [1..n -> S]
    BY <1>3, <1>4, SheetFinite DEF Sheet!SetToSeq
<1> HIDE DEF n
<1>6. DOMAIN list = 1..n /\ Len(list) = n
    BY <1>2, <1>5
<1> QED BY <1>2, <1>6 DEF list

\* Rows of one width, one after the other.
LEMMA FlatInPlace ==
    ASSUME NEW S, NEW u \in Seq(Seq(S)), NEW k \in Nat, \A r \in 1..Len(u) : Len(u[r]) = k
    PROVE  \A r \in 1..Len(u), c \in 1..k : Sheet!FlattenSeq(u)[(r - 1) * k + c] = u[r][c]
<1> DEFINE n == Len(u)
           flat == Sheet!FlattenSeq(u)
<1>1. n \in Nat /\ n = Len(u)
    BY LenProperties
<1>2. PICK pos : Piled(n, u, flat, pos)
    BY <1>1, FlatHas
<1> HIDE DEF n, flat
<1>3. pos[0] = 0 /\ \A r \in 1..n : pos[r] = pos[r - 1] + k /\ Here(flat, pos[r - 1], u[r])
    BY <1>1, <1>2 DEF Piled
<1> DEFINE E == {m \in Nat : m <= n => pos[m] = m * k}
<1>4. 0 \in E
    <2>1. 0 * k = 0
        OBVIOUS
    <2> QED BY <1>3, <2>1
<1>5. ASSUME NEW m \in Nat, m \in E PROVE m + 1 \in E
    <2>1. CASE m + 1 <= n
        <3>1. m + 1 \in 1..n /\ (m + 1) - 1 = m /\ m <= n
            BY <1>1, <2>1
        <3>2. pos[m + 1] = pos[m] + k
            BY <1>3, <3>1
        <3>3. pos[m] = m * k
            BY <1>5, <3>1
        <3>4. (m + 1) * k = m * k + k
            OBVIOUS
        <3>5. pos[m + 1] = (m + 1) * k
            BY <3>2, <3>3, <3>4
        <3> QED BY <3>5
    <2> QED BY <2>1
<1> HIDE DEF E
<1>6. Nat \subseteq E
    BY <1>4, <1>5, Induct
<1>7. ASSUME NEW r \in 1..n, NEW c \in 1..k PROVE flat[(r - 1) * k + c] = u[r][c]
    <2>1. r - 1 \in Nat /\ r - 1 <= n
        BY <1>1
    <2>2. pos[r - 1] = (r - 1) * k
        BY <1>6, <2>1 DEF E
    <2>3. Here(flat, pos[r - 1], u[r]) /\ Len(u[r]) = k
        BY <1>1, <1>3
    <2>4. flat[pos[r - 1] + c] = u[r][c]
        BY <2>3 DEF Here
    <2> QED BY <2>2, <2>4
<1> QED BY <1>7 DEF n, flat

LEMMA InsertsInPlace ==
    ASSUME sheet \in Seq(Seq(Text)), sheet # << >>
    PROVE  Sheet!InsertedInPlace
<1> DEFINE header == Sheet!Header
           columns == Sheet!Columns(header)
           valid == Sheet!ValidRows(sheet)
           n == Len(valid)
           V(r, c) == Sheet!Value(valid[r], header, columns[c])
           values == [r \in DOMAIN valid |-> [c \in DOMAIN columns |-> V(r, c)]]
<1>1. header \in Seq(Text)
    <2>1. Len(sheet) \in Nat \ {0}
        BY EmptySeq
    <2>2. 1 \in 1..Len(sheet)
        BY <2>1
    <2> QED BY <2>2, ElementOfSeq DEF Sheet!Header
<1>2. PICK k \in Nat : DOMAIN columns = 1..k /\ Len(columns) = k
    <2> HIDE DEF header
    <2> QED BY <1>1, ColumnsListed
<1>3. valid \in Seq(Seq(Text))
    <2>1. Sheet!DataRows(sheet) \in Seq(Seq(Text))
        BY DataAre
    <2> QED BY <2>1, PicksFrom DEF Sheet!ValidRows
<1>4. n \in Nat /\ DOMAIN valid = 1..n
    BY <1>3
<1> DEFINE S == {V(r, c) : r \in 1..n, c \in 1..k}
<1>5. \A r \in 1..n, c \in 1..k : V(r, c) \in S
    OBVIOUS
<1>a. Sheet!InsertedInPlace <=> \A r \in DOMAIN valid, c \in DOMAIN columns :
                                    Sheet!FlattenSeq(values)[(r - 1) * Len(columns) + c] = V(r, c)
    BY DEF Sheet!InsertedInPlace, Sheet!InsertedCell, Sheet!Placeholder
<1> HIDE DEF header, columns, valid, n, V, S
<1>6. values = [r \in 1..n |-> [c \in 1..k |-> V(r, c)]]
    BY <1>2, <1>4
<1> HIDE DEF values
<1>7. \A r \in 1..n : values[r] = [c \in 1..k |-> V(r, c)]
    BY <1>6
<1>8. \A r \in 1..n : values[r] \in Seq(S) /\ Len(values[r]) = k /\ \A c \in 1..k : values[r][c] = V(r, c)
    <2> SUFFICES ASSUME NEW r \in 1..n
                 PROVE  values[r] \in Seq(S) /\ Len(values[r]) = k /\ \A c \in 1..k : values[r][c] = V(r, c)
        OBVIOUS
    <2> DEFINE row == values[r]
    <2>1. row \in [1..k -> S] /\ \A c \in 1..k : row[c] = V(r, c)
        BY <1>5, <1>7
    <2> HIDE DEF row
    <2>2. row \in Seq(S) /\ Len(row) = k
        BY <2>1
    <2> QED BY <2>1, <2>2 DEF row
<1>9. values \in Seq(Seq(S)) /\ Len(values) = n
    <2>1. values \in [1..n -> Seq(S)]
        BY <1>6, <1>8
    <2> QED BY <1>4, <2>1
<1>10. \A r \in 1..Len(values) : Len(values[r]) = k
    BY <1>8, <1>9
<1>11. \A r \in 1..n, c \in 1..k : Sheet!FlattenSeq(values)[(r - 1) * k + c] = values[r][c]
    BY <1>9, <1>10, FlatInPlace
<1>12. \A r \in DOMAIN valid, c \in DOMAIN columns : Sheet!FlattenSeq(values)[(r - 1) * Len(columns) + c] = V(r, c)
    <2> SUFFICES ASSUME NEW r \in 1..n, NEW c \in 1..k
                 PROVE  Sheet!FlattenSeq(values)[(r - 1) * Len(columns) + c] = V(r, c)
        BY <1>2, <1>4
    <2>1. (r - 1) * Len(columns) + c = (r - 1) * k + c
        BY <1>2
    <2>2. values[r][c] = V(r, c)
        BY <1>8
    <2>3. Sheet!FlattenSeq(values)[(r - 1) * k + c] = values[r][c]
        BY <1>11
    <2> QED BY <2>1, <2>2, <2>3
<1> QED BY <1>12, <1>a

-----------------------------------------------------------------------------
(* Csv                                                                     *)

LEMMA TextsAreText == Seq(Seq(Seq(STRING))) \subseteq Seq(Seq(Text))
<1>1. ASSUME NEW A, NEW B, A \subseteq B PROVE Seq(A) \subseteq Seq(B)
    BY <1>1, SeqMonotonic
<1>2. STRING \subseteq Chars
    BY DEF Chars
<1> QED BY <1>1, <1>2 DEF Text

LEMMA SheetIsSafe ==
    ASSUME Sheet!Sane, sheet \in Sheets \union {Sheet!Unread}
    PROVE  Sheet!Safety
<1> SUFFICES ASSUME sheet # Sheet!Unread
             PROVE  Sheet!RoundTrip /\ Sheet!LineEnds /\ Sheet!ReportRoundTrip /\ Sheet!InsertedInPlace
    BY DEF Sheet!Safety
<1>1. sheet \in Seq(Seq(Text)) /\ sheet # << >>
    BY TextsAreText DEF Sheet!Sane, Sheet!Unread
<1>2. Extra \intersect DOMAIN ColumnMap = {}
    BY DEF Sheet!Sane, Extra
<1> QED BY <1>1, <1>2, RoundTrips, LineEndsAreAlike, ReportsRoundTrip, InsertsInPlace

LEMMA SheetHolds == Sheet!Spec => []Sheet!Safety
<1> DEFINE Inv == sheet \in Sheets \union {Sheet!Unread}
<1>1. Sheet!Init => Inv
    BY DEF Sheet!Init
<1>2. Inv /\ [Sheet!Next]_sheet => Inv'
    BY DEF Sheet!Next
<1>3. Inv => Sheet!Safety
    BY SheetSane, SheetIsSafe
<1> QED BY <1>1, <1>2, <1>3, PTL DEF Sheet!Spec

-----------------------------------------------------------------------------
(* CsvImport                                                               *)

LEMMA ImportInitHolds == ASSUME Import!Sane, Import!Init PROVE Import!IInv
<1> USE DEF Import!Init, Import!NoImport, Import!Away
<1>1. Import!Shape
  BY DEF Import!Shape, Import!ImportRow, Import!Importer, Import!Owning
<1>2. Import!MergedOnce /\ Import!FinishedIsComplete
  BY DEF Import!MergedOnce, Import!FinishedIsComplete
<1>3. Import!OneOwner /\ Import!Progress
  BY DEF Import!OneOwner, Import!Progress, Import!DoneBy, Import!Owner, Import!Owning,
       Import!Known
<1> QED BY <1>1, <1>2, <1>3 DEF Import!IInv

LEMMA ImportTypeCorrect == ASSUME Import!Sane, Import!Shape PROVE Import!TypeOK
BY DEF Import!Sane, Import!Shape, Import!ImportRow, Import!Importer, Import!Owning,
     Import!TypeOK

LEMMA ImporterChange ==
    ASSUME NEW i \in Import!Importer, NEW at \in Import!Owning \union {"idle", "seen"},
           NEW v \in SheetVersions \union {0}, NEW n \in Nat
    PROVE  /\ [Import!Away EXCEPT !.at = at, !.etag = v] \in Import!Importer
           /\ [i EXCEPT !.at = at, !.body = v] \in Import!Importer
           /\ [i EXCEPT !.at = at, !.left = n] \in Import!Importer
BY DEF Import!Importer, Import!Away

LEMMA ImportReportRow ==
    ASSUME Import!Sane, NEW w \in SheetVersions
    PROVE  [status |-> Import!Outcome(w), read |-> w, imported |-> Valid[w], rejected |-> Invalid[w],
            report |-> Invalid[w] > 0] \in Import!ImportRow
<1>1. Import!Outcome(w) \in {"ready", "failed"}
  BY DEF Import!Outcome
<1>2. \A n \in Nat : (n > 0) \in BOOLEAN
  OBVIOUS
<1>3. Valid[w] \in Nat /\ Invalid[w] \in Nat /\ (Invalid[w] > 0) \in BOOLEAN
  BY <1>2 DEF Import!Sane
<1> QED BY <1>1, <1>2, <1>3 DEF Import!ImportRow

LEMMA ImportStepHolds ==
    ASSUME Import!Sane, Import!IInv, [Import!Next]_(Import!vars)
    PROVE  Import!IInv'
<1> USE DEF Import!IInv, Import!Sane, Import!Shape, Import!MergedOnce,
     Import!FinishedIsComplete, Import!OneOwner,
            Import!Progress, Import!DoneBy, Import!Owner, Import!Owning, Import!Known, Import!NoImport, Import!Away
<1>1. CASE Import!Upload
  BY <1>1 DEF Import!Upload
<1>2. CASE Import!ResetStuck
  <2>1. PICK S \in SUBSET {v \in SheetVersions : imports[v].status \in Import!Mid} :
          imports' = [v \in SheetVersions |->
                         IF v \in S THEN [imports[v] EXCEPT !.status = "pending"] ELSE imports[v]]
    BY <1>2 DEF Import!ResetStuck
  <2>2. UNCHANGED <<current, importer, merged, errorRows, reports>>
    BY <1>2 DEF Import!ResetStuck
  <2>3. ASSUME NEW v \in SheetVersions
        PROVE  /\ imports'[v] \in Import!ImportRow /\ imports'[v].read = imports[v].read
               /\ Import!Known(v) <=> imports'[v].status # "none"
               /\ imports'[v].status \in {"ready", "failed"} => imports'[v] = imports[v]
    <3>1. imports[v] \in Import!ImportRow
      OBVIOUS
    <3>2. CASE v \in S
      <4>1. imports'[v] = [imports[v] EXCEPT !.status = "pending"]
        BY <2>1, <3>2
      <4>2. imports[v].status \in Import!Mid
        BY <3>2
      <4> QED BY <3>1, <4>1, <4>2 DEF Import!ImportRow, Import!Mid
    <3>3. CASE v \notin S
      BY <2>1, <3>1, <3>3
    <3> QED BY <3>2, <3>3
  <2>4. imports' \in [SheetVersions -> Import!ImportRow]
    <3>1. imports' = [v \in SheetVersions |-> imports'[v]]
      BY <2>1
    <3> QED BY <2>3, <3>1
  <2>5. Import!Shape'
    BY <2>2, <2>4
  <2>6. Import!MergedOnce' /\ Import!FinishedIsComplete'
    BY <2>2, <2>3
  <2>7. Import!OneOwner'
    BY <2>2, <2>3
  <2>8. Import!Progress'
    BY <2>2, <2>3
  <2> QED BY <2>5, <2>6, <2>7, <2>8
<1>3. ASSUME NEW p \in Import!Deliveries, Import!Deliver(p) PROVE Import!IInv'
  <2>1. current \in SheetVersions
    BY <1>3 DEF Import!Deliver
  <2>1a. [Import!Away EXCEPT !.at = "seen", !.etag = current] \in Import!Importer
    BY <2>1, ImporterChange
  <2>2. Import!Shape'
    BY <1>3, <2>1, <2>1a DEF Import!Deliver
  <2>3. Import!MergedOnce' /\ Import!FinishedIsComplete' /\ Import!OneOwner'
    BY <1>3 DEF Import!Deliver
  <2>4. Import!Progress'
    BY <1>3 DEF Import!Deliver
  <2> QED BY <2>2, <2>3, <2>4
<1>4. ASSUME NEW p \in Import!Deliveries, Import!Claim(p) PROVE Import!IInv'
  <2> DEFINE v == importer[p].etag
  <2>1. v \in SheetVersions
    BY <1>4 DEF Import!Claim
  <2>2. CASE Import!Known(v)
    <3>1. Import!Away \in Import!Importer
      BY DEF Import!Importer
    <3>2. Import!Shape'
      BY <1>4, <2>2, <3>1 DEF Import!Claim
    <3>3. Import!MergedOnce' /\ Import!FinishedIsComplete'
      BY <1>4, <2>2 DEF Import!Claim
    <3>4. Import!OneOwner'
      BY <1>4, <2>2 DEF Import!Claim
    <3>5. Import!Progress'
      BY <1>4, <2>2 DEF Import!Claim
    <3> QED BY <3>2, <3>3, <3>4, <3>5
  <2>3. CASE ~Import!Known(v)
    <3>1. /\ imports' = [imports EXCEPT ![v] = [Import!NoImport EXCEPT !.status = "parsing"]]
          /\ importer' = [importer EXCEPT ![p].at = "claimed"]
          /\ UNCHANGED <<current, merged, errorRows, reports>>
      BY <1>4, <2>3 DEF Import!Claim
    <3>2. [Import!NoImport EXCEPT !.status = "parsing"] \in Import!ImportRow
      BY DEF Import!ImportRow
    <3>3. [importer[p] EXCEPT !.at = "claimed"] \in Import!Importer
      BY DEF Import!Importer
    <3>4. Import!Shape'
      BY <1>4, <2>1, <3>1, <3>2, <3>3 DEF Import!Claim
    <3>5. Import!MergedOnce' /\ Import!FinishedIsComplete'
      BY <2>1, <3>1
    <3>6. Import!OneOwner'
      BY <2>1, <2>3, <3>1
    <3>7. Import!Progress'
      BY <2>1, <2>3, <3>1
    <3> QED BY <3>4, <3>5, <3>6, <3>7
  <2> QED BY <2>2, <2>3
<1>5. ASSUME NEW p \in Import!Deliveries, Import!Read(p) PROVE Import!IInv'
  <2> DEFINE v == importer[p].etag
  <2>1. v \in SheetVersions /\ current \in SheetVersions
    BY <1>5 DEF Import!Read
  <2>2. CASE current \in Mapped
    <3>1. /\ importer' = [importer EXCEPT ![p].at = "read", ![p].body = current]
          /\ UNCHANGED <<current, imports, merged, errorRows, reports>>
      BY <1>5, <2>2 DEF Import!Read
    <3>2. [importer[p] EXCEPT !.at = "read", !.body = current] \in Import!Importer
      BY <2>1, ImporterChange
    <3>3. Import!Shape'
      BY <2>1, <3>1, <3>2
    <3>4. Import!MergedOnce' /\ Import!FinishedIsComplete' /\ Import!OneOwner'
      BY <1>5, <3>1 DEF Import!Read
    <3>5. Import!Progress'
      BY <1>5, <2>1, <3>1 DEF Import!Read
    <3> QED BY <3>3, <3>4, <3>5
  <2>3. CASE current \notin Mapped
    <3>1. /\ imports' = [imports EXCEPT ![v] = [Import!NoImport EXCEPT !.status = "failed"]]
          /\ importer' = [importer EXCEPT ![p] = Import!Away]
          /\ UNCHANGED <<current, merged, errorRows, reports>>
      BY <1>5, <2>3 DEF Import!Read
    <3>2. [Import!NoImport EXCEPT !.status = "failed"] \in Import!ImportRow /\ Import!Away \in Import!Importer
      BY DEF Import!ImportRow, Import!Importer
    <3>3. Import!Shape'
      BY <2>1, <3>1, <3>2
    <3>4. Import!MergedOnce' /\ Import!FinishedIsComplete' /\ Import!OneOwner'
      BY <1>5, <2>1, <3>1 DEF Import!Read
    <3>5. Import!Progress'
      BY <1>5, <2>1, <3>1 DEF Import!Read
    <3> QED BY <3>3, <3>4, <3>5
  <2> QED BY <2>2, <2>3
<1>6. ASSUME NEW p \in Import!Deliveries, Import!StartMerge(p) PROVE Import!IInv'
  <2> DEFINE v == importer[p].etag
  <2>1. importer[p].at = "read" /\ v \in SheetVersions
    BY <1>6 DEF Import!StartMerge
  <2>2. /\ imports' = [imports EXCEPT ![v].status = "merging"]
        /\ importer' = [importer EXCEPT ![p].at = "merging"]
        /\ UNCHANGED <<current, merged, errorRows, reports>>
    BY <1>6 DEF Import!StartMerge
  <2>3. /\ imports'[v] \in Import!ImportRow /\ imports'[v].read = imports[v].read
        /\ imports'[v].status = "merging"
        /\ \A x \in SheetVersions \ {v} : imports'[x] = imports[x]
    BY <2>1, <2>2 DEF Import!ImportRow
  <2>4. /\ importer'[p] \in Import!Importer /\ importer'[p].at = "merging"
        /\ importer'[p].etag = v /\ importer'[p].body = importer[p].body
        /\ \A q \in Import!Deliveries \ {p} : importer'[q] = importer[q]
    BY <2>1, <2>2 DEF Import!Importer
  <2>5. imports' \in [SheetVersions -> Import!ImportRow] /\ importer' \in [Import!Deliveries -> Import!Importer]
    BY <2>2, <2>3, <2>4
  <2>6. Import!Shape'
    BY <2>1, <2>2, <2>4, <2>5
  <2>7. Import!MergedOnce' /\ Import!FinishedIsComplete'
    BY <2>1, <2>2, <2>3
  <2>8. Import!OneOwner'
    BY <2>1, <2>2, <2>3, <2>4
  <2>9. Import!Progress'
    BY <2>1, <2>2, <2>3, <2>4
  <2> QED BY <2>6, <2>7, <2>8, <2>9
<1>7. ASSUME NEW p \in Import!Deliveries, Import!Merge(p) PROVE Import!IInv'
  <2> DEFINE v == importer[p].etag
             w == importer[p].body
  <2>1. v \in SheetVersions /\ w \in SheetVersions
    BY <1>7 DEF Import!Merge
  <2>2. CASE w \in Clashing
    <3>1. importer' = [importer EXCEPT ![p] = Import!Away]
          /\ UNCHANGED <<current, imports, merged, errorRows, reports>>
      BY <1>7, <2>2 DEF Import!Merge
    <3>2. Import!Away \in Import!Importer
      BY DEF Import!Importer
    <3>3. Import!Shape'
      BY <3>1, <3>2
    <3>4. Import!MergedOnce' /\ Import!FinishedIsComplete' /\ Import!OneOwner' /\ Import!Progress'
      BY <3>1
    <3> QED BY <3>3, <3>4
  <2>3. CASE w \notin Clashing
    <3>1. /\ merged' = [merged EXCEPT ![v] = @ + IF Valid[w] > 0 THEN 1 ELSE 0]
          /\ importer' = [importer EXCEPT ![p].at = "reporting", ![p].left = Invalid[w]]
          /\ UNCHANGED <<current, imports, errorRows, reports>>
      BY <1>7, <2>3 DEF Import!Merge
    <3>2. [importer[p] EXCEPT !.at = "reporting", !.left = Invalid[w]] \in Import!Importer
      BY <2>1, ImporterChange
    <3>3. merged[v] = 0 /\ errorRows[v] = 0
      BY <1>7 DEF Import!Merge
    <3>4. merged' \in [SheetVersions -> Nat] /\ \A x \in SheetVersions : x # v => merged'[x] = merged[x]
      BY <2>1, <3>1, <3>3
    <3>5. merged'[v] <= 1 /\ (Valid[w] > 0 => merged'[v] = 1)
      BY <2>1, <3>1, <3>3
    <3>6. Import!Shape'
      <4>1. importer' \in [Import!Deliveries -> Import!Importer]
        BY <3>1, <3>2
      <4>2. \A q \in Import!Deliveries : importer'[q].at # "idle" => importer'[q].etag \in SheetVersions
                                                              /\ current \in SheetVersions
        BY <1>7, <2>1, <3>1 DEF Import!Merge, Import!Importer
      <4> QED BY <3>1, <3>4, <4>1, <4>2
    <3>7. Import!MergedOnce' /\ Import!FinishedIsComplete' /\ Import!OneOwner'
      BY <1>7, <2>1, <3>1, <3>4, <3>5 DEF Import!Merge
    <3>8. Import!Progress'
      BY <1>7, <2>1, <3>1, <3>3, <3>4, <3>5 DEF Import!Merge
    <3> QED BY <3>6, <3>7, <3>8
  <2> QED BY <2>2, <2>3
<1>8. ASSUME NEW p \in Import!Deliveries, Import!RecordError(p) PROVE Import!IInv'
  <2> DEFINE v == importer[p].etag
  <2>1. v \in SheetVersions
    BY <1>8 DEF Import!RecordError
  <2>2. [importer[p] EXCEPT !.left = @ - 1] \in Import!Importer
    BY <1>8 DEF Import!RecordError, Import!Importer
  <2>3. Import!Shape'
    BY <1>8, <2>1, <2>2 DEF Import!RecordError
  <2>4. Import!MergedOnce' /\ Import!FinishedIsComplete' /\ Import!OneOwner'
    BY <1>8, <2>1 DEF Import!RecordError
  <2>5. Import!Progress'
    <3>1. importer[p].left \in Nat /\ errorRows[v] \in Nat
      BY <2>1 DEF Import!Importer
    <3>2. /\ importer'[p] = [importer[p] EXCEPT !.left = @ - 1]
          /\ errorRows'[v] = errorRows[v] + 1
          /\ \A q \in Import!Deliveries : q # p => importer'[q] = importer[q]
          /\ \A x \in SheetVersions : x # v => errorRows'[x] = errorRows[x]
          /\ UNCHANGED <<imports, merged, reports>>
      BY <1>8, <2>1 DEF Import!RecordError
    <3>3. Import!DoneBy(importer[p])'
      <4> DEFINE w == importer[p].body
      <4>1. /\ importer[p].at = "reporting" /\ w \in SheetVersions
            /\ Valid[w] > 0 => merged[v] = 1
            /\ errorRows[v] + importer[p].left = Invalid[w]
        BY <1>8 DEF Import!RecordError
      <4>2. /\ importer'[p].at = "reporting" /\ importer'[p].etag = v /\ importer'[p].body = w
            /\ importer'[p].left = importer[p].left - 1
        BY <4>1, <3>2 DEF Import!Importer
      <4>n. errorRows[v] \in Nat /\ importer[p].left \in Nat /\ v \in SheetVersions
        BY <3>1, <4>1 DEF Import!Importer
      <4>m. errorRows'[v] = errorRows[v] + 1 /\ importer'[p].left = importer[p].left - 1
        BY <3>2, <4>2
      <4>3. errorRows'[v] + importer'[p].left = Invalid[w]
        BY <4>1, <4>n, <4>m
      <4> QED BY <3>2, <4>1, <4>2, <4>3
    <3>4. ASSUME NEW q \in Import!Deliveries, q # p PROVE Import!DoneBy(importer[q])'
      BY <1>8, <2>1, <3>2, <3>4 DEF Import!RecordError
    <3>5. \A x \in SheetVersions : ~Import!Known(x)' => merged'[x] = 0 /\ errorRows'[x] = 0
      BY <1>8, <2>1, <3>2 DEF Import!RecordError
    <3> QED BY <3>3, <3>4, <3>5
  <2> QED BY <2>3, <2>4, <2>5
<1>9. ASSUME NEW p \in Import!Deliveries, Import!PutReport(p) PROVE Import!IInv'
  BY <1>9 DEF Import!PutReport, Import!Importer
<1>10. ASSUME NEW p \in Import!Deliveries, Import!Finish(p) PROVE Import!IInv'
  <2> DEFINE v == importer[p].etag
             w == importer[p].body
             row == [status |-> Import!Outcome(w), read |-> w, imported |-> Valid[w],
                     rejected |-> Invalid[w], report |-> Invalid[w] > 0]
  <2>1. v \in SheetVersions /\ w \in SheetVersions
    BY <1>10 DEF Import!Finish
  <2>2. row \in Import!ImportRow /\ Import!Away \in Import!Importer
    BY <2>1, ImportReportRow DEF Import!Importer
  <2>3. /\ imports' = [imports EXCEPT ![v] = row] /\ importer' = [importer EXCEPT ![p] = Import!Away]
        /\ UNCHANGED <<current, merged, errorRows, reports>>
    BY <1>10 DEF Import!Finish
  <2>4. Import!Shape'
    BY <2>1, <2>2, <2>3
  <2>5. Import!MergedOnce'
    BY <2>3
  <2>6. Import!FinishedIsComplete'
    <3>1. /\ Valid[w] > 0 => merged[v] = 1
          /\ errorRows[v] = Invalid[w]
          /\ Invalid[w] > 0 => v \in reports
      <4>1. errorRows[v] + importer[p].left = Invalid[w] /\ importer[p].left = 0
        BY <1>10 DEF Import!Finish
      <4>2. errorRows[v] \in Nat
        BY <2>1
      <4>3. (Valid[w] > 0 => merged[v] = 1) /\ (Invalid[w] > 0 => v \in reports)
        BY <1>10 DEF Import!Finish
      <4> QED BY <4>1, <4>2, <4>3
    <3>2. imports'[v] = row /\ \A x \in SheetVersions : x # v => imports'[x] = imports[x]
      BY <2>1, <2>3
    <3> QED BY <2>1, <2>3, <3>1, <3>2
  <2>7. Import!OneOwner'
    BY <1>10, <2>1, <2>3 DEF Import!Finish
  <2>8. Import!Progress'
    BY <1>10, <2>1, <2>3 DEF Import!Finish, Import!Outcome
  <2> QED BY <2>4, <2>5, <2>6, <2>7, <2>8
<1>11. ASSUME NEW p \in Import!Deliveries, Import!Die(p) PROVE Import!IInv'
  BY <1>11 DEF Import!Die, Import!Importer
<1>12. CASE UNCHANGED Import!vars
  BY <1>12 DEF Import!vars
<1> QED
  BY <1>1, <1>2, <1>3, <1>4, <1>5, <1>6, <1>7, <1>8, <1>9, <1>10, <1>11, <1>12 DEF Import!Next

\* Triggers that come twice, imports that die and resets of the reconcile run never make
\* a version's rows come twice, or an import look complete that is not.
LEMMA ImportHolds == Import!Spec => []Import!Safety
<1>1. Import!Init => Import!IInv
  BY ImportSane, ImportInitHolds
<1>2. Import!IInv /\ [Import!Next]_(Import!vars) => Import!IInv'
  BY ImportSane, ImportStepHolds
<1>3. Import!IInv => Import!Safety
  BY ImportSane, ImportTypeCorrect DEF Import!IInv, Import!Safety
<1> QED BY <1>1, <1>2, <1>3, PTL DEF Import!Spec

-----------------------------------------------------------------------------
(* ImageDerivatives                                                        *)

\* The block counts as FiniteSets does.
LEMMA ImagesFinite ==
    \A S : (Images!IsFiniteSet(S) <=> IsFiniteSet(S)) /\ Images!Cardinality(S) = Cardinality(S)
BY DEF Images!IsFiniteSet, IsFiniteSet, Images!Cardinality, Cardinality

LEMMA ImagesRowChange ==
    ASSUME NEW d \in Images!Row, NEW k \in Sources, NEW c \in Images!AllContents, NEW b \in BOOLEAN,
           NEW s \in {"none", "generating", "ready", "rejected", "orphaned"}
    PROVE  /\ Images!NoRow \in Images!Row
           /\ [key |-> k, etag |-> c, status |-> s, marked |-> b] \in Images!Row
           /\ [d EXCEPT !.status = s] \in Images!Row
           /\ [d EXCEPT !.status = s, !.marked = TRUE] \in Images!Row
<1>1. Images!NoRow \in Images!Row
  <2>1. FALSE \in BOOLEAN
    OBVIOUS
  <2> QED BY <2>1 DEF Images!NoRow, Images!Row
<1>2. [key |-> k, etag |-> c, status |-> s, marked |-> b] \in Images!Row
  BY DEF Images!Row
<1>3. [d EXCEPT !.status = s] \in Images!Row
  BY DEF Images!Row
<1>4. [d EXCEPT !.status = s, !.marked = TRUE] \in Images!Row
  BY DEF Images!Row
<1> QED BY <1>1, <1>2, <1>3, <1>4

\* One request comes to another state.
LEMMA ImagesRequestChange ==
    ASSUME Images!Requested, NEW q \in ImageRequests, NEW w \in Images!Request,
           request' = [request EXCEPT ![q] = w],
           w.at \notin {"idle", "answered"} => w.key \in Sources,
           w.at \in {"upserted", "got", "put"} => w.row \in DerivRows
    PROVE  Images!Requested'
<1>1. request' \in [ImageRequests -> Images!Request]
  BY DEF Images!Requested
<1>2. \A x \in ImageRequests : request'[x] = IF x = q THEN w ELSE request[x]
  BY DEF Images!Requested
<1> QED BY <1>1, <1>2 DEF Images!Requested

\* What a request holds.
LEMMA ImagesRequests ==
    ASSUME Images!Requested, NEW q \in ImageRequests
    PROVE  /\ request[q] \in Images!Request
           /\ Images!NoRequest \in Images!Request /\ Images!NoRequest.at = "idle"
           /\ Images!Answered \in Images!Request /\ Images!Answered.at = "answered"
BY DEF Images!Requested, Images!Request, Images!NoRequest, Images!Answered

LEMMA ImagesInitHolds == ASSUME Images!Init PROVE Images!IInv
<1> USE DEF Images!Init
<1>1. derivs \in [DerivRows -> Images!Row]
  <2>1. Images!NoRow \in Images!Row
    <3>1. FALSE \in BOOLEAN
      OBVIOUS
    <3> QED BY <3>1 DEF Images!NoRow, Images!Row
  <2> QED BY <2>1
<1>2. Images!TypeOK
  BY <1>1 DEF Images!TypeOK, Images!Row
<1>3. Images!Requested
  <2>1. Images!NoRequest \in Images!Request /\ Images!NoRequest.at = "idle"
    BY DEF Images!Request, Images!NoRequest
  <2> QED BY <2>1 DEF Images!Requested
<1>4. Images!RowsAreOfSources /\ Images!OneRowEach
  BY DEF Images!RowsAreOfSources, Images!OneRowEach, Images!NoRow
<1>5. Images!Listed /\ Images!ListedSourcesKeep
  BY DEF Images!Listed, Images!ListedSourcesKeep
<1>6. Images!BudgetHolds
  BY ImagesSane DEF Images!Sane, Images!BudgetHolds
<1> QED BY <1>2, <1>3, <1>4, <1>5, <1>6 DEF Images!IInv

\* Steps of a request that leave the rows, the files and the run alone.
LEMMA ImagesQuietStep ==
    ASSUME Images!IInv, UNCHANGED <<derivs, files, Images!runVars>>, Images!Requested',
           source' \in [Sources -> Images!AllContents \union {0}]
    PROVE  Images!IInv'
<1> USE DEF Images!IInv
<1>1. UNCHANGED <<orphanRun, seen, absent, batch, doomed, wronged>>
  BY DEF Images!runVars
<1>2. Images!TypeOK'
  BY <1>1 DEF Images!TypeOK
<1>3. Images!RowsAreOfSources' /\ Images!OneRowEach'
  BY DEF Images!RowsAreOfSources, Images!OneRowEach
<1>4. Images!Listed' /\ Images!ListedSourcesKeep' /\ Images!BudgetHolds'
  BY <1>1 DEF Images!Listed, Images!ListedSourcesKeep, Images!BudgetHolds
<1> QED BY <1>2, <1>3, <1>4

\* What changes the rows keeps their keys, and those that are free.
LEMMA ImagesKeptRows ==
    ASSUME Images!IInv,
           \A q \in DerivRows : /\ derivs'[q].key = derivs[q].key /\ derivs'[q].etag = derivs[q].etag
                                /\ derivs'[q].status = "none" <=> derivs[q].status = "none"
                                /\ derivs[q].status = "none" => derivs'[q] = derivs[q]
    PROVE  Images!RowsAreOfSources' /\ Images!OneRowEach'
<1> USE DEF Images!IInv
<1>1. Images!RowsAreOfSources'
  BY DEF Images!RowsAreOfSources
<1>2. Images!OneRowEach'
  BY DEF Images!OneRowEach
<1> QED BY <1>1, <1>2

\* An update by id.
LEMMA ImagesSetStep ==
    ASSUME Images!IInv, NEW r \in DerivRows, NEW s \in {"ready", "rejected"}, Images!Set(r, s),
           UNCHANGED <<source, files, Images!runVars>>, Images!Requested'
    PROVE  Images!IInv'
<1> USE DEF Images!IInv
<1>1. UNCHANGED <<orphanRun, seen, absent, batch, doomed, wronged>>
  BY DEF Images!runVars
<1>2. derivs \in [DerivRows -> Images!Row] /\ derivs[r] \in Images!Row
  BY DEF Images!TypeOK, Images!Row
<1>3. CASE derivs[r].status = "none"
  <2>1. derivs' = [derivs EXCEPT ![r] = [derivs[r] EXCEPT !.status = derivs[r].status]]
    BY <1>2, <1>3 DEF Images!Set
  <2>2. [derivs[r] EXCEPT !.status = derivs[r].status] = derivs[r]
    BY <1>2 DEF Images!Row
  <2>3. derivs' = derivs
    BY <1>2, <2>1, <2>2
  <2>4. source' \in [Sources -> Images!AllContents \union {0}]
    BY DEF Images!TypeOK
  <2> QED BY <2>3, <2>4, ImagesQuietStep
<1>4. CASE derivs[r].status # "none"
  <2>1. derivs' = [derivs EXCEPT ![r] = [derivs[r] EXCEPT !.status = s]]
    BY <1>2, <1>4 DEF Images!Set
  <2>2. [derivs[r] EXCEPT !.status = s] \in Images!Row
    BY <1>2 DEF Images!Row
  <2>3. derivs' \in [DerivRows -> Images!Row]
    BY <1>2, <2>1, <2>2
  <2>4. /\ derivs'[r].key = derivs[r].key /\ derivs'[r].etag = derivs[r].etag
        /\ derivs'[r].status = s /\ \A q \in DerivRows \ {r} : derivs'[q] = derivs[q]
    BY <1>2, <2>1, <2>2 DEF Images!Row
  <2>5. Images!TypeOK'
    BY <1>1, <2>3 DEF Images!TypeOK, Images!Row
  <2>6. Images!RowsAreOfSources' /\ Images!OneRowEach'
    BY <1>4, <2>4, ImagesKeptRows
  <2>7. Images!Listed' /\ Images!ListedSourcesKeep' /\ Images!BudgetHolds'
    BY <1>1 DEF Images!Listed, Images!ListedSourcesKeep, Images!BudgetHolds
  <2> QED BY <2>5, <2>6, <2>7
<1> QED BY <1>3, <1>4

\* From a complete listing it is known which sources under the prefix are gone.
LEMMA ImagesCompleteListing ==
    ASSUME seen \subseteq Prefixed, absent \subseteq Sources, seen \intersect absent = {}, Images!Complete
    PROVE  Prefixed \subseteq seen \union absent
<1> DEFINE away == absent \intersect Prefixed
<1>1. IsFiniteSet(Prefixed) /\ IsFiniteSet(seen) /\ IsFiniteSet(away)
  BY ImagesSane, FS_Subset, ImagesFinite DEF Images!Sane
<1>2. Cardinality(away \union seen) = Cardinality(away) + Cardinality(seen) - Cardinality(away \intersect seen)
  BY <1>1, FS_Union
<1>3. away \intersect seen = {}
  OBVIOUS
<1>4. Cardinality(away \intersect seen) = 0
  BY <1>3, FS_EmptySet
<1>5. Cardinality(away) \in Nat /\ Cardinality(seen) \in Nat
  BY <1>1, FS_CardinalityType
<1>6. Cardinality(away \union seen) = Cardinality(Prefixed)
  <2>1. Cardinality(away) + Cardinality(seen) = Cardinality(Prefixed)
    BY ImagesFinite DEF Images!Complete
  <2> QED BY <1>2, <1>4, <1>5, <2>1
<1>7. away \union seen \in SUBSET Prefixed
  OBVIOUS
<1>8. Prefixed = away \union seen
  BY <1>1, <1>6, <1>7, FS_Subset
<1> QED BY <1>8

LEMMA ImagesStepHolds == ASSUME Images!IInv, [Images!Next]_(Images!vars) PROVE Images!IInv'
<1> USE DEF Images!IInv
<1>0. Images!TypeOK /\ derivs \in [DerivRows -> Images!Row]
  BY DEF Images!TypeOK, Images!Row
<1>1. ASSUME NEW k \in Sources, NEW c \in Contents[k] \union {0}, Images!PutSource(k, c) PROVE Images!IInv'
  <2>1. c \in Images!AllContents \union {0}
    BY DEF Images!AllContents
  <2>2. source' \in [Sources -> Images!AllContents \union {0}]
    BY <1>0, <1>1, <2>1 DEF Images!PutSource, Images!TypeOK
  <2>3. Images!Requested'
    BY <1>1 DEF Images!PutSource, Images!Requested
  <2> QED BY <1>1, <2>2, <2>3, ImagesQuietStep DEF Images!PutSource
<1>2. ASSUME NEW q \in ImageRequests, NEW k \in Sources, Images!Ask(q, k) PROVE Images!IInv'
  <2> DEFINE w == [at |-> "headed", key |-> k, etag |-> source[k], body |-> 0, row |-> 0]
  <2>1. source[k] \in Images!AllContents
    BY <1>0, <1>2 DEF Images!Ask, Images!TypeOK
  <2>2. w \in Images!Request /\ w.at = "headed" /\ w.key = k
    BY <2>1 DEF Images!Request
  <2>3. request' = [request EXCEPT ![q] = w] /\ UNCHANGED <<source, derivs, files, Images!runVars>>
    BY <1>2 DEF Images!Ask
  <2> HIDE DEF w
  <2>4. Images!Requested'
    BY <2>2, <2>3, ImagesRequestChange
  <2> QED BY <1>0, <2>3, <2>4, ImagesQuietStep DEF Images!TypeOK
<1>3. ASSUME NEW q \in ImageRequests, Images!Hit(q) \/ Images!FailRequest(q) PROVE Images!IInv'
  <2>1. /\ request' = [request EXCEPT ![q] = Images!Answered]
        /\ UNCHANGED <<source, derivs, files, Images!runVars>>
    BY <1>3 DEF Images!Hit, Images!FailRequest
  <2>2. Images!Requested'
    BY <2>1, ImagesRequests, ImagesRequestChange
  <2> QED BY <1>0, <2>1, <2>2, ImagesQuietStep DEF Images!TypeOK
<1>m. ASSUME NEW q \in ImageRequests, Images!Miss(q) PROVE Images!IInv'
  <2> DEFINE w == [request[q] EXCEPT !.at = "missed"]
  <2>1. request[q].at = "headed" /\ UNCHANGED <<source, derivs, files, Images!runVars>>
    BY <1>m DEF Images!Miss
  <2>2. w \in Images!Request /\ w.at = "missed" /\ w.key = request[q].key
    BY ImagesRequests DEF Images!Request
  <2>3. request' = [request EXCEPT ![q] = w]
    BY <1>m DEF Images!Miss
  <2> HIDE DEF w
  <2>4. Images!Requested'
    <3>1. request[q].key \in Sources
      BY <2>1 DEF Images!Requested
    <3> QED BY <2>2, <2>3, <3>1, ImagesRequestChange
  <2> QED BY <1>0, <2>1, <2>4, ImagesQuietStep DEF Images!TypeOK
<1>4. ASSUME NEW q \in ImageRequests, Images!Upsert(q) PROVE Images!IInv'
  <2> DEFINE k == request[q].key
             e == request[q].etag
             old == Images!Conflicting(k, e)
  <2>1. PICK r \in DerivRows :
              /\ IF old = {} THEN derivs[r].status = "none" ELSE r \in old
              /\ derivs' = [derivs EXCEPT ![r] =
                    IF old = {} THEN [key |-> k, etag |-> e,
                                      status |-> "generating", marked |-> FALSE]
                    ELSE [@ EXCEPT !.status = "generating"]]
              /\ request' = [request EXCEPT ![q] = [request[q] EXCEPT !.at = "upserted", !.row = r]]
    <3>1. q \in DOMAIN request
      BY DEF Images!Requested
    <3> QED BY <1>4, <3>1 DEF Images!Upsert
  <2>2. UNCHANGED <<source, files, Images!runVars>> /\ k \in Sources
    BY <1>4 DEF Images!Upsert, Images!Requested
  <2>3. UNCHANGED <<orphanRun, seen, absent, batch, doomed, wronged>>
    BY <2>2 DEF Images!runVars
  <2>4. /\ [request[q] EXCEPT !.at = "upserted", !.row = r] \in Images!Request
        /\ [request[q] EXCEPT !.at = "upserted", !.row = r].key = k
        /\ [request[q] EXCEPT !.at = "upserted", !.row = r].row = r
    BY ImagesRequests DEF Images!Request
  <2>5. Images!Requested'
    BY <2>1, <2>2, <2>4, ImagesRequestChange
  <2>6. Images!Listed' /\ Images!ListedSourcesKeep' /\ Images!BudgetHolds'
    BY <2>2, <2>3 DEF Images!Listed, Images!ListedSourcesKeep, Images!BudgetHolds
  <2>7. CASE old = {}
    <3> DEFINE new == [key |-> k, etag |-> e, status |-> "generating", marked |-> FALSE]
    <3>1. new \in Images!Row
      <4>1. k \in Sources \union {0} /\ e \in Images!AllContents \union {0} /\ FALSE \in BOOLEAN
        BY ImagesRequests DEF Images!Request
      <4> QED BY <4>1 DEF Images!Row
    <3>2. derivs' = [derivs EXCEPT ![r] = new] /\ derivs[r].status = "none"
      BY <2>1, <2>7
    <3>3. new.key = k /\ new.etag = e /\ new.status = "generating"
      OBVIOUS
    <3> HIDE DEF new
    <3>4. /\ derivs' \in [DerivRows -> Images!Row] /\ derivs'[r] = new
          /\ \A x \in DerivRows \ {r} : derivs'[x] = derivs[x]
      BY <1>0, <3>1, <3>2
    <3>5. Images!TypeOK'
      BY <1>0, <2>2, <2>3, <3>4 DEF Images!TypeOK, Images!Row
    <3>6. Images!RowsAreOfSources'
      BY <2>2, <3>3, <3>4 DEF Images!RowsAreOfSources
    <3>7. ASSUME WithHeight, NEW x \in DerivRows, derivs[x].status # "none"
          PROVE  ~(derivs[x].key = k /\ derivs[x].etag = e)
      BY <2>7, <3>7 DEF Images!Conflicting
    <3>8. Images!OneRowEach'
      <4> SUFFICES ASSUME WithHeight, NEW x \in DerivRows, NEW s \in DerivRows,
                          derivs'[x].status # "none", derivs'[x].key = derivs'[s].key,
                          derivs'[x].etag = derivs'[s].etag
                   PROVE  x = s
        BY DEF Images!OneRowEach
      <4>1. CASE x # r /\ s # r
        BY <3>4, <4>1 DEF Images!OneRowEach
      <4>2. CASE x # r /\ s = r
        BY <3>3, <3>4, <3>7, <4>2
      <4>3. CASE x = r /\ s # r
        <5>1. derivs[s].key = k /\ derivs[s].etag = e
          BY <3>3, <3>4, <4>3
        <5>2. derivs[s].status = "none"
          BY <3>7, <5>1
        <5>3. derivs[s].key = 0
          BY <5>2 DEF Images!RowsAreOfSources, Images!NoRow
        <5> QED BY <2>2, <5>1, <5>3, ImagesSane DEF Images!Sane
      <4> QED BY <4>1, <4>2, <4>3
    <3> QED BY <2>5, <2>6, <3>5, <3>6, <3>8
  <2>8. CASE old # {}
    <3>1. derivs' = [derivs EXCEPT ![r] = [derivs[r] EXCEPT !.status = "generating"]]
          /\ derivs[r].status # "none"
      BY <1>0, <2>1, <2>8 DEF Images!Conflicting
    <3>2. [derivs[r] EXCEPT !.status = "generating"] \in Images!Row
      <4>1. derivs[r] \in Images!Row
        BY <1>0
      <4> QED BY <4>1 DEF Images!Row
    <3>3. derivs' \in [DerivRows -> Images!Row]
      BY <1>0, <3>1, <3>2
    <3>4. /\ derivs'[r].key = derivs[r].key /\ derivs'[r].etag = derivs[r].etag
          /\ derivs'[r].status = "generating" /\ \A x \in DerivRows \ {r} : derivs'[x] = derivs[x]
      <4>1. derivs[r] \in Images!Row
        BY <1>0
      <4> QED BY <1>0, <3>1, <4>1 DEF Images!Row
    <3>5. Images!TypeOK'
      BY <1>0, <2>2, <2>3, <3>3 DEF Images!TypeOK, Images!Row
    <3>6. Images!RowsAreOfSources' /\ Images!OneRowEach'
      BY <3>1, <3>4, ImagesKeptRows
    <3> QED BY <2>5, <2>6, <3>5, <3>6
  <2> QED BY <2>7, <2>8
<1>5. ASSUME NEW q \in ImageRequests, Images!Get(q) PROVE Images!IInv'
  <2> DEFINE w == [request[q] EXCEPT !.at = "got", !.body = source[request[q].key]]
  <2>1. /\ source[request[q].key] \in Images!AllContents
        /\ request[q].key \in Sources /\ request[q].row \in DerivRows
    BY <1>0, <1>5 DEF Images!Get, Images!TypeOK, Images!Requested
  <2>2. w \in Images!Request /\ w.key = request[q].key /\ w.row = request[q].row
    BY <2>1, ImagesRequests DEF Images!Request
  <2>3. request' = [request EXCEPT ![q] = w] /\ UNCHANGED <<source, derivs, files, Images!runVars>>
    <3>1. q \in DOMAIN request
      BY DEF Images!Requested
    <3> QED BY <1>5, <3>1 DEF Images!Get
  <2> HIDE DEF w
  <2>4. Images!Requested'
    BY <2>1, <2>2, <2>3, ImagesRequestChange
  <2> QED BY <1>0, <2>3, <2>4, ImagesQuietStep DEF Images!TypeOK
<1>6. ASSUME NEW q \in ImageRequests, Images!Reject(q) \/ Images!Ready(q) PROVE Images!IInv'
  <2>1. request[q].row \in DerivRows
    BY <1>6 DEF Images!Reject, Images!Ready, Images!Requested
  <2>2. /\ request' = [request EXCEPT ![q] = Images!Answered]
        /\ UNCHANGED <<source, files, Images!runVars>>
        /\ Images!Set(request[q].row, "rejected") \/ Images!Set(request[q].row, "ready")
    BY <1>6 DEF Images!Reject, Images!Ready
  <2>3. Images!Requested'
    BY <2>2, ImagesRequests, ImagesRequestChange
  <2> QED BY <2>1, <2>2, <2>3, ImagesSetStep
<1>8. ASSUME NEW q \in ImageRequests, Images!Put(q) PROVE Images!IInv'
  <2> DEFINE w == [request[q] EXCEPT !.at = "put", !.body = 0]
  <2>1. /\ files' = [files EXCEPT ![<<BaseName[request[q].key], request[q].etag>>] = request[q].body]
        /\ request[q].body \notin OverBudget /\ request[q].at = "got"
        /\ UNCHANGED <<source, derivs, Images!runVars>>
    BY <1>8 DEF Images!Put, Images!FitsBudget
  <2>2. UNCHANGED <<orphanRun, seen, absent, batch, doomed, wronged>>
    BY <2>1 DEF Images!runVars
  <2>3. request[q].body \in Images!AllContents \union {0}
    BY ImagesRequests DEF Images!Request
  <2>4. files' \in [Images!Names -> Images!AllContents \union {0}] /\ Images!BudgetHolds'
    BY <1>0, <2>1, <2>3 DEF Images!TypeOK, Images!BudgetHolds
  <2>5. w \in Images!Request /\ w.key = request[q].key /\ w.row = request[q].row
    BY ImagesRequests DEF Images!Request
  <2>6. Images!TypeOK'
    BY <1>0, <2>1, <2>2, <2>4 DEF Images!TypeOK
  <2>7. Images!Requested'
    <3>1. request' = [request EXCEPT ![q] = w]
      BY <1>8 DEF Images!Put, Images!Requested
    <3>2. request[q].key \in Sources /\ request[q].row \in DerivRows
      BY <2>1 DEF Images!Requested
    <3> HIDE DEF w
    <3> QED BY <2>5, <3>1, <3>2, ImagesRequestChange
  <2>8. Images!RowsAreOfSources' /\ Images!OneRowEach'
    BY <2>1 DEF Images!RowsAreOfSources, Images!OneRowEach
  <2>9. Images!Listed' /\ Images!ListedSourcesKeep'
    BY <2>2 DEF Images!Listed, Images!ListedSourcesKeep
  <2> QED BY <2>4, <2>6, <2>7, <2>8, <2>9
<1>9. CASE Images!ListSources
  <2>1. seen' \subseteq Images!Existing \intersect Prefixed /\ absent' = Sources \ Images!Existing /\ orphanRun' = "listed"
        /\ UNCHANGED <<source, derivs, files, request, batch, doomed, wronged>>
    BY <1>9 DEF Images!ListSources
  <2>2. Images!Existing \subseteq Sources
    BY DEF Images!Existing
  <2>3. Images!TypeOK'
    BY <1>0, <2>1, <2>2 DEF Images!TypeOK
  <2>4. Images!Requested' /\ Images!Listed'
    BY <2>1 DEF Images!Requested, Images!Listed
  <2>5. Images!RowsAreOfSources' /\ Images!OneRowEach'
    BY <2>1 DEF Images!RowsAreOfSources, Images!OneRowEach
  <2>6. Images!ListedSourcesKeep' /\ Images!BudgetHolds'
    BY <2>1 DEF Images!ListedSourcesKeep, Images!BudgetHolds
  <2> QED BY <2>3, <2>4, <2>5, <2>6
<1>10. CASE Images!MarkOrphans
  <2> DEFINE gone == {r \in DerivRows : /\ derivs[r].status # "none" /\ ~derivs[r].marked
                                        /\ derivs[r].key \notin seen}
  <2>1. /\ Images!Complete
        /\ derivs' = [r \in DerivRows |->
               IF r \in gone THEN [derivs[r] EXCEPT !.status = "orphaned", !.marked = TRUE]
               ELSE derivs[r]]
        /\ wronged' = wronged \union ({derivs[r].key : r \in gone} \ absent)
        /\ batch' = {r \in DerivRows : derivs'[r].status = "orphaned"}
        /\ orphanRun' = "file" /\ seen' = {} /\ absent' = {}
        /\ UNCHANGED <<source, files, request, doomed>>
    BY <1>10 DEF Images!MarkOrphans, Images!TrustsListing
  <2>2. \A r \in gone : /\ derivs[r].status # "none" /\ derivs[r].key \in Sources
                        /\ derivs[r].key \in Prefixed => derivs[r].key \in absent
    <3>1. Prefixed \subseteq seen \union absent
      BY <1>0, <2>1, ImagesCompleteListing DEF Images!TypeOK, Images!Listed
    <3> QED BY <3>1 DEF Images!RowsAreOfSources
  <2>3. wronged' \subseteq Sources /\ wronged' \intersect Prefixed = {}
    <3> HIDE DEF gone
    <3>1. \A k \in {derivs[r].key : r \in gone} \ absent : k \in Sources /\ k \notin Prefixed
      BY <2>2
    <3>2. wronged \subseteq Sources /\ wronged \intersect Prefixed = {}
      BY <1>0 DEF Images!ListedSourcesKeep, Images!TypeOK
    <3> QED BY <2>1, <3>1, <3>2
  <2> HIDE DEF gone
  <2>4. ASSUME NEW r \in DerivRows
        PROVE  /\ [derivs[r] EXCEPT !.status = "orphaned", !.marked = TRUE] \in Images!Row
               /\ [derivs[r] EXCEPT !.status = "orphaned", !.marked = TRUE].key = derivs[r].key
               /\ [derivs[r] EXCEPT !.status = "orphaned", !.marked = TRUE].etag = derivs[r].etag
               /\ [derivs[r] EXCEPT !.status = "orphaned", !.marked = TRUE].status = "orphaned"
    <3>1. derivs[r] \in Images!Row
      BY <1>0
    <3> QED BY <3>1 DEF Images!Row
  <2>5. derivs' \in [DerivRows -> Images!Row]
    BY <1>0, <2>1, <2>4
  <2>6. \A q \in DerivRows : /\ derivs'[q].key = derivs[q].key /\ derivs'[q].etag = derivs[q].etag
                             /\ derivs'[q].status = "none" <=> derivs[q].status = "none"
                             /\ derivs[q].status = "none" => derivs'[q] = derivs[q]
    BY <2>1, <2>2, <2>4
  <2>7. Images!TypeOK'
    BY <1>0, <2>1, <2>3, <2>5 DEF Images!TypeOK, Images!Row
  <2>8. Images!RowsAreOfSources' /\ Images!OneRowEach'
    BY <2>6, ImagesKeptRows
  <2>9. Images!Requested' /\ Images!Listed' /\ Images!ListedSourcesKeep' /\ Images!BudgetHolds'
    BY <2>1, <2>3 DEF Images!Requested, Images!Listed, Images!ListedSourcesKeep,
         Images!BudgetHolds
  <2> QED BY <2>7, <2>8, <2>9
<1>11. CASE Images!DeleteFile
  <2>1. PICK r \in batch :
          /\ batch' = batch \ {r}
          /\ \/ files' = [files EXCEPT ![Images!DerivativeKey(r)] = 0] /\ doomed' = r
             \/ UNCHANGED <<files, doomed>>
    BY <1>11 DEF Images!DeleteFile
  <2>2. UNCHANGED <<source, derivs, request, orphanRun, seen, absent, wronged>>
    BY <1>11 DEF Images!DeleteFile
  <2>3. r \in DerivRows
    BY <1>0 DEF Images!TypeOK
  <2>4. files' \in [Images!Names -> Images!AllContents \union {0}] /\ Images!BudgetHolds'
    BY <1>0, <2>1, ImagesSane DEF Images!TypeOK, Images!BudgetHolds, Images!Sane
  <2>5. Images!TypeOK'
    BY <1>0, <2>1, <2>2, <2>3, <2>4 DEF Images!TypeOK
  <2>6. Images!RowsAreOfSources' /\ Images!OneRowEach'
    BY <2>2 DEF Images!RowsAreOfSources, Images!OneRowEach
  <2>7. Images!Requested' /\ Images!Listed' /\ Images!ListedSourcesKeep'
    BY <2>2 DEF Images!Requested, Images!Listed, Images!ListedSourcesKeep
  <2> QED BY <2>4, <2>5, <2>6, <2>7
<1>12. CASE Images!DeleteRow
  <2>1. /\ doomed \in DerivRows /\ doomed' = 0 /\ derivs' = [derivs EXCEPT ![doomed] = Images!NoRow]
        /\ UNCHANGED <<source, files, request, orphanRun, seen, absent, batch, wronged>>
    BY <1>0, <1>12 DEF Images!DeleteRow, Images!TypeOK
  <2>2. Images!NoRow \in Images!Row
    <3>1. FALSE \in BOOLEAN
      OBVIOUS
    <3> QED BY <3>1 DEF Images!NoRow, Images!Row
  <2>3. /\ derivs' \in [DerivRows -> Images!Row] /\ derivs'[doomed] = Images!NoRow
        /\ \A q \in DerivRows \ {doomed} : derivs'[q] = derivs[q]
    BY <1>0, <2>1, <2>2
  <2>4. Images!TypeOK'
    BY <1>0, <2>1, <2>3 DEF Images!TypeOK, Images!Row
  <2>5. Images!RowsAreOfSources'
    BY <2>3 DEF Images!RowsAreOfSources, Images!NoRow
  <2>6. Images!OneRowEach'
    <3> SUFFICES ASSUME WithHeight, NEW q \in DerivRows, NEW s \in DerivRows,
                        derivs'[q].status # "none", derivs'[q].key = derivs'[s].key,
                        derivs'[q].etag = derivs'[s].etag
                 PROVE  q = s
      BY DEF Images!OneRowEach
    <3>1. q # doomed /\ derivs'[q].key \in Sources
      BY <2>3, <2>5 DEF Images!NoRow, Images!RowsAreOfSources
    <3>2. s # doomed
      BY <2>3, <3>1, ImagesSane DEF Images!NoRow, Images!Sane
    <3> QED BY <2>3, <3>1, <3>2 DEF Images!OneRowEach
  <2>7. Images!Requested' /\ Images!Listed' /\ Images!ListedSourcesKeep' /\ Images!BudgetHolds'
    BY <2>1 DEF Images!Requested, Images!Listed, Images!ListedSourcesKeep, Images!BudgetHolds
  <2> QED BY <2>4, <2>5, <2>6, <2>7
<1>13. CASE Images!EndRun
  <2>1. /\ orphanRun' = "idle" /\ seen' = {} /\ absent' = {} /\ batch' = {} /\ doomed' = 0
        /\ UNCHANGED <<source, derivs, files, request, wronged>>
    BY <1>13 DEF Images!EndRun
  <2>2. Images!TypeOK'
    BY <1>0, <2>1 DEF Images!TypeOK
  <2>3. Images!RowsAreOfSources' /\ Images!OneRowEach'
    BY <2>1 DEF Images!RowsAreOfSources, Images!OneRowEach
  <2>4. Images!Requested' /\ Images!Listed' /\ Images!ListedSourcesKeep' /\ Images!BudgetHolds'
    BY <2>1 DEF Images!Requested, Images!Listed, Images!ListedSourcesKeep, Images!BudgetHolds
  <2> QED BY <2>2, <2>3, <2>4
<1>14. CASE UNCHANGED Images!vars
  <2>1. Images!Requested'
    BY <1>14 DEF Images!vars, Images!Requested
  <2> QED BY <1>0, <1>14, <2>1, ImagesQuietStep DEF Images!vars, Images!runVars, Images!TypeOK
<1> QED
  BY <1>1, <1>2, <1>3, <1>m, <1>4, <1>5, <1>6, <1>8, <1>9, <1>10, <1>11, <1>12, <1>13, <1>14
  DEF Images!Next

\* Overwrites between HEAD and GET, short listings and dying runs: no content over the budget
\* is decoded, no listed source loses its derivatives, and a version has one row.
LEMMA ImagesHolds == Images!Spec => []Images!Safety
<1>1. Images!Init => Images!IInv
  BY ImagesInitHolds
<1>2. Images!IInv /\ [Images!Next]_(Images!vars) => Images!IInv'
  BY ImagesStepHolds
<1>3. Images!IInv => Images!Safety
  BY DEF Images!IInv, Images!Safety
<1> QED BY <1>1, <1>2, <1>3, PTL DEF Images!Spec

-----------------------------------------------------------------------------
(* Vision                                                                  *)

LEMMA SightAnalystChange ==
    ASSUME NEW a \in Sight!Analyst, NEW k \in Sight!Keys, NEW e \in PhotoEtags,
           NEW s \in {"idle", "head", "check", "checked", "pending", "asked"}
    PROVE  /\ Sight!Away \in Sight!Analyst
           /\ [Sight!Away EXCEPT !.at = "head", !.key = k] \in Sight!Analyst
           /\ [a EXCEPT !.at = s] \in Sight!Analyst
           /\ [a EXCEPT !.at = "check", !.etag = e] \in Sight!Analyst
BY DEF Sight!Analyst, Sight!Away

LEMMA SightAnalysisChange ==
    ASSUME NEW r \in Sight!Analysis, NEW o \in PhotoEtags \union {0},
           NEW s \in {"none", "pending", "ready", "failed", "skipped"}
    PROVE  [r EXCEPT !.status = s] \in Sight!Analysis /\ [status |-> s, of |-> o] \in Sight!Analysis
BY DEF Sight!Analysis

LEMMA SightInitHolds == ASSUME Sight!Init PROVE Sight!IInv
<1> USE DEF Sight!Init, Sight!Away
<1>1. Sight!Shape
  <2>1. analyses \in [Sight!Images -> Sight!Analysis]
    BY DEF Sight!Analysis
  <2>2. analyst \in [Sight!Who -> Sight!Analyst]
    BY DEF Sight!Analyst
  <2> QED BY <2>1, <2>2 DEF Sight!Shape
<1>2. Sight!Counted
  BY DEF Sight!Counted, Sight!Asked
<1>3. Sight!Covered /\ Sight!PaidOnce
  BY DEF Sight!Covered, Sight!Due, Sight!Who, Sight!On, Sight!Busy, Sight!PaidOnce
<1> QED BY <1>1, <1>2, <1>3 DEF Sight!IInv

\* SetRow changes the status of one row.
LEMMA SightRowChange ==
    ASSUME Sight!Shape, NEW i \in Sight!Images, NEW s \in {"none", "pending", "ready", "failed", "skipped"},
           Sight!SetRow(i, s)
    PROVE  /\ analyses' \in [Sight!Images -> Sight!Analysis] /\ analyses'[i].status = s
           /\ \A j \in Sight!Images \ {i} : analyses'[j] = analyses[j]
<1>1. analyses[i] \in Sight!Analysis
  BY DEF Sight!Shape
<1>2. analyses' \in [Sight!Images -> Sight!Analysis]
  BY <1>1, SightAnalysisChange DEF Sight!Shape, Sight!SetRow
<1> QED BY <1>1, <1>2 DEF Sight!Shape, Sight!SetRow, Sight!Analysis

\* An analyst that is not busy with an image, before and after the step.
LEMMA SightQuietStep ==
    ASSUME Sight!IInv, Sight!Shape', UNCHANGED <<paid, crossed>>, NEW w \in Sight!Who,
           \A x \in Sight!Who \ {w} : analyst'[x] = analyst[x],
           ~Sight!Busy(w), analyst'[w] = analyst[w] \/ analyst'[w].at \in {"idle", "head", "check"},
           \A i \in Sight!Images : paid[i] > 0 /\ analyses[i].status = "ready" => analyses'[i].status = "ready"
    PROVE  Sight!IInv'
<1> USE DEF Sight!IInv
<1>1. ~Sight!Busy(w)' /\ \A x \in Sight!Who \ {w} : (Sight!Busy(x)' <=> Sight!Busy(x)) /\ Sight!Image(x)' = Sight!Image(x)
  BY DEF Sight!Busy, Sight!Image
<1>2. \A x \in Sight!Who, i \in Sight!Images : (Sight!On(x, i)' <=> Sight!On(x, i)) /\ (Sight!Asked(x, i)' <=> Sight!Asked(x, i))
  BY <1>1 DEF Sight!On, Sight!Asked, Sight!Busy, Sight!Image
<1>3. Sight!Counted'
  BY <1>2 DEF Sight!Counted
<1>4. Sight!Covered'
  BY <1>2 DEF Sight!Covered, Sight!Due, Sight!Who
<1>5. Sight!PaidOnce'
  <2>1. \A i \in Sight!Images : paid[i] \in Nat /\ crossed[i] \in Nat
    BY DEF Sight!Shape
  <2> QED BY <1>2, <2>1 DEF Sight!PaidOnce
<1> QED BY <1>3, <1>4, <1>5

\* What the other analysts are at when one of them changes.
LEMMA SightOthersStay ==
    ASSUME NEW w \in Sight!Who, \A x \in Sight!Who \ {w} : analyst'[x] = analyst[x]
    PROVE  \A x \in Sight!Who \ {w}, i \in Sight!Images :
              (Sight!On(x, i)' <=> Sight!On(x, i)) /\ (Sight!Asked(x, i)' <=> Sight!Asked(x, i))
BY DEF Sight!On, Sight!Asked, Sight!Busy, Sight!Image

\* A busy analyst that stops: the call it has lost is taken back.
LEMMA SightStopStep ==
    ASSUME Sight!IInv, NEW w \in Sight!Who, analyst' = [analyst EXCEPT ![w] = Sight!Away], Sight!LoseCall(w), Sight!Busy(w),
           UNCHANGED <<photo, crossed>>, analyses' \in [Sight!Images -> Sight!Analysis],
           \A i \in Sight!Images : i # Sight!Image(w) => analyses'[i] = analyses[i]
    PROVE  Sight!IInv'
<1> USE DEF Sight!IInv
<1> DEFINE i == Sight!Image(w)
<1>0. Sight!Shape
  OBVIOUS
<1>1. i \in Sight!Images /\ analyst[w].key \in Sight!Keys /\ analyst[w].etag \in PhotoEtags
  BY <1>0 DEF Sight!Shape, Sight!Busy, Sight!Image, Sight!Images
<1>2. /\ analyst' \in [Sight!Who -> Sight!Analyst] /\ analyst'[w].at = "idle"
      /\ \A x \in Sight!Who \ {w} : analyst'[x] = analyst[x]
  <2>1. Sight!Away \in Sight!Analyst
    BY DEF Sight!Away, Sight!Analyst
  <2> QED BY <1>0, <2>1 DEF Sight!Shape, Sight!Away
<1>3. /\ paid' \in [Sight!Images -> Nat]
      /\ paid'[i] = IF analyst[w].at = "asked" THEN paid[i] - 1 ELSE paid[i]
      /\ \A j \in Sight!Images \ {i} : paid'[j] = paid[j]
      /\ \A j \in Sight!Images : paid[j] \in Nat /\ paid'[j] \in Nat
  <2>1. CASE analyst[w].at = "asked"
    <3>1. paid[i] \in Nat /\ paid[i] >= 1
      BY <1>0, <1>1, <2>1 DEF Sight!Counted, Sight!Asked, Sight!Shape
    <3> QED BY <1>0, <1>1, <2>1, <3>1 DEF Sight!Shape, Sight!LoseCall
  <2>2. CASE analyst[w].at # "asked"
    BY <1>0, <1>1, <2>2 DEF Sight!Shape, Sight!LoseCall
  <2> QED BY <2>1, <2>2
<1>4. Sight!Shape'
  BY <1>0, <1>2, <1>3 DEF Sight!Shape
<1>5. \A x \in Sight!Who, j \in Sight!Images :
         /\ Sight!On(x, j)' <=> Sight!On(x, j) /\ x # w
         /\ Sight!Asked(x, j)' <=> Sight!Asked(x, j) /\ x # w
  BY <1>2, SightOthersStay DEF Sight!On, Sight!Asked, Sight!Busy
<1>6. Sight!On(w, i) /\ (Sight!Asked(w, i) <=> analyst[w].at = "asked")
  BY DEF Sight!On, Sight!Asked
<1>7. Sight!Counted'
  <2>1. ASSUME NEW j \in Sight!Images, NEW x \in Sight!Who, Sight!Asked(x, j)' PROVE paid'[j] >= 1
    <3>1. Sight!Asked(x, j) /\ x # w
      BY <1>5, <2>1
    <3> QED BY <1>1, <1>3, <1>6, <3>1 DEF Sight!Counted
  <2>2. ASSUME NEW j \in Sight!Images, NEW x \in Sight!Who, NEW y \in Sight!Who, Sight!Asked(x, j)', Sight!Asked(y, j)'
        PROVE  x = y
    BY <1>5, <2>2 DEF Sight!Who
  <2>3. \A j \in Sight!Images : paid'[j] > 0 => paid[j] > 0
    BY <1>1, <1>3
  <2> QED BY <2>1, <2>2, <2>3 DEF Sight!Counted
<1>8. Sight!Covered' /\ paid'[i] <= crossed[i]
  <2>1. \A x \in Sight!Who, j \in Sight!Images :
           Sight!Due(x, j) \in {0, 1} /\ Sight!Due(x, j)' = IF x = w THEN 0 ELSE Sight!Due(x, j)
    BY <1>5 DEF Sight!Due
  <2>2. paid'[i] + 1 = paid[i] + Sight!Due(w, i)
    BY <1>1, <1>3, <1>6 DEF Sight!Due
  <2>3. \A j \in Sight!Images : paid[j] + Sight!Due("event", j) + Sight!Due("sweep", j) <= 1 + crossed[j]
                                /\ crossed'[j] = crossed[j] /\ crossed[j] \in Nat
    BY <1>0 DEF Sight!Covered, Sight!Shape
  <2> HIDE DEF i
  <2>4. ASSUME NEW j \in Sight!Images, j = i
        PROVE  paid'[j] + Sight!Due("event", j)' + Sight!Due("sweep", j)' <= crossed[j]
    <3>1. paid'[j] + 1 = paid[j] + Sight!Due(w, j)
      BY <2>2, <2>4
    <3>2. CASE w = "event"
      BY <1>3, <2>1, <2>3, <3>1, <3>2 DEF Sight!Who
    <3>3. CASE w = "sweep"
      BY <1>3, <2>1, <2>3, <3>1, <3>3 DEF Sight!Who
    <3> QED BY <3>2, <3>3 DEF Sight!Who
  <2>5. ASSUME NEW j \in Sight!Images, j # i
        PROVE  paid'[j] + Sight!Due("event", j)' + Sight!Due("sweep", j)' <= 1 + crossed'[j]
    <3>1. paid'[j] = paid[j]
      BY <1>3, <2>5
    <3>2. Sight!Due("event", j)' <= Sight!Due("event", j) /\ Sight!Due("sweep", j)' <= Sight!Due("sweep", j)
      BY <2>1 DEF Sight!Who
    <3> QED BY <1>3, <2>1, <2>3, <3>1, <3>2 DEF Sight!Who
  <2>6. \A j \in Sight!Images : paid'[j] + Sight!Due("event", j)' + Sight!Due("sweep", j)' <= 1 + crossed'[j]
    <3>1. \A x \in Sight!Who, j \in Sight!Images : Sight!Due(x, j)' \in {0, 1}
      BY <2>1
    <3> QED BY <1>3, <2>3, <2>4, <2>5, <3>1 DEF Sight!Who
  <2>7. paid'[i] <= crossed[i]
    <3>1. \A x \in Sight!Who, j \in Sight!Images : Sight!Due(x, j)' \in {0, 1}
      BY <2>1
    <3> QED BY <1>1, <1>3, <2>3, <2>4, <3>1 DEF Sight!Who
  <2> QED BY <2>6, <2>7 DEF Sight!Covered
<1>9. Sight!PaidOnce'
  <2>1. \A x \in Sight!Who, j \in Sight!Images \ {i} : Sight!On(x, j)' <=> Sight!On(x, j)
    BY <1>5 DEF Sight!On
  <2>2. \A j \in Sight!Images \ {i} : paid'[j] = paid[j] /\ analyses'[j] = analyses[j]
    BY <1>3
  <2>3. crossed[i] \in Nat /\ crossed' = crossed
    BY <1>0, <1>1 DEF Sight!Shape
  <2> QED BY <1>1, <1>3, <1>8, <2>1, <2>2, <2>3 DEF Sight!PaidOnce
<1> QED BY <1>4, <1>7, <1>8, <1>9

LEMMA SightStepHolds == ASSUME Sight!IInv, [Sight!Next]_(Sight!vars) PROVE Sight!IInv'
<1> USE DEF Sight!IInv
<1>0. Sight!Shape
  OBVIOUS
<1>1. ASSUME NEW k \in Sight!Keys, NEW e \in PhotoEtags \union {0}, Sight!Write(k, e) PROVE Sight!IInv'
  <2>1. Sight!Shape'
    BY <1>0, <1>1 DEF Sight!Shape, Sight!Write
  <2>2. UNCHANGED <<analyst, analyses, paid, crossed>>
    BY <1>1 DEF Sight!Write
  <2> QED BY <2>1, <2>2
      DEF Sight!Counted, Sight!Covered, Sight!Due, Sight!PaidOnce, Sight!Asked, Sight!On, Sight!Busy, Sight!Image
<1>2. ASSUME NEW w \in Sight!Who, NEW k \in Sight!Keys, analyst[w].at = "idle",
             analyst' = [analyst EXCEPT ![w] = [Sight!Away EXCEPT !.at = "head", !.key = k]],
             UNCHANGED <<photo, analyses, paid, crossed>>
      PROVE  Sight!IInv'
  <2>1. /\ [Sight!Away EXCEPT !.at = "head", !.key = k] \in Sight!Analyst
        /\ [Sight!Away EXCEPT !.at = "head", !.key = k].at = "head"
        /\ [Sight!Away EXCEPT !.at = "head", !.key = k].key = k
    BY DEF Sight!Away, Sight!Analyst
  <2>2. /\ analyst' \in [Sight!Who -> Sight!Analyst] /\ analyst'[w].at = "head" /\ analyst'[w].key = k
        /\ \A x \in Sight!Who \ {w} : analyst'[x] = analyst[x]
    BY <1>0, <1>2, <2>1 DEF Sight!Shape
  <2>3. Sight!Shape'
    BY <1>0, <1>2, <2>2 DEF Sight!Shape
  <2>4. ~Sight!Busy(w)
    BY <1>2 DEF Sight!Busy
  <2> QED BY <1>2, <2>2, <2>3, <2>4, SightQuietStep
<1>3. ASSUME NEW w \in Sight!Who, Sight!HeadObject(w) PROVE Sight!IInv'
  <2> DEFINE k == analyst[w].key
             e == photo[k]
  <2>0. ~Sight!Busy(w) /\ analyst[w].at = "head"
    BY <1>3 DEF Sight!HeadObject, Sight!Busy
  <2>1. k \in Sight!Keys /\ analyst[w] \in Sight!Analyst /\ e \in PhotoEtags \union {0}
    BY <1>0, <2>0 DEF Sight!Shape
  <2>2. CASE e # 0 /\ Kind[k] = "image"
    <3>1. analyst' = [analyst EXCEPT ![w] = [analyst[w] EXCEPT !.at = "check", !.etag = e]]
      BY <1>0, <1>3, <2>2 DEF Sight!HeadObject, Sight!Shape
    <3>2. /\ [analyst[w] EXCEPT !.at = "check", !.etag = e] \in Sight!Analyst
          /\ [analyst[w] EXCEPT !.at = "check", !.etag = e].at = "check"
          /\ [analyst[w] EXCEPT !.at = "check", !.etag = e].key = k
          /\ [analyst[w] EXCEPT !.at = "check", !.etag = e].etag = e
      BY <2>1, <2>2 DEF Sight!Analyst
    <3>3. /\ analyst' \in [Sight!Who -> Sight!Analyst] /\ analyst'[w].at = "check"
          /\ analyst'[w].key = k /\ analyst'[w].etag = e
          /\ \A x \in Sight!Who \ {w} : analyst'[x] = analyst[x]
      BY <1>0, <3>1, <3>2 DEF Sight!Shape
    <3>4. UNCHANGED <<photo, analyses, paid, crossed>>
      BY <1>3, <2>2 DEF Sight!HeadObject
    <3>5. Sight!Shape'
      BY <1>0, <2>1, <2>2, <3>3, <3>4 DEF Sight!Shape
    <3> QED BY <2>0, <3>3, <3>4, <3>5, SightQuietStep
  <2>3. CASE ~(e # 0 /\ Kind[k] = "image")
    <3>1. /\ analyst' = [analyst EXCEPT ![w] = Sight!Away]
          /\ UNCHANGED analyses \/ (e # 0 /\ Sight!SetRow(<<k, e>>, "skipped"))
          /\ UNCHANGED <<photo, paid, crossed>>
      BY <1>3, <2>3 DEF Sight!HeadObject
    <3>2. /\ analyst' \in [Sight!Who -> Sight!Analyst] /\ analyst'[w].at = "idle"
          /\ \A x \in Sight!Who \ {w} : analyst'[x] = analyst[x]
      <4>1. Sight!Away \in Sight!Analyst /\ Sight!Away.at = "idle"
        BY DEF Sight!Away, Sight!Analyst
      <4> QED BY <1>0, <3>1, <4>1 DEF Sight!Shape
    <3>3. CASE UNCHANGED analyses
      <4>1. Sight!Shape'
        BY <1>0, <3>1, <3>2, <3>3 DEF Sight!Shape
      <4> QED BY <2>0, <3>1, <3>2, <3>3, <4>1, SightQuietStep
    <3>4. CASE e # 0 /\ Sight!SetRow(<<k, e>>, "skipped")
      <4>1. <<k, e>> \in Sight!Images /\ <<k, e>>[1] = k
        BY <2>1, <3>4 DEF Sight!Images
      <4>2. /\ analyses' \in [Sight!Images -> Sight!Analysis]
            /\ \A j \in Sight!Images \ {<<k, e>>} : analyses'[j] = analyses[j]
        BY <1>0, <3>4, <4>1, SightRowChange
      <4>3. ~(paid[<<k, e>>] > 0)
        BY <2>3, <3>4, <4>1 DEF Sight!Counted
      <4>4. Sight!Shape'
        BY <1>0, <3>1, <3>2, <4>2 DEF Sight!Shape
      <4> QED BY <2>0, <3>1, <3>2, <4>2, <4>3, <4>4, SightQuietStep
    <3> QED BY <3>1, <3>3, <3>4
  <2> QED BY <2>2, <2>3
<1>4. ASSUME NEW w \in Sight!Who, Sight!Check(w) PROVE Sight!IInv'
  <2> DEFINE i == Sight!Image(w)
  <2>0. ~Sight!Busy(w) /\ analyst[w].at = "check" /\ analyst[w] \in Sight!Analyst
    BY <1>0, <1>4 DEF Sight!Check, Sight!Busy, Sight!Shape
  <2>1. i \in Sight!Images /\ analyst[w].key \in Sight!Keys /\ analyst[w].etag \in PhotoEtags
    BY <1>0, <2>0 DEF Sight!Shape, Sight!Image, Sight!Images
  <2>2. CASE Sight!IsReady(i)
    <3>1. analyst' = [analyst EXCEPT ![w] = Sight!Away] /\ UNCHANGED <<photo, analyses, paid, crossed>>
      BY <1>4, <2>2 DEF Sight!Check
    <3>2. /\ analyst' \in [Sight!Who -> Sight!Analyst] /\ analyst'[w].at = "idle"
          /\ \A x \in Sight!Who \ {w} : analyst'[x] = analyst[x]
      <4>1. Sight!Away \in Sight!Analyst /\ Sight!Away.at = "idle"
        BY DEF Sight!Away, Sight!Analyst
      <4> QED BY <1>0, <3>1, <4>1 DEF Sight!Shape
    <3>3. Sight!Shape'
      BY <1>0, <3>1, <3>2 DEF Sight!Shape
    <3> QED BY <2>0, <3>1, <3>2, <3>3, SightQuietStep
  <2>3. CASE ~Sight!IsReady(i)
    <3>1. /\ analyst' = [analyst EXCEPT ![w].at = "checked"]
          /\ \/ crossed' = crossed /\ \A x \in Sight!Who \ {w} : ~Sight!On(x, i)
             \/ crossed' = [crossed EXCEPT ![i] = @ + 1]
          /\ UNCHANGED <<photo, analyses, paid>>
      BY <1>4, <2>3 DEF Sight!Check
    <3>2. /\ analyst' \in [Sight!Who -> Sight!Analyst] /\ analyst'[w].at = "checked"
          /\ analyst'[w].key = analyst[w].key /\ analyst'[w].etag = analyst[w].etag
          /\ \A x \in Sight!Who \ {w} : analyst'[x] = analyst[x]
      <4>1. [analyst[w] EXCEPT !.at = "checked"] \in Sight!Analyst
        BY <2>0 DEF Sight!Analyst
      <4>2. analyst' \in [Sight!Who -> Sight!Analyst]
        BY <1>0, <3>1, <4>1 DEF Sight!Shape
      <4> QED BY <1>0, <2>0, <3>1, <4>2 DEF Sight!Shape, Sight!Analyst
    <3>0. /\ crossed' \in [Sight!Images -> Nat] /\ crossed[i] \in Nat /\ paid[i] \in Nat
          /\ crossed'[i] \in {crossed[i], crossed[i] + 1}
          /\ \A j \in Sight!Images \ {i} : crossed'[j] = crossed[j]
      BY <1>0, <2>1, <3>1 DEF Sight!Shape
    <3>3. Sight!Shape'
      BY <1>0, <2>0, <2>1, <3>0, <3>1, <3>2 DEF Sight!Shape
    <3>4. \A x \in Sight!Who \ {w}, j \in Sight!Images :
             (Sight!On(x, j)' <=> Sight!On(x, j)) /\ (Sight!Asked(x, j)' <=> Sight!Asked(x, j))
      BY <3>2, SightOthersStay
    <3>5. \A j \in Sight!Images : (Sight!On(w, j)' <=> j = i) /\ ~Sight!On(w, j) /\ ~Sight!Asked(w, j) /\ ~Sight!Asked(w, j)'
      BY <2>0, <3>2 DEF Sight!On, Sight!Asked, Sight!Busy, Sight!Image
    <3>6. Sight!Counted'
      BY <3>1, <3>4, <3>5 DEF Sight!Counted
    <3>7. /\ \A x \in Sight!Who \ {w}, j \in Sight!Images : Sight!Due(x, j)' = Sight!Due(x, j)
          /\ \A j \in Sight!Images : Sight!Due(w, j) = 0 /\ Sight!Due(w, j)' = IF j = i THEN 1 ELSE 0
          /\ \A x \in Sight!Who, j \in Sight!Images : Sight!Due(x, j) \in {0, 1}
      BY <3>4, <3>5 DEF Sight!Due
    <3>8. Sight!Covered' /\ paid[i] <= 1 + crossed'[i]
      <4>1. paid[i] + Sight!Due("event", i) + Sight!Due("sweep", i) <= crossed'[i]
        <5>1. CASE crossed' = crossed /\ \A x \in Sight!Who \ {w} : ~Sight!On(x, i)
          <6>1. \A x \in Sight!Who : ~Sight!On(x, i) /\ Sight!Due(x, i) = 0
            BY <2>1, <3>5, <5>1 DEF Sight!Due
          <6>2. paid[i] <= crossed[i]
            BY <2>1, <2>3, <3>0, <6>1 DEF Sight!PaidOnce, Sight!IsReady
          <6> QED BY <3>0, <5>1, <6>1, <6>2 DEF Sight!Who
        <5>2. CASE crossed' = [crossed EXCEPT ![i] = @ + 1]
          <6>1. crossed'[i] = crossed[i] + 1
            BY <1>0, <2>1, <5>2 DEF Sight!Shape
          <6> QED BY <2>1, <3>0, <6>1 DEF Sight!Covered
        <5> QED BY <3>1, <5>1, <5>2
      <4> HIDE DEF i
      <4>2. ASSUME NEW j \in Sight!Images
            PROVE  paid'[j] + Sight!Due("event", j)' + Sight!Due("sweep", j)' <= 1 + crossed'[j]
        <5>1. paid'[j] = paid[j] /\ paid[j] \in Nat /\ crossed'[j] \in Nat
          BY <1>0, <3>0, <3>1 DEF Sight!Shape
        <5>2. CASE j # i
          <6>1. crossed'[j] = crossed[j]
            BY <3>0, <5>2
          <6>2. Sight!Due("event", j)' = Sight!Due("event", j) /\ Sight!Due("sweep", j)' = Sight!Due("sweep", j)
            BY <3>7, <5>2 DEF Sight!Who
          <6> QED BY <5>1, <6>1, <6>2 DEF Sight!Covered
        <5>3. CASE j = i
          <6>1. paid[j] + Sight!Due("event", j) + Sight!Due("sweep", j) <= crossed'[j]
            BY <4>1, <5>3
          <6>2. CASE w = "event"
            BY <3>7, <5>1, <5>3, <6>1, <6>2 DEF Sight!Who
          <6>3. CASE w = "sweep"
            BY <3>7, <5>1, <5>3, <6>1, <6>3 DEF Sight!Who
          <6> QED BY <6>2, <6>3 DEF Sight!Who
        <5> QED BY <5>2, <5>3
      <4>3. paid[i] <= 1 + crossed'[i]
        BY <2>1, <3>0, <3>7, <4>1 DEF Sight!Who
      <4> QED BY <4>2, <4>3 DEF Sight!Covered
    <3>9. Sight!PaidOnce'
      <4>1. \A j \in Sight!Images \ {i}, x \in Sight!Who : Sight!On(x, j)' <=> Sight!On(x, j)
        BY <3>4, <3>5
      <4> HIDE DEF i
      <4>2. ASSUME NEW j \in Sight!Images, j = i
            PROVE  paid'[j] <= 1 + crossed'[j] /\ Sight!On(w, j)'
        BY <3>1, <3>5, <3>8, <4>2
      <4>3. ASSUME NEW j \in Sight!Images, j # i
            PROVE  paid'[j] = paid[j] /\ crossed'[j] = crossed[j] /\ analyses'[j] = analyses[j]
        BY <3>0, <3>1, <4>3
      <4> QED BY <4>1, <4>2, <4>3 DEF Sight!PaidOnce
    <3> QED BY <3>3, <3>6, <3>8, <3>9
  <2> QED BY <2>2, <2>3
<1>5. ASSUME NEW w \in Sight!Who, Sight!Pend(w) \/ Sight!Ask(w) PROVE Sight!IInv'
  <2> DEFINE i == Sight!Image(w)
             s == IF analyst[w].at = "checked" THEN "pending" ELSE "asked"
  <2>0. Sight!Busy(w) /\ analyst[w].at \in {"checked", "pending"} /\ analyst[w] \in Sight!Analyst
    BY <1>0, <1>5 DEF Sight!Pend, Sight!Ask, Sight!Busy, Sight!Shape
  <2>1. i \in Sight!Images /\ analyst[w].key \in Sight!Keys /\ analyst[w].etag \in PhotoEtags /\ Sight!On(w, i)
    BY <1>0, <2>0 DEF Sight!Shape, Sight!Image, Sight!Images, Sight!On
  <2>2. analyst' = [analyst EXCEPT ![w].at = s] /\ UNCHANGED <<photo, crossed>>
    BY <1>5 DEF Sight!Pend, Sight!Ask
  <2>3. /\ analyst' \in [Sight!Who -> Sight!Analyst] /\ analyst'[w].at = s
        /\ analyst'[w].key = analyst[w].key /\ analyst'[w].etag = analyst[w].etag
        /\ \A x \in Sight!Who \ {w} : analyst'[x] = analyst[x]
    <3>1. [analyst[w] EXCEPT !.at = s] \in Sight!Analyst
      BY <2>0 DEF Sight!Analyst
    <3>2. analyst' \in [Sight!Who -> Sight!Analyst]
      BY <1>0, <2>2, <3>1 DEF Sight!Shape
    <3> QED BY <1>0, <2>0, <2>2, <3>2 DEF Sight!Shape, Sight!Analyst
  <2>4. \A x \in Sight!Who, j \in Sight!Images : Sight!On(x, j)' <=> Sight!On(x, j)
    BY <2>0, <2>3, SightOthersStay DEF Sight!On, Sight!Busy, Sight!Image
  <2>5. \A x \in Sight!Who : (Sight!Busy(x)' <=> Sight!Busy(x)) /\ Sight!Image(x)' = Sight!Image(x)
    BY <2>0, <2>3 DEF Sight!Busy, Sight!Image
  <2>6. \A x \in Sight!Who \ {w}, j \in Sight!Images : Sight!Asked(x, j)' <=> Sight!Asked(x, j)
    BY <2>3, SightOthersStay
  <2>7. CASE Sight!Pend(w)
    <3>0. s = "pending" /\ UNCHANGED paid /\ Sight!SetRow(i, "pending")
      BY <2>7 DEF Sight!Pend
    <3>1. /\ analyses' \in [Sight!Images -> Sight!Analysis]
          /\ \A j \in Sight!Images \ {i} : analyses'[j] = analyses[j]
      BY <1>0, <2>1, <3>0, SightRowChange
    <3>2. Sight!Shape'
      BY <1>0, <2>1, <2>2, <2>3, <3>0, <3>1 DEF Sight!Shape
    <3>3. \A j \in Sight!Images : ~Sight!Asked(w, j) /\ ~Sight!Asked(w, j)'
      BY <2>0, <2>3, <3>0 DEF Sight!Asked
    <3>4. Sight!Counted'
      BY <2>6, <3>0, <3>3 DEF Sight!Counted
    <3>5. Sight!Covered'
      BY <2>2, <2>4, <2>6, <3>0, <3>3 DEF Sight!Covered, Sight!Due, Sight!Who
    <3>6. Sight!PaidOnce'
      BY <2>1, <2>2, <2>4, <3>0, <3>1 DEF Sight!PaidOnce
    <3> QED BY <3>2, <3>4, <3>5, <3>6
  <2>8. CASE Sight!Ask(w)
    <3>0. s = "asked" /\ UNCHANGED analyses
      BY <2>8 DEF Sight!Ask
    <3>1. paid' = [paid EXCEPT ![i] = @ + 1]
      BY <2>8 DEF Sight!Ask
    <3>2. /\ paid' \in [Sight!Images -> Nat] /\ paid'[i] = paid[i] + 1 /\ paid[i] \in Nat
          /\ \A j \in Sight!Images \ {i} : paid'[j] = paid[j]
      BY <1>0, <2>1, <3>1 DEF Sight!Shape
    <3>3. Sight!Shape'
      <4>1. \A x \in Sight!Who : /\ analyst'[x].key = analyst[x].key /\ analyst'[x].etag = analyst[x].etag
                                 /\ analyst'[x].at = "idle" <=> analyst[x].at = "idle"
                                 /\ analyst'[x].at = "head" <=> analyst[x].at = "head"
        BY <2>0, <2>3, <3>0
      <4> QED BY <1>0, <2>2, <2>3, <3>0, <3>2, <4>1 DEF Sight!Shape
    <3>4. \A j \in Sight!Images : ~Sight!Asked(w, j) /\ (Sight!Asked(w, j)' <=> j = i)
      BY <2>0, <2>3, <3>0 DEF Sight!Asked, Sight!Image
    <3>5. Kind[i[1]] = "image"
      BY <1>0, <2>0 DEF Sight!Image, Sight!Shape
    <3>6. Sight!Counted'
      <4>1. ASSUME NEW j \in Sight!Images, NEW x \in Sight!Who, Sight!Asked(x, j)' PROVE paid'[j] >= 1
        BY <2>6, <3>2, <3>4, <4>1 DEF Sight!Counted
      <4>2. ASSUME NEW j \in Sight!Images, NEW x \in Sight!Who, NEW y \in Sight!Who, Sight!Asked(x, j)', Sight!Asked(y, j)', x # y
            PROVE  paid'[j] >= 2
        BY <2>6, <3>2, <3>4, <4>2 DEF Sight!Counted
      <4>3. \A j \in Sight!Images : paid'[j] > 0 => Kind[j[1]] = "image"
        BY <3>2, <3>5 DEF Sight!Counted
      <4> QED BY <4>1, <4>2, <4>3 DEF Sight!Counted
    <3>7. /\ \A x \in Sight!Who \ {w}, j \in Sight!Images : Sight!Due(x, j)' = Sight!Due(x, j)
          /\ \A j \in Sight!Images : Sight!Due(w, j)' = 0 /\ Sight!Due(w, j) = IF j = i THEN 1 ELSE 0
          /\ \A x \in Sight!Who, j \in Sight!Images : Sight!Due(x, j) \in {0, 1}
      <4>1. \A j \in Sight!Images : Sight!On(w, j) <=> j = i
        BY <2>1 DEF Sight!On
      <4> QED BY <2>4, <2>6, <3>4, <4>1 DEF Sight!Due
    <3>8. Sight!Covered' /\ paid'[i] <= 1 + crossed'[i]
      <4>0. \A j \in Sight!Images : paid[j] \in Nat /\ crossed[j] \in Nat /\ crossed'[j] = crossed[j]
        BY <1>0, <2>2 DEF Sight!Shape
      <4> HIDE DEF i
      <4>1. ASSUME NEW j \in Sight!Images
            PROVE  paid'[j] + Sight!Due("event", j)' + Sight!Due("sweep", j)' <= 1 + crossed'[j]
        <5>1. paid'[j] = IF j = i THEN paid[j] + 1 ELSE paid[j]
          BY <3>2
        <5>2. CASE w = "event"
          BY <3>7, <4>0, <5>1, <5>2 DEF Sight!Who, Sight!Covered
        <5>3. CASE w = "sweep"
          BY <3>7, <4>0, <5>1, <5>3 DEF Sight!Who, Sight!Covered
        <5> QED BY <5>2, <5>3 DEF Sight!Who
      <4>2. \A x \in Sight!Who, j \in Sight!Images : Sight!Due(x, j)' \in {0, 1}
        BY <3>7
      <4>3. paid'[i] <= 1 + crossed'[i]
        BY <2>1, <3>2, <4>0, <4>1, <4>2 DEF Sight!Who
      <4> QED BY <4>1, <4>3 DEF Sight!Covered
    <3>9. Sight!PaidOnce'
      BY <2>1, <2>2, <2>4, <3>0, <3>2, <3>8 DEF Sight!PaidOnce
    <3> QED BY <3>3, <3>6, <3>8, <3>9
  <2> QED BY <1>5, <2>7, <2>8
<1>6. ASSUME NEW w \in Sight!Who, Sight!Save(w) PROVE Sight!IInv'
  <2> DEFINE i == Sight!Image(w)
  <2>0. Sight!Busy(w) /\ analyst[w].at = "asked"
    BY <1>6 DEF Sight!Save, Sight!Busy
  <2>1. i \in Sight!Images /\ analyst[w].key \in Sight!Keys /\ Sight!On(w, i) /\ Sight!Asked(w, i)
    BY <1>0, <2>0 DEF Sight!Shape, Sight!Image, Sight!Images, Sight!On, Sight!Asked
  <2>2. /\ analyses' \in [Sight!Images -> Sight!Analysis] /\ analyses'[i].status = "ready"
        /\ \A j \in Sight!Images \ {i} : analyses'[j] = analyses[j]
    <3>1. photo[analyst[w].key] \in PhotoEtags \union {0}
      BY <1>0, <2>1 DEF Sight!Shape
    <3>2. [status |-> "ready", of |-> photo[analyst[w].key]] \in Sight!Analysis
      BY <3>1 DEF Sight!Analysis
    <3> QED BY <1>0, <1>6, <2>1, <3>2 DEF Sight!Save, Sight!Shape
  <2>3. /\ analyst' \in [Sight!Who -> Sight!Analyst] /\ analyst'[w].at = "idle"
        /\ \A x \in Sight!Who \ {w} : analyst'[x] = analyst[x]
    <3>1. Sight!Away \in Sight!Analyst /\ Sight!Away.at = "idle"
      BY DEF Sight!Away, Sight!Analyst
    <3> QED BY <1>0, <1>6, <3>1 DEF Sight!Shape, Sight!Save
  <2>4. UNCHANGED <<photo, paid, crossed>>
    BY <1>6 DEF Sight!Save
  <2>5. Sight!Shape'
    BY <1>0, <2>2, <2>3, <2>4 DEF Sight!Shape
  <2>6. \A x \in Sight!Who, j \in Sight!Images :
           /\ Sight!On(x, j)' <=> Sight!On(x, j) /\ x # w
           /\ Sight!Asked(x, j)' <=> Sight!Asked(x, j) /\ x # w
    BY <2>3, SightOthersStay DEF Sight!On, Sight!Asked, Sight!Busy
  <2>7. Sight!Counted'
    BY <2>4, <2>6 DEF Sight!Counted
  <2>8. Sight!Covered'
    <3>1. \A x \in Sight!Who, j \in Sight!Images : Sight!Due(x, j)' = Sight!Due(x, j)
      BY <2>0, <2>6 DEF Sight!Due, Sight!On, Sight!Asked
    <3> QED BY <2>4, <3>1 DEF Sight!Covered, Sight!Who
  <2>9. Sight!PaidOnce'
    <3>1. \A x \in Sight!Who, j \in Sight!Images \ {i} : Sight!On(x, j)' <=> Sight!On(x, j)
      BY <2>6 DEF Sight!On
    <3> QED BY <2>1, <2>2, <2>4, <3>1 DEF Sight!PaidOnce
  <2> QED BY <2>5, <2>7, <2>8, <2>9
<1>7. ASSUME NEW w \in Sight!Who, Sight!Fail(w) PROVE Sight!IInv'
  <2>1. Sight!Busy(w) /\ Sight!Image(w) \in Sight!Images
    BY <1>0, <1>7 DEF Sight!Fail, Sight!Busy, Sight!Shape, Sight!Image, Sight!Images
  <2>2. /\ analyses' \in [Sight!Images -> Sight!Analysis]
        /\ \A j \in Sight!Images \ {Sight!Image(w)} : analyses'[j] = analyses[j]
    BY <1>0, <1>7, <2>1, SightRowChange DEF Sight!Fail
  <2> QED BY <1>7, <2>1, <2>2, SightStopStep DEF Sight!Fail
<1>8. ASSUME NEW w \in Sight!Who, Sight!Die(w) PROVE Sight!IInv'
  <2>1. CASE Sight!Busy(w)
    <3>1. analyses' \in [Sight!Images -> Sight!Analysis] /\ UNCHANGED analyses
      BY <1>0, <1>8 DEF Sight!Die, Sight!Shape
    <3> QED BY <1>8, <2>1, <3>1, SightStopStep DEF Sight!Die
  <2>2. CASE ~Sight!Busy(w)
    <3>1. UNCHANGED <<photo, analyses, paid, crossed>>
      BY <1>8, <2>2 DEF Sight!Die, Sight!Busy, Sight!LoseCall
    <3>2. /\ analyst' \in [Sight!Who -> Sight!Analyst] /\ analyst'[w].at = "idle"
          /\ \A x \in Sight!Who \ {w} : analyst'[x] = analyst[x]
      <4>1. Sight!Away \in Sight!Analyst /\ Sight!Away.at = "idle"
        BY DEF Sight!Away, Sight!Analyst
      <4> QED BY <1>0, <1>8, <4>1 DEF Sight!Shape, Sight!Die
    <3>3. Sight!Shape'
      BY <1>0, <3>1, <3>2 DEF Sight!Shape
    <3> QED BY <2>2, <3>1, <3>2, <3>3, SightQuietStep
  <2> QED BY <2>1, <2>2
<1>9. CASE Sight!List \/ Sight!Diff \/ UNCHANGED Sight!vars
  <2>1. UNCHANGED <<photo, analyses, analyst, paid, crossed>>
    BY <1>9 DEF Sight!List, Sight!Diff, Sight!vars
  <2>2. Sight!Shape'
    BY <1>0, <2>1 DEF Sight!Shape
  <2>3. Sight!Counted'
    BY <2>1 DEF Sight!Counted, Sight!Asked, Sight!Image
  <2>4. Sight!Covered'
    BY <2>1 DEF Sight!Covered, Sight!Due, Sight!Asked, Sight!On, Sight!Busy, Sight!Image
  <2>5. Sight!PaidOnce'
    BY <2>1 DEF Sight!PaidOnce, Sight!On, Sight!Busy, Sight!Image
  <2> QED BY <2>2, <2>3, <2>4, <2>5
<1>10. ASSUME NEW w \in Sight!Who, NEW k \in Sight!Keys, Sight!Deliver(w, k) PROVE Sight!IInv'
  BY <1>2, <1>10 DEF Sight!Deliver
<1>11. ASSUME NEW k \in Sight!Keys, Sight!NextImage(k) PROVE Sight!IInv'
  BY <1>2, <1>11 DEF Sight!NextImage, Sight!Who
<1> QED
  BY <1>1, <1>3, <1>4, <1>5, <1>6, <1>7, <1>8, <1>9, <1>10, <1>11 DEF Sight!Next

\* One answered call per image version, and one more at most for each analysis that began
\* while another was busy with it; paid for in full, an answer is in the row.
LEMMA SightHolds == Sight!Spec => []Sight!Safety
<1>1. Sight!Init => Sight!IInv
  BY SightInitHolds
<1>2. Sight!IInv /\ [Sight!Next]_(Sight!vars) => Sight!IInv'
  BY SightStepHolds
<1>3. Sight!IInv => Sight!Safety
  BY DEF Sight!IInv, Sight!Shape, Sight!Analysis, Sight!Analyst, Sight!Safety, Sight!TypeOK
<1> QED BY <1>1, <1>2, <1>3, PTL DEF Sight!Spec

-----------------------------------------------------------------------------
(* RagIngest                                                               *)

LEMMA DocumentsIngesterChange ==
    ASSUME NEW w \in Documents!Ingester, NEW d \in Texts, NEW m \in DOMAIN ChunkCount, NEW b \in Documents!Etags,
           NEW s \in {"idle", "headed", "found", "upserted", "extracted", "copied", "fresh",
                      "embedding", "cleared", "inserted", "failing"}
    PROVE  /\ Documents!Resting \in Documents!Ingester
           /\ [at |-> "headed", doc |-> d, body |-> 0, by |-> m] \in Documents!Ingester
           /\ [w EXCEPT !.at = s] \in Documents!Ingester
           /\ [w EXCEPT !.at = "extracted", !.body = b] \in Documents!Ingester
<1>1. Documents!Resting \in Documents!Ingester
  BY DEF Documents!Resting, Documents!Ingester
<1>2. [at |-> "headed", doc |-> d, body |-> 0, by |-> m] \in Documents!Ingester
  BY DEF Documents!Ingester
<1>3. [w EXCEPT !.at = s] \in Documents!Ingester
  BY DEF Documents!Ingester
<1>4. [w EXCEPT !.at = "extracted", !.body = b] \in Documents!Ingester
  BY DEF Documents!Ingester
<1> QED BY <1>1, <1>2, <1>3, <1>4

LEMMA DocumentsInitHolds == ASSUME Documents!Init, deployed \in DOMAIN ChunkCount PROVE Documents!IInv
<1> USE DEF Documents!Init
<1>1. Documents!TypeOK
  BY DEF Documents!TypeOK, Documents!NoDocument, Documents!Resting
<1>2. Documents!Tables
  <2>1. Documents!Resting \in Documents!Ingester
    BY DEF Documents!Resting, Documents!Ingester
  <2>2. ingester \in [Documents!Callers -> Documents!Ingester] /\ \A p \in Documents!Callers : ingester[p] = Documents!Resting
    BY <2>1
  <2> QED BY <2>2 DEF Documents!Tables, Documents!NoDocument, Documents!RowFields,
       Documents!Resting
<1>3. Documents!Solo /\ Documents!EmbeddedIsWhole
  BY DEF Documents!Solo, Documents!EmbeddedIsWhole, Documents!NoDocument, Documents!Working,
       Documents!Resting
<1>4. Documents!Covered
  BY DEF Documents!Covered, Documents!Callers
<1> QED BY <1>1, <1>2, <1>3, <1>4 DEF Documents!IInv

\* A step that leaves the documents and their chunks alone, of a caller that works on none.
LEMMA DocumentsQuietStep ==
    ASSUME Documents!IInv, Documents!TypeOK', Documents!Tables', Documents!Covered', UNCHANGED <<document, chunks, copied, overlapped>>,
           NEW p \in Documents!Callers, \A q \in Documents!Callers \ {p} : ingester'[q] = ingester[q],
           ingester'[p] = ingester[p] \/ ingester'[p].at \in {"idle", "headed", "found"}
    PROVE  Documents!IInv'
<1> USE DEF Documents!IInv
<1>1. \A q \in Documents!Callers, d \in Texts :
         Documents!Working(q, d)' => Documents!Working(q, d) /\ ingester'[q] = ingester[q] /\ Documents!NewChunks(q)' = Documents!NewChunks(q)
  BY DEF Documents!Working, Documents!NewChunks
<1>2. Documents!Solo'
  BY <1>1 DEF Documents!Solo
<1>3. Documents!EmbeddedIsWhole'
  BY DEF Documents!EmbeddedIsWhole
<1> QED BY <1>2, <1>3

\* A step of caller p at its document d.
LEMMA DocumentsWorkStep ==
    ASSUME Documents!IInv, Documents!TypeOK', Documents!Tables', NEW p \in Documents!Callers, NEW d \in Texts,
           ingester[p].at # "idle", ingester[p].doc = d,
           UNCHANGED <<bucket, Documents!sweepVars>>, alone' => alone /\ p = "run",
           \A q \in Documents!Callers \ {p} : ingester'[q] = ingester[q],
           ingester'[p] = Documents!Resting \/ ingester'[p].doc = d,
           \A x \in Texts \ {d} : /\ document'[x] = document[x] /\ chunks'[x] = chunks[x]
                                  /\ x \in copied' <=> x \in copied,
           ~overlapped' => /\ ~overlapped
                           /\ \/ Documents!Working(p, d)
                              \/ \A q \in Documents!Callers : ~Documents!Working(q, d)
                              \/ /\ ~Documents!Working(p, d)' /\ document'[d].status # "ready"
                                 /\ UNCHANGED <<chunks, copied>>,
           ~overlapped' /\ Documents!Working(p, d)' =>
              /\ document'[d].status # "ready"
              /\ ingester'[p].at = "cleared" => chunks'[d] = {}
              /\ ingester'[p].at = "inserted" => chunks'[d] = Documents!NewChunks(p)'
              /\ ingester'[p].at = "copied" => d \in copied',
           ~overlapped' /\ document'[d].status = "ready" /\ d \notin copied' =>
              chunks'[d] = {<<i, document'[d].hash, document'[d].model>> : i \in 1..document'[d].count},
           Documents!Live(d) => Documents!Live(d)',
           alone' => Documents!Live(d)' \/ (~Documents!Live(d) /\ ingester[p].at \notin {"headed", "found"})
    PROVE  Documents!IInv'
<1> USE DEF Documents!IInv
<1>1. UNCHANGED <<sweep, listed, cut, missing>>
  BY DEF Documents!sweepVars
<1>2. Documents!Solo'
  <2> SUFFICES ASSUME ~overlapped' PROVE Documents!Solo'
    BY DEF Documents!Solo
  <2>1. \A q \in Documents!Callers \ {p}, x \in Texts : Documents!Working(q, x)' <=> Documents!Working(q, x)
    BY DEF Documents!Working
  <2>2. \A q \in Documents!Callers \ {p} : Documents!NewChunks(q)' = Documents!NewChunks(q)
    BY DEF Documents!NewChunks
  <2>3. \A x \in Texts : Documents!Working(p, x)' => x = d
    BY DEF Documents!Working, Documents!Resting
  <2> DEFINE aside == /\ ~Documents!Working(p, d)' /\ document'[d].status # "ready"
                      /\ UNCHANGED <<chunks, copied>>
  <2>4. ASSUME NEW q \in Documents!Callers \ {p} PROVE ~Documents!Working(q, d) \/ aside
    BY <2>4 DEF Documents!Solo
  <2>5. \A q, r \in Documents!Callers, x \in Texts : Documents!Working(q, x)' /\ Documents!Working(r, x)' => q = r
    BY <2>1, <2>3, <2>4 DEF Documents!Solo
  <2>6. ASSUME NEW q \in Documents!Callers, NEW x \in Texts, Documents!Working(q, x)'
        PROVE  (/\ document[x].status # "ready"
                /\ ingester[q].at = "cleared" => chunks[x] = {}
                /\ ingester[q].at = "inserted" => chunks[x] = Documents!NewChunks(q)
                /\ ingester[q].at = "copied" => x \in copied)'
    <3>1. CASE q = p
      BY <2>3, <2>6, <3>1
    <3>2. CASE q # p
      <4>1. Documents!Working(q, x) /\ (x = d => aside)
        BY <2>1, <2>4, <2>6, <3>2
      <4>2. CASE x # d
        BY <2>2, <3>2, <4>1, <4>2 DEF Documents!Solo
      <4>3. CASE x = d
        BY <2>2, <3>2, <4>1, <4>3 DEF Documents!Solo
      <4> QED BY <4>2, <4>3
    <3> QED BY <3>1, <3>2
  <2> QED BY <2>5, <2>6 DEF Documents!Solo
<1>3. Documents!EmbeddedIsWhole'
  <2>1. ASSUME NEW x \in Texts \ {d}, document'[x].status = "ready", x \notin copied', ~overlapped'
        PROVE  chunks'[x] = {<<i, document'[x].hash, document'[x].model>> : i \in 1..document'[x].count}
    BY <2>1 DEF Documents!EmbeddedIsWhole
  <2> QED BY <2>1 DEF Documents!EmbeddedIsWhole
<1>4. Documents!Covered'
  <2>1. (sweep # "ingesting" => ingester["run"] = Documents!Resting)'
    BY <1>1 DEF Documents!Covered, Documents!Resting, Documents!Callers
  <2> SUFFICES ASSUME alone' PROVE Documents!Covered'
    BY <2>1 DEF Documents!Covered
  <2>2. /\ alone /\ p = "run" /\ ingester'["event"] = Documents!Resting /\ sweep # "idle"
        /\ \A x \in listed : bucket[x[1]] = x[2]
        /\ bucket[d[1]] = d[2] /\ sweep = "ingesting"
    BY DEF Documents!Covered, Documents!Callers, Documents!Resting
  <2>3. listed \subseteq Texts
    BY DEF Documents!TypeOK
  <2>4. \A x \in Texts : Documents!Live(x) => Documents!Live(x)'
    BY DEF Documents!Live
  <2>5. \A x \in listed : \/ Documents!Live(x)' \/ x[1] \in missing
                          \/ ingester'["run"].doc = x /\ ingester'["run"].at \in {"headed", "found"}
    <3> SUFFICES ASSUME NEW x \in listed, ~Documents!Live(x)', x[1] \notin missing PROVE FALSE
      OBVIOUS
    <3>1. ingester["run"].doc = x /\ ingester["run"].at \in {"headed", "found"}
      BY <2>2, <2>3, <2>4 DEF Documents!Covered
    <3> QED BY <2>2, <3>1
  <2>6. ~cut => \A x \in Texts : bucket[x[1]] = 0 => ~Documents!Live(x)'
    <3> SUFFICES ASSUME ~cut, NEW x \in Texts, bucket[x[1]] = 0 PROVE ~Documents!Live(x)'
      OBVIOUS
    <3>1. ~Documents!Live(x)
      BY <2>2 DEF Documents!Covered
    <3>2. x # d
      BY <2>2, DocumentsSane DEF Documents!Sane
    <3> QED BY <3>1, <3>2 DEF Documents!Live
  <2>7. ingester'["run"].at # "idle" => bucket[ingester'["run"].doc[1]] = ingester'["run"].doc[2]
    BY <2>2 DEF Documents!Resting
  <2> QED BY <1>1, <2>1, <2>2, <2>5, <2>6, <2>7 DEF Documents!Covered
<1> QED BY <1>2, <1>3, <1>4

\* Moving on leaves the version and the text of an ingest alone.
LEMMA DocumentsMoveChange ==
    ASSUME Documents!IInv, NEW p \in Documents!Callers, ingester[p].at # "idle",
           NEW s \in {"headed", "found", "upserted", "extracted", "copied", "fresh",
                      "embedding", "cleared", "inserted", "failing"}, Documents!Step(p, s)
    PROVE  /\ ingester' \in [Documents!Callers -> Documents!Ingester]
           /\ ingester'[p].at = s /\ ingester'[p].doc = ingester[p].doc
           /\ ingester'[p].body = ingester[p].body /\ ingester'[p].by = ingester[p].by
           /\ \A q \in Documents!Callers \ {p} : ingester'[q] = ingester[q]
           /\ \A q \in Documents!Callers : IF ingester'[q].at = "idle" THEN ingester'[q] = Documents!Resting
                                 ELSE ingester'[q].doc \in Texts
           /\ Documents!NewChunks(p)' = Documents!NewChunks(p)
<1>1. ingester \in [Documents!Callers -> Documents!Ingester] /\ ingester[p] \in Documents!Ingester
  BY DEF Documents!IInv, Documents!Tables
<1>2. ingester' = [ingester EXCEPT ![p] = [ingester[p] EXCEPT !.at = s]]
  BY <1>1 DEF Documents!Step
<1>3. [ingester[p] EXCEPT !.at = s] \in Documents!Ingester
  BY <1>1 DEF Documents!Ingester
<1>4. ingester' \in [Documents!Callers -> Documents!Ingester]
  BY <1>1, <1>2, <1>3
<1>5. /\ ingester'[p].at = s /\ ingester'[p].doc = ingester[p].doc
      /\ ingester'[p].body = ingester[p].body /\ ingester'[p].by = ingester[p].by
      /\ \A q \in Documents!Callers \ {p} : ingester'[q] = ingester[q]
  BY <1>1, <1>2 DEF Documents!Ingester
<1>6. \A q \in Documents!Callers : IF ingester'[q].at = "idle" THEN ingester'[q] = Documents!Resting
                         ELSE ingester'[q].doc \in Texts
  <2>1. ingester[p].doc \in Texts
    BY DEF Documents!IInv, Documents!Tables
  <2> QED BY <1>5, <2>1 DEF Documents!IInv, Documents!Tables
<1>7. Documents!NewChunks(p)' = Documents!NewChunks(p)
  BY <1>5 DEF Documents!NewChunks
<1> QED BY <1>4, <1>5, <1>6, <1>7

LEMMA DocumentsEndChange ==
    ASSUME Documents!IInv, NEW p \in Documents!Callers, Documents!End(p)
    PROVE  /\ ingester' \in [Documents!Callers -> Documents!Ingester] /\ ingester'[p] = Documents!Resting
           /\ \A q \in Documents!Callers \ {p} : ingester'[q] = ingester[q]
           /\ \A q \in Documents!Callers : IF ingester'[q].at = "idle" THEN ingester'[q] = Documents!Resting
                                 ELSE ingester'[q].doc \in Texts
<1>1. Documents!Resting \in Documents!Ingester /\ Documents!Resting.at = "idle"
  BY DEF Documents!Resting, Documents!Ingester
<1>2. ingester \in [Documents!Callers -> Documents!Ingester]
  BY DEF Documents!IInv, Documents!Tables
<1>3. /\ ingester' \in [Documents!Callers -> Documents!Ingester] /\ ingester'[p] = Documents!Resting
      /\ \A q \in Documents!Callers \ {p} : ingester'[q] = ingester[q]
  BY <1>1, <1>2 DEF Documents!End
<1> QED BY <1>1, <1>3 DEF Documents!IInv, Documents!Tables

LEMMA DocumentsDocumentChange ==
    ASSUME Documents!IInv, NEW d \in Texts, NEW row, DOMAIN row = Documents!RowFields, Documents!SetDocument(d, row)
    PROVE  /\ DOMAIN document' = Texts /\ document'[d] = row
           /\ \A x \in Texts \ {d} : document'[x] = document[x]
           /\ \A x \in Texts : DOMAIN document'[x] = Documents!RowFields
BY DEF Documents!IInv, Documents!Tables, Documents!SetDocument

\* HEAD finds the version of now.
LEMMA DocumentsHeadStep ==
    ASSUME Documents!IInv, NEW p \in Documents!Callers, NEW k \in Documents!Keys, Documents!Head(p, k),
           UNCHANGED <<bucket, document, chunks, deployed, copied, overlapped>>,
           UNCHANGED <<sweep, listed, cut>>,
           \/ p = "event" /\ alone' = FALSE /\ UNCHANGED missing
           \/ /\ p = "run" /\ sweep = "ingesting" /\ UNCHANGED alone /\ missing' = missing \ {k}
    PROVE  Documents!IInv'
<1> USE DEF Documents!IInv
<1> DEFINE d == <<k, bucket[k]>>
           new == [at |-> "headed", doc |-> d, body |-> 0, by |-> deployed]
<1>1. d \in Texts /\ bucket[k] # 0 /\ deployed \in DOMAIN ChunkCount
  BY DEF Documents!Head, Documents!Tables, Documents!TypeOK
<1>2. /\ new \in Documents!Ingester /\ new.at = "headed" /\ new.doc = d
  BY <1>1 DEF Documents!Ingester
<1>3. ingester' = [ingester EXCEPT ![p] = new]
  BY DEF Documents!Head
<1> HIDE DEF new
<1>4. /\ ingester' \in [Documents!Callers -> Documents!Ingester] /\ ingester'[p] = new
      /\ \A q \in Documents!Callers \ {p} : ingester'[q] = ingester[q]
  BY <1>2, <1>3 DEF Documents!Tables
<1>5. Documents!TypeOK'
  <2>1. \A q \in Documents!Callers : ingester'[q].at \in
          {"idle", "headed", "found", "upserted", "extracted", "copied", "fresh", "embedding",
           "cleared", "inserted", "failing"}
    BY <1>4 DEF Documents!Ingester
  <2>2. missing' \subseteq Documents!Keys /\ alone' \in BOOLEAN
    BY DEF Documents!TypeOK
  <2> QED BY <2>1, <2>2 DEF Documents!TypeOK
<1>6. Documents!Tables'
  <2>1. \A q \in Documents!Callers : IF ingester'[q].at = "idle" THEN ingester'[q] = Documents!Resting
                           ELSE ingester'[q].doc \in Texts
    BY <1>1, <1>2, <1>4 DEF Documents!Tables
  <2> QED BY <1>4, <2>1 DEF Documents!Tables
<1>7. Documents!Covered'
  <2>1. CASE p = "event"
    BY <1>4, <2>1 DEF Documents!Covered, Documents!Callers
  <2>2. CASE p = "run"
    <3>1. /\ ingester'["event"] = ingester["event"] /\ ingester'["run"].at = "headed"
          /\ ingester'["run"].doc = d /\ sweep = "ingesting" /\ alone' = alone
          /\ missing' = missing \ {k} /\ ingester["run"].at = "idle"
      BY <1>2, <1>4, <2>2 DEF Documents!Callers, Documents!Head
    <3> SUFFICES ASSUME alone PROVE Documents!Covered'
      BY <3>1 DEF Documents!Covered
    <3>2. ASSUME NEW x \in listed
          PROVE  Documents!Live(x)' \/ x[1] \in missing' \/ ingester'["run"].doc = x
      <4>1. Documents!Live(x) \/ x[1] \in missing
        BY <3>1 DEF Documents!Covered
      <4>2. CASE x[1] = k
        <5>1. x = <<k, bucket[k]>>
          BY <4>2, DocumentsSane DEF Documents!Covered, Documents!Sane, Documents!TypeOK
        <5> QED BY <3>1, <5>1
      <4>3. CASE x[1] # k
        BY <3>1, <4>1, <4>3 DEF Documents!Live
      <4> QED BY <4>2, <4>3
    <3>3. \A x \in Texts : Documents!Live(x)' <=> Documents!Live(x)
      BY DEF Documents!Live
    <3>4. bucket'[d[1]] = d[2]
      OBVIOUS
    <3>5. /\ sweep' = "ingesting" /\ ingester'["event"] = Documents!Resting
          /\ \A x \in listed' : bucket'[x[1]] = x[2]
      BY <3>1 DEF Documents!Covered
    <3>6. ~cut' => \A x \in Texts : bucket'[x[1]] = 0 => ~Documents!Live(x)'
      BY <3>1, <3>3 DEF Documents!Covered
    <3> QED BY <3>1, <3>2, <3>4, <3>5, <3>6 DEF Documents!Covered
  <2> QED BY <2>1, <2>2 DEF Documents!Callers
<1> QED BY <1>2, <1>4, <1>5, <1>6, <1>7, DocumentsQuietStep

LEMMA DocumentsStepHolds == ASSUME Documents!IInv, [Documents!Next]_(Documents!vars) PROVE Documents!IInv'
<1> USE DEF Documents!IInv
<1>0. Documents!TypeOK /\ Documents!Tables
  OBVIOUS
<1>a. \A q \in Documents!Callers : ingester[q] \in Documents!Ingester
  BY DEF Documents!Tables
<1>1. ASSUME NEW k \in Documents!Keys, NEW e \in Documents!Etags \union {0}, Documents!Store(k, e) PROVE Documents!IInv'
  <2>1. /\ bucket' = [bucket EXCEPT ![k] = e] /\ <<k, e>> \in Texts \union {<<k, 0>>}
        /\ alone' = FALSE
        /\ UNCHANGED <<document, chunks, deployed, ingester, sweep, listed, cut, missing, copied, overlapped>>
    BY <1>1 DEF Documents!Store, Documents!sweepVars
  <2>2. /\ bucket' \in [Documents!Keys -> Documents!Etags \union {0}]
        /\ \A x \in Documents!Keys : bucket'[x] # 0 => <<x, bucket'[x]>> \in Texts
    <3>1. e # 0 => <<k, e>> \in Texts
      BY <2>1
    <3> QED BY <1>0, <2>1, <3>1 DEF Documents!TypeOK, Documents!Tables
  <2>3. Documents!TypeOK'
    BY <1>0, <2>1, <2>2 DEF Documents!TypeOK
  <2>4. Documents!Tables'
    BY <1>0, <2>1, <2>2 DEF Documents!Tables
  <2>5. Documents!Covered'
    BY <2>1 DEF Documents!Covered
  <2> QED BY <2>1, <2>3, <2>4, <2>5, DocumentsQuietStep DEF Documents!Callers
<1>2. CASE Documents!Redeploy
  <2>1. /\ deployed' \in DOMAIN ChunkCount
        /\ UNCHANGED <<bucket, document, chunks, ingester, sweep, listed, cut, missing, alone, copied, overlapped>>
    BY <1>2 DEF Documents!Redeploy, Documents!sweepVars
  <2>2. Documents!TypeOK'
    BY <1>0, <2>1 DEF Documents!TypeOK
  <2>3. Documents!Tables'
    BY <1>0, <2>1 DEF Documents!Tables
  <2>4. Documents!Covered'
    BY <2>1 DEF Documents!Covered, Documents!Live
  <2> QED BY <2>1, <2>2, <2>3, <2>4, DocumentsQuietStep DEF Documents!Callers
<1>3. ASSUME NEW k \in Documents!Keys, Documents!Deliver(k) PROVE Documents!IInv'
  BY <1>3, DocumentsHeadStep DEF Documents!Deliver, Documents!sweepVars, Documents!Callers
<1>4. CASE Documents!IngestMissing
  <2>1. PICK k \in missing : Documents!Head("run", k) /\ missing' = missing \ {k}
    BY <1>4 DEF Documents!IngestMissing
  <2>2. k \in Documents!Keys
    BY <1>0 DEF Documents!TypeOK
  <2> QED BY <1>4, <2>1, <2>2, DocumentsHeadStep DEF Documents!IngestMissing, Documents!Callers
<1>5. ASSUME NEW p \in Documents!Callers, Documents!FindReady(p) PROVE Documents!IInv'
  <2> DEFINE d == ingester[p].doc
  <2>1. /\ ingester[p].at = "headed" /\ d \in Texts
        /\ UNCHANGED <<bucket, document, chunks, deployed, sweep, listed, cut, missing, copied, overlapped>>
        /\ alone' = (alone /\ p = "run")
    BY <1>0, <1>5 DEF Documents!FindReady, Documents!sweepVars, Documents!Own, Documents!Tables
  <2>2. /\ ingester' \in [Documents!Callers -> Documents!Ingester]
        /\ \A q \in Documents!Callers \ {p} : ingester'[q] = ingester[q]
        /\ \A q \in Documents!Callers : IF ingester'[q].at = "idle" THEN ingester'[q] = Documents!Resting
                              ELSE ingester'[q].doc \in Texts
        /\ IF Documents!IsReady(d) THEN ingester'[p] = Documents!Resting
           ELSE ingester'[p].at = "found" /\ ingester'[p].doc = d
    BY <1>5, <2>1, DocumentsMoveChange, DocumentsEndChange DEF Documents!FindReady, Documents!Move
  <2>3. Documents!TypeOK'
    <3>1. alone' \in BOOLEAN
      BY <2>1
    <3>2. \A q \in Documents!Callers : ingester'[q].at \in
            {"idle", "headed", "found", "upserted", "extracted", "copied", "fresh", "embedding",
             "cleared", "inserted", "failing"}
      BY <2>2 DEF Documents!Ingester
    <3> QED BY <1>0, <2>1, <3>1, <3>2 DEF Documents!TypeOK
  <2>4. Documents!Tables'
    BY <1>0, <2>1, <2>2 DEF Documents!Tables
  <2>5. Documents!Covered'
    <3>1. (sweep # "ingesting" => ingester["run"] = Documents!Resting)'
      BY <2>1, <2>2 DEF Documents!Covered, Documents!Resting, Documents!Callers
    <3> SUFFICES ASSUME alone' PROVE Documents!Covered'
      BY <3>1 DEF Documents!Covered
    <3>2. alone /\ p = "run" /\ ingester'["event"] = Documents!Resting /\ sweep = "ingesting"
      <4>1. alone /\ p = "run"
        BY <2>1
      <4>2. ingester["run"] # Documents!Resting /\ ingester'["event"] = ingester["event"]
        BY <2>1, <2>2, <4>1 DEF Documents!Callers, Documents!Resting
      <4> QED BY <4>1, <4>2 DEF Documents!Covered
    <3>3. \A x \in Texts : Documents!Live(x)' <=> Documents!Live(x)
      BY <2>1 DEF Documents!Live
    <3>4. Documents!IsReady(d) => Documents!Live(d)
      BY DEF Documents!IsReady, Documents!Live
    <3>5. listed \subseteq Texts
      BY <1>0 DEF Documents!TypeOK
    <3>6. \A x \in listed : \/ Documents!Live(x)' \/ x[1] \in missing
                            \/ ingester'["run"].doc = x /\ ingester'["run"].at \in {"headed", "found"}
      <4> SUFFICES ASSUME NEW x \in listed, ~Documents!Live(x), x[1] \notin missing
                   PROVE  ingester'["run"].doc = x /\ ingester'["run"].at \in {"headed", "found"}
        BY <3>3, <3>5
      <4>1. d = x
        BY <3>2 DEF Documents!Covered
      <4> QED BY <2>2, <3>2, <3>4, <4>1
    <3>7. ingester'["run"].at # "idle" => bucket[ingester'["run"].doc[1]] = ingester'["run"].doc[2]
      BY <2>1, <2>2, <3>2 DEF Documents!Covered, Documents!Resting
    <3>8. ~cut => \A x \in Texts : bucket[x[1]] = 0 => ~Documents!Live(x)'
      BY <3>2, <3>3 DEF Documents!Covered
    <3>9. \A x \in listed : bucket[x[1]] = x[2]
      BY <3>2 DEF Documents!Covered
    <3> QED BY <2>1, <3>1, <3>2, <3>6, <3>7, <3>8, <3>9 DEF Documents!Covered
  <2>6. ingester'[p].at \in {"idle", "found"}
    BY <2>2 DEF Documents!Resting
  <2> QED BY <2>1, <2>2, <2>3, <2>4, <2>5, <2>6, DocumentsQuietStep
<1>6. ASSUME NEW p \in Documents!Callers, Documents!Upsert(p) PROVE Documents!IInv'
  <2>0. PICK d \in Texts : d = ingester[p].doc
    BY <1>0, <1>6 DEF Documents!Upsert, Documents!Tables
  <2> USE <2>0
  <2> DEFINE row == [document[d] EXCEPT !.status = "extracting", !.deleted = FALSE]
  <2>1. /\ ingester[p].at = "found" /\ d \in Texts /\ Documents!SetDocument(d, row) /\ Documents!Step(p, "upserted")
        /\ alone' = (alone /\ p = "run")
        /\ overlapped' = (overlapped \/ \E q \in Documents!Callers : Documents!Working(q, d))
        /\ UNCHANGED <<bucket, chunks, deployed, Documents!sweepVars, copied, events>>
        /\ UNCHANGED <<sweep, listed, cut, missing>>
    BY <1>0, <1>6 DEF Documents!Upsert, Documents!Move, Documents!Own, Documents!Tables, Documents!sweepVars
  <2>2. DOMAIN row = Documents!RowFields /\ row.status = "extracting" /\ row.deleted = FALSE
    BY <1>0, <2>1 DEF Documents!Tables, Documents!RowFields
  <2> HIDE DEF row
  <2>3. /\ DOMAIN document' = Texts /\ document'[d] = row
        /\ \A x \in Texts \ {d} : document'[x] = document[x]
        /\ \A x \in Texts : DOMAIN document'[x] = Documents!RowFields
    BY <2>1, <2>2, DocumentsDocumentChange
  <2>4. /\ ingester' \in [Documents!Callers -> Documents!Ingester]
        /\ ingester'[p].at = "upserted" /\ ingester'[p].doc = d
        /\ \A q \in Documents!Callers \ {p} : ingester'[q] = ingester[q]
        /\ \A q \in Documents!Callers : IF ingester'[q].at = "idle" THEN ingester'[q] = Documents!Resting
                              ELSE ingester'[q].doc \in Texts
    BY <2>1, DocumentsMoveChange
  <2>5. Documents!TypeOK'
    <3>1. alone' \in BOOLEAN /\ overlapped' \in BOOLEAN
      BY <1>0, <2>1 DEF Documents!TypeOK
    <3>2. \A q \in Documents!Callers : ingester'[q].at \in
            {"idle", "headed", "found", "upserted", "extracted", "copied", "fresh", "embedding",
             "cleared", "inserted", "failing"}
      BY <2>4 DEF Documents!Ingester
    <3> QED BY <1>0, <2>1, <2>2, <2>3, <3>1, <3>2 DEF Documents!TypeOK
  <2>6. Documents!Tables'
    BY <1>0, <2>1, <2>3, <2>4 DEF Documents!Tables
  <2>7. ~overlapped' => ~overlapped /\ \A q \in Documents!Callers : ~Documents!Working(q, d)
    BY <2>1
  <2>8. Documents!Live(d)' /\ document'[d].status # "ready"
    BY <2>2, <2>3 DEF Documents!Live
  <2>9. alone' => alone /\ p = "run"
    BY <2>1
  <2> QED BY <2>1, <2>3, <2>4, <2>5, <2>6, <2>7, <2>8, <2>9, DocumentsWorkStep
<1>7. ASSUME NEW p \in Documents!Callers, Documents!Extract(p) PROVE Documents!IInv'
  <2>0. PICK d \in Texts : d = ingester[p].doc
    BY <1>0, <1>7 DEF Documents!Extract, Documents!Tables
  <2> USE <2>0
  <2> DEFINE body == bucket[d[1]]
  <2>1. /\ ingester[p].at = "upserted" /\ d \in Texts /\ body > 0 /\ Documents!Working(p, d)
        /\ alone' = (alone /\ p = "run")
        /\ UNCHANGED <<bucket, chunks, deployed, Documents!sweepVars, copied, overlapped, events>>
        /\ UNCHANGED <<sweep, listed, cut, missing>>
    BY <1>0, <1>7 DEF Documents!Extract, Documents!Own, Documents!Tables, Documents!sweepVars,
         Documents!Working
  <2>2. d[1] \in Documents!Keys /\ body \in Documents!Etags
    BY <1>0, <2>1 DEF Documents!TypeOK, Documents!Keys
  <2>3. alone' \in BOOLEAN /\ (alone' => alone /\ p = "run")
    BY <2>1
  <2>4. ~overlapped => document[d].status # "ready"
    BY <2>1 DEF Documents!Solo
  <2>5. CASE body \in NoText
    <3> DEFINE row == [document[d] EXCEPT !.status = "skipped"]
    <3>1. Documents!SetDocument(d, row) /\ Documents!End(p)
      BY <1>7, <2>5 DEF Documents!Extract
    <3>2. DOMAIN row = Documents!RowFields /\ row.status = "skipped" /\ row.deleted = document[d].deleted
      BY <1>0, <2>1 DEF Documents!Tables, Documents!RowFields
    <3> HIDE DEF row
    <3>3. /\ DOMAIN document' = Texts /\ document'[d] = row
          /\ \A x \in Texts \ {d} : document'[x] = document[x]
          /\ \A x \in Texts : DOMAIN document'[x] = Documents!RowFields
      BY <2>1, <3>1, <3>2, DocumentsDocumentChange
    <3>4. /\ ingester' \in [Documents!Callers -> Documents!Ingester] /\ ingester'[p] = Documents!Resting
          /\ \A q \in Documents!Callers \ {p} : ingester'[q] = ingester[q]
          /\ \A q \in Documents!Callers : IF ingester'[q].at = "idle" THEN ingester'[q] = Documents!Resting
                                ELSE ingester'[q].doc \in Texts
      BY <3>1, DocumentsEndChange
    <3>5. Documents!TypeOK'
      <4>1. \A q \in Documents!Callers : ingester'[q].at \in
              {"idle", "headed", "found", "upserted", "extracted", "copied", "fresh", "embedding",
               "cleared", "inserted", "failing"}
        BY <3>4 DEF Documents!Ingester
      <4> QED BY <1>0, <2>1, <2>3, <3>2, <3>3, <4>1 DEF Documents!TypeOK
    <3>6. Documents!Tables'
      BY <1>0, <2>1, <3>3, <3>4 DEF Documents!Tables
    <3>7. /\ Documents!Live(d) => Documents!Live(d)'
          /\ document'[d].status # "ready" /\ ~Documents!Working(p, d)'
      BY <3>2, <3>3, <3>4 DEF Documents!Live, Documents!Working, Documents!Resting
    <3>8. Documents!Live(d)' \/ ~Documents!Live(d)
      BY <3>7
    <3> QED BY <2>1, <2>3, <3>3, <3>4, <3>5, <3>6, <3>7, <3>8, DocumentsWorkStep
  <2>6. CASE body \notin NoText
    <3>1. /\ ingester' = [ingester EXCEPT ![p].at = "extracted", ![p].body = body]
          /\ UNCHANGED document
      BY <1>7, <2>6 DEF Documents!Extract
    <3>2. ingester' = [ingester EXCEPT ![p] = [ingester[p] EXCEPT !.at = "extracted", !.body = body]]
      BY <1>0, <3>1 DEF Documents!Tables
    <3>3. [ingester[p] EXCEPT !.at = "extracted", !.body = body] \in Documents!Ingester
      BY <1>a, <2>2 DEF Documents!Ingester
    <3>4. /\ ingester' \in [Documents!Callers -> Documents!Ingester]
          /\ \A q \in Documents!Callers \ {p} : ingester'[q] = ingester[q]
      BY <1>0, <3>2, <3>3 DEF Documents!Tables
    <3>5. ingester'[p].at = "extracted" /\ ingester'[p].doc = d
      BY <1>0, <1>a, <3>2 DEF Documents!Tables, Documents!Ingester
    <3>6. \A q \in Documents!Callers : IF ingester'[q].at = "idle" THEN ingester'[q] = Documents!Resting
                             ELSE ingester'[q].doc \in Texts
      BY <1>0, <2>1, <3>4, <3>5 DEF Documents!Tables
    <3>7. Documents!TypeOK'
      <4>1. \A q \in Documents!Callers : ingester'[q].at \in
              {"idle", "headed", "found", "upserted", "extracted", "copied", "fresh", "embedding",
               "cleared", "inserted", "failing"}
        BY <3>4 DEF Documents!Ingester
      <4> QED BY <1>0, <2>1, <2>3, <3>1, <4>1 DEF Documents!TypeOK
    <3>8. Documents!Tables'
      BY <1>0, <2>1, <3>1, <3>4, <3>6 DEF Documents!Tables
    <3>9. Documents!Live(d)' <=> Documents!Live(d)
      BY <3>1 DEF Documents!Live
    <3>10. ~overlapped' /\ document'[d].status = "ready" => FALSE
      BY <2>1, <2>4, <3>1
    <3> QED BY <2>1, <2>3, <3>1, <3>4, <3>5, <3>7, <3>8, <3>9, <3>10, DocumentsWorkStep
  <2> QED BY <2>5, <2>6
<1>8. ASSUME NEW p \in Documents!Callers, NEW s \in {"copied", "fresh", "cleared", "inserted", "failing"},
             ingester[p].at \in {"extracted", "embedding", "cleared"}, Documents!Step(p, s),
             alone' = (alone /\ p = "run"),
             UNCHANGED <<bucket, document, deployed, Documents!sweepVars, overlapped>>,
             NEW C, chunks' = [chunks EXCEPT ![ingester[p].doc] = C],
             s = "cleared" => C = {}, ~overlapped /\ s = "inserted" => C = Documents!NewChunks(p),
             copied' \subseteq Texts, s = "copied" => ingester[p].doc \in copied',
             \A x \in Texts : x # ingester[p].doc => (x \in copied' <=> x \in copied)
      PROVE  Documents!IInv'
  <2>0. PICK d \in Texts : d = ingester[p].doc
    BY <1>0, <1>8 DEF Documents!Tables
  <2> USE <2>0
  <2>1. /\ d \in Texts /\ Documents!Working(p, d) /\ ingester[p].at # "idle"
        /\ UNCHANGED <<sweep, listed, cut, missing>>
    BY <1>0, <1>8 DEF Documents!Tables, Documents!sweepVars, Documents!Working
  <2>2. alone' \in BOOLEAN /\ (alone' => alone /\ p = "run")
    BY <1>8
  <2>3. /\ DOMAIN chunks' = Texts /\ chunks'[d] = C
        /\ \A x \in Texts \ {d} : chunks'[x] = chunks[x]
    BY <1>0, <1>8, <2>1 DEF Documents!Tables
  <2>4. /\ ingester' \in [Documents!Callers -> Documents!Ingester]
        /\ ingester'[p].at = s /\ ingester'[p].doc = d
        /\ \A q \in Documents!Callers \ {p} : ingester'[q] = ingester[q]
        /\ \A q \in Documents!Callers : IF ingester'[q].at = "idle" THEN ingester'[q] = Documents!Resting
                              ELSE ingester'[q].doc \in Texts
        /\ Documents!NewChunks(p)' = Documents!NewChunks(p)
    BY <1>8, <2>1, DocumentsMoveChange
  <2>5. Documents!TypeOK'
    <3>1. \A q \in Documents!Callers : ingester'[q].at \in
            {"idle", "headed", "found", "upserted", "extracted", "copied", "fresh", "embedding",
             "cleared", "inserted", "failing"}
      BY <2>4 DEF Documents!Ingester
    <3> QED BY <1>0, <1>8, <2>1, <2>2, <3>1 DEF Documents!TypeOK
  <2>6. Documents!Tables'
    BY <1>0, <1>8, <2>3, <2>4 DEF Documents!Tables
  <2>7. Documents!Live(d)' <=> Documents!Live(d)
    BY <1>8 DEF Documents!Live
  <2>8. ~overlapped' => document'[d].status # "ready"
    BY <1>8, <2>1 DEF Documents!Solo
  <2> QED BY <1>8, <2>1, <2>2, <2>3, <2>4, <2>5, <2>6, <2>7, <2>8, DocumentsWorkStep
<1>9. ASSUME NEW p \in Documents!Callers, Documents!CopyTwin(p) PROVE Documents!IInv'
  <2> DEFINE d == ingester[p].doc
  <2>1. PICK pick : /\ chunks' = [chunks EXCEPT ![d] = @ \union pick]
                    /\ Documents!Step(p, IF pick = {} THEN "fresh" ELSE "copied")
                    /\ copied' = IF pick = {} THEN copied ELSE copied \union {d}
    BY <1>9 DEF Documents!CopyTwin
  <2>2. /\ ingester[p].at = "extracted" /\ alone' = (alone /\ p = "run")
        /\ UNCHANGED <<bucket, document, deployed, Documents!sweepVars, overlapped>>
    BY <1>9 DEF Documents!CopyTwin, Documents!Own
  <2>3. d \in Texts /\ copied \subseteq Texts
    BY <1>0, <2>2 DEF Documents!Tables, Documents!TypeOK
  <2>4. chunks' = [chunks EXCEPT ![d] = chunks[d] \union pick]
    BY <1>0, <2>1 DEF Documents!Tables
  <2>5. CASE pick = {}
    <3>1. Documents!Step(p, "fresh") /\ copied' = copied
      BY <2>1, <2>5
    <3> QED BY <1>8, <2>2, <2>3, <2>4, <3>1
  <2>6. CASE pick # {}
    <3>1. Documents!Step(p, "copied") /\ copied' = copied \union {d}
      BY <2>1, <2>6
    <3> QED BY <1>8, <2>2, <2>3, <2>4, <3>1
  <2> QED BY <2>5, <2>6
<1>10. ASSUME NEW p \in Documents!Callers, Documents!DeleteChunks(p) PROVE Documents!IInv'
  <2> DEFINE d == ingester[p].doc
  <2>1. /\ ingester[p].at = "embedding" /\ alone' = (alone /\ p = "run") /\ Documents!Step(p, "cleared")
        /\ chunks' = [chunks EXCEPT ![d] = {}] /\ copied' = copied \ {d}
        /\ UNCHANGED <<bucket, document, deployed, Documents!sweepVars, overlapped>>
    BY <1>10 DEF Documents!DeleteChunks, Documents!Move, Documents!Own, Documents!Cleared
  <2>2. copied \subseteq Texts
    BY <1>0 DEF Documents!TypeOK
  <2> QED BY <1>8, <2>1, <2>2
<1>11. ASSUME NEW p \in Documents!Callers, Documents!InsertChunks(p) PROVE Documents!IInv'
  <2> DEFINE d == ingester[p].doc
             chunked == {c \in chunks[d] : \E n \in Documents!NewChunks(p) : n[1] = c[1]}
  <2>1. /\ ingester[p].at = "cleared" /\ alone' = (alone /\ p = "run")
        /\ chunks' = [chunks EXCEPT ![d] = IF chunked = {} THEN chunks[d] \union Documents!NewChunks(p) ELSE chunks[d]]
        /\ Documents!Step(p, IF chunked = {} THEN "inserted" ELSE "failing")
        /\ UNCHANGED <<bucket, document, deployed, Documents!sweepVars, copied, overlapped>>
    BY <1>0, <1>11 DEF Documents!InsertChunks, Documents!Move, Documents!Own, Documents!Tables
  <2>2. copied \subseteq Texts /\ d \in Texts /\ Documents!Working(p, d)
    BY <1>0, <2>1 DEF Documents!TypeOK, Documents!Tables, Documents!Working
  <2>3. ~overlapped => chunks[d] = {}
    BY <2>1, <2>2 DEF Documents!Solo
  <2>4. CASE chunked = {}
    <3>1. /\ Documents!Step(p, "inserted")
          /\ chunks' = [chunks EXCEPT ![d] = chunks[d] \union Documents!NewChunks(p)]
      BY <2>1, <2>4
    <3>2. ~overlapped => chunks[d] \union Documents!NewChunks(p) = Documents!NewChunks(p)
      BY <2>3
    <3> HIDE DEF chunked
    <3> QED BY <1>8, <2>1, <2>2, <3>1, <3>2
  <2>5. CASE chunked # {}
    <3>1. Documents!Step(p, "failing") /\ chunks' = [chunks EXCEPT ![d] = chunks[d]]
      BY <2>1, <2>5
    <3> HIDE DEF chunked
    <3> QED BY <1>8, <2>1, <2>2, <3>1
  <2> QED BY <2>4, <2>5
<1>12. ASSUME NEW p \in Documents!Callers, Documents!SetEmbedding(p) PROVE Documents!IInv'
  <2>0. PICK d \in Texts : d = ingester[p].doc
    BY <1>0, <1>12 DEF Documents!SetEmbedding, Documents!Tables
  <2> USE <2>0
  <2> DEFINE row == [document[d] EXCEPT !.status = "embedding", !.hash = ingester[p].body]
  <2>1. /\ ingester[p].at = "fresh" /\ d \in Texts /\ Documents!Working(p, d)
        /\ Documents!SetDocument(d, row) /\ Documents!Step(p, "embedding") /\ alone' = (alone /\ p = "run")
        /\ UNCHANGED <<bucket, chunks, deployed, Documents!sweepVars, copied, overlapped, events>>
        /\ UNCHANGED <<sweep, listed, cut, missing>>
    BY <1>0, <1>12 DEF Documents!SetEmbedding, Documents!Move, Documents!Own, Documents!Tables,
         Documents!sweepVars, Documents!Working
  <2>2. DOMAIN row = Documents!RowFields /\ row.status = "embedding" /\ row.deleted = document[d].deleted
    BY <1>0, <2>1 DEF Documents!Tables, Documents!RowFields
  <2> HIDE DEF row
  <2>3. /\ DOMAIN document' = Texts /\ document'[d] = row
        /\ \A x \in Texts \ {d} : document'[x] = document[x]
        /\ \A x \in Texts : DOMAIN document'[x] = Documents!RowFields
    BY <2>1, <2>2, DocumentsDocumentChange
  <2>4. /\ ingester' \in [Documents!Callers -> Documents!Ingester]
        /\ ingester'[p].at = "embedding" /\ ingester'[p].doc = d
        /\ \A q \in Documents!Callers \ {p} : ingester'[q] = ingester[q]
        /\ \A q \in Documents!Callers : IF ingester'[q].at = "idle" THEN ingester'[q] = Documents!Resting
                              ELSE ingester'[q].doc \in Texts
    BY <2>1, DocumentsMoveChange
  <2>5. alone' \in BOOLEAN /\ (alone' => alone /\ p = "run")
    BY <2>1
  <2>6. Documents!TypeOK'
    <3>1. \A q \in Documents!Callers : ingester'[q].at \in
            {"idle", "headed", "found", "upserted", "extracted", "copied", "fresh", "embedding",
             "cleared", "inserted", "failing"}
      BY <2>4 DEF Documents!Ingester
    <3> QED BY <1>0, <2>1, <2>2, <2>3, <2>5, <3>1 DEF Documents!TypeOK
  <2>7. Documents!Tables'
    BY <1>0, <2>1, <2>3, <2>4 DEF Documents!Tables
  <2>8. (Documents!Live(d) => Documents!Live(d)') /\ document'[d].status # "ready"
    BY <2>2, <2>3 DEF Documents!Live
  <2> QED BY <2>1, <2>3, <2>4, <2>5, <2>6, <2>7, <2>8, DocumentsWorkStep
<1>13. ASSUME NEW p \in Documents!Callers, Documents!SetReady(p) PROVE Documents!IInv'
  <2>0. PICK d \in Texts : d = ingester[p].doc
    BY <1>0, <1>13 DEF Documents!SetReady, Documents!Tables
  <2> USE <2>0
  <2> DEFINE w == ingester[p]
             n == IF w.at = "inserted" THEN ChunkCount[w.by][w.body] ELSE reused[p]
             row == [document[d] EXCEPT !.status = "ready", !.hash = w.body, !.model = w.by, !.count = n]
  <2>1. /\ w.at \in {"copied", "inserted"} /\ d \in Texts /\ Documents!Working(p, d)
        /\ Documents!SetDocument(d, row) /\ Documents!End(p) /\ alone' = (alone /\ p = "run")
        /\ UNCHANGED <<bucket, chunks, deployed, Documents!sweepVars, copied, overlapped, events>>
        /\ UNCHANGED <<sweep, listed, cut, missing>>
    BY <1>0, <1>13 DEF Documents!SetReady, Documents!Own, Documents!Tables,
         Documents!sweepVars, Documents!Working
  <2>2. /\ DOMAIN row = Documents!RowFields /\ row.status = "ready" /\ row.deleted = document[d].deleted
        /\ row.hash = w.body /\ row.model = w.by /\ row.count = n
    BY <1>0, <2>1 DEF Documents!Tables, Documents!RowFields
  <2>2a. w.at = "inserted" => n = ChunkCount[w.by][w.body]
    OBVIOUS
  <2> HIDE DEF row, n
  <2>3. /\ DOMAIN document' = Texts /\ document'[d] = row
        /\ \A x \in Texts \ {d} : document'[x] = document[x]
        /\ \A x \in Texts : DOMAIN document'[x] = Documents!RowFields
    BY <2>1, <2>2, DocumentsDocumentChange
  <2>4. /\ ingester' \in [Documents!Callers -> Documents!Ingester] /\ ingester'[p] = Documents!Resting
        /\ \A q \in Documents!Callers \ {p} : ingester'[q] = ingester[q]
        /\ \A q \in Documents!Callers : IF ingester'[q].at = "idle" THEN ingester'[q] = Documents!Resting
                              ELSE ingester'[q].doc \in Texts
    BY <2>1, DocumentsEndChange
  <2>5. alone' \in BOOLEAN /\ (alone' => alone /\ p = "run")
    BY <2>1
  <2>6. Documents!TypeOK'
    <3>1. \A q \in Documents!Callers : ingester'[q].at \in
            {"idle", "headed", "found", "upserted", "extracted", "copied", "fresh", "embedding",
             "cleared", "inserted", "failing"}
      BY <2>4 DEF Documents!Ingester
    <3> QED BY <1>0, <2>1, <2>2, <2>3, <2>5, <3>1 DEF Documents!TypeOK
  <2>7. Documents!Tables'
    BY <1>0, <2>1, <2>3, <2>4 DEF Documents!Tables
  <2>8. (Documents!Live(d) => Documents!Live(d)') /\ ~Documents!Working(p, d)'
    BY <2>2, <2>3, <2>4 DEF Documents!Live, Documents!Working, Documents!Resting
  <2>9. ~overlapped /\ d \notin copied =>
           chunks[d] = {<<i, document'[d].hash, document'[d].model>> : i \in 1..document'[d].count}
    <3>1. ASSUME ~overlapped, d \notin copied PROVE w.at = "inserted" /\ chunks[d] = Documents!NewChunks(p)
      BY <2>1, <3>1 DEF Documents!Solo
    <3> QED BY <2>2, <2>2a, <2>3, <3>1 DEF Documents!NewChunks
  <2> QED BY <2>1, <2>3, <2>4, <2>5, <2>6, <2>7, <2>8, <2>9, DocumentsWorkStep
<1>14. ASSUME NEW p \in Documents!Callers, Documents!Fail(p) PROVE Documents!IInv'
  <2>0. PICK d \in Texts : d = ingester[p].doc
    BY <1>0, <1>14 DEF Documents!Fail, Documents!Tables
  <2> USE <2>0
  <2> DEFINE row == [document[d] EXCEPT !.status = "failed"]
  <2>1. /\ ingester[p].at # "idle" /\ d \in Texts /\ Documents!End(p) /\ alone' = FALSE
        /\ (Documents!Working(p, d) /\ Documents!SetDocument(d, row)) \/ UNCHANGED document
        /\ UNCHANGED <<bucket, chunks, deployed, Documents!sweepVars, copied, overlapped, events>>
        /\ UNCHANGED <<sweep, listed, cut, missing>>
    BY <1>0, <1>14 DEF Documents!Fail, Documents!Tables, Documents!sweepVars
  <2>2. /\ ingester' \in [Documents!Callers -> Documents!Ingester] /\ ingester'[p] = Documents!Resting
        /\ \A q \in Documents!Callers \ {p} : ingester'[q] = ingester[q]
        /\ \A q \in Documents!Callers : IF ingester'[q].at = "idle" THEN ingester'[q] = Documents!Resting
                              ELSE ingester'[q].doc \in Texts
    BY <2>1, DocumentsEndChange
  <2>3. \A q \in Documents!Callers : ingester'[q].at \in
            {"idle", "headed", "found", "upserted", "extracted", "copied", "fresh", "embedding",
             "cleared", "inserted", "failing"}
    BY <2>2 DEF Documents!Ingester
  <2>4. CASE Documents!Working(p, d) /\ Documents!SetDocument(d, row)
    <3>1. DOMAIN row = Documents!RowFields /\ row.status = "failed" /\ row.deleted = document[d].deleted
      BY <1>0, <2>1 DEF Documents!Tables, Documents!RowFields
    <3> HIDE DEF row
    <3>2. /\ DOMAIN document' = Texts /\ document'[d] = row
          /\ \A x \in Texts \ {d} : document'[x] = document[x]
          /\ \A x \in Texts : DOMAIN document'[x] = Documents!RowFields
      BY <2>1, <2>4, <3>1, DocumentsDocumentChange
    <3>3. Documents!TypeOK'
      BY <1>0, <2>1, <2>3, <3>1, <3>2 DEF Documents!TypeOK
    <3>4. Documents!Tables'
      BY <1>0, <2>1, <2>2, <3>2 DEF Documents!Tables
    <3>5. (Documents!Live(d) => Documents!Live(d)') /\ ~Documents!Working(p, d)' /\ document'[d].status # "ready"
      BY <2>2, <3>1, <3>2 DEF Documents!Live, Documents!Working, Documents!Resting
    <3> QED BY <2>1, <2>2, <2>4, <3>2, <3>3, <3>4, <3>5, DocumentsWorkStep
  <2>5. CASE UNCHANGED document
    <3>1. Documents!TypeOK'
      BY <1>0, <2>1, <2>3, <2>5 DEF Documents!TypeOK
    <3>2. Documents!Tables'
      BY <1>0, <2>1, <2>2, <2>5 DEF Documents!Tables
    <3>3. Documents!Covered'
      BY <2>1, <2>2 DEF Documents!Covered, Documents!Callers
    <3>4. ingester'[p].at = "idle"
      BY <2>2 DEF Documents!Resting
    <3> QED BY <2>1, <2>2, <2>5, <3>1, <3>2, <3>3, <3>4, DocumentsQuietStep
  <2> QED BY <2>1, <2>4, <2>5
<1>15. CASE Documents!List
  <2>1. /\ sweep = "idle" /\ sweep' = "listed" /\ listed' \subseteq Documents!Stored
        /\ cut' \in BOOLEAN /\ alone' \in BOOLEAN /\ (alone' => ingester["event"] = Documents!Resting)
        /\ UNCHANGED <<bucket, document, chunks, deployed, ingester, missing, copied, overlapped>>
    BY <1>15 DEF Documents!List, Documents!Page
  <2>2. Documents!TypeOK'
    BY <1>0, <2>1 DEF Documents!TypeOK, Documents!Stored
  <2>3. Documents!Tables'
    BY <1>0, <2>1 DEF Documents!Tables
  <2>4. Documents!Covered'
    <3>1. ingester["run"] = Documents!Resting
      BY <2>1 DEF Documents!Covered
    <3> QED BY <2>1, <3>1 DEF Documents!Covered, Documents!Stored, Documents!Resting
  <2> QED BY <2>1, <2>2, <2>3, <2>4, DocumentsQuietStep DEF Documents!Callers
<1>16. CASE Documents!Diff
  <2>1. /\ sweep = "listed" /\ sweep' = "diffed"
        /\ missing' = {d[1] : d \in {c \in listed : ~Documents!IsKnown(c)}}
        /\ UNCHANGED <<bucket, document, chunks, deployed, ingester, listed, cut, alone, copied,
                       overlapped>>
    BY <1>16 DEF Documents!Diff
  <2>2. Documents!TypeOK'
    <3>1. missing' \subseteq Documents!Keys
      BY <1>0, <2>1 DEF Documents!TypeOK, Documents!Keys
    <3> QED BY <1>0, <2>1, <3>1 DEF Documents!TypeOK
  <2>3. Documents!Tables'
    BY <1>0, <2>1 DEF Documents!Tables
  <2>4. Documents!Covered'
    <3>1. \A d \in listed : Documents!Live(d)' \/ d[1] \in missing'
      BY <2>1 DEF Documents!Live, Documents!IsKnown
    <3> QED BY <2>1, <3>1 DEF Documents!Covered
  <2> QED BY <2>1, <2>2, <2>3, <2>4, DocumentsQuietStep DEF Documents!Callers
<1>17. CASE Documents!EndSweep
  <2>1. /\ sweep' = "idle" /\ listed' = {} /\ cut' = FALSE /\ missing' = {} /\ alone' = FALSE
        /\ ingester["run"] = Documents!Resting
        /\ UNCHANGED <<bucket, document, chunks, deployed, ingester, copied, overlapped>>
    BY <1>17 DEF Documents!EndSweep
  <2>2. Documents!TypeOK'
    BY <1>0, <2>1 DEF Documents!TypeOK
  <2>3. Documents!Tables'
    BY <1>0, <2>1 DEF Documents!Tables
  <2>4. Documents!Covered'
    BY <2>1 DEF Documents!Covered
  <2> QED BY <2>1, <2>2, <2>3, <2>4, DocumentsQuietStep DEF Documents!Callers
<1>18. ASSUME \A d \in Texts :
                 \/ document'[d] = document[d]
                 \/ /\ DOMAIN document'[d] = Documents!RowFields
                    /\ document'[d].status \in {"pending", "deleted"},
              DOMAIN document' = Texts, Documents!Covered',
              sweep' \in {"marked", "ingesting"},
              UNCHANGED <<bucket, chunks, deployed, ingester, listed, cut, missing, alone, copied,
                          overlapped>>
       PROVE  Documents!IInv'
  <2>1. Documents!TypeOK'
    BY <1>0, <1>18 DEF Documents!TypeOK
  <2>2. Documents!Tables'
    BY <1>0, <1>18 DEF Documents!Tables
  <2>3. \A p \in Documents!Callers, d \in Texts : Documents!Working(p, d)' <=> Documents!Working(p, d)
    BY <1>18 DEF Documents!Working
  <2>4. \A p \in Documents!Callers : Documents!NewChunks(p)' = Documents!NewChunks(p)
    BY <1>18 DEF Documents!NewChunks
  <2>5. Documents!Solo'
    BY <1>18, <2>3, <2>4 DEF Documents!Solo
  <2>6. Documents!EmbeddedIsWhole'
    <3>1. ASSUME NEW d \in Texts, document'[d].status = "ready" PROVE document'[d] = document[d]
      BY <1>18, <3>1
    <3> QED BY <1>18, <3>1 DEF Documents!EmbeddedIsWhole
  <2> QED BY <1>18, <2>1, <2>2, <2>5, <2>6
<1>19. CASE Documents!MarkOrphans
  <2> DEFINE orphan(d) == ~cut /\ Documents!IsKnown(d) /\ (\A c \in listed : c[1] # d[1])
             row(d) == [document[d] EXCEPT !.status = "deleted", !.deleted = TRUE]
  <2>1. /\ sweep = "diffed" /\ sweep' = "marked"
        /\ document' = [d \in Texts |-> IF orphan(d) THEN row(d) ELSE document[d]]
        /\ UNCHANGED <<bucket, chunks, deployed, ingester, listed, cut, missing, alone, copied,
                       overlapped>>
    BY <1>19 DEF Documents!MarkOrphans
  <2>2. \A d \in Texts :
           DOMAIN row(d) = Documents!RowFields /\ row(d).status = "deleted" /\ row(d).deleted = TRUE
    BY <1>0 DEF Documents!Tables, Documents!RowFields
  <2>3. \A d \in Texts : orphan(d) <=> (~cut /\ Documents!Live(d) /\ (\A c \in listed : c[1] # d[1]))
    BY DEF Documents!IsKnown, Documents!Live
  <2> HIDE DEF row, orphan
  <2>4. \A d \in Texts : document'[d] = IF orphan(d) THEN row(d) ELSE document[d]
    BY <2>1
  <2>5. \A d \in Texts : Documents!Live(d)' <=> Documents!Live(d) /\ ~orphan(d)
    BY <2>2, <2>4 DEF Documents!Live
  <2>6. Documents!Covered'
    <3>1. listed \subseteq Texts
      BY <1>0 DEF Documents!TypeOK
    <3>2. \A d \in listed : Documents!Live(d) => Documents!Live(d)'
      BY <2>3, <2>5, <3>1
    <3>3. ASSUME alone, ~cut, NEW d \in Texts, bucket[d[1]] = 0 PROVE ~Documents!Live(d)'
      <4>1. \A c \in listed : c[1] # d[1]
        <5>1. \A c \in listed : bucket[c[1]] = c[2]
          BY <3>3 DEF Documents!Covered
        <5>2. \A c \in listed : c[2] # 0
          BY <3>1, DocumentsSane DEF Documents!Sane
        <5> QED BY <3>3, <5>1, <5>2
      <4> QED BY <2>3, <2>5, <3>3, <4>1
    <3> QED BY <2>1, <3>2, <3>3 DEF Documents!Covered
  <2>7. DOMAIN document' = Texts
    BY <2>1
  <2> QED BY <1>18, <2>1, <2>2, <2>4, <2>6, <2>7
<1>20. CASE Documents!ResetStuck
  <2> DEFINE row(d) == [document[d] EXCEPT !.status = "pending"]
  <2>1. PICK S \in SUBSET {d \in Texts : document[d].status \in {"extracting", "embedding"}} :
            document' = [d \in Texts |-> IF d \in S THEN row(d) ELSE document[d]]
    BY <1>20 DEF Documents!ResetStuck
  <2>2. /\ sweep = "marked" /\ sweep' = "ingesting"
        /\ UNCHANGED <<bucket, chunks, deployed, ingester, listed, cut, missing, alone, copied,
                       overlapped>>
    BY <1>20 DEF Documents!ResetStuck
  <2>3. \A d \in Texts : /\ DOMAIN row(d) = Documents!RowFields /\ row(d).status = "pending"
                         /\ row(d).deleted = document[d].deleted
    BY <1>0 DEF Documents!Tables, Documents!RowFields
  <2> HIDE DEF row
  <2>4. \A d \in Texts : document'[d] = IF d \in S THEN row(d) ELSE document[d]
    BY <2>1
  <2>5. \A d \in Texts : Documents!Live(d)' <=> Documents!Live(d)
    <3>1. \A d \in S : document[d].status # "none"
      OBVIOUS
    <3> QED BY <2>3, <2>4, <3>1 DEF Documents!Live
  <2>6. Documents!Covered'
    <3>1. listed \subseteq Texts
      BY <1>0 DEF Documents!TypeOK
    <3> QED BY <2>2, <2>5, <3>1 DEF Documents!Covered
  <2>7. DOMAIN document' = Texts
    BY <2>1
  <2> QED BY <1>18, <2>2, <2>3, <2>4, <2>6, <2>7
<1>21. CASE UNCHANGED Documents!vars
  <2>1. UNCHANGED <<bucket, document, chunks, deployed, ingester, sweep, listed, cut, missing,
                    alone, copied, overlapped>>
    BY <1>21 DEF Documents!vars
  <2>2. Documents!TypeOK'
    BY <1>0, <2>1 DEF Documents!TypeOK
  <2>3. Documents!Tables'
    BY <1>0, <2>1 DEF Documents!Tables
  <2>4. Documents!Covered'
    BY <2>1 DEF Documents!Covered, Documents!Live
  <2> QED BY <2>1, <2>2, <2>3, <2>4, DocumentsQuietStep DEF Documents!Callers
<1>22. ASSUME NEW p \in Documents!Callers, Documents!SkipLarge(p) PROVE Documents!IInv'
  <2>0. PICK d \in Texts : d = ingester[p].doc
    BY <1>0, <1>22 DEF Documents!SkipLarge, Documents!Tables
  <2> USE <2>0
  <2> DEFINE row == [document[d] EXCEPT !.status = "skipped", !.deleted = FALSE]
  <2>1. /\ ingester[p].at = "headed" /\ d \in Texts
        /\ Documents!SetDocument(d, row) /\ Documents!End(p) /\ alone' = (alone /\ p = "run")
        /\ UNCHANGED <<bucket, chunks, deployed, Documents!sweepVars, copied, overlapped, events>>
        /\ UNCHANGED <<sweep, listed, cut, missing>>
    BY <1>0, <1>22 DEF Documents!SkipLarge, Documents!Own, Documents!Tables, Documents!sweepVars
  <2>2. DOMAIN row = Documents!RowFields /\ row.status = "skipped" /\ row.deleted = FALSE
    BY <1>0, <2>1 DEF Documents!Tables, Documents!RowFields
  <2> HIDE DEF row
  <2>3. /\ DOMAIN document' = Texts /\ document'[d] = row
        /\ \A x \in Texts \ {d} : document'[x] = document[x]
        /\ \A x \in Texts : DOMAIN document'[x] = Documents!RowFields
    BY <2>1, <2>2, DocumentsDocumentChange
  <2>4. /\ ingester' \in [Documents!Callers -> Documents!Ingester] /\ ingester'[p] = Documents!Resting
        /\ \A q \in Documents!Callers \ {p} : ingester'[q] = ingester[q]
        /\ \A q \in Documents!Callers : IF ingester'[q].at = "idle" THEN ingester'[q] = Documents!Resting
                              ELSE ingester'[q].doc \in Texts
    BY <2>1, DocumentsEndChange
  <2>5. alone' \in BOOLEAN /\ (alone' => alone /\ p = "run")
    BY <2>1
  <2>6. Documents!TypeOK'
    <3>1. \A q \in Documents!Callers : ingester'[q].at \in
            {"idle", "headed", "found", "upserted", "extracted", "copied", "fresh", "embedding",
             "cleared", "inserted", "failing"}
      BY <2>4 DEF Documents!Ingester
    <3> QED BY <1>0, <2>1, <2>2, <2>3, <2>5, <3>1 DEF Documents!TypeOK
  <2>7. Documents!Tables'
    BY <1>0, <2>1, <2>3, <2>4 DEF Documents!Tables
  <2>8. Documents!Live(d)' /\ ~Documents!Working(p, d)' /\ document'[d].status # "ready"
    BY <2>2, <2>3, <2>4 DEF Documents!Live, Documents!Working, Documents!Resting
  <2> QED BY <2>1, <2>3, <2>4, <2>5, <2>6, <2>7, <2>8, DocumentsWorkStep
<1> QED
  BY <1>1, <1>2, <1>3, <1>4, <1>5, <1>6, <1>7, <1>9, <1>10, <1>11, <1>12, <1>13, <1>14,
     <1>15, <1>16, <1>17, <1>19, <1>20, <1>21, <1>22 DEF Documents!Next

\* Ingests that die half way, redeployments and interleaved sweeps: an embedded document has
\* the chunks of one text and one model while no ingests overlap, and an undisturbed sweep
\* leaves the documents of the bucket.
LEMMA DocumentsHolds == Documents!Spec => []Documents!Safety
<1>1. Documents!Init => Documents!IInv
  BY DocumentsInitHolds, DocumentsSane DEF Documents!Init, Documents!Sane
<1>2. Documents!IInv /\ [Documents!Next]_(Documents!vars) => Documents!IInv'
  BY DocumentsStepHolds
<1>3. Documents!IInv => Documents!Safety
  <2>1. Documents!IInv => Documents!ReconciledCovers
    BY DEF Documents!IInv, Documents!Covered, Documents!ReconciledCovers, Documents!Resting
  <2> QED BY <2>1 DEF Documents!IInv, Documents!Safety
<1> QED BY <1>1, <1>2, <1>3, PTL DEF Documents!Spec

-----------------------------------------------------------------------------
(* DocExtraction                                                           *)

LEMMA PapersExtractorChange ==
    ASSUME NEW x \in Papers!Extractor, NEW e \in PaperEtags \union {0}, NEW S \in SUBSET Papers!Fields
    PROVE  /\ Papers!Away \in Papers!Extractor
           /\ [Papers!Away EXCEPT !.at = "seen", !.etag = e] \in Papers!Extractor
           /\ [x EXCEPT !.at = "schema", !.fields = S] \in Papers!Extractor
           /\ [x EXCEPT !.at = "claimed"] \in Papers!Extractor
           /\ [x EXCEPT !.at = "queueing", !.left = S] \in Papers!Extractor
           /\ [x EXCEPT !.left = S] \in Papers!Extractor
BY DEF Papers!Extractor, Papers!Away

LEMMA PapersExtractionChange ==
    ASSUME NEW r \in Papers!Extraction, NEW S \in SUBSET Papers!Fields,
           NEW st \in {"none", "extracting", "pending", "ready", "needs_review", "failed"}
    PROVE  /\ [status |-> "extracting", fields |-> S, doubtful |-> {}] \in Papers!Extraction
           /\ [r EXCEPT !.status = st] \in Papers!Extraction
           /\ [r EXCEPT !.status = st, !.doubtful = S] \in Papers!Extraction
BY DEF Papers!Extraction

LEMMA PapersInitHolds == ASSUME Papers!Init PROVE Papers!IInv
<1> USE DEF Papers!Init, Papers!Away
<1>1. Papers!Shape
  <2>1. extractor \in [Papers!Deliveries -> Papers!Extractor]
    BY DEF Papers!Extractor
  <2>2. extractions \in [PaperEtags -> Papers!Extraction]
    BY DEF Papers!Extraction
  <2> QED BY <2>1, <2>2 DEF Papers!Shape
<1>2. Papers!OneOwner /\ Papers!OwnersWork
  BY DEF Papers!OneOwner, Papers!OwnersWork, Papers!Owns
<1>3. Papers!Unclaimed /\ Papers!ExtractedOnce
  BY DEF Papers!Unclaimed, Papers!ExtractedOnce
<1>4. Papers!DoubtIsReviewed
  BY DEF Papers!DoubtIsReviewed
<1> QED BY <1>1, <1>2, <1>3, <1>4 DEF Papers!IInv

\* Steps that leave the tables alone.
LEMMA PapersQuietStep ==
    ASSUME Papers!IInv, UNCHANGED <<extractions, queue, calls>>, Papers!Shape', lost \subseteq lost',
           NEW p \in Papers!Deliveries,
           \A q \in Papers!Deliveries \ {p} : extractor'[q] = extractor[q],
           extractor'[p] = extractor[p] \/ extractor'[p].at \in {"idle", "seen", "schema"},
           extractor[p].at = "queueing" =>
              extractor'[p] = extractor[p] \/ \A f \in extractor[p].left : <<extractor[p].etag, f>> \in lost'
    PROVE  Papers!IInv'
<1> USE DEF Papers!IInv
<1>1. Papers!OneOwner' /\ Papers!OwnersWork'
  BY DEF Papers!OneOwner, Papers!OwnersWork, Papers!Owns
<1>2. Papers!Unclaimed' /\ Papers!ExtractedOnce'
  BY DEF Papers!Unclaimed, Papers!ExtractedOnce
<1>3. Papers!DoubtIsReviewed'
  <2>1. ASSUME NEW e \in PaperEtags, extractions[e].status = "needs_review",
               \A q \in Papers!Deliveries : extractor'[q].at = "queueing" => extractor'[q].etag # e,
               NEW f \in extractions[e].doubtful
        PROVE  queue[<<e, f>>] # "none" \/ <<e, f>> \in lost'
    <3>1. CASE extractor[p].at = "queueing" /\ extractor[p].etag = e
      <4>1. Papers!Owns(p, e) /\ extractor'[p] # extractor[p]
        BY <2>1, <3>1 DEF Papers!Owns
      <4>2. f \in extractor[p].left \/ queue[<<e, f>>] # "none"
        BY <3>1, <4>1 DEF Papers!OwnersWork
      <4> QED BY <3>1, <4>1, <4>2
    <3>2. CASE ~(extractor[p].at = "queueing" /\ extractor[p].etag = e)
      <4>1. \A q \in Papers!Deliveries : extractor[q].at = "queueing" => extractor[q].etag # e
        BY <2>1, <3>2
      <4> QED BY <2>1, <4>1 DEF Papers!DoubtIsReviewed
    <3> QED BY <3>1, <3>2
  <2> QED BY <2>1 DEF Papers!DoubtIsReviewed
<1> QED BY <1>1, <1>2, <1>3

LEMMA PapersStepHolds == ASSUME Papers!IInv, [Papers!Next]_(Papers!vars) PROVE Papers!IInv'
<1> USE DEF Papers!IInv
<1>0. Papers!Shape
  OBVIOUS
<1>1. CASE Papers!Upload
  <2>1. Papers!Shape'
    BY <1>1 DEF Papers!Upload, Papers!Shape
  <2> QED BY <1>1, <2>1, PapersQuietStep DEF Papers!Upload, Papers!Deliveries
<1>2. ASSUME NEW fields \in Schemas, Papers!Declare(fields) PROVE Papers!IInv'
  <2>1. Papers!Shape'
    BY <1>2 DEF Papers!Declare, Papers!Shape
  <2> QED BY <1>2, <2>1, PapersQuietStep DEF Papers!Declare, Papers!Deliveries
<1>3. ASSUME NEW p \in Papers!Deliveries, Papers!Deliver(p) PROVE Papers!IInv'
  <2>1. paper \in PaperEtags
    BY <1>0, <1>3 DEF Papers!Deliver, Papers!Shape
  <2>2. extractor' \in [Papers!Deliveries -> Papers!Extractor]
    BY <1>0, <1>3, <2>1, PapersExtractorChange DEF Papers!Deliver, Papers!Shape
  <2>3. extractor'[p].at = "seen" /\ extractor'[p].etag = paper
    BY <1>0, <1>3 DEF Papers!Deliver, Papers!Shape, Papers!Away
  <2>4. Papers!Shape'
    BY <1>3, <2>1, <2>2, <2>3 DEF Papers!Deliver, Papers!Shape
  <2> QED BY <1>0, <1>3, <2>3, <2>4, PapersQuietStep DEF Papers!Deliver, Papers!Shape
<1>4. ASSUME NEW p \in Papers!Deliveries, Papers!ReadSchema(p) PROVE Papers!IInv'
  <2>1. schema \in SUBSET Papers!Fields
    BY <1>0 DEF Papers!Shape, Papers!Fields
  <2>2. extractor[p] \in Papers!Extractor
    BY <1>0 DEF Papers!Shape
  <2>3. extractor' \in [Papers!Deliveries -> Papers!Extractor]
    BY <1>0, <1>4, <2>1, <2>2, PapersExtractorChange DEF Papers!ReadSchema, Papers!Shape
  <2>4. /\ extractor'[p].at \in {"idle", "schema"}
        /\ extractor'[p].at # "idle" => extractor'[p].etag = extractor[p].etag
    BY <1>0, <1>4, <2>2 DEF Papers!ReadSchema, Papers!Shape, Papers!Extractor, Papers!Away
  <2>5. Papers!Shape'
    BY <1>4, <2>3, <2>4 DEF Papers!ReadSchema, Papers!Shape
  <2> QED BY <1>0, <1>4, <2>4, <2>5, PapersQuietStep DEF Papers!ReadSchema, Papers!Shape
<1>5. ASSUME NEW p \in Papers!Deliveries, Papers!Claim(p) PROVE Papers!IInv'
  <2> DEFINE e == extractor[p].etag
  <2>1. e \in PaperEtags /\ extractor[p] \in Papers!Extractor
    BY <1>0, <1>5 DEF Papers!Claim, Papers!Shape
  <2>2. CASE Papers!Known(e)
    <3>0. /\ extractor' = [extractor EXCEPT ![p] = Papers!Away]
          /\ UNCHANGED <<paper, schema, extractions, queue, calls, lost>>
      BY <1>5, <2>2 DEF Papers!Claim
    <3>1. extractor' \in [Papers!Deliveries -> Papers!Extractor] /\ extractor'[p].at = "idle"
      <4>1. Papers!Away \in Papers!Extractor /\ Papers!Away.at = "idle"
        BY DEF Papers!Away, Papers!Extractor
      <4> QED BY <1>0, <3>0, <4>1 DEF Papers!Shape
    <3>2. Papers!Shape'
      BY <1>0, <3>0, <3>1 DEF Papers!Shape
    <3>3. /\ \A q \in Papers!Deliveries \ {p} : extractor'[q] = extractor[q]
          /\ extractor[p].at # "queueing" /\ lost \subseteq lost'
      BY <1>0, <1>5, <3>0 DEF Papers!Claim, Papers!Shape
    <3> QED BY <3>0, <3>1, <3>2, <3>3, PapersQuietStep
  <2>3. CASE ~Papers!Known(e)
    <3>1. extractor' \in [Papers!Deliveries -> Papers!Extractor]
      BY <1>0, <1>5, <2>1, <2>3, PapersExtractorChange DEF Papers!Claim, Papers!Shape
    <3>2. /\ extractor'[p].at = "claimed" /\ extractor'[p].etag = e
          /\ extractor'[p].fields = extractor[p].fields
          /\ \A q \in Papers!Deliveries \ {p} : extractor'[q] = extractor[q]
      BY <1>0, <1>5, <2>1, <2>3 DEF Papers!Claim, Papers!Shape, Papers!Extractor
    <3>3. /\ extractions'[e] = [status |-> "extracting", fields |-> extractor[p].fields,
                                doubtful |-> {}]
          /\ \A x \in PaperEtags \ {e} : extractions'[x] = extractions[x]
      BY <1>0, <1>5, <2>1, <2>3 DEF Papers!Claim, Papers!Shape
    <3>4. extractions' \in [PaperEtags -> Papers!Extraction]
      <4>1. extractor[p].fields \in SUBSET Papers!Fields
        BY <2>1 DEF Papers!Extractor
      <4>2. [status |-> "extracting", fields |-> extractor[p].fields, doubtful |-> {}]
              \in Papers!Extraction
        BY <4>1 DEF Papers!Extraction
      <4>3. \E r \in Papers!Extraction : extractions' = [extractions EXCEPT ![e] = r]
        BY <1>5, <2>3, <4>2 DEF Papers!Claim
      <4>4. extractions \in [PaperEtags -> Papers!Extraction]
        BY <1>0 DEF Papers!Shape
      <4> QED BY <4>3, <4>4
    <3>5. Papers!Shape'
      BY <1>5, <2>1, <3>1, <3>2, <3>3, <3>4 DEF Papers!Claim, Papers!Shape
    <3>6. calls[e] = 0 /\ extractions[e].doubtful = {} /\ \A q \in Papers!Deliveries : ~Papers!Owns(q, e)
      BY <2>1, <2>3 DEF Papers!Known, Papers!Unclaimed, Papers!OwnersWork, Papers!Owns
    <3>7. Papers!OneOwner'
      BY <3>2, <3>6 DEF Papers!OneOwner, Papers!Owns
    <3>8. Papers!OwnersWork'
      BY <1>5, <2>1, <3>2, <3>3, <3>6 DEF Papers!OwnersWork, Papers!Owns, Papers!Claim
    <3>9. Papers!Unclaimed' /\ Papers!ExtractedOnce'
      BY <1>5, <2>1, <3>3, <3>6 DEF Papers!Unclaimed, Papers!ExtractedOnce, Papers!Claim
    <3>10. Papers!DoubtIsReviewed'
      BY <1>5, <2>1, <3>2, <3>3, <3>6 DEF Papers!DoubtIsReviewed, Papers!Claim
    <3> QED BY <3>5, <3>7, <3>8, <3>9, <3>10
  <2> QED BY <2>2, <2>3
<1>6. ASSUME NEW p \in Papers!Deliveries, NEW answer \in Papers!Answers(extractor[p].fields),
             Papers!Answer(p, answer)
      PROVE  Papers!IInv'
  <2> DEFINE e == extractor[p].etag
             D == Papers!Doubtful(extractor[p].fields, answer)
  <2>1. e \in PaperEtags /\ extractor[p] \in Papers!Extractor /\ extractions[e] \in Papers!Extraction
    BY <1>0, <1>6 DEF Papers!Answer, Papers!Shape
  <2>2. D \in SUBSET Papers!Fields /\ D \subseteq extractions[e].fields
    BY <1>6, <2>1 DEF Papers!Doubtful, Papers!Extractor, Papers!OwnersWork, Papers!Owns,
         Papers!Answer
  <2> HIDE DEF D
  <2>3. /\ extractions' = [extractions EXCEPT ![e] =
              [@ EXCEPT !.status = IF D = {} THEN "ready" ELSE "needs_review", !.doubtful = D]]
        /\ extractor' = [extractor EXCEPT ![p] =
              IF D = {} THEN Papers!Away ELSE [@ EXCEPT !.at = "queueing", !.left = D]]
        /\ calls' = [calls EXCEPT ![e] = @ + 1]
        /\ UNCHANGED <<paper, schema, queue, lost>>
    BY <1>0, <1>6, <2>1 DEF Papers!Answer, D, Papers!Shape
  <2>4. /\ extractions'[e].status = IF D = {} THEN "ready" ELSE "needs_review"
        /\ extractions'[e].doubtful = D /\ extractions'[e].fields = extractions[e].fields
        /\ \A x \in PaperEtags \ {e} : extractions'[x] = extractions[x]
        /\ extractions' \in [PaperEtags -> Papers!Extraction]
    <3>1. extractions' \in [PaperEtags -> Papers!Extraction]
      BY <1>0, <2>1, <2>2, <2>3, PapersExtractionChange DEF Papers!Shape
    <3> QED BY <1>0, <2>1, <2>3, <3>1 DEF Papers!Shape, Papers!Extraction
  <2>5. /\ extractor' \in [Papers!Deliveries -> Papers!Extractor]
        /\ D = {} => extractor'[p].at = "idle"
        /\ D # {} => extractor'[p].at = "queueing" /\ extractor'[p].etag = e
                                                  /\ extractor'[p].left = D
        /\ \A q \in Papers!Deliveries \ {p} : extractor'[q] = extractor[q]
    <3>1. extractor' \in [Papers!Deliveries -> Papers!Extractor]
      BY <1>0, <2>1, <2>2, <2>3, PapersExtractorChange DEF Papers!Shape
    <3> QED BY <1>0, <2>1, <2>3, <3>1 DEF Papers!Shape, Papers!Extractor, Papers!Away
  <2>6. Papers!Shape'
    <3>1. calls' \in [PaperEtags -> Nat]
      BY <1>0, <2>1, <2>3 DEF Papers!Shape
    <3>2. \A q \in Papers!Deliveries : extractor'[q].at # "idle" => extractor'[q].etag \in PaperEtags
      BY <1>0, <2>1, <2>5 DEF Papers!Shape
    <3>3. \A x \in PaperEtags : extractions'[x].doubtful \subseteq extractions'[x].fields
      BY <1>0, <2>1, <2>2, <2>4 DEF Papers!Shape
    <3> QED BY <1>0, <2>3, <2>4, <2>5, <3>1, <3>2, <3>3 DEF Papers!Shape
  <2>7. calls[e] = 0 /\ extractions[e].doubtful = {} /\ \A q \in Papers!Deliveries \ {p} : ~Papers!Owns(q, e)
    BY <1>6, <2>1 DEF Papers!Answer, Papers!OwnersWork, Papers!OneOwner, Papers!Owns
  <2>8. Papers!OneOwner'
    BY <1>6, <2>5 DEF Papers!OneOwner, Papers!Owns, Papers!Answer
  <2>9. Papers!OwnersWork'
    <3>1. \A q \in Papers!Deliveries \ {p}, x \in PaperEtags : Papers!Owns(q, x)' => Papers!Owns(q, x) /\ x # e
      BY <2>1, <2>5, <2>7 DEF Papers!Owns
    <3>2. \A x \in PaperEtags \ {e} : calls'[x] = calls[x]
      BY <1>0, <2>1, <2>3 DEF Papers!Shape
    <3>3. ASSUME NEW x \in PaperEtags, Papers!Owns(p, x)' PROVE x = e /\ D # {}
      BY <2>5, <3>3 DEF Papers!Owns
    <3>4. ASSUME NEW q \in Papers!Deliveries \ {p}, NEW x \in PaperEtags, Papers!Owns(q, x)'
          PROVE  /\ extractor'[q] = extractor[q] /\ Papers!Owns(q, x)
                 /\ extractions'[x] = extractions[x] /\ calls'[x] = calls[x] /\ queue' = queue
      BY <2>3, <2>4, <2>5, <3>1, <3>2, <3>4
    <3>5. ASSUME NEW x \in PaperEtags, Papers!Owns(p, x)'
          PROVE  /\ extractor'[p].at = "queueing" /\ extractor'[p].left = D /\ D # {}
                 /\ extractions'[x].status = "needs_review" /\ extractions'[x].doubtful = D
      BY <2>4, <2>5, <3>3, <3>5
    <3> QED BY <3>4, <3>5 DEF Papers!OwnersWork
  <2>10. Papers!Unclaimed'
    <3>1. ASSUME NEW x \in PaperEtags \ {e}
          PROVE  extractions'[x] = extractions[x] /\ calls'[x] = calls[x]
      <4>1. calls'[x] = calls[x]
        BY <1>0, <2>1, <2>3 DEF Papers!Shape
      <4> QED BY <2>4, <4>1
    <3>2. extractions'[e].status # "none"
      BY <2>4
    <3>3. \A f \in Papers!Fields : queue'[<<e, f>>] = "none"
      BY <2>1, <2>3, <2>7 DEF Papers!Unclaimed
    <3> QED BY <2>3, <3>1, <3>2, <3>3 DEF Papers!Unclaimed
  <2>11. Papers!ExtractedOnce'
    BY <1>0, <2>1, <2>3, <2>7 DEF Papers!ExtractedOnce, Papers!Shape
  <2>12. Papers!DoubtIsReviewed'
    <3>1. ASSUME NEW x \in PaperEtags \ {e}
          PROVE  extractions'[x] = extractions[x] /\ extractor[p].etag # x
      BY <2>1, <2>4
    <3>2. D = {} => extractions'[e].status = "ready"
      BY <2>4
    <3>3. D # {} => extractor'[p].at = "queueing" /\ extractor'[p].etag = e
                    /\ extractions'[e].status = "needs_review"
      BY <2>4, <2>5
    <3>4. ASSUME NEW x \in PaperEtags, x # e,
                 \A q \in Papers!Deliveries : extractor'[q].at = "queueing" => extractor'[q].etag # x
          PROVE  \A q \in Papers!Deliveries : extractor[q].at = "queueing" => extractor[q].etag # x
      BY <2>5, <3>1, <3>4
    <3>5. ASSUME NEW x \in PaperEtags, x # e
          PROVE  /\ (extractions'[x].status = "needs_review"
                        /\ \A q \in Papers!Deliveries : extractor'[q].at = "queueing" => extractor'[q].etag # x)
                       => \A f \in extractions'[x].doubtful : queue'[<<x, f>>] # "none" \/ <<x, f>> \in lost'
                 /\ extractions'[x].status = "ready" => extractions'[x].doubtful = {}
      <4>1. extractions'[x] = extractions[x] /\ queue' = queue /\ lost' = lost
        BY <2>3, <3>1, <3>5
      <4> QED BY <3>4, <3>5, <4>1 DEF Papers!DoubtIsReviewed
    <3>6. /\ (extractions'[e].status = "needs_review"
                 /\ \A q \in Papers!Deliveries : extractor'[q].at = "queueing" => extractor'[q].etag # e)
                => \A f \in extractions'[e].doubtful : queue'[<<e, f>>] # "none" \/ <<e, f>> \in lost'
          /\ extractions'[e].status = "ready" => extractions'[e].doubtful = {}
      BY <2>4, <3>2, <3>3
    <3> QED BY <2>10, <3>5, <3>6 DEF Papers!DoubtIsReviewed, Papers!Unclaimed
  <2> QED BY <2>6, <2>8, <2>9, <2>10, <2>11, <2>12
<1>7. ASSUME NEW p \in Papers!Deliveries, NEW f \in Papers!Fields, Papers!QueueField(p, f) PROVE Papers!IInv'
  <2> DEFINE e == extractor[p].etag
  <2>1. e \in PaperEtags /\ extractor[p] \in Papers!Extractor /\ Papers!Owns(p, e)
    BY <1>0, <1>7 DEF Papers!QueueField, Papers!Shape, Papers!Owns
  <2>2. /\ queue' = [queue EXCEPT ![<<e, f>>] = IF @ = "none" THEN "open" ELSE @]
        /\ queue' \in [PaperEtags \X Papers!Fields -> {"none", "open", "reviewed"}]
        /\ queue'[<<e, f>>] # "none"
        /\ \A x \in PaperEtags, g \in Papers!Fields :
              queue'[<<x, g>>] = queue[<<x, g>>] \/ (x = e /\ g = f)
    BY <1>0, <1>7, <2>1 DEF Papers!QueueField, Papers!Shape
  <2>3. /\ extractor' \in [Papers!Deliveries -> Papers!Extractor]
        /\ \A q \in Papers!Deliveries \ {p} : extractor'[q] = extractor[q]
        /\ extractor[p].left = {f} => extractor'[p].at = "idle"
        /\ extractor[p].left # {f} => /\ extractor'[p].at = "queueing" /\ extractor'[p].etag = e
                                      /\ extractor'[p].left = extractor[p].left \ {f}
    <3> DEFINE L == extractor[p].left \ {f}
               new == IF extractor[p].left = {f} THEN Papers!Away ELSE [extractor[p] EXCEPT !.left = L]
    <3>1. L \in SUBSET Papers!Fields
      BY <2>1 DEF Papers!Extractor
    <3>2. extractor' = [extractor EXCEPT ![p] = new]
      BY <1>7 DEF Papers!QueueField
    <3>3. Papers!Away \in Papers!Extractor /\ [extractor[p] EXCEPT !.left = L] \in Papers!Extractor
      BY <2>1, <3>1, PapersExtractorChange
    <3>4. new \in Papers!Extractor
      BY <3>3
    <3>5. extractor[p].left = {f} => new.at = "idle"
      BY DEF Papers!Away
    <3>6. extractor[p].left # {f} => new.at = extractor[p].at /\ new.etag = e /\ new.left = L
      BY <2>1 DEF Papers!Extractor
    <3>7. extractor[p].at = "queueing"
      BY <1>7 DEF Papers!QueueField
    <3> HIDE DEF new
    <3>8. /\ extractor' \in [Papers!Deliveries -> Papers!Extractor] /\ extractor'[p] = new
          /\ \A q \in Papers!Deliveries \ {p} : extractor'[q] = extractor[q]
      BY <1>0, <3>2, <3>4 DEF Papers!Shape
    <3> QED BY <3>5, <3>6, <3>7, <3>8
  <2>4. Papers!Shape'
    BY <1>7, <2>1, <2>2, <2>3 DEF Papers!QueueField, Papers!Shape
  <2>5. /\ f \in extractions[e].doubtful /\ extractions[e].status = "needs_review"
        /\ extractor[p].at = "queueing" /\ f \in extractor[p].left
        /\ extractor[p].left \subseteq extractions[e].doubtful
        /\ \A g \in extractions[e].doubtful \ extractor[p].left : queue[<<e, g>>] # "none"
    BY <1>7, <2>1 DEF Papers!QueueField, Papers!OwnersWork
  <2>6. \A q \in Papers!Deliveries, x \in PaperEtags : Papers!Owns(q, x)' => Papers!Owns(q, x) /\ (q # p => x # e)
    BY <2>1, <2>3, <2>5 DEF Papers!Owns, Papers!OneOwner
  <2>7. Papers!OneOwner'
    BY <2>6 DEF Papers!OneOwner
  <2>8. \A g \in extractions[e].doubtful : g \in Papers!Fields
    BY <1>0, <2>1 DEF Papers!Shape, Papers!Extraction
  <2>9. Papers!OwnersWork'
    <3>1. ASSUME NEW q \in Papers!Deliveries \ {p}, NEW x \in PaperEtags, Papers!Owns(q, x)'
          PROVE  /\ extractor'[q] = extractor[q] /\ Papers!Owns(q, x)
                 /\ \A g \in Papers!Fields : queue'[<<x, g>>] = queue[<<x, g>>]
      BY <2>2, <2>3, <2>6, <3>1
    <3>2. \A x \in PaperEtags : extractions[x].doubtful \subseteq Papers!Fields
      BY <1>0 DEF Papers!Shape, Papers!Extraction
    <3>3. ASSUME NEW x \in PaperEtags, Papers!Owns(p, x)' PROVE x = e /\ extractor[p].left # {f}
      BY <2>3, <3>3 DEF Papers!Owns
    <3>4. ASSUME NEW q \in Papers!Deliveries \ {p}, NEW x \in PaperEtags, Papers!Owns(q, x)'
          PROVE  (/\ extractor[q].at = "claimed" =>
                        /\ extractions[x].status = "extracting" /\ calls[x] = 0
                        /\ extractions[x].doubtful = {} /\ extractions[x].fields = extractor[q].fields
                  /\ extractor[q].at = "queueing" =>
                        /\ extractions[x].status = "needs_review" /\ extractor[q].left # {}
                        /\ \A g \in extractions[x].doubtful \ extractor[q].left : queue[<<x, g>>] # "none"
                        /\ extractor[q].left \subseteq extractions[x].doubtful)'
      BY <1>7, <3>1, <3>2, <3>4 DEF Papers!OwnersWork, Papers!QueueField
    <3>5. ASSUME NEW x \in PaperEtags, Papers!Owns(p, x)'
          PROVE  (/\ extractor[p].at = "queueing"
                  /\ extractions[x].status = "needs_review" /\ extractor[p].left # {}
                  /\ \A g \in extractions[x].doubtful \ extractor[p].left : queue[<<x, g>>] # "none"
                  /\ extractor[p].left \subseteq extractions[x].doubtful)'
      <4>1. x = e /\ extractor[p].left # {f}
        BY <3>3, <3>5
      <4>2. extractor[p].left \ {f} # {}
        BY <2>5, <4>1
      <4> QED BY <1>7, <2>2, <2>3, <2>5, <2>8, <4>1, <4>2 DEF Papers!QueueField
    <3> QED BY <3>4, <3>5 DEF Papers!OwnersWork
  <2>10. Papers!Unclaimed' /\ Papers!ExtractedOnce'
    BY <1>7, <2>2, <2>5 DEF Papers!Unclaimed, Papers!ExtractedOnce, Papers!QueueField
  <2>11. Papers!DoubtIsReviewed'
    <3>1. ASSUME NEW x \in PaperEtags, extractions[x].status = "needs_review",
                 \A q \in Papers!Deliveries : extractor'[q].at = "queueing" => extractor'[q].etag # x,
                 NEW g \in extractions[x].doubtful
          PROVE  queue'[<<x, g>>] # "none" \/ <<x, g>> \in lost
      <4>0. g \in Papers!Fields
        BY <1>0 DEF Papers!Shape, Papers!Extraction
      <4>1. CASE x = e
        <5>1. extractor[p].left = {f}
          BY <2>3, <3>1, <4>1
        <5> QED BY <2>2, <2>5, <4>0, <4>1, <5>1
      <4>2. CASE x # e
        <5>1. \A q \in Papers!Deliveries : extractor[q].at = "queueing" => extractor[q].etag # x
          BY <2>3, <3>1, <4>2
        <5> QED BY <2>2, <3>1, <4>0, <4>2, <5>1 DEF Papers!DoubtIsReviewed
      <4> QED BY <4>1, <4>2
    <3> QED BY <1>7, <2>10, <3>1 DEF Papers!DoubtIsReviewed, Papers!QueueField, Papers!Unclaimed
  <2> QED BY <2>4, <2>7, <2>9, <2>10, <2>11
<1>8. ASSUME NEW p \in Papers!Deliveries, Papers!Fail(p) PROVE Papers!IInv'
  <2> DEFINE e == extractor[p].etag
  <2>0. /\ calls' \in [PaperEtags -> Nat] /\ \A x \in PaperEtags \ {e} : calls'[x] = calls[x]
        /\ calls'[e] <= 1
    <3>1. e \in PaperEtags /\ calls \in [PaperEtags -> Nat] /\ calls[e] <= 1
          /\ (extractor[p].at = "claimed" => calls[e] = 0)
      BY <1>0, <1>8 DEF Papers!Fail, Papers!Shape, Papers!ExtractedOnce, Papers!OwnersWork, Papers!Owns
    <3>2. calls' = calls \/ (extractor[p].at = "claimed" /\ calls' = [calls EXCEPT ![e] = @ + 1])
      BY <1>8 DEF Papers!Fail, Papers!MayHaveCalled
    <3> QED BY <3>1, <3>2
  <2>1. e \in PaperEtags /\ extractions[e] \in Papers!Extraction /\ Papers!Owns(p, e)
    BY <1>0, <1>8 DEF Papers!Fail, Papers!Shape, Papers!Owns
  <2>2. /\ extractions' \in [PaperEtags -> Papers!Extraction]
        /\ extractions'[e].status = "failed" /\ extractions'[e].fields = extractions[e].fields
        /\ extractions'[e].doubtful = extractions[e].doubtful
        /\ \A x \in PaperEtags \ {e} : extractions'[x] = extractions[x]
    <3>1. extractions' \in [PaperEtags -> Papers!Extraction]
      BY <1>0, <1>8, <2>1, PapersExtractionChange DEF Papers!Fail, Papers!Shape
    <3> QED BY <1>0, <1>8, <2>1, <3>1 DEF Papers!Fail, Papers!Shape, Papers!Extraction
  <2>3. /\ extractor' \in [Papers!Deliveries -> Papers!Extractor] /\ extractor'[p].at = "idle"
        /\ \A q \in Papers!Deliveries \ {p} : extractor'[q] = extractor[q]
    BY <1>0, <1>8, PapersExtractorChange DEF Papers!Fail, Papers!Shape, Papers!Away
  <2>4. Papers!Shape'
    BY <1>0, <1>8, <2>0, <2>1, <2>2, <2>3 DEF Papers!Fail, Papers!Shape
  <2>5. \A q \in Papers!Deliveries, x \in PaperEtags : Papers!Owns(q, x)' => q # p /\ Papers!Owns(q, x) /\ x # e
    BY <2>1, <2>3 DEF Papers!Owns, Papers!OneOwner
  <2>6. Papers!OneOwner' /\ Papers!OwnersWork'
    BY <1>8, <2>0, <2>2, <2>3, <2>5 DEF Papers!OneOwner, Papers!OwnersWork, Papers!Fail
  <2>7. Papers!Unclaimed' /\ Papers!ExtractedOnce'
    BY <1>8, <2>0, <2>1, <2>2 DEF Papers!Unclaimed, Papers!ExtractedOnce, Papers!Fail
  <2>8. Papers!DoubtIsReviewed'
    <3>1. \A x \in PaperEtags \ {e} : extractor[p].etag # x
      OBVIOUS
    <3> QED BY <1>8, <2>1, <2>2, <2>3, <2>7, <3>1 DEF Papers!DoubtIsReviewed, Papers!Fail,
         Papers!Unclaimed
  <2> QED BY <2>4, <2>6, <2>7, <2>8
<1>9. ASSUME NEW p \in Papers!Deliveries, Papers!Die(p) PROVE Papers!IInv'
  <2> DEFINE e == extractor[p].etag
  <2>1. e \in PaperEtags
    BY <1>0, <1>9 DEF Papers!Die, Papers!Shape
  <2>2. /\ extractor' \in [Papers!Deliveries -> Papers!Extractor] /\ extractor'[p].at = "idle"
        /\ \A q \in Papers!Deliveries \ {p} : extractor'[q] = extractor[q]
    BY <1>0, <1>9, PapersExtractorChange DEF Papers!Die, Papers!Shape, Papers!Away
  <2>3. /\ lost \subseteq lost' /\ lost' \subseteq PaperEtags \X Papers!Fields
        /\ \A f \in extractor[p].left : <<e, f>> \in lost'
    <3>1. extractor[p].left \subseteq Papers!Fields
      BY <1>0 DEF Papers!Shape, Papers!Extractor
    <3> QED BY <1>0, <1>9, <2>1, <3>1 DEF Papers!Die, Papers!Shape
  <2>4. CASE UNCHANGED calls
    <3>1. Papers!Shape'
      BY <1>9, <2>2, <2>3, <2>4 DEF Papers!Die, Papers!Shape
    <3> QED BY <1>9, <2>2, <2>3, <2>4, <3>1, PapersQuietStep DEF Papers!Die
  <2>5. CASE extractor[p].at = "claimed" /\ calls' = [calls EXCEPT ![e] = @ + 1]
    <3>1. Papers!Owns(p, e) /\ calls[e] = 0 /\ extractions[e].status = "extracting"
      BY <2>1, <2>5 DEF Papers!Owns, Papers!OwnersWork
    <3>2. calls' \in [PaperEtags -> Nat] /\ calls'[e] = 1 /\ \A x \in PaperEtags \ {e} : calls'[x] = calls[x]
      BY <1>0, <2>1, <2>5, <3>1 DEF Papers!Shape
    <3>3. Papers!Shape'
      BY <1>9, <2>2, <2>3, <3>2 DEF Papers!Die, Papers!Shape
    <3>4. \A q \in Papers!Deliveries, x \in PaperEtags : Papers!Owns(q, x)' => q # p /\ Papers!Owns(q, x) /\ x # e
      BY <2>2, <3>1 DEF Papers!Owns, Papers!OneOwner
    <3>5. Papers!OneOwner' /\ Papers!OwnersWork'
      BY <1>9, <2>2, <3>2, <3>4 DEF Papers!OneOwner, Papers!OwnersWork, Papers!Die
    <3>6. Papers!Unclaimed' /\ Papers!ExtractedOnce'
      BY <1>9, <3>1, <3>2 DEF Papers!Unclaimed, Papers!ExtractedOnce, Papers!Die
    <3>7. Papers!DoubtIsReviewed'
      BY <1>9, <2>2, <2>3, <2>5 DEF Papers!DoubtIsReviewed, Papers!Die
    <3> QED BY <3>3, <3>5, <3>6, <3>7
  <2> QED BY <1>9, <2>4, <2>5 DEF Papers!Die, Papers!MayHaveCalled
<1>10. ASSUME NEW e \in PaperEtags, Papers!Reset(e) PROVE Papers!IInv'
  <2>1. extractions[e] \in Papers!Extraction
    BY <1>0 DEF Papers!Shape
  <2>2. /\ extractions' \in [PaperEtags -> Papers!Extraction]
        /\ extractions'[e].status = "pending" /\ extractions'[e].fields = extractions[e].fields
        /\ extractions'[e].doubtful = extractions[e].doubtful
        /\ \A x \in PaperEtags \ {e} : extractions'[x] = extractions[x]
    <3>1. extractions' \in [PaperEtags -> Papers!Extraction]
      BY <1>0, <1>10, <2>1, PapersExtractionChange DEF Papers!Reset, Papers!Shape
    <3> QED BY <1>0, <1>10, <2>1, <3>1 DEF Papers!Reset, Papers!Shape, Papers!Extraction
  <2>3. Papers!Shape'
    BY <1>10, <2>2 DEF Papers!Reset, Papers!Shape
  <2>4. \A q \in Papers!Deliveries : ~Papers!Owns(q, e)
    BY <1>10 DEF Papers!Reset, Papers!Owns
  <2>5. Papers!OneOwner' /\ Papers!OwnersWork'
    BY <1>10, <2>2, <2>4 DEF Papers!OneOwner, Papers!OwnersWork, Papers!Owns, Papers!Reset
  <2>6. Papers!Unclaimed' /\ Papers!ExtractedOnce'
    BY <1>10, <2>2 DEF Papers!Unclaimed, Papers!ExtractedOnce, Papers!Reset
  <2>7. Papers!DoubtIsReviewed'
    BY <1>10, <2>2, <2>6 DEF Papers!DoubtIsReviewed, Papers!Reset, Papers!Unclaimed
  <2> QED BY <2>3, <2>5, <2>6, <2>7
<1>11. ASSUME NEW e \in PaperEtags, NEW f \in Papers!Fields, Papers!Review(e, f) PROVE Papers!IInv'
  <2>1. /\ queue' \in [PaperEtags \X Papers!Fields -> {"none", "open", "reviewed"}]
        /\ \A x \in PaperEtags, g \in Papers!Fields : queue'[<<x, g>>] # "none" <=> queue[<<x, g>>] # "none"
    BY <1>0, <1>11 DEF Papers!Review, Papers!Shape
  <2>2. \A x \in PaperEtags : extractions[x].doubtful \subseteq Papers!Fields
    BY <1>0 DEF Papers!Shape, Papers!Extraction
  <2>3. Papers!Shape'
    BY <1>11, <2>1 DEF Papers!Review, Papers!Shape
  <2>4. Papers!OneOwner' /\ Papers!OwnersWork'
    BY <1>11, <2>1, <2>2 DEF Papers!OneOwner, Papers!OwnersWork, Papers!Owns, Papers!Review
  <2>5. Papers!Unclaimed' /\ Papers!ExtractedOnce'
    BY <1>11, <2>1 DEF Papers!Unclaimed, Papers!ExtractedOnce, Papers!Review
  <2>6. Papers!DoubtIsReviewed'
    BY <1>11, <2>1, <2>2 DEF Papers!DoubtIsReviewed, Papers!Review
  <2> QED BY <2>3, <2>4, <2>5, <2>6
<1>12. CASE UNCHANGED Papers!vars
  BY <1>12 DEF Papers!vars, Papers!Shape, Papers!OneOwner, Papers!OwnersWork, Papers!Owns,
       Papers!Unclaimed, Papers!ExtractedOnce, Papers!DoubtIsReviewed
<1> QED
  BY <1>1, <1>2, <1>3, <1>4, <1>5, <1>6, <1>7, <1>8, <1>9, <1>10, <1>11, <1>12 DEF Papers!Next

\* However often a document is delivered and whatever dies, a version is paid for once,
\* and what its answer leaves open waits for a review unless the extractor died.
LEMMA PapersHolds == Papers!Spec => []Papers!Safety
<1>1. Papers!Init => Papers!IInv
  BY PapersInitHolds
<1>2. Papers!IInv /\ [Papers!Next]_(Papers!vars) => Papers!IInv'
  BY PapersStepHolds
<1>3. Papers!IInv => Papers!Safety
  BY DEF Papers!IInv, Papers!Shape, Papers!Extraction, Papers!Extractor, Papers!Safety,
       Papers!TypeOK
<1> QED BY <1>1, <1>2, <1>3, PTL DEF Papers!Spec

-----------------------------------------------------------------------------
(* Moderation                                                              *)

LEMMA GateRowFacts == ASSUME Gate!IInv PROVE /\ \A i \in Gate!Ids : items[i] \in Gate!Item /\ scanner[i] \in Gate!Scanner
                                             /\ Len(items) \in Nat /\ Len(scanner) = Len(items)
                                             /\ DOMAIN items = Gate!Ids /\ DOMAIN scanner = Gate!Ids
BY DEF Gate!IInv, Gate!Rows, Gate!TypeOK, Gate!Ids

LEMMA GateScannerChange ==
    ASSUME Gate!IInv, NEW i \in Gate!Ids, NEW w \in Gate!Scanner, scanner' = [scanner EXCEPT ![i] = w]
    PROVE  /\ scanner' \in Seq(Gate!Scanner) /\ Len(scanner') = Len(items)
           /\ scanner'[i] = w /\ \A j \in Gate!Ids \ {i} : scanner'[j] = scanner[j]
<1>1. scanner \in Seq(Gate!Scanner) /\ i \in 1..Len(scanner) /\ Len(scanner) = Len(items)
  BY DEF Gate!IInv, Gate!Rows, Gate!TypeOK, Gate!Ids
<1> QED BY <1>1, ExceptSeq DEF Gate!Ids

LEMMA GateItemChange ==
    ASSUME Gate!IInv, NEW i \in Gate!Ids, NEW r \in Gate!Item, items' = [items EXCEPT ![i] = r]
    PROVE  /\ items' \in Seq(Gate!Item) /\ Len(items') = Len(items) /\ Gate!Ids' = Gate!Ids
           /\ items'[i] = r /\ \A j \in Gate!Ids \ {i} : items'[j] = items[j]
<1>1. items \in Seq(Gate!Item) /\ i \in 1..Len(items)
  BY DEF Gate!IInv, Gate!Rows, Gate!Ids
<1>2. /\ items' \in Seq(Gate!Item) /\ Len(items') = Len(items)
      /\ items'[i] = r /\ \A j \in Gate!Ids \ {i} : items'[j] = items[j]
  BY <1>1, ExceptSeq DEF Gate!Ids
<1> QED BY <1>2 DEF Gate!Ids

LEMMA GateScannerFields ==
    ASSUME NEW w \in Gate!Scanner, NEW b \in ObjectVersions \union {0}, NEW n \in Gate!Status,
           NEW a \in {"idle", "dead", "asking", "deciding", "moving", "got", "put"}
    PROVE  /\ [w EXCEPT !.at = a] \in Gate!Scanner
           /\ [w EXCEPT !.at = a].at = a /\ [w EXCEPT !.at = a].body = w.body
           /\ [w EXCEPT !.at = a].next = w.next
           /\ [w EXCEPT !.at = a, !.body = b] \in Gate!Scanner
           /\ [w EXCEPT !.at = a, !.body = b].at = a /\ [w EXCEPT !.at = a, !.body = b].body = b
           /\ [w EXCEPT !.at = a, !.next = n] \in Gate!Scanner
           /\ [w EXCEPT !.at = a, !.next = n].at = a /\ [w EXCEPT !.at = a, !.next = n].next = n
           /\ Gate!Resting \in Gate!Scanner /\ Gate!Resting.at = "idle"
           /\ [Gate!Resting EXCEPT !.at = a] \in Gate!Scanner /\ [Gate!Resting EXCEPT !.at = a].at = a
<1>1. /\ [w EXCEPT !.at = a] \in Gate!Scanner
      /\ [w EXCEPT !.at = a].at = a /\ [w EXCEPT !.at = a].body = w.body
      /\ [w EXCEPT !.at = a].next = w.next
  BY DEF Gate!Scanner
<1>2. /\ [w EXCEPT !.at = a, !.body = b] \in Gate!Scanner
      /\ [w EXCEPT !.at = a, !.body = b].at = a /\ [w EXCEPT !.at = a, !.body = b].body = b
  BY DEF Gate!Scanner
<1>3. /\ [w EXCEPT !.at = a, !.next = n] \in Gate!Scanner
      /\ [w EXCEPT !.at = a, !.next = n].at = a /\ [w EXCEPT !.at = a, !.next = n].next = n
  BY DEF Gate!Scanner
<1>4. Gate!Resting \in Gate!Scanner /\ Gate!Resting.at = "idle"
  BY DEF Gate!Scanner, Gate!Resting
<1>5. [Gate!Resting EXCEPT !.at = a] \in Gate!Scanner /\ [Gate!Resting EXCEPT !.at = a].at = a
  BY DEF Gate!Scanner, Gate!Resting
<1> QED BY <1>1, <1>2, <1>3, <1>4, <1>5

LEMMA GateInitHolds == ASSUME Gate!Init PROVE Gate!IInv
<1> USE DEF Gate!Init
<1>1. Len(items) = 0 /\ Len(scanner) = 0 /\ Gate!Ids = {}
  BY DEF Gate!Ids
<1>2. Gate!TypeOK
  BY <1>1 DEF Gate!TypeOK
<1>3. Gate!Rows
  BY DEF Gate!Rows
<1>4. Gate!Explained /\ Gate!StaysClosed /\ Gate!Classified /\ Gate!Moved
  BY <1>1 DEF Gate!Explained, Gate!StaysClosed, Gate!Classified, Gate!Moved
<1> QED BY <1>2, <1>3, <1>4 DEF Gate!IInv

\* A step of the function of item i that leaves the items alone.
LEMMA GateScanStep ==
    ASSUME Gate!IInv, NEW i \in Gate!Ids, NEW w \in Gate!Scanner, scanner' = [scanner EXCEPT ![i] = w],
           UNCHANGED <<items, uploaded, human>>, upload' \in [Objects -> ObjectVersions \union {0}],
           DOMAIN quarantine' = DOMAIN quarantine, unsettled \subseteq unsettled', unsettled' \subseteq Objects,
           decisions \subseteq decisions', abandoned \subseteq abandoned', abandoned' \subseteq Gate!Ids,
           scanner[i].at # "idle", w.at \in {"moving", "got", "put"} => items[i].key \in Objects,
           scanner[i].at = "deciding" =>
              i \in abandoned' \/ <<i, Gate!DecisionOf(scanner[i].next), "model">> \in decisions',
           \A k : upload'[k] # upload[k] => k = items[i].key,
           \A b : quarantine'[b] # quarantine[b] => items[i].key \in Objects /\ b = Base[items[i].key],
           \A j \in Gate!Ids : items[j].key = items[i].key /\ items[j].key \in Pictures \ unsettled' => Gate!MovedItem(j)'
    PROVE  Gate!IInv'
<1> USE DEF Gate!IInv
<1>0. /\ scanner' \in Seq(Gate!Scanner) /\ Len(scanner') = Len(items) /\ Gate!Ids' = Gate!Ids
      /\ scanner'[i] = w /\ \A j \in Gate!Ids \ {i} : scanner'[j] = scanner[j]
  BY GateScannerChange DEF Gate!Ids
<1>a. \A j \in Gate!Ids : items[j] \in Gate!Item /\ scanner'[j] \in Gate!Scanner
  BY <1>0, GateRowFacts
<1>1. Gate!TypeOK'
  BY <1>0, <1>a DEF Gate!TypeOK, Gate!Scanner
<1>2. Gate!Rows'
  BY <1>0 DEF Gate!Rows
<1>3. Gate!Explained'
  <2> SUFFICES ASSUME NEW j \in Gate!Ids \ abandoned' PROVE Gate!ExplainedItem(j)'
    BY <1>0 DEF Gate!Explained
  <2>1. Gate!ExplainedItem(j)
    BY DEF Gate!Explained
  <2>2. CASE j = i
    BY <2>1, <2>2 DEF Gate!ExplainedItem
  <2>3. CASE j # i
    BY <1>0, <2>1, <2>3 DEF Gate!ExplainedItem
  <2> QED BY <2>2, <2>3
<1>4. Gate!StaysClosed'
  BY <1>0 DEF Gate!StaysClosed
<1>5. Gate!Classified'
  BY <1>0 DEF Gate!Classified, Gate!ClassifiedItem
<1>6. Gate!Moved'
  <2> SUFFICES ASSUME NEW j \in Gate!Ids, items[j].key # items[i].key, items[j].key \in Pictures \ unsettled'
               PROVE  Gate!MovedItem(j)'
    BY <1>0 DEF Gate!Moved
  <2>1. Gate!MovedItem(j) /\ scanner'[j] = scanner[j]
    BY <1>0 DEF Gate!Moved
  <2>2. upload'[items[j].key] = upload[items[j].key]
    BY <2>1
  <2>3. (\A x \in Objects \ {items[j].key} : Base[x] # Base[items[j].key]) =>
           quarantine'[Base[items[j].key]] = quarantine[Base[items[j].key]]
    BY <2>1
  <2> QED BY <1>0, <2>1, <2>2, <2>3 DEF Gate!MovedItem
<1> QED BY <1>1, <1>2, <1>3, <1>4, <1>5, <1>6

\* A new row, with the function that will classify it, or without.
LEMMA GateInsertStep ==
    ASSUME Gate!IInv, NEW key \in Objects \union {"text"}, NEW etag \in ObjectVersions \union {0},
           NEW at \in {"idle", "asking"}, Gate!Insert(key, etag, at),
           at = "asking" => key \notin Objects \ Pictures,
           key \in Pictures => at = "asking" /\ etag = upload[key] /\ etag # 0,
           UNCHANGED <<upload, uploaded, quarantine, human, decisions, abandoned, unsettled>>
    PROVE  Gate!IInv'
<1> USE DEF Gate!IInv
<1> DEFINE n == Len(items) + 1
           r == [key |-> key, etag |-> etag, status |-> "quarantined", by |-> "none", scored |-> FALSE]
           w == [Gate!Resting EXCEPT !.at = at]
<1>0. items' = Append(items, r) /\ scanner' = Append(scanner, w)
  BY DEF Gate!Insert
<1>a. /\ items \in Seq(Gate!Item) /\ scanner \in Seq(Gate!Scanner) /\ Len(scanner) = Len(items) /\ Len(items) \in Nat
      /\ Gate!Ids = 1..Len(items)
  BY DEF Gate!Rows, Gate!TypeOK, Gate!Ids
<1>b. r \in Gate!Item /\ w \in Gate!Scanner /\ w.at = at
  <2>1. r \in Gate!Item
    BY DEF Gate!Item, Gate!Status
  <2>2. w \in Gate!Scanner /\ w.at = at
    BY DEF Gate!Scanner, Gate!Resting
  <2> QED BY <2>1, <2>2
<1>c. /\ r.key = key /\ r.etag = etag /\ r.status = "quarantined" /\ r.by = "none"
  OBVIOUS
<1> HIDE DEF r, w
<1>1. /\ items' \in Seq(Gate!Item) /\ scanner' \in Seq(Gate!Scanner) /\ Len(items') = n /\ Len(scanner') = n
      /\ items'[n] = r /\ scanner'[n] = w
      /\ \A i \in Gate!Ids : items'[i] = items[i] /\ scanner'[i] = scanner[i]
  BY <1>0, <1>a, <1>b, AppendProperties
<1>2. Gate!Ids' = Gate!Ids \union {n} /\ n \notin Gate!Ids
  BY <1>1, <1>a DEF Gate!Ids
<1>3. unsettled \subseteq unsettled' /\ unsettled' \subseteq Objects
  BY DEF Gate!TypeOK
<1>4. Gate!TypeOK'
  <2>1. \A i \in Gate!Ids : items[i].status \in Gate!Status /\ scanner[i].at \in {"idle", "dead", "asking", "deciding", "moving", "got", "put"}
    BY DEF Gate!TypeOK, Gate!Status
  <2>2. \A i \in Gate!Ids' : items'[i].status \in Gate!Status /\ scanner'[i].at \in {"idle", "dead", "asking", "deciding", "moving", "got", "put"}
    BY <1>1, <1>2, <1>b, <1>c, <2>1 DEF Gate!Status
  <2> QED BY <1>1, <1>2, <1>3, <2>2 DEF Gate!TypeOK, Gate!Status
<1>5. Gate!Rows'
  BY <1>1, <1>2 DEF Gate!Rows
<1>6. Gate!Explained'
  BY <1>1, <1>2, <1>c DEF Gate!Explained, Gate!ExplainedItem
<1>7. Gate!StaysClosed'
  BY <1>1, <1>2, <1>c DEF Gate!StaysClosed
<1>8. Gate!Classified'
  BY <1>1, <1>2, <1>b, <1>c DEF Gate!Classified, Gate!ClassifiedItem
<1>9. Gate!Moved'
  <2> SUFFICES ASSUME NEW i \in Gate!Ids \union {n}, items'[i].key \in Pictures \ unsettled' PROVE Gate!MovedItem(i)'
    BY <1>2 DEF Gate!Moved
  <2>1. items'[i].key # "text" /\ items'[i].key \in Objects
    BY GateSane DEF Gate!Sane
  <2>2. CASE i = n
    <3>1. \A j \in Gate!Ids : items[j].key = key => Gate!MovedItem(j)
      BY <1>1, <1>3, <1>c, <2>1, <2>2 DEF Gate!Moved
    <3>2. key \in Pictures /\ etag = upload[key] /\ etag # 0 /\ w.at = "asking" /\ items'[i] = r /\ scanner'[i] = w
      BY <1>1, <1>b, <1>c, <2>2
    <3>3. \A j \in Gate!Ids' : items'[j].key = key => items'[j].etag = etag
      BY <1>1, <1>2, <1>c, <3>1, <3>2 DEF Gate!MovedItem
    <3> QED BY <1>c, <3>2, <3>3 DEF Gate!MovedItem
  <2>3. CASE i \in Gate!Ids
    <3>1. Gate!MovedItem(i) /\ items'[i] = items[i] /\ scanner'[i] = scanner[i]
      BY <1>1, <1>3, <2>3 DEF Gate!Moved
    <3>2. key = items[i].key => etag = items[i].etag
      BY <2>1, <3>1 DEF Gate!MovedItem
    <3>3. \A j \in Gate!Ids' : items'[j].key = items[i].key => items'[j].etag = items[i].etag
      BY <1>1, <1>2, <1>c, <3>1, <3>2 DEF Gate!MovedItem
    <3> QED BY <3>1, <3>3 DEF Gate!MovedItem
  <2> QED BY <2>2, <2>3
<1> QED BY <1>4, <1>5, <1>6, <1>7, <1>8, <1>9

LEMMA GateStepHolds == ASSUME Gate!IInv, [Gate!Next]_(Gate!vars) PROVE Gate!IInv'
<1> USE DEF Gate!IInv
<1>1. ASSUME NEW k \in Objects, Gate!Upload(k) PROVE Gate!IInv'
  <2>1. /\ upload' = [upload EXCEPT ![k] = uploaded + 1] /\ uploaded' = uploaded + 1
        /\ uploaded + 1 \in ObjectVersions /\ unsettled \subseteq unsettled' /\ unsettled' \subseteq Objects
        /\ \A i \in Gate!Ids : items[i].key = k => k \in unsettled'
        /\ UNCHANGED <<quarantine, items, scanner, human, decisions, abandoned>>
    BY <1>1 DEF Gate!Upload, Gate!TypeOK
  <2>2. Gate!TypeOK' /\ Gate!Rows'
    <3>1. Gate!TypeOK'
      BY <2>1 DEF Gate!TypeOK, Gate!Ids
    <3>2. Gate!Rows'
      BY <2>1 DEF Gate!Rows, Gate!Ids
    <3> QED BY <3>1, <3>2
  <2>3. Gate!Explained' /\ Gate!StaysClosed' /\ Gate!Classified'
    BY <2>1 DEF Gate!Explained, Gate!ExplainedItem, Gate!StaysClosed, Gate!Classified,
         Gate!ClassifiedItem, Gate!Ids
  <2>4. Gate!Moved'
    <3> SUFFICES ASSUME NEW i \in Gate!Ids, items[i].key \in Pictures \ unsettled' PROVE Gate!MovedItem(i)'
      BY <2>1 DEF Gate!Moved, Gate!Ids
    <3>1. Gate!MovedItem(i) /\ items[i].key # k
      BY <2>1 DEF Gate!Moved
    <3>2. upload'[items[i].key] = upload[items[i].key]
      BY <2>1, <3>1 DEF Gate!TypeOK
    <3> QED BY <2>1, <3>1, <3>2 DEF Gate!MovedItem, Gate!Ids
  <2> QED BY <2>2, <2>3, <2>4
<1>2. ASSUME NEW k \in Objects, Gate!Scan(k) PROVE Gate!IInv'
  <2> DEFINE at == IF k \in Pictures THEN "asking" ELSE "idle"
  <2>1. /\ upload[k] # 0 /\ upload[k] \in ObjectVersions \union {0} /\ Gate!Insert(k, upload[k], at)
        /\ UNCHANGED <<upload, uploaded, quarantine, human, decisions, abandoned, unsettled>>
    BY <1>2 DEF Gate!Scan, Gate!TypeOK
  <2>2. at \in {"idle", "asking"} /\ (at = "asking" => k \notin Objects \ Pictures) /\ (k \in Pictures => at = "asking")
    OBVIOUS
  <2> HIDE DEF at
  <2> QED BY <2>1, <2>2, GateInsertStep
<1>3. CASE Gate!Text
  <2>1. /\ Gate!Insert("text", 0, "asking") /\ "text" \notin Objects /\ "text" \notin Pictures /\ UNCHANGED unsettled
        /\ UNCHANGED <<upload, uploaded, quarantine, human, decisions, abandoned>>
    BY <1>3, GateSane DEF Gate!Text, Gate!Sane
  <2> QED BY <2>1, GateInsertStep
<1>4. ASSUME NEW i \in Gate!Ids, NEW answer \in Gate!Answers, Gate!Classify(i, answer) PROVE Gate!IInv'
  <2> DEFINE status == Gate!Decide(answer)
             r == [items[i] EXCEPT !.status = status, !.by = "model", !.scored = \A c \in Gate!Categories : answer[c] # Gate!Missing]
             w == [scanner[i] EXCEPT !.at = "deciding", !.next = status]
  <2>1. /\ scanner[i].at = "asking" /\ items' = [items EXCEPT ![i] = r] /\ scanner' = [scanner EXCEPT ![i] = w]
        /\ UNCHANGED <<upload, uploaded, quarantine, human, decisions, abandoned, unsettled>>
    BY <1>4, GateRowFacts DEF Gate!Classify
  <2>2. status \in {"approved", "blocked", "needs_review"}
    BY DEF Gate!Decide
  <2> HIDE DEF status
  <2>3. /\ r \in Gate!Item /\ r.key = items[i].key /\ r.etag = items[i].etag /\ r.status = status /\ r.by = "model"
    <3>1. items[i] \in Gate!Item
      BY GateRowFacts
    <3>2. (\A c \in Gate!Categories : answer[c] # Gate!Missing) \in BOOLEAN
      OBVIOUS
    <3> DEFINE b == \A c \in Gate!Categories : answer[c] # Gate!Missing
    <3> HIDE DEF b
    <3>3. b \in BOOLEAN
      BY <3>2 DEF b
    <3>4. r = [items[i] EXCEPT !.status = status, !.by = "model", !.scored = b]
      BY DEF b
    <3> HIDE DEF r
    <3> QED BY <2>2, <3>1, <3>3, <3>4 DEF Gate!Item, Gate!Status
  <2>4. w \in Gate!Scanner /\ w.at = "deciding" /\ w.next = status
    BY <2>2, GateRowFacts DEF Gate!Scanner, Gate!Status
  <2> HIDE DEF r, w
  <2>5. /\ items' \in Seq(Gate!Item) /\ Len(items') = Len(items) /\ Gate!Ids' = Gate!Ids
        /\ items'[i] = r /\ \A j \in Gate!Ids \ {i} : items'[j] = items[j]
    BY <2>1, <2>3, GateItemChange
  <2>6. /\ scanner' \in Seq(Gate!Scanner) /\ Len(scanner') = Len(items)
        /\ scanner'[i] = w /\ \A j \in Gate!Ids \ {i} : scanner'[j] = scanner[j]
    BY <2>1, <2>4, GateScannerChange
  <2>7. Gate!TypeOK'
    <3>1. \A j \in Gate!Ids : /\ items'[j].status \in {"quarantined", "approved", "blocked", "needs_review"}
                              /\ scanner'[j].at \in {"idle", "dead", "asking", "deciding", "moving", "got", "put"}
      BY <2>2, <2>3, <2>4, <2>5, <2>6 DEF Gate!TypeOK
    <3> QED BY <2>1, <2>5, <2>6, <3>1 DEF Gate!TypeOK
  <2>8. Gate!Rows'
    BY <2>1, <2>5, <2>6 DEF Gate!Rows
  <2>9. Gate!Explained'
    <3>1. Gate!ExplainedItem(i)'
      BY <2>3, <2>4, <2>5, <2>6 DEF Gate!ExplainedItem
    <3>2. \A j \in Gate!Ids \ {i} : Gate!ExplainedItem(j)' <=> Gate!ExplainedItem(j)
      BY <2>1, <2>5, <2>6 DEF Gate!ExplainedItem
    <3> QED BY <2>1, <2>5, <3>1, <3>2 DEF Gate!Explained
  <2>10. items[i].key \notin Objects \ Pictures
    BY <2>1 DEF Gate!Classified, Gate!ClassifiedItem
  <2>11. Gate!StaysClosed'
    BY <2>3, <2>5, <2>10 DEF Gate!StaysClosed
  <2>12. Gate!Classified'
    BY <2>3, <2>4, <2>5, <2>6, <2>10 DEF Gate!Classified, Gate!ClassifiedItem
  <2>13. Gate!Moved'
    <3> SUFFICES ASSUME NEW j \in Gate!Ids, items'[j].key \in Pictures \ unsettled PROVE Gate!MovedItem(j)'
      BY <2>1, <2>5 DEF Gate!Moved
    <3>1. \A x \in Gate!Ids : items'[x].key = items[x].key /\ items'[x].etag = items[x].etag
      BY <2>3, <2>5
    <3>2. Gate!MovedItem(j) /\ \A x \in Gate!Ids : items'[x].key = items'[j].key => items'[x].etag = items'[j].etag
      BY <3>1 DEF Gate!Moved, Gate!MovedItem
    <3>3. CASE j = i
      BY <2>1, <2>3, <2>4, <2>5, <2>6, <3>1, <3>2, <3>3 DEF Gate!MovedItem
    <3>4. CASE j # i
      BY <2>1, <2>5, <2>6, <3>2, <3>4 DEF Gate!MovedItem
    <3> QED BY <3>3, <3>4
  <2> QED BY <2>7, <2>8, <2>9, <2>11, <2>12, <2>13
<1>5. ASSUME NEW i \in Gate!Ids, Gate!RecordModel(i) PROVE Gate!IInv'
  <2> DEFINE at == IF scanner[i].next = "blocked" /\ items[i].key # "text" THEN "moving" ELSE "idle"
             w == [scanner[i] EXCEPT !.at = at]
  <2>1. /\ scanner[i].at = "deciding" /\ scanner' = [scanner EXCEPT ![i] = w]
        /\ decisions' = decisions \union {<<i, Gate!DecisionOf(scanner[i].next), "model">>}
        /\ UNCHANGED <<upload, uploaded, quarantine, items, human, abandoned, unsettled>>
    BY <1>5, GateRowFacts DEF Gate!RecordModel
  <2>2. at \in {"moving", "idle"} /\ (at = "moving" <=> scanner[i].next = "blocked" /\ items[i].key # "text")
    OBVIOUS
  <2> HIDE DEF at
  <2>3. w \in Gate!Scanner /\ w.at = at /\ items[i] \in Gate!Item
    BY <2>2, GateRowFacts DEF Gate!Scanner
  <2> HIDE DEF w
  <2>4. w.at \in {"moving", "got", "put"} => items[i].key \in Objects
    BY <2>2, <2>3 DEF Gate!Item
  <2>5. scanner'[i] = w /\ \A j \in Gate!Ids \ {i} : scanner'[j] = scanner[j]
    BY <2>1, <2>3, GateScannerChange
  <2>6. ASSUME NEW j \in Gate!Ids, items[j].key = items[i].key, items[j].key \in Pictures \ unsettled PROVE Gate!MovedItem(j)'
    <3>1. Gate!MovedItem(j) /\ items[i].key # "text"
      BY <2>6, GateSane DEF Gate!Moved, Gate!Sane
    <3>2. CASE j = i
      BY <2>1, <2>2, <2>3, <2>5, <3>1, <3>2 DEF Gate!MovedItem, Gate!Ids
    <3>3. CASE j # i
      BY <2>1, <2>5, <3>1, <3>3 DEF Gate!MovedItem, Gate!Ids
    <3> QED BY <3>2, <3>3
  <2>7. /\ upload' \in [Objects -> ObjectVersions \union {0}] /\ unsettled' \subseteq Objects /\ abandoned' \subseteq Gate!Ids
    BY <2>1 DEF Gate!TypeOK
  <2> QED BY <2>1, <2>3, <2>4, <2>6, <2>7, GateScanStep
<1>6. ASSUME NEW i \in Gate!Ids, Gate!GetObject(i) PROVE Gate!IInv'
  <2> DEFINE k == items[i].key
             w == [scanner[i] EXCEPT !.at = "got", !.body = upload[k]]
  <2>1. /\ scanner[i].at = "moving" /\ scanner' = [scanner EXCEPT ![i] = w] /\ k \in Objects /\ upload[k] # 0
        /\ UNCHANGED <<upload, uploaded, quarantine, items, human, decisions, abandoned, unsettled>>
    BY <1>6, GateRowFacts DEF Gate!GetObject, Gate!Classified, Gate!ClassifiedItem
  <2>2. upload[k] \in ObjectVersions \union {0}
    BY <2>1 DEF Gate!TypeOK
  <2>3. w \in Gate!Scanner /\ w.at = "got" /\ w.body = upload[k]
    BY <2>2, GateRowFacts DEF Gate!Scanner
  <2> HIDE DEF w
  <2>4. scanner'[i] = w /\ \A j \in Gate!Ids \ {i} : scanner'[j] = scanner[j]
    BY <2>1, <2>3, GateScannerChange
  <2>5. ASSUME NEW j \in Gate!Ids, items[j].key = items[i].key, items[j].key \in Pictures \ unsettled PROVE Gate!MovedItem(j)'
    <3>1. Gate!MovedItem(j)
      BY <2>5 DEF Gate!Moved
    <3>2. CASE j = i
      BY <2>1, <2>3, <2>4, <3>1, <3>2 DEF Gate!MovedItem, Gate!Ids
    <3>3. CASE j # i
      BY <2>1, <2>4, <3>1, <3>3 DEF Gate!MovedItem, Gate!Ids
    <3> QED BY <3>2, <3>3
  <2>6. /\ upload' \in [Objects -> ObjectVersions \union {0}] /\ unsettled' \subseteq Objects /\ abandoned' \subseteq Gate!Ids
    BY <2>1 DEF Gate!TypeOK
  <2> QED BY <2>1, <2>3, <2>5, <2>6, GateScanStep
<1>7. ASSUME NEW i \in Gate!Ids, Gate!PutObject(i) PROVE Gate!IInv'
  <2> DEFINE w == [scanner[i] EXCEPT !.at = "put"]
  <2>1. /\ scanner[i].at = "got" /\ scanner' = [scanner EXCEPT ![i] = w] /\ items[i].key \in Objects
        /\ quarantine' = [quarantine EXCEPT ![Base[items[i].key]] = scanner[i].body]
        /\ UNCHANGED <<upload, uploaded, items, human, decisions, abandoned, unsettled>>
    BY <1>7, GateRowFacts DEF Gate!PutObject, Gate!Classified, Gate!ClassifiedItem
  <2>2. w \in Gate!Scanner /\ w.at = "put" /\ w.body = scanner[i].body
    BY GateRowFacts DEF Gate!Scanner
  <2> HIDE DEF w
  <2>3. scanner'[i] = w /\ \A j \in Gate!Ids \ {i} : scanner'[j] = scanner[j]
    BY <2>1, <2>2, GateScannerChange
  <2>4. /\ DOMAIN quarantine' = DOMAIN quarantine /\ quarantine'[Base[items[i].key]] = scanner[i].body
        /\ \A b : quarantine'[b] # quarantine[b] => b = Base[items[i].key]
    BY <2>1 DEF Gate!Rows
  <2>5. ASSUME NEW j \in Gate!Ids, items[j].key = items[i].key, items[j].key \in Pictures \ unsettled PROVE Gate!MovedItem(j)'
    <3>1. /\ Gate!MovedItem(j) /\ Gate!MovedItem(i) /\ items[i].etag = items[j].etag
      BY <2>5 DEF Gate!Moved, Gate!MovedItem
    <3>2. CASE j = i
      BY <2>1, <2>2, <2>3, <2>4, <3>1, <3>2 DEF Gate!MovedItem, Gate!Ids
    <3>3. CASE j # i
      BY <2>1, <2>2, <2>3, <2>4, <2>5, <3>1, <3>3 DEF Gate!MovedItem, Gate!Ids
    <3> QED BY <3>2, <3>3
  <2>6. /\ upload' \in [Objects -> ObjectVersions \union {0}] /\ unsettled' \subseteq Objects /\ abandoned' \subseteq Gate!Ids
    BY <2>1 DEF Gate!TypeOK
  <2> QED BY <2>1, <2>2, <2>4, <2>5, <2>6, GateScanStep
<1>8. ASSUME NEW i \in Gate!Ids, Gate!DeleteObject(i) PROVE Gate!IInv'
  <2>1. /\ scanner[i].at = "put" /\ scanner' = [scanner EXCEPT ![i] = Gate!Resting] /\ items[i].key \in Objects
        /\ upload' = [upload EXCEPT ![items[i].key] = 0]
        /\ UNCHANGED <<uploaded, quarantine, items, human, decisions, abandoned, unsettled>>
    BY <1>8 DEF Gate!DeleteObject, Gate!Classified, Gate!ClassifiedItem
  <2>2. Gate!Resting \in Gate!Scanner /\ Gate!Resting.at = "idle"
    BY DEF Gate!Scanner, Gate!Resting
  <2>3. scanner'[i] = Gate!Resting /\ \A j \in Gate!Ids \ {i} : scanner'[j] = scanner[j]
    BY <2>1, <2>2, GateScannerChange
  <2>4. /\ upload' \in [Objects -> ObjectVersions \union {0}] /\ upload'[items[i].key] = 0
        /\ \A k : upload'[k] # upload[k] => k = items[i].key
        /\ unsettled' \subseteq Objects /\ abandoned' \subseteq Gate!Ids
    BY <2>1 DEF Gate!TypeOK
  <2>5. ASSUME NEW j \in Gate!Ids, items[j].key = items[i].key, items[j].key \in Pictures \ unsettled PROVE Gate!MovedItem(j)'
    <3>1. /\ Gate!MovedItem(j) /\ Gate!MovedItem(i) /\ items[i].etag = items[j].etag
      BY <2>5 DEF Gate!Moved, Gate!MovedItem
    <3>2. CASE j = i
      BY <2>1, <2>2, <2>3, <2>4, <3>1, <3>2 DEF Gate!MovedItem, Gate!Ids
    <3>3. CASE j # i
      BY <2>1, <2>2, <2>3, <2>4, <2>5, <3>1, <3>3 DEF Gate!MovedItem, Gate!Ids
    <3> QED BY <3>2, <3>3
  <2> QED BY <2>1, <2>2, <2>4, <2>5, GateScanStep
<1>9. ASSUME NEW i \in Gate!Ids, Gate!Die(i) PROVE Gate!IInv'
  <2> DEFINE w == [Gate!Resting EXCEPT !.at = "dead"]
  <2>1. /\ scanner[i].at # "idle" /\ scanner' = [scanner EXCEPT ![i] = w]
        /\ abandoned \subseteq abandoned' /\ abandoned' \subseteq Gate!Ids /\ (scanner[i].at = "deciding" => i \in abandoned')
        /\ UNCHANGED <<upload, uploaded, quarantine, items, human, decisions, unsettled>>
    BY <1>9 DEF Gate!Die, Gate!TypeOK
  <2>2. w \in Gate!Scanner /\ w.at = "dead"
    BY DEF Gate!Scanner, Gate!Resting
  <2> HIDE DEF w
  <2>3. upload' \in [Objects -> ObjectVersions \union {0}] /\ unsettled' \subseteq Objects
    BY <2>1 DEF Gate!TypeOK
  <2>4. scanner'[i] = w /\ \A j \in Gate!Ids \ {i} : scanner'[j] = scanner[j]
    BY <2>1, <2>2, GateScannerChange
  <2>5. ASSUME NEW j \in Gate!Ids, items[j].key = items[i].key, items[j].key \in Pictures \ unsettled PROVE Gate!MovedItem(j)'
    <3>1. Gate!MovedItem(j)
      BY <2>5 DEF Gate!Moved
    <3>2. CASE j = i
      BY <2>1, <2>2, <2>4, <3>1, <3>2 DEF Gate!MovedItem, Gate!Ids
    <3>3. CASE j # i
      BY <2>1, <2>4, <3>1, <3>3 DEF Gate!MovedItem, Gate!Ids
    <3> QED BY <3>2, <3>3
  <2> QED BY <2>1, <2>2, <2>3, <2>5, GateScanStep
<1>10. ASSUME NEW i \in Gate!Ids, NEW s \in {"approved", "blocked", "needs_review"}, Gate!DecideItem(i, s) PROVE Gate!IInv'
  <2> DEFINE r == [items[i] EXCEPT !.status = s, !.by = "human"]
  <2>1. /\ human.at = "idle" /\ items' = [items EXCEPT ![i] = r]
        /\ human'.at = "deciding" /\ human'.item = i /\ human'.as = s
        /\ UNCHANGED <<upload, uploaded, quarantine, scanner, decisions, abandoned, unsettled>>
    BY <1>10, GateRowFacts DEF Gate!DecideItem, Gate!TypeOK
  <2>2. r \in Gate!Item /\ r.key = items[i].key /\ r.etag = items[i].etag /\ r.status = s /\ r.by = "human"
    BY GateRowFacts DEF Gate!Item, Gate!Status
  <2> HIDE DEF r
  <2>3. /\ items' \in Seq(Gate!Item) /\ Len(items') = Len(items) /\ Gate!Ids' = Gate!Ids
        /\ items'[i] = r /\ \A j \in Gate!Ids \ {i} : items'[j] = items[j]
    BY <2>1, <2>2, GateItemChange
  <2>4. Gate!TypeOK'
    <3>1. \A j \in Gate!Ids : items'[j].status \in {"quarantined", "approved", "blocked", "needs_review"}
      BY <2>2, <2>3 DEF Gate!TypeOK
    <3> QED BY <2>1, <2>3, <3>1 DEF Gate!TypeOK
  <2>5. Gate!Rows'
    BY <2>1, <2>3 DEF Gate!Rows
  <2>6. Gate!Explained'
    BY <2>1, <2>2, <2>3 DEF Gate!Explained, Gate!ExplainedItem
  <2>7. Gate!StaysClosed' /\ Gate!Classified'
    BY <2>1, <2>2, <2>3 DEF Gate!StaysClosed, Gate!Classified, Gate!ClassifiedItem
  <2>8. Gate!Moved'
    <3> SUFFICES ASSUME NEW j \in Gate!Ids, items'[j].key \in Pictures \ unsettled' PROVE Gate!MovedItem(j)'
      BY <2>3 DEF Gate!Moved
    <3>1. \A x \in Gate!Ids : items'[x].key = items[x].key /\ items'[x].etag = items[x].etag
      BY <2>2, <2>3
    <3>2. Gate!MovedItem(j) /\ \A x \in Gate!Ids : items'[x].key = items'[j].key => items'[x].etag = items'[j].etag
      BY <2>1, <3>1 DEF Gate!Moved, Gate!MovedItem
    <3>3. items'[j].by = "model" => items'[j] = items[j]
      BY <2>2, <2>3
    <3> QED BY <2>1, <2>3, <3>1, <3>2, <3>3 DEF Gate!MovedItem
  <2> QED BY <2>4, <2>5, <2>6, <2>7, <2>8
<1>11. CASE Gate!RecordHuman
  <2>1. /\ human.at = "deciding"
        /\ UNCHANGED <<upload, uploaded, quarantine, items, scanner, unsettled>>
        /\ Gate!Ids' = Gate!Ids
    BY <1>11 DEF Gate!RecordHuman, Gate!Ids
  <2>2. /\ abandoned \subseteq abandoned' /\ decisions \subseteq decisions'
        /\ human.item \in abandoned' \/ <<human.item, Gate!DecisionOf(human.as), "human">> \in decisions'
        /\ abandoned' \subseteq abandoned \union {human.item}
    BY <1>11 DEF Gate!RecordHuman
  <2>3. Gate!Explained'
    BY <2>1, <2>2 DEF Gate!Explained, Gate!ExplainedItem
  <2>4. abandoned' \subseteq Gate!Ids /\ human'.at = "idle"
    BY <1>11, <2>1, <2>2 DEF Gate!RecordHuman, Gate!TypeOK, Gate!Rows
  <2>5. Gate!TypeOK'
    BY <2>1, <2>4 DEF Gate!TypeOK
  <2>6. Gate!Rows' /\ Gate!StaysClosed' /\ Gate!Classified'
    BY <2>1, <2>4 DEF Gate!Rows, Gate!StaysClosed, Gate!Classified, Gate!ClassifiedItem
  <2>7. Gate!Moved'
    BY <2>1 DEF Gate!Moved, Gate!MovedItem
  <2> QED BY <2>3, <2>5, <2>6, <2>7
<1>12. CASE UNCHANGED Gate!vars
  BY <1>12 DEF Gate!vars, Gate!TypeOK, Gate!Rows, Gate!Explained, Gate!ExplainedItem,
       Gate!StaysClosed, Gate!Classified, Gate!ClassifiedItem,
     Gate!Moved, Gate!MovedItem, Gate!Ids
<1> QED BY <1>1, <1>2, <1>3, <1>4, <1>5, <1>6, <1>7, <1>8, <1>9, <1>10, <1>11,
     <1>12 DEF Gate!Next

\* Decisions are explained, what nobody answered for stays closed, and what is gone was moved.
LEMMA GateHolds == Gate!Spec => []Gate!Safety
<1>1. Gate!IInv => Gate!Safety
  <2> SUFFICES ASSUME Gate!IInv PROVE Gate!Safety
    OBVIOUS
  <2> USE DEF Gate!IInv
  <2>1. Gate!HistoryExplains
    <3> SUFFICES ASSUME NEW i \in Gate!Ids \ abandoned, items[i].by # "none", scanner[i].at # "deciding", human.at = "idle"
                 PROVE  <<i, Gate!DecisionOf(items[i].status), items[i].by>> \in decisions
      BY DEF Gate!HistoryExplains
    <3>1. items[i].by \in {"model", "human"}
      BY GateRowFacts DEF Gate!Item
    <3> QED BY <3>1 DEF Gate!Explained, Gate!ExplainedItem
  <2>2. Gate!BlockedIsMoved
    <3> SUFFICES ASSUME NEW i \in Gate!Ids, items[i].key \in Pictures \ unsettled
                 PROVE  /\ items[i].status = "blocked" /\ items[i].by = "model" /\ scanner[i].at = "idle" =>
                               upload[items[i].key] = 0
                        /\ upload[items[i].key] = 0 /\ (\A x \in Objects \ {items[i].key} : Base[x] # Base[items[i].key])
                              => quarantine[Base[items[i].key]] = items[i].etag
      BY DEF Gate!BlockedIsMoved
    <3>1. Gate!MovedItem(i)
      BY DEF Gate!Moved
    <3> QED BY <3>1 DEF Gate!MovedItem
  <2> QED BY <2>1, <2>2 DEF Gate!Safety
<1> QED BY <1>1, GateInitHolds, GateStepHolds, PTL DEF Gate!Spec


-----------------------------------------------------------------------------
(* Content: each block runs by its own specification, and holds what it    *)
(* promises.                                                               *)

\* No block sees what another one does: to each of them, that is a stutter.
LEMMA BlocksRun == Spec =>
    /\ Registry!Spec
    /\ Ingest!Spec
    /\ Sheet!Spec
    /\ Import!Spec
    /\ Images!Spec
    /\ Documents!Spec
    /\ Sight!Spec
    /\ Papers!Spec
    /\ Gate!Spec
<1>1. Init =>
        /\ Registry!Init
        /\ Ingest!Init
        /\ Sheet!Init
        /\ Import!Init
        /\ Images!Init
        /\ Documents!Init
        /\ Sight!Init
        /\ Papers!Init
        /\ Gate!Init
  BY DEF Init
<1> USE DEF Next, allVars, regVars, ingVars, csvVars, importVars, imgVars, ragVars, visionVars,
     docVars, modVars
<1>2. [Next]_allVars => [Registry!Next]_(Registry!vars)
  BY DEF Registry!vars
<1>3. [Next]_allVars => [Ingest!Next]_(Ingest!vars)
  BY DEF Ingest!vars
<1>4. [Next]_allVars => [Import!Next]_(Import!vars)
  BY DEF Import!vars
<1>5. [Next]_allVars => [Images!Next]_(Images!vars)
  BY DEF Images!vars
<1>6. [Next]_allVars => [Documents!Next]_(Documents!vars)
  BY DEF Documents!vars
<1>7. [Next]_allVars => [Sight!Next]_(Sight!vars)
  BY DEF Sight!vars
<1>8. [Next]_allVars => [Papers!Next]_(Papers!vars)
  BY DEF Papers!vars
<1>9. [Next]_allVars => [Gate!Next]_(Gate!vars)
  BY DEF Gate!vars
<1>10. [Next]_allVars => [Sheet!Next]_sheet
  OBVIOUS
<1> HIDE DEF Next, allVars
<1> QED BY <1>1, <1>2, <1>3, <1>4, <1>5, <1>6, <1>7, <1>8, <1>9, <1>10, PTL DEF Spec, Registry!Spec,
     Ingest!Spec, Sheet!Spec, Import!Spec, Images!Spec, Documents!Spec, Sight!Spec, Papers!Spec, Gate!Spec

\* The registry tells what was in the bucket, and each version of an object gets each of its
\* jobs once.
THEOREM FilesAreSafe == Spec => []FilesSafe
BY BlocksRun, RegistryHolds, IngestHolds, PTL DEF FilesSafe

\* A sheet that is written and read again is the same, whatever its cells hold and however
\* its lines end; a report of rejected rows re-parses into these rows, their lines and reasons,
\* and those with a cell for each column are rejected again for the same columns; and each
\* value is inserted in its own row and column.
THEOREM SheetsAreSafe == Spec => []SheetSafe
BY BlocksRun, SheetHolds, PTL DEF SheetSafe

\* A version of a sheet has its rows in the table once, the others in its report.
THEOREM ImportsAreSafe == Spec => []ImportSafe
BY BlocksRun, ImportHolds, PTL DEF ImportSafe

\* Derivatives are made within the budget, kept while their source is listed, and of one row
\* each; and an image is analysed once per etag.
THEOREM ImagesAreSafe == Spec => []ImagesSafe
BY BlocksRun, ImagesHolds, SightHolds, PTL DEF ImagesSafe

\* While ingests do not overlap, a ready document that was embedded, not copied, is whole, of
\* one text and one model, whatever died and was redeployed; an undisturbed reconcile run
\* leaves the documents of the bucket; an extraction is paid for once, and its doubtful fields
\* are in review, but those a dead extractor had still to queue.
THEOREM DocumentsAreSafe == Spec => []DocumentsSafe
BY BlocksRun, DocumentsHolds, PapersHolds, PTL DEF DocumentsSafe

\* The history explains each decision of the gate that no death cut short; what nobody answered
\* for stays closed; and an image that was not overwritten is in quarantine when it is gone.
THEOREM GateIsSafe == Spec => []GateSafe
BY BlocksRun, GateHolds, PTL DEF GateSafe
=============================================================================
