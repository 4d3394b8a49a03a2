---------------------------- MODULE FeatureFlags ----------------------------
(***************************************************************************)
(* Feature flags and experiments (blocks/feature-flags): POST /flags,      *)
(* GET /evaluate with its bucketing, POST /convert, and the cron run       *)
(* POST /rollup that GET /results reads.                                   *)
(*                                                                         *)
(* One flag and one metric.  A subject is the bucket that its hash falls   *)
(* into, of Buckets instead of 10000.  Bucketing divides in floating point *)
(* and compares with whole sums of weights: for totals below 10^11 the     *)
(* outcome is the exact one unless both sides are equal, where Slips says  *)
(* which quotients are rounded down.                                       *)
(***************************************************************************)
EXTENDS Naturals, FiniteSets, SequencesExt, FiniteSetsExt

CONSTANTS Subjects,     \* buckets of the subjects that turn up
          Testers,      \* those that may get an override
          Buckets,
          Weights,      \* sequence of the variants' weights
          Percentages,  \* rollout percentages, in parts of Buckets
          Slips,        \* <<bucket, variant, rollout>> where rounding takes the variant
          LastDate,     \* bound on the days
          Lookback,     \* days before today that a rollup counts again
          MaxExposures  \* bound on the exposures of a subject

VARIABLES flag,        \* [enabled, rollout], the row of the flag
          override,    \* subject -> variant of its override, or Off
          exposures,   \* <<subject, variant, was_override, day>> -> number of rows
          conversions, \* subjects that have converted
          results,     \* <<variant, metric, day>> -> [subjects, conversions]
          date

vars == <<flag, override, exposures, conversions, results, date>>

Variants == DOMAIN Weights
Off == 0
Dates == 1..LastDate
Rows == Subjects \X Variants \X BOOLEAN \X Dates
Metrics == {"_exposure", "purchase"}
Groups == Variants \X Metrics \X Dates

Init ==
    /\ flag = [enabled |-> FALSE, rollout |-> Buckets]
    /\ override = [s \in Subjects |-> Off]
    /\ exposures = [x \in Rows |-> 0]
    /\ conversions = {}
    /\ results = [g \in Groups |-> [subjects |-> 0, conversions |-> 0]]
    /\ date = 1

-----------------------------------------------------------------------------
(* bucketing.ts                                                            *)

UpTo[i \in 0..Cardinality(Variants)] == IF i = 0 THEN 0 ELSE UpTo[i - 1] + Weights[i]
Total == UpTo[Cardinality(Variants)]

\* The gate closed one bucket late.
InsideOrNext(bucket, rollout) == bucket <= rollout

Inside(bucket, rollout) == bucket < rollout

\* The bucket rescaled into the rollout is below the weights up to variant v.
Below(bucket, v, rollout) ==
    \/ bucket * Total < UpTo[v] * rollout
    \/ bucket * Total = UpTo[v] * rollout /\ <<bucket, v, rollout>> \in Slips

\* variantFor: the gate, then the first variant whose weights reach beyond.
VariantFor(bucket, rollout) ==
    IF ~Inside(bucket, rollout) THEN Off
    ELSE IF \E v \in Variants : Below(bucket, v, rollout)
         THEN CHOOSE v \in Variants : /\ Below(bucket, v, rollout)
                                      /\ \A u \in 1..(v - 1) : ~Below(bucket, u, rollout)
         ELSE Cardinality(Variants)

-----------------------------------------------------------------------------
SetFlag ==
    /\ \E on \in BOOLEAN, pct \in Percentages : flag' = [enabled |-> on, rollout |-> pct]
    /\ UNCHANGED <<override, exposures, conversions, results, date>>

\* An override to the first variant is a row that a human writes; no route does.
Override(s) ==
    /\ override' = [override EXCEPT ![s] = 1]
    /\ UNCHANGED <<flag, exposures, conversions, results, date>>

\* A disabled flag and a subject outside the rollout are not exposed.
Evaluate(s) ==
    /\ flag.enabled
    /\ LET v == IF override[s] # Off THEN override[s] ELSE VariantFor(s, flag.rollout)
           row == <<s, v, override[s] # Off, date>>
       IN  /\ v # Off /\ MapThenSumSet(LAMBDA x : exposures[x], {x \in Rows : x[1] = s}) < MaxExposures
           /\ exposures' = [exposures EXCEPT ![row] = @ + 1]
    /\ UNCHANGED <<flag, override, conversions, results, date>>

\* Conversions are recorded whether or not the subject was exposed.
Convert(s) ==
    /\ conversions' = conversions \union {s}
    /\ UNCHANGED <<flag, override, exposures, results, date>>

NextDay ==
    /\ date < LastDate /\ date' = date + 1
    /\ UNCHANGED <<flag, override, exposures, conversions, results>>

\* Exposures are counted, not subjects.
CountedRows(v, d, S) ==
    Cardinality({x \in S \X (1..MaxExposures) : x[2] <= exposures[<<x[1], v, FALSE, d>>]})

\* count(DISTINCT subject_ref)
Counted(v, d, S) == Cardinality(S)

ExposedTo(v, d) == {s \in Subjects : exposures[<<s, v, FALSE, d>>] > 0}

\* The LEFT JOIN groups a subject by the metric it converted on, or '_exposure': the
\* group of a metric has its converters and nobody else.
Group(v, metric, d) ==
    IF metric = "_exposure" THEN ExposedTo(v, d) \ conversions ELSE ExposedTo(v, d) \intersect conversions

\* One upsert: a group without rows and a day that is over for long keep what they have.
Rollup ==
    /\ results' = [g \in Groups |->
          LET S == Group(g[1], g[2], g[3])
          IN  IF S = {} \/ g[3] + Lookback < date THEN results[g]
              ELSE [subjects |-> Counted(g[1], g[3], S),
                    conversions |-> IF g[2] = "_exposure" THEN 0 ELSE Cardinality(S)]]
    /\ UNCHANGED <<flag, override, exposures, conversions, date>>

Next ==
    \/ SetFlag \/ Rollup \/ NextDay
    \/ \E s \in Subjects : Evaluate(s) \/ Convert(s)
    \/ \E s \in Testers : Override(s)

Spec == Init /\ [][Next]_vars

-----------------------------------------------------------------------------
TypeOK ==
    /\ flag \in [enabled : BOOLEAN, rollout : 0..Buckets]
    /\ override \in [Subjects -> {Off, 1}]
    /\ exposures \in [Rows -> Nat]
    /\ conversions \subseteq Subjects
    /\ results \in [Groups -> [subjects : Nat, conversions : Nat]]
    /\ date \in Dates

\* Repeated rollups count a subject of a day once for each variant, exposed once or often,
\* never one whose variant a human chose, and more conversions than subjects never.  What
\* /results makes of the days and groups is another matter: see the last properties.
ResultsCountSubjects ==
    \A g \in Groups :
        /\ results[g].conversions <= results[g].subjects
        /\ results[g].subjects <= Cardinality(ExposedTo(g[1], g[3]))

\* A flag that is on takes in its percentage of the buckets, its variants share them by weight,
\* to within one bucket whatever is rounded, and widening the rollout only adds subjects.
RolloutIsFair ==
    LET pct == flag.rollout
        Share(v) == Total * Cardinality({b \in 0..(Buckets - 1) : VariantFor(b, pct) = v})
    IN  flag.enabled =>
        /\ Cardinality({b \in 0..(Buckets - 1) : VariantFor(b, pct) # Off}) = pct
        /\ \A v \in Variants : /\ Share(v) <= pct * Weights[v] + Total
                               /\ Share(v) + Total >= pct * Weights[v]
        /\ \A wider \in Percentages, b \in 0..(Buckets - 1) :
              pct <= wider /\ VariantFor(b, pct) # Off => VariantFor(b, wider) # Off

Safety == TypeOK /\ ResultsCountSubjects /\ RolloutIsFair

\* A subject keeps its variant when the rollout is widened.
KeepsVariant ==
    \A s \in Subjects :
        Cardinality({v \in Variants : \E d \in Dates : exposures[<<s, v, FALSE, d>>] > 0}) <= 1

\* What /results adds up over the days is subjects, not exposures.
SummedOnce ==
    \A v \in Variants, metric \in Metrics :
        MapThenSumSet(LAMBDA d : results[<<v, metric, d>>].subjects, Dates)
            <= Cardinality(UNION {ExposedTo(v, d) : d \in Dates})

\* A metric's rate is one of all that were exposed, not of those who converted.
RatesCountExposed ==
    [][\A v \in Variants, d \in Dates :
          LET g == <<v, "purchase", d>>
          IN  results'[g] # results[g] => results'[g].subjects = Cardinality(ExposedTo(v, d))]_vars

-----------------------------------------------------------------------------
\* The inductive invariant.  Weights are those above zero, and the flag has one; the table's
\* CHECK keeps a percentage in its range.
Sane ==
    /\ Weights \in Seq(Nat \ {0}) /\ Weights # <<>>
    /\ IsFiniteSet(Subjects) /\ Subjects \subseteq Nat /\ Testers \subseteq Subjects
    /\ Buckets \in Nat /\ Percentages \subseteq 0..Buckets /\ MaxExposures \in Nat
    /\ Slips \subseteq Nat \X (Nat \ {0}) \X Nat /\ LastDate \in Nat \ {0} /\ Lookback \in Nat

IInv == TypeOK /\ ResultsCountSubjects
=============================================================================
