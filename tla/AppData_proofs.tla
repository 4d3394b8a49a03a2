---------------------------- MODULE AppData_proofs --------------------------
(* Safety of eight more blocks of App, for every value of their constants: *)
(* flags, chat, answers, the audit chain, erasures, masking, the memory of *)
(* agents, analytics.  Each part proves an inductive invariant of one      *)
(* block, IInv, and that it implies what the block promises.               *)
EXTENDS App, FiniteSetTheorems, SequenceTheorems, WellFoundedInduction, TLAPS

-----------------------------------------------------------------------------
(* Naturals, and induction over them.                                      *)

\* A set of naturals that is not empty has a least element.
LEMMA Least ==
    ASSUME NEW T, T \subseteq Nat, T # {}
    PROVE  \E n \in T : \A m \in T : n <= m
<1> DEFINE R == OpToRel(<, Nat)
<1>1. IsWellFoundedOn(R, Nat)
    BY NatLessThanWellFounded
<1>2. \A m, n \in Nat : m < n => <<m, n>> \in R
    BY DEF OpToRel
<1> HIDE DEF R
<1>3. PICK n \in T : \A m \in T : ~ (<<m, n>> \in R)
    BY <1>1, WFMin
<1>4. \A m \in T : ~ (m < n)
    BY <1>2, <1>3
<1> QED BY <1>4

\* Induction, over a set instead of a predicate.
LEMMA Induct ==
    ASSUME NEW S, 0 \in S, \A n \in Nat : n \in S => n + 1 \in S
    PROVE  Nat \subseteq S
<1> SUFFICES ASSUME Nat \ S # {} PROVE FALSE OBVIOUS
<1>1. PICK n \in Nat \ S : \A m \in Nat \ S : n <= m
    BY Least
<1>2. n # 0 /\ n - 1 \in Nat /\ ~ (n <= n - 1)
    OBVIOUS
<1>3. n - 1 \in S
    BY <1>1, <1>2
<1> QED BY <1>2, <1>3

\* Products of numbers.
LEMMA TimesGrows ==
    ASSUME NEW a \in Nat, NEW b \in Nat, NEW c \in Nat
    PROVE  /\ a * c \in Nat /\ b * c \in Nat
           /\ a <= b => a * c <= b * c
           /\ a * c < b * c => a < b
           /\ c # 0 => a <= a * c
OBVIOUS

LEMMA TimesMinus ==
    ASSUME NEW a \in Int, NEW b \in Int, NEW c \in Int
    PROVE  (a - b) * c = a * c - b * c /\ c * (a - b) = a * c - b * c
OBVIOUS


-----------------------------------------------------------------------------
(* FeatureFlags                                                            *)

\* The block counts as FiniteSets does.
LEMMA FlagsFinite ==
    \A S : (Flags!IsFiniteSet(S) <=> IsFiniteSet(S)) /\ Flags!Cardinality(S) = Cardinality(S)
BY DEF Flags!IsFiniteSet, IsFiniteSet, Flags!Cardinality, Cardinality

LEMMA FlagsVariantsAreNumbers ==
    /\ Flags!Variants = 1..Len(Weights) /\ Cardinality(Flags!Variants) = Len(Weights)
    /\ Len(Weights) \in Nat \ {0}
<1>1. Flags!Variants = 1..Len(Weights) /\ Len(Weights) \in Nat \ {0}
    BY FlagsSane DEF Flags!Sane, Flags!Variants
<1>2. Cardinality(1..Len(Weights)) = Len(Weights)
    BY <1>1, FS_Interval
<1> QED BY <1>1, <1>2

\* The running sums of the weights.
LEMMA FlagsSumsExist ==
    ASSUME NEW m \in Nat, m <= Len(Weights)
    PROVE  \E f \in [0..m -> Nat] :
              f = [i \in 0..m |-> IF i = 0 THEN 0 ELSE f[i - 1] + Weights[i]]
<1> DEFINE Is(f, k) == /\ f \in [0..k -> Nat]
                       /\ f = [i \in 0..k |-> IF i = 0 THEN 0 ELSE f[i - 1] + Weights[i]]
           S == {k \in Nat : k <= Len(Weights) => \E f : Is(f, k)}
<1>0. Len(Weights) \in Nat /\ \A i \in 1..Len(Weights) : Weights[i] \in Nat
    BY FlagsSane DEF Flags!Sane
<1>1. 0 \in S
    <2>1. Is([i \in 0..0 |-> 0], 0)
        OBVIOUS
    <2> QED BY <2>1
<1>2. ASSUME NEW k \in Nat, k \in S PROVE k + 1 \in S
    <2>1. SUFFICES ASSUME k + 1 <= Len(Weights) PROVE \E f : Is(f, k + 1)
        OBVIOUS
    <2> HIDE DEF Is
    <2>a. k <= Len(Weights)
        BY <1>0, <2>1
    <2>2. PICK f : Is(f, k)
        BY <1>2, <2>a
    <2> USE DEF Is
    <2> DEFINE g == [i \in 0..(k + 1) |-> IF i = k + 1 THEN f[k] + Weights[k + 1] ELSE f[i]]
    <2>3. g \in [0..(k + 1) -> Nat]
        BY <1>0, <2>1, <2>2
    <2>4. ASSUME NEW i \in 0..(k + 1)
          PROVE  g[i] = IF i = 0 THEN 0 ELSE g[i - 1] + Weights[i]
        <3>1. CASE i = k + 1
            BY <3>1
        <3>2. CASE i # k + 1
            <4>1. i \in 0..k /\ g[i] = f[i] /\ (i # 0 => g[i - 1] = f[i - 1])
                BY <3>2
            <4>2. f[i] = IF i = 0 THEN 0 ELSE f[i - 1] + Weights[i]
                BY <2>2, <4>1
            <4> QED BY <4>1, <4>2
        <3> QED BY <3>1, <3>2
    <2>5. g = [i \in 0..(k + 1) |-> IF i = 0 THEN 0 ELSE g[i - 1] + Weights[i]]
        BY <2>4
    <2> HIDE DEF g
    <2> QED BY <2>3, <2>5
<1> HIDE DEF S
<1>3. m \in S
    BY <1>1, <1>2, Induct
<1> QED BY <1>3 DEF S

LEMMA FlagsSumsAre ==
    /\ Flags!UpTo \in [0..Len(Weights) -> Nat] /\ Flags!UpTo[0] = 0 /\ Flags!Total = Flags!UpTo[Len(Weights)]
    /\ \A i \in 1..Len(Weights) : Flags!UpTo[i] = Flags!UpTo[i - 1] + Weights[i]
<1> DEFINE n == Len(Weights)
<1>1. n \in Nat /\ Cardinality(Flags!Variants) = n /\ n <= n
    BY FlagsVariantsAreNumbers
<1>2. PICK f \in [0..n -> Nat] : f = [i \in 0..n |-> IF i = 0 THEN 0 ELSE f[i - 1] + Weights[i]]
    BY <1>1, FlagsSumsExist, Zenon
<1>3. Flags!UpTo = [i \in 0..n |-> IF i = 0 THEN 0 ELSE Flags!UpTo[i - 1] + Weights[i]]
    BY <1>1, <1>2, FlagsFinite DEF Flags!UpTo
<1>4. Flags!UpTo[0] = 0 /\ \A i \in 1..n : Flags!UpTo[i] = Flags!UpTo[i - 1] + Weights[i]
    BY <1>1, <1>3
<1>5. \A i \in 0..n : Flags!UpTo[i] \in Nat
    <2> DEFINE S == {k \in Nat : k <= n => Flags!UpTo[k] \in Nat}
    <2>1. 0 \in S
        BY <1>4
    <2>2. \A k \in Nat : k \in S => k + 1 \in S
        BY <1>1, <1>4, FlagsSane DEF Flags!Sane
    <2> HIDE DEF S
    <2>3. Nat \subseteq S
        BY <2>1, <2>2, Induct
    <2> QED BY <1>1, <2>3 DEF S
<1>6. Flags!UpTo \in [0..n -> Nat]
    BY <1>3, <1>5
<1> QED BY <1>1, <1>4, <1>6, FlagsFinite DEF Flags!Total

LEMMA FlagsSumsGrow ==
    ASSUME NEW i \in 0..Len(Weights), NEW j \in i..Len(Weights)
    PROVE  Flags!UpTo[i] <= Flags!UpTo[j] /\ (i < j => Flags!UpTo[i] < Flags!UpTo[j])
<1> DEFINE n == Len(Weights)
           S == {k \in Nat : i <= k /\ k <= n => Flags!UpTo[i] <= Flags!UpTo[k] /\ (i < k => Flags!UpTo[i] < Flags!UpTo[k])}
<1>1. n \in Nat /\ \A k \in 1..n : Weights[k] \in Nat \ {0}
    BY FlagsSane DEF Flags!Sane
<1>2. 0 \in S
    BY <1>1, FlagsSumsAre
<1>3. ASSUME NEW k \in Nat, k \in S PROVE k + 1 \in S
    <2>1. CASE i <= k /\ k + 1 <= n
        <3>0. k + 1 \in 1..n /\ k \in 0..n /\ (k + 1) - 1 = k
            BY <1>1, <2>1
        <3>1. Flags!UpTo[k + 1] = Flags!UpTo[k] + Weights[k + 1] /\ Flags!UpTo[k] \in Nat /\ Flags!UpTo[i] \in Nat
            BY <3>0, FlagsSumsAre
        <3>2. Flags!UpTo[i] <= Flags!UpTo[k]
            BY <1>1, <1>3, <2>1
        <3> QED BY <1>1, <2>1, <3>1, <3>2
    <2>2. CASE ~ (i <= k /\ k + 1 <= n)
        BY <1>1, <2>2, FlagsSumsAre
    <2> QED BY <2>1, <2>2
<1> HIDE DEF S
<1>4. j \in S /\ j \in Nat /\ i <= j /\ j <= n
    BY <1>1, <1>2, <1>3, Induct
<1> QED BY <1>4 DEF S

\* A variant has the buckets that are below its running sum and not below the one before.
LEMMA FlagsVariantIs ==
    ASSUME NEW b \in Nat, NEW pct \in Nat
    PROVE  /\ Flags!VariantFor(b, pct) \in Flags!Variants \union {Flags!Off}
           /\ Flags!VariantFor(b, pct) # Flags!Off <=> b < pct
           /\ \A v \in Flags!Variants : Flags!VariantFor(b, pct) = v <=>
                  b < pct /\ Flags!Below(b, v, pct) /\ ~ Flags!Below(b, v - 1, pct)
<1> DEFINE n == Len(Weights)
           Below(v) == Flags!Below(b, v, pct)
           T == {v \in Flags!Variants : Below(v)}
<1>0. /\ Flags!Variants = 1..n /\ n \in Nat \ {0} /\ Flags!Total \in Nat /\ Flags!Total = Flags!UpTo[n] /\ Flags!Off = 0
      /\ Flags!UpTo[0] = 0 /\ \A v \in 0..n : Flags!UpTo[v] \in Nat
    <2>1. Flags!UpTo \in [0..n -> Nat] /\ n \in 0..n
        BY FlagsSumsAre, FlagsVariantsAreNumbers
    <2> QED BY <2>1, FlagsVariantsAreNumbers, FlagsSumsAre DEF Flags!Off
<1>1. ASSUME b < pct, NEW u \in 0..n, NEW v \in 0..n, u <= v, Below(u)
      PROVE  Below(v)
    <2>1. CASE u = v
        BY <1>1, <2>1
    <2>2. CASE u < v
        <3> DEFINE x == Flags!UpTo[u]
                   y == Flags!UpTo[v]
        <3>1. x \in Nat /\ y \in Nat /\ x < y /\ b * Flags!Total \in Nat
            BY <1>0, <1>1, <2>2, FlagsSumsGrow, TimesGrows
        <3>2. b * Flags!Total <= x * pct
            BY <1>1, <3>1, TimesGrows DEF Flags!Below
        <3> HIDE DEF x, y
        <3>3. (x + 1) * pct = x * pct + pct /\ (x + 1) * pct <= y * pct
            BY <3>1, TimesGrows
        <3>4. x * pct \in Nat /\ y * pct \in Nat
            BY <3>1, TimesGrows
        <3>5. b * Flags!Total < y * pct
            BY <1>1, <3>1, <3>2, <3>3, <3>4
        <3> QED BY <3>5 DEF Flags!Below, y
    <2> QED BY <1>1, <2>1, <2>2
<1>2. ~ Below(0)
    <2>1. Flags!UpTo[0] * pct = 0 /\ b * Flags!Total \in Nat
        BY <1>0, TimesGrows
    <2>2. <<b, 0, pct>> \notin Slips
        BY FlagsSane DEF Flags!Sane
    <2> QED BY <2>1, <2>2 DEF Flags!Below
<1>4. b < pct => Below(n)
    <2>1. Flags!Total # 0
        <3>1. 0 \in 0..n /\ n \in 0..n /\ 0 < n
            BY <1>0
        <3> QED BY <1>0, <3>1, FlagsSumsGrow
    <2>2. (b + 1) * Flags!Total = b * Flags!Total + Flags!Total /\ b * Flags!Total \in Nat
        BY <1>0
    <2>3. b < pct => (b + 1) * Flags!Total <= pct * Flags!Total
        BY <1>0, TimesGrows
    <2>4. pct * Flags!Total \in Nat /\ Flags!UpTo[n] * pct = pct * Flags!Total
        BY <1>0, TimesGrows
    <2>5. b < pct => b * Flags!Total < Flags!UpTo[n] * pct
        BY <1>0, <2>1, <2>2, <2>3, <2>4
    <2> QED BY <2>5 DEF Flags!Below
<1> HIDE DEF Below
<1>5. CASE b < pct
    <2>1. n \in T /\ T \subseteq Nat
        BY <1>0, <1>4, <1>5
    <2>2. PICK v \in T : \A u \in T : v <= u
        BY <2>1, Least
    <2>3. v \in 1..n /\ Below(v) /\ \A u \in 1..(v - 1) : ~ Below(u)
        <3>1. v \in 1..n /\ Below(v)
            BY <1>0
        <3>2. ASSUME NEW u \in 1..(v - 1) PROVE ~ Below(u)
            BY <1>0, <2>2, <3>1
        <3> QED BY <3>1, <3>2
    <2>4. \A u \in Flags!Variants : (Below(u) /\ \A x \in 1..(u - 1) : ~ Below(x)) => u = v
        <3> SUFFICES ASSUME NEW u \in 1..n, Below(u), \A x \in 1..(u - 1) : ~ Below(x)
                     PROVE  u = v
            BY <1>0
        <3>1. ~ (u < v) /\ ~ (v < u)
            BY <2>3
        <3> QED BY <2>3, <3>1
    <2>5. Flags!VariantFor(b, pct) = v
        <3>1. Flags!VariantFor(b, pct) = CHOOSE x \in Flags!Variants :
                                      Below(x) /\ \A u \in 1..(x - 1) : ~ Below(u)
            <4>1. \E x \in Flags!Variants : Flags!Below(b, x, pct)
                BY <1>0, <2>3 DEF Below
            <4> QED BY <1>5, <4>1 DEF Flags!VariantFor, Flags!Inside, Below
        <3> QED BY <1>0, <2>3, <2>4, <3>1
    <2>6. ASSUME NEW u \in Flags!Variants
          PROVE  v = u <=> Below(u) /\ ~ Below(u - 1)
        <3>1. u - 1 \in 0..n /\ u \in 1..n
            BY <1>0
        <3>2. ASSUME v = u PROVE Below(u) /\ ~ Below(u - 1)
            <4>1. CASE u = 1
                BY <1>2, <2>3, <3>2, <4>1
            <4>2. CASE u # 1
                BY <2>3, <3>1, <3>2, <4>2
            <4> QED BY <4>1, <4>2
        <3>3. ASSUME Below(u), ~ Below(u - 1) PROVE v = u
            <4>1. ~ (u < v)
                BY <2>3, <3>1, <3>3
            <4>2. ~ (v < u)
                <5>1. v < u => v <= u - 1 /\ v \in 0..n
                    BY <2>3, <3>1
                <5> QED BY <1>1, <1>5, <2>3, <3>1, <3>3, <5>1
            <4> QED BY <2>3, <3>1, <4>1, <4>2
        <3> QED BY <3>2, <3>3
    <2> QED BY <1>0, <1>5, <2>3, <2>5, <2>6 DEF Below
<1>6. CASE ~ (b < pct)
    <2>1. Flags!VariantFor(b, pct) = Flags!Off
        BY <1>6 DEF Flags!VariantFor, Flags!Inside
    <2>2. \A u \in Flags!Variants : u # Flags!Off
        BY <1>0
    <2> QED BY <1>6, <2>1, <2>2
<1> QED BY <1>5, <1>6

LEMMA FlagsVariantIsOne ==
    ASSUME NEW b \in Nat, NEW pct \in Nat, Flags!VariantFor(b, pct) # Flags!Off
    PROVE  Flags!VariantFor(b, pct) \in Flags!Variants
BY FlagsVariantIs

\* What a rollup finds can only grow.
LEMMA FlagsExposedIsFinite ==
    ASSUME NEW v, NEW d
    PROVE  IsFiniteSet(Flags!ExposedTo(v, d))
BY FlagsSane, FS_Subset, FlagsFinite DEF Flags!Sane, Flags!ExposedTo

\* What a rollup has counted stays within what it may count, as exposures are only added.
LEMMA FlagsCountsStay ==
    ASSUME Flags!ResultsCountSubjects, UNCHANGED results,
           results \in [Flags!Groups -> [subjects : Nat, conversions : Nat]],
           \A v \in Flags!Variants, d \in Flags!Dates : Flags!ExposedTo(v, d) \subseteq Flags!ExposedTo(v, d)'
    PROVE  Flags!ResultsCountSubjects'
<1> SUFFICES ASSUME NEW g \in Flags!Groups
             PROVE  /\ results[g].conversions <= results[g].subjects
                    /\ results[g].subjects <= Cardinality(Flags!ExposedTo(g[1], g[3]))'
    BY FlagsFinite DEF Flags!ResultsCountSubjects
<1>1. /\ results[g].conversions <= results[g].subjects
      /\ results[g].subjects <= Cardinality(Flags!ExposedTo(g[1], g[3]))
      /\ results[g].subjects \in Nat
    BY FlagsFinite DEF Flags!ResultsCountSubjects
<1>2. IsFiniteSet(Flags!ExposedTo(g[1], g[3])')
    BY FlagsSane, FS_Subset, FlagsFinite DEF Flags!Sane, Flags!ExposedTo
<1>3. Flags!ExposedTo(g[1], g[3]) \subseteq Flags!ExposedTo(g[1], g[3])'
    BY DEF Flags!Groups
<1>4. /\ Cardinality(Flags!ExposedTo(g[1], g[3])) <= Cardinality(Flags!ExposedTo(g[1], g[3]))'
      /\ Cardinality(Flags!ExposedTo(g[1], g[3])) \in Nat /\ Cardinality(Flags!ExposedTo(g[1], g[3]))' \in Nat
    BY <1>2, <1>3, FlagsExposedIsFinite, FS_Subset, FS_CardinalityType
<1> QED BY <1>1, <1>4

LEMMA FlagsInitHolds == Flags!Init => Flags!IInv
<1> SUFFICES ASSUME Flags!Init PROVE Flags!IInv OBVIOUS
<1>1. Flags!TypeOK
    <2>1. flag \in [enabled : BOOLEAN, rollout : 0..Buckets] /\ date \in Flags!Dates
        BY FlagsSane DEF Flags!Init, Flags!Sane, Flags!Dates
    <2>2. /\ override \in [Subjects -> {Flags!Off, 1}] /\ conversions \subseteq Subjects
          /\ exposures \in [Flags!Rows -> Nat]
          /\ results \in [Flags!Groups -> [subjects : Nat, conversions : Nat]]
        BY DEF Flags!Init
    <2> QED BY <2>1, <2>2 DEF Flags!TypeOK
<1>2. Flags!ResultsCountSubjects
    <2>1. \A v, d : Cardinality(Flags!ExposedTo(v, d)) \in Nat
        BY FlagsExposedIsFinite, FS_CardinalityType
    <2> QED BY <2>1, FlagsFinite DEF Flags!Init, Flags!ResultsCountSubjects
<1> QED BY <1>1, <1>2 DEF Flags!IInv

LEMMA FlagsEvaluateStep ==
    ASSUME Flags!IInv, NEW s \in Subjects, Flags!Evaluate(s)
    PROVE  Flags!IInv'
<1> DEFINE v == IF override[s] # Flags!Off THEN override[s] ELSE Flags!VariantFor(s, flag.rollout)
           row == <<s, v, override[s] # Flags!Off, date>>
<1>1. exposures' = [exposures EXCEPT ![row] = exposures[row] + 1]
    BY DEF Flags!Evaluate
<1>2. v # Flags!Off
    BY DEF Flags!Evaluate
<1>3. UNCHANGED <<flag, override, conversions, results, date>>
    BY DEF Flags!Evaluate
<1>4. row \in Flags!Rows
    <2>1. s \in Nat /\ flag.rollout \in Nat /\ override[s] \in {Flags!Off, 1}
        BY FlagsSane DEF Flags!IInv, Flags!TypeOK, Flags!Sane
    <2>2. v \in Flags!Variants
        <3>1. CASE override[s] # Flags!Off
            BY <2>1, <3>1, FlagsVariantsAreNumbers, FlagsSane DEF Flags!Sane
        <3>2. CASE override[s] = Flags!Off
            BY <1>2, <2>1, <3>2, FlagsVariantIsOne
        <3> QED BY <3>1, <3>2
    <2>3. date \in Flags!Dates
        BY DEF Flags!IInv, Flags!TypeOK
    <2> QED BY <2>2, <2>3 DEF Flags!Rows
<1> HIDE DEF row
<1>5. exposures \in [Flags!Rows -> Nat]
    BY DEF Flags!IInv, Flags!TypeOK
<1>6. exposures[row] \in Nat
    BY <1>4, <1>5
<1>7. exposures' \in [Flags!Rows -> Nat]
    <2>1. exposures[row] + 1 \in Nat
        BY <1>6
    <2> QED BY <1>1, <1>5, <2>1
<1>8. Flags!TypeOK'
    BY <1>3, <1>7 DEF Flags!IInv, Flags!TypeOK
<1>9. Flags!ResultsCountSubjects'
    <2>1. ASSUME NEW u \in Flags!Variants, NEW d \in Flags!Dates
          PROVE  Flags!ExposedTo(u, d) \subseteq Flags!ExposedTo(u, d)'
        <3>1. \A x \in Flags!Rows : exposures[x] > 0 => exposures'[x] > 0
            BY <1>1, <1>4, <1>5, <1>6
        <3>2. \A z \in Subjects : <<z, u, FALSE, d>> \in Flags!Rows
            BY DEF Flags!Rows
        <3> QED BY <3>1, <3>2 DEF Flags!ExposedTo
    <2> QED BY <1>3, <2>1, FlagsCountsStay DEF Flags!IInv, Flags!TypeOK
<1> QED BY <1>8, <1>9 DEF Flags!IInv

LEMMA FlagsRollupStep ==
    ASSUME Flags!IInv, Flags!Rollup
    PROVE  Flags!IInv'
<1>1. ASSUME NEW g \in Flags!Groups
      PROVE  /\ results'[g] \in [subjects : Nat, conversions : Nat]
             /\ results'[g].conversions <= results'[g].subjects
             /\ results'[g].subjects <= Cardinality(Flags!ExposedTo(g[1], g[3]))
    <2> DEFINE S == Flags!Group(g[1], g[2], g[3])
               kept == S = {} \/ g[3] + Lookback < date
    <2>1. S \subseteq Flags!ExposedTo(g[1], g[3])
        BY DEF Flags!Group
    <2>2. /\ Cardinality(S) \in Nat /\ Cardinality(S) <= Cardinality(Flags!ExposedTo(g[1], g[3]))
        BY <2>1, FlagsExposedIsFinite, FS_Subset, FS_CardinalityType
    <2>3. results'[g] = IF kept THEN results[g]
                        ELSE [subjects |-> Cardinality(S),
                              conversions |-> IF g[2] = "_exposure" THEN 0 ELSE Cardinality(S)]
        BY FlagsFinite DEF Flags!Rollup, Flags!Counted
    <2> HIDE DEF S, kept
    <2>4. CASE kept
        BY <2>3, <2>4, FlagsFinite DEF Flags!IInv, Flags!TypeOK, Flags!ResultsCountSubjects
    <2>5. CASE ~ kept
        BY <2>2, <2>3, <2>5
    <2> QED BY <2>4, <2>5
<1>2. results' = [g \in Flags!Groups |-> results'[g]]
    BY DEF Flags!Rollup
<1>3. UNCHANGED <<flag, override, exposures, conversions, date>>
    BY DEF Flags!Rollup
<1>4. Flags!TypeOK'
    BY <1>1, <1>2, <1>3 DEF Flags!IInv, Flags!TypeOK
<1>5. Flags!ResultsCountSubjects'
    BY <1>1, <1>3, FlagsFinite DEF Flags!ResultsCountSubjects, Flags!ExposedTo
<1> QED BY <1>4, <1>5 DEF Flags!IInv

LEMMA FlagsStepHolds == Flags!IInv /\ [Flags!Next]_(Flags!vars) => Flags!IInv'
<1> SUFFICES ASSUME Flags!IInv, [Flags!Next]_(Flags!vars) PROVE Flags!IInv' OBVIOUS
<1>1. ASSUME UNCHANGED <<exposures, results>>
      PROVE  Flags!ResultsCountSubjects'
    BY <1>1 DEF Flags!IInv, Flags!ResultsCountSubjects, Flags!ExposedTo
<1>2. CASE Flags!SetFlag
    <2>1. flag' \in [enabled : BOOLEAN, rollout : 0..Buckets]
        BY <1>2, FlagsSane DEF Flags!SetFlag, Flags!Sane
    <2> QED BY <1>1, <1>2, <2>1 DEF Flags!SetFlag, Flags!IInv, Flags!TypeOK
<1>3. ASSUME NEW s \in Subjects, Flags!Convert(s)
      PROVE  Flags!IInv'
    BY <1>1, <1>3 DEF Flags!Convert, Flags!IInv, Flags!TypeOK
<1>4. ASSUME NEW s \in Testers, Flags!Override(s)
      PROVE  Flags!IInv'
    BY <1>1, <1>4, FlagsSane DEF Flags!Override, Flags!IInv, Flags!TypeOK, Flags!Sane
<1>5. CASE Flags!NextDay
    <2>1. date' \in Flags!Dates
        BY <1>5, FlagsSane DEF Flags!NextDay, Flags!IInv, Flags!TypeOK, Flags!Dates, Flags!Sane
    <2> QED BY <1>1, <1>5, <2>1 DEF Flags!NextDay, Flags!IInv, Flags!TypeOK
<1>6. CASE UNCHANGED Flags!vars
    BY <1>1, <1>6 DEF Flags!vars, Flags!IInv, Flags!TypeOK
<1> QED BY <1>2, <1>3, <1>4, <1>5, <1>6, FlagsEvaluateStep, FlagsRollupStep DEF Flags!Next

\* How many of the multiples of t lie from lo to hi: as many as fit, give or take one.
LEMMA FlagsMultiplesBetween ==
    ASSUME NEW t \in Nat \ {0}, NEW lo \in Nat, NEW hi \in Nat, lo <= hi,
           NEW S, S = {b \in Nat : ~ (b * t < lo) /\ b * t < hi}
    PROVE  /\ IsFiniteSet(S) /\ Cardinality(S) \in Nat
           /\ t * Cardinality(S) < hi - lo + t
           /\ t * Cardinality(S) + t > hi - lo
<1> DEFINE From(x) == {b \in Nat : ~ (b * t < x)}
<1>1. ASSUME NEW x \in Nat
      PROVE  \E a \in Nat : /\ \A b \in Nat : b * t < x <=> b < a
                            /\ x <= a * t /\ a * t < x + t
    <2>1. x \in From(x)
        BY TimesGrows
    <2>2. PICK a \in From(x) : \A b \in From(x) : a <= b
        BY <2>1, Least
    <2>3. a \in Nat /\ x <= a * t
        BY <2>2, TimesGrows
    <2>4. \A b \in Nat : b * t < x <=> b < a
        <3> TAKE b \in Nat
        <3>1. b * t \in Nat /\ a * t \in Nat /\ (a <= b => a * t <= b * t)
            BY <2>3, TimesGrows
        <3>2. b < a => b \notin From(x)
            BY <2>2, <2>3
        <3>3. b \notin From(x) => b * t < x
            OBVIOUS
        <3> QED BY <2>3, <3>1, <3>2, <3>3
    <2>5. a * t < x + t
        <3>1. CASE a = 0
            BY <3>1
        <3>2. CASE a # 0
            <4>1. a - 1 \in Nat /\ a - 1 < a
                BY <2>3, <3>2
            <4>2. (a - 1) * t < x
                BY <2>4, <4>1
            <4>3. (a - 1) * t = a * t - t /\ a * t \in Nat
                BY <2>3, TimesGrows
            <4> QED BY <4>2, <4>3
        <3> QED BY <3>1, <3>2
    <2> QED BY <2>3, <2>4, <2>5
<1>2. PICK a \in Nat : /\ \A b \in Nat : b * t < lo <=> b < a
                       /\ lo <= a * t /\ a * t < lo + t
    BY <1>1
<1>3. PICK d \in Nat : /\ \A b \in Nat : b * t < hi <=> b < d
                       /\ hi <= d * t /\ d * t < hi + t
    BY <1>1
<1>4. S = a..(d - 1)
    <2>1. \A b \in Nat : b \in S <=> ~ (b < a) /\ b < d
        BY <1>2, <1>3
    <2> QED BY <2>1
<1>5. a <= d
    <2>1. \A b \in Nat : b * t < lo => b * t < hi
        BY TimesGrows
    <2>2. SUFFICES ASSUME d < a PROVE FALSE
        OBVIOUS
    <2>3. d * t < lo /\ ~ (d * t < hi)
        BY <1>2, <1>3, <2>2
    <2> QED BY <2>1, <2>3
<1>6. Cardinality(S) = d - a
    <2>1. a \in Int /\ d - 1 \in Int
        OBVIOUS
    <2>2. Cardinality(a..(d - 1)) = IF a > d - 1 THEN 0 ELSE (d - 1) - a + 1
        BY <2>1, FS_Interval
    <2>3. CASE a = d
        <3>1. a > d - 1 /\ d - a = 0
            BY <2>3
        <3>2. Cardinality(a..(d - 1)) = 0
            BY <2>2, <3>1
        <3> QED BY <1>4, <3>1, <3>2
    <2>4. CASE a < d
        <3>1. ~ (a > d - 1) /\ (d - 1) - a + 1 = d - a
            BY <2>4
        <3> QED BY <1>4, <2>2, <3>1
    <2> QED BY <1>5, <2>3, <2>4
<1>7. t * (d - a) = d * t - a * t /\ d * t \in Nat /\ a * t \in Nat
    BY TimesMinus, TimesGrows
<1>8. IsFiniteSet(S)
    <2>1. a \in Int /\ d - 1 \in Int
        OBVIOUS
    <2> QED BY <1>4, <2>1, FS_Interval
<1> QED BY <1>2, <1>3, <1>5, <1>6, <1>7, <1>8

LEMMA FlagsSharesAreFair ==
    ASSUME NEW pct \in 0..Buckets, NEW v \in Flags!Variants, NEW S,
           S = {b \in 0..(Buckets - 1) : Flags!VariantFor(b, pct) = v}
    PROVE  /\ Flags!Total * Cardinality(S) <= pct * Weights[v] + Flags!Total
           /\ Flags!Total * Cardinality(S) + Flags!Total >= pct * Weights[v]
<1> DEFINE n == Len(Weights)
<1>1. /\ Flags!Variants = 1..n /\ n \in Nat \ {0} /\ Flags!Total = Flags!UpTo[n] /\ Flags!UpTo \in [0..n -> Nat]
      /\ Flags!UpTo[v] = Flags!UpTo[v - 1] + Weights[v] /\ Flags!UpTo[0] = 0
      /\ Weights[v] \in Nat /\ Buckets \in Nat /\ pct \in Nat
    BY FlagsVariantsAreNumbers, FlagsSumsAre, FlagsSane DEF Flags!Sane
<1>2. Flags!Total \in Nat \ {0}
    <2>1. 0 \in 0..n /\ n \in 0..n /\ 0 < n
        BY <1>1
    <2> QED BY <1>1, <2>1, FlagsSumsGrow
<1> DEFINE lo == Flags!UpTo[v - 1] * pct
           hi == Flags!UpTo[v] * pct
<1>3. Flags!UpTo[v - 1] \in Nat /\ Flags!UpTo[v] \in Nat /\ Flags!UpTo[v - 1] <= Flags!UpTo[v]
    BY <1>1
<1>4. lo \in Nat /\ hi \in Nat /\ lo <= hi
    BY <1>1, <1>3, TimesGrows
<1>5. hi - lo = pct * Weights[v]
    <2>1. (Flags!UpTo[v] - Flags!UpTo[v - 1]) * pct = hi - lo
        BY <1>1, <1>3, TimesMinus
    <2>2. Flags!UpTo[v] - Flags!UpTo[v - 1] = Weights[v]
        BY <1>1, <1>3
    <2> QED BY <1>1, <2>1, <2>2
<1> DEFINE Wide == {b \in Nat : ~ (b * Flags!Total < lo) /\ b * Flags!Total < hi + 1}
           Narrow == {b \in Nat : ~ (b * Flags!Total < lo + 1) /\ b * Flags!Total < hi}
<1>6. S \subseteq Wide
    <2> SUFFICES ASSUME NEW b \in S PROVE b \in Wide
        OBVIOUS
    <2>1. b \in Nat /\ Flags!VariantFor(b, pct) = v /\ b * Flags!Total \in Nat
        BY <1>1, <1>2, TimesGrows
    <2>2. Flags!Below(b, v, pct) /\ ~ Flags!Below(b, v - 1, pct)
        BY <1>1, <2>1, FlagsVariantIs
    <2>3. b * Flags!Total <= hi /\ ~ (b * Flags!Total < lo)
        BY <1>4, <2>1, <2>2 DEF Flags!Below
    <2> HIDE DEF lo, hi
    <2> QED BY <1>4, <2>1, <2>3
<1>7. Narrow \subseteq S
    <2> SUFFICES ASSUME NEW b \in Narrow PROVE b \in S
        OBVIOUS
    <2>1. b \in Nat /\ b * Flags!Total \in Nat
        BY <1>2, TimesGrows
    <2>2. lo < b * Flags!Total /\ b * Flags!Total < hi
        <3> HIDE DEF lo, hi
        <3> QED BY <1>4, <2>1
    <2>3. Flags!Below(b, v, pct) /\ ~ Flags!Below(b, v - 1, pct)
        BY <1>4, <2>1, <2>2 DEF Flags!Below
    <2>4. b < pct
        <3>1. hi <= pct * Flags!Total
            <4>1. Flags!UpTo[v] <= Flags!UpTo[n] /\ Flags!UpTo[n] \in Nat
                BY <1>1, FlagsSumsGrow
            <4>2. Flags!UpTo[v] * pct <= Flags!UpTo[n] * pct
                BY <1>1, <1>3, <4>1, TimesGrows
            <4> QED BY <1>1, <4>1, <4>2
        <3>2. pct * Flags!Total \in Nat
            BY <1>1, <1>2, TimesGrows
        <3>3. b * Flags!Total < pct * Flags!Total
            <4> HIDE DEF lo, hi
            <4> QED BY <1>4, <2>1, <2>2, <3>1, <3>2
        <3> QED BY <1>1, <1>2, <2>1, <3>3, TimesGrows
    <2>5. Flags!VariantFor(b, pct) = v
        BY <1>1, <2>1, <2>3, <2>4, FlagsVariantIs
    <2>6. b \in 0..(Buckets - 1)
        BY <1>1, <2>1, <2>4
    <2> QED BY <2>5, <2>6
<1> HIDE DEF lo, hi
<1>8. /\ IsFiniteSet(Wide) /\ Cardinality(Wide) \in Nat
      /\ Flags!Total * Cardinality(Wide) < (hi + 1) - lo + Flags!Total
    BY <1>2, <1>4, FlagsMultiplesBetween
<1>9. Flags!Total * Cardinality(S) <= hi - lo + Flags!Total
    <2>1. IsFiniteSet(S) /\ Cardinality(S) <= Cardinality(Wide) /\ Cardinality(S) \in Nat
        BY <1>6, <1>8, FS_Subset, FS_CardinalityType
    <2>2. Cardinality(S) * Flags!Total <= Cardinality(Wide) * Flags!Total /\ Cardinality(S) * Flags!Total \in Nat
          /\ Cardinality(Wide) * Flags!Total \in Nat
        BY <1>2, <1>8, <2>1, TimesGrows
    <2>3. /\ Cardinality(S) * Flags!Total = Flags!Total * Cardinality(S)
          /\ Cardinality(Wide) * Flags!Total = Flags!Total * Cardinality(Wide)
        BY <1>2, <1>8, <2>1
    <2> QED BY <1>2, <1>4, <1>8, <2>2, <2>3
<1>10. Flags!Total * Cardinality(S) + Flags!Total >= hi - lo
    <2>0. IsFiniteSet(S) /\ Cardinality(S) \in Nat
        BY <1>6, <1>8, FS_Subset, FS_CardinalityType
    <2>1. CASE lo = hi
        <3>1. Flags!Total * Cardinality(S) \in Nat
            BY <1>2, <2>0
        <3> QED BY <1>2, <1>4, <2>1, <3>1
    <2>2. CASE lo < hi
        <3>1. lo + 1 \in Nat /\ lo + 1 <= hi
            BY <1>4, <2>2
        <3>2. /\ Cardinality(Narrow) \in Nat
              /\ Flags!Total * Cardinality(Narrow) + Flags!Total > hi - (lo + 1)
            BY <1>2, <1>4, <3>1, FlagsMultiplesBetween
        <3>3. Cardinality(Narrow) <= Cardinality(S)
            BY <1>7, <2>0, FS_Subset
        <3>4. Cardinality(Narrow) * Flags!Total <= Cardinality(S) * Flags!Total /\ Cardinality(Narrow) * Flags!Total \in Nat
              /\ Cardinality(S) * Flags!Total \in Nat
            BY <1>2, <2>0, <3>2, <3>3, TimesGrows
        <3>5. /\ Cardinality(S) * Flags!Total = Flags!Total * Cardinality(S)
              /\ Cardinality(Narrow) * Flags!Total = Flags!Total * Cardinality(Narrow)
            BY <1>2, <2>0, <3>2
        <3> QED BY <1>2, <1>4, <3>2, <3>4, <3>5
    <2> QED BY <1>4, <2>1, <2>2
<1> QED BY <1>5, <1>9, <1>10

LEMMA FlagsRolloutFair == Flags!TypeOK => Flags!RolloutIsFair
<1> SUFFICES ASSUME Flags!TypeOK PROVE Flags!RolloutIsFair OBVIOUS
<1> DEFINE pct == flag.rollout
<1>1. pct \in 0..Buckets /\ Buckets \in Nat
    BY FlagsSane DEF Flags!TypeOK, Flags!Sane
<1>2. ASSUME NEW p \in 0..Buckets, NEW b \in 0..(Buckets - 1)
      PROVE  Flags!VariantFor(b, p) # Flags!Off <=> b < p
    <2>1. b \in Nat /\ p \in Nat
        BY <1>1
    <2> QED BY <2>1, FlagsVariantIs
<1>3. {b \in 0..(Buckets - 1) : Flags!VariantFor(b, pct) # Flags!Off} = 0..(pct - 1)
    <2>1. {b \in 0..(Buckets - 1) : Flags!VariantFor(b, pct) # Flags!Off} = {b \in 0..(Buckets - 1) : b < pct}
        BY <1>1, <1>2
    <2>2. {b \in 0..(Buckets - 1) : b < pct} = 0..(pct - 1)
        BY <1>1
    <2> QED BY <2>1, <2>2
<1>4. Cardinality(0..(pct - 1)) = pct
    <2>1. 0 \in Int /\ pct - 1 \in Int
        BY <1>1
    <2>2. Cardinality(0..(pct - 1)) = IF 0 > pct - 1 THEN 0 ELSE pct - 1 - 0 + 1
        BY <2>1, FS_Interval
    <2> QED BY <1>1, <2>2
<1>5. ASSUME NEW wider \in Percentages, NEW b \in 0..(Buckets - 1),
             pct <= wider, Flags!VariantFor(b, pct) # Flags!Off
      PROVE  Flags!VariantFor(b, wider) # Flags!Off
    <2>1. wider \in 0..Buckets
        BY FlagsSane DEF Flags!Sane
    <2> QED BY <1>1, <1>2, <1>5, <2>1
<1>6. ASSUME NEW v \in Flags!Variants
      PROVE  LET S == {b \in 0..(Buckets - 1) : Flags!VariantFor(b, pct) = v}
             IN  /\ Flags!Total * Cardinality(S) <= pct * Weights[v] + Flags!Total
                 /\ Flags!Total * Cardinality(S) + Flags!Total >= pct * Weights[v]
    BY <1>1, FlagsSharesAreFair
<1> QED BY <1>3, <1>4, <1>5, <1>6, FlagsFinite DEF Flags!RolloutIsFair

\* Rollups count subjects, never rows; the variants share a rollout by weight and it only grows.
LEMMA FlagsHolds == Flags!Spec => []Flags!Safety
<1>1. Flags!IInv => Flags!Safety
    BY FlagsRolloutFair DEF Flags!IInv, Flags!Safety
<1> QED BY <1>1, FlagsInitHolds, FlagsStepHolds, PTL DEF Flags!Spec

-----------------------------------------------------------------------------
(* Chat                                                                    *)

\* The block counts as FiniteSets does.
LEMMA TalkFinite ==
    \A S : (Talk!IsFiniteSet(S) <=> IsFiniteSet(S)) /\ Talk!Cardinality(S) = Cardinality(S)
BY DEF Talk!IsFiniteSet, IsFiniteSet, Talk!Cardinality, Cardinality

LEMMA TalkInitHolds == ASSUME Talk!Init PROVE Talk!IInv
<1> USE DEF Talk!Init
<1>1. \A r \in Turns : /\ turn[r].at = "new" /\ turn[r].context = {} /\ DOMAIN turn[r] = Talk!TurnFields
  BY DEF Talk!Arrived, Talk!TurnFields
<1>2. Talk!TypeOK
  BY <1>1 DEF Talk!TypeOK
<1>3. Talk!Shape
  BY <1>1 DEF Talk!Shape
<1>4. Talk!Owners /\ Talk!QuestionFirst /\ Talk!StoredTurns /\ Talk!BilledTurns
  BY <1>1 DEF Talk!Owners, Talk!Resolved, Talk!QuestionFirst, Talk!StoredTurns, Talk!BilledTurns
<1>5. Talk!RetriesAreFree /\ Talk!ContextIsOwn /\ Talk!OneReply
  BY <1>1 DEF Talk!RetriesAreFree, Talk!ContextIsOwn, Talk!OneReply
<1> QED BY <1>2, <1>3, <1>4, <1>5 DEF Talk!IInv

LEMMA TalkAppended ==
    ASSUME NEW S, NEW s \in Seq(S), NEW m \in S
    PROVE  /\ Append(s, m) \in Seq(S) /\ Len(s) + 1 \in DOMAIN Append(s, m)
           /\ Append(s, m)[Len(s) + 1] = m /\ DOMAIN s \subseteq DOMAIN Append(s, m)
           /\ \A i \in DOMAIN s : Append(s, m)[i] = s[i] /\ i < Len(s) + 1
           /\ \A i \in DOMAIN Append(s, m) \ DOMAIN s : i = Len(s) + 1
OBVIOUS

\* A step of one turn, which may say one thing more.
LEMMA TalkTurnStep ==
    ASSUME Talk!IInv, NEW r \in Turns, NEW w, turn' = [turn EXCEPT ![r] = w],
           tenant' \in [Turns -> {"none"} \union {Caller[q] : q \in Turns}],
           \A c \in Turns : tenant'[c] = tenant[c] \/ tenant'[c] = Caller[c],
           messages' \in Seq(Talk!Message), DOMAIN messages \subseteq DOMAIN messages',
           \A i \in DOMAIN messages : messages'[i] = messages[i],
           \A i, j \in DOMAIN messages' \ DOMAIN messages : i = j,
           \A i \in DOMAIN messages' \ DOMAIN messages :
               /\ tenant'[messages'[i].conv] = Caller[messages'[i].of]
               /\ messages'[i].role = "assistant" =>
                     /\ \E j \in DOMAIN messages :
                           j < i /\ messages[j] = [messages'[i] EXCEPT !.role = "user"]
                     /\ \A j \in DOMAIN messages :
                           ~(/\ Talk!IsReply(j, messages'[i].of)
                             /\ messages[j].conv = messages'[i].conv),
           DOMAIN w = Talk!TurnFields,
           w.at \in {"new", "missed", "replayed", "rejected", "resolved",
                     "loaded", "asking", "streaming", "answered", "stored", "done", "failed"},
           w.at \in Talk!Resolved => w.conv \in Turns /\ tenant'[w.conv] = Caller[r],
           w.context \subseteq DOMAIN messages,
           \A i \in w.context : /\ Caller[messages[i].of] = Caller[r]
                                /\ messages[i].role = "assistant" =>
                                      \/ Cardinality(w.context) = HistoryLimit
                                      \/ \E j \in w.context :
                                            j < i /\ messages[j] = [messages[i] EXCEPT !.role = "user"],
           w.at \in {"asking", "streaming", "answered"} =>
               \E j \in DOMAIN messages' : messages'[j] = [role |-> "user", conv |-> w.conv, of |-> r],
           w.at \in {"stored", "done"} /\ Talk!Keyed(r) =>
               \E i \in DOMAIN messages' : /\ messages'[i].role = "assistant"
                                           /\ Talk!SameRequest(r, messages'[i].of)
                                           /\ messages'[i].conv = w.conv,
           billed' \subseteq billed \union {r}, after' \subseteq after \union {r},
           r \in billed' => w.at \notin {"new", "replayed"},
           r \in after' => w.at = "replayed" /\ Talk!SameRequest(r, w.answer)
    PROVE  Talk!IInv'
<1> USE DEF Talk!IInv
<1>1. turn'[r] = w /\ DOMAIN turn' = Turns /\ \A q \in Turns \ {r} : turn'[q] = turn[q]
  BY DEF Talk!Shape
<1>2. \A c \in Turns : tenant[c] # "none" => tenant'[c] = tenant[c]
  BY DEF Talk!Owners
<1>3. \A i \in DOMAIN messages : messages[i].conv \in Turns /\ messages[i].of \in Turns
  <2>1. messages \in Seq(Talk!Message)
    BY DEF Talk!Shape
  <2>2. \A i \in DOMAIN messages : messages[i] \in Talk!Message
    BY <2>1
  <2> QED BY <2>2 DEF Talk!Message
<1>4. Talk!TypeOK'
  BY <1>1 DEF Talk!TypeOK
<1>5. Talk!Shape'
  <2>1. \A q \in Turns : DOMAIN turn'[q] = Talk!TurnFields /\ turn'[q].context \subseteq DOMAIN messages'
    BY <1>1 DEF Talk!Shape
  <2>2. billed' \subseteq Turns /\ after' \subseteq Turns
    BY DEF Talk!Shape
  <2> QED BY <1>1, <2>1, <2>2 DEF Talk!Shape
<1>6. Talk!Owners'
  <2>1. \A c \in Turns : tenant'[c] = "none" \/ tenant'[c] = Caller[c]
    BY DEF Talk!Owners
  <2>2. ASSUME NEW q \in Turns, turn'[q].at \in Talk!Resolved
        PROVE  turn'[q].conv \in Turns /\ tenant'[turn'[q].conv] = Caller[q]
    <3>1. CASE q = r
      BY <1>1, <2>2, <3>1
    <3>2. CASE q # r
      <4>1. turn'[q] = turn[q] /\ Caller[q] # "none"
        BY <1>1, <3>2, TalkSane DEF Talk!Sane
      <4> QED BY <1>2, <2>2, <4>1 DEF Talk!Owners
    <3> QED BY <3>1, <3>2
  <2>3. ASSUME NEW i \in DOMAIN messages'
        PROVE  tenant'[messages'[i].conv] = Caller[messages'[i].of]
    <3>1. CASE i \in DOMAIN messages
      <4>1. tenant[messages[i].conv] = Caller[messages[i].of] /\ Caller[messages[i].of] # "none"
        BY <1>3, <3>1, TalkSane DEF Talk!Owners, Talk!Sane
      <4> QED BY <1>2, <1>3, <3>1, <4>1
    <3> QED BY <2>3, <3>1
  <2> QED BY <2>1, <2>2, <2>3 DEF Talk!Owners
<1>7. Talk!QuestionFirst'
  <2>1. ASSUME NEW i \in DOMAIN messages', messages'[i].role = "assistant"
        PROVE  \E j \in DOMAIN messages' : j < i /\ messages'[j] = [messages'[i] EXCEPT !.role = "user"]
    <3>1. CASE i \in DOMAIN messages
      <4>1. PICK j \in DOMAIN messages : j < i /\ messages[j] = [messages[i] EXCEPT !.role = "user"]
        BY <2>1, <3>1 DEF Talk!QuestionFirst
      <4> QED BY <3>1, <4>1
    <3>2. CASE i \notin DOMAIN messages
      <4>1. PICK j \in DOMAIN messages : j < i /\ messages[j] = [messages'[i] EXCEPT !.role = "user"]
        BY <2>1, <3>2
      <4> QED BY <4>1
    <3> QED BY <3>1, <3>2
  <2>2. ASSUME NEW q \in Turns, turn'[q].at \in {"asking", "streaming", "answered"}
        PROVE  \E j \in DOMAIN messages' : messages'[j] = [role |-> "user", conv |-> turn'[q].conv, of |-> q]
    <3>1. CASE q = r
      BY <1>1, <2>2, <3>1
    <3>2. CASE q # r
      <4>1. turn'[q] = turn[q]
        BY <1>1, <3>2
      <4>2. PICK j \in DOMAIN messages : messages[j] = [role |-> "user", conv |-> turn[q].conv, of |-> q]
        BY <2>2, <4>1 DEF Talk!QuestionFirst
      <4> QED BY <4>1, <4>2
    <3> QED BY <3>1, <3>2
  <2> QED BY <2>1, <2>2 DEF Talk!QuestionFirst
<1>8. Talk!StoredTurns'
  <2> SUFFICES ASSUME NEW q \in Turns, turn'[q].at \in {"stored", "done"}, Talk!Keyed(q)
               PROVE  \E i \in DOMAIN messages' : /\ messages'[i].role = "assistant"
                                                  /\ Talk!SameRequest(q, messages'[i].of)
                                                  /\ messages'[i].conv = turn'[q].conv
    BY DEF Talk!StoredTurns, Talk!IsReply, Talk!SameRequest, Talk!Keyed
  <2>1. CASE q = r
    BY <1>1, <2>1
  <2>2. CASE q # r
    <3>1. turn'[q] = turn[q]
      BY <1>1, <2>2
    <3>2. PICK i \in DOMAIN messages : Talk!IsReply(i, q) /\ messages[i].conv = turn[q].conv
      BY <3>1 DEF Talk!StoredTurns
    <3> QED BY <3>1, <3>2 DEF Talk!IsReply
  <2> QED BY <2>1, <2>2
<1>9. Talk!BilledTurns'
  BY <1>1 DEF Talk!BilledTurns, Talk!Shape
<1>10. Talk!RetriesAreFree'
  <2> SUFFICES ASSUME NEW q \in after'
               PROVE  turn'[q].at = "replayed" /\ q \notin billed' /\ Talk!SameRequest(q, turn'[q].answer)
    BY DEF Talk!RetriesAreFree, Talk!SameRequest, Talk!Keyed
  <2>1. q \in Turns
    BY DEF Talk!Shape
  <2>2. CASE q = r
    BY <1>1, <2>2
  <2>3. CASE q # r
    <3>1. turn'[q] = turn[q] /\ q \in after
      BY <1>1, <2>1, <2>3
    <3>2. turn[q].at = "replayed" /\ q \notin billed /\ Talk!SameRequest(q, turn[q].answer)
      BY <3>1 DEF Talk!RetriesAreFree
    <3> QED BY <2>3, <3>1, <3>2
  <2> QED BY <2>2, <2>3
<1>11. Talk!ContextIsOwn'
  <2> SUFFICES ASSUME NEW q \in Turns, NEW i \in turn'[q].context
               PROVE  /\ Caller[messages'[i].of] = Caller[q]
                      /\ messages'[i].role = "assistant" =>
                            \/ Cardinality(turn'[q].context) = HistoryLimit
                            \/ \E j \in turn'[q].context :
                                  j < i /\ messages'[j] = [messages'[i] EXCEPT !.role = "user"]
    BY TalkFinite DEF Talk!ContextIsOwn
  <2>1. turn'[q].context \subseteq DOMAIN messages
    BY <1>1 DEF Talk!Shape
  <2>2. messages'[i] = messages[i] /\ \A j \in turn'[q].context : messages'[j] = messages[j]
    BY <2>1
  <2>3. CASE q = r
    BY <1>1, <2>2, <2>3
  <2>4. CASE q # r
    <3>1. turn'[q] = turn[q]
      BY <1>1, <2>4
    <3>2. /\ Caller[messages[i].of] = Caller[q]
          /\ messages[i].role = "assistant" =>
                \/ Cardinality(turn[q].context) = HistoryLimit
                \/ \E j \in turn[q].context :
                      j < i /\ messages[j] = [messages[i] EXCEPT !.role = "user"]
      BY <3>1, TalkFinite DEF Talk!ContextIsOwn
    <3> HIDE DEF Talk!IInv
    <3> QED BY <2>2, <3>1, <3>2
  <2> QED BY <2>3, <2>4
<1>12. Talk!OneReply'
  <2>1. \A i \in DOMAIN messages', j \in DOMAIN messages' \ DOMAIN messages :
            /\ messages'[i].role = "assistant" /\ messages'[j].role = "assistant"
            /\ messages'[i].conv = messages'[j].conv
            /\ Talk!SameRequest(messages'[i].of, messages'[j].of) \/ Talk!SameRequest(messages'[j].of, messages'[i].of)
            => i = j
    <3> SUFFICES ASSUME NEW i \in DOMAIN messages', NEW j \in DOMAIN messages' \ DOMAIN messages,
                        messages'[i].role = "assistant", messages'[j].role = "assistant",
                        messages'[i].conv = messages'[j].conv,
                        Talk!SameRequest(messages'[i].of, messages'[j].of) \/ Talk!SameRequest(messages'[j].of, messages'[i].of)
                 PROVE  i = j
      OBVIOUS
    <3>1. Talk!SameRequest(messages'[j].of, messages'[i].of)
      BY DEF Talk!SameRequest, Talk!Keyed
    <3>2. CASE i \in DOMAIN messages
      BY <3>1, <3>2 DEF Talk!IsReply
    <3> QED BY <3>2
  <2>2. \A i, j \in DOMAIN messages :
            /\ messages'[i].role = "assistant" /\ messages'[j].role = "assistant"
            /\ messages'[i].conv = messages'[j].conv /\ Talk!SameRequest(messages'[i].of, messages'[j].of)
            => i = j
    BY DEF Talk!OneReply
  <2> SUFFICES ASSUME NEW i \in DOMAIN messages', NEW j \in DOMAIN messages',
                      messages'[i].role = "assistant", messages'[j].role = "assistant",
                      messages'[i].conv = messages'[j].conv,
                      Talk!SameRequest(messages'[i].of, messages'[j].of)
               PROVE  i = j
    BY DEF Talk!OneReply, Talk!SameRequest, Talk!Keyed
  <2> QED BY <2>1, <2>2
<1> QED BY <1>4, <1>5, <1>6, <1>7, <1>8, <1>9, <1>10, <1>11, <1>12

LEMMA TalkTurnFacts ==
    ASSUME Talk!IInv, NEW r \in Turns
    PROVE  /\ DOMAIN turn[r] = Talk!TurnFields /\ turn[r].context \subseteq DOMAIN messages
           /\ tenant \in [Turns -> {"none"} \union {Caller[q] : q \in Turns}]
           /\ messages \in Seq(Talk!Message) /\ billed \subseteq billed \union {r}
           /\ turn[r].at \in Talk!Resolved => turn[r].conv \in Turns /\ tenant[turn[r].conv] = Caller[r]
           /\ turn[r].at # "replayed" => r \notin after
           /\ r \in billed => turn[r].at \notin {"new", "replayed"}
           /\ \A i \in turn[r].context :
                 /\ Caller[messages[i].of] = Caller[r]
                 /\ messages[i].role = "assistant" =>
                       \/ Cardinality(turn[r].context) = HistoryLimit
                       \/ \E j \in turn[r].context :
                             j < i /\ messages[j] = [messages[i] EXCEPT !.role = "user"]
           /\ turn[r].at \in {"asking", "streaming", "answered"} =>
                 \E j \in DOMAIN messages :
                     messages[j] = [role |-> "user", conv |-> turn[r].conv, of |-> r]
BY TalkFinite DEF Talk!IInv, Talk!TypeOK, Talk!Shape, Talk!Owners, Talk!RetriesAreFree,
     Talk!BilledTurns,
     Talk!ContextIsOwn, Talk!QuestionFirst

\* A step that says nothing.
LEMMA TalkSilentStep ==
    ASSUME Talk!IInv, NEW r \in Turns, NEW w, turn' = [turn EXCEPT ![r] = w],
           UNCHANGED messages,
           tenant' \in [Turns -> {"none"} \union {Caller[q] : q \in Turns}],
           \A c \in Turns : tenant'[c] = tenant[c] \/ tenant'[c] = Caller[c],
           DOMAIN w = Talk!TurnFields,
           w.at \in {"new", "missed", "replayed", "rejected", "resolved",
                     "loaded", "asking", "streaming", "answered", "stored", "done", "failed"},
           w.at \in Talk!Resolved => w.conv \in Turns /\ tenant'[w.conv] = Caller[r],
           w.context \subseteq DOMAIN messages,
           \A i \in w.context : /\ Caller[messages[i].of] = Caller[r]
                                /\ messages[i].role = "assistant" =>
                                      \/ Cardinality(w.context) = HistoryLimit
                                      \/ \E j \in w.context :
                                            j < i /\ messages[j] = [messages[i] EXCEPT !.role = "user"],
           w.at \in {"asking", "streaming", "answered"} =>
               \E j \in DOMAIN messages : messages[j] = [role |-> "user", conv |-> w.conv, of |-> r],
           w.at \in {"stored", "done"} /\ Talk!Keyed(r) =>
               \E i \in DOMAIN messages : Talk!IsReply(i, r) /\ messages[i].conv = w.conv,
           billed' \subseteq billed \union {r}, after' \subseteq after \union {r},
           r \in billed' => w.at \notin {"new", "replayed"},
           r \in after' => w.at = "replayed" /\ Talk!SameRequest(r, w.answer)
    PROVE  Talk!IInv'
<1>1. messages' \in Seq(Talk!Message) /\ DOMAIN messages' = DOMAIN messages
  BY DEF Talk!IInv, Talk!Shape
<1>2. w.at \in {"stored", "done"} /\ Talk!Keyed(r) =>
         \E i \in DOMAIN messages' : /\ messages'[i].role = "assistant"
                                     /\ Talk!SameRequest(r, messages'[i].of) /\ messages'[i].conv = w.conv
  BY DEF Talk!IsReply
<1>3. w.at \in {"asking", "streaming", "answered"} =>
         \E j \in DOMAIN messages' : messages'[j] = [role |-> "user", conv |-> w.conv, of |-> r]
  OBVIOUS
<1>4. DOMAIN messages' \ DOMAIN messages = {} /\ \A i \in DOMAIN messages : messages'[i] = messages[i]
  BY <1>1
<1> QED BY <1>1, <1>2, <1>3, <1>4, TalkTurnStep

\* A step that only goes on.
LEMMA TalkPlainStep ==
    ASSUME Talk!IInv, NEW r \in Turns, NEW at, turn' = [turn EXCEPT ![r].at = at],
           UNCHANGED <<tenant, messages, after>>,
           turn[r].at # "replayed", at \notin {"new", "replayed"},
           at \in {"missed", "rejected", "resolved",
                   "loaded", "asking", "streaming", "answered", "stored", "done", "failed"},
           at \in Talk!Resolved => turn[r].at \in Talk!Resolved,
           at \in {"asking", "streaming", "answered"} => turn[r].at \in {"asking", "streaming", "answered"},
           at \in {"stored", "done"} => turn[r].at \in {"stored", "done"},
           billed' \subseteq billed \union {r}
    PROVE  Talk!IInv'
<1> DEFINE w == [turn[r] EXCEPT !.at = at]
<1>1. turn' = [turn EXCEPT ![r] = w] /\ DOMAIN turn[r] = Talk!TurnFields
  BY DEF Talk!IInv, Talk!Shape
<1>2. /\ DOMAIN w = Talk!TurnFields /\ w.at = at /\ w.conv = turn[r].conv /\ w.context = turn[r].context
  BY <1>1 DEF Talk!TurnFields
<1> HIDE DEF w
<1>3. w.at \in {"stored", "done"} /\ Talk!Keyed(r) =>
         \E i \in DOMAIN messages : Talk!IsReply(i, r) /\ messages[i].conv = w.conv
  BY <1>2 DEF Talk!IInv, Talk!StoredTurns
<1>4. /\ tenant' \in [Turns -> {"none"} \union {Caller[q] : q \in Turns}]
      /\ \A c \in Turns : tenant'[c] = tenant[c] \/ tenant'[c] = Caller[c]
      /\ w.at \in Talk!Resolved => w.conv \in Turns /\ tenant'[w.conv] = Caller[r]
      /\ r \notin after /\ w.at \notin {"new", "replayed"}
  BY <1>2, TalkTurnFacts
<1>5. w.at \in {"asking", "streaming", "answered"} =>
         \E j \in DOMAIN messages : messages[j] = [role |-> "user", conv |-> w.conv, of |-> r]
  BY <1>2, TalkTurnFacts
<1>6. /\ w.context \subseteq DOMAIN messages
      /\ \A i \in w.context : /\ Caller[messages[i].of] = Caller[r]
                              /\ messages[i].role = "assistant" =>
                                    \/ Cardinality(w.context) = HistoryLimit
                                    \/ \E j \in w.context :
                                          j < i /\ messages[j] = [messages[i] EXCEPT !.role = "user"]
  BY <1>2, TalkTurnFacts
<1>7. w.at \in {"new", "missed", "replayed", "rejected", "resolved",
                "loaded", "asking", "streaming", "answered", "stored", "done", "failed"}
  BY <1>2
<1> QED BY <1>1, <1>2, <1>3, <1>4, <1>5, <1>6, <1>7, TalkSilentStep

LEMMA TalkStepHolds == ASSUME Talk!IInv, [Talk!Next]_(Talk!vars) PROVE Talk!IInv'
<1> USE DEF Talk!IInv
<1>1. ASSUME NEW r \in Turns, Talk!Lookup(r) PROVE Talk!IInv'
  <2>1. /\ turn[r].at = "new" /\ UNCHANGED <<tenant, messages, billed>>
        /\ after' = IF \E q \in Turns : Talk!SameRequest(r, q) /\ turn[q].at = "done"
                    THEN after \union {r} ELSE after
    BY <1>1 DEF Talk!Lookup
  <2>2. r \notin billed /\ r \notin after
    BY <2>1, TalkTurnFacts
  <2>3. after' # after => Talk!Keyed(r) /\ Talk!Stored(r) # {}
    <3> SUFFICES ASSUME NEW q \in Turns, Talk!SameRequest(r, q), turn[q].at = "done"
                 PROVE  Talk!Keyed(r) /\ Talk!Stored(r) # {}
      BY <2>1
    <3>1. Talk!Keyed(q)
      BY DEF Talk!SameRequest, Talk!Keyed
    <3>2. PICK i \in DOMAIN messages : Talk!IsReply(i, q) /\ messages[i].conv = turn[q].conv
      BY <3>1 DEF Talk!StoredTurns
    <3>3. turn[q].conv \in Turns /\ tenant[turn[q].conv] = Caller[q]
      BY DEF Talk!Owners, Talk!Resolved
    <3>4. Talk!IsReply(i, r) /\ tenant[messages[i].conv] = Caller[r]
      BY <3>2, <3>3 DEF Talk!IsReply, Talk!SameRequest, Talk!Keyed
    <3>5. i \in Talk!Stored(r)
      BY <3>4 DEF Talk!Stored
    <3> QED BY <3>5 DEF Talk!SameRequest
  <2>4. ASSUME NEW i \in Talk!Stored(r), turn' = [turn EXCEPT ![r].at = "replayed", ![r].answer = messages[i].of]
        PROVE  Talk!IInv'
    <3> DEFINE w == [turn[r] EXCEPT !.at = "replayed", !.answer = messages[i].of]
    <3>1. turn' = [turn EXCEPT ![r] = w] /\ DOMAIN turn[r] = Talk!TurnFields
      BY <2>4 DEF Talk!Shape
    <3>2. /\ DOMAIN w = Talk!TurnFields /\ w.at = "replayed" /\ w.conv = turn[r].conv
          /\ w.context = turn[r].context /\ w.answer = messages[i].of
      BY <3>1 DEF Talk!TurnFields
    <3> HIDE DEF w
    <3>3. Talk!SameRequest(r, w.answer)
      BY <3>2 DEF Talk!Stored, Talk!IsReply
    <3>4. w.at \notin Talk!Resolved /\ w.at \notin {"asking", "streaming", "answered"} /\ w.at \notin {"stored", "done"}
          /\ w.at \in {"new", "missed", "replayed", "rejected", "resolved",
                "loaded", "asking", "streaming", "answered", "stored", "done", "failed"}
      BY <3>2 DEF Talk!Resolved
    <3>5. /\ w.context \subseteq DOMAIN messages
          /\ \A k \in w.context : /\ Caller[messages[k].of] = Caller[r]
                                  /\ messages[k].role = "assistant" =>
                                        \/ Cardinality(w.context) = HistoryLimit
                                        \/ \E j \in w.context :
                                              j < k /\ messages[j] = [messages[k] EXCEPT !.role = "user"]
      BY <3>2, TalkTurnFacts
    <3>6. /\ tenant' \in [Turns -> {"none"} \union {Caller[q] : q \in Turns}]
          /\ \A c \in Turns : tenant'[c] = tenant[c] \/ tenant'[c] = Caller[c]
          /\ billed' \subseteq billed \union {r} /\ after' \subseteq after \union {r} /\ r \notin billed'
          /\ UNCHANGED messages
      BY <2>1, <2>2, TalkTurnFacts
    <3> QED BY <3>1, <3>2, <3>3, <3>4, <3>5, <3>6, TalkSilentStep
  <2>5. ASSUME ~(Talk!Keyed(r) /\ Talk!Stored(r) # {}), turn' = [turn EXCEPT ![r].at = "missed"] PROVE Talk!IInv'
    <3>1. UNCHANGED <<tenant, messages, after>> /\ turn[r].at # "replayed" /\ billed' \subseteq billed \union {r}
      BY <2>1, <2>3, <2>5
    <3> QED BY <2>5, <3>1, TalkPlainStep DEF Talk!Resolved
  <2> QED BY <1>1, <2>4, <2>5 DEF Talk!Lookup, Talk!Go
<1>2. ASSUME NEW r \in Turns, Talk!Resolve(r) PROVE Talk!IInv'
  <2>1. turn[r].at = "missed" /\ UNCHANGED <<messages, billed, after>>
    BY <1>2 DEF Talk!Resolve
  <2>2. ASSUME NEW c \in Turns, tenant'[c] = Caller[r],
               turn' = [turn EXCEPT ![r].at = "resolved", ![r].conv = c],
               tenant' \in [Turns -> {"none"} \union {Caller[q] : q \in Turns}],
               \A d \in Turns : tenant'[d] = tenant[d] \/ tenant'[d] = Caller[d]
        PROVE  Talk!IInv'
    <3> DEFINE w == [turn[r] EXCEPT !.at = "resolved", !.conv = c]
    <3>1. turn' = [turn EXCEPT ![r] = w] /\ DOMAIN turn[r] = Talk!TurnFields
      BY <2>2 DEF Talk!Shape
    <3>2. /\ DOMAIN w = Talk!TurnFields /\ w.at = "resolved" /\ w.conv = c /\ w.context = turn[r].context
      BY <3>1 DEF Talk!TurnFields
    <3> HIDE DEF w
    <3>3. w.at \notin {"asking", "streaming", "answered"} /\ w.at \notin {"stored", "done"}
          /\ w.at \in {"new", "missed", "replayed", "rejected", "resolved",
                "loaded", "asking", "streaming", "answered", "stored", "done", "failed"}
          /\ w.at \notin {"new", "replayed"}
      BY <3>2
    <3>4. /\ w.context \subseteq DOMAIN messages
          /\ \A k \in w.context : /\ Caller[messages[k].of] = Caller[r]
                                  /\ messages[k].role = "assistant" =>
                                        \/ Cardinality(w.context) = HistoryLimit
                                        \/ \E j \in w.context :
                                              j < k /\ messages[j] = [messages[k] EXCEPT !.role = "user"]
      BY <3>2, TalkTurnFacts
    <3>5. /\ billed' \subseteq billed \union {r} /\ after' \subseteq after \union {r} /\ r \notin after'
          /\ UNCHANGED messages
      BY <2>1, TalkTurnFacts
    <3> QED BY <2>2, <3>1, <3>2, <3>3, <3>4, <3>5, TalkSilentStep
  <2>3. CASE /\ tenant' = [tenant EXCEPT ![r] = Caller[r]]
             /\ turn' = [turn EXCEPT ![r].at = "resolved", ![r].conv = r]
    <3>1. /\ tenant' \in [Turns -> {"none"} \union {Caller[q] : q \in Turns}] /\ tenant'[r] = Caller[r]
          /\ \A d \in Turns : tenant'[d] = tenant[d] \/ tenant'[d] = Caller[d]
      BY <2>3 DEF Talk!TypeOK
    <3> QED BY <2>2, <2>3, <3>1
  <2>4. ASSUME NEW c \in Turns, UNCHANGED tenant,
               turn' = IF Talk!IsOwn(c, r)
                       THEN [turn EXCEPT ![r].at = "resolved", ![r].conv = c]
                       ELSE [turn EXCEPT ![r].at = "rejected"]
        PROVE  Talk!IInv'
    <3>1. CASE Talk!IsOwn(c, r)
      <4>1. /\ tenant' \in [Turns -> {"none"} \union {Caller[q] : q \in Turns}] /\ tenant'[c] = Caller[r]
            /\ \A d \in Turns : tenant'[d] = tenant[d] \/ tenant'[d] = Caller[d]
        BY <2>4, <3>1 DEF Talk!TypeOK, Talk!IsOwn
      <4> QED BY <2>2, <2>4, <3>1, <4>1
    <3>2. CASE ~Talk!IsOwn(c, r)
      <4>1. /\ turn' = [turn EXCEPT ![r].at = "rejected"] /\ UNCHANGED <<tenant, messages, after>>
            /\ turn[r].at # "replayed" /\ billed' \subseteq billed \union {r}
        BY <2>1, <2>4, <3>2
      <4> QED BY <4>1, TalkPlainStep DEF Talk!Resolved
    <3> QED BY <3>1, <3>2
  <2> QED BY <1>2, <2>3, <2>4 DEF Talk!Resolve
<1>3. ASSUME NEW r \in Turns, Talk!LoadHistory(r) PROVE Talk!IInv'
  <2>1. turn[r].at = "resolved" /\ UNCHANGED <<tenant, messages, billed, after>>
    BY <1>3 DEF Talk!LoadHistory
  <2>2. ASSUME NEW page \in SUBSET Talk!Said(turn[r].conv), Talk!IsHistory(page, turn[r].conv),
               turn' = [turn EXCEPT ![r].at = "loaded", ![r].context = page]
        PROVE  Talk!IInv'
    <3> DEFINE w == [turn[r] EXCEPT !.at = "loaded", !.context = page]
    <3>1. turn' = [turn EXCEPT ![r] = w] /\ DOMAIN turn[r] = Talk!TurnFields
      BY <2>2 DEF Talk!Shape
    <3>2. /\ DOMAIN w = Talk!TurnFields /\ w.at = "loaded" /\ w.conv = turn[r].conv /\ w.context = page
      BY <3>1 DEF Talk!TurnFields
    <3> HIDE DEF w
    <3>3. w.at \notin {"asking", "streaming", "answered"} /\ w.at \notin {"stored", "done"}
          /\ w.at \in {"new", "missed", "replayed", "rejected", "resolved",
                "loaded", "asking", "streaming", "answered", "stored", "done", "failed"}
          /\ w.at \notin {"new", "replayed"}
      BY <3>2
    <3>4. turn[r].conv \in Turns /\ tenant[turn[r].conv] = Caller[r]
      BY <2>1, TalkTurnFacts DEF Talk!Resolved
    <3>5. ASSUME NEW k \in page
          PROVE  /\ k \in DOMAIN messages /\ Caller[messages[k].of] = Caller[r]
                 /\ messages[k].role = "assistant" =>
                       \/ Cardinality(page) = HistoryLimit
                       \/ \E j \in page : j < k /\ messages[j] = [messages[k] EXCEPT !.role = "user"]
      <4>1. k \in DOMAIN messages /\ messages[k].conv = turn[r].conv /\ messages[k] \in Talk!Message
        BY <2>2 DEF Talk!Said, Talk!Shape
      <4>2. Caller[messages[k].of] = Caller[r]
        BY <3>4, <4>1 DEF Talk!Owners
      <4>3. ASSUME messages[k].role = "assistant", Cardinality(page) # HistoryLimit
            PROVE  \E j \in page : j < k /\ messages[j] = [messages[k] EXCEPT !.role = "user"]
        <5>1. PICK j \in DOMAIN messages : j < k /\ messages[j] = [messages[k] EXCEPT !.role = "user"]
          BY <4>1, <4>3 DEF Talk!QuestionFirst
        <5>2. messages[j].conv = messages[k].conv
          BY <4>1, <5>1 DEF Talk!Message
        <5>3. page = Talk!Said(turn[r].conv)
          <6> DEFINE c == Cardinality(page)
          <6>1. c <= HistoryLimit /\ c # HistoryLimit /\ (c < HistoryLimit => page = Talk!Said(turn[r].conv))
            BY <2>2, <4>3, TalkFinite DEF Talk!IsHistory
          <6>2. IsFiniteSet(page) => c \in Nat
            BY FS_CardinalityType
          <6>3. IsFiniteSet(page)
            <7>1. DOMAIN messages = 1..Len(messages) /\ Len(messages) \in Nat
              BY DEF Talk!Shape
            <7>2. IsFiniteSet(1..Len(messages))
              BY <7>1, FS_Interval
            <7> QED BY <2>2, <7>1, <7>2, FS_Subset DEF Talk!Said
          <6> HIDE DEF c
          <6> QED BY <6>1, <6>2, <6>3, TalkSane DEF Talk!Sane
        <5>4. j \in page
          BY <4>1, <5>2, <5>3 DEF Talk!Said
        <5> QED BY <5>1, <5>4
      <4> QED BY <4>1, <4>2, <4>3
    <3>6. /\ billed' \subseteq billed \union {r} /\ after' \subseteq after \union {r} /\ r \notin after'
          /\ UNCHANGED messages
          /\ tenant' \in [Turns -> {"none"} \union {Caller[q] : q \in Turns}]
          /\ \A c \in Turns : tenant'[c] = tenant[c] \/ tenant'[c] = Caller[c]
      BY <2>1, TalkTurnFacts
    <3>7. w.conv \in Turns /\ tenant'[w.conv] = Caller[r]
      BY <2>1, <3>2, <3>4
    <3>8. /\ w.context \subseteq DOMAIN messages
          /\ \A k \in w.context : /\ Caller[messages[k].of] = Caller[r]
                                  /\ messages[k].role = "assistant" =>
                                        \/ Cardinality(w.context) = HistoryLimit
                                        \/ \E j \in w.context :
                                              j < k /\ messages[j] = [messages[k] EXCEPT !.role = "user"]
      BY <3>2, <3>5
    <3> QED BY <3>1, <3>2, <3>3, <3>6, <3>7, <3>8, TalkSilentStep
  <2>3. CASE Talk!Go(r, "rejected")
    <3>1. /\ turn' = [turn EXCEPT ![r].at = "rejected"] /\ UNCHANGED <<tenant, messages, after>>
          /\ turn[r].at # "replayed" /\ billed' \subseteq billed \union {r}
      BY <2>1, <2>3 DEF Talk!Go
    <3> QED BY <3>1, TalkPlainStep DEF Talk!Resolved
  <2> QED BY <1>3, <2>2, <2>3 DEF Talk!LoadHistory
<1>4. ASSUME NEW r \in Turns, NEW m \in Talk!Message, NEW at, messages' = Append(messages, m),
             turn' = [turn EXCEPT ![r].at = at], UNCHANGED <<tenant, billed, after>>,
             turn[r].at \in Talk!Resolved, at \in {"asking", "stored"},
             m.conv = turn[r].conv, m.of = r,
             IF at = "asking" THEN m = [role |-> "user", conv |-> turn[r].conv, of |-> r]
             ELSE m.role = "assistant" /\ ~Talk!Conflicts(r) /\ turn[r].at = "answered"
      PROVE  Talk!IInv'
  <2> DEFINE w == [turn[r] EXCEPT !.at = at]
             n == Len(messages) + 1
  <2>1. turn' = [turn EXCEPT ![r] = w] /\ DOMAIN turn[r] = Talk!TurnFields
    BY <1>4 DEF Talk!Shape
  <2>2. /\ DOMAIN w = Talk!TurnFields /\ w.at = at /\ w.conv = turn[r].conv /\ w.context = turn[r].context
    BY <2>1 DEF Talk!TurnFields
  <2> HIDE DEF w
  <2>3. /\ messages' \in Seq(Talk!Message) /\ n \in DOMAIN messages' /\ messages'[n] = m
        /\ DOMAIN messages \subseteq DOMAIN messages'
        /\ \A i \in DOMAIN messages : messages'[i] = messages[i] /\ i < n
        /\ \A i \in DOMAIN messages' \ DOMAIN messages : i = n
    <3>1. messages \in Seq(Talk!Message)
      BY DEF Talk!Shape
    <3> HIDE DEF Talk!IInv
    <3> QED BY <1>4, <3>1, TalkAppended
  <2> HIDE DEF n
  <2>4. turn[r].conv \in Turns /\ tenant'[turn[r].conv] = Caller[r]
    BY <1>4, TalkTurnFacts
  <2>5. m.role = "assistant" =>
            /\ \E j \in DOMAIN messages : j < n /\ messages[j] = [m EXCEPT !.role = "user"]
            /\ \A j \in DOMAIN messages : ~(Talk!IsReply(j, m.of) /\ messages[j].conv = m.conv)
    <3> SUFFICES ASSUME m.role = "assistant"
                 PROVE  /\ \E j \in DOMAIN messages : j < n /\ messages[j] = [m EXCEPT !.role = "user"]
                        /\ \A j \in DOMAIN messages : ~(Talk!IsReply(j, m.of) /\ messages[j].conv = m.conv)
      OBVIOUS
    <3>1. at = "stored" /\ turn[r].at = "answered" /\ ~Talk!Conflicts(r)
      BY <1>4
    <3>2. PICK j \in DOMAIN messages : messages[j] = [role |-> "user", conv |-> turn[r].conv, of |-> r]
      BY <3>1 DEF Talk!QuestionFirst
    <3>3. [m EXCEPT !.role = "user"] = [role |-> "user", conv |-> turn[r].conv, of |-> r]
      BY <1>4 DEF Talk!Message
    <3> QED BY <1>4, <2>3, <3>1, <3>2, <3>3 DEF Talk!Conflicts
  <2>6. \A i \in DOMAIN messages' \ DOMAIN messages :
            /\ tenant'[messages'[i].conv] = Caller[messages'[i].of]
            /\ messages'[i].role = "assistant" =>
                  /\ \E j \in DOMAIN messages :
                        j < i /\ messages[j] = [messages'[i] EXCEPT !.role = "user"]
                  /\ \A j \in DOMAIN messages :
                        ~(Talk!IsReply(j, messages'[i].of) /\ messages[j].conv = messages'[i].conv)
    BY <1>4, <2>3, <2>4, <2>5
  <2>7. /\ w.context \subseteq DOMAIN messages
        /\ \A k \in w.context : /\ Caller[messages[k].of] = Caller[r]
                                /\ messages[k].role = "assistant" =>
                                      \/ Cardinality(w.context) = HistoryLimit
                                      \/ \E j \in w.context :
                                            j < k /\ messages[j] = [messages[k] EXCEPT !.role = "user"]
    BY <2>2, TalkTurnFacts
  <2>8. w.at \in {"asking", "streaming", "answered"} =>
            \E j \in DOMAIN messages' : messages'[j] = [role |-> "user", conv |-> w.conv, of |-> r]
    <3> SUFFICES ASSUME at = "asking"
                 PROVE  \E j \in DOMAIN messages' : messages'[j] = [role |-> "user", conv |-> w.conv, of |-> r]
      BY <1>4, <2>2
    <3>1. messages'[n] = [role |-> "user", conv |-> w.conv, of |-> r]
      BY <1>4, <2>2, <2>3
    <3> QED BY <2>3, <3>1
  <2>9. w.at \in {"stored", "done"} /\ Talk!Keyed(r) =>
            \E i \in DOMAIN messages' : /\ messages'[i].role = "assistant"
                                        /\ Talk!SameRequest(r, messages'[i].of) /\ messages'[i].conv = w.conv
    <3> SUFFICES ASSUME at = "stored", Talk!Keyed(r)
                 PROVE  \E i \in DOMAIN messages' : /\ messages'[i].role = "assistant"
                                        /\ Talk!SameRequest(r, messages'[i].of) /\ messages'[i].conv = w.conv
      BY <1>4, <2>2
    <3>1. messages'[n].role = "assistant" /\ messages'[n].of = r /\ messages'[n].conv = w.conv
      BY <1>4, <2>2, <2>3
    <3>2. Talk!SameRequest(r, r)
      BY DEF Talk!SameRequest
    <3> QED BY <2>3, <3>1, <3>2
  <2>10. /\ billed' \subseteq billed \union {r} /\ after' \subseteq after \union {r} /\ r \notin after'
         /\ tenant' \in [Turns -> {"none"} \union {Caller[q] : q \in Turns}]
         /\ \A c \in Turns : tenant'[c] = tenant[c] \/ tenant'[c] = Caller[c]
    BY <1>4, TalkTurnFacts DEF Talk!Resolved
  <2>11. /\ w.conv \in Turns /\ tenant'[w.conv] = Caller[r] /\ w.at \notin {"new", "replayed"}
         /\ w.at \in {"new", "missed", "replayed", "rejected", "resolved",
                "loaded", "asking", "streaming", "answered", "stored", "done", "failed"}
    BY <1>4, <2>2, <2>4
  <2>12. \A i, j \in DOMAIN messages' \ DOMAIN messages : i = j
    BY <2>3
  <2>13. /\ messages' \in Seq(Talk!Message) /\ DOMAIN messages \subseteq DOMAIN messages'
         /\ \A i \in DOMAIN messages : messages'[i] = messages[i]
         /\ turn' = [turn EXCEPT ![r] = w] /\ DOMAIN w = Talk!TurnFields
    BY <2>1, <2>2, <2>3
  <2> HIDE DEF Talk!IInv
  <2> QED BY <2>6, <2>7, <2>8, <2>9, <2>10, <2>11, <2>12, <2>13, TalkTurnStep
<1>5. ASSUME NEW r \in Turns, Talk!InsertUser(r) PROVE Talk!IInv'
  <2> DEFINE m == [role |-> "user", conv |-> turn[r].conv, of |-> r]
  <2>1. /\ turn[r].at = "loaded" /\ messages' = Append(messages, m)
        /\ turn' = [turn EXCEPT ![r].at = "asking"] /\ UNCHANGED <<tenant, billed, after>>
    BY <1>5 DEF Talk!InsertUser, Talk!Go
  <2>2. turn[r].at \in Talk!Resolved /\ turn[r].conv \in Turns
    BY <2>1, TalkTurnFacts DEF Talk!Resolved
  <2>3. m \in Talk!Message /\ m.conv = turn[r].conv /\ m.of = r
    BY <2>2 DEF Talk!Message
  <2>4. m = [role |-> "user", conv |-> turn[r].conv, of |-> r]
    OBVIOUS
  <2> HIDE DEF m
  <2> QED BY <1>4, <2>1, <2>2, <2>3, <2>4
<1>6. ASSUME NEW r \in Turns, Talk!Ask(r) PROVE Talk!IInv'
  <2>1. /\ turn' = [turn EXCEPT ![r].at = "streaming"] /\ UNCHANGED <<tenant, messages, after>>
        /\ turn[r].at = "asking" /\ billed' \subseteq billed \union {r}
    BY <1>6 DEF Talk!Ask, Talk!Go
  <2> QED BY <2>1, TalkPlainStep DEF Talk!Resolved
<1>7. ASSUME NEW r \in Turns, Talk!Answered(r) PROVE Talk!IInv'
  <2> DEFINE w == [turn[r] EXCEPT !.at = "answered", !.answer = r]
  <2>1. /\ turn' = [turn EXCEPT ![r] = w] /\ DOMAIN turn[r] = Talk!TurnFields /\ turn[r].at = "streaming"
        /\ UNCHANGED <<tenant, messages, billed, after>>
    BY <1>7 DEF Talk!Answered, Talk!Shape
  <2>2. /\ DOMAIN w = Talk!TurnFields /\ w.at = "answered" /\ w.conv = turn[r].conv /\ w.context = turn[r].context
    BY <2>1 DEF Talk!TurnFields
  <2> HIDE DEF w
  <2>3. w.at \notin {"stored", "done"}
        /\ w.at \in {"new", "missed", "replayed", "rejected", "resolved",
                "loaded", "asking", "streaming", "answered", "stored", "done", "failed"}
        /\ w.at \notin {"new", "replayed"}
    BY <2>2
  <2>4. /\ billed' \subseteq billed \union {r} /\ after' \subseteq after \union {r} /\ r \notin after'
        /\ UNCHANGED messages
        /\ tenant' \in [Turns -> {"none"} \union {Caller[q] : q \in Turns}]
        /\ \A c \in Turns : tenant'[c] = tenant[c] \/ tenant'[c] = Caller[c]
    BY <2>1, TalkTurnFacts
  <2>5. w.conv \in Turns /\ tenant'[w.conv] = Caller[r]
    BY <2>1, <2>2, TalkTurnFacts DEF Talk!Resolved
  <2>6. /\ w.context \subseteq DOMAIN messages
        /\ \A k \in w.context : /\ Caller[messages[k].of] = Caller[r]
                                /\ messages[k].role = "assistant" =>
                                      \/ Cardinality(w.context) = HistoryLimit
                                      \/ \E j \in w.context :
                                            j < k /\ messages[j] = [messages[k] EXCEPT !.role = "user"]
    BY <2>2, TalkTurnFacts
  <2>7. \E j \in DOMAIN messages : messages[j] = [role |-> "user", conv |-> w.conv, of |-> r]
    BY <2>1, <2>2, TalkTurnFacts
  <2> QED BY <2>1, <2>2, <2>3, <2>4, <2>5, <2>6, <2>7, TalkSilentStep
<1>8. ASSUME NEW r \in Turns, Talk!InsertReply(r) PROVE Talk!IInv'
  <2> DEFINE m == [role |-> "assistant", conv |-> turn[r].conv, of |-> r]
  <2>1. /\ turn[r].at = "answered" /\ messages' = IF Talk!Conflicts(r) THEN messages ELSE Append(messages, m)
        /\ turn' = [turn EXCEPT ![r].at = "stored"] /\ UNCHANGED <<tenant, billed, after>>
    BY <1>8 DEF Talk!InsertReply, Talk!Go
  <2>2. turn[r].at \in Talk!Resolved /\ turn[r].conv \in Turns
    BY <2>1, TalkTurnFacts DEF Talk!Resolved
  <2>3. CASE ~Talk!Conflicts(r)
    <3>1. m \in Talk!Message /\ m.conv = turn[r].conv /\ m.of = r /\ m.role = "assistant"
      BY <2>2 DEF Talk!Message
    <3>2. messages' = Append(messages, m)
      BY <2>1, <2>3
    <3> HIDE DEF m
    <3> QED BY <1>4, <2>1, <2>2, <2>3, <3>1, <3>2
  <2>4. CASE Talk!Conflicts(r)
    <3> DEFINE w == [turn[r] EXCEPT !.at = "stored"]
    <3>1. /\ turn' = [turn EXCEPT ![r] = w] /\ DOMAIN turn[r] = Talk!TurnFields /\ UNCHANGED messages
      BY <2>1, <2>4 DEF Talk!Shape
    <3>2. /\ DOMAIN w = Talk!TurnFields /\ w.at = "stored" /\ w.conv = turn[r].conv /\ w.context = turn[r].context
      BY <3>1 DEF Talk!TurnFields
    <3> HIDE DEF w
    <3>3. w.at \notin {"asking", "streaming", "answered"}
          /\ w.at \in {"new", "missed", "replayed", "rejected", "resolved",
                "loaded", "asking", "streaming", "answered", "stored", "done", "failed"}
          /\ w.at \notin {"new", "replayed"}
      BY <3>2
    <3>4. /\ billed' \subseteq billed \union {r} /\ after' \subseteq after \union {r} /\ r \notin after'
          /\ tenant' \in [Turns -> {"none"} \union {Caller[q] : q \in Turns}]
          /\ \A c \in Turns : tenant'[c] = tenant[c] \/ tenant'[c] = Caller[c]
      BY <2>1, TalkTurnFacts
    <3>5. w.conv \in Turns /\ tenant'[w.conv] = Caller[r]
      BY <2>1, <2>2, <3>2, TalkTurnFacts
    <3>6. /\ w.context \subseteq DOMAIN messages
          /\ \A k \in w.context : /\ Caller[messages[k].of] = Caller[r]
                                  /\ messages[k].role = "assistant" =>
                                        \/ Cardinality(w.context) = HistoryLimit
                                        \/ \E j \in w.context :
                                              j < k /\ messages[j] = [messages[k] EXCEPT !.role = "user"]
      BY <3>2, TalkTurnFacts
    <3>7. \E i \in DOMAIN messages : Talk!IsReply(i, r) /\ messages[i].conv = w.conv
      BY <2>4, <3>2 DEF Talk!Conflicts
    <3> QED BY <3>1, <3>2, <3>3, <3>4, <3>5, <3>6, <3>7, TalkSilentStep
  <2> QED BY <2>3, <2>4
<1>9. ASSUME NEW r \in Turns, Talk!Done(r) PROVE Talk!IInv'
  <2>1. /\ turn' = [turn EXCEPT ![r].at = "done"] /\ UNCHANGED <<tenant, messages, after>>
        /\ turn[r].at = "stored" /\ billed' \subseteq billed \union {r}
    BY <1>9 DEF Talk!Done, Talk!Go
  <2> QED BY <2>1, TalkPlainStep DEF Talk!Resolved
<1>10. ASSUME NEW r \in Turns, Talk!Break(r) PROVE Talk!IInv'
  <2>1. /\ turn' = [turn EXCEPT ![r].at = "failed"] /\ UNCHANGED <<tenant, messages, after>>
        /\ turn[r].at # "replayed" /\ billed' \subseteq billed \union {r}
    BY <1>10 DEF Talk!Break, Talk!Go
  <2> QED BY <2>1, TalkPlainStep DEF Talk!Resolved
<1>11. CASE UNCHANGED Talk!vars
  BY <1>11 DEF Talk!vars, Talk!TypeOK, Talk!Shape, Talk!Owners, Talk!QuestionFirst,
       Talk!StoredTurns, Talk!IsReply, Talk!BilledTurns,
               Talk!RetriesAreFree, Talk!ContextIsOwn, Talk!OneReply, Talk!SameRequest, Talk!Keyed
<1> QED BY <1>1, <1>2, <1>3, <1>5, <1>6, <1>7, <1>8, <1>9, <1>10, <1>11 DEF Talk!Next

\* Retries are free, a conversation has one reply to a key, and a context is the caller's own.
LEMMA TalkHolds == Talk!Spec => []Talk!Safety
<1>1. Talk!IInv => Talk!Safety
  BY DEF Talk!IInv, Talk!Safety
<1> QED BY <1>1, TalkInitHolds, TalkStepHolds, PTL DEF Talk!Spec

-----------------------------------------------------------------------------
(* SemanticCache                                                           *)

LEMMA CacheInitHolds == ASSUME Cache!Init PROVE Cache!IInv
<1> USE DEF Cache!Init
<1>1. Cache!TypeOK
  BY DEF Cache!TypeOK
<1>2. Cache!Rows
  <2>1. \A l \in Lookups : DOMAIN lookup[l] = Cache!LookupFields
    BY DEF Cache!LookupFields
  <2> QED BY <2>1 DEF Cache!Rows
<1>3. Cache!EntriesAreStored /\ Cache!StoredLives
  BY DEF Cache!EntriesAreStored, Cache!StoredLives
<1>4. Cache!LookupsServed /\ Cache!HitsAreInScope
  BY DEF Cache!LookupsServed, Cache!HitsAreInScope
<1> QED BY <1>1, <1>2, <1>3, <1>4 DEF Cache!IInv

\* A step of one lookup.
LEMMA CacheLookupStep ==
    ASSUME Cache!IInv, NEW l \in Lookups, NEW w, lookup' = [lookup EXCEPT ![l] = w],
           UNCHANGED <<entries, store, moment, written, expiry>>, DOMAIN w = Cache!LookupFields,
           w.at \in {"new", "missed", "embedded", "hit", "nothing", "answered"},
           w.response # Cache!None => /\ w.response \in Stores /\ store[w.response] = "stored"
                                      /\ w.at \in {"hit", "answered"}
                                      /\ Cache!Key(w.response).namespace = Cache!Key(l).namespace
                                      /\ Cache!Key(w.response).model = Cache!Key(l).model
                                      /\ Cache!Distance(Cache!Key(w.response).prompt, Cache!Key(l).prompt) <= Reach
                                      /\ expiry[w.response] > w.begun,
           \A s \in w.owed : w.at \in {"hit", "answered"} /\ Cache!NotBefore(w.response, s)
    PROVE  Cache!IInv'
<1> USE DEF Cache!IInv
<1>1. lookup'[l] = w /\ DOMAIN lookup' = Lookups /\ \A m \in Lookups \ {l} : lookup'[m] = lookup[m]
  BY DEF Cache!Rows
<1>2. Cache!TypeOK'
  BY <1>1 DEF Cache!TypeOK
<1>3. Cache!Rows'
  BY <1>1 DEF Cache!Rows
<1>4. Cache!EntriesAreStored' /\ Cache!StoredLives'
  BY DEF Cache!EntriesAreStored, Cache!StoredLives, Cache!NotBefore
<1>5. Cache!LookupsServed'
  BY <1>1 DEF Cache!LookupsServed, Cache!NotBefore
<1>6. Cache!HitsAreInScope'
  BY <1>1 DEF Cache!HitsAreInScope
<1> QED BY <1>2, <1>3, <1>4, <1>5, <1>6

\* A live entry serves who asks for its scope.
LEMMA CacheEntryServes ==
    ASSUME Cache!IInv, NEW k \in DOMAIN entries, Cache!IsLive(k)
    PROVE  /\ entries[k].response \in Stores /\ store[entries[k].response] = "stored"
           /\ Cache!Key(entries[k].response) = k /\ expiry[entries[k].response] > moment
           /\ entries[k].response # Cache!None
BY CacheSane DEF Cache!IInv, Cache!EntriesAreStored, Cache!IsLive, Cache!Sane

LEMMA CacheStepHolds == ASSUME Cache!IInv, [Cache!Next]_(Cache!vars) PROVE Cache!IInv'
<1> USE DEF Cache!IInv
<1>0. /\ moment \in Nat /\ Ttl \in Nat /\ Reach \in Nat /\ \A s \in Stores : expiry[s] \in Nat
      /\ \A x \in Stores \union Lookups : AskOf[x].prompt \in Int
  BY CacheSane DEF Cache!Rows, Cache!Sane
<1>1. ASSUME NEW s \in Stores, Cache!EmbedStored(s) PROVE Cache!IInv'
  <2>1. /\ store[s] = "new" /\ store' = [store EXCEPT ![s] = "embedded"]
        /\ UNCHANGED <<entries, lookup, stats, moment, written, expiry>>
    BY <1>1 DEF Cache!EmbedStored
  <2>2. \A t \in Stores : store'[t] = "stored" <=> store[t] = "stored"
    BY <2>1 DEF Cache!Rows
  <2>3. Cache!TypeOK' /\ Cache!Rows'
    BY <2>1 DEF Cache!TypeOK, Cache!Rows
  <2>4. Cache!EntriesAreStored' /\ Cache!StoredLives'
    BY <2>1, <2>2 DEF Cache!EntriesAreStored, Cache!StoredLives, Cache!NotBefore
  <2>5. Cache!LookupsServed' /\ Cache!HitsAreInScope'
    BY <2>1, <2>2 DEF Cache!LookupsServed, Cache!NotBefore, Cache!HitsAreInScope
  <2> QED BY <2>3, <2>4, <2>5
<1>2. ASSUME NEW s \in Stores, Cache!WriteStored(s) PROVE Cache!IInv'
  <2> DEFINE row == [response |-> s, expires |-> Cache!Expires(s),
                     tokens |-> IF Cache!Key(s) \in DOMAIN entries THEN entries[Cache!Key(s)].tokens ELSE TokensOf[s]]
             k == Cache!Key(s)
  <2>1. /\ store[s] = "embedded" /\ store' = [store EXCEPT ![s] = "stored"]
        /\ entries' = [j \in DOMAIN entries \union {k} |-> IF j = k THEN row ELSE entries[j]]
        /\ written' = Append(written, s) /\ expiry' = [expiry EXCEPT ![s] = moment + Ttl]
        /\ UNCHANGED <<lookup, stats, moment>>
    BY <1>2 DEF Cache!WriteStored
  <2>2. row.response = s /\ row.expires = moment + Ttl
    BY DEF Cache!Expires
  <2> HIDE DEF row
  <2>3. /\ DOMAIN entries' = DOMAIN entries \union {k} /\ entries'[k] = row
        /\ \A j \in DOMAIN entries \ {k} : entries'[j] = entries[j]
    BY <2>1
  <2>4. /\ store'[s] = "stored" /\ expiry'[s] = moment + Ttl
        /\ \A t \in Stores \ {s} : store'[t] = store[t] /\ expiry'[t] = expiry[t]
    BY <2>1 DEF Cache!Rows
  <2>5. /\ written' \in Seq(Stores) /\ DOMAIN written' = DOMAIN written \union {Len(written) + 1}
        /\ written'[Len(written) + 1] = s /\ \A i \in DOMAIN written : written'[i] = written[i]
        /\ \A i \in DOMAIN written : i \in Nat /\ i <= Len(written) + 1
    BY <2>1 DEF Cache!Rows
  <2>6. \A r, t : Cache!NotBefore(r, t) => Cache!NotBefore(r, t)'
    BY <2>5 DEF Cache!NotBefore
  <2>7. Cache!NotBefore(s, s)' /\ \A r, t : Cache!NotBefore(r, t) => Cache!NotBefore(s, t)'
    <3>1. Len(written) + 1 \in DOMAIN written' /\ Len(written) + 1 \in Nat
      BY <2>5 DEF Cache!Rows
    <3> QED BY <2>5, <3>1 DEF Cache!NotBefore
  <2>8. Cache!TypeOK' /\ Cache!Rows'
    <3>1. k \in {AskOf[t] : t \in Stores}
      BY DEF Cache!Key
    <3>2. Cache!TypeOK'
      BY <2>1, <2>3, <3>1 DEF Cache!TypeOK
    <3>3. moment + Ttl \in Nat
      BY <1>0
    <3>4. Cache!Rows'
      BY <2>1, <2>5, <3>3 DEF Cache!Rows
    <3> QED BY <3>2, <3>4
  <2>9. Cache!EntriesAreStored'
    <3> SUFFICES ASSUME NEW j \in DOMAIN entries'
                 PROVE  /\ entries'[j].response \in Stores /\ store'[entries'[j].response] = "stored"
                        /\ Cache!Key(entries'[j].response) = j
                        /\ entries'[j].expires = expiry'[entries'[j].response]
      BY DEF Cache!EntriesAreStored, Cache!Key
    <3>1. CASE j = k
      BY <2>2, <2>3, <2>4, <3>1
    <3>2. CASE j # k
      <4>1. j \in DOMAIN entries /\ entries'[j] = entries[j]
        BY <2>3, <3>2
      <4>2. entries[j].response # s
        BY <2>1, <4>1 DEF Cache!EntriesAreStored
      <4> QED BY <2>4, <4>1, <4>2 DEF Cache!EntriesAreStored
    <3> QED BY <3>1, <3>2
  <2>10. Cache!StoredLives'
    <3> DEFINE next(r, t) == \E i, j \in DOMAIN written' : written'[i] = t /\ written'[j] = r /\ i <= j
    <3>0. next(s, s) /\ \A r, t : Cache!NotBefore(r, t) => next(r, t) /\ next(s, t)
      BY <2>6, <2>7 DEF Cache!NotBefore
    <3> SUFFICES ASSUME NEW t \in Stores, store'[t] = "stored"
                 PROVE  /\ expiry'[t] <= moment + Ttl
                        /\ \/ expiry'[t] <= moment
                           \/ /\ Cache!Key(t) \in DOMAIN entries' /\ expiry'[t] <= entries'[Cache!Key(t)].expires
                              /\ next(entries'[Cache!Key(t)].response, t)
      <4>1. moment' = moment
        BY <2>1
      <4> QED BY <4>1, Zenon DEF Cache!StoredLives, Cache!Key, Cache!NotBefore
    <3> HIDE DEF next
    <3>1. CASE t = s
      BY <1>0, <2>2, <2>3, <2>4, <3>0, <3>1
    <3>2. CASE t # s
      <4>1. /\ store[t] = "stored" /\ expiry'[t] = expiry[t] /\ expiry[t] <= moment + Ttl
            /\ \/ expiry[t] <= moment
               \/ /\ Cache!Key(t) \in DOMAIN entries /\ expiry[t] <= entries[Cache!Key(t)].expires
                  /\ Cache!NotBefore(entries[Cache!Key(t)].response, t)
        BY <2>4, <3>2 DEF Cache!StoredLives
      <4>2. CASE Cache!Key(t) = k
        BY <1>0, <2>2, <2>3, <3>0, <4>1, <4>2
      <4>3. CASE Cache!Key(t) # k
        BY <2>3, <3>0, <4>1, <4>3
      <4> QED BY <4>2, <4>3
    <3> QED BY <3>1, <3>2
  <2>11. \A l \in Lookups : lookup[l].response # Cache!None => lookup[l].response # s
    BY <2>1 DEF Cache!LookupsServed
  <2>12. Cache!LookupsServed'
    BY <2>1, <2>4, <2>6, <2>11 DEF Cache!LookupsServed
  <2>13. Cache!HitsAreInScope'
    <3>1. \A l \in Lookups : lookup[l].response # Cache!None => lookup[l].response \in Stores
      BY DEF Cache!LookupsServed
    <3> QED BY <2>1, <2>4, <2>11, <3>1 DEF Cache!HitsAreInScope, Cache!Key
  <2> QED BY <2>8, <2>9, <2>10, <2>12, <2>13
<1>3. ASSUME NEW l \in Lookups, Cache!Exact(l) PROVE Cache!IInv'
  <2> DEFINE k == Cache!Key(l)
             hit == k \in DOMAIN entries /\ Cache!IsLive(k)
             owed == {s \in Stores : Cache!Key(s) = k /\ store[s] = "stored" /\ expiry[s] > moment}
             w == [at |-> IF hit THEN "hit" ELSE "missed", owed |-> owed, begun |-> moment,
                   response |-> IF hit THEN Cache!Hits(k).response ELSE Cache!None,
                   saved |-> IF hit THEN Cache!Hits(k).saved ELSE 0]
  <2>1. /\ lookup' = [lookup EXCEPT ![l] = w]
        /\ UNCHANGED <<entries, store, stats, moment, written, expiry>>
    BY <1>3 DEF Cache!Exact
  <2>2. \A s \in owed : hit /\ Cache!NotBefore(entries[k].response, s)
    <3> SUFFICES ASSUME NEW s \in owed PROVE hit /\ Cache!NotBefore(entries[k].response, s)
      OBVIOUS
    <3>1. s \in Stores /\ Cache!Key(s) = k /\ store[s] = "stored" /\ expiry[s] > moment
      OBVIOUS
    <3>2. /\ k \in DOMAIN entries /\ expiry[s] <= entries[k].expires /\ Cache!NotBefore(entries[k].response, s)
      BY <1>0, <3>1 DEF Cache!StoredLives
    <3>3. entries[k].expires \in Nat
      BY <1>0, <3>2 DEF Cache!EntriesAreStored
    <3> QED BY <1>0, <3>1, <3>2, <3>3 DEF Cache!IsLive
  <2> HIDE DEF owed
  <2>3. /\ DOMAIN w = Cache!LookupFields /\ w.owed = owed /\ w.begun = moment
        /\ w.at = (IF hit THEN "hit" ELSE "missed")
        /\ w.response = IF hit THEN entries[k].response ELSE Cache!None
    BY DEF Cache!LookupFields, Cache!Hits
  <2> HIDE DEF w
  <2>4. CASE hit
    <3>1. /\ entries[k].response \in Stores /\ store[entries[k].response] = "stored"
          /\ Cache!Key(entries[k].response) = k /\ expiry[entries[k].response] > moment
      BY <2>4, CacheEntryServes
    <3>2. Cache!Distance(k.prompt, k.prompt) <= Reach
      BY <1>0 DEF Cache!Distance, Cache!Key
    <3>3. w.at = "hit" /\ w.response = entries[k].response
      BY <2>3, <2>4
    <3> HIDE DEF hit, k
    <3> QED BY <2>1, <2>2, <2>3, <3>1, <3>2, <3>3, CacheLookupStep DEF k
  <2>5. CASE ~hit
    <3>1. w.at = "missed" /\ w.response = Cache!None /\ owed = {}
      BY <2>2, <2>3, <2>5
    <3> HIDE DEF hit
    <3> QED BY <2>1, <2>3, <3>1, CacheLookupStep
  <2> QED BY <2>4, <2>5
<1>4. ASSUME NEW l \in Lookups, Cache!EmbedAsked(l) PROVE Cache!IInv'
  <2> DEFINE w == [lookup[l] EXCEPT !.at = "embedded"]
  <2>1. /\ lookup[l].at = "missed" /\ lookup' = [lookup EXCEPT ![l] = w]
        /\ UNCHANGED <<entries, store, stats, moment, written, expiry>>
    BY <1>4 DEF Cache!EmbedAsked, Cache!Rows
  <2>2. /\ DOMAIN w = Cache!LookupFields /\ w.at = "embedded" /\ w.response = lookup[l].response
        /\ w.owed = lookup[l].owed /\ w.begun = lookup[l].begun
    BY DEF Cache!Rows, Cache!LookupFields
  <2> HIDE DEF w
  <2>3. w.response = Cache!None /\ w.owed = {}
    BY <2>1, <2>2 DEF Cache!LookupsServed
  <2> QED BY <2>1, <2>2, <2>3, CacheLookupStep
<1>5. ASSUME NEW l \in Lookups, Cache!Search(l) PROVE Cache!IInv'
  <2>1. /\ lookup[l].at = "embedded" /\ UNCHANGED <<entries, store, stats, moment, written, expiry>>
        /\ DOMAIN lookup[l] = Cache!LookupFields
    BY <1>5 DEF Cache!Search, Cache!Rows
  <2>2. lookup[l].response = Cache!None /\ lookup[l].owed = {}
    BY <2>1 DEF Cache!LookupsServed
  <2>3. ASSUME NEW k \in Cache!Nearest(l), Cache!MeetsThreshold(k, l),
               lookup' = [lookup EXCEPT ![l] = [lookup[l] EXCEPT !.at = "hit", !.begun = moment,
                              !.response = Cache!Hits(k).response, !.saved = Cache!Hits(k).saved]]
        PROVE  Cache!IInv'
    <3> DEFINE w == [lookup[l] EXCEPT !.at = "hit", !.begun = moment,
                              !.response = Cache!Hits(k).response, !.saved = Cache!Hits(k).saved]
    <3>1. /\ DOMAIN w = Cache!LookupFields /\ w.at = "hit" /\ w.response = entries[k].response
          /\ w.owed = {} /\ w.begun = moment
      BY <2>1, <2>2 DEF Cache!LookupFields, Cache!Hits
    <3>2. lookup' = [lookup EXCEPT ![l] = w]
      BY <2>3
    <3> HIDE DEF w
    <3>3. k \in DOMAIN entries /\ Cache!IsLive(k) /\ k.namespace = Cache!Key(l).namespace /\ k.model = Cache!Key(l).model
      BY DEF Cache!Nearest, Cache!SharesScope
    <3>4. Cache!Distance(k.prompt, Cache!Key(l).prompt) <= Reach
      BY <2>3 DEF Cache!MeetsThreshold
    <3>5. /\ w.response \in Stores /\ store[w.response] = "stored"
          /\ Cache!Key(w.response) = k /\ expiry[w.response] > moment
      BY <3>1, <3>3, CacheEntryServes
    <3> QED BY <2>1, <3>1, <3>2, <3>3, <3>4, <3>5, CacheLookupStep
  <2>4. ASSUME lookup' = [lookup EXCEPT ![l] = [lookup[l] EXCEPT !.at = "nothing"]] PROVE Cache!IInv'
    <3> DEFINE w == [lookup[l] EXCEPT !.at = "nothing"]
    <3>1. /\ DOMAIN w = Cache!LookupFields /\ w.at = "nothing" /\ w.response = Cache!None /\ w.owed = {}
      BY <2>1, <2>2 DEF Cache!LookupFields
    <3>2. lookup' = [lookup EXCEPT ![l] = w]
      BY <2>4
    <3> HIDE DEF w
    <3> QED BY <2>1, <3>1, <3>2, CacheLookupStep
  <2> QED BY <1>5, <2>3, <2>4 DEF Cache!Search, Cache!Rows
<1>6. ASSUME NEW l \in Lookups, Cache!Answer(l) PROVE Cache!IInv'
  <2> DEFINE w == [lookup[l] EXCEPT !.at = "answered"]
  <2>1. /\ lookup[l].at \in {"hit", "nothing"} /\ lookup' = [lookup EXCEPT ![l] = w]
        /\ UNCHANGED <<entries, store, moment, written, expiry>>
    BY <1>6 DEF Cache!Answer, Cache!Rows
  <2>2. /\ DOMAIN w = Cache!LookupFields /\ w.at = "answered" /\ w.response = lookup[l].response
        /\ w.owed = lookup[l].owed /\ w.begun = lookup[l].begun
    BY DEF Cache!Rows, Cache!LookupFields
  <2> HIDE DEF w
  <2>3. w.response # Cache!None => /\ w.response \in Stores /\ store[w.response] = "stored"
                                   /\ Cache!Key(w.response).namespace = Cache!Key(l).namespace
                                   /\ Cache!Key(w.response).model = Cache!Key(l).model
                                   /\ Cache!Distance(Cache!Key(w.response).prompt, Cache!Key(l).prompt) <= Reach
                                   /\ expiry[w.response] > w.begun
    BY <2>2 DEF Cache!LookupsServed, Cache!HitsAreInScope
  <2>4. \A s \in w.owed : Cache!NotBefore(w.response, s)
    BY <2>2 DEF Cache!LookupsServed
  <2> QED BY <2>1, <2>2, <2>3, <2>4, CacheLookupStep
<1>7. CASE Cache!Sweep
  <2>1. /\ entries' = [k \in {j \in DOMAIN entries : Cache!IsLive(j)} |-> entries[k]]
        /\ UNCHANGED <<store, lookup, stats, moment, written, expiry>>
    BY <1>7 DEF Cache!Sweep
  <2>2. /\ \A k \in DOMAIN entries' : k \in DOMAIN entries /\ entries'[k] = entries[k]
        /\ \A k \in DOMAIN entries : entries[k].expires > moment => k \in DOMAIN entries'
    BY <2>1 DEF Cache!IsLive
  <2>3. Cache!TypeOK' /\ Cache!Rows'
    BY <2>1, <2>2 DEF Cache!TypeOK, Cache!Rows
  <2>4. Cache!EntriesAreStored'
    BY <2>1, <2>2 DEF Cache!EntriesAreStored, Cache!Key
  <2>5. Cache!StoredLives'
    <3> SUFFICES ASSUME NEW t \in Stores, store[t] = "stored"
                 PROVE  /\ expiry[t] <= moment + Ttl
                        /\ \/ expiry[t] <= moment
                           \/ /\ Cache!Key(t) \in DOMAIN entries' /\ expiry[t] <= entries'[Cache!Key(t)].expires
                              /\ Cache!NotBefore(entries'[Cache!Key(t)].response, t)
      BY <2>1 DEF Cache!StoredLives, Cache!Key, Cache!NotBefore
    <3>1. CASE expiry[t] <= moment
      BY <3>1 DEF Cache!StoredLives
    <3>2. CASE ~(expiry[t] <= moment)
      <4>1. Cache!Key(t) \in DOMAIN entries /\ expiry[t] <= entries[Cache!Key(t)].expires
            /\ Cache!NotBefore(entries[Cache!Key(t)].response, t) /\ expiry[t] <= moment + Ttl
        BY <3>2 DEF Cache!StoredLives
      <4>2. entries[Cache!Key(t)].expires \in Nat
        BY <1>0, <4>1 DEF Cache!EntriesAreStored
      <4>3. entries[Cache!Key(t)].expires > moment
        BY <1>0, <3>2, <4>1, <4>2
      <4> QED BY <2>2, <4>1, <4>3
    <3> QED BY <3>1, <3>2
  <2>6. Cache!LookupsServed' /\ Cache!HitsAreInScope'
    BY <2>1 DEF Cache!LookupsServed, Cache!NotBefore, Cache!HitsAreInScope, Cache!Key
  <2> QED BY <2>3, <2>4, <2>5, <2>6
<1>8. CASE Cache!Tick
  <2>1. moment' = moment + 1 /\ UNCHANGED <<entries, store, lookup, stats, written, expiry>>
    BY <1>8 DEF Cache!Tick
  <2>2. Cache!TypeOK' /\ Cache!Rows'
    BY <2>1 DEF Cache!TypeOK, Cache!Rows
  <2>3. Cache!EntriesAreStored' /\ Cache!LookupsServed' /\ Cache!HitsAreInScope'
    BY <2>1 DEF Cache!EntriesAreStored, Cache!LookupsServed, Cache!NotBefore,
         Cache!HitsAreInScope, Cache!Key
  <2>4. Cache!StoredLives'
    BY <1>0, <2>1 DEF Cache!StoredLives, Cache!NotBefore, Cache!Key
  <2> QED BY <2>2, <2>3, <2>4
<1>9. CASE UNCHANGED Cache!vars
  BY <1>9 DEF Cache!vars, Cache!TypeOK, Cache!Rows, Cache!EntriesAreStored, Cache!StoredLives,
       Cache!LookupsServed, Cache!NotBefore, Cache!HitsAreInScope, Cache!Key
<1> QED BY <1>1, <1>2, <1>3, <1>4, <1>5, <1>6, <1>7, <1>8, <1>9 DEF Cache!Next

\* Answers stay in their scope and term, and what was stored is found.
LEMMA CacheHolds == Cache!Spec => []Cache!Safety
<1>1. Cache!IInv => Cache!Safety
  BY DEF Cache!IInv, Cache!Safety, Cache!StoredIsFound, Cache!LookupsServed, Cache!NotBefore
<1> QED BY <1>1, CacheInitHolds, CacheStepHolds, PTL DEF Cache!Spec

-----------------------------------------------------------------------------
(* AuditChain                                                              *)

LEMMA AuditAppended ==
    ASSUME NEW s \in Seq(Nat), NEW c \in Nat
    PROVE  /\ Audit!Hash(s, c) \in Seq(Nat) /\ Len(Audit!Hash(s, c)) = Len(s) + 1
           /\ Audit!Hash(s, c)[Len(Audit!Hash(s, c))] = c
BY AppendProperties DEF Audit!Hash

LEMMA AuditHashNotEmpty ==
    ASSUME NEW s, NEW c, Audit!Hash(s, c) \in Seq(Nat)
    PROVE  Len(Audit!Hash(s, c)) \in 1..Len(Audit!Hash(s, c))
BY DEF Audit!Hash

LEMMA AuditNullIsSeq == Audit!Null \in Seq(Nat)
BY DEF Audit!Null

LEMMA AuditInitHolds == Audit!Init => Audit!IInv
<1> SUFFICES ASSUME Audit!Init PROVE Audit!IInv OBVIOUS
<1>1. Audit!Present = {}
    BY DEF Audit!Init, Audit!Present
<1>2. Audit!Shape
    <2>1. log \in [Audit!Ids -> [there : BOOLEAN, text : Nat, rest : Nat, prev : Seq(Nat), hash : Seq(Nat)]]
        BY AuditNullIsSeq DEF Audit!Init
    <2>2. writer \in [Writers -> [at : {"idle", "waiting", "locked"}, row : Audit!Ids \union {Audit!NoRow},
                                  prev : Seq(Nat)]]
        BY AuditNullIsSeq DEF Audit!Init, Audit!Away
    <2>3. purge \in [at : {"idle", "deleted", "scanned"}, gone : SUBSET Audit!Ids, seen : SUBSET Audit!Ids]
        BY DEF Audit!Init, Audit!Quiet
    <2>4. purge.seen = {}
        BY DEF Audit!Init, Audit!Quiet
    <2> QED BY <1>1, <2>1, <2>2, <2>3, <2>4, AuditSane DEF Audit!Init, Audit!Shape, Audit!Sane
<1>3. Audit!Seal /\ Audit!InTurn
    BY <1>1 DEF Audit!Init, Audit!Seal, Audit!InTurn, Audit!Busy, Audit!Away, Audit!Quiet
<1> QED BY <1>2, <1>3 DEF Audit!IInv

\* The hashes that reanchor_audit_chain computes are well defined ...
LEMMA AuditHashesExist ==
    ASSUME NEW seen, NEW m \in Nat, Audit!Shape, m <= MaxEntries
    PROVE  \E h : Audit!AreHashes(h, seen, m)
<1> DEFINE S == {k \in Nat : k <= MaxEntries => \E h : Audit!AreHashes(h, seen, k)}
<1>0. \A i \in 1..MaxEntries : log[i].text \in Nat
    BY DEF Audit!Shape, Audit!Ids
<1>1. 0 \in S
    <2>1. Audit!AreHashes([i \in 0..0 |-> Audit!Null], seen, 0)
        BY AuditNullIsSeq DEF Audit!AreHashes
    <2> QED BY <2>1
<1>2. ASSUME NEW k \in Nat, k \in S PROVE k + 1 \in S
    <2>1. SUFFICES ASSUME k + 1 <= MaxEntries PROVE \E h : Audit!AreHashes(h, seen, k + 1)
        OBVIOUS
    <2>2. k <= MaxEntries
        BY <2>1, AuditSane DEF Audit!Sane
    <2>3. PICK h : Audit!AreHashes(h, seen, k)
        BY <1>2, <2>2
    <2> USE DEF Audit!AreHashes
    <2> DEFINE new == IF k + 1 \in seen THEN Audit!Hash(h[k], log[k + 1].text) ELSE h[k]
               g == [i \in 0..(k + 1) |-> IF i = k + 1 THEN new ELSE h[i]]
    <2>4. new \in Seq(Nat)
        <3>1. h[k] \in Seq(Nat) /\ log[k + 1].text \in Nat
            BY <1>0, <2>1, <2>3
        <3> QED BY <3>1, AuditAppended
    <2>5. g \in [0..(k + 1) -> Seq(Nat)]
        BY <2>3, <2>4
    <2>6. ASSUME NEW i \in 0..(k + 1)
          PROVE  g[i] = IF i = 0 THEN Audit!Null
                        ELSE IF i \in seen THEN Audit!Hash(g[i - 1], log[i].text) ELSE g[i - 1]
        <3>1. CASE i = k + 1
            <4>1. g[i] = new /\ i # 0 /\ i - 1 = k /\ g[i - 1] = h[k]
                BY <3>1
            <4> HIDE DEF g
            <4> QED BY <3>1, <4>1
        <3>2. CASE i # k + 1
            <4>1. i \in 0..k /\ g[i] = h[i] /\ (i # 0 => g[i - 1] = h[i - 1])
                BY <3>2
            <4>2. h[i] = IF i = 0 THEN Audit!Null
                         ELSE IF i \in seen THEN Audit!Hash(h[i - 1], log[i].text) ELSE h[i - 1]
                BY <2>3, <4>1
            <4> HIDE DEF g
            <4> QED BY <4>1, <4>2
        <3> QED BY <3>1, <3>2
    <2>7. g = [i \in 0..(k + 1) |->
                  IF i = 0 THEN Audit!Null
                  ELSE IF i \in seen THEN Audit!Hash(g[i - 1], log[i].text) ELSE g[i - 1]]
        BY <2>6
    <2> HIDE DEF g
    <2> QED BY <2>5, <2>7
<1> HIDE DEF S
<1>3. m \in S
    BY <1>1, <1>2, Induct
<1> QED BY <1>3 DEF S

\* ... and each is of the last entry up to there that it has seen.
LEMMA AuditHashesAre ==
    ASSUME NEW seen \in SUBSET Audit!Ids, Audit!Shape
    PROVE  LET h == Audit!NewHashes(seen)
           IN  /\ \A i \in 0..MaxEntries : h[i] \in Seq(Nat)
               /\ \A i \in seen : h[i] = Audit!Hash(h[i - 1], log[i].text)
               /\ \A m \in 0..MaxEntries :
                     \E j \in seen \union {Audit!NoRow} :
                        /\ Audit!IsLast(j, {x \in seen : x <= m})
                        /\ h[m] = IF j = Audit!NoRow THEN Audit!Null ELSE h[j]
<1> DEFINE h == Audit!NewHashes(seen)
<1>1. MaxEntries \in Nat /\ MaxEntries <= MaxEntries
    BY AuditSane DEF Audit!Sane
<1>2. PICK f : Audit!AreHashes(f, seen, MaxEntries)
    BY <1>1, AuditHashesExist
<1>3. h = [i \in 0..MaxEntries |->
             IF i = 0 THEN Audit!Null
             ELSE IF i \in seen THEN Audit!Hash(h[i - 1], log[i].text) ELSE h[i - 1]]
    BY <1>2 DEF Audit!NewHashes, Audit!AreHashes
<1> HIDE DEF h
<1>4. \A i \in 0..MaxEntries :
         h[i] = IF i = 0 THEN Audit!Null
                ELSE IF i \in seen THEN Audit!Hash(h[i - 1], log[i].text) ELSE h[i - 1]
    BY <1>3
<1>5. \A i \in 0..MaxEntries : h[i] \in Seq(Nat)
    <2> DEFINE S == {k \in Nat : k <= MaxEntries => h[k] \in Seq(Nat)}
    <2>1. 0 \in S
        BY <1>1, <1>4, AuditNullIsSeq
    <2>2. ASSUME NEW k \in Nat, k \in S PROVE k + 1 \in S
        <3>1. SUFFICES ASSUME k + 1 <= MaxEntries PROVE h[k + 1] \in Seq(Nat)
            OBVIOUS
        <3>2. h[k] \in Seq(Nat) /\ k + 1 \in 0..MaxEntries /\ k + 1 # 0 /\ (k + 1) - 1 = k
            BY <1>1, <2>2, <3>1
        <3>3. h[k + 1] = IF k + 1 \in seen THEN Audit!Hash(h[k], log[k + 1].text) ELSE h[k]
            BY <1>4, <3>2
        <3>4. log[k + 1].text \in Nat
            BY <1>1, <3>1 DEF Audit!Shape, Audit!Ids
        <3> QED BY <3>2, <3>3, <3>4, AuditAppended
    <2> HIDE DEF S
    <2>3. Nat \subseteq S
        BY <2>1, <2>2, Induct
    <2> QED BY <1>1, <2>3 DEF S
<1>6. \A i \in seen : h[i] = Audit!Hash(h[i - 1], log[i].text)
    BY <1>1, <1>4 DEF Audit!Ids
<1>7. ASSUME NEW m \in 0..MaxEntries
      PROVE  \E j \in seen \union {Audit!NoRow} : /\ Audit!IsLast(j, {x \in seen : x <= m})
                                           /\ h[m] = IF j = Audit!NoRow THEN Audit!Null ELSE h[j]
    <2> DEFINE Ok(k) == \E j \in seen \union {Audit!NoRow} :
                            /\ Audit!IsLast(j, {x \in seen : x <= k})
                            /\ h[k] = IF j = Audit!NoRow THEN Audit!Null ELSE h[j]
               S == {k \in Nat : k <= MaxEntries => Ok(k)}
    <2>1. 0 \in S
        <3>0. seen \subseteq 1..MaxEntries
            BY DEF Audit!Ids
        <3>a. \A x \in seen : ~ (x <= 0)
            BY <1>1, <3>0
        <3>b. 0 \in 0..MaxEntries
            BY <1>1
        <3>1. {x \in seen : x <= 0} = {} /\ h[0] = Audit!Null
            BY <1>4, <3>a, <3>b
        <3>2. Audit!IsLast(Audit!NoRow, {x \in seen : x <= 0})
            BY <3>1 DEF Audit!IsLast
        <3> QED BY <3>1, <3>2
    <2>2. ASSUME NEW k \in Nat, k \in S PROVE k + 1 \in S
        <3>0. k <= MaxEntries => Ok(k)
            BY <2>2
        <3> HIDE DEF Ok
        <3>1. SUFFICES ASSUME k + 1 <= MaxEntries PROVE Ok(k + 1)
            OBVIOUS
        <3> USE DEF Ok
        <3>2. k + 1 \in 0..MaxEntries /\ k + 1 # 0 /\ (k + 1) - 1 = k /\ k <= MaxEntries
            BY <1>1, <3>1
        <3>3. h[k + 1] = IF k + 1 \in seen THEN Audit!Hash(h[k], log[k + 1].text) ELSE h[k]
            BY <1>4, <3>2
        <3>4. seen \subseteq Nat \ {0} /\ Audit!NoRow = 0
            BY DEF Audit!Ids, Audit!NoRow
        <3>5. CASE k + 1 \in seen
            <4>1. Audit!IsLast(k + 1, {x \in seen : x <= k + 1})
                BY <3>4, <3>5 DEF Audit!IsLast
            <4> QED BY <3>4, <3>5, <4>1
        <3>6. CASE k + 1 \notin seen
            <4>0. \A x \in seen : x <= k + 1 <=> x <= k
                BY <3>4, <3>6
            <4>1. {x \in seen : x <= k + 1} = {x \in seen : x <= k}
                BY <4>0
            <4>2. Ok(k) /\ h[k + 1] = h[k]
                BY <3>0, <3>2, <3>3, <3>6
            <4> QED BY <4>1, <4>2
        <3> QED BY <3>5, <3>6
    <2> HIDE DEF S
    <2>3. Nat \subseteq S
        BY <2>1, <2>2, Induct
    <2>4. m \in S /\ m <= MaxEntries
        BY <1>1, <2>3
    <2> QED BY <2>4 DEF S
<1> QED BY <1>5, <1>6, <1>7 DEF h

\* Steps that leave the log alone.
LEMMA AuditLogKept ==
    ASSUME Audit!IInv, UNCHANGED <<log, edits, edited>>
    PROVE  /\ Audit!Present' = Audit!Present /\ Audit!Seal'
           /\ \A i \in Audit!Ids \union {Audit!NoRow} : Audit!HashOf(i)' = Audit!HashOf(i)
           /\ (\A i \in Audit!Present : Audit!Linked(i)) => \A i \in Audit!Present' : Audit!Linked(i)'
BY DEF Audit!IInv, Audit!Present, Audit!Seal, Audit!Sealed, Audit!HashOf, Audit!Linked,
     Audit!Before, Audit!IsLast

LEMMA AuditWriterStep ==
    ASSUME Audit!IInv, NEW w \in Writers,
           \/ \E row \in Audit!Ids \union {Audit!NoRow} : Audit!SelectLast(w, row)
           \/ Audit!Locked(w) \/ Audit!RollBack(w)
    PROVE  Audit!IInv'
<1>0. Audit!Shape /\ Audit!Null \in Seq(Nat)
    BY AuditNullIsSeq DEF Audit!IInv
<1>1. UNCHANGED <<log, lastId, purge, purges, edits, edited, everEdited>>
    BY DEF Audit!SelectLast, Audit!Locked, Audit!RollBack
<1>2. /\ Audit!Present' = Audit!Present /\ Audit!Seal'
      /\ \A i \in Audit!Ids \union {Audit!NoRow} : Audit!HashOf(i)' = Audit!HashOf(i)
      /\ (\A i \in Audit!Present : Audit!Linked(i)) => \A i \in Audit!Present' : Audit!Linked(i)'
    BY <1>1, AuditLogKept
<1>3. \A i \in Audit!Present : Audit!HashOf(i) \in Seq(Nat)
    BY <1>0 DEF Audit!HashOf, Audit!Shape, Audit!Present
<1>a. writer = [x \in Writers |-> writer[x]]
    BY <1>0 DEF Audit!Shape
<1>4. ASSUME NEW row \in Audit!Ids \union {Audit!NoRow}, Audit!SelectLast(w, row)
      PROVE  /\ writer'[w] \in [at : {"idle", "waiting", "locked"}, row : Audit!Ids \union {Audit!NoRow},
                                prev : Seq(Nat)]
             /\ writer'[w].at = "waiting" /\ Audit!IsLast(writer'[w].row, Audit!Present)
             /\ \A x \in Writers \ {w} : writer'[x] = writer[x]
             /\ ~ overlapped' => ~ overlapped /\ purge.at = "idle" /\ \A x \in Writers \ {w} : ~ Audit!Busy(x)
    <2>1. writer' = [writer EXCEPT ![w] = [at |-> "waiting", prev |-> Audit!Null, row |-> row]]
        BY <1>4 DEF Audit!SelectLast
    <2>2. writer'[w] = [at |-> "waiting", prev |-> Audit!Null, row |-> row]
          /\ \A x \in Writers \ {w} : writer'[x] = writer[x]
        BY <2>1, <1>a
    <2>3. overlapped' = (overlapped \/ purge.at # "idle" \/ \E x \in Writers \ {w} : Audit!Busy(x))
        BY <1>4 DEF Audit!SelectLast, Audit!Begins
    <2>4. writer'[w] \in [at : {"idle", "waiting", "locked"}, row : Audit!Ids \union {Audit!NoRow},
                          prev : Seq(Nat)]
        BY <1>0, <2>2
    <2>5. writer'[w].at = "waiting" /\ writer'[w].row = row
        BY <2>2
    <2>6. Audit!IsLast(row, Audit!Present)
        BY <1>4 DEF Audit!SelectLast
    <2> QED BY <2>2, <2>3, <2>4, <2>5, <2>6
<1>5. ASSUME Audit!Locked(w)
      PROVE  /\ writer'[w] \in [at : {"idle", "waiting", "locked"}, row : Audit!Ids \union {Audit!NoRow},
                                prev : Seq(Nat)]
             /\ writer[w].at = "waiting" /\ writer'[w].at = "locked"
             /\ writer'[w].row = writer[w].row
             /\ writer'[w].prev = IF writer[w].row \in Audit!Present THEN Audit!HashOf(writer[w].row) ELSE Audit!Null
             /\ \A x \in Writers \ {w} : writer'[x] = writer[x]
             /\ overlapped' = overlapped
    <2> DEFINE row == writer[w].row
               p == IF row \in Audit!Present THEN Audit!HashOf(row) ELSE Audit!Null
    <2>1. writer' = [writer EXCEPT ![w] = [at |-> "locked", row |-> row, prev |-> p]]
        BY <1>5 DEF Audit!Locked
    <2>2. row \in Audit!Ids \union {Audit!NoRow} /\ p \in Seq(Nat)
        BY <1>0, <1>3 DEF Audit!Shape
    <2> HIDE DEF p
    <2>3. writer'[w] = [at |-> "locked", row |-> row, prev |-> p]
          /\ \A x \in Writers \ {w} : writer'[x] = writer[x]
        BY <2>1, <1>a
    <2>4. writer[w].at = "waiting" /\ overlapped' = overlapped
        BY <1>5 DEF Audit!Locked
    <2> QED BY <2>2, <2>3, <2>4 DEF p
<1>6. ASSUME Audit!RollBack(w)
      PROVE  /\ writer'[w] \in [at : {"idle", "waiting", "locked"}, row : Audit!Ids \union {Audit!NoRow},
                                prev : Seq(Nat)]
             /\ writer'[w].at = "idle"
             /\ \A x \in Writers \ {w} : writer'[x] = writer[x]
             /\ overlapped' = overlapped
    <2>1. writer' = [writer EXCEPT ![w] = Audit!Away]
        BY <1>6 DEF Audit!RollBack
    <2>2. writer'[w] = Audit!Away /\ \A x \in Writers \ {w} : writer'[x] = writer[x]
        BY <2>1, <1>a
    <2>3. Audit!Away \in [at : {"idle", "waiting", "locked"}, row : Audit!Ids \union {Audit!NoRow}, prev : Seq(Nat)]
        BY <1>0 DEF Audit!Away
    <2> QED BY <1>6, <2>2, <2>3 DEF Audit!RollBack, Audit!Away
<1>7. writer' = [x \in Writers |-> writer'[x]]
    BY <1>a DEF Audit!SelectLast, Audit!Locked, Audit!RollBack
<1>8. Audit!Shape'
    <2>1. \A x \in Writers : writer'[x] \in [at : {"idle", "waiting", "locked"},
                                             row : Audit!Ids \union {Audit!NoRow}, prev : Seq(Nat)]
        BY <1>0, <1>4, <1>5, <1>6 DEF Audit!Shape
    <2>2. writer' \in [Writers -> [at : {"idle", "waiting", "locked"},
                                   row : Audit!Ids \union {Audit!NoRow}, prev : Seq(Nat)]]
        BY <1>7, <2>1
    <2> QED BY <1>0, <1>1, <1>2, <2>2 DEF Audit!Shape
<1>9. ASSUME ~ overlapped' PROVE Audit!InTurn'
    <2>1. ~ overlapped /\ Audit!InTurn
        BY <1>4, <1>5, <1>9 DEF Audit!IInv, Audit!RollBack
    <2>2. \A i \in Audit!Present' : Audit!Linked(i)'
        BY <1>2, <2>1 DEF Audit!InTurn
    <2>3. purge'.at = "scanned" => purge'.seen = Audit!Present' \ purge'.gone
        BY <1>1, <1>2, <2>1 DEF Audit!InTurn
    <2>4. ASSUME NEW x \in Writers, writer'[x].at # "idle"
          PROVE  /\ purge'.at = "idle" /\ \A y \in Writers \ {x} : writer'[y].at = "idle"
                 /\ Audit!IsLast(writer'[x].row, Audit!Present)
                 /\ writer'[x].at = "locked" => writer'[x].prev = Audit!HashOf(writer'[x].row)
        <3>1. CASE \E row \in Audit!Ids \union {Audit!NoRow} : Audit!SelectLast(w, row)
            BY <1>1, <1>4, <1>9, <2>4, <3>1 DEF Audit!Busy
        <3>2. CASE Audit!Locked(w)
            <4>1. Audit!Busy(w) /\ x = w
                BY <1>5, <2>1, <2>4, <3>2 DEF Audit!InTurn, Audit!Busy
            <4>2. Audit!IsLast(writer[w].row, Audit!Present) /\ purge.at = "idle"
                  /\ \A y \in Writers \ {w} : writer[y].at = "idle"
                BY <2>1, <4>1 DEF Audit!InTurn, Audit!Busy
            <4>3. writer[w].row \notin Audit!Present => Audit!HashOf(writer[w].row) = Audit!Null
                BY <4>2 DEF Audit!IsLast, Audit!HashOf
            <4> QED BY <1>1, <1>5, <3>2, <4>1, <4>2, <4>3
        <3>3. CASE Audit!RollBack(w)
            <4>1. x # w /\ writer'[x] = writer[x] /\ Audit!Busy(x)
                BY <1>6, <2>4, <3>3 DEF Audit!Busy
            <4>2. Audit!Busy(w)
                BY <3>3 DEF Audit!RollBack
            <4> QED BY <2>1, <4>1, <4>2 DEF Audit!InTurn
        <3> QED BY <3>1, <3>2, <3>3
    <2>5. \A x \in Writers : writer'[x].at # "idle" =>
             /\ writer'[x].row \in Audit!Ids \union {Audit!NoRow}
        BY <1>8 DEF Audit!Shape
    <2>6. ASSUME NEW x \in Writers, Audit!Busy(x)'
          PROVE  /\ purge'.at = "idle" /\ \A y \in Writers \ {x} : ~ Audit!Busy(y)'
                 /\ Audit!IsLast(writer[x].row, Audit!Present)'
                 /\ (writer[x].at = "locked")' => (writer[x].prev = Audit!HashOf(writer[x].row))'
        <3>1. /\ purge'.at = "idle" /\ \A y \in Writers \ {x} : writer'[y].at = "idle"
              /\ Audit!IsLast(writer'[x].row, Audit!Present)
              /\ writer'[x].at = "locked" => writer'[x].prev = Audit!HashOf(writer'[x].row)
            BY <2>4, <2>6 DEF Audit!Busy
        <3>2. Audit!IsLast(writer[x].row, Audit!Present)'
            BY <1>2, <3>1 DEF Audit!IsLast
        <3>3. Audit!HashOf(writer[x].row)' = Audit!HashOf(writer'[x].row)
            BY <1>1 DEF Audit!HashOf
        <3> QED BY <3>1, <3>2, <3>3 DEF Audit!Busy
    <2> QED BY <2>2, <2>3, <2>6 DEF Audit!InTurn, Audit!Busy
<1> QED BY <1>2, <1>8, <1>9 DEF Audit!IInv

LEMMA AuditWriteStep ==
    ASSUME Audit!IInv, NEW w \in Writers, Audit!Write(w)
    PROVE  Audit!IInv'
<1> DEFINE n == lastId + 1
           p == writer[w].prev
           e == [there |-> TRUE, text |-> n, rest |-> 0, prev |-> p, hash |-> Audit!Hash(p, n)]
<1>0. Audit!Shape /\ Audit!Seal /\ n \in Audit!Ids /\ n \in Nat /\ n \notin Audit!Present /\ lastId \in Nat
      /\ MaxEntries \in Nat /\ n # Audit!NoRow
    <2>1. Audit!Shape /\ Audit!Seal /\ MaxEntries \in Nat
        BY AuditSane DEF Audit!IInv, Audit!Sane
    <2>2. lastId \in 0..MaxEntries /\ Audit!Present \subseteq 1..lastId /\ lastId < MaxEntries
        BY <2>1 DEF Audit!Shape, Audit!Write
    <2>3. n \in 1..MaxEntries /\ n \notin 1..lastId /\ lastId \in Nat /\ n # 0
        BY <2>1, <2>2
    <2> QED BY <2>1, <2>2, <2>3 DEF Audit!Ids, Audit!NoRow
<1>1. p \in Seq(Nat)
    BY <1>0 DEF Audit!Shape
<1>2. log' = [log EXCEPT ![n] = e] /\ lastId' = n /\ writer' = [writer EXCEPT ![w] = Audit!Away]
    BY DEF Audit!Write
<1>3. UNCHANGED <<purge, purges, edits, edited, everEdited, overlapped>>
    BY DEF Audit!Write
<1>4. /\ e \in [there : BOOLEAN, text : Nat, rest : Nat, prev : Seq(Nat), hash : Seq(Nat)]
      /\ e.there /\ e.text = n /\ e.prev = p /\ e.hash = Audit!Hash(p, n)
    BY <1>0, <1>1, AuditAppended
<1> HIDE DEF e
<1>5. /\ log' \in [Audit!Ids -> [there : BOOLEAN, text : Nat, rest : Nat, prev : Seq(Nat), hash : Seq(Nat)]]
      /\ log'[n] = e /\ \A i \in Audit!Ids \ {n} : log'[i] = log[i]
    BY <1>0, <1>2, <1>4 DEF Audit!Shape
<1>6. Audit!Present' = Audit!Present \union {n}
    BY <1>0, <1>4, <1>5 DEF Audit!Present
<1>7. /\ writer' \in [Writers -> [at : {"idle", "waiting", "locked"}, row : Audit!Ids \union {Audit!NoRow},
                                  prev : Seq(Nat)]]
      /\ writer'[w] = Audit!Away /\ \A x \in Writers \ {w} : writer'[x] = writer[x]
    <2>1. Audit!Away \in [at : {"idle", "waiting", "locked"}, row : Audit!Ids \union {Audit!NoRow}, prev : Seq(Nat)]
        BY AuditNullIsSeq DEF Audit!Away
    <2>2. writer \in [Writers -> [at : {"idle", "waiting", "locked"}, row : Audit!Ids \union {Audit!NoRow},
                                  prev : Seq(Nat)]]
        BY <1>0 DEF Audit!Shape
    <2> HIDE DEF p, e
    <2> QED BY <1>2, <2>1, <2>2
<1>8. Audit!Shape'
    <2>1. n \in 0..MaxEntries /\ Audit!Present' \subseteq 1..n
        BY <1>0, <1>6 DEF Audit!Shape, Audit!Ids
    <2> QED BY <1>0, <1>2, <1>3, <1>5, <1>6, <1>7, <2>1 DEF Audit!Shape
<1>9. Audit!Seal'
    <2>1. SUFFICES ASSUME NEW i \in Audit!Present'
                   PROVE  /\ log'[i].hash = Audit!Hash(log'[i].prev, Audit!Sealed(i)')
                          /\ log'[i].text <= MaxEntries + edits
                          /\ Audit!Sealed(i)' <= MaxEntries + edits
                          /\ i \in edited <=> Audit!Sealed(i)' # log'[i].text
        BY <1>3 DEF Audit!Seal
    <2>2. CASE i = n
        <3>0. log'[i].hash = Audit!Hash(p, n)
            BY <1>4, <1>5, <2>2
        <3>a. Audit!Hash(p, n)[Len(Audit!Hash(p, n))] = n
            BY <1>0, <1>1, AuditAppended
        <3>b. Audit!Sealed(i)' = log'[i].hash[Len(log'[i].hash)]
            BY DEF Audit!Sealed
        <3>1. Audit!Sealed(i)' = n
            BY <3>0, <3>a, <3>b
        <3>2. n <= MaxEntries + edits /\ n \notin edited
            BY <1>0 DEF Audit!Shape, Audit!Ids
        <3> QED BY <1>4, <1>5, <2>2, <3>1, <3>2
    <2>3. CASE i # n
        <3>1. i \in Audit!Present /\ log'[i] = log[i]
            BY <1>5, <1>6, <2>3 DEF Audit!Present
        <3>2. Audit!Sealed(i)' = Audit!Sealed(i)
            BY <3>1 DEF Audit!Sealed
        <3> QED BY <1>0, <3>1, <3>2 DEF Audit!Seal
    <2> QED BY <2>2, <2>3
<1>10. ASSUME ~ overlapped' PROVE Audit!InTurn'
    <2>1. Audit!InTurn /\ writer[w].at = "locked" /\ Audit!Busy(w)
        BY <1>3, <1>10 DEF Audit!IInv, Audit!Write, Audit!Busy
    <2>2. /\ purge.at = "idle" /\ \A x \in Writers \ {w} : writer[x].at = "idle"
          /\ Audit!IsLast(writer[w].row, Audit!Present) /\ p = Audit!HashOf(writer[w].row)
        BY <2>1 DEF Audit!InTurn, Audit!Busy
    <2>3. \A x \in Writers : ~ Audit!Busy(x)'
        BY <1>7, <2>2 DEF Audit!Busy, Audit!Away
    <2>4. \A j \in Audit!Ids \union {Audit!NoRow} : j # n => Audit!HashOf(j)' = Audit!HashOf(j)
        BY <1>5 DEF Audit!HashOf
    <2>5. ASSUME NEW i \in Audit!Present' PROVE Audit!Linked(i)'
        <3>1. CASE i = n
            <4>1. Audit!Before(i)' = Audit!Present
                <5>1. \A x \in Audit!Present : x < i
                    BY <1>0, <3>1 DEF Audit!Shape
                <5>2. ~ (i < i)
                    BY <1>0, <3>1
                <5>3. Audit!Before(i)' = {x \in Audit!Present' : x < i}
                    BY DEF Audit!Before
                <5> QED BY <1>6, <3>1, <5>1, <5>2, <5>3
            <4>2. PICK row \in Audit!Ids \union {Audit!NoRow} : row = writer[w].row
                BY <1>0 DEF Audit!Shape
            <4>3. Audit!IsLast(row, Audit!Present) /\ p = Audit!HashOf(row) /\ row # n
                BY <1>0, <2>2, <4>2 DEF Audit!IsLast
            <4>4. log'[i].prev = Audit!HashOf(row)'
                BY <1>4, <1>5, <2>4, <3>1, <4>3
            <4>5. Audit!IsLast(row, Audit!Before(i))'
                BY <4>1, <4>3 DEF Audit!IsLast
            <4> QED BY <4>4, <4>5 DEF Audit!Linked
        <3>2. CASE i # n
            <4>1. i \in Audit!Present /\ log'[i] = log[i] /\ i <= lastId /\ i \in Nat
                BY <1>0, <1>5, <1>6, <3>2 DEF Audit!Present, Audit!Shape
            <4>2. Audit!Before(i)' = Audit!Before(i)
                BY <1>0, <1>6, <4>1 DEF Audit!Before
            <4>3. PICK j \in Audit!Ids \union {Audit!NoRow} : Audit!IsLast(j, Audit!Before(i)) /\ log[i].prev = Audit!HashOf(j)
                BY <2>1, <4>1 DEF Audit!InTurn, Audit!Linked
            <4>4. j # n
                BY <1>0, <4>3 DEF Audit!IsLast, Audit!Before
            <4>5. Audit!IsLast(j, Audit!Before(i))'
                BY <4>2, <4>3 DEF Audit!IsLast
            <4>6. log'[i].prev = Audit!HashOf(j)'
                BY <2>4, <4>1, <4>3, <4>4
            <4> QED BY <4>5, <4>6 DEF Audit!Linked
        <3> QED BY <3>1, <3>2
    <2> QED BY <1>3, <2>2, <2>3, <2>5 DEF Audit!InTurn
<1> QED BY <1>8, <1>9, <1>10 DEF Audit!IInv

LEMMA AuditEditStep ==
    ASSUME Audit!IInv, NEW n \in Audit!Ids, Audit!Edit(n)
    PROVE  Audit!IInv'
<1> DEFINE c == MaxEntries + edits + 1
           d == edits + 1
<1>0. Audit!Shape /\ Audit!Seal /\ MaxEntries \in Nat /\ edits \in Nat /\ c \in Nat /\ d \in Nat /\ n \in Audit!Present
    <2>1. Audit!Shape /\ Audit!Seal /\ MaxEntries \in Nat /\ n \in Audit!Present
        BY AuditSane DEF Audit!IInv, Audit!Sane, Audit!Edit
    <2>2. edits \in Nat
        BY <2>1 DEF Audit!Shape
    <2> QED BY <2>1, <2>2
<1>1. PICK e : /\ log' = [log EXCEPT ![n] = e] /\ edits' = edits + 1
                /\ \/ /\ e = [log[n] EXCEPT !.text = c] /\ edited' = edited \union {n}
                      /\ everEdited' = everEdited \union {n}
                   \/ e = [log[n] EXCEPT !.rest = d] /\ UNCHANGED <<edited, everEdited>>
    BY DEF Audit!Edit
<1>2. UNCHANGED <<lastId, writer, purge, purges, overlapped>>
    BY DEF Audit!Edit
<1>3. /\ e \in [there : BOOLEAN, text : Nat, rest : Nat, prev : Seq(Nat), hash : Seq(Nat)]
      /\ e.there = log[n].there /\ e.prev = log[n].prev /\ e.hash = log[n].hash
      /\ \/ e.text = c /\ edited' = edited \union {n} /\ everEdited' = everEdited \union {n}
         \/ e.text = log[n].text /\ UNCHANGED <<edited, everEdited>>
    <2>1. log[n] \in [there : BOOLEAN, text : Nat, rest : Nat, prev : Seq(Nat), hash : Seq(Nat)]
        BY <1>0 DEF Audit!Shape
    <2> HIDE DEF c, d
    <2>2. CASE e = [log[n] EXCEPT !.text = c] /\ edited' = edited \union {n} /\ everEdited' = everEdited \union {n}
        BY <1>0, <2>1, <2>2
    <2>3. CASE e = [log[n] EXCEPT !.rest = d] /\ UNCHANGED <<edited, everEdited>>
        BY <1>0, <2>1, <2>3
    <2> QED BY <1>1, <2>2, <2>3
<1>4. /\ log' \in [Audit!Ids -> [there : BOOLEAN, text : Nat, rest : Nat, prev : Seq(Nat), hash : Seq(Nat)]]
      /\ log'[n] = e /\ \A i \in Audit!Ids \ {n} : log'[i] = log[i]
    BY <1>0, <1>1, <1>3 DEF Audit!Shape
<1>5. \A i \in Audit!Ids : /\ log'[i].there = log[i].there /\ log'[i].prev = log[i].prev
                           /\ log'[i].hash = log[i].hash
    BY <1>3, <1>4
<1>6. Audit!Present' = Audit!Present
    BY <1>5 DEF Audit!Present
<1>7. Audit!Shape'
    BY <1>0, <1>1, <1>2, <1>3, <1>4, <1>6 DEF Audit!Shape
<1>8. Audit!Seal'
    <2>1. SUFFICES ASSUME NEW i \in Audit!Present
                   PROVE  /\ log'[i].hash = Audit!Hash(log'[i].prev, Audit!Sealed(i)')
                          /\ log'[i].text <= MaxEntries + edits'
                          /\ Audit!Sealed(i)' <= MaxEntries + edits'
                          /\ i \in edited' <=> Audit!Sealed(i)' # log'[i].text
        BY <1>6 DEF Audit!Seal
    <2>2. Audit!Sealed(i)' = Audit!Sealed(i) /\ i \in Audit!Ids
        BY <1>5 DEF Audit!Sealed, Audit!Present
    <2>3. Audit!Sealed(i) \in Nat
        <3>1. log[i].hash = Audit!Hash(log[i].prev, Audit!Sealed(i)) /\ log[i].hash \in Seq(Nat)
            BY <1>0, <2>2 DEF Audit!Seal, Audit!Shape
        <3>2. Len(log[i].hash) \in 1..Len(log[i].hash)
            BY <3>1, AuditHashNotEmpty
        <3> QED BY <3>1, <3>2 DEF Audit!Sealed
    <2>4. log[i].text \in Nat
        BY <1>0, <2>2 DEF Audit!Shape
    <2>5. /\ log[i].hash = Audit!Hash(log[i].prev, Audit!Sealed(i))
          /\ log[i].text <= MaxEntries + edits /\ Audit!Sealed(i) <= MaxEntries + edits
          /\ i \in edited <=> Audit!Sealed(i) # log[i].text
        BY <1>0 DEF Audit!Seal
    <2>6. CASE i = n
        BY <1>0, <1>1, <1>3, <1>4, <1>5, <2>2, <2>3, <2>5, <2>6
    <2>7. CASE i # n
        BY <1>0, <1>1, <1>3, <1>4, <2>2, <2>3, <2>4, <2>5, <2>7
    <2> QED BY <2>6, <2>7
<1>9. ASSUME ~ overlapped' PROVE Audit!InTurn'
    <2>1. Audit!InTurn
        BY <1>2, <1>9 DEF Audit!IInv
    <2>2. \A j \in Audit!Ids \union {Audit!NoRow} : Audit!HashOf(j)' = Audit!HashOf(j)
        BY <1>5 DEF Audit!HashOf
    <2>3. \A x \in Writers : writer[x].row \in Audit!Ids \union {Audit!NoRow}
        BY <1>0 DEF Audit!Shape
    <2>4. \A i \in Audit!Present' : Audit!Linked(i)'
        BY <1>5, <1>6, <2>1, <2>2 DEF Audit!InTurn, Audit!Linked, Audit!Before, Audit!IsLast,
             Audit!Present
    <2> QED BY <1>2, <1>6, <2>1, <2>2, <2>3, <2>4 DEF Audit!InTurn, Audit!Busy, Audit!IsLast
<1> QED BY <1>7, <1>8, <1>9 DEF Audit!IInv

LEMMA AuditPurgeStep ==
    ASSUME Audit!IInv, (\E old \in SUBSET Audit!Ids : Audit!Purge(old)) \/ Audit!PurgeScan
    PROVE  Audit!IInv'
<1>1. UNCHANGED <<log, lastId, writer, edits, edited, everEdited>>
    BY DEF Audit!Purge, Audit!PurgeScan
<1>2. /\ Audit!Present' = Audit!Present /\ Audit!Seal'
      /\ \A i \in Audit!Ids \union {Audit!NoRow} : Audit!HashOf(i)' = Audit!HashOf(i)
      /\ (\A i \in Audit!Present : Audit!Linked(i)) => \A i \in Audit!Present' : Audit!Linked(i)'
    BY <1>1, AuditLogKept
<1>3. Audit!Shape /\ MaxEntries \in Nat /\ Audit!Present \subseteq Audit!Ids
    BY AuditSane DEF Audit!IInv, Audit!Sane, Audit!Present
<1>4. ASSUME NEW old \in SUBSET Audit!Ids, Audit!Purge(old)
      PROVE  Audit!IInv'
    <2>1. purge' = [at |-> "deleted", gone |-> old, seen |-> {}]
        BY <1>4 DEF Audit!Purge
    <2>3. purge' \in [at : {"idle", "deleted", "scanned"}, gone : SUBSET Audit!Ids, seen : SUBSET Audit!Ids]
          /\ purge'.seen = {} /\ purge'.at = "deleted"
        BY <2>1
    <2>4. Audit!Shape'
        BY <1>1, <1>2, <1>3, <2>3 DEF Audit!Shape
    <2>5. ASSUME ~ overlapped' PROVE Audit!InTurn'
        <3>1. ~ overlapped /\ \A x \in Writers : ~ Audit!Busy(x)
            BY <1>4, <2>5 DEF Audit!Purge
        <3>2. \A x \in Writers : ~ Audit!Busy(x)'
            BY <1>1, <3>1 DEF Audit!Busy
        <3> QED BY <1>2, <2>3, <3>1, <3>2 DEF Audit!IInv, Audit!InTurn
    <2> QED BY <1>2, <2>4, <2>5 DEF Audit!IInv
<1>5. CASE Audit!PurgeScan
    <2> DEFINE seen == Audit!Present \ purge.gone
    <2>1. purge' = [purge EXCEPT !.at = "scanned", !.seen = seen] /\ overlapped' = overlapped
          /\ purge.at = "deleted"
        BY <1>5 DEF Audit!PurgeScan
    <2>2. purge \in [at : {"idle", "deleted", "scanned"}, gone : SUBSET Audit!Ids, seen : SUBSET Audit!Ids]
        BY <1>3 DEF Audit!Shape
    <2>3. seen \in SUBSET Audit!Ids /\ seen \subseteq Audit!Present /\ seen \intersect purge.gone = {}
        BY <1>3
    <2>h. seen = Audit!Present \ purge.gone
        OBVIOUS
    <2> HIDE DEF seen
    <2>4. /\ purge' \in [at : {"idle", "deleted", "scanned"}, gone : SUBSET Audit!Ids, seen : SUBSET Audit!Ids]
          /\ purge'.seen = seen /\ purge'.at = "scanned" /\ purge'.gone = purge.gone
        BY <2>1, <2>2, <2>3
    <2>5. Audit!Shape'
        BY <1>1, <1>2, <1>3, <2>3, <2>4 DEF Audit!Shape
    <2>6. ASSUME ~ overlapped' PROVE Audit!InTurn'
        <3>1. Audit!InTurn
            BY <2>1, <2>6 DEF Audit!IInv
        <3>2. \A x \in Writers : ~ Audit!Busy(x)
            BY <2>1, <3>1 DEF Audit!InTurn
        <3>3. \A x \in Writers : ~ Audit!Busy(x)'
            BY <1>1, <3>2 DEF Audit!Busy
        <3>4. purge'.seen = Audit!Present' \ purge'.gone
            BY <1>2, <2>4, <2>h
        <3>5. \A i \in Audit!Present' : Audit!Linked(i)'
            BY <1>2, <3>1 DEF Audit!InTurn
        <3> QED BY <3>3, <3>4, <3>5 DEF Audit!InTurn
    <2> QED BY <1>2, <2>5, <2>6 DEF Audit!IInv
<1> QED BY <1>4, <1>5

LEMMA AuditCommitStep ==
    ASSUME Audit!IInv, Audit!PurgeCommit
    PROVE  Audit!IInv'
<1> DEFINE seen == purge.seen
           gone == purge.gone
           h == Audit!NewHashes(seen)
           R == [there : BOOLEAN, text : Nat, rest : Nat, prev : Seq(Nat), hash : Seq(Nat)]
<1>0. Audit!Shape /\ Audit!Seal /\ MaxEntries \in Nat
    BY AuditSane DEF Audit!IInv, Audit!Sane
<1>1. /\ seen \in SUBSET Audit!Ids /\ seen \subseteq Audit!Present
      /\ \A i \in seen : i \notin gone /\ i \in 1..MaxEntries
      /\ purge.at = "scanned"
    BY <1>0 DEF Audit!Shape, Audit!Ids, Audit!PurgeCommit
<1>2. UNCHANGED <<lastId, writer, purges, edits, overlapped>> /\ purge' = Audit!Quiet
      /\ edited' = edited \ (seen \union gone) /\ everEdited' = everEdited \ gone
    BY DEF Audit!PurgeCommit
<1>3. /\ \A i \in 0..MaxEntries : h[i] \in Seq(Nat)
      /\ \A i \in seen : h[i] = Audit!Hash(h[i - 1], log[i].text)
      /\ \A m \in 0..MaxEntries :
            \E j \in seen \union {Audit!NoRow} : /\ Audit!IsLast(j, {x \in seen : x <= m})
                                          /\ h[m] = IF j = Audit!NoRow THEN Audit!Null ELSE h[j]
    BY <1>0, <1>1, AuditHashesAre
<1>4. log' = [i \in Audit!Ids |-> IF i \in seen THEN Audit!Rehashed(seen)[i]
                            ELSE IF i \in gone THEN [log[i] EXCEPT !.there = FALSE] ELSE log[i]]
    BY DEF Audit!PurgeCommit
<1>5. \A i \in Audit!Ids : Audit!Rehashed(seen)[i] = [there |-> log[i].there, text |-> log[i].text, rest |-> log[i].rest,
                                          prev |-> h[i - 1], hash |-> h[i]]
    BY DEF Audit!Rehashed
<1> HIDE DEF h, seen, gone
<1>6. ASSUME NEW i \in seen
      PROVE  /\ log'[i] \in R /\ log'[i].there /\ log'[i].text = log[i].text
             /\ log'[i].prev = h[i - 1] /\ log'[i].hash = h[i]
             /\ i \in Audit!Ids /\ i - 1 \in 0..MaxEntries /\ i \in 0..MaxEntries
    <2>1. i \in Audit!Ids /\ i \in 1..MaxEntries /\ i \in Audit!Present
        BY <1>1
    <2>2. i - 1 \in 0..MaxEntries /\ i \in 0..MaxEntries
        BY <1>0, <2>1
    <2>3. log'[i] = [there |-> log[i].there, text |-> log[i].text, rest |-> log[i].rest,
                     prev |-> h[i - 1], hash |-> h[i]]
        BY <1>4, <1>5, <2>1
    <2>4. log[i].text \in Nat /\ log[i].rest \in Nat /\ log[i].there = TRUE
        BY <1>0, <2>1 DEF Audit!Shape, Audit!Present
    <2>5. h[i - 1] \in Seq(Nat) /\ h[i] \in Seq(Nat)
        BY <1>3, <2>2
    <2>6. \A a, b : a \in Seq(Nat) /\ b \in Seq(Nat) =>
             [there |-> log[i].there, text |-> log[i].text, rest |-> log[i].rest, prev |-> a, hash |-> b] \in R
        BY <2>4
    <2>7. log'[i] \in R
        BY <2>3, <2>5, <2>6
    <2>8. /\ log'[i].there /\ log'[i].text = log[i].text
          /\ log'[i].prev = h[i - 1] /\ log'[i].hash = h[i]
        BY <2>3, <2>4
    <2> QED BY <2>1, <2>2, <2>7, <2>8
<1>7. ASSUME NEW i \in Audit!Ids, i \notin seen
      PROVE  /\ log'[i] \in R
             /\ i \in gone => ~ log'[i].there
             /\ i \notin gone => log'[i] = log[i]
    <2>1. log[i] \in R
        BY <1>0 DEF Audit!Shape
    <2>2. CASE i \in gone
        <3>1. log'[i] = [log[i] EXCEPT !.there = FALSE]
            BY <1>4, <1>7, <2>2
        <3>2. [log[i] EXCEPT !.there = FALSE] \in R /\ ~ [log[i] EXCEPT !.there = FALSE].there
            BY <2>1
        <3> QED BY <2>2, <3>1, <3>2
    <2>3. CASE i \notin gone
        BY <1>4, <1>7, <2>1, <2>3
    <2> QED BY <2>2, <2>3
<1>8. log' \in [Audit!Ids -> R]
    <2>1. log' = [i \in Audit!Ids |-> log'[i]]
        BY <1>4
    <2>2. \A i \in Audit!Ids : log'[i] \in R
        BY <1>6, <1>7
    <2> HIDE DEF R
    <2> QED BY <2>1, <2>2
<1>9. ASSUME NEW i \in Audit!Present'
      PROVE  /\ i \in Audit!Present
             /\ i \notin seen => i \notin gone /\ log'[i] = log[i]
    <2>1. i \in Audit!Ids /\ log'[i].there
        BY DEF Audit!Present
    <2> QED BY <1>1, <1>7, <2>1 DEF Audit!Present
<1>10. \A i \in Audit!Present : (i \in seen \/ i \notin gone) => i \in Audit!Present'
    BY <1>6, <1>7 DEF Audit!Present
<1>11. Audit!Shape'
    <2>1. Audit!Present' \subseteq 1..lastId /\ lastId' = lastId
        BY <1>0, <1>2, <1>9 DEF Audit!Shape
    <2>2. purge' \in [at : {"idle", "deleted", "scanned"}, gone : SUBSET Audit!Ids, seen : SUBSET Audit!Ids]
          /\ purge'.seen = {}
        BY <1>2 DEF Audit!Quiet
    <2>3. edited' \subseteq Audit!Present'
        <3>1. SUFFICES ASSUME NEW i \in edited' PROVE i \in Audit!Present'
            OBVIOUS
        <3>2. i \in edited /\ i \notin seen /\ i \notin gone
            BY <1>2
        <3>3. i \in Audit!Present /\ i \in Nat /\ i > 0
            BY <1>0, <3>2 DEF Audit!Shape
        <3> QED BY <1>1, <1>10, <3>2, <3>3
    <2>4. edited' \subseteq everEdited'
        BY <1>0, <1>2 DEF Audit!Shape
    <2> QED BY <1>0, <1>2, <1>8, <2>1, <2>2, <2>3, <2>4 DEF Audit!Shape
<1>12. Audit!Seal'
    <2>1. SUFFICES ASSUME NEW i \in Audit!Present'
                   PROVE  /\ log'[i].hash = Audit!Hash(log'[i].prev, Audit!Sealed(i)')
                          /\ log'[i].text <= MaxEntries + edits
                          /\ Audit!Sealed(i)' <= MaxEntries + edits
                          /\ i \in edited' <=> Audit!Sealed(i)' # log'[i].text
        BY <1>2 DEF Audit!Seal
    <2>2. Audit!Sealed(i)' = log'[i].hash[Len(log'[i].hash)]
        BY DEF Audit!Sealed
    <2>3. /\ i \in Audit!Present /\ i \in Audit!Ids
          /\ log[i].hash = Audit!Hash(log[i].prev, Audit!Sealed(i))
          /\ log[i].text <= MaxEntries + edits /\ Audit!Sealed(i) <= MaxEntries + edits
          /\ i \in edited <=> Audit!Sealed(i) # log[i].text
          /\ log[i].text \in Nat
        BY <1>0, <1>9 DEF Audit!Seal, Audit!Shape, Audit!Present
    <2>4. CASE i \in seen
        <3>1. h[i] = Audit!Hash(h[i - 1], log[i].text) /\ h[i - 1] \in Seq(Nat)
            BY <1>3, <1>6, <2>4
        <3>2. Audit!Hash(h[i - 1], log[i].text)[Len(Audit!Hash(h[i - 1], log[i].text))] = log[i].text
            BY <2>3, <3>1, AuditAppended
        <3>3. log'[i].hash = h[i] /\ log'[i].prev = h[i - 1] /\ log'[i].text = log[i].text
            BY <1>6, <2>4
        <3>4. Audit!Sealed(i)' = log[i].text
            BY <2>2, <3>1, <3>2, <3>3
        <3> QED BY <1>2, <2>3, <2>4, <3>1, <3>3, <3>4
    <2>5. CASE i \notin seen
        <3>1. log'[i] = log[i] /\ i \notin gone
            BY <1>1, <1>9, <2>5
        <3>2. Audit!Sealed(i)' = Audit!Sealed(i)
            BY <2>2, <3>1 DEF Audit!Sealed
        <3> QED BY <1>2, <2>3, <2>5, <3>1, <3>2
    <2> QED BY <2>4, <2>5
<1>13. ASSUME ~ overlapped' PROVE Audit!InTurn'
    <2>1. Audit!InTurn
        BY <1>2, <1>13 DEF Audit!IInv
    <2>2. \A x \in Writers : ~ Audit!Busy(x)'
        <3>1. \A x \in Writers : ~ Audit!Busy(x)
            BY <1>1, <2>1 DEF Audit!InTurn
        <3> QED BY <1>2, <3>1 DEF Audit!Busy
    <2>3. Audit!Present' = seen
        <3>1. seen = Audit!Present \ gone
            BY <1>1, <2>1 DEF Audit!InTurn, seen, gone
        <3>2. \A i \in Audit!Present' : i \in seen
            BY <1>9, <3>1
        <3> QED BY <1>1, <1>10, <3>2
    <2>4. ASSUME NEW i \in Audit!Present' PROVE Audit!Linked(i)'
        <3>1. i \in seen /\ i \in Nat /\ i - 1 \in 0..MaxEntries /\ seen \subseteq Nat
            BY <1>0, <1>1, <1>6, <2>3
        <3>2. PICK j \in seen \union {Audit!NoRow} : /\ Audit!IsLast(j, {x \in seen : x <= i - 1})
                                                     /\ h[i - 1] = IF j = Audit!NoRow THEN Audit!Null ELSE h[j]
            BY <1>3, <3>1
        <3>3. Audit!Before(i)' = {x \in seen : x <= i - 1}
            <4>1. Audit!Before(i)' = {x \in seen : x < i}
                BY <2>3 DEF Audit!Before
            <4>2. \A x \in seen : x < i <=> x <= i - 1
                BY <3>1
            <4> QED BY <4>1, <4>2
        <3>4. Audit!IsLast(j, Audit!Before(i))'
            BY <3>2, <3>3 DEF Audit!IsLast
        <3>5. Audit!HashOf(j)' = IF j = Audit!NoRow THEN Audit!Null ELSE log'[j].hash
            BY DEF Audit!HashOf
        <3>6. log'[i].prev = Audit!HashOf(j)'
            BY <1>6, <3>1, <3>2, <3>5
        <3>7. j \in Audit!Ids \union {Audit!NoRow}
            BY <1>1, <3>2
        <3> QED BY <3>4, <3>6, <3>7 DEF Audit!Linked
    <2>5. purge'.at = "idle"
        BY <1>2 DEF Audit!Quiet
    <2> QED BY <2>2, <2>4, <2>5 DEF Audit!InTurn
<1> QED BY <1>11, <1>12, <1>13 DEF Audit!IInv

LEMMA AuditStepHolds == Audit!IInv /\ [Audit!Next]_(Audit!vars) => Audit!IInv'
<1> SUFFICES ASSUME Audit!IInv, [Audit!Next]_(Audit!vars) PROVE Audit!IInv'
    OBVIOUS
<1>1. CASE Audit!Next
    <2>1. ASSUME NEW w \in Writers,
                 \/ \E row \in Audit!Ids \union {Audit!NoRow} : Audit!SelectLast(w, row)
                 \/ Audit!Locked(w) \/ Audit!RollBack(w)
          PROVE  Audit!IInv'
        BY <2>1, AuditWriterStep
    <2>2. ASSUME NEW w \in Writers, Audit!Write(w) PROVE Audit!IInv'
        BY <2>2, AuditWriteStep
    <2>3. ASSUME NEW i \in Audit!Ids, Audit!Edit(i) PROVE Audit!IInv'
        BY <2>3, AuditEditStep
    <2>4. CASE (\E old \in SUBSET Audit!Ids : Audit!Purge(old)) \/ Audit!PurgeScan
        BY <2>4, AuditPurgeStep
    <2>5. CASE Audit!PurgeCommit
        BY <2>5, AuditCommitStep
    <2> QED BY <1>1, <2>1, <2>2, <2>3, <2>4, <2>5 DEF Audit!Next
<1>2. CASE UNCHANGED Audit!vars
    <2>1. UNCHANGED <<log, lastId, writer, purge, purges, edits, edited, everEdited, overlapped>>
        BY <1>2 DEF Audit!vars
    <2>2. /\ Audit!Present' = Audit!Present /\ Audit!Seal'
          /\ \A i \in Audit!Ids \union {Audit!NoRow} : Audit!HashOf(i)' = Audit!HashOf(i)
          /\ (\A i \in Audit!Present : Audit!Linked(i)) => \A i \in Audit!Present' : Audit!Linked(i)'
        BY <2>1, AuditLogKept
    <2>3. Audit!Shape'
        BY <2>1, <2>2 DEF Audit!IInv, Audit!Shape
    <2>4. ASSUME ~ overlapped' PROVE Audit!InTurn'
        <3>1. Audit!InTurn
            BY <2>1, <2>4 DEF Audit!IInv
        <3>2. \A x \in Writers : writer[x].row \in Audit!Ids \union {Audit!NoRow}
            BY DEF Audit!IInv, Audit!Shape
        <3> QED BY <2>1, <2>2, <3>1, <3>2 DEF Audit!InTurn, Audit!Busy, Audit!IsLast
    <2> QED BY <2>2, <2>3, <2>4 DEF Audit!IInv
<1> QED BY <1>1, <1>2

\* An entry whose text is not what its hash was computed from does not verify.
LEMMA AuditEditedShows ==
    ASSUME Audit!IInv, NEW i \in Audit!Present
    PROVE  log[i].hash = Audit!Hash(log[i].prev, log[i].text) <=> i \notin edited
<1>1. /\ log[i].hash = Audit!Hash(log[i].prev, Audit!Sealed(i)) /\ log[i].hash \in Seq(Nat)
      /\ log[i].prev \in Seq(Nat) /\ log[i].text \in Nat
      /\ i \in edited <=> Audit!Sealed(i) # log[i].text
    BY DEF Audit!IInv, Audit!Seal, Audit!Shape, Audit!Present
<1>2. Audit!Hash(log[i].prev, log[i].text)[Len(Audit!Hash(log[i].prev, log[i].text))] = log[i].text
    BY <1>1, AuditAppended
<1>3. Audit!Sealed(i) = log[i].hash[Len(log[i].hash)]
    BY DEF Audit!Sealed
<1> QED BY <1>1, <1>2, <1>3

\* The chain verifies as long as an entry was edited, or until two transactions overlapped.
LEMMA AuditHolds == Audit!Spec => []Audit!Safety
<1>1. Audit!IInv => Audit!Safety
    <2>1. SUFFICES ASSUME Audit!IInv PROVE Audit!TypeOK /\ Audit!ChainTells
        BY DEF Audit!Safety
    <2>2. Audit!TypeOK
        BY <2>1 DEF Audit!IInv, Audit!Shape, Audit!TypeOK
    <2>3. ASSUME ~ overlapped, edited = {} PROVE Audit!Verifies
        BY <2>1, <2>3, AuditEditedShows DEF Audit!IInv, Audit!InTurn, Audit!Verifies
    <2>4. ASSUME edited # {} PROVE ~ Audit!Verifies
        <3>1. PICK i \in edited : TRUE
            BY <2>4
        <3>2. i \in Audit!Present
            BY <2>1, <3>1 DEF Audit!IInv, Audit!Shape
        <3> QED BY <2>1, <3>1, <3>2, AuditEditedShows DEF Audit!Verifies
    <2> QED BY <2>2, <2>3, <2>4 DEF Audit!ChainTells
<1> QED BY <1>1, AuditInitHolds, AuditStepHolds, PTL DEF Audit!Spec

-----------------------------------------------------------------------------
(* SubjectRequests                                                         *)

LEMMA ErasureInitHolds == ASSUME Erasure!Init PROVE Erasure!IInv
<1> USE DEF Erasure!Init
<1>1. Erasure!TypeOK /\ Erasure!SawRows
  BY DEF Erasure!TypeOK, Erasure!SawRows
<1>2. Erasure!Shape
  <2>1. \A q \in Erasure!Ids : DOMAIN request[q] = Erasure!RequestFields /\ request[q].link = 1
    BY DEF Erasure!RequestFields
  <2> QED BY <2>1 DEF Erasure!Shape
<1>3. Erasure!Phases /\ Erasure!HitsCover /\ Erasure!Erased /\ Erasure!LostToErasures
  BY DEF Erasure!Phases, Erasure!HitsCover, Erasure!Erased, Erasure!LostToErasures
<1> QED BY <1>1, <1>2, <1>3 DEF Erasure!IInv

\* A step of one request, in which rows may go.
LEMMA ErasureRequestStep ==
    ASSUME Erasure!IInv, NEW q \in Erasure!Ids, NEW w, request' = [request EXCEPT ![q] = w],
           DOMAIN w = Erasure!RequestFields, w.link \in Nat,
           DOMAIN present' = DOMAIN SubjectRows,
           \A r \in DOMAIN SubjectRows : present'[r] = present[r] \/ present'[r] = "deleted",
           masked \subseteq masked',
           w.at \in {"new", "admitted", "running", "answering", "done"},
           w.status \in {"none", "running", "complete", "failed"},
           w.at \in {"new", "admitted"} => w.status = "none" /\ w.link = 1,
           w.at \in {"running", "answering"} => w.status = "running",
           w.status = "complete" => w.at = "done",
           Inquiries[q] = "erase" /\ w.held => w.at = "done" /\ w.status = "none",
           \A r \in w.saw : r \in DOMAIN SubjectRows /\ present[r] # "new",
           w.at = "running" /\ Inquiries[q] = "erase" =>
               \A i \in DOMAIN Links : i < w.link /\ Links[i].handling # "export" =>
                   \A r \in Erasure!Found(Links[i]) \intersect w.saw :
                       <<r, Links[i].column, Links[i].handling>> \in w.hit,
           (w.at = "answering" \/ w.status = "complete") /\ Inquiries[q] = "erase" =>
               \A i \in DOMAIN Links : Links[i].handling # "export" =>
                   \A r \in Erasure!Found(Links[i])' : r \notin w.saw,
           \/ UNCHANGED <<present, masked>> /\ (request[q].status # "none" /\ ~request[q].held
                                                => w.status # "none" /\ ~w.held)
           \/ Inquiries[q] = "erase" /\ w.status # "none" /\ ~w.held
    PROVE  Erasure!IInv'
<1> USE DEF Erasure!IInv
<1>1. request'[q] = w /\ DOMAIN request' = Erasure!Ids /\ \A x \in Erasure!Ids \ {q} : request'[x] = request[x]
  BY DEF Erasure!Shape
<1>2. Erasure!TypeOK'
  BY <1>1 DEF Erasure!TypeOK
<1>3. Erasure!Shape'
  BY <1>1 DEF Erasure!Shape
<1>4. Erasure!Phases'
  BY <1>1 DEF Erasure!Phases
<1>5. Erasure!SawRows'
  BY <1>1 DEF Erasure!SawRows
<1>6. \A i \in DOMAIN Links : \A r \in Erasure!Found(Links[i])' : r \in Erasure!Found(Links[i])
  BY DEF Erasure!Found
<1>7. Erasure!HitsCover'
  <2> SUFFICES ASSUME NEW x \in Erasure!Ids, request'[x].at = "running", Inquiries[x] = "erase",
                      NEW i \in DOMAIN Links, i < request'[x].link, Links[i].handling # "export",
                      NEW r, r \in Erasure!Found(Links[i])', r \in request'[x].saw
               PROVE  <<r, Links[i].column, Links[i].handling>> \in request'[x].hit
    BY DEF Erasure!HitsCover
  <2>1. r \in Erasure!Found(Links[i])
    BY <1>6
  <2>2. CASE x = q
    BY <1>1, <2>1, <2>2
  <2>3. CASE x # q
    <3>1. request'[x] = request[x]
      BY <1>1, <2>3
    <3> QED BY <2>1, <3>1 DEF Erasure!HitsCover
  <2> QED BY <2>2, <2>3
<1>8. Erasure!Erased'
  <2> SUFFICES ASSUME NEW x \in Erasure!Ids, request'[x].at = "answering" \/ request'[x].status = "complete",
                      Inquiries[x] = "erase", NEW i \in DOMAIN Links, Links[i].handling # "export",
                      NEW r, r \in Erasure!Found(Links[i])', r \in request'[x].saw
               PROVE  FALSE
    BY DEF Erasure!Erased
  <2>1. r \in Erasure!Found(Links[i])
    BY <1>6
  <2>2. CASE x = q
    BY <1>1, <2>2
  <2>3. CASE x # q
    <3>1. request'[x] = request[x]
      BY <1>1, <2>3
    <3> QED BY <2>1, <3>1 DEF Erasure!Erased
  <2> QED BY <2>2, <2>3
<1>9. Erasure!LostToErasures'
  BY <1>1 DEF Erasure!LostToErasures
<1> QED BY <1>2, <1>3, <1>4, <1>5, <1>7, <1>8, <1>9

LEMMA ErasureStepHolds == ASSUME Erasure!IInv, [Erasure!Next]_(Erasure!vars) PROVE Erasure!IInv'
<1> USE DEF Erasure!IInv
<1>1. ASSUME NEW r \in DOMAIN SubjectRows, Erasure!AddRow(r) PROVE Erasure!IInv'
  <2>1. /\ present[r] = "new" /\ present' = [present EXCEPT ![r] = "there"]
        /\ UNCHANGED <<masked, holds, placed, request>>
    BY <1>1 DEF Erasure!AddRow
  <2>2. /\ DOMAIN present' = DOMAIN SubjectRows /\ present'[r] = "there"
        /\ \A x \in DOMAIN SubjectRows \ {r} : present'[x] = present[x]
    BY <2>1 DEF Erasure!Shape
  <2>3. Erasure!TypeOK' /\ Erasure!Shape' /\ Erasure!Phases'
    BY <2>1, <2>2 DEF Erasure!TypeOK, Erasure!Shape, Erasure!Phases
  <2>4. Erasure!SawRows'
    BY <2>1, <2>2 DEF Erasure!SawRows
  <2>5. \A q \in Erasure!Ids, i \in DOMAIN Links : \A x \in request[q].saw :
            x \in Erasure!Found(Links[i])' => x \in Erasure!Found(Links[i])
    BY <2>1, <2>2 DEF Erasure!Found, Erasure!SawRows
  <2>6. Erasure!HitsCover'
    <3> SUFFICES ASSUME NEW q \in Erasure!Ids, request[q].at = "running", Inquiries[q] = "erase",
                        NEW i \in DOMAIN Links, i < request[q].link, Links[i].handling # "export",
                        NEW x, x \in Erasure!Found(Links[i])', x \in request[q].saw
                 PROVE  <<x, Links[i].column, Links[i].handling>> \in request[q].hit
      BY <2>1 DEF Erasure!HitsCover
    <3> QED BY <2>5 DEF Erasure!HitsCover
  <2>7. Erasure!Erased'
    <3> SUFFICES ASSUME NEW q \in Erasure!Ids, request[q].at = "answering" \/ request[q].status = "complete",
                        Inquiries[q] = "erase", NEW i \in DOMAIN Links, Links[i].handling # "export",
                        NEW x, x \in Erasure!Found(Links[i])', x \in request[q].saw
                 PROVE  FALSE
      BY <2>1 DEF Erasure!Erased
    <3> QED BY <2>5 DEF Erasure!Erased
  <2>8. Erasure!LostToErasures'
    BY <2>1, <2>2 DEF Erasure!LostToErasures
  <2> QED BY <2>3, <2>4, <2>6, <2>7, <2>8
<1>2. ASSUME UNCHANGED <<present, masked, request>> PROVE Erasure!IInv'
  BY <1>2 DEF Erasure!TypeOK, Erasure!Shape, Erasure!Phases, Erasure!SawRows,
       Erasure!HitsCover, Erasure!Erased, Erasure!LostToErasures, Erasure!Found
<1>3. ASSUME NEW q \in Erasure!Ids, Erasure!CheckHolds(q) PROVE Erasure!IInv'
  <2> DEFINE w == [request[q] EXCEPT !.held = holds # <<>>,
                     !.at = IF Inquiries[q] = "erase" /\ Erasure!Covered THEN "done" ELSE "admitted"]
  <2>1. /\ request[q].at = "new" /\ request' = [request EXCEPT ![q] = w]
        /\ UNCHANGED <<present, masked, holds, placed>>
    BY <1>3 DEF Erasure!CheckHolds, Erasure!Shape
  <2>2. DOMAIN request[q] = Erasure!RequestFields /\ request[q].link = 1 /\ request[q].status = "none"
    BY <2>1 DEF Erasure!Shape, Erasure!Phases
  <2>3. /\ DOMAIN w = Erasure!RequestFields /\ w.link = 1 /\ w.status = "none" /\ w.saw = request[q].saw
        /\ w.held = (holds # <<>>)
        /\ w.at = IF Inquiries[q] = "erase" /\ Erasure!Covered THEN "done" ELSE "admitted"
    BY <2>2 DEF Erasure!RequestFields
  <2> HIDE DEF w
  <2>4. \A r \in w.saw : r \in DOMAIN SubjectRows /\ present[r] # "new"
    BY <2>3 DEF Erasure!SawRows
  <2>5. w.at \in {"admitted", "done"} /\ (Inquiries[q] = "erase" /\ w.held => w.at = "done")
    BY <2>3 DEF Erasure!Covered
  <2> QED BY <2>1, <2>2, <2>3, <2>4, <2>5, ErasureRequestStep DEF Erasure!Shape
<1>4. ASSUME NEW q \in Erasure!Ids, Erasure!Start(q) PROVE Erasure!IInv'
  <2> DEFINE w == [request[q] EXCEPT !.at = "running", !.status = "running", !.saw = Erasure!Named]
  <2>1. /\ request[q].at = "admitted" /\ request' = [request EXCEPT ![q] = w]
        /\ UNCHANGED <<present, masked, holds, placed>>
    BY <1>4 DEF Erasure!Start, Erasure!Shape
  <2>2. /\ DOMAIN request[q] = Erasure!RequestFields /\ request[q].link = 1
        /\ Inquiries[q] = "erase" => ~request[q].held
    BY <2>1 DEF Erasure!Shape, Erasure!Phases
  <2>3. /\ DOMAIN w = Erasure!RequestFields /\ w.link = 1 /\ w.status = "running" /\ w.at = "running"
        /\ w.saw = Erasure!Named /\ w.held = request[q].held
    BY <2>2 DEF Erasure!RequestFields
  <2> HIDE DEF w
  <2>4. \A r \in w.saw : r \in DOMAIN SubjectRows /\ present[r] # "new"
    BY <2>3 DEF Erasure!Named, Erasure!Found
  <2>5. \A i \in DOMAIN Links : ~(i < w.link)
    <3>1. \A i \in DOMAIN Links : i \in Nat /\ i >= 1
      BY ErasureSane DEF Erasure!Sane
    <3> QED BY <2>3, <3>1
  <2> QED BY <2>1, <2>2, <2>3, <2>4, <2>5, ErasureRequestStep DEF Erasure!Shape
<1>5. ASSUME NEW q \in Erasure!Ids, Erasure!ExportLink(q) PROVE Erasure!IInv'
  <2> DEFINE t == Links[request[q].link].table
             w == [request[q] EXCEPT !.doc = [request[q].doc EXCEPT ![t] = Erasure!Found(Links[request[q].link])],
                                     !.link = request[q].link + 1]
  <2>1. /\ request[q].at = "running" /\ Inquiries[q] = "export" /\ request' = [request EXCEPT ![q] = w]
        /\ UNCHANGED <<present, masked, holds, placed>>
    BY <1>5 DEF Erasure!ExportLink, Erasure!Shape
  <2>2. DOMAIN request[q] = Erasure!RequestFields /\ request[q].link \in Nat /\ request[q].status = "running"
    BY <2>1 DEF Erasure!Shape, Erasure!Phases
  <2>3. /\ DOMAIN w = Erasure!RequestFields /\ w.link = request[q].link + 1 /\ w.status = request[q].status
        /\ w.at = request[q].at /\ w.saw = request[q].saw /\ w.held = request[q].held
    BY <2>2 DEF Erasure!RequestFields
  <2> HIDE DEF w
  <2>4. \A r \in w.saw : r \in DOMAIN SubjectRows /\ present[r] # "new"
    BY <2>3 DEF Erasure!SawRows
  <2>9. /\ w.link \in Nat /\ w.at = "running" /\ w.status = "running" /\ DOMAIN w = Erasure!RequestFields
        /\ DOMAIN present' = DOMAIN SubjectRows /\ UNCHANGED <<present, masked>>
        /\ w.held = request[q].held
    BY <2>1, <2>2, <2>3 DEF Erasure!Shape
  <2>10. request' = [request EXCEPT ![q] = w] /\ Inquiries[q] = "export"
    BY <2>1
  <2> HIDE DEF t
  <2> QED BY <2>4, <2>9, <2>10, ErasureRequestStep
<1>6. ASSUME NEW q \in Erasure!Ids, Erasure!EraseLink(q) PROVE Erasure!IInv'
  <2> DEFINE l == Links[request[q].link]
             found == IF Erasure!Skips(l) THEN {} ELSE Erasure!Found(l)
             w == [request[q] EXCEPT !.link = request[q].link + 1,
                     !.hit = request[q].hit \union {<<r, l.column, l.handling>> : r \in found}]
  <2>1. /\ request[q].at = "running" /\ Inquiries[q] = "erase" /\ request' = [request EXCEPT ![q] = w]
        /\ UNCHANGED <<present, masked, holds, placed>>
    BY <1>6 DEF Erasure!EraseLink, Erasure!Shape
  <2>2. /\ DOMAIN request[q] = Erasure!RequestFields /\ request[q].link \in Nat /\ request[q].status = "running"
        /\ ~request[q].held
    BY <2>1 DEF Erasure!Shape, Erasure!Phases
  <2>3. /\ DOMAIN w = Erasure!RequestFields /\ w.link = request[q].link + 1 /\ w.status = request[q].status
        /\ w.at = request[q].at /\ w.saw = request[q].saw /\ w.held = request[q].held
        /\ w.hit = request[q].hit \union {<<r, l.column, l.handling>> : r \in found}
    BY <2>2 DEF Erasure!RequestFields
  <2> HIDE DEF w
  <2>4. \A r \in w.saw : r \in DOMAIN SubjectRows /\ present[r] # "new"
    BY <2>3 DEF Erasure!SawRows
  <2>5. ASSUME NEW i \in DOMAIN Links, i < w.link, Links[i].handling # "export",
               NEW r, r \in Erasure!Found(Links[i]), r \in w.saw
        PROVE  <<r, Links[i].column, Links[i].handling>> \in w.hit
    <3>1. i \in Nat
      BY ErasureSane DEF Erasure!Sane
    <3>2. CASE i = request[q].link
      <4>1. found = Erasure!Found(Links[i])
        BY <2>5, <3>2 DEF Erasure!Skips
      <4> HIDE DEF found
      <4> QED BY <2>3, <2>5, <3>2, <4>1
    <3>3. CASE i # request[q].link
      <4>1. i < request[q].link
        BY <2>2, <2>3, <2>5, <3>1, <3>3
      <4>2. <<r, Links[i].column, Links[i].handling>> \in request[q].hit
        BY <2>1, <2>3, <2>5, <4>1 DEF Erasure!HitsCover
      <4> QED BY <2>3, <4>2
    <3> QED BY <3>2, <3>3
  <2> HIDE DEF l, found
  <2>9. /\ w.link \in Nat /\ w.at = "running" /\ w.status = "running" /\ DOMAIN w = Erasure!RequestFields
        /\ DOMAIN present' = DOMAIN SubjectRows /\ UNCHANGED <<present, masked>>
        /\ w.held = request[q].held
    BY <2>1, <2>2, <2>3 DEF Erasure!Shape
  <2>10. request' = [request EXCEPT ![q] = w] /\ ~w.held
    BY <2>1, <2>2, <2>3
  <2> QED BY <2>4, <2>5, <2>9, <2>10, ErasureRequestStep
<1>7. ASSUME NEW q \in Erasure!Ids, Erasure!Commit(q) PROVE Erasure!IInv'
  <2> DEFINE hit == request[q].hit
             w == [request[q] EXCEPT !.at = "answering", !.hit = {}]
  <2>1. /\ request[q].at = "running" /\ Inquiries[q] = "erase" /\ request[q].link = Len(Links) + 1
        /\ request' = [request EXCEPT ![q] = w]
        /\ present' = [r \in DOMAIN SubjectRows |->
                         IF \E h \in hit : h[1] = r /\ h[3] = "erase" THEN "deleted" ELSE present[r]]
        /\ masked' = masked \union {<<h[1], h[2]>> : h \in {x \in hit : x[3] = "anonymize"}}
    BY <1>7 DEF Erasure!Commit, Erasure!Shape
  <2>2. /\ DOMAIN request[q] = Erasure!RequestFields /\ request[q].link \in Nat /\ request[q].status = "running"
        /\ ~request[q].held
    BY <2>1 DEF Erasure!Shape, Erasure!Phases
  <2>3. /\ DOMAIN w = Erasure!RequestFields /\ w.link = request[q].link /\ w.status = request[q].status
        /\ w.at = "answering" /\ w.saw = request[q].saw /\ w.held = request[q].held
    BY <2>2 DEF Erasure!RequestFields
  <2> HIDE DEF w
  <2>4. \A r \in w.saw : r \in DOMAIN SubjectRows /\ present[r] # "new"
    BY <2>3 DEF Erasure!SawRows
  <2>5. ASSUME NEW i \in DOMAIN Links, Links[i].handling # "export", NEW r, r \in Erasure!Found(Links[i])'
        PROVE  r \notin w.saw
    <3> SUFFICES ASSUME r \in w.saw PROVE FALSE
      OBVIOUS
    <3>1. /\ r \in DOMAIN SubjectRows /\ present'[r] = "there" /\ <<r, Links[i].column>> \notin masked'
          /\ SubjectRows[r].table = Links[i].table /\ Links[i].column \in SubjectRows[r].columns
      BY <2>5 DEF Erasure!Found
    <3>2. present[r] = "there" /\ <<r, Links[i].column>> \notin masked
      BY <2>1, <3>1
    <3>3. r \in Erasure!Found(Links[i])
      BY <3>1, <3>2 DEF Erasure!Found
    <3>4. i < request[q].link
      BY <2>1, ErasureSane DEF Erasure!Sane
    <3>5. <<r, Links[i].column, Links[i].handling>> \in hit
      BY <2>1, <2>3, <2>5, <3>3, <3>4 DEF Erasure!HitsCover
    <3>6. Links[i].handling = "erase" \/ Links[i].handling = "anonymize"
      BY <2>5, ErasureSane DEF Erasure!Sane
    <3> HIDE DEF hit
    <3>7. CASE Links[i].handling = "erase"
      BY <2>1, <3>1, <3>5, <3>7
    <3>8. CASE Links[i].handling = "anonymize"
      <4> DEFINE h == <<r, Links[i].column, Links[i].handling>>
      <4>1. h \in {x \in hit : x[3] = "anonymize"} /\ <<h[1], h[2]>> = <<r, Links[i].column>>
        BY <3>5, <3>8
      <4>2. <<r, Links[i].column>> \in masked'
        BY <2>1, <4>1
      <4> QED BY <3>1, <4>2
    <3> QED BY <3>6, <3>7, <3>8
  <2>6. /\ DOMAIN present' = DOMAIN SubjectRows /\ masked \subseteq masked'
        /\ \A r \in DOMAIN SubjectRows : present'[r] = present[r] \/ present'[r] = "deleted"
    BY <2>1
  <2> HIDE DEF hit
  <2>7. \A i \in DOMAIN Links : Links[i].handling # "export" =>
           \A r \in Erasure!Found(Links[i])' : r \notin w.saw
    BY <2>5
  <2>8. /\ request' = [request EXCEPT ![q] = w] /\ DOMAIN w = Erasure!RequestFields /\ w.link \in Nat
        /\ w.at = "answering" /\ w.status = "running" /\ ~w.held /\ Inquiries[q] = "erase"
    BY <2>1, <2>2, <2>3
  <2> QED BY <2>4, <2>6, <2>7, <2>8, ErasureRequestStep
<1>8. ASSUME NEW q \in Erasure!Ids, Erasure!Complete(q) PROVE Erasure!IInv'
  <2> DEFINE w == [request[q] EXCEPT !.at = "done", !.status = "complete"]
  <2>1. /\ \/ request[q].at = "answering"
           \/ request[q].at = "running" /\ Inquiries[q] = "export"
        /\ request' = [request EXCEPT ![q] = w] /\ UNCHANGED <<present, masked, holds, placed>>
    BY <1>8 DEF Erasure!Complete, Erasure!Shape
  <2>2. /\ DOMAIN request[q] = Erasure!RequestFields /\ request[q].link \in Nat /\ request[q].status = "running"
        /\ Inquiries[q] = "erase" => ~request[q].held
    BY <2>1 DEF Erasure!Shape, Erasure!Phases
  <2>3. /\ DOMAIN w = Erasure!RequestFields /\ w.link = request[q].link /\ w.status = "complete"
        /\ w.at = "done" /\ w.saw = request[q].saw /\ w.held = request[q].held
    BY <2>2 DEF Erasure!RequestFields
  <2> HIDE DEF w
  <2>4. \A r \in w.saw : r \in DOMAIN SubjectRows /\ present[r] # "new"
    BY <2>3 DEF Erasure!SawRows
  <2>5. Inquiries[q] = "erase" =>
            \A i \in DOMAIN Links : Links[i].handling # "export" => \A r \in Erasure!Found(Links[i])' : r \notin w.saw
    <3>1. \A i \in DOMAIN Links : Erasure!Found(Links[i])' = Erasure!Found(Links[i])
      BY <2>1 DEF Erasure!Found
    <3> QED BY <2>1, <2>3, <3>1 DEF Erasure!Erased
  <2> QED BY <2>1, <2>2, <2>3, <2>4, <2>5, ErasureRequestStep DEF Erasure!Shape
<1>9. ASSUME NEW q \in Erasure!Ids, Erasure!Fail(q) PROVE Erasure!IInv'
  <2> DEFINE w == [request[q] EXCEPT !.at = "done", !.status = "failed", !.hit = {}]
  <2>1. /\ request[q].at \in {"running", "answering"}
        /\ request' = [request EXCEPT ![q] = w] /\ UNCHANGED <<present, masked, holds, placed>>
    BY <1>9 DEF Erasure!Fail, Erasure!Shape
  <2>2. /\ DOMAIN request[q] = Erasure!RequestFields /\ request[q].link \in Nat
        /\ Inquiries[q] = "erase" => ~request[q].held
    BY <2>1 DEF Erasure!Shape, Erasure!Phases
  <2>3. /\ DOMAIN w = Erasure!RequestFields /\ w.link = request[q].link /\ w.status = "failed"
        /\ w.at = "done" /\ w.saw = request[q].saw /\ w.held = request[q].held
    BY <2>2 DEF Erasure!RequestFields
  <2> HIDE DEF w
  <2>4. \A r \in w.saw : r \in DOMAIN SubjectRows /\ present[r] # "new"
    BY <2>3 DEF Erasure!SawRows
  <2> QED BY <2>1, <2>2, <2>3, <2>4, ErasureRequestStep DEF Erasure!Shape
<1>10. ASSUME NEW q \in Erasure!Ids, Erasure!Die(q) PROVE Erasure!IInv'
  <2> DEFINE w == [request[q] EXCEPT !.at = "done", !.hit = {}]
  <2>1. /\ request[q].at \in {"admitted", "running", "answering"}
        /\ request' = [request EXCEPT ![q] = w] /\ UNCHANGED <<present, masked, holds, placed>>
    BY <1>10 DEF Erasure!Die, Erasure!Shape
  <2>2. /\ DOMAIN request[q] = Erasure!RequestFields /\ request[q].link \in Nat
        /\ request[q].status \in {"none", "running"}
        /\ Inquiries[q] = "erase" => ~request[q].held
    BY <2>1 DEF Erasure!Shape, Erasure!Phases
  <2>3. /\ DOMAIN w = Erasure!RequestFields /\ w.link = request[q].link /\ w.status = request[q].status
        /\ w.at = "done" /\ w.saw = request[q].saw /\ w.held = request[q].held
    BY <2>2 DEF Erasure!RequestFields
  <2> HIDE DEF w
  <2>4. \A r \in w.saw : r \in DOMAIN SubjectRows /\ present[r] # "new"
    BY <2>3 DEF Erasure!SawRows
  <2> QED BY <2>1, <2>2, <2>3, <2>4, ErasureRequestStep DEF Erasure!Shape
<1>11. CASE Erasure!Lift \/ \E h \in {"subject", "everyone"} : Erasure!Place(h)
  BY <1>2, <1>11 DEF Erasure!Lift, Erasure!Place
<1>12. CASE UNCHANGED Erasure!vars
  BY <1>2, <1>12 DEF Erasure!vars
<1> QED BY <1>1, <1>3, <1>4, <1>5, <1>6, <1>7, <1>8, <1>9, <1>10, <1>11, <1>12 DEF Erasure!Next

\* What an erasure has reported as complete no link finds again; a held erasure leaves nothing.
LEMMA ErasureHolds == Erasure!Spec => []Erasure!Safety
<1>1. Erasure!IInv => Erasure!Safety
  BY DEF Erasure!IInv, Erasure!Safety, Erasure!ErasedIsGone, Erasure!Erased,
       Erasure!HeldIsRefused, Erasure!Phases
<1> QED BY <1>1, ErasureInitHolds, ErasureStepHolds, PTL DEF Erasure!Spec

-----------------------------------------------------------------------------
(* PiiAnonymizer                                                           *)

\* The block counts as FiniteSets does.
LEMMA MaskingFinite ==
    \A S : (Masking!IsFiniteSet(S) <=> IsFiniteSet(S)) /\ Masking!Cardinality(S) = Cardinality(S)
BY DEF Masking!IsFiniteSet, IsFiniteSet, Masking!Cardinality, Cardinality

LEMMA MaskingInitHolds == ASSUME Masking!Init PROVE Masking!IInv
<1> USE DEF Masking!Init
<1>0. \A n \in MaskRuns : /\ DOMAIN run[n] = Masking!RunFields /\ run[n].at = "new" /\ run[n].cursor = 0
                          /\ run[n].todo = {} /\ run[n].rules = {}
                          /\ run[n].detail = [r \in Rules |-> Masking!NoDetail]
  BY DEF Masking!RunFields
<1>1. \A n \in MaskRuns : /\ DOMAIN runs[n] = {"status", "applied", "masked", "detail"}
                          /\ runs[n].status = "none" /\ runs[n].detail = [r \in Rules |-> Masking!NoDetail]
  OBVIOUS
<1>2. \A r \in Rules : [x \in Rules |-> Masking!NoDetail][r].cursor = 0
  BY DEF Masking!NoDetail
<1>3. Masking!TypeOK
  BY <1>1 DEF Masking!TypeOK, Masking!Null
<1>4. Masking!Shape
  BY <1>0, <1>1 DEF Masking!Shape
<1>5. Masking!Phases
  BY <1>0, <1>1, <1>2 DEF Masking!Phases, Masking!Alive, Masking!InTable
<1>6. Masking!LeftTables /\ Masking!BehindCursor /\ Masking!Batches
  BY <1>0, <1>1 DEF Masking!LeftTables, Masking!BehindCursor, Masking!Batches, Masking!Alive,
       Masking!InTable
<1>7. Masking!CursorIsSafe
  <2>1. \A k \in PrimaryKeys : ~(k <= 0)
    BY MaskingSane DEF Masking!Sane
  <2> QED BY <1>1, <1>2, <2>1 DEF Masking!CursorIsSafe
<1> QED BY <1>3, <1>4, <1>5, <1>6, <1>7 DEF Masking!IInv

\* A step of one run: it may mask cells.
LEMMA MaskingRunStep ==
    ASSUME Masking!IInv, NEW n \in MaskRuns, NEW w, NEW v,
           run' = [run EXCEPT ![n] = w], runs' = [runs EXCEPT ![n] = v],
           active' = active, touched' = touched, cell' \in [Masking!Cells -> 0..2 \union {Masking!Null}],
           \A c \in Masking!Cells : cell[c] # 0 => cell'[c] # 0,
           DOMAIN w = Masking!RunFields, DOMAIN v = {"status", "applied", "masked", "detail"},
           w.detail = v.detail, DOMAIN w.detail = Rules, w.cursor \in Nat,
           w.todo \subseteq Rules, w.rules \subseteq Rules,
           v.status \in {"none", "refused", "running", "complete", "failed"},
           w.at \in Masking!Alive => v.status = "running",
           w.at \notin Masking!Alive => w.at = "refused" \/ w.at = "done",
           v.status = "complete" => w.at = "done" /\ w.todo = {},
           v.status = "none" => w.at = "refused" /\ \A r \in Rules : w.detail[r].cursor = 0,
           w.at \in Masking!Alive \/ v.status = "complete" =>
               \A r \in w.rules \intersect HasKey :
                   r \in w.todo \/ (w.at \in Masking!InTable /\ r = w.rule) \/ \A k \in PrimaryKeys : Masking!DoneIn(cell', n, r, k),
           w.at \in Masking!InTable =>
               w.rule \in Rules /\ \A k \in PrimaryKeys : k <= w.cursor => Masking!DoneIn(cell', n, w.rule, k),
           w.at \in {"masking", "recording"} =>
               /\ DOMAIN w.batch \subseteq PrimaryKeys /\ \A k \in DOMAIN w.batch : w.batch[k] \in 0..2
               /\ \A k \in PrimaryKeys \ DOMAIN w.batch :
                     (\E j \in DOMAIN w.batch : k <= j) \/ Cardinality(DOMAIN w.batch) < MaskBatch
                         => Masking!DoneIn(cell', n, w.rule, k)
               /\ w.at = "recording" => \A k \in DOMAIN w.batch : Masking!DoneIn(cell', n, w.rule, k),
           \A r \in Rules, k \in PrimaryKeys : k <= w.detail[r].cursor => Masking!DoneIn(cell', n, r, k)
    PROVE  Masking!IInv'
<1> USE DEF Masking!IInv
<1>1. /\ run'[n] = w /\ DOMAIN run' = MaskRuns /\ \A m \in MaskRuns \ {n} : run'[m] = run[m]
      /\ runs'[n] = v /\ DOMAIN runs' = MaskRuns /\ \A m \in MaskRuns \ {n} : runs'[m] = runs[m]
  BY DEF Masking!Shape
<1>2. \A m \in MaskRuns, r \in Rules, k \in PrimaryKeys : Masking!Done(m, r, k) => Masking!DoneIn(cell', m, r, k)
  BY DEF Masking!Done, Masking!DoneIn, Masking!Cells
<1>3. Masking!TypeOK'
  BY <1>1 DEF Masking!TypeOK
<1>4. Masking!Shape'
  BY <1>1 DEF Masking!Shape
<1>5. Masking!Phases'
  BY <1>1 DEF Masking!Phases, Masking!Alive, Masking!InTable
<1>6. Masking!LeftTables'
  <2> SUFFICES ASSUME NEW m \in MaskRuns, run'[m].at \in Masking!Alive \/ runs'[m].status = "complete",
                      NEW r \in run'[m].rules \intersect HasKey
               PROVE  \/ r \in run'[m].todo
                      \/ run'[m].at \in Masking!InTable /\ r = run'[m].rule
                      \/ \A k \in PrimaryKeys : Masking!DoneIn(cell', m, r, k)
    BY DEF Masking!LeftTables, Masking!Done, Masking!DoneIn
  <2>1. CASE m = n
    BY <1>1, <2>1
  <2>2. CASE m # n
    <3>1. run'[m] = run[m] /\ runs'[m] = runs[m] /\ r \in Rules
      BY <1>1, <2>2 DEF Masking!Shape
    <3> QED BY <1>2, <3>1 DEF Masking!LeftTables
  <2> QED BY <2>1, <2>2
<1>7. Masking!BehindCursor'
  <2> SUFFICES ASSUME NEW m \in MaskRuns, run'[m].at \in Masking!InTable
               PROVE  /\ run'[m].rule \in Rules
                      /\ \A k \in PrimaryKeys : k <= run'[m].cursor => Masking!DoneIn(cell', m, run'[m].rule, k)
    BY DEF Masking!BehindCursor, Masking!Done, Masking!DoneIn
  <2>1. CASE m = n
    BY <1>1, <2>1
  <2>2. CASE m # n
    <3>1. run'[m] = run[m]
      BY <1>1, <2>2
    <3> QED BY <1>2, <3>1 DEF Masking!BehindCursor
  <2> QED BY <2>1, <2>2
<1>8. Masking!Batches'
  <2> SUFFICES ASSUME NEW m \in MaskRuns, run'[m].at \in {"masking", "recording"}
               PROVE  LET b == run'[m].batch
                          r == run'[m].rule
                      IN  /\ DOMAIN b \subseteq PrimaryKeys /\ \A k \in DOMAIN b : b[k] \in 0..2
                          /\ \A k \in PrimaryKeys \ DOMAIN b :
                                (\E j \in DOMAIN b : k <= j) \/ Cardinality(DOMAIN b) < MaskBatch
                                    => (r \in SameText => cell'[<<r, k>>] # 0 \/ <<r, k>> \in touched'[m])
                          /\ run'[m].at = "recording" =>
                                \A k \in DOMAIN b : r \in SameText => cell'[<<r, k>>] # 0 \/ <<r, k>> \in touched'[m]
    BY MaskingFinite DEF Masking!Batches, Masking!IsLast, Masking!Done, Masking!DoneIn
  <2>1. CASE m = n
    BY <1>1, <2>1 DEF Masking!Done, Masking!DoneIn
  <2>2. CASE m # n
    <3>1. run'[m] = run[m] /\ run[m].rule \in Rules
      BY <1>1, <2>2 DEF Masking!BehindCursor, Masking!InTable
    <3> QED BY <1>2, <3>1, MaskingFinite DEF Masking!Batches, Masking!IsLast, Masking!Done,
         Masking!DoneIn
  <2> QED BY <2>1, <2>2
<1>9. Masking!CursorIsSafe'
  <2> SUFFICES ASSUME NEW m \in MaskRuns, NEW r \in Rules, NEW k \in PrimaryKeys,
                      k <= runs'[m].detail[r].cursor
               PROVE  Masking!DoneIn(cell', m, r, k)
    BY DEF Masking!CursorIsSafe, Masking!Done, Masking!DoneIn
  <2>1. CASE m = n
    BY <1>1, <2>1
  <2>2. CASE m # n
    <3>1. runs'[m] = runs[m]
      BY <1>1, <2>2
    <3> QED BY <1>2, <3>1 DEF Masking!CursorIsSafe
  <2> QED BY <2>1, <2>2
<1> QED BY <1>3, <1>4, <1>5, <1>6, <1>7, <1>8, <1>9

\* What a run knows of itself.
LEMMA MaskingRunFacts ==
    ASSUME Masking!IInv, NEW n \in MaskRuns
    PROVE  /\ DOMAIN run[n] = Masking!RunFields /\ DOMAIN runs[n] = {"status", "applied", "masked", "detail"}
           /\ run[n].detail = runs[n].detail /\ DOMAIN run[n].detail = Rules
           /\ run[n].cursor \in Nat /\ run[n].todo \subseteq Rules /\ run[n].rules \subseteq Rules
           /\ run[n].at \in Masking!Alive => runs[n].status = "running"
           /\ cell \in [Masking!Cells -> 0..2 \union {Masking!Null}]
           /\ \A r \in Rules, k \in PrimaryKeys : k <= run[n].detail[r].cursor => Masking!Done(n, r, k)
BY DEF Masking!IInv, Masking!Shape, Masking!Phases, Masking!TypeOK, Masking!CursorIsSafe

LEMMA MaskingStepHolds == ASSUME Masking!IInv, [Masking!Next]_(Masking!vars) PROVE Masking!IInv'
<1> USE DEF Masking!IInv
<1>1. ASSUME NEW r \in Rules, Masking!Declare(r) PROVE Masking!IInv'
  <2>1. active' = active \union {r} /\ UNCHANGED <<cell, run, runs, writes, touched>>
    BY <1>1 DEF Masking!Declare
  <2> QED BY <2>1 DEF Masking!TypeOK, Masking!Shape, Masking!Phases, Masking!LeftTables,
       Masking!BehindCursor, Masking!Batches, Masking!IsLast,
                      Masking!CursorIsSafe, Masking!Done
<1>2. ASSUME UNCHANGED <<active, cell, run, runs, touched>> PROVE Masking!IInv'
  BY <1>2 DEF Masking!TypeOK, Masking!Shape, Masking!Phases, Masking!LeftTables,
       Masking!BehindCursor, Masking!Batches, Masking!IsLast, Masking!CursorIsSafe,
       Masking!Done, Masking!DoneIn
<1>3. ASSUME NEW n \in MaskRuns, Masking!Refuse(n) PROVE Masking!IInv'
  <2> DEFINE w == [run[n] EXCEPT !.at = "refused"]
             v == runs'[n]
  <2>0. /\ DOMAIN run[n] = Masking!RunFields /\ DOMAIN runs[n] = {"status", "applied", "masked", "detail"}
        /\ run[n].at = "new" /\ runs[n].status = "none"
        /\ \A r \in Rules : run[n].detail[r].cursor = 0
    BY <1>3 DEF Masking!Refuse, Masking!Shape, Masking!Phases
  <2>1. /\ run' = [run EXCEPT ![n] = w] /\ runs' = [runs EXCEPT ![n] = v]
        /\ UNCHANGED <<active, cell, writes, touched>>
    <3>1. /\ run' = [run EXCEPT ![n] = w] /\ UNCHANGED <<active, cell, writes, touched>>
          /\ runs' = [runs EXCEPT ![n].status = "refused"] \/ runs' = runs
      BY <1>3 DEF Masking!Refuse
    <3>2. runs = [m \in MaskRuns |-> runs[m]]
      BY DEF Masking!Shape
    <3> QED BY <3>1, <3>2
  <2>2. /\ DOMAIN w = Masking!RunFields /\ w.at = "refused" /\ w.detail = run[n].detail
        /\ w.cursor = run[n].cursor /\ w.todo = run[n].todo /\ w.rules = run[n].rules
    BY <2>0 DEF Masking!RunFields
  <2>3. /\ DOMAIN v = {"status", "applied", "masked", "detail"} /\ v.detail = runs[n].detail
        /\ v.status = "none" \/ v.status = "refused"
    <3>1. runs[n] = v \/ [runs[n] EXCEPT !.status = "refused"] = v
      BY <1>3 DEF Masking!Refuse, Masking!Shape
    <3> HIDE DEF v
    <3> QED BY <2>0, <3>1
  <2> HIDE DEF w, v
  <2>4. \A r \in Rules, k \in PrimaryKeys : k <= w.detail[r].cursor => Masking!DoneIn(cell', n, r, k)
    BY <2>1, <2>2, MaskingRunFacts DEF Masking!Done, Masking!DoneIn
  <2>8. /\ cell' \in [Masking!Cells -> 0..2 \union {Masking!Null}] /\ \A c \in Masking!Cells : cell[c] # 0 => cell'[c] # 0
        /\ active' = active /\ touched' = touched
    BY <2>1, MaskingRunFacts
  <2>9. w.at \notin Masking!Alive /\ w.at \notin Masking!InTable /\ w.at \notin {"masking", "recording"}
    BY <2>2 DEF Masking!Alive, Masking!InTable
  <2>10. /\ w.detail = v.detail /\ DOMAIN w.detail = Rules /\ w.cursor \in Nat
         /\ w.todo \subseteq Rules /\ w.rules \subseteq Rules
         /\ \A r \in Rules : w.detail[r].cursor = 0
    BY <2>0, <2>2, <2>3, MaskingRunFacts
  <2>11. run' = [run EXCEPT ![n] = w] /\ runs' = [runs EXCEPT ![n] = v]
    BY <2>1
  <2> QED BY <2>2, <2>3, <2>4, <2>8, <2>9, <2>10, <2>11, MaskingRunStep
<1>4. ASSUME NEW n \in MaskRuns, Masking!Start(n) PROVE Masking!IInv'
  <2> DEFINE w == [run[n] EXCEPT !.at = "next", !.rules = active, !.todo = active]
             v == [runs[n] EXCEPT !.status = "running"]
  <2>0. DOMAIN run[n] = Masking!RunFields /\ DOMAIN runs[n] = {"status", "applied", "masked", "detail"}
    BY DEF Masking!Shape
  <2>1. /\ run' = [run EXCEPT ![n] = w] /\ runs' = [runs EXCEPT ![n] = v]
        /\ UNCHANGED <<active, cell, writes, touched>>
    BY <1>4 DEF Masking!Start, Masking!Shape
  <2>2. /\ DOMAIN w = Masking!RunFields /\ w.at = "next" /\ w.detail = run[n].detail
        /\ w.cursor = run[n].cursor /\ w.todo = active /\ w.rules = active
    BY <2>0 DEF Masking!RunFields
  <2>3. /\ DOMAIN v = {"status", "applied", "masked", "detail"} /\ v.detail = runs[n].detail
        /\ v.status = "running"
    BY <2>0
  <2> HIDE DEF w, v
  <2>4. \A r \in Rules, k \in PrimaryKeys : k <= w.detail[r].cursor => Masking!DoneIn(cell', n, r, k)
    BY <2>1, <2>2, MaskingRunFacts DEF Masking!Done, Masking!DoneIn
  <2>5. active \subseteq Rules
    BY DEF Masking!Shape
  <2>8. /\ cell' \in [Masking!Cells -> 0..2 \union {Masking!Null}] /\ \A c \in Masking!Cells : cell[c] # 0 => cell'[c] # 0
        /\ active' = active /\ touched' = touched
    BY <2>1, MaskingRunFacts
  <2>9. w.at \in Masking!Alive /\ w.at \notin Masking!InTable /\ w.at \notin {"masking", "recording"}
    BY <2>2 DEF Masking!Alive, Masking!InTable
  <2>10. /\ w.detail = v.detail /\ DOMAIN w.detail = Rules /\ w.cursor \in Nat
         /\ w.todo \subseteq Rules /\ w.rules \subseteq Rules
         /\ \A x \in w.rules : x \in w.todo
    BY <2>2, <2>3, <2>5, MaskingRunFacts
  <2>11. run' = [run EXCEPT ![n] = w] /\ runs' = [runs EXCEPT ![n] = v]
    BY <2>1
  <2> QED BY <2>2, <2>3, <2>4, <2>8, <2>9, <2>10, <2>11, MaskingRunStep
<1>5. ASSUME NEW n \in MaskRuns, Masking!NextRule(n) PROVE Masking!IInv'
  <2>1. PICK r \in run[n].todo :
            run' = [run EXCEPT ![n] =
                       IF r \in HasKey
                       THEN [run[n] EXCEPT !.at = "reading", !.todo = @ \ {r}, !.rule = r, !.cursor = 0]
                       ELSE [run[n] EXCEPT !.todo = @ \ {r}]]
    BY <1>5 DEF Masking!NextRule
  <2> DEFINE w == IF r \in HasKey
                  THEN [run[n] EXCEPT !.at = "reading", !.todo = @ \ {r}, !.rule = r, !.cursor = 0]
                  ELSE [run[n] EXCEPT !.todo = @ \ {r}]
             v == runs[n]
  <2>2. run' = [run EXCEPT ![n] = w] /\ run[n].at = "next" /\ UNCHANGED <<active, cell, runs, writes, touched>>
    BY <1>5, <2>1 DEF Masking!NextRule
  <2>3. runs' = [runs EXCEPT ![n] = v]
    BY <2>2 DEF Masking!Shape
  <2>4. DOMAIN run[n] = Masking!RunFields /\ r \in Rules
    BY DEF Masking!Shape
  <2>5. /\ DOMAIN w = Masking!RunFields /\ w.detail = run[n].detail /\ w.rules = run[n].rules
        /\ w.todo = run[n].todo \ {r} /\ w.cursor \in Nat
        /\ IF r \in HasKey THEN w.at = "reading" /\ w.rule = r /\ w.cursor = 0 ELSE w.at = "next"
    <3>1. run[n].cursor \in Nat /\ 0 \in Nat
      BY DEF Masking!Shape
    <3>2. CASE r \in HasKey
      BY <2>4, <3>1, <3>2 DEF Masking!RunFields
    <3>3. CASE r \notin HasKey
      BY <2>2, <2>4, <3>1, <3>3 DEF Masking!RunFields
    <3> QED BY <3>2, <3>3
  <2> HIDE DEF w
  <2>6. \A x \in Rules, k \in PrimaryKeys : k <= w.detail[x].cursor => Masking!DoneIn(cell', n, x, k)
    BY <2>2, <2>5, MaskingRunFacts DEF Masking!Done, Masking!DoneIn
  <2>7. ASSUME NEW x \in w.rules \intersect HasKey
        PROVE  x \in w.todo \/ (w.at \in Masking!InTable /\ x = w.rule) \/ \A k \in PrimaryKeys : Masking!DoneIn(cell', n, x, k)
    <3>1. x \in run[n].todo \/ \A k \in PrimaryKeys : Masking!Done(n, x, k)
      BY <2>2, <2>5 DEF Masking!LeftTables, Masking!Alive, Masking!InTable
    <3>2. CASE x = r
      BY <2>5, <3>2 DEF Masking!InTable
    <3>3. CASE x # r
      <4>1. x \in w.todo <=> x \in run[n].todo
        BY <2>5, <3>3
      <4>2. \A k \in PrimaryKeys : Masking!Done(n, x, k) => Masking!DoneIn(cell', n, x, k)
        BY <2>2 DEF Masking!Done, Masking!DoneIn
      <4> QED BY <3>1, <4>1, <4>2
    <3> QED BY <3>2, <3>3
  <2>8. w.at = "reading" => \A k \in PrimaryKeys : ~(k <= w.cursor)
    <3>1. w.at = "reading" => w.cursor = 0
      BY <2>5
    <3>2. \A k \in PrimaryKeys : ~(k <= 0)
      BY MaskingSane, MaskingFinite DEF Masking!Sane
    <3> QED BY <3>1, <3>2
  <2>9. w.at \in Masking!Alive /\ w.at \notin {"masking", "recording"} /\ (w.at \in Masking!InTable => w.at = "reading")
        /\ v.status = "running" /\ w.at \in {"next", "reading"}
    BY <2>2, <2>5, MaskingRunFacts DEF Masking!Alive, Masking!InTable
  <2>10. w.at = "reading" => w.rule \in Rules
    BY <2>4, <2>5
  <2>11. /\ cell' \in [Masking!Cells -> 0..2 \union {Masking!Null}] /\ \A c \in Masking!Cells : cell[c] # 0 => cell'[c] # 0
         /\ active' = active /\ touched' = touched /\ run' = [run EXCEPT ![n] = w]
    BY <2>2, MaskingRunFacts
  <2>12. /\ w.detail = v.detail /\ DOMAIN w.detail = Rules /\ w.cursor \in Nat
         /\ w.todo \subseteq Rules /\ w.rules \subseteq Rules /\ DOMAIN w = Masking!RunFields
         /\ DOMAIN v = {"status", "applied", "masked", "detail"} /\ w.at # "done"
    BY <2>5, <2>9, MaskingRunFacts
  <2>13. w.at \in Masking!InTable => w.rule \in Rules /\ \A k \in PrimaryKeys : k <= w.cursor => Masking!DoneIn(cell', n, w.rule, k)
    BY <2>8, <2>9, <2>10
  <2> HIDE DEF v
  <2> QED BY <2>3, <2>6, <2>7, <2>9, <2>11, <2>12, <2>13, MaskingRunStep
<1>6. ASSUME NEW n \in MaskRuns, Masking!ReadBatch(n) PROVE Masking!IInv'
  <2> DEFINE r == run[n].rule
             v == runs[n]
  <2>1. run[n].at = "reading" /\ UNCHANGED <<active, cell, runs, writes, touched>>
    BY <1>6 DEF Masking!ReadBatch
  <2>2. runs' = [runs EXCEPT ![n] = v]
    BY <2>1 DEF Masking!Shape
  <2>3. DOMAIN run[n] = Masking!RunFields /\ r \in Rules
    BY <2>1 DEF Masking!Shape, Masking!BehindCursor, Masking!InTable
  <2>4. \A k \in PrimaryKeys : k <= run[n].cursor => Masking!Done(n, r, k)
    BY <2>1 DEF Masking!BehindCursor, Masking!InTable
  <2>5. \A k \in PrimaryKeys : k \in Masking!After(n) \/ Masking!Done(n, r, k)
    <3>1. run[n].cursor \in Nat /\ PrimaryKeys \subseteq Nat
      BY MaskingSane DEF Masking!Shape, Masking!Sane
    <3> QED BY <2>4, <3>1, MaskingFinite DEF Masking!After, Masking!Done, Masking!DoneIn,
         Masking!Null
  <2>6. \A x \in Rules, k \in PrimaryKeys : Masking!Done(n, x, k) <=> Masking!DoneIn(cell', n, x, k)
    BY <2>1 DEF Masking!Done, Masking!DoneIn
  <2>7. \A x \in run[n].rules \intersect HasKey :
            x \in run[n].todo \/ x = r \/ \A k \in PrimaryKeys : Masking!Done(n, x, k)
    BY <2>1 DEF Masking!LeftTables, Masking!Alive, Masking!InTable
  <2>10. /\ cell' \in [Masking!Cells -> 0..2 \union {Masking!Null}] /\ \A c \in Masking!Cells : cell[c] # 0 => cell'[c] # 0
         /\ active' = active /\ touched' = touched
         /\ DOMAIN v = {"status", "applied", "masked", "detail"} /\ v.status = "running"
    BY <2>1, MaskingRunFacts DEF Masking!Alive, Masking!InTable
  <2>8. ASSUME Masking!After(n) = {},
               run' = [run EXCEPT ![n] = [run[n] EXCEPT !.at = "next", !.applied = @ + 1]]
        PROVE  Masking!IInv'
    <3> DEFINE w == [run[n] EXCEPT !.at = "next", !.applied = @ + 1]
    <3>1. /\ DOMAIN w = Masking!RunFields /\ w.detail = run[n].detail /\ w.rules = run[n].rules
          /\ w.todo = run[n].todo /\ w.cursor = run[n].cursor /\ w.at = "next"
      BY <2>3 DEF Masking!RunFields
    <3>2. run' = [run EXCEPT ![n] = w]
      BY <2>8
    <3> HIDE DEF w
    <3>3. \A x \in Rules, k \in PrimaryKeys : k <= w.detail[x].cursor => Masking!DoneIn(cell', n, x, k)
      BY <2>6, <3>1, MaskingRunFacts
    <3>4. \A x \in w.rules \intersect HasKey : x \in w.todo \/ \A k \in PrimaryKeys : Masking!DoneIn(cell', n, x, k)
      BY <2>3, <2>5, <2>6, <2>7, <2>8, <3>1, MaskingRunFacts
    <3>5. v.status = "running" /\ w.at \in Masking!Alive /\ w.at \notin Masking!InTable
      BY <2>1, <3>1, MaskingRunFacts DEF Masking!Alive, Masking!InTable
    <3>6. w.at \notin {"masking", "recording"}
      BY <3>1
    <3>7. /\ w.detail = v.detail /\ DOMAIN w.detail = Rules /\ w.cursor \in Nat
          /\ w.todo \subseteq Rules /\ w.rules \subseteq Rules /\ DOMAIN w = Masking!RunFields
      BY <3>1, MaskingRunFacts
    <3> HIDE DEF r, v
    <3> QED BY <2>2, <2>10, <3>2, <3>3, <3>4, <3>5, <3>6, <3>7, MaskingRunStep
  <2>9. ASSUME NEW page \in SUBSET Masking!After(n) \ {{}}, Masking!IsPage(page, Masking!After(n)),
               run' = [run EXCEPT ![n] = [run[n] EXCEPT !.at = "masking",
                                             !.batch = [k \in page |-> cell[<<r, k>>]]]]
        PROVE  Masking!IInv'
    <3> DEFINE w == [run[n] EXCEPT !.at = "masking", !.batch = [k \in page |-> cell[<<r, k>>]]]
    <3>1. /\ DOMAIN w = Masking!RunFields /\ w.detail = run[n].detail /\ w.rules = run[n].rules
          /\ w.todo = run[n].todo /\ w.cursor = run[n].cursor /\ w.at = "masking"
          /\ w.batch = [k \in page |-> cell[<<r, k>>]] /\ w.rule = r
      BY <2>3 DEF Masking!RunFields
    <3>2. run' = [run EXCEPT ![n] = w]
      BY <2>9
    <3> HIDE DEF w
    <3>3. \A x \in Rules, k \in PrimaryKeys : k <= w.detail[x].cursor => Masking!DoneIn(cell', n, x, k)
      BY <2>6, <3>1, MaskingRunFacts
    <3>4. \A x \in w.rules \intersect HasKey : x \in w.todo \/ x = w.rule \/ \A k \in PrimaryKeys : Masking!DoneIn(cell', n, x, k)
      BY <2>6, <2>7, <3>1, MaskingRunFacts
    <3>5. /\ v.status = "running" /\ w.at \in Masking!Alive /\ w.at \in Masking!InTable
          /\ w.at # "recording" /\ w.rule \in Rules
      BY <2>1, <2>3, <3>1, MaskingRunFacts DEF Masking!Alive, Masking!InTable
    <3>6. DOMAIN w.batch = page /\ page \subseteq PrimaryKeys /\ \A k \in page : w.batch[k] \in 0..2
      <4>1. \A k \in page : k \in PrimaryKeys /\ cell[<<r, k>>] # Masking!Null
        BY <2>9 DEF Masking!After
      <4>2. \A k \in PrimaryKeys : cell[<<r, k>>] \in 0..2 \union {Masking!Null}
        BY <2>3 DEF Masking!TypeOK, Masking!Cells
      <4> QED BY <3>1, <4>1, <4>2
    <3>7. \A k \in PrimaryKeys \ page :
              (\E j \in page : k <= j) \/ Cardinality(page) < MaskBatch => Masking!DoneIn(cell', n, r, k)
      <4> SUFFICES ASSUME NEW k \in PrimaryKeys \ page, k \in Masking!After(n),
                          (\E j \in page : k <= j) \/ Cardinality(page) < MaskBatch
                   PROVE  FALSE
        BY <2>3, <2>5, <2>6
      <4>1. \A j \in page : j < k /\ j \in Nat /\ k \in Nat
        BY <2>9, MaskingSane DEF Masking!IsPage, Masking!Sane, Masking!After
      <4>2. ~(Cardinality(page) < MaskBatch)
        BY <2>9, MaskingFinite DEF Masking!IsPage
      <4> QED BY <4>1, <4>2
    <3>8. \A k \in PrimaryKeys : k <= w.cursor => Masking!DoneIn(cell', n, w.rule, k)
      BY <2>3, <2>4, <2>6, <3>1
    <3>9. \A k \in PrimaryKeys \ DOMAIN w.batch :
              (\E j \in DOMAIN w.batch : k <= j) \/ Cardinality(DOMAIN w.batch) < MaskBatch
                  => Masking!DoneIn(cell', n, w.rule, k)
      BY <3>1, <3>6, <3>7
    <3>11. /\ w.detail = v.detail /\ DOMAIN w.detail = Rules /\ w.cursor \in Nat
           /\ w.todo \subseteq Rules /\ w.rules \subseteq Rules /\ DOMAIN w = Masking!RunFields
      BY <3>1, MaskingRunFacts
    <3> HIDE DEF r, v
    <3>10. DOMAIN w.batch \subseteq PrimaryKeys /\ \A k \in DOMAIN w.batch : w.batch[k] \in 0..2
      BY <3>6
    <3> QED BY <2>2, <2>10, <3>2, <3>3, <3>4, <3>5, <3>8, <3>9, <3>10, <3>11, MaskingRunStep
  <2> QED BY <1>6, <2>8, <2>9 DEF Masking!ReadBatch
<1>7. ASSUME NEW n \in MaskRuns, Masking!WriteBatch(n) PROVE Masking!IInv'
  <2> DEFINE r == run[n].rule
             b == run[n].batch
             v == runs[n]
             w == [run[n] EXCEPT !.at = "recording"]
  <2>1. /\ run[n].at = "masking" /\ UNCHANGED <<active, runs, writes, touched>>
        /\ run' = [run EXCEPT ![n] = w]
        /\ cell' = [c \in Masking!Cells |->
                       IF c[1] = r /\ c[1] \in SameText /\ c[2] \in DOMAIN b
                       THEN Masking!maskValue(b[c[2]]) ELSE cell[c]]
    BY <1>7 DEF Masking!WriteBatch, Masking!Shape
  <2>2. runs' = [runs EXCEPT ![n] = v]
    BY <2>1 DEF Masking!Shape
  <2>3. DOMAIN run[n] = Masking!RunFields /\ r \in Rules
    BY <2>1 DEF Masking!Shape, Masking!BehindCursor, Masking!InTable
  <2>4. /\ DOMAIN w = Masking!RunFields /\ w.detail = run[n].detail /\ w.rules = run[n].rules
        /\ w.todo = run[n].todo /\ w.cursor = run[n].cursor /\ w.at = "recording"
        /\ w.batch = b /\ w.rule = r
    BY <2>3 DEF Masking!RunFields
  <2> HIDE DEF w
  <2>5. DOMAIN b \subseteq PrimaryKeys /\ \A k \in DOMAIN b : b[k] \in 0..2
    BY <2>1 DEF Masking!Batches
  <2>6. \A k \in DOMAIN b : Masking!maskValue(b[k]) \in 1..2
    BY <2>5 DEF Masking!maskValue
  <2>7. \A c \in Masking!Cells : IF c[1] = r /\ c[1] \in SameText /\ c[2] \in DOMAIN b
                                THEN cell'[c] \in 1..2 ELSE cell'[c] = cell[c]
    BY <2>1, <2>6
  <2>8. cell' \in [Masking!Cells -> 0..2 \union {Masking!Null}] /\ \A c \in Masking!Cells : cell[c] # 0 => cell'[c] # 0
    <3>1. \A c \in Masking!Cells : cell'[c] \in 0..2 \union {Masking!Null}
      BY <2>7 DEF Masking!TypeOK
    <3>2. \A c \in Masking!Cells : cell[c] # 0 => cell'[c] # 0
      BY <2>7
    <3> QED BY <2>1, <3>1, <3>2
  <2>9. \A x \in Rules, k \in PrimaryKeys : Masking!Done(n, x, k) => Masking!DoneIn(cell', n, x, k)
    BY <2>1, <2>8 DEF Masking!Done, Masking!DoneIn, Masking!Cells
  <2>10. \A k \in DOMAIN b : Masking!DoneIn(cell', n, r, k)
    <3> SUFFICES ASSUME NEW k \in DOMAIN b, r \in SameText PROVE cell'[<<r, k>>] # 0
      BY DEF Masking!Done, Masking!DoneIn
    <3>1. <<r, k>> \in Masking!Cells /\ <<r, k>>[1] = r /\ <<r, k>>[2] = k
      BY <2>3, <2>5 DEF Masking!Cells
    <3>2. cell'[<<r, k>>] \in 1..2
      BY <2>7, <3>1
    <3> QED BY <3>2
  <2>11. \A k \in PrimaryKeys \ DOMAIN b :
            (\E j \in DOMAIN b : k <= j) \/ Cardinality(DOMAIN b) < MaskBatch => Masking!DoneIn(cell', n, r, k)
    BY <2>1, <2>3, <2>9, MaskingFinite DEF Masking!Batches, Masking!IsLast
  <2>12. \A x \in w.rules \intersect HasKey : x \in w.todo \/ x = w.rule \/ \A k \in PrimaryKeys : Masking!DoneIn(cell', n, x, k)
    <3>1. \A x \in run[n].rules \intersect HasKey :
              x \in run[n].todo \/ x = r \/ \A k \in PrimaryKeys : Masking!Done(n, x, k)
      BY <2>1 DEF Masking!LeftTables, Masking!Alive, Masking!InTable
    <3> QED BY <2>4, <2>9, <3>1, MaskingRunFacts
  <2>13. \A k \in PrimaryKeys : k <= w.cursor => Masking!DoneIn(cell', n, w.rule, k)
    BY <2>1, <2>3, <2>4, <2>9 DEF Masking!BehindCursor, Masking!InTable
  <2>14. \A x \in Rules, k \in PrimaryKeys : k <= w.detail[x].cursor => Masking!DoneIn(cell', n, x, k)
    BY <2>4, <2>9, MaskingRunFacts
  <2>15. v.status = "running" /\ w.at \in Masking!Alive /\ w.at \in Masking!InTable /\ w.rule \in Rules
    BY <2>1, <2>3, <2>4, MaskingRunFacts DEF Masking!Alive, Masking!InTable
  <2>16. /\ DOMAIN w.batch \subseteq PrimaryKeys /\ \A k \in DOMAIN w.batch : w.batch[k] \in 0..2
         /\ \A k \in PrimaryKeys \ DOMAIN w.batch :
               (\E j \in DOMAIN w.batch : k <= j) \/ Cardinality(DOMAIN w.batch) < MaskBatch
                   => Masking!DoneIn(cell', n, w.rule, k)
         /\ \A k \in DOMAIN w.batch : Masking!DoneIn(cell', n, w.rule, k)
    BY <2>4, <2>5, <2>10, <2>11
  <2> HIDE DEF r, b
  <2>17. active' = active /\ touched' = touched /\ run' = [run EXCEPT ![n] = w]
    BY <2>1
  <2>18. /\ w.detail = v.detail /\ DOMAIN w.detail = Rules /\ w.cursor \in Nat
         /\ w.todo \subseteq Rules /\ w.rules \subseteq Rules /\ DOMAIN w = Masking!RunFields
         /\ DOMAIN v = {"status", "applied", "masked", "detail"}
    BY <2>4, MaskingRunFacts
  <2> HIDE DEF v
  <2> QED BY <2>2, <2>8, <2>12, <2>13, <2>14, <2>15, <2>16, <2>17, <2>18, MaskingRunStep
<1>8. ASSUME NEW n \in MaskRuns, Masking!Record(n) PROVE Masking!IInv'
  <2> DEFINE r == run[n].rule
             b == run[n].batch
             size == Cardinality(DOMAIN b)
  <2>1. PICK last \in DOMAIN b :
            /\ \A k \in DOMAIN b : k <= last
            /\ run' = [run EXCEPT ![n] =
                   [run[n] EXCEPT !.at = IF Masking!IsLast(n) THEN "next" ELSE "reading",
                                  !.applied = IF Masking!IsLast(n) THEN @ + 1 ELSE @,
                                  !.cursor = last, !.batch = << >>,
                                  !.detail = [run[n].detail EXCEPT ![r] = Masking!mergeProgress(@, size, Masking!IsLast(n), last)],
                                  !.masked = @ + size]]
            /\ runs' = [runs EXCEPT ![n] = [runs[n] EXCEPT !.masked = run[n].masked + size,
                           !.detail = [run[n].detail EXCEPT ![r] = Masking!mergeProgress(@, size, Masking!IsLast(n), last)]]]
    BY <1>8, MaskingFinite DEF Masking!Record
  <2> DEFINE d == [run[n].detail EXCEPT ![r] = Masking!mergeProgress(@, size, Masking!IsLast(n), last)]
             w == [run[n] EXCEPT !.at = IF Masking!IsLast(n) THEN "next" ELSE "reading",
                                 !.applied = IF Masking!IsLast(n) THEN @ + 1 ELSE @,
                                 !.cursor = last, !.batch = << >>, !.detail = d, !.masked = @ + size]
             v == [runs[n] EXCEPT !.masked = run[n].masked + size, !.detail = d]
  <2>2. /\ run[n].at = "recording" /\ UNCHANGED <<active, cell, writes, touched>>
        /\ run' = [run EXCEPT ![n] = w] /\ runs' = [runs EXCEPT ![n] = v]
    BY <1>8, <2>1 DEF Masking!Record
  <2>3. /\ DOMAIN run[n] = Masking!RunFields /\ DOMAIN runs[n] = {"status", "applied", "masked", "detail"}
        /\ r \in Rules /\ DOMAIN run[n].detail = Rules
    BY <2>2 DEF Masking!Shape, Masking!BehindCursor, Masking!InTable
  <2>4. last \in PrimaryKeys /\ last \in Nat /\ DOMAIN b \subseteq PrimaryKeys
    <3>1. DOMAIN b \subseteq PrimaryKeys
      BY <2>2 DEF Masking!Batches
    <3> QED BY <2>1, <3>1, MaskingSane DEF Masking!Sane
  <2>5. DOMAIN d = Rules /\ d[r].cursor = last /\ \A x \in Rules \ {r} : d[x] = run[n].detail[x]
    BY <2>3 DEF Masking!mergeProgress
  <2> HIDE DEF d, size
  <2>6. /\ DOMAIN w = Masking!RunFields /\ w.detail = d /\ w.rules = run[n].rules
        /\ w.todo = run[n].todo /\ w.cursor = last /\ w.rule = r
        /\ w.at = IF Masking!IsLast(n) THEN "next" ELSE "reading"
    BY <2>3 DEF Masking!RunFields
  <2>7. /\ DOMAIN v = {"status", "applied", "masked", "detail"} /\ v.detail = d
        /\ v.status = runs[n].status
    BY <2>3
  <2> HIDE DEF w, v
  <2>8. \A x \in Rules, k \in PrimaryKeys : Masking!Done(n, x, k) <=> Masking!DoneIn(cell', n, x, k)
    BY <2>2 DEF Masking!Done, Masking!DoneIn
  <2>9. \A k \in PrimaryKeys : k <= last \/ Masking!IsLast(n) => Masking!Done(n, r, k)
    BY <2>1, <2>2 DEF Masking!Batches
  <2>10. \A x \in run[n].rules \intersect HasKey :
            x \in run[n].todo \/ x = r \/ \A k \in PrimaryKeys : Masking!Done(n, x, k)
    BY <2>2 DEF Masking!LeftTables, Masking!Alive, Masking!InTable
  <2>11. \A x \in w.rules \intersect HasKey :
            x \in w.todo \/ (w.at \in Masking!InTable /\ x = w.rule) \/ \A k \in PrimaryKeys : Masking!DoneIn(cell', n, x, k)
    <3> SUFFICES ASSUME NEW x \in w.rules \intersect HasKey
                 PROVE  x \in w.todo \/ (w.at \in Masking!InTable /\ x = w.rule) \/ \A k \in PrimaryKeys : Masking!DoneIn(cell', n, x, k)
      OBVIOUS
    <3>1. x \in Rules /\ (x \in w.todo \/ x = r \/ \A k \in PrimaryKeys : Masking!Done(n, x, k))
      BY <2>6, <2>10, MaskingRunFacts
    <3>2. CASE x = r
      <4>1. Masking!IsLast(n) \/ w.at \in Masking!InTable
        BY <2>6 DEF Masking!InTable
      <4> QED BY <2>3, <2>6, <2>8, <2>9, <3>2, <4>1
    <3>3. CASE x # r
      BY <2>8, <3>1, <3>3
    <3> QED BY <3>2, <3>3
  <2>12. \A k \in PrimaryKeys : k <= w.cursor => Masking!DoneIn(cell', n, w.rule, k)
    BY <2>3, <2>6, <2>8, <2>9
  <2>13. \A x \in Rules, k \in PrimaryKeys : k <= w.detail[x].cursor => Masking!DoneIn(cell', n, x, k)
    <3> SUFFICES ASSUME NEW x \in Rules, NEW k \in PrimaryKeys, k <= d[x].cursor PROVE Masking!Done(n, x, k)
      BY <2>6, <2>8
    <3>1. CASE x = r
      BY <2>5, <2>9, <3>1
    <3>2. CASE x # r
      BY <2>5, <3>2, MaskingRunFacts
    <3> QED BY <3>1, <3>2
  <2>14. /\ v.status = "running" /\ w.at \in Masking!Alive /\ w.at \notin {"masking", "recording"}
         /\ w.rule \in Rules /\ w.cursor \in Nat
    BY <2>2, <2>3, <2>4, <2>6, <2>7, MaskingRunFacts DEF Masking!Alive, Masking!InTable
  <2> HIDE DEF r, b
  <2>15. w.detail = v.detail /\ DOMAIN w.detail = Rules
    BY <2>5, <2>6, <2>7
  <2> QED BY <2>2, <2>6, <2>7, <2>11, <2>12, <2>13, <2>14, <2>15, MaskingRunStep,
       MaskingRunFacts
<1>9. ASSUME NEW n \in MaskRuns, Masking!Complete(n) PROVE Masking!IInv'
  <2> DEFINE w == [run[n] EXCEPT !.at = "done"]
             v == [runs[n] EXCEPT !.status = "complete", !.applied = run[n].applied,
                                  !.masked = run[n].masked]
  <2>0. DOMAIN run[n] = Masking!RunFields /\ DOMAIN runs[n] = {"status", "applied", "masked", "detail"}
    BY DEF Masking!Shape
  <2>1. /\ run[n].at = "next" /\ run[n].todo = {}
        /\ run' = [run EXCEPT ![n] = w] /\ runs' = [runs EXCEPT ![n] = v]
        /\ UNCHANGED <<active, cell, writes, touched>>
    BY <1>9 DEF Masking!Complete, Masking!Shape
  <2>2. /\ DOMAIN w = Masking!RunFields /\ w.at = "done" /\ w.detail = run[n].detail
        /\ w.cursor = run[n].cursor /\ w.todo = {} /\ w.rules = run[n].rules
    BY <2>0, <2>1 DEF Masking!RunFields
  <2>3. /\ DOMAIN v = {"status", "applied", "masked", "detail"} /\ v.detail = runs[n].detail
        /\ v.status = "complete"
    BY <2>0
  <2> HIDE DEF w, v
  <2>4. \A r \in Rules, k \in PrimaryKeys : k <= w.detail[r].cursor => Masking!DoneIn(cell', n, r, k)
    BY <2>1, <2>2, MaskingRunFacts DEF Masking!Done, Masking!DoneIn
  <2>5. \A x \in w.rules \intersect HasKey : \A k \in PrimaryKeys : Masking!DoneIn(cell', n, x, k)
    <3>1. \A x \in run[n].rules \intersect HasKey : \A k \in PrimaryKeys : Masking!Done(n, x, k)
      BY <2>1 DEF Masking!LeftTables, Masking!Alive, Masking!InTable
    <3> QED BY <2>1, <2>2, <3>1 DEF Masking!Done, Masking!DoneIn
  <2> QED BY <2>1, <2>2, <2>3, <2>4, <2>5, MaskingRunStep, MaskingRunFacts DEF Masking!Alive,
       Masking!InTable
<1>10. ASSUME NEW n \in MaskRuns, Masking!Fail(n) PROVE Masking!IInv'
  <2> DEFINE w == [run[n] EXCEPT !.at = "done", !.batch = << >>, !.todo = {}]
             v == [runs[n] EXCEPT !.status = "failed"]
  <2>0. DOMAIN run[n] = Masking!RunFields /\ DOMAIN runs[n] = {"status", "applied", "masked", "detail"}
    BY DEF Masking!Shape
  <2>1. /\ run' = [run EXCEPT ![n] = w] /\ runs' = [runs EXCEPT ![n] = v]
        /\ UNCHANGED <<active, cell, writes, touched>>
    BY <1>10 DEF Masking!Fail, Masking!Shape
  <2>2. /\ DOMAIN w = Masking!RunFields /\ w.at = "done" /\ w.detail = run[n].detail
        /\ w.cursor = run[n].cursor /\ w.todo = {} /\ w.rules = run[n].rules
    BY <2>0 DEF Masking!RunFields
  <2>3. /\ DOMAIN v = {"status", "applied", "masked", "detail"} /\ v.detail = runs[n].detail
        /\ v.status = "failed"
    BY <2>0
  <2> HIDE DEF w, v
  <2>4. \A r \in Rules, k \in PrimaryKeys : k <= w.detail[r].cursor => Masking!DoneIn(cell', n, r, k)
    BY <2>1, <2>2, MaskingRunFacts DEF Masking!Done, Masking!DoneIn
  <2>8. /\ cell' \in [Masking!Cells -> 0..2 \union {Masking!Null}] /\ \A c \in Masking!Cells : cell[c] # 0 => cell'[c] # 0
        /\ active' = active /\ touched' = touched
    BY <2>1, MaskingRunFacts
  <2>9. w.at \notin Masking!Alive /\ w.at \notin Masking!InTable /\ w.at \notin {"masking", "recording"}
    BY <2>2 DEF Masking!Alive, Masking!InTable
  <2>10. /\ w.detail = v.detail /\ DOMAIN w.detail = Rules /\ w.cursor \in Nat
         /\ w.todo \subseteq Rules /\ w.rules \subseteq Rules
    BY <2>2, <2>3, MaskingRunFacts
  <2>11. run' = [run EXCEPT ![n] = w] /\ runs' = [runs EXCEPT ![n] = v]
    BY <2>1
  <2> QED BY <2>2, <2>3, <2>4, <2>8, <2>9, <2>10, <2>11, MaskingRunStep
<1>11. ASSUME NEW c \in Written, Masking!Write(c) PROVE Masking!IInv'
  <2>1. PICK x \in {0, Masking!Null} : cell' = [cell EXCEPT ![c] = x]
    BY <1>11 DEF Masking!Write
  <2>2. /\ touched' = [n \in MaskRuns |-> IF runs[n].status = "none" THEN touched[n] ELSE touched[n] \union {c}]
        /\ UNCHANGED <<active, run, runs>> /\ c \in Masking!Cells
    BY <1>11, MaskingSane DEF Masking!Write, Masking!Sane
  <2>3. cell' \in [Masking!Cells -> 0..2 \union {Masking!Null}]
    <3>1. x \in 0..2 \union {Masking!Null}
      OBVIOUS
    <3> QED BY <2>1, <3>1 DEF Masking!TypeOK
  <2>4. Masking!TypeOK' /\ Masking!Shape' /\ Masking!Phases'
    <3>1. Masking!TypeOK'
      BY <2>2, <2>3 DEF Masking!TypeOK
    <3>2. touched' \in [MaskRuns -> SUBSET Masking!Cells]
      BY <2>2 DEF Masking!Shape
    <3>3. Masking!Shape'
      BY <2>2, <3>2 DEF Masking!Shape
    <3>4. Masking!Phases'
      BY <2>2 DEF Masking!Phases
    <3> QED BY <3>1, <3>3, <3>4
  <2>5. \A n \in MaskRuns, r \in Rules, k \in PrimaryKeys :
            runs[n].status # "none" /\ Masking!Done(n, r, k) => Masking!Done(n, r, k)'
    <3> SUFFICES ASSUME NEW n \in MaskRuns, NEW r \in Rules, NEW k \in PrimaryKeys,
                        runs[n].status # "none", Masking!Done(n, r, k), r \in SameText
                 PROVE  cell'[<<r, k>>] # 0 \/ <<r, k>> \in touched'[n]
      BY DEF Masking!Done
    <3>1. <<r, k>> \in Masking!Cells /\ touched'[n] = touched[n] \union {c}
      BY <2>2 DEF Masking!Cells
    <3>2. CASE <<r, k>> = c
      BY <3>1, <3>2
    <3>3. CASE <<r, k>> # c
      <4>1. cell'[<<r, k>>] = cell[<<r, k>>]
        BY <2>1, <3>1, <3>3 DEF Masking!TypeOK
      <4> QED BY <3>1, <4>1 DEF Masking!Done
    <3> QED BY <3>2, <3>3
  <2>6. \A n \in MaskRuns : run[n].at \in Masking!Alive => runs[n].status # "none"
    BY DEF Masking!Phases
  <2>7. Masking!LeftTables'
    <3> SUFFICES ASSUME NEW n \in MaskRuns, run[n].at \in Masking!Alive \/ runs[n].status = "complete",
                        NEW r \in run[n].rules \intersect HasKey
                 PROVE  \/ r \in run[n].todo
                        \/ run[n].at \in Masking!InTable /\ r = run[n].rule
                        \/ \A k \in PrimaryKeys : Masking!Done(n, r, k)'
      BY <2>2 DEF Masking!LeftTables
    <3>1. r \in Rules
      BY DEF Masking!Shape
    <3> QED BY <2>5, <2>6, <3>1 DEF Masking!LeftTables
  <2>8. Masking!BehindCursor'
    <3> SUFFICES ASSUME NEW n \in MaskRuns, run[n].at \in Masking!InTable
                 PROVE  /\ run[n].rule \in Rules
                        /\ \A k \in PrimaryKeys : k <= run[n].cursor =>
                              (run[n].rule \in SameText =>
                                  cell'[<<run[n].rule, k>>] # 0 \/ <<run[n].rule, k>> \in touched'[n])
      BY <2>2 DEF Masking!BehindCursor, Masking!Done
    <3>1. runs[n].status # "none"
      BY <2>6 DEF Masking!Alive
    <3> QED BY <2>5, <3>1 DEF Masking!BehindCursor, Masking!Done
  <2>9. Masking!Batches'
    <3> SUFFICES ASSUME NEW n \in MaskRuns, run[n].at \in {"masking", "recording"}
                 PROVE  LET b == run[n].batch
                            r == run[n].rule
                        IN  /\ DOMAIN b \subseteq PrimaryKeys /\ \A k \in DOMAIN b : b[k] \in 0..2
                            /\ \A k \in PrimaryKeys \ DOMAIN b :
                                  (\E j \in DOMAIN b : k <= j) \/ Cardinality(DOMAIN b) < MaskBatch
                                      => (r \in SameText => cell'[<<r, k>>] # 0 \/ <<r, k>> \in touched'[n])
                            /\ run[n].at = "recording" =>
                                  \A k \in DOMAIN b : r \in SameText => cell'[<<r, k>>] # 0 \/ <<r, k>> \in touched'[n]
      BY <2>2, MaskingFinite DEF Masking!Batches, Masking!IsLast, Masking!Done
    <3>1. run[n].rule \in Rules /\ runs[n].status # "none"
      BY <2>6 DEF Masking!BehindCursor, Masking!Alive, Masking!InTable
    <3> QED BY <2>5, <3>1, MaskingFinite DEF Masking!Batches, Masking!IsLast, Masking!Done
  <2>10. Masking!CursorIsSafe'
    <3> SUFFICES ASSUME NEW n \in MaskRuns, NEW r \in Rules, NEW k \in PrimaryKeys,
                        k <= runs[n].detail[r].cursor
                 PROVE  Masking!Done(n, r, k)'
      BY <2>2 DEF Masking!CursorIsSafe
    <3>1. CASE runs[n].status = "none"
      <4>1. runs[n].detail[r].cursor = 0
        BY <3>1 DEF Masking!Phases, Masking!Shape
      <4> QED BY <4>1, MaskingSane DEF Masking!Sane
    <3>2. CASE runs[n].status # "none"
      BY <2>5, <3>2 DEF Masking!CursorIsSafe
    <3> QED BY <3>1, <3>2
  <2> QED BY <2>4, <2>7, <2>8, <2>9, <2>10
<1>12. CASE UNCHANGED Masking!vars
  BY <1>2, <1>12 DEF Masking!vars
<1> QED BY <1>1, <1>3, <1>4, <1>5, <1>6, <1>7, <1>8, <1>9, <1>10, <1>11, <1>12 DEF Masking!Next

\* A complete run has masked its tables, and what a run says of its progress is true.
LEMMA MaskingHolds == Masking!Spec => []Masking!Safety
<1>1. Masking!IInv => Masking!Safety
  BY DEF Masking!IInv, Masking!Safety, Masking!CompleteIsMasked, Masking!LeftTables,
       Masking!Phases, Masking!InTable
<1> QED BY <1>1, MaskingInitHolds, MaskingStepHolds, PTL DEF Masking!Spec


-----------------------------------------------------------------------------
(* AgentMemory                                                             *)

\* What k adds to the sum of f over S, and the sums up to each number.
Term(f, S, k) == IF k \in S THEN f[k] ELSE 0
Sums(f, S, g, n) ==
    /\ g \in [0..n -> Nat] /\ g[0] = 0
    /\ \A k \in 1..n : g[k] = g[k - 1] + Term(f, S, k)

LEMMA MemorySums ==
    ASSUME NEW f, NEW S, NEW n \in Nat, \A k \in 1..n : Term(f, S, k) \in Nat
    PROVE  \E g : Sums(f, S, g, n) /\ Memory!UpTo(f, S, n) = g[n]
<1> DEFINE Is(g, m) == /\ g \in [0..m -> Nat]
                       /\ g = [k \in 0..m |-> IF k = 0 THEN 0 ELSE g[k - 1] + IF k \in S THEN f[k] ELSE 0]
           E == {m \in Nat : m <= n => \E g : Is(g, m)}
<1>1. 0 \in E
    <2>1. Is([k \in 0..0 |-> 0], 0)
        OBVIOUS
    <2> QED BY <2>1
<1>2. ASSUME NEW m \in Nat, m \in E PROVE m + 1 \in E
    <2>1. SUFFICES ASSUME m + 1 <= n PROVE \E g : Is(g, m + 1)
        OBVIOUS
    <2> HIDE DEF Is
    <2>2. PICK g : Is(g, m)
        BY <1>2, <2>1
    <2> USE DEF Is
    <2> DEFINE h == [k \in 0..(m + 1) |-> IF k = m + 1 THEN g[m] + Term(f, S, m + 1) ELSE g[k]]
    <2>3. h \in [0..(m + 1) -> Nat]
        BY <2>1, <2>2
    <2>4. ASSUME NEW k \in 0..(m + 1)
          PROVE  h[k] = IF k = 0 THEN 0 ELSE h[k - 1] + IF k \in S THEN f[k] ELSE 0
        <3>1. CASE k = m + 1
            BY <3>1 DEF Term
        <3>2. CASE k # m + 1
            <4>1. k \in 0..m /\ h[k] = g[k] /\ (k # 0 => h[k - 1] = g[k - 1])
                BY <3>2
            <4>2. g[k] = IF k = 0 THEN 0 ELSE g[k - 1] + IF k \in S THEN f[k] ELSE 0
                BY <2>2, <4>1
            <4> QED BY <4>1, <4>2
        <3> QED BY <3>1, <3>2
    <2>5. h = [k \in 0..(m + 1) |-> IF k = 0 THEN 0 ELSE h[k - 1] + IF k \in S THEN f[k] ELSE 0]
        BY <2>4
    <2> HIDE DEF h
    <2> QED BY <2>3, <2>5
<1> HIDE DEF E
<1>3. n \in E
    BY <1>1, <1>2, Induct
<1>4. PICK p : Is(p, n)
    BY <1>3 DEF E
<1> DEFINE sum == CHOOSE g : g = [k \in 0..n |-> IF k = 0 THEN 0 ELSE g[k - 1] + IF k \in S THEN f[k] ELSE 0]
<1>5. sum = [k \in 0..n |-> IF k = 0 THEN 0 ELSE sum[k - 1] + IF k \in S THEN f[k] ELSE 0]
    BY <1>4
<1>6. Memory!UpTo(f, S, n) = sum[n]
    BY DEF Memory!UpTo
<1> HIDE DEF sum
<1>7. sum[0] = 0 /\ \A k \in 1..n : sum[k] = sum[k - 1] + Term(f, S, k)
    BY <1>5 DEF Term
<1>8. \A k \in 0..n : sum[k] \in Nat
    <2> DEFINE N == {k \in Nat : k <= n => sum[k] \in Nat}
    <2>1. 0 \in N
        BY <1>7
    <2>2. \A k \in Nat : k \in N => k + 1 \in N
        BY <1>7
    <2> HIDE DEF N
    <2>3. Nat \subseteq N
        BY <2>1, <2>2, Induct
    <2> QED BY <2>3 DEF N
<1>9. sum \in [0..n -> Nat]
    BY <1>5, <1>8
<1> QED BY <1>6, <1>7, <1>9 DEF Sums

\* Term by term, f over S is e over T and d over U.
Splits(f, S, e, T, d, U, n) ==
    \A k \in 1..n : /\ Term(e, T, k) \in Nat /\ Term(d, U, k) \in Nat
                    /\ Term(f, S, k) = Term(e, T, k) + Term(d, U, k)

LEMMA MemorySumPlus ==
    ASSUME NEW f, NEW S, NEW e, NEW T, NEW d, NEW U, NEW n \in Nat, Splits(f, S, e, T, d, U, n)
    PROVE  /\ Memory!UpTo(f, S, n) = Memory!UpTo(e, T, n) + Memory!UpTo(d, U, n)
           /\ Memory!UpTo(f, S, n) \in Nat /\ Memory!UpTo(e, T, n) \in Nat /\ Memory!UpTo(d, U, n) \in Nat
<1> USE DEF Splits
<1>0. \A k \in 1..n : /\ Term(f, S, k) \in Nat /\ Term(e, T, k) \in Nat /\ Term(d, U, k) \in Nat
                      /\ Term(f, S, k) = Term(e, T, k) + Term(d, U, k)
    OBVIOUS
<1> HIDE DEF Splits
<1>1. PICK g : Sums(f, S, g, n) /\ Memory!UpTo(f, S, n) = g[n]
    BY <1>0, MemorySums
<1>2. PICK h : Sums(e, T, h, n) /\ Memory!UpTo(e, T, n) = h[n]
    BY <1>0, MemorySums
<1>3. PICK i : Sums(d, U, i, n) /\ Memory!UpTo(d, U, n) = i[n]
    BY <1>0, MemorySums
<1> DEFINE E == {k \in Nat : k <= n => g[k] = h[k] + i[k]}
<1>4. 0 \in E
    BY <1>1, <1>2, <1>3 DEF Sums
<1>5. ASSUME NEW k \in Nat, k \in E PROVE k + 1 \in E
    <2>1. SUFFICES ASSUME k + 1 <= n PROVE g[k + 1] = h[k + 1] + i[k + 1]
        OBVIOUS
    <2>2. k + 1 \in 1..n /\ k \in 0..n /\ (k + 1) - 1 = k
        BY <2>1
    <2>3. g[k] = h[k] + i[k] /\ h[k] \in Nat /\ i[k] \in Nat /\ g[k] \in Nat
        BY <1>1, <1>2, <1>3, <1>5, <2>2 DEF Sums
    <2>4. /\ g[k + 1] = g[k] + Term(f, S, k + 1) /\ h[k + 1] = h[k] + Term(e, T, k + 1)
          /\ i[k + 1] = i[k] + Term(d, U, k + 1)
        BY <1>1, <1>2, <1>3, <2>2 DEF Sums
    <2>5. /\ Term(f, S, k + 1) = Term(e, T, k + 1) + Term(d, U, k + 1)
          /\ Term(e, T, k + 1) \in Nat /\ Term(d, U, k + 1) \in Nat
        BY <1>0, <2>2
    <2> QED BY <2>3, <2>4, <2>5
<1> HIDE DEF E
<1>6. n \in E
    BY <1>4, <1>5, Induct
<1>7. g[n] \in Nat /\ h[n] \in Nat /\ i[n] \in Nat
    BY <1>1, <1>2, <1>3 DEF Sums
<1> QED BY <1>1, <1>2, <1>3, <1>6, <1>7 DEF E

LEMMA MemorySumNone ==
    ASSUME NEW f, NEW S, NEW n \in Nat, \A k \in 1..n : Term(f, S, k) = 0
    PROVE  Memory!UpTo(f, S, n) = 0
<1>1. Splits(f, S, f, S, f, S, n)
    BY DEF Splits
<1>2. Memory!UpTo(f, S, n) = Memory!UpTo(f, S, n) + Memory!UpTo(f, S, n) /\ Memory!UpTo(f, S, n) \in Nat
    BY <1>1, MemorySumPlus
<1>3. \A x \in Nat : x = x + x => x = 0
    OBVIOUS
<1> QED BY <1>2, <1>3

LEMMA MemorySumSame ==
    ASSUME NEW f, NEW S, NEW e, NEW T, NEW n \in Nat,
           \A k \in 1..n : Term(e, T, k) \in Nat,
           \A k \in 1..n : Term(f, S, k) = Term(e, T, k)
    PROVE  Memory!UpTo(f, S, n) = Memory!UpTo(e, T, n) /\ Memory!UpTo(f, S, n) \in Nat
<1>1. \A k \in 1..n : Term(e, {}, k) = 0 /\ Term(e, {}, k) \in Nat
    BY DEF Term
<1>2. Splits(f, S, e, T, e, {}, n)
    BY <1>1 DEF Splits
<1>3. Memory!UpTo(e, {}, n) = 0
    BY <1>1, MemorySumNone
<1>4. Memory!UpTo(f, S, n) = Memory!UpTo(e, T, n) + Memory!UpTo(e, {}, n) /\ Memory!UpTo(f, S, n) \in Nat /\ Memory!UpTo(e, T, n) \in Nat
    BY <1>2, MemorySumPlus
<1>5. \A x \in Nat : x + 0 = x
    OBVIOUS
<1> QED BY <1>3, <1>4, <1>5

LEMMA MemorySumNext ==
    ASSUME NEW f, NEW S, NEW n \in Nat, \A k \in 1..(n + 1) : Term(f, S, k) \in Nat
    PROVE  Memory!UpTo(f, S, n + 1) = Memory!UpTo(f, S, n) + Term(f, S, n + 1) /\ Memory!UpTo(f, S, n) \in Nat
<1>1. PICK g : Sums(f, S, g, n) /\ Memory!UpTo(f, S, n) = g[n]
    BY MemorySums
<1>2. PICK h : Sums(f, S, h, n + 1) /\ Memory!UpTo(f, S, n + 1) = h[n + 1]
    BY MemorySums
<1> DEFINE E == {k \in Nat : k <= n => g[k] = h[k]}
<1>3. 0 \in E
    BY <1>1, <1>2 DEF Sums
<1>4. ASSUME NEW k \in Nat, k \in E PROVE k + 1 \in E
    BY <1>1, <1>2, <1>4 DEF Sums
<1> HIDE DEF E
<1>5. n \in E
    BY <1>3, <1>4, Induct
<1>6. h[n + 1] = h[n] + Term(f, S, n + 1) /\ h[n] \in Nat
    BY <1>2 DEF Sums
<1> QED BY <1>1, <1>2, <1>5, <1>6 DEF E

LEMMA MemorySumOne ==
    ASSUME NEW f, NEW p \in Nat, NEW n \in Nat, p \in 1..n, f[p] \in Nat
    PROVE  Memory!UpTo(f, {p}, n) = f[p]
<1> DEFINE E == {k \in Nat : k <= n => Memory!UpTo(f, {p}, k) = IF p <= k THEN f[p] ELSE 0}
<1>0. \A k \in Nat : Term(f, {p}, k) = IF k = p THEN f[p] ELSE 0
    BY DEF Term
<1>1. 0 \in E
    <2>1. Memory!UpTo(f, {p}, 0) = 0
        BY MemorySumNone
    <2> QED BY <2>1
<1>2. ASSUME NEW k \in Nat, k \in E PROVE k + 1 \in E
    <2>1. SUFFICES ASSUME k + 1 <= n PROVE Memory!UpTo(f, {p}, k + 1) = IF p <= k + 1 THEN f[p] ELSE 0
        OBVIOUS
    <2>2. Memory!UpTo(f, {p}, k) = IF p <= k THEN f[p] ELSE 0
        BY <1>2, <2>1
    <2>3. \A i \in 1..(k + 1) : Term(f, {p}, i) \in Nat
        BY <1>0
    <2>4. Memory!UpTo(f, {p}, k + 1) = Memory!UpTo(f, {p}, k) + Term(f, {p}, k + 1)
        BY <2>3, MemorySumNext
    <2>5. Term(f, {p}, k + 1) = IF k + 1 = p THEN f[p] ELSE 0
        BY <1>0
    <2> QED BY <2>2, <2>4, <2>5
<1> HIDE DEF E
<1>3. n \in E
    BY <1>1, <1>2, Induct
<1> QED BY <1>3 DEF E

LEMMA MemoryRunStep ==
    ASSUME compactor \in [Memory!Runs -> Memory!Run], NEW c \in Memory!Runs, NEW x \in Memory!Run,
           compactor' = [compactor EXCEPT ![c] = x]
    PROVE  /\ compactor' \in [Memory!Runs -> Memory!Run] /\ compactor'[c] = x
           /\ \A d \in Memory!Runs \ {c} : compactor'[d] = compactor[d]
OBVIOUS

LEMMA MemoryInitHolds == ASSUME Memory!Init PROVE Memory!IInv
<1> USE DEF Memory!Init
<1>0. turnCount = 0 /\ MaxTurns \in Nat
    BY MemorySane DEF Memory!Sane
<1>a. Memory!Away \in Memory!Run /\ Memory!Away.at = "idle"
    BY DEF Memory!Away, Memory!Run
<1>1. Memory!Shape
    <2>1. \A r \in Memory!Ranges : summaries[r] = Memory!Missing
        OBVIOUS
    <2>2. \A c \in Memory!Runs : compactor[c].at = "idle"
        BY <1>a
    <2>3. /\ turns \in [1..MaxTurns -> [tokens : Nat, compacted : BOOLEAN]]
          /\ \A t \in 1..MaxTurns : ~turns[t].compacted
        OBVIOUS
    <2>4. summaries \in [Memory!Ranges -> Nat \union {Memory!Missing}] /\ compactor \in [Memory!Runs -> Memory!Run]
        BY <1>a
    <2>6. \A r \in Memory!Ranges : ~ (summaries[r] >= 0)
        BY <2>1 DEF Memory!Missing
    <2>7. turnCount \in 0..MaxTurns /\ compactedThrough \in 0..turnCount /\ totalTokens \in Nat
        BY <1>0
    <2>8. disturbed \in BOOLEAN
        OBVIOUS
    <2> HIDE DEF Memory!Init
    <2> QED BY <2>2, <2>3, <2>4, <2>6, <2>7, <2>8 DEF Memory!Shape
<1>2. Memory!Held = {}
    BY <1>0 DEF Memory!Held
<1>3. Memory!CompactedIsSummarised
    BY <1>0 DEF Memory!CompactedIsSummarised
<1>4. totalTokens = Memory!SumOver(Memory!Worth, 1..turnCount)
    <2>1. Memory!UpTo(Memory!Worth, 1..turnCount, 0) = 0
        BY MemorySumNone
    <2> QED BY <1>0, <2>1 DEF Memory!SumOver
<1>5. Memory!Undisturbed
    BY <1>0, <1>a, <1>2, <1>4 DEF Memory!Undisturbed
<1> QED BY <1>1, <1>3, <1>5 DEF Memory!IInv

\* Of ranges that are apart, one starts where it does.
LEMMA MemoryChosen ==
    ASSUME NEW H \in SUBSET (Nat \X Nat), NEW r \in H,
           \A p, q \in H : p # q => p[2] < q[1] \/ q[2] < p[1],
           \A p \in H : p[1] <= p[2]
    PROVE  (CHOOSE q \in H : q[1] = r[1]) = r
<1> DEFINE x == CHOOSE q \in H : q[1] = r[1]
<1>1. x \in H /\ x[1] = r[1]
    OBVIOUS
<1> HIDE DEF x
<1>2. x[1] \in Nat /\ x[2] \in Nat /\ r[2] \in Nat /\ x[1] <= x[2] /\ r[1] <= r[2]
    BY <1>1
<1> QED BY <1>1, <1>2 DEF x

Apart(H) == \A r, q \in H : r # q => r[2] < q[1] \/ q[2] < r[1]

\* What a turn is worth.
LEMMA MemoryWorths ==
    ASSUME Memory!Shape, Apart(Memory!Held)
    PROVE  /\ \A r \in Memory!Held : r[1] <= compactedThrough => Memory!Worth[r[1]] = Memory!Counted(r)
           /\ \A t \in 1..MaxTurns : t <= compactedThrough /\ (\A r \in Memory!Held : r[1] # t)
                                        => Memory!Worth[t] = 0
           /\ \A t \in 1..MaxTurns : t > compactedThrough => Memory!Worth[t] = turns[t].tokens
<1>0. MaxTurns \in Nat /\ turnCount \in 0..MaxTurns /\ compactedThrough \in 0..turnCount
    BY MemorySane DEF Memory!Sane, Memory!Shape
<1>1. Memory!Held \in SUBSET (Nat \X Nat) /\ \A r \in Memory!Held : r[1] <= r[2] /\ r[1] \in 1..MaxTurns
    BY <1>0 DEF Memory!Held, Memory!Shape, Memory!Ranges
<1>2. ASSUME NEW r \in Memory!Held, r[1] <= compactedThrough
      PROVE  Memory!Worth[r[1]] = Memory!Counted(r)
    <2>1. (CHOOSE q \in Memory!Held : q[1] = r[1]) = r
        BY <1>1, MemoryChosen DEF Apart
    <2>2. ~ (r[1] > compactedThrough) /\ \E q \in Memory!Held : q[1] = r[1]
        BY <1>0, <1>1, <1>2
    <2> QED BY <1>1, <2>1, <2>2 DEF Memory!Worth
<1>3. ASSUME NEW t \in 1..MaxTurns, t <= compactedThrough, \A r \in Memory!Held : r[1] # t
      PROVE  Memory!Worth[t] = 0
    <2>1. ~ (t > compactedThrough)
        BY <1>0, <1>3
    <2> QED BY <1>3, <2>1 DEF Memory!Worth
<1>4. \A t \in 1..MaxTurns : t > compactedThrough => Memory!Worth[t] = turns[t].tokens
    BY DEF Memory!Worth
<1> QED BY <1>2, <1>3, <1>4

LEMMA MemoryWorthsNext ==
    ASSUME Memory!Shape', Apart(Memory!Held')
    PROVE  /\ \A r \in Memory!Held' : r[1] <= compactedThrough' => Memory!Worth'[r[1]] = Memory!Counted(r)'
           /\ \A t \in 1..MaxTurns : t <= compactedThrough' /\ (\A r \in Memory!Held' : r[1] # t)
                                        => Memory!Worth'[t] = 0
           /\ \A t \in 1..MaxTurns : t > compactedThrough' => Memory!Worth'[t] = turns'[t].tokens
<1>0. MaxTurns \in Nat /\ turnCount' \in 0..MaxTurns /\ compactedThrough' \in 0..turnCount'
    BY MemorySane DEF Memory!Sane, Memory!Shape
<1>1. Memory!Held' \in SUBSET (Nat \X Nat) /\ \A r \in Memory!Held' : r[1] <= r[2] /\ r[1] \in 1..MaxTurns
    BY <1>0 DEF Memory!Held, Memory!Shape, Memory!Ranges
<1>2. ASSUME NEW r \in Memory!Held', r[1] <= compactedThrough'
      PROVE  Memory!Worth'[r[1]] = Memory!Counted(r)'
    <2>1. (CHOOSE q \in Memory!Held' : q[1] = r[1]) = r
        BY <1>1, MemoryChosen DEF Apart
    <2>2. ~ (r[1] > compactedThrough') /\ \E q \in Memory!Held' : q[1] = r[1]
        BY <1>0, <1>1, <1>2
    <2> QED BY <1>1, <2>1, <2>2 DEF Memory!Worth
<1>3. ASSUME NEW t \in 1..MaxTurns, t <= compactedThrough', \A r \in Memory!Held' : r[1] # t
      PROVE  Memory!Worth'[t] = 0
    <2>1. ~ (t > compactedThrough')
        BY <1>0, <1>3
    <2> QED BY <1>3, <2>1 DEF Memory!Worth
<1>4. \A t \in 1..MaxTurns : t > compactedThrough' => Memory!Worth'[t] = turns'[t].tokens
    BY DEF Memory!Worth
<1> QED BY <1>2, <1>3, <1>4

\* The tokens of turns are a sum of numbers.
LEMMA MemoryTokensAre ==
    ASSUME Memory!Shape
    PROVE  /\ \A S : Memory!Tokens(S) = Memory!UpTo([t \in 1..MaxTurns |-> turns[t].tokens], S, turnCount)
           /\ \A S, k : k \in 1..turnCount => Term([t \in 1..MaxTurns |-> turns[t].tokens], S, k) \in Nat
           /\ \A S : Memory!Tokens(S) \in Nat
           /\ \A r \in Memory!Held : Memory!Counted(r) \in Nat
<1> DEFINE F == [t \in 1..MaxTurns |-> turns[t].tokens]
<1>0. MaxTurns \in Nat /\ turnCount \in 0..MaxTurns /\ turnCount \in Nat
    BY MemorySane DEF Memory!Sane, Memory!Shape
<1>1. \A k \in 1..turnCount : F[k] \in Nat
    BY <1>0 DEF Memory!Shape
<1>2. \A S, k : k \in 1..turnCount => Term(F, S, k) \in Nat
    BY <1>1 DEF Term
<1>3. \A S : Memory!Tokens(S) = Memory!UpTo(F, S, turnCount)
    BY DEF Memory!Tokens, Memory!SumOver
<1> HIDE DEF F
<1>4. ASSUME NEW S PROVE Memory!Tokens(S) \in Nat
    <2>1. \A k \in 1..turnCount : Term(F, S, k) \in Nat /\ Term(F, S, k) = Term(F, S, k)
        BY <1>2
    <2>2. Memory!UpTo(F, S, turnCount) \in Nat
        BY <1>0, <2>1, MemorySumSame
    <2> QED BY <1>3, <2>2
<1>5. ASSUME NEW r \in Memory!Held PROVE Memory!Counted(r) \in Nat
    <2>1. summaries[r] \in Nat
        BY <1>0 DEF Memory!Held, Memory!Shape, Memory!Ranges, Memory!Missing
    <2> QED BY <1>4, <2>1 DEF Memory!Counted
<1> QED BY <1>2, <1>3, <1>4, <1>5 DEF F

LEMMA MemoryAddStep ==
    ASSUME Memory!IInv, NEW n \in TurnTokens, Memory!AddTurn(n)
    PROVE  Memory!IInv'
<1>0. /\ MaxTurns \in Nat /\ n \in Nat /\ turnCount \in Nat /\ turnCount + 1 \in 1..MaxTurns
      /\ turnCount' = turnCount + 1 /\ compactedThrough \in 0..turnCount
      /\ totalTokens \in Nat /\ totalTokens' = totalTokens + n
      /\ UNCHANGED <<compactedThrough, summaries, compactor, disturbed>>
    BY MemorySane DEF Memory!Sane, Memory!IInv, Memory!Shape, Memory!AddTurn
<1>1. /\ turns' \in [1..MaxTurns -> [tokens : Nat, compacted : BOOLEAN]]
      /\ turns'[turnCount + 1].tokens = n
      /\ \A t \in 1..MaxTurns : /\ turns'[t].compacted = turns[t].compacted
                                /\ t # turnCount + 1 => turns'[t] = turns[t]
    <2> DEFINE new == [turns[turnCount + 1] EXCEPT !.tokens = n]
    <2>1. turns' = [turns EXCEPT ![turnCount + 1] = new]
        BY DEF Memory!AddTurn
    <2>2. turns \in [1..MaxTurns -> [tokens : Nat, compacted : BOOLEAN]]
        BY DEF Memory!IInv, Memory!Shape
    <2>3. /\ new \in [tokens : Nat, compacted : BOOLEAN] /\ new.tokens = n
          /\ new.compacted = turns[turnCount + 1].compacted
        BY <1>0, <2>2
    <2> HIDE DEF new
    <2> QED BY <1>0, <2>1, <2>2, <2>3
<1>2. Memory!Shape'
    <2>1. \A t \in 1..MaxTurns : turns'[t].compacted => t <= turnCount'
        BY <1>0, <1>1 DEF Memory!IInv, Memory!Shape
    <2>2. \A r \in Memory!Ranges : summaries'[r] >= 0 => r[1] <= r[2] /\ r[2] <= turnCount'
        BY <1>0 DEF Memory!IInv, Memory!Shape, Memory!Ranges
    <2>3. \A c \in Memory!Runs : compactor'[c].at # "idle" =>
              /\ 1 <= compactor'[c].from /\ compactor'[c].from <= compactor'[c].to
              /\ compactor'[c].to <= turnCount'
              /\ compactor'[c].at \in {"saved", "marked"} => summaries'[<<compactor'[c].from, compactor'[c].to>>] >= 0
        BY <1>0 DEF Memory!IInv, Memory!Shape, Memory!Span, Memory!Run
    <2>4. turnCount' \in 0..MaxTurns /\ compactedThrough' \in 0..turnCount' /\ totalTokens' \in Nat
        BY <1>0
    <2>5. /\ summaries' \in [Memory!Ranges -> Nat \union {Memory!Missing}] /\ disturbed' \in BOOLEAN
          /\ compactor' \in [Memory!Runs -> Memory!Run]
        BY <1>0 DEF Memory!IInv, Memory!Shape
    <2> QED BY <1>1, <2>1, <2>2, <2>3, <2>4, <2>5 DEF Memory!Shape, Memory!Span
<1>3. Memory!Held' = Memory!Held
    <2>1. \A r \in Memory!Ranges : summaries[r] >= 0 => r[1] <= r[2] /\ r[2] <= turnCount
        BY DEF Memory!IInv, Memory!Shape
    <2> QED BY <1>0, <2>1 DEF Memory!Held, Memory!Ranges
<1>4. Memory!CompactedIsSummarised'
    <2>1. ASSUME NEW t \in 1..turnCount', turns'[t].compacted
          PROVE  \E r \in Memory!Held' : t \in r[1]..r[2]
        <3>1. t \in 1..MaxTurns /\ turns[t].compacted
            BY <1>0, <1>1, <2>1
        <3>2. t \in 1..turnCount
            BY <1>0, <3>1 DEF Memory!IInv, Memory!Shape
        <3> QED BY <1>3, <3>1, <3>2 DEF Memory!IInv, Memory!CompactedIsSummarised
    <2> QED BY <2>1 DEF Memory!CompactedIsSummarised
<1>5. ASSUME ~disturbed' PROVE Memory!Undisturbed'
    <2>0. Memory!Undisturbed /\ Memory!Shape
        BY <1>0, <1>5 DEF Memory!IInv
    <2> DEFINE F == [t \in 1..MaxTurns |-> turns[t].tokens]
               G == [t \in 1..MaxTurns |-> turns'[t].tokens]
    <2>1. ASSUME NEW S \in SUBSET (1..turnCount) PROVE Memory!UpTo(G, S, turnCount') = Memory!Tokens(S)
        <3>1. Memory!Tokens(S) = Memory!UpTo(F, S, turnCount) /\ \A k \in 1..turnCount : Term(F, S, k) \in Nat
            BY <2>0, MemoryTokensAre
        <3>3. /\ \A k \in 1..turnCount : Term(G, S, k) = Term(F, S, k)
              /\ Term(G, S, turnCount + 1) = 0
            BY <1>0, <1>1 DEF Term
        <3> HIDE DEF F, G
        <3>4. \A k \in 1..(turnCount + 1) : Term(G, S, k) \in Nat
            BY <1>0, <3>1, <3>3
        <3>5. Memory!UpTo(G, S, turnCount + 1) = Memory!UpTo(G, S, turnCount) + 0
            BY <1>0, <3>3, <3>4, MemorySumNext
        <3>6. Memory!UpTo(G, S, turnCount) = Memory!UpTo(F, S, turnCount) /\ Memory!UpTo(G, S, turnCount) \in Nat
            BY <1>0, <3>1, <3>3, MemorySumSame
        <3> QED BY <1>0, <3>1, <3>5, <3>6
    <2>2. ASSUME NEW c \in Memory!Runs, compactor'[c].at # "idle"
          PROVE  /\ compactor'[c].from = compactedThrough' + 1
                 /\ compactor'[c].original = Memory!UpTo(G, compactor'[c].from..compactor'[c].to, turnCount')
                 /\ compactor'[c].at \in {"saved", "marked"} => compactor'[c].summary = summaries'[<<compactor'[c].from, compactor'[c].to>>]
        <3>1. compactor[c].at # "idle" /\ (compactor'[c].at \in {"saved", "marked"} => compactor[c].at \in {"saved", "marked"})
            BY <1>0, <2>2
        <3>2. compactor[c].from..compactor[c].to \in SUBSET (1..turnCount)
            BY <1>0, <2>0, <3>1 DEF Memory!Shape, Memory!Run
        <3>3. Memory!UpTo(G, compactor[c].from..compactor[c].to, turnCount') = Memory!Tokens(compactor[c].from..compactor[c].to)
            BY <2>1, <3>2
        <3>4. /\ compactor[c].from = compactedThrough + 1
              /\ compactor[c].original = Memory!Tokens(compactor[c].from..compactor[c].to)
              /\ compactor[c].at \in {"saved", "marked"} => compactor[c].summary = summaries[<<compactor[c].from, compactor[c].to>>]
            BY <2>0, <3>1 DEF Memory!Undisturbed, Memory!Span
        <3> QED BY <1>0, <3>1, <3>3, <3>4
    <2>3. Apart(Memory!Held) /\ Apart(Memory!Held')
        BY <1>3, <2>0 DEF Memory!Undisturbed, Apart
    <2>4. \A r \in Memory!Held : Memory!Counted(r)' = Memory!Counted(r)
        <3>1. \A r \in Memory!Held : r[1]..r[2] \in SUBSET (1..turnCount)
            BY <1>0 DEF Memory!Held
        <3>2. \A r \in Memory!Held : Memory!UpTo(G, r[1]..r[2], turnCount') = Memory!Tokens(r[1]..r[2])
            BY <2>1, <3>1
        <3> HIDE DEF F
        <3> QED BY <1>0, <3>2 DEF Memory!Counted, Memory!Tokens, Memory!SumOver
    <2> DEFINE W == Memory!Worth
               V == Memory!Worth'
    <2>5. \A t \in 1..MaxTurns : t <= turnCount => V[t] = W[t] /\ W[t] \in Nat
        <3> SUFFICES ASSUME NEW t \in 1..MaxTurns, t <= turnCount PROVE V[t] = W[t] /\ W[t] \in Nat
            OBVIOUS
        <3>1. CASE t > compactedThrough
            <4>1. W[t] = turns[t].tokens /\ V[t] = turns'[t].tokens
                BY <1>0, <1>2, <2>0, <2>3, <3>1, MemoryWorths, MemoryWorthsNext
            <4>2. turns'[t] = turns[t] /\ turns[t].tokens \in Nat
                BY <1>0, <1>1, <2>0 DEF Memory!Shape
            <4> QED BY <4>1, <4>2
        <3>2. CASE t <= compactedThrough /\ \E r \in Memory!Held : r[1] = t
            <4>1. PICK r \in Memory!Held : r[1] = t
                BY <3>2
            <4>2. W[r[1]] = Memory!Counted(r) /\ V[r[1]] = Memory!Counted(r)'
                BY <1>0, <1>2, <1>3, <2>0, <2>3, <3>2, <4>1, MemoryWorths, MemoryWorthsNext
            <4>3. Memory!Counted(r) \in Nat /\ Memory!Counted(r)' = Memory!Counted(r)
                BY <2>0, <2>4, MemoryTokensAre
            <4> QED BY <4>1, <4>2, <4>3
        <3>3. CASE t <= compactedThrough /\ ~ \E r \in Memory!Held : r[1] = t
            <4>1. W[t] = 0 /\ V[t] = 0
                BY <1>0, <1>2, <1>3, <2>0, <2>3, <3>3, MemoryWorths, MemoryWorthsNext
            <4> QED BY <4>1
        <3> QED BY <1>0, <3>1, <3>2, <3>3
    <2>6. V[turnCount + 1] = n
        BY <1>0, <1>1, <1>2, <2>3, MemoryWorthsNext
    <2>7. totalTokens = Memory!UpTo(W, 1..turnCount, turnCount)
        BY <2>0 DEF Memory!Undisturbed, Memory!SumOver
    <2> HIDE DEF V, W
    <2>8. /\ \A k \in 1..turnCount : Term(W, 1..turnCount, k) \in Nat
          /\ \A k \in 1..turnCount : Term(V, 1..(turnCount + 1), k) = Term(W, 1..turnCount, k)
          /\ Term(V, 1..(turnCount + 1), turnCount + 1) = n
        BY <1>0, <2>5, <2>6 DEF Term
    <2>9. \A k \in 1..(turnCount + 1) : Term(V, 1..(turnCount + 1), k) \in Nat
        BY <1>0, <2>8
    <2>10. Memory!UpTo(V, 1..(turnCount + 1), turnCount + 1) = Memory!UpTo(V, 1..(turnCount + 1), turnCount) + n
        BY <1>0, <2>8, <2>9, MemorySumNext
    <2>11. Memory!UpTo(V, 1..(turnCount + 1), turnCount) = Memory!UpTo(W, 1..turnCount, turnCount)
        BY <1>0, <2>8, MemorySumSame
    <2>12. totalTokens' = Memory!UpTo(V, 1..(turnCount + 1), turnCount + 1)
        BY <1>0, <2>7, <2>10, <2>11
    <2>13. \A t \in 1..turnCount' : turns'[t].compacted <=>
               t <= compactedThrough' \/ \E c \in Memory!Runs : compactor'[c].at = "marked" /\ t <= compactor'[c].to
        <3> SUFFICES ASSUME NEW t \in 1..turnCount'
                     PROVE  turns'[t].compacted <=>
                                t <= compactedThrough
                                \/ \E c \in Memory!Runs : compactor[c].at = "marked" /\ t <= compactor[c].to
            BY <1>0
        <3>1. CASE t <= turnCount
            <4>1. t \in 1..turnCount /\ turns'[t].compacted = turns[t].compacted
                BY <1>0, <1>1, <3>1
            <4> QED BY <2>0, <4>1 DEF Memory!Undisturbed
        <3>2. CASE t = turnCount + 1
            <4>1. ~turns'[t].compacted
                BY <1>0, <1>1, <2>0, <3>2 DEF Memory!Shape
            <4>2. \A c \in Memory!Runs : compactor[c].at = "marked" => compactor[c].to <= turnCount /\ compactor[c].to \in Nat
                BY <2>0 DEF Memory!Shape, Memory!Run
            <4> QED BY <1>0, <3>2, <4>1, <4>2
        <3> QED BY <1>0, <3>1, <3>2
    <2>14. /\ \A c, d \in Memory!Runs : compactor'[c].at = "idle" \/ compactor'[d].at = "idle" \/ c = d
           /\ \A r \in Memory!Held' : r[2] > compactedThrough' =>
                  \E c \in Memory!Runs : compactor'[c].at \in {"saved", "marked"} /\ r = <<compactor'[c].from, compactor'[c].to>>
        BY <1>0, <1>3, <2>0 DEF Memory!Undisturbed, Memory!Span
    <2> QED BY <1>0, <2>2, <2>3, <2>12, <2>13, <2>14
            DEF Memory!Undisturbed, Memory!Tokens, Memory!SumOver, Memory!Span, Apart, V
<1> QED BY <1>2, <1>4, <1>5 DEF Memory!IInv

\* What changes neither a turn's tokens nor a finished summary changes no turn's worth.
LEMMA MemoryWorthSame ==
    ASSUME Memory!Shape, Memory!Shape', Apart(Memory!Held), Apart(Memory!Held'),
           turnCount' = turnCount, compactedThrough' = compactedThrough,
           \A t \in 1..MaxTurns : turns'[t].tokens = turns[t].tokens,
           \A r \in Memory!Held : r \in Memory!Held' /\ summaries'[r] = summaries[r],
           \A r \in Memory!Held' : r[1] <= compactedThrough => r \in Memory!Held
    PROVE  /\ Memory!Worth' = Memory!Worth
           /\ [t \in 1..MaxTurns |-> turns'[t].tokens] = [t \in 1..MaxTurns |-> turns[t].tokens]
<1> DEFINE F == [t \in 1..MaxTurns |-> turns[t].tokens]
           G == [t \in 1..MaxTurns |-> turns'[t].tokens]
           V == Memory!Worth'
           W == Memory!Worth
<1>0. MaxTurns \in Nat /\ turnCount \in 0..MaxTurns /\ compactedThrough \in 0..turnCount
    BY MemorySane DEF Memory!Sane, Memory!Shape
<1>1. G = F
    OBVIOUS
<1>2. \A r \in Memory!Held : Memory!Counted(r)' = Memory!Counted(r)
    <2> HIDE DEF F, G
    <2>1. \A S : Memory!UpTo(G, S, turnCount') = Memory!Tokens(S)
        BY <1>1 DEF Memory!Tokens, Memory!SumOver, F
    <2> QED BY <2>1 DEF Memory!Counted, Memory!Tokens, Memory!SumOver, G
<1>3. ASSUME NEW t \in 1..MaxTurns PROVE V[t] = W[t]
    <2>1. CASE t > compactedThrough
        BY <2>1, MemoryWorths, MemoryWorthsNext
    <2>2. CASE t <= compactedThrough /\ \E r \in Memory!Held : r[1] = t
        <3>1. PICK r \in Memory!Held : r[1] = t
            BY <2>2
        <3>2. W[r[1]] = Memory!Counted(r) /\ V[r[1]] = Memory!Counted(r)'
            BY <2>2, <3>1, MemoryWorths, MemoryWorthsNext
        <3> QED BY <1>2, <3>1, <3>2
    <2>3. CASE t <= compactedThrough /\ ~ \E r \in Memory!Held : r[1] = t
        <3>1. \A r \in Memory!Held' : r[1] # t
            BY <2>3
        <3> QED BY <2>3, <3>1, MemoryWorths, MemoryWorthsNext
    <2> QED BY <1>0, <2>1, <2>2, <2>3
<1>4. V = [t \in 1..MaxTurns |-> V[t]] /\ W = [t \in 1..MaxTurns |-> W[t]]
    BY DEF Memory!Worth
<1> QED BY <1>1, <1>3, <1>4

LEMMA MemorySelectStep ==
    ASSUME Memory!IInv, NEW c \in Memory!Runs, Memory!Select(c)
    PROVE  Memory!IInv'
<1> DEFINE from == compactedThrough + 1
           to == turnCount - KeepRecent
           F == [t \in 1..MaxTurns |-> turns[t].tokens]
           x == [at |-> "asking", from |-> from, to |-> to, summary |-> 0,
                 original |-> Memory!Tokens(from..to)]
<1>0. Memory!Shape /\ Memory!CompactedIsSummarised
    BY DEF Memory!IInv
<1>1. /\ compactor[c].at = "idle" /\ compactor' = [compactor EXCEPT ![c] = x]
      /\ from + KeepRecent <= turnCount
      /\ UNCHANGED <<turnCount, totalTokens, compactedThrough, turns, summaries>>
      /\ disturbed' = (disturbed \/ \E d \in Memory!Runs \ {c} : compactor[d].at # "idle")
    BY DEF Memory!Select, Memory!Tokens
<1>2. from \in Nat /\ to \in Nat /\ 1 <= from /\ from <= to /\ to <= turnCount /\ KeepRecent \in Nat /\ MaxTurns \in Nat
    BY <1>0, <1>1, MemorySane DEF Memory!Shape, Memory!Sane
<1> HIDE DEF from, to
<1>3. x \in Memory!Run /\ x.at = "asking" /\ x.from = from /\ x.to = to /\ x.original = Memory!Tokens(from..to)
    <2>1. Memory!Tokens(from..to) \in Nat
        BY <1>0, MemoryTokensAre
    <2> QED BY <1>2, <2>1 DEF Memory!Run
<1> HIDE DEF x
<1>4. /\ compactor' \in [Memory!Runs -> Memory!Run] /\ compactor'[c] = x
      /\ \A d \in Memory!Runs \ {c} : compactor'[d] = compactor[d]
    BY <1>0, <1>1, <1>3, MemoryRunStep DEF Memory!Shape
<1>5. Memory!Shape'
    <2>1. \A d \in Memory!Runs : compactor'[d].at # "idle" =>
              /\ 1 <= compactor'[d].from /\ compactor'[d].from <= compactor'[d].to
              /\ compactor'[d].to <= turnCount
              /\ compactor'[d].at \in {"saved", "marked"} => summaries[<<compactor'[d].from, compactor'[d].to>>] >= 0
        BY <1>0, <1>2, <1>3, <1>4 DEF Memory!Shape, Memory!Span
    <2>2. disturbed' \in BOOLEAN
        BY <1>1
    <2> QED BY <1>0, <1>1, <1>4, <2>1, <2>2 DEF Memory!Shape, Memory!Span
<1>6. Memory!Held' = Memory!Held
    BY <1>1 DEF Memory!Held
<1>7. Memory!CompactedIsSummarised'
    BY <1>0, <1>1, <1>6 DEF Memory!CompactedIsSummarised
<1>8. ASSUME ~disturbed' PROVE Memory!Undisturbed'
    <2>1. ~disturbed /\ Memory!Undisturbed /\ \A d \in Memory!Runs : compactor[d].at = "idle"
        BY <1>1, <1>8 DEF Memory!IInv
    <2>2. Apart(Memory!Held) /\ Apart(Memory!Held')
        BY <1>6, <2>1 DEF Memory!Undisturbed, Apart
    <2>3. Memory!Worth' = Memory!Worth
        BY <1>0, <1>1, <1>5, <1>6, <2>2, MemoryWorthSame
    <2>4. totalTokens' = Memory!UpTo(Memory!Worth', 1..turnCount', turnCount')
        BY <1>1, <2>1, <2>3 DEF Memory!Undisturbed, Memory!SumOver
    <2>5. /\ \A d, e \in Memory!Runs : compactor'[d].at = "idle" \/ compactor'[e].at = "idle" \/ d = e
          /\ \A d \in Memory!Runs : compactor'[d].at # "idle" => d = c
          /\ \A d \in Memory!Runs : compactor'[d].at \notin {"saved", "marked"}
        BY <1>3, <1>4, <2>1
    <2>6. \A r \in Memory!Held : r[2] <= compactedThrough
        <3>1. \A r \in Memory!Held : ~ (r[2] > compactedThrough)
            BY <2>1 DEF Memory!Undisturbed
        <3> QED BY <1>0, <3>1 DEF Memory!Shape, Memory!Held
    <2>7. \A t \in 1..turnCount : turns[t].compacted <=> t <= compactedThrough
        BY <2>1 DEF Memory!Undisturbed
    <2>8. \A r \in Memory!Held : ~ (r[2] > compactedThrough)
        BY <1>0, <2>6 DEF Memory!Shape, Memory!Held
    <2>9. /\ \A t \in 1..turnCount' : turns'[t].compacted <=>
                \/ t <= compactedThrough'
                \/ \E d \in Memory!Runs : compactor'[d].at = "marked" /\ t <= compactor'[d].to
          /\ \A r \in Memory!Held' : r[2] > compactedThrough' =>
                \E d \in Memory!Runs : /\ compactor'[d].at \in {"saved", "marked"}
                                       /\ r = <<compactor'[d].from, compactor'[d].to>>
        BY <1>1, <1>6, <2>5, <2>7, <2>8
    <2>10. ASSUME NEW d \in Memory!Runs, compactor'[d].at # "idle"
           PROVE  /\ compactor'[d].from = compactedThrough' + 1
                  /\ compactor'[d].original = Memory!UpTo([t \in 1..MaxTurns |-> turns'[t].tokens],
                                                          compactor'[d].from..compactor'[d].to, turnCount')
                  /\ compactor'[d].at \notin {"saved", "marked"}
        <3>1. compactor'[d] = x /\ compactor'[d].at \notin {"saved", "marked"}
            BY <1>4, <2>5, <2>10
        <3>2. Memory!Tokens(from..to) = Memory!UpTo([t \in 1..MaxTurns |-> turns'[t].tokens], from..to, turnCount')
            BY <1>1 DEF Memory!Tokens, Memory!SumOver
        <3> QED BY <1>1, <1>3, <3>1, <3>2 DEF from
    <2> QED BY <2>2, <2>4, <2>5, <2>9, <2>10
            DEF Memory!Undisturbed, Memory!Tokens, Memory!SumOver, Memory!Span, Apart
<1> QED BY <1>5, <1>7, <1>8 DEF Memory!IInv

LEMMA MemorySaveStep ==
    ASSUME Memory!IInv, NEW c \in Memory!Runs, NEW n \in SummaryTokens, Memory!SaveSummary(c, n)
    PROVE  Memory!IInv'
<1> DEFINE s == <<compactor[c].from, compactor[c].to>>
           x == [compactor[c] EXCEPT !.at = "saved", !.summary = n]
           k == IF summaries[s] = Memory!Missing THEN n ELSE summaries[s]
<1>0. Memory!Shape /\ Memory!CompactedIsSummarised /\ n \in Nat /\ MaxTurns \in Nat
    BY MemorySane DEF Memory!IInv, Memory!Sane
<1>1. /\ compactor[c].at = "asking" /\ compactor' = [compactor EXCEPT ![c] = x]
      /\ summaries' = [summaries EXCEPT ![s] = k]
      /\ UNCHANGED <<turnCount, totalTokens, compactedThrough, turns, disturbed>>
    BY DEF Memory!SaveSummary
<1>2. /\ 1 <= compactor[c].from /\ compactor[c].from <= compactor[c].to /\ compactor[c].to <= turnCount
      /\ compactor[c].from \in Nat /\ compactor[c].to \in Nat /\ turnCount \in Nat /\ turnCount <= MaxTurns
      /\ compactedThrough \in Nat /\ compactedThrough <= turnCount
    BY <1>0, <1>1 DEF Memory!Shape, Memory!Run
<1>3. x \in Memory!Run /\ x.at = "saved" /\ x.summary = n /\ x.from = compactor[c].from
      /\ x.to = compactor[c].to /\ x.original = compactor[c].original
    BY <1>0 DEF Memory!Shape, Memory!Run
<1> HIDE DEF x
<1>4. /\ compactor' \in [Memory!Runs -> Memory!Run] /\ compactor'[c] = x
      /\ \A d \in Memory!Runs \ {c} : compactor'[d] = compactor[d]
    BY <1>0, <1>1, <1>3, MemoryRunStep DEF Memory!Shape
<1>5. s \in Memory!Ranges /\ s[1] = compactor[c].from /\ s[2] = compactor[c].to
      /\ s \in (1..turnCount) \X (1..turnCount)
    <2>1. /\ compactor[c].from \in 1..MaxTurns /\ compactor[c].to \in 1..MaxTurns
          /\ compactor[c].from \in 1..turnCount /\ compactor[c].to \in 1..turnCount
        BY <1>0, <1>2
    <2> QED BY <2>1 DEF Memory!Ranges
<1>6. k \in Nat /\ k >= 0 /\ (summaries[s] = Memory!Missing => k = n)
    BY <1>0, <1>5 DEF Memory!Shape
<1> HIDE DEF k
<1>7. /\ summaries' \in [Memory!Ranges -> Nat \union {Memory!Missing}] /\ summaries'[s] = k
      /\ \A r \in Memory!Ranges : r # s => summaries'[r] = summaries[r]
      /\ \A r \in Memory!Ranges : summaries[r] >= 0 => summaries'[r] >= 0
    BY <1>0, <1>1, <1>5, <1>6 DEF Memory!Shape
<1>8. Memory!Held \subseteq Memory!Ranges /\ Memory!Held' = Memory!Held \union {s}
    <2>1. \A r : r \in (1..turnCount) \X (1..turnCount) => r \in Memory!Ranges
        <3>1. 1..turnCount \subseteq 1..MaxTurns
            BY <1>0, <1>2
        <3> QED BY <3>1 DEF Memory!Ranges
    <2> HIDE DEF s
    <2>2. ASSUME NEW r PROVE r \in Memory!Held' <=> r \in Memory!Held \union {s}
        <3>1. r \in Memory!Held' <=> r \in (1..turnCount) \X (1..turnCount) /\ summaries'[r] >= 0
            BY <1>1 DEF Memory!Held
        <3>2. r \in Memory!Held <=> r \in (1..turnCount) \X (1..turnCount) /\ summaries[r] >= 0
            BY DEF Memory!Held
        <3>3. CASE r = s
            BY <1>5, <1>6, <1>7, <3>1, <3>2, <3>3
        <3>4. CASE r # s /\ r \in (1..turnCount) \X (1..turnCount)
            BY <1>7, <2>1, <3>1, <3>2, <3>4
        <3> QED BY <1>5, <3>1, <3>2, <3>3, <3>4
    <2>3. Memory!Held \subseteq Memory!Ranges
        BY <2>1 DEF Memory!Held
    <2> QED BY <2>2, <2>3
<1>9. Memory!Shape'
    <2>1. \A d \in Memory!Runs : compactor'[d].at # "idle" =>
              /\ 1 <= compactor'[d].from /\ compactor'[d].from <= compactor'[d].to
              /\ compactor'[d].to <= turnCount
              /\ compactor'[d].at \in {"saved", "marked"} => summaries'[<<compactor'[d].from, compactor'[d].to>>] >= 0
        <3> SUFFICES ASSUME NEW d \in Memory!Runs, compactor'[d].at # "idle"
                     PROVE  /\ 1 <= compactor'[d].from /\ compactor'[d].from <= compactor'[d].to
                            /\ compactor'[d].to <= turnCount
                            /\ compactor'[d].at \in {"saved", "marked"} =>
                                   summaries'[<<compactor'[d].from, compactor'[d].to>>] >= 0
            OBVIOUS
        <3>1. CASE d = c
            BY <1>2, <1>3, <1>4, <1>6, <1>7, <3>1
        <3>2. CASE d # c
            <4>1. compactor'[d] = compactor[d] /\ compactor[d] \in Memory!Run
                BY <1>0, <1>4, <3>2 DEF Memory!Shape
            <4>2. /\ 1 <= compactor[d].from /\ compactor[d].from <= compactor[d].to /\ compactor[d].to <= turnCount
                  /\ compactor[d].at \in {"saved", "marked"} => summaries[<<compactor[d].from, compactor[d].to>>] >= 0
                BY <1>0, <4>1 DEF Memory!Shape, Memory!Span
            <4>3. <<compactor[d].from, compactor[d].to>> \in Memory!Ranges
                <5>1. compactor[d].from \in Nat /\ compactor[d].to \in Nat
                    BY <4>1 DEF Memory!Run
                <5>2. compactor[d].from \in 1..MaxTurns /\ compactor[d].to \in 1..MaxTurns
                    BY <1>0, <1>2, <4>1, <4>2, <5>1
                <5> QED BY <5>2 DEF Memory!Ranges
            <4> QED BY <1>7, <4>1, <4>2, <4>3
        <3> QED BY <3>1, <3>2
    <2>2. \A r \in Memory!Ranges : summaries'[r] >= 0 => r[1] <= r[2] /\ r[2] <= turnCount
        <3>1. \A r \in Memory!Ranges : summaries[r] >= 0 => r[1] <= r[2] /\ r[2] <= turnCount
            BY <1>0 DEF Memory!Shape
        <3> QED BY <1>2, <1>5, <1>7, <3>1
    <2> QED BY <1>0, <1>1, <1>4, <1>7, <2>1, <2>2 DEF Memory!Shape, Memory!Span
<1>10. Memory!CompactedIsSummarised'
    BY <1>0, <1>1, <1>8 DEF Memory!CompactedIsSummarised
<1>11. ASSUME ~disturbed' PROVE Memory!Undisturbed'
    <2>1. ~disturbed /\ Memory!Undisturbed
        BY <1>1, <1>11 DEF Memory!IInv
    <2>2. /\ \A d \in Memory!Runs : d # c => compactor[d].at = "idle"
          /\ compactor[c].from = compactedThrough + 1
          /\ compactor[c].original = Memory!Tokens(compactor[c].from..compactor[c].to)
        BY <1>1, <2>1 DEF Memory!Undisturbed
    <2>3. \A r \in Memory!Held : r[2] <= compactedThrough /\ r[1] <= r[2] /\ r[1] \in Nat /\ r[2] \in Nat
        <3>1. \A r \in Memory!Held : r[2] > compactedThrough => FALSE
            BY <1>1, <2>1, <2>2 DEF Memory!Undisturbed
        <3>2. \A r \in Memory!Held : r[1] \in Nat /\ r[2] \in Nat /\ r[1] <= r[2]
            BY <1>0, <1>8 DEF Memory!Held, Memory!Shape
        <3> QED BY <1>2, <3>1, <3>2
    <2>4. s \notin Memory!Held /\ summaries[s] = Memory!Missing
        <3>1. s \notin Memory!Held
            BY <1>2, <1>5, <2>2, <2>3
        <3>2. summaries[s] \in Nat \union {Memory!Missing}
            BY <1>0, <1>5 DEF Memory!Shape
        <3> QED BY <1>5, <3>1, <3>2 DEF Memory!Held
    <2>5. Apart(Memory!Held) /\ Apart(Memory!Held')
        <3>1. Apart(Memory!Held)
            BY <2>1 DEF Memory!Undisturbed, Apart
        <3>2. \A r \in Memory!Held : r[2] < s[1]
            BY <1>2, <1>5, <2>2, <2>3
        <3> QED BY <1>8, <3>1, <3>2 DEF Apart
    <2>6. Memory!Worth' = Memory!Worth
        <3>1. \A r \in Memory!Held : r \in Memory!Held' /\ summaries'[r] = summaries[r]
            BY <1>7, <1>8, <2>4
        <3>2. \A r \in Memory!Held' : r[1] <= compactedThrough => r \in Memory!Held
            BY <1>2, <1>5, <1>8, <2>2
        <3> QED BY <1>0, <1>1, <1>9, <2>5, <3>1, <3>2, MemoryWorthSame
    <2>7. totalTokens' = Memory!UpTo(Memory!Worth', 1..turnCount', turnCount')
        BY <1>1, <2>1, <2>6 DEF Memory!Undisturbed, Memory!SumOver
    <2>8. ASSUME NEW d \in Memory!Runs, compactor'[d].at # "idle"
          PROVE  /\ d = c /\ compactor'[d].from = compactedThrough' + 1
                 /\ compactor'[d].original = Memory!UpTo([t \in 1..MaxTurns |-> turns'[t].tokens],
                                                         compactor'[d].from..compactor'[d].to, turnCount')
                 /\ compactor'[d].at = "saved"
                 /\ compactor'[d].summary = summaries'[<<compactor'[d].from, compactor'[d].to>>]
        <3>1. d = c /\ compactor'[d] = x
            BY <1>4, <2>2, <2>8
        <3>2. x.summary = summaries'[<<x.from, x.to>>]
            BY <1>3, <1>6, <1>7, <2>4
        <3>3. Memory!Tokens(compactor[c].from..compactor[c].to)
                  = Memory!UpTo([t \in 1..MaxTurns |-> turns'[t].tokens], compactor[c].from..compactor[c].to, turnCount')
            BY <1>1 DEF Memory!Tokens, Memory!SumOver
        <3> QED BY <1>1, <1>3, <2>2, <3>1, <3>2, <3>3
    <2>9. \A d, e \in Memory!Runs : compactor'[d].at = "idle" \/ compactor'[e].at = "idle" \/ d = e
        BY <2>8
    <2>10. \A r \in Memory!Held' : r[2] > compactedThrough' =>
               \E d \in Memory!Runs : /\ compactor'[d].at \in {"saved", "marked"}
                                      /\ r = <<compactor'[d].from, compactor'[d].to>>
        <3>1. \A r \in Memory!Held : ~ (r[2] > compactedThrough)
            BY <1>2, <2>3
        <3> QED BY <1>1, <1>3, <1>4, <1>8, <3>1
    <2>11. \A t \in 1..turnCount' : turns'[t].compacted <=>
                \/ t <= compactedThrough'
                \/ \E d \in Memory!Runs : compactor'[d].at = "marked" /\ t <= compactor'[d].to
        <3>1. \A d \in Memory!Runs : compactor[d].at # "marked" /\ compactor'[d].at # "marked"
            BY <1>1, <2>2, <2>8
        <3> QED BY <1>1, <2>1, <3>1 DEF Memory!Undisturbed
    <2> QED BY <2>5, <2>7, <2>8, <2>9, <2>10, <2>11
            DEF Memory!Undisturbed, Memory!Tokens, Memory!SumOver, Memory!Span, Apart
<1> QED BY <1>9, <1>10, <1>11 DEF Memory!IInv

LEMMA MemoryMarkStep ==
    ASSUME Memory!IInv, NEW c \in Memory!Runs, Memory!MarkTurns(c)
    PROVE  Memory!IInv'
<1> DEFINE x == [compactor[c] EXCEPT !.at = "marked"]
           s == <<compactor[c].from, compactor[c].to>>
<1>0. Memory!Shape /\ Memory!CompactedIsSummarised /\ MaxTurns \in Nat
    BY MemorySane DEF Memory!IInv, Memory!Sane
<1>1. /\ compactor[c].at = "saved" /\ compactor' = [compactor EXCEPT ![c] = x]
      /\ UNCHANGED <<turnCount, totalTokens, compactedThrough, summaries, disturbed>>
    BY DEF Memory!MarkTurns
<1>2. /\ 1 <= compactor[c].from /\ compactor[c].from <= compactor[c].to /\ compactor[c].to <= turnCount
      /\ compactor[c].from \in Nat /\ compactor[c].to \in Nat /\ turnCount \in Nat /\ turnCount <= MaxTurns
      /\ compactedThrough \in Nat /\ compactedThrough <= turnCount /\ summaries[s] >= 0
    BY <1>0, <1>1 DEF Memory!Shape, Memory!Run, Memory!Span
<1>3. x \in Memory!Run /\ x.at = "marked" /\ x.summary = compactor[c].summary /\ x.from = compactor[c].from
      /\ x.to = compactor[c].to /\ x.original = compactor[c].original
    BY <1>0 DEF Memory!Shape, Memory!Run
<1> HIDE DEF x
<1>4. /\ compactor' \in [Memory!Runs -> Memory!Run] /\ compactor'[c] = x
      /\ \A d \in Memory!Runs \ {c} : compactor'[d] = compactor[d]
    BY <1>0, <1>1, <1>3, MemoryRunStep DEF Memory!Shape
<1>5. ASSUME NEW t \in 1..MaxTurns
      PROVE  /\ turns'[t] \in [tokens : Nat, compacted : BOOLEAN] /\ turns'[t].tokens = turns[t].tokens
             /\ turns'[t].compacted <=> turns[t].compacted \/ t \in compactor[c].from..compactor[c].to
    <2>0. turns[t] \in [tokens : Nat, compacted : BOOLEAN]
        BY <1>0 DEF Memory!Shape
    <2>1. turns'[t] = IF t \in compactor[c].from..compactor[c].to
                      THEN [turns[t] EXCEPT !.compacted = TRUE] ELSE turns[t]
        BY DEF Memory!MarkTurns
    <2> QED BY <2>0, <2>1
<1>6. turns' \in [1..MaxTurns -> [tokens : Nat, compacted : BOOLEAN]]
    <2>1. turns' = [t \in 1..MaxTurns |-> turns'[t]]
        BY DEF Memory!MarkTurns
    <2> QED BY <1>5, <2>1
<1>7. Memory!Held' = Memory!Held /\ s \in Memory!Held /\ s[1] = compactor[c].from /\ s[2] = compactor[c].to
    BY <1>1, <1>2 DEF Memory!Held
<1>8. Memory!Shape'
    <2>1. \A d \in Memory!Runs : compactor'[d].at # "idle" =>
              /\ 1 <= compactor'[d].from /\ compactor'[d].from <= compactor'[d].to
              /\ compactor'[d].to <= turnCount
              /\ compactor'[d].at \in {"saved", "marked"} => summaries[<<compactor'[d].from, compactor'[d].to>>] >= 0
        BY <1>0, <1>2, <1>3, <1>4 DEF Memory!Shape, Memory!Span
    <2>2. \A t \in 1..MaxTurns : turns'[t].compacted => t <= turnCount
        <3>1. \A t \in 1..MaxTurns : turns[t].compacted => t <= turnCount
            BY <1>0 DEF Memory!Shape
        <3> QED BY <1>2, <1>5, <3>1
    <2> QED BY <1>0, <1>1, <1>4, <1>6, <2>1, <2>2 DEF Memory!Shape, Memory!Span
<1>9. Memory!CompactedIsSummarised'
    <2>1. ASSUME NEW t \in 1..turnCount, turns'[t].compacted
          PROVE  \E r \in Memory!Held : t \in r[1]..r[2]
        <3>0. t \in 1..MaxTurns
            BY <1>0, <1>2
        <3>1. turns[t].compacted \/ t \in compactor[c].from..compactor[c].to
            BY <1>5, <2>1, <3>0
        <3> HIDE DEF s
        <3> QED BY <1>0, <1>7, <3>1 DEF Memory!CompactedIsSummarised
    <2> QED BY <1>1, <1>7, <2>1 DEF Memory!CompactedIsSummarised
<1>10. ASSUME ~disturbed' PROVE Memory!Undisturbed'
    <2>1. ~disturbed /\ Memory!Undisturbed
        BY <1>1, <1>10 DEF Memory!IInv
    <2>2. /\ \A d \in Memory!Runs : d # c => compactor[d].at = "idle"
          /\ compactor[c].from = compactedThrough + 1
          /\ compactor[c].original = Memory!Tokens(compactor[c].from..compactor[c].to)
          /\ compactor[c].summary = summaries[s]
        BY <1>1, <2>1 DEF Memory!Undisturbed, Memory!Span
    <2>3. Apart(Memory!Held) /\ Apart(Memory!Held')
        BY <1>7, <2>1 DEF Memory!Undisturbed, Apart
    <2>4. /\ Memory!Worth' = Memory!Worth
          /\ [t \in 1..MaxTurns |-> turns'[t].tokens] = [t \in 1..MaxTurns |-> turns[t].tokens]
        BY <1>0, <1>1, <1>5, <1>7, <1>8, <2>3, MemoryWorthSame
    <2>5. totalTokens' = Memory!UpTo(Memory!Worth', 1..turnCount', turnCount')
        BY <1>1, <2>1, <2>4 DEF Memory!Undisturbed, Memory!SumOver
    <2>6. ASSUME NEW d \in Memory!Runs, compactor'[d].at # "idle"
          PROVE  /\ d = c /\ compactor'[d].from = compactedThrough' + 1
                 /\ compactor'[d].original = Memory!UpTo([t \in 1..MaxTurns |-> turns'[t].tokens],
                                                         compactor'[d].from..compactor'[d].to, turnCount')
                 /\ compactor'[d].at = "marked" /\ compactor'[d].to = compactor[c].to
                 /\ compactor'[d].summary = summaries'[<<compactor'[d].from, compactor'[d].to>>]
        <3>1. d = c /\ compactor'[d] = x
            BY <1>4, <2>2, <2>6
        <3>2. Memory!Tokens(compactor[c].from..compactor[c].to)
                  = Memory!UpTo([t \in 1..MaxTurns |-> turns'[t].tokens], compactor[c].from..compactor[c].to, turnCount')
            BY <1>1, <2>4 DEF Memory!Tokens, Memory!SumOver
        <3> QED BY <1>1, <1>3, <2>2, <3>1, <3>2
    <2>7. \A d, e \in Memory!Runs : compactor'[d].at = "idle" \/ compactor'[e].at = "idle" \/ d = e
        BY <2>6
    <2>8. \A r \in Memory!Held' : r[2] > compactedThrough' =>
               \E d \in Memory!Runs : /\ compactor'[d].at \in {"saved", "marked"}
                                      /\ r = <<compactor'[d].from, compactor'[d].to>>
        <3>1. \A r \in Memory!Held : r[2] > compactedThrough => r = s
            BY <2>1, <2>2 DEF Memory!Undisturbed, Memory!Span
        <3> QED BY <1>1, <1>3, <1>4, <1>7, <3>1
    <2>9. \A t \in 1..turnCount' : turns'[t].compacted <=>
                \/ t <= compactedThrough'
                \/ \E d \in Memory!Runs : compactor'[d].at = "marked" /\ t <= compactor'[d].to
        <3> SUFFICES ASSUME NEW t \in 1..turnCount
                     PROVE  turns'[t].compacted <=>
                                \/ t <= compactedThrough
                                \/ \E d \in Memory!Runs : compactor'[d].at = "marked" /\ t <= compactor'[d].to
            BY <1>1
        <3>1. turns[t].compacted <=> t <= compactedThrough
            BY <1>1, <2>1, <2>2 DEF Memory!Undisturbed
        <3>2. turns'[t].compacted <=> turns[t].compacted \/ t \in compactor[c].from..compactor[c].to
            <4>1. t \in 1..MaxTurns
                BY <1>0, <1>2
            <4> QED BY <1>5, <4>1
        <3>3. (\E d \in Memory!Runs : compactor'[d].at = "marked" /\ t <= compactor'[d].to) <=> t <= compactor[c].to
            BY <1>3, <1>4, <2>6
        <3> QED BY <1>2, <2>2, <3>1, <3>2, <3>3
    <2> QED BY <2>3, <2>5, <2>6, <2>7, <2>8, <2>9
            DEF Memory!Undisturbed, Memory!Tokens, Memory!SumOver, Memory!Span, Apart
<1> QED BY <1>8, <1>9, <1>10 DEF Memory!IInv

LEMMA MemoryWorthIsNat ==
    ASSUME Memory!Shape, Apart(Memory!Held), NEW t \in 1..MaxTurns
    PROVE  Memory!Worth[t] \in Nat
<1>0. turns[t].tokens \in Nat /\ compactedThrough \in Nat
    BY MemorySane DEF Memory!Sane, Memory!Shape
<1>1. CASE t > compactedThrough
    BY <1>0, <1>1, MemoryWorths
<1>2. CASE t <= compactedThrough /\ \E r \in Memory!Held : r[1] = t
    <2>1. PICK r \in Memory!Held : r[1] = t
        BY <1>2
    <2> QED BY <1>2, <2>1, MemoryWorths, MemoryTokensAre
<1>3. CASE t <= compactedThrough /\ ~ \E r \in Memory!Held : r[1] = t
    <2>1. Memory!Worth[t] = 0
        BY <1>3, MemoryWorths
    <2> QED BY <2>1
<1> QED BY <1>0, <1>1, <1>2, <1>3

LEMMA MemoryUpdateStep ==
    ASSUME Memory!IInv, NEW c \in Memory!Runs, Memory!UpdateSession(c)
    PROVE  Memory!IInv'
<1> DEFINE from == compactor[c].from
           to == compactor[c].to
           n == Memory!Reclaimed(compactor[c].original, compactor[c].summary)
           F == [t \in 1..MaxTurns |-> turns[t].tokens]
<1>0. Memory!Shape /\ Memory!CompactedIsSummarised /\ MaxTurns \in Nat
    BY MemorySane DEF Memory!IInv, Memory!Sane
<1>1. /\ compactor[c].at = "marked" /\ compactor' = [compactor EXCEPT ![c] = Memory!Away]
      /\ compactedThrough' = to /\ totalTokens' = IF n < totalTokens THEN totalTokens - n ELSE 0
      /\ UNCHANGED <<turnCount, turns, summaries, disturbed>>
    BY DEF Memory!UpdateSession
<1>2. /\ 1 <= from /\ from <= to /\ to <= turnCount /\ from \in Nat /\ to \in Nat
      /\ turnCount \in Nat /\ turnCount <= MaxTurns
      /\ compactedThrough \in Nat /\ compactedThrough <= turnCount /\ summaries[<<from, to>>] >= 0
    BY <1>0, <1>1 DEF Memory!Shape, Memory!Run, Memory!Span
<1>3. /\ compactor[c].original \in Nat /\ compactor[c].summary \in Nat
      /\ n = IF compactor[c].summary < compactor[c].original
             THEN compactor[c].original - compactor[c].summary ELSE 0
    BY <1>0 DEF Memory!Shape, Memory!Run, Memory!Reclaimed
<1> HIDE DEF n
<1>4. /\ compactor' \in [Memory!Runs -> Memory!Run] /\ compactor'[c].at = "idle"
      /\ \A d \in Memory!Runs \ {c} : compactor'[d] = compactor[d]
    <2>1. Memory!Away \in Memory!Run /\ Memory!Away.at = "idle"
        BY DEF Memory!Away, Memory!Run
    <2> QED BY <1>0, <1>1, <2>1, MemoryRunStep DEF Memory!Shape
<1>5. n \in Nat /\ totalTokens \in Nat /\ totalTokens' \in Nat
    BY <1>0, <1>1, <1>3 DEF Memory!Shape
<1>6. Memory!Shape'
    <2>1. \A d \in Memory!Runs : compactor'[d].at # "idle" =>
              /\ 1 <= compactor'[d].from /\ compactor'[d].from <= compactor'[d].to
              /\ compactor'[d].to <= turnCount
              /\ compactor'[d].at \in {"saved", "marked"} => summaries[<<compactor'[d].from, compactor'[d].to>>] >= 0
        BY <1>0, <1>4 DEF Memory!Shape, Memory!Span
    <2> QED BY <1>0, <1>1, <1>2, <1>4, <1>5, <2>1 DEF Memory!Shape, Memory!Span
<1>7. Memory!Held' = Memory!Held
    BY <1>1 DEF Memory!Held
<1>8. Memory!CompactedIsSummarised'
    BY <1>0, <1>1, <1>7 DEF Memory!CompactedIsSummarised
<1>9. ASSUME ~disturbed' PROVE Memory!Undisturbed'
    <2>1. ~disturbed /\ Memory!Undisturbed
        BY <1>1, <1>9 DEF Memory!IInv
    <2>2. /\ \A d \in Memory!Runs : d # c => compactor[d].at = "idle"
          /\ from = compactedThrough + 1 /\ compactor[c].original = Memory!Tokens(from..to)
          /\ compactor[c].summary = summaries[<<from, to>>]
        BY <1>1, <2>1 DEF Memory!Undisturbed, Memory!Span
    <2>3. Apart(Memory!Held) /\ Apart(Memory!Held')
        BY <1>7, <2>1 DEF Memory!Undisturbed, Apart
    <2>4. \A d \in Memory!Runs : compactor'[d].at = "idle"
        BY <1>4, <2>2
    <2>5. \A r \in Memory!Held : r[1] \in Nat /\ r[2] \in Nat /\ r[1] <= r[2]
                                 /\ (r[2] <= compactedThrough \/ r = <<from, to>>)
        <3>1. \A r \in Memory!Held : r[2] > compactedThrough => r = <<from, to>>
            BY <2>1, <2>2 DEF Memory!Undisturbed, Memory!Span
        <3>2. \A r \in Memory!Held : r[1] \in Nat /\ r[2] \in Nat /\ r[1] <= r[2]
            BY <1>0, <1>2 DEF Memory!Held, Memory!Shape, Memory!Ranges
        <3> QED BY <1>2, <3>1, <3>2
    <2>6. <<from, to>> \in Memory!Held
        BY <1>2 DEF Memory!Held
    <2> DEFINE W == Memory!Worth
               V == Memory!Worth'
               P == from..to
               A == 1..turnCount
    <2>7. ASSUME NEW r \in Memory!Held PROVE Memory!Counted(r)' = Memory!Counted(r)
        BY <1>1 DEF Memory!Counted, Memory!Tokens, Memory!SumOver
    <2>8. ASSUME NEW t \in 1..MaxTurns, t > to PROVE V[t] = W[t]
        <3>1. t > compactedThrough /\ t > compactedThrough'
            BY <1>1, <1>2, <2>2, <2>8
        <3>2. V[t] = turns'[t].tokens
            BY <1>6, <2>3, <3>1, MemoryWorthsNext
        <3>3. W[t] = turns[t].tokens
            BY <1>0, <2>3, <3>1, MemoryWorths
        <3> QED BY <1>1, <3>2, <3>3
    <2>9. ASSUME NEW t \in 1..MaxTurns, t < from PROVE V[t] = W[t]
        <3>0. t <= compactedThrough /\ t <= compactedThrough'
            BY <1>1, <1>2, <2>2, <2>9
        <3>1. CASE \E r \in Memory!Held : r[1] = t
            <4>1. PICK r \in Memory!Held : r[1] = t
                BY <3>1
            <4>2. V[r[1]] = Memory!Counted(r)'
                BY <1>6, <1>7, <2>3, <3>0, <4>1, MemoryWorthsNext
            <4>3. W[r[1]] = Memory!Counted(r)
                BY <1>0, <2>3, <3>0, <4>1, MemoryWorths
            <4> QED BY <2>7, <4>1, <4>2, <4>3
        <3>2. CASE ~ \E r \in Memory!Held : r[1] = t
            <4>1. V[t] = 0
                BY <1>6, <1>7, <2>3, <3>0, <3>2, MemoryWorthsNext
            <4>2. W[t] = 0
                BY <1>0, <2>3, <3>0, <3>2, MemoryWorths
            <4> QED BY <4>1, <4>2
        <3> QED BY <3>1, <3>2
    <2>10. ASSUME NEW t \in 1..MaxTurns, t \in P PROVE W[t] = F[t] /\ (t # from => V[t] = 0)
        <3>1. t > compactedThrough /\ t <= compactedThrough'
            BY <1>1, <1>2, <2>2, <2>10
        <3>2. W[t] = F[t]
            BY <1>0, <2>3, <3>1, MemoryWorths
        <3>3. ASSUME t # from PROVE V[t] = 0
            <4>1. \A r \in Memory!Held' : r[1] # t
                BY <1>2, <1>7, <2>2, <2>5, <2>10, <3>3
            <4> QED BY <1>6, <2>3, <3>1, <4>1, MemoryWorthsNext
        <3> QED BY <3>2, <3>3
    <2>11. V[from] = (IF compactor[c].summary < compactor[c].original
                      THEN compactor[c].summary ELSE compactor[c].original) /\ V[from] \in Nat
        <3>s. PICK s : s = <<from, to>>
            OBVIOUS
        <3>0. s \in Memory!Held /\ s[1] = from /\ s[2] = to
            BY <2>6, <3>s
        <3>1. V[s[1]] = Memory!Counted(s)'
            BY <1>1, <1>2, <1>6, <1>7, <2>3, <3>0, MemoryWorthsNext
        <3>2. Memory!Counted(s)' = Memory!Counted(s)
            BY <2>7, <3>0
        <3>3. Memory!Counted(s) = IF summaries[s] < Memory!Tokens(from..to) THEN summaries[s] ELSE Memory!Tokens(from..to)
            BY <3>0 DEF Memory!Counted
        <3>4. Memory!Counted(s) = IF compactor[c].summary < compactor[c].original
                                  THEN compactor[c].summary ELSE compactor[c].original
            BY <2>2, <3>s, <3>3
        <3> QED BY <1>3, <3>0, <3>1, <3>2, <3>4
    <2>12. \A t \in A : t \in 1..MaxTurns /\ W[t] \in Nat
        <3>1. \A t \in A : t \in 1..MaxTurns
            BY <1>0, <1>2
        <3> QED BY <1>0, <2>3, <3>1, MemoryWorthIsNat
    <2>13. /\ \A k \in 1..turnCount : Term(F, P, k) \in Nat
           /\ Memory!Tokens(from..to) = Memory!UpTo(F, P, turnCount)
        BY <1>0, MemoryTokensAre
    <2>14. totalTokens = Memory!UpTo(W, A, turnCount)
        BY <2>1 DEF Memory!Undisturbed, Memory!SumOver
    <2> HIDE DEF F, V, W
    <2>15. Splits(W, A, F, P, W, A \ P, turnCount)
        <3> SUFFICES ASSUME NEW k \in 1..turnCount
                     PROVE  /\ Term(F, P, k) \in Nat /\ Term(W, A \ P, k) \in Nat
                            /\ Term(W, A, k) = Term(F, P, k) + Term(W, A \ P, k)
            BY DEF Splits
        <3>1. k \in A /\ k \in 1..MaxTurns /\ W[k] \in Nat /\ Term(F, P, k) \in Nat
            BY <2>12, <2>13
        <3>2. CASE k \in P
            BY <2>10, <3>1, <3>2 DEF Term
        <3>3. CASE k \notin P
            BY <3>1, <3>3 DEF Term
        <3> QED BY <3>2, <3>3
    <2>16. Splits(V, A, V, {from}, W, A \ P, turnCount)
        <3> SUFFICES ASSUME NEW k \in 1..turnCount
                     PROVE  /\ Term(V, {from}, k) \in Nat /\ Term(W, A \ P, k) \in Nat
                            /\ Term(V, A, k) = Term(V, {from}, k) + Term(W, A \ P, k)
            BY DEF Splits
        <3>1. k \in A /\ k \in 1..MaxTurns /\ W[k] \in Nat
            BY <2>12
        <3>2. CASE k \in P
            BY <2>10, <2>11, <3>1, <3>2 DEF Term
        <3>3. CASE k \notin P
            <4>1. k < from \/ k > to
                BY <1>2, <3>3
            <4>2. V[k] = W[k] /\ k # from
                BY <1>2, <2>8, <2>9, <3>1, <4>1
            <4> QED BY <3>1, <3>3, <4>2 DEF Term
        <3> QED BY <3>2, <3>3
    <2>17. /\ Memory!UpTo(W, A, turnCount) = Memory!UpTo(F, P, turnCount) + Memory!UpTo(W, A \ P, turnCount)
           /\ Memory!UpTo(F, P, turnCount) \in Nat /\ Memory!UpTo(W, A \ P, turnCount) \in Nat
        BY <1>2, <2>15, MemorySumPlus
    <2>18. Memory!UpTo(V, A, turnCount) = Memory!UpTo(V, {from}, turnCount) + Memory!UpTo(W, A \ P, turnCount)
        BY <1>2, <2>16, MemorySumPlus
    <2>19. Memory!UpTo(V, {from}, turnCount) = V[from]
        BY <1>2, <2>11, MemorySumOne
    <2>20. totalTokens' = Memory!UpTo(V, A, turnCount)
        <3> HIDE DEF A, P, from, to
        <3>1. totalTokens = compactor[c].original + Memory!UpTo(W, A \ P, turnCount)
            BY <2>2, <2>13, <2>14, <2>17
        <3>2. Memory!UpTo(V, A, turnCount) = V[from] + Memory!UpTo(W, A \ P, turnCount)
            BY <2>18, <2>19
        <3> QED BY <1>1, <1>3, <2>11, <2>17, <3>1, <3>2
    <2>21. \A r \in Memory!Held' : ~ (r[2] > compactedThrough')
        BY <1>1, <1>2, <1>7, <2>2, <2>5
    <2>22. \A t \in 1..turnCount' : turns'[t].compacted <=> t <= compactedThrough'
        <3> SUFFICES ASSUME NEW t \in 1..turnCount
                     PROVE  turns[t].compacted <=> t <= to
            BY <1>1
        <3>1. turns[t].compacted <=> t <= compactedThrough \/ t <= to
            BY <1>1, <2>1, <2>2 DEF Memory!Undisturbed
        <3> QED BY <1>2, <2>2, <3>1
    <2>23. totalTokens' = Memory!UpTo(Memory!Worth', 1..turnCount', turnCount')
        BY <1>1, <2>20 DEF V
    <2> QED BY <2>3, <2>4, <2>21, <2>22, <2>23
            DEF Memory!Undisturbed, Memory!Tokens, Memory!SumOver, Memory!Span, Apart
<1> QED BY <1>6, <1>8, <1>9 DEF Memory!IInv

LEMMA MemoryDieStep ==
    ASSUME Memory!IInv, NEW c \in Memory!Runs, Memory!Die(c)
    PROVE  Memory!IInv'
<1>0. Memory!Shape /\ Memory!CompactedIsSummarised /\ MaxTurns \in Nat
    BY MemorySane DEF Memory!IInv, Memory!Sane
<1>1. /\ compactor[c].at # "idle" /\ compactor' = [compactor EXCEPT ![c] = Memory!Away]
      /\ disturbed' = (disturbed \/ compactor[c].at # "asking")
      /\ UNCHANGED <<turnCount, totalTokens, compactedThrough, turns, summaries>>
    BY DEF Memory!Die
<1>2. /\ compactor' \in [Memory!Runs -> Memory!Run] /\ compactor'[c].at = "idle"
      /\ \A d \in Memory!Runs \ {c} : compactor'[d] = compactor[d]
    <2>1. Memory!Away \in Memory!Run /\ Memory!Away.at = "idle"
        BY DEF Memory!Away, Memory!Run
    <2> QED BY <1>0, <1>1, <2>1, MemoryRunStep DEF Memory!Shape
<1>3. Memory!Shape'
    <2>1. \A d \in Memory!Runs : compactor'[d].at # "idle" =>
              /\ 1 <= compactor'[d].from /\ compactor'[d].from <= compactor'[d].to
              /\ compactor'[d].to <= turnCount
              /\ compactor'[d].at \in {"saved", "marked"} => summaries[<<compactor'[d].from, compactor'[d].to>>] >= 0
        BY <1>0, <1>2 DEF Memory!Shape, Memory!Span
    <2>2. disturbed' \in BOOLEAN
        BY <1>1
    <2> QED BY <1>0, <1>1, <1>2, <2>1, <2>2 DEF Memory!Shape, Memory!Span
<1>4. Memory!Held' = Memory!Held
    BY <1>1 DEF Memory!Held
<1>5. Memory!CompactedIsSummarised'
    BY <1>0, <1>1, <1>4 DEF Memory!CompactedIsSummarised
<1>6. ASSUME ~disturbed' PROVE Memory!Undisturbed'
    <2>1. ~disturbed /\ Memory!Undisturbed /\ compactor[c].at = "asking"
        BY <1>1, <1>6 DEF Memory!IInv
    <2>2. /\ \A d \in Memory!Runs : d # c => compactor[d].at = "idle"
          /\ \A d \in Memory!Runs : compactor'[d].at = "idle"
        BY <1>1, <1>2, <2>1 DEF Memory!Undisturbed
    <2>3. Apart(Memory!Held) /\ Apart(Memory!Held')
        BY <1>4, <2>1 DEF Memory!Undisturbed, Apart
    <2>4. Memory!Worth' = Memory!Worth
        BY <1>0, <1>1, <1>3, <1>4, <2>3, MemoryWorthSame
    <2>5. totalTokens' = Memory!UpTo(Memory!Worth', 1..turnCount', turnCount')
        BY <1>1, <2>1, <2>4 DEF Memory!Undisturbed, Memory!SumOver
    <2>6. \A r \in Memory!Held' : ~ (r[2] > compactedThrough')
        BY <1>1, <1>4, <2>1, <2>2 DEF Memory!Undisturbed
    <2>7. \A t \in 1..turnCount' : turns'[t].compacted <=> t <= compactedThrough'
        BY <1>1, <2>1, <2>2 DEF Memory!Undisturbed
    <2> QED BY <2>2, <2>3, <2>5, <2>6, <2>7
            DEF Memory!Undisturbed, Memory!Tokens, Memory!SumOver, Memory!Span, Apart
<1> QED BY <1>3, <1>5, <1>6 DEF Memory!IInv

LEMMA MemoryStepHolds == ASSUME Memory!IInv, [Memory!Next]_(Memory!vars) PROVE Memory!IInv'
<1>1. CASE UNCHANGED Memory!vars
    <2>1. Memory!Shape' /\ Memory!CompactedIsSummarised'
        BY <1>1 DEF Memory!vars, Memory!IInv, Memory!Shape, Memory!CompactedIsSummarised, Memory!Held, Memory!Span
    <2>2. ASSUME ~disturbed' PROVE Memory!Undisturbed'
        <3>1. Memory!Undisturbed /\ Memory!Shape
            BY <1>1, <2>2 DEF Memory!vars, Memory!IInv
        <3>2. Memory!Held' = Memory!Held /\ Apart(Memory!Held) /\ Apart(Memory!Held')
            BY <1>1, <3>1 DEF Memory!vars, Memory!Held, Memory!Undisturbed, Apart
        <3>3. Memory!Worth' = Memory!Worth
            BY <1>1, <2>1, <3>1, <3>2, MemoryWorthSame DEF Memory!vars
        <3> QED BY <1>1, <3>1, <3>2, <3>3 DEF Memory!vars, Memory!Undisturbed, Memory!Tokens, Memory!SumOver, Memory!Span
    <2> QED BY <2>1, <2>2 DEF Memory!IInv
<1> QED
    BY <1>1, MemoryAddStep, MemorySelectStep, MemorySaveStep, MemoryMarkStep, MemoryUpdateStep, MemoryDieStep
    DEF Memory!Next

LEMMA MemoryIInvIsSafe == ASSUME Memory!IInv PROVE Memory!Safety
<1>0. Memory!Shape /\ Memory!CompactedIsSummarised /\ MaxTurns \in Nat
    BY MemorySane DEF Memory!IInv, Memory!Sane
<1>1. Memory!TypeOK
    BY <1>0 DEF Memory!Shape, Memory!TypeOK, Memory!Run
<1>2. Memory!TotalIsTrue
    <2> DEFINE C == [t \in 1..MaxTurns |->
                        IF \E r \in Memory!Held : r[1] = t
                        THEN Memory!Counted(CHOOSE r \in Memory!Held : r[1] = t) ELSE 0]
    <2>1. SUFFICES ASSUME ~disturbed, \A c \in Memory!Runs : compactor[c].at \in {"idle", "asking"}
                   PROVE  /\ Memory!Open = compactedThrough + 1 .. turnCount
                          /\ totalTokens = Memory!Tokens(Memory!Open) + Memory!SumOver(C, 1..MaxTurns)
        <3>1. ~disturbed => Apart(Memory!Held)
            BY DEF Memory!IInv, Memory!Undisturbed, Apart
        <3> QED BY <3>1 DEF Memory!TotalIsTrue, Apart
    <2>2. Memory!Undisturbed /\ Apart(Memory!Held)
        BY <2>1 DEF Memory!IInv, Memory!Undisturbed, Apart
    <2>3. turnCount \in Nat /\ compactedThrough \in Nat /\ compactedThrough <= turnCount /\ turnCount <= MaxTurns
        BY <1>0 DEF Memory!Shape
    <2>4. \A t \in 1..turnCount : turns[t].compacted <=> t <= compactedThrough
        BY <2>1, <2>2 DEF Memory!Undisturbed
    <2>5. Memory!Open = compactedThrough + 1 .. turnCount
        BY <2>3, <2>4 DEF Memory!Open
    <2>6. \A r \in Memory!Held : r[1] \in Nat /\ r[1] <= compactedThrough
        <3>1. \A r \in Memory!Held : ~ (r[2] > compactedThrough)
            BY <2>1, <2>2 DEF Memory!Undisturbed
        <3>2. \A r \in Memory!Held : r[1] \in Nat /\ r[2] \in Nat /\ r[1] <= r[2]
            BY <1>0, <2>3 DEF Memory!Held, Memory!Shape, Memory!Ranges
        <3> QED BY <2>3, <3>1, <3>2
    <2> DEFINE W == Memory!Worth
               F == [t \in 1..MaxTurns |-> turns[t].tokens]
               A == 1..turnCount
               O == compactedThrough + 1 .. turnCount
    <2>7. \A t \in 1..MaxTurns : W[t] = IF t > compactedThrough THEN F[t] ELSE C[t]
        BY DEF Memory!Worth
    <2>8. \A t \in 1..MaxTurns : t > compactedThrough => C[t] = 0
        BY <2>3, <2>6
    <2>9. \A t \in A : t \in 1..MaxTurns /\ W[t] \in Nat
        <3>1. \A t \in A : t \in 1..MaxTurns
            BY <1>0, <2>3
        <3> QED BY <1>0, <2>2, <3>1, MemoryWorthIsNat
    <2>10. /\ \A k \in 1..turnCount : Term(F, O, k) \in Nat
           /\ Memory!Tokens(O) = Memory!UpTo(F, O, turnCount)
        BY <1>0, MemoryTokensAre
    <2>11. totalTokens = Memory!UpTo(W, A, turnCount)
        BY <2>2 DEF Memory!Undisturbed, Memory!SumOver
    <2> HIDE DEF C, W, F
    <2>12. Splits(W, A, F, O, C, 1..MaxTurns, turnCount)
        <3> SUFFICES ASSUME NEW k \in 1..turnCount
                     PROVE  /\ Term(F, O, k) \in Nat /\ Term(C, 1..MaxTurns, k) \in Nat
                            /\ Term(W, A, k) = Term(F, O, k) + Term(C, 1..MaxTurns, k)
            BY DEF Splits
        <3>1. k \in A /\ k \in 1..MaxTurns /\ W[k] \in Nat /\ Term(F, O, k) \in Nat
            BY <2>9, <2>10
        <3>2. CASE k \in O
            BY <2>3, <2>7, <2>8, <3>1, <3>2 DEF Term
        <3>3. CASE k \notin O
            BY <2>3, <2>7, <3>1, <3>3 DEF Term
        <3> QED BY <3>2, <3>3
    <2>13. Memory!UpTo(W, A, turnCount) = Memory!UpTo(F, O, turnCount) + Memory!UpTo(C, 1..MaxTurns, turnCount)
        BY <2>3, <2>12, MemorySumPlus
    <2>14. Memory!SumOver(C, 1..MaxTurns) = Memory!UpTo(C, 1..MaxTurns, turnCount)
        BY DEF Memory!SumOver
    <2> QED BY <2>5, <2>10, <2>11, <2>13, <2>14
<1> QED BY <1>0, <1>1, <1>2 DEF Memory!Safety

\* What is marked compacted is summarised, and compactions that nothing disturbs leave no gap
\* and keep the total true: for every number of turns, threshold and size of a text.
LEMMA MemoryHolds == Memory!Spec => []Memory!Safety
<1> QED BY MemoryInitHolds, MemoryStepHolds, MemoryIInvIsSafe, PTL DEF Memory!Spec

-----------------------------------------------------------------------------
(* Analytics                                                               *)

\* The block counts as FiniteSets does.
LEMMA CountsFinite ==
    \A S : (Counts!IsFiniteSet(S) <=> IsFiniteSet(S)) /\ Counts!Cardinality(S) = Cardinality(S)
BY DEF Counts!IsFiniteSet, IsFiniteSet, Counts!Cardinality, Cardinality

\* A finite number of numbers has a largest one, and any has a least.
LEMMA CountsLargest ==
    ASSUME NEW n \in Nat, NEW f \in [1..n -> Nat], NEW T, T # {}, \A t \in T : \E i \in 1..n : f[i] = t
    PROVE  Counts!Max(T) \in T /\ \A t \in T : t \in Nat /\ t <= Counts!Max(T)
<1> DEFINE E == {k \in Nat : k <= n => \E b \in Nat : \A i \in 1..k : f[i] <= b}
<1>1. 0 \in E
    OBVIOUS
<1>2. ASSUME NEW k \in Nat, k \in E PROVE k + 1 \in E
    <2>1. SUFFICES ASSUME k + 1 <= n PROVE \E b \in Nat : \A i \in 1..(k + 1) : f[i] <= b
        OBVIOUS
    <2>2. PICK b \in Nat : \A i \in 1..k : f[i] <= b
        BY <1>2, <2>1
    <2>3. f[k + 1] \in Nat
        BY <2>1
    <2>4. ASSUME NEW i \in 1..(k + 1) PROVE f[i] <= b + f[k + 1]
        <3>1. i \in 1..n /\ f[i] \in Nat /\ (i # k + 1 => f[i] <= b)
            BY <2>1, <2>2
        <3>2. CASE i = k + 1
            BY <2>3, <3>2
        <3>3. CASE i # k + 1
            BY <2>3, <3>1, <3>3
        <3> QED BY <3>2, <3>3
    <2> DEFINE bound == b + f[k + 1]
    <2>5. bound \in Nat /\ \A i \in 1..(k + 1) : f[i] <= bound
        BY <2>3, <2>4
    <2> HIDE DEF bound
    <2> QED BY <2>5
<1> HIDE DEF E
<1>3. n \in E
    BY <1>1, <1>2, Induct
<1>4. PICK b \in Nat : \A i \in 1..n : f[i] <= b
    BY <1>3 DEF E
<1>5. \A t \in T : t \in Nat /\ t <= b
    BY <1>4
<1> DEFINE D == {b - t : t \in T}
<1>6. D \subseteq Nat /\ D # {}
    BY <1>5
<1>7. PICK d \in D : \A e \in D : d <= e
    BY <1>6, Least
<1>8. PICK x \in T : d = b - x
    OBVIOUS
<1>9. \A t \in T : x >= t
    <2> TAKE t \in T
    <2>1. b - t \in D
        OBVIOUS
    <2> HIDE DEF D
    <2>2. d <= b - t
        BY <1>7, <2>1
    <2> QED BY <1>5, <1>8, <2>2
<1>10. Counts!Max(T) \in T /\ \A t \in T : Counts!Max(T) >= t
    BY <1>9 DEF Counts!Max
<1> HIDE DEF D
<1> QED BY <1>5, <1>10

LEMMA CountsLeast ==
    ASSUME NEW T, T # {}, T \subseteq Nat
    PROVE  Counts!Min(T) \in T /\ \A t \in T : Counts!Min(T) <= t
<1>1. PICK n \in T : \A m \in T : n <= m
    BY Least
<1> QED BY <1>1 DEF Counts!Min

\* The elements of a finite set, as a sequence.
LEMMA CountsListed ==
    ASSUME NEW S, IsFiniteSet(S)
    PROVE  /\ Counts!SetToSeq(S) \in Seq(S)
           /\ \A k \in DOMAIN Counts!SetToSeq(S) : Counts!SetToSeq(S)[k] \in S
           /\ \A k, l \in DOMAIN Counts!SetToSeq(S) :
                 Counts!SetToSeq(S)[k] = Counts!SetToSeq(S)[l] => k = l
<1> DEFINE n == Cardinality(S)
<1>1. n \in Nat /\ ExistsBijection(1..n, S)
    BY FS_CardinalityType
<1>2. PICK f \in [1..n -> S] : Counts!IsInjective(f)
    BY <1>1 DEF ExistsBijection, Bijection, Injection, IsInjective, Counts!IsInjective
<1>3. Counts!SetToSeq(S) \in [1..n -> S] /\ Counts!IsInjective(Counts!SetToSeq(S))
    BY <1>2, CountsFinite DEF Counts!SetToSeq
<1> HIDE DEF n
<1>4. \A k, l \in DOMAIN Counts!SetToSeq(S) : Counts!SetToSeq(S)[k] = Counts!SetToSeq(S)[l] => k = l
    BY <1>3 DEF Counts!IsInjective
<1> QED BY <1>1, <1>3, <1>4

\* What every step keeps of the events: none goes, none changes, none leaves its session.
Kept ==
    /\ \A i \in 1..Len(events) : /\ i \in 1..Len(events') /\ events'[i].fact = events[i].fact
                                 /\ events'[i].session = 0 => events[i].session = 0
    /\ Len(events) <= Len(events')

\* No row that a rollup has read is linked, unless another rollup then overtakes it.
Undisturbed(r) ==
    rollup[r].at = "visits" /\ r \notin overtaken' =>
        r \notin overtaken /\ \A i \in 1..Len(events) : events[i].session = 0 => events'[i].session = 0

\* Some of the first rows are finitely many.
LEMMA CountsUnlinked ==
    ASSUME NEW n \in Nat, NEW a, NEW from, NEW to
    PROVE  /\ IsFiniteSet(Counts!Unlinked(a, from, to, n))
           /\ Counts!Cardinality(Counts!Unlinked(a, from, to, n)) \in Nat
           /\ Counts!Cardinality(Counts!Unlinked(a, from, to, n)) = Cardinality(Counts!Unlinked(a, from, to, n))
<1>1. IsFiniteSet(1..n) /\ Counts!Unlinked(a, from, to, n) \subseteq 1..n
    BY FS_Interval DEF Counts!Unlinked
<1>2. IsFiniteSet(Counts!Unlinked(a, from, to, n))
    BY <1>1, FS_Subset
<1> QED BY <1>2, CountsFinite, FS_CardinalityType

\* The rows that a visit would link become fewer, and do not if none of them is linked.
LEMMA CountsFewer ==
    ASSUME Counts!Shape, Counts!Shape', Kept, NEW r \in Rollups, rollup'[r] = rollup[r], Undisturbed(r),
           rollup[r].at = "visits", Counts!VisitsHold(r), Counts!VisitsCount(r)
    PROVE  Counts!VisitsCount(r)'
<1> DEFINE n == rollup[r].upto
<1>0. n \in 0..Len(events) /\ Len(events) \in Nat
    BY DEF Counts!Shape
<1>1. ASSUME NEW v \in rollup[r].plan
      PROVE  LET m == Counts!Cardinality(Counts!LinkedBy(v, n)')
             IN  v.by = r /\ m <= v.count /\ (r \notin overtaken' => m = v.count)
    <2> DEFINE U == Counts!LinkedBy(v, n)
               in(f) == ActorOf[f] = v.actor /\ At[f] \in v.from..v.to
               W == {i \in 1..n : events'[i].session = 0 /\ in(events'[i].fact)}
    <2>1. W = Counts!LinkedBy(v, n)' /\ U = {i \in 1..n : events[i].session = 0 /\ in(events[i].fact)}
        BY DEF Counts!LinkedBy, Counts!Unlinked, Counts!Actor, Counts!Time
    <2> HIDE DEF U, in
    <2>2. \A i \in 1..n : /\ events'[i].fact = events[i].fact
                          /\ events'[i].session = 0 => events[i].session = 0
        BY <1>0 DEF Kept
    <2>3. W \subseteq U
        BY <2>1, <2>2
    <2>4. ASSUME r \notin overtaken' PROVE W = U
        <3>1. \A i \in 1..n : events[i].session = 0 => events'[i].session = 0
            BY <1>0, <2>4 DEF Undisturbed
        <3> QED BY <2>1, <2>2, <3>1
    <2>5. IsFiniteSet(U) /\ Counts!Cardinality(U) = Cardinality(U)
        BY <1>0, CountsUnlinked DEF Counts!LinkedBy, U
    <2>6. /\ v.by = r /\ Counts!Cardinality(U) <= v.count /\ v.count \in Nat
          /\ r \notin overtaken => Counts!Cardinality(U) = v.count
        BY DEF Counts!VisitsCount, Counts!VisitsHold, Counts!Session, U
    <2>7. r \notin overtaken' => r \notin overtaken
        BY DEF Undisturbed
    <2> HIDE DEF W
    <2>8. Cardinality(W) \in Nat /\ Cardinality(U) \in Nat /\ Cardinality(W) <= Cardinality(U)
        BY <2>3, <2>5, FS_Subset, FS_CardinalityType
    <2>9. Counts!Cardinality(W) = Cardinality(W)
        BY CountsFinite
    <2> QED BY <2>1, <2>4, <2>5, <2>6, <2>7, <2>8, <2>9
<1>2. \A v, w \in rollup[r].plan : v.actor = w.actor /\ v # w => v.to < w.from \/ w.to < v.from
    BY DEF Counts!VisitsCount
<1> QED BY <1>1, <1>2 DEF Counts!VisitsCount, Counts!LinkedBy, Counts!Unlinked, Counts!Actor, Counts!Time

\* Of the events as many or more are in a cell as before, and of as many actors or more.
LEMMA CountsGrow ==
    ASSUME Counts!Shape, Counts!Shape', Kept, NEW c
    PROVE  /\ Counts!Counted(c).count \in Nat /\ Counts!Counted(c).actors \in Nat
           /\ (Counts!Counted(c)').count \in Nat /\ (Counts!Counted(c)').actors \in Nat
           /\ Counts!Counted(c).count <= (Counts!Counted(c)').count
           /\ Counts!Counted(c).actors <= (Counts!Counted(c)').actors
<1> DEFINE R == {i \in 1..Len(events) : Counts!DayOf(At[events[i].fact]) = c[1] /\ NameOf[events[i].fact] = c[2]}
           Q == {i \in 1..Len(events') : Counts!DayOf(At[events'[i].fact]) = c[1] /\ NameOf[events'[i].fact] = c[2]}
           A == {ActorOf[events[i].fact] : i \in R}
           B == {ActorOf[events'[i].fact] : i \in Q}
<1>0. Len(events) \in Nat /\ Len(events') \in Nat /\ DOMAIN events = 1..Len(events) /\ DOMAIN events' = 1..Len(events')
    BY DEF Counts!Shape
<1>1. /\ Counts!Counted(c).count = Cardinality(R) /\ Counts!Counted(c).actors = Cardinality(A)
      /\ (Counts!Counted(c)').count = Cardinality(Q) /\ (Counts!Counted(c)').actors = Cardinality(B)
    BY <1>0, CountsFinite DEF Counts!Counted, Counts!Rows, Counts!Actor, Counts!Name, Counts!Time
<1>2. R \subseteq Q /\ A \subseteq B
    BY DEF Kept
<1>3. IsFiniteSet(Q) /\ Q \subseteq 1..Len(events')
    <2>1. IsFiniteSet(1..Len(events'))
        BY <1>0, FS_Interval
    <2> QED BY <2>1, FS_Subset
<1>4. IsFiniteSet(B)
    <2> DEFINE f == [i \in Q |-> ActorOf[events'[i].fact]]
    <2>1. f \in Surjection(Q, B)
        BY DEF Surjection
    <2> HIDE DEF Q, B, f
    <2> QED BY <1>3, <2>1, FS_Surjection
<1> HIDE DEF R, Q, A, B
<1>5. IsFiniteSet(R) /\ Cardinality(R) <= Cardinality(Q)
    BY <1>2, <1>3, FS_Subset
<1>6. IsFiniteSet(A) /\ Cardinality(A) <= Cardinality(B)
    BY <1>2, <1>4, FS_Subset
<1>7. Cardinality(R) \in Nat /\ Cardinality(Q) \in Nat /\ Cardinality(A) \in Nat /\ Cardinality(B) \in Nat
    BY <1>3, <1>4, <1>5, <1>6, FS_CardinalityType
<1> QED BY <1>1, <1>5, <1>6, <1>7

\* Numbers that hold go on holding.
LEMMA CountsHoldOn ==
    ASSUME Counts!Shape, Counts!Shape', Kept, NEW c, NEW x \in Counts!Tally, Counts!Holds(c, x)
    PROVE  Counts!Holds(c, x)'
<1>1. x.count \in Nat /\ x.actors \in Nat
    BY DEF Counts!Tally
<1> QED BY <1>1, CountsGrow DEF Counts!Holds

\* A plan that holds goes on holding for a rollup that does not move.
LEMMA CountsPlanKept ==
    ASSUME Counts!Shape, Counts!Shape', Kept, NEW r \in Rollups, rollup'[r] = rollup[r], Undisturbed(r),
           Counts!Planned(r)
    PROVE  Counts!Planned(r)'
<1>0. /\ Len(events) \in Nat /\ rollup[r].upto \in 0..Len(events)
      /\ DOMAIN events = 1..Len(events) /\ DOMAIN events' = 1..Len(events')
    BY DEF Counts!Shape
<1>1. \A i \in 1..rollup[r].upto : /\ i \in 1..Len(events) /\ events'[i].fact = events[i].fact
                                   /\ events'[i].session = 0 => events[i].session = 0
    BY <1>0 DEF Kept
<1> DEFINE p == rollup[r].plan
<1>2. ASSUME rollup[r].at = "visits" PROVE Counts!VisitsHold(r)'
    <2>1. p \subseteq Counts!Session /\ IsFiniteSet(p)
        BY <1>2, CountsFinite DEF Counts!Planned, Counts!VisitsHold
    <2>2. ASSUME NEW v \in p, NEW i \in 1..rollup[r].upto, events'[i].session = 0,
                 ActorOf[events'[i].fact] = v.actor, At[events'[i].fact] \in v.from..v.to
          PROVE  \/ At[events'[i].fact] = v.from
                 \/ \E j \in 1..Len(events') : /\ ActorOf[events'[j].fact] = ActorOf[events'[i].fact]
                                               /\ At[events'[j].fact] < At[events'[i].fact]
                                               /\ At[events'[j].fact] + Gap >= At[events'[i].fact]
        <3>1. \/ At[events[i].fact] = v.from
              \/ \E j \in 1..Len(events) : /\ ActorOf[events[j].fact] = ActorOf[events[i].fact]
                                           /\ At[events[j].fact] < At[events[i].fact]
                                           /\ At[events[j].fact] + Gap >= At[events[i].fact]
            BY <1>0, <1>1, <1>2, <2>2 DEF Counts!Planned, Counts!VisitsHold, Counts!Joined, Counts!Actor, Counts!Time
        <3> QED BY <1>1, <3>1 DEF Kept
    <2> QED BY <1>0, <2>1, <2>2, CountsFinite DEF Counts!VisitsHold, Counts!Joined, Counts!Actor, Counts!Time
<1>3. ASSUME rollup[r].at = "counts" PROVE Counts!CountsHold(r)'
    <2>1. ASSUME NEW x \in p
          PROVE  x[1] \in Counts!Days \X Counts!Names /\ x[2] \in Counts!Tally /\ Counts!Holds(x[1], x[2])'
        <3>1. x[1] \in Counts!Days \X Counts!Names /\ x[2] \in Counts!Tally /\ Counts!Holds(x[1], x[2])
            BY <1>3 DEF Counts!Planned, Counts!CountsHold
        <3> QED BY <3>1, CountsHoldOn
    <2> QED BY <2>1 DEF Counts!CountsHold, Counts!Holds
<1>4. ASSUME rollup[r].at = "cohorts" PROVE Counts!CohortsHold(r)'
    BY <1>1, <1>4 DEF Counts!Planned, Counts!CohortsHold, Counts!Actor, Counts!Time
<1>5. ASSUME rollup[r].at = "visits" PROVE Counts!VisitsCount(r)'
    BY <1>5, CountsFewer DEF Counts!Planned
<1> QED BY <1>2, <1>3, <1>4, <1>5 DEF Counts!Planned

CountsPhases == {"new", "visits", "cut", "counts", "counted", "cohorts", "done"}

LEMMA CountsRest ==
    ASSUME Counts!IInv, UNCHANGED <<events, sessions, daily, cohort, dated, overtaken>>
    PROVE  /\ Counts!CountedOnce' /\ Counts!CountsItsEvents' /\ Counts!NoPauseInside' /\ Counts!CohortIsFirst'
           /\ Kept /\ \A r \in Rollups : Undisturbed(r)
<1>1. Counts!CountedOnce'
    <2>1. ASSUME NEW c PROVE Counts!Counted(c)' = Counts!Counted(c)
        BY DEF Counts!Counted, Counts!Rows, Counts!Actor, Counts!Name, Counts!Time
    <2>2. \A c \in DOMAIN daily' : /\ daily'[c].count <= (Counts!Counted(c)').count
                                  /\ daily'[c].actors <= (Counts!Counted(c)').actors
        <3> TAKE c \in DOMAIN daily'
        <3>1. Counts!Counted(c)' = Counts!Counted(c)
            BY <2>1
        <3> QED BY <3>1 DEF Counts!IInv, Counts!CountedOnce
    <2>3. \A i, j \in DOMAIN events' :
              events'[i].fact = events'[j].fact /\ FactKeyOf[events'[i].fact] # NoKey => i = j
        BY DEF Counts!IInv, Counts!CountedOnce
    <2> QED BY <2>2, <2>3 DEF Counts!CountedOnce
<1>2. Counts!NoPauseInside'
    BY DEF Counts!IInv, Counts!NoPauseInside, Counts!Actor, Counts!Time
<1>3. Counts!CohortIsFirst'
    BY DEF Counts!IInv, Counts!CohortIsFirst, Counts!Actor, Counts!Time
<1>4. Kept
    <2>1. Len(events) \in Nat
        BY DEF Counts!IInv, Counts!Shape
    <2> QED BY <2>1 DEF Kept
<1>5. Counts!CountsItsEvents'
    BY DEF Counts!IInv, Counts!CountsItsEvents, Counts!Linked
<1>6. \A r \in Rollups : Undisturbed(r)
    BY DEF Undisturbed
<1> QED BY <1>1, <1>2, <1>3, <1>4, <1>5, <1>6

LEMMA CountsUnlinkedRest ==
    ASSUME Counts!IInv, UNCHANGED <<events, sessions, overtaken>>
    PROVE  Counts!CountsItsEvents' /\ \A r \in Rollups : Undisturbed(r)
BY DEF Counts!IInv, Counts!CountsItsEvents, Counts!Linked, Undisturbed

\* A rollup that has read, and one that has written.
LEMMA CountsBegun ==
    ASSUME Counts!Shape, NEW r \in Rollups, NEW a \in CountsPhases, NEW plan, Counts!Begin(r, a, plan),
           UNCHANGED <<events, sessions, daily, cohort, dated, overtaken>>
    PROVE  /\ Counts!Shape'
           /\ rollup'[r].at = a /\ rollup'[r].upto = Len(events) /\ rollup'[r].plan = plan
           /\ \A q \in Rollups \ {r} : rollup'[q] = rollup[q]
<1> DEFINE x == [at |-> a, upto |-> Len(events), plan |-> plan]
<1>1. rollup' = [rollup EXCEPT ![r] = x] /\ DOMAIN rollup = Rollups /\ Len(events) \in Nat
    BY DEF Counts!Begin, Counts!Shape
<1>2. DOMAIN x = {"at", "upto", "plan"} /\ x.at = a /\ x.upto = Len(events) /\ x.plan = plan
    OBVIOUS
<1> HIDE DEF x
<1>3. rollup'[r] = x /\ DOMAIN rollup' = Rollups /\ \A q \in Rollups \ {r} : rollup'[q] = rollup[q]
    BY <1>1
<1>4. \A q \in Rollups : /\ DOMAIN rollup'[q] = {"at", "upto", "plan"}
                         /\ rollup'[q].at \in CountsPhases /\ rollup'[q].upto \in 0..Len(events)
    <2> TAKE q \in Rollups
    <2>1. CASE q = r
        BY <1>1, <1>2, <1>3, <2>1
    <2>2. CASE q # r
        BY <1>3, <2>2 DEF Counts!Shape, CountsPhases
    <2> QED BY <2>1, <2>2
<1>5. Counts!Shape'
    BY <1>3, <1>4 DEF Counts!Shape, CountsPhases
<1> QED BY <1>2, <1>3, <1>5

LEMMA CountsEnded ==
    ASSUME Counts!Shape, NEW r \in Rollups, NEW a \in CountsPhases,
           rollup' = [rollup EXCEPT ![r] = [@ EXCEPT !.at = a, !.plan = {}]]
    PROVE  /\ DOMAIN rollup' = Rollups
           /\ rollup'[r].at = a /\ rollup'[r].plan = {}
           /\ \A q \in Rollups \ {r} : rollup'[q] = rollup[q]
           /\ \A q \in Rollups :
                 /\ DOMAIN rollup'[q] = {"at", "upto", "plan"}
                 /\ rollup'[q].at \in CountsPhases /\ rollup'[q].upto = rollup[q].upto
<1> DEFINE x == [rollup[r] EXCEPT !.at = a, !.plan = {}]
<1>1. rollup' = [rollup EXCEPT ![r] = x] /\ DOMAIN rollup = Rollups
    BY DEF Counts!Shape
<1>2. DOMAIN x = {"at", "upto", "plan"} /\ x.at = a /\ x.upto = rollup[r].upto /\ x.plan = {}
    <2>1. DOMAIN rollup[r] = {"at", "upto", "plan"}
        BY DEF Counts!Shape
    <2> QED BY <2>1
<1> HIDE DEF x
<1>3. rollup'[r] = x /\ DOMAIN rollup' = Rollups /\ \A q \in Rollups \ {r} : rollup'[q] = rollup[q]
    BY <1>1
<1>4. \A q \in Rollups : /\ DOMAIN rollup'[q] = {"at", "upto", "plan"}
                         /\ rollup'[q].at \in CountsPhases /\ rollup'[q].upto = rollup[q].upto
    <2> TAKE q \in Rollups
    <2>1. CASE q = r
        BY <1>2, <1>3, <2>1
    <2>2. CASE q # r
        BY <1>3, <2>2 DEF Counts!Shape, CountsPhases
    <2> QED BY <2>1, <2>2
<1> QED BY <1>2, <1>3, <1>4

LEMMA CountsInitHolds == ASSUME Counts!Init PROVE Counts!IInv
<1> USE DEF Counts!Init
<1>0. events = << >> /\ Len(events) = 0 /\ DOMAIN events = {} /\ Len(sessions) = 0 /\ 1..Len(events) = {} /\ 1..dated = {}
    OBVIOUS
<1>1. Counts!Shape
    <2>1. events \in Seq([fact : Facts, session : Nat]) /\ sessions \in Seq(Counts!Session)
        OBVIOUS
    <2>2. daily \in [Counts!Days \X Counts!Names -> Counts!Tally]
        BY DEF Counts!Tally
    <2>3. cohort \in [Counts!Actors -> Nat]
        BY DEF Counts!Never
    <2>4. DOMAIN rollup = Rollups /\ \A r \in Rollups : rollup[r] = [at |-> "new", upto |-> 0, plan |-> {}]
        OBVIOUS
    <2>5. dated \in 0..Len(events)
        BY <1>0
    <2> HIDE DEF Counts!Init
    <2> QED BY <1>0, <2>1, <2>2, <2>3, <2>4, <2>5 DEF Counts!Shape
<1>2. Counts!CountedOnce
    <2> DEFINE nil == [count |-> 0, actors |-> 0]
    <2>1. \A c \in DOMAIN daily : daily[c].count = 0 /\ daily[c].actors = 0
        OBVIOUS
    <2>2. ASSUME NEW c PROVE Counts!Counted(c).count = 0 /\ Counts!Counted(c).actors = 0
        <3>1. Counts!Rows(c) = {} /\ {Counts!Actor(i) : i \in Counts!Rows(c)} = {}
            BY <1>0 DEF Counts!Rows
        <3>2. Cardinality({}) = 0
            BY FS_EmptySet
        <3> QED BY <3>1, <3>2, CountsFinite DEF Counts!Counted
    <2> QED BY <1>0, <2>1, <2>2 DEF Counts!CountedOnce
<1>3. Counts!NoPauseInside /\ Counts!CohortIsFirst /\ Counts!CountsItsEvents
    BY <1>0 DEF Counts!NoPauseInside, Counts!CohortIsFirst, Counts!CountsItsEvents
<1>4. \A r \in Rollups : Counts!Planned(r)
    BY DEF Counts!Planned
<1> QED BY <1>1, <1>2, <1>3, <1>4 DEF Counts!IInv

LEMMA CountsTrackStep ==
    ASSUME Counts!IInv, NEW f \in Facts, Counts!Track(f)
    PROVE  Counts!IInv'
<1>0. /\ Counts!Shape /\ UNCHANGED <<sessions, daily, cohort, rollup, dated, overtaken>> /\ Len(events) \in Nat
      /\ DOMAIN events = 1..Len(events) /\ events \in Seq([fact : Facts, session : Nat])
    BY DEF Counts!IInv, Counts!Track, Counts!Shape
<1>1. CASE ~Counts!Admitted(f)
    <2>1. UNCHANGED events
        BY <1>1 DEF Counts!Track
    <2>2. Counts!Shape'
        BY <1>0, <2>1 DEF Counts!Shape
    <2>3. /\ Counts!CountedOnce' /\ Counts!CountsItsEvents' /\ Counts!NoPauseInside' /\ Counts!CohortIsFirst'
          /\ Kept /\ \A r \in Rollups : Undisturbed(r)
        BY <1>0, <2>1, CountsRest
    <2>4. \A r \in Rollups : Counts!Planned(r)'
        BY <1>0, <2>2, <2>3, CountsPlanKept DEF Counts!IInv
    <2> QED BY <2>2, <2>3, <2>4 DEF Counts!IInv
<1>2. CASE Counts!Admitted(f)
    <2> DEFINE e == [fact |-> f, session |-> 0]
    <2>1. events' = Append(events, e) /\ e \in [fact : Facts, session : Nat] /\ e.fact = f /\ e.session = 0
        BY <1>2 DEF Counts!Track
    <2> HIDE DEF e
    <2>2. /\ Len(events') = Len(events) + 1 /\ events'[Len(events) + 1] = e
          /\ \A i \in 1..Len(events) : events'[i] = events[i] /\ i \in 1..Len(events')
          /\ events' \in Seq([fact : Facts, session : Nat]) /\ DOMAIN events' = 1..Len(events')
        BY <1>0, <2>1, AppendProperties
    <2>3. Counts!Shape'
        <3>1. \A i \in DOMAIN events' : events'[i].session <= Len(sessions')
            <4> TAKE i \in DOMAIN events'
            <4>1. Len(sessions) \in Nat
                BY <1>0 DEF Counts!Shape
            <4>2. CASE i = Len(events) + 1
                BY <1>0, <2>1, <2>2, <4>1, <4>2
            <4>3. CASE i \in 1..Len(events)
                BY <1>0, <2>2, <4>3 DEF Counts!Shape
            <4> QED BY <1>0, <2>2, <4>2, <4>3
        <3> QED BY <1>0, <2>2, <3>1 DEF Counts!Shape
    <2>4. Kept
        BY <1>0, <2>2 DEF Kept
    <2>5. Counts!CountedOnce'
        <3>1. ASSUME NEW i \in DOMAIN events', NEW j \in DOMAIN events',
                     events'[i].fact = events'[j].fact, FactKeyOf[events'[i].fact] # NoKey
              PROVE  i = j
            <4>1. \A k \in 1..Len(events) : FactKeyOf[f] # NoKey => FactKeyOf[events[k].fact] # FactKeyOf[f]
                BY <1>0, <1>2 DEF Counts!Admitted, Counts!Range
            <4>2. i \in 1..Len(events) \/ i = Len(events) + 1
                BY <1>0, <2>2
            <4>3. j \in 1..Len(events) \/ j = Len(events) + 1
                BY <1>0, <2>2
            <4>4. CASE i \in 1..Len(events) /\ j \in 1..Len(events)
                BY <1>0, <2>2, <3>1, <4>4 DEF Counts!IInv, Counts!CountedOnce
            <4>5. CASE i \in 1..Len(events) /\ j = Len(events) + 1
                BY <2>1, <2>2, <3>1, <4>1, <4>5
            <4>6. CASE i = Len(events) + 1 /\ j \in 1..Len(events)
                BY <2>1, <2>2, <3>1, <4>1, <4>6
            <4> QED BY <4>2, <4>3, <4>4, <4>5, <4>6
        <3>2. ASSUME NEW c \in DOMAIN daily PROVE Counts!Holds(c, daily[c])'
            <4>1. Counts!Holds(c, daily[c]) /\ daily[c] \in Counts!Tally
                BY <1>0 DEF Counts!IInv, Counts!CountedOnce, Counts!Holds, Counts!Shape
            <4>x. PICK x : x = daily[c]
                OBVIOUS
            <4>2. Counts!Holds(c, x)'
                BY <1>0, <2>3, <2>4, <4>1, <4>x, CountsHoldOn
            <4> QED BY <1>0, <4>2, <4>x DEF Counts!Holds
        <3> QED BY <1>0, <3>1, <3>2 DEF Counts!CountedOnce, Counts!Holds
    <2>6. Counts!NoPauseInside'
        <3>1. ASSUME NEW i \in DOMAIN events', events'[i].session # 0
              PROVE  LET s == events'[i].session
                     IN  /\ sessions[s].actor = ActorOf[events'[i].fact]
                         /\ At[events'[i].fact] \in sessions[s].from..sessions[s].to
                         /\ \/ At[events'[i].fact] = sessions[s].from
                            \/ \E j \in DOMAIN events' : /\ ActorOf[events'[j].fact] = ActorOf[events'[i].fact]
                                                         /\ At[events'[j].fact] < At[events'[i].fact]
                                                         /\ At[events'[j].fact] + Gap >= At[events'[i].fact]
            <4>1. i \in 1..Len(events) /\ events'[i] = events[i]
                BY <1>0, <2>1, <2>2, <3>1
            <4>2. LET s == events[i].session
                  IN  /\ sessions[s].actor = ActorOf[events[i].fact]
                      /\ At[events[i].fact] \in sessions[s].from..sessions[s].to
                      /\ \/ At[events[i].fact] = sessions[s].from
                         \/ \E j \in 1..Len(events) : /\ ActorOf[events[j].fact] = ActorOf[events[i].fact]
                                                      /\ At[events[j].fact] < At[events[i].fact]
                                                      /\ At[events[j].fact] + Gap >= At[events[i].fact]
                BY <1>0, <3>1, <4>1 DEF Counts!IInv, Counts!NoPauseInside, Counts!Actor, Counts!Time
            <4> QED BY <2>2, <4>1, <4>2
        <3> QED BY <1>0, <3>1 DEF Counts!NoPauseInside, Counts!Actor, Counts!Time
    <2>7. Counts!CohortIsFirst'
        <3>1. \A i \in 1..dated : i \in 1..Len(events) /\ events'[i] = events[i]
            BY <1>0, <2>2 DEF Counts!Shape
        <3> QED BY <1>0, <3>1 DEF Counts!IInv, Counts!CohortIsFirst, Counts!Actor, Counts!Time
    <2>8. \A r \in Rollups : Undisturbed(r)
        BY <1>0, <2>2 DEF Undisturbed
    <2>9. \A r \in Rollups : Counts!Planned(r)'
        BY <1>0, <2>3, <2>4, <2>8, CountsPlanKept DEF Counts!IInv
    <2>10. Counts!CountsItsEvents'
        <3>1. ASSUME NEW s \in DOMAIN sessions
              PROVE  {i \in DOMAIN events' : events'[i].session = s} = {i \in DOMAIN events : events[i].session = s}
            <4>1. s # 0
                BY <1>0 DEF Counts!Shape
            <4> QED BY <1>0, <2>1, <2>2, <4>1
        <3> QED BY <1>0, <3>1 DEF Counts!IInv, Counts!CountsItsEvents, Counts!Linked
    <2> QED BY <2>3, <2>5, <2>6, <2>7, <2>9, <2>10 DEF Counts!IInv
<1> QED BY <1>1, <1>2

\* The times of an actor's events that are in no session yet.
CountsTimes(a) == {Counts!Time(i) : i \in {j \in DOMAIN events : Counts!Actor(j) = a /\ events[j].session = 0}}

LEMMA CountsEvent ==
    ASSUME Counts!Shape, NEW i \in DOMAIN events
    PROVE  Counts!Time(i) \in Nat /\ Counts!Actor(i) \in Counts!Actors /\ events[i].fact \in Facts
           /\ Counts!Name(i) \in Counts!Names /\ Counts!DayOf(Counts!Time(i)) \in Counts!Days
<1>0. events \in Seq([fact : Facts, session : Nat]) /\ i \in 1..Len(events)
    BY DEF Counts!Shape
<1>1. events[i] \in [fact : Facts, session : Nat]
    BY <1>0, ElementOfSeq
<1>2. events[i].fact \in Facts
    BY <1>1
<1> QED BY <1>2, CountsSane DEF Counts!Sane, Counts!Time, Counts!Actor, Counts!Actors, Counts!Name,
                                Counts!Names, Counts!Days

\* A visit goes from one event to another, and no pause in it is longer than Gap.
LEMMA CountsVisit ==
    ASSUME Counts!Shape, NEW r, NEW a, NEW s \in Counts!Starts(CountsTimes(a)), NEW v,
           v = Counts!Visit(r, a, s, CountsTimes(a))
    PROVE  /\ v = [actor |-> v.actor, from |-> v.from, to |-> v.to, by |-> v.by, count |-> v.count]
           /\ v.actor = a /\ v.from = s /\ s \in CountsTimes(a) /\ s \in Nat /\ v.to \in Nat /\ v.by = r
           /\ v.count \in Nat /\ v.count = Counts!Cardinality(Counts!Unlinked(a, s, v.to, Len(events)))
           /\ \A x \in Counts!Starts(CountsTimes(a)) : x > s => v.to < x
           /\ \A t \in CountsTimes(a) : t \in s..v.to =>
                 t = s \/ \E u \in CountsTimes(a) : u < t /\ t <= u + Gap
<1> DEFINE T == CountsTimes(a)
           in == {t \in T : t >= s /\ \A x \in Counts!Starts(T) : x > s => t < x}
<1>1. s \in T /\ T \subseteq Nat /\ Counts!Starts(T) \subseteq T /\ Gap \in Nat
    BY CountsEvent, CountsSane DEF CountsTimes, Counts!Starts, Counts!Sane
<1> DEFINE c == Counts!Cardinality(Counts!Unlinked(a, s, Counts!Max(in), Len(events)))
<1>2. v = [actor |-> a, from |-> s, to |-> Counts!Max(in), by |-> r, count |-> c]
    BY DEF Counts!Visit
<1>3. Counts!Max(in) \in in /\ \A t \in in : t \in Nat /\ t <= Counts!Max(in)
    <2> DEFINE f == [i \in 1..Len(events) |-> Counts!Time(i)]
    <2>1. Len(events) \in Nat /\ DOMAIN events = 1..Len(events)
        BY DEF Counts!Shape
    <2>2. f \in [1..Len(events) -> Nat]
        BY <2>1, CountsEvent
    <2>3. \A t \in in : \E i \in 1..Len(events) : f[i] = t
        BY <2>1 DEF CountsTimes
    <2>4. s \in in
        BY <1>1
    <2> HIDE DEF f, in, T
    <2> QED BY <2>1, <2>2, <2>3, <2>4, CountsLargest
<1>4. ASSUME NEW t \in T, t \in s..Counts!Max(in), t # s
      PROVE  \E u \in T : u < t /\ t <= u + Gap
    <2>1. t \notin Counts!Starts(T)
        <3>1. t > s /\ t <= Counts!Max(in)
            BY <1>1, <1>3, <1>4
        <3>2. t \in Counts!Starts(T) => Counts!Max(in) < t
            BY <1>3, <3>1
        <3>3. t \in Nat /\ Counts!Max(in) \in Nat
            BY <1>1, <1>3, <1>4
        <3> HIDE DEF T, in
        <3> QED BY <3>1, <3>2, <3>3
    <2> HIDE DEF T, in
    <2>2. PICK u \in T : u < t /\ ~(t - u > Gap)
        BY <1>4, <2>1 DEF Counts!Starts
    <2>3. u \in Nat /\ t \in Nat
        BY <1>1, <1>4, <2>2
    <2> QED BY <1>1, <2>2, <2>3
<1>7. \A x \in Counts!Starts(T) : x > s => Counts!Max(in) < x
    BY <1>3
<1>8. c \in Nat
    <2>1. Len(events) \in Nat
        BY DEF Counts!Shape
    <2> HIDE DEF in
    <2> QED BY <2>1, CountsUnlinked
<1> HIDE DEF in, T
<1>5. Counts!Max(in) \in Nat /\ s \in Nat
    BY <1>1, <1>3
<1> HIDE DEF c
<1>6. v.to = Counts!Max(in) /\ v.actor = a /\ v.from = s /\ v.by = r /\ v.count = c
    BY <1>2
<1>9. v.count = Counts!Cardinality(Counts!Unlinked(a, s, v.to, Len(events)))
    BY <1>6 DEF c
<1> USE DEF T
<1> QED BY <1>1, <1>2, <1>4, <1>5, <1>6, <1>7, <1>8, <1>9

\* What the statement that cuts sessions reads.
LEMMA CountsVisits ==
    ASSUME Counts!Shape, NEW r \in Rollups
    PROVE  /\ Counts!Visits(r) \subseteq Counts!Session /\ IsFiniteSet(Counts!Visits(r))
           /\ \A v \in Counts!Visits(r), i \in 1..Len(events) :
                 events[i].session = 0 /\ Counts!Actor(i) = v.actor /\ Counts!Time(i) \in v.from..v.to
                 => Counts!Joined(i, v.from)
           /\ \A v \in Counts!Visits(r) :
                 v.by = r /\ v.count = Counts!Cardinality(Counts!LinkedBy(v, Len(events)))
           /\ \A v, w \in Counts!Visits(r) :
                 v.actor = w.actor /\ v # w => v.to < w.from \/ w.to < v.from
<1>0. Len(events) \in Nat /\ DOMAIN events = 1..Len(events)
    BY DEF Counts!Shape
<1>1. ASSUME NEW v \in Counts!Visits(r)
      PROVE  \E a \in Counts!Actors : \E s \in Counts!Starts(CountsTimes(a)) : v = Counts!Visit(r, a, s, CountsTimes(a))
    BY <1>1 DEF Counts!Visits, CountsTimes
<1>2. ASSUME NEW v \in Counts!Visits(r)
      PROVE  /\ v \in Counts!Session
             /\ \A i \in 1..Len(events) :
                   events[i].session = 0 /\ Counts!Actor(i) = v.actor /\ Counts!Time(i) \in v.from..v.to
                   => Counts!Joined(i, v.from)
             /\ \E i \in 1..Len(events) : v = Counts!Visit(r, Counts!Actor(i), Counts!Time(i), CountsTimes(Counts!Actor(i)))
             /\ v.by = r /\ v.count = Counts!Cardinality(Counts!LinkedBy(v, Len(events)))
    <2>1. PICK a \in Counts!Actors : \E s \in Counts!Starts(CountsTimes(a)) : v = Counts!Visit(r, a, s, CountsTimes(a))
        BY <1>1
    <2>2. PICK s \in Counts!Starts(CountsTimes(a)) : v = Counts!Visit(r, a, s, CountsTimes(a))
        BY <2>1
    <2>3. /\ v = [actor |-> v.actor, from |-> v.from, to |-> v.to, by |-> v.by, count |-> v.count]
          /\ v.actor = a /\ v.from = s /\ s \in CountsTimes(a) /\ s \in Nat /\ v.to \in Nat /\ v.by = r
          /\ v.count \in Nat /\ v.count = Counts!Cardinality(Counts!Unlinked(a, s, v.to, Len(events)))
          /\ \A t \in CountsTimes(a) : t \in s..v.to => t = s \/ \E u \in CountsTimes(a) : u < t /\ t <= u + Gap
        BY <2>2, CountsVisit
    <2>4. v \in Counts!Session
        BY <2>3 DEF Counts!Session
    <2>7. v.by = r /\ v.count = Counts!Cardinality(Counts!LinkedBy(v, Len(events)))
        BY <2>3 DEF Counts!LinkedBy
    <2>5. ASSUME NEW i \in 1..Len(events), events[i].session = 0, Counts!Actor(i) = v.actor,
                 Counts!Time(i) \in v.from..v.to
          PROVE  Counts!Joined(i, v.from)
        <3>1. Counts!Time(i) \in CountsTimes(a)
            BY <1>0, <2>3, <2>5 DEF CountsTimes
        <3>2. CASE Counts!Time(i) = s
            BY <2>3, <3>2 DEF Counts!Joined
        <3>3. CASE Counts!Time(i) # s
            <4>1. PICK u \in CountsTimes(a) : u < Counts!Time(i) /\ Counts!Time(i) <= u + Gap
                BY <2>3, <2>5, <3>1, <3>3
            <4>2. PICK j \in DOMAIN events : Counts!Actor(j) = a /\ u = Counts!Time(j)
                BY <4>1 DEF CountsTimes
            <4>3. u \in Nat /\ Counts!Time(i) \in Nat /\ Gap \in Nat
                BY <1>0, <4>2, CountsEvent, CountsSane DEF Counts!Sane
            <4> QED BY <2>3, <2>5, <4>1, <4>2, <4>3 DEF Counts!Joined
        <3> QED BY <3>2, <3>3
    <2>6. PICK i \in DOMAIN events : Counts!Actor(i) = a /\ s = Counts!Time(i)
        BY <2>3 DEF CountsTimes
    <2> QED BY <1>0, <2>2, <2>4, <2>5, <2>6, <2>7
<1>3. IsFiniteSet(Counts!Visits(r))
    <2> DEFINE f == [i \in 1..Len(events) |-> Counts!Visit(r, Counts!Actor(i), Counts!Time(i), CountsTimes(Counts!Actor(i)))]
               R == {f[i] : i \in 1..Len(events)}
    <2>1. IsFiniteSet(1..Len(events))
        BY <1>0, FS_Interval
    <2>2. f \in Surjection(1..Len(events), R)
        BY DEF Surjection
    <2>3. Counts!Visits(r) \subseteq R
        BY <1>2
    <2> HIDE DEF f, R
    <2>4. IsFiniteSet(R)
        BY <2>1, <2>2, FS_Surjection
    <2> QED BY <2>3, <2>4, FS_Subset
<1>4. ASSUME NEW v \in Counts!Visits(r), NEW w \in Counts!Visits(r), v.actor = w.actor, v # w
      PROVE  v.to < w.from \/ w.to < v.from
    <2>1. PICK a \in Counts!Actors : \E s \in Counts!Starts(CountsTimes(a)) : v = Counts!Visit(r, a, s, CountsTimes(a))
        BY <1>1
    <2>2. PICK s \in Counts!Starts(CountsTimes(a)) : v = Counts!Visit(r, a, s, CountsTimes(a))
        BY <2>1
    <2>3. PICK b \in Counts!Actors : \E x \in Counts!Starts(CountsTimes(b)) : w = Counts!Visit(r, b, x, CountsTimes(b))
        BY <1>1
    <2>4. PICK x \in Counts!Starts(CountsTimes(b)) : w = Counts!Visit(r, b, x, CountsTimes(b))
        BY <2>3
    <2>5. v.actor = a /\ v.from = s /\ s \in Nat /\ \A y \in Counts!Starts(CountsTimes(a)) : y > s => v.to < y
        BY <2>2, CountsVisit
    <2>6. w.actor = b /\ w.from = x /\ x \in Nat /\ \A y \in Counts!Starts(CountsTimes(b)) : y > x => w.to < y
        BY <2>4, CountsVisit
    <2>7. a = b /\ s # x
        BY <1>4, <2>2, <2>4, <2>5, <2>6
    <2> QED BY <2>2, <2>4, <2>5, <2>6, <2>7
<1> QED BY <1>2, <1>3, <1>4

\* A rollup that reads leaves the rows as they are.
LEMMA CountsReadHolds ==
    ASSUME Counts!IInv, NEW r \in Rollups, NEW a \in CountsPhases, NEW plan, Counts!Begin(r, a, plan),
           UNCHANGED <<events, sessions, daily, cohort, dated, overtaken>>, Counts!Planned(r)'
    PROVE  Counts!IInv'
<1>1. Counts!Shape
    BY DEF Counts!IInv
<1>2. Counts!Shape' /\ \A q \in Rollups \ {r} : rollup'[q] = rollup[q]
    BY <1>1, CountsBegun
<1>3. /\ Counts!CountedOnce' /\ Counts!CountsItsEvents' /\ Counts!NoPauseInside' /\ Counts!CohortIsFirst'
      /\ Kept /\ \A q \in Rollups : Undisturbed(q)
    BY CountsRest
<1>4. \A q \in Rollups \ {r} : Counts!Planned(q)'
    BY <1>1, <1>2, <1>3, CountsPlanKept DEF Counts!IInv
<1>5. \A q \in Rollups : Counts!Planned(q)'
    BY <1>4
<1> QED BY <1>2, <1>3, <1>5 DEF Counts!IInv

LEMMA CountsReadVisitsStep ==
    ASSUME Counts!IInv, NEW r \in Rollups, Counts!ReadVisits(r), UNCHANGED <<events, sessions, daily, cohort, dated, overtaken>>
    PROVE  Counts!IInv'
<1>1. Counts!Shape /\ DOMAIN events = 1..Len(events)
    BY DEF Counts!IInv, Counts!Shape
<1>2. PICK plan : plan = Counts!Visits(r)
    OBVIOUS
<1>3. Counts!Begin(r, "visits", plan) /\ "visits" \in CountsPhases
    BY <1>2 DEF Counts!ReadVisits, CountsPhases
<1>4. rollup'[r].at = "visits" /\ rollup'[r].upto = Len(events) /\ rollup'[r].plan = plan
    BY <1>1, <1>3, CountsBegun
<1>5. Counts!VisitsHold(r)'
    <2>1. plan \subseteq Counts!Session /\ Counts!IsFiniteSet(plan)
        BY <1>1, <1>2, CountsVisits, CountsFinite
    <2>2. ASSUME NEW v \in plan, NEW i \in 1..Len(events), events[i].session = 0,
                 ActorOf[events[i].fact] = v.actor, At[events[i].fact] \in v.from..v.to
          PROVE  \/ At[events[i].fact] = v.from
                 \/ \E j \in DOMAIN events : /\ ActorOf[events[j].fact] = ActorOf[events[i].fact]
                                             /\ At[events[j].fact] < At[events[i].fact]
                                             /\ At[events[j].fact] + Gap >= At[events[i].fact]
        BY <1>1, <1>2, <2>2, CountsVisits DEF Counts!Joined, Counts!Actor, Counts!Time
    <2> QED BY <1>4, <2>1, <2>2 DEF Counts!VisitsHold, Counts!Joined, Counts!Actor, Counts!Time
<1>6. Counts!VisitsCount(r)'
    <2>1. ASSUME NEW v \in plan
          PROVE  LET m == Counts!Cardinality(Counts!LinkedBy(v, Len(events)))
                 IN  v.by = r /\ m <= v.count /\ m = v.count
        <3>1. v.by = r /\ v.count = Counts!Cardinality(Counts!LinkedBy(v, Len(events))) /\ v \in Counts!Session
            BY <1>1, <1>2, CountsVisits
        <3>2. v.count \in Nat
            BY <3>1 DEF Counts!Session
        <3> QED BY <3>1, <3>2
    <2>2. \A v, w \in plan : v.actor = w.actor /\ v # w => v.to < w.from \/ w.to < v.from
        BY <1>1, <1>2, CountsVisits
    <2>3. \A v : Counts!LinkedBy(v, Len(events))' = Counts!LinkedBy(v, Len(events))
        BY DEF Counts!LinkedBy, Counts!Unlinked, Counts!Actor, Counts!Time
    <2> QED BY <1>4, <2>1, <2>2, <2>3 DEF Counts!VisitsCount, Counts!LinkedBy, Counts!Unlinked, Counts!Actor, Counts!Time
<1>7. Counts!Planned(r)'
    BY <1>4, <1>5, <1>6 DEF Counts!Planned
<1> QED BY <1>3, <1>7, CountsReadHolds

LEMMA CountsReadCountsStep ==
    ASSUME Counts!IInv, NEW r \in Rollups, Counts!ReadCounts(r), UNCHANGED <<events, sessions, daily, cohort, dated, overtaken>>
    PROVE  Counts!IInv'
<1>1. Counts!Shape
    BY DEF Counts!IInv
<1>2. PICK today \in Today : Counts!Begin(r, "counts", {<<c, Counts!Counted(c)>> : c \in Counts!Recounted(today)})
    BY DEF Counts!ReadCounts
<1>3. PICK plan : plan = {<<c, Counts!Counted(c)>> : c \in Counts!Recounted(today)}
    OBVIOUS
<1>4. Counts!Begin(r, "counts", plan) /\ "counts" \in CountsPhases
    BY <1>2, <1>3 DEF CountsPhases
<1>5. Counts!Shape' /\ rollup'[r].at = "counts" /\ rollup'[r].plan = plan
    BY <1>1, <1>4, CountsBegun
<1>6. Kept
    BY CountsRest
<1>7. ASSUME NEW p \in plan
      PROVE  p[1] \in Counts!Days \X Counts!Names /\ p[2] \in Counts!Tally /\ Counts!Holds(p[1], p[2])'
    <2>1. PICK c \in Counts!Recounted(today) : p = <<c, Counts!Counted(c)>>
        BY <1>3
    <2>2. c \in Counts!Days \X Counts!Names
        BY <1>1, CountsEvent DEF Counts!Recounted
    <2>3. Counts!Counted(c).count \in Nat /\ Counts!Counted(c).actors \in Nat
        BY <1>1, <1>5, <1>6, CountsGrow
    <2>4. PICK x : x = Counts!Counted(c)
        OBVIOUS
    <2>5. x \in Counts!Tally /\ Counts!Holds(c, x)
        BY <2>3, <2>4 DEF Counts!Tally, Counts!Holds, Counts!Counted
    <2>6. Counts!Holds(c, x)'
        BY <1>1, <1>5, <1>6, <2>5, CountsHoldOn
    <2>7. p[1] = c /\ p[2] = x
        BY <2>1, <2>4
    <2> QED BY <2>2, <2>5, <2>6, <2>7
<1>8. Counts!CountsHold(r)'
    BY <1>5, <1>7 DEF Counts!CountsHold, Counts!Holds
<1>9. Counts!Planned(r)'
    BY <1>5, <1>8 DEF Counts!Planned
<1> QED BY <1>4, <1>9, CountsReadHolds

LEMMA CountsReadCohortsStep ==
    ASSUME Counts!IInv, NEW r \in Rollups, Counts!ReadCohorts(r), UNCHANGED <<events, sessions, daily, cohort, dated, overtaken>>
    PROVE  Counts!IInv'
<1> DEFINE T(a) == {Counts!Time(i) : i \in {j \in DOMAIN events : Counts!Actor(j) = a}}
           P == {<<a, Counts!Min(T(a))>> : a \in {Counts!Actor(i) : i \in DOMAIN events}}
<1>1. Counts!Shape /\ DOMAIN events = 1..Len(events)
    BY DEF Counts!IInv, Counts!Shape
<1>2. PICK plan : plan = P
    OBVIOUS
<1>3. Counts!Begin(r, "cohorts", plan) /\ "cohorts" \in CountsPhases
    BY <1>2 DEF Counts!ReadCohorts, CountsPhases
<1>4. rollup'[r].at = "cohorts" /\ rollup'[r].upto = Len(events) /\ rollup'[r].plan = plan
    BY <1>1, <1>3, CountsBegun
<1>5. ASSUME NEW a \in {Counts!Actor(i) : i \in DOMAIN events}
      PROVE  /\ a \in Counts!Actors /\ Counts!Min(T(a)) \in Nat
             /\ \A i \in DOMAIN events : Counts!Actor(i) = a => Counts!Min(T(a)) <= Counts!Time(i)
    <2>1. T(a) # {} /\ T(a) \subseteq Nat
        BY <1>1, CountsEvent
    <2>2. Counts!Min(T(a)) \in T(a) /\ \A t \in T(a) : Counts!Min(T(a)) <= t
        BY <2>1, CountsLeast
    <2>3. \A i \in DOMAIN events : Counts!Actor(i) = a => Counts!Time(i) \in T(a)
        OBVIOUS
    <2>4. a \in Counts!Actors
        BY <1>1, CountsEvent
    <2> HIDE DEF T
    <2> QED BY <2>1, <2>2, <2>3, <2>4
<1>6. ASSUME NEW p \in plan
      PROVE  /\ p[1] \in Counts!Actors /\ p[2] \in Nat
             /\ \A i \in 1..Len(events) : p[1] = ActorOf[events[i].fact] => p[2] <= At[events[i].fact]
    <2>1. PICK a \in {Counts!Actor(i) : i \in DOMAIN events} : p = <<a, Counts!Min(T(a))>>
        BY <1>2
    <2> HIDE DEF T
    <2>2. p[1] = a /\ p[2] = Counts!Min(T(a))
        BY <2>1
    <2>3. /\ a \in Counts!Actors /\ p[2] \in Nat
          /\ \A i \in 1..Len(events) : Counts!Actor(i) = a => p[2] <= Counts!Time(i)
        BY <1>1, <1>5, <2>2
    <2> QED BY <2>2, <2>3 DEF Counts!Actor, Counts!Time
<1>7. ASSUME NEW i \in 1..Len(events) PROVE \E p \in plan : p[1] = ActorOf[events[i].fact]
    <2>1. Counts!Actor(i) \in {Counts!Actor(j) : j \in DOMAIN events}
        BY <1>1
    <2> HIDE DEF T
    <2>2. <<Counts!Actor(i), Counts!Min(T(Counts!Actor(i)))>> \in plan
        BY <1>2, <2>1
    <2> QED BY <2>2 DEF Counts!Actor
<1> HIDE DEF T, P
<1>8. Counts!CohortsHold(r)'
    BY <1>1, <1>4, <1>6, <1>7 DEF Counts!CohortsHold, Counts!Actor, Counts!Time
<1>9. Counts!Planned(r)'
    BY <1>4, <1>8 DEF Counts!Planned
<1> QED BY <1>3, <1>9, CountsReadHolds

LEMMA CountsWriteCountsStep ==
    ASSUME Counts!IInv, NEW r \in Rollups, Counts!WriteCounts(r), UNCHANGED <<events, sessions, cohort, dated, overtaken>>
    PROVE  Counts!IInv'
<1> DEFINE D == [c \in DOMAIN daily |-> IF \E p \in rollup[r].plan : p[1] = c
                                        THEN Counts!Merged(daily[c], (CHOOSE p \in rollup[r].plan : p[1] = c)[2])
                                        ELSE daily[c]]
<1>1. /\ Counts!Shape /\ DOMAIN events = 1..Len(events) /\ DOMAIN daily = Counts!Days \X Counts!Names
      /\ Len(events) \in Nat /\ rollup[r].at = "counts" /\ daily' = D
    BY DEF Counts!IInv, Counts!Shape, Counts!WriteCounts
<1>2. rollup' = [rollup EXCEPT ![r] = [@ EXCEPT !.at = "counted", !.plan = {}]] /\ "counted" \in CountsPhases
    BY DEF Counts!WriteCounts, CountsPhases
<1>3. /\ DOMAIN rollup' = Rollups /\ rollup'[r].at = "counted"
      /\ \A q \in Rollups \ {r} : rollup'[q] = rollup[q]
      /\ \A q \in Rollups : /\ DOMAIN rollup'[q] = {"at", "upto", "plan"}
                            /\ rollup'[q].at \in CountsPhases /\ rollup'[q].upto = rollup[q].upto
    BY <1>1, <1>2, CountsEnded
<1>4. \A p \in rollup[r].plan : p[2] \in Counts!Tally /\ Counts!Holds(p[1], p[2])
    BY <1>1 DEF Counts!IInv, Counts!Planned, Counts!CountsHold
<1>5. ASSUME NEW c \in DOMAIN daily PROVE D[c] \in Counts!Tally /\ Counts!Holds(c, D[c])
    <2>1. CASE \E p \in rollup[r].plan : p[1] = c
        <3>1. PICK x : x = CHOOSE p \in rollup[r].plan : p[1] = c
            OBVIOUS
        <3>2. x \in rollup[r].plan /\ x[1] = c
            BY <2>1, <3>1
        <3>3. D[c] = x[2]
            BY <2>1, <3>1 DEF Counts!Merged
        <3> HIDE DEF D
        <3> QED BY <1>4, <3>2, <3>3
    <2>2. CASE ~\E p \in rollup[r].plan : p[1] = c
        <3>1. D[c] = daily[c]
            BY <2>2
        <3> HIDE DEF D
        <3> QED BY <1>1, <3>1 DEF Counts!IInv, Counts!CountedOnce, Counts!Holds, Counts!Shape
    <2> QED BY <2>1, <2>2
<1>6. DOMAIN D = DOMAIN daily /\ D = [c \in DOMAIN D |-> D[c]]
    OBVIOUS
<1> HIDE DEF D
<1>7. daily' \in [Counts!Days \X Counts!Names -> Counts!Tally]
    BY <1>1, <1>5, <1>6
<1>8. Kept
    BY <1>1 DEF Kept
<1>9. Counts!Shape'
    BY <1>1, <1>3, <1>7 DEF Counts!Shape, CountsPhases
<1>10. Counts!CountedOnce'
    <2>1. ASSUME NEW c \in DOMAIN daily
          PROVE  daily'[c].count <= (Counts!Counted(c)').count /\ daily'[c].actors <= (Counts!Counted(c)').actors
        <3>1. PICK x : x = daily'[c]
            OBVIOUS
        <3>2. x \in Counts!Tally /\ Counts!Holds(c, x)
            BY <1>1, <1>5, <3>1
        <3>3. Counts!Holds(c, x)'
            BY <1>1, <1>8, <1>9, <3>2, CountsHoldOn
        <3> QED BY <3>1, <3>3 DEF Counts!Holds
    <2>2. DOMAIN daily' = DOMAIN daily
        BY <1>1, <1>6
    <2>3. \A c \in DOMAIN daily' : /\ daily'[c].count <= (Counts!Counted(c)').count
                                   /\ daily'[c].actors <= (Counts!Counted(c)').actors
        BY <2>1, <2>2
    <2>4. \A i, j \in DOMAIN events' :
              events'[i].fact = events'[j].fact /\ FactKeyOf[events'[i].fact] # NoKey => i = j
        BY DEF Counts!IInv, Counts!CountedOnce
    <2> QED BY <2>3, <2>4 DEF Counts!CountedOnce, Counts!IInv
<1>11. Counts!NoPauseInside' /\ Counts!CohortIsFirst'
    BY DEF Counts!IInv, Counts!NoPauseInside, Counts!CohortIsFirst, Counts!Actor, Counts!Time
<1>12. \A q \in Rollups \ {r} : Counts!Planned(q)'
    BY <1>1, <1>3, <1>8, <1>9, CountsPlanKept, CountsUnlinkedRest DEF Counts!IInv
<1>13. Counts!Planned(r)'
    BY <1>3 DEF Counts!Planned
<1> QED BY <1>9, <1>10, <1>11, <1>12, <1>13, CountsUnlinkedRest DEF Counts!IInv

LEMMA CountsWriteCohortsStep ==
    ASSUME Counts!IInv, NEW r \in Rollups, Counts!WriteCohorts(r), UNCHANGED <<events, sessions, daily, overtaken>>
    PROVE  Counts!IInv'
<1> DEFINE D == [a \in Counts!Actors |-> IF \E p \in rollup[r].plan : p[1] = a
                                         THEN Counts!EarlierOf(cohort[a], (CHOOSE p \in rollup[r].plan : p[1] = a)[2])
                                         ELSE cohort[a]]
           n == rollup[r].upto
<1>1. /\ Counts!Shape /\ DOMAIN events = 1..Len(events) /\ Len(events) \in Nat /\ cohort \in [Counts!Actors -> Nat]
      /\ rollup[r].at = "cohorts" /\ cohort' = D /\ dated \in 0..Len(events) /\ n \in 0..Len(events)
      /\ dated' = IF n > dated THEN n ELSE dated
    BY DEF Counts!IInv, Counts!Shape, Counts!WriteCohorts
<1>2. rollup' = [rollup EXCEPT ![r] = [@ EXCEPT !.at = "done", !.plan = {}]] /\ "done" \in CountsPhases
    BY DEF Counts!WriteCohorts, CountsPhases
<1>3. /\ DOMAIN rollup' = Rollups /\ rollup'[r].at = "done"
      /\ \A q \in Rollups \ {r} : rollup'[q] = rollup[q]
      /\ \A q \in Rollups : /\ DOMAIN rollup'[q] = {"at", "upto", "plan"}
                            /\ rollup'[q].at \in CountsPhases /\ rollup'[q].upto = rollup[q].upto
    BY <1>1, <1>2, CountsEnded
<1>4. /\ \A p \in rollup[r].plan : p[1] \in Counts!Actors /\ p[2] \in Nat
      /\ \A i \in 1..n : /\ \E p \in rollup[r].plan : p[1] = Counts!Actor(i)
                         /\ \A p \in rollup[r].plan : p[1] = Counts!Actor(i) => p[2] <= Counts!Time(i)
    BY <1>1 DEF Counts!IInv, Counts!Planned, Counts!CohortsHold
<1>5. ASSUME NEW a \in Counts!Actors
      PROVE  /\ D[a] \in Nat /\ D[a] <= cohort[a]
             /\ (\E p \in rollup[r].plan : p[1] = a) => \E p \in rollup[r].plan : p[1] = a /\ D[a] <= p[2]
    <2>0. cohort[a] \in Nat
        BY <1>1
    <2>1. CASE \E p \in rollup[r].plan : p[1] = a
        <3>1. PICK x : x = CHOOSE p \in rollup[r].plan : p[1] = a
            OBVIOUS
        <3>2. x \in rollup[r].plan /\ x[1] = a /\ x[2] \in Nat
            BY <1>4, <2>1, <3>1
        <3>3. D[a] = IF cohort[a] < x[2] THEN cohort[a] ELSE x[2]
            BY <2>1, <3>1 DEF Counts!EarlierOf
        <3> HIDE DEF D
        <3>4. D[a] \in Nat /\ D[a] <= cohort[a] /\ D[a] <= x[2]
            BY <2>0, <3>2, <3>3
        <3> QED BY <3>2, <3>4
    <2>2. CASE ~\E p \in rollup[r].plan : p[1] = a
        <3>1. D[a] = cohort[a]
            BY <2>2
        <3> HIDE DEF D
        <3> QED BY <2>0, <2>2, <3>1
    <2> QED BY <2>1, <2>2
<1>6. DOMAIN D = Counts!Actors /\ D = [a \in Counts!Actors |-> D[a]]
    OBVIOUS
<1> HIDE DEF D
<1>7. cohort' \in [Counts!Actors -> Nat]
    BY <1>1, <1>5, <1>6
<1>8. Kept
    BY <1>1 DEF Kept
<1>9. dated' \in 0..Len(events)
    BY <1>1
<1>10. Counts!Shape'
    BY <1>1, <1>3, <1>7, <1>9 DEF Counts!Shape, CountsPhases
<1>11. ASSUME NEW i \in 1..dated' PROVE D[Counts!Actor(i)] <= Counts!Time(i)
    <2>1. i \in DOMAIN events /\ (i \in 1..dated \/ i \in 1..n)
        BY <1>1
    <2>2. Counts!Actor(i) \in Counts!Actors /\ Counts!Time(i) \in Nat
        BY <1>1, <2>1, CountsEvent
    <2>3. D[Counts!Actor(i)] \in Nat /\ D[Counts!Actor(i)] <= cohort[Counts!Actor(i)] /\ cohort[Counts!Actor(i)] \in Nat
        BY <1>1, <1>5, <2>2
    <2>4. CASE i \in 1..dated
        <3>1. cohort[Counts!Actor(i)] <= Counts!Time(i)
            BY <2>4 DEF Counts!IInv, Counts!CohortIsFirst
        <3> QED BY <2>2, <2>3, <3>1
    <2>5. CASE i \in 1..n
        <3>1. PICK p \in rollup[r].plan : p[1] = Counts!Actor(i) /\ D[Counts!Actor(i)] <= p[2]
            BY <1>4, <1>5, <2>2, <2>5
        <3>2. p[2] <= Counts!Time(i) /\ p[2] \in Nat
            BY <1>4, <2>5, <3>1
        <3> QED BY <2>2, <2>3, <3>1, <3>2
    <2> QED BY <2>1, <2>4, <2>5
<1>12. Counts!CohortIsFirst'
    BY <1>1, <1>11 DEF Counts!CohortIsFirst, Counts!Actor, Counts!Time
<1>13. Counts!NoPauseInside'
    BY DEF Counts!IInv, Counts!NoPauseInside, Counts!Actor, Counts!Time
<1>14. Counts!CountedOnce'
    <2>1. ASSUME NEW c PROVE Counts!Counted(c)' = Counts!Counted(c)
        BY DEF Counts!Counted, Counts!Rows, Counts!Actor, Counts!Name, Counts!Time
    <2>2. \A c \in DOMAIN daily' : /\ daily'[c].count <= (Counts!Counted(c)').count
                                  /\ daily'[c].actors <= (Counts!Counted(c)').actors
        <3> TAKE c \in DOMAIN daily'
        <3>1. Counts!Counted(c)' = Counts!Counted(c)
            BY <2>1
        <3> QED BY <3>1 DEF Counts!IInv, Counts!CountedOnce
    <2>3. \A i, j \in DOMAIN events' :
              events'[i].fact = events'[j].fact /\ FactKeyOf[events'[i].fact] # NoKey => i = j
        BY DEF Counts!IInv, Counts!CountedOnce
    <2> QED BY <2>2, <2>3 DEF Counts!CountedOnce
<1>15. \A q \in Rollups \ {r} : Counts!Planned(q)'
    BY <1>1, <1>3, <1>8, <1>10, CountsPlanKept, CountsUnlinkedRest DEF Counts!IInv
<1>16. Counts!Planned(r)'
    BY <1>3 DEF Counts!Planned
<1> QED BY <1>10, <1>12, <1>13, <1>14, <1>15, <1>16, CountsUnlinkedRest DEF Counts!IInv

\* The sessions that were read are appended and the events that were in none are linked.
LEMMA CountsWriteVisitsStep ==
    ASSUME Counts!IInv, NEW r \in Rollups, Counts!WriteVisits(r), UNCHANGED <<daily, cohort>>
    PROVE  Counts!IInv'
<1> DEFINE n == Len(sessions)
<1>1. PICK made : made = Counts!SetToSeq(rollup[r].plan)
    OBVIOUS
<1> DEFINE links(i, k) == i \in Counts!LinkedBy(made[k], rollup[r].upto)
           E == [i \in DOMAIN events |-> IF \E k \in DOMAIN made : links(i, k)
                                         THEN [events[i] EXCEPT !.session = n + CHOOSE k \in DOMAIN made : links(i, k)]
                                         ELSE events[i]]
<1>2. /\ Counts!Shape /\ DOMAIN events = 1..Len(events) /\ Len(events) \in Nat /\ n \in Nat
      /\ events \in Seq([fact : Facts, session : Nat]) /\ sessions \in Seq(Counts!Session)
      /\ rollup[r].at = "visits" /\ events' = E /\ sessions' = sessions \o made /\ UNCHANGED <<daily, cohort, dated>>
      /\ rollup[r].upto \in 0..Len(events)
      /\ overtaken' = overtaken \cup {q \in Rollups \ {r} : rollup[q].at = "visits"}
    BY <1>1 DEF Counts!IInv, Counts!Shape, Counts!WriteVisits
<1>3. rollup' = [rollup EXCEPT ![r] = [@ EXCEPT !.at = "cut", !.plan = {}]] /\ "cut" \in CountsPhases
    BY DEF Counts!WriteVisits, CountsPhases
<1>4. /\ DOMAIN rollup' = Rollups /\ rollup'[r].at = "cut"
      /\ \A q \in Rollups \ {r} : rollup'[q] = rollup[q]
      /\ \A q \in Rollups : /\ DOMAIN rollup'[q] = {"at", "upto", "plan"}
                            /\ rollup'[q].at \in CountsPhases /\ rollup'[q].upto = rollup[q].upto
    BY <1>2, <1>3, CountsEnded
<1>5. /\ rollup[r].plan \subseteq Counts!Session /\ IsFiniteSet(rollup[r].plan)
      /\ \A v \in rollup[r].plan, i \in 1..rollup[r].upto :
            events[i].session = 0 /\ Counts!Actor(i) = v.actor /\ Counts!Time(i) \in v.from..v.to
            => Counts!Joined(i, v.from)
    BY <1>2, CountsFinite DEF Counts!IInv, Counts!Planned, Counts!VisitsHold
<1>22. Counts!VisitsCount(r)
    BY <1>2 DEF Counts!IInv, Counts!Planned
<1>6. /\ made \in Seq(rollup[r].plan) /\ made \in Seq(Counts!Session) /\ Len(made) \in Nat /\ DOMAIN made = 1..Len(made)
      /\ \A k \in 1..Len(made) : made[k] \in rollup[r].plan
      /\ \A k, l \in 1..Len(made) : made[k] = made[l] => k = l
    <2>1. /\ made \in Seq(rollup[r].plan) /\ \A k \in DOMAIN made : made[k] \in rollup[r].plan
          /\ \A k, l \in DOMAIN made : made[k] = made[l] => k = l
        BY <1>1, <1>5, CountsListed
    <2>2. made \in Seq(Counts!Session)
        BY <1>5, <2>1
    <2> QED BY <2>1, <2>2
<1>7. /\ sessions' \in Seq(Counts!Session) /\ Len(sessions') = n + Len(made)
      /\ \A s \in 1..n : sessions'[s] = sessions[s]
      /\ \A k \in 1..Len(made) : sessions'[n + k] = made[k]
    <2>1. sessions \o made \in Seq(Counts!Session) /\ Len(sessions \o made) = n + Len(made)
        BY <1>2, <1>6, ConcatProperties
    <2>2. \A s \in 1..(n + Len(made)) : (sessions \o made)[s] = IF s <= n THEN sessions[s] ELSE made[s - n]
        BY <1>2, <1>6, ConcatProperties
    <2>3. ASSUME NEW s \in 1..n PROVE (sessions \o made)[s] = sessions[s]
        BY <1>2, <1>6, <2>2
    <2>4. ASSUME NEW k \in 1..Len(made) PROVE (sessions \o made)[n + k] = made[k]
        <3>1. n + k \in 1..(n + Len(made)) /\ ~(n + k <= n) /\ (n + k) - n = k
            BY <1>2, <1>6
        <3> QED BY <2>2, <3>1
    <2> QED BY <1>2, <2>1, <2>3, <2>4
<1>8. DOMAIN E = 1..Len(events)
    BY <1>2
<1>9. ASSUME NEW i \in 1..Len(events)
      PROVE  /\ E[i] \in [fact : Facts, session : Nat] /\ E[i].fact = events[i].fact
             /\ \/ E[i].session = events[i].session /\ \A k \in 1..Len(made) : ~links(i, k)
                \/ /\ i <= rollup[r].upto /\ events[i].session = 0
                   /\ \E k \in 1..Len(made) : /\ E[i].session = n + k /\ Counts!Actor(i) = made[k].actor
                                              /\ Counts!Time(i) \in made[k].from..made[k].to /\ links(i, k)
    <2>1. events[i] \in [fact : Facts, session : Nat]
        BY <1>2, ElementOfSeq
    <2>2. CASE \E k \in DOMAIN made : links(i, k)
        <3>1. PICK k : k = CHOOSE j \in DOMAIN made : links(i, j)
            OBVIOUS
        <3>2. k \in 1..Len(made) /\ links(i, k)
            BY <1>6, <2>2, <3>1
        <3>3. E[i] = [events[i] EXCEPT !.session = n + k]
            BY <1>2, <2>2, <3>1
        <3> HIDE DEF E
        <3>4. n + k \in Nat
            BY <1>2, <3>2
        <3> HIDE DEF n
        <3>5. E[i] \in [fact : Facts, session : Nat] /\ E[i].fact = events[i].fact /\ E[i].session = n + k
            BY <2>1, <3>3, <3>4
        <3>6. /\ i <= rollup[r].upto /\ events[i].session = 0 /\ Counts!Actor(i) = made[k].actor
              /\ Counts!Time(i) \in made[k].from..made[k].to
            BY <1>2, <3>2 DEF Counts!LinkedBy, Counts!Unlinked
        <3> HIDE DEF links
        <3> QED BY <3>2, <3>5, <3>6
    <2>3. CASE ~\E k \in DOMAIN made : links(i, k)
        <3>1. E[i] = events[i]
            BY <1>2, <2>3
        <3>2. \A k \in 1..Len(made) : ~links(i, k)
            BY <1>6, <2>3
        <3> HIDE DEF E, links
        <3> QED BY <2>1, <3>1, <3>2
    <2> QED BY <2>2, <2>3
<1> HIDE DEF E
<1>10. ASSUME NEW i \in 1..Len(events) PROVE events[i].session \in Nat /\ events[i].session <= n
    <2>1. events[i] \in [fact : Facts, session : Nat]
        BY <1>2, ElementOfSeq
    <2>2. events[i].session \in Nat
        BY <2>1
    <2> QED BY <1>2, <2>2 DEF Counts!Shape
<1>11. /\ events' \in Seq([fact : Facts, session : Nat]) /\ Len(events') = Len(events) /\ DOMAIN events' = 1..Len(events)
    <2>1. E = [i \in 1..Len(events) |-> E[i]]
        BY <1>8 DEF E
    <2>2. E \in Seq([fact : Facts, session : Nat]) /\ Len(E) = Len(events)
        BY <1>2, <1>9, <2>1
    <2> QED BY <1>2, <1>8, <2>2
<1>12. Kept
    <2>1. \A i \in 1..Len(events) : E[i].fact = events[i].fact /\ (E[i].session = 0 => events[i].session = 0)
        <3> TAKE i \in 1..Len(events)
        <3>1. \A k \in 1..Len(made) : n + k # 0
            BY <1>2, <1>6
        <3>2. E[i].fact = events[i].fact
            BY <1>9
        <3>3. E[i].session = events[i].session \/ \E k \in 1..Len(made) : E[i].session = n + k
            BY <1>9
        <3> QED BY <3>1, <3>2, <3>3
    <2>2. \A i \in 1..Len(events) : events'[i].fact = events[i].fact /\ (events'[i].session = 0 => events[i].session = 0)
        BY <1>2, <2>1
    <2>3. Len(events') = Len(events) /\ Len(events) <= Len(events)
        BY <1>2, <1>11
    <2> QED BY <2>2, <2>3 DEF Kept
<1>13. Counts!Shape'
    <2>1. ASSUME NEW i \in 1..Len(events) PROVE E[i].session <= n + Len(made)
        <3>1. events[i].session <= n /\ events[i].session \in Nat
            BY <1>10
        <3>2. \A k \in 1..Len(made) : n + k <= n + Len(made)
            BY <1>2, <1>6
        <3>3. CASE E[i].session = events[i].session
            BY <1>2, <1>6, <3>1, <3>3
        <3>4. CASE \E k \in 1..Len(made) : E[i].session = n + k
            BY <3>2, <3>4
        <3> HIDE DEF n
        <3> QED BY <1>9, <3>3, <3>4
    <2>2. \A i \in DOMAIN events' : events'[i].session <= Len(sessions')
        BY <1>2, <1>7, <1>11, <2>1
    <2>3. dated' \in 0..Len(events') /\ \A q \in Rollups : rollup'[q].upto \in 0..Len(events')
        BY <1>2, <1>4, <1>11 DEF Counts!Shape
    <2> QED BY <1>2, <1>4, <1>7, <1>11, <2>2, <2>3 DEF Counts!Shape, CountsPhases
<1>14. Counts!CountedOnce'
    <2>1. ASSUME NEW i \in DOMAIN events', NEW j \in DOMAIN events',
                 events'[i].fact = events'[j].fact, FactKeyOf[events'[i].fact] # NoKey
          PROVE  i = j
        BY <1>2, <1>9, <1>11, <2>1 DEF Counts!IInv, Counts!CountedOnce
    <2>2. ASSUME NEW c \in DOMAIN daily PROVE Counts!Holds(c, daily[c])'
        <3>1. PICK x : x = daily[c]
            OBVIOUS
        <3>2. Counts!Holds(c, x) /\ x \in Counts!Tally
            BY <1>2, <3>1 DEF Counts!IInv, Counts!CountedOnce, Counts!Holds, Counts!Shape
        <3>3. Counts!Holds(c, x)'
            BY <1>2, <1>12, <1>13, <3>2, CountsHoldOn
        <3> QED BY <1>2, <3>1, <3>3 DEF Counts!Holds
    <2> QED BY <1>2, <2>1, <2>2 DEF Counts!CountedOnce, Counts!Holds
<1>15. ASSUME NEW i \in 1..Len(events)
       PROVE  ActorOf[events'[i].fact] = Counts!Actor(i) /\ At[events'[i].fact] = Counts!Time(i)
    BY <1>2, <1>9 DEF Counts!Actor, Counts!Time
<1>16. ASSUME NEW i \in 1..Len(events), NEW from, Counts!Joined(i, from)
       PROVE  Counts!Time(i) = from \/
                \E j \in DOMAIN events' : /\ ActorOf[events'[j].fact] = Counts!Actor(i)
                                          /\ At[events'[j].fact] < Counts!Time(i)
                                          /\ At[events'[j].fact] + Gap >= Counts!Time(i)
    <2>1. CASE Counts!Time(i) = from
        BY <2>1
    <2>2. CASE \E j \in DOMAIN events : Counts!Actor(j) = Counts!Actor(i) /\ Counts!Time(j) < Counts!Time(i)
                                        /\ Counts!Time(j) + Gap >= Counts!Time(i)
        BY <1>2, <1>11, <1>15, <2>2
    <2> QED BY <1>16, <2>1, <2>2 DEF Counts!Joined
<1>17. ASSUME NEW i \in 1..Len(events), E[i].session # 0
       PROVE  LET s == E[i].session
              IN  /\ sessions'[s].actor = Counts!Actor(i)
                  /\ Counts!Time(i) \in sessions'[s].from..sessions'[s].to
                  /\ Counts!Time(i) = sessions'[s].from \/
                        \E j \in DOMAIN events' : /\ ActorOf[events'[j].fact] = Counts!Actor(i)
                                                  /\ At[events'[j].fact] < Counts!Time(i)
                                                  /\ At[events'[j].fact] + Gap >= Counts!Time(i)
    <2>1. CASE E[i].session = events[i].session
        <3>1. PICK s : s = events[i].session
            OBVIOUS
        <3>2. s \in 1..n /\ sessions'[s] = sessions[s]
            <4>1. s \in Nat /\ s <= n /\ s # 0
                BY <1>17, <1>10, <2>1, <3>1
            <4> QED BY <1>2, <1>7, <4>1
        <3>3. /\ sessions[s].actor = Counts!Actor(i) /\ Counts!Time(i) \in sessions[s].from..sessions[s].to
              /\ Counts!Joined(i, sessions[s].from)
            BY <1>2, <1>17, <2>1, <3>1 DEF Counts!IInv, Counts!NoPauseInside, Counts!Joined
        <3> QED BY <1>16, <2>1, <3>1, <3>2, <3>3
    <2>2. ASSUME i <= rollup[r].upto, events[i].session = 0,
                 NEW k \in 1..Len(made), E[i].session = n + k, Counts!Actor(i) = made[k].actor,
                 Counts!Time(i) \in made[k].from..made[k].to
          PROVE  LET s == E[i].session
                 IN  /\ sessions'[s].actor = Counts!Actor(i)
                     /\ Counts!Time(i) \in sessions'[s].from..sessions'[s].to
                     /\ Counts!Time(i) = sessions'[s].from \/
                           \E j \in DOMAIN events' : /\ ActorOf[events'[j].fact] = Counts!Actor(i)
                                                     /\ At[events'[j].fact] < Counts!Time(i)
                                                     /\ At[events'[j].fact] + Gap >= Counts!Time(i)
        <3>1. i \in 1..rollup[r].upto /\ made[k] \in rollup[r].plan
            BY <1>2, <1>6, <2>2
        <3>2. Counts!Joined(i, made[k].from)
            BY <1>5, <2>2, <3>1
        <3>3. sessions'[E[i].session] = made[k]
            BY <1>7, <2>2
        <3> QED BY <1>16, <2>2, <3>2, <3>3
    <2> QED BY <1>9, <2>1, <2>2
<1>18. Counts!NoPauseInside'
    <2>1. ASSUME NEW i \in DOMAIN events', events'[i].session # 0
          PROVE  LET s == events'[i].session
                 IN  /\ sessions'[s].actor = ActorOf[events'[i].fact]
                     /\ At[events'[i].fact] \in sessions'[s].from..sessions'[s].to
                     /\ \/ At[events'[i].fact] = sessions'[s].from
                        \/ \E j \in DOMAIN events' : /\ ActorOf[events'[j].fact] = ActorOf[events'[i].fact]
                                                     /\ At[events'[j].fact] < At[events'[i].fact]
                                                     /\ At[events'[j].fact] + Gap >= At[events'[i].fact]
        <3>1. i \in 1..Len(events) /\ events'[i] = E[i] /\ E[i].session # 0
            BY <1>2, <1>11, <2>1
        <3>2. PICK s : s = E[i].session
            OBVIOUS
        <3>3. /\ sessions'[s].actor = Counts!Actor(i)
              /\ Counts!Time(i) \in sessions'[s].from..sessions'[s].to
              /\ Counts!Time(i) = sessions'[s].from \/
                    \E j \in DOMAIN events' : /\ ActorOf[events'[j].fact] = Counts!Actor(i)
                                              /\ At[events'[j].fact] < Counts!Time(i)
                                              /\ At[events'[j].fact] + Gap >= Counts!Time(i)
            BY <1>17, <3>1, <3>2
        <3>4. ActorOf[events'[i].fact] = Counts!Actor(i) /\ At[events'[i].fact] = Counts!Time(i)
            BY <1>15, <3>1
        <3> QED BY <3>1, <3>2, <3>3, <3>4
    <2> QED BY <2>1 DEF Counts!NoPauseInside, Counts!Actor, Counts!Time
<1>19. Counts!CohortIsFirst'
    <2>1. \A i \in 1..dated : i \in 1..Len(events)
        BY <1>2 DEF Counts!Shape
    <2> QED BY <1>2, <1>15, <2>1 DEF Counts!IInv, Counts!CohortIsFirst, Counts!Actor, Counts!Time
<1>20. \A q \in Rollups \ {r} : Counts!Planned(q)'
    <2>1. \A q \in Rollups \ {r} : Undisturbed(q)
        BY <1>2 DEF Undisturbed
    <2> QED BY <1>2, <1>4, <1>12, <1>13, <2>1, CountsPlanKept DEF Counts!IInv
<1>21. Counts!Planned(r)'
    BY <1>4 DEF Counts!Planned
<1>23. ASSUME NEW s \in 1..n
       PROVE  {i \in 1..Len(events) : E[i].session = s} = {i \in 1..Len(events) : events[i].session = s}
    <2>1. ASSUME NEW i \in 1..Len(events) PROVE E[i].session = s <=> events[i].session = s
        <3>1. E[i].session = events[i].session \/ (events[i].session = 0 /\ \E k \in 1..Len(made) : E[i].session = n + k)
            BY <1>9
        <3>2. \A k \in 1..Len(made) : n + k # s
            BY <1>2, <1>6
        <3>3. s # 0
            BY <1>2
        <3> QED BY <3>1, <3>2, <3>3
    <2> QED BY <2>1
<1>24. ASSUME NEW k \in 1..Len(made)
       PROVE  {i \in 1..Len(events) : E[i].session = n + k} = Counts!LinkedBy(made[k], rollup[r].upto)
    <2>1. ASSUME NEW i \in 1..Len(events) PROVE E[i].session = n + k => links(i, k)
        <3>1. E[i].session = events[i].session \/ \E l \in 1..Len(made) : E[i].session = n + l /\ links(i, l)
            BY <1>9
        <3>2. events[i].session # n + k
            BY <1>2, <1>10
        <3>3. \A l \in 1..Len(made) : n + l = n + k => l = k
            BY <1>2, <1>6
        <3> HIDE DEF links
        <3> QED BY <3>1, <3>2, <3>3
    <2>2. ASSUME NEW i \in 1..Len(events), links(i, k) PROVE E[i].session = n + k
        <3>1. PICK l \in 1..Len(made) : E[i].session = n + l /\ links(i, l)
            <4> HIDE DEF links
            <4> QED BY <1>9, <2>2
        <3>2. /\ Counts!Actor(i) = made[k].actor /\ Counts!Time(i) \in made[k].from..made[k].to
              /\ Counts!Actor(i) = made[l].actor /\ Counts!Time(i) \in made[l].from..made[l].to
            BY <2>2, <3>1 DEF Counts!LinkedBy, Counts!Unlinked
        <3>3. made[k] \in Counts!Session /\ made[l] \in Counts!Session /\ Counts!Time(i) \in Nat
            BY <1>2, <1>5, <1>6, CountsEvent
        <3>4. ~(made[k].to < made[l].from) /\ ~(made[l].to < made[k].from)
            BY <3>2, <3>3 DEF Counts!Session
        <3>5. made[k] = made[l]
            BY <1>6, <1>22, <3>2, <3>4 DEF Counts!VisitsCount
        <3>6. k = l
            BY <1>6, <3>5
        <3> QED BY <3>1, <3>6
    <2>3. Counts!LinkedBy(made[k], rollup[r].upto) \subseteq 1..Len(events)
        BY <1>2 DEF Counts!LinkedBy, Counts!Unlinked
    <2> QED BY <2>1, <2>2, <2>3
<1>25. Counts!CountsItsEvents'
    <2>1. ASSUME NEW s \in 1..(n + Len(made))
          PROVE  LET m == Counts!Cardinality({i \in 1..Len(events) : E[i].session = s})
                 IN  m <= sessions'[s].count /\ (sessions'[s].by \notin overtaken' => m = sessions'[s].count)
        <3>1. CASE s \in 1..n
            <4>1. LET m == Counts!Cardinality({i \in 1..Len(events) : events[i].session = s})
                  IN  m <= sessions[s].count /\ (sessions[s].by \notin overtaken => m = sessions[s].count)
                <5>1. s \in DOMAIN sessions /\ DOMAIN events = 1..Len(events)
                    BY <1>2, <3>1
                <5>2. LET m == Counts!Cardinality(Counts!Linked(s))
                      IN  m <= sessions[s].count /\ (sessions[s].by \notin overtaken => m = sessions[s].count)
                    BY <5>1 DEF Counts!IInv, Counts!CountsItsEvents
                <5> QED BY <5>1, <5>2 DEF Counts!Linked
            <4>2. sessions'[s] = sessions[s] /\ (sessions[s].by \notin overtaken' => sessions[s].by \notin overtaken)
                BY <1>2, <1>7, <3>1
            <4>3. {i \in 1..Len(events) : E[i].session = s} = {i \in 1..Len(events) : events[i].session = s}
                BY <1>23, <3>1
            <4> QED BY <4>1, <4>2, <4>3
        <3>2. CASE s \notin 1..n
            <4>1. PICK k \in 1..Len(made) : s = n + k
                <5>1. s - n \in 1..Len(made) /\ s = n + (s - n)
                    BY <1>2, <1>6, <3>2
                <5> QED BY <5>1
            <4>2. LET m == Counts!Cardinality(Counts!LinkedBy(made[k], rollup[r].upto))
                  IN  made[k].by = r /\ m <= made[k].count /\ (r \notin overtaken => m = made[k].count)
                BY <1>6, <1>22 DEF Counts!VisitsCount
            <4>3. sessions'[s] = made[k] /\ (r \notin overtaken' => r \notin overtaken)
                BY <1>2, <1>7, <4>1
            <4> QED BY <1>24, <4>1, <4>2, <4>3
        <3> QED BY <3>1, <3>2
    <2>2. DOMAIN sessions' = 1..(n + Len(made)) /\ DOMAIN events' = 1..Len(events) /\ events' = E
        BY <1>2, <1>7, <1>11
    <2> QED BY <2>1, <2>2 DEF Counts!CountsItsEvents, Counts!Linked
<1> QED BY <1>13, <1>14, <1>18, <1>19, <1>20, <1>21, <1>25 DEF Counts!IInv

LEMMA CountsStepHolds == ASSUME Counts!IInv, [Counts!Next]_(Counts!vars) PROVE Counts!IInv'
<1>1. ASSUME NEW f \in Facts, Counts!Track(f) PROVE Counts!IInv'
    BY <1>1, CountsTrackStep
<1>2. ASSUME NEW r \in Rollups, Counts!Rollup(r) PROVE Counts!IInv'
    <2>1. CASE (Counts!ReadVisits(r) \/ Counts!ReadCounts(r) \/ Counts!ReadCohorts(r))
               /\ UNCHANGED <<events, sessions, daily, cohort, dated, overtaken>>
        BY <2>1, CountsReadVisitsStep, CountsReadCountsStep, CountsReadCohortsStep
    <2>2. CASE Counts!WriteVisits(r) /\ UNCHANGED <<daily, cohort>>
        BY <2>2, CountsWriteVisitsStep
    <2>3. CASE Counts!WriteCounts(r) /\ UNCHANGED <<events, sessions, cohort, dated, overtaken>>
        BY <2>3, CountsWriteCountsStep
    <2>4. CASE Counts!WriteCohorts(r) /\ UNCHANGED <<events, sessions, daily, overtaken>>
        BY <2>4, CountsWriteCohortsStep
    <2> QED BY <1>2, <2>1, <2>2, <2>3, <2>4 DEF Counts!Rollup
<1>3. ASSUME UNCHANGED <<events, sessions, daily, cohort, rollup, dated, overtaken>> PROVE Counts!IInv'
    <2>1. Counts!Shape /\ Counts!Shape'
        BY <1>3 DEF Counts!IInv, Counts!Shape
    <2>2. /\ Counts!CountedOnce' /\ Counts!CountsItsEvents' /\ Counts!NoPauseInside' /\ Counts!CohortIsFirst'
          /\ Kept /\ \A r \in Rollups : Undisturbed(r)
        BY <1>3, CountsRest
    <2>3. \A r \in Rollups : Counts!Planned(r)'
        BY <1>3, <2>1, <2>2, CountsPlanKept DEF Counts!IInv
    <2> QED BY <2>1, <2>2, <2>3 DEF Counts!IInv
<1>4. CASE Counts!ReadSizes \/ Counts!ReadActive
    BY <1>3, <1>4 DEF Counts!ReadSizes, Counts!ReadActive
<1>5. CASE UNCHANGED Counts!vars
    BY <1>3, <1>5 DEF Counts!vars
<1> QED BY <1>1, <1>2, <1>4, <1>5 DEF Counts!Next

\* An actor's first time for a step is that of one of the events.
LEMMA CountsFirst ==
    ASSUME Counts!Shape, NEW a, NEW m, Counts!First(a, m) # Counts!Never
    PROVE  \E i \in DOMAIN events : Counts!Actor(i) = a /\ Counts!Name(i) = m /\ Counts!Time(i) = Counts!First(a, m)
<1> DEFINE T == {Counts!Time(i) : i \in {j \in DOMAIN events : Counts!Actor(j) = a /\ Counts!Name(j) = m}}
<1>1. T \subseteq Nat
    BY CountsEvent
<1>2. Counts!First(a, m) = IF T = {} THEN Counts!Never ELSE Counts!Min(T)
    BY DEF Counts!First
<1>3. T # {} /\ Counts!First(a, m) = Counts!Min(T)
    BY <1>2
<1>4. Counts!Min(T) \in T
    <2> HIDE DEF T
    <2> QED BY <1>1, <1>3, CountsLeast
<1> QED BY <1>3, <1>4

LEMMA CountsFunnel == ASSUME Counts!Shape PROVE Counts!FunnelIsWalked
<1>1. SUFFICES ASSUME NEW a \in Counts!Actors, NEW steps \in Funnels, Counts!Reached(a, steps, Len(steps))
               PROVE  \E walk \in [DOMAIN steps -> DOMAIN events] :
                          \A i \in DOMAIN steps :
                              /\ Counts!Actor(walk[i]) = a /\ Counts!Name(walk[i]) = steps[i]
                              /\ i > 1 => /\ Counts!Time(walk[i]) >= Counts!Time(walk[i - 1])
                                          /\ Counts!Time(walk[i]) <= Counts!Time(walk[1]) + Window
    BY DEF Counts!FunnelIsWalked
<1>2. steps \in Seq(Counts!Names) /\ Len(steps) \in Nat /\ DOMAIN steps = 1..Len(steps)
    BY CountsSane DEF Counts!Sane
<1> DEFINE F(i) == Counts!First(a, steps[i])
           Takes(i, j) == Counts!Actor(j) = a /\ Counts!Name(j) = steps[i] /\ Counts!Time(j) = F(i)
           walk == [i \in DOMAIN steps |-> CHOOSE j \in DOMAIN events : Takes(i, j)]
<1>3. ASSUME NEW i \in 1..Len(steps)
      PROVE  F(i) # Counts!Never /\ (i > 1 => F(i) >= F(i - 1) /\ F(i) <= F(1) + Window)
    BY <1>1 DEF Counts!Reached, Counts!Progresses, Counts!InOrder
<1>4. ASSUME NEW i \in 1..Len(steps) PROVE walk[i] \in DOMAIN events /\ Takes(i, walk[i])
    <2>1. \E j \in DOMAIN events : Takes(i, j)
        BY <1>3, CountsFirst
    <2>2. walk[i] = CHOOSE j \in DOMAIN events : Takes(i, j)
        BY <1>2
    <2> HIDE DEF Takes, walk
    <2> QED BY <2>1, <2>2
<1>5. walk \in [DOMAIN steps -> DOMAIN events]
    <2>1. walk = [i \in DOMAIN steps |-> walk[i]]
        OBVIOUS
    <2> HIDE DEF walk, Takes
    <2> QED BY <1>2, <1>4, <2>1
<1> HIDE DEF walk, F
<1>6. ASSUME NEW i \in DOMAIN steps
      PROVE  /\ Counts!Actor(walk[i]) = a /\ Counts!Name(walk[i]) = steps[i]
             /\ i > 1 => /\ Counts!Time(walk[i]) >= Counts!Time(walk[i - 1])
                         /\ Counts!Time(walk[i]) <= Counts!Time(walk[1]) + Window
    <2>1. Takes(i, walk[i])
        BY <1>2, <1>4
    <2>2. ASSUME i > 1 PROVE Takes(i - 1, walk[i - 1]) /\ Takes(1, walk[1]) /\ F(i) >= F(i - 1) /\ F(i) <= F(1) + Window
        <3>1. i \in 1..Len(steps) /\ i - 1 \in 1..Len(steps) /\ 1 \in 1..Len(steps)
            BY <1>2, <2>2
        <3> HIDE DEF Takes
        <3> QED BY <1>3, <1>4, <2>2, <3>1
    <2> QED BY <2>1, <2>2
<1> QED BY <1>5, <1>6

LEMMA CountsIInvIsSafe == ASSUME Counts!IInv PROVE Counts!Safety
<1>1. Counts!Shape
    BY DEF Counts!IInv
<1>2. Counts!TypeOK
    <2>1. ASSUME NEW i \in DOMAIN events PROVE events[i].fact \in Facts /\ events[i].session \in 0..Len(sessions)
        <3>0. events \in Seq([fact : Facts, session : Nat]) /\ i \in 1..Len(events) /\ Len(sessions) \in Nat
            BY <1>1 DEF Counts!Shape
        <3>1. events[i] \in [fact : Facts, session : Nat]
            BY <3>0, ElementOfSeq
        <3>2. events[i].fact \in Facts /\ events[i].session \in Nat
            BY <3>1
        <3> QED BY <1>1, <3>0, <3>2 DEF Counts!Shape
    <2> QED BY <1>1, <2>1 DEF Counts!TypeOK, Counts!Shape
<1>3. Counts!FunnelIsWalked
    BY <1>1, CountsFunnel
<1> QED BY <1>2, <1>3 DEF Counts!IInv, Counts!Safety

LEMMA CountsHolds == Counts!Spec => []Counts!Safety
<1>1. Counts!Init => Counts!IInv
    BY CountsInitHolds
<1>2. Counts!IInv /\ [Counts!Next]_(Counts!vars) => Counts!IInv'
    BY CountsStepHolds
<1>3. Counts!IInv => Counts!Safety
    BY CountsIInvIsSafe
<1> QED BY <1>1, <1>2, <1>3, PTL DEF Counts!Spec

-----------------------------------------------------------------------------
(* App: each block runs by its own specification, and holds what it        *)
(* promises.                                                               *)

\* No block sees what another one does: to each of them, that is a stutter.
LEMMA BlocksRun == Spec =>
    /\ Flags!Spec
    /\ Memory!Spec
    /\ Talk!Spec
    /\ Cache!Spec
    /\ Counts!Spec
    /\ Audit!Spec
    /\ Erasure!Spec
    /\ Masking!Spec
<1>1. Init =>
        /\ Flags!Init
        /\ Memory!Init
        /\ Talk!Init
        /\ Cache!Init
        /\ Counts!Init
        /\ Audit!Init
        /\ Erasure!Init
        /\ Masking!Init
  BY DEF Init
<1> USE DEF Next, allVars, inboundVars, notesVars, billingVars, rtVars, edgeVars, flagsVars,
     freshVars, memVars, chatVars, cacheVars, anaVars, migVars, auditVars, subjVars, piiVars
<1>2. [Next]_allVars => [Flags!Next]_(Flags!vars)
  BY DEF Flags!vars
<1>3. [Next]_allVars => [Talk!Next]_(Talk!vars)
  BY DEF Talk!vars
<1>4. [Next]_allVars => [Cache!Next]_(Cache!vars)
  BY DEF Cache!vars
<1>5. [Next]_allVars => [Audit!Next]_(Audit!vars)
  BY DEF Audit!vars
<1>6. [Next]_allVars => [Erasure!Next]_(Erasure!vars)
  BY DEF Erasure!vars
<1>7. [Next]_allVars => [Masking!Next]_(Masking!vars)
  BY DEF Masking!vars
<1>8. [Next]_allVars => [Memory!Next]_(Memory!vars)
  BY DEF Memory!vars
<1>9. [Next]_allVars => [Counts!Next]_(Counts!vars)
  BY DEF Counts!vars
<1> HIDE DEF Next, allVars
<1> QED BY <1>1, <1>2, <1>3, <1>4, <1>5, <1>6, <1>7, <1>8, <1>9, PTL DEF Spec, Flags!Spec, Talk!Spec,
     Cache!Spec, Memory!Spec, Counts!Spec, Audit!Spec, Erasure!Spec, Masking!Spec

\* Results count subjects, and no rollout takes a subject out again.
THEOREM FlagsAreSafe == Spec => []FlagsSafe
BY BlocksRun, FlagsHolds, PTL DEF FlagsSafe

\* A retry of a reply that was seen is free, a context is the caller's own, and a stored answer
\* is found for its term and in its scope.
THEOREM AssistantIsSafe == Spec => []AssistantSafe
BY BlocksRun, TalkHolds, CacheHolds, PTL DEF AssistantSafe

\* A session's totals and summaries are those of its turns, however turns, retries and
\* compactions interleave and wherever one of them dies.
THEOREM MemoryIsSafe == Spec => []MemorySafe
BY BlocksRun, MemoryHolds, PTL DEF MemorySafe

\* Nothing is counted twice, no session has a pause in it, a cohort is that of the first event
\* seen and a funnel is walked, however rollups overlap.
THEOREM CountsAreSafe == Spec => []CountsSafe
BY BlocksRun, CountsHolds, PTL DEF CountsSafe

\* The chain of the audit log tells, an erasure that is complete has erased, and a masking
\* run that is complete has masked.
THEOREM ComplianceIsSafe == Spec => []ComplianceSafe
BY BlocksRun, AuditHolds, ErasureHolds, MaskingHolds, PTL DEF ComplianceSafe
=============================================================================
