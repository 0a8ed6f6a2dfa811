------------------------- MODULE ReliabilityProofs -------------------------
(***************************************************************************)
(* Theorems about Reliability, for any probe set and any reports: the list *)
(* of disagreements and the counters are two accounts of the same thing,   *)
(* and full agreement means that nothing differs.                          *)
(***************************************************************************)
EXTENDS Reliability, FiniteSetTheorems, SequenceTheorems, TLAPS

OfClaims == {d \in disagreements : d.what = "claim"}

\* Where the loop is: ids tell the probes apart, and what is listed is about
\* probes that are done.
Progress ==
    /\ pc \in {"base", "variant", "compare", "sealed"} => ValidProbeSet
    /\ pc \in {"variant", "compare"} => at <= Len(probes) /\ base \in Reports
    /\ pc = "compare" => variant \in Reports
    /\ pc = "sealed" => at = Len(probes) + 1
    /\ totalPairs = at - 1 /\ Len(pairs) = at - 1
    /\ \A d \in disagreements : \E i \in 1 .. at - 1 : d.probe = probes[i].id

\* What is not counted as an agreement is on the list.
Balance ==
    /\ IsFiniteSet(OfClaims) /\ claimTotal - claimMatches = Cardinality(OfClaims)
    /\ \A c \in Constructs : /\ IsFiniteSet(About("construct", c))
                             /\ dimTotal[c] - dimMatches[c] = Cardinality(About("construct", c))

\* Whatever two compared reports differ in is on the list, and a construct that
\* is not on it has moved within the tolerance.
Listed ==
    /\ \A i \in DOMAIN pairs :
        /\ ClaimsApart(pairs[i][1], pairs[i][2]) # {} => OfClaims # {}
        /\ \A c \in DimensionsApart(pairs[i][1], pairs[i][2]) : About("construct", c) # {}
    /\ \A c \in Constructs : About("construct", c) = {} => dimDeltaSum[c] <= dimDeltaCount[c]

\* Every probe is charged with the claims in which its own reports differ.
Charged ==
    \A i \in DOMAIN pairs :
        /\ pairs[i][1] \in Reports /\ pairs[i][2] \in Reports
        /\ Cardinality(ChargedTo(probes[i].id)) = Cardinality(ClaimsApart(pairs[i][1], pairs[i][2]))

IInv == TypeOK /\ Progress /\ Balance /\ Listed /\ Charged

-----------------------------------------------------------------------------
(* Two reports *)

\* Every claim of two reports agrees or is apart.
LEMMA ClaimCounts ==
    ASSUME NEW x \in Reports, NEW y \in Reports
    PROVE  /\ IsFiniteSet(ClaimsApart(x, y)) /\ Cardinality(ClaimsApart(x, y)) \in Nat
           /\ ClaimTotal(x, y) \in Nat /\ Cardinality(ClaimMatches(x, y)) \in Nat
           /\ ClaimTotal(x, y) = Cardinality(ClaimMatches(x, y)) + Cardinality(ClaimsApart(x, y))
<1> DEFINE M == ClaimMatches(x, y)
           A == ClaimsApart(x, y)
           U == UnionKeys(x.claims, y.claims)
<1>1. IsFiniteSet(U)
    <2>1. IsFiniteSet(DOMAIN x.claims) /\ IsFiniteSet(DOMAIN y.claims)
        BY ReliabilityAssumption
    <2> QED
        BY <2>1, FS_Union DEF UnionKeys
<1>2. M \cup A = U /\ M \cap A = {} /\ M \subseteq U /\ A \subseteq U
    BY DEF ClaimMatches, ClaimsApart, UnionKeys, Common
<1> HIDE DEF M, A, U
<1>3. IsFiniteSet(M) /\ IsFiniteSet(A)
    BY <1>1, <1>2, FS_Subset
<1>4. Cardinality(U) = Cardinality(M) + Cardinality(A) - Cardinality(M \cap A)
    <2>1. Cardinality(M \cup A) = Cardinality(M) + Cardinality(A) - Cardinality(M \cap A)
        BY <1>3, FS_Union
    <2> QED
        BY <1>2, <2>1, Zenon
<1>5. Cardinality(M) \in Nat /\ Cardinality(A) \in Nat /\ Cardinality(M \cap A) = 0
    BY <1>2, <1>3, FS_CardinalityType, FS_EmptySet
<1>6. Cardinality(U) = Cardinality(M) + Cardinality(A)
    BY <1>4, <1>5
<1> QED
    BY <1>3, <1>5, <1>6 DEF ClaimTotal, M, A, U

\* Reports none of whose claims is apart judge the same claims the same way.
LEMMA SameClaims ==
    ASSUME NEW x \in Reports, NEW y \in Reports, ClaimsApart(x, y) = {}
    PROVE  x.claims = y.claims
<1>1. /\ x.claims = [c \in DOMAIN x.claims |-> x.claims[c]]
      /\ y.claims = [c \in DOMAIN y.claims |-> y.claims[c]]
    BY ReliabilityAssumption
<1>2. DOMAIN x.claims = DOMAIN y.claims
    BY DEF ClaimsApart, UnionKeys, Common
<1>3. \A c \in DOMAIN x.claims : x.claims[c] = y.claims[c]
    BY <1>2 DEF ClaimsApart, UnionKeys, Common
<1> QED
    BY <1>1, <1>2, <1>3

-----------------------------------------------------------------------------
(* What a comparison lists *)

AboutClaim(c) ==
    [probe |-> Probe.id, what |-> "claim", key |-> c,
     basePresent |-> c \in DOMAIN base.claims, variantPresent |-> c \in DOMAIN variant.claims]
AboutConstruct(c) ==
    [probe |-> Probe.id, what |-> "construct", key |-> c,
     basePresent |-> c \in DOMAIN base.dims, variantPresent |-> c \in DOMAIN variant.dims]

NewOfClaims == {d \in Differences : d.what = "claim"}
NewAbout(c) == {d \in Differences : d.what = "construct" /\ d.key = c}

LEMMA DifferencesAre ==
    Differences = {AboutConstruct(c) : c \in DimensionsApart(base, variant)}
                    \cup {AboutClaim(c) : c \in ClaimsApart(base, variant)}
BY DEF Differences, AboutConstruct, AboutClaim

\* One line for each claim and each construct that differs.
LEMMA ClaimLines ==
    ASSUME base \in Reports, variant \in Reports
    PROVE  /\ IsFiniteSet(NewOfClaims)
           /\ Cardinality(NewOfClaims) = Cardinality(ClaimsApart(base, variant))
           /\ ClaimsApart(base, variant) # {} => NewOfClaims # {}
<1> DEFINE A == ClaimsApart(base, variant)
           f == [c \in A |-> AboutClaim(c)]
<1>1. NewOfClaims = {AboutClaim(c) : c \in A}
    BY DifferencesAre DEF NewOfClaims, AboutClaim, AboutConstruct
<1>2. \A c \in A : AboutClaim(c).key = c
    BY DEF AboutClaim
<1>3. IsFiniteSet(A)
    BY ClaimCounts
<1> HIDE DEF A
<1>4. f \in Bijection(A, NewOfClaims)
    <2>1. f \in [A -> NewOfClaims]
        BY <1>1
    <2>2. \A a, b \in A : f[a] = f[b] => a = b
        BY <1>2
    <2>3. \A t \in NewOfClaims : \E a \in A : f[a] = t
        BY <1>1
    <2> HIDE DEF f
    <2> QED
        BY <2>1, <2>2, <2>3 DEF Bijection, Injection, Surjection, IsInjective
<1>5. ExistsBijection(A, NewOfClaims)
    BY <1>4 DEF ExistsBijection
<1>6. A # {} => NewOfClaims # {}
    BY <1>1
<1> QED
    BY <1>3, <1>5, <1>6, FS_Bijection DEF A

LEMMA ConstructLines ==
    ASSUME NEW c
    PROVE  NewAbout(c) = IF c \in DimensionsApart(base, variant) THEN {AboutConstruct(c)} ELSE {}
BY DifferencesAre DEF NewAbout, AboutClaim, AboutConstruct

-----------------------------------------------------------------------------
(* The invariant *)

LEMMA InitInv == Init => IInv
<1> SUFFICES ASSUME Init PROVE IInv
    OBVIOUS
<1>1. probes \in Seq([id : STRING, valid : BOOLEAN]) /\ Len(probes) \in Nat
    BY ReliabilityAssumption DEF Init
<1>2. TypeOK
    BY <1>1 DEF Init, TypeOK, Zeros
<1>3. OfClaims = {} /\ \A c : About("construct", c) = {}
    BY DEF Init, OfClaims, About
<1>4. Balance
    <2>1. \A c \in Constructs : dimTotal[c] - dimMatches[c] = 0
        BY DEF Init, Zeros
    <2>2. claimTotal - claimMatches = 0
        BY DEF Init
    <2> QED
        BY <1>3, <2>1, <2>2, FS_EmptySet DEF Balance
<1>5. Progress
    BY <1>1 DEF Init, Progress
<1>6. Listed /\ Charged
    BY DEF Init, Listed, Zeros, Charged
<1> QED
    BY <1>2, <1>4, <1>5, <1>6 DEF IInv

\* A step that compares nothing leaves the books alone.
LEMMA OtherSteps ==
    ASSUME IInv, Validate \/ EvaluateBase \/ EvaluateVariant \/ JudgeFails \/ Finish \/ UNCHANGED vars
    PROVE  IInv'
<1> USE DEF IInv
<1>1. UNCHANGED <<inputs, books, at>>
    BY DEF Validate, EvaluateBase, EvaluateVariant, JudgeFails, Finish, vars
<1>2. Balance' /\ Listed' /\ Charged'
    BY <1>1 DEF Balance, Listed, OfClaims, About, Charged, ChargedTo, books, inputs
<1>3. Len(probes) \in Nat /\ at \in Int
    BY ReliabilityAssumption DEF TypeOK
<1>4. TypeOK'
    <2>1. pc' \in {"validate", "base", "variant", "compare", "sealed", "failed"}
          /\ {base', variant'} \subseteq Reports \cup {Silent}
        BY DEF TypeOK, Validate, EvaluateBase, EvaluateVariant, JudgeFails, Finish, vars
    <2> QED
        BY <1>1, <2>1 DEF TypeOK, books, inputs
<1>5. Progress'
    <2>1. ValidProbeSet' = ValidProbeSet
        BY <1>1 DEF ValidProbeSet, inputs
    <2>2. /\ totalPairs' = at' - 1 /\ Len(pairs)' = at' - 1
          /\ \A d \in disagreements' : \E i \in 1 .. at' - 1 : d.probe = probes'[i].id
        BY <1>1 DEF Progress, books, inputs
    <2>3. /\ pc' \in {"base", "variant", "compare", "sealed"} => ValidProbeSet
          /\ pc' \in {"variant", "compare"} => at <= Len(probes) /\ base' \in Reports
          /\ pc' = "compare" => variant' \in Reports
          /\ pc' = "sealed" => at = Len(probes) + 1
        <3>1. CASE Validate
            BY <3>1 DEF Validate
        <3>2. CASE EvaluateBase
            BY <3>2 DEF EvaluateBase, Progress
        <3>3. CASE EvaluateVariant
            BY <3>3 DEF EvaluateVariant, Progress
        <3>4. CASE JudgeFails
            BY <3>4 DEF JudgeFails
        <3>5. CASE Finish
            BY <1>3, <3>5 DEF Finish, Progress, TypeOK
        <3>6. CASE UNCHANGED vars
            BY <3>6 DEF vars, Progress
        <3> QED
            BY <3>1, <3>2, <3>3, <3>4, <3>5, <3>6
    <2> QED
        BY <1>1, <2>1, <2>2, <2>3 DEF Progress, inputs
<1> QED
    BY <1>2, <1>4, <1>5

\* What a comparison adds to the list is about a new probe.
LEMMA CompareLines ==
    ASSUME IInv, Compare
    PROVE  /\ OfClaims' = OfClaims \cup NewOfClaims /\ OfClaims \cap NewOfClaims = {}
           /\ \A c : /\ About("construct", c)' = About("construct", c) \cup NewAbout(c)
                     /\ About("construct", c) \cap NewAbout(c) = {}
<1>1. disagreements' = disagreements \cup Differences
    BY DEF Compare
<1>2. \A d \in Differences : d.probe = Probe.id
    BY DifferencesAre DEF AboutClaim, AboutConstruct
<1>3. disagreements \cap Differences = {}
    <2> SUFFICES ASSUME NEW d \in disagreements, d \in Differences PROVE FALSE
        OBVIOUS
    <2>1. PICK i \in 1 .. at - 1 : d.probe = probes[i].id
        BY DEF IInv, Progress
    <2>2. ValidProbeSet /\ at <= Len(probes) /\ at \in 1 .. Len(probes) + 1
          /\ DOMAIN probes = 1 .. Len(probes) /\ Len(probes) \in Nat
        BY ReliabilityAssumption DEF IInv, TypeOK, Progress, Compare
    <2>3. i \in DOMAIN probes /\ at \in DOMAIN probes /\ i # at
        BY <2>2
    <2>4. probes[i].id = probes[at].id
        BY <1>2, <2>1 DEF Probe
    <2> QED
        BY <2>2, <2>3, <2>4 DEF ValidProbeSet
<1> QED
    BY <1>1, <1>3 DEF OfClaims, NewOfClaims, About, NewAbout

\* Earlier probes are not charged again, and the running one had nothing yet.
LEMMA CompareCharges ==
    ASSUME IInv, Compare
    PROVE  Charged'
<1> USE DEF IInv
<1> DEFINE After(i) == {d \in disagreements' : d.what = "claim" /\ d.probe = probes[i].id}
<1>1. base \in Reports /\ variant \in Reports
    BY DEF Progress, Compare
<1>2. /\ ValidProbeSet /\ at \in 1 .. Len(probes) /\ Len(probes) \in Nat
      /\ DOMAIN probes = 1 .. Len(probes) /\ Len(pairs) = at - 1
    BY ReliabilityAssumption DEF TypeOK, Progress, Compare
<1>3. /\ DOMAIN pairs = 1 .. at - 1 /\ DOMAIN pairs' = 1 .. at
      /\ \A i \in 1 .. at - 1 : pairs'[i] = pairs[i]
      /\ pairs'[at][1] = base /\ pairs'[at][2] = variant
    <2>1. pairs \in Seq(Reports \X Reports) /\ <<base, variant>> \in Reports \X Reports
          /\ pairs' = Append(pairs, <<base, variant>>)
        BY <1>1 DEF TypeOK, Compare
    <2>2. /\ Len(pairs') = Len(pairs) + 1 /\ pairs' \in Seq(Reports \X Reports)
          /\ \A i \in 1 .. Len(pairs) : pairs'[i] = pairs[i]
          /\ pairs'[Len(pairs) + 1] = <<base, variant>>
        BY <2>1, AppendProperties
    <2> QED
        BY <1>2, <2>1, <2>2
<1>4. probes' = probes /\ disagreements' = disagreements \cup Differences
    BY DEF Compare, inputs
<1>5. \A d \in Differences : d.probe = probes[at].id
    BY DifferencesAre DEF AboutClaim, AboutConstruct, Probe
<1>6. ASSUME NEW i \in 1 .. at - 1 PROVE probes[i].id # probes[at].id
    <2>1. i \in DOMAIN probes /\ at \in DOMAIN probes /\ i # at
        BY <1>2
    <2> QED
        BY <1>2, <2>1 DEF ValidProbeSet
<1>7. ASSUME NEW i \in 1 .. at - 1 PROVE After(i) = ChargedTo(probes[i].id)
    BY <1>4, <1>5, <1>6 DEF ChargedTo
<1>8. After(at) = NewOfClaims
    <2>1. \A d \in disagreements : d.probe # probes[at].id
        BY <1>6 DEF Progress
    <2> QED
        BY <1>4, <1>5, <2>1 DEF NewOfClaims
<1>9. Cardinality(NewOfClaims) = Cardinality(ClaimsApart(base, variant))
    BY <1>1, ClaimLines
<1>10. ASSUME NEW i \in 1 .. at
       PROVE  /\ pairs'[i][1] \in Reports /\ pairs'[i][2] \in Reports
              /\ Cardinality(After(i)) = Cardinality(ClaimsApart(pairs'[i][1], pairs'[i][2]))
    <2>1. CASE i = at
        BY <1>1, <1>3, <1>8, <1>9, <2>1
    <2>2. CASE i # at
        <3>1. i \in 1 .. at - 1
            BY <1>2, <2>2
        <3> QED
            BY <1>3, <1>7, <3>1 DEF Charged
    <2> QED
        BY <2>1, <2>2
<1> QED
    BY <1>3, <1>4, <1>10 DEF Charged, ChargedTo

LEMMA CompareKeepsTypes ==
    ASSUME IInv, Compare
    PROVE  TypeOK' /\ Progress'
<1> USE DEF IInv
<1>1. /\ at \in Int /\ at \in 1 .. Len(probes) /\ Len(probes) \in Nat
      /\ DOMAIN probes = 1 .. Len(probes)
      /\ base \in Reports /\ variant \in Reports
    BY ReliabilityAssumption DEF TypeOK, Progress, Compare
<1>2. /\ probes[at].id \in {p.id : p \in UNION {Range(s) : s \in ProbeSets}}
    BY <1>1 DEF TypeOK, Range
<1>3. Differences \subseteq Disagreement
    <2>1. DimensionsApart(base, variant) \subseteq Constructs /\ ClaimsApart(base, variant) \subseteq Claims
        BY <1>1, ReliabilityAssumption DEF DimensionsApart, ClaimsApart, UnionKeys
    <2>2. \A c \in Constructs : AboutConstruct(c) \in Disagreement
        BY <1>2 DEF AboutConstruct, Disagreement, Probe
    <2>3. \A c \in Claims : AboutClaim(c) \in Disagreement
        BY <1>2 DEF AboutClaim, Disagreement, Probe
    <2> QED
        BY <2>1, <2>2, <2>3, DifferencesAre
<1>4. pairs' \in Seq(Reports \X Reports) /\ Len(pairs)' = Len(pairs) + 1
    BY <1>1 DEF TypeOK, Compare
<1>5. {dimTotal', dimMatches', dimDeltaCount'} \subseteq [Constructs -> Nat]
    <2>1. \A counts \in [Constructs -> Nat] : \A keys : Counted(counts, keys) \in [Constructs -> Nat]
        BY DEF Counted
    <2>2. dimTotal \in [Constructs -> Nat] /\ dimMatches \in [Constructs -> Nat] /\ dimDeltaCount \in [Constructs -> Nat]
        BY DEF TypeOK
    <2>3. /\ dimTotal' = Counted(dimTotal, UnionKeys(base.dims, variant.dims))
          /\ dimMatches' = Counted(dimMatches, DimensionMatches(base, variant))
          /\ dimDeltaCount' = Counted(dimDeltaCount, BothNumeric)
        BY DEF Compare
    <2> QED
        BY <2>1, <2>2, <2>3
<1>6. dimDeltaSum' \in [Constructs -> Nat]
    <2>1. \A c \in BothNumeric : Magnitude(base.dims[c].value - variant.dims[c].value) \in Nat
        <3> SUFFICES ASSUME NEW c \in BothNumeric
                     PROVE  Magnitude(base.dims[c].value - variant.dims[c].value) \in Nat
            OBVIOUS
        <3>1. base.dims[c].value \in Int /\ variant.dims[c].value \in Int
            BY <1>1, ReliabilityAssumption DEF BothNumeric, Common, Numeric, Dimension
        <3> QED
            BY <3>1 DEF Magnitude
    <2>2. \A c \in Constructs : dimDeltaSum[c] \in Nat
        BY DEF TypeOK
    <2>3. \A c \in Constructs :
            dimDeltaSum[c] + (IF c \in BothNumeric THEN Magnitude(base.dims[c].value - variant.dims[c].value) ELSE 0) \in Nat
        BY <2>1, <2>2
    <2> QED
        BY <2>3 DEF Compare
<1>7. {totalPairs', claimTotal', claimMatches'} \subseteq Nat
    <2>1. ClaimTotal(base, variant) \in Nat /\ Cardinality(ClaimMatches(base, variant)) \in Nat
        BY <1>1, ClaimCounts
    <2>2. totalPairs \in Nat /\ claimTotal \in Nat /\ claimMatches \in Nat
        BY DEF TypeOK
    <2>3. /\ totalPairs' = totalPairs + 1
          /\ claimTotal' = claimTotal + ClaimTotal(base, variant)
          /\ claimMatches' = claimMatches + Cardinality(ClaimMatches(base, variant))
        BY DEF Compare
    <2>4. totalPairs' \in Nat /\ claimTotal' \in Nat /\ claimMatches' \in Nat
        BY <2>1, <2>2, <2>3
    <2> QED
        BY <2>4
<1>8. /\ UNCHANGED <<probes, judge, base, variant>> /\ pc' = "base" /\ at' = at + 1
      /\ totalPairs' = totalPairs + 1 /\ disagreements' = disagreements \cup Differences
    BY DEF Compare, inputs
<1>9. TypeOK'
    <2>1. probes' \in ProbeSets /\ judge' \in Judges /\ {base', variant'} \subseteq Reports \cup {Silent}
        BY <1>8 DEF TypeOK
    <2>2. at' \in 1 .. (Len(probes') + 1)
        BY <1>1, <1>8
    <2>3. disagreements' \subseteq Disagreement
        BY <1>3, <1>8 DEF TypeOK
    <2>4. {dimTotal', dimMatches', dimDeltaSum', dimDeltaCount'} \subseteq [Constructs -> Nat]
        BY <1>5, <1>6
    <2> QED
        BY <1>4, <1>7, <1>8, <2>1, <2>2, <2>3, <2>4, Zenon DEF TypeOK
<1>10. \A d \in disagreements' : \E i \in 1 .. at : d.probe = probes[i].id
    <2>1. \A d \in disagreements : \E i \in 1 .. at - 1 : d.probe = probes[i].id
        BY DEF Progress
    <2>2. \A d \in Differences : d.probe = probes[at].id
        BY DifferencesAre DEF AboutClaim, AboutConstruct, Probe
    <2>3. 1 .. at - 1 \subseteq 1 .. at /\ at \in 1 .. at
        BY <1>1
    <2> QED
        BY <1>8, <2>1, <2>2, <2>3
<1>11. Progress'
    <2>1. ValidProbeSet'
        BY <1>8 DEF Progress, Compare, ValidProbeSet
    <2>2. at + 1 - 1 = at /\ totalPairs + 1 = at /\ Len(pairs) + 1 = at
        BY <1>1 DEF Progress, TypeOK
    <2> QED
        BY <1>4, <1>8, <1>10, <2>1, <2>2 DEF Progress
<1> QED
    BY <1>9, <1>11

\* Both accounts grow by as much.
LEMMA CompareBalances ==
    ASSUME IInv, Compare
    PROVE  Balance'
<1> USE DEF IInv
<1>1. base \in Reports /\ variant \in Reports
    BY DEF Progress, Compare
<1>2. IsFiniteSet(OfClaims') /\ claimTotal' - claimMatches' = Cardinality(OfClaims')
    <2>1. /\ IsFiniteSet(NewOfClaims)
          /\ Cardinality(NewOfClaims) = Cardinality(ClaimsApart(base, variant))
        BY <1>1, ClaimLines
    <2>2. IsFiniteSet(OfClaims) /\ claimTotal - claimMatches = Cardinality(OfClaims)
        BY DEF Balance
    <2>3. /\ IsFiniteSet(OfClaims')
          /\ Cardinality(OfClaims') = Cardinality(OfClaims) + Cardinality(NewOfClaims)
        <3>1. /\ IsFiniteSet(OfClaims \cup NewOfClaims)
              /\ Cardinality(OfClaims \cup NewOfClaims) =
                    Cardinality(OfClaims) + Cardinality(NewOfClaims) - Cardinality(OfClaims \cap NewOfClaims)
            BY <2>1, <2>2, FS_Union
        <3>2. Cardinality(OfClaims \cap NewOfClaims) = 0
            BY CompareLines, FS_EmptySet
        <3>3. Cardinality(OfClaims) \in Nat /\ Cardinality(NewOfClaims) \in Nat
            BY <2>1, <2>2, FS_CardinalityType
        <3>4. OfClaims' = OfClaims \cup NewOfClaims
            BY CompareLines
        <3> QED
            BY <3>1, <3>2, <3>3, <3>4
    <2>4. /\ claimTotal' = claimTotal + ClaimTotal(base, variant)
          /\ claimMatches' = claimMatches + Cardinality(ClaimMatches(base, variant))
        BY DEF Compare
    <2>5. /\ ClaimTotal(base, variant) \in Nat /\ Cardinality(ClaimMatches(base, variant)) \in Nat
          /\ Cardinality(ClaimsApart(base, variant)) \in Nat
          /\ ClaimTotal(base, variant) =
                Cardinality(ClaimMatches(base, variant)) + Cardinality(ClaimsApart(base, variant))
        BY <1>1, ClaimCounts
    <2>6. claimTotal \in Nat /\ claimMatches \in Nat
        BY DEF TypeOK
    <2> QED
        BY <2>1, <2>2, <2>3, <2>4, <2>5, <2>6
<1>3. ASSUME NEW c \in Constructs
      PROVE  /\ IsFiniteSet(About("construct", c)')
             /\ dimTotal'[c] - dimMatches'[c] = Cardinality(About("construct", c)')
    <2>1. /\ IsFiniteSet(About("construct", c))
          /\ dimTotal[c] - dimMatches[c] = Cardinality(About("construct", c))
          /\ dimTotal[c] \in Nat /\ dimMatches[c] \in Nat
        BY DEF Balance, TypeOK
    <2>2. /\ About("construct", c)' = About("construct", c) \cup NewAbout(c)
          /\ About("construct", c) \cap NewAbout(c) = {}
        BY CompareLines
    <2>3. /\ dimTotal'[c] = IF c \in UnionKeys(base.dims, variant.dims) THEN dimTotal[c] + 1 ELSE dimTotal[c]
          /\ dimMatches'[c] = IF c \in DimensionMatches(base, variant) THEN dimMatches[c] + 1 ELSE dimMatches[c]
        BY DEF Compare, Counted
    <2>4. CASE c \in DimensionsApart(base, variant)
        <3>1. c \in UnionKeys(base.dims, variant.dims) /\ c \notin DimensionMatches(base, variant)
            BY <2>4 DEF DimensionsApart, DimensionMatches
        <3>2. NewAbout(c) = {AboutConstruct(c)} /\ AboutConstruct(c) \notin About("construct", c)
            BY <2>2, <2>4, ConstructLines
        <3>3. About("construct", c)' = About("construct", c) \cup {AboutConstruct(c)}
            BY <2>2, <3>2
        <3>4. /\ IsFiniteSet(About("construct", c)')
              /\ Cardinality(About("construct", c)') = Cardinality(About("construct", c)) + 1
            <4>1. /\ IsFiniteSet(About("construct", c) \cup {AboutConstruct(c)})
                  /\ Cardinality(About("construct", c) \cup {AboutConstruct(c)}) = Cardinality(About("construct", c)) + 1
                BY <2>1, <3>2, FS_AddElement
            <4> QED
                BY <3>3, <4>1, Zenon
        <3> QED
            BY <2>1, <2>3, <3>1, <3>4
    <2>5. CASE c \notin DimensionsApart(base, variant)
        <3>1. c \in UnionKeys(base.dims, variant.dims) <=> c \in DimensionMatches(base, variant)
            BY <2>5 DEF DimensionsApart, DimensionMatches, UnionKeys, Common
        <3>2. About("construct", c)' = About("construct", c)
            BY <2>2, <2>5, ConstructLines
        <3> QED
            BY <2>1, <2>3, <3>1, <3>2
    <2> QED
        BY <2>4, <2>5
<1> QED
    BY <1>2, <1>3 DEF Balance

\* A comparison lists what its own pair differs in, and forgets nothing.
LEMMA CompareLists ==
    ASSUME IInv, Compare
    PROVE  Listed'
<1> USE DEF IInv
<1>1. base \in Reports /\ variant \in Reports
    BY DEF Progress, Compare
<1>2. PICK n \in Nat : n = Len(pairs)
    BY DEF TypeOK
<1>3. /\ DOMAIN pairs = 1 .. n /\ DOMAIN pairs' = 1 .. n + 1
      /\ \A i \in 1 .. n : pairs'[i] = pairs[i]
      /\ pairs'[n + 1][1] = base /\ pairs'[n + 1][2] = variant
    <2>1. pairs \in Seq(Reports \X Reports) /\ <<base, variant>> \in Reports \X Reports
          /\ pairs' = Append(pairs, <<base, variant>>)
        BY <1>1 DEF TypeOK, Compare
    <2>2. /\ Len(pairs') = n + 1 /\ pairs' \in Seq(Reports \X Reports)
          /\ \A i \in 1 .. n : pairs'[i] = pairs[i]
          /\ pairs'[n + 1] = <<base, variant>>
        BY <1>2, <2>1, AppendProperties
    <2> QED
        BY <1>2, <2>1, <2>2
<1>4. /\ OfClaims' = OfClaims \cup NewOfClaims
      /\ \A c : About("construct", c)' = About("construct", c) \cup NewAbout(c)
    BY CompareLines
<1>5. /\ ClaimsApart(base, variant) # {} => NewOfClaims # {}
      /\ \A c \in DimensionsApart(base, variant) : NewAbout(c) # {}
    BY <1>1, ClaimLines, ConstructLines
<1>6. ASSUME NEW i \in 1 .. n + 1
      PROVE  /\ ClaimsApart(pairs'[i][1], pairs'[i][2]) # {} => OfClaims' # {}
             /\ \A c \in DimensionsApart(pairs'[i][1], pairs'[i][2]) : About("construct", c)' # {}
    <2>1. CASE i \in 1 .. n
        <3>1. /\ ClaimsApart(pairs[i][1], pairs[i][2]) # {} => OfClaims # {}
              /\ \A c \in DimensionsApart(pairs[i][1], pairs[i][2]) : About("construct", c) # {}
            BY <1>3, <2>1 DEF Listed
        <3>2. pairs'[i] = pairs[i]
            BY <1>3, <2>1
        <3> QED
            BY <1>4, <3>1, <3>2
    <2>2. CASE i = n + 1
        BY <1>3, <1>4, <1>5, <2>2
    <2> QED
        BY <2>1, <2>2
<1>7. ASSUME NEW c \in Constructs, About("construct", c)' = {}
      PROVE  dimDeltaSum'[c] <= dimDeltaCount'[c]
    <2>1. About("construct", c) = {} /\ c \notin DimensionsApart(base, variant)
        BY <1>4, <1>5, <1>7
    <2>2. /\ dimDeltaSum[c] <= dimDeltaCount[c]
          /\ dimDeltaSum[c] \in Nat /\ dimDeltaCount[c] \in Nat
        BY <2>1 DEF Listed, TypeOK
    <2>3. /\ dimDeltaCount'[c] = IF c \in BothNumeric THEN dimDeltaCount[c] + 1 ELSE dimDeltaCount[c]
          /\ dimDeltaSum'[c] = dimDeltaSum[c] +
                IF c \in BothNumeric THEN Magnitude(base.dims[c].value - variant.dims[c].value) ELSE 0
        BY DEF Compare, Counted
    <2>4. CASE c \in BothNumeric
        <3> DEFINE delta == Magnitude(base.dims[c].value - variant.dims[c].value)
        <3>1. base.dims[c].value \in Int /\ variant.dims[c].value \in Int
            BY <1>1, <2>4, ReliabilityAssumption DEF BothNumeric, Common, Numeric, Dimension
        <3>2. delta \in Nat
            BY <3>1 DEF Magnitude
        <3>3. ~(delta > 1)
            BY <2>1, <2>4 DEF BothNumeric, Common, DimensionsApart, UnionKeys, DimDiffers
        <3> HIDE DEF delta
        <3>4. dimDeltaCount'[c] = dimDeltaCount[c] + 1 /\ dimDeltaSum'[c] = dimDeltaSum[c] + delta
            BY <2>3, <2>4 DEF delta
        <3> QED
            BY <2>2, <3>2, <3>3, <3>4
    <2>5. CASE c \notin BothNumeric
        BY <2>2, <2>3, <2>5
    <2> QED
        BY <2>4, <2>5
<1> QED
    BY <1>3, <1>6, <1>7 DEF Listed

LEMMA SpecInv == Spec => []IInv
<1>1. IInv /\ [Next]_vars => IInv'
    <2>1. IInv /\ Compare => IInv'
        BY CompareKeepsTypes, CompareBalances, CompareLists, CompareCharges DEF IInv
    <2> QED
        BY <2>1, OtherSteps DEF Next
<1> QED
    BY <1>1, InitInv, PTL DEF Spec

-----------------------------------------------------------------------------
(* What follows *)

\* The audit keeps its types for any probes and reports; in particular no count
\* and no sum of deltas is ever negative (reliability.go 64-135).
THEOREM ReliabilityTypes == Spec => []TypeOK
BY SpecInv, PTL DEF IInv

\* What the loop does not count as an agreement is listed as a disagreement, one
\* line for each claim and each construct (reliability.go 96-129 against
\* disagreement.go 31-75).
THEOREM AccountsAgree == Spec => []BooksBalance
<1>1. IInv => BooksBalance
    <2> SUFFICES ASSUME IInv PROVE BooksBalance
        OBVIOUS
    <2>1. totalPairs = Len(pairs) /\ (pc = "sealed" => Len(pairs) = Len(probes))
        <3>1. Len(probes) \in Nat
            BY ReliabilityAssumption DEF IInv, TypeOK
        <3> QED
            BY <3>1 DEF IInv, Progress
    <2> QED
        BY <2>1 DEF BooksBalance, IInv, Balance, OfClaims
<1> QED
    BY <1>1, SpecInv, PTL

\* When all that was counted agrees, nothing differs: the reports of each pair
\* judge the same claims alike, a construct is in both or in neither, and its
\* mean delta is within the tolerance (disagreement.go 12-13).
THEOREM AgreementIsIdentity == Spec => []FullAgreementIsIdentity
<1>1. IInv => FullAgreementIsIdentity
    <2> SUFFICES ASSUME IInv PROVE FullAgreementIsIdentity
        OBVIOUS
    <2>1. ASSUME NEW i \in DOMAIN pairs
          PROVE  pairs[i][1] \in Reports /\ pairs[i][2] \in Reports
        <3>1. pairs[i] \in Reports \X Reports
            BY DEF IInv, TypeOK
        <3> QED
            BY <3>1
    <2>2. ASSUME claimMatches = claimTotal, NEW i \in DOMAIN pairs
          PROVE  pairs[i][1].claims = pairs[i][2].claims
        <3>1. claimTotal - claimMatches = 0
            BY <2>2 DEF IInv, TypeOK
        <3>2. OfClaims = {}
            BY <3>1, FS_EmptySet DEF IInv, Balance
        <3>3. ClaimsApart(pairs[i][1], pairs[i][2]) = {}
            BY <3>2 DEF IInv, Listed
        <3> QED
            BY <2>1, <3>3, SameClaims
    <2>3. ASSUME NEW c \in Constructs, dimMatches[c] = dimTotal[c]
          PROVE  /\ \A i \in DOMAIN pairs : c \in DOMAIN pairs[i][1].dims <=> c \in DOMAIN pairs[i][2].dims
                 /\ dimDeltaSum[c] <= dimDeltaCount[c]
        <3>1. dimTotal[c] - dimMatches[c] = 0
            BY <2>3 DEF IInv, TypeOK
        <3>2. About("construct", c) = {}
            BY <3>1, FS_EmptySet DEF IInv, Balance
        <3>3. \A i \in DOMAIN pairs : c \notin DimensionsApart(pairs[i][1], pairs[i][2])
            BY <3>2 DEF IInv, Listed
        <3>4. dimDeltaSum[c] <= dimDeltaCount[c]
            BY <3>2 DEF IInv, Listed
        <3> QED
            BY <3>3, <3>4 DEF DimensionsApart, UnionKeys, Common
    <2> QED
        BY <2>2, <2>3 DEF FullAgreementIsIdentity
<1> QED
    BY <1>1, SpecInv, PTL

\* Reports of different length are apart in what one of them lacks at least.
LEMMA ApartByLength ==
    ASSUME NEW x \in Reports, NEW y \in Reports
    PROVE  Cardinality(ClaimsApart(x, y))
             >= Magnitude(Cardinality(DOMAIN x.claims) - Cardinality(DOMAIN y.claims))
<1> DEFINE X == DOMAIN x.claims
           Y == DOMAIN y.claims
           M == ClaimMatches(x, y)
           U == UnionKeys(x.claims, y.claims)
<1>1. IsFiniteSet(X) /\ IsFiniteSet(Y)
    BY ReliabilityAssumption
<1>2. X \subseteq U /\ Y \subseteq U /\ M \subseteq X /\ M \subseteq Y /\ U = X \cup Y
    BY DEF ClaimMatches, Common, UnionKeys
<1>3. ClaimTotal(x, y) = Cardinality(U)
    BY DEF ClaimTotal
<1>4. /\ Cardinality(U) = Cardinality(M) + Cardinality(ClaimsApart(x, y))
      /\ Cardinality(M) \in Nat /\ Cardinality(U) \in Nat /\ Cardinality(ClaimsApart(x, y)) \in Nat
    BY <1>3, ClaimCounts
<1> HIDE DEF X, Y, M, U
<1>5. IsFiniteSet(U)
    BY <1>1, <1>2, FS_Union
<1>6. /\ Cardinality(X) <= Cardinality(U) /\ Cardinality(Y) <= Cardinality(U)
      /\ Cardinality(M) <= Cardinality(X) /\ Cardinality(M) <= Cardinality(Y)
      /\ Cardinality(X) \in Nat /\ Cardinality(Y) \in Nat
    BY <1>1, <1>2, <1>5, FS_Subset, FS_CardinalityType
<1>7. Cardinality(ClaimsApart(x, y)) >= Magnitude(Cardinality(X) - Cardinality(Y))
    BY <1>4, <1>6 DEF Magnitude
<1> QED
    BY <1>7 DEF X, Y

\* Whatever the reports say and however their claims are numbered, a pair is
\* charged with every claim that one of its reports lacks in number
\* (reliability.go 104-111, disagreement.go 54-75).
THEOREM LeavingOutIsCharged == Spec => []OmissionsAreCharged
<1>1. IInv => OmissionsAreCharged
    BY ApartByLength DEF IInv, Charged, OmissionsAreCharged
<1> QED
    BY <1>1, SpecInv, PTL

=============================================================================
