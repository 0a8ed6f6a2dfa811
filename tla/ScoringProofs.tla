--------------------------- MODULE ScoringProofs ---------------------------
(***************************************************************************)
(* What holds of every contract, evidence set and answer, of any size: a   *)
(* fraction is a proportion when the contract's label lists make it one,   *)
(* a sealed report cites only admitted evidence, has a result for each     *)
(* construct, and is refused for a cause only.                             *)
(***************************************************************************)
EXTENDS Scoring, FiniteSetTheorems, FunctionTheorems, TLAPS

-----------------------------------------------------------------------------
(* Counting *)

\* A list without repetitions counts every verdict it matches once
\* (claimjudge.go:450-456, spec/validate.go:187-204).
LEMMA CountOnce ==
    ASSUME NEW list \in Seq(STRING), IsInjective(list),
           NEW verdicts \in Seq([label : STRING, evidence : Seq(STRING)])
    PROVE  LET matched == {i \in DOMAIN verdicts : verdicts[i].label \in Range(list)}
           IN  /\ IsFiniteSet(matched)
               /\ CountLabels(list, verdicts) = Cardinality(matched)
<1> DEFINE matched == {i \in DOMAIN verdicts : verdicts[i].label \in Range(list)}
           pairs == {x \in (DOMAIN list) \X (DOMAIN verdicts) : list[x[1]] = verdicts[x[2]].label}
           second == [x \in pairs |-> x[2]]
<1>1. IsFiniteSet(matched)
  <2>1. IsFiniteSet(1..Len(verdicts))
    BY FS_Interval
  <2>2. matched \subseteq 1..Len(verdicts)
    OBVIOUS
  <2> QED
    BY <2>1, <2>2, FS_Subset
<1>2. second \in Bijection(pairs, matched)
  <2>1. second \in [pairs -> matched]
    BY DEF Range
  <2>2. \A x, y \in pairs : second[x] = second[y] => x = y
    BY DEF IsInjective
  <2>3. \A i \in matched : \E x \in pairs : second[x] = i
    <3> TAKE i \in matched
    <3>1. PICK p \in DOMAIN list : list[p] = verdicts[i].label
      BY DEF Range
    <3>2. <<p, i>> \in pairs /\ second[<<p, i>>] = i
      BY <3>1
    <3> QED
      BY <3>2
  <2> QED
    BY <2>1, <2>2, <2>3 DEF Bijection, Injection, Surjection, IsInjective
<1>3. Cardinality(pairs) = Cardinality(matched)
  <2> HIDE DEF pairs, matched, second
  <2>1. ExistsBijection(pairs, matched)
    BY <1>2 DEF ExistsBijection
  <2>2. ExistsBijection(matched, pairs)
    BY <2>1, Fun_ExistsBijSymmetric
  <2> QED
    BY <1>1, <2>2, FS_Bijection
<1> QED
  BY <1>1, <1>3 DEF CountLabels

\* A proportion does not exceed one.
LEMMA Proportion ==
    ASSUME NEW num \in Seq(STRING), IsInjective(num),
           NEW den \in Seq(STRING), IsInjective(den),
           Range(num) \subseteq Range(den),
           NEW verdicts \in Seq([label : STRING, evidence : Seq(STRING)]),
           \E i \in DOMAIN verdicts : verdicts[i].label \in Range(den)
    PROVE  /\ CountLabels(num, verdicts) \in Nat /\ CountLabels(den, verdicts) \in Nat
           /\ CountLabels(num, verdicts) <= CountLabels(den, verdicts)
           /\ CountLabels(den, verdicts) # 0
<1> DEFINE matched(list) == {i \in DOMAIN verdicts : verdicts[i].label \in Range(list)}
<1>1. IsFiniteSet(matched(num)) /\ CountLabels(num, verdicts) = Cardinality(matched(num))
  BY CountOnce
<1>2. IsFiniteSet(matched(den)) /\ CountLabels(den, verdicts) = Cardinality(matched(den))
  BY CountOnce
<1>3. matched(num) \subseteq matched(den) /\ matched(den) # {}
  OBVIOUS
<1> HIDE DEF matched
<1>4. Cardinality(matched(num)) <= Cardinality(matched(den))
  BY <1>2, <1>3, FS_Subset
<1>5. Cardinality(matched(den)) # 0
  BY <1>2, <1>3, FS_EmptySet
<1> QED
  BY <1>1, <1>2, <1>4, <1>5, FS_CardinalityType

-----------------------------------------------------------------------------
(* The inductive invariant *)

LEMMA CountIsNatural ==
    ASSUME NEW list \in Seq(STRING), NEW verdicts \in Seq([label : STRING, evidence : Seq(STRING)])
    PROVE  CountLabels(list, verdicts) \in Nat
<1>1. IsFiniteSet(1..Len(list)) /\ IsFiniteSet(1..Len(verdicts))
  BY FS_Interval
<1>2. IsFiniteSet((DOMAIN list) \X (DOMAIN verdicts))
  <2>1. DOMAIN list = 1..Len(list) /\ DOMAIN verdicts = 1..Len(verdicts)
    OBVIOUS
  <2>2. IsFiniteSet((1..Len(list)) \X (1..Len(verdicts)))
    BY <1>1, FS_Product
  <2> QED
    BY <2>1, <2>2
<1>3. IsFiniteSet({x \in (DOMAIN list) \X (DOMAIN verdicts) : list[x[1]] = verdicts[x[2]].label})
  BY <1>2, FS_Subset
<1> QED
  BY <1>3, FS_CardinalityType DEF CountLabels

\* Each result is the next construct's, and a fraction construct's is the one
\* that its labels determine.
Results ==
    /\ Len(dimensions) <= Len(contract.order)
    /\ \A i \in DOMAIN dimensions :
        LET id == contract.order[i]
            agg == contract.aggregations[id]
        IN  /\ dimensions[i].construct = id
            /\ agg.method = "fraction" =>
                dimensions[i] = FractionDimension(id, contract.range[id], agg, payload.verdicts)

\* Nothing is judged before the contract and the evidence have passed, nothing
\* is aggregated before an answer is in, and nothing is sealed before the report
\* has passed.
Order ==
    /\ phase \in {"unbound", "judging"} => dimensions = << >> /\ checked = 0
    /\ phase \in {"judging", "aggregating", "sealed"} => ValidContract(contract) /\ ValidEvidencePolicy
    /\ phase \in {"aggregating", "sealed"} => payload \in Payloads
    /\ dimensions # << >> => ValidContract(contract) /\ payload \in Payloads
    /\ phase = "sealed" => ValidReportBody

ScoringInv == TypeOK /\ Results /\ Order

-----------------------------------------------------------------------------
LEMMA InitScoring == Init => ScoringInv
<1> SUFFICES ASSUME Init PROVE ScoringInv
  OBVIOUS
<1> USE ScoringAssumption DEF Init
<1>1. TypeOK
  BY DEF TypeOK
<1>2. Results
  BY DEF Results
<1> QED
  BY <1>1, <1>2 DEF ScoringInv, Order

\* The result of a construct has the type of a dimension result.
LEMMA FractionTyped ==
    ASSUME NEW c \in Contracts, NEW id \in Range(c.order), ValidContract(c), NEW p \in Payloads,
           c.aggregations[id].method = "fraction"
    PROVE  FractionDimension(id, c.range[id], c.aggregations[id], p.verdicts) \in DimensionResult
<1> DEFINE agg == c.aggregations[id]
           num == CountLabels(agg.numerator, p.verdicts)
           den == CountLabels(agg.denominator, p.verdicts)
<1>1. /\ c.order \in Seq(STRING) /\ id \in STRING
      /\ c.range[id] = None \/ c.range[id] \in [minimum : Int, maximum : Int]
      /\ agg.numerator \in Seq(STRING) /\ agg.denominator \in Seq(STRING)
      /\ p.verdicts \in Seq([label : STRING, evidence : Seq(STRING)])
  BY ScoringAssumption DEF ValidContract, Range
<1>2. num \in Nat /\ den \in Nat
  BY <1>1, CountIsNatural
<1>3. \A v \in Value, cited \in SUBSET STRING : Dimension(id, v, cited) \in DimensionResult
  <2> TAKE v \in Value, cited \in SUBSET STRING
  <2> QED
    BY <1>1, Zenon DEF Dimension, DimensionResult
<1>4. EmptyDimension(id, c.range[id], agg.empty) \in DimensionResult
  <2>1. \A n \in Int : Whole(n) \in Value
    BY DEF Whole, Value
  <2>2. None \in Value
    BY DEF Value
  <2>3. [Dimension(id, None, {}) EXCEPT !.applicable = FALSE] \in DimensionResult
    <3>1. Dimension(id, None, {}) \in DimensionResult
      BY <1>3, <2>2
    <3> QED
      BY <3>1 DEF DimensionResult
  <2> QED
    <3> DEFINE range == c.range[id]
    <3>1. c.range[id] = None \/ c.range[id] \in [minimum : Int, maximum : Int]
      BY <1>1
    <3>3. range = None \/ (range.maximum \in Int /\ range.minimum \in Int)
      BY <3>1
    <3>2. {} \in SUBSET STRING
      OBVIOUS
    <3> DEFINE best == IF range = None THEN 1 ELSE range.maximum
               least == IF range = None THEN 0 ELSE range.minimum
    <3>4. best \in Int /\ least \in Int
      BY <3>3
    <3> HIDE DEF best, least
    <3>5. Dimension(id, Whole(best), {}) \in DimensionResult /\ Dimension(id, Whole(least), {}) \in DimensionResult
      BY <1>3, <2>1, <3>2, <3>4
    <3> QED
      BY <2>3, <3>5, Zenon DEF EmptyDimension, best, least
<1>5. UnionEvidenceForLabels(p.verdicts, agg.numerator) \in SUBSET STRING
  <2>1. \A i \in DOMAIN p.verdicts : Range(p.verdicts[i].evidence) \subseteq STRING
    <3> TAKE i \in DOMAIN p.verdicts
    <3> DEFINE verdict == [label : STRING, evidence : Seq(STRING)]
    <3>1. p.verdicts[i] \in verdict
      <4> HIDE DEF verdict
      <4>1. p.verdicts \in Seq(verdict)
        BY ScoringAssumption DEF verdict
      <4> QED
        BY <4>1
    <3>2. p.verdicts[i].evidence \in Seq(STRING)
      BY <3>1
    <3> QED
      BY <3>2 DEF Range
  <2> QED
    BY <2>1 DEF UnionEvidenceForLabels
<1>6. den # 0 => [num |-> num, den |-> den] \in Value
  BY <1>2 DEF Value
<1> QED
  BY <1>3, <1>4, <1>5, <1>6 DEF FractionDimension

LEMMA DirectTyped ==
    ASSUME NEW p \in Payloads, NEW i \in DOMAIN p.dimensions
    PROVE  DirectDimension(p.dimensions[i]) \in DimensionResult
<1> DEFINE direct == [construct : STRING, value : Int \cup {None}, label : STRING \cup {None}, evidence : Seq(STRING)]
<1>0. p.dimensions \in Seq(direct)
  BY ScoringAssumption
<1>1. p.dimensions[i] \in direct
  <2> HIDE DEF direct
  <2> QED
    BY <1>0
<1>2. Range(p.dimensions[i].evidence) \subseteq STRING
  <2>1. p.dimensions[i].evidence \in Seq(STRING)
    BY <1>1
  <2> QED
    BY <2>1 DEF Range
<1>3. \A n \in Int : Whole(n) \in Value
  BY DEF Whole, Value
<1>4. None \in Value
  BY DEF Value
<1> QED
  BY <1>1, <1>2, <1>3, <1>4 DEF DirectDimension, DimensionResult

-----------------------------------------------------------------------------
LEMMA NextScoring == ScoringInv /\ [Next]_vars => ScoringInv'
<1> SUFFICES ASSUME ScoringInv, [Next]_vars PROVE ScoringInv'
  OBVIOUS
<1> USE DEF ScoringInv
<1>1. CASE Bind
  <2> USE <1>1 DEF Bind
  <2>1. TypeOK'
    BY DEF TypeOK
  <2>2. Results'
    BY DEF Results
  <2>3. Order'
    BY DEF Order, ValidEvidencePolicy
  <2> QED BY <2>1, <2>2, <2>3
<1>2. CASE JudgeSupport
  <2> USE <1>2 DEF JudgeSupport
  <2>1. dimensions = << >> /\ checked = 0
    BY DEF Order
  <2>2. TypeOK'
    <3>1. payload'.dimensions \in Seq([construct : STRING, value : Int \cup {None},
                                     label : STRING \cup {None}, evidence : Seq(STRING)])
      BY ScoringAssumption
    <3>2. Len(payload'.dimensions) \in Nat
      BY <3>1
    <3> QED
      BY <2>1, <3>2 DEF TypeOK
  <2>3. Results'
    BY <2>1 DEF Results, TypeOK
  <2>4. Order'
    BY <2>1 DEF Order, ValidEvidencePolicy
  <2> QED BY <2>2, <2>3, <2>4
<1>3. CASE CheckDirect
  <2> USE <1>3 DEF CheckDirect
  <2>1. TypeOK'
    BY DEF TypeOK
  <2>2. Results'
    BY DEF Results
  <2>3. Order'
    BY DEF Order, ValidEvidencePolicy
  <2> QED BY <2>1, <2>2, <2>3
<1>4. CASE AggregateConstruct
  <2> DEFINE id == contract.order[Len(dimensions) + 1]
             agg == contract.aggregations[id]
             fraction == FractionDimension(id, contract.range[id], agg, payload.verdicts)
  <2>1. /\ contract \in Contracts /\ payload \in Payloads /\ ValidContract(contract)
        /\ contract.order \in Seq(STRING) /\ dimensions \in Seq(DimensionResult)
        /\ Len(dimensions) < Len(contract.order)
    BY <1>4, ScoringAssumption DEF AggregateConstruct, TypeOK, Order
  <2>2. id \in Range(contract.order) /\ id \in STRING
    BY <2>1 DEF Range
  <2>3. CASE dimensions' = dimensions
    <3>1. TypeOK'
      BY <1>4, <2>3 DEF AggregateConstruct, TypeOK
    <3>2. Results'
      BY <1>4, <2>3 DEF AggregateConstruct, Results
    <3>3. Order'
      BY <1>4, <2>1, <2>3 DEF AggregateConstruct, Order, ValidEvidencePolicy
    <3> QED BY <3>1, <3>2, <3>3
  <2>4. ASSUME NEW d \in DimensionResult, dimensions' = Append(dimensions, d), UNCHANGED phase,
               d.construct = id, agg.method = "fraction" => d = fraction
        PROVE  ScoringInv'
    <3>1. UNCHANGED <<contract, evidence, payload, checked, phase>> /\ phase = "aggregating"
      BY <1>4, <2>4 DEF AggregateConstruct
    <3>2. /\ Len(dimensions') = Len(dimensions) + 1 /\ dimensions' \in Seq(DimensionResult)
          /\ DOMAIN dimensions' = DOMAIN dimensions \cup {Len(dimensions) + 1}
          /\ \A i \in DOMAIN dimensions : dimensions'[i] = dimensions[i]
          /\ dimensions'[Len(dimensions) + 1] = d
      BY <2>1, <2>4
    <3>3. TypeOK'
      BY <3>1, <3>2 DEF TypeOK
    <3>4. Results'
      BY <2>1, <2>4, <3>1, <3>2 DEF Results
    <3>5. Order'
      BY <2>1, <3>1 DEF Order, ValidEvidencePolicy
    <3> QED BY <3>3, <3>4, <3>5
  <2>5. CASE agg.method = "fraction" /\ dimensions' = Append(dimensions, fraction) /\ UNCHANGED phase
    <3>1. fraction \in DimensionResult
      BY <2>1, <2>2, <2>5, FractionTyped
    <3>2. fraction.construct = id
      BY DEF FractionDimension, EmptyDimension, Dimension
    <3> QED BY <2>4, <2>5, <3>1, <3>2
  <2>6. CASE /\ agg.method = "direct" /\ UNCHANGED phase
             /\ \E e \in Emitted(id) : dimensions' = Append(dimensions, DirectDimension(e))
    <3>1. PICK e \in Emitted(id) : dimensions' = Append(dimensions, DirectDimension(e))
      BY <2>6
    <3>2. PICK i \in 1..checked : e = payload.dimensions[i]
      BY DEF Emitted, Earlier
    <3>3. i \in DOMAIN payload.dimensions
      <4>1. payload.dimensions \in Seq([construct : STRING, value : Int \cup {None},
                                       label : STRING \cup {None}, evidence : Seq(STRING)])
        BY <2>1, ScoringAssumption
      <4> QED
        BY <3>2, <4>1 DEF TypeOK
    <3>4. DirectDimension(e) \in DimensionResult
      BY <2>1, <3>2, <3>3, DirectTyped
    <3>5. DirectDimension(e).construct = id
      BY DEF DirectDimension, Emitted
    <3> QED BY <2>4, <2>6, <3>1, <3>4, <3>5
  <2> QED
    BY <1>4, <2>3, <2>5, <2>6 DEF AggregateConstruct
<1>5. CASE Seal
  <2> USE <1>5 DEF Seal
  <2>1. TypeOK'
    BY DEF TypeOK
  <2>2. Results'
    BY DEF Results
  <2>3. Order'
    BY DEF Order, ValidEvidencePolicy, ValidReportBody, EvidenceIDs, ValidClaimAssessment, ValidDimension
  <2> QED BY <2>1, <2>2, <2>3
<1>6. CASE UNCHANGED vars
  <2> USE <1>6 DEF vars
  <2>1. TypeOK'
    BY DEF TypeOK
  <2>2. Results'
    BY DEF Results
  <2>3. Order'
    BY DEF Order, ValidEvidencePolicy, ValidReportBody, EvidenceIDs, ValidClaimAssessment, ValidDimension
  <2> QED BY <2>1, <2>2, <2>3
<1> QED
  BY <1>1, <1>2, <1>3, <1>4, <1>5, <1>6 DEF Next

\* The variables keep their types, whatever the contracts and the answers.
THEOREM ScoringInvariant == Spec => []ScoringInv
<1> QED
  BY InitScoring, NextScoring, PTL DEF Spec

THEOREM ScoringTypes == Spec => []TypeOK
<1>1. ScoringInv => TypeOK
  BY DEF ScoringInv
<1> QED
  BY <1>1, ScoringInvariant, PTL

\* A fraction is a proportion under every contract whose numerator labels are
\* among its denominator labels (claimjudge.go:404-412): validation rules out
\* the repetitions that would count a claim twice.
THEOREM Proportions == Spec => []FractionsAreProportions
<1>1. ScoringInv => FractionsAreProportions
  <2> SUFFICES ASSUME ScoringInv, NEW i \in DOMAIN dimensions,
                      contract.aggregations[dimensions[i].construct].method = "fraction",
                      Range(contract.aggregations[dimensions[i].construct].numerator)
                        \subseteq Range(contract.aggregations[dimensions[i].construct].denominator),
                      Judged(Range(contract.aggregations[dimensions[i].construct].denominator)) # {}
               PROVE  0 <= dimensions[i].value.num /\ dimensions[i].value.num <= dimensions[i].value.den
    BY DEF FractionsAreProportions
  <2> DEFINE id == contract.order[i]
             agg == contract.aggregations[id]
             num == CountLabels(agg.numerator, payload.verdicts)
             den == CountLabels(agg.denominator, payload.verdicts)
  <2>1. dimensions # << >> /\ dimensions[i].construct = id
        /\ dimensions[i] = FractionDimension(id, contract.range[id], agg, payload.verdicts)
    BY DEF ScoringInv, Results
  <2>2. /\ contract \in Contracts /\ ValidContract(contract) /\ payload \in Payloads
    BY <2>1 DEF ScoringInv, TypeOK, Order
  <2>3. id \in Range(contract.order)
    BY <2>2, ScoringAssumption DEF ScoringInv, TypeOK, Results, Range
  <2>4. /\ agg.numerator \in Seq(STRING) /\ agg.denominator \in Seq(STRING)
        /\ IsInjective(agg.numerator) /\ IsInjective(agg.denominator)
        /\ payload.verdicts \in Seq([label : STRING, evidence : Seq(STRING)])
    BY <2>1, <2>2, <2>3, ScoringAssumption DEF ValidContract, ValidAggregation, ValidLabelList, Proper
  <2>5. num \in Nat /\ den \in Nat /\ num <= den /\ den # 0
    BY <2>1, <2>4, Proportion DEF Judged
  <2>6. dimensions[i].value = [num |-> num, den |-> den]
    BY <2>1, <2>5 DEF FractionDimension, Dimension
  <2> QED
    BY <2>5, <2>6
<1> QED
  BY <1>1, ScoringInvariant, PTL

\* A sealed report cites only evidence that the contract's policy admits: the
\* judge invents none and lets no forbidden kind in (assessment/doc.go:24-25).
THEOREM AdmittedEvidence == Spec => []CitedEvidenceIsAdmitted
<1>1. ScoringInv => CitedEvidenceIsAdmitted
  <2> SUFFICES ASSUME ScoringInv, phase = "sealed",
                      NEW id \in UNION ({Range(payload.verdicts[i].evidence) : i \in DOMAIN payload.verdicts}
                                       \cup {dimensions[i].cited : i \in DOMAIN dimensions})
               PROVE  \E item \in evidence.items :
                        /\ item.id = id
                        /\ item.kind \notin Range(contract.policy.forbidden)
                        /\ contract.policy.allowed = << >> \/ item.kind \in Range(contract.policy.allowed)
                        /\ contract.policy.provenance => item.provenance
    BY DEF CitedEvidenceIsAdmitted
  <2>1. ValidReportBody /\ ValidEvidencePolicy
    BY DEF ScoringInv, Order
  <2>2. id \in EvidenceIDs
    BY <2>1 DEF ValidReportBody, ValidClaimAssessment, ValidDimension
  <2>3. PICK item \in evidence.items : item.id = id
    BY <2>2 DEF EvidenceIDs
  <2>4. AdmitsKind(contract.policy, item)
    BY <2>1 DEF ValidEvidencePolicy
  <2> QED
    BY <2>3, <2>4 DEF AdmitsKind
<1> QED
  BY <1>1, ScoringInvariant, PTL

\* A sealed score above zero that counts no insufficient verdict cites some of
\* its evidence: the verdicts behind the numerator are sealed with theirs
\* (assessment/validate.go:118-120, claimjudge.go:458-476).
THEOREM ScoresHaveEvidence == Spec => []ScoresCiteEvidence
<1>1. ScoringInv => ScoresCiteEvidence
  <2> SUFFICES ASSUME ScoringInv, phase = "sealed", NEW i \in DOMAIN dimensions,
                      contract.aggregations[dimensions[i].construct].method = "fraction",
                      "insufficient" \notin Range(contract.aggregations[dimensions[i].construct].numerator),
                      Judged(Range(contract.aggregations[dimensions[i].construct].numerator)) # {},
                      Judged(Range(contract.aggregations[dimensions[i].construct].denominator)) # {}
               PROVE  dimensions[i].cited # {}
    BY DEF ScoresCiteEvidence
  <2> DEFINE id == contract.order[i]
             agg == contract.aggregations[id]
             den == CountLabels(agg.denominator, payload.verdicts)
             cited == UnionEvidenceForLabels(payload.verdicts, agg.numerator)
  <2>1. /\ dimensions # << >> /\ dimensions[i].construct = id
        /\ dimensions[i] = FractionDimension(id, contract.range[id], agg, payload.verdicts)
    BY DEF ScoringInv, Results
  <2>2. contract \in Contracts /\ ValidContract(contract) /\ payload \in Payloads /\ ValidReportBody
    BY <2>1 DEF ScoringInv, TypeOK, Order
  <2>3. id \in Range(contract.order)
    BY <2>2, ScoringAssumption DEF ScoringInv, TypeOK, Results, Range
  <2>4. /\ agg.numerator \in Seq(STRING)
        /\ agg.denominator \in Seq(STRING) /\ IsInjective(agg.denominator)
        /\ payload.verdicts \in Seq([label : STRING, evidence : Seq(STRING)])
    BY <2>1, <2>2, <2>3, ScoringAssumption DEF ValidContract, ValidAggregation, ValidLabelList, Proper
  <2>5. den # 0
    <3> DEFINE matched == {k \in DOMAIN payload.verdicts : payload.verdicts[k].label \in Range(agg.denominator)}
    <3>1. IsFiniteSet(matched) /\ den = Cardinality(matched)
      BY <2>4, CountOnce
    <3>2. matched # {}
      BY <2>1 DEF Judged
    <3> QED
      BY <3>1, <3>2, FS_EmptySet
  <2>6. dimensions[i].cited = cited
    BY <2>1, <2>5 DEF FractionDimension, Dimension
  <2>7. PICK k \in DOMAIN payload.verdicts : payload.verdicts[k].label \in Range(agg.numerator)
    BY <2>1 DEF Judged
  <2>8. payload.verdicts[k].evidence # << >>
    BY <2>1, <2>2, <2>7 DEF ValidReportBody, ValidClaimAssessment
  <2>9. payload.verdicts[k].evidence \in Seq(STRING)
    <3> DEFINE verdict == [label : STRING, evidence : Seq(STRING)]
    <3>1. payload.verdicts[k] \in verdict
      <4> HIDE DEF verdict
      <4>1. payload.verdicts \in Seq(verdict)
        BY <2>4 DEF verdict
      <4> QED
        BY <2>7, <4>1
    <3> QED
      BY <3>1
  <2>10. Range(payload.verdicts[k].evidence) # {}
    <3> DEFINE evs == payload.verdicts[k].evidence
    <3>1. evs \in Seq(STRING) /\ evs # << >>
      BY <2>8, <2>9
    <3> HIDE DEF evs
    <3>2. evs[1] \in Range(evs)
      BY <3>1 DEF Range
    <3> QED
      BY <3>2 DEF evs
  <2> QED
    BY <2>6, <2>7, <2>10 DEF UnionEvidenceForLabels
<1> QED
  BY <1>1, ScoringInvariant, PTL

-----------------------------------------------------------------------------
(* The judge's own dimensions, and what a run is refused for *)

\* What aggregate accepts of a direct dimension, whatever came before it.
Fits(d) ==
    /\ d.construct \in Range(contract.order)
    /\ contract.aggregations[d.construct].method = "direct"
    /\ ValidDirectDimension(d, contract.range[d.construct], LabelsOf(contract, d.construct))

\* The dimensions that were checked fit and are about different constructs; a
\* result is by a supported method, and a direct one is the judge's.
Directs ==
    /\ \A i \in 1..checked : Fits(payload.dimensions[i])
    /\ \A i, k \in 1..checked :
        payload.dimensions[i].construct = payload.dimensions[k].construct => i = k
    /\ dimensions # << >> => checked = Len(payload.dimensions)
    /\ \A i \in DOMAIN dimensions :
        LET id == contract.order[i] IN
        \/ contract.aggregations[id].method = "fraction"
        \/ /\ contract.aggregations[id].method = "direct"
           /\ \E k \in 1..checked : /\ payload.dimensions[k].construct = id
                                    /\ dimensions[i] = DirectDimension(payload.dimensions[k])
    /\ phase = "sealed" => checked = Len(payload.dimensions) /\ Len(dimensions) = Len(contract.order)

DirectInv == ScoringInv /\ Directs /\ RefusalsAreJustified

\* The inputs of a run that has begun to aggregate.
LEMMA Inputs ==
    ASSUME ScoringInv, phase \in {"aggregating", "sealed"}
    PROVE  /\ contract \in Contracts /\ payload \in Payloads /\ ValidContract(contract)
           /\ contract.order \in Seq(STRING) /\ dimensions \in Seq(DimensionResult)
           /\ payload.dimensions \in Seq([construct : STRING, value : Int \cup {None},
                                          label : STRING \cup {None}, evidence : Seq(STRING)])
           /\ Len(payload.dimensions) \in Nat /\ DOMAIN payload.dimensions = 1..Len(payload.dimensions)
           /\ checked \in 0..Len(payload.dimensions)
<1>1. /\ contract \in Contracts /\ payload \in Payloads /\ ValidContract(contract)
      /\ contract.order \in Seq(STRING) /\ dimensions \in Seq(DimensionResult)
      /\ checked \in 0..Len(payload.dimensions)
  BY ScoringAssumption DEF ScoringInv, TypeOK, Order
<1> DEFINE direct == [construct : STRING, value : Int \cup {None},
                      label : STRING \cup {None}, evidence : Seq(STRING)]
<1>2. payload.dimensions \in Seq(direct)
  BY <1>1, ScoringAssumption
<1> HIDE DEF direct
<1>3. Len(payload.dimensions) \in Nat /\ DOMAIN payload.dimensions = 1..Len(payload.dimensions)
  BY <1>2
<1> QED
  BY <1>1, <1>2, <1>3 DEF direct

\* A report that does not pass has a verdict that does not, or a dimension of
\* the judge's own.
LEMMA BadBody ==
    ASSUME ScoringInv, Directs, phase = "aggregating", ~ValidReportBody
    PROVE  \/ \E i \in DOMAIN payload.verdicts : ~ValidClaimAssessment(payload.verdicts[i])
           \/ \E i \in DOMAIN payload.dimensions :
                LET d == payload.dimensions[i] IN
                ~Proper(d.evidence) \/ ~(Range(d.evidence) \subseteq EvidenceIDs)
<1>1. SUFFICES ASSUME \A i \in DOMAIN payload.verdicts : ValidClaimAssessment(payload.verdicts[i]),
                      NEW i \in DOMAIN dimensions, ~ValidDimension(dimensions[i])
               PROVE  \E k \in DOMAIN payload.dimensions :
                        LET d == payload.dimensions[k] IN
                        ~Proper(d.evidence) \/ ~(Range(d.evidence) \subseteq EvidenceIDs)
  <2>1. \A i, k \in DOMAIN dimensions : dimensions[i].construct = dimensions[k].construct => i = k
    <3>1. \A i \in DOMAIN dimensions : i \in DOMAIN contract.order /\ dimensions[i].construct = contract.order[i]
      BY Inputs DEF ScoringInv, Results
    <3> QED
      BY <3>1, Inputs DEF ValidContract, IsInjective
  <2> QED
    BY <2>1 DEF ValidReportBody
<1> DEFINE id == contract.order[i]
           agg == contract.aggregations[id]
<1>2. CASE agg.method = "fraction"
  <2>1. dimensions[i] = FractionDimension(id, contract.range[id], agg, payload.verdicts)
    BY <1>1, <1>2 DEF ScoringInv, Results
  <2>2. UnionEvidenceForLabels(payload.verdicts, agg.numerator) \subseteq EvidenceIDs
    BY <1>1 DEF UnionEvidenceForLabels, ValidClaimAssessment
  <2>3. ValidDimension(dimensions[i])
    BY <2>1, <2>2 DEF FractionDimension, EmptyDimension, Dimension, ValidDimension
  <2> QED
    BY <1>1, <2>3
<1>3. CASE agg.method = "direct"
  <2>1. PICK k \in 1..checked : dimensions[i] = DirectDimension(payload.dimensions[k])
    BY <1>1, <1>3 DEF Directs
  <2>2. k \in DOMAIN payload.dimensions
    BY Inputs
  <2> QED
    <3> DEFINE d == payload.dimensions[k]
    <3>1. /\ DirectDimension(d).applicable /\ DirectDimension(d).cited = Range(d.evidence)
          /\ DirectDimension(d).repeats = ~Proper(d.evidence)
      BY DEF DirectDimension
    <3>2. ~ValidDimension(DirectDimension(d))
      BY <1>1, <2>1
    <3> HIDE DEF d
    <3>3. ~Proper(d.evidence) \/ ~(Range(d.evidence) \subseteq EvidenceIDs)
      BY <3>1, <3>2, Zenon DEF ValidDimension
    <3> QED
      BY <2>2, <3>3 DEF d
<1> QED
  BY <1>1, <1>2, <1>3 DEF Directs

LEMMA NextDirect == DirectInv /\ [Next]_vars => DirectInv'
<1> SUFFICES ASSUME DirectInv, [Next]_vars PROVE Directs' /\ RefusalsAreJustified'
  BY NextScoring DEF DirectInv
<1> USE DEF DirectInv
<1>1. CASE Bind
  <2>1. Directs'
    BY <1>1 DEF Bind, Directs, Fits
  <2>2. RefusalsAreJustified'
    BY <1>1 DEF Bind, RefusalsAreJustified, ValidEvidencePolicy
  <2> QED BY <2>1, <2>2
<1>2. CASE JudgeSupport
  <2>1. dimensions = << >> /\ dimensions' = << >> /\ checked' = 0 /\ phase' = "aggregating"
    BY <1>2 DEF JudgeSupport, ScoringInv, Order
  <2> QED
    BY <2>1 DEF Directs, RefusalsAreJustified
<1>3. CASE CheckDirect
  <2> DEFINE d == payload.dimensions[checked + 1]
  <2>1. /\ phase = "aggregating" /\ dimensions = << >>
        /\ UNCHANGED <<contract, evidence, payload, dimensions>>
        /\ checked + 1 \in DOMAIN payload.dimensions /\ checked \in Nat
    BY <1>3, Inputs DEF CheckDirect, Directs
  <2>2. CASE AcceptsDirect(d) /\ checked' = checked + 1 /\ phase' = phase
    <3>1. \A i \in 1..checked' : i \in 1..checked \/ i = checked + 1
      BY <2>1, <2>2
    <3>2. Fits(d) /\ \A i \in 1..checked : payload.dimensions[i].construct # d.construct
      BY <2>2 DEF AcceptsDirect, Fits, Emitted, Earlier
    <3>3. \A i \in 1..checked' : Fits(payload.dimensions[i])
      BY <3>1, <3>2 DEF Directs
    <3>4. \A i, k \in 1..checked' :
            payload.dimensions[i].construct = payload.dimensions[k].construct => i = k
      BY <3>1, <3>2 DEF Directs
    <3> QED
      BY <2>1, <2>2, <3>3, <3>4 DEF Directs, Fits, RefusalsAreJustified
  <2>3. CASE ~AcceptsDirect(d) /\ phase' = "refused" /\ checked' = checked
    <3>1. Directs'
      BY <2>1, <2>3 DEF Directs, Fits
    <3>2. \/ d.construct \notin {id \in Range(contract.order) : contract.aggregations[id].method = "direct"}
          \/ ~ValidDirectDimension(d, contract.range[d.construct], LabelsOf(contract, d.construct))
          \/ \E k \in 1..checked : payload.dimensions[k].construct = d.construct
      BY <2>3 DEF AcceptsDirect, Emitted, Earlier
    <3>3. \A k \in 1..checked : k \in DOMAIN payload.dimensions /\ k # checked + 1
      BY <2>1, Inputs
    <3> QED
      BY <2>1, <3>1, <3>2, <3>3 DEF RefusalsAreJustified
  <2> QED
    BY <1>3, <2>2, <2>3 DEF CheckDirect
<1>4. CASE AggregateConstruct
  <2> DEFINE id == contract.order[Len(dimensions) + 1]
             agg == contract.aggregations[id]
  <2>1. /\ phase = "aggregating" /\ checked = Len(payload.dimensions)
        /\ Len(dimensions) < Len(contract.order) /\ Len(dimensions) \in Nat
        /\ UNCHANGED <<contract, evidence, payload, checked>>
        /\ DOMAIN dimensions = 1..Len(dimensions)
    BY <1>4, Inputs DEF AggregateConstruct
  <2>2. id \in Range(contract.order)
    BY <2>1, Inputs DEF Range
  <2>3. ASSUME NEW r, dimensions' = Append(dimensions, r), phase' = phase,
               \/ agg.method = "fraction"
               \/ /\ agg.method = "direct"
                  /\ \E k \in 1..checked : /\ payload.dimensions[k].construct = id
                                           /\ r = DirectDimension(payload.dimensions[k])
        PROVE  Directs' /\ RefusalsAreJustified'
    <3>1. /\ \A i \in DOMAIN dimensions' : i \in DOMAIN dimensions \/ i = Len(dimensions) + 1
          /\ \A i \in DOMAIN dimensions : dimensions'[i] = dimensions[i]
          /\ dimensions'[Len(dimensions) + 1] = r
      BY <2>1, <2>3, Inputs
    <3> HIDE DEF id, agg
    <3>2. \A i \in DOMAIN dimensions' :
            LET name == contract.order[i] IN
            \/ contract.aggregations[name].method = "fraction"
            \/ /\ contract.aggregations[name].method = "direct"
               /\ \E k \in 1..checked : /\ payload.dimensions[k].construct = name
                                        /\ dimensions'[i] = DirectDimension(payload.dimensions[k])
      BY <2>3, <3>1 DEF Directs, id, agg
    <3> QED
      BY <2>1, <2>3, <3>2 DEF Directs, Fits, RefusalsAreJustified
  <2>4. CASE agg.method = "direct" /\ Emitted(id) # {}
    <3>1. PICK e \in Emitted(id) : dimensions' = Append(dimensions, DirectDimension(e)) /\ phase' = phase
      BY <1>4, <2>4 DEF AggregateConstruct
    <3>2. PICK k \in 1..checked : e = payload.dimensions[k] /\ e.construct = id
      BY <3>1 DEF Emitted, Earlier
    <3> QED
      BY <2>3, <2>4, <3>1, <3>2
  <2>5. CASE agg.method = "fraction"
    BY <1>4, <2>3, <2>5 DEF AggregateConstruct
  <2>6. CASE agg.method # "fraction" /\ (agg.method = "direct" => Emitted(id) = {})
    <3>1. phase' = "refused" /\ dimensions' = dimensions
      BY <1>4, <2>6 DEF AggregateConstruct
    <3>2. Directs'
      BY <2>1, <3>1 DEF Directs, Fits
    <3>3. agg.method = "direct" => \A i \in DOMAIN payload.dimensions : payload.dimensions[i].construct # id
      BY <2>1, <2>6, Inputs DEF Emitted, Earlier
    <3>4. RefusalsAreJustified'
      BY <2>1, <2>2, <2>6, <3>3 DEF RefusalsAreJustified
    <3> QED BY <3>2, <3>4
  <2> QED
    BY <2>4, <2>5, <2>6
<1>5. CASE Seal
  <2>1. /\ phase = "aggregating" /\ checked = Len(payload.dimensions)
        /\ Len(dimensions) = Len(contract.order)
        /\ UNCHANGED <<contract, evidence, payload, checked, dimensions>>
    BY <1>5 DEF Seal
  <2>2. Directs'
    BY <2>1 DEF Directs, Fits
  <2>3. phase' = "refused" => ~ValidReportBody
    BY <1>5 DEF Seal
  <2>4. RefusalsAreJustified'
    BY <2>1, <2>3, BadBody DEF RefusalsAreJustified, ValidClaimAssessment, EvidenceIDs
  <2> QED BY <2>2, <2>4
<1>6. CASE UNCHANGED vars
  <2>1. UNCHANGED <<contract, evidence, payload, phase, checked, dimensions>>
    BY <1>6 DEF vars
  <2>2. Directs'
    BY <2>1 DEF Directs, Fits
  <2>3. UNCHANGED ValidEvidencePolicy /\ UNCHANGED EvidenceIDs
    BY <2>1 DEF ValidEvidencePolicy, EvidenceIDs
  <2>4. \A v : ValidClaimAssessment(v)' = ValidClaimAssessment(v)
    BY <2>3 DEF ValidClaimAssessment
  <2>5. RefusalsAreJustified'
    BY <2>1, <2>3, <2>4, ZenonT(40) DEF RefusalsAreJustified
  <2> QED BY <2>2, <2>5
<1> QED
  BY <1>1, <1>2, <1>3, <1>4, <1>5, <1>6 DEF Next

LEMMA SpecDirect == Spec => []DirectInv
<1>1. Init => DirectInv
  <2>1. ASSUME Init PROVE Directs /\ RefusalsAreJustified
    BY <2>1 DEF Init, Directs, RefusalsAreJustified
  <2> QED
    BY <2>1, InitScoring DEF DirectInv
<1> QED
  BY <1>1, NextDirect, PTL DEF Spec

\* No run is refused without a defect of the contract, the evidence or the
\* answer that its holder can be shown.
THEOREM RefusalsHaveCause == Spec => []RefusalsAreJustified
<1>1. DirectInv => RefusalsAreJustified
  BY DEF DirectInv
<1> QED
  BY <1>1, SpecDirect, PTL

\* A sealed report says of every construct what its contract asks for, and
\* loses nothing the judge said (claimjudge.go:346-424).
THEOREM ReportMeetsContract == Spec => []DimensionsMeetContract
<1>1. DirectInv => DimensionsMeetContract
  <2> SUFFICES ASSUME DirectInv, phase = "sealed" PROVE DimensionsMeetContract
    BY DEF DimensionsMeetContract
  <2> USE DEF DirectInv
  <2>1. /\ checked = Len(payload.dimensions) /\ Len(dimensions) = Len(contract.order)
        /\ DOMAIN dimensions = 1..Len(contract.order)
        /\ contract.order = [i \in 1..Len(contract.order) |-> contract.order[i]]
        /\ DOMAIN payload.dimensions = 1..checked
    <3>1. checked = Len(payload.dimensions) /\ Len(dimensions) = Len(contract.order)
      BY DEF Directs
    <3>2. /\ contract.order \in Seq(STRING) /\ dimensions \in Seq(DimensionResult)
          /\ DOMAIN payload.dimensions = 1..Len(payload.dimensions)
      BY Inputs
    <3>3. DOMAIN dimensions = 1..Len(dimensions)
      BY <3>2
    <3>4. contract.order = [i \in 1..Len(contract.order) |-> contract.order[i]]
      BY <3>2
    <3> QED
      BY <3>1, <3>2, <3>3, <3>4
  <2>2. \A i \in DOMAIN dimensions : dimensions[i].construct = contract.order[i]
    BY DEF ScoringInv, Results
  <2>3. [i \in DOMAIN dimensions |-> dimensions[i].construct] = contract.order
    BY <2>1, <2>2
  <2>4. ASSUME NEW i \in DOMAIN dimensions,
               contract.aggregations[dimensions[i].construct].method = "fraction",
               Judged(Range(contract.aggregations[dimensions[i].construct].denominator)) # {}
        PROVE  dimensions[i].value =
                 [num |-> Cardinality(Judged(Range(contract.aggregations[dimensions[i].construct].numerator))),
                  den |-> Cardinality(Judged(Range(contract.aggregations[dimensions[i].construct].denominator)))]
    <3> DEFINE id == contract.order[i]
               agg == contract.aggregations[id]
               num == CountLabels(agg.numerator, payload.verdicts)
               den == CountLabels(agg.denominator, payload.verdicts)
    <3>1. dimensions[i] = FractionDimension(id, contract.range[id], agg, payload.verdicts)
      BY <2>2, <2>4 DEF ScoringInv, Results
    <3>2. id \in Range(contract.order)
      BY <2>1 DEF Range
    <3>3. /\ agg.numerator \in Seq(STRING) /\ agg.denominator \in Seq(STRING)
          /\ IsInjective(agg.numerator) /\ IsInjective(agg.denominator)
          /\ payload.verdicts \in Seq([label : STRING, evidence : Seq(STRING)])
      BY <2>2, <2>4, <3>2, Inputs, ScoringAssumption DEF ValidContract, ValidAggregation, ValidLabelList, Proper
    <3>4. /\ IsFiniteSet(Judged(Range(agg.numerator))) /\ num = Cardinality(Judged(Range(agg.numerator)))
          /\ IsFiniteSet(Judged(Range(agg.denominator))) /\ den = Cardinality(Judged(Range(agg.denominator)))
      BY <3>3, CountOnce DEF Judged
    <3>5. den # 0
      BY <2>2, <2>4, <3>4, FS_EmptySet
    <3>6. dimensions[i].value = [num |-> num, den |-> den]
      BY <3>1, <3>5 DEF FractionDimension, Dimension
    <3> QED
      BY <2>2, <3>4, <3>6
  <2>5. ASSUME NEW i \in DOMAIN dimensions,
               contract.aggregations[dimensions[i].construct].method = "direct"
        PROVE  LET d == dimensions[i]
                   range == contract.range[d.construct]
                   labels == LabelsOf(contract, d.construct)
               IN  /\ range # None => InRange(d.value.num, range)
                   /\ labels # << >> => d.label \in Range(labels)
    <3>1. PICK k \in 1..checked : /\ payload.dimensions[k].construct = contract.order[i]
                                  /\ dimensions[i] = DirectDimension(payload.dimensions[k])
      BY <2>2, <2>5 DEF Directs
    <3>2. ValidDirectDimension(payload.dimensions[k], contract.range[dimensions[i].construct],
                               LabelsOf(contract, dimensions[i].construct))
      BY <2>2, <3>1 DEF Directs, Fits
    <3> QED
      BY <3>1, <3>2 DEF ValidDirectDimension, DirectDimension, Whole
  <2>6. ASSUME NEW k \in DOMAIN payload.dimensions
        PROVE  \E i \in DOMAIN dimensions : dimensions[i] = DirectDimension(payload.dimensions[k])
    <3>1. k \in 1..checked /\ Fits(payload.dimensions[k])
      BY <2>1 DEF Directs
    <3>2. PICK i \in DOMAIN contract.order : contract.order[i] = payload.dimensions[k].construct
      BY <3>1 DEF Fits, Range
    <3>3. i \in DOMAIN dimensions
      BY <2>1
    <3>4. contract.aggregations[contract.order[i]].method = "direct"
      BY <3>1, <3>2 DEF Fits
    <3>5. PICK n \in 1..checked : /\ payload.dimensions[n].construct = contract.order[i]
                                  /\ dimensions[i] = DirectDimension(payload.dimensions[n])
      BY <3>3, <3>4 DEF Directs
    <3>6. n = k
      BY <3>1, <3>2, <3>5 DEF Directs
    <3> QED
      BY <3>3, <3>5, <3>6
  <2> QED
    BY <2>3, <2>4, <2>5, <2>6 DEF DimensionsMeetContract
<1> QED
  BY <1>1, SpecDirect, PTL

=============================================================================
