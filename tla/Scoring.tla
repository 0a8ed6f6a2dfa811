------------------------------ MODULE Scoring ------------------------------
(***************************************************************************)
(* From a measurement contract to a sealed report: the contract and the    *)
(* evidence are validated before anything is generated, the judged claims  *)
(* and the judge's direct dimensions are aggregated construct by construct *)
(* (judging/claimjudge.go), and the assembled report is validated and      *)
(* sealed (assessment/validate.go).                                        *)
(*                                                                         *)
(* Data.  A comma-separated label list is the sequence of its trimmed      *)
(* parts, the blank string for a blank part.  A number is a pair of        *)
(* integers num/den, so that the float division of aggregateConstruct is   *)
(* exact; direct values and range bounds are whole numbers.  Digests equal *)
(* exactly when their contents do, so an evidence set carries its policy.  *)
(* Names, definitions, reasons, confidences and digest prefixes are taken  *)
(* to be in order: they are independent of the control modelled here.      *)
(***************************************************************************)
EXTENDS Integers, Sequences, FiniteSets, Functions

CONSTANTS
    Contracts,      \* measurement contracts
    EvidenceSets,   \* [policy, items], the items with distinct ids
    Payloads,       \* [verdicts, dimensions], what a support answer says
    None            \* an absent range, value or label

VARIABLES
    contract, evidence, payload,    \* the inputs of the run
    phase,      \* "unbound", "judging", "aggregating", "sealed", "refused"
    checked,    \* how many direct dimensions of the payload have been checked
    dimensions  \* the dimension results, in the contract's order

vars == <<contract, evidence, payload, phase, checked, dimensions>>

SupportLabels == {"entailed", "contradicted", "insufficient"}
Methods == {"fraction", "mean", "sum", "count", "label", "direct"}
EmptyPolicies == {"vacuous_perfect", "zero", "na"}

\* Assumed of the inputs: what their Go types say.
ASSUME ScoringAssumption ==
    /\ \A c \in Contracts :
        /\ c.order \in Seq(STRING)
        /\ \A id \in Range(c.order) :
            c.range[id] = None \/ c.range[id] \in [minimum : Int, maximum : Int]
        /\ \A id \in DOMAIN c.aggregations :
            /\ c.aggregations[id].numerator \in Seq(STRING)
            /\ c.aggregations[id].denominator \in Seq(STRING)
    /\ \A p \in Payloads :
        /\ p.verdicts \in Seq([label : STRING, evidence : Seq(STRING)])
        /\ p.dimensions \in Seq([construct : STRING, value : Int \cup {None},
                                 label : STRING \cup {None}, evidence : Seq(STRING)])

Init ==
    /\ contract \in Contracts /\ evidence \in EvidenceSets
    /\ payload = [verdicts |-> << >>, dimensions |-> << >>]
    /\ phase = "unbound" /\ checked = 0 /\ dimensions = << >>

-----------------------------------------------------------------------------
(* spec.ValidateContract *)

\* Bug: repetitions are let through.
NoBlank(list) == "" \notin Range(list)

\* A list without blanks and repetitions.
Proper(list) == "" \notin Range(list) /\ IsInjective(list)

ValidLabelList(list, labels) ==
    list # << >> /\ Proper(list) /\ Range(list) \subseteq Range(labels)

LabelsOf(c, id) == IF id \in DOMAIN c.labels THEN c.labels[id] ELSE << >>

ValidAggregation(c, id) ==
    LET agg == c.aggregations[id] IN
    /\ agg.method \in Methods /\ agg.empty \in EmptyPolicies
    /\ agg.method = "fraction" =>
        /\ ValidLabelList(agg.numerator, LabelsOf(c, id))
        /\ ValidLabelList(agg.denominator, LabelsOf(c, id))

ValidPolicy(policy) ==
    /\ Proper(policy.allowed) /\ Proper(policy.forbidden)
    /\ Range(policy.allowed) \cap Range(policy.forbidden) = {}

ValidContract(c) ==
    LET ids == Range(c.order) IN
    /\ c.order # << >> /\ IsInjective(c.order)
    /\ \A id \in ids : c.range[id] # None => c.range[id].minimum <= c.range[id].maximum
    /\ ValidPolicy(c.policy)
    /\ DOMAIN c.labels \subseteq ids
    /\ \A id \in DOMAIN c.labels : Proper(c.labels[id])
    /\ ids \subseteq DOMAIN c.aggregations
    /\ \A id \in ids : ValidAggregation(c, id)

-----------------------------------------------------------------------------
(* EvaluateWithOptions *)

\* Bug: an allowed kind is enough.
AdmitsAllowed(policy, item) == policy.allowed # << >> => item.kind \in Range(policy.allowed)

AdmitsKind(policy, item) ==
    /\ item.kind \notin Range(policy.forbidden)
    /\ policy.allowed # << >> => item.kind \in Range(policy.allowed)
    /\ policy.provenance => item.provenance

ValidEvidencePolicy ==
    /\ evidence.policy = contract.policy
    /\ \A item \in evidence.items : AdmitsKind(contract.policy, item)

\* Everything that binds the run is checked before the judge is asked.
Bind ==
    /\ phase = "unbound"
    /\ phase' = IF ValidContract(contract) /\ ValidEvidencePolicy THEN "judging" ELSE "refused"
    /\ UNCHANGED <<contract, evidence, payload, checked, dimensions>>

\* The support answer: one verdict per claim, in order (ClaimJudge).
JudgeSupport ==
    /\ phase = "judging"
    /\ payload' \in Payloads
    /\ phase' = "aggregating"
    /\ UNCHANGED <<contract, evidence, checked, dimensions>>

-----------------------------------------------------------------------------
(* aggregate *)

InRange(value, range) == range # None => range.minimum <= value /\ value <= range.maximum

ValidDirectDimension(d, range, labels) ==
    /\ d.value # None \/ d.label # None
    /\ range # None => d.value # None /\ InRange(d.value, range)
    /\ IF labels = << >> THEN d.label = None ELSE d.label \in Range(labels)

\* Bug: a direct dimension is compared with itself too.
EarlierOrLater == Range(payload.dimensions)

Earlier == {payload.dimensions[i] : i \in 1..checked}
Emitted(id) == {d \in Earlier : d.construct = id}

\* The next direct dimension of the payload must be one the contract asks for.
AcceptsDirect(d) ==
    /\ d.construct \in Range(contract.order)
    /\ contract.aggregations[d.construct].method = "direct"
    /\ Emitted(d.construct) = {}
    /\ ValidDirectDimension(d, contract.range[d.construct], LabelsOf(contract, d.construct))

CheckDirect ==
    /\ phase = "aggregating" /\ checked < Len(payload.dimensions)
    /\ IF AcceptsDirect(payload.dimensions[checked + 1])
       THEN checked' = checked + 1 /\ UNCHANGED phase
       ELSE phase' = "refused" /\ UNCHANGED checked
    /\ UNCHANGED <<contract, evidence, payload, dimensions>>

\* The sum of the label counts over the parts of the list.
CountLabels(list, verdicts) ==
    Cardinality({x \in (DOMAIN list) \X (DOMAIN verdicts) : list[x[1]] = verdicts[x[2]].label})

UnionEvidenceForLabels(verdicts, list) ==
    UNION {Range(verdicts[i].evidence) :
             i \in {k \in DOMAIN verdicts : verdicts[k].label \in Range(list)}}

Dimension(id, value, cited) ==
    [construct |-> id, applicable |-> TRUE, value |-> value, label |-> None, cited |-> cited, repeats |-> FALSE]

Whole(n) == [num |-> n, den |-> 1]

EmptyDimension(id, range, policy) ==
    CASE policy = "vacuous_perfect" -> Dimension(id, Whole(IF range = None THEN 1 ELSE range.maximum), {})
      [] policy = "zero" -> Dimension(id, Whole(IF range = None THEN 0 ELSE range.minimum), {})
      [] OTHER -> [Dimension(id, None, {}) EXCEPT !.applicable = FALSE]

\* Bug: the empty case is forgotten.
FractionOfNothing(id, range, agg, verdicts) ==
    Dimension(id, [num |-> CountLabels(agg.numerator, verdicts), den |-> CountLabels(agg.denominator, verdicts)],
              UnionEvidenceForLabels(verdicts, agg.numerator))

FractionDimension(id, range, agg, verdicts) ==
    LET num == CountLabels(agg.numerator, verdicts)
        den == CountLabels(agg.denominator, verdicts)
    IN  IF den = 0 THEN EmptyDimension(id, range, agg.empty)
        ELSE Dimension(id, [num |-> num, den |-> den], UnionEvidenceForLabels(verdicts, agg.numerator))

DirectDimension(d) ==
    [construct |-> d.construct, applicable |-> TRUE,
     value |-> IF d.value = None THEN None ELSE Whole(d.value), label |-> d.label,
     cited |-> Range(d.evidence), repeats |-> ~Proper(d.evidence)]

\* The next construct gets its dimension result, by its method.
AggregateConstruct ==
    /\ phase = "aggregating" /\ checked = Len(payload.dimensions)
    /\ Len(dimensions) < Len(contract.order)
    /\ LET id == contract.order[Len(dimensions) + 1]
           agg == contract.aggregations[id]
       IN  \/ /\ agg.method = "fraction"
              /\ dimensions' = Append(dimensions,
                    FractionDimension(id, contract.range[id], agg, payload.verdicts))
              /\ UNCHANGED phase
           \/ /\ agg.method = "direct"
              /\ \E d \in Emitted(id) : dimensions' = Append(dimensions, DirectDimension(d))
              /\ UNCHANGED phase
           \/ /\ agg.method # "fraction" /\ (agg.method = "direct" => Emitted(id) = {})
              /\ phase' = "refused"
              /\ UNCHANGED dimensions
    /\ UNCHANGED <<contract, evidence, payload, checked>>

-----------------------------------------------------------------------------
(* assessment.Seal *)

EvidenceIDs == {item.id : item \in evidence.items}

\* Bug: a verdict need not cite evidence.
ValidUncited(v) ==
    /\ v.label \in SupportLabels
    /\ Proper(v.evidence) /\ Range(v.evidence) \subseteq EvidenceIDs

ValidClaimAssessment(v) ==
    /\ v.label \in SupportLabels
    /\ Proper(v.evidence) /\ Range(v.evidence) \subseteq EvidenceIDs
    /\ v.label # "insufficient" => v.evidence # << >>

ValidDimension(d) ==
    /\ ~d.applicable => d.value = None
    /\ ~d.repeats /\ d.cited \subseteq EvidenceIDs

ValidReportBody ==
    /\ \A i \in DOMAIN payload.verdicts : ValidClaimAssessment(payload.verdicts[i])
    /\ \A i \in DOMAIN dimensions : ValidDimension(dimensions[i])
    /\ \A i, k \in DOMAIN dimensions : dimensions[i].construct = dimensions[k].construct => i = k

Seal ==
    /\ phase = "aggregating" /\ checked = Len(payload.dimensions)
    /\ Len(dimensions) = Len(contract.order)
    /\ phase' = IF ValidReportBody THEN "sealed" ELSE "refused"
    /\ UNCHANGED <<contract, evidence, payload, checked, dimensions>>

Next == Bind \/ JudgeSupport \/ CheckDirect \/ AggregateConstruct \/ Seal

Spec == Init /\ [][Next]_vars /\ WF_vars(Next)

-----------------------------------------------------------------------------
Value == [num : Int, den : Nat \ {0}] \cup {None}
DimensionResult == [construct : STRING, applicable : BOOLEAN, value : Value,
                    label : STRING \cup {None}, cited : SUBSET STRING, repeats : BOOLEAN]

\* The variables keep their types.
TypeOK ==
    /\ contract \in Contracts /\ evidence \in EvidenceSets
    /\ payload \in Payloads \cup {[verdicts |-> << >>, dimensions |-> << >>]}
    /\ phase \in {"unbound", "judging", "aggregating", "sealed", "refused"}
    /\ checked \in 0..Len(payload.dimensions)
    /\ dimensions \in Seq(DimensionResult)

Judged(labels) == {i \in DOMAIN payload.verdicts : payload.verdicts[i].label \in labels}

\* A sealed report has one result per construct of the contract, in its order.
\* A fraction is the number of claims whose verdict has a numerator label over
\* the number with a denominator label, however the lists are written; a direct
\* result is the judge's own, within the range and labels of its construct, and
\* none that the judge emitted is lost.
DimensionsMeetContract ==
    phase = "sealed" =>
        /\ [i \in DOMAIN dimensions |-> dimensions[i].construct] = contract.order
        /\ \A i \in DOMAIN dimensions :
            LET d == dimensions[i]
                agg == contract.aggregations[d.construct]
                num == Judged(Range(agg.numerator))
                den == Judged(Range(agg.denominator))
                range == contract.range[d.construct]
            IN  /\ agg.method = "fraction" /\ den # {} =>
                    d.value = [num |-> Cardinality(num), den |-> Cardinality(den)]
                /\ agg.method = "direct" =>
                    /\ range # None => InRange(d.value.num, range)
                    /\ LabelsOf(contract, d.construct) # << >> => d.label \in Range(LabelsOf(contract, d.construct))
        /\ \A i \in DOMAIN payload.dimensions :
            \E k \in DOMAIN dimensions : dimensions[k] = DirectDimension(payload.dimensions[i])

\* A fraction whose numerator labels are among its denominator labels is a
\* proportion: from 0 to 1, over a positive number of claims, unless there was
\* nothing to count (claimjudge.go:404-412).
FractionsAreProportions ==
    \A i \in DOMAIN dimensions :
        LET d == dimensions[i]
            agg == contract.aggregations[d.construct]
        IN  /\ agg.method = "fraction" /\ Range(agg.numerator) \subseteq Range(agg.denominator)
            /\ Judged(Range(agg.denominator)) # {}
            => 0 <= d.value.num /\ d.value.num <= d.value.den

\* In a sealed report no evidence is invented, and no forbidden kind is let in:
\* whatever a verdict or a dimension cites is an item of the evidence set that
\* the contract's policy admits (spec/contract.go, EvidencePolicy).
CitedEvidenceIsAdmitted ==
    phase = "sealed" =>
        \A id \in UNION ({Range(payload.verdicts[i].evidence) : i \in DOMAIN payload.verdicts}
                         \cup {dimensions[i].cited : i \in DOMAIN dimensions}) :
            \E item \in evidence.items :
                /\ item.id = id
                /\ item.kind \notin Range(contract.policy.forbidden)
                /\ contract.policy.allowed = << >> \/ item.kind \in Range(contract.policy.allowed)
                /\ contract.policy.provenance => item.provenance

\* A sealed score cannot be had without evidence: a fraction above zero that
\* counts no insufficient verdict cites some.
ScoresCiteEvidence ==
    phase = "sealed" =>
        \A i \in DOMAIN dimensions :
            LET d == dimensions[i]
                agg == contract.aggregations[d.construct]
            IN  /\ agg.method = "fraction" /\ "insufficient" \notin Range(agg.numerator)
                /\ Judged(Range(agg.numerator)) # {}
                /\ Judged(Range(agg.denominator)) # {}
                => d.cited # {}

\* The run is refused only for a defect of its inputs.  Every well-formed answer
\* under a contract the claim judge supports is scored.
RefusalsAreJustified ==
    phase = "refused" =>
        \/ ~ValidContract(contract) \/ ~ValidEvidencePolicy
        \/ \E id \in Range(contract.order) : contract.aggregations[id].method \notin {"fraction", "direct"}
        \/ \E i \in DOMAIN payload.verdicts : ~ValidClaimAssessment(payload.verdicts[i])
        \/ \E i \in DOMAIN payload.dimensions :
            LET d == payload.dimensions[i] IN
            \/ d.construct \notin {id \in Range(contract.order) : contract.aggregations[id].method = "direct"}
            \/ ~ValidDirectDimension(d, contract.range[d.construct], LabelsOf(contract, d.construct))
            \/ ~Proper(d.evidence) \/ ~(Range(d.evidence) \subseteq EvidenceIDs)
            \/ \E k \in DOMAIN payload.dimensions : k # i /\ payload.dimensions[k].construct = d.construct
        \/ \E id \in Range(contract.order) :
            /\ contract.aggregations[id].method = "direct"
            /\ \A i \in DOMAIN payload.dimensions : payload.dimensions[i].construct # id

AtLeast(v, n) == n * v.den <= v.num
AtMost(v, n) == v.num <= n * v.den

\* Claimed by spec/construct.go:34: a Range bounds the numeric value of its
\* construct, both bounds inclusive.
ValuesWithinRange ==
    phase = "sealed" =>
        \A i \in DOMAIN dimensions :
            LET d == dimensions[i]
                range == contract.range[d.construct]
            IN  range # None /\ d.value # None => AtLeast(d.value, range.minimum) /\ AtMost(d.value, range.maximum)

=============================================================================
