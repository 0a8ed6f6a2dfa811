---------------------------- MODULE Reliability ----------------------------
(***************************************************************************)
(* Reliability and RunProbe (audit/reliability.go): every probe of a set   *)
(* is run once, the judge evaluates its base and then its variant          *)
(* instance, and the two reports are compared twice: CompareReports lists  *)
(* the differences, the loop counts agreements per construct and over all  *)
(* claims.                                                                 *)
(*                                                                         *)
(* A judge is the application's and may say anything of an instance.  A    *)
(* ConfigurableJudge is asked to bypass its cache, which a ClaimJudge does *)
(* (ClaimJudge!BypassIsFresh); any other Judge is asked as usual.          *)
(***************************************************************************)
EXTENDS Comparison, Sequences, Functions

CONSTANTS
    ProbeSets,      \* sequences of probes
    Judges,         \* a subset of {"some", "nil"}
    Claims, Constructs,
    Reports         \* what a judge may say of an instance

Dimension == [applicable : BOOLEAN, value : Int \cup {None}, label : STRING \cup {None}]

ASSUME ReliabilityAssumption ==
    /\ Judges \subseteq {"some", "nil"}
    /\ ProbeSets \subseteq Seq([id : STRING, valid : BOOLEAN])
    /\ \A r \in Reports :
        /\ r.claims \in [DOMAIN r.claims -> STRING] /\ r.dims \in [DOMAIN r.dims -> Dimension]
        /\ DOMAIN r.claims \subseteq Claims /\ DOMAIN r.dims \subseteq Constructs
        /\ IsFiniteSet(DOMAIN r.claims)

VARIABLES
    probes, judge,  \* the inputs of the run
    pc,             \* "validate", "base", "variant", "compare", "sealed", "failed"
    at,             \* the loop's index
    base, variant,  \* the reports of the running probe
    totalPairs, disagreements,
    claimTotal, claimMatches,
    dimTotal, dimMatches, dimDeltaSum, dimDeltaCount,
    pairs           \* history: the reports compared, in order

inputs == <<probes, judge>>
books == <<totalPairs, disagreements, claimTotal, claimMatches,
           dimTotal, dimMatches, dimDeltaSum, dimDeltaCount, pairs>>
vars == <<inputs, pc, at, base, variant, books>>

Silent == [claims |-> << >>, dims |-> << >>]
Zeros == [c \in Constructs |-> 0]
Probe == probes[at]

Init ==
    /\ probes \in ProbeSets /\ judge \in Judges
    /\ pc = "validate" /\ at = 1
    /\ base = Silent /\ variant = Silent
    /\ totalPairs = 0 /\ disagreements = {}
    /\ claimTotal = 0 /\ claimMatches = 0
    /\ dimTotal = Zeros /\ dimMatches = Zeros /\ dimDeltaSum = Zeros /\ dimDeltaCount = Zeros
    /\ pairs = << >>

ValidProbeSet ==
    /\ \A i \in DOMAIN probes : probes[i].valid
    /\ \A i, k \in DOMAIN probes : probes[i].id = probes[k].id => i = k

Validate ==
    /\ pc = "validate"
    /\ \E validDigests \in BOOLEAN :
        pc' = IF ValidProbeSet /\ validDigests /\ judge # "nil" THEN "base" ELSE "failed"
    /\ UNCHANGED <<inputs, at, base, variant, books>>

EvaluateBase ==
    /\ pc = "base" /\ at <= Len(probes)
    /\ base' \in Reports
    /\ pc' = "variant"
    /\ UNCHANGED <<inputs, at, variant, books>>

EvaluateVariant ==
    /\ pc = "variant"
    /\ variant' \in Reports
    /\ pc' = "compare"
    /\ UNCHANGED <<inputs, at, base, books>>

\* The first error of the judge ends the audit without a report.
JudgeFails ==
    /\ pc \in {"base", "variant"} /\ at <= Len(probes)
    /\ pc' = "failed"
    /\ UNCHANGED <<inputs, at, base, variant, books>>

\* The disagreements that CompareReports lists for the running probe.  Each names
\* its probe, its subject and who holds it; the list is kept as the set of them.
Differences ==
    LET about(what, key, inBase, inVariant) ==
            [probe |-> Probe.id, what |-> what, key |-> key,
             basePresent |-> inBase, variantPresent |-> inVariant]
    IN  {about("construct", c, c \in DOMAIN base.dims, c \in DOMAIN variant.dims) :
            c \in DimensionsApart(base, variant)}
        \cup {about("claim", c, c \in DOMAIN base.claims, c \in DOMAIN variant.claims) :
            c \in ClaimsApart(base, variant)}

BothNumeric == {c \in Common(base.dims, variant.dims) :
                    Numeric(base.dims[c]) /\ Numeric(variant.dims[c])}

Counted(counts, keys) == [c \in Constructs |-> IF c \in keys THEN counts[c] + 1 ELSE counts[c]]

\* Bug: constructs that one report misses are not counted.
CompareCommon ==
    /\ pc = "compare"
    /\ totalPairs' = totalPairs + 1
    /\ disagreements' = disagreements \cup Differences
    /\ claimTotal' = claimTotal + ClaimTotal(base, variant)
    /\ claimMatches' = claimMatches + Cardinality(ClaimMatches(base, variant))
    /\ dimTotal' = Counted(dimTotal, Common(base.dims, variant.dims))
    /\ dimMatches' = Counted(dimMatches, DimensionMatches(base, variant))
    /\ dimDeltaCount' = Counted(dimDeltaCount, BothNumeric)
    /\ dimDeltaSum' = [c \in Constructs |-> dimDeltaSum[c] +
        IF c \in BothNumeric THEN Magnitude(base.dims[c].value - variant.dims[c].value) ELSE 0]
    /\ pairs' = Append(pairs, <<base, variant>>)
    /\ at' = at + 1 /\ pc' = "base"
    /\ UNCHANGED <<inputs, base, variant>>

Compare ==
    /\ pc = "compare"
    /\ totalPairs' = totalPairs + 1
    /\ disagreements' = disagreements \cup Differences
    /\ claimTotal' = claimTotal + ClaimTotal(base, variant)
    /\ claimMatches' = claimMatches + Cardinality(ClaimMatches(base, variant))
    /\ dimTotal' = Counted(dimTotal, UnionKeys(base.dims, variant.dims))
    /\ dimMatches' = Counted(dimMatches, DimensionMatches(base, variant))
    /\ dimDeltaCount' = Counted(dimDeltaCount, BothNumeric)
    /\ dimDeltaSum' = [c \in Constructs |-> dimDeltaSum[c] +
        IF c \in BothNumeric THEN Magnitude(base.dims[c].value - variant.dims[c].value) ELSE 0]
    /\ pairs' = Append(pairs, <<base, variant>>)
    /\ at' = at + 1 /\ pc' = "base"
    /\ UNCHANGED <<inputs, base, variant>>

\* The loop is over: the ratios are formed and the report is sealed, or it has
\* no canonical JSON, when a delta of two float64 is infinite.
Finish ==
    /\ pc = "base" /\ at > Len(probes)
    /\ pc' \in {"sealed", "failed"}
    /\ UNCHANGED <<inputs, at, base, variant, books>>

Next ==
    \/ Validate \/ EvaluateBase \/ EvaluateVariant \/ JudgeFails \/ Compare \/ Finish

Spec == Init /\ [][Next]_vars

-----------------------------------------------------------------------------
Disagreement == [probe : {p.id : p \in UNION {Range(s) : s \in ProbeSets}},
                 what : {"construct", "claim"}, key : Constructs \cup Claims,
                 basePresent : BOOLEAN, variantPresent : BOOLEAN]

\* The variables keep their types; no count is negative.
TypeOK ==
    /\ probes \in ProbeSets /\ judge \in Judges
    /\ pc \in {"validate", "base", "variant", "compare", "sealed", "failed"}
    /\ at \in 1..(Len(probes) + 1)
    /\ {base, variant} \subseteq Reports \cup {Silent}
    /\ disagreements \subseteq Disagreement
    /\ {totalPairs, claimTotal, claimMatches} \subseteq Nat
    /\ {dimTotal, dimMatches, dimDeltaSum, dimDeltaCount} \subseteq [Constructs -> Nat]
    /\ pairs \in Seq(Reports \X Reports)

About(what, key) == {d \in disagreements : d.what = what /\ d.key = key}

\* The two accounts of an audit agree: whatever the loop does not count as an
\* agreement is listed as a disagreement, and nothing else is, for the claims
\* and for each construct; a disagreement tells which probe it is from
\* (reliability.go:96-129 against disagreement.go:31-75).
BooksBalance ==
    /\ totalPairs = Len(pairs)
    /\ pc = "sealed" => Len(pairs) = Len(probes)
    /\ claimTotal - claimMatches = Cardinality({d \in disagreements : d.what = "claim"})
    /\ \A c \in Constructs : dimTotal[c] - dimMatches[c] = Cardinality(About("construct", c))

\* Full agreement cannot be had by leaving things out: when every counted claim
\* agrees, base and variant of every pair judged the same claims the same way;
\* when every counted result of a construct agrees, each pair holds it twice or
\* not at all, and its mean delta is within the tolerance (disagreement.go:12-13).
FullAgreementIsIdentity ==
    /\ claimMatches = claimTotal => \A i \in DOMAIN pairs : pairs[i][1].claims = pairs[i][2].claims
    /\ \A c \in Constructs : dimMatches[c] = dimTotal[c] =>
        /\ \A i \in DOMAIN pairs : c \in DOMAIN pairs[i][1].dims <=> c \in DOMAIN pairs[i][2].dims
        /\ dimDeltaSum[c] <= dimDeltaCount[c]

\* The claims that the list charges to a probe.
ChargedTo(id) == {d \in disagreements : d.what = "claim" /\ d.probe = id}

\* Leaving claims out is paid for, however the claims that stay are numbered: a
\* pair of reports has at least as many disagreements on the list, under its own
\* probe, as one of them has more claims than the other (reliability.go:104-111,
\* disagreement.go:54-75).
OmissionsAreCharged ==
    \A i \in DOMAIN pairs :
        LET judged == Cardinality(DOMAIN pairs[i][1].claims)
            again == Cardinality(DOMAIN pairs[i][2].claims)
        IN  Cardinality(ChargedTo(probes[i].id)) >= Magnitude(judged - again)

=============================================================================
