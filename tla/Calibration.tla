---------------------------- MODULE Calibration ----------------------------
(***************************************************************************)
(* Calibrate (calibration/report.go): gold claims, in order, are looked up *)
(* in the model's report of their instance; the verdicts found fill a      *)
(* confusion matrix, a recall and, where they carry an entailed            *)
(* probability, the Brier score and the expected calibration error.        *)
(*                                                                         *)
(* Probabilities count in units of 1/Unit and scores are kept as the exact *)
(* sums that the code divides at the end.  Only which bin a probability on *)
(* an edge falls in depends on floating point: int(p / width) may round    *)
(* down.  A behaviour fixes the probabilities that do in the set low.      *)
(***************************************************************************)
EXTENDS Integers, FiniteSets, SequencesExt

CONSTANTS
    None,
    Unit,           \* the probability 1
    GoldSets,       \* sequences of [instance, claim, text, label, valid]
    ReportMaps,     \* functions from a key to
                    \* [instance, protocol, texts, results: sequences of [claim, label, probability]]
    BinCounts,
    Edges           \* probabilities that may round to the bin below their edge

ASSUME CalibrationAssumption ==
    /\ Unit \in Nat \ {0}
    /\ BinCounts \subseteq Nat /\ Edges \subseteq 1..(Unit - 1)
    /\ \A g \in GoldSets : g \in Seq(Range(g))
    /\ \A r \in ReportMaps : \A key \in DOMAIN r : r[key].results \in Seq(Range(r[key].results))

VARIABLES
    gold, reports, bins,    \* the input; the requested protocol is "p1"
    matcher,        \* "id", or the key of the report that MatchByText was made from
    low,            \* the edges that do
    pc,             \* "validate", "check", "match", "seal", "sealed", "failed"
    reason,         \* why it failed
    unchecked,      \* keys of reports that the first loop has not visited
    at,             \* the gold claim of the second loop
    matched, total, confusion, pairs,
    brier, ece,     \* the sums behind BrierScore and ECE; None when nil
    metrics,        \* the four rates, as <<numerator, denominator>>
    taken           \* history: [at, key, position] of the verdicts used

inputs == <<gold, reports, bins, matcher, low>>
counts == <<matched, total, confusion, pairs, taken>>
scores == <<brier, ece>>
vars == <<inputs, pc, reason, unchecked, at, counts, scores, metrics>>

EmptyConfusion == [tp |-> 0, fn |-> 0, fp |-> 0, tn |-> 0]

Bins == IF bins < 1 THEN 10 ELSE bins

Init ==
    /\ gold \in GoldSets /\ reports \in ReportMaps /\ bins \in BinCounts
    /\ matcher \in {"id"} \cup DOMAIN reports
    /\ low \in SUBSET {p \in Edges : (p * Bins) % Unit = 0}
    /\ pc = "validate" /\ reason = "none" /\ unchecked = DOMAIN reports /\ at = 1
    /\ matched = 0 /\ total = 0 /\ confusion = EmptyConfusion /\ pairs = << >> /\ taken = {}
    /\ brier = None /\ ece = None /\ metrics = << >>

Refuse(why) == pc' = "failed" /\ reason' = why

\* Bug: claims may repeat.
ValidGoldClaims == \A i \in DOMAIN gold : gold[i].valid

ValidGoldSet ==
    /\ \A i \in DOMAIN gold : gold[i].valid
    /\ \A i, k \in DOMAIN gold :
        gold[i].instance = gold[k].instance /\ gold[i].claim = gold[k].claim => i = k

Validate ==
    /\ pc = "validate"
    /\ \E validDigests \in BOOLEAN :
        IF ValidGoldSet /\ validDigests THEN pc' = "check" /\ UNCHANGED reason
        ELSE Refuse("input")
    /\ UNCHANGED <<inputs, unchecked, at, counts, scores, metrics>>

Belongs(key) == reports[key].instance = key /\ reports[key].protocol = "p1"

\* The reports are checked in map order, which Go leaves open.
CheckReport ==
    /\ pc = "check"
    /\ \E key \in unchecked :
        IF Belongs(key) THEN unchecked' = unchecked \ {key} /\ UNCHANGED <<pc, reason>>
        ELSE Refuse("report") /\ UNCHANGED unchecked
    /\ UNCHANGED <<inputs, at, counts, scores, metrics>>

AllChecked ==
    /\ pc = "check" /\ unchecked = {}
    /\ pc' = "match"
    /\ UNCHANGED <<inputs, reason, unchecked, at, counts, scores, metrics>>

-----------------------------------------------------------------------------
(* Matching *)

MatchByID(g, verdict) == g.claim = verdict.claim

\* The texts are the ones of the report the matcher was made from.
MatchByText(g, verdict) ==
    /\ verdict.claim \in DOMAIN reports[matcher].texts
    /\ reports[matcher].texts[verdict.claim] = g.text

Matches(g, verdict) == IF matcher = "id" THEN MatchByID(g, verdict) ELSE MatchByText(g, verdict)

\* The position of the first matching verdict, or 0.
FindPredicted(results, g) == SelectInSeq(results, LAMBDA v : Matches(g, v))

IsEntailed(label) == label = "entailed"

Cell(goldLabel, predicted) ==
    IF IsEntailed(goldLabel)
    THEN IF IsEntailed(predicted) THEN "tp" ELSE "fn"
    ELSE IF IsEntailed(predicted) THEN "fp" ELSE "tn"

Outcome(label) == IF IsEntailed(label) THEN 1 ELSE 0

G == gold[at]
Results == reports[G.instance].results
Found == IF G.instance \in DOMAIN reports THEN FindPredicted(Results, G) ELSE 0

\* Bug: a gold claim of an instance without a report is not counted.
MissUncounted ==
    /\ pc = "match" /\ at <= Len(gold) /\ Found = 0
    /\ total' = IF G.instance \in DOMAIN reports THEN total + 1 ELSE total
    /\ at' = at + 1
    /\ UNCHANGED <<inputs, pc, reason, unchecked, matched, confusion, pairs, taken, scores, metrics>>

\* A claim the model did not extract, or no report of its instance.
Miss ==
    /\ pc = "match" /\ at <= Len(gold) /\ Found = 0
    /\ total' = total + 1
    /\ at' = at + 1
    /\ UNCHANGED <<inputs, pc, reason, unchecked, matched, confusion, pairs, taken, scores, metrics>>

\* Bug: the outcome is the judge's own label.
HitByVerdict ==
    /\ pc = "match" /\ at <= Len(gold) /\ Found # 0
    /\ total' = total + 1 /\ matched' = matched + 1
    /\ LET verdict == Results[Found] IN
        /\ confusion' = [confusion EXCEPT ![Cell(G.label, verdict.label)] = @ + 1]
        /\ pairs' = IF verdict.probability = None THEN pairs
                    ELSE Append(pairs, [p |-> verdict.probability, z |-> Outcome(verdict.label)])
    /\ taken' = taken \cup {[at |-> at, key |-> G.instance, position |-> Found]}
    /\ at' = at + 1
    /\ UNCHANGED <<inputs, pc, reason, unchecked, scores, metrics>>

Hit ==
    /\ pc = "match" /\ at <= Len(gold) /\ Found # 0
    /\ total' = total + 1 /\ matched' = matched + 1
    /\ LET verdict == Results[Found] IN
        /\ confusion' = [confusion EXCEPT ![Cell(G.label, verdict.label)] = @ + 1]
        /\ pairs' = IF verdict.probability = None THEN pairs
                    ELSE Append(pairs, [p |-> verdict.probability, z |-> Outcome(G.label)])
    /\ taken' = taken \cup {[at |-> at, key |-> G.instance, position |-> Found]}
    /\ at' = at + 1
    /\ UNCHANGED <<inputs, pc, reason, unchecked, scores, metrics>>

-----------------------------------------------------------------------------
(* Scoring *)

Magnitude(x) == IF x < 0 THEN -x ELSE x

Gap(i) == pairs[i].p - Unit * pairs[i].z

\* The sum of a sequence of integers, added from the left as the loops do.
Total(f) ==
    LET sums[k \in 0..Len(f)] == IF k = 0 THEN 0 ELSE sums[k - 1] + f[k]
    IN  sums[Len(f)]

\* n * Unit^2 times the Brier score.
BrierSum == Total([i \in DOMAIN pairs |-> Gap(i) * Gap(i)])

\* Bug: the last bin is open at 1.
BinOpen(p) ==
    LET exact == (p * Bins) \div Unit
    IN  IF p \in low THEN exact - 1 ELSE exact

\* The bin of a probability, from 0 to Bins - 1.
Bin(p) ==
    LET exact == (p * Bins) \div Unit
        idx == IF p \in low THEN exact - 1 ELSE exact
    IN  IF idx >= Bins THEN Bins - 1 ELSE idx

\* What the bins hold after all pairs: of a bin, the sum of its gaps.
Buckets ==
    LET after[k \in 0..Len(pairs)] ==
            IF k = 0 THEN [b \in 1..Bins |-> 0]
            ELSE [after[k - 1] EXCEPT ![Bin(pairs[k].p) + 1] = @ + Gap(k)]
    IN  after[Len(pairs)]

\* n * Unit times the expected calibration error: a bin's count cancels.
CalibrationSum == Total([b \in 1..Bins |-> Magnitude(Buckets[b])])

IsProbability(p) == p \in 0..Unit

Score ==
    /\ pc = "match" /\ at > Len(gold)
    /\ IF pairs = << >> THEN pc' = "seal" /\ UNCHANGED <<scores, reason>>
       ELSE IF \A i \in DOMAIN pairs : IsProbability(pairs[i].p)
       THEN brier' = BrierSum /\ ece' = CalibrationSum /\ pc' = "seal" /\ UNCHANGED reason
       ELSE Refuse("probability") /\ UNCHANGED scores
    /\ UNCHANGED <<inputs, unchecked, at, counts, metrics>>

\* Bug: nothing is divided by nothing.
RateOfNothing(num, den) == <<num, den>>

Rate(num, den) == IF den = 0 THEN <<0, 1>> ELSE <<num, den>>

Metrics == [
    recall |-> <<matched, IF total < 1 THEN 1 ELSE total>>,
    sensitivity |-> Rate(confusion.tp, confusion.tp + confusion.fn),
    specificity |-> Rate(confusion.tn, confusion.tn + confusion.fp),
    falseSupport |-> Rate(confusion.fp, confusion.tp + confusion.fp)]

WithinUnit(rate) == rate[1] \in 0..rate[2]

\* validateReportBody.
ValidBody ==
    /\ \A name \in DOMAIN Metrics : WithinUnit(Metrics[name])
    /\ brier # None => brier \in 0..(Len(pairs) * Unit * Unit)
    /\ ece # None => ece \in 0..(Len(pairs) * Unit)

Seal ==
    /\ pc = "seal"
    /\ IF ValidBody THEN metrics' = Metrics /\ pc' = "sealed" /\ UNCHANGED reason
       ELSE Refuse("seal") /\ UNCHANGED metrics
    /\ UNCHANGED <<inputs, unchecked, at, counts, scores>>

Next == Validate \/ CheckReport \/ AllChecked \/ Miss \/ Hit \/ Score \/ Seal

Spec == Init /\ [][Next]_vars

-----------------------------------------------------------------------------
(* The functions that do the same for one list of verdicts *)

Hits(results) == {i \in DOMAIN gold : FindPredicted(results, gold[i]) # 0}

ExtractionRecall(results) ==
    IF gold = << >> THEN <<0, 1>> ELSE <<Cardinality(Hits(results)), Len(gold)>>

ConfusionFromClaims(results) ==
    [cell \in DOMAIN EmptyConfusion |-> Cardinality({i \in Hits(results) :
        Cell(gold[i].label, results[FindPredicted(results, gold[i])].label) = cell})]

ConfidenceOutcomePairs(results) ==
    LET found(i) == FindPredicted(results, gold[i])
        upTo[k \in 0..Len(gold)] ==
            IF k = 0 THEN << >>
            ELSE IF found(k) = 0 \/ results[found(k)].probability = None THEN upTo[k - 1]
            ELSE Append(upTo[k - 1], [p |-> results[found(k)].probability, z |-> Outcome(gold[k].label)])
    IN  upTo[Len(gold)]

-----------------------------------------------------------------------------
\* The variables keep their types; every rate has a positive denominator.
TypeOK ==
    /\ gold \in GoldSets /\ reports \in ReportMaps /\ bins \in BinCounts
    /\ pc \in {"validate", "check", "match", "seal", "sealed", "failed"}
    /\ reason \in {"none", "input", "report", "probability", "seal"}
    /\ unchecked \subseteq DOMAIN reports /\ at \in 1..(Len(gold) + 1)
    /\ matched \in 0..total /\ total \in 0..Len(gold)
    /\ confusion \in [{"tp", "fn", "fp", "tn"} -> 0..matched]
    /\ Len(pairs) <= matched
    /\ metrics # << >> => \A name \in DOMAIN metrics : metrics[name][2] > 0

\* The calibration error lies where it must whatever the binning, also for
\* probabilities on an edge, 0 and 1 included: between the bias of the mean and
\* the mean absolute error, and its square below the Brier score
\* (scoring.go:42-98).
ErrorsAreConsistent ==
    ece # None =>
        /\ Magnitude(Total([i \in DOMAIN pairs |-> Gap(i)])) <= ece
        /\ ece <= Total([i \in DOMAIN pairs |-> Magnitude(Gap(i))])
        /\ ece * ece <= Len(pairs) * brier

\* Matched by id, no verdict answers two gold claims (gold.go:87-100,
\* recall.go:15-20), so that recall counts what was extracted.
VerdictUsedOnce ==
    matcher = "id" =>
        \A x, y \in taken : x.key = y.key /\ x.position = y.position => x = y

\* Perfect rates are earned: with full recall and no false verdict, every gold
\* claim has a verdict on its own side in the report of its own instance.
\* Leaving out instances or claims shows (recall.go:41-43).
PerfectIsCorrect ==
    (pc = "sealed" /\ matcher = "id" /\ metrics.recall[1] = metrics.recall[2]
        /\ confusion.fn = 0 /\ confusion.fp = 0)
    => \A i \in DOMAIN gold :
        /\ gold[i].instance \in DOMAIN reports
        /\ \E v \in Range(reports[gold[i].instance].results) :
            v.claim = gold[i].claim /\ IsEntailed(v.label) = IsEntailed(gold[i].label)

\* For a dataset of one instance, Calibrate and the stand-alone functions
\* (recall.go:50-64, confusion.go:90-103, scoring.go:104-122) say the same.
AgreesWithFunctions ==
    pc = "sealed" =>
        \A key \in DOMAIN reports :
            (gold # << >> /\ \A i \in DOMAIN gold : gold[i].instance = key) =>
                LET results == reports[key].results IN
                /\ metrics.recall = ExtractionRecall(results)
                /\ confusion = ConfusionFromClaims(results)
                /\ pairs = ConfidenceOutcomePairs(results)

\* Claimed by recall.go:22-25: matching by text joins a gold claim with a verdict
\* on a claim of that text.
TextMatchesText ==
    matcher # "id" =>
        \A x \in taken :
            LET report == reports[x.key] IN
            report.texts[report.results[x.position].claim] = gold[x.at].text

=============================================================================
