# judgekit: specifications, model checks and proofs

judgekit is a Go library that turns language-model judges into measurement
instruments: contracts say what is measured, protocols how, instances on what,
and a sealed report says what came out.  This directory holds TLA+ modules that
model its control, TLC configurations that check them on small instances, and
proofs that TLAPS checks for every value of the constants.

Every definition is a translation of Go code; `PROJECT.json` ("map") names the
lines.  Operators whose comment starts with "Bug:" are not part of the models.
Each is a plausible mistake in the definition that follows it, kept to show
that a property can fail: replacing the original by it makes TLC report the
property listed beside it in `PROJECT.json` ("mutants").

## 1. The system

| Component | Source | State | Operations | What is hard |
|---|---|---|---|---|
| Suite validation | `suite/suite.go` | colour map and call stack of the search | `validateBody`, `checkAcyclic` | telling a cycle from a diamond; ending on cyclic input |
| Suite run | `suite/suite.go` | `results`, `pending`, `remaining`, one errgroup and snapshot per wave | `Run` | concurrent evaluators, failure and cancellation in a wave, reading half-published results, `DependsOn()` answering twice |
| Claim judge | `judging/claimjudge.go`, `repair.go` | prompt, attempt, collected generations | `EvaluateWithOptions`, `generateAndDecode`, `generate`, `extractClaims`, `judgeSupport` | retries, what a retry may be for, provenance of cached and fresh answers |
| Cache | `judging/cache.go` | a map under a mutex | `Load`, `Store` | load and store are not one critical section; invalid answers stay |
| Contract validation | `spec/validate.go` | none | `ValidateContract` | repeated or dangling labels change numbers silently |
| Scoring | `judging/claimjudge.go` | dimensions under construction | `aggregate`, `aggregateConstruct` | empty denominators, ranges, duplicate or missing direct dimensions |
| Report sealing | `assessment/` | the digest of a report | `Seal`, `ValidateReport` | invented evidence, verdicts without evidence, reports changed after sealing |
| Instance identity | `eval/` | the caller's struct, and what its slices and pointers share with the judge's copy | `NewInstance`, `BindCurrentIdentity`, `ValidateInstance` | a digest that no longer describes the content; edits under a running evaluation |
| Contract and protocol as documents | `spec/`, `protocol/` | a loaded struct and the digest of its file | `Load`, `Validate`, `ValidateObservedModel` | a struct edited after it was loaded; a model other than the one the protocol names |
| Reliability audit | `audit/reliability.go`, `disagreement.go`, `probes.go` | counters over probes | `RunProbe`, `Reliability`, `CompareReports` | two pieces of code count the same differences; omissions; replays |
| Panel | `audit/panel.go` | one slot per member | `Panel.Evaluate` | concurrent members, all reports or none |
| Calibration | `calibration/` | confusion matrix, probability pairs | `Calibrate`, `BrierScore`, `ExpectedCalibrationError` | matching, bin edges, empty classes |
| Encodings | `internal/` | none | canonical JSON, strict decoding, identifiers | numbers through float64; text before, around or behind an answer |

Interactions.  A suite calls evaluators, each usually a judge.  A claim judge
binds the instance (`eval`), checks contract, protocol and evidence policy
(`spec`, `protocol`), then makes two chains of model calls through the cache,
aggregates what the second one says and seals a report (`assessment`).  Audits
and panels call judges; calibration compares their reports with human labels.

What makes them correct: a suite runs every evaluator once, after its
dependencies, and answers with all reports or an error that is the root cause;
a judge never seals what it did not hear, never retries a well-formed answer,
and tells the whole run in its provenance; a cache entry answers only for the
prompt, protocol, instance and model it came from; a number in a report follows
from the verdicts and its contract, and cites admitted evidence; a panel files
every report under its own member; an audit's ratios agree with the differences
it lists; calibration metrics are functions of the matched claims alone.

`PROJECT.json` lists the hazards line by line ("hazards"), each with the
properties that would catch it.

## 2. Plan

Order of work: first what runs concurrently and decides what a caller gets (the
suite), then what decides the meaning of a number (judge, cache, scoring), then
what consumes reports (audit, panel, calibration), then identity.

| Step | Modules | State |
|---|---|---|
| 1 | `Dependencies`, `SuiteValidation`, `SuitePromise`, `SuiteRun` and their proofs | done |
| 2 | `ClaimJudge` (with the cache), `Scoring`, their proofs | done |
| 3 | `Comparison`, `Reliability`, `Panel`, their proofs, `Calibration` | done |
| 4 | `Identity`, `IdentityProofs`: documents, instances and reports that are edited after their digests were taken | done, all its invariants proved |
| 5 | `Decoding`: strict decoding over tokens, composed into `ClaimJudge`; its proof opens `ClaimJudgeProofs` | done, exact for answers of any length |
| 6 | field validation of instances and protocols | done inside `Identity`; a field checked by itself is part of one verdict |
| 7 | `CalibrationProofs` | done, every invariant of the run proved |
| 8 | views by waves (`SuiteRunProofs`), types and warm runs (`ClaimJudgeProofs`) | done |

Composition.  `Comparison` holds the operators that `Reliability` and `Panel`
share, as the Go packages do.  `SuitePromise` is the abstract specification of
"run them all, respect dependencies, everything or nothing"; both `SuiteRun` and
`Panel` implement it.  `ClaimJudge` and `Scoring` split one evaluation: the
first has the model calls and treats aggregation as the verdict `sound` on an
answer, the second takes an answer and decides that verdict.  `ClaimJudge`
extends `Decoding`, so that what it retries is what strict decoding refuses.
`Identity` is the same evaluation once more, seen from outside: one judge, no
retries, but a caller who changes everything it holds between and during runs.

Abstract specifications still worth stating: a judge's contract (one answer per
evaluation, from the generator or from the cache, or a refusal) that
`ClaimJudge` implements, so that `Panel` and `Reliability` rest on it.

Theorems: every safety invariant that a passing run checks is proved.  What
would come next is the judge's contract above, with a proof that `ClaimJudge`
implements it.

## 3. Modules and the code

**`Dependencies`** defines `Acyclic`: every non-empty set of evaluators has a
member that depends on none of them.  `MCSuiteValidation` assumes (TLC
evaluates it) that this is the irreflexivity of the transitive closure.

**`SuiteValidation`** is `validateBody` and `checkAcyclic`.  The recursion
`visit` is an explicit `stack` of frames with the dependencies that a frame's
loop has left; `Visit` pushes, `Leave` blackens and pops.  Loops take any
element that is left, so the order of a slice does not matter.

**`SuiteRun`** is `Suite.Run`.  `pc` is the scheduling goroutine; `Build` reads
`DependsOn()` a second time, which may differ from what `Validate` read
(`StableDependsOn = FALSE`) and is not checked again, so it may hold any of `Names`,
names of no evaluator included; `OpenWave` takes the snapshot and starts the
goroutines; `Start`, `Report` and `Fail` are the closure given to `g.Go`;
`WaveFailed` and `Publish` follow `g.Wait()`.  A report is reduced to the names
its evaluator could read (`view`).  The `golang.org/x/sync` errgroup (first
error, derived context, `Wait`) and the caller's cancellation are external.
An evaluator may ignore cancellation.  `validateBody` itself asks `DependsOn()`
twice, for names and for cycles; the model has one answer for both.

**`ClaimJudge`** is `EvaluateWithOptions` down to `generate`, any number of
evaluations over one `MemoryCache`.  An attempt goes `lookup` -> `asking` ->
`storing` -> `decoding`; between lookup and store other evaluations run, since
`Load` and `Store` are separate critical sections.  A generated text is a
sequence of tokens that `Decoding` reads, and its payload is a list and whether
the rest of the run accepts it; `Claims` is the loop that drops empty statements.
A prompt is what it is about and the faults that repairs appended.  `calls` and `warm` are history variables.

**`Decoding`** is `internal/strictdecode`: `StripSingleCodeFence`, which looks for
the closing fence from the right and drops the opening fence's line unread, and
`DecodeJSONObjectStrict` over tokens (blanks, newlines, fences, words, values and
objects).  What a JSON object says is its payload.  `OneObject` is the promise
in one formula: a single object, alone or inside one fence.

**`Identity`** follows one caller and one judge.  `LoadContract` and
`LoadProtocol` read documents (several in a YAML file, of which the first
counts); `NewInstance` computes an instance's digests and `ReadInstance` takes
them as they come.  `EditHead`, `EditShared`, `EditContract` and `EditProtocol`
change contents and leave digests alone, `EditShared` also while an evaluation
runs: `head` is what Go copies with the struct, `shared` what lies behind its
slices, map and pointer.  `Bind`, `ValidateFor`, `Extract`, `JudgeSupport` and
`Seal` are the evaluation; the cache answers by key.  `EditReport` and
`CheckReport` are the report's holder.  A digest is the tagged value that is
hashed, so that digests are equal exactly when the hashed bytes are; the one
thing the bytes lose, the precision of an integer, is `Float`: the nearest float64,
the even one of two.  Every integer passes through it, a protocol's seed, token
limit and attempts and an artifact's size.  Contents that `json.Marshal` writes
alike (an empty and a nil list of an optional field, strings that are not UTF-8)
are one value of the model.

**`Scoring`** starts where a support answer is in hand: `Bind` is everything
that `validateFor` and `ValidateContract` refuse up front, `CheckDirect` and
`AggregateConstruct` are `aggregate`, `Seal` is `assessment.Seal`.  A number is
a pair `num/den`.

**`Comparison`** has `CompareReports` and the agreement counts as operators over
two reports; **`Reliability`** runs them over a probe set and keeps both books,
the list of differences and the counters.  Values are whole multiples of the
tolerance, which is 1.  A report's claims are those its judge names: nothing
says that one claim has the same identifier in both reports of a pair, and the
claim judge numbers them by position.  `Finish` may fail, as sealing does on an infinite
delta.

**`Panel`** is `Panel.Evaluate`: the errgroup over the members, the slots by
position, the map by id and the agreement matrix.

**`Calibration`** is `Calibrate` with both matchers, plus the stand-alone
functions it repeats (`ExtractionRecall`, `ConfusionFromClaims`,
`ConfidenceOutcomePairs`).  Scores are the exact sums that the code divides at
the end.  Floating point decides one thing only: whether a probability on a
bin's edge is rounded into the bin below, and that is a choice per behaviour
(`low`).

The `MC*` modules give the constants small values.  They replace no definition.

## 4. Runs

| Run | Instance | What it shows |
|---|---|---|
| `SuiteValidation` | all 512 graphs on three names, self loops and unknown names included; four names with one dependency each; a diamond and a closed diamond; broken lists | `validateBody` accepts exactly the runnable lists and always ends |
| `SuiteRun` | 145 graphs: every acyclic one on four evaluators up to renaming, every one without self loops on three beside a fourth, and 25 that name a stranger; the second reading of `DependsOn()` is any of them | views, order, errors, cancellation, and that waves implement `SuitePromise` |
| `SuiteRunIsolation` | a chain beside two free evaluators | finding, see section 7 |
| `Judge` | three evaluations of one job in three cache modes or with an unknown one, of two protocols and models, of two instances, or of one key; answers with prose, fences, blanks and trailing text; two attempts | provenance, cost, bypass, failing closed, what an entry stands for and replays, ending |
| `Scoring` | 57 good and 19 defective contracts, ten evidence sets, every pair of verdicts with a good direct answer and every direct answer without verdicts | numbers, evidence and refusals of a report |
| `ScoringRange` | the same | finding |
| `Identity` | seven contract files and seven protocol files, good and bad; seeds, token limits, attempts and sizes around the first rounded integers; twelve instances from the constructor or read as they are, up to two items of evidence; two edits, two evaluations | what digests in reports, keys and provenance stand for |
| `IdentityReport` | the same | finding |
| `Reliability` | up to two probes; partial labellings of two claims; every kind of change to one dimension | the two accounts agree; full agreement takes equal reports; omissions are charged |
| `Panel` | three members, a repeated id, a nil judge; four reports | filing, agreement, all or none |
| `Calibration` | up to three gold claims on two instances; verdicts with and without probabilities, on 0, 1, off the edges and out of range; 10 bins by default, 1 and 3 | scores, rates and matching |
| `CalibrationText` | the same | finding |

Why the bounds are enough.  A wave schedule goes wrong between a set of siblings
and a later wave that joins them: four evaluators hold a diamond, a chain of
four waves, and a wave of three whose failures and cancellations interleave.
Three names give the search every cycle length up to three, with tails and
shared nodes; the list of four adds longer paths.  Two evaluations race on a key
as any number would, because an evaluation only meets the cache through its
entry; a third shows what two leave behind.  Two
attempts are one retry, the least that has a repaired prompt, and a configured
0 takes the code's clamp to 1.  Two claims and one or two dimensions tell the
agreement counts apart; the sums are additive over probes, and two show that
nothing carries over from one to the next.  In calibration a claim interacts
with others only through a shared verdict or a shared bin, so two in one
instance suffice, and a third in between on another.  An identity goes wrong
between one edit and one later look: two edits also change something back or
change two things together, and two evaluations are one that fills the cache
and one that finds it filled.  `Precision` is 4 where the code has 2^53, and
the integers lie on both sides of it, up to the second spacing.  `MCClaimJudge` assumes (TLC evaluates it) that
strict decoding equals `OneObject` on all texts of up to six tokens, enough for
a fence of three lines with something before or behind it; theorem
`StrictDecodingIsExact` proves it for every length.

Bounds of the models themselves: lengths of evaluators, suites, texts, contracts
and gold sets are those of the constants.  Two counters bound a behaviour of
`Identity` in the guards, `MaxEdits` and `MaxEvaluations`; the theorems hold for
any values of both.  Nothing else strengthens a guard: attempts are bounded by
the protocol's retry policy, as in the code.

`CHECK_DEADLOCK FALSE` is used throughout because every one of these is a call
that returns: after it there is no step.  That nothing stops earlier is what
`Terminates`, `EvaluationsEnd`, `Delivers` and the fairness part of
`KeepsPromise` say.  `Reliability` and `Calibration` are sequential loops over
finite lists and state no liveness; `Identity` has a caller who may stop.

## 5. Fairness

*Suite and panel.*  Weak fairness on the scheduling goroutine and on each
evaluator's goroutine: the Go runtime runs every runnable goroutine, and no step
disables another goroutine's step for good.  That a started evaluator returns is
an assumption on the application's code, without which `g.Wait()` hangs in
reality as well.  There is no fairness on `Cancel` nor between success and
failure.  `SuitePromise` asks for weak fairness of its whole next-state
relation, that is, that the run ends.

*Claim judge.*  Weak fairness on the next step of an evaluation that has begun:
it is sequential code, and its generator and cache are assumed to return.  No
evaluation has to begin.

*Suite validation.*  Sequential code that never pauses: weak fairness on the
next step.

*Scoring.*  The same; no run checks liveness there.  *Identity* states safety only.

## 6. Proofs

TLAPS checks all of the following for every value of the constants that meets
the named assumption in the module (these only give types to the inputs:
`SuitesAssumption`, `SuiteAssumption`, `JudgeAssumption`, `ScoringAssumption`,
`PanelAssumption`, `ReliabilityAssumption`, `IdentityAssumption`,
`CalibrationAssumption`), and that a suite is finite, which a Go slice is.
No theorem bounds the number of evaluators, members, attempts, labels, claims,
probes, pairs, bins, tokens or edits.

Induction.  The provers cannot take a predicate as a parameter, so wherever a
proof needs induction (sums, buckets, filtered lists, waves, positions in a
list of generations) the predicate is the *set* of numbers it holds for: a set
that has 0, and n + 1 with every n, has all numbers up to a bound.  Lemma
`Induction` says so once per module, from the least element that a non-empty
set of numbers has.  Recursive functions are unfolded at one argument by a lemma
of their own.

**`SuiteValidationProofs`.**  The verdict, `ValidationIsExact` (theorem
`ValidationSound`), is not inductive: it says nothing about a search under way.  `SearchInv` adds the books of the
search.  *Path*: the gray names are exactly the names on the stack, none
repeats, and each depends on the next, so that meeting a gray name closes a
cycle.  *Explored*: black names are closed under dependencies and acyclic, and
the dependencies a frame has passed are black, except the one being visited.
*Roots*: no declared name is forgotten.  Lemma `AcyclicExtends` is the heart of
`Leave`: a closed acyclic set stays acyclic when a node whose dependencies lie
in it joins.  A rejection is justified by exhibiting the set of names on the path from the
gray name up as a set that has no free member.

**`SuiteRunProofs`.**  `RunInv` ties four books together: what is pending and
remaining follows from what is published; the published set is closed and
acyclic in the graph `Run` read; goroutines exist only for the current wave,
on a snapshot equal to the published set; and the errgroup's error and
cancellation have a cause.  `PublishingKeepsAcyclic` and `SomethingReady` are
the two graph facts: waves stay acyclic, and on an acyclic graph something is
ready if every name is one of an evaluator.  From `RunInv` follow
`DependenciesVisible`, `NoStragglers`, `ErrorIsRootCause`, `AllOrNothing`,
`DeadlockHasACause`, `SiblingsAreIndependent` and `EvaluatedOnce`.
`DeadlockHasACause` has two causes, a cycle and a name that no evaluator has: either can leave
`Run` with nobody ready, and the validated answer had neither, so the second answer was another.  Refinement: under the mapping
in `SuiteRun` a `Publish` is a `Complete`, a return with success is a
`Succeed`, any other return is a `Fail`, and all other steps stutter
(`RunKeepsPromise`).
`ViewsAreFixed` needs one more book, `WavesAgree`: some number k of waves is
published and these are exactly `WavesUpTo[k]`, with k at most the number of
reports; the current wave is everything they allow.  Published waves grow
strictly, so k never passes the size of the suite, and the view of an evaluator is
`WavesUpTo[k]` for the k of its own wave.

**`ScoringProofs`.**  `ScoringInv` says that whatever has been aggregated was
aggregated from a validated contract, by the operator of its method.
`CountOnce` shows that over a list without repetition the code's double loop
counts each verdict once; `Proportion` then bounds a fraction, and `ScoringTypes`
gives a positive denominator to every value.  `AdmittedEvidence` follows from
what `Bind` checked and what `Seal` checks, `ScoresHaveEvidence` from the latter
and the evidence a fraction collects.  `DirectInv` adds what the other two
need: checked direct dimensions fit their constructs and are distinct, what has
been aggregated is the judge's own where the method is direct, and a refusal
has its cause.  `RefusalsAreJustified` is carried as a conjunct, since the
phase it was decided in is gone afterwards; `BadBody` finds the cause behind
a body that `Seal` does not accept.

**`ClaimJudgeProofs`, strict decoding.**  `StrictDecodingIsExact`: for every answer, decoding ends
without a fault exactly when `OneObject` holds.  Everything is said of a *window*
of the answer (two positions), so that no lemma compares texts cut from each
other.  The least and greatest positions that trimming looks for exist by
well-foundedness of the subset order on finite sets, without induction over a
predicate.  `StripFinds` says which window the code's search
from the right leaves; `FencesAreUnique` says that no other pair of fences could be
meant, which is why searching from the right is the same as the promise.

**The evaluation** (the same module).  Four layers.  `IInv` counts: the generations recorded
for a step number its attempts, with one left while it runs; calls are the
recorded misses, plus one that is owed, or was lost in an outage; the cache
mode is checked at the start and keeps a bypassing evaluation out of `storing`
and of hits; each cache entry rests on a fresh generation, recorded or about to
be.  `CostBounded`, `BypassIsFresh` and `CacheIsGenuine` follow.  `ReadInv` adds that
a step still running has recorded only texts that failed, and a sealed run's
last one was read; with `StrictDecodingIsExact` this gives `FailsClosed`.
`ChainInv` splits the generations into two chains, each prompt made of the
faults before it, and says that the prompt at hand continues the last one; a
sealed run has finished both (`ProvenanceIsComplete`).  `JudgeTypes` needs what
a filtered list is made of (`ClaimsType`), by induction over the answer.

`WalksInv` is the fourth, for `WarmReplay`, a statement about two evaluations
over their whole runs.  An evaluation *walks*: what it asks next is a function of
what it asked and of the text that came back (`Following`), and so is whether it
ends there (`Final`, `Passes`).  An entry of the cache *leads* to another entry,
the one its writer's walk continues with, unless it is final, or its writer is
still on the way there, or an outage stopped it (`LeadsInv`).  So when every
peer of an evaluation has ended without an outage, the cache holds the first
question and is closed under what follows (`Warm`).  While it is warm nothing is
written to it by evaluations that share its keys, since each of their lookups
hits.  Two warm walks therefore read the same entries: keys are distinct
(`IInv`), so equal questions get equal texts, and by induction on the position the
walks are equal as far as both go; the one that ended first ended at a
final text, where the other ends too (`WarmRunsReplay`).  TLC has checked
`WalksInv` as an invariant of the `Judge` instance as well.

**`ReliabilityProofs`.**  `Progress` says that a listed line is about a probe the
loop is done with; `Balance` that lines listed and agreements counted sum to
what was compared, for claims and for each construct; `Listed` that whatever two
compared reports differ in has its line.  `ClaimLines` is a bijection between the claims two reports differ on
and the lines `CompareReports` writes; since probe identifiers are unique, the
lines of a new probe are new, and both books grow by the same number.
`Charged` keeps that count probe by probe: the claim lines under a
probe are as many as the claims its two reports differ on.  `LeavingOutIsCharged`
follows, since two sets of claims differ in at least as many as one has more
than the other (`ApartByLength`), whatever the claims are called.

**`CalibrationProofs`.**  `CalibrationIInv` says what the second loop has done by
claim `at`: the counters are the numbers of the claims found so far and of those in each
cell (`Books`), `pairs` is what the recursive definition of the pairs collects,
whatever was used was found (`Uses`), and metrics and scores exist only when their
phase is over and are the operators of their name (`Course`, `Scores`).
`CalibrationTypes` follows: no rate divides by zero, since `max1` guards an
empty gold set and the other rates stay empty.  `ErrorsFit` is arithmetic
over sums of any length: the buckets partition the pairs whatever `low` says about
rounding, so that the sum of the buckets' magnitudes lies between the magnitude
of the whole sum and the sum of the magnitudes (`|bias| <= ece <= mean error`), and the
square of the mean error is at most the Brier score by Cauchy and Schwarz,
proved by adding one pair at a time.  `VerdictsUsedOnce` rests on the distinct
claim ids of a valid gold set, `PerfectRatesAreEarned` on the counts: full recall
leaves no claim unfound, and no false verdict leaves only agreeing cells.
`FunctionsAgree` compares the loop with `ExtractionRecall`, `ConfusionFromClaims`
and `ConfidenceOutcomePairs` claim by claim.  `SealingNeverFails` has no run: it
says that the error path of `Seal` inside `Calibrate` (`calibration/report.go:130`)
is never taken for a rate or a score, since in exact arithmetic all of them
are within the ranges that `validateReportBody` asks for.

**`PanelProofs`.**  `PanelInv` is smaller than `RunInv` (one wave), with one more
idea: a reported slot holds the words of its own judge, and since ids are unique
the map by id has a slot for each member (`FiledById`).  `FullAgreement` is a
fact about two finite labellings, equal counts if and only if equal labellings;
`MatrixInv` says that the matrix is made of those counts.  Refinement to
`SuitePromise` without dependencies.

**`IdentityProofs`.**  No property of `Identity` is inductive, since edits come
between a digest and its use.  `IInv` keeps five books.  *Documents*: the digest
of a loaded document is that of its file, whatever the struct says by now.
*Progress*: what an evaluation has at each `pc`.  *Evidence*: what `ValidateFor`
accepted is the instance as `Bind` saw it.  *Prompts*: keys and generations name
their own prompt.  *Report*: what was sealed, and what of it has been touched.
Two lemmas carry the argument.  `StillValidIsUnchanged`: if contents were edited
in place between `Bind` and the second validation, the instance digest taken at
`Bind` would no longer validate, hence what passes has the same items and kinds, and the
same content up to sizes that round alike.  `ProtocolDigestsTell`, from `FloatTells`: protocols with one digest
differ in nothing but integers of at least `Precision`, and by at most 1024 (two numbers
that round to one are each within half a spacing of it).  An int64 has no float64 neighbours
farther apart than that.

Only model-checked: liveness (`Terminates`, `EvaluationsEnd`, `Delivers`, the
fairness part of `KeepsPromise`), because TLAPS has no rules for `ENABLED` and
fairness.  Every safety invariant of a passing run is a theorem.  No module with
a theorem declares or reaches a RECURSIVE operator; where recursion is needed
it is a function or a fold.

## 7. Findings

Four runs show a disagreement of the code with its documentation; each checks
the documented claim and TLC finds the counterexample.

* `SuiteRunIsolation`: `suite/suite.go:20-22` says that an evaluator may read
  another's report only if it declared the dependency; the snapshot it is handed
  holds every published report.
* `ScoringRange`: `spec/construct.go:34` says that a range bounds the numeric
  value of its construct; a fraction is not compared with it.
* `IdentityReport`: the repository's second design document says at line 215
  that `Validate...` functions "must recompute and compare stored digests";
  `ValidateReport` looks at the digest's prefix (`assessment/validate.go:148`), and a
  report that was changed after it was sealed still validates.
* `CalibrationText`: `calibration/recall.go:22-23` says that `MatchByText`
  matches by text; applied to the report of another instance it compares the
  text of another claim.

Seen while reading, without a run: `RunProbe` audits a judge that is not
configurable with plain `Evaluate`, cache included, although
`judging/interfaces.go:46-47` has audits bypass caches; `Panel.Policy` is read
by nothing; a probe's kind is recorded and never enforced.  A construct with
the empty policy `zero` and a range reports the range's minimum
(`judging/claimjudge.go:431-448`), where `spec/contract.go:30` says zero.  The second
design document (lines 217-219) asks that distinct `int64` seeds have distinct
digests and that integers do not pass through `float64`; `canonicaljson.go:39-46`
passes all of them through it, so seeds, token limits, attempts and sizes beyond 2^53
can differ under one digest.  `ReportNamesItsInstrument` says what remains
true.  Leaving a claim out can raise the agreement of a reliability audit,
although `audit/disagreement.go:12-13` has a judge that drops a claim "less reliable,
not more reliable": the claim judge numbers claims by position
(`judging/claimjudge.go:297-299`), so a dropped one shifts the rest.  Let the base report
entail A as `c1` and contradict B as `c2`.  A variant that contradicts A and entails B
agrees on none of two; one that drops A entails B as `c1` and agrees on one
of two.  `OmissionsAreCharged` and `FullAgreementIsIdentity` are what remains.  A text
matcher may use one verdict for two gold claims of the same text;
`VerdictUsedOnce` is about the default matcher.  A YAML file's further
documents are ignored (`spec/load.go:64-70`) and the answer `{}` is an extraction
of no statements, though the guides speak of rejecting trailing and missing
data.  `BindCurrentIdentity` (`eval/bind.go:5-8`) copies the struct and not what it
refers to; `ReportNamesTheContent` and `PromptsShowTheContent` say what a caller
may rely on all the same.  A fence's language tag may be any text.

## 8. Not modelled

* **Canonical JSON's layout** (key order, escapes, number formats) and the grammar
  of **identifiers**: byte strings.  That a digest is a function of its content is
  an assumption of `Identity`; that SHA-256 has no collisions is another.
* **The inside of a JSON object**: `Decoding` takes what decoding makes of an
  object (unknown field, type error, payload) as given.
* **Suite identity**: the digest over a suite's names and dependencies is read
  by nothing; `JudgeEvaluator` forwards one call.
* **Edits of the judge's own documents while it evaluates**: `Identity` lets a
  caller change them between evaluations only.  The byte digest of a contract
  file is compared with nothing.
* **Checks of single fields** of contracts, protocols and instances, and
  reading the files: one verdict each (`complete`, `bindable`).
* **Wording, prompts, reasons, token counts, durations**: no property is about
  them.
* **Fakes, the example, the help command, embedded documentation**: not part of
  the measurement.

## 9. Running

    tlc -workers 2 -config SuiteRun.cfg MCSuiteRun
    tlapm SuiteRunProofs.tla

Each configuration names the properties of its run; `PROJECT.json` pairs it with
its module ("runs").  The longest runs, `SuiteRun`, `Judge` and `Identity`, take two to
three minutes on two workers.
