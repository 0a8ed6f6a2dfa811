----------------------------- MODULE ClaimJudge -----------------------------
(***************************************************************************)
(* Concurrent evaluations by claim judges (judging/claimjudge.go) that     *)
(* share one MemoryCache (judging/cache.go).  An evaluation extracts claims *)
(* with one model call, judges their support with another, and seals a     *)
(* report.  Each of the two steps is a chain of attempts: look the rendered *)
(* prompt up, or ask the generator and store what it said; decode the text; *)
(* when the text is structurally invalid, repair the prompt and try again. *)
(*                                                                         *)
(* Data.  A generated text is a sequence of tokens that module Decoding     *)
(* reads.  Its structural faults stand for the errors that name them.      *)
(* A rendered prompt is what it is about (the claims, for a support         *)
(* prompt) and the faults that repairs have appended to it; equal prompts  *)
(* have equal digests.  The judges differ in their protocol, which fixes   *)
(* the expected model and the attempts.                                    *)
(***************************************************************************)
EXTENDS Decoding, FiniteSets

CONSTANTS
    Evaluations,    \* calls of EvaluateWithOptions
    Protocols, Instances,
    Models,         \* identities a generator may report
    Expected,       \* [Protocols -> Models]: the model a protocol is bound to
    MaximumAttempts,\* [Protocols -> Nat]: the protocol's retry policy
    Jobs,           \* what callers may ask for: a set of Job records
    Assignments,    \* what they ask for together: a subset of [Evaluations -> Jobs]
    Texts,          \* [protocol -> [step -> texts]] that a generator may produce
    Nobody          \* no evaluation

Steps == {"extract", "support"}
Modes == {"use", "bypass"}

\* mode: the option as passed, "" for the zero value; bindable: the judge, its
\* protocol, its templates and the instance pass validateFor.
Job == [protocol : Protocols, instance : Instances, mode : STRING, bindable : BOOLEAN]

ASSUME JudgeAssumption ==
    /\ Expected \in [Protocols -> Models]
    /\ MaximumAttempts \in [Protocols -> Nat]
    /\ Jobs \subseteq Job /\ Assignments \subseteq [Evaluations -> Jobs]
    /\ Texts \in [Protocols -> [Steps -> SUBSET Text]]

Limit == [p \in Protocols |-> IF MaximumAttempts[p] < 1 THEN 1 ELSE MaximumAttempts[p]]

\* What decoding makes of each text.
Reading == [raw \in UNION {Texts[p][s] : p \in Protocols, s \in Steps} |-> DecodeJSONObjectStrict(raw)]

Prompt == [about : Seq(Nat), faults : Seq(Faults)]
Key == [protocol : Protocols, instance : Instances, step : Steps, prompt : Prompt]

VARIABLES
    job,        \* the job of each evaluation
    stage,      \* "idle", "lookup", "asking", "storing", "decoding", "sealed", "failed"
    step,       \* the step an evaluation is at
    prompt,     \* current, the prompt of the running attempt
    answer,     \* the generation the running attempt works on
    claims,     \* the extracted claims, by text; their ids are their positions
    generations,\* collector.generations; the text is kept to state properties
    calls,      \* history: generator calls made for the evaluation
    failure,    \* why an evaluation failed: "none", "rejected", "outage", "answer"
    warm,       \* history: the evaluation started on a cache its peers had filled
    cache       \* MemoryCache.store, a set of entries with distinct keys

evalVars == <<stage, step, prompt, answer, claims, generations, calls, failure, warm>>
vars == <<job, evalVars, cache>>

-----------------------------------------------------------------------------
Mode(e) == IF job[e].mode = "" THEN "use" ELSE job[e].mode

\* Bug: bypass does not keep the cache out.
UsesAnyCache(e) == TRUE

UsesCache(e) == Mode(e) # "bypass"

\* Bug: the key identifies the prompt's template, not the claims rendered into it.
KeyOfTemplate(e) ==
    [protocol |-> job[e].protocol, instance |-> job[e].instance,
     step |-> step[e], prompt |-> [prompt[e] EXCEPT !.about = << >>]]

KeyOf(e) == [protocol |-> job[e].protocol, instance |-> job[e].instance,
             step |-> step[e], prompt |-> prompt[e]]

Lookup(key) == {entry \in cache : entry.key = key}

\* Bug: attempts are counted from zero.
AttemptFromZero(e) == Cardinality({i \in DOMAIN generations[e] : generations[e][i].step = step[e]})

Attempt(e) == Cardinality({i \in DOMAIN generations[e] : generations[e][i].step = step[e]}) + 1

\* Bug: off by one, an attempt more than the protocol allows.
ExhaustedLate(e) == Attempt(e) > Limit[job[e].protocol]

Exhausted(e) == Attempt(e) >= Limit[job[e].protocol]

NoAnswer == [text |-> << >>, hit |-> FALSE, by |-> Nobody]

Ended(e) == stage[e] = "sealed" \/ failure[e] = "answer"

\* The evaluations that share every cache key with e.
Peers(e) == {f \in Evaluations \ {e} :
    Mode(f) = "use" /\ job[f].protocol = job[e].protocol /\ job[f].instance = job[e].instance}

Init ==
    /\ job \in Assignments
    /\ stage = [e \in Evaluations |-> "idle"]
    /\ step = [e \in Evaluations |-> "extract"]
    /\ prompt = [e \in Evaluations |-> [about |-> << >>, faults |-> << >>]]
    /\ answer = [e \in Evaluations |-> NoAnswer]
    /\ claims = [e \in Evaluations |-> << >>]
    /\ generations = [e \in Evaluations |-> << >>]
    /\ calls = [e \in Evaluations |-> 0]
    /\ failure = [e \in Evaluations |-> "none"]
    /\ warm = [e \in Evaluations |-> FALSE]
    /\ cache = {}

Goto(e, s) == stage' = [stage EXCEPT ![e] = s] /\ UNCHANGED failure

Fail(e, why) ==
    /\ stage' = [stage EXCEPT ![e] = "failed"]
    /\ failure' = [failure EXCEPT ![e] = why]

\* Options are checked, the instance bound and the judge validated before
\* anything is generated.
Begin(e) ==
    /\ stage[e] = "idle"
    /\ IF Mode(e) \in Modes /\ job[e].bindable THEN Goto(e, "lookup") ELSE Fail(e, "rejected")
    /\ warm' = [warm EXCEPT ![e] =
        /\ Mode(e) = "use"
        /\ \E f \in Peers(e) : Ended(f)
        /\ \A f \in Peers(e) : stage[f] = "idle" \/ Ended(f)]
    /\ UNCHANGED <<job, step, prompt, answer, claims, generations, calls, cache>>

\* A step's prompt cannot be rendered (ClaimProtocol is the application's).
RenderFails(e) ==
    /\ stage[e] = "lookup" /\ Attempt(e) = 1
    /\ Fail(e, "outage")
    /\ UNCHANGED <<job, step, prompt, answer, claims, generations, calls, warm, cache>>

-----------------------------------------------------------------------------
(* generate *)

LoadHit(e) ==
    /\ stage[e] = "lookup" /\ UsesCache(e)
    /\ \E entry \in Lookup(KeyOf(e)) :
        IF entry.model = Expected[job[e].protocol]
        THEN /\ answer' = [answer EXCEPT ![e] = [text |-> entry.text, hit |-> TRUE, by |-> entry.by]]
             /\ Goto(e, "decoding")
        ELSE Fail(e, "outage") /\ UNCHANGED answer
    /\ UNCHANGED <<job, step, prompt, claims, generations, calls, warm, cache>>

\* A miss, or a run that bypasses the cache.
LoadNothing(e) ==
    /\ stage[e] = "lookup"
    /\ ~UsesCache(e) \/ Lookup(KeyOf(e)) = {}
    /\ Goto(e, "asking")
    /\ UNCHANGED <<job, step, prompt, answer, claims, generations, calls, warm, cache>>

Generate(e) ==
    /\ stage[e] = "asking"
    /\ calls' = [calls EXCEPT ![e] = @ + 1]
    /\ \E text \in Texts[job[e].protocol][step[e]], model \in Models :
        IF model = Expected[job[e].protocol]
        THEN /\ answer' = [answer EXCEPT ![e] = [text |-> text, hit |-> FALSE, by |-> e]]
             /\ Goto(e, IF UsesCache(e) THEN "storing" ELSE "decoding")
        ELSE Fail(e, "outage") /\ UNCHANGED answer
    /\ UNCHANGED <<job, step, prompt, claims, generations, warm, cache>>

\* The generator returns an error, or its context is cancelled.
GeneratorFails(e) ==
    /\ stage[e] = "asking"
    /\ calls' = [calls EXCEPT ![e] = @ + 1]
    /\ Fail(e, "outage")
    /\ UNCHANGED <<job, step, prompt, answer, claims, generations, warm, cache>>

\* Bug: a structurally invalid text is not stored.
StoreValid(e) ==
    /\ stage[e] = "storing"
    /\ cache' = IF Reading[answer[e].text].fault # "" THEN cache ELSE (cache \ Lookup(KeyOf(e))) \cup
        {[key |-> KeyOf(e), text |-> answer[e].text, model |-> Expected[job[e].protocol], by |-> e]}
    /\ Goto(e, "decoding")
    /\ UNCHANGED <<job, step, prompt, answer, claims, generations, calls, warm>>

\* The raw text is stored before it is decoded; the last writer wins.
Store(e) ==
    /\ stage[e] = "storing"
    /\ cache' = (cache \ Lookup(KeyOf(e))) \cup
        {[key |-> KeyOf(e), text |-> answer[e].text, model |-> Expected[job[e].protocol], by |-> e]}
    /\ Goto(e, "decoding")
    /\ UNCHANGED <<job, step, prompt, answer, claims, generations, calls, warm>>

\* A Cache other than MemoryCache may fail to load or to store.
CacheFails(e) ==
    /\ stage[e] \in {"lookup", "storing"} /\ UsesCache(e)
    /\ Fail(e, "outage")
    /\ UNCHANGED <<job, step, prompt, answer, claims, generations, calls, warm, cache>>

-----------------------------------------------------------------------------
(* generateAndDecode, extractClaims, judgeSupport *)

Fault(e) == Reading[answer[e].text].fault

\* Bug: only what decodes is recorded.
RecordValid(e) ==
    generations' = IF Fault(e) # "" THEN generations ELSE [generations EXCEPT ![e] = Append(@,
        [step |-> step[e], attempt |-> Attempt(e), prompt |-> prompt[e],
         hit |-> answer[e].hit, text |-> answer[e].text])]

\* Every generation is recorded before its text is decoded.
Record(e) ==
    generations' = [generations EXCEPT ![e] = Append(@,
        [step |-> step[e], attempt |-> Attempt(e), prompt |-> prompt[e],
         hit |-> answer[e].hit, text |-> answer[e].text])]

Repair(e) ==
    /\ stage[e] = "decoding" /\ Fault(e) # "" /\ ~Exhausted(e)
    /\ Record(e)
    /\ prompt' = [prompt EXCEPT ![e].faults = Append(@, Fault(e))]
    /\ Goto(e, "lookup")
    /\ UNCHANGED <<job, step, answer, claims, calls, warm, cache>>

\* A Repairer other than DefaultRepairer may fail.
RepairFails(e) ==
    /\ stage[e] = "decoding" /\ Fault(e) # "" /\ ~Exhausted(e)
    /\ Record(e)
    /\ Fail(e, "outage")
    /\ UNCHANGED <<job, step, prompt, answer, claims, calls, warm, cache>>

\* Bug: the retry loop neither repairs nor leaves after the last attempt.
GiveUpLate(e) ==
    /\ stage[e] = "decoding" /\ Fault(e) # "" /\ Attempt(e) > Limit[job[e].protocol]
    /\ Record(e)
    /\ Fail(e, "answer")
    /\ UNCHANGED <<job, step, prompt, answer, claims, calls, warm, cache>>

GiveUp(e) ==
    /\ stage[e] = "decoding" /\ Fault(e) # "" /\ Exhausted(e)
    /\ Record(e)
    /\ Fail(e, "answer")
    /\ UNCHANGED <<job, step, prompt, answer, claims, calls, warm, cache>>

\* Blank statements are dropped and the claims numbered from what is left.
Claims(list) ==
    LET kept[i \in 0 .. Len(list)] ==
            IF i = 0 THEN << >>
            ELSE IF list[i] = 0 THEN kept[i - 1] ELSE Append(kept[i - 1], list[i])
    IN  kept[Len(list)]

Extract(e) ==
    /\ stage[e] = "decoding" /\ Fault(e) = "" /\ step[e] = "extract"
    /\ Record(e)
    /\ claims' = [claims EXCEPT ![e] = Claims(Reading[answer[e].text].list)]
    /\ step' = [step EXCEPT ![e] = "support"]
    /\ prompt' = [prompt EXCEPT ![e] = [about |-> Claims(Reading[answer[e].text].list), faults |-> << >>]]
    /\ Goto(e, "lookup")
    /\ UNCHANGED <<job, answer, calls, warm, cache>>

\* Bug: only the number of verdicts is compared.
AsMany(list, n) == Len(list) = n

\* One verdict for each of the n claims, in their order.
InOrder(list, n) == list = [i \in 1..n |-> i]

\* One verdict per claim, in order; then aggregation and Seal decide.
Judge(e) ==
    /\ stage[e] = "decoding" /\ Fault(e) = "" /\ step[e] = "support"
    /\ Record(e)
    /\ LET read == Reading[answer[e].text] IN
       IF InOrder(read.list, Len(claims[e])) /\ read.sound
       THEN Goto(e, "sealed")
       ELSE Fail(e, "answer")
    /\ UNCHANGED <<job, step, prompt, answer, claims, calls, warm, cache>>

Proceed(e) ==
    \/ RenderFails(e) \/ LoadHit(e) \/ LoadNothing(e) \/ Generate(e) \/ GeneratorFails(e)
    \/ Store(e) \/ CacheFails(e) \/ Repair(e) \/ RepairFails(e) \/ GiveUp(e)
    \/ Extract(e) \/ Judge(e)

Next == \E e \in Evaluations : Begin(e) \/ Proceed(e)

\* An evaluation that has begun goes on; its generator is assumed to return.
Spec == Init /\ [][Next]_vars /\ \A e \in Evaluations : WF_vars(Proceed(e))

-----------------------------------------------------------------------------
Generation == [step : Steps, attempt : Nat \ {0}, prompt : Prompt, hit : BOOLEAN, text : Text]

\* The variables keep their types.
TypeOK ==
    /\ job \in Assignments
    /\ stage \in [Evaluations ->
        {"idle", "lookup", "asking", "storing", "decoding", "sealed", "failed"}]
    /\ step \in [Evaluations -> Steps]
    /\ prompt \in [Evaluations -> Prompt]
    /\ answer \in [Evaluations -> [text : Text, hit : BOOLEAN, by : Evaluations \cup {Nobody}]]
    /\ claims \in [Evaluations -> Seq(Nat)]
    /\ generations \in [Evaluations -> Seq(Generation)]
    /\ calls \in [Evaluations -> Nat]
    /\ failure \in [Evaluations -> {"none", "rejected", "outage", "answer"}]
    /\ warm \in [Evaluations -> BOOLEAN]
    /\ cache \subseteq [key : Key, text : Text, model : Models, by : Evaluations]

FreshAt(e) == {i \in DOMAIN generations[e] : ~generations[e][i].hit}

\* A cached text was generated by a cache-using evaluation of the same protocol
\* and instance, for the very prompt of its key, by the model that protocol
\* expects; there is one entry per key.  The model check on a hit
\* (claimjudge.go:537) is never what rejects an answer.
CacheIsGenuine ==
    /\ \A entry \in cache :
        LET e == entry.by IN
        /\ Mode(e) = "use"
        /\ entry.key.protocol = job[e].protocol /\ entry.key.instance = job[e].instance
        /\ entry.model = Expected[entry.key.protocol]
        /\ \/ \E i \in FreshAt(e) :
                /\ generations[e][i].step = entry.key.step /\ generations[e][i].prompt = entry.key.prompt
                /\ generations[e][i].text = entry.text
           \/ stage[e] = "decoding" /\ KeyOf(e) = entry.key /\ answer[e].text = entry.text
    /\ \A x, y \in cache : x.key = y.key => x = y

\* A bypassing evaluation reports only fresh generations, one for each call it
\* made, and leaves nothing in the cache: what reliability audits rest on
\* (interfaces.go:46-48).
BypassIsFresh ==
    \A e \in Evaluations : Mode(e) = "bypass" =>
        /\ \A i \in DOMAIN generations[e] : ~generations[e][i].hit
        /\ stage[e] = "sealed" => calls[e] = Len(generations[e])
        /\ \A entry \in cache : entry.by # e

\* The attempts of one step: numbered from 1 within the protocol's limit, each
\* but the last structurally invalid and repaired by the next one's prompt.
Chain(gens, about, limit) ==
    /\ Len(gens) \in 1..limit
    /\ Reading[gens[Len(gens)].text].fault = ""
    /\ \A i \in DOMAIN gens :
        /\ gens[i].attempt = i
        /\ i < Len(gens) => Reading[gens[i].text].fault # ""
        /\ gens[i].prompt = [about |-> about, faults |-> [k \in 1..(i - 1) |-> Reading[gens[k].text].fault]]

\* The provenance of a sealed report tells its whole run: a chain of attempts
\* for extraction, then one for support about the claims that extraction's
\* last text yields, cached and fresh answers alike.
ProvenanceTellsTheRun ==
    \A e \in Evaluations : stage[e] = "sealed" =>
        \E n \in 1..(Len(generations[e]) - 1) :
            LET extract == SubSeq(generations[e], 1, n)
                support == SubSeq(generations[e], n + 1, Len(generations[e]))
                limit == Limit[job[e].protocol]
            IN  /\ \A i \in DOMAIN extract : extract[i].step = "extract"
                /\ \A i \in DOMAIN support : support[i].step = "support"
                /\ Chain(extract, << >>, limit)
                /\ claims[e] = Claims(Reading[extract[n].text].list)
                /\ Chain(support, claims[e], limit)

\* Failing closed: a report is sealed only on a support text that judges every
\* claim once, in order, and that aggregation and Seal accept, whether the text
\* is fresh or cached; what was read from any text was one object and nothing
\* else (strictdecode.go:113-134); and what could be read is never asked again.
FailsClosed ==
    \A e \in Evaluations :
        /\ stage[e] = "sealed" =>
            LET last == Reading[generations[e][Len(generations[e])].text]
            IN  last.sound /\ last.list = [i \in 1..Len(claims[e]) |-> i]
        /\ \A i \in DOMAIN generations[e] :
            LET g == generations[e][i]
                followed == \E k \in DOMAIN generations[e] : k > i /\ generations[e][k].step = g.step
            IN  IF Reading[g.text].fault = "" THEN OneObject(g.text) /\ ~followed
                ELSE stage[e] = "sealed" => followed

\* Every call of the generator is accounted for: a run that ends in a report or
\* an invalid answer lists each one it made, at most the protocol's attempts
\* for each step; an outage hides at most the call it struck; and a run that is
\* rejected costs nothing (claimjudge.go:123-124, 491-505).
CostBounded ==
    \A e \in Evaluations :
        /\ calls[e] - Cardinality(FreshAt(e)) \in
            IF stage[e] \in {"idle", "lookup", "sealed"} \/ failure[e] \in {"answer", "rejected"} THEN {0} ELSE {0, 1}
        /\ calls[e] <= 2 * Limit[job[e].protocol]
        /\ failure[e] = "rejected" => calls[e] = 0 /\ generations[e] = << >>

\* Once its peers have ended without an outage, the cache answers everything an
\* evaluation asks, and evaluations that start like that all reach the same
\* verdict.  Structurally or semantically invalid answers are replayed as
\* faithfully as good ones.
WarmReplay ==
    \A e, f \in Evaluations : warm[e] =>
        /\ calls[e] = 0
        /\ warm[f] /\ f \in Peers(e) /\ Ended(e) /\ Ended(f) =>
            claims[e] = claims[f] /\ stage[e] = stage[f]

\* Every evaluation that begins ends, in a report or an error: from some point
\* on none is running.
EvaluationsEnd ==
    <>[](\A e \in Evaluations : stage[e] \in {"idle", "sealed", "failed"})

=============================================================================
