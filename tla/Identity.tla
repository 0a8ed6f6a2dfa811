------------------------------ MODULE Identity ------------------------------
(***************************************************************************)
(* What the digests of a measurement stand for.  A caller loads a contract *)
(* and a protocol (spec/load.go, protocol/load.go), assembles an instance  *)
(* (eval/), has a claim judge evaluate it (judging/claimjudge.go) and keeps *)
(* the sealed report (assessment/).  Everything is an ordinary Go value the *)
(* caller may go on changing; digests are what ties the pieces together.    *)
(*                                                                         *)
(* A digest is the tagged value it is computed from, so that digests are   *)
(* equal exactly when the hashed bytes are.  What hashing loses, the bytes  *)
(* have lost before: Float is what canonical JSON keeps of an integer, and  *)
(* every integer that a document or an instance may hold passes through it. *)
(*                                                                         *)
(* An instance has a part that a Go assignment copies (head) and a part    *)
(* behind slices, maps and pointers that copies share (shared).            *)
(***************************************************************************)
EXTENDS Integers, Sequences, FiniteSets

CONSTANTS
    None,           \* nil
    Precision,      \* 2^53: integers up to it are exact as a float64 (a model may take less)
    Templates,      \* [step -> digest]: the renderer's TemplateDigest
    ContractFiles, ProtocolFiles,
    Drafts,         \* [head, shared] to call NewInstance with, or read from a file
    Heads, Shares,  \* what the caller may change the two parts to
    MaxEdits, MaxEvaluations    \* bounds of a behaviour

Steps == {"extract", "support"}
Sum(tag, content) == <<tag, content>>
NoDigest == << >>  \* a string without the prefix "sha256:"
Contents(files) == UNION {{f.parts[i].content : i \in DOMAIN f.parts} : f \in files}

\* The int and int64 fields of a protocol.
IntegerFields == {"seed", "maxTokens", "attempts"}
Int64 == -1024 * Precision .. 1024 * Precision - 1

ASSUME IdentityAssumption ==
    /\ Precision \in Nat \ {0} /\ Precision % 4 = 0 /\ None \notin Int
    /\ \A f \in ContractFiles \cup ProtocolFiles : f.parts \in Seq({f.parts[i] : i \in DOMAIN f.parts})
    /\ \A h \in Heads \cup {draft.head : draft \in Drafts} :
        {"policyDigest", "evidenceDigest", "digest"} \subseteq DOMAIN h
    /\ \A p \in Contents(ProtocolFiles) :
        /\ IntegerFields \subseteq DOMAIN p
        /\ p.maxTokens \in Int64 /\ p.attempts \in Int64 /\ p.seed \in Int64 \cup {None}
    /\ MaxEdits \in Nat /\ MaxEvaluations \in Nat

VARIABLES
    contract, protocol, \* the judge's documents: [content, digest, file]
    head, shared,       \* the caller's instance
    pc,                 \* "contract", "protocol", "instance", "idle", then
                        \* within an evaluation "bound", "extract", "support", "report"
    outcome,            \* of the last evaluation: "none", "sealed", or what refused it
    bound,              \* the judge's copy of head
    allowed,            \* the evidence ids a report may cite
    generations,        \* collector.generations, with the texts behind the digests
    claimed,            \* the evidence ids that the support answer cites
    cache,              \* the judge's cache: [key, prompt, cites]
    report,             \* the last sealed report, as its holder has it
    verdict,            \* what ValidateReport last said of it
    edits, evaluations, \* counters of the bounds
    atBind,             \* history: shared as BindCurrentIdentity saw it
    moved,              \* history: shared was changed while the evaluation ran
    instrument,         \* history: the contents validateFor accepted
    touched             \* history: the report was changed after it was sealed

config == <<contract, protocol>>
instance == <<head, shared>>
run == <<bound, allowed, generations, claimed, atBind, moved, instrument>>
kept == <<report, verdict, touched>>
vars == <<config, instance, pc, outcome, run, cache, kept, edits, evaluations>>

-----------------------------------------------------------------------------
(* Documents *)

Magnitude(n) == IF n < 0 THEN -n ELSE n

\* How far the float64 around an int64 lie apart.
Spacings == {1, 2, 4, 8, 16, 32, 64, 128, 256, 512, 1024}
SpacingAt(n) ==
    CHOOSE s \in Spacings :
        Magnitude(n) <= s * Precision /\ (s = 1 \/ Magnitude(n) > (s \div 2) * Precision)

\* The multiple of s nearest to n, the even one of two.
Nearest(n, s) ==
    LET low == n \div s
        up == 2 * (n % s) > s \/ (2 * (n % s) = s /\ low % 2 = 1)
    IN  s * (IF up THEN low + 1 ELSE low)

\* An integer, or nil, after Marshal's way through float64.
Float(n) == IF n = None THEN None ELSE Nearest(n, SpacingAt(n))

EvidencePolicyDigest(policy) == Sum("policy", policy)
ContractDigest(c) == Sum("contract", c)

CanonicalProtocol(p) == [f \in DOMAIN p |-> IF f \in IntegerFields THEN Float(p[f]) ELSE p[f]]
ProtocolDigest(p) == Sum("protocol", CanonicalProtocol(p))

\* The content of a file: parts are the documents it holds.  A YAML file's
\* first document is decoded; after a JSON one nothing may follow.
Decodes(file) ==
    /\ file.parts # << >> /\ file.parts[1].known
    /\ \/ file.ext \in {"yaml", "yml"}
       \/ file.ext = "json" /\ Len(file.parts) = 1

ValidContract(c) == c.complete

ValidProtocol(p) ==
    /\ p.complete /\ p.measurement # NoDigest
    /\ \A s \in DOMAIN p.templates : p.templates[s] # NoDigest
    /\ DOMAIN p.templates # {}
    /\ p.order \in {"as_given", "sorted", "shuffled"}
    /\ p.order = "shuffled" => p.seed # None
    /\ p.maxTokens > 0 /\ p.attempts >= 1

-----------------------------------------------------------------------------
(* Instances *)

TextContentDigest(text) == Sum("text", text)

\* complete: the fields checked by themselves (media type, the size of a text,
\* kind, source, provenance, description, importance, keys) are as they must be.
\* The size of what a URI refers to is only what the application says.
ValidArtifact(a) ==
    /\ a.complete /\ a.digest # NoDigest /\ a.size >= 0
    /\ (a.text # None) # a.uri
    /\ a.text # None => a.digest = TextContentDigest(a.text)

ValidEvidenceItem(e) == e.complete /\ ValidArtifact(e.content)

ValidEvidenceSetBody(items, policyDigest) ==
    /\ policyDigest # NoDigest
    /\ \A i \in DOMAIN items : ValidEvidenceItem(items[i])
    /\ \A i, k \in DOMAIN items : items[i].id = items[k].id => i = k

\* What canonical JSON keeps of artifacts.
CanonicalArtifact(a) == [a EXCEPT !.size = Float(@)]
CanonicalItem(e) == <<e.id, e.kind, e.complete, CanonicalArtifact(e.content)>>
CanonicalItems(items) == [i \in DOMAIN items |-> CanonicalItem(items[i])]

EvidenceSetDigest(items, policyDigest) == Sum("evidence", <<CanonicalItems(items), policyDigest>>)

EvidenceIDs(items) == {items[i].id : i \in DOMAIN items}

ValidFacts(facts, ids) ==
    /\ \A i \in DOMAIN facts : facts[i].complete /\ facts[i].evidence \subseteq ids
    /\ \A i, k \in DOMAIN facts : facts[i].id = facts[k].id => i = k

\* Everything but the instance's own digest.
CanonicalHead(h) ==
    [h EXCEPT !.digest = NoDigest, !.input = CanonicalArtifact(@), !.candidate = CanonicalArtifact(@)]
CanonicalShared(s) ==
    <<CanonicalItems(s.items), s.facts, s.metadata,
      IF s.reference = None THEN None ELSE CanonicalArtifact(s.reference)>>
InstanceDigest(h, s) == Sum("instance", <<CanonicalHead(h), CanonicalShared(s)>>)

\* What ValidateInstance checks besides the two digests.
ValidContent(h, s) ==
    /\ h.complete /\ s.metadata.complete
    /\ ValidArtifact(h.input) /\ ValidArtifact(h.candidate)
    /\ ValidEvidenceSetBody(s.items, h.policyDigest)
    /\ s.reference # None => ValidArtifact(s.reference)
    /\ ValidFacts(s.facts, EvidenceIDs(s.items))

ValidInstance(h, s) ==
    /\ ValidContent(h, s)
    /\ h.evidenceDigest = EvidenceSetDigest(s.items, h.policyDigest)
    /\ h.digest = InstanceDigest(h, s)

\* Bug: the instance is hashed before its evidence.
IdentifiedOutOfOrder(h, s) ==
    [h EXCEPT !.evidenceDigest = EvidenceSetDigest(s.items, h.policyDigest),
              !.digest = InstanceDigest(h, s)]

\* The head with both digests recomputed, the evidence's first.
Identified(h, s) ==
    LET e == [h EXCEPT !.evidenceDigest = EvidenceSetDigest(s.items, h.policyDigest)]
    IN  [e EXCEPT !.digest = InstanceDigest(e, s)]

-----------------------------------------------------------------------------
(* The caller prepares a measurement *)

Init ==
    /\ contract = None /\ protocol = None
    /\ head = None /\ shared = None
    /\ pc = "contract" /\ outcome = "none"
    /\ bound = None /\ allowed = {} /\ generations = << >> /\ claimed = {}
    /\ atBind = None /\ moved = FALSE /\ instrument = None
    /\ cache = {}
    /\ report = None /\ verdict = "none" /\ touched = FALSE
    /\ edits = 0 /\ evaluations = 0

\* A file that does not load leaves the caller where it was.
LoadContract(file) ==
    /\ pc = "contract"
    /\ Decodes(file) /\ ValidContract(file.parts[1].content)
    /\ contract' = [content |-> file.parts[1].content,
                    digest |-> ContractDigest(file.parts[1].content), file |-> file]
    /\ pc' = "protocol"
    /\ UNCHANGED <<protocol, instance>>

LoadProtocol(file) ==
    /\ pc = "protocol"
    /\ Decodes(file) /\ ValidProtocol(file.parts[1].content)
    /\ protocol' = [content |-> file.parts[1].content,
                    digest |-> ProtocolDigest(file.parts[1].content), file |-> file]
    /\ pc' = "instance"
    /\ UNCHANGED <<contract, instance>>

\* NewEvidenceSet, then NewInstance.
NewInstance(draft) ==
    /\ pc = "instance"
    /\ LET h == Identified(draft.head, draft.shared) IN
        /\ ValidInstance(h, draft.shared)
        /\ head' = h
    /\ shared' = draft.shared
    /\ pc' = "idle"
    /\ UNCHANGED config

\* The application fills the struct itself, or decodes it from a file.
ReadInstance(draft) ==
    /\ pc = "instance"
    /\ head' = draft.head /\ shared' = draft.shared
    /\ pc' = "idle"
    /\ UNCHANGED config

-----------------------------------------------------------------------------
(* The caller changes what it holds *)

Edit == edits < MaxEdits /\ edits' = edits + 1

\* Fields of the caller's struct, at any time; the stored digests stay.
EditHead(h) ==
    /\ pc \in {"idle", "bound", "extract", "support", "report"}
    /\ head' = [h EXCEPT !.evidenceDigest = head.evidenceDigest, !.digest = head.digest]
    /\ head' # head
    /\ UNCHANGED <<config, shared, pc, outcome, run, cache, kept, evaluations>>

\* In place, also from a callback of a running evaluation: the elements of the
\* slices the judge shares, what the reference points to, the metadata map.
EditShared(s) ==
    /\ pc \in {"idle", "bound", "extract", "support", "report"}
    /\ pc # "idle" =>
        /\ Len(s.items) = Len(shared.items) /\ Len(s.facts) = Len(shared.facts)
        /\ s.reference = None <=> shared.reference = None
    /\ shared' = s /\ s # shared /\ moved' = (moved \/ pc # "idle")
    /\ UNCHANGED <<config, head, pc, outcome, bound, allowed, generations, claimed, atBind, instrument>>
    /\ UNCHANGED <<cache, kept, evaluations>>

\* A loaded document is changed, and its digest is not.  The judge's fields
\* stay alone while it evaluates.
EditContract(c) ==
    /\ pc = "idle"
    /\ contract' = [contract EXCEPT !.content = c]
    /\ UNCHANGED <<protocol, instance, pc, outcome, run, cache, kept, evaluations>>

EditProtocol(p) ==
    /\ pc = "idle"
    /\ protocol' = [protocol EXCEPT !.content = p]
    /\ UNCHANGED <<contract, instance, pc, outcome, run, cache, kept, evaluations>>

-----------------------------------------------------------------------------
(* EvaluateWithOptions *)

Refuse(why) == pc' = "idle" /\ outcome' = why

\* BindCurrentIdentity: head is copied, shared is not.
Bind ==
    /\ pc = "idle" /\ evaluations < MaxEvaluations
    /\ evaluations' = evaluations + 1
    /\ bound' = Identified(head, shared)
    /\ atBind' = shared /\ moved' = FALSE
    /\ IF ValidInstance(Identified(head, shared), shared)
       THEN pc' = "bound" /\ outcome' = "none"
       ELSE Refuse("content")
    /\ generations' = << >> /\ allowed' = {} /\ claimed' = {} /\ instrument' = None
    /\ report' = None /\ verdict' = "none" /\ touched' = FALSE
    /\ UNCHANGED <<config, instance, cache, edits>>

\* Bug: a digest that was right when the document was loaded is not recomputed.
TrustsDocuments ==
    /\ ValidContract(contract.content) /\ ValidProtocol(protocol.content)
    /\ protocol.content.measurement = contract.digest

\* The contract, the protocol and the one naming the other.
SoundDocuments ==
    /\ ValidContract(contract.content)
    /\ contract.digest = ContractDigest(contract.content)
    /\ ValidProtocol(protocol.content)
    /\ protocol.digest = ProtocolDigest(protocol.content)
    /\ protocol.content.measurement = contract.digest

KnownTemplates ==
    \A s \in Steps :
        s \in DOMAIN protocol.content.templates /\ protocol.content.templates[s] = Templates[s]

\* validateEvidencePolicy; a policy is reduced to the kinds it forbids.
AdmittedEvidence(policy, policyDigest, items) ==
    /\ policyDigest = EvidencePolicyDigest(policy)
    /\ \A i \in DOMAIN items : items[i].kind \notin policy

\* Bug: the instance, which Bind has just validated, is not validated again.
SoundInstanceOnce == AdmittedEvidence(contract.content.policy, bound.policyDigest, shared.items)

SoundInstance ==
    /\ ValidInstance(bound, shared)
    /\ AdmittedEvidence(contract.content.policy, bound.policyDigest, shared.items)

\* validateFor.  It calls TemplateDigest, the application's code, between Bind
\* and the second look at the instance.
ValidateFor ==
    /\ pc = "bound"
    /\ IF ~SoundDocuments \/ ~KnownTemplates THEN Refuse("instrument") /\ UNCHANGED <<allowed, instrument>>
       ELSE IF ~SoundInstance THEN Refuse("evidence") /\ UNCHANGED <<allowed, instrument>>
       ELSE /\ pc' = "extract" /\ UNCHANGED outcome
            /\ allowed' = EvidenceIDs(shared.items)
            /\ instrument' = [contract |-> contract.content, protocol |-> protocol.content]
    /\ UNCHANGED <<config, instance, bound, generations, claimed, atBind, moved, cache, kept, edits, evaluations>>

\* The extraction prompt sees neither evidence nor reference nor facts; the
\* support prompt may show all of the instance.

\* Bug: the caller's struct is shown instead of the judge's copy.
PromptFromCaller == [step |-> "support", shows |-> <<head, shared>>]

ExtractPrompt == [step |-> "extract", shows |->
    <<bound.id, bound.input, bound.candidate, shared.metadata.text>>]
SupportPrompt == [step |-> "support", shows |-> <<bound, shared>>]

\* Bug: the step and the instance are taken to determine the prompt.
KeyWithoutPrompt(prompt) ==
    [protocol |-> protocol.digest, instance |-> bound.digest, step |-> prompt.step, prompt |-> None]

KeyOf(prompt) ==
    [protocol |-> protocol.digest, instance |-> bound.digest, step |-> prompt.step, prompt |-> prompt]

\* generate: an answer from the cache, or a new one that is stored.  asked is
\* the prompt that the answer was given to.
Answered(prompt, cites, asked) ==
    LET found == {entry \in cache : entry.key = KeyOf(prompt)} IN
    /\ IF found # {}
       THEN /\ \E entry \in found : cites = entry.cites /\ asked = entry.prompt
            /\ UNCHANGED cache
       ELSE /\ asked = prompt
            /\ cache' = cache \cup {[key |-> KeyOf(prompt), prompt |-> prompt, cites |-> cites]}
    /\ generations' = Append(generations, [prompt |-> prompt, asked |-> asked])

Extract ==
    /\ pc = "extract"
    /\ \E asked \in {ExtractPrompt} \cup {entry.prompt : entry \in cache} :
        Answered(ExtractPrompt, {}, asked)
    /\ pc' = "support"
    /\ UNCHANGED <<config, instance, outcome, bound, allowed, claimed, atBind, moved, instrument, kept, edits, evaluations>>

\* The model may cite what it likes.
JudgeSupport ==
    /\ pc = "support"
    /\ \E asked \in {SupportPrompt} \cup {entry.prompt : entry \in cache} :
        \E cites \in SUBSET UNION {EvidenceIDs(s.items) : s \in Shares} :
            Answered(SupportPrompt, cites, asked) /\ claimed' = cites
    /\ pc' = "report"
    /\ UNCHANGED <<config, instance, outcome, bound, allowed, atBind, moved, instrument, kept, edits, evaluations>>

-----------------------------------------------------------------------------
(* Reports *)

Body(r) == [instance |-> r.instance, protocol |-> r.protocol, cites |-> r.cites, provenance |-> r.provenance]
ReportDigest(r) == Sum("report", Body(r))

\* validateReportBody and validateRunProvenance; known holds the evidence ids
\* to check against, or nothing when they are nil.
ValidReportBody(r, known) ==
    /\ r.instance # NoDigest /\ r.protocol # NoDigest /\ r.provenance.contract # NoDigest
    /\ r.provenance.protocol = r.protocol
    /\ r.provenance.instance = r.instance
    /\ r.provenance.generations # << >>
    /\ \A i \in DOMAIN r.provenance.generations :
        r.provenance.generations[i].step \in DOMAIN r.provenance.templates
    /\ \A ids \in known : r.cites \subseteq ids

ValidReport(r, known) == ValidReportBody(r, known) /\ r.digest # NoDigest

Assembled == [
    instance |-> bound.digest, protocol |-> protocol.digest, cites |-> claimed,
    provenance |-> [
        contract |-> contract.digest, protocol |-> protocol.digest, instance |-> bound.digest,
        templates |-> protocol.content.templates,
        generations |-> [i \in DOMAIN generations |-> generations[i].prompt]],
    digest |-> NoDigest]

\* Bug: what is sealed is not validated first.
SealUnchecked ==
    /\ pc = "report"
    /\ report' = [Assembled EXCEPT !.digest = ReportDigest(Assembled)]
    /\ Refuse("sealed")
    /\ UNCHANGED <<config, instance, run, cache, verdict, touched, edits, evaluations>>

Seal ==
    /\ pc = "report"
    /\ IF ValidReportBody(Assembled, {allowed})
       THEN report' = [Assembled EXCEPT !.digest = ReportDigest(Assembled)] /\ Refuse("sealed")
       ELSE Refuse("report") /\ UNCHANGED report
    /\ UNCHANGED <<config, instance, run, cache, verdict, touched, edits, evaluations>>

\* The holder changes the report: what it cites, or the instance it is about.
EditReport ==
    /\ pc = "idle" /\ report # None /\ Edit
    /\ \/ \E cites \in SUBSET allowed : report' = [report EXCEPT !.cites = cites]
       \/ \E h \in Heads : report' = [report EXCEPT !.instance = InstanceDigest(h, shared)]
    /\ report' # report
    /\ touched' = TRUE /\ verdict' = "none"
    /\ UNCHANGED <<config, instance, pc, outcome, run, cache, evaluations>>

\* ValidateReport, with the evidence ids of the instance at hand, or without.
CheckReport ==
    /\ pc = "idle" /\ report # None
    /\ \E known \in {{}, {allowed}} : verdict' = IF ValidReport(report, known) THEN "valid" ELSE "invalid"
    /\ UNCHANGED <<config, instance, pc, outcome, run, cache, report, touched, edits, evaluations>>

Prepare ==
    /\ UNCHANGED <<outcome, run, cache, kept, edits, evaluations>>
    /\ \/ \E file \in ContractFiles : LoadContract(file)
       \/ \E file \in ProtocolFiles : LoadProtocol(file)
       \/ \E draft \in Drafts : NewInstance(draft) \/ ReadInstance(draft)

Change ==
    /\ Edit
    /\ \/ \E h \in Heads : EditHead(h)
       \/ \E s \in Shares : EditShared(s)
       \/ \E c \in Contents(ContractFiles) : EditContract(c)
       \/ \E p \in Contents(ProtocolFiles) : EditProtocol(p)

\* A prompt, a generation, a decoding or an aggregation fails.
Abort ==
    /\ pc \in {"extract", "support", "report"} /\ Refuse("failed")
    /\ UNCHANGED <<config, instance, run, cache, kept, edits, evaluations>>

Evaluate == Bind \/ ValidateFor \/ Extract \/ JudgeSupport \/ Seal \/ Abort

Next == Prepare \/ Change \/ Evaluate \/ EditReport \/ CheckReport

Spec == Init /\ [][Next]_vars

-----------------------------------------------------------------------------
(* Properties *)

Loaded(document) == document.file.parts[1].content

Sealed == pc = "idle" /\ outcome = "sealed"
Running == pc \in {"bound", "extract", "support", "report"}
Accepted == pc \in {"extract", "support", "report"} \/ outcome \in {"failed", "report", "sealed"}

\* Two protocols that differ at most in integers beyond the precision of a
\* float64, and in none of them by more than its spacings.
SameUpToRounding(p, q) ==
    /\ DOMAIN p = DOMAIN q
    /\ \A f \in DOMAIN p : p[f] # q[f] =>
        /\ f \in IntegerFields /\ p[f] \in Int64 /\ q[f] \in Int64
        /\ Magnitude(p[f]) >= Precision /\ Magnitude(q[f]) >= Precision
        /\ Magnitude(p[f] - q[f]) <= 1024

\* Every digest the program keeps is that of a content it had: a loaded
\* document's of its file, the copy's of the instance as it was bound, a cached
\* answer's key of its prompt; and a run is where its steps left it.  spec/load.go
\* 38, protocol/load.go 47, eval/bind.go 9-24, judging/claimjudge.go 125-181, 525.
IdentityIInv ==
    /\ pc # "contract" => contract.digest = ContractDigest(Loaded(contract))
    /\ pc \notin {"contract", "protocol"} => protocol.digest = ProtocolDigest(Loaded(protocol))
    /\ \A entry \in cache : entry.key.prompt = entry.prompt
    /\ evaluations > 0 /\ outcome # "content" => ValidInstance(bound, atBind)
    /\ Accepted =>
        /\ allowed = EvidenceIDs(atBind.items)
        /\ AdmittedEvidence(instrument.contract.policy, bound.policyDigest, atBind.items)
    /\ Running /\ ~moved => atBind = shared

\* A sealed report names the instrument that was used.  The judge's documents
\* may have been edited since they were loaded (judging/claimjudge.go 190-212
\* recomputes both digests): the contract used is then still the loaded one, and
\* the protocol differs from it at most in integers (seed, token limit, attempts)
\* of at least 2^53, which canonical JSON rounds.  That much is all the code gives:
\* distinct int64 are meant to have distinct digests (design-doc/02 217-219).
ReportNamesItsInstrument ==
    Sealed =>
        /\ report.provenance.contract = ContractDigest(Loaded(contract))
        /\ instrument.contract = Loaded(contract)
        /\ instrument.protocol.measurement = report.provenance.contract
        /\ SameUpToRounding(instrument.protocol, Loaded(protocol))

\* A report that was not changed since it was sealed is about the instance as it
\* was when the evaluation began, whatever digests the caller's struct carried and
\* whatever was edited in place meanwhile, and that instance was valid and admitted
\* by the contract used (eval/bind.go 5-24, judging/claimjudge.go 226-229).
ReportNamesTheContent ==
    Sealed /\ ~touched =>
        /\ report.instance = InstanceDigest(bound, atBind)
        /\ ValidInstance(bound, atBind)
        /\ AdmittedEvidence(instrument.contract.policy, bound.policyDigest, atBind.items)
        /\ report.cites \subseteq EvidenceIDs(atBind.items)

\* Binding refuses an instance for what it says, never for the digests that
\* its struct happened to carry (eval/bind.go 5-8).
OnlyContentIsRefused == outcome = "content" => ~ValidContent(bound, atBind)

\* An answer in a report was given to the very prompt that the report names,
\* also when it came from the cache and the instance's contents were edited under
\* the judge (judging/claimjudge.go 525-530).
AnswersFitPrompts == \A i \in DOMAIN generations : generations[i].asked = generations[i].prompt

\* Unless the shared part was edited since it was bound, a report's prompts show
\* the instance whose digest it carries, edits of the caller's own struct
\* notwithstanding (judging/claimjudge.go 136, 272-277, 304).
PromptsShowTheContent ==
    Sealed /\ ~moved =>
        /\ bound.digest = InstanceDigest(bound, atBind)
        /\ generations[1].prompt.shows = <<bound.id, bound.input, bound.candidate, atBind.metadata.text>>
        /\ generations[2].prompt.shows = <<bound, atBind>>

\* "After Seal, ValidateReport passes" (assessment/digest.go 63-65), with the
\* evidence ids of the run or without.
SealedIsValid == Sealed /\ ~touched => verdict # "invalid"

\* What the guide says of ValidateReport: a valid report's digest is that of its
\* content.  assessment/validate.go 148 looks at the prefix only.
ValidMeansUnchanged == verdict = "valid" => report.digest = ReportDigest(report)

=============================================================================
