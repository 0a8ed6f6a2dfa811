--------------------------- MODULE IdentityProofs ---------------------------
(***************************************************************************)
(* Theorems about Identity, for all documents, instances and edits: what a *)
(* sealed report's digests stand for.                                      *)
(***************************************************************************)
EXTENDS Identity, SequenceTheorems, TLAPS

-----------------------------------------------------------------------------
(* Digests *)

\* Half of Precision, the least mantissa of a spacing above one.
LEMMA HalfPrecision ==
    /\ Precision \in Nat /\ Precision \div 2 \in Nat
    /\ Precision = 2 * (Precision \div 2) /\ Precision \div 2 >= 2
BY IdentityAssumption

\* Every int64 lies between float64 of one of the spacings.
LEMMA SpacingExists ==
    ASSUME NEW n \in Int64
    PROVE  /\ SpacingAt(n) \in Spacings
           /\ Magnitude(n) <= SpacingAt(n) * Precision
           /\ SpacingAt(n) = 1 \/ Magnitude(n) > (SpacingAt(n) \div 2) * Precision
<1> DEFINE P == Precision
           fits(s) == Magnitude(n) <= s * P /\ (s = 1 \/ Magnitude(n) > (s \div 2) * P)
<1>1. Magnitude(n) \in Nat /\ Magnitude(n) <= 1024 * P
    BY HalfPrecision DEF Int64, Magnitude
<1>2. \E s \in Spacings : fits(s)
    <2>1. CASE Magnitude(n) <= 16 * P
        <3>1. fits(1) \/ fits(2) \/ fits(4) \/ fits(8) \/ fits(16)
            BY <1>1, <2>1, HalfPrecision
        <3> HIDE DEF fits
        <3> QED
            BY <3>1 DEF Spacings
    <2>2. CASE Magnitude(n) > 16 * P
        <3>1. fits(32) \/ fits(64) \/ fits(128) \/ fits(256) \/ fits(512) \/ fits(1024)
            BY <1>1, <2>2, HalfPrecision
        <3> HIDE DEF fits
        <3> QED
            BY <3>1 DEF Spacings
    <2> QED
        BY <1>1, <2>1, <2>2, HalfPrecision
<1> QED
    BY <1>2 DEF SpacingAt

\* Rounding to a multiple of s moves an integer by half of s at most, and not
\* past a multiple of s.
LEMMA NearestBounds ==
    ASSUME NEW n \in Int, NEW h \in Nat, NEW s \in Spacings
    PROVE  /\ Nearest(n, s) \in Int
           /\ 2 * (Nearest(n, s) - n) <= s /\ 2 * (n - Nearest(n, s)) <= s
           /\ n >= s * h => Nearest(n, s) >= s * h
           /\ -n >= s * h => -Nearest(n, s) >= s * h
<1> DEFINE fits(c) ==
        /\ Nearest(n, c) \in Int
        /\ 2 * (Nearest(n, c) - n) <= c /\ 2 * (n - Nearest(n, c)) <= c
        /\ n >= c * h => Nearest(n, c) >= c * h
        /\ -n >= c * h => -Nearest(n, c) >= c * h
<1>1. fits(1)
    BY DEF Nearest
<1>2. fits(2)
    BY DEF Nearest
<1>3. fits(4)
    BY DEF Nearest
<1>4. fits(8)
    BY DEF Nearest
<1>5. fits(16)
    BY DEF Nearest
<1>6. fits(32)
    BY DEF Nearest
<1>7. fits(64)
    BY DEF Nearest
<1>8. fits(128)
    BY DEF Nearest
<1>9. fits(256)
    BY DEF Nearest
<1>10. fits(512)
    BY DEF Nearest
<1>11. fits(1024)
    BY DEF Nearest
<1> HIDE DEF fits
<1>12. \A c \in Spacings : fits(c)
    BY <1>1, <1>2, <1>3, <1>4, <1>5, <1>6, <1>7, <1>8, <1>9, <1>10, <1>11 DEF Spacings
<1> QED
    BY <1>12 DEF fits

\* What canonical JSON keeps of an int64: all of it up to Precision, and above
\* that a number of at least Precision that is near.
LEMMA FloatIsNear ==
    ASSUME NEW n \in Int64
    PROVE  /\ Float(n) \in Int
           /\ 2 * Magnitude(Float(n) - n) <= 1024
           /\ Magnitude(n) <= Precision => Float(n) = n
           /\ Magnitude(n) > Precision => Magnitude(Float(n)) >= Precision
<1> DEFINE P == Precision
           h == P \div 2
           s == SpacingAt(n)
<1>1. n \in Int /\ n # None
    BY IdentityAssumption DEF Int64
<1>2. Float(n) = Nearest(n, s)
    BY <1>1 DEF Float
<1>3. /\ s \in Spacings /\ Magnitude(n) <= s * P
      /\ s = 1 \/ Magnitude(n) > (s \div 2) * P
    BY SpacingExists
<1>4. h \in Nat /\ P = 2 * h /\ P \in Nat
    BY HalfPrecision
<1> HIDE DEF s, h
<1>5. /\ Nearest(n, s) \in Int
      /\ 2 * (Nearest(n, s) - n) <= s /\ 2 * (n - Nearest(n, s)) <= s
      /\ n >= s * h => Nearest(n, s) >= s * h
      /\ -n >= s * h => -Nearest(n, s) >= s * h
    BY <1>1, <1>3, <1>4, NearestBounds
<1>6. s \in Nat /\ s <= 1024
    BY <1>3 DEF Spacings
<1>7. Float(n) \in Int /\ 2 * Magnitude(Float(n) - n) <= 1024
    BY <1>1, <1>2, <1>5, <1>6 DEF Magnitude
<1>8. ASSUME Magnitude(n) <= P PROVE Float(n) = n
    <2>1. s = 1
        BY <1>1, <1>3, <1>4, <1>8 DEF Spacings, Magnitude
    <2> QED
        BY <1>1, <1>2, <1>5, <2>1
<1>9. ASSUME Magnitude(n) > P PROVE Magnitude(Float(n)) >= P
    <2>1. s # 1
        BY <1>1, <1>3, <1>4, <1>9 DEF Magnitude
    <2>2. s * h >= P /\ Magnitude(n) >= s * h
        BY <1>1, <1>3, <1>4, <2>1 DEF Spacings, Magnitude
    <2>3. s * h \in Int
        BY <1>4, <1>6
    <2> QED
        BY <1>1, <1>2, <1>4, <1>5, <2>2, <2>3 DEF Magnitude
<1> QED
    BY <1>7, <1>8, <1>9

\* Integers that canonical JSON cannot tell apart are beyond its precision, and
\* near to each other.
LEMMA FloatTells ==
    ASSUME NEW m \in Int64, NEW n \in Int64, Float(m) = Float(n), m # n
    PROVE  /\ Magnitude(m) >= Precision
           /\ Magnitude(m - n) <= 1024
<1>1. m \in Int /\ n \in Int /\ Precision \in Nat
    BY HalfPrecision DEF Int64
<1>2. Float(m) \in Int /\ 2 * Magnitude(Float(m) - m) <= 1024 /\ 2 * Magnitude(Float(n) - n) <= 1024
    BY FloatIsNear
<1>3. Magnitude(m - n) <= 1024
    BY <1>1, <1>2 DEF Magnitude
<1>4. ASSUME Magnitude(m) < Precision PROVE FALSE
    <2>1. Float(m) = m
        <3>1. Magnitude(m) <= Precision
            BY <1>1, <1>4 DEF Magnitude
        <3> QED
            BY <3>1, FloatIsNear
    <2>2. Magnitude(n) <= Precision
        <3>1. Magnitude(n) > Precision => Magnitude(Float(n)) >= Precision
            BY FloatIsNear
        <3>2. Float(n) = m
            BY <2>1
        <3>3. Magnitude(n) > Precision => Magnitude(m) >= Precision
            BY <3>1, <3>2
        <3> QED
            BY <1>1, <1>4, <3>3 DEF Magnitude
    <2>3. Float(n) = n
        BY <2>2, FloatIsNear
    <2> QED
        BY <2>1, <2>3
<1> QED
    BY <1>1, <1>3, <1>4 DEF Magnitude

\* Equal digests of two protocols leave only rounded integers to tell them apart
\* (protocol/load.go 19-22, internal/canonicaljson/canonicaljson.go 39-53).
LEMMA ProtocolDigestsTell ==
    ASSUME NEW p \in Contents(ProtocolFiles), NEW q \in Contents(ProtocolFiles),
           ProtocolDigest(p) = ProtocolDigest(q)
    PROVE  SameUpToRounding(p, q)
<1>1. CanonicalProtocol(p) = CanonicalProtocol(q)
    BY DEF ProtocolDigest, Sum
<1>2. DOMAIN p = DOMAIN q
    <2>1. DOMAIN CanonicalProtocol(p) = DOMAIN p /\ DOMAIN CanonicalProtocol(q) = DOMAIN q
        BY DEF CanonicalProtocol
    <2> QED
        BY <1>1, <2>1
<1>3. ASSUME NEW f \in DOMAIN p, p[f] # q[f]
      PROVE  /\ f \in IntegerFields /\ p[f] \in Int64 /\ q[f] \in Int64
             /\ Magnitude(p[f]) >= Precision /\ Magnitude(q[f]) >= Precision
             /\ Magnitude(p[f] - q[f]) <= 1024
    <2>1. CanonicalProtocol(p)[f] = (IF f \in IntegerFields THEN Float(p[f]) ELSE p[f])
        BY DEF CanonicalProtocol
    <2>2. CanonicalProtocol(q)[f] = (IF f \in IntegerFields THEN Float(q[f]) ELSE q[f])
        BY <1>2 DEF CanonicalProtocol
    <2>3. f \in IntegerFields /\ Float(p[f]) = Float(q[f])
        BY <1>1, <1>3, <2>1, <2>2
    <2>4. p[f] \in Int64 \cup {None} /\ q[f] \in Int64 \cup {None}
        BY <2>3, IdentityAssumption DEF IntegerFields
    <2>5. p[f] # None /\ q[f] # None
        <3>1. Float(None) = None /\ None \notin Int
            BY IdentityAssumption DEF Float
        <3>2. \A n \in Int64 : Float(n) # None
            BY <3>1, FloatIsNear
        <3> QED
            BY <1>3, <2>3, <2>4, <3>1, <3>2
    <2>6. p[f] \in Int64 /\ q[f] \in Int64
        BY <2>4, <2>5
    <2>7. Magnitude(p[f]) >= Precision /\ Magnitude(p[f] - q[f]) <= 1024
        BY <1>3, <2>3, <2>6, FloatTells
    <2>8. Magnitude(q[f]) >= Precision
        BY <1>3, <2>3, <2>6, FloatTells
    <2> QED
        BY <2>3, <2>6, <2>7, <2>8
<1> QED
    BY <1>2, <1>3 DEF SameUpToRounding

\* A bound instance that is still valid has changed at most in sizes that are
\* rounded: its evidence has the ids and kinds it had (claimjudge.go 226,
\* eval/validate.go 185-191).
LEMMA StillValidIsUnchanged ==
    ASSUME NEW h, NEW s, NEW t, ValidInstance(h, s), ValidInstance(h, t)
    PROVE  /\ EvidenceIDs(s.items) = EvidenceIDs(t.items)
           /\ {s.items[i].kind : i \in DOMAIN s.items} = {t.items[i].kind : i \in DOMAIN t.items}
<1>1. CanonicalShared(s) = CanonicalShared(t)
    BY DEF ValidInstance, InstanceDigest, Sum
<1>2. CanonicalItems(s.items) = CanonicalItems(t.items)
    BY <1>1 DEF CanonicalShared
<1>3. DOMAIN s.items = DOMAIN t.items
    BY <1>2 DEF CanonicalItems
<1>4. ASSUME NEW i \in DOMAIN s.items
      PROVE  s.items[i].id = t.items[i].id /\ s.items[i].kind = t.items[i].kind
    <2>1. CanonicalItem(s.items[i]) = CanonicalItem(t.items[i])
        BY <1>2, <1>3 DEF CanonicalItems
    <2> QED
        BY <2>1 DEF CanonicalItem
<1> QED
    BY <1>3, <1>4 DEF EvidenceIDs

-----------------------------------------------------------------------------
(* The inductive invariant *)

Preparing == pc \in {"contract", "protocol", "instance"}

\* A document keeps the digest of its file, whatever became of its content.
DocumentsInv ==
    /\ pc # "contract" =>
        contract = [content |-> contract.content,
                    digest |-> ContractDigest(Loaded(contract)), file |-> contract.file]
    /\ pc \notin {"contract", "protocol"} =>
        /\ protocol = [content |-> protocol.content,
                       digest |-> ProtocolDigest(Loaded(protocol)), file |-> protocol.file]
        /\ {protocol.content, Loaded(protocol)} \subseteq Contents(ProtocolFiles)
    /\ ~Preparing => {"policyDigest", "evidenceDigest", "digest"} \subseteq DOMAIN head

\* Where a run stands.
ProgressInv ==
    /\ evaluations \in Nat
    /\ outcome # "none" => evaluations > 0
    /\ Preparing => evaluations = 0 /\ outcome = "none"
    /\ Running => evaluations > 0 /\ outcome = "none" /\ verdict = "none" /\ ~touched

\* What a run found out about the instance and the instrument.
EvidenceInv ==
    /\ evaluations > 0 /\ outcome # "content" => ValidInstance(bound, atBind)
    /\ outcome = "content" => ~ValidContent(bound, atBind)
    /\ Running /\ ~moved => atBind = shared
    /\ Accepted =>
        /\ allowed = EvidenceIDs(atBind.items)
        /\ AdmittedEvidence(instrument.contract.policy, bound.policyDigest, atBind.items)
        /\ instrument.contract = Loaded(contract)
        /\ instrument.protocol.measurement = contract.digest
        /\ SameUpToRounding(instrument.protocol, Loaded(protocol))

ExtractShows == <<bound.id, bound.input, bound.candidate, atBind.metadata.text>>

\* The prompts of a run and their answers.
PromptsInv ==
    /\ \A entry \in cache : entry.key.prompt = entry.prompt
    /\ AnswersFitPrompts
    /\ pc \in {"bound", "extract"} => generations = << >>
    /\ pc = "support" => generations = <<generations[1]>>
    /\ ~moved /\ (pc \in {"support", "report"} \/ outcome = "sealed") =>
        generations[1].prompt.shows = ExtractShows
    /\ ~moved /\ (pc = "report" \/ outcome = "sealed") =>
        generations[2].prompt.shows = <<bound, atBind>>

\* The report and what was said of it.
ReportInv ==
    outcome = "sealed" =>
        /\ "provenance" \in DOMAIN report
        /\ report.provenance.contract = contract.digest
        /\ ~touched =>
            /\ report.instance = bound.digest
            /\ ValidReport(report, {allowed})
            /\ verdict # "invalid"

IInv == DocumentsInv /\ ProgressInv /\ EvidenceInv /\ PromptsInv /\ ReportInv

\* Nothing has been loaded, evaluated or sealed.
LEMMA InitInv == Init => IInv
BY DEF Init, IInv, DocumentsInv, ProgressInv, EvidenceInv, PromptsInv, ReportInv, Preparing, Running,
       Accepted, AnswersFitPrompts

\* What a decodable file holds first is one of its contents.
LEMMA FirstContent ==
    ASSUME NEW files, files \in {ContractFiles, ProtocolFiles}, NEW file \in files, Decodes(file)
    PROVE  file.parts[1].content \in Contents(files)
<1>1. file.parts \in Seq({file.parts[i] : i \in DOMAIN file.parts}) /\ file.parts # << >>
    BY IdentityAssumption DEF Decodes
<1>2. 1 \in DOMAIN file.parts
    BY <1>1
<1> QED
    BY <1>2 DEF Contents

\* Loading and assembling: nothing has run yet.
LEMMA PrepareKeeps ==
    ASSUME IInv, Prepare
    PROVE  IInv'
<1>0. UNCHANGED <<outcome, run, cache, kept, edits, evaluations>>
    BY DEF Prepare
<1> USE <1>0 DEF config, instance, run, kept
<1>1. CASE \E file \in ContractFiles : LoadContract(file)
    <2>1. DocumentsInv'
        BY <1>1 DEF LoadContract, IInv, DocumentsInv, Loaded, Preparing
    <2>2. ProgressInv' /\ EvidenceInv' /\ PromptsInv' /\ ReportInv'
        BY <1>1 DEF LoadContract, IInv, ProgressInv, EvidenceInv, PromptsInv, ReportInv, Preparing,
                    Running, Accepted, AnswersFitPrompts, ExtractShows, ValidInstance
    <2> QED
        BY <2>1, <2>2 DEF IInv
<1>2. CASE \E file \in ProtocolFiles : LoadProtocol(file)
    <2>1. PICK file \in ProtocolFiles : LoadProtocol(file)
        BY <1>2
    <2>2. file.parts[1].content \in Contents(ProtocolFiles)
        BY <2>1, FirstContent DEF LoadProtocol
    <2>3. DocumentsInv'
        BY <2>1, <2>2 DEF LoadProtocol, IInv, DocumentsInv, Loaded, Preparing
    <2>4. ProgressInv' /\ EvidenceInv' /\ PromptsInv' /\ ReportInv'
        BY <2>1 DEF LoadProtocol, IInv, ProgressInv, EvidenceInv, PromptsInv, ReportInv, Preparing,
                    Running, Accepted, AnswersFitPrompts, ExtractShows, ValidInstance
    <2> QED
        BY <2>3, <2>4 DEF IInv
<1>3. CASE \E draft \in Drafts : NewInstance(draft) \/ ReadInstance(draft)
    <2>1. PICK draft \in Drafts : NewInstance(draft) \/ ReadInstance(draft)
        BY <1>3
    <2>2. {"policyDigest", "evidenceDigest", "digest"} \subseteq DOMAIN draft.head
        BY IdentityAssumption
    <2>3. head' = draft.head \/ head' = Identified(draft.head, draft.shared)
        BY <2>1 DEF NewInstance, ReadInstance
    <2>4. DOMAIN Identified(draft.head, draft.shared) = DOMAIN draft.head
        BY DEF Identified
    <2>5. DocumentsInv'
        <3>1. {"policyDigest", "evidenceDigest", "digest"} \subseteq DOMAIN head'
            BY <2>2, <2>3, <2>4
        <3> QED
            BY <2>1, <3>1 DEF NewInstance, ReadInstance, IInv, DocumentsInv, Loaded, Preparing
    <2>6. ProgressInv' /\ EvidenceInv' /\ PromptsInv' /\ ReportInv'
        BY <2>1 DEF NewInstance, ReadInstance, IInv, ProgressInv, EvidenceInv, PromptsInv, ReportInv,
                    Preparing, Running, Accepted, AnswersFitPrompts, ExtractShows, ValidInstance
    <2> QED
        BY <2>5, <2>6 DEF IInv
<1> QED
    BY <1>1, <1>2, <1>3 DEF Prepare

\* The caller's edits: of an unbound struct, of what the judge shares, of a document.
LEMMA ChangeKeeps ==
    ASSUME IInv, Change
    PROVE  IInv'
<1>0. Edit
    BY DEF Change
<1> USE <1>0 DEF config, instance, run, kept
<1>1. CASE \E h \in Heads : EditHead(h)
    <2>1. DocumentsInv'
        <3>1. PICK h \in Heads : EditHead(h)
            BY <1>1
        <3>2. DOMAIN head' = DOMAIN h
            BY <3>1 DEF EditHead
        <3>3. {"policyDigest", "evidenceDigest", "digest"} \subseteq DOMAIN h
            BY IdentityAssumption
        <3> QED
            BY <3>1, <3>2, <3>3 DEF EditHead, IInv, DocumentsInv, Loaded, Preparing
    <2>2. ProgressInv' /\ EvidenceInv' /\ PromptsInv' /\ ReportInv'
        BY <1>1 DEF EditHead, IInv, ProgressInv, EvidenceInv, PromptsInv, ReportInv, Preparing,
                    Running, Accepted, AnswersFitPrompts, ExtractShows
    <2> QED
        BY <2>1, <2>2 DEF IInv
<1>2. CASE \E s \in Shares : EditShared(s)
    <2>1. DocumentsInv' /\ ProgressInv' /\ ReportInv'
        BY <1>2 DEF EditShared, IInv, DocumentsInv, ProgressInv, ReportInv, Loaded, Preparing, Running
    <2>2. EvidenceInv'
        BY <1>2 DEF EditShared, IInv, EvidenceInv, Running, Accepted, Loaded
    <2>3. PromptsInv'
        BY <1>2 DEF EditShared, IInv, PromptsInv, AnswersFitPrompts, ExtractShows
    <2> QED
        BY <2>1, <2>2, <2>3 DEF IInv
<1>3. CASE \E c \in Contents(ContractFiles) : EditContract(c)
    <2>1. PICK c \in Contents(ContractFiles) : EditContract(c)
        BY <1>3
    <2>2. contract = [content |-> contract.content,
                      digest |-> ContractDigest(Loaded(contract)), file |-> contract.file]
        BY <2>1 DEF EditContract, IInv, DocumentsInv
    <2>3. contract'.digest = contract.digest /\ contract'.file = contract.file
          /\ contract' = [content |-> c, digest |-> contract.digest, file |-> contract.file]
        BY <2>1, <2>2 DEF EditContract
    <2>4. Loaded(contract') = Loaded(contract)
        BY <2>3 DEF Loaded
    <2>5. DocumentsInv'
        BY <2>1, <2>2, <2>3, <2>4 DEF EditContract, IInv, DocumentsInv, Preparing, Loaded
    <2>6. EvidenceInv'
        BY <2>1, <2>3, <2>4 DEF EditContract, IInv, EvidenceInv, Running, Accepted
    <2>7. ProgressInv' /\ PromptsInv' /\ ReportInv'
        BY <2>1, <2>3 DEF EditContract, IInv, ProgressInv, PromptsInv, ReportInv, Preparing, Running,
                          AnswersFitPrompts, ExtractShows
    <2> QED
        BY <2>5, <2>6, <2>7 DEF IInv
<1>4. CASE \E p \in Contents(ProtocolFiles) : EditProtocol(p)
    <2>1. PICK p \in Contents(ProtocolFiles) : EditProtocol(p)
        BY <1>4
    <2>2. protocol = [content |-> protocol.content,
                      digest |-> ProtocolDigest(Loaded(protocol)), file |-> protocol.file]
        BY <2>1 DEF EditProtocol, IInv, DocumentsInv
    <2>3. protocol' = [content |-> p, digest |-> protocol.digest, file |-> protocol.file]
        BY <2>1, <2>2 DEF EditProtocol
    <2>4. Loaded(protocol') = Loaded(protocol) /\ protocol'.digest = protocol.digest
        BY <2>3 DEF Loaded
    <2>5. DocumentsInv'
        BY <2>1, <2>2, <2>3, <2>4 DEF EditProtocol, IInv, DocumentsInv, Preparing, Loaded
    <2>6. EvidenceInv'
        BY <2>1, <2>4 DEF EditProtocol, IInv, EvidenceInv, Running, Accepted, Loaded
    <2>7. ProgressInv' /\ PromptsInv' /\ ReportInv'
        BY <2>1 DEF EditProtocol, IInv, ProgressInv, PromptsInv, ReportInv, Preparing, Running,
                    AnswersFitPrompts, ExtractShows
    <2> QED
        BY <2>5, <2>6, <2>7 DEF IInv
<1> QED
    BY <1>1, <1>2, <1>3, <1>4 DEF Change

\* Binding recomputes both digests: only the content can be wrong with the result.
LEMMA IdentifiedFits ==
    ASSUME NEW h, NEW s, {"policyDigest", "evidenceDigest", "digest"} \subseteq DOMAIN h,
           ValidContent(Identified(h, s), s)
    PROVE  ValidInstance(Identified(h, s), s)
<1> DEFINE e == [h EXCEPT !.evidenceDigest = EvidenceSetDigest(s.items, h.policyDigest)]
           i == Identified(h, s)
<1>1. i = [e EXCEPT !.digest = InstanceDigest(e, s)]
    BY DEF Identified
<1>2. i.evidenceDigest = EvidenceSetDigest(s.items, h.policyDigest) /\ i.policyDigest = h.policyDigest
    BY <1>1
<1>3. i.digest = InstanceDigest(e, s)
    BY <1>1
<1>4. CanonicalHead(i) = CanonicalHead(e)
    BY <1>1 DEF CanonicalHead
<1>5. InstanceDigest(i, s) = InstanceDigest(e, s)
    BY <1>4 DEF InstanceDigest
<1> QED
    BY <1>2, <1>3, <1>5 DEF ValidInstance

LEMMA BindKeeps ==
    ASSUME IInv, Bind
    PROVE  IInv'
<1> USE DEF config, instance, run, kept
<1>1. {"policyDigest", "evidenceDigest", "digest"} \subseteq DOMAIN head
    BY DEF Bind, IInv, DocumentsInv, Preparing
<1>2. pc' \in {"bound", "idle"} /\ outcome' \in {"none", "content"}
      /\ (pc' = "bound" <=> outcome' = "none") /\ pc = "idle"
    BY DEF Bind, Refuse
<1>3. evaluations \in Nat /\ evaluations' = evaluations + 1
    BY DEF Bind, IInv, ProgressInv
<1>4. DocumentsInv'
    BY <1>1, <1>2 DEF Bind, IInv, DocumentsInv, Preparing, Loaded
<1>5. ProgressInv'
    BY <1>2, <1>3 DEF Bind, ProgressInv, Preparing, Running
<1>6. EvidenceInv'
    <2>1. outcome' # "content" => ValidInstance(bound', atBind')
        BY <1>2 DEF Bind, Refuse
    <2>2. outcome' = "content" => ~ValidContent(bound', atBind')
        BY <1>1, <1>2, IdentifiedFits DEF Bind, Refuse
    <2>3. ~Accepted' /\ atBind' = shared'
        BY <1>2 DEF Bind, Accepted
    <2> QED
        BY <2>1, <2>2, <2>3 DEF EvidenceInv
<1>7. PromptsInv' /\ ReportInv'
    BY <1>2 DEF Bind, IInv, PromptsInv, ReportInv, AnswersFitPrompts
<1> QED
    BY <1>4, <1>5, <1>6, <1>7 DEF IInv

\* The second look at the instance sees what was bound, or refuses it.
LEMMA ValidateForKeeps ==
    ASSUME IInv, ValidateFor
    PROVE  IInv'
<1> USE DEF config, instance, run, kept
<1>1. DocumentsInv' /\ ReportInv' /\ PromptsInv' /\ ProgressInv'
    BY DEF ValidateFor, Refuse, IInv, DocumentsInv, ReportInv, PromptsInv, ProgressInv, AnswersFitPrompts,
           ExtractShows, Preparing, Running, Loaded
<1>2. evaluations > 0 /\ outcome = "none" /\ ValidInstance(bound, atBind) /\ Running
    BY DEF ValidateFor, IInv, ProgressInv, EvidenceInv, Running
<1>3. CASE SoundDocuments /\ KnownTemplates /\ SoundInstance
    <2>1. ValidInstance(bound, shared) /\ AdmittedEvidence(contract.content.policy, bound.policyDigest, shared.items)
        BY <1>3 DEF SoundInstance
    <2>2. /\ EvidenceIDs(shared.items) = EvidenceIDs(atBind.items)
          /\ AdmittedEvidence(contract.content.policy, bound.policyDigest, atBind.items)
        BY <1>2, <2>1, StillValidIsUnchanged DEF AdmittedEvidence
    <2>3. contract.content = Loaded(contract)
        BY <1>3 DEF SoundDocuments, ValidateFor, IInv, DocumentsInv, ContractDigest, Sum
    <2>4. SameUpToRounding(protocol.content, Loaded(protocol))
        <3>1. ProtocolDigest(protocol.content) = ProtocolDigest(Loaded(protocol))
              /\ {protocol.content, Loaded(protocol)} \subseteq Contents(ProtocolFiles)
            BY <1>3 DEF SoundDocuments, ValidateFor, IInv, DocumentsInv
        <3> QED
            BY <3>1, ProtocolDigestsTell
    <2>5. /\ instrument' = [contract |-> contract.content, protocol |-> protocol.content]
          /\ allowed' = EvidenceIDs(shared.items) /\ outcome' = outcome /\ pc' = "extract"
          /\ UNCHANGED <<config, shared, bound, atBind, moved, evaluations>>
        BY <1>3 DEF ValidateFor
    <2>6. protocol.content.measurement = contract.digest
        BY <1>3 DEF SoundDocuments
    <2>7. EvidenceInv'
        BY <1>2, <2>2, <2>3, <2>4, <2>5, <2>6 DEF IInv, EvidenceInv, Running, Accepted
    <2> QED
        BY <1>1, <2>7 DEF IInv
<1>4. CASE ~(SoundDocuments /\ KnownTemplates /\ SoundInstance)
    <2>1. pc' = "idle" /\ outcome' \in {"instrument", "evidence"}
          /\ UNCHANGED <<bound, atBind, evaluations>>
        BY <1>4 DEF ValidateFor, Refuse
    <2>2. EvidenceInv'
        BY <1>2, <2>1 DEF EvidenceInv, Running, Accepted
    <2> QED
        BY <1>1, <2>2 DEF IInv
<1> QED
    BY <1>3, <1>4

\* An answer, from the cache or new, was given to the prompt it answers.
LEMMA AnsweredFits ==
    ASSUME NEW prompt, NEW cites, NEW asked, Answered(prompt, cites, asked),
           \A entry \in cache : entry.key.prompt = entry.prompt
    PROVE  /\ \A entry \in cache' : entry.key.prompt = entry.prompt
           /\ generations' = Append(generations, [prompt |-> prompt, asked |-> prompt])
<1>1. CASE {entry \in cache : entry.key = KeyOf(prompt)} # {}
    BY <1>1 DEF Answered, KeyOf
<1>2. CASE {entry \in cache : entry.key = KeyOf(prompt)} = {}
    BY <1>2 DEF Answered, KeyOf
<1> QED
    BY <1>1, <1>2

LEMMA AppendToOne ==
    ASSUME NEW a, NEW b
    PROVE  Append(<<a>>, b) = <<a, b>>
<1>1. <<a>> \in Seq({a, b}) /\ Len(<<a>>) = 1
    OBVIOUS
<1>2. Append(<<a>>, b) \in Seq({a, b}) /\ Len(Append(<<a>>, b)) = 2
      /\ Append(<<a>>, b)[1] = a /\ Append(<<a>>, b)[2] = b
    BY <1>1, AppendProperties
<1>3. <<a, b>> \in Seq({a, b}) /\ Len(<<a, b>>) = 2 /\ <<a, b>>[1] = a /\ <<a, b>>[2] = b
    OBVIOUS
<1> DEFINE s == Append(<<a>>, b)
           t == <<a, b>>
<1>4. /\ s \in Seq({a, b}) /\ t \in Seq({a, b}) /\ Len(s) = Len(t)
      /\ \A i \in 1 .. Len(s) : s[i] = t[i]
    <2> HIDE DEF s, t
    <2>1. s \in Seq({a, b}) /\ Len(s) = 2 /\ s[1] = a /\ s[2] = b
        BY <1>2 DEF s
    <2>2. t \in Seq({a, b}) /\ Len(t) = 2 /\ t[1] = a /\ t[2] = b
        BY <1>3 DEF t
    <2> QED
        BY <2>1, <2>2
<1>5. s = t
    <2> HIDE DEF s, t
    <2> QED
        BY <1>4, SeqEqual
<1> QED
    BY <1>5

LEMMA GenerationKeeps ==
    ASSUME IInv, Extract \/ JudgeSupport
    PROVE  IInv'
<1> USE DEF config, instance, run, kept
<1>1. DocumentsInv' /\ ReportInv' /\ ProgressInv'
    BY DEF Extract, JudgeSupport, IInv, DocumentsInv, ReportInv, ProgressInv, Preparing, Running, Loaded
<1>2. EvidenceInv'
    BY DEF Extract, JudgeSupport, IInv, EvidenceInv, Running, Accepted
<1>3. outcome = "none" /\ outcome' = "none" /\ (~moved => atBind = shared)
    BY DEF Extract, JudgeSupport, IInv, ProgressInv, EvidenceInv, Running
<1>4. \A entry \in cache : entry.key.prompt = entry.prompt
    BY DEF IInv, PromptsInv
<1>5. CASE Extract
    <2> DEFINE prompt == ExtractPrompt
    <2>1. PICK asked : Answered(prompt, {}, asked)
        BY <1>5 DEF Extract
    <2>2. generations' = Append(generations, [prompt |-> prompt, asked |-> prompt])
          /\ \A entry \in cache' : entry.key.prompt = entry.prompt
        <3> HIDE DEF prompt
        <3> QED
            BY <1>4, <2>1, AnsweredFits
    <2>3. generations = << >>
        BY <1>5 DEF Extract, IInv, PromptsInv
    <2>4. generations' = << [prompt |-> prompt, asked |-> prompt] >>
        BY <2>2, <2>3
    <2>5. ~moved => prompt.shows = ExtractShows
        BY <1>3 DEF ExtractPrompt, ExtractShows
    <2>6. AnswersFitPrompts'
        BY <2>4 DEF AnswersFitPrompts
    <2>7. PromptsInv'
        <3>1. pc' = "support" /\ UNCHANGED <<bound, atBind, moved>>
            BY <1>5 DEF Extract
        <3>2. generations'[1] = [prompt |-> prompt, asked |-> prompt] /\ generations' = <<generations'[1]>>
            BY <2>4
        <3>3. ~moved' => generations'[1].prompt.shows = ExtractShows'
            BY <2>5, <3>1, <3>2 DEF ExtractShows
        <3> QED
            BY <1>3, <2>2, <2>6, <3>1, <3>2, <3>3 DEF PromptsInv
    <2> QED
        BY <1>1, <1>2, <2>7 DEF IInv
<1>6. CASE JudgeSupport
    <2> DEFINE prompt == SupportPrompt
    <2>1. PICK asked, cites : Answered(prompt, cites, asked)
        BY <1>6 DEF JudgeSupport
    <2>2. generations' = Append(generations, [prompt |-> prompt, asked |-> prompt])
          /\ \A entry \in cache' : entry.key.prompt = entry.prompt
        <3> HIDE DEF prompt
        <3> QED
            BY <1>4, <2>1, AnsweredFits
    <2>3. generations = <<generations[1]>> /\ AnswersFitPrompts
          /\ (~moved => generations[1].prompt.shows = ExtractShows)
        BY <1>6 DEF JudgeSupport, IInv, PromptsInv
    <2>4. PICK first : generations = <<first>>
        BY <2>3
    <2>5. generations' = << first, [prompt |-> prompt, asked |-> prompt] >>
        <3> HIDE DEF prompt
        <3> QED
            BY <2>2, <2>4, AppendToOne
    <2>6. ~moved => prompt.shows = <<bound, atBind>>
        BY <1>3 DEF SupportPrompt
    <2>7. AnswersFitPrompts'
        <3>1. first.asked = first.prompt
            BY <2>3, <2>4 DEF AnswersFitPrompts
        <3> QED
            BY <2>5, <3>1 DEF AnswersFitPrompts
    <2>8. PromptsInv'
        <3>1. pc' = "report" /\ UNCHANGED <<bound, atBind, moved>>
            BY <1>6 DEF JudgeSupport
        <3>2. generations'[1] = generations[1] /\ generations'[2] = [prompt |-> prompt, asked |-> prompt]
            BY <2>4, <2>5
        <3>3. ~moved' => /\ generations'[1].prompt.shows = ExtractShows'
                         /\ generations'[2].prompt.shows = <<bound, atBind>>'
            BY <2>3, <2>6, <3>1, <3>2 DEF ExtractShows
        <3> QED
            BY <2>2, <2>7, <3>1, <3>3 DEF PromptsInv
    <2> QED
        BY <1>1, <1>2, <2>8 DEF IInv
<1> QED
    BY <1>5, <1>6

\* What is sealed was validated, and names the run it came from.
LEMMA SealKeeps ==
    ASSUME IInv, Seal
    PROVE  IInv'
<1> USE DEF config, instance, run, kept
<1>1. DocumentsInv' /\ ProgressInv' /\ PromptsInv' /\ EvidenceInv'
    BY DEF Seal, Refuse, IInv, DocumentsInv, ProgressInv, PromptsInv, EvidenceInv, AnswersFitPrompts,
           ExtractShows, Preparing, Running, Accepted, Loaded
<1>2. CASE ValidReportBody(Assembled, {allowed})
    <2> DEFINE r == [Assembled EXCEPT !.digest = ReportDigest(Assembled)]
    <2>1. report' = r /\ UNCHANGED <<bound, allowed, contract, verdict, touched>> /\ verdict = "none"
        BY <1>2 DEF Seal, IInv, ProgressInv, Running
    <2>2. "provenance" \in DOMAIN r /\ r.provenance = Assembled.provenance /\ r.instance = Assembled.instance
          /\ r.protocol = Assembled.protocol /\ r.cites = Assembled.cites /\ r.digest = ReportDigest(Assembled)
        BY DEF Assembled
    <2>3. Assembled.provenance.contract = contract.digest /\ Assembled.instance = bound.digest
        BY DEF Assembled
    <2>4. r.digest # NoDigest
        BY <2>2 DEF ReportDigest, Sum, NoDigest
    <2>5. ValidReport(r, {allowed})
        <3> HIDE DEF r
        <3> QED
            BY <1>2, <2>2, <2>4 DEF ValidReportBody, ValidReport
    <2>6. ReportInv'
        <3> HIDE DEF r
        <3>1. ValidReport(report', {allowed'})
            BY <2>1, <2>5
        <3>2. ValidReport(report, {allowed})'
            BY <3>1 DEF ValidReport, ValidReportBody
        <3> QED
            BY <2>1, <2>2, <2>3, <3>2 DEF ReportInv
    <2> QED
        BY <1>1, <2>6 DEF IInv
<1>3. CASE ~ValidReportBody(Assembled, {allowed})
    <2>1. ReportInv'
        BY <1>3 DEF Seal, Refuse, ReportInv
    <2> QED
        BY <1>1, <2>1 DEF IInv
<1> QED
    BY <1>2, <1>3

LEMMA AbortKeeps ==
    ASSUME IInv, Abort
    PROVE  IInv'
BY DEF Abort, Refuse, config, instance, run, kept, IInv, DocumentsInv, ProgressInv, PromptsInv, EvidenceInv,
       ReportInv, AnswersFitPrompts, ExtractShows, Preparing, Running, Accepted, Loaded

\* The holder's steps leave the run alone, and a check tells the truth of an
\* untouched report.
LEMMA HolderKeeps ==
    ASSUME IInv, EditReport \/ CheckReport
    PROVE  IInv'
<1> USE DEF config, instance, run, kept
<1>1. DocumentsInv' /\ ProgressInv' /\ PromptsInv' /\ EvidenceInv'
    BY DEF EditReport, CheckReport, IInv, DocumentsInv, ProgressInv, PromptsInv, EvidenceInv,
           AnswersFitPrompts, ExtractShows, Preparing, Running, Accepted, Loaded
<1>2. CASE EditReport
    <2>1. touched' /\ UNCHANGED <<outcome, contract>>
        BY <1>2 DEF EditReport
    <2>2. outcome = "sealed" => /\ "provenance" \in DOMAIN report'
                                /\ report'.provenance = report.provenance
        BY <1>2 DEF EditReport, IInv, ReportInv
    <2>3. ReportInv'
        BY <2>1, <2>2 DEF IInv, ReportInv
    <2> QED
        BY <1>1, <2>3 DEF IInv
<1>3. CASE CheckReport
    <2>1. \A known \in {{}, {allowed}} :
            ValidReport(report, {allowed}) => ValidReport(report, known)
        BY DEF ValidReport, ValidReportBody
    <2>2. ReportInv'
        BY <1>3, <2>1 DEF CheckReport, IInv, ReportInv, ValidReport, ValidReportBody
    <2> QED
        BY <1>1, <2>2 DEF IInv
<1> QED
    BY <1>2, <1>3

LEMMA StepInv == IInv /\ [Next]_vars => IInv'
<1> SUFFICES ASSUME IInv, [Next]_vars PROVE IInv'
    OBVIOUS
<1>1. CASE Next
    BY <1>1, PrepareKeeps, ChangeKeeps, BindKeeps, ValidateForKeeps, GenerationKeeps, SealKeeps, AbortKeeps,
       HolderKeeps DEF Next, Evaluate
<1>2. CASE UNCHANGED vars
    BY <1>2 DEF vars, config, instance, run, kept, IInv, DocumentsInv, ProgressInv, PromptsInv, EvidenceInv,
                ReportInv, AnswersFitPrompts, ExtractShows, Preparing, Running, Accepted, Loaded,
                ValidReport, ValidReportBody
<1> QED
    BY <1>1, <1>2

LEMMA SpecInv == Spec => []IInv
BY InitInv, StepInv, PTL DEF Spec

-----------------------------------------------------------------------------
(* What it implies *)

\* Every digest the program keeps is that of a content it had, at every point
\* of every run (spec/load.go 38, protocol/load.go 48, eval/bind.go 9-24,
\* judging/claimjudge.go 125-181, 525).
THEOREM DigestsStayTrue == Spec => []IdentityIInv
<1>1. IInv => IdentityIInv
    <2> SUFFICES ASSUME IInv PROVE IdentityIInv
        OBVIOUS
    <2>1. pc # "contract" => contract.digest = ContractDigest(Loaded(contract))
        BY DEF IInv, DocumentsInv
    <2>2. pc \notin {"contract", "protocol"} => protocol.digest = ProtocolDigest(Loaded(protocol))
        BY DEF IInv, DocumentsInv
    <2> QED
        BY <2>1, <2>2 DEF IInv, EvidenceInv, PromptsInv, IdentityIInv
<1> QED
    BY <1>1, SpecInv, PTL

\* A sealed report names the instrument that was used, up to integers of the
\* protocol that canonical JSON rounds: seed, token limit and attempts of at
\* least 2^53 (judging/claimjudge.go 190-212).
THEOREM InstrumentIsNamed == Spec => []ReportNamesItsInstrument
<1>1. IInv => ReportNamesItsInstrument
    <2> SUFFICES ASSUME IInv, Sealed PROVE ReportNamesItsInstrument
        BY DEF ReportNamesItsInstrument
    <2>1. outcome = "sealed" /\ pc = "idle" /\ Accepted
        BY DEF Sealed, Accepted
    <2>2. report.provenance.contract = contract.digest /\ contract.digest = ContractDigest(Loaded(contract))
        BY <2>1 DEF IInv, ReportInv, DocumentsInv
    <2> QED
        BY <2>1, <2>2 DEF IInv, EvidenceInv, ReportNamesItsInstrument
<1> QED
    BY <1>1, SpecInv, PTL

\* An untouched report is about the instance as it was when the evaluation
\* began, whatever was edited since (eval/bind.go 5-24, judging/claimjudge.go 226).
THEOREM ContentIsNamed == Spec => []ReportNamesTheContent
<1>1. IInv => ReportNamesTheContent
    <2> SUFFICES ASSUME IInv, Sealed, ~touched PROVE ReportNamesTheContent
        BY DEF ReportNamesTheContent
    <2>1. outcome = "sealed" /\ pc = "idle" /\ Accepted
        BY DEF Sealed, Accepted
    <2>2. evaluations > 0
        BY <2>1 DEF IInv, ProgressInv
    <2>3. ValidInstance(bound, atBind) /\ allowed = EvidenceIDs(atBind.items)
          /\ AdmittedEvidence(instrument.contract.policy, bound.policyDigest, atBind.items)
        BY <2>1, <2>2 DEF IInv, EvidenceInv
    <2>4. report.instance = bound.digest /\ report.cites \subseteq allowed
        BY <2>1 DEF IInv, ReportInv, ValidReport, ValidReportBody
    <2> QED
        BY <2>3, <2>4 DEF ReportNamesTheContent, ValidInstance
<1> QED
    BY <1>1, SpecInv, PTL

\* An instance is refused for its content, never for the digests its struct
\* carried (eval/bind.go 5-8).
THEOREM StaleDigestsAreForgiven == Spec => []OnlyContentIsRefused
<1>1. IInv => OnlyContentIsRefused
    BY DEF IInv, EvidenceInv, OnlyContentIsRefused
<1> QED
    BY <1>1, SpecInv, PTL

\* No answer was given to another prompt, from the cache or not
\* (judging/claimjudge.go 525-530).
THEOREM AnswersAreToTheirPrompts == Spec => []AnswersFitPrompts
<1>1. IInv => AnswersFitPrompts
    BY DEF IInv, PromptsInv
<1> QED
    BY <1>1, SpecInv, PTL

\* Unless it was edited under the judge, a report's prompts show the instance
\* it names (judging/claimjudge.go 136, 272-277, 304).
THEOREM PromptsFitTheReport == Spec => []PromptsShowTheContent
<1>1. IInv => PromptsShowTheContent
    <2> SUFFICES ASSUME IInv, Sealed, ~moved PROVE PromptsShowTheContent
        BY DEF PromptsShowTheContent
    <2>1. outcome = "sealed" /\ pc = "idle"
        BY DEF Sealed
    <2>2. evaluations > 0
        BY <2>1 DEF IInv, ProgressInv
    <2>3. bound.digest = InstanceDigest(bound, atBind)
        BY <2>1, <2>2 DEF IInv, EvidenceInv, ValidInstance
    <2> QED
        BY <2>1, <2>3 DEF IInv, PromptsInv, ExtractShows, PromptsShowTheContent
<1> QED
    BY <1>1, SpecInv, PTL

\* "After Seal, ValidateReport passes" (assessment/digest.go 63-65).
THEOREM SealedStaysValid == Spec => []SealedIsValid
<1>1. IInv => SealedIsValid
    BY DEF IInv, ReportInv, SealedIsValid, Sealed
<1> QED
    BY <1>1, SpecInv, PTL

=============================================================================
