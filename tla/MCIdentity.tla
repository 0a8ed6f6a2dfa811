----------------------------- MODULE MCIdentity -----------------------------
(***************************************************************************)
(* Two contracts whose policies differ, protocols for either, seeds, token *)
(* limits, attempts and sizes around the first integers that float64       *)
(* rounds (5 to 4 and 9 to 8, Precision being 4), and an instance about     *)
(* two texts with up to two items of evidence.                             *)
(***************************************************************************)
EXTENDS Identity

Artifact(text) ==
    [text |-> text, uri |-> FALSE, digest |-> TextContentDigest(text), size |-> 1, complete |-> TRUE]

\* What a URI refers to, with the size the application states.
Referenced(text, size) == [Artifact(text) EXCEPT !.text = None, !.uri = TRUE, !.size = size]

MCTemplates == [extract |-> Sum("template", "extract"), support |-> Sum("template", "support")]

Part(content) == [known |-> TRUE, content |-> content]
File(ext, parts) == [ext |-> ext, parts |-> parts]

\* Contracts: one admits all evidence, the other forbids drafts.
Open == [name |-> "open", policy |-> {}, complete |-> TRUE]
Strict == [name |-> "strict", policy |-> {"draft"}, complete |-> TRUE]

MCContractFiles ==
    {File("json", <<Part(Open)>>), File("yaml", <<Part(Strict), Part(Open)>>),
     File("json", <<Part(Strict), Part(Open)>>), File("txt", <<Part(Open)>>), File("yml", << >>),
     File("json", <<Part([Open EXCEPT !.complete = FALSE])>>),
     File("yaml", <<[known |-> FALSE, content |-> Open]>>)}

Protocol(c, seed, maxTokens, attempts) ==
    [measurement |-> ContractDigest(c), seed |-> seed, maxTokens |-> maxTokens, attempts |-> attempts,
     order |-> "as_given", templates |-> MCTemplates, complete |-> TRUE]

MCProtocolFiles ==
    {File("json", <<Part(Protocol(Open, 4, 9, 1))>>), File("yaml", <<Part(Protocol(Strict, None, 3, 4))>>),
     File("yaml", <<Part(Protocol(Strict, -5, 3, 2)), Part(Protocol(Strict, None, 3, 5))>>),
     File("json", <<Part(Protocol(Open, 5, 8, 1))>>),
     File("json", <<Part([Protocol(Open, None, 3, 1) EXCEPT !.order = "shuffled"])>>),
     File("json", <<Part(Protocol(Open, None, 0, 1))>>),
     File("json", <<Part([Protocol(Strict, -4, 3, 2) EXCEPT !.templates = [extract |-> Sum("template", "extract")]])>>)}

Item(id, kind, text) == [id |-> id, kind |-> kind, content |-> Artifact(text), complete |-> TRUE]
Fact(ids) == [id |-> "f", evidence |-> ids, complete |-> TRUE]
Meta(text) == [complete |-> TRUE, text |-> text]
Share(items, facts, meta) == [items |-> items, reference |-> None, facts |-> facts, metadata |-> meta]

Plain == Share(<<Item("a", "note", "x")>>, <<Fact({"a"})>>, Meta("m"))

WithReference(size) ==
    [Share(<<Item("a", "note", "x"), [Item("b", "note", "y") EXCEPT !.content = Referenced("y", size)]>>,
           << >>, Meta("n"))
        EXCEPT !.reference = Referenced("r", size)]

MCShares ==
    {Plain,
     Share(<<Item("a", "note", "y")>>, <<Fact({"a"})>>, Meta("m")),
     Share(<<Item("b", "note", "x")>>, <<Fact({"a"})>>, Meta("m")),
     Share(<<Item("a", "draft", "x")>>, <<Fact({"a"})>>, Meta("m")),
     WithReference(4), WithReference(5),
     [Plain EXCEPT !.items[1].content.text = "z"]}

Draft(candidate, policy) ==
    [id |-> "i", input |-> Artifact("q"), candidate |-> candidate, policyDigest |-> EvidencePolicyDigest(policy),
     evidenceDigest |-> NoDigest, digest |-> NoDigest, complete |-> TRUE]

MCHeads ==
    {Draft(Artifact("t"), {}), Draft(Artifact("t"), {"draft"}), Draft(Artifact("u"), {}),
     Draft([Artifact("t") EXCEPT !.text = "u"], {})}

MCDrafts == [head : {Draft(Artifact("t"), p) : p \in {{}, {"draft"}}}, shared : MCShares]

=============================================================================
