---------------------------- MODULE MCClaimJudge ----------------------------
(***************************************************************************)
(* Three evaluations on one cache.  Extraction yields prose around a fence, *)
(* one claim, or a fenced blank statement and another claim; support        *)
(* judging yields an object and more, a good verdict on one claim, one that *)
(* Seal refuses, or a verdict on a claim that does not exist.               *)
(***************************************************************************)
EXTENDS ClaimJudge, TLC

CONSTANTS e1, e2, e3, p1, p2, i1, i2, m1, m2

Mark(kind) == [is |-> kind]
Object(list, sound) == [is |-> "object", flaw |-> "", payload |-> [list |-> list, sound |-> sound]]
Fenced(tag, object) == <<Mark("fence")>> \o tag \o <<Mark("newline"), object, Mark("newline"), Mark("fence")>>

\* The model that p2 expects gives fewer answers.
MCTexts ==
    p1 :> [extract |-> {<<Mark("word")>> \o Fenced(<< >>, Object(<<1>>, TRUE)), <<Object(<<1>>, TRUE)>>,
                        Fenced(<<Mark("word")>>, Object(<<0, 2>>, TRUE))},
           support |-> {<<Object(<<1>>, TRUE), Mark("word")>>, <<Object(<<1>>, TRUE)>>, <<Object(<<1>>, FALSE)>>,
                        <<Mark("space"), Object(<<2>>, TRUE)>>}]
    @@
    p2 :> [extract |-> {<<Mark("value")>>, <<Object(<<1>>, TRUE)>>, <<Object(<<2>>, TRUE)>>},
           support |-> {<<Object(<<1>>, TRUE)>>, <<Object(<<1>>, FALSE)>>}]

\* All answers of up to six tokens, of an object and one with a flaw.
ShortTexts == UNION {[1..n -> {Mark(kind) : kind \in Marks}
    \cup {Object(<< >>, TRUE), [Object(<< >>, TRUE) EXCEPT !.flaw = "unknown_field"]}] : n \in 0..6}

\* Strict decoding accepts exactly the answers that are one object.
ASSUME DecodingIsExact ==
    \A raw \in ShortTexts : OneObject(raw) <=> DecodeJSONObjectStrict(raw).fault = ""

Asks(p, i, m) == [protocol |-> p, instance |-> i, mode |-> m, bindable |-> TRUE]
Refused == [Asks(p1, i1, "use") EXCEPT !.bindable = FALSE]

MCAssignments ==
    \* One protocol and instance; some bypass the cache, some are refused.
    {(e1 :> Asks(p1, i1, m[1]) @@ e2 :> Asks(p1, i1, m[2]) @@ e3 :> Refused) :
        m \in {<<"", "">>, <<"", "bypass">>, <<"bypass", "no such mode">>}}
    \* Protocols bound to different models, on one instance; one protocol, two instances.
    \cup {(e1 :> Asks(p2, i1, "use") @@ e2 :> other @@ e3 :> Refused) :
        other \in {Asks(p1, i1, "use"), Asks(p2, i2, "use")}}
    \* Three evaluations that share every key.
    \cup {[e \in Evaluations |-> Asks(p2, i1, "use")]}

MCJobs == UNION {{a[e] : e \in Evaluations} : a \in MCAssignments}

TwoModels == [p \in Protocols |-> IF p = p1 THEN m1 ELSE m2]
TwoAttempts == [p \in Protocols |-> IF p = p1 THEN 2 ELSE 0]

=============================================================================
