----------------------------- MODULE MCScoring -----------------------------
(***************************************************************************)
(* Instances of Scoring: contracts with a fraction construct "faithful"    *)
(* and a direct construct "relevant", in all the ways the parts of such a  *)
(* contract can be right or wrong, one at a time around a plain contract;  *)
(* answers to at most two claims.                                          *)
(***************************************************************************)
EXTENDS Scoring, SequencesExt

Policy(a, f, p) == [allowed |-> a, forbidden |-> f, provenance |-> p]
Plain == Policy(<<"sql">>, << >>, FALSE)
Policies == {Plain, Policy(<< >>, <<"web">>, TRUE)}
BadPolicies == {Policy(<<"sql">>, <<"sql">>, FALSE), Policy(<<"sql", "sql">>, << >>, FALSE), Policy(<<"">>, << >>, FALSE)}

Bounds(lo, hi) == [minimum |-> lo, maximum |-> hi]

Fraction(num, den, empty) == [method |-> "fraction", numerator |-> num, denominator |-> den, empty |-> empty]
Direct == [method |-> "direct", numerator |-> << >>, denominator |-> << >>, empty |-> "na"]
AllLabels == <<"entailed", "contradicted", "insufficient">>

Contract(policy, agg, fractionRange, directRange, directLabels) ==
    [order |-> <<"faithful", "relevant">>, policy |-> policy,
     range |-> [id \in {"faithful", "relevant"} |-> IF id = "faithful" THEN fractionRange ELSE directRange],
     labels |-> [id \in {"faithful", "relevant"} |-> IF id = "faithful" THEN AllLabels ELSE directLabels],
     aggregations |-> [id \in {"faithful", "relevant"} |-> IF id = "faithful" THEN agg ELSE Direct]]

Standard == Contract(Plain, Fraction(<<"entailed">>, AllLabels, "na"), Bounds(0, 1), Bounds(1, 5), << >>)

GoodContracts ==
    {Contract(policy, Fraction(list[1], list[2], empty), range, Bounds(1, 5), << >>) :
        policy \in Policies, empty \in EmptyPolicies, range \in {None, Bounds(0, 1), Bounds(1, 5)},
        list \in {<<<<"entailed">>, AllLabels>>, <<<<"insufficient">>, <<"entailed", "insufficient">>>>,
                  <<<<"entailed", "contradicted">>, <<"contradicted">>>>}}
    \cup {Contract(Plain, Fraction(<<"entailed">>, AllLabels, "na"), None, range, labels) :
            range \in {None, Bounds(1, 5)}, labels \in {<< >>, <<"high", "low">>}}

Repeated == <<"entailed", "entailed">>

BadContracts ==
    {[Standard EXCEPT !.policy = policy] : policy \in BadPolicies}
    \cup {[Standard EXCEPT !.aggregations["faithful"] = agg] :
            agg \in {Fraction(Repeated, AllLabels, "na"), Fraction(<<"entailed">>, Repeated, "zero"),
                     Fraction(<<"good">>, AllLabels, "na"), Fraction(<< >>, AllLabels, "na"),
                     Fraction(<<"">>, AllLabels, "na"), Fraction(<<"entailed">>, AllLabels, "none"),
                     [Direct EXCEPT !.method = "mean"], [Direct EXCEPT !.method = "median"]}}
    \cup {[Standard EXCEPT !.order = order] :
            order \in {<< >>, <<"faithful", "faithful">>, <<"relevant", "relevant">>}}
    \cup {[Standard EXCEPT !.range["relevant"] = Bounds(5, 1)],
          [Standard EXCEPT !.order = <<"faithful">>],
          [Standard EXCEPT !.labels = [id \in {"faithful", "other"} |-> AllLabels]],
          [Standard EXCEPT !.labels["relevant"] = <<"high", "high">>],
          [Standard EXCEPT !.aggregations = [id \in {"faithful"} |-> @["faithful"]]]}

MCContracts == GoodContracts \cup BadContracts

Item(id, kind, p) == [id |-> id, kind |-> kind, provenance |-> p]

MCEvidenceSets ==
    {[policy |-> policy, items |-> items] : policy \in Policies \cup BadPolicies,
        items \in {{Item("k1", "sql", TRUE), Item("k2", "sql", TRUE)},
                   {Item("k1", "sql", TRUE), Item("k2", "web", FALSE)}}}

Verdicts ==
    {[label |-> l, evidence |-> e] : l \in SupportLabels, e \in {<<"k1">>, <<"k2">>}}
    \cup {[label |-> "insufficient", evidence |-> << >>], [label |-> "entailed", evidence |-> << >>],
          [label |-> "maybe", evidence |-> <<"k1">>], [label |-> "entailed", evidence |-> <<"k9">>],
          [label |-> "contradicted", evidence |-> <<"k1", "k1">>]}

Emits(id, value, label, e) == [construct |-> id, value |-> value, label |-> label, evidence |-> e]

Good == Emits("relevant", 3, None, <<"k1">>)
DirectAnswers ==
    {<< >>, <<Good>>, <<Good, Good>>, <<Good, Emits("faithful", 3, None, << >>)>>,
     <<Good, Emits("other", 3, None, << >>)>>}
    \cup {<<Emits("relevant", v, l, e)>> :
            v \in {None, 1, 7}, l \in {None, "high", "good"}, e \in {<< >>, <<"k9">>, <<"k1", "k1">>}}

\* Every pair of verdicts with a good direct answer, every direct answer with no
\* verdicts.
MCPayloads ==
    {[verdicts |-> v, dimensions |-> <<Good>>] : v \in SeqOf(Verdicts, 2)}
    \cup {[verdicts |-> << >>, dimensions |-> d] : d \in DirectAnswers}

=============================================================================
