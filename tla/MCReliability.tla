--------------------------- MODULE MCReliability ---------------------------
(* Small probe sets and reports for Reliability. *)
EXTENDS Reliability

Labels == {"entailed", "contradicted"}

Dim(value, label) == [applicable |-> TRUE, value |-> value, label |-> label]
NotApplicable == [applicable |-> FALSE, value |-> None, label |-> None]
Plain == [faithfulness |-> Dim(0, None)]

\* Every partial labelling of two claims, and every kind of change to a
\* dimension: within the tolerance, beyond it, in its label, its applicability
\* or its presence.
ClaimSets == UNION {[S -> Labels] : S \in SUBSET Claims}
DimSets == {<< >>} \cup {[faithfulness |-> d] :
    d \in {Dim(0, None), Dim(1, None), Dim(3, None), Dim(None, "good"), Dim(0, "good"), NotApplicable}}

MCReports ==
    {[claims |-> f, dims |-> Plain] : f \in ClaimSets}
    \cup {[claims |-> [c1 |-> "entailed"], dims |-> g] : g \in DimSets}
    \cup {[claims |-> << >>, dims |-> [faithfulness |-> Dim(v, None), tone |-> Dim(v, None)]] : v \in {0, 3}}

P(id, ok) == [id |-> id, valid |-> ok]

MCProbeSets ==
    {<< >>, <<P("p1", TRUE)>>, <<P("p1", FALSE)>>,
     <<P("p1", TRUE), P("p2", TRUE)>>, <<P("p1", TRUE), P("p1", TRUE)>>}

=============================================================================
