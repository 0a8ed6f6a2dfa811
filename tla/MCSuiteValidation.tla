-------------------------- MODULE MCSuiteValidation --------------------------
(***************************************************************************)
(* Every dependency graph over three names (self loops and dependencies on *)
(* a name the list lacks included), declared by lists of up to three       *)
(* evaluators, and every four-evaluator graph with at most one dependency  *)
(* per evaluator plus two diamonds.                                        *)
(***************************************************************************)
EXTENDS SuiteValidation, Relation

MCNames == {"a", "b", "c", "d"}

EvaluatorNamed(n, ds) == [usable |-> TRUE, name |-> n, deps |-> ds]

Three == {"a", "b", "c"}

\* All graphs on three names, and lists that drop the evaluator c, so that a
\* dependency on c is unknown.
SmallSuites ==
    UNION {
        {<<EvaluatorNamed("a", g["a"]), EvaluatorNamed("b", g["b"]), EvaluatorNamed("c", g["c"])>>,
         <<EvaluatorNamed("a", g["a"]), EvaluatorNamed("b", g["b"])>>}
      : g \in [Three -> SUBSET Three]}

\* Four evaluators with at most one dependency each (long chains and cycles),
\* a diamond, and a diamond closed into a cycle.
WideSuites ==
    {<<EvaluatorNamed("a", g["a"]), EvaluatorNamed("b", g["b"]),
       EvaluatorNamed("c", g["c"]), EvaluatorNamed("d", g["d"])>>
      : g \in [MCNames -> {{}} \cup {{n} : n \in MCNames}]}
    \cup {<<EvaluatorNamed("a", ds), EvaluatorNamed("b", {"a"}),
            EvaluatorNamed("c", {"a"}), EvaluatorNamed("d", {"b", "c"})>>
           : ds \in {{}, {"d"}}}

\* The empty list, a nil evaluator, a repeated name.
BrokenSuites ==
    { << >>,
      <<EvaluatorNamed("a", {}), [usable |-> FALSE, name |-> "b", deps |-> {}]>>,
      <<EvaluatorNamed("a", {}), EvaluatorNamed("a", {})>> }

MCSuites == SmallSuites \cup WideSuites \cup BrokenSuites

\* The set formulation of acyclicity agrees with the textbook one: no name is
\* related to itself by the transitive closure of "depends on".
ASSUME AcyclicIsIrreflexiveClosure ==
    \A g \in [Three -> SUBSET Three] :
        Acyclic(Three, g) <=>
            IsIrreflexive(TransitiveClosure([p \in Three \X Three |-> p[2] \in g[p[1]]], Three), Three)

=============================================================================
