----------------------------- MODULE MCSuiteRun -----------------------------
(***************************************************************************)
(* Instances of SuiteRun: acyclic graphs over four evaluators, every       *)
(* loop-free graph over three of them, cyclic ones included, and graphs    *)
(* that name a stranger, which no evaluator is called; what DependsOn()    *)
(* answers to Run may be any of these again.                               *)
(***************************************************************************)
EXTENDS SuiteRun, TLC

CONSTANTS a, b, c, d, x

FourEvaluators == {a, b, c, d}
FiveNames == FourEvaluators \cup {x}
AllGraphs == [Evaluators -> SUBSET Evaluators]

\* Dependencies only on earlier letters: every acyclic graph over four
\* evaluators, up to renaming them.
FourGraphs ==
    {g \in AllGraphs :
        g[a] = {} /\ g[b] \subseteq {a} /\ g[c] \subseteq {a, b} /\ g[d] \subseteq {a, b, c}}

\* Every graph over a, b and c without self loops, beside a free d.
ThreeGraphs ==
    {g \in [Evaluators -> SUBSET {a, b, c}] : g[d] = {} /\ \A e \in Evaluators : e \notin g[e]}

\* Acyclic graphs over a, b and c in which one of them also names the stranger,
\* and a cycle beside an evaluator that names it.
StrangerGraphs ==
    {[g EXCEPT ![e] = @ \cup {x}] : g \in {h \in FourGraphs : h[d] = {}}, e \in {a, b, c}}
        \cup {a :> {b} @@ b :> {a} @@ c :> {x} @@ d :> {}}

MCGraphs == FourGraphs \cup ThreeGraphs \cup StrangerGraphs

\* A chain beside a free evaluator: the last of the chain is handed the free
\* evaluator's report.
IsolationGraphs == { a :> {} @@ b :> {} @@ c :> {a} @@ d :> {} }

=============================================================================
