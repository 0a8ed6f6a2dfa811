---------------------------- MODULE Dependencies ----------------------------
(***************************************************************************)
(* The dependency graph of a suite: deps[e] is the set of evaluators that  *)
(* evaluator e declares in DependsOn().  The suite package never computes  *)
(* a closure; what it needs of a graph is that some evaluator is always    *)
(* ready, and that is how acyclicity is stated here.                       *)
(***************************************************************************)

\* Every non-empty set of evaluators holds one that depends on none of them.
\* Over a finite set this is the absence of a dependency cycle; a cycle is a
\* non-empty set in which everyone waits for another member.
Acyclic(nodes, deps) ==
    \A S \in SUBSET nodes : S # {} => \E e \in S : deps[e] \cap S = {}

=============================================================================
