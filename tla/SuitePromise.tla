---------------------------- MODULE SuitePromise ----------------------------
(***************************************************************************)
(* What Suite.Run promises its caller, without waves, goroutines, errgroups *)
(* or cancellation: evaluators complete once each, in an order that        *)
(* respects the dependency graph, each having seen reports of completed    *)
(* evaluators that include all its dependencies; the caller gets either    *)
(* every report or none.                                                   *)
(***************************************************************************)
CONSTANTS
    Evaluators,
    Graphs      \* the dependency graphs: functions that give every evaluator a set of names

VARIABLES
    edges,      \* the graph the run works on
    completed,  \* evaluators whose report is available to others
    seen,       \* the reports each completed evaluator could read
    status,     \* "running", "ok" or "error"
    delivered   \* the reports in the Results handed to the caller

promiseVars == <<edges, completed, seen, status, delivered>>

Init ==
    /\ edges \in Graphs
    /\ completed = {}
    /\ seen = [e \in Evaluators |-> {}]
    /\ status = "running"
    /\ delivered = {}

Complete ==
    /\ status = "running"
    /\ \E S \in SUBSET (Evaluators \ completed) :
        /\ S # {}
        /\ \A e \in S : edges[e] \subseteq completed
        /\ completed' = completed \cup S
        /\ seen' \in [Evaluators -> SUBSET completed]
        /\ \A e \in S : edges[e] \subseteq seen'[e]
        /\ \A e \in Evaluators \ S : seen'[e] = seen[e]
    /\ UNCHANGED <<edges, status, delivered>>

Succeed ==
    /\ status = "running" /\ completed = Evaluators
    /\ status' = "ok"
    /\ delivered' = Evaluators
    /\ UNCHANGED <<edges, completed, seen>>

Fail ==
    /\ status = "running"
    /\ status' = "error"
    /\ UNCHANGED <<edges, completed, seen, delivered>>

Next == Complete \/ Succeed \/ Fail

Safety == Init /\ [][Next]_promiseVars

\* A run ends, one way or the other.
Spec == Safety /\ WF_promiseVars(Next)

=============================================================================
