--------------------------- MODULE SuiteValidation ---------------------------
(***************************************************************************)
(* Suite.validateBody and checkAcyclic (suite/suite.go): the checks a list *)
(* of evaluators passes before NewSuite seals it and before Run starts.    *)
(*                                                                         *)
(* checkAcyclic is a recursive depth-first search with three colours.  Its *)
(* call stack is the variable stack: one frame per active call of visit,   *)
(* with the dependencies the frame's loop has not reached yet.  A slice is *)
(* ranged over in an order the properties do not depend on, so a loop      *)
(* takes any element that is left.                                         *)
(***************************************************************************)
EXTENDS Naturals, Sequences, FiniteSets, Dependencies

CONSTANTS
    Names,      \* the identifiers an evaluator or a dependency may have
    Suites      \* the evaluator lists a caller may pass

\* usable: the evaluator is not nil and its name is a valid identifier.
Entry == [usable : BOOLEAN, name : Names, deps : SUBSET Names]

ASSUME SuitesAssumption == Suites \subseteq Seq(Entry)

VARIABLES
    evaluators, \* the list under validation; never changes
    pc,         \* "declarations", "search", "accepted" or "rejected"
    roots,      \* evaluators the outer loop of checkAcyclic has not visited
    color,      \* white: unvisited, gray: on the current path, black: done
    stack       \* active calls of visit, outermost first

vars == <<evaluators, pc, roots, color, stack>>

Colors == {"white", "gray", "black"}
Frame == [name : Names, todo : SUBSET Names]

Declared == {evaluators[i].name : i \in DOMAIN evaluators}

\* names[n].DependsOn()
DependsOn == [n \in Names |->
    UNION {evaluators[i].deps : i \in {j \in DOMAIN evaluators : evaluators[j].name = n}}]

WellDeclared ==
    /\ evaluators # << >>
    /\ \A i \in DOMAIN evaluators :
        /\ evaluators[i].usable
        /\ evaluators[i].deps \subseteq Declared
        /\ \A j \in DOMAIN evaluators : evaluators[i].name = evaluators[j].name => i = j

Painted(c) == {n \in Names : color[n] = c}
Top == stack[Len(stack)]

-----------------------------------------------------------------------------
Init ==
    /\ evaluators \in Suites
    /\ pc = "declarations"
    /\ roots = {}
    /\ color = [n \in Names |-> "white"]
    /\ stack = << >>

CheckDeclarations ==
    /\ pc = "declarations"
    /\ IF WellDeclared
       THEN pc' = "search" /\ roots' = Declared
       ELSE pc' = "rejected" /\ UNCHANGED roots
    /\ UNCHANGED <<evaluators, color, stack>>

\* Bug: only two colours, a finished node is taken for one on the path.
VisitTwoColours(n, callers) ==
    \/ color[n] # "white" /\ pc' = "rejected" /\ UNCHANGED <<color, stack>>
    \/ /\ color[n] = "white"
       /\ color' = [color EXCEPT ![n] = "gray"]
       /\ stack' = Append(callers, [name |-> n, todo |-> DependsOn[n]])
       /\ UNCHANGED pc

\* A call visit(n, path); callers is the stack once the caller's loop has moved
\* past n.  The error of the gray case unwinds every call and prints their
\* names, so the stack is left as it was.
Visit(n, callers) ==
    \/ /\ color[n] = "gray"
       /\ pc' = "rejected"
       /\ UNCHANGED <<color, stack>>
    \/ /\ color[n] = "black"
       /\ stack' = callers
       /\ UNCHANGED <<pc, color>>
    \/ /\ color[n] = "white"
       /\ color' = [color EXCEPT ![n] = "gray"]
       /\ stack' = Append(callers, [name |-> n, todo |-> DependsOn[n]])
       /\ UNCHANGED pc

VisitRoot ==
    /\ pc = "search" /\ stack = << >>
    /\ \E n \in roots : roots' = roots \ {n} /\ Visit(n, stack)
    /\ UNCHANGED evaluators

\* Bug: the loop over the dependencies does not advance.
VisitDependencyAgain ==
    /\ pc = "search" /\ stack # << >>
    /\ \E d \in Top.todo : Visit(d, stack)
    /\ UNCHANGED <<evaluators, roots>>

VisitDependency ==
    /\ pc = "search" /\ stack # << >>
    /\ \E d \in Top.todo :
        Visit(d, [stack EXCEPT ![Len(stack)].todo = Top.todo \ {d}])
    /\ UNCHANGED <<evaluators, roots>>

\* Bug: a finished node keeps the colour of the path.
LeaveGray ==
    /\ pc = "search" /\ stack # << >> /\ Top.todo = {}
    /\ stack' = SubSeq(stack, 1, Len(stack) - 1)
    /\ UNCHANGED <<evaluators, pc, roots, color>>

\* The loop over the dependencies ends: the frame's node is fully explored.
Leave ==
    /\ pc = "search" /\ stack # << >> /\ Top.todo = {}
    /\ color' = [color EXCEPT ![Top.name] = "black"]
    /\ stack' = SubSeq(stack, 1, Len(stack) - 1)
    /\ UNCHANGED <<evaluators, pc, roots>>

Accept ==
    /\ pc = "search" /\ stack = << >> /\ roots = {}
    /\ pc' = "accepted"
    /\ UNCHANGED <<evaluators, roots, color, stack>>

Next ==
    \/ CheckDeclarations
    \/ VisitRoot
    \/ VisitDependency
    \/ Leave
    \/ Accept

\* Validation is one sequential call: it never pauses.
Spec == Init /\ [][Next]_vars /\ WF_vars(Next)

-----------------------------------------------------------------------------
\* Every variable keeps its type through the search of suite.go:104-138.
TypeOK ==
    /\ evaluators \in Suites
    /\ pc \in {"declarations", "search", "accepted", "rejected"}
    /\ roots \subseteq Names
    /\ color \in [Names -> Colors]
    /\ stack \in Seq(Frame)

\* A list that validateBody accepts names every dependency it uses, repeats no
\* name and has no dependency cycle, whatever order the search took.  Run's
\* scheduler relies on exactly this (suite.go:51-53, 177).
AcceptedIsRunnable ==
    pc = "accepted" => WellDeclared /\ Acyclic(Declared, DependsOn)

\* The search never rejects a runnable list: reaching a gray node is a real
\* cycle, not a node shared by two paths (the diamond that a two-colour search
\* would refuse).
RejectedIsDefective ==
    pc = "rejected" => ~(WellDeclared /\ Acyclic(Declared, DependsOn))

\* The gray nodes are the path that the cycle error prints: each name on it
\* depends on the next and none repeats.
PathInv ==
    /\ \A n \in Names : color[n] = "gray" <=> \E k \in DOMAIN stack : stack[k].name = n
    /\ \A j, k \in DOMAIN stack : stack[j].name = stack[k].name => j = k
    /\ \A k \in 1..(Len(stack) - 1) : stack[k + 1].name \in DependsOn[stack[k].name]

\* What the search has left behind is closed under dependencies and acyclic,
\* and a frame's loop has only passed black dependencies and the one being
\* visited.
ExploredInv ==
    /\ \A n \in Painted("black") : DependsOn[n] \subseteq Painted("black")
    /\ Acyclic(Painted("black"), DependsOn)
    /\ \A k \in DOMAIN stack :
        \A d \in DependsOn[stack[k].name] \ stack[k].todo :
            color[d] = "black" \/ (k < Len(stack) /\ d = stack[k + 1].name)

\* The outer loop misses no declared evaluator.
RootsInv ==
    pc = "search" =>
        /\ WellDeclared
        /\ roots \subseteq Declared
        /\ \A n \in Declared \ roots :
            color[n] = "black" \/ (stack # << >> /\ n = stack[1].name)
        /\ \A k \in DOMAIN stack :
            stack[k].name \in Declared /\ stack[k].todo \subseteq DependsOn[stack[k].name]

\* The search's inductive invariant: the two verdict properties rest on it.
SearchInv ==
    /\ pc = "declarations" => \A n \in Names : color[n] = "white"
    /\ PathInv
    /\ ExploredInv
    /\ RootsInv
    /\ AcceptedIsRunnable
    /\ RejectedIsDefective

\* Validation decides exactly whether Run can schedule the list: it accepts no
\* cycle and no unknown or repeated name, and rejects nothing else, whatever
\* order the search takes (suite.go:66-99, 104-138).
ValidationIsExact == AcceptedIsRunnable /\ RejectedIsDefective

\* The inductive invariant: the types and the search's books.
SearchIInv == TypeOK /\ SearchInv

\* The recursion ends on every list, cyclic ones included.
Terminates == <>(pc \in {"accepted", "rejected"})

=============================================================================
