------------------------ MODULE SuiteValidationProofs ------------------------
(***************************************************************************)
(* The verdict of suite validation is right for every list of evaluators:  *)
(* a list is accepted only when it is runnable, and rejected only when it  *)
(* is not.                                                                 *)
(***************************************************************************)
EXTENDS SuiteValidation, TLAPS

\* The list never changes, and with it every definition over it alone.
LEMMA ListFixed ==
    ASSUME UNCHANGED evaluators
    PROVE  /\ Declared' = Declared
           /\ DependsOn' = DependsOn
           /\ WellDeclared' = WellDeclared
BY DEF Declared, DependsOn, WellDeclared

\* An entry of the list is an Entry, so dependencies are names.
LEMMA GraphType ==
    ASSUME TypeOK
    PROVE  DependsOn \in [Names -> SUBSET Names] /\ Declared \subseteq Names
<1>1. evaluators \in Seq(Entry)
  BY SuitesAssumption DEF TypeOK
<1>2. \A i \in DOMAIN evaluators : evaluators[i] \in Entry
  BY <1>1
<1>3. \A i \in DOMAIN evaluators : evaluators[i].name \in Names /\ evaluators[i].deps \subseteq Names
  BY <1>2 DEF Entry
<1>4. QED
  BY <1>3 DEF DependsOn, Declared

\* Every frame on the stack is one.
LEMMA StackType ==
    ASSUME TypeOK
    PROVE  /\ Len(stack) \in Nat
           /\ DOMAIN stack = 1..Len(stack)
           /\ stack = << >> <=> Len(stack) = 0
           /\ \A k \in DOMAIN stack : stack[k].name \in Names /\ stack[k].todo \subseteq Names
<1>1. stack \in Seq(Frame)
  BY DEF TypeOK
<1>2. \A k \in DOMAIN stack : stack[k] \in Frame
  BY <1>1
<1>3. \A f \in Frame : f.name \in Names /\ f.todo \subseteq Names
  BY DEF Frame
<1> QED BY <1>1, <1>2, <1>3

\* In an accepted declaration, dependencies are declared.
LEMMA DependenciesDeclared ==
    ASSUME WellDeclared, NEW n \in Names
    PROVE  DependsOn[n] \subseteq Declared
BY DEF WellDeclared, DependsOn

\* Adding a node whose dependencies are already explored keeps the explored
\* part acyclic: this is why a node may turn black (suite.go:124-129).
LEMMA AcyclicExtends ==
    ASSUME NEW B, NEW deps, NEW n,
           n \notin B,
           Acyclic(B, deps),
           \A b \in B : deps[b] \subseteq B,
           deps[n] \subseteq B
    PROVE  Acyclic(B \cup {n}, deps)
<1> SUFFICES ASSUME NEW S \in SUBSET (B \cup {n}), S # {}
             PROVE  \E e \in S : deps[e] \cap S = {}
  BY DEF Acyclic
<1>1. CASE S \ {n} = {}
  <2>1. S = {n}
    BY <1>1
  <2> QED BY <2>1
<1>2. CASE S \ {n} # {}
  <2>1. S \ {n} \in SUBSET B
    OBVIOUS
  <2>2. PICK e \in S \ {n} : deps[e] \cap (S \ {n}) = {}
    BY <1>2, <2>1 DEF Acyclic
  <2>3. n \notin deps[e]
    BY <2>1
  <2> QED BY <2>2, <2>3
<1> QED BY <1>1, <1>2

\* Types are invariant.
LEMMA TypeStep == TypeOK /\ [Next]_vars => TypeOK'
<1> SUFFICES ASSUME TypeOK, [Next]_vars PROVE TypeOK'
  OBVIOUS
<1> USE DEF TypeOK
<1>0. DependsOn \in [Names -> SUBSET Names] /\ Declared \subseteq Names
  BY GraphType
<1>1. CASE CheckDeclarations
  BY <1>1, <1>0 DEF CheckDeclarations
<1>2. ASSUME NEW n \in Names, NEW callers \in Seq(Frame), Visit(n, callers)
      PROVE  pc' \in {pc, "rejected"} /\ color' \in [Names -> Colors] /\ stack' \in Seq(Frame)
  <2>1. [name |-> n, todo |-> DependsOn[n]] \in Frame
    BY <1>0 DEF Frame
  <2>2. Append(callers, [name |-> n, todo |-> DependsOn[n]]) \in Seq(Frame)
    BY <1>2, <2>1
  <2>3. CASE color[n] = "white" /\ color' = [color EXCEPT ![n] = "gray"]
             /\ stack' = Append(callers, [name |-> n, todo |-> DependsOn[n]]) /\ UNCHANGED pc
    BY <2>2, <2>3 DEF Colors
  <2>4. CASE UNCHANGED color /\ stack' \in {stack, callers} /\ pc' \in {pc, "rejected"}
    BY <1>2, <2>4
  <2> QED BY <1>2, <2>3, <2>4 DEF Visit
<1>3. CASE VisitRoot
  BY <1>3, <1>2 DEF VisitRoot
<1>4. CASE VisitDependency
  <2>1. PICK d \in Top.todo : Visit(d, [stack EXCEPT ![Len(stack)].todo = Top.todo \ {d}])
    BY <1>4 DEF VisitDependency
  <2>2. Top \in Frame /\ Len(stack) \in DOMAIN stack
    BY <1>4 DEF VisitDependency, Top
  <2>3. d \in Names /\ Top.todo \ {d} \in SUBSET Names
    BY <2>2 DEF Frame
  <2>4. [Top EXCEPT !.todo = Top.todo \ {d}] \in Frame
    BY <2>2, <2>3 DEF Frame
  <2>5. [stack EXCEPT ![Len(stack)].todo = Top.todo \ {d}] \in Seq(Frame)
    BY <2>2, <2>4 DEF Top
  <2> QED BY <1>4, <1>2, <2>1, <2>3, <2>5 DEF VisitDependency
<1>5. CASE Leave
  <2>1. Top \in Frame
    BY <1>5 DEF Leave, Top
  <2>2. SubSeq(stack, 1, Len(stack) - 1) \in Seq(Frame)
    BY <1>5 DEF Leave
  <2> QED BY <1>5, <2>1, <2>2 DEF Leave, Frame, Colors
<1>6. CASE Accept
  BY <1>6 DEF Accept
<1>7. CASE UNCHANGED vars
  BY <1>7 DEF vars
<1> QED BY <1>1, <1>3, <1>4, <1>5, <1>6, <1>7 DEF Next

-----------------------------------------------------------------------------
\* The verdict parts of the invariant survive a step that stays in the search.
LEMMA StillSearching ==
    ASSUME SearchInv, pc = "search", pc' = "search"
    PROVE  /\ pc' = "declarations" => \A n \in Names : color'[n] = "white"
           /\ AcceptedIsRunnable'
           /\ RejectedIsDefective'
BY DEF AcceptedIsRunnable, RejectedIsDefective

LEMMA CheckDeclarationsStep ==
    ASSUME TypeOK, SearchInv, CheckDeclarations
    PROVE  SearchInv'
<1> USE DEF CheckDeclarations
<1>1. Declared' = Declared /\ DependsOn' = DependsOn /\ WellDeclared' = WellDeclared
  BY ListFixed
<1>2. stack = << >>
  <2>1. \A n \in Names : color[n] = "white"
    BY DEF SearchInv
  <2>2. \A k \in DOMAIN stack : stack[k].name \in Names
    BY StackType
  <2>3. ~ \E k \in DOMAIN stack : stack[k].name \in Names
    BY <2>1 DEF SearchInv, PathInv
  <2>4. DOMAIN stack = {}
    BY <2>2, <2>3
  <2> QED BY <2>4, StackType
<1>3. PathInv' /\ ExploredInv'
  BY <1>1 DEF SearchInv, PathInv, ExploredInv, Painted
<1>4. RootsInv'
  BY <1>1, <1>2 DEF RootsInv
<1>5. AcceptedIsRunnable' /\ RejectedIsDefective'
  BY <1>1 DEF AcceptedIsRunnable, RejectedIsDefective
<1> QED BY <1>3, <1>4, <1>5 DEF SearchInv

\* A white node is pushed on a stack whose frames satisfy the invariant, by a
\* caller whose loop has just passed it.
LEMMA PushStep ==
    ASSUME TypeOK, SearchInv, pc = "search", UNCHANGED evaluators,
           NEW n \in Names, n \in Declared, color[n] = "white",
           NEW callers, callers \in Seq(Frame), Len(callers) = Len(stack),
           \A k \in DOMAIN stack :
                callers[k].name = stack[k].name /\ callers[k].todo \subseteq stack[k].todo,
           \A k \in DOMAIN stack : k # Len(stack) => callers[k] = stack[k],
           stack # << >> => n \in Top.todo /\ callers[Len(stack)].todo = Top.todo \ {n},
           roots' = (IF stack = << >> THEN roots \ {n} ELSE roots),
           color' = [color EXCEPT ![n] = "gray"],
           stack' = Append(callers, [name |-> n, todo |-> DependsOn[n]]),
           pc' = "search"
    PROVE  SearchInv'
<1>1. Declared' = Declared /\ DependsOn' = DependsOn /\ WellDeclared' = WellDeclared
  BY ListFixed
<1> DEFINE L == Len(stack)
<1>2. /\ L \in Nat /\ DOMAIN stack = 1..L /\ DOMAIN stack' = 1..(L + 1) /\ Len(stack') = L + 1
      /\ stack'[L + 1].name = n /\ stack'[L + 1].todo = DependsOn[n]
      /\ \A k \in 1..L : stack'[k] = callers[k] /\ stack'[k].name = stack[k].name
      /\ \A k \in 1..L : stack'[k].todo \subseteq stack[k].todo
  <2> DEFINE frame == [name |-> n, todo |-> DependsOn[n]]
  <2>1. frame \in Frame
    BY GraphType DEF Frame
  <2>2. L \in Nat /\ DOMAIN stack = 1..L
    BY StackType
  <2>3. /\ DOMAIN stack' = 1..(L + 1) /\ Len(stack') = L + 1
        /\ stack'[L + 1] = frame
        /\ \A k \in 1..L : stack'[k] = callers[k]
    BY <2>1, <2>2
  <2>4. frame.name = n /\ frame.todo = DependsOn[n]
    OBVIOUS
  <2> HIDE DEF frame
  <2>5. stack'[L + 1].name = n /\ stack'[L + 1].todo = DependsOn[n]
    BY <2>3, <2>4
  <2> QED BY <2>2, <2>3, <2>5
<1>3. color' \in [Names -> Colors] /\ color'[n] = "gray" /\ \A m \in Names : m # n => color'[m] = color[m]
  BY DEF TypeOK, Colors
<1>4. Painted("black")' = Painted("black")
  BY <1>3 DEF Painted
<1>5. \A k \in 1..L : stack[k].name \in Names /\ stack[k].name # n
  <2>1. ~ \E k \in DOMAIN stack : stack[k].name = n
    BY DEF SearchInv, PathInv
  <2> QED BY <2>1, <1>2, StackType
<1>6. stack # << >> => n \in DependsOn[stack[L].name]
  <2>1. stack # << >> => L \in 1..L
    BY <1>2 DEF TypeOK
  <2> QED BY <2>1, <1>2 DEF SearchInv, RootsInv, Top
<1>7. PathInv'
  <2>1. \A m \in Names : color'[m] = "gray" <=> \E k \in 1..(L + 1) : stack'[k].name = m
    <3>1. \A m \in Names : color[m] = "gray" <=> \E k \in 1..L : stack[k].name = m
      <4>1. \A m \in Names : color[m] = "gray" <=> \E k \in DOMAIN stack : stack[k].name = m
        BY Zenon DEF SearchInv, PathInv
      <4> QED BY <4>1, <1>2
    <3>2. \A k \in 1..L : stack'[k].name = stack[k].name
      BY <1>2
    <3>3. \A k \in 1..(L + 1) : k \in 1..L \/ k = L + 1
      BY <1>2
    <3>4. 1..L \subseteq 1..(L + 1) /\ L + 1 \in 1..(L + 1)
      BY <1>2
    <3>5. ASSUME NEW m \in Names, m # n
          PROVE  color'[m] = "gray" <=> \E k \in 1..(L + 1) : stack'[k].name = m
      BY <3>1, <3>2, <3>3, <3>4, <3>5, <1>2, <1>3
    <3>6. color'[n] = "gray" <=> \E k \in 1..(L + 1) : stack'[k].name = n
      BY <3>4, <1>2, <1>3
    <3> QED BY <3>5, <3>6
  <2>2. \A j, k \in 1..(L + 1) : stack'[j].name = stack'[k].name => j = k
    <3>1. \A j, k \in 1..L : stack[j].name = stack[k].name => j = k
      BY <1>2 DEF SearchInv, PathInv
    <3> QED BY <3>1, <1>2, <1>5
  <2>3. \A k \in 1..L : stack'[k + 1].name \in DependsOn[stack'[k].name]
    <3> SUFFICES ASSUME NEW k \in 1..L PROVE stack'[k + 1].name \in DependsOn[stack'[k].name]
      OBVIOUS
    <3>1. CASE k = L
      <4>1. stack # << >>
        BY <1>2, <3>1
      <4> QED BY <4>1, <1>2, <1>6, <3>1
    <3>2. CASE k # L
      <4>1. k + 1 \in 1..L /\ k \in 1..(L - 1)
        BY <1>2, <3>2
      <4>2. stack[k + 1].name \in DependsOn[stack[k].name]
        BY <4>1 DEF SearchInv, PathInv
      <4> QED BY <4>1, <4>2, <1>2
    <3> QED BY <3>1, <3>2
  <2>4. DOMAIN stack' = 1..(L + 1) /\ 1..(Len(stack') - 1) = 1..L
    BY <1>2
  <2> QED BY <1>1, <2>1, <2>2, <2>3, <2>4 DEF PathInv
<1>8. ExploredInv'
  <2>1. \A k \in 1..(L + 1) : \A d \in DependsOn[stack'[k].name] \ stack'[k].todo :
            color'[d] = "black" \/ (k < L + 1 /\ d = stack'[k + 1].name)
    <3> SUFFICES ASSUME NEW k \in 1..(L + 1), NEW d \in DependsOn[stack'[k].name] \ stack'[k].todo
                 PROVE  color'[d] = "black" \/ (k < L + 1 /\ d = stack'[k + 1].name)
      OBVIOUS
    <3>1. CASE k = L + 1
      BY <1>2, <3>1
    <3>2. CASE k = L
      <4>1. stack # << >> /\ L \in 1..L /\ L \in DOMAIN stack
        BY <1>2, <3>2 DEF TypeOK
      <4>2. stack'[L].todo = Top.todo \ {n} /\ stack'[L].name = stack[L].name
        BY <4>1, <1>2
      <4>3. d = n \/ d \in DependsOn[stack[L].name] \ stack[L].todo
        BY <3>2, <4>2 DEF Top
      <4>4. d = n \/ color[d] = "black"
        BY <4>1, <4>3 DEF SearchInv, ExploredInv
      <4>5. d \in Names
        BY <4>1, <4>2, <3>2, <1>5, GraphType
      <4> QED BY <4>4, <4>5, <1>2, <1>3, <3>2
    <3>3. CASE k \in 1..(L - 1)
      <4>1. k \in DOMAIN stack /\ k + 1 \in DOMAIN stack /\ k # L /\ stack'[k] = stack[k]
        BY <1>2, <3>3
      <4>2. color[d] = "black" \/ d = stack[k + 1].name
        BY <4>1 DEF SearchInv, ExploredInv
      <4>3. d \in Names
        BY <4>1, <1>5, <1>2, GraphType
      <4> QED BY <4>1, <4>2, <4>3, <1>2, <1>3
    <3> QED BY <3>1, <3>2, <3>3, <1>2
  <2> QED BY <2>1, <1>1, <1>2, <1>4 DEF SearchInv, ExploredInv
<1>9. RootsInv'
  <2>1. \A m \in Declared \ roots' : color'[m] = "black" \/ m = stack'[1].name
    <3> SUFFICES ASSUME NEW m \in Declared \ roots' PROVE color'[m] = "black" \/ m = stack'[1].name
      OBVIOUS
    <3>1. m \in Names
      BY GraphType
    <3>2. CASE stack = << >>
      <4>1. m = n \/ color[m] = "black"
        BY <3>2 DEF SearchInv, RootsInv
      <4> QED BY <4>1, <3>1, <3>2, <1>2, <1>3
    <3>3. CASE stack # << >>
      <4>1. 1 \in 1..L
        BY <3>3, <1>2 DEF TypeOK
      <4>2. color[m] = "black" \/ m = stack[1].name
        BY <3>3 DEF SearchInv, RootsInv
      <4> QED BY <4>1, <4>2, <3>1, <1>2, <1>3
    <3> QED BY <3>2, <3>3
  <2>2. \A k \in 1..(L + 1) : stack'[k].name \in Declared /\ stack'[k].todo \subseteq DependsOn[stack'[k].name]
    <3>1. \A k \in 1..L : stack[k].name \in Declared /\ stack[k].todo \subseteq DependsOn[stack[k].name]
      BY <1>2 DEF SearchInv, RootsInv
    <3> QED BY <3>1, <1>2
  <2>3. roots' \subseteq Declared /\ WellDeclared /\ stack' # << >>
    BY <1>2 DEF SearchInv, RootsInv
  <2> QED BY <2>1, <2>2, <2>3, <1>1, <1>2 DEF RootsInv
<1> QED BY <1>7, <1>8, <1>9, StillSearching DEF SearchInv

\* The outer loop meets a node: with no call active it is white or black.
LEMMA VisitRootStep ==
    ASSUME TypeOK, SearchInv, VisitRoot
    PROVE  SearchInv'
<1>1. PICK n \in roots : roots' = roots \ {n} /\ Visit(n, stack)
  BY DEF VisitRoot
<1>2. /\ pc = "search" /\ stack = << >> /\ UNCHANGED evaluators
      /\ DOMAIN stack = {} /\ Len(stack) = 0
  BY StackType DEF VisitRoot
<1>3. n \in Names /\ n \in Declared
  BY <1>2, GraphType DEF SearchInv, RootsInv
<1>4. Declared' = Declared /\ DependsOn' = DependsOn /\ WellDeclared' = WellDeclared
  BY <1>2, ListFixed
<1>5. color[n] # "gray"
  <2>1. color[n] = "gray" => \E k \in DOMAIN stack : stack[k].name = n
    BY <1>3 DEF SearchInv, PathInv
  <2> QED BY <2>1, <1>2
<1>6. CASE color[n] = "black"
  <2>1. UNCHANGED <<pc, color, stack>>
    BY <1>1, <1>6 DEF Visit
  <2>2. PathInv' /\ ExploredInv'
    BY <2>1, <1>4 DEF SearchInv, PathInv, ExploredInv, Painted
  <2>3. RootsInv'
    <3>1. \A m \in Declared \ roots' : color[m] = "black"
      BY <1>1, <1>2, <1>6 DEF SearchInv, RootsInv
    <3> QED BY <3>1, <2>1, <1>1, <1>2, <1>4 DEF SearchInv, RootsInv
  <2> QED BY <2>1, <2>2, <2>3, <1>2, StillSearching DEF SearchInv
<1>7. CASE color[n] = "white"
  <2>1. /\ color' = [color EXCEPT ![n] = "gray"]
        /\ stack' = Append(stack, [name |-> n, todo |-> DependsOn[n]])
        /\ pc' = "search"
    BY <1>1, <1>2, <1>7 DEF Visit
  <2>2. stack \in Seq(Frame)
    BY DEF TypeOK
  <2> QED BY <2>1, <2>2, <1>1, <1>2, <1>3, <1>7, PushStep
<1> QED BY <1>5, <1>6, <1>7, <1>3 DEF TypeOK, Colors

\* The loop of the innermost call meets a dependency.
LEMMA VisitDependencyStep ==
    ASSUME TypeOK, SearchInv, VisitDependency
    PROVE  SearchInv'
<1> DEFINE L == Len(stack)
<1>1. PICK d \in Top.todo : Visit(d, [stack EXCEPT ![L].todo = Top.todo \ {d}])
  BY DEF VisitDependency
<1> DEFINE callers == [stack EXCEPT ![L].todo = Top.todo \ {d}]
<1>2. /\ pc = "search" /\ stack # << >> /\ UNCHANGED <<evaluators, roots>>
      /\ L \in Nat /\ L \in DOMAIN stack /\ DOMAIN stack = 1..L
  BY StackType DEF VisitDependency
<1>3. Declared' = Declared /\ DependsOn' = DependsOn /\ WellDeclared' = WellDeclared
  BY <1>2, ListFixed
<1>4. /\ WellDeclared
      /\ stack[L].name \in Names /\ stack[L].name \in Declared
      /\ d \in DependsOn[stack[L].name] /\ d \in Declared /\ d \in Names
  BY <1>2, GraphType, StackType, DependenciesDeclared DEF SearchInv, RootsInv, Top
<1>5. /\ callers \in Seq(Frame) /\ Len(callers) = L /\ DOMAIN callers = 1..L
      /\ \A k \in 1..L : callers[k].name = stack[k].name /\ callers[k].todo \subseteq stack[k].todo
      /\ \A k \in 1..L : k # L => callers[k] = stack[k]
      /\ callers[L].todo = Top.todo \ {d}
  <2>1. stack \in Seq(Frame) /\ stack[L] \in Frame
    BY <1>2 DEF TypeOK
  <2>2. [stack[L] EXCEPT !.todo = Top.todo \ {d}] \in Frame
    BY <2>1 DEF Frame, Top
  <2>3. callers = [stack EXCEPT ![L] = [stack[L] EXCEPT !.todo = Top.todo \ {d}]]
    OBVIOUS
  <2>4. callers \in Seq(Frame) /\ Len(callers) = L /\ DOMAIN callers = 1..L
    BY <2>1, <2>2, <2>3, <1>2
  <2>5. /\ callers[L] = [stack[L] EXCEPT !.todo = Top.todo \ {d}]
        /\ \A k \in 1..L : k # L => callers[k] = stack[k]
    BY <1>2
  <2>6. callers[L].name = stack[L].name /\ callers[L].todo = Top.todo \ {d}
    BY <2>1, <2>5 DEF Frame
  <2> QED BY <2>4, <2>5, <2>6 DEF Top
<1>6. CASE color[d] = "gray"
  <2>1. pc' = "rejected" /\ UNCHANGED <<color, stack>>
    BY <1>1, <1>6 DEF Visit
  <2>2. PICK j \in 1..L : stack[j].name = d
    BY <1>2, <1>4, <1>6 DEF SearchInv, PathInv
  <2> DEFINE cycle == {stack[k].name : k \in j..L}
  <2>3. cycle # {} /\ cycle \in SUBSET Declared
    <3>1. \A k \in j..L : k \in DOMAIN stack
      BY <1>2
    <3>2. \A k \in j..L : stack[k].name \in Declared
      BY <3>1, <1>2 DEF SearchInv, RootsInv
    <3>3. d \in cycle
      BY <2>2, <1>2
    <3> QED BY <3>2, <3>3
  <2>4. \A e \in cycle : DependsOn[e] \cap cycle # {}
    <3> SUFFICES ASSUME NEW k \in j..L PROVE DependsOn[stack[k].name] \cap cycle # {}
      OBVIOUS
    <3>1. CASE k = L
      <4>1. d \in cycle
        BY <2>2, <1>2
      <4> QED BY <3>1, <1>4, <4>1
    <3>2. CASE k # L
      <4>1. k + 1 \in j..L /\ k \in 1..(L - 1)
        BY <3>2, <1>2
      <4>2. stack[k + 1].name \in DependsOn[stack[k].name]
        BY <4>1 DEF SearchInv, PathInv
      <4>3. stack[k + 1].name \in cycle
        BY <4>1
      <4> QED BY <4>2, <4>3
    <3> QED BY <3>1, <3>2
  <2>5. ~ Acyclic(Declared, DependsOn)
    BY <2>3, <2>4 DEF Acyclic
  <2>6. PathInv' /\ ExploredInv'
    BY <2>1, <1>3 DEF SearchInv, PathInv, ExploredInv, Painted
  <2>7. ~ Acyclic(Declared', DependsOn')
    BY <2>5, <1>3
  <2> QED BY <2>1, <2>6, <2>7 DEF SearchInv, RootsInv, AcceptedIsRunnable, RejectedIsDefective
<1>7. CASE color[d] = "black"
  <2>1. stack' = callers /\ UNCHANGED <<pc, color>>
    BY <1>1, <1>7 DEF Visit
  <2>2. PathInv'
    <3>1. \A m \in Names : color[m] = "gray" <=> \E k \in 1..L : stack[k].name = m
      <4>1. \A m \in Names : color[m] = "gray" <=> \E k \in DOMAIN stack : stack[k].name = m
        BY Zenon DEF SearchInv, PathInv
      <4> QED BY <4>1, <1>2
    <3>2. \A k \in 1..L : callers[k].name = stack[k].name
      BY <1>5
    <3>3. \A m \in Names : color[m] = "gray" <=> \E k \in 1..L : callers[k].name = m
      BY <3>1, <3>2
    <3>4. \A i, k \in 1..L : callers[i].name = callers[k].name => i = k
      BY <3>2, <1>2 DEF SearchInv, PathInv
    <3>5. \A k \in 1..(L - 1) : callers[k + 1].name \in DependsOn[callers[k].name]
      <4>1. \A k \in 1..(L - 1) : k \in 1..L /\ k + 1 \in 1..L
        BY <1>2
      <4> QED BY <4>1, <3>2 DEF SearchInv, PathInv
    <3> QED BY <2>1, <1>3, <1>5, <3>3, <3>4, <3>5 DEF PathInv
  <2>3. ExploredInv'
    <3>1. \A k \in 1..L : \A m \in DependsOn[callers[k].name] \ callers[k].todo :
              color[m] = "black" \/ (k < L /\ m = callers[k + 1].name)
      <4> SUFFICES ASSUME NEW k \in 1..L, NEW m \in DependsOn[callers[k].name] \ callers[k].todo
                   PROVE  color[m] = "black" \/ (k < L /\ m = callers[k + 1].name)
        OBVIOUS
      <4>1. m = d \/ m \in DependsOn[stack[k].name] \ stack[k].todo
        BY <1>5 DEF Top
      <4>2. k < L => k + 1 \in 1..L
        BY <1>2
      <4>3. m = d \/ color[m] = "black" \/ (k < L /\ m = stack[k + 1].name)
        BY <4>1, <1>2 DEF SearchInv, ExploredInv
      <4> QED BY <4>2, <4>3, <1>5, <1>7
    <3> QED BY <3>1, <2>1, <1>3, <1>5 DEF SearchInv, ExploredInv, Painted
  <2>4. RootsInv'
    <3>1. 1 \in 1..L /\ callers # << >>
      BY <1>2, <1>5
    <3>2. \A m \in Declared \ roots : color[m] = "black" \/ m = callers[1].name
      BY <3>1, <1>2, <1>5 DEF SearchInv, RootsInv
    <3>3. \A k \in 1..L : callers[k].name \in Declared /\ callers[k].todo \subseteq DependsOn[callers[k].name]
      BY <1>2, <1>5 DEF SearchInv, RootsInv
    <3> QED BY <3>1, <3>2, <3>3, <2>1, <1>2, <1>3, <1>5 DEF SearchInv, RootsInv
  <2> QED BY <2>1, <2>2, <2>3, <2>4, <1>2, StillSearching DEF SearchInv
<1>8. CASE color[d] = "white"
  <2>1. /\ color' = [color EXCEPT ![d] = "gray"]
        /\ stack' = Append(callers, [name |-> d, todo |-> DependsOn[d]])
        /\ pc' = "search"
    BY <1>1, <1>2, <1>8 DEF Visit
  <2> HIDE DEF callers
  <2> QED BY <2>1, <1>2, <1>4, <1>5, <1>8, PushStep
<1> QED BY <1>4, <1>6, <1>7, <1>8 DEF TypeOK, Colors

\* A call returns: its node joins the explored, still acyclic, part.
LEMMA LeaveStep ==
    ASSUME TypeOK, SearchInv, Leave
    PROVE  SearchInv'
<1> DEFINE L == Len(stack)
<1> DEFINE t == stack[L].name
<1>1. /\ pc = "search" /\ stack # << >> /\ UNCHANGED <<evaluators, roots, pc>>
      /\ L \in Nat /\ L \in DOMAIN stack /\ DOMAIN stack = 1..L
      /\ stack[L].todo = {} /\ t \in Names
      /\ color' = [color EXCEPT ![t] = "black"]
      /\ stack' = SubSeq(stack, 1, L - 1)
  BY StackType DEF Leave, Top
<1>2. Declared' = Declared /\ DependsOn' = DependsOn /\ WellDeclared' = WellDeclared
  BY <1>1, ListFixed
<1>3. /\ Len(stack') = L - 1 /\ DOMAIN stack' = 1..(L - 1)
      /\ \A k \in 1..(L - 1) : stack'[k] = stack[k]
  <2>1. stack \in Seq(Frame)
    BY DEF TypeOK
  <2> QED BY <1>1, <2>1
<1>4. /\ color[t] = "gray" /\ color'[t] = "black"
      /\ \A m \in Names : m # t => color'[m] = color[m]
  BY <1>1 DEF SearchInv, PathInv, TypeOK
<1> HIDE DEF t
<1>5. Painted("black")' = Painted("black") \cup {t} /\ t \notin Painted("black")
  BY <1>1, <1>4 DEF Painted
<1>6. DependsOn[t] \subseteq Painted("black")
  <2>1. \A d \in DependsOn[stack[L].name] \ stack[L].todo : color[d] = "black"
    BY <1>1 DEF SearchInv, ExploredInv
  <2> QED BY <2>1, <1>1, GraphType DEF Painted, t
<1>7. \A k \in 1..(L - 1) : stack[k].name # t
  <2>1. \A j, k \in 1..L : stack[j].name = stack[k].name => j = k
    BY <1>1 DEF SearchInv, PathInv
  <2> QED BY <2>1, <1>1 DEF t
<1>8. PathInv'
  <2>1. \A m \in Names : color'[m] = "gray" <=> \E k \in 1..(L - 1) : stack[k].name = m
    <3> SUFFICES ASSUME NEW m \in Names
                 PROVE  color'[m] = "gray" <=> \E k \in 1..(L - 1) : stack[k].name = m
      OBVIOUS
    <3>1. color[m] = "gray" <=> \E k \in DOMAIN stack : stack[k].name = m
      BY Zenon DEF SearchInv, PathInv
    <3>2. CASE m = t
      BY <3>2, <1>4, <1>7
    <3>3. CASE m # t
      <4>1. \A k \in 1..L : stack[k].name = m => k \in 1..(L - 1)
        BY <3>3, <1>1 DEF t
      <4> QED BY <3>1, <3>3, <4>1, <1>1, <1>4
    <3> QED BY <3>2, <3>3
  <2>2. \A j, k \in 1..(L - 1) : stack[j].name = stack[k].name => j = k
    BY <1>1 DEF SearchInv, PathInv
  <2>3. \A k \in 1..(L - 1 - 1) : stack[k + 1].name \in DependsOn[stack[k].name]
    BY <1>1 DEF SearchInv, PathInv
  <2>4. \A k \in 1..(L - 1) : stack'[k].name = stack[k].name
    BY <1>3
  <2>5. \A k \in 1..(L - 1 - 1) : k \in 1..(L - 1) /\ k + 1 \in 1..(L - 1)
    BY <1>1
  <2>6. \A m \in Names : color'[m] = "gray" <=> \E k \in 1..(L - 1) : stack'[k].name = m
    BY <2>1, <2>4
  <2>7. \A j, k \in 1..(L - 1) : stack'[j].name = stack'[k].name => j = k
    BY <2>2, <2>4
  <2>8. \A k \in 1..(L - 1 - 1) : stack'[k + 1].name \in DependsOn[stack'[k].name]
    BY <2>3, <2>4, <2>5
  <2> QED BY <1>2, <1>3, <2>6, <2>7, <2>8 DEF PathInv
<1>9. ExploredInv'
  <2>1. Acyclic(Painted("black") \cup {t}, DependsOn)
    BY <1>5, <1>6, AcyclicExtends DEF SearchInv, ExploredInv
  <2>2. \A n \in Painted("black") \cup {t} : DependsOn[n] \subseteq Painted("black") \cup {t}
    BY <1>6 DEF SearchInv, ExploredInv
  <2>3. \A k \in 1..(L - 1) : \A d \in DependsOn[stack[k].name] \ stack[k].todo :
            color'[d] = "black" \/ (k < L - 1 /\ d = stack[k + 1].name)
    <3> SUFFICES ASSUME NEW k \in 1..(L - 1), NEW d \in DependsOn[stack[k].name] \ stack[k].todo
                 PROVE  color'[d] = "black" \/ (k < L - 1 /\ d = stack[k + 1].name)
      OBVIOUS
    <3>1. k \in DOMAIN stack /\ stack[k].name \in Names
      BY <1>1, StackType
    <3>2. d \in Names
      BY <3>1, GraphType
    <3>3. color[d] = "black" \/ d = stack[k + 1].name
      BY <3>1 DEF SearchInv, ExploredInv
    <3>4. CASE color[d] = "black"
      BY <3>4, <3>2, <1>4
    <3>5. CASE d = stack[k + 1].name
      BY <3>5, <1>1, <1>4 DEF t
    <3> QED BY <3>3, <3>4, <3>5
  <2>4. Acyclic(Painted("black"), DependsOn)'
    BY <2>1, <1>2, <1>5 DEF Acyclic
  <2>5. \A k \in 1..(L - 1) : k < L - 1 => k + 1 \in 1..(L - 1)
    BY <1>1
  <2>6. \A k \in DOMAIN stack' : \A d \in DependsOn'[stack'[k].name] \ stack'[k].todo :
            color'[d] = "black" \/ (k < Len(stack') /\ d = stack'[k + 1].name)
    BY <2>3, <2>5, <1>2, <1>3
  <2> QED BY <2>2, <2>4, <2>6, <1>2, <1>5 DEF ExploredInv
<1>10. RootsInv'
  <2>1. \A m \in Declared \ roots : color'[m] = "black" \/ (stack' # << >> /\ m = stack'[1].name)
    <3> SUFFICES ASSUME NEW m \in Declared \ roots
                 PROVE  color'[m] = "black" \/ (stack' # << >> /\ m = stack'[1].name)
      OBVIOUS
    <3>1. m \in Names
      BY GraphType
    <3>2. color[m] = "black" \/ m = stack[1].name
      BY <1>1 DEF SearchInv, RootsInv
    <3>3. CASE color[m] = "black"
      BY <3>3, <3>1, <1>4
    <3>4. CASE m = stack[1].name /\ L = 1
      BY <3>4, <1>4 DEF t
    <3>5. CASE m = stack[1].name /\ L # 1
      <4>1. 1 \in 1..(L - 1)
        BY <3>5, <1>1
      <4> QED BY <4>1, <3>5, <1>3
    <3> QED BY <3>2, <3>3, <3>4, <3>5
  <2>2. \A k \in 1..(L - 1) : stack[k].name \in Declared /\ stack[k].todo \subseteq DependsOn[stack[k].name]
    BY <1>1 DEF SearchInv, RootsInv
  <2> QED BY <2>1, <2>2, <1>1, <1>2, <1>3 DEF SearchInv, RootsInv
<1> QED BY <1>1, <1>8, <1>9, <1>10, StillSearching DEF SearchInv

\* The outer loop ends: every declared evaluator is explored.
LEMMA AcceptStep ==
    ASSUME TypeOK, SearchInv, Accept
    PROVE  SearchInv'
<1> USE DEF Accept
<1>1. Declared' = Declared /\ DependsOn' = DependsOn /\ WellDeclared' = WellDeclared
  BY ListFixed
<1>2. Declared \subseteq Painted("black")
  BY GraphType DEF SearchInv, RootsInv, Painted
<1>3. Acyclic(Declared, DependsOn)
  BY <1>2 DEF SearchInv, ExploredInv, Acyclic
<1>4. Acyclic(Declared', DependsOn') /\ WellDeclared'
  BY <1>1, <1>3 DEF SearchInv, RootsInv
<1>5. PathInv' /\ ExploredInv'
  BY <1>1 DEF SearchInv, PathInv, ExploredInv, Painted
<1> QED BY <1>4, <1>5 DEF SearchInv, RootsInv, AcceptedIsRunnable, RejectedIsDefective

LEMMA StutterStep ==
    ASSUME SearchInv, UNCHANGED vars
    PROVE  SearchInv'
<1>1. Declared' = Declared /\ DependsOn' = DependsOn /\ WellDeclared' = WellDeclared
  BY ListFixed DEF vars
<1>2. Acyclic(Declared', DependsOn') <=> Acyclic(Declared, DependsOn)
  BY <1>1
<1> QED BY <1>1, <1>2 DEF vars, SearchInv, PathInv, ExploredInv, RootsInv, Painted,
           AcceptedIsRunnable, RejectedIsDefective

LEMMA InitInv == Init => TypeOK /\ SearchInv
<1> SUFFICES ASSUME Init PROVE TypeOK /\ SearchInv
  OBVIOUS
<1> USE DEF Init
<1>1. TypeOK
  BY DEF TypeOK, Colors
<1>2. Painted("black") = {} /\ DOMAIN stack = {} /\ Len(stack) = 0
  BY DEF Painted
<1>3. Acyclic(Painted("black"), DependsOn)
  BY <1>2 DEF Acyclic
<1>4. PathInv /\ ExploredInv
  BY <1>2, <1>3 DEF PathInv, ExploredInv
<1> QED BY <1>1, <1>4 DEF SearchInv, RootsInv, AcceptedIsRunnable, RejectedIsDefective

\* Types and the search invariant hold throughout every validation.
THEOREM SearchInvariant == Spec => []SearchIInv
<1>1. SearchIInv /\ [Next]_vars => SearchIInv'
  <2> SUFFICES ASSUME TypeOK, SearchInv, [Next]_vars PROVE SearchInv'
    BY TypeStep DEF SearchIInv
  <2> QED BY CheckDeclarationsStep, VisitRootStep, VisitDependencyStep, LeaveStep,
             AcceptStep, StutterStep DEF Next
<1>2. Init => SearchIInv
  BY InitInv DEF SearchIInv
<1> QED BY <1>1, <1>2, PTL DEF Spec

\* Whatever list the caller passes, of any length and over any names, an
\* accepted one is runnable: dependencies are declared, names are unique and
\* some evaluator of every non-empty set waits for no other member.  And the
\* search refuses no runnable list.
THEOREM ValidationSound == Spec => []ValidationIsExact
<1>1. SearchIInv => ValidationIsExact
  BY DEF SearchIInv, SearchInv, ValidationIsExact
<1> QED BY <1>1, SearchInvariant, PTL

=============================================================================
