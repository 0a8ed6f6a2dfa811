--------------------------- MODULE SuiteRunProofs ---------------------------
(***************************************************************************)
(* The safety of Suite.Run for every set of evaluators and every graph:    *)
(* dependencies are visible, failures are told truthfully and leave no     *)
(* results and no goroutines, and the deadlock error has its cause in what *)
(* the evaluators answered.                                                *)
(***************************************************************************)
EXTENDS SuiteRun, FiniteSetTheorems, TLAPS

\* Publishing evaluators whose dependencies are all published keeps the
\* published part of the graph acyclic.
LEMMA PublishingKeepsAcyclic ==
    ASSUME NEW B, NEW W, NEW deps,
           B \cap W = {},
           Acyclic(B, deps),
           \A b \in B : deps[b] \subseteq B,
           \A w \in W : deps[w] \subseteq B
    PROVE  Acyclic(B \cup W, deps)
<1> SUFFICES ASSUME NEW S \in SUBSET (B \cup W), S # {}
             PROVE  \E e \in S : deps[e] \cap S = {}
  BY DEF Acyclic
<1>1. CASE S \cap B = {}
  <2>1. PICK e \in S : e \in W
    BY <1>1
  <2>2. deps[e] \cap S = {}
    BY <1>1, <2>1
  <2> QED BY <2>2
<1>2. CASE S \cap B # {}
  <2>1. PICK e \in S \cap B : deps[e] \cap (S \cap B) = {}
    BY <1>2 DEF Acyclic
  <2>2. deps[e] \subseteq B
    BY <2>1
  <2> QED BY <2>1, <2>2
<1> QED BY <1>1, <1>2

\* In an acyclic graph some pending evaluator waits for no pending one: the
\* reason why the scheduler always finds a wave (suite.go:171-179).
LEMMA SomethingReady ==
    ASSUME NEW done, NEW deps \in [Evaluators -> SUBSET Evaluators],
           Acyclic(Evaluators, deps), Evaluators \ done # {}
    PROVE  \E e \in Evaluators \ done : deps[e] \ done = {}
<1>1. PICK e \in Evaluators \ done : deps[e] \cap (Evaluators \ done) = {}
  BY DEF Acyclic
<1> QED BY <1>1

-----------------------------------------------------------------------------
(* Waves *)

\* A set with 0 that has, with a number below n, the next one too.
LEMMA Induction ==
    ASSUME NEW n \in Nat, NEW S, 0 \in S, \A k \in 1 .. n : k - 1 \in S => k \in S
    PROVE  0 .. n \subseteq S
<1> DEFINE T == (0 .. n) \ S
           F == {0 .. k : k \in T}
<1> SUFFICES ASSUME T # {} PROVE FALSE
  OBVIOUS
<1>1. \A k \in T : (0 .. k) \subseteq (0 .. n)
  OBVIOUS
<1>2. F \subseteq FiniteSubsetsOf(0 .. n) /\ F # {}
  <2>1. IsFiniteSet(0 .. n)
    BY FS_Interval
  <2> QED BY <1>1, <2>1, FS_Subset DEF FiniteSubsetsOf
<1>3. PICK X \in F : \A Y \in F : ~(<<Y, X>> \in StrictSubsetOrdering(0 .. n))
  <2>1. IsFiniteSet(0 .. n)
    BY FS_Interval
  <2> HIDE DEF F
  <2> QED BY <1>2, <2>1, FS_StrictSubsetOrderingWellFounded, WFMin
<1>4. PICK k \in T : X = 0 .. k
  OBVIOUS
<1>5. k - 1 \in T
  <2>1. k \in 0 .. n /\ k \notin S
    OBVIOUS
  <2> QED BY <2>1
<1>6. /\ 0 .. (k - 1) \in F
      /\ (0 .. (k - 1)) \subseteq (0 .. k) /\ k \in 0 .. k /\ k \notin 0 .. (k - 1)
  BY <1>5
<1>7. <<0 .. (k - 1), X>> \in StrictSubsetOrdering(0 .. n)
  BY <1>1, <1>4, <1>5, <1>6 DEF StrictSubsetOrdering
<1> QED BY <1>3, <1>6, <1>7

\* The waves of a graph, as far as n of them.
Waves(w, n, deps) ==
  /\ w \in [0 .. n -> SUBSET Evaluators]
  /\ w[0] = {}
  /\ \A k \in 1 .. n : w[k] = {e \in Evaluators : deps[e] \subseteq w[k - 1]}

LEMMA WavesExist ==
    ASSUME NEW n \in Nat, NEW deps
    PROVE  \E w : Waves(w, n, deps)
<1> DEFINE S == {m \in 0 .. n : \E w : Waves(w, m, deps)}
<1>1. 0 \in S
  <2>1. Waves([k \in 0 .. 0 |-> {}], 0, deps)
    BY DEF Waves
  <2> QED BY <2>1
<1>2. ASSUME NEW m \in 1 .. n, m - 1 \in S PROVE m \in S
  <2>1. PICK w : Waves(w, m - 1, deps)
    BY <1>2
  <2> DEFINE last == {e \in Evaluators : deps[e] \subseteq w[m - 1]}
             v == [k \in 0 .. m |-> IF k = m THEN last ELSE w[k]]
  <2>2. \A k \in 0 .. m : k # m => k \in 0 .. (m - 1)
    OBVIOUS
  <2>3. w \in [0 .. (m - 1) -> SUBSET Evaluators] /\ w[0] = {}
    BY <2>1 DEF Waves
  <2>4. v \in [0 .. m -> SUBSET Evaluators] /\ v[0] = {}
    BY <2>2, <2>3
  <2>5. ASSUME NEW k \in 1 .. m PROVE v[k] = {e \in Evaluators : deps[e] \subseteq v[k - 1]}
    <3>1. k \in 0 .. m /\ k - 1 \in 0 .. m /\ k - 1 # m
      OBVIOUS
    <3>2. v[k - 1] = w[k - 1]
      BY <3>1
    <3>3. CASE k = m
      BY <3>1, <3>2, <3>3
    <3>4. CASE k # m
      <4>1. k \in 1 .. (m - 1)
        BY <3>4
      <4>2. w[k] = {e \in Evaluators : deps[e] \subseteq w[k - 1]}
        BY <2>1, <4>1 DEF Waves
      <4>3. v[k] = w[k]
        BY <3>1, <3>4
      <4> HIDE DEF v
      <4> QED BY <3>2, <4>2, <4>3
    <3> QED BY <3>3, <3>4
  <2>6. Waves(v, m, deps)
    <3> HIDE DEF v
    <3> QED BY <2>4, <2>5 DEF Waves
  <2> HIDE DEF v
  <2> QED BY <2>6
<1>3. 0 .. n \subseteq S
  <2> HIDE DEF S
  <2> QED BY <1>1, <1>2, Induction
<1> QED BY <1>3

\* What the recursive WavesUpTo computes for the graph that Run read.
LEMMA WavesUpToWaves == Waves(WavesUpTo, Cardinality(Evaluators) + 1, edges)
<1> DEFINE n == Cardinality(Evaluators) + 1
           Rec(w) == w = [k \in 0 .. n |-> IF k = 0 THEN {} ELSE {e \in Evaluators : edges[e] \subseteq w[k - 1]}]
           w0 == CHOOSE w : Rec(w)
<1>1. n \in Nat
  BY SuiteAssumption, FS_CardinalityType
<1>2. PICK w : Waves(w, n, edges)
  <2> HIDE DEF n
  <2> QED BY <1>1, WavesExist
<1>3. Rec(w)
  <2> HIDE DEF n
  <2>1. \A k \in 0 .. n : k # 0 => k \in 1 .. n
    BY <1>1
  <2>2. \A k \in 0 .. n :
           w[k] = IF k = 0 THEN {} ELSE {e \in Evaluators : edges[e] \subseteq w[k - 1]}
    BY <1>2, <2>1 DEF Waves
  <2>3. w = [k \in 0 .. n |-> w[k]]
    BY <1>2 DEF Waves
  <2> QED BY <2>2, <2>3
<1>4. Rec(w0)
  <2> HIDE DEF Rec
  <2> QED BY <1>3
<1>5. WavesUpTo = w0
  BY DEF WavesUpTo
<1>6. \A k \in 1 .. n : k \in 0 .. n /\ k # 0
  <2> HIDE DEF n
  <2> QED BY <1>1
<1>7. 0 \in 0 .. n
  <2> HIDE DEF n
  <2> QED BY <1>1
<1> HIDE DEF w0, n
<1>8. w0[0] = {} /\ \A k \in 1 .. n : w0[k] = {e \in Evaluators : edges[e] \subseteq w0[k - 1]}
  BY <1>4, <1>6, <1>7
<1>9. w0 \in [0 .. n -> SUBSET Evaluators]
  BY <1>4
<1>10. Waves(w0, n, edges)
  BY <1>8, <1>9 DEF Waves
<1> QED BY <1>5, <1>10 DEF n

\* A wave comes on top of the waves before it.
LEMMA WavesGrow ==
    ASSUME NEW n \in Nat, NEW w, NEW deps, Waves(w, n, deps), NEW k \in 1 .. n
    PROVE  w[k - 1] \subseteq w[k]
<1> DEFINE S == {m \in 0 .. (n - 1) : w[m] \subseteq w[m + 1]}
<1>1. 0 \in S
  BY DEF Waves
<1>2. ASSUME NEW m \in 1 .. (n - 1), m - 1 \in S PROVE m \in S
  <2>1. m \in 1 .. n /\ m + 1 \in 1 .. n /\ (m - 1) + 1 = m /\ (m + 1) - 1 = m
    OBVIOUS
  <2>2. w[m - 1] \subseteq w[m]
    BY <1>2, <2>1
  <2>3. /\ w[m] = {e \in Evaluators : deps[e] \subseteq w[m - 1]}
        /\ w[m + 1] = {e \in Evaluators : deps[e] \subseteq w[m]}
    BY <2>1 DEF Waves
  <2> QED BY <2>2, <2>3
<1>3. 0 .. (n - 1) \subseteq S
  <2>1. n - 1 \in Nat
    OBVIOUS
  <2> HIDE DEF S
  <2> QED BY <1>1, <1>2, <2>1, Induction
<1>4. k - 1 \in 0 .. (n - 1) /\ (k - 1) + 1 = k
  OBVIOUS
<1> QED BY <1>3, <1>4

\* k waves are published, each with an evaluator of its own, and a wave is
\* everything that the published reports allow.
WavesAgree ==
  /\ \E k \in 0 .. Cardinality(Evaluators) :
        results = WavesUpTo[k] /\ k <= Cardinality(results)
  /\ pc = "wait" => wave = {e \in Evaluators \ results : edges[e] \subseteq results}

-----------------------------------------------------------------------------
LEMMA InitInv == Init => TypeOK /\ RunInv
<1> SUFFICES ASSUME Init PROVE TypeOK /\ RunInv
  OBVIOUS
<1> USE SuiteAssumption DEF Init
<1>1. TypeOK
  BY DEF TypeOK
<1>2. Acyclic(results, edges)
  BY DEF Acyclic
<1> QED BY <1>1, <1>2 DEF RunInv, BooksAgree, WorkersAgree, GroupAgrees, DependenciesVisible,
           NoStragglers, Active, Evaluated, ErrorIsRootCause, AllOrNothing, DeadlockHasACause

LEMMA TypeStep == TypeOK /\ [Next]_vars => TypeOK'
<1> SUFFICES ASSUME TypeOK, [Next]_vars PROVE TypeOK'
  OBVIOUS
<1> USE DEF TypeOK, run, group, answer
<1>1. CASE Validate
  BY <1>1 DEF Validate, Return
<1>2. CASE Build
  BY <1>2, SuiteAssumption DEF Build
<1>3. CASE OpenWave
  BY <1>3 DEF OpenWave, Ready
<1>4. CASE NothingReady \/ Finished
  BY <1>4 DEF NothingReady, Finished, Return
<1>5. CASE WaveFailed
  BY <1>5 DEF WaveFailed, Return
<1>6. CASE Publish
  BY <1>6 DEF Publish
<1>7. ASSUME NEW e \in Evaluators, Evaluate(e) PROVE TypeOK'
  <2>1. CASE Start(e)
    BY <2>1 DEF Start
  <2>2. CASE Report(e)
    BY <2>2 DEF Report
  <2>3. CASE Fail(e)
    BY <2>3 DEF Fail
  <2> QED BY <1>7, <2>1, <2>2, <2>3 DEF Evaluate
<1>8. CASE Cancel
  BY <1>8 DEF Cancel
<1>9. CASE UNCHANGED vars
  BY <1>9 DEF vars
<1> QED BY <1>1, <1>2, <1>3, <1>4, <1>5, <1>6, <1>7, <1>8, <1>9 DEF Next, Scheduler

-----------------------------------------------------------------------------
LEMMA ValidateStep == ASSUME TypeOK, RunInv, Validate PROVE RunInv'
<1>1. UNCHANGED <<run, group, ctxCanceled>> /\ pc = "validate"
  BY DEF Validate
<1>2. CASE pc' = "build" /\ UNCHANGED answer /\ Known(declared) /\ Acyclic(Evaluators, declared)
  BY <1>1, <1>2 DEF run, group, answer, RunInv, BooksAgree, WorkersAgree, GroupAgrees,
     DependenciesVisible, NoStragglers, Active, Evaluated, ErrorIsRootCause, AllOrNothing,
     DeadlockHasACause
<1>3. CASE pc' = "returned" /\ outcome' = "invalid" /\ returned' = {}
  BY <1>1, <1>3 DEF run, group, answer, RunInv, BooksAgree, WorkersAgree, GroupAgrees,
     DependenciesVisible, NoStragglers, Active, Evaluated, ErrorIsRootCause, AllOrNothing,
     DeadlockHasACause
<1> QED BY <1>2, <1>3 DEF Validate, Return

LEMMA BuildStep == ASSUME TypeOK, RunInv, Build PROVE RunInv'
<1>1. results = {} /\ \A e \in Evaluators : worker[e] = "idle"
  BY DEF Build, RunInv, WorkersAgree
<1>2. edges \in [Evaluators -> SUBSET Names]
  BY SuiteAssumption DEF TypeOK
<1>3. edges = [e \in Evaluators |-> edges[e] \ results]
  BY <1>1, <1>2
<1> QED BY <1>1, <1>3 DEF Build, group, answer, RunInv, BooksAgree, WorkersAgree, GroupAgrees,
     DependenciesVisible, NoStragglers, Active, Evaluated, ErrorIsRootCause, AllOrNothing,
     DeadlockHasACause

LEMMA OpenWaveStep == ASSUME TypeOK, RunInv, OpenWave PROVE RunInv'
<1>1. /\ pc = "schedule" /\ pc' = "wait" /\ Ready # {} /\ wave' = Ready /\ snapshot' = results
      /\ worker' = [e \in Evaluators |-> IF e \in Ready THEN "spawned" ELSE worker[e]]
      /\ groupErr' = "none" /\ waveCanceled' = FALSE
      /\ UNCHANGED <<run, view, ctxCanceled, answer>>
  BY DEF OpenWave
<1>2. /\ Ready \subseteq Evaluators /\ Ready \cap results = {}
      /\ \A e \in Ready : edges[e] \subseteq results
  BY <1>1 DEF Ready, RunInv, BooksAgree, TypeOK
<1>3. \A e \in Evaluators : worker[e] = (IF e \in results THEN "reported" ELSE "idle")
  BY <1>1 DEF RunInv, WorkersAgree
<1>4. BooksAgree'
  BY <1>1 DEF run, RunInv, BooksAgree
<1>5. WorkersAgree'
  BY <1>1, <1>2, <1>3 DEF run, WorkersAgree
<1>6. GroupAgrees'
  BY <1>1 DEF GroupAgrees
<1>7. DependenciesVisible'
  BY <1>1, <1>2, <1>3 DEF run, RunInv, DependenciesVisible, Evaluated
<1>8. NoStragglers' /\ ErrorIsRootCause' /\ DeadlockHasACause'
  BY <1>1 DEF answer, RunInv, NoStragglers, ErrorIsRootCause, DeadlockHasACause
<1>9. AllOrNothing'
  BY <1>1 DEF answer, RunInv, AllOrNothing
<1> QED BY <1>1, <1>4, <1>5, <1>6, <1>7, <1>8, <1>9 DEF run, answer, RunInv

LEMMA NothingReadyStep == ASSUME TypeOK, RunInv, NothingReady PROVE RunInv'
<1>1. /\ pc = "schedule" /\ pending # {} /\ Ready = {}
      /\ pc' = "returned" /\ outcome' = "deadlock" /\ returned' = {}
      /\ UNCHANGED <<run, group, ctxCanceled>>
  BY DEF NothingReady, Return
<1>2. edges \in [Evaluators -> SUBSET Names]
  BY SuiteAssumption DEF TypeOK
<1>3. \A e \in Evaluators \ results : edges[e] \ results # {}
  BY <1>1 DEF Ready, RunInv, BooksAgree
<1>4. Evaluators \ results # {}
  BY <1>1 DEF RunInv, BooksAgree
<1>5. ~Known(edges) \/ ~Acyclic(Evaluators, edges)
  <2> SUFFICES ASSUME Known(edges), Acyclic(Evaluators, edges) PROVE FALSE
    OBVIOUS
  <2>1. edges \in [Evaluators -> SUBSET Evaluators]
    BY <1>2 DEF Known
  <2> QED BY <1>3, <1>4, <2>1, SomethingReady
<1>6. Known(declared) /\ Acyclic(Evaluators, declared)
  BY <1>1 DEF RunInv, BooksAgree
<1>7. edges # declared
  BY <1>5, <1>6
<1>8. DeadlockHasACause'
  BY <1>1, <1>5, <1>7 DEF run, Known, DeadlockHasACause
<1>9. BooksAgree' /\ WorkersAgree' /\ GroupAgrees'
  BY <1>1 DEF run, group, RunInv, BooksAgree, WorkersAgree, GroupAgrees
<1>10. DependenciesVisible' /\ NoStragglers' /\ ErrorIsRootCause' /\ AllOrNothing'
  BY <1>1 DEF run, group, RunInv, DependenciesVisible, NoStragglers, Active, Evaluated,
     ErrorIsRootCause, AllOrNothing
<1> QED BY <1>1, <1>8, <1>9, <1>10 DEF run, RunInv

LEMMA FinishedStep == ASSUME TypeOK, RunInv, Finished PROVE RunInv'
<1>1. /\ pc = "schedule" /\ pending = {}
      /\ pc' = "returned" /\ outcome' = "ok" /\ returned' = results
      /\ UNCHANGED <<run, group, ctxCanceled>>
  BY DEF Finished, Return
<1>2. results = Evaluators
  BY <1>1 DEF RunInv, BooksAgree, TypeOK
<1>3. Known(edges)' /\ Acyclic(Evaluators, edges')
  BY <1>1, <1>2 DEF run, RunInv, BooksAgree, Known
<1>4. \A e \in Evaluators : worker[e] = "reported"
  BY <1>1, <1>2 DEF RunInv, WorkersAgree
<1>5. AllOrNothing'
  BY <1>1, <1>2, <1>3, <1>4 DEF group, AllOrNothing
<1>6. BooksAgree' /\ WorkersAgree' /\ GroupAgrees'
  BY <1>1 DEF run, group, RunInv, BooksAgree, WorkersAgree, GroupAgrees
<1>7. DependenciesVisible' /\ NoStragglers' /\ ErrorIsRootCause' /\ DeadlockHasACause'
  BY <1>1 DEF run, group, RunInv, DependenciesVisible, NoStragglers, Active, Evaluated,
     ErrorIsRootCause, DeadlockHasACause
<1> QED BY <1>1, <1>5, <1>6, <1>7 DEF run, RunInv

LEMMA WaveFailedStep == ASSUME TypeOK, RunInv, WaveFailed PROVE RunInv'
<1>1. /\ pc = "wait" /\ groupErr # "none"
      /\ \A e \in wave : worker[e] \in {"reported", "failed"}
      /\ pc' = "returned" /\ outcome' = groupErr /\ returned' = {}
      /\ UNCHANGED <<run, group, ctxCanceled>>
  BY DEF WaveFailed, WaveDone, Return
<1>2. groupErr \in {"failed", "canceled"}
  BY <1>1 DEF TypeOK
<1>3. \A e \in Evaluators \ wave : worker[e] = (IF e \in results THEN "reported" ELSE "idle")
  BY <1>1 DEF RunInv, WorkersAgree
<1>4. NoStragglers'
  BY <1>1, <1>3 DEF group, NoStragglers, Active
<1>5. ErrorIsRootCause' /\ AllOrNothing' /\ DeadlockHasACause'
  BY <1>1, <1>2 DEF group, RunInv, GroupAgrees, ErrorIsRootCause, AllOrNothing, DeadlockHasACause
<1>6. BooksAgree' /\ WorkersAgree' /\ GroupAgrees' /\ DependenciesVisible'
  BY <1>1 DEF run, group, RunInv, BooksAgree, WorkersAgree, GroupAgrees, DependenciesVisible, Evaluated
<1> QED BY <1>1, <1>4, <1>5, <1>6 DEF run, RunInv

LEMMA PublishStep == ASSUME TypeOK, RunInv, Publish PROVE RunInv'
<1>1. /\ pc = "wait" /\ pc' = "schedule" /\ groupErr = "none"
      /\ \A e \in wave : worker[e] \in {"reported", "failed"}
      /\ results' = results \cup wave
      /\ pending' = pending \ wave
      /\ remaining' = [e \in Evaluators |-> remaining[e] \ wave]
      /\ UNCHANGED <<declared, edges, wave, snapshot, worker, view, groupErr, ctxCanceled, answer>>
  BY DEF Publish, WaveDone
<1>2. /\ wave \subseteq Evaluators /\ wave \cap results = {}
      /\ \A e \in wave : edges[e] \subseteq results /\ worker[e] = "reported"
  BY <1>1 DEF RunInv, WorkersAgree, TypeOK
<1>3. \A e \in Evaluators \ wave : worker[e] = (IF e \in results THEN "reported" ELSE "idle")
  BY <1>1 DEF RunInv, WorkersAgree
<1>4. BooksAgree'
  <2>1. Acyclic(results \cup wave, edges)
    <3>1. Acyclic(results, edges) /\ \A b \in results : edges[b] \subseteq results
      BY DEF RunInv, BooksAgree
    <3>2. results \cap wave = {} /\ \A w \in wave : edges[w] \subseteq results
      BY <1>2
    <3> QED BY <3>1, <3>2, PublishingKeepsAcyclic
  <2>2. Acyclic(results', edges')
    BY <2>1, <1>1
  <2>3. \A e \in results' : edges'[e] \subseteq results'
    BY <1>1, <1>2 DEF RunInv, BooksAgree
  <2>4. pending' = Evaluators \ results'
    BY <1>1 DEF RunInv, BooksAgree
  <2>5. remaining' = [e \in Evaluators |-> edges'[e] \ results']
    BY <1>1 DEF RunInv, BooksAgree
  <2>6. Known(declared)' /\ Acyclic(Evaluators, declared')
    BY <1>1 DEF RunInv, BooksAgree, Known
  <2> QED BY <2>2, <2>3, <2>4, <2>5, <2>6 DEF BooksAgree
<1>5. WorkersAgree' /\ GroupAgrees' /\ NoStragglers'
  BY <1>1, <1>2, <1>3 DEF WorkersAgree, GroupAgrees, NoStragglers, Active
<1>6. DependenciesVisible'
  BY <1>1 DEF RunInv, DependenciesVisible, Evaluated
<1>7. ErrorIsRootCause' /\ AllOrNothing' /\ DeadlockHasACause'
  BY <1>1 DEF answer, RunInv, ErrorIsRootCause, AllOrNothing, DeadlockHasACause
<1> QED BY <1>1, <1>4, <1>5, <1>6, <1>7 DEF answer, RunInv

\* A started goroutine belongs to the wave that the scheduler waits for.
LEMMA ActiveInWave ==
    ASSUME TypeOK, RunInv, NEW e \in Evaluators, Active(e)
    PROVE  pc = "wait" /\ e \in wave
BY DEF RunInv, NoStragglers, WorkersAgree, Active

LEMMA StartStep == ASSUME TypeOK, RunInv, NEW e \in Evaluators, Start(e) PROVE RunInv'
<1>1. /\ worker[e] = "spawned" /\ worker' = [worker EXCEPT ![e] = "running"]
      /\ view' = [view EXCEPT ![e] = snapshot]
      /\ UNCHANGED <<run, wave, snapshot, groupErr, waveCanceled, pc, ctxCanceled, answer>>
  BY DEF Start
<1>2. pc = "wait" /\ e \in wave /\ snapshot = results /\ edges[e] \subseteq results
  BY <1>1, ActiveInWave DEF Active, RunInv, WorkersAgree
<1>3. worker'[e] = "running" /\ \A f \in Evaluators : f # e => worker'[f] = worker[f] /\ view'[f] = view[f]
  BY <1>1 DEF TypeOK
<1>4. view'[e] = results
  BY <1>1, <1>2 DEF TypeOK
<1>5. WorkersAgree'
  BY <1>1, <1>2, <1>3 DEF run, RunInv, WorkersAgree, TypeOK
<1>6. DependenciesVisible'
  BY <1>1, <1>2, <1>3, <1>4 DEF run, RunInv, DependenciesVisible, Evaluated
<1>7. AllOrNothing'
  BY <1>1, <1>2, <1>3 DEF run, answer, RunInv, AllOrNothing
<1>8. BooksAgree' /\ GroupAgrees' /\ NoStragglers' /\ ErrorIsRootCause' /\ DeadlockHasACause'
  BY <1>1, <1>2 DEF run, answer, RunInv, BooksAgree, GroupAgrees, NoStragglers, ErrorIsRootCause, DeadlockHasACause
<1> QED BY <1>1, <1>5, <1>6, <1>7, <1>8 DEF run, answer, RunInv

LEMMA ReportStep == ASSUME TypeOK, RunInv, NEW e \in Evaluators, Report(e) PROVE RunInv'
<1>1. /\ worker[e] = "running" /\ worker' = [worker EXCEPT ![e] = "reported"]
      /\ UNCHANGED <<run, wave, snapshot, view, groupErr, waveCanceled, pc, ctxCanceled, answer>>
  BY DEF Report
<1>2. pc = "wait" /\ e \in wave
  BY <1>1, ActiveInWave DEF Active
<1>3. worker'[e] = "reported" /\ \A f \in Evaluators : f # e => worker'[f] = worker[f]
  BY <1>1 DEF TypeOK
<1>4. WorkersAgree'
  BY <1>1, <1>2, <1>3 DEF run, RunInv, WorkersAgree, TypeOK
<1>5. DependenciesVisible'
  BY <1>1, <1>3 DEF run, RunInv, DependenciesVisible, Evaluated
<1>6. AllOrNothing'
  BY <1>1, <1>2, <1>3 DEF run, answer, RunInv, AllOrNothing
<1>7. BooksAgree' /\ GroupAgrees' /\ NoStragglers' /\ ErrorIsRootCause' /\ DeadlockHasACause'
  BY <1>1, <1>2 DEF run, answer, RunInv, BooksAgree, GroupAgrees, NoStragglers, ErrorIsRootCause, DeadlockHasACause
<1> QED BY <1>1, <1>4, <1>5, <1>6, <1>7 DEF run, answer, RunInv

\* The first failure decides the group's error; a cancellation can come first
\* only when the caller cancelled.
LEMMA FailStep == ASSUME TypeOK, RunInv, NEW e \in Evaluators, Fail(e) PROVE RunInv'
<1>1. /\ worker[e] = "running" /\ worker' = [worker EXCEPT ![e] = "failed"]
      /\ waveCanceled' = TRUE
      /\ UNCHANGED <<run, wave, snapshot, view, pc, ctxCanceled, answer>>
  BY DEF Fail
<1>2. pc = "wait" /\ e \in wave
  BY <1>1, ActiveInWave DEF Active
<1>3. worker'[e] = "failed" /\ \A f \in Evaluators : f # e => worker'[f] = worker[f]
  BY <1>1 DEF TypeOK
<1>4. /\ groupErr' # "none"
      /\ groupErr' = "canceled" => groupErr = "canceled" \/ waveCanceled \/ ctxCanceled
      /\ groupErr # "none" => groupErr' = groupErr
  BY DEF Fail
<1>5. GroupAgrees'
  BY <1>1, <1>2, <1>4 DEF RunInv, GroupAgrees
<1>6. WorkersAgree'
  BY <1>1, <1>2, <1>3, <1>4 DEF run, RunInv, WorkersAgree, TypeOK
<1>7. DependenciesVisible'
  BY <1>1, <1>3 DEF run, RunInv, DependenciesVisible, Evaluated
<1>8. AllOrNothing'
  BY <1>1, <1>2 DEF run, answer, RunInv, AllOrNothing
<1>9. BooksAgree' /\ NoStragglers' /\ ErrorIsRootCause' /\ DeadlockHasACause'
  BY <1>1, <1>2 DEF run, answer, RunInv, BooksAgree, NoStragglers, ErrorIsRootCause, DeadlockHasACause
<1> QED BY <1>1, <1>2, <1>5, <1>6, <1>7, <1>8, <1>9 DEF run, answer, RunInv

LEMMA CancelStep == ASSUME RunInv, Cancel PROVE RunInv'
BY DEF Cancel, run, group, answer, RunInv, BooksAgree, WorkersAgree, GroupAgrees,
     DependenciesVisible, NoStragglers, Active, Evaluated, ErrorIsRootCause, AllOrNothing,
     DeadlockHasACause

LEMMA StutterStep == ASSUME RunInv, UNCHANGED vars PROVE RunInv'
BY DEF vars, run, group, answer, RunInv, BooksAgree, WorkersAgree, GroupAgrees,
     DependenciesVisible, NoStragglers, Active, Evaluated, ErrorIsRootCause, AllOrNothing,
     DeadlockHasACause

-----------------------------------------------------------------------------
\* Types and the scheduler's invariant hold throughout every run.
THEOREM RunInvariant == Spec => []RunIInv
<1>1. RunIInv /\ [Next]_vars => RunIInv'
  <2> SUFFICES ASSUME TypeOK, RunInv, [Next]_vars PROVE RunInv'
    BY TypeStep DEF RunIInv
  <2>1. CASE Scheduler
    BY <2>1, ValidateStep, BuildStep, OpenWaveStep, NothingReadyStep, FinishedStep,
       WaveFailedStep, PublishStep DEF Scheduler
  <2>2. ASSUME NEW e \in Evaluators, Evaluate(e) PROVE RunInv'
    BY <2>2, StartStep, ReportStep, FailStep DEF Evaluate
  <2> QED BY <2>1, <2>2, CancelStep, StutterStep DEF Next
<1>2. Init => RunIInv
  BY InitInv DEF RunIInv
<1> QED BY <1>1, <1>2, PTL DEF Spec

\* A started evaluator can read a report of each of its dependencies, and
\* nothing that is not published.
THEOREM VisibleDependencies == Spec => []DependenciesVisible
<1>1. RunIInv => DependenciesVisible
  BY DEF RunIInv, RunInv
<1> QED BY <1>1, RunInvariant, PTL

\* When Run has returned, no evaluator of it is still at work.
THEOREM StructuredConcurrency == Spec => []NoStragglers
<1>1. RunIInv => NoStragglers
  BY DEF RunIInv, RunInv
<1> QED BY <1>1, RunInvariant, PTL

\* The cancellation that a failing evaluator causes never masks its error.
THEOREM RootCause == Spec => []ErrorIsRootCause
<1>1. RunIInv => ErrorIsRootCause
  BY DEF RunIInv, RunInv
<1> QED BY <1>1, RunInvariant, PTL

\* Reports of every evaluator, or an error and none.
THEOREM AllReportsOrNone == Spec => []AllOrNothing
<1>1. RunIInv => AllOrNothing
  BY DEF RunIInv, RunInv
<1> QED BY <1>1, RunInvariant, PTL

\* The deadlock error has a cause, an unknown name or a cycle in answers that
\* are not the validated ones, and is unreachable while DependsOn answers
\* consistently.
THEOREM NoSpuriousDeadlock == Spec => []DeadlockHasACause
<1>1. RunIInv => DeadlockHasACause
  BY DEF RunIInv, RunInv
<1> QED BY <1>1, RunInvariant, PTL

\* Evaluators that run side by side are independent: neither is even an
\* indirect dependency of the other (the published set is closed, so it holds
\* every ancestor of a wave).
THEOREM SiblingsAreIndependent == Spec => []ActiveAreIndependent
<1>1. RunIInv => ActiveAreIndependent
  <2> SUFFICES ASSUME RunIInv, NEW e \in Evaluators, NEW f \in Evaluators, Active(e), Active(f)
               PROVE  f \notin Ancestors(e)
    BY DEF ActiveAreIndependent
  <2>1. pc = "wait" /\ e \in wave /\ f \in wave
    BY ActiveInWave DEF RunIInv, RunInv
  <2>2. results \in SUBSET Names /\ f \notin results /\ edges[e] \subseteq results
    BY <2>1, SuiteAssumption DEF RunIInv, RunInv, WorkersAgree, TypeOK
  <2>3. \A s \in results : edges[s] \subseteq results
    BY DEF RunIInv, RunInv, BooksAgree
  <2> QED BY <2>2, <2>3 DEF Ancestors
<1> QED BY <1>1, RunInvariant, PTL

\* No evaluator is run twice: what has reported or failed stays so.
THEOREM EvaluatedOnce == Spec => RunOnce
<1>1. RunIInv /\ [Next]_vars =>
        [\A e \in Evaluators : worker[e] \in {"reported", "failed"} => worker'[e] = worker[e]]_vars
  <2> SUFFICES ASSUME TypeOK, RunInv, [Next]_vars, NEW e \in Evaluators, worker[e] \in {"reported", "failed"}
               PROVE  worker'[e] = worker[e]
    BY DEF RunIInv
  <2>1. CASE OpenWave
    <3>1. worker[e] = "reported" /\ e \in results
      BY <2>1 DEF OpenWave, RunInv, WorkersAgree
    <3>2. e \notin Ready
      BY <2>1, <3>1 DEF OpenWave, RunInv, BooksAgree, Ready
    <3> QED BY <2>1, <3>2 DEF OpenWave
  <2>2. CASE Scheduler /\ ~OpenWave
    BY <2>2 DEF Scheduler, Validate, Build, NothingReady, Finished, WaveFailed, Publish, group
  <2>3. ASSUME NEW f \in Evaluators, Evaluate(f) PROVE worker'[e] = worker[e]
    BY <2>3 DEF Evaluate, Start, Report, Fail, TypeOK
  <2>4. CASE Cancel \/ UNCHANGED vars
    BY <2>4 DEF Cancel, vars, group
  <2> QED BY <2>1, <2>2, <2>3, <2>4 DEF Next
<1> QED BY <1>1, RunInvariant, PTL DEF Spec, RunOnce

LEMMA WavesInit == Init => WavesAgree /\ ViewIndependentOfTiming
<1> SUFFICES ASSUME Init PROVE WavesAgree /\ ViewIndependentOfTiming
  OBVIOUS
<1>1. Cardinality(Evaluators) \in Nat /\ Cardinality({}) = 0
  BY SuiteAssumption, FS_CardinalityType, FS_EmptySet
<1>2. WavesUpTo[0] = {}
  BY WavesUpToWaves DEF Waves
<1>3. results = WavesUpTo[0] /\ 0 <= Cardinality(results) /\ 0 \in 0 .. Cardinality(Evaluators)
  BY <1>1, <1>2 DEF Init
<1>4. WavesAgree
  BY <1>3 DEF WavesAgree, Init
<1>5. ViewIndependentOfTiming
  BY DEF ViewIndependentOfTiming, Evaluated, Init
<1> QED BY <1>4, <1>5

LEMMA WavesStep ==
    RunIInv /\ WavesAgree /\ ViewIndependentOfTiming /\ [Next]_vars
        => WavesAgree' /\ ViewIndependentOfTiming'
<1> SUFFICES ASSUME RunIInv, WavesAgree, ViewIndependentOfTiming, [Next]_vars
             PROVE  WavesAgree' /\ ViewIndependentOfTiming'
  OBVIOUS
<1> DEFINE N == Cardinality(Evaluators)
<1>1. N \in Nat
  BY SuiteAssumption, FS_CardinalityType
<1>2. edges' = edges
  BY DEF Next, Scheduler, Validate, Build, OpenWave, NothingReady, Finished, WaveFailed, Publish,
     Evaluate, Start, Report, Fail, Cancel, vars, run
<1>3. WavesUpTo' = WavesUpTo
  BY <1>2 DEF WavesUpTo
<1>4. PICK k \in 0 .. N : results = WavesUpTo[k] /\ k <= Cardinality(results)
  BY DEF WavesAgree
<1>5. k + 1 \in 1 .. (N + 1) /\ (k + 1) - 1 = k
  BY <1>1
<1>6. /\ WavesUpTo[k + 1] = {e \in Evaluators : edges[e] \subseteq results}
      /\ results \subseteq WavesUpTo[k + 1]
  <2>1. Waves(WavesUpTo, N + 1, edges) /\ N + 1 \in Nat
    BY <1>1, WavesUpToWaves
  <2>2. WavesUpTo[(k + 1) - 1] \subseteq WavesUpTo[k + 1]
    <3> HIDE DEF N
    <3> QED BY <1>5, <2>1, WavesGrow
  <2> QED BY <1>4, <1>5, <2>1, <2>2 DEF Waves
<1>7. pc = "wait" => wave = WavesUpTo[k + 1] \ WavesUpTo[k]
  BY <1>4, <1>6 DEF WavesAgree
<1>8. ASSUME results' = results, pc' # "wait" \/ (pc = "wait" /\ wave' = wave),
             \A e \in Evaluators : Evaluated(e)' => Evaluated(e) /\ view'[e] = view[e]
      PROVE  WavesAgree' /\ ViewIndependentOfTiming'
  <2>1. WavesAgree'
    BY <1>2, <1>3, <1>8 DEF WavesAgree
  <2>2. ViewIndependentOfTiming'
    BY <1>3, <1>8 DEF ViewIndependentOfTiming
  <2> QED BY <2>1, <2>2
<1>9. CASE Validate \/ Build \/ NothingReady \/ Finished \/ WaveFailed \/ Cancel \/ UNCHANGED vars
  <2>1. /\ results' = results /\ UNCHANGED <<worker, view, wave>>
        /\ pc' # "wait" \/ pc = "wait"
    BY <1>9 DEF Validate, Build, NothingReady, Finished, WaveFailed, Cancel, Return, vars, run, group
  <2> QED BY <1>8, <2>1 DEF Evaluated
<1>10. CASE OpenWave
  <2>1. /\ pc = "schedule" /\ wave' = Ready /\ results' = results /\ view' = view
        /\ worker' = [e \in Evaluators |-> IF e \in Ready THEN "spawned" ELSE worker[e]]
    BY <1>10 DEF OpenWave, run
  <2>2. Ready = {e \in Evaluators \ results : edges[e] \subseteq results}
    BY <2>1 DEF Ready, RunIInv, RunInv, BooksAgree
  <2>3. WavesAgree'
    BY <1>2, <1>3, <2>1, <2>2 DEF WavesAgree
  <2>4. ViewIndependentOfTiming'
    BY <1>3, <2>1 DEF ViewIndependentOfTiming, Evaluated
  <2> QED BY <2>3, <2>4
<1>11. CASE Publish
  <2>1. /\ pc = "wait" /\ pc' = "schedule" /\ results' = results \cup wave
        /\ worker' = worker /\ view' = view
    BY <1>11 DEF Publish, WaveDone
  <2>2. wave # {} /\ wave \cap results = {} /\ wave \subseteq Evaluators /\ results \subseteq Evaluators
    BY <2>1 DEF RunIInv, RunInv, WorkersAgree, TypeOK
  <2>3. results' = WavesUpTo[k + 1]
    BY <1>4, <1>6, <1>7, <2>1
  <2>4. k + 1 <= Cardinality(results') /\ Cardinality(results') <= N
    <3>1. IsFiniteSet(results) /\ IsFiniteSet(wave) /\ IsFiniteSet(results')
      BY <2>1, <2>2, SuiteAssumption, FS_Subset
    <3>2. results # results' /\ results \subseteq results' /\ results' \subseteq Evaluators
      BY <2>1, <2>2
    <3>3. Cardinality(results') <= N
      BY <3>2, SuiteAssumption, FS_Subset
    <3>4. Cardinality(results) <= Cardinality(results') /\ Cardinality(results) # Cardinality(results')
      BY <3>1, <3>2, FS_Subset
    <3>5. Cardinality(results) \in Nat /\ Cardinality(results') \in Nat
      BY <3>1, FS_CardinalityType
    <3> QED BY <1>4, <3>3, <3>4, <3>5
  <2>5. k + 1 \in 0 .. N
    <3>1. Cardinality(results') \in Nat
      BY <2>1, <2>2, SuiteAssumption, FS_Subset, FS_CardinalityType
    <3> QED BY <1>1, <2>4, <3>1
  <2>6. WavesAgree'
    BY <1>3, <2>1, <2>3, <2>4, <2>5 DEF WavesAgree
  <2>7. ViewIndependentOfTiming'
    BY <1>3, <2>1 DEF ViewIndependentOfTiming, Evaluated
  <2> QED BY <2>6, <2>7
<1>12. ASSUME NEW e \in Evaluators, Start(e) PROVE WavesAgree' /\ ViewIndependentOfTiming'
  <2>1. /\ worker[e] = "spawned" /\ worker' = [worker EXCEPT ![e] = "running"]
        /\ view' = [view EXCEPT ![e] = snapshot]
        /\ results' = results /\ wave' = wave /\ pc' = pc
    BY <1>12 DEF Start, run
  <2>2. pc = "wait" /\ e \in wave /\ snapshot = results
    <3>1. pc = "wait" /\ e \in wave
      BY <2>1, ActiveInWave DEF Active, RunIInv, RunInv
    <3> QED BY <3>1 DEF RunIInv, RunInv, WorkersAgree
  <2>3. WavesAgree'
    BY <1>2, <1>3, <2>1 DEF WavesAgree
  <2>4. view'[e] = WavesUpTo[k] /\ e \in WavesUpTo[k + 1] \ WavesUpTo[k]
    BY <1>4, <1>7, <2>1, <2>2 DEF RunIInv, TypeOK
  <2>5. ASSUME NEW f \in Evaluators, f # e PROVE view'[f] = view[f] /\ worker'[f] = worker[f]
    BY <2>1, <2>5 DEF RunIInv, TypeOK
  <2>6. ViewIndependentOfTiming'
    BY <1>3, <2>4, <2>5 DEF ViewIndependentOfTiming, Evaluated
  <2> QED BY <2>3, <2>6
<1>13. ASSUME NEW e \in Evaluators, Report(e) \/ Fail(e) PROVE WavesAgree' /\ ViewIndependentOfTiming'
  <2>1. results' = results /\ wave' = wave /\ pc' = pc /\ view' = view /\ worker[e] = "running"
    BY <1>13 DEF Report, Fail, run
  <2>2. \A f \in Evaluators : f # e => worker'[f] = worker[f]
    BY <1>13 DEF Report, Fail, RunIInv, TypeOK
  <2>3. \A f \in Evaluators : Evaluated(f)' => Evaluated(f)
    BY <2>1, <2>2 DEF Evaluated
  <2> QED BY <1>8, <2>1, <2>3
<1> QED BY <1>9, <1>10, <1>11, <1>12, <1>13 DEF Next, Scheduler, Evaluate

\* For every finite suite and whatever the timing of its goroutines, an
\* evaluator reads the reports of all the waves before its own, which the graph
\* alone decides (suite.go:212-213).
THEOREM ViewsAreFixed == Spec => []ViewIndependentOfTiming
<1> DEFINE I == RunIInv /\ WavesAgree /\ ViewIndependentOfTiming
<1>1. Init /\ RunIInv => I
  BY WavesInit
<1>2. I /\ RunIInv' /\ [Next]_vars => I'
  BY WavesStep
<1> QED BY <1>1, <1>2, RunInvariant, PTL DEF Spec

-----------------------------------------------------------------------------
(* Run implements the safety part of SuitePromise: publishing a wave is a   *)
(* Complete step, returning is Succeed or Fail, everything else stutters.   *)

LEMMA PromiseInit == Init => Promise!Init
<1> SUFFICES ASSUME Init PROVE Promise!Init
  OBVIOUS
<1>1. edges \in Graphs
  BY SuiteAssumption DEF Init
<1> QED BY <1>1 DEF Init, Promise!Init

LEMMA PublishCompletes ==
    ASSUME TypeOK, RunInv, Publish
    PROVE  Promise!Complete
<1> DEFINE seen == [e \in Evaluators |-> IF e \in results THEN view[e] ELSE {}]
<1>1. /\ pc = "wait" /\ pc' = "schedule" /\ groupErr = "none"
      /\ results' = results \cup wave
      /\ UNCHANGED <<edges, wave, snapshot, worker, view, answer>>
      /\ \A e \in wave : worker[e] \in {"reported", "failed"}
  BY DEF Publish, WaveDone
<1>2. /\ wave \subseteq Evaluators /\ wave \cap results = {} /\ results \subseteq Evaluators
      /\ \A e \in wave : edges[e] \subseteq results
  BY <1>1 DEF RunInv, WorkersAgree, TypeOK
<1>3. \A e \in wave : edges[e] \subseteq view[e] /\ view[e] \subseteq results
  BY <1>1, <1>2 DEF RunInv, DependenciesVisible, Evaluated
<1>4. \A e \in results : view[e] \subseteq results
  <2>1. \A e \in results : worker[e] = "reported"
    BY <1>1, <1>2 DEF RunInv, WorkersAgree
  <2> QED BY <2>1, <1>2 DEF RunInv, DependenciesVisible, Evaluated
<1>5. seen' = [e \in Evaluators |-> IF e \in results \cup wave THEN view[e] ELSE {}]
  BY <1>1
<1>6. seen' \in [Evaluators -> SUBSET results]
  BY <1>3, <1>4, <1>5
<1>7. \A e \in Evaluators \ wave : seen'[e] = seen[e]
  BY <1>5
<1>8. \A e \in wave : edges[e] \subseteq seen'[e]
  BY <1>2, <1>3, <1>5
<1>9. wave # {}
  BY <1>1 DEF RunInv, WorkersAgree
<1> QED BY <1>1, <1>2, <1>6, <1>7, <1>8, <1>9 DEF Promise!Complete, answer

\* A step that leaves the graph, the published reports, what was read and the
\* answer alone, and does not return, is invisible to the caller.
LEMMA Invisible ==
    ASSUME UNCHANGED <<edges, results, answer>>,
           \A e \in results : view'[e] = view[e],
           pc # "returned", pc' # "returned"
    PROVE  UNCHANGED Promise!promiseVars
BY DEF Promise!promiseVars, answer

LEMMA ReturningFails ==
    ASSUME UNCHANGED <<edges, results, view>>, RunInv,
           pc # "returned", pc' = "returned", outcome' # "ok", returned' = {}
    PROVE  Promise!Fail
BY DEF Promise!Fail, RunInv

LEMMA PromiseStep == TypeOK /\ RunInv /\ [Next]_vars => [Promise!Next]_(Promise!promiseVars)
<1> SUFFICES ASSUME TypeOK, RunInv, [Next]_vars
             PROVE  Promise!Next \/ UNCHANGED Promise!promiseVars
  OBVIOUS
<1>1. CASE Validate
  <2>1. UNCHANGED <<edges, results, view>> /\ pc # "returned"
    BY <1>1 DEF Validate, run, group
  <2>2. CASE pc' = "build" /\ UNCHANGED answer
    BY <2>1, <2>2, Invisible
  <2>3. CASE pc' = "returned" /\ outcome' = "invalid" /\ returned' = {}
    BY <2>1, <2>3, ReturningFails DEF Promise!Next
  <2> QED BY <1>1, <2>2, <2>3 DEF Validate, Return
<1>2. CASE Build
  BY <1>2, Invisible DEF Build, group
<1>3. CASE OpenWave
  BY <1>3, Invisible DEF OpenWave, run
<1>4. CASE NothingReady
  BY <1>4, ReturningFails DEF NothingReady, Return, run, group, Promise!Next
<1>5. CASE Finished
  <2>1. results = Evaluators
    BY <1>5 DEF Finished, RunInv, BooksAgree, TypeOK
  <2> QED BY <1>5, <2>1 DEF Finished, Return, run, group, Promise!Next, Promise!Succeed
<1>6. CASE WaveFailed
  <2>1. groupErr # "ok"
    BY DEF TypeOK
  <2> QED BY <1>6, <2>1, ReturningFails DEF WaveFailed, WaveDone, Return, run, group, Promise!Next
<1>7. CASE Publish
  BY <1>7, PublishCompletes DEF Promise!Next
<1>8. ASSUME NEW e \in Evaluators, Evaluate(e) PROVE UNCHANGED Promise!promiseVars
  <2>1. Active(e)
    BY <1>8 DEF Evaluate, Start, Report, Fail, Active
  <2>2. pc = "wait" /\ e \in wave /\ e \notin results
    BY <2>1, ActiveInWave DEF RunInv, WorkersAgree
  <2>3. UNCHANGED <<edges, results, answer, pc>> /\ \A f \in results : view'[f] = view[f]
    BY <1>8, <2>2 DEF Evaluate, Start, Report, Fail, run, TypeOK
  <2> QED BY <2>2, <2>3, Invisible
<1>9. CASE Cancel
  BY <1>9, Invisible DEF Cancel, run, group
<1>10. CASE UNCHANGED vars
  BY <1>10 DEF vars, run, group, answer, Promise!promiseVars
<1> QED BY <1>1, <1>2, <1>3, <1>4, <1>5, <1>6, <1>7, <1>8, <1>9, <1>10 DEF Next, Scheduler

\* Every run, on any number of evaluators, is a run of SuitePromise as far as
\* its caller and its evaluators can tell.
THEOREM RunKeepsPromise == Spec => KeepsPromiseSafely
<1>1. RunIInv /\ [Next]_vars => [Promise!Next]_(Promise!promiseVars)
  BY PromiseStep DEF RunIInv
<1> QED BY <1>1, PromiseInit, RunInvariant, PTL DEF Spec, KeepsPromiseSafely, Promise!Safety

=============================================================================
