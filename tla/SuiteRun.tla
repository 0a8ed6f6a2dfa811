------------------------------ MODULE SuiteRun ------------------------------
(***************************************************************************)
(* Suite.Run (suite/suite.go): one scheduling goroutine that runs the      *)
(* evaluators in waves.  A wave is every pending evaluator whose           *)
(* dependencies are published; its evaluators run concurrently in an       *)
(* errgroup, on one snapshot of the published reports, and are published   *)
(* together once all of them have returned.                                *)
(*                                                                         *)
(* The errgroup is golang.org/x/sync: the first error is kept and cancels  *)
(* the wave's context; Wait returns after every function has.  What an     *)
(* evaluator does is its own affair: it may report or fail at any time, it *)
(* fails with the context's error only when that context is cancelled, and *)
(* it may ignore the cancellation.                                         *)
(*                                                                         *)
(* A report is abstracted to the set of names that its evaluator could     *)
(* read.                                                                   *)
(***************************************************************************)
EXTENDS Naturals, FiniteSets, Dependencies

CONSTANTS
    Evaluators,     \* names of the suite's evaluators
    Names,          \* every string DependsOn() may hold, names of no evaluator included
    Graphs,         \* what DependsOn() may answer, per evaluator
    StableDependsOn \* whether DependsOn() answers the same each time

ASSUME SuiteAssumption ==
    /\ Evaluators \subseteq Names
    /\ Graphs \subseteq [Evaluators -> SUBSET Names]
    /\ StableDependsOn \in BOOLEAN
    /\ IsFiniteSet(Evaluators)

VARIABLES
    declared,       \* DependsOn() as Validate reads it
    edges,          \* DependsOn() as Run reads it to build remaining
    pc,             \* the scheduler: "validate", "build", "schedule", "wait", "returned"
    remaining,      \* dependencies not yet published, per evaluator
    pending,        \* evaluators not yet published
    results,        \* evaluators whose reports are in results.Reports
    wave,           \* evaluators of the current errgroup (ready)
    snapshot,       \* the reports the current wave may read
    worker,         \* state of each evaluator's goroutine
    view,           \* the reports an evaluator was handed when it started
    groupErr,       \* first error of the wave's errgroup: "none", "failed", "canceled"
    waveCanceled,   \* the wave's context was cancelled by its errgroup
    ctxCanceled,    \* the caller's context is cancelled
    outcome,        \* "none", "ok", or the kind of error that Run returned
    returned        \* evaluators whose reports the caller was handed

run == <<declared, edges, remaining, pending, results>>
group == <<wave, snapshot, worker, view, groupErr, waveCanceled>>
answer == <<outcome, returned>>
vars == <<run, group, pc, ctxCanceled, answer>>

Init ==
    /\ declared \in Graphs
    /\ edges \in (IF StableDependsOn THEN {declared} ELSE Graphs)
    /\ pc = "validate"
    /\ remaining = [e \in Evaluators |-> {}]
    /\ pending = {} /\ results = {}
    /\ wave = {} /\ snapshot = {}
    /\ worker = [e \in Evaluators |-> "idle"]
    /\ view = [e \in Evaluators |-> {}]
    /\ groupErr = "none" /\ waveCanceled = FALSE /\ ctxCanceled = FALSE
    /\ outcome = "none" /\ returned = {}

Return(how, reports) ==
    /\ pc' = "returned"
    /\ outcome' = how
    /\ returned' = reports

-----------------------------------------------------------------------------
(* The scheduler *)

\* Every dependency is the name of an evaluator of the suite.
Known(deps) == \A e \in Evaluators : deps[e] \subseteq Evaluators

\* Validate and ValidateInstance.
Validate ==
    /\ pc = "validate"
    /\ \E validInstance \in BOOLEAN :
        IF Known(declared) /\ Acyclic(Evaluators, declared) /\ validInstance
        THEN pc' = "build" /\ UNCHANGED answer
        ELSE Return("invalid", {})
    /\ UNCHANGED <<run, group, ctxCanceled>>

\* Nothing is checked again: a name that no evaluator has is waited for like
\* any other.
Build ==
    /\ pc = "build"
    /\ remaining' = edges
    /\ pending' = Evaluators
    /\ pc' = "schedule"
    /\ UNCHANGED <<declared, edges, results, group, ctxCanceled, answer>>

\* Bug: off by one, an evaluator may start one dependency early.
ReadyEarly == {e \in pending : Cardinality(remaining[e]) <= 1}

Ready == {e \in pending : remaining[e] = {}}

OpenWave ==
    /\ pc = "schedule" /\ Ready # {}
    /\ wave' = Ready
    /\ snapshot' = results
    /\ worker' = [e \in Evaluators |-> IF e \in Ready THEN "spawned" ELSE worker[e]]
    /\ groupErr' = "none" /\ waveCanceled' = FALSE
    /\ pc' = "wait"
    /\ UNCHANGED <<run, view, ctxCanceled, answer>>

NothingReady ==
    /\ pc = "schedule" /\ pending # {} /\ Ready = {}
    /\ Return("deadlock", {})
    /\ UNCHANGED <<run, group, ctxCanceled>>

Finished ==
    /\ pc = "schedule" /\ pending = {}
    /\ Return("ok", results)
    /\ UNCHANGED <<run, group, ctxCanceled>>

\* Bug: Wait returns with the first error.
WaveDoneOnError ==
    pc = "wait" /\ (groupErr # "none" \/ \A e \in wave : worker[e] = "reported")

WaveDone == pc = "wait" /\ \A e \in wave : worker[e] \in {"reported", "failed"}

\* Bug: an error comes with the reports published so far.
WaveFailedPartially ==
    /\ WaveDone /\ groupErr # "none"
    /\ Return(groupErr, results)
    /\ UNCHANGED <<run, group, ctxCanceled>>

WaveFailed ==
    /\ WaveDone /\ groupErr # "none"
    /\ Return(groupErr, {})
    /\ UNCHANGED <<run, group, ctxCanceled>>

\* Bug: published dependencies are still waited for.
PublishKeepingRemaining ==
    /\ WaveDone /\ groupErr = "none"
    /\ results' = results \cup wave
    /\ pending' = pending \ wave
    /\ waveCanceled' = TRUE
    /\ pc' = "schedule"
    /\ UNCHANGED <<declared, edges, remaining, wave, snapshot, worker, view, groupErr, ctxCanceled, answer>>

\* Wait also cancels the wave's context, which nobody uses any more.
Publish ==
    /\ WaveDone /\ groupErr = "none"
    /\ results' = results \cup wave
    /\ pending' = pending \ wave
    /\ remaining' = [e \in Evaluators |-> remaining[e] \ wave]
    /\ waveCanceled' = TRUE
    /\ pc' = "schedule"
    /\ UNCHANGED <<declared, edges, wave, snapshot, worker, view, groupErr, ctxCanceled, answer>>

Scheduler ==
    Validate \/ Build \/ OpenWave \/ NothingReady \/ Finished \/ WaveFailed \/ Publish

-----------------------------------------------------------------------------
(* The evaluators and the caller *)

\* Bug: the live reports of the wave are handed out instead of its snapshot.
StartOnLiveReports(e) ==
    /\ worker[e] = "spawned"
    /\ worker' = [worker EXCEPT ![e] = "running"]
    /\ view' = [view EXCEPT ![e] = snapshot \cup {f \in wave : worker[f] = "reported"}]
    /\ UNCHANGED <<run, wave, snapshot, groupErr, waveCanceled, pc, ctxCanceled, answer>>

Start(e) ==
    /\ worker[e] = "spawned"
    /\ worker' = [worker EXCEPT ![e] = "running"]
    /\ view' = [view EXCEPT ![e] = snapshot]
    /\ UNCHANGED <<run, wave, snapshot, groupErr, waveCanceled, pc, ctxCanceled, answer>>

Report(e) ==
    /\ worker[e] = "running"
    /\ worker' = [worker EXCEPT ![e] = "reported"]
    /\ UNCHANGED <<run, wave, snapshot, view, groupErr, waveCanceled, pc, ctxCanceled, answer>>

Fail(e) ==
    /\ worker[e] = "running"
    /\ worker' = [worker EXCEPT ![e] = "failed"]
    /\ \E kind \in {"failed"} \cup (IF waveCanceled \/ ctxCanceled THEN {"canceled"} ELSE {}) :
        groupErr' = IF groupErr = "none" THEN kind ELSE groupErr
    /\ waveCanceled' = TRUE
    /\ UNCHANGED <<run, wave, snapshot, view, pc, ctxCanceled, answer>>

Cancel ==
    /\ pc # "returned" /\ ~ctxCanceled
    /\ ctxCanceled' = TRUE
    /\ UNCHANGED <<run, group, pc, answer>>

Evaluate(e) == Start(e) \/ Report(e) \/ Fail(e)

Next == Scheduler \/ (\E e \in Evaluators : Evaluate(e)) \/ Cancel

\* The Go scheduler runs every goroutine, and every evaluator is assumed to
\* return; the caller need not cancel.
Fairness == WF_vars(Scheduler) /\ \A e \in Evaluators : WF_vars(Evaluate(e))

Spec == Init /\ [][Next]_vars /\ Fairness

-----------------------------------------------------------------------------
\* The variables keep their types (suite.go:144-210).
TypeOK ==
    /\ declared \in Graphs /\ edges \in Graphs
    /\ pc \in {"validate", "build", "schedule", "wait", "returned"}
    /\ remaining \in [Evaluators -> SUBSET Names]
    /\ pending \subseteq Evaluators /\ results \subseteq Evaluators
    /\ wave \subseteq Evaluators /\ snapshot \subseteq Evaluators
    /\ worker \in [Evaluators -> {"idle", "spawned", "running", "reported", "failed"}]
    /\ view \in [Evaluators -> SUBSET Evaluators]
    /\ groupErr \in {"none", "failed", "canceled"}
    /\ waveCanceled \in BOOLEAN /\ ctxCanceled \in BOOLEAN
    /\ outcome \in {"none", "ok", "invalid", "deadlock", "failed", "canceled"}
    /\ returned \subseteq Evaluators

Active(e) == worker[e] \in {"spawned", "running"}
Evaluated(e) == worker[e] \in {"running", "reported", "failed"}

\* An evaluator that has been started holds a report of each of its
\* dependencies, and every report it holds is published (suite.go:34-36): what
\* it reads neither misses a dependency nor comes from an unfinished wave.
DependenciesVisible ==
    \A e \in Evaluators :
        Evaluated(e) => edges[e] \subseteq view[e] /\ view[e] \subseteq results

\* The evaluators that k waves publish.
WavesUpTo[k \in 0 .. Cardinality(Evaluators) + 1] ==
    IF k = 0 THEN {} ELSE {e \in Evaluators : edges[e] \subseteq WavesUpTo[k - 1]}

\* What an evaluator reads is decided by the graph alone, never by which
\* goroutine of its own wave finished first (suite.go:212-213).
ViewIndependentOfTiming ==
    \A e \in Evaluators : Evaluated(e) =>
        \E k \in 0..Cardinality(Evaluators) :
            view[e] = WavesUpTo[k] /\ e \in WavesUpTo[k + 1] \ WavesUpTo[k]

\* The transitive dependencies of e, as the least closed set.
Ancestors(e) ==
    {a \in Names :
        \A S \in SUBSET Names :
            (edges[e] \subseteq S /\ \A s \in S \cap Evaluators : edges[s] \subseteq S) => a \in S}

\* Evaluators that are active together are independent: none is even an
\* indirect dependency of another.
ActiveAreIndependent ==
    \A e, f \in Evaluators : Active(e) /\ Active(f) => f \notin Ancestors(e)

\* Run leaves no goroutine behind: whenever the scheduler is not waiting, and
\* in particular once it has returned an error, every started evaluator is done.
NoStragglers == pc # "wait" => \A e \in Evaluators : ~Active(e)

\* The cancellation a failing evaluator causes in its siblings never masks the
\* failure: Run answers "cancelled" only when its caller cancelled.
ErrorIsRootCause == outcome = "canceled" => ctxCanceled

\* Success is complete and honest: every evaluator reported, on a graph whose
\* dependencies could be honoured; any failure, even one that came after the
\* last report of its siblings, leaves the caller without reports.
AllOrNothing ==
    /\ outcome = "ok" =>
        /\ returned = Evaluators
        /\ \A e \in Evaluators : worker[e] = "reported"
        /\ Known(edges) /\ Acyclic(Evaluators, edges)
    /\ (\E e \in Evaluators : worker[e] = "failed") => returned = {}

\* "no ready evaluators" (suite.go:177) has a cause that no waiting could have
\* removed: the answers Run read hold a cycle or the name of no evaluator, and
\* they are not the answers that were validated.
DeadlockHasACause ==
    outcome = "deadlock" =>
        /\ ~Known(edges) \/ ~Acyclic(Evaluators, edges)
        /\ edges # declared

\* While it runs, the scheduler's books agree with the graph it read: what is
\* pending or remaining follows from what is published.
BooksAgree ==
    /\ pc \in {"schedule", "wait"} =>
        /\ pending = Evaluators \ results
        /\ remaining = [e \in Evaluators |-> edges[e] \ results]
    /\ \A e \in results : edges[e] \subseteq results
    /\ Acyclic(results, edges)
    /\ pc \in {"build", "schedule", "wait"} => Known(declared) /\ Acyclic(Evaluators, declared)

\* Goroutines exist only for the wave, and what is published has reported.
WorkersAgree ==
    /\ pc \in {"validate", "build"} => results = {} /\ \A e \in Evaluators : worker[e] = "idle"
    /\ pc = "schedule" =>
        \A e \in Evaluators : worker[e] = (IF e \in results THEN "reported" ELSE "idle")
    /\ pc = "wait" =>
        /\ wave # {} /\ wave \cap results = {} /\ snapshot = results
        /\ \A e \in wave : edges[e] \subseteq results /\ worker[e] # "idle"
        /\ \A e \in Evaluators \ wave : worker[e] = (IF e \in results THEN "reported" ELSE "idle")
        /\ groupErr = "none" <=> \A e \in wave : worker[e] # "failed"

\* The errgroup's context and error while the wave runs: its cancellation has
\* an error behind it, and a cancellation error a cancelled caller.
GroupAgrees ==
    pc = "wait" =>
        /\ waveCanceled => groupErr # "none"
        /\ groupErr = "canceled" => ctxCanceled

\* Why the safety properties above are inductive together.
RunInv ==
    /\ StableDependsOn => edges = declared
    /\ pc # "returned" => outcome = "none" /\ returned = {}
    /\ BooksAgree
    /\ WorkersAgree
    /\ GroupAgrees
    /\ DependenciesVisible
    /\ NoStragglers
    /\ ErrorIsRootCause
    /\ AllOrNothing
    /\ DeadlockHasACause

\* The inductive invariant: the types and the books.
RunIInv == TypeOK /\ RunInv

\* An evaluator is run at most once.
RunOnce ==
    [][\A e \in Evaluators : worker[e] \in {"reported", "failed"} => worker'[e] = worker[e]]_vars

\* Run returns, provided that every evaluator does.
Returns == <>(pc = "returned")

\* Without a failure, a cancellation or a rejected input, a stable suite
\* delivers.
Delivers ==
    (edges = declared /\ [](~ctxCanceled /\ outcome # "invalid"
                            /\ \A e \in Evaluators : worker[e] # "failed"))
        => <>(outcome = "ok")

\* The documented isolation: an evaluator can read another's report only if it
\* declared that dependency (suite.go:20-22, suite/doc.go:19-21).
ReadsOnlyDeclared == \A e \in Evaluators : Evaluated(e) => view[e] \subseteq edges[e]

-----------------------------------------------------------------------------
Promise == INSTANCE SuitePromise WITH
    completed <- results,
    seen <- [e \in Evaluators |-> IF e \in results THEN view[e] ELSE {}],
    status <- IF pc # "returned" THEN "running" ELSE IF outcome = "ok" THEN "ok" ELSE "error",
    delivered <- returned

\* Waves, goroutines, snapshots and cancellation implement SuitePromise.
KeepsPromise == Promise!Spec

\* The part of it that does not depend on fairness.
KeepsPromiseSafely == Promise!Safety

=============================================================================
