------------------------------- MODULE Panel -------------------------------
(***************************************************************************)
(* Panel.Evaluate (audit/panel.go): named judges evaluate one instance     *)
(* concurrently in an errgroup, each into the slot of its position.  Once  *)
(* all have returned, the slots become a map by member id and every pair   *)
(* of members is compared; after any error the caller gets nothing.        *)
(*                                                                         *)
(* The judges and the errgroup behave as the evaluators and the errgroup   *)
(* of SuiteRun do; a panel is a suite that declares no dependency.         *)
(***************************************************************************)
EXTENDS Comparison, Sequences

CONSTANTS
    N,              \* the number of members
    MemberLists,    \* lists of N members, [id, judge]
    Reports         \* what a judge may say of the instance

ASSUME PanelAssumption ==
    /\ N \in Nat /\ None \notin Reports
    /\ \A list \in MemberLists : Len(list) = N
    /\ \A list \in MemberLists : \A i \in 1..N : list[i].judge \in {"some", "nil"}
    /\ \A report \in Reports :
        /\ report.claims = [c \in DOMAIN report.claims |-> report.claims[c]]
        /\ IsFiniteSet(DOMAIN report.claims)

Slots == 1..N

VARIABLES
    members,        \* Panel.Members
    pc,             \* "validate", "wait" or "returned"
    worker,         \* each slot's goroutine: "idle", "running", "reported", "failed"
    byIndex,        \* the slots
    said,           \* history: what the judge of each position reported
    groupErr,       \* first error of the errgroup: "none", "failed", "canceled"
    groupCanceled,  \* gctx was cancelled by the errgroup
    ctxCanceled,    \* the caller's context is cancelled
    outcome,        \* "none", "ok", or the kind of error
    reports,        \* PanelResult.Reports, by member id
    matrix          \* PanelResult.AgreementMatrix, entries <<matches, total>>

group == <<worker, byIndex, said, groupErr, groupCanceled>>
answer == <<outcome, reports, matrix>>
vars == <<members, pc, group, ctxCanceled, answer>>

Init ==
    /\ members \in MemberLists
    /\ pc = "validate"
    /\ worker = [i \in Slots |-> "idle"]
    /\ byIndex = [i \in Slots |-> None] /\ said = [i \in Slots |-> None]
    /\ groupErr = "none" /\ groupCanceled = FALSE /\ ctxCanceled = FALSE
    /\ outcome = "none" /\ reports = << >> /\ matrix = << >>

ValidMembers ==
    /\ N > 0
    /\ \A i \in Slots : members[i].judge # "nil"
    /\ \A i, k \in Slots : members[i].id = members[k].id => i = k

Validate ==
    /\ pc = "validate"
    /\ \E validInstance, validIds \in BOOLEAN :
        IF validInstance /\ validIds /\ ValidMembers
        THEN pc' = "wait" /\ worker' = [i \in Slots |-> "running"] /\ UNCHANGED outcome
        ELSE pc' = "returned" /\ outcome' = "invalid" /\ UNCHANGED worker
    /\ UNCHANGED <<members, byIndex, said, groupErr, groupCanceled, ctxCanceled, reports, matrix>>

Reported == {i \in Slots : worker[i] = "reported"}

\* Bug: the slots are filled in the order in which the judges finish.
ReportAppending(i) ==
    /\ worker[i] = "running"
    /\ worker' = [worker EXCEPT ![i] = "reported"]
    /\ \E report \in Reports :
        /\ byIndex' = [byIndex EXCEPT ![Cardinality(Reported) + 1] = report]
        /\ said' = [said EXCEPT ![i] = report]
    /\ UNCHANGED <<members, pc, groupErr, groupCanceled, ctxCanceled, answer>>

Report(i) ==
    /\ worker[i] = "running"
    /\ worker' = [worker EXCEPT ![i] = "reported"]
    /\ \E report \in Reports :
        /\ byIndex' = [byIndex EXCEPT ![i] = report]
        /\ said' = [said EXCEPT ![i] = report]
    /\ UNCHANGED <<members, pc, groupErr, groupCanceled, ctxCanceled, answer>>

Fail(i) ==
    /\ worker[i] = "running"
    /\ worker' = [worker EXCEPT ![i] = "failed"]
    /\ \E kind \in {"failed"} \cup (IF groupCanceled \/ ctxCanceled THEN {"canceled"} ELSE {}) :
        groupErr' = IF groupErr = "none" THEN kind ELSE groupErr
    /\ groupCanceled' = TRUE
    /\ UNCHANGED <<members, pc, byIndex, said, ctxCanceled, answer>>

WaitDone == pc = "wait" /\ \A i \in Slots : worker[i] \in {"reported", "failed"}

WaitFailed ==
    /\ WaitDone /\ groupErr # "none"
    /\ groupCanceled' = TRUE
    /\ pc' = "returned" /\ outcome' = groupErr
    /\ UNCHANGED <<members, worker, byIndex, said, groupErr, ctxCanceled, reports, matrix>>

Ids == {members[i].id : i \in Slots}

\* The slot of a member; ids are unique.
SlotOf(id) == CHOOSE i \in Slots : members[i].id = id

\* pairwiseAgreement over the reports by id.
PairwiseAgreement(byId) ==
    [a \in Ids |-> [b \in Ids |->
        IF a = b THEN <<1, 1>>
        ELSE <<Cardinality(ClaimMatches(byId[a], byId[b])), ClaimTotal(byId[a], byId[b])>>]]

\* Bug: failed judges are left out of an otherwise good result.
WaitSucceededPartially ==
    /\ WaitDone
    /\ groupCanceled' = TRUE
    /\ pc' = "returned" /\ outcome' = "ok"
    /\ reports' = [id \in {members[i].id : i \in Reported} |-> byIndex[SlotOf(id)]]
    /\ matrix' = << >>
    /\ UNCHANGED <<members, worker, byIndex, said, groupErr, ctxCanceled>>

WaitSucceeded ==
    /\ WaitDone /\ groupErr = "none"
    /\ groupCanceled' = TRUE
    /\ pc' = "returned" /\ outcome' = "ok"
    /\ LET byId == [id \in Ids |-> byIndex[SlotOf(id)]]
       IN  reports' = byId /\ matrix' = PairwiseAgreement(byId)
    /\ UNCHANGED <<members, worker, byIndex, said, groupErr, ctxCanceled>>

Cancel ==
    /\ pc # "returned" /\ ~ctxCanceled
    /\ ctxCanceled' = TRUE
    /\ UNCHANGED <<members, pc, group, answer>>

Caller == Validate \/ WaitFailed \/ WaitSucceeded

Evaluate(i) == Report(i) \/ Fail(i)

Next == Caller \/ (\E i \in Slots : Evaluate(i)) \/ Cancel

\* The Go scheduler runs every goroutine, and every judge is assumed to return.
Fairness == WF_vars(Caller) /\ \A i \in Slots : WF_vars(Evaluate(i))

Spec == Init /\ [][Next]_vars /\ Fairness

-----------------------------------------------------------------------------
\* The variables keep their types (panel.go:53-99).
TypeOK ==
    /\ members \in MemberLists
    /\ pc \in {"validate", "wait", "returned"}
    /\ worker \in [Slots -> {"idle", "running", "reported", "failed"}]
    /\ byIndex \in [Slots -> Reports \cup {None}] /\ said \in [Slots -> Reports \cup {None}]
    /\ groupErr \in {"none", "failed", "canceled"}
    /\ groupCanceled \in BOOLEAN /\ ctxCanceled \in BOOLEAN
    /\ outcome \in {"none", "ok", "invalid", "failed", "canceled"}
    /\ outcome = "ok" => reports \in [Ids -> Reports]

\* However the judges' answers interleave, a report is filed under the id of
\* the member whose judge gave it, and every member has one
\* (panel.go:74-93).
OwnReports ==
    outcome = "ok" => \A i \in Slots : reports[members[i].id] = said[i] /\ said[i] # None

\* The panel leaves no judge running behind a returned answer.
NoStragglers == pc = "returned" => \A i \in Slots : worker[i] # "running"

\* The cancellation a failing judge causes in the others never masks its error.
ErrorIsRootCause == outcome = "canceled" => ctxCanceled

\* A pair of members agrees fully exactly when both judged the same claims the
\* same way, and there was a claim; who is compared with whom does not matter
\* (panel.go:101-130).
AgreementMeansSameClaims ==
    outcome = "ok" =>
        \A i, k \in Slots :
            LET entry == matrix[members[i].id][members[k].id] IN
            /\ entry = matrix[members[k].id][members[i].id]
            /\ entry[1] \in 0..entry[2]
            /\ i # k => (entry[1] = entry[2] /\ entry[2] > 0
                            <=> said[i].claims = said[k].claims /\ DOMAIN said[i].claims # {})

\* Why these properties are inductive together: goroutines exist between
\* validation and the return, a reported slot holds its own judge's words, and
\* the group's error and cancellation have a cause.
PanelInv ==
    /\ pc = "validate" => outcome = "none" /\ \A i \in Slots : worker[i] = "idle"
    /\ pc = "wait" => outcome = "none" /\ ValidMembers /\ \A i \in Slots : worker[i] # "idle"
    /\ \A i \in Slots : worker[i] = "reported" => byIndex[i] = said[i] /\ said[i] \in Reports
    /\ groupErr = "none" <=> \A i \in Slots : worker[i] # "failed"
    /\ pc # "returned" /\ groupCanceled => groupErr # "none"
    /\ groupErr = "canceled" => ctxCanceled
    /\ OwnReports /\ NoStragglers /\ ErrorIsRootCause

\* The inductive invariant: the types and the books.
PanelIInv == TypeOK /\ PanelInv

\* The abstract promise of a suite run, for a panel: no dependencies, nothing
\* seen.
Promise == INSTANCE SuitePromise WITH
    Evaluators <- Slots,
    Graphs <- {[i \in Slots |-> {}]},
    edges <- [i \in Slots |-> {}],
    completed <- Reported,
    seen <- [i \in Slots |-> {}],
    status <- IF pc # "returned" THEN "running" ELSE IF outcome = "ok" THEN "ok" ELSE "error",
    delivered <- IF outcome = "ok" THEN {i \in Slots : members[i].id \in DOMAIN reports} ELSE {}

\* A panel implements the promise of a suite run: all reports or none, and an
\* end, provided that every judge returns.
KeepsPromise == Promise!Spec

\* The part of it that does not depend on fairness.
KeepsPromiseSafely == Promise!Safety

=============================================================================
