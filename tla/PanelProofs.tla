---------------------------- MODULE PanelProofs ----------------------------
(***************************************************************************)
(* Theorems about Panel, for every number of members, every member list    *)
(* and everything a judge may say.                                         *)
(***************************************************************************)
EXTENDS Panel, FiniteSetTheorems, TLAPS

\* Initially nothing runs and nothing has been said.
LEMMA InitInv == Init => TypeOK /\ PanelInv
BY DEF Init, TypeOK, PanelInv, OwnReports, NoStragglers, ErrorIsRootCause

\* The map by id holds what each member's slot holds, ids being unique.
LEMMA FiledById ==
    ASSUME ValidMembers, NEW byId, byId = [id \in Ids |-> byIndex[SlotOf(id)]]
    PROVE  \A i \in Slots : members[i].id \in Ids /\ byId[members[i].id] = byIndex[i]
<1> SUFFICES ASSUME NEW i \in Slots
             PROVE  members[i].id \in Ids /\ byId[members[i].id] = byIndex[i]
    OBVIOUS
<1>1. members[i].id \in Ids
    BY DEF Ids
<1>2. SlotOf(members[i].id) \in Slots /\ members[SlotOf(members[i].id)].id = members[i].id
    BY DEF SlotOf
<1>3. SlotOf(members[i].id) = i
    BY <1>2 DEF ValidMembers
<1> QED
    BY <1>1, <1>3

\* The caller's steps: a refused panel, a failed one and a good one.
LEMMA CallerKeeps ==
    ASSUME TypeOK, PanelInv, Caller
    PROVE  TypeOK' /\ PanelInv'
<1>1. CASE Validate
    BY <1>1 DEF Validate, TypeOK, PanelInv, OwnReports, NoStragglers, ErrorIsRootCause,
                ValidMembers, Ids
<1>2. CASE WaitFailed
    <2>1. outcome' # "ok" /\ (outcome' = "canceled" => groupErr = "canceled")
        BY <1>2 DEF WaitFailed, WaitDone, TypeOK
    <2>2. TypeOK'
        BY <1>2, <2>1 DEF WaitFailed, WaitDone, TypeOK, Ids
    <2>3. NoStragglers' /\ OwnReports' /\ ErrorIsRootCause'
        BY <1>2, <2>1 DEF WaitFailed, WaitDone, NoStragglers, OwnReports, ErrorIsRootCause, PanelInv
    <2> QED
        BY <1>2, <2>2, <2>3 DEF WaitFailed, PanelInv
<1>3. CASE WaitSucceeded
    <2> DEFINE byId == [id \in Ids |-> byIndex[SlotOf(id)]]
    <2>1. ValidMembers /\ pc = "wait" /\ reports' = byId /\ outcome' = "ok" /\ pc' = "returned"
          /\ UNCHANGED <<members, worker, byIndex, said, groupErr, ctxCanceled>>
        BY <1>3 DEF WaitSucceeded, WaitDone, PanelInv
    <2>2. \A i \in Slots : byId[members[i].id] = byIndex[i]
        BY <2>1, FiledById
    <2>3. \A i \in Slots : byIndex[i] = said[i] /\ said[i] \in Reports
        BY <1>3 DEF WaitSucceeded, WaitDone, PanelInv
    <2>4. byId \in [Ids -> Reports]
        <3>1. \A id \in Ids : SlotOf(id) \in Slots
            BY DEF Ids, SlotOf
        <3> QED
            BY <2>3, <3>1
    <2>5. TypeOK'
        BY <1>3, <2>1, <2>4 DEF WaitSucceeded, TypeOK, Ids
    <2>6. OwnReports'
        BY <2>1, <2>2, <2>3, PanelAssumption DEF OwnReports
    <2>7. NoStragglers' /\ ErrorIsRootCause'
        BY <1>3, <2>1 DEF WaitDone, WaitSucceeded, NoStragglers, ErrorIsRootCause
    <2> QED
        BY <2>1, <2>5, <2>6, <2>7 DEF PanelInv
<1> QED
    BY <1>1, <1>2, <1>3 DEF Caller

\* A judge reports, into its own slot.
LEMMA ReportKeeps ==
    ASSUME TypeOK, PanelInv, NEW i \in Slots, Report(i)
    PROVE  TypeOK' /\ PanelInv'
<1>1. pc = "wait" /\ outcome = "none"
    BY DEF Report, PanelInv, NoStragglers, TypeOK
<1>2. TypeOK'
    <2>1. PICK report \in Reports :
            /\ byIndex' = [byIndex EXCEPT ![i] = report]
            /\ said' = [said EXCEPT ![i] = report]
        BY DEF Report
    <2>2. byIndex' \in [Slots -> Reports \cup {None}] /\ said' \in [Slots -> Reports \cup {None}]
        BY <2>1 DEF TypeOK
    <2>3. worker' \in [Slots -> {"idle", "running", "reported", "failed"}]
        BY DEF Report, TypeOK
    <2> QED
        BY <1>1, <2>2, <2>3 DEF Report, TypeOK, answer
<1>3. \A k \in Slots : worker'[k] = "reported" => byIndex'[k] = said'[k] /\ said'[k] \in Reports
    BY DEF Report, TypeOK, PanelInv
<1>4. groupErr' = "none" <=> \A k \in Slots : worker'[k] # "failed"
    BY DEF Report, TypeOK, PanelInv
<1>5. ValidMembers' /\ \A k \in Slots : worker'[k] # "idle"
    BY <1>1 DEF Report, TypeOK, PanelInv, ValidMembers
<1> QED
    BY <1>1, <1>2, <1>3, <1>4, <1>5
       DEF Report, PanelInv, answer, OwnReports, NoStragglers, ErrorIsRootCause

\* A judge fails: the first error is kept, a cancellation only with a cause.
LEMMA FailKeeps ==
    ASSUME TypeOK, PanelInv, NEW i \in Slots, Fail(i)
    PROVE  TypeOK' /\ PanelInv'
<1>1. pc = "wait" /\ outcome = "none"
    BY DEF Fail, PanelInv, NoStragglers, TypeOK
<1>2. groupErr' \in {"failed", "canceled"} /\ (groupErr' = "canceled" => ctxCanceled)
    BY <1>1 DEF Fail, TypeOK, PanelInv
<1>3. TypeOK'
    BY <1>2 DEF Fail, TypeOK, Ids, answer
<1>4. \A k \in Slots : worker'[k] = "reported" => byIndex'[k] = said'[k] /\ said'[k] \in Reports
    BY DEF Fail, TypeOK, PanelInv
<1>5. worker'[i] = "failed"
    BY DEF Fail, TypeOK
<1>6. ValidMembers' /\ \A k \in Slots : worker'[k] # "idle"
    BY <1>1 DEF Fail, TypeOK, PanelInv, ValidMembers
<1> QED
    BY <1>1, <1>2, <1>3, <1>4, <1>5, <1>6
       DEF Fail, PanelInv, answer, OwnReports, NoStragglers, ErrorIsRootCause

\* The caller cancels.
LEMMA CancelKeeps ==
    ASSUME TypeOK, PanelInv, Cancel
    PROVE  TypeOK' /\ PanelInv'
<1>1. TypeOK'
    BY DEF Cancel, TypeOK, group, answer, Ids
<1> QED
    BY <1>1 DEF Cancel, PanelInv, group, answer, OwnReports, NoStragglers, ErrorIsRootCause, ValidMembers

\* The types and the books of a panel hold in every reachable state, however
\* the judges' goroutines, the group and the caller interleave.
THEOREM PanelInvariant == Spec => []PanelIInv
<1>1. PanelIInv /\ [Next]_vars => PanelIInv'
    <2> SUFFICES ASSUME TypeOK, PanelInv, [Next]_vars
                 PROVE  TypeOK' /\ PanelInv'
        BY DEF PanelIInv
    <2>1. CASE Next
        BY <2>1, CallerKeeps, ReportKeeps, FailKeeps, CancelKeeps DEF Next, Evaluate
    <2>2. CASE UNCHANGED vars
        BY <2>2 DEF vars, group, answer, TypeOK, PanelInv, OwnReports, NoStragglers,
                    ErrorIsRootCause, ValidMembers, Ids
    <2> QED
        BY <2>1, <2>2
<1>2. Init => PanelIInv
    BY InitInv DEF PanelIInv
<1> QED
    BY <1>1, <1>2, PTL DEF Spec

\* Every report is filed under the member whose judge gave it.
THEOREM ReportsAreFiled == Spec => []OwnReports
<1>1. PanelIInv => OwnReports
    BY DEF PanelIInv, PanelInv
<1> QED
    BY <1>1, PanelInvariant, PTL

\* No judge runs once Evaluate has returned.
THEOREM NoJudgeLeftBehind == Spec => []NoStragglers
<1>1. PanelIInv => NoStragglers
    BY DEF PanelIInv, PanelInv
<1> QED
    BY <1>1, PanelInvariant, PTL

-----------------------------------------------------------------------------
(* The agreement matrix *)

\* Two reports count equal claims and agree on all of them exactly when they
\* judge the same claims the same way; which one comes first does not matter.
LEMMA FullAgreement ==
    ASSUME NEW x \in Reports, NEW y \in Reports
    PROVE  LET matches == Cardinality(ClaimMatches(x, y))
               total == ClaimTotal(x, y)
           IN  /\ matches \in 0..total
               /\ ClaimMatches(x, y) = ClaimMatches(y, x) /\ total = ClaimTotal(y, x)
               /\ matches = total /\ total > 0 <=> x.claims = y.claims /\ DOMAIN x.claims # {}
<1> DEFINE M == ClaimMatches(x, y)
           U == UnionKeys(x.claims, y.claims)
<1>1. IsFiniteSet(U) /\ Cardinality(U) \in Nat /\ (Cardinality(U) = 0 <=> U = {})
    <2>1. IsFiniteSet(U)
        BY PanelAssumption, FS_Union DEF UnionKeys
    <2> QED
        BY <2>1, FS_CardinalityType, FS_EmptySet
<1>2. /\ IsFiniteSet(M) /\ Cardinality(M) \in Nat /\ Cardinality(M) <= Cardinality(U)
      /\ Cardinality(M) = Cardinality(U) => M = U
    <2>1. M \subseteq U
        BY DEF ClaimMatches, UnionKeys, Common
    <2> HIDE DEF M, U
    <2>2. IsFiniteSet(M) /\ Cardinality(M) <= Cardinality(U) /\ (Cardinality(M) = Cardinality(U) => M = U)
        BY <1>1, <2>1, FS_Subset
    <2> QED
        BY <2>2, FS_CardinalityType
<1>3. M = ClaimMatches(y, x) /\ U = UnionKeys(y.claims, x.claims)
    BY DEF ClaimMatches, UnionKeys, Common
<1>4. ASSUME M = U PROVE x.claims = y.claims
    <2>1. DOMAIN x.claims = DOMAIN y.claims /\ \A c \in DOMAIN x.claims : x.claims[c] = y.claims[c]
        BY <1>4 DEF ClaimMatches, UnionKeys, Common
    <2>2. /\ x.claims = [c \in DOMAIN x.claims |-> x.claims[c]]
          /\ y.claims = [c \in DOMAIN y.claims |-> y.claims[c]]
        BY PanelAssumption
    <2> QED
        BY <2>1, <2>2
<1>5. ASSUME x.claims = y.claims PROVE M = U /\ U = DOMAIN x.claims
    BY <1>5 DEF ClaimMatches, UnionKeys, Common
<1> HIDE DEF M, U
<1>6. Cardinality(M) = Cardinality(U) /\ Cardinality(U) > 0 <=> x.claims = y.claims /\ DOMAIN x.claims # {}
    BY <1>1, <1>2, <1>4, <1>5
<1> QED
    BY <1>1, <1>2, <1>3, <1>6 DEF ClaimTotal, M, U

\* A good answer comes with the comparison of the reports it files.
MatrixInv == outcome = "ok" => pc = "returned" /\ ValidMembers /\ matrix = PairwiseAgreement(reports)

LEMMA MatrixKept == PanelIInv /\ MatrixInv /\ [Next]_vars => MatrixInv'
<1> SUFFICES ASSUME TypeOK, PanelInv, MatrixInv, [Next]_vars PROVE MatrixInv'
    BY DEF PanelIInv
<1>1. CASE Validate
    BY <1>1 DEF Validate, PanelInv, MatrixInv
<1>2. CASE WaitFailed
    <2>1. outcome' = groupErr /\ groupErr \in {"failed", "canceled"}
        BY <1>2 DEF WaitFailed, TypeOK
    <2> QED
        BY <2>1 DEF MatrixInv
<1>3. CASE WaitSucceeded
    <2>1. ValidMembers /\ UNCHANGED members /\ pc' = "returned"
        BY <1>3 DEF WaitSucceeded, WaitDone, PanelInv
    <2>2. matrix' = PairwiseAgreement(reports)'
        BY <1>3, <2>1 DEF WaitSucceeded, PairwiseAgreement, Ids, ClaimMatches, ClaimTotal, UnionKeys, Common
    <2> QED
        BY <2>1, <2>2 DEF MatrixInv, ValidMembers
<1>4. ASSUME UNCHANGED <<members, pc, answer>> PROVE MatrixInv'
    <2>1. UNCHANGED <<members, pc, outcome, reports, matrix>>
        BY <1>4 DEF answer
    <2>2. PairwiseAgreement(reports)' = PairwiseAgreement(reports) /\ UNCHANGED ValidMembers
        <3> DEFINE entry(byId, a, b) ==
                <<Cardinality(ClaimMatches(byId[a], byId[b])), ClaimTotal(byId[a], byId[b])>>
        <3>1. UNCHANGED Ids /\ UNCHANGED ValidMembers
            BY <2>1 DEF Ids, ValidMembers
        <3>2. \A a, b : entry(reports, a, b)' = entry(reports, a, b)
            BY <2>1, Zenon DEF ClaimMatches, ClaimTotal, UnionKeys, Common
        <3> QED
            BY <3>1, <3>2, Zenon DEF PairwiseAgreement
    <2> QED
        BY <2>1, <2>2 DEF MatrixInv
<1>5. ASSUME NEW i \in Slots, Evaluate(i) PROVE MatrixInv'
    BY <1>4, <1>5 DEF Evaluate, Report, Fail
<1>6. CASE Cancel \/ UNCHANGED vars
    BY <1>4, <1>6 DEF Cancel, vars
<1> QED
    BY <1>1, <1>2, <1>3, <1>5, <1>6 DEF Next, Caller

\* For any number of members and claims, two members agree fully exactly when
\* they judged the same claims the same way (panel.go:101-130).
THEOREM FullAgreementIsSameClaims == Spec => []AgreementMeansSameClaims
<1>1. Init => MatrixInv
    BY DEF Init, MatrixInv
<1>2. PanelIInv /\ MatrixInv => AgreementMeansSameClaims
    <2> SUFFICES ASSUME PanelIInv, MatrixInv, outcome = "ok", NEW i \in Slots, NEW k \in Slots
                 PROVE  LET entry == matrix[members[i].id][members[k].id] IN
                        /\ entry = matrix[members[k].id][members[i].id]
                        /\ entry[1] \in 0..entry[2]
                        /\ i # k => (entry[1] = entry[2] /\ entry[2] > 0
                                        <=> said[i].claims = said[k].claims /\ DOMAIN said[i].claims # {})
        BY DEF AgreementMeansSameClaims
    <2> DEFINE a == members[i].id
               b == members[k].id
    <2>1. a \in Ids /\ b \in Ids /\ (a = b <=> i = k)
        BY DEF MatrixInv, ValidMembers, Ids
    <2>2. /\ reports[a] = said[i] /\ reports[b] = said[k]
          /\ reports[a] \in Reports /\ reports[b] \in Reports
        BY <2>1 DEF PanelIInv, PanelInv, OwnReports, TypeOK
    <2>3. matrix = PairwiseAgreement(reports)
        BY DEF MatrixInv
    <2> HIDE DEF a, b
    <2>4. CASE i = k
        <3>1. matrix[a][b] = <<1, 1>> /\ matrix[b][a] = <<1, 1>>
            BY <2>1, <2>3, <2>4 DEF PairwiseAgreement
        <3> QED
            BY <2>4, <3>1 DEF a, b
    <2>5. CASE i # k
        <3>1. /\ matrix[a][b] = <<Cardinality(ClaimMatches(said[i], said[k])), ClaimTotal(said[i], said[k])>>
              /\ matrix[b][a] = <<Cardinality(ClaimMatches(said[k], said[i])), ClaimTotal(said[k], said[i])>>
            BY <2>1, <2>2, <2>3, <2>5 DEF PairwiseAgreement
        <3>2. said[i] \in Reports /\ said[k] \in Reports
            BY <2>2
        <3> QED
            BY <2>5, <3>1, <3>2, FullAgreement DEF a, b
    <2> QED
        BY <2>4, <2>5
<1> QED
    BY <1>1, <1>2, MatrixKept, PanelInvariant, PTL DEF Spec

-----------------------------------------------------------------------------
(* A panel implements the safety part of SuitePromise: a judge's report is a *)
(* Complete step, returning is Succeed or Fail, everything else stutters.    *)

LEMMA PromiseStep == PanelIInv /\ [Next]_vars => [Promise!Next]_(Promise!promiseVars)
<1> SUFFICES ASSUME TypeOK, PanelInv, [Next]_vars
             PROVE  Promise!Next \/ UNCHANGED Promise!promiseVars
    BY DEF PanelIInv
<1>1. CASE Validate
    <2>1. pc = "validate" /\ outcome = "none" /\ UNCHANGED <<members, reports>>
          /\ \A i \in Slots : worker[i] # "reported" /\ worker'[i] # "reported"
        BY <1>1 DEF Validate, PanelInv
    <2>2. Reported = {} /\ Reported' = {}
        BY <2>1 DEF Reported
    <2>3. CASE pc' = "wait" /\ UNCHANGED outcome
        BY <2>1, <2>2, <2>3 DEF Promise!promiseVars
    <2>4. CASE pc' = "returned" /\ outcome' = "invalid"
        BY <2>1, <2>2, <2>4 DEF Promise!Next, Promise!Fail
    <2> QED
        BY <1>1, <2>3, <2>4 DEF Validate
<1>2. CASE WaitFailed
    <2>1. pc = "wait" /\ pc' = "returned" /\ outcome = "none" /\ outcome' # "ok"
          /\ UNCHANGED <<members, worker, reports>>
        BY <1>2 DEF WaitFailed, WaitDone, TypeOK, PanelInv
    <2>2. UNCHANGED Reported
        BY <2>1 DEF Reported
    <2> QED
        BY <2>1, <2>2 DEF Promise!Next, Promise!Fail
<1>3. CASE WaitSucceeded
    <2>1. pc = "wait" /\ pc' = "returned" /\ outcome = "none" /\ outcome' = "ok"
          /\ UNCHANGED <<members, worker>> /\ DOMAIN reports' = Ids
        BY <1>3 DEF WaitSucceeded, WaitDone, PanelInv
    <2>2. \A i \in Slots : worker[i] = "reported"
        BY <1>3 DEF WaitSucceeded, WaitDone, PanelInv
    <2>3. Reported = Slots /\ UNCHANGED Reported
        BY <2>1, <2>2 DEF Reported
    <2>4. {i \in Slots : members'[i].id \in DOMAIN reports'} = Slots
        BY <2>1 DEF Ids
    <2> QED
        BY <2>1, <2>3, <2>4 DEF Promise!Next, Promise!Succeed
<1>4. ASSUME NEW i \in Slots, Report(i)
      PROVE  Promise!Next \/ UNCHANGED Promise!promiseVars
    <2>1. pc = "wait" /\ outcome = "none" /\ i \in Slots \ Reported
          /\ UNCHANGED <<members, pc, outcome, reports>>
        BY <1>4 DEF Report, Reported, PanelInv, NoStragglers, TypeOK, answer
    <2>2. Reported' = Reported \cup {i}
        BY <1>4 DEF Report, Reported, TypeOK
    <2>3. [k \in Slots |-> {}] \in [Slots -> SUBSET Reported]
        OBVIOUS
    <2> QED
        BY <2>1, <2>2, <2>3 DEF Promise!Next, Promise!Complete
<1>5. ASSUME NEW i \in Slots, Fail(i)
      PROVE  UNCHANGED Promise!promiseVars
    <2>1. UNCHANGED <<members, pc, outcome, reports>>
        BY <1>5 DEF Fail, answer
    <2>2. UNCHANGED Reported
        BY <1>5 DEF Fail, Reported, TypeOK
    <2> QED
        BY <2>1, <2>2 DEF Promise!promiseVars
<1>6. CASE Cancel \/ UNCHANGED vars
    BY <1>6 DEF Cancel, vars, group, answer, Reported, Promise!promiseVars
<1> QED
    BY <1>1, <1>2, <1>3, <1>4, <1>5, <1>6 DEF Next, Caller, Evaluate

\* Every panel, of any size, keeps the promise of a suite run without
\* dependencies: each judge completes at most once and the caller is handed
\* every report or none.
THEOREM PanelKeepsPromise == Spec => KeepsPromiseSafely
<1>1. Init => Promise!Init
    BY DEF Init, Reported, Promise!Init
<1> QED
    BY <1>1, PromiseStep, PanelInvariant, PTL DEF Spec, KeepsPromiseSafely, Promise!Safety

=============================================================================
