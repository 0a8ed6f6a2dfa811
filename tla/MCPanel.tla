------------------------------ MODULE MCPanel ------------------------------
(* Three members, two claims. *)
EXTENDS Panel

Member(id) == [id |-> id, judge |-> "some"]

MCMemberLists == {
    <<Member("a"), Member("b"), Member("c")>>,
    <<Member("a"), Member("b"), Member("a")>>,
    <<Member("a"), [id |-> "b", judge |-> "nil"], Member("c")>>}

\* A judge finds no claim, one, or both, with agreeing and opposite labels.
MCReports == {[claims |-> f, dims |-> << >>] : f \in {
    << >>,
    [c1 |-> "entailed"],
    [c1 |-> "contradicted"],
    [c1 |-> "entailed", c2 |-> "entailed"]}}

=============================================================================
