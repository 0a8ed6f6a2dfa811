--------------------------- MODULE MCCalibration ---------------------------
(* Small gold sets and reports for Calibration. *)
EXTENDS Calibration

Gold(instance, claim, text, label) ==
    [instance |-> instance, claim |-> claim, text |-> text, label |-> label, valid |-> TRUE]

Sides == {"entailed", "insufficient"}

MCGoldSets ==
    {<< >>, <<[Gold("i1", "c1", "t1", "entailed") EXCEPT !.valid = FALSE]>>}
    \cup {<<Gold("i1", "c1", "t1", "entailed"), Gold("i1", "c1", "t2", "contradicted")>>}
    \cup {<<Gold("i1", "c1", "t1", x), Gold("i1", "c2", "t2", y)>> : x, y \in Sides}
    \cup {<<Gold("i1", "c1", "t1", x), Gold("i2", "c1", "t2", y), Gold("i1", "c2", "t2", "contradicted")>> :
            x, y \in Sides}

V(claim, label, probability) == [claim |-> claim, label |-> label, probability |-> probability]

\* Verdicts without a probability, on and off the bins' edges, and one that no
\* validated report holds.
Said(claim) == {V(claim, "entailed", None), V(claim, "entailed", 7), V(claim, "contradicted", 3),
                V(claim, "contradicted", 0), V(claim, "entailed", 10), V(claim, "entailed", 11)}

\* Claims are numbered per report: c1 of i1 is not c1 of i2.
Texts(instance) == IF instance = "i1" THEN [c1 |-> "t1", c2 |-> "t2"] ELSE [c1 |-> "t2", c2 |-> "t1"]

Report(instance, results) ==
    [instance |-> instance, protocol |-> "p1", results |-> results,
     texts |-> Restrict(Texts(instance), {v.claim : v \in Range(results)})]

ResultsOf1 == {<< >>} \cup {<<x>> : x \in Said("c2")}
              \cup {<<x, y>> : x \in Said("c2"), y \in Said("c1")}

MCReportMaps ==
    {[k \in {"i1"} |-> Report("i1", r)] : r \in ResultsOf1}
    \cup {[i1 |-> Report("i1", <<V("c1", "entailed", 7), v>>), i2 |-> Report("i2", <<w>>)] :
            v \in Said("c2"), w \in Said("c1")}
    \cup {[i1 |-> Report("i1", << >>), i2 |-> [Report("i2", << >>) EXCEPT !.protocol = "p2"]],
          [k \in {"i1"} |-> Report("i2", << >>)]}

=============================================================================
