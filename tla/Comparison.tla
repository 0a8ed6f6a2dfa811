----------------------------- MODULE Comparison -----------------------------
(***************************************************************************)
(* CompareReports and the agreement counts over two sealed reports         *)
(* (audit/disagreement.go).                                                *)
(*                                                                         *)
(* A sealed report repeats neither a claim nor a construct, so that its    *)
(* claim results are a function from claim ids to labels and its           *)
(* dimensions one from construct ids to what they say.  A dimension's      *)
(* value counts in units of the tolerance, 1e-9.                           *)
(***************************************************************************)
EXTENDS Integers, FiniteSets

CONSTANT None   \* an absent value

\* Bug: a delta keeps its sign.
MagnitudeSigned(x) == x

Magnitude(x) == IF x < 0 THEN -x ELSE x

Common(f, g) == DOMAIN f \cap DOMAIN g

\* Bug: only the keys of both reports are compared.
UnionKeysInBoth(f, g) == Common(f, g)

UnionKeys(f, g) == DOMAIN f \cup DOMAIN g

Numeric(d) == d.value # None

DimDiffers(a, b) ==
    \/ a.applicable # b.applicable \/ a.label # b.label
    \/ Numeric(a) # Numeric(b)
    \/ Numeric(a) /\ Numeric(b) /\ Magnitude(a.value - b.value) > 1

\* Bug: only what both reports hold is compared.
ClaimsApartInBoth(x, y) == {c \in Common(x.claims, y.claims) : x.claims[c] # y.claims[c]}

\* What CompareReports lists: the claims and the constructs on which the reports
\* differ, by presence or by content.
ClaimsApart(x, y) ==
    {c \in UnionKeys(x.claims, y.claims) :
        c \notin Common(x.claims, y.claims) \/ x.claims[c] # y.claims[c]}

DimensionsApart(x, y) ==
    {c \in UnionKeys(x.dims, y.dims) :
        c \notin Common(x.dims, y.dims) \/ DimDiffers(x.dims[c], y.dims[c])}

\* What Reliability and pairwiseAgreement count as agreement.
ClaimMatches(x, y) == {c \in Common(x.claims, y.claims) : x.claims[c] = y.claims[c]}

DimensionMatches(x, y) == {c \in Common(x.dims, y.dims) : ~DimDiffers(x.dims[c], y.dims[c])}

ClaimTotal(x, y) == Cardinality(UnionKeys(x.claims, y.claims))

=============================================================================
