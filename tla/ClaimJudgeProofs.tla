-------------------------- MODULE ClaimJudgeProofs --------------------------
(***************************************************************************)
(* Theorems about ClaimJudge, for any number of evaluations, protocols,    *)
(* answers and attempts: strict decoding is exact, a cache entry stands    *)
(* for a genuine answer, bypassing stays clear of the cache, the cost is   *)
(* bounded, an evaluation fails closed, the provenance of a report tells   *)
(* its whole run, and a warm cache replays it.                             *)
(***************************************************************************)
EXTENDS ClaimJudge, FiniteSetTheorems, SequenceTheorems, TLAPS

-----------------------------------------------------------------------------
(* Strict decoding: it accepts exactly the answers that are one object,     *)
(* alone or alone in one code fence, however long the answer is.           *)

\* w is what s holds from a to b.
Window(w, s, a, b) ==
    /\ w \in Text /\ Len(w) = b - a + 1
    /\ \A i \in 1 .. Len(w) : w[i] = s[a + i - 1]

Shows(token) == token.is \notin Blanks
Silent(s, a, b) == \A i \in a .. b : ~Shows(s[i])

\* Of the places from a to b, only i is not blank, and it is a sound object.
Lone(s, a, b, i) ==
    /\ i \in a .. b /\ s[i].is = "object" /\ s[i].flaw = ""
    /\ \A k \in a .. b : k # i => ~Shows(s[k])

-----------------------------------------------------------------------------
(* Numbers and windows *)

HasSmallest(F) == \E X \in F : \A Y \in F : Y \subseteq X => Y = X

\* Among finitely many pieces of a set there is one that contains no other.
LEMMA SmallestPiece ==
    ASSUME NEW S, IsFiniteSet(S), NEW F, F \subseteq SUBSET S, F # {}
    PROVE  HasSmallest(F)
<1>1. \A X \in F : IsFiniteSet(X)
    BY FS_Subset
<1>2. F \subseteq FiniteSubsetsOf(S)
    BY <1>1 DEF FiniteSubsetsOf
<1>3. \E X \in F : \A Y \in F : ~(<<Y, X>> \in StrictSubsetOrdering(S))
    BY <1>2, FS_StrictSubsetOrderingWellFounded, WFMin
<1>4. \A X, Y \in F : Y \subseteq X /\ Y # X => <<Y, X>> \in StrictSubsetOrdering(S)
    BY DEF StrictSubsetOrdering
<1> QED
    BY <1>3, <1>4, Zenon DEF HasSmallest

LEMMA MinIsLeast ==
    ASSUME NEW n \in Nat, NEW S \in SUBSET (0 .. n), S # {}
    PROVE  Min(S) \in S /\ \A k \in S : Min(S) <= k
<1> DEFINE Below(k) == {j \in S : j <= k}
           F == {Below(k) : k \in S}
<1>0. IsFiniteSet(S)
    <2>1. IsFiniteSet(0 .. n)
        BY FS_Interval
    <2> QED
        BY <2>1, FS_Subset
<1>1. HasSmallest(F)
    <2>1. F \subseteq SUBSET S /\ F # {}
        OBVIOUS
    <2> HIDE DEF F
    <2> QED
        BY <1>0, <2>1, SmallestPiece
<1>2. PICK k \in S : \A j \in S : Below(j) \subseteq Below(k) => Below(j) = Below(k)
    <2>1. PICK X \in F : \A Y \in F : Y \subseteq X => Y = X
        BY <1>1 DEF HasSmallest
    <2>2. PICK k \in S : X = Below(k)
        OBVIOUS
    <2>3. \A j \in S : Below(j) \in F
        OBVIOUS
    <2> HIDE DEF Below, F
    <2> QED
        BY <2>1, <2>2, <2>3, Zenon
<1>3. ASSUME NEW j \in S PROVE k <= j
    <2>1. CASE ~(k <= j)
        <3>1. j \in Int /\ k \in Int /\ S \subseteq Int
            OBVIOUS
        <3>2. ASSUME NEW x \in Below(j) PROVE x \in Below(k)
            <4>1. x \in S /\ x \in Int
                BY <3>1
            <4> QED
                BY <2>1, <3>1, <4>1
        <3>3. k \in Below(k) /\ k \notin Below(j)
            BY <2>1, <3>1
        <3> QED
            BY <1>2, <3>2, <3>3
    <2> QED
        BY <2>1
<1> QED
    BY <1>3 DEF Min

LEMMA MaxIsGreatest ==
    ASSUME NEW n \in Nat, NEW S \in SUBSET (0 .. n), S # {}
    PROVE  Max(S) \in S /\ \A k \in S : k <= Max(S)
<1> DEFINE Above(k) == {j \in S : k <= j}
           F == {Above(k) : k \in S}
<1>0. IsFiniteSet(S)
    <2>1. IsFiniteSet(0 .. n)
        BY FS_Interval
    <2> QED
        BY <2>1, FS_Subset
<1>1. HasSmallest(F)
    <2>1. F \subseteq SUBSET S /\ F # {}
        OBVIOUS
    <2> HIDE DEF F
    <2> QED
        BY <1>0, <2>1, SmallestPiece
<1>2. PICK k \in S : \A j \in S : Above(j) \subseteq Above(k) => Above(j) = Above(k)
    <2>1. PICK X \in F : \A Y \in F : Y \subseteq X => Y = X
        BY <1>1 DEF HasSmallest
    <2>2. PICK k \in S : X = Above(k)
        OBVIOUS
    <2>3. \A j \in S : Above(j) \in F
        OBVIOUS
    <2> HIDE DEF Above, F
    <2> QED
        BY <2>1, <2>2, <2>3, Zenon
<1>3. ASSUME NEW j \in S PROVE j <= k
    <2>1. CASE ~(j <= k)
        <3>1. j \in Int /\ k \in Int /\ S \subseteq Int
            OBVIOUS
        <3>2. ASSUME NEW x \in Above(j) PROVE x \in Above(k)
            <4>1. x \in S /\ x \in Int
                BY <3>1
            <4> QED
                BY <2>1, <3>1, <4>1
        <3>3. k \in Above(k) /\ k \notin Above(j)
            BY <2>1, <3>1
        <3> QED
            BY <1>2, <3>2, <3>3
    <2> QED
        BY <2>1
<1> QED
    BY <1>3 DEF Max

LEMMA WholeWindow ==
    ASSUME NEW s \in Text
    PROVE  Window(s, s, 1, Len(s)) /\ Len(s) \in Nat
BY DEF Window, Text

\* A piece of a window is a window.
LEMMA SubWindow ==
    ASSUME NEW s \in Text, NEW a \in Nat \ {0}, NEW b \in Nat, NEW w, Window(w, s, a, b),
           NEW c \in Nat \ {0}, NEW d \in Nat, c <= d + 1, d <= Len(w)
    PROVE  Window(SubSeq(w, c, d), s, a + c - 1, a + d - 1)
<1>1. w \in Seq(Token) /\ Len(w) \in Nat
    BY DEF Window, Text
<1>2. \A i \in c .. d : w[i] \in Token
    BY <1>1
<1>3. /\ SubSeq(w, c, d) \in Seq(Token)
      /\ Len(SubSeq(w, c, d)) = IF c <= d THEN d - c + 1 ELSE 0
      /\ \A i \in 1 .. d - c + 1 : SubSeq(w, c, d)[i] = w[c + i - 1]
    BY <1>2, SubSeqProperties
<1>4. Len(SubSeq(w, c, d)) = d - c + 1
    BY <1>3
<1>5. ASSUME NEW i \in 1 .. d - c + 1 PROVE SubSeq(w, c, d)[i] = s[a + c - 1 + i - 1]
    <2>1. c + i - 1 \in 1 .. Len(w)
        BY <1>1
    <2>2. w[c + i - 1] = s[a + (c + i - 1) - 1]
        BY <2>1 DEF Window
    <2> QED
        BY <1>3, <2>2
<1>6. /\ Len(SubSeq(w, c, d)) = (a + d - 1) - (a + c - 1) + 1
      /\ 1 .. Len(SubSeq(w, c, d)) = 1 .. d - c + 1
    BY <1>4
<1>7. SubSeq(w, c, d) \in Text
    BY <1>3 DEF Text
<1> QED
    BY <1>5, <1>6, <1>7 DEF Window

\* Dropping blanks on the left leaves the window from its first visible place.
LEMMA TrimLeftWindow ==
    ASSUME NEW s \in Text, NEW a \in Nat \ {0}, NEW b \in Nat, NEW w, Window(w, s, a, b)
    PROVE  /\ Silent(s, a, b) => TrimLeft(w) = << >>
           /\ ~Silent(s, a, b) => \E m \in a .. b :
                Shows(s[m]) /\ Silent(s, a, m - 1) /\ Window(TrimLeft(w), s, m, b)
<1>1. w \in Seq(Token) /\ Len(w) \in Nat /\ DOMAIN w = 1 .. Len(w) /\ Len(w) = b - a + 1
    BY DEF Window, Text
<1>2. Visible(w) = {i \in 1 .. Len(w) : Shows(s[a + i - 1])}
    BY <1>1 DEF Visible, Shows, Window
<1>3. \A k \in a .. b : k - a + 1 \in 1 .. Len(w) /\ a + (k - a + 1) - 1 = k
    BY <1>1
<1>4. CASE Silent(s, a, b)
    <2>1. Visible(w) = {}
        BY <1>1, <1>2, <1>4 DEF Silent
    <2> QED
        BY <1>4, <2>1 DEF TrimLeft
<1>5. CASE ~Silent(s, a, b)
    <2>1. Visible(w) # {}
        BY <1>2, <1>3, <1>5 DEF Silent
    <2>2. Visible(w) \in SUBSET (0 .. Len(w))
        BY <1>1, <1>2
    <2> DEFINE c == Min(Visible(w))
               m == a + c - 1
    <2>3. c \in Visible(w) /\ \A k \in Visible(w) : c <= k
        BY <1>1, <2>1, <2>2, MinIsLeast
    <2> HIDE DEF c
    <2>4. c \in 1 .. Len(w) /\ Shows(s[m]) /\ m \in a .. b
        BY <1>1, <1>2, <2>3
    <2>5. Silent(s, a, m - 1)
        <3> SUFFICES ASSUME NEW k \in a .. m - 1, Shows(s[k]) PROVE FALSE
            BY DEF Silent
        <3>1. k \in a .. b
            BY <2>4
        <3>2. k - a + 1 \in Visible(w)
            BY <1>2, <1>3, <3>1
        <3> QED
            BY <2>3, <2>4, <3>2
    <2>6. Window(SubSeq(w, c, Len(w)), s, a + c - 1, a + Len(w) - 1)
        BY <1>1, <2>4, SubWindow
    <2>7. a + Len(w) - 1 = b
        BY <1>1
    <2>8. TrimLeft(w) = SubSeq(w, c, Len(w))
        BY <2>1 DEF TrimLeft, c
    <2> QED
        BY <1>5, <2>4, <2>5, <2>6, <2>7, <2>8
<1> QED
    BY <1>4, <1>5

\* And on the right, up to its last one.
LEMMA TrimRightWindow ==
    ASSUME NEW s \in Text, NEW a \in Nat \ {0}, NEW b \in Nat, NEW w, Window(w, s, a, b)
    PROVE  /\ Silent(s, a, b) => TrimRight(w) = << >>
           /\ ~Silent(s, a, b) => \E m \in a .. b :
                Shows(s[m]) /\ Silent(s, m + 1, b) /\ Window(TrimRight(w), s, a, m)
<1>1. w \in Seq(Token) /\ Len(w) \in Nat /\ DOMAIN w = 1 .. Len(w) /\ Len(w) = b - a + 1
    BY DEF Window, Text
<1>2. Visible(w) = {i \in 1 .. Len(w) : Shows(s[a + i - 1])}
    BY <1>1 DEF Visible, Shows, Window
<1>3. \A k \in a .. b : k - a + 1 \in 1 .. Len(w) /\ a + (k - a + 1) - 1 = k
    BY <1>1
<1>4. CASE Silent(s, a, b)
    <2>1. Visible(w) = {}
        BY <1>1, <1>2, <1>4 DEF Silent
    <2> QED
        BY <1>4, <2>1 DEF TrimRight
<1>5. CASE ~Silent(s, a, b)
    <2>1. Visible(w) # {}
        BY <1>2, <1>3, <1>5 DEF Silent
    <2>2. Visible(w) \in SUBSET (0 .. Len(w))
        BY <1>1, <1>2
    <2> DEFINE d == Max(Visible(w))
               m == a + d - 1
    <2>3. d \in Visible(w) /\ \A k \in Visible(w) : k <= d
        BY <1>1, <2>1, <2>2, MaxIsGreatest
    <2> HIDE DEF d
    <2>4. d \in 1 .. Len(w) /\ Shows(s[m]) /\ m \in a .. b
        BY <1>1, <1>2, <2>3
    <2>5. Silent(s, m + 1, b)
        <3> SUFFICES ASSUME NEW k \in m + 1 .. b, Shows(s[k]) PROVE FALSE
            BY DEF Silent
        <3>1. k \in a .. b
            BY <2>4
        <3>2. k - a + 1 \in Visible(w)
            BY <1>2, <1>3, <3>1
        <3> QED
            BY <2>3, <2>4, <3>2
    <2>6. Window(SubSeq(w, 1, d), s, a + 1 - 1, a + d - 1)
        BY <1>1, <2>4, SubWindow
    <2>7. TrimRight(w) = SubSeq(w, 1, d)
        BY <2>1 DEF TrimRight, d
    <2>8. a + 1 - 1 = a
        OBVIOUS
    <2> QED
        BY <1>5, <2>4, <2>5, <2>6, <2>7, <2>8
<1> QED
    BY <1>4, <1>5

-----------------------------------------------------------------------------
(* What the code accepts *)

Accepts(text) == text # << >> /\ Head(text).is = "object" /\ Head(text).flaw = "" /\ Len(text) = 1

\* What the trimmed text is decoded to.
Outcome(text) ==
    IF text = << >> \/ Head(text).is # "object" THEN Structural("no_json_object")
    ELSE IF Head(text).flaw # "" THEN Structural(Head(text).flaw)
    ELSE IF Len(text) > 1 THEN Structural("trailing_data")
    ELSE [fault |-> "", list |-> Head(text).payload.list, sound |-> Head(text).payload.sound]

LEMMA OutcomeAccepts ==
    ASSUME NEW text \in Text
    PROVE  Outcome(text).fault = "" <=> Accepts(text)
<1>1. Len(text) \in Nat /\ (text # << >> => Len(text) > 0)
    BY DEF Text
<1>2. \A k \in Nat : k > 1 => k # 1
    OBVIOUS
<1>3. \A k \in Nat : k > 0 /\ ~(k > 1) => k = 1
    OBVIOUS
<1>4. CASE text = << >> \/ Head(text).is # "object"
    BY <1>4 DEF Outcome, Structural, Accepts
<1>5. CASE text # << >> /\ Head(text).is = "object" /\ Head(text).flaw # ""
    BY <1>5 DEF Outcome, Structural, Accepts
<1>6. CASE text # << >> /\ Head(text).is = "object" /\ Head(text).flaw = "" /\ Len(text) > 1
    <2>1. Len(text) # 1
        BY <1>1, <1>2, <1>6, Zenon
    <2> QED
        BY <1>6, <2>1 DEF Outcome, Structural, Accepts
<1>7. CASE text # << >> /\ Head(text).is = "object" /\ Head(text).flaw = "" /\ ~(Len(text) > 1)
    <2>1. Len(text) = 1
        BY <1>1, <1>3, <1>7, Zenon
    <2>2. Outcome(text).fault = ""
        BY <1>7 DEF Outcome
    <2> QED
        BY <1>7, <2>1, <2>2, Zenon DEF Accepts
<1> QED
    BY <1>4, <1>5, <1>6, <1>7

LEMMA DecodingAccepts ==
    ASSUME NEW raw, TrimRight(TrimLeft(StripSingleCodeFence(raw))) \in Text
    PROVE  DecodeJSONObjectStrict(raw).fault = "" <=> Accepts(TrimRight(TrimLeft(StripSingleCodeFence(raw))))
<1>1. DecodeJSONObjectStrict(raw) = Outcome(TrimRight(TrimLeft(StripSingleCodeFence(raw))))
    BY DEF DecodeJSONObjectStrict, Outcome
<1> QED
    BY <1>1, OutcomeAccepts

\* A window between two visible places is accepted when they are one place,
\* a sound object.
LEMMA WindowAccepts ==
    ASSUME NEW s \in Text, NEW m \in Nat \ {0}, NEW n \in Nat, m <= n,
           NEW text, Window(text, s, m, n)
    PROVE  Accepts(text) <=> m = n /\ s[m].is = "object" /\ s[m].flaw = ""
<1>1. text \in Seq(Token) /\ Len(text) = n - m + 1 /\ 1 \in 1 .. Len(text)
    BY DEF Window, Text
<1>2. Head(text) = text[1] /\ text # << >>
    BY <1>1
<1>3. text[1] = s[m + 1 - 1] /\ m + 1 - 1 = m
    BY <1>1 DEF Window
<1>4. Head(text) = s[m]
    BY <1>2, <1>3
<1>5. Len(text) = 1 <=> m = n
    BY <1>1
<1> QED
    BY <1>2, <1>4, <1>5, Zenon DEF Accepts

\* Trimmed, a window is accepted when it shows one sound object.
LEMMA TrimmedAccepts ==
    ASSUME NEW s \in Text, NEW a \in Nat \ {0}, NEW b \in Nat, NEW w, Window(w, s, a, b)
    PROVE  /\ TrimRight(TrimLeft(w)) \in Text
           /\ Accepts(TrimRight(TrimLeft(w))) <=> \E i \in a .. b : Lone(s, a, b, i)
<1>1. ASSUME NEW i \in a .. b, Lone(s, a, b, i) PROVE Shows(s[i])
    BY <1>1 DEF Lone, Shows, Blanks
<1>2. CASE Silent(s, a, b)
    <2>1. TrimLeft(w) = << >>
        BY <1>2, TrimLeftWindow
    <2>2. Visible(<< >>) = {}
        BY DEF Visible
    <2>3. TrimRight(TrimLeft(w)) = << >>
        BY <2>1, <2>2 DEF TrimRight
    <2> QED
        BY <1>1, <1>2, <2>3 DEF Silent, Accepts, Text
<1>3. CASE ~Silent(s, a, b)
    <2>1. PICK m \in a .. b : Shows(s[m]) /\ Silent(s, a, m - 1) /\ Window(TrimLeft(w), s, m, b)
        BY <1>3, TrimLeftWindow
    <2>2. ~Silent(s, m, b) /\ m \in Nat \ {0}
        BY <2>1 DEF Silent
    <2>3. PICK n \in m .. b :
            Shows(s[n]) /\ Silent(s, n + 1, b) /\ Window(TrimRight(TrimLeft(w)), s, m, n)
        BY <2>1, <2>2, TrimRightWindow
    <2>4. Accepts(TrimRight(TrimLeft(w))) <=> m = n /\ s[m].is = "object" /\ s[m].flaw = ""
        <3>1. m <= n /\ n \in Nat
            BY <2>2
        <3> QED
            BY <2>2, <2>3, <3>1, WindowAccepts
    <2>5. m = n /\ s[m].is = "object" /\ s[m].flaw = "" => Lone(s, a, b, m)
        <3>1. m = n => \A k \in a .. b : k # m => ~Shows(s[k])
            BY <2>1, <2>3 DEF Silent
        <3> QED
            BY <3>1 DEF Lone
    <2>6. ASSUME NEW i \in a .. b, Lone(s, a, b, i)
          PROVE  m = n /\ s[m].is = "object" /\ s[m].flaw = ""
        <3>1. m \in a .. b /\ n \in a .. b
            BY <2>3
        <3>2. i = m /\ i = n
            BY <2>1, <2>3, <2>6, <3>1, Zenon DEF Lone
        <3> QED
            BY <2>6, <3>2 DEF Lone
    <2> QED
        BY <2>3, <2>4, <2>5, <2>6 DEF Window
<1> QED
    BY <1>2, <1>3

-----------------------------------------------------------------------------
(* Fences *)

\* From its first visible place k on, s is a fence whose line ends at n, and its
\* last visible place l is a fence.
Fenced(s, k, n, l) ==
    /\ k \in 1 .. Len(s) /\ n \in k + 1 .. Len(s) /\ l \in n + 1 .. Len(s)
    /\ Silent(s, 1, k - 1) /\ s[k].is = "fence"
    /\ s[n].is = "newline" /\ \A i \in k .. n - 1 : s[i].is # "newline"
    /\ s[l].is = "fence" /\ Silent(s, l + 1, Len(s))

LEMMA FencesAreUnique ==
    ASSUME NEW s \in Text, NEW k, NEW n, NEW l, Fenced(s, k, n, l),
           NEW p, NEW q, NEW r, Fenced(s, p, q, r)
    PROVE  k = p /\ n = q /\ l = r
<1>1. Len(s) \in Nat /\ {k, n, l, p, q, r} \subseteq 1 .. Len(s)
    <2>1. Len(s) \in Nat
        BY DEF Text
    <2> QED
        BY <2>1 DEF Fenced
<1>2. \A i \in 1 .. Len(s) : s[i].is = "fence" => Shows(s[i])
    BY DEF Shows, Blanks
<1>3. k = p
    BY <1>1, <1>2 DEF Fenced, Silent
<1>4. n = q
    BY <1>1, <1>3 DEF Fenced
<1>5. l = r
    BY <1>1, <1>2 DEF Fenced, Silent
<1> QED
    BY <1>3, <1>4, <1>5

LEMMA LastVisible ==
    ASSUME NEW s, NEW a \in Nat, NEW b \in Nat, NEW k \in a .. b, NEW l \in a .. b,
           Shows(s[k]), Silent(s, k + 1, b), Shows(s[l]), Silent(s, l + 1, b)
    PROVE  k = l
<1>1. ~(k < l)
    BY DEF Silent
<1>2. ~(l < k)
    BY DEF Silent
<1> QED
    BY <1>1, <1>2

\* What ends a window, and what precedes its end.
LEMMA EndOfWindow ==
    ASSUME NEW s \in Text, NEW a \in Nat \ {0}, NEW b \in a .. Len(s), NEW w, Window(w, s, a, b)
    PROVE  w # << >> /\ Last(w) = s[b] /\ Window(Front(w), s, a, b - 1)
<1>1. w \in Seq(Token) /\ Len(w) = b - a + 1 /\ Len(w) \in Nat \ {0} /\ b \in Nat
    BY DEF Window, Text
<1>2. w # << >>
    BY <1>1
<1>3. Last(w) = s[b]
    <2>1. Len(w) \in 1 .. Len(w) /\ a + Len(w) - 1 = b
        BY <1>1
    <2> QED
        BY <2>1 DEF Last, Window
<1>4. Window(Front(w), s, a, b - 1)
    <2>1. Front(w) = SubSeq(w, 1, Len(w) - 1)
        BY DEF Front
    <2>2. Len(w) - 1 \in Nat /\ 1 <= (Len(w) - 1) + 1 /\ Len(w) - 1 <= Len(w)
        BY <1>1
    <2>3. Window(SubSeq(w, 1, Len(w) - 1), s, a + 1 - 1, a + (Len(w) - 1) - 1)
        BY <1>1, <2>2, SubWindow
    <2>4. a + 1 - 1 = a /\ a + (Len(w) - 1) - 1 = b - 1
        BY <1>1
    <2> QED
        BY <2>1, <2>3, <2>4
<1> QED
    BY <1>2, <1>3, <1>4

\* StripSingleCodeFence finds a fence when there is one, and leaves what is inside.
LEMMA StripFinds ==
    ASSUME NEW raw \in Text
    PROVE  \/ /\ StripSingleCodeFence(raw) = raw
              /\ \A k, n, l : ~Fenced(raw, k, n, l)
           \/ \E k, n, l : Fenced(raw, k, n, l) /\ Window(StripSingleCodeFence(raw), raw, n + 1, l - 1)
<1> DEFINE N == Len(raw)
           t == TrimLeft(raw)
<1>1. N \in Nat /\ Window(raw, raw, 1, N)
    BY WholeWindow
<1>2. \A i \in 1 .. N : raw[i].is = "fence" => Shows(raw[i]) /\ raw[i].is # "newline"
    BY DEF Shows, Blanks
<1>3. StripSingleCodeFence(raw) =
        IF /\ t # << >> /\ Head(t).is = "fence" /\ Newlines(t) # {}
           /\ Body(t) # << >> /\ Last(Body(t)).is = "fence"
        THEN Front(Body(t)) ELSE raw
    BY DEF StripSingleCodeFence
<1> HIDE DEF t
<1>4. CASE Silent(raw, 1, N)
    <2>1. t = << >>
        BY <1>1, <1>4, TrimLeftWindow DEF t
    <2>2. \A k, n, l : ~Fenced(raw, k, n, l)
        BY <1>2, <1>4 DEF Fenced, Silent
    <2> QED
        BY <1>3, <2>1, <2>2
<1>5. CASE ~Silent(raw, 1, N)
    <2>1. PICK m \in 1 .. N : Shows(raw[m]) /\ Silent(raw, 1, m - 1) /\ Window(t, raw, m, N)
        BY <1>1, <1>5, TrimLeftWindow DEF t
    <2>2. /\ m \in Nat \ {0} /\ t \in Text /\ Len(t) = N - m + 1 /\ Len(t) \in Nat
          /\ t # << >> /\ Head(t) = raw[m] /\ DOMAIN t = 1 .. Len(t)
          /\ \A i \in 1 .. Len(t) : t[i] = raw[m + i - 1]
        BY <1>1, <2>1 DEF Window, Text
    <2>3. ASSUME NEW k, NEW n, NEW l, Fenced(raw, k, n, l) PROVE k = m
        <3>1. k \in 1 .. N /\ Shows(raw[k]) /\ Silent(raw, 1, k - 1)
            BY <1>2, <2>3 DEF Fenced
        <3> QED
            BY <1>1, <2>1, <3>1 DEF Silent
    <2>4. Newlines(t) = {i \in 1 .. Len(t) : raw[m + i - 1].is = "newline"}
        BY <2>2 DEF Newlines
    <2>5. CASE raw[m].is # "fence"
        <3>1. \A k, n, l : ~Fenced(raw, k, n, l)
            BY <2>3, <2>5 DEF Fenced
        <3> QED
            BY <1>3, <2>2, <2>5, <3>1
    <2>6. CASE Newlines(t) = {}
        <3>1. ASSUME NEW k, NEW n, NEW l, Fenced(raw, k, n, l) PROVE FALSE
            <4>1. n \in m + 1 .. N /\ raw[n].is = "newline"
                BY <2>3, <3>1 DEF Fenced
            <4>2. n - m + 1 \in 1 .. Len(t) /\ m + (n - m + 1) - 1 = n
                BY <1>1, <2>2, <4>1
            <4> QED
                BY <2>4, <2>6, <4>1, <4>2
        <3> QED
            BY <1>3, <2>6, <3>1
    <2>7. CASE raw[m].is = "fence" /\ Newlines(t) # {}
        <3>1. PICK c \in Newlines(t) : c = Min(Newlines(t)) /\ \A j \in Newlines(t) : c <= j
            <4>1. Newlines(t) \in SUBSET (0 .. Len(t))
                BY <2>2, <2>4
            <4> QED
                BY <2>2, <2>7, <4>1, MinIsLeast
        <3>2. c \in 1 .. Len(t) /\ c # 1 /\ raw[m + c - 1].is = "newline"
            <4>1. m + 1 - 1 = m
                BY <2>2
            <4> QED
                BY <2>4, <2>7, <3>1, <4>1
        <3>3. PICK n \in m + 1 .. N : n = m + c - 1 /\ raw[n].is = "newline"
            BY <1>1, <2>2, <3>2
        <3>4. \A i \in m .. n - 1 : raw[i].is # "newline"
            <4> SUFFICES ASSUME NEW i \in m .. n - 1, raw[i].is = "newline" PROVE FALSE
                OBVIOUS
            <4>1. i - m + 1 \in 1 .. Len(t) /\ m + (i - m + 1) - 1 = i /\ i - m + 1 < c
                BY <1>1, <2>2, <3>2, <3>3
            <4>2. i - m + 1 \in Newlines(t)
                BY <2>4, <4>1
            <4> QED
                BY <3>1, <3>2, <4>1, <4>2
        <3>5. ASSUME NEW k, NEW q, NEW l, Fenced(raw, k, q, l)
              PROVE  /\ k = m /\ q = n /\ l \in n + 1 .. N
                     /\ raw[l].is = "fence" /\ Shows(raw[l]) /\ Silent(raw, l + 1, N)
            <4>1. k = m
                BY <2>3, <3>5
            <4>2. q = n
                <5>1. q \in m + 1 .. N /\ raw[q].is = "newline" /\ \A i \in m .. q - 1 : raw[i].is # "newline"
                    BY <3>5, <4>1 DEF Fenced
                <5>2. m \in Int /\ n \in Int /\ q \in Int
                    BY <2>2, <3>3, <5>1
                <5>3. ASSUME q < n PROVE FALSE
                    <6>1. q \in m .. n - 1
                        BY <5>1, <5>2, <5>3
                    <6> QED
                        BY <3>4, <5>1, <6>1
                <5>4. ASSUME n < q PROVE FALSE
                    <6>1. n \in m .. q - 1
                        BY <3>3, <5>2, <5>4
                    <6> QED
                        BY <3>3, <5>1, <6>1
                <5> QED
                    BY <5>2, <5>3, <5>4
            <4>3. l \in n + 1 .. N /\ l \in 1 .. N
                BY <1>1, <3>3, <3>5, <4>2 DEF Fenced
            <4> QED
                BY <1>2, <3>5, <4>1, <4>2, <4>3 DEF Fenced
        <3>6. Window(SubSeq(t, c + 1, Len(t)), raw, n + 1, N) /\ n + 1 \in Nat \ {0}
            <4>1. c + 1 \in Nat \ {0} /\ c + 1 <= Len(t) + 1 /\ Len(t) <= Len(t)
                BY <2>2, <3>2
            <4>2. Window(SubSeq(t, c + 1, Len(t)), raw, m + (c + 1) - 1, m + Len(t) - 1)
                BY <1>1, <2>1, <2>2, <4>1, SubWindow
            <4>3. m + (c + 1) - 1 = n + 1 /\ m + Len(t) - 1 = N /\ n + 1 \in Nat \ {0}
                <5>1. m \in Nat \ {0} /\ c \in Nat /\ n = m + c - 1 /\ n \in Nat /\ c # 0
                    BY <2>2, <3>2, <3>3
                <5> QED
                    BY <1>1, <2>2, <5>1
            <4> QED
                BY <4>2, <4>3
        <3>7. Body(t) = TrimRight(SubSeq(t, c + 1, Len(t)))
            BY <3>1 DEF Body
        <3>8. CASE Silent(raw, n + 1, N)
            <4>1. Body(t) = << >>
                BY <1>1, <3>6, <3>7, <3>8, TrimRightWindow
            <4>2. \A k, q, l : ~Fenced(raw, k, q, l)
                BY <3>5, <3>8 DEF Silent
            <4> QED
                BY <1>3, <4>1, <4>2
        <3>9. CASE ~Silent(raw, n + 1, N)
            <4>1. PICK l \in n + 1 .. N :
                    Shows(raw[l]) /\ Silent(raw, l + 1, N) /\ Window(Body(t), raw, n + 1, l)
                BY <1>1, <3>6, <3>7, <3>9, TrimRightWindow
            <4>2. Body(t) # << >> /\ Last(Body(t)) = raw[l] /\ Window(Front(Body(t)), raw, n + 1, l - 1)
                BY <3>6, <4>1, EndOfWindow
            <4>3. CASE raw[l].is = "fence"
                <5>1. Fenced(raw, m, n, l)
                    BY <2>1, <2>7, <3>2, <3>3, <3>4, <4>1, <4>3 DEF Fenced
                <5>2. StripSingleCodeFence(raw) = Front(Body(t))
                    BY <1>3, <2>2, <2>7, <4>2, <4>3
                <5> QED
                    BY <4>2, <5>1, <5>2
            <4>4. CASE raw[l].is # "fence"
                <5>1. StripSingleCodeFence(raw) = raw
                    BY <1>3, <4>2, <4>4
                <5>2. ASSUME NEW k, NEW q, NEW r, Fenced(raw, k, q, r) PROVE FALSE
                    <6>1. r \in n + 1 .. N /\ Shows(raw[r]) /\ Silent(raw, r + 1, N) /\ raw[r].is = "fence"
                        BY <3>5, <5>2
                    <6>2. r = l
                        BY <1>1, <3>6, <4>1, <6>1, LastVisible
                    <6> QED
                        BY <4>4, <6>1, <6>2
                <5> QED
                    BY <5>1, <5>2
            <4> QED
                BY <4>3, <4>4
        <3> QED
            BY <3>8, <3>9
    <2> QED
        BY <2>5, <2>6, <2>7
<1> QED
    BY <1>4, <1>5

-----------------------------------------------------------------------------
(* What is promised, in places of the answer *)

LEMMA BlankWindow ==
    ASSUME NEW s \in Text, NEW a \in Nat \ {0}, NEW b \in Nat, NEW w, Window(w, s, a, b)
    PROVE  Blank(w) <=> Silent(s, a, b)
<1>1. w \in Seq(Token) /\ DOMAIN w = 1 .. Len(w) /\ Len(w) = b - a + 1 /\ Len(w) \in Nat
    BY DEF Window, Text
<1>2. Visible(w) = {i \in 1 .. Len(w) : Shows(s[a + i - 1])}
    BY <1>1 DEF Visible, Shows, Window
<1>3. \A k \in a .. b : k - a + 1 \in 1 .. Len(w) /\ a + (k - a + 1) - 1 = k
    BY <1>1
<1>4. \A i \in 1 .. Len(w) : a + i - 1 \in a .. b
    BY <1>1
<1> QED
    BY <1>2, <1>3, <1>4 DEF Blank, Silent

\* A window whose only newline is its last place.
LEMMA LineWindow ==
    ASSUME NEW s \in Text, NEW a \in Nat \ {0}, NEW b \in Nat, a <= b, NEW w, Window(w, s, a, b)
    PROVE  Newlines(w) = {b - a + 1} <=>
              s[b].is = "newline" /\ \A i \in a .. b - 1 : s[i].is # "newline"
<1>1. w \in Seq(Token) /\ DOMAIN w = 1 .. Len(w) /\ Len(w) = b - a + 1 /\ Len(w) \in Nat
    BY DEF Window, Text
<1>2. Newlines(w) = {i \in 1 .. Len(w) : s[a + i - 1].is = "newline"}
    BY <1>1 DEF Newlines, Window
<1>3. b - a + 1 \in 1 .. Len(w) /\ a + (b - a + 1) - 1 = b
    BY <1>1
<1>4. \A k \in a .. b - 1 : k - a + 1 \in 1 .. Len(w) /\ k - a + 1 # b - a + 1 /\ a + (k - a + 1) - 1 = k
    BY <1>1
<1>5. \A i \in 1 .. Len(w) : i # b - a + 1 => a + i - 1 \in a .. b - 1
    BY <1>1
<1>6. ASSUME Newlines(w) = {b - a + 1}
      PROVE  s[b].is = "newline" /\ \A i \in a .. b - 1 : s[i].is # "newline"
    <2>1. s[b].is = "newline"
        BY <1>2, <1>3, <1>6
    <2>2. ASSUME NEW k \in a .. b - 1 PROVE s[k].is # "newline"
        <3>1. k - a + 1 \notin Newlines(w)
            BY <1>4, <1>6
        <3> QED
            BY <1>2, <1>4, <3>1
    <2> QED
        BY <2>1, <2>2
<1>7. ASSUME s[b].is = "newline", \A i \in a .. b - 1 : s[i].is # "newline"
      PROVE  Newlines(w) = {b - a + 1}
    <2>1. ASSUME NEW i \in 1 .. Len(w), i # b - a + 1 PROVE s[a + i - 1].is # "newline"
        BY <1>5, <1>7, <2>1
    <2> QED
        BY <1>2, <1>3, <1>7, <2>1
<1> QED
    BY <1>6, <1>7

Before(s, i) == SubSeq(s, 1, i - 1)
After(s, i) == SubSeq(s, i + 1, Len(s))

LEMMA Around ==
    ASSUME NEW s \in Text, NEW i \in 1 .. Len(s)
    PROVE  /\ Window(Before(s, i), s, 1, i - 1) /\ Len(Before(s, i)) = i - 1
           /\ Window(After(s, i), s, i + 1, Len(s)) /\ Len(After(s, i)) = Len(s) - i
           /\ DOMAIN Before(s, i) = 1 .. i - 1 /\ DOMAIN After(s, i) = 1 .. Len(s) - i
           /\ Len(s) \in Nat /\ i \in Nat \ {0} /\ i - 1 \in Nat
<1>1. Window(s, s, 1, Len(s)) /\ Len(s) \in Nat
    BY WholeWindow
<1>2. i - 1 \in Nat /\ 1 <= (i - 1) + 1 /\ i - 1 <= Len(s) /\ i + 1 \in Nat \ {0}
      /\ i + 1 <= Len(s) + 1 /\ i \in Nat \ {0}
    BY <1>1
<1>3. Window(Before(s, i), s, 1 + 1 - 1, 1 + (i - 1) - 1)
    BY <1>1, <1>2, SubWindow DEF Before
<1>4. Window(After(s, i), s, 1 + (i + 1) - 1, 1 + Len(s) - 1)
    BY <1>1, <1>2, SubWindow DEF After
<1>5. 1 + 1 - 1 = 1 /\ 1 + (i - 1) - 1 = i - 1 /\ 1 + (i + 1) - 1 = i + 1 /\ 1 + Len(s) - 1 = Len(s)
    BY <1>1, <1>2
<1>6. Window(Before(s, i), s, 1, i - 1) /\ Window(After(s, i), s, i + 1, Len(s))
    BY <1>3, <1>4, <1>5
<1>7. Len(Before(s, i)) = (i - 1) - 1 + 1 /\ Len(After(s, i)) = Len(s) - (i + 1) + 1
    BY <1>6 DEF Window
<1>8. Len(Before(s, i)) = i - 1 /\ Len(After(s, i)) = Len(s) - i
    BY <1>1, <1>2, <1>7
<1>9. \A w \in Text : DOMAIN w = 1 .. Len(w)
    BY DEF Text
<1>10. Before(s, i) \in Text /\ After(s, i) \in Text
    BY <1>6 DEF Window
<1>11. DOMAIN Before(s, i) = 1 .. i - 1 /\ DOMAIN After(s, i) = 1 .. Len(s) - i
    BY <1>8, <1>9, <1>10
<1> QED
    BY <1>1, <1>2, <1>6, <1>8, <1>11

\* Up to i, s is blanks and a fence's line.
Opened(s, k, n, i) ==
    /\ k \in 1 .. i - 1 /\ n \in k + 1 .. i - 1
    /\ Silent(s, 1, k - 1) /\ s[k].is = "fence"
    /\ s[n].is = "newline" /\ \A j \in k .. n - 1 : s[j].is # "newline"
    /\ Silent(s, n + 1, i - 1)

\* After i, it is blanks and a fence.
Closed(s, i, l) ==
    /\ l \in i + 1 .. Len(s) /\ s[l].is = "fence"
    /\ Silent(s, i + 1, l - 1) /\ Silent(s, l + 1, Len(s))

LEMMA OpensAsPlaces ==
    ASSUME NEW s \in Text, NEW i \in 1 .. Len(s)
    PROVE  OpensFence(Before(s, i)) <=> \E k, n : Opened(s, k, n, i)
<1> DEFINE w == Before(s, i)
<1>1. /\ Window(w, s, 1, i - 1) /\ Len(w) = i - 1 /\ DOMAIN w = 1 .. i - 1
      /\ i \in Nat \ {0} /\ i - 1 \in Nat
    BY Around
<1> HIDE DEF w
<1>2. ASSUME NEW k \in 1 .. i - 1, NEW n \in k + 1 .. i - 1
      PROVE  /\ Blank(SubSeq(w, 1, k - 1)) <=> Silent(s, 1, k - 1)
             /\ w[k] = s[k]
             /\ Newlines(SubSeq(w, k, n)) = {n - k + 1} <=>
                    s[n].is = "newline" /\ \A j \in k .. n - 1 : s[j].is # "newline"
             /\ Blank(SubSeq(w, n + 1, Len(w))) <=> Silent(s, n + 1, i - 1)
    <2>1. /\ k \in Nat \ {0} /\ k - 1 \in Nat /\ n \in Nat /\ n + 1 \in Nat \ {0} /\ k <= n
          /\ 1 <= (k - 1) + 1 /\ k - 1 <= Len(w) /\ k <= n + 1 /\ n <= Len(w)
          /\ n + 1 <= (i - 1) + 1 /\ i - 1 <= Len(w)
        BY <1>1
    <2>2. /\ 1 + 1 - 1 = 1 /\ 1 + (k - 1) - 1 = k - 1 /\ 1 + k - 1 = k /\ 1 + n - 1 = n
          /\ 1 + (n + 1) - 1 = n + 1 /\ 1 + (i - 1) - 1 = i - 1
        BY <1>1, <2>1
    <2>3. Window(SubSeq(w, 1, k - 1), s, 1, k - 1)
        <3>1. Window(SubSeq(w, 1, k - 1), s, 1 + 1 - 1, 1 + (k - 1) - 1)
            BY <1>1, <2>1, SubWindow
        <3> QED
            BY <2>2, <3>1
    <2>4. Window(SubSeq(w, k, n), s, k, n)
        <3>1. Window(SubSeq(w, k, n), s, 1 + k - 1, 1 + n - 1)
            BY <1>1, <2>1, SubWindow
        <3> QED
            BY <2>2, <3>1
    <2>5. Window(SubSeq(w, n + 1, Len(w)), s, n + 1, i - 1)
        <3>1. Window(SubSeq(w, n + 1, i - 1), s, 1 + (n + 1) - 1, 1 + (i - 1) - 1)
            BY <1>1, <2>1, SubWindow
        <3> QED
            BY <1>1, <2>2, <3>1
    <2>6. Blank(SubSeq(w, 1, k - 1)) <=> Silent(s, 1, k - 1)
        BY <2>1, <2>3, BlankWindow
    <2>7. Newlines(SubSeq(w, k, n)) = {n - k + 1} <=>
            s[n].is = "newline" /\ \A j \in k .. n - 1 : s[j].is # "newline"
        BY <2>1, <2>4, LineWindow
    <2>8. Blank(SubSeq(w, n + 1, Len(w))) <=> Silent(s, n + 1, i - 1)
        BY <1>1, <2>1, <2>5, BlankWindow
    <2>9. w[k] = s[k]
        BY <1>1, <2>2 DEF Window
    <2> QED
        BY <2>6, <2>7, <2>8, <2>9
<1>3. \A k, n : (k \in 1 .. i - 1 /\ n \in 1 .. i - 1 /\ k < n) <=> (k \in 1 .. i - 1 /\ n \in k + 1 .. i - 1)
    BY <1>1
<1>4. OpensFence(w) <=> \E k \in 1 .. i - 1 : \E n \in k + 1 .. i - 1 :
        /\ Blank(SubSeq(w, 1, k - 1)) /\ w[k].is = "fence"
        /\ Newlines(SubSeq(w, k, n)) = {n - k + 1}
        /\ Blank(SubSeq(w, n + 1, Len(w)))
    BY <1>1, <1>3, Zenon DEF OpensFence
<1>5. (\E k, n : Opened(s, k, n, i)) <=> \E k \in 1 .. i - 1 : \E n \in k + 1 .. i - 1 :
        /\ Silent(s, 1, k - 1) /\ s[k].is = "fence"
        /\ s[n].is = "newline" /\ \A j \in k .. n - 1 : s[j].is # "newline"
        /\ Silent(s, n + 1, i - 1)
    BY Zenon DEF Opened
<1>6. OpensFence(w) <=> \E k, n : Opened(s, k, n, i)
    BY <1>2, <1>4, <1>5, Zenon
<1> QED
    BY <1>6 DEF w

LEMMA ClosesAsPlaces ==
    ASSUME NEW s \in Text, NEW i \in 1 .. Len(s)
    PROVE  ClosesFence(After(s, i)) <=> \E l : Closed(s, i, l)
<1> DEFINE w == After(s, i)
           N == Len(s)
<1>1. /\ Window(w, s, i + 1, N) /\ Len(w) = N - i /\ DOMAIN w = 1 .. N - i
      /\ N \in Nat /\ i \in Nat \ {0} /\ i + 1 \in Nat \ {0} /\ N - i \in Nat
    BY Around
<1> HIDE DEF w
<1>2. ASSUME NEW k \in 1 .. N - i
      PROVE  /\ Blank(SubSeq(w, 1, k - 1)) <=> Silent(s, i + 1, (i + k) - 1)
             /\ w[k] = s[i + k]
             /\ Blank(SubSeq(w, k + 1, Len(w))) <=> Silent(s, (i + k) + 1, N)
    <2>1. /\ k \in Nat \ {0} /\ k - 1 \in Nat /\ k + 1 \in Nat \ {0} /\ i + k - 1 \in Nat
          /\ i + k + 1 \in Nat \ {0} /\ 1 <= (k - 1) + 1 /\ k - 1 <= Len(w)
          /\ k + 1 <= (N - i) + 1 /\ N - i <= Len(w)
        BY <1>1
    <2>2. /\ (i + 1) + 1 - 1 = i + 1 /\ (i + 1) + (k - 1) - 1 = i + k - 1
          /\ (i + 1) + (k + 1) - 1 = i + k + 1 /\ (i + 1) + (N - i) - 1 = N
          /\ (i + 1) + k - 1 = i + k
        BY <1>1, <2>1
    <2>3. Window(SubSeq(w, 1, k - 1), s, i + 1, i + k - 1)
        <3>1. Window(SubSeq(w, 1, k - 1), s, (i + 1) + 1 - 1, (i + 1) + (k - 1) - 1)
            BY <1>1, <2>1, SubWindow
        <3> QED
            BY <2>2, <3>1
    <2>4. Window(SubSeq(w, k + 1, Len(w)), s, i + k + 1, N)
        <3>1. Window(SubSeq(w, k + 1, N - i), s, (i + 1) + (k + 1) - 1, (i + 1) + (N - i) - 1)
            BY <1>1, <2>1, SubWindow
        <3> QED
            BY <1>1, <2>2, <3>1
    <2>5. Blank(SubSeq(w, 1, k - 1)) <=> Silent(s, i + 1, i + k - 1)
        BY <1>1, <2>1, <2>3, BlankWindow
    <2>6. Blank(SubSeq(w, k + 1, Len(w))) <=> Silent(s, i + k + 1, N)
        BY <1>1, <2>1, <2>4, BlankWindow
    <2>7. w[k] = s[i + k]
        BY <1>1, <2>2 DEF Window
    <2> QED
        BY <2>5, <2>6, <2>7
<1>3. ClosesFence(w) <=> \E k \in 1 .. N - i :
        s[i + k].is = "fence" /\ Silent(s, i + 1, (i + k) - 1) /\ Silent(s, (i + k) + 1, N)
    BY <1>1, <1>2, Zenon DEF ClosesFence
<1>4. ASSUME NEW k \in 1 .. N - i,
             s[i + k].is = "fence" /\ Silent(s, i + 1, (i + k) - 1) /\ Silent(s, (i + k) + 1, N)
      PROVE  \E l : Closed(s, i, l)
    <2>1. i + k \in i + 1 .. N
        BY <1>1
    <2>2. Closed(s, i, i + k)
        BY <1>4, <2>1, Zenon DEF Closed
    <2> QED
        BY <2>2
<1>5. ASSUME NEW l, Closed(s, i, l)
      PROVE  \E k \in 1 .. N - i :
                s[i + k].is = "fence" /\ Silent(s, i + 1, (i + k) - 1) /\ Silent(s, (i + k) + 1, N)
    <2>1. l \in i + 1 .. N
        BY <1>5 DEF Closed
    <2>2. PICK k \in 1 .. N - i : i + k = l
        <3>1. l - i \in 1 .. N - i /\ i + (l - i) = l
            BY <1>1, <2>1
        <3> QED
            BY <3>1
    <2> QED
        BY <1>5, <2>2, Zenon DEF Closed
<1>6. ClosesFence(w) <=> \E l : Closed(s, i, l)
    BY <1>3, <1>4, <1>5, Zenon
<1> QED
    BY <1>6 DEF w

LEMMA SilentAround ==
    ASSUME NEW s, NEW a \in Int, NEW b \in Int, NEW i \in a .. b
    PROVE  (\A k \in a .. b : k # i => ~Shows(s[k])) <=> Silent(s, a, i - 1) /\ Silent(s, i + 1, b)
<1>1. (\A k \in a .. b : k # i => ~Shows(s[k])) => Silent(s, a, i - 1) /\ Silent(s, i + 1, b)
    BY DEF Silent
<1>2. ASSUME Silent(s, a, i - 1), Silent(s, i + 1, b), NEW k \in a .. b, k # i PROVE ~Shows(s[k])
    <2>1. k \in a .. i - 1 \/ k \in i + 1 .. b
        BY <1>2
    <2> QED
        BY <1>2, <2>1 DEF Silent
<1> QED
    BY <1>1, <1>2

LEMMA PromiseAsPlaces ==
    ASSUME NEW s \in Text
    PROVE  OneObject(s) <=> \/ \E i \in 1 .. Len(s) : Lone(s, 1, Len(s), i)
                            \/ \E k, n, l : Fenced(s, k, n, l) /\ \E i \in n + 1 .. l - 1 : Lone(s, n + 1, l - 1, i)
<1> DEFINE N == Len(s)
           Sound(i) == s[i].is = "object" /\ s[i].flaw = ""
<1>1. N \in Nat /\ DOMAIN s = 1 .. N
    BY DEF Text
<1>2. ASSUME NEW i \in 1 .. N
      PROVE  Sound(i) /\ Blank(Before(s, i)) /\ Blank(After(s, i)) <=> Lone(s, 1, N, i)
    <2>1. Blank(Before(s, i)) <=> Silent(s, 1, i - 1)
        BY Around, BlankWindow
    <2>2. Blank(After(s, i)) <=> Silent(s, i + 1, N)
        BY <1>1, Around, BlankWindow
    <2>3. (\A k \in 1 .. N : k # i => ~Shows(s[k])) <=> Silent(s, 1, i - 1) /\ Silent(s, i + 1, N)
        <3>1. 1 \in Int /\ N \in Int
            BY <1>1
        <3> QED
            BY <3>1, SilentAround, Zenon
    <2> QED
        BY <2>1, <2>2, <2>3 DEF Lone
<1>3. ASSUME NEW i \in 1 .. N, NEW k, NEW n, NEW l, Sound(i), Opened(s, k, n, i), Closed(s, i, l)
      PROVE  Fenced(s, k, n, l) /\ i \in n + 1 .. l - 1 /\ Lone(s, n + 1, l - 1, i)
    <2>0. k \in 1 .. i - 1 /\ n \in k + 1 .. i - 1 /\ l \in i + 1 .. N
        BY <1>3, Zenon DEF Opened, Closed
    <2>1. /\ k \in 1 .. N /\ n \in k + 1 .. N /\ l \in n + 1 .. N
          /\ i \in n + 1 .. l - 1 /\ n + 1 \in Int /\ l - 1 \in Int
        BY <1>1, <2>0
    <2>2. Fenced(s, k, n, l)
        BY <1>3, <2>1 DEF Opened, Closed, Fenced
    <2>3. \A j \in n + 1 .. l - 1 : j # i => ~Shows(s[j])
        BY <1>3, <2>1, SilentAround DEF Opened, Closed
    <2> QED
        BY <1>3, <2>1, <2>2, <2>3 DEF Lone
<1>4. ASSUME NEW k, NEW n, NEW l, Fenced(s, k, n, l), NEW i \in n + 1 .. l - 1, Lone(s, n + 1, l - 1, i)
      PROVE  i \in 1 .. N /\ Sound(i) /\ Opened(s, k, n, i) /\ Closed(s, i, l)
    <2>1. /\ i \in 1 .. N /\ k \in 1 .. i - 1 /\ n \in k + 1 .. i - 1 /\ l \in i + 1 .. N
          /\ n + 1 \in Int /\ l - 1 \in Int
        BY <1>1, <1>4 DEF Fenced
    <2>2. Silent(s, n + 1, i - 1) /\ Silent(s, i + 1, l - 1)
        BY <1>4, <2>1, SilentAround DEF Lone
    <2> QED
        BY <1>4, <2>1, <2>2 DEF Fenced, Lone, Opened, Closed
<1>5. OneObject(s) <=> \E i \in 1 .. N :
        /\ Sound(i)
        /\ \/ Blank(Before(s, i)) /\ Blank(After(s, i))
           \/ OpensFence(Before(s, i)) /\ ClosesFence(After(s, i))
    BY <1>1 DEF OneObject, Before, After
<1>6. ASSUME NEW i \in 1 .. N
      PROVE  /\ OpensFence(Before(s, i)) <=> (\E k, n : Opened(s, k, n, i))
             /\ ClosesFence(After(s, i)) <=> (\E l : Closed(s, i, l))
    BY OpensAsPlaces, ClosesAsPlaces
<1> HIDE DEF N, Sound
<1>7. OneObject(s) <=> \/ \E i \in 1 .. N : Lone(s, 1, N, i)
                       \/ \E k, n, l : Fenced(s, k, n, l) /\ \E i \in n + 1 .. l - 1 : Lone(s, n + 1, l - 1, i)
    <2>1. ASSUME NEW i \in 1 .. N, Sound(i), OpensFence(Before(s, i)), ClosesFence(After(s, i))
          PROVE  \E k, n, l : Fenced(s, k, n, l) /\ \E j \in n + 1 .. l - 1 : Lone(s, n + 1, l - 1, j)
        <3>1. PICK k, n : Opened(s, k, n, i)
            BY <1>6, <2>1
        <3>2. PICK l : Closed(s, i, l)
            BY <1>6, <2>1
        <3>3. Fenced(s, k, n, l) /\ i \in n + 1 .. l - 1 /\ Lone(s, n + 1, l - 1, i)
            BY <1>3, <2>1, <3>1, <3>2, Zenon
        <3> QED
            BY <3>3, Zenon
    <2>2. ASSUME NEW k, NEW n, NEW l, Fenced(s, k, n, l), NEW i \in n + 1 .. l - 1, Lone(s, n + 1, l - 1, i)
          PROVE  OneObject(s)
        <3>1. i \in 1 .. N /\ Sound(i) /\ Opened(s, k, n, i) /\ Closed(s, i, l)
            BY <1>4, <2>2, Zenon
        <3>2. OpensFence(Before(s, i)) /\ ClosesFence(After(s, i))
            BY <1>6, <3>1, Zenon
        <3> QED
            BY <1>5, <3>1, <3>2, Zenon
    <2> QED
        BY <1>2, <1>5, <2>1, <2>2, Zenon
<1> QED
    BY <1>7 DEF N

-----------------------------------------------------------------------------
(* The result *)

\* An answer is decoded without a fault exactly when it is one sound object,
\* alone up to blanks or alone in one code fence (DecodeJSONObjectStrict):
\* nothing before, after or around it passes, and no such answer is refused.
THEOREM StrictDecodingIsExact ==
    ASSUME NEW raw \in Text
    PROVE  OneObject(raw) <=> DecodeJSONObjectStrict(raw).fault = ""
<1> DEFINE N == Len(raw)
           inside == StripSingleCodeFence(raw)
<1>1. N \in Nat /\ Window(raw, raw, 1, N)
    BY WholeWindow
<1>2. CASE inside = raw /\ \A k, n, l : ~Fenced(raw, k, n, l)
    <2>1. /\ TrimRight(TrimLeft(inside)) \in Text
          /\ Accepts(TrimRight(TrimLeft(inside))) <=> \E i \in 1 .. N : Lone(raw, 1, N, i)
        BY <1>1, <1>2, TrimmedAccepts
    <2>2. DecodeJSONObjectStrict(raw).fault = "" <=> Accepts(TrimRight(TrimLeft(inside)))
        BY <2>1, DecodingAccepts
    <2> QED
        BY <1>2, <2>1, <2>2, PromiseAsPlaces
<1>3. ASSUME NEW k, NEW n, NEW l, Fenced(raw, k, n, l), Window(inside, raw, n + 1, l - 1)
      PROVE  OneObject(raw) <=> DecodeJSONObjectStrict(raw).fault = ""
    <2>1. n + 1 \in Nat \ {0} /\ l - 1 \in Nat /\ k \in 1 .. N /\ l \in 1 .. N /\ k # l
          /\ Shows(raw[k]) /\ Shows(raw[l])
        BY <1>1, <1>3 DEF Fenced, Shows, Blanks
    <2>2. /\ TrimRight(TrimLeft(inside)) \in Text
          /\ Accepts(TrimRight(TrimLeft(inside))) <=> \E i \in n + 1 .. l - 1 : Lone(raw, n + 1, l - 1, i)
        BY <1>3, <2>1, TrimmedAccepts
    <2>3. DecodeJSONObjectStrict(raw).fault = "" <=> Accepts(TrimRight(TrimLeft(inside)))
        BY <2>2, DecodingAccepts
    <2>4. ~\E i \in 1 .. N : Lone(raw, 1, N, i)
        BY <2>1 DEF Lone
    <2>5. \A p, q, r : Fenced(raw, p, q, r) => p = k /\ q = n /\ r = l
        BY <1>3, FencesAreUnique
    <2>6. OneObject(raw) <=> \E i \in n + 1 .. l - 1 : Lone(raw, n + 1, l - 1, i)
        BY <1>3, <2>4, <2>5, PromiseAsPlaces
    <2> QED
        BY <2>2, <2>3, <2>6
<1> QED
    BY <1>2, <1>3, StripFinds

-----------------------------------------------------------------------------
(* The judge *)

Running == {"lookup", "asking", "storing", "decoding"}
Stages == Running \cup {"idle", "sealed", "failed"}

Entries(s) == {s[i] : i \in DOMAIN s}
Of(gens, s) == {i \in DOMAIN gens : gens[i].step = s}
Misses(gens) == {i \in DOMAIN gens : ~gens[i].hit}

\* A generator call that is paid for and not yet recorded.
Owed(e) == IF stage[e] = "storing" \/ (stage[e] = "decoding" /\ ~answer[e].hit) THEN 1 ELSE 0

Types ==
    /\ job \in [Evaluations -> Jobs]
    /\ stage \in [Evaluations -> Stages]
    /\ step \in [Evaluations -> Steps]
    /\ failure \in [Evaluations -> {"none", "rejected", "outage", "answer"}]
    /\ calls \in [Evaluations -> Nat]
    /\ generations = [e \in Evaluations |-> generations[e]]
    /\ answer = [e \in Evaluations |-> answer[e]]
    /\ prompt = [e \in Evaluations |-> prompt[e]]
    /\ claims = [e \in Evaluations |-> claims[e]]

\* The attempts of an evaluation: a running step has one left, and support has
\* none before extraction is over.
AttemptsInv(e) ==
    /\ generations[e] \in Seq(Entries(generations[e]))
    /\ \A s \in Steps : Cardinality(Of(generations[e], s)) <= Limit[job[e].protocol]
    /\ stage[e] \in Running => Cardinality(Of(generations[e], step[e])) < Limit[job[e].protocol]
    /\ step[e] = "extract" => Cardinality(Of(generations[e], "support")) = 0
    /\ stage[e] = "idle" => step[e] = "extract" /\ generations[e] = << >>

\* Its calls: recorded, owed, or lost in an outage.
CallsInv(e) ==
    /\ failure[e] # "none" <=> stage[e] = "failed"
    /\ stage[e] = "idle" => calls[e] = 0
    /\ stage[e] = "storing" => ~answer[e].hit
    /\ failure[e] = "rejected" => calls[e] = 0 /\ generations[e] = << >>
    /\ failure[e] # "outage" => calls[e] = Cardinality(Misses(generations[e])) + Owed(e)
    /\ failure[e] = "outage" => calls[e] - Cardinality(Misses(generations[e])) \in {0, 1}
    /\ Cardinality(Misses(generations[e])) <=
        Cardinality(Of(generations[e], "extract")) + Cardinality(Of(generations[e], "support"))
    /\ calls[e] <= 2 * Limit[job[e].protocol]

\* Its mode was checked when it began, and bypassing keeps the cache out.
ModeInv(e) ==
    /\ stage[e] \in Running => Mode(e) \in Modes
    /\ Mode(e) = "bypass" =>
        /\ stage[e] # "storing"
        /\ stage[e] = "decoding" => ~answer[e].hit
        /\ Misses(generations[e]) = DOMAIN generations[e]

Generated(entry, e) ==
    \/ \E i \in Misses(generations[e]) :
        /\ generations[e][i].step = entry.key.step /\ generations[e][i].prompt = entry.key.prompt
        /\ generations[e][i].text = entry.text
    \/ /\ stage[e] = "decoding" /\ ~answer[e].hit
       /\ KeyOf(e) = entry.key /\ answer[e].text = entry.text

EntryInv(entry) ==
    /\ entry.by \in Evaluations
    /\ Mode(entry.by) = "use"
    /\ entry.key.protocol = job[entry.by].protocol /\ entry.key.instance = job[entry.by].instance
    /\ entry.model = Expected[entry.key.protocol]
    /\ Generated(entry, entry.by)

IInv ==
    /\ Types
    /\ \A e \in Evaluations : AttemptsInv(e) /\ CallsInv(e) /\ ModeInv(e)
    /\ \A entry \in cache : EntryInv(entry)
    /\ \A x, y \in cache : x.key = y.key => x = y

-----------------------------------------------------------------------------
(* Sequences of generations *)

\* Appending puts one element behind the others.
LEMMA AppendExtends ==
    ASSUME NEW s, s \in Seq(Entries(s)), NEW g
    PROVE  /\ Append(s, g) \in Seq(Entries(Append(s, g)))
           /\ Len(s) \in Nat /\ DOMAIN s = 1 .. Len(s)
           /\ DOMAIN Append(s, g) = 1 .. Len(s) + 1
           /\ \A i \in 1 .. Len(s) : Append(s, g)[i] = s[i]
           /\ Append(s, g)[Len(s) + 1] = g
<1> DEFINE S == Entries(s) \cup {g}
           t == Append(s, g)
<1>1. s \in Seq(S) /\ g \in S
    OBVIOUS
<1>2. Len(s) \in Nat /\ DOMAIN s = 1 .. Len(s)
    BY <1>1
<1>3. /\ t \in Seq(S) /\ Len(t) = Len(s) + 1
      /\ \A i \in 1 .. Len(s) : t[i] = s[i]
      /\ t[Len(s) + 1] = g
    <2> HIDE DEF S
    <2> QED
        BY <1>1, AppendProperties
<1>4. DOMAIN t = 1 .. Len(s) + 1
    <2> HIDE DEF S, t
    <2> QED
        BY <1>3
<1>5. t \in Seq(Entries(t))
    <2> HIDE DEF S, t
    <2>1. \A i \in 1 .. Len(t) : t[i] \in Entries(t)
        BY <1>3, <1>4 DEF Entries
    <2>2. t = [i \in 1 .. Len(t) |-> t[i]]
        BY <1>3
    <2> QED
        BY <1>2, <1>3, <2>1, <2>2
<1> QED
    BY <1>2, <1>3, <1>4, <1>5

\* The attempts and misses of a sequence are finitely many, and counted in Nat.
LEMMA Countable ==
    ASSUME NEW s, s \in Seq(Entries(s)), NEW x
    PROVE  /\ IsFiniteSet(Of(s, x)) /\ Cardinality(Of(s, x)) \in Nat
           /\ IsFiniteSet(Misses(s)) /\ Cardinality(Misses(s)) \in Nat
           /\ IsFiniteSet(DOMAIN s) /\ Cardinality(DOMAIN s) = Len(s) /\ Len(s) \in Nat
<1>1. Len(s) \in Nat /\ DOMAIN s = 1 .. Len(s)
    OBVIOUS
<1>2. IsFiniteSet(1 .. Len(s)) /\ Cardinality(1 .. Len(s)) = Len(s)
    BY <1>1, FS_Interval
<1>3. Of(s, x) \in SUBSET (1 .. Len(s)) /\ Misses(s) \in SUBSET (1 .. Len(s))
    BY <1>1 DEF Of, Misses
<1>4. IsFiniteSet(Of(s, x)) /\ IsFiniteSet(Misses(s))
    BY <1>2, <1>3, FS_Subset
<1> QED
    BY <1>1, <1>2, <1>4, FS_CardinalityType

\* What recording a generation does to the counts.
LEMMA AppendCounts ==
    ASSUME NEW s, s \in Seq(Entries(s)), NEW g
    PROVE  /\ \A x : Cardinality(Of(Append(s, g), x)) =
                IF g.step = x THEN Cardinality(Of(s, x)) + 1 ELSE Cardinality(Of(s, x))
           /\ Cardinality(Misses(Append(s, g))) =
                IF g.hit THEN Cardinality(Misses(s)) ELSE Cardinality(Misses(s)) + 1
           /\ Misses(s) \subseteq Misses(Append(s, g))
           /\ ~g.hit => Len(s) + 1 \in Misses(Append(s, g))
           /\ ~g.hit /\ Misses(s) = DOMAIN s => Misses(Append(s, g)) = DOMAIN Append(s, g)
<1> DEFINE t == Append(s, g)
           n == Len(s) + 1
<1>1. /\ Len(s) \in Nat /\ DOMAIN s = 1 .. Len(s) /\ DOMAIN t = 1 .. n
      /\ \A i \in 1 .. Len(s) : t[i] = s[i]
      /\ t[n] = g
    BY AppendExtends
<1> HIDE DEF t
<1>2. 1 .. n = (1 .. Len(s)) \cup {n} /\ n \notin 1 .. Len(s) /\ n \in 1 .. n
    BY <1>1
<1>3. ASSUME NEW x
      PROVE  Cardinality(Of(t, x)) = IF g.step = x THEN Cardinality(Of(s, x)) + 1 ELSE Cardinality(Of(s, x))
    <2>1. IsFiniteSet(Of(s, x)) /\ n \notin Of(s, x)
        BY <1>1, <1>2, Countable DEF Of
    <2>2. CASE g.step = x
        <3>1. Of(t, x) = Of(s, x) \cup {n}
            BY <1>1, <1>2, <2>2 DEF Of
        <3>2. Cardinality(Of(s, x) \cup {n}) = Cardinality(Of(s, x)) + 1
            BY <2>1, FS_AddElement
        <3> QED
            BY <2>2, <3>1, <3>2
    <2>3. CASE g.step # x
        <3>1. Of(t, x) = Of(s, x)
            BY <1>1, <1>2, <2>3 DEF Of
        <3> QED
            BY <2>3, <3>1
    <2> QED
        BY <2>2, <2>3
<1>4. Cardinality(Misses(t)) = IF g.hit THEN Cardinality(Misses(s)) ELSE Cardinality(Misses(s)) + 1
    <2>1. IsFiniteSet(Misses(s)) /\ n \notin Misses(s)
        BY <1>1, <1>2, Countable DEF Misses
    <2>2. CASE ~g.hit
        <3>1. Misses(t) = Misses(s) \cup {n}
            BY <1>1, <1>2, <2>2 DEF Misses
        <3> QED
            BY <2>1, <2>2, <3>1, FS_AddElement
    <2>3. CASE g.hit
        <3>1. Misses(t) = Misses(s)
            BY <1>1, <1>2, <2>3 DEF Misses
        <3> QED
            BY <2>3, <3>1
    <2> QED
        BY <2>2, <2>3
<1>5. /\ Misses(s) \subseteq Misses(t) /\ (~g.hit => n \in Misses(t))
      /\ ~g.hit /\ Misses(s) = DOMAIN s => Misses(t) = DOMAIN t
    BY <1>1, <1>2 DEF Misses
<1> QED
    BY <1>3, <1>4, <1>5 DEF t

-----------------------------------------------------------------------------
(* The steps of one evaluation *)

\* The evaluations other than e are left alone.
Frame(e) ==
    \A f \in Evaluations \ {e} :
        /\ stage'[f] = stage[f] /\ step'[f] = step[f] /\ prompt'[f] = prompt[f] /\ answer'[f] = answer[f]
        /\ generations'[f] = generations[f] /\ calls'[f] = calls[f] /\ failure'[f] = failure[f]
        /\ claims'[f] = claims[f]

LEMMA LimitType ==
    ASSUME Types, NEW e \in Evaluations
    PROVE  Limit[job[e].protocol] \in Nat \ {0} /\ job[e].protocol \in Protocols
<1>1. job[e] \in Job
    BY JudgeAssumption DEF Types
<1>2. job[e].protocol \in Protocols
    BY <1>1 DEF Job
<1> QED
    BY <1>2, JudgeAssumption DEF Limit

\* No step changes a job, a type or another evaluation.
LEMMA StepFrames ==
    ASSUME Types, NEW e \in Evaluations, Begin(e) \/ Proceed(e)
    PROVE  job' = job /\ Types' /\ Frame(e)
<1> USE DEF Types, Frame, Goto, Fail, Stages, Running
<1>1. CASE Begin(e)
    BY <1>1 DEF Begin
<1>2. CASE RenderFails(e) \/ GeneratorFails(e) \/ CacheFails(e)
    BY <1>2 DEF RenderFails, GeneratorFails, CacheFails
<1>3. CASE LoadHit(e)
    BY <1>3 DEF LoadHit
<1>4. CASE LoadNothing(e) \/ Store(e)
    BY <1>4 DEF LoadNothing, Store
<1>5. CASE Generate(e)
    BY <1>5 DEF Generate
<1>6. CASE Repair(e)
    BY <1>6 DEF Repair, Record
<1>7. CASE RepairFails(e) \/ GiveUp(e)
    BY <1>7 DEF RepairFails, GiveUp, Record
<1>8. CASE Extract(e)
    BY <1>8 DEF Extract, Record, Steps
<1>9. CASE Judge(e)
    BY <1>9 DEF Judge, Record
<1> QED
    BY <1>1, <1>2, <1>3, <1>4, <1>5, <1>6, <1>7, <1>8, <1>9 DEF Proceed

\* The books of evaluation f are its own.
LEMMA FrameKeeps ==
    ASSUME NEW e \in Evaluations, NEW f \in Evaluations \ {e}, Frame(e), job' = job,
           AttemptsInv(f), CallsInv(f), ModeInv(f)
    PROVE  AttemptsInv(f)' /\ CallsInv(f)' /\ ModeInv(f)'
<1>1. /\ stage'[f] = stage[f] /\ step'[f] = step[f] /\ answer'[f] = answer[f]
      /\ generations'[f] = generations[f] /\ calls'[f] = calls[f] /\ failure'[f] = failure[f]
    BY DEF Frame
<1>2. AttemptsInv(f)'
    BY <1>1 DEF AttemptsInv, Of, Entries
<1>3. Owed(f)' = Owed(f) /\ Mode(f)' = Mode(f)
    BY <1>1 DEF Owed, Mode
<1>4. CallsInv(f)'
    BY <1>1, <1>3 DEF CallsInv, Of, Misses
<1>5. ModeInv(f)'
    BY <1>1, <1>3 DEF ModeInv, Misses
<1> QED
    BY <1>2, <1>4, <1>5

\* The steps that record nothing: Begin, a load or a generation, Store and
\* every failure that is no answer.
LEMMA UnrecordedKeeps ==
    ASSUME Types, NEW e \in Evaluations, AttemptsInv(e), CallsInv(e), ModeInv(e),
           \/ Begin(e) \/ RenderFails(e) \/ LoadHit(e) \/ LoadNothing(e) \/ Generate(e)
           \/ GeneratorFails(e) \/ Store(e) \/ CacheFails(e)
    PROVE  AttemptsInv(e)' /\ CallsInv(e)' /\ ModeInv(e)'
<1> DEFINE limit == Limit[job[e].protocol]
           extracts == Cardinality(Of(generations[e], "extract"))
           supports == Cardinality(Of(generations[e], "support"))
           misses == Cardinality(Misses(generations[e]))
<1>1. limit \in Nat \ {0}
    BY LimitType
<1>2. /\ generations[e] \in Seq(Entries(generations[e]))
      /\ extracts \in Nat /\ supports \in Nat /\ misses \in Nat
    BY Countable DEF AttemptsInv
<1>3. UNCHANGED <<job, step, generations>> /\ step[e] \in Steps
    BY DEF Begin, RenderFails, LoadHit, LoadNothing, Generate, GeneratorFails, Store, CacheFails, Types
<1>4. stage[e] \in Running \cup {"idle"}
    BY DEF Begin, RenderFails, LoadHit, LoadNothing, Generate, GeneratorFails, Store, CacheFails, Running
<1>5. stage[e] = "idle" => extracts = 0 /\ supports = 0 /\ step[e] = "extract"
    <2>1. ASSUME generations[e] = << >> PROVE extracts = 0 /\ supports = 0
        <3>1. Of(generations[e], "extract") = {} /\ Of(generations[e], "support") = {}
            BY <2>1 DEF Of
        <3> QED
            BY <3>1, FS_EmptySet
    <2> QED
        BY <2>1 DEF AttemptsInv
<1>6. extracts <= limit /\ supports <= limit /\ extracts + supports < 2 * limit
    <2>1. extracts <= limit /\ supports <= limit
        BY DEF AttemptsInv, Steps
    <2>2. extracts < limit \/ supports < limit
        BY <1>1, <1>3, <1>4, <1>5 DEF AttemptsInv, Steps
    <2> HIDE DEF limit, extracts, supports
    <2> QED
        BY <1>1, <1>2, <2>1, <2>2
<1>7. stage'[e] # "idle"
    BY DEF Begin, RenderFails, LoadHit, LoadNothing, Generate, GeneratorFails, Store, CacheFails, Goto, Fail, Types
<1>8. AttemptsInv(e)'
    <2>1. Cardinality(Of(generations[e], step[e])) < limit
        BY <1>1, <1>4, <1>5 DEF AttemptsInv
    <2>2. \A x \in Steps : Cardinality(Of(generations[e], x)) <= limit
        BY DEF AttemptsInv
    <2>3. step[e] = "extract" => supports = 0
        BY DEF AttemptsInv
    <2> QED
        BY <1>2, <1>3, <1>7, <2>1, <2>2, <2>3 DEF AttemptsInv
<1>9. misses <= extracts + supports
    BY DEF CallsInv
<1>10. calls[e] \in Nat /\ failure[e] = "none" /\ calls[e] = misses + Owed(e)
    BY <1>4 DEF Types, CallsInv, Running
<1>11. /\ failure'[e] # "none" <=> stage'[e] = "failed"
       /\ failure'[e] = "rejected" => calls'[e] = 0 /\ generations'[e] = << >>
       /\ failure'[e] # "outage" => calls'[e] = misses + Owed(e)'
       /\ failure'[e] = "outage" => calls'[e] - misses \in {0, 1}
       /\ calls'[e] \in {misses, misses + 1}
       /\ stage'[e] = "storing" => ~answer'[e].hit
    <2> HIDE DEF misses
    <2> USE DEF Owed, Goto, Fail, Types
    <2>1. CASE Begin(e)
        <3>1. calls[e] = 0 /\ generations[e] = << >> /\ misses = 0
            BY <1>2, <1>10, <2>1 DEF Begin, AttemptsInv, CallsInv
        <3> QED
            BY <1>10, <2>1, <3>1 DEF Begin
    <2>2. CASE RenderFails(e) \/ CacheFails(e)
        BY <1>2, <1>10, <2>2 DEF RenderFails, CacheFails
    <2>3. CASE LoadHit(e)
        <3>1. calls' = calls /\ calls[e] = misses
            BY <1>2, <1>10, <2>3 DEF LoadHit
        <3> QED
            BY <1>2, <1>10, <2>3, <3>1 DEF LoadHit
    <2>4. CASE LoadNothing(e)
        BY <1>2, <1>10, <2>4 DEF LoadNothing
    <2>5. CASE Generate(e)
        <3>1. calls'[e] = calls[e] + 1 /\ calls[e] = misses
            BY <1>2, <1>10, <2>5 DEF Generate
        <3> QED
            BY <1>2, <1>10, <2>5, <3>1 DEF Generate
    <2>6. CASE GeneratorFails(e)
        BY <1>2, <1>10, <2>6 DEF GeneratorFails
    <2>7. CASE Store(e)
        BY <1>2, <1>10, <2>7 DEF Store, CallsInv
    <2> QED
        BY <2>1, <2>2, <2>3, <2>4, <2>5, <2>6, <2>7
<1>12. CallsInv(e)'
    <2>1. calls'[e] <= 2 * limit
        <3> HIDE DEF limit, extracts, supports, misses
        <3> QED
            BY <1>1, <1>2, <1>6, <1>9, <1>11
    <2> QED
        BY <1>3, <1>7, <1>9, <1>11, <2>1 DEF CallsInv
<1>13. Generate(e) /\ stage'[e] # "failed" => ~answer'[e].hit
    BY DEF Generate, Fail, Types
<1>14. ModeInv(e)'
    <2> USE DEF ModeInv, Goto, Fail, Types, Mode, UsesCache, Running, Modes
    <2>1. CASE Begin(e) \/ RenderFails(e) \/ CacheFails(e) \/ GeneratorFails(e)
        BY <2>1 DEF Begin, RenderFails, CacheFails, GeneratorFails
    <2>2. CASE LoadHit(e)
        BY <2>2 DEF LoadHit
    <2>3. CASE LoadNothing(e) \/ Store(e)
        BY <2>3 DEF LoadNothing, Store
    <2>4. CASE Generate(e)
        <3>1. stage'[e] \in {"storing", "decoding", "failed"} /\ UNCHANGED <<job, generations>>
              /\ (stage'[e] = "storing" => Mode(e) # "bypass")
            BY <2>4 DEF Generate
        <3>2. stage'[e] # "failed" => ~answer'[e].hit
            BY <1>13, <2>4
        <3>3. Mode(e) \in Modes
            BY <2>4 DEF Generate
        <3> QED
            BY <3>1, <3>2, <3>3 DEF Misses
    <2> QED
        BY <2>1, <2>2, <2>3, <2>4
<1> QED
    BY <1>8, <1>12, <1>14

\* A step that records the generation it has (Repair, RepairFails, GiveUp,
\* Extract and Judge).
Recording(e) == Repair(e) \/ RepairFails(e) \/ GiveUp(e) \/ Extract(e) \/ Judge(e)

Recorded(e) ==
    [step |-> step[e], attempt |-> Attempt(e), prompt |-> prompt[e],
     hit |-> answer[e].hit, text |-> answer[e].text]

LEMMA RecordingAppends ==
    ASSUME Types, NEW e \in Evaluations, Recording(e)
    PROVE  /\ stage[e] = "decoding" /\ generations'[e] = Append(generations[e], Recorded(e))
           /\ UNCHANGED <<job, answer, calls, cache>>
           /\ \/ stage'[e] = "lookup" /\ failure' = failure
                 /\ \/ step' = step /\ ~Exhausted(e)
                    \/ step[e] = "extract" /\ step'[e] = "support"
              \/ stage'[e] = "sealed" /\ step' = step /\ failure' = failure
              \/ stage'[e] = "failed" /\ step' = step /\ failure'[e] \in {"outage", "answer"}
<1> USE DEF Types, Recorded, Record, Goto, Fail
<1>1. CASE Repair(e)
    BY <1>1 DEF Repair
<1>2. CASE RepairFails(e)
    BY <1>2 DEF RepairFails
<1>3. CASE GiveUp(e)
    BY <1>3 DEF GiveUp
<1>4. CASE Extract(e)
    BY <1>4 DEF Extract
<1>5. CASE Judge(e)
    BY <1>5 DEF Judge
<1> QED
    BY <1>1, <1>2, <1>3, <1>4, <1>5 DEF Recording

LEMMA RecordingKeeps ==
    ASSUME Types, NEW e \in Evaluations, AttemptsInv(e), CallsInv(e), ModeInv(e), Recording(e)
    PROVE  AttemptsInv(e)' /\ CallsInv(e)' /\ ModeInv(e)'
<1> DEFINE limit == Limit[job[e].protocol]
           g == Recorded(e)
           next == Append(generations[e], g)
<1>1. /\ stage[e] = "decoding" /\ generations'[e] = next
      /\ UNCHANGED <<job, answer, calls, cache>>
      /\ \/ stage'[e] = "lookup" /\ failure' = failure
            /\ \/ step' = step /\ ~Exhausted(e)
               \/ step[e] = "extract" /\ step'[e] = "support"
         \/ stage'[e] = "sealed" /\ step' = step /\ failure' = failure
         \/ stage'[e] = "failed" /\ step' = step /\ failure'[e] \in {"outage", "answer"}
    BY RecordingAppends
<1>2. limit \in Nat \ {0} /\ step[e] \in Steps /\ calls[e] \in Nat
    BY LimitType DEF Types
<1>3. generations[e] \in Seq(Entries(generations[e]))
    BY DEF AttemptsInv
<1>4. next \in Seq(Entries(next))
    BY <1>3, AppendExtends
<1>5. g.step = step[e] /\ g.hit = answer[e].hit
    BY DEF Recorded
<1>6. /\ \A x : Cardinality(Of(next, x)) =
            IF step[e] = x THEN Cardinality(Of(generations[e], x)) + 1 ELSE Cardinality(Of(generations[e], x))
      /\ Cardinality(Misses(next)) =
            IF answer[e].hit THEN Cardinality(Misses(generations[e])) ELSE Cardinality(Misses(generations[e])) + 1
      /\ ~answer[e].hit /\ Misses(generations[e]) = DOMAIN generations[e] => Misses(next) = DOMAIN next
    BY <1>3, <1>5, AppendCounts
<1>7. \A x : Cardinality(Of(generations[e], x)) \in Nat /\ Cardinality(Misses(generations[e])) \in Nat
    BY <1>3, Countable
<1>8. Cardinality(Of(generations[e], step[e])) < limit
    BY <1>1 DEF AttemptsInv, Running
<1>9. AttemptsInv(e)'
    <2>1. \A x \in Steps : Cardinality(Of(next, x)) <= limit
        BY <1>2, <1>6, <1>7, <1>8 DEF AttemptsInv
    <2>2. step'[e] = "extract" => Cardinality(Of(next, "support")) = 0
        BY <1>1, <1>2, <1>6, <1>7 DEF AttemptsInv, Steps
    <2>3. stage'[e] \in Running => Cardinality(Of(next, step'[e])) < limit
        <3>1. CASE step' = step /\ ~Exhausted(e)
            <4>1. ~(Cardinality(Of(generations[e], step[e])) + 1 >= limit)
                BY <3>1 DEF Exhausted, Attempt, Of
            <4> QED
                BY <1>2, <1>6, <1>7, <3>1, <4>1
        <3>2. CASE step[e] = "extract" /\ step'[e] = "support"
            BY <1>2, <1>6, <1>7, <3>2 DEF AttemptsInv
        <3> QED
            BY <1>1, <3>1, <3>2 DEF Running
    <2> QED
        BY <1>1, <1>4, <2>1, <2>2, <2>3 DEF AttemptsInv
<1>10. CallsInv(e)'
    <2>1. Owed(e) = IF answer[e].hit THEN 0 ELSE 1
        BY <1>1 DEF Owed
    <2>2. Owed(e)' = 0
        BY <1>1 DEF Owed
    <2>3. failure[e] = "none" /\ calls[e] = Cardinality(Misses(generations[e])) + Owed(e)
        BY <1>1 DEF CallsInv, Types
    <2>4. calls[e] = Cardinality(Misses(next))
        BY <1>6, <1>7, <2>1, <2>3
    <2>5. Cardinality(Misses(next)) <= Cardinality(Of(next, "extract")) + Cardinality(Of(next, "support"))
        BY <1>2, <1>6, <1>7 DEF CallsInv, Steps
    <2>6. calls[e] <= 2 * limit
        BY <1>1 DEF CallsInv
    <2> QED
        BY <1>1, <1>2, <2>2, <2>3, <2>4, <2>5, <2>6 DEF CallsInv
<1>11. ModeInv(e)'
    BY <1>1, <1>6 DEF ModeInv, Mode, Running
<1> QED
    BY <1>9, <1>10, <1>11

-----------------------------------------------------------------------------
(* The cache *)

\* What an entry rests on is still there after a step of any evaluation.
LEMMA EntryStays ==
    ASSUME Types, NEW e \in Evaluations, AttemptsInv(e), Begin(e) \/ Proceed(e),
           NEW entry, EntryInv(entry)
    PROVE  EntryInv(entry)'
<1>1. job' = job /\ Frame(e)
    BY StepFrames
<1>2. entry.by \in Evaluations
    BY DEF EntryInv
<1>3. SUFFICES Generated(entry, entry.by)'
    BY <1>1 DEF EntryInv, Mode
<1>4. CASE entry.by # e
    <2> DEFINE f == entry.by
    <2>1. /\ stage'[f] = stage[f] /\ step'[f] = step[f] /\ prompt'[f] = prompt[f]
          /\ answer'[f] = answer[f] /\ generations'[f] = generations[f]
        BY <1>1, <1>2, <1>4 DEF Frame
    <2>2. KeyOf(f)' = KeyOf(f)
        BY <1>1, <2>1 DEF KeyOf
    <2> QED
        BY <2>1, <2>2 DEF EntryInv, Generated, Misses
<1>5. CASE entry.by = e /\ Recording(e)
    <2> DEFINE s == generations[e]
               g == Recorded(e)
    <2>1. generations'[e] = Append(s, g)
        BY <1>5, RecordingAppends
    <2>2. s \in Seq(Entries(s))
        BY DEF AttemptsInv
    <2>3. /\ Misses(s) \subseteq Misses(Append(s, g))
          /\ ~g.hit => Len(s) + 1 \in Misses(Append(s, g))
          /\ \A i \in Misses(s) : Append(s, g)[i] = s[i]
          /\ Append(s, g)[Len(s) + 1] = g
        BY <2>2, AppendCounts, AppendExtends DEF Misses
    <2>4. CASE \E i \in Misses(s) :
                s[i].step = entry.key.step /\ s[i].prompt = entry.key.prompt /\ s[i].text = entry.text
        <3>1. PICK i \in Misses(s) :
                s[i].step = entry.key.step /\ s[i].prompt = entry.key.prompt /\ s[i].text = entry.text
            BY <2>4
        <3>2. i \in Misses(generations'[e]) /\ generations'[e][i] = s[i]
            BY <2>1, <2>3, <3>1
        <3>3. \E k \in Misses(generations'[e]) :
                /\ generations'[e][k].step = entry.key.step /\ generations'[e][k].prompt = entry.key.prompt
                /\ generations'[e][k].text = entry.text
            BY <3>1, <3>2
        <3> QED
            BY <1>5, <3>3 DEF Generated
    <2>5. CASE ~answer[e].hit /\ KeyOf(e) = entry.key /\ answer[e].text = entry.text
        <3>1. g.step = entry.key.step /\ g.prompt = entry.key.prompt /\ g.text = entry.text /\ ~g.hit
            BY <2>5 DEF KeyOf, Recorded
        <3> QED
            BY <1>5, <2>1, <2>3, <3>1 DEF Generated
    <2> QED
        BY <1>5, <2>4, <2>5 DEF EntryInv, Generated
<1>6. CASE entry.by = e /\ ~Recording(e)
    <2>1. \/ Begin(e) \/ RenderFails(e) \/ LoadHit(e) \/ LoadNothing(e) \/ Generate(e)
          \/ GeneratorFails(e) \/ Store(e) \/ CacheFails(e)
        BY <1>6 DEF Proceed, Recording
    <2>2. stage[e] # "decoding" /\ generations' = generations
        BY <2>1 DEF Begin, RenderFails, LoadHit, LoadNothing, Generate, GeneratorFails, Store, CacheFails
    <2> QED
        BY <1>6, <2>2 DEF EntryInv, Generated, Misses
<1> QED
    BY <1>4, <1>5, <1>6

\* Every entry is genuine after a step, the one that Store adds included, and
\* keys stay distinct.
LEMMA CacheKeeps ==
    ASSUME IInv, NEW e \in Evaluations, Begin(e) \/ Proceed(e)
    PROVE  /\ \A entry \in cache' : EntryInv(entry)'
           /\ \A x, y \in cache' : x.key = y.key => x = y
<1>1. Types /\ AttemptsInv(e) /\ CallsInv(e) /\ ModeInv(e)
    BY DEF IInv
<1>2. \A entry \in cache : EntryInv(entry)'
    BY <1>1, EntryStays DEF IInv
<1>3. CASE Store(e)
    <2> DEFINE new == [key |-> KeyOf(e), text |-> answer[e].text,
                       model |-> Expected[job[e].protocol], by |-> e]
    <2>1. cache' = (cache \ Lookup(KeyOf(e))) \cup {new}
        BY <1>3 DEF Store
    <2>2. UNCHANGED <<job, step, prompt, answer>> /\ stage'[e] = "decoding"
        BY <1>1, <1>3 DEF Store, Goto, Types
    <2>3. ~answer[e].hit /\ Mode(e) = "use"
        BY <1>1, <1>3 DEF Store, CallsInv, ModeInv, Running, Modes
    <2>4. KeyOf(e)' = KeyOf(e) /\ Mode(e)' = Mode(e)
        BY <2>2 DEF KeyOf, Mode
    <2>5. ASSUME NEW entry, entry = new PROVE EntryInv(entry)'
        <3>1. /\ entry.by = e /\ entry.key = KeyOf(e) /\ entry.text = answer[e].text
              /\ entry.model = Expected[job[e].protocol]
              /\ KeyOf(e).protocol = job[e].protocol /\ KeyOf(e).instance = job[e].instance
            BY <2>5 DEF KeyOf
        <3> HIDE DEF new
        <3>2. Generated(entry, e)'
            BY <2>2, <2>3, <2>4, <3>1 DEF Generated
        <3> QED
            BY <2>2, <2>3, <2>4, <3>1, <3>2 DEF EntryInv
    <2>6. \A entry \in cache \ Lookup(KeyOf(e)) : entry.key # new.key
        BY DEF Lookup
    <2> HIDE DEF new
    <2>7. \A entry \in cache' : entry = new \/ entry \in cache \ Lookup(KeyOf(e))
        BY <2>1
    <2>8. \A entry \in cache' : EntryInv(entry)'
        BY <1>2, <2>5, <2>7
    <2>9. \A x, y \in cache' : x.key = y.key => x = y
        BY <2>6, <2>7 DEF IInv
    <2> QED
        BY <2>8, <2>9
<1>4. CASE ~Store(e)
    <2>1. cache' = cache
        BY <1>4 DEF Begin, Proceed, RenderFails, LoadHit, LoadNothing, Generate, GeneratorFails,
                    CacheFails, Repair, RepairFails, GiveUp, Extract, Judge
    <2> QED
        BY <1>2, <2>1 DEF IInv
<1> QED
    BY <1>3, <1>4

-----------------------------------------------------------------------------
(* The invariant *)

LEMMA InitInv == Init => IInv
<1> SUFFICES ASSUME Init PROVE IInv
    OBVIOUS
<1>1. Types
    BY JudgeAssumption DEF Init, Types, Stages, Running, Steps
<1>2. ASSUME NEW e \in Evaluations PROVE AttemptsInv(e) /\ CallsInv(e) /\ ModeInv(e)
    <2>1. /\ stage[e] = "idle" /\ step[e] = "extract" /\ generations[e] = << >>
          /\ calls[e] = 0 /\ failure[e] = "none"
        BY DEF Init
    <2>2. Limit[job[e].protocol] \in Nat \ {0}
        BY <1>1, LimitType
    <2>3. Misses(generations[e]) = {} /\ DOMAIN generations[e] = {} /\ \A x : Of(generations[e], x) = {}
        BY <2>1 DEF Misses, Of
    <2>4. Cardinality(Misses(generations[e])) = 0 /\ \A x : Cardinality(Of(generations[e], x)) = 0
        BY <2>3, FS_EmptySet
    <2>5. AttemptsInv(e)
        BY <2>1, <2>2, <2>4 DEF AttemptsInv, Running
    <2>6. Owed(e) = 0
        BY <2>1 DEF Owed
    <2>7. CallsInv(e)
        BY <2>1, <2>2, <2>4, <2>6 DEF CallsInv
    <2>8. ModeInv(e)
        BY <2>1, <2>3 DEF ModeInv, Running
    <2> QED
        BY <2>5, <2>7, <2>8
<1>3. cache = {}
    BY DEF Init
<1> QED
    BY <1>1, <1>2, <1>3 DEF IInv

LEMMA StepInv == IInv /\ [Next]_vars => IInv'
<1> SUFFICES ASSUME IInv, [Next]_vars PROVE IInv'
    OBVIOUS
<1>1. ASSUME NEW e \in Evaluations, Begin(e) \/ Proceed(e) PROVE IInv'
    <2>1. Types /\ job' = job /\ Types' /\ Frame(e)
        BY <1>1, StepFrames DEF IInv
    <2>2. AttemptsInv(e) /\ CallsInv(e) /\ ModeInv(e)
        BY DEF IInv
    <2>3. AttemptsInv(e)' /\ CallsInv(e)' /\ ModeInv(e)'
        <3>1. CASE Recording(e)
            BY <2>1, <2>2, <3>1, RecordingKeeps
        <3>2. CASE ~Recording(e)
            <4>1. \/ Begin(e) \/ RenderFails(e) \/ LoadHit(e) \/ LoadNothing(e) \/ Generate(e)
                  \/ GeneratorFails(e) \/ Store(e) \/ CacheFails(e)
                BY <1>1, <3>2 DEF Proceed, Recording
            <4> QED
                BY <2>1, <2>2, <4>1, UnrecordedKeeps
        <3> QED
            BY <3>1, <3>2
    <2>4. ASSUME NEW f \in Evaluations \ {e} PROVE AttemptsInv(f)' /\ CallsInv(f)' /\ ModeInv(f)'
        BY <2>1, FrameKeeps DEF IInv
    <2>5. /\ \A entry \in cache' : EntryInv(entry)'
          /\ \A x, y \in cache' : x.key = y.key => x = y
        BY <1>1, CacheKeeps
    <2> QED
        BY <2>1, <2>3, <2>4, <2>5 DEF IInv
<1>2. CASE UNCHANGED vars
    <2>1. UNCHANGED <<job, stage, step, prompt, answer, claims, generations, calls, failure, cache>>
        BY <1>2 DEF vars, evalVars
    <2>2. \A e \in Evaluations : AttemptsInv(e)' /\ CallsInv(e)' /\ ModeInv(e)'
        BY <2>1 DEF IInv, AttemptsInv, CallsInv, ModeInv, Owed, Mode
    <2>3. ASSUME NEW entry \in cache' PROVE EntryInv(entry)'
        <3>1. EntryInv(entry)
            BY <2>1 DEF IInv
        <3>2. \A e \in Evaluations : UNCHANGED <<Mode(e), KeyOf(e)>>
            BY <2>1 DEF Mode, KeyOf
        <3>3. \A e \in Evaluations : Generated(entry, e) => Generated(entry, e)'
            BY <2>1, <3>2 DEF Generated
        <3> QED
            BY <2>1, <3>1, <3>2, <3>3 DEF EntryInv
    <2> QED
        BY <2>1, <2>2, <2>3 DEF IInv, Types
<1> QED
    BY <1>1, <1>2 DEF Next

LEMMA SpecInv == Spec => []IInv
BY InitInv, StepInv, PTL DEF Spec

-----------------------------------------------------------------------------
(* Order: what was read is not asked again, and what is sealed was read *)

AllTexts == UNION {Texts[p][s] : p \in Protocols, s \in Steps}

FaultAt(e, i) == Reading[generations[e][i].text].fault
StepAt(e, i) == generations[e][i].step

\* Every text at hand is one that a generator may produce.
TextInv(e) ==
    /\ stage[e] \in {"storing", "decoding"} => answer[e].text \in AllTexts
    /\ \A i \in DOMAIN generations[e] : generations[e][i].text \in AllTexts

\* The last generation of a sealed report is a support answer that was read and
\* judges the claims in order.
SealedOn(e) ==
    LET n == Len(generations[e]) IN
    /\ n \in DOMAIN generations[e] /\ StepAt(e, n) = "support" /\ FaultAt(e, n) = ""
    /\ Reading[generations[e][n].text].sound
    /\ Reading[generations[e][n].text].list = [i \in 1 .. Len(claims[e]) |-> i]

OrderInv(e) ==
    /\ \A i \in DOMAIN generations[e] : StepAt(e, i) \in Steps
    /\ \A i, k \in DOMAIN generations[e] : i < k /\ StepAt(e, i) = StepAt(e, k) => FaultAt(e, i) # ""
    /\ stage[e] \in Running => \A i \in DOMAIN generations[e] : StepAt(e, i) = step[e] => FaultAt(e, i) # ""
    /\ step[e] = "extract" => \A i \in DOMAIN generations[e] : StepAt(e, i) = "extract"
    /\ step[e] = "support" => \E i \in DOMAIN generations[e] : StepAt(e, i) = "extract" /\ FaultAt(e, i) = ""
    /\ stage[e] = "sealed" => step[e] = "support" /\ SealedOn(e)

ReadInv ==
    /\ \A e \in Evaluations : TextInv(e) /\ OrderInv(e)
    /\ \A entry \in cache : entry.text \in AllTexts

LEMMA ReadingDecodes == \A raw \in AllTexts : Reading[raw] = DecodeJSONObjectStrict(raw)
<1> SUFFICES Reading = [raw \in AllTexts |-> DecodeJSONObjectStrict(raw)]
    OBVIOUS
<1> QED
    BY DEF Reading, AllTexts

LEMMA FrameKeepsOrder ==
    ASSUME NEW e \in Evaluations, NEW f \in Evaluations \ {e}, Frame(e), TextInv(f), OrderInv(f)
    PROVE  TextInv(f)' /\ OrderInv(f)'
<1>1. /\ stage'[f] = stage[f] /\ step'[f] = step[f] /\ answer'[f] = answer[f]
      /\ generations'[f] = generations[f] /\ claims'[f] = claims[f]
    BY DEF Frame
<1>2. SealedOn(f)' <=> SealedOn(f)
    BY <1>1 DEF SealedOn, StepAt, FaultAt
<1> QED
    BY <1>1, <1>2 DEF TextInv, OrderInv, StepAt, FaultAt

LEMMA UnrecordedKeepsOrder ==
    ASSUME IInv, ReadInv, NEW e \in Evaluations,
           \/ Begin(e) \/ RenderFails(e) \/ LoadHit(e) \/ LoadNothing(e) \/ Generate(e)
           \/ GeneratorFails(e) \/ Store(e) \/ CacheFails(e)
    PROVE  TextInv(e)' /\ OrderInv(e)' /\ \A entry \in cache' : entry.text \in AllTexts
<1>1. Types /\ TextInv(e) /\ OrderInv(e) /\ AttemptsInv(e)
    BY DEF IInv, ReadInv
<1>2. UNCHANGED <<job, step, claims, generations>>
    BY DEF Begin, RenderFails, LoadHit, LoadNothing, Generate, GeneratorFails, Store, CacheFails
<1>3. /\ stage'[e] \in Running => stage[e] \in Running \/ generations[e] = << >>
      /\ stage'[e] # "sealed"
    <2>1. CASE Begin(e)
        BY <1>1, <2>1 DEF Begin, AttemptsInv, Goto, Fail, Types
    <2>2. CASE ~Begin(e)
        <3>1. stage[e] \in Running
            BY <2>2 DEF RenderFails, LoadHit, LoadNothing, Generate, GeneratorFails, Store, CacheFails, Running
        <3>2. stage'[e] # "sealed"
            BY <1>1, <2>2 DEF RenderFails, LoadHit, LoadNothing, Generate, GeneratorFails, Store, CacheFails,
                Goto, Fail, Types
        <3> QED
            BY <3>1, <3>2
    <2> QED
        BY <2>1, <2>2
<1>4. OrderInv(e)'
    <2>1. generations[e] = << >> => DOMAIN generations[e] = {}
        OBVIOUS
    <2> QED
        BY <1>1, <1>2, <1>3, <2>1 DEF OrderInv, StepAt, FaultAt
<1>5. stage'[e] \in {"storing", "decoding"} => answer'[e].text \in AllTexts
    <2> USE DEF Goto, Fail, Types
    <2>1. CASE Begin(e) \/ RenderFails(e) \/ LoadNothing(e) \/ GeneratorFails(e) \/ CacheFails(e)
        BY <1>1, <2>1 DEF Begin, RenderFails, LoadNothing, GeneratorFails, CacheFails
    <2>2. CASE LoadHit(e)
        <3>1. PICK entry \in Lookup(KeyOf(e)) :
                IF entry.model = Expected[job[e].protocol]
                THEN /\ answer' = [answer EXCEPT ![e] = [text |-> entry.text, hit |-> TRUE, by |-> entry.by]]
                     /\ Goto(e, "decoding")
                ELSE Fail(e, "outage") /\ UNCHANGED answer
            BY <2>2 DEF LoadHit
        <3>2. entry.text \in AllTexts
            BY DEF Lookup, ReadInv
        <3> QED
            BY <1>1, <3>1, <3>2
    <2>3. CASE Generate(e)
        <3>1. PICK text \in Texts[job[e].protocol][step[e]], model \in Models :
                IF model = Expected[job[e].protocol]
                THEN /\ answer' = [answer EXCEPT ![e] = [text |-> text, hit |-> FALSE, by |-> e]]
                     /\ Goto(e, IF UsesCache(e) THEN "storing" ELSE "decoding")
                ELSE Fail(e, "outage") /\ UNCHANGED answer
            BY <2>3 DEF Generate
        <3>2. job[e].protocol \in Protocols /\ step[e] \in Steps
            BY <1>1, LimitType
        <3>3. text \in AllTexts
            BY <3>2 DEF AllTexts
        <3> HIDE DEF Goto
        <3>4. CASE model = Expected[job[e].protocol]
            BY <1>1, <3>1, <3>3, <3>4
        <3>5. CASE model # Expected[job[e].protocol]
            BY <1>1, <3>1, <3>5
        <3> QED
            BY <3>4, <3>5
    <2>4. CASE Store(e)
        BY <1>1, <2>4 DEF Store, TextInv
    <2> QED
        BY <2>1, <2>2, <2>3, <2>4
<1>6. TextInv(e)'
    BY <1>1, <1>2, <1>5 DEF TextInv
<1>7. \A entry \in cache' : entry.text \in AllTexts
    <2>1. CASE Store(e)
        <3>1. answer[e].text \in AllTexts
            BY <1>1, <2>1 DEF Store, TextInv
        <3> QED
            BY <2>1, <3>1 DEF Store, ReadInv
    <2>2. CASE ~Store(e)
        <3>1. cache' = cache
            BY <2>2 DEF Begin, RenderFails, LoadHit, LoadNothing, Generate, GeneratorFails, CacheFails
        <3> QED
            BY <3>1 DEF ReadInv
    <2> QED
        BY <2>1, <2>2
<1> QED
    BY <1>4, <1>6, <1>7

\* Where a step that records leads, by what was read.
LEMMA RecordingOutcome ==
    ASSUME Types, NEW e \in Evaluations, Recording(e)
    PROVE  \/ /\ Fault(e) # "" /\ step' = step /\ stage'[e] \in {"lookup", "failed"}
           \/ /\ Fault(e) = "" /\ step[e] = "extract" /\ step'[e] = "support" /\ stage'[e] = "lookup"
           \/ /\ Fault(e) = "" /\ step[e] = "support" /\ step' = step /\ claims' = claims
              /\ \/ stage'[e] = "failed"
                 \/ /\ stage'[e] = "sealed"
                    /\ Reading[answer[e].text].sound
                    /\ Reading[answer[e].text].list = [i \in 1 .. Len(claims[e]) |-> i]
<1> USE DEF Types, Goto, Fail
<1>1. CASE Repair(e)
    BY <1>1 DEF Repair
<1>2. CASE RepairFails(e)
    BY <1>2 DEF RepairFails
<1>3. CASE GiveUp(e)
    BY <1>3 DEF GiveUp
<1>4. CASE Extract(e)
    BY <1>4 DEF Extract
<1>5. CASE Judge(e)
    BY <1>5 DEF Judge, InOrder
<1> QED
    BY <1>1, <1>2, <1>3, <1>4, <1>5 DEF Recording

LEMMA RecordingKeepsOrder ==
    ASSUME IInv, ReadInv, NEW e \in Evaluations, Recording(e)
    PROVE  TextInv(e)' /\ OrderInv(e)'
<1> DEFINE s == generations[e]
           g == Recorded(e)
<1>0. PICK n \in Nat : n = Len(s)
    BY Countable DEF IInv, AttemptsInv
<1>1. Types /\ TextInv(e) /\ OrderInv(e) /\ AttemptsInv(e)
    BY DEF IInv, ReadInv
<1>2. /\ stage[e] = "decoding" /\ UNCHANGED answer /\ generations'[e] = Append(s, g)
      /\ stage'[e] \in {"lookup", "sealed", "failed"}
    BY <1>1, RecordingAppends
<1>3. /\ n \in Nat /\ DOMAIN s = 1 .. n /\ DOMAIN generations'[e] = 1 .. n + 1
      /\ \A i \in 1 .. n : generations'[e][i] = s[i]
      /\ generations'[e][n + 1] = g
      /\ Len(generations'[e]) = n + 1
    <2>1. s \in Seq(Entries(s))
        BY <1>1 DEF AttemptsInv
    <2>2. Len(Append(s, g)) = n + 1
        <3>1. s \in Seq(Entries(s) \cup {g}) /\ g \in Entries(s) \cup {g}
            BY <2>1
        <3> QED
            BY <1>0, <3>1, AppendProperties
    <2> QED
        BY <1>0, <1>2, <2>1, <2>2, AppendExtends
<1>4. /\ g.step = step[e] /\ g.text = answer[e].text /\ step[e] \in Steps
    BY <1>1 DEF Recorded, Types
<1>5. g.text \in AllTexts
    BY <1>1, <1>2, <1>4 DEF TextInv
<1> HIDE DEF g
<1>6. /\ \A i \in 1 .. n : StepAt(e, i)' = StepAt(e, i) /\ FaultAt(e, i)' = FaultAt(e, i)
      /\ StepAt(e, n + 1)' = step[e] /\ FaultAt(e, n + 1)' = Fault(e)
    BY <1>3, <1>4 DEF StepAt, FaultAt, Fault
<1>7. TextInv(e)'
    <2>1. \A i \in 1 .. n + 1 : i \in 1 .. n \/ i = n + 1
        BY <1>3
    <2> QED
        BY <1>1, <1>2, <1>3, <1>5, <2>1 DEF TextInv
<1>8. \A i \in 1 .. n : StepAt(e, i) = step[e] => FaultAt(e, i) # ""
    BY <1>1, <1>2, <1>3 DEF OrderInv, Running
<1>9. \A i \in 1 .. n + 1 : i \in 1 .. n \/ i = n + 1
    BY <1>3
<1>10. \A i \in 1 .. n + 1 : StepAt(e, i)' \in Steps
    BY <1>1, <1>3, <1>4, <1>6, <1>9 DEF OrderInv
<1>11. ASSUME NEW i \in 1 .. n + 1, NEW k \in 1 .. n + 1, i < k, StepAt(e, i)' = StepAt(e, k)'
       PROVE  FaultAt(e, i)' # ""
    <2>1. i \in 1 .. n
        BY <1>3, <1>11
    <2>2. CASE k \in 1 .. n
        BY <1>1, <1>3, <1>6, <1>11, <2>1, <2>2 DEF OrderInv
    <2>3. CASE k = n + 1
        BY <1>6, <1>8, <1>11, <2>1, <2>3
    <2> QED
        BY <1>9, <2>2, <2>3
<1>15. step[e] = "support" => \E i \in 1 .. n : StepAt(e, i) = "extract" /\ FaultAt(e, i) = ""
    <2>1. step[e] = "support" => \E i \in DOMAIN s : StepAt(e, i) = "extract" /\ FaultAt(e, i) = ""
        BY <1>1, Zenon DEF OrderInv
    <2>2. DOMAIN s = 1 .. n
        BY <1>3
    <2> QED
        BY <2>1, <2>2
<1>12. CASE Fault(e) # "" /\ step' = step /\ stage'[e] \in {"lookup", "failed"}
    <2>1. \A i \in 1 .. n + 1 : StepAt(e, i)' = step[e] => FaultAt(e, i)' # ""
        BY <1>6, <1>8, <1>9, <1>12
    <2>2. step[e] = "extract" => \A i \in 1 .. n + 1 : StepAt(e, i)' = "extract"
        BY <1>1, <1>3, <1>6, <1>9 DEF OrderInv
    <2>3. step[e] = "support" => \E i \in 1 .. n + 1 : StepAt(e, i)' = "extract" /\ FaultAt(e, i)' = ""
        <3> HAVE step[e] = "support"
        <3>1. PICK i \in 1 .. n : StepAt(e, i) = "extract" /\ FaultAt(e, i) = ""
            BY <1>15
        <3>2. StepAt(e, i)' = "extract" /\ FaultAt(e, i)' = ""
            BY <1>6, <3>1, Zenon
        <3>3. i \in 1 .. n + 1
            BY <1>3
        <3> QED
            BY <3>2, <3>3, Zenon
    <2> QED
        BY <1>3, <1>7, <1>10, <1>11, <1>12, <2>1, <2>2, <2>3 DEF OrderInv
<1>13. CASE Fault(e) = "" /\ step[e] = "extract" /\ step'[e] = "support" /\ stage'[e] = "lookup"
    <2>1. \A i \in 1 .. n + 1 : StepAt(e, i)' = "extract"
        BY <1>1, <1>3, <1>6, <1>9, <1>13 DEF OrderInv
    <2>2. n + 1 \in 1 .. n + 1 /\ StepAt(e, n + 1)' = "extract" /\ FaultAt(e, n + 1)' = ""
        <3>1. n + 1 \in 1 .. n + 1
            BY <1>3
        <3> QED
            BY <1>6, <1>13, <3>1, Zenon
    <2> QED
        BY <1>3, <1>7, <1>10, <1>11, <1>13, <2>1, <2>2 DEF OrderInv
<1>14. CASE /\ Fault(e) = "" /\ step[e] = "support" /\ step' = step /\ claims' = claims
            /\ \/ stage'[e] = "failed"
               \/ /\ stage'[e] = "sealed"
                  /\ Reading[answer[e].text].sound
                  /\ Reading[answer[e].text].list = [i \in 1 .. Len(claims[e]) |-> i]
    <2>1. \E i \in 1 .. n + 1 : StepAt(e, i)' = "extract" /\ FaultAt(e, i)' = ""
        <3>1. PICK i \in 1 .. n : StepAt(e, i) = "extract" /\ FaultAt(e, i) = ""
            BY <1>14, <1>15
        <3>2. StepAt(e, i)' = "extract" /\ FaultAt(e, i)' = ""
            BY <1>6, <3>1, Zenon
        <3>3. i \in 1 .. n + 1
            BY <1>3
        <3> QED
            BY <3>2, <3>3, Zenon
    <2>2. ASSUME stage'[e] = "sealed" PROVE SealedOn(e)'
        <3>1. n + 1 \in 1 .. n + 1
            BY <1>3
        <3> QED
            BY <1>3, <1>4, <1>6, <1>14, <2>2, <3>1 DEF SealedOn
    <2> QED
        BY <1>3, <1>7, <1>10, <1>11, <1>14, <2>1, <2>2 DEF OrderInv, Running
<1> QED
    BY <1>1, <1>12, <1>13, <1>14, RecordingOutcome

LEMMA StepRead == IInv /\ ReadInv /\ [Next]_vars => ReadInv'
<1> SUFFICES ASSUME IInv, ReadInv, [Next]_vars PROVE ReadInv'
    OBVIOUS
<1>1. ASSUME NEW e \in Evaluations, Begin(e) \/ Proceed(e) PROVE ReadInv'
    <2>1. Frame(e)
        BY <1>1, StepFrames DEF IInv
    <2>2. TextInv(e)' /\ OrderInv(e)' /\ \A entry \in cache' : entry.text \in AllTexts
        <3>1. CASE Recording(e)
            <4>1. cache' = cache
                BY <3>1, RecordingAppends DEF IInv
            <4> QED
                BY <3>1, <4>1, RecordingKeepsOrder DEF ReadInv
        <3>2. CASE ~Recording(e)
            <4>1. \/ Begin(e) \/ RenderFails(e) \/ LoadHit(e) \/ LoadNothing(e) \/ Generate(e)
                  \/ GeneratorFails(e) \/ Store(e) \/ CacheFails(e)
                BY <1>1, <3>2 DEF Proceed, Recording
            <4> QED
                BY <4>1, UnrecordedKeepsOrder
        <3> QED
            BY <3>1, <3>2
    <2>3. ASSUME NEW f \in Evaluations \ {e} PROVE TextInv(f)' /\ OrderInv(f)'
        BY <2>1, FrameKeepsOrder DEF ReadInv
    <2> QED
        BY <2>2, <2>3 DEF ReadInv
<1>2. CASE UNCHANGED vars
    <2>1. UNCHANGED <<stage, step, answer, claims, generations, cache>>
        BY <1>2 DEF vars, evalVars
    <2> QED
        <3>1. \A e, i : UNCHANGED <<StepAt(e, i), FaultAt(e, i)>>
            BY <2>1 DEF StepAt, FaultAt
        <3>2. \A e \in Evaluations : SealedOn(e) => SealedOn(e)'
            BY <2>1, <3>1 DEF SealedOn
        <3>3. ASSUME NEW e \in Evaluations PROVE TextInv(e)' /\ OrderInv(e)'
            <4>1. TextInv(e)'
                BY <2>1 DEF ReadInv, TextInv
            <4>2. OrderInv(e)'
                BY <2>1, <3>1, <3>2 DEF ReadInv, OrderInv
            <4> QED
                BY <4>1, <4>2
        <3> QED
            BY <2>1, <3>3 DEF ReadInv
<1> QED
    BY <1>1, <1>2 DEF Next

LEMMA SpecRead == Spec => []ReadInv
<1>1. Init => ReadInv
    BY DEF Init, ReadInv, TextInv, OrderInv, Running
<1> QED
    BY <1>1, StepRead, SpecInv, PTL DEF Spec

-----------------------------------------------------------------------------
(* Types *)

\* A set with 0 that has, with a number below n, the next one too.
LEMMA Induction ==
    ASSUME NEW n \in Nat, NEW S, 0 \in S, \A k \in 1 .. n : k - 1 \in S => k \in S
    PROVE  0 .. n \subseteq S
<1> DEFINE T == (0 .. n) \ S
<1> SUFFICES ASSUME T # {} PROVE FALSE
    OBVIOUS
<1>1. PICK k \in T : \A j \in T : k <= j
    <2>1. T \in SUBSET (0 .. n)
        OBVIOUS
    <2> HIDE DEF T
    <2>2. Min(T) \in T /\ \A j \in T : Min(T) <= j
        BY <2>1, MinIsLeast
    <2> QED
        BY <2>2
<1>2. k \in 1 .. n /\ k - 1 \in 0 .. n /\ ~(k <= k - 1)
    OBVIOUS
<1> QED
    BY <1>1, <1>2

\* kept holds the claims among the first statements of a list.
Kept(kept, list, n) ==
    /\ kept[0] = << >>
    /\ \A i \in 1 .. n : kept[i] = IF list[i] = 0 THEN kept[i - 1] ELSE Append(kept[i - 1], list[i])

LEMMA KeptExists ==
    ASSUME NEW n \in Nat, NEW list, \A i \in 1 .. n : list[i] \in Nat
    PROVE  \E kept \in [0 .. n -> Seq(Nat)] : Kept(kept, list, n)
<1> DEFINE S == {m \in 0 .. n : \E kept \in [0 .. m -> Seq(Nat)] : Kept(kept, list, m)}
<1>1. 0 \in S
    <2> DEFINE none == [i \in 0 .. 0 |-> << >>]
    <2>1. none \in [0 .. 0 -> Seq(Nat)] /\ Kept(none, list, 0)
        BY DEF Kept
    <2> HIDE DEF none
    <2> QED
        BY <2>1
<1>2. ASSUME NEW m \in 1 .. n, m - 1 \in S PROVE m \in S
    <2>1. PICK kept \in [0 .. (m - 1) -> Seq(Nat)] : Kept(kept, list, m - 1)
        BY <1>2
    <2> DEFINE last == IF list[m] = 0 THEN kept[m - 1] ELSE Append(kept[m - 1], list[m])
               longer == [i \in 0 .. m |-> IF i = m THEN last ELSE kept[i]]
    <2>2. /\ \A i \in 0 .. m : i # m => i \in 0 .. (m - 1)
          /\ m - 1 \in 0 .. (m - 1) /\ 0 \in 0 .. m /\ 0 # m
        OBVIOUS
    <2>3. last \in Seq(Nat)
        <3>1. kept[m - 1] \in Seq(Nat) /\ list[m] \in Nat
            BY <2>2
        <3> QED
            BY <3>1
    <2> HIDE DEF last
    <2>4. longer \in [0 .. m -> Seq(Nat)] /\ longer[0] = << >>
        BY <2>1, <2>2, <2>3 DEF Kept
    <2>5. ASSUME NEW i \in 1 .. m
          PROVE  longer[i] = IF list[i] = 0 THEN longer[i - 1] ELSE Append(longer[i - 1], list[i])
        <3>1. i \in 0 .. m /\ i - 1 \in 0 .. m /\ i - 1 # m
            OBVIOUS
        <3>2. longer[i - 1] = kept[i - 1]
            BY <3>1
        <3>3. CASE i = m
            <4>1. longer[i] = last
                BY <3>1, <3>3
            <4> HIDE DEF longer
            <4> QED
                BY <3>2, <3>3, <4>1 DEF last
        <3>4. CASE i # m
            <4>1. i \in 1 .. (m - 1)
                BY <3>4
            <4>2. longer[i] = kept[i]
                BY <3>1, <3>4
            <4>3. kept[i] = IF list[i] = 0 THEN kept[i - 1] ELSE Append(kept[i - 1], list[i])
                BY <2>1, <4>1 DEF Kept
            <4> HIDE DEF longer
            <4> QED
                BY <3>2, <4>2, <4>3
        <3> QED
            BY <3>3, <3>4
    <2>6. Kept(longer, list, m)
        <3> HIDE DEF longer
        <3> QED
            BY <2>4, <2>5 DEF Kept
    <2> HIDE DEF longer
    <2> QED
        BY <2>4, <2>6
<1>3. 0 .. n \subseteq S
    <2> HIDE DEF S
    <2> QED
        BY <1>1, <1>2, Induction
<1> QED
    BY <1>3

\* The claims of an extract answer are statements, in their order.
LEMMA ClaimsType ==
    ASSUME NEW list \in Seq(Nat)
    PROVE  Claims(list) \in Seq(Nat)
<1> DEFINE n == Len(list)
           Keeps(kept) == kept = [i \in 0 .. n |->
               IF i = 0 THEN << >>
               ELSE IF list[i] = 0 THEN kept[i - 1] ELSE Append(kept[i - 1], list[i])]
           k0 == CHOOSE kept : Keeps(kept)
<1>1. n \in Nat /\ (\A i \in 1 .. n : list[i] \in Nat) /\ \A i \in 0 .. n : i # 0 => i \in 1 .. n
    OBVIOUS
<1> HIDE DEF n
<1>2. PICK kept \in [0 .. n -> Seq(Nat)] : Kept(kept, list, n)
    BY <1>1, KeptExists
<1>3. Keeps(kept)
    <2>1. \A i \in 0 .. n : kept[i] =
            IF i = 0 THEN << >>
            ELSE IF list[i] = 0 THEN kept[i - 1] ELSE Append(kept[i - 1], list[i])
        BY <1>1, <1>2 DEF Kept
    <2> QED
        BY <2>1
<1>4. Keeps(k0)
    <2> HIDE DEF Keeps
    <2> QED
        BY <1>3
<1>5. Claims(list) = k0[n]
    BY DEF Claims, n
<1> HIDE DEF k0
<1>6. /\ k0[0] = << >>
      /\ \A i \in 1 .. n :
            k0[i] = IF list[i] = 0 THEN k0[i - 1] ELSE Append(k0[i - 1], list[i])
    <2>1. 0 \in 0 .. n /\ \A i \in 1 .. n : i \in 0 .. n /\ i # 0
        BY <1>1
    <2> QED
        BY <1>4, <2>1
<1> DEFINE S == {i \in 0 .. n : k0[i] \in Seq(Nat)}
<1>7. 0 .. n \subseteq S
    <2>1. 0 \in S
        <3>1. << >> \in Seq(Nat) /\ 0 \in 0 .. n
            BY <1>1
        <3> QED
            BY <1>6, <3>1, Zenon
    <2>2. ASSUME NEW i \in 1 .. n, i - 1 \in S PROVE i \in S
        <3>1. k0[i - 1] \in Seq(Nat) /\ list[i] \in Nat /\ i \in 0 .. n
            BY <1>1, <2>2
        <3>2. k0[i] = IF list[i] = 0 THEN k0[i - 1] ELSE Append(k0[i - 1], list[i])
            BY <1>6
        <3>3. Append(k0[i - 1], list[i]) \in Seq(Nat)
            BY <3>1
        <3>4. k0[i] \in Seq(Nat)
            BY <3>1, <3>2, <3>3, Zenon
        <3> QED
            BY <3>1, <3>4
    <2> HIDE DEF S
    <2> QED
        BY <1>1, <2>1, <2>2, Induction
<1>8. n \in 0 .. n
    BY <1>1
<1> QED
    BY <1>5, <1>7, <1>8

\* What any text is decoded to.
Answered == [fault : Faults \cup {""}, list : Seq(Nat), sound : BOOLEAN]

LEMMA OutcomeType ==
    ASSUME NEW text \in Text
    PROVE  Outcome(text) \in Answered
<1>0. << >> \in Seq(Nat) /\ Faults = {"no_json_object", "unknown_field", "decode", "trailing_data"}
    BY DEF Faults
<1>9. ASSUME NEW fault \in Faults PROVE Structural(fault) \in Answered
    BY <1>0 DEF Structural, Answered
<1>1. CASE text = << >> \/ Head(text).is # "object"
    <2>1. Outcome(text) = Structural("no_json_object")
        BY <1>1 DEF Outcome
    <2> QED
        BY <1>0, <1>9, <2>1
<1>2. CASE text # << >> /\ Head(text).is = "object"
    <2>1. Head(text) \in Token
        BY <1>2 DEF Text
    <2>2. Head(text) \in [is : {"object"}, flaw : {"", "unknown_field", "decode"}, payload : Payload]
        BY <1>2, <2>1 DEF Token, Marks, Blanks
    <2>3. Head(text).flaw \in {"", "unknown_field", "decode"} /\ Head(text).payload \in Payload
        BY <2>2
    <2>4. Head(text).payload.list \in Seq(Nat) /\ Head(text).payload.sound \in BOOLEAN
        BY <2>3 DEF Payload
    <2>5. CASE Head(text).flaw # ""
        <3>1. Outcome(text) = Structural(Head(text).flaw)
            BY <1>2, <2>5 DEF Outcome
        <3>2. Head(text).flaw \in Faults
            BY <1>0, <2>3, <2>5
        <3> QED
            BY <1>9, <3>1, <3>2
    <2>6. CASE Head(text).flaw = "" /\ Len(text) > 1
        <3>1. Outcome(text) = Structural("trailing_data")
            BY <1>2, <2>6 DEF Outcome
        <3> QED
            BY <1>0, <1>9, <3>1
    <2>7. CASE Head(text).flaw = "" /\ ~(Len(text) > 1)
        <3>1. Outcome(text) =
                [fault |-> "", list |-> Head(text).payload.list, sound |-> Head(text).payload.sound]
            BY <1>2, <2>7 DEF Outcome
        <3> DEFINE list == Head(text).payload.list
                   sound == Head(text).payload.sound
        <3>2. list \in Seq(Nat) /\ sound \in BOOLEAN /\ Outcome(text) = [fault |-> "", list |-> list, sound |-> sound]
            BY <2>4, <3>1
        <3> HIDE DEF list, sound
        <3>3. [fault |-> "", list |-> list, sound |-> sound] \in Answered
            BY <3>2 DEF Answered
        <3> QED
            BY <3>2, <3>3
    <2> QED
        BY <2>5, <2>6, <2>7
<1> QED
    BY <1>1, <1>2

LEMMA DecodingType ==
    ASSUME NEW raw \in Text
    PROVE  DecodeJSONObjectStrict(raw) \in Answered
<1> DEFINE inside == StripSingleCodeFence(raw)
           N == Len(raw)
<1>1. N \in Nat /\ Window(raw, raw, 1, N)
    BY WholeWindow
<1>2. TrimRight(TrimLeft(inside)) \in Text
    <2>1. CASE inside = raw
        BY <1>1, <2>1, TrimmedAccepts
    <2>2. ASSUME NEW k, NEW n, NEW l, Fenced(raw, k, n, l), Window(inside, raw, n + 1, l - 1)
          PROVE  TrimRight(TrimLeft(inside)) \in Text
        <3>1. n + 1 \in Nat \ {0} /\ l - 1 \in Nat
            BY <1>1, <2>2 DEF Fenced
        <3> QED
            BY <2>2, <3>1, TrimmedAccepts
    <2> QED
        BY <2>1, <2>2, StripFinds
<1>3. DecodeJSONObjectStrict(raw) = Outcome(TrimRight(TrimLeft(inside)))
    BY DEF DecodeJSONObjectStrict, Outcome
<1> QED
    BY <1>2, <1>3, OutcomeType

LEMMA ReadingType ==
    ASSUME NEW raw \in AllTexts
    PROVE  raw \in Text /\ Reading[raw].fault \in Faults \cup {""} /\ Reading[raw].list \in Seq(Nat)
<1>1. raw \in Text
    BY JudgeAssumption DEF AllTexts
<1>2. Reading[raw] \in Answered
    BY <1>1, DecodingType, ReadingDecodes
<1> QED
    BY <1>1, <1>2 DEF Answered

LEMMA AttemptType ==
    ASSUME TypeOK, NEW e \in Evaluations
    PROVE  Attempt(e) \in Nat \ {0}
<1> DEFINE gens == generations[e]
           same == {i \in DOMAIN gens : gens[i].step = step[e]}
<1>1. gens \in Seq(Generation)
    BY DEF TypeOK
<1>2. Len(gens) \in Nat /\ DOMAIN gens = 1 .. Len(gens)
    <2> HIDE DEF gens
    <2> QED
        BY <1>1
<1>3. IsFiniteSet(same)
    <2> HIDE DEF gens
    <2>1. IsFiniteSet(1 .. Len(gens))
        BY <1>2, FS_Interval
    <2> QED
        BY <1>2, <2>1, FS_Subset
<1>4. Cardinality(same) \in Nat
    BY <1>3, FS_CardinalityType
<1> QED
    BY <1>4 DEF Attempt

LEMMA InitTypes == Init => TypeOK
<1> SUFFICES ASSUME Init PROVE TypeOK
    OBVIOUS
<1> USE DEF Init, TypeOK
<1>1. [about |-> << >>, faults |-> << >>] \in Prompt
    BY DEF Prompt
<1>2. NoAnswer \in [text : Text, hit : BOOLEAN, by : Evaluations \cup {Nobody}]
    BY DEF NoAnswer, Text
<1>3. "extract" \in Steps
    BY DEF Steps
<1> QED
    BY <1>1, <1>2, <1>3

LEMMA StepTypes == IInv /\ ReadInv /\ TypeOK /\ [Next]_vars => TypeOK'
<1> SUFFICES ASSUME IInv, ReadInv, TypeOK, [Next]_vars PROVE TypeOK'
    OBVIOUS
<1>1. ASSUME NEW e \in Evaluations, Begin(e) \/ Proceed(e) PROVE TypeOK'
    <2>1. Types /\ TextInv(e) /\ job[e] \in Job
        BY JudgeAssumption DEF IInv, ReadInv, Types
    <2>2. job[e].protocol \in Protocols /\ job[e].instance \in Instances
        BY <2>1 DEF Job
    <2>3. Recorded(e) \in Generation
        <3>1. answer[e] \in [text : Text, hit : BOOLEAN, by : Evaluations \cup {Nobody}]
            BY DEF TypeOK
        <3>2. step[e] \in Steps /\ prompt[e] \in Prompt /\ Attempt(e) \in Nat \ {0}
            BY AttemptType DEF TypeOK
        <3>3. answer[e].hit \in BOOLEAN /\ answer[e].text \in Text
            BY <3>1
        <3> QED
            BY <3>2, <3>3 DEF Recorded, Generation
    <2>4. Append(generations[e], Recorded(e)) \in Seq(Generation)
        <3>1. generations[e] \in Seq(Generation)
            BY DEF TypeOK
        <3> QED
            BY <2>3, <3>1
    <2>5. stage[e] = "decoding" => Fault(e) \in Faults \cup {""} /\ Claims(Reading[answer[e].text].list) \in Seq(Nat)
        BY <2>1, ReadingType, ClaimsType DEF TextInv, Fault
    <2>6. KeyOf(e) \in Key
        BY <2>2 DEF KeyOf, Key, TypeOK
    <2>7. CASE Begin(e) \/ RenderFails(e) \/ CacheFails(e) \/ LoadNothing(e)
        BY <2>7 DEF Begin, RenderFails, CacheFails, LoadNothing, Goto, Fail, TypeOK
    <2>8. CASE LoadHit(e)
        <3>1. PICK entry \in cache :
                IF entry.model = Expected[job[e].protocol]
                THEN /\ answer' = [answer EXCEPT ![e] = [text |-> entry.text, hit |-> TRUE, by |-> entry.by]]
                     /\ Goto(e, "decoding")
                ELSE Fail(e, "outage") /\ UNCHANGED answer
            BY <2>8 DEF LoadHit, Lookup
        <3>2. [text |-> entry.text, hit |-> TRUE, by |-> entry.by] \in
                [text : Text, hit : BOOLEAN, by : Evaluations \cup {Nobody}]
            BY DEF TypeOK
        <3>3. answer' \in [Evaluations -> [text : Text, hit : BOOLEAN, by : Evaluations \cup {Nobody}]]
            BY <3>1, <3>2 DEF TypeOK
        <3>4. /\ stage' \in [Evaluations ->
                {"idle", "lookup", "asking", "storing", "decoding", "sealed", "failed"}]
              /\ failure' \in [Evaluations -> {"none", "rejected", "outage", "answer"}]
            BY <3>1 DEF Goto, Fail, TypeOK
        <3> QED
            BY <2>8, <3>3, <3>4 DEF LoadHit, TypeOK
    <2>9. CASE Generate(e)
        <3>1. PICK text \in Texts[job[e].protocol][step[e]], model \in Models :
                IF model = Expected[job[e].protocol]
                THEN /\ answer' = [answer EXCEPT ![e] = [text |-> text, hit |-> FALSE, by |-> e]]
                     /\ Goto(e, IF UsesCache(e) THEN "storing" ELSE "decoding")
                ELSE Fail(e, "outage") /\ UNCHANGED answer
            BY <2>9 DEF Generate
        <3>2. text \in Text
            BY <2>2, JudgeAssumption DEF TypeOK
        <3>3. [text |-> text, hit |-> FALSE, by |-> e] \in
                [text : Text, hit : BOOLEAN, by : Evaluations \cup {Nobody}]
            BY <3>2
        <3>4. answer' \in [Evaluations -> [text : Text, hit : BOOLEAN, by : Evaluations \cup {Nobody}]]
            BY <3>1, <3>3 DEF TypeOK
        <3>5. /\ stage' \in [Evaluations ->
                {"idle", "lookup", "asking", "storing", "decoding", "sealed", "failed"}]
              /\ failure' \in [Evaluations -> {"none", "rejected", "outage", "answer"}]
            BY <3>1 DEF Goto, Fail, TypeOK
        <3>6. /\ calls' \in [Evaluations -> Nat]
              /\ UNCHANGED <<job, step, prompt, claims, generations, warm, cache>>
            BY <2>9 DEF Generate, TypeOK
        <3> QED
            BY <3>4, <3>5, <3>6 DEF TypeOK
    <2>10. CASE GeneratorFails(e)
        BY <2>10 DEF GeneratorFails, Fail, TypeOK
    <2>11. CASE Store(e)
        <3>1. answer[e].text \in Text /\ Expected[job[e].protocol] \in Models
            BY <2>2, JudgeAssumption DEF TypeOK
        <3>2. cache' \subseteq [key : Key, text : Text, model : Models, by : Evaluations]
            BY <2>6, <2>11, <3>1 DEF Store, TypeOK
        <3> QED
            BY <2>11, <3>2 DEF Store, Goto, TypeOK
    <2>12. CASE Repair(e)
        <3>1. [prompt[e] EXCEPT !.faults = Append(prompt[e].faults, Fault(e))] \in Prompt
            <4>1. Fault(e) \in Faults /\ prompt[e] \in [about : Seq(Nat), faults : Seq(Faults)]
                BY <2>5, <2>12 DEF Repair, TypeOK, Prompt
            <4>2. Append(prompt[e].faults, Fault(e)) \in Seq(Faults)
                BY <4>1
            <4> QED
                BY <4>1, <4>2 DEF Prompt
        <3>2. /\ prompt' = [prompt EXCEPT ![e] = [prompt[e] EXCEPT !.faults = Append(prompt[e].faults, Fault(e))]]
              /\ generations' = [generations EXCEPT ![e] = Append(generations[e], Recorded(e))]
            BY <2>12 DEF Repair, Record, Recorded
        <3> QED
            BY <2>4, <2>12, <3>1, <3>2 DEF Repair, Goto, TypeOK
    <2>13. CASE RepairFails(e) \/ GiveUp(e)
        <3>1. generations' = [generations EXCEPT ![e] = Append(generations[e], Recorded(e))]
            BY <2>13 DEF RepairFails, GiveUp, Record, Recorded
        <3> QED
            BY <2>4, <2>13, <3>1 DEF RepairFails, GiveUp, Fail, TypeOK
    <2>14. CASE Extract(e)
        <3> DEFINE found == Claims(Reading[answer[e].text].list)
        <3>1. /\ generations' = [generations EXCEPT ![e] = Append(generations[e], Recorded(e))]
              /\ claims' = [claims EXCEPT ![e] = found]
              /\ step' = [step EXCEPT ![e] = "support"]
              /\ prompt' = [prompt EXCEPT ![e] = [about |-> found, faults |-> << >>]]
              /\ stage' = [stage EXCEPT ![e] = "lookup"]
              /\ UNCHANGED <<job, answer, calls, failure, warm, cache>>
            BY <2>14 DEF Extract, Record, Recorded, Goto
        <3>2. found \in Seq(Nat)
            BY <2>5, <2>14 DEF Extract
        <3> HIDE DEF found
        <3>3. [about |-> found, faults |-> << >>] \in Prompt /\ "support" \in Steps
            BY <3>2 DEF Prompt, Steps
        <3> QED
            BY <2>4, <3>1, <3>2, <3>3 DEF TypeOK
    <2>15. CASE Judge(e)
        <3>1. generations' = [generations EXCEPT ![e] = Append(generations[e], Recorded(e))]
            BY <2>15 DEF Judge, Record, Recorded
        <3>2. /\ stage' \in [Evaluations ->
                {"idle", "lookup", "asking", "storing", "decoding", "sealed", "failed"}]
              /\ failure' \in [Evaluations -> {"none", "rejected", "outage", "answer"}]
              /\ UNCHANGED <<job, step, prompt, answer, claims, calls, warm, cache>>
            BY <2>15 DEF Judge, Goto, Fail, TypeOK
        <3> QED
            BY <2>4, <3>1, <3>2 DEF TypeOK
    <2> QED
        BY <1>1, <2>7, <2>8, <2>9, <2>10, <2>11, <2>12, <2>13, <2>14, <2>15 DEF Proceed
<1>2. CASE UNCHANGED vars
    BY <1>2 DEF vars, evalVars, TypeOK
<1> QED
    BY <1>1, <1>2 DEF Next

\* Whatever models answer and however evaluations share their cache, every
\* prompt is made of faults that decoding names, every claim comes out of a text
\* that was read, and every entry of the cache is complete.
THEOREM JudgeTypes == Spec => []TypeOK
BY InitTypes, StepTypes, SpecInv, SpecRead, PTL DEF Spec

-----------------------------------------------------------------------------
(* Provenance: the generations of an evaluation are two chains of attempts *)

FaultOf(g) == Reading[g.text].fault
IsRead(g) == FaultOf(g) = ""

\* The faults of the m generations behind position a.
FaultsAfter(gens, a, m) == [k \in 1 .. m |-> FaultOf(gens[a + k])]

\* The m generations behind position a are the attempts of step s.
Attempts(gens, a, m, s, about) ==
    \A i \in 1 .. m :
        /\ gens[a + i].step = s /\ gens[a + i].attempt = i
        /\ gens[a + i].prompt = [about |-> about, faults |-> FaultsAfter(gens, a, i - 1)]

\* The first n generations extract, the others judge support, and the prompt at
\* hand goes on from there.
Split(e, n) ==
    LET gens == generations[e]
        a == IF step[e] = "extract" THEN 0 ELSE n
    IN  /\ n \in 0 .. Len(gens)
        /\ Attempts(gens, 0, n, "extract", << >>)
        /\ Attempts(gens, n, Len(gens) - n, "support", claims[e])
        /\ step[e] = "extract" => n = Len(gens)
        /\ step[e] = "support" => /\ n >= 1 /\ IsRead(gens[n])
                                  /\ claims[e] = Claims(Reading[gens[n].text].list)
        /\ stage[e] \in Running \cup {"idle"} =>
            prompt[e] = [about |-> IF step[e] = "extract" THEN << >> ELSE claims[e],
                         faults |-> FaultsAfter(gens, a, Len(gens) - a)]

ChainInv == \A e \in Evaluations : \E n \in Nat : Split(e, n)

LEMMA NoFaults == ASSUME NEW gens, NEW a PROVE FaultsAfter(gens, a, 0) = << >>
<1> DEFINE none == FaultsAfter(gens, a, 0)
<1>1. none = [k \in 1 .. 0 |-> none[k]]
    BY DEF FaultsAfter
<1> HIDE DEF none
<1>2. none \in Seq({})
    BY <1>1
<1>3. Len(none) = 0
    BY <1>1
<1> QED
    BY <1>2, <1>3 DEF none

\* What was attempted stays attempted, and a generation of the same step behind
\* the last one is the next attempt.
LEMMA AttemptsGrow ==
    ASSUME NEW gens, gens \in Seq(Entries(gens)), NEW g, NEW a \in Nat, NEW m \in Nat, NEW s, NEW about,
           a + m <= Len(gens), Attempts(gens, a, m, s, about)
    PROVE  /\ Attempts(Append(gens, g), a, m, s, about)
           /\ a + m = Len(gens) =>
                /\ Append(FaultsAfter(gens, a, m), FaultOf(g)) = FaultsAfter(Append(gens, g), a, m + 1)
                /\ g.step = s /\ g.attempt = m + 1
                   /\ g.prompt = [about |-> about, faults |-> FaultsAfter(gens, a, m)]
                     => Attempts(Append(gens, g), a, m + 1, s, about)
<1> DEFINE next == Append(gens, g)
<1>1. /\ Len(gens) \in Nat
      /\ \A i \in 1 .. Len(gens) : next[i] = gens[i]
      /\ next[Len(gens) + 1] = g
    BY AppendExtends
<1> HIDE DEF next
<1>2. \A i \in 1 .. m : a + i \in 1 .. Len(gens) /\ next[a + i] = gens[a + i]
    BY <1>1
<1>3. ASSUME NEW k \in Nat, k <= m PROVE FaultsAfter(next, a, k) = FaultsAfter(gens, a, k)
    <2>1. \A i \in 1 .. k : i \in 1 .. m
        BY <1>3
    <2>2. \A i \in 1 .. k : next[a + i] = gens[a + i]
        BY <1>2, <2>1
    <2> QED
        BY <2>2 DEF FaultsAfter
<1>4. ASSUME NEW i \in 1 .. m
      PROVE  /\ next[a + i].step = s /\ next[a + i].attempt = i
             /\ next[a + i].prompt = [about |-> about, faults |-> FaultsAfter(next, a, i - 1)]
    <2>1. next[a + i] = gens[a + i]
        BY <1>2
    <2>2. i - 1 \in Nat /\ i - 1 <= m
        OBVIOUS
    <2>3. FaultsAfter(next, a, i - 1) = FaultsAfter(gens, a, i - 1)
        BY <1>3, <2>2
    <2> QED
        BY <2>1, <2>3 DEF Attempts
<1>5. ASSUME a + m = Len(gens)
      PROVE  Append(FaultsAfter(gens, a, m), FaultOf(g)) = FaultsAfter(next, a, m + 1)
    <2> DEFINE old == FaultsAfter(gens, a, m)
               new == FaultsAfter(next, a, m + 1)
               x == FaultOf(g)
               S == {old[k] : k \in 1 .. m} \cup {x}
    <2>1. old \in Seq(S) /\ Len(old) = m /\ x \in S
        <3>1. old = [k \in 1 .. m |-> old[k]]
            BY DEF FaultsAfter
        <3> HIDE DEF old
        <3>2. \A k \in 1 .. m : old[k] \in S
            OBVIOUS
        <3> HIDE DEF S
        <3>3. old \in Seq(S) /\ Len(old) = m
            BY <3>1, <3>2
        <3> QED
            BY <3>3 DEF S
    <2>2. ASSUME NEW k \in 1 .. m PROVE new[k] = old[k]
        <3>1. k \in 1 .. m + 1 /\ next[a + k] = gens[a + k]
            BY <1>2
        <3> QED
            BY <3>1 DEF FaultsAfter
    <2>3. new[m + 1] = x
        <3>1. a + (m + 1) = Len(gens) + 1 /\ m + 1 \in 1 .. m + 1
            BY <1>5
        <3> QED
            BY <1>1, <3>1 DEF FaultsAfter
    <2>4. new = [k \in 1 .. m + 1 |-> new[k]]
        BY DEF FaultsAfter
    <2> HIDE DEF old, new, x, S
    <2>5. /\ Append(old, x) \in Seq(S) /\ Len(Append(old, x)) = m + 1
          /\ \A k \in 1 .. m : Append(old, x)[k] = old[k]
          /\ Append(old, x)[m + 1] = x
        BY <2>1, AppendProperties
    <2>6. \A k \in 1 .. m + 1 : k \in 1 .. m \/ k = m + 1
        OBVIOUS
    <2>7. \A k \in 1 .. m + 1 : Append(old, x)[k] = new[k]
        BY <2>2, <2>3, <2>5, <2>6
    <2>8. Append(old, x) = [k \in 1 .. m + 1 |-> Append(old, x)[k]]
        <3> DEFINE t == Append(old, x)
        <3>1. t \in Seq(S) /\ Len(t) = m + 1
            BY <2>5
        <3> HIDE DEF t
        <3>2. t = [k \in 1 .. m + 1 |-> t[k]]
            BY <3>1
        <3> QED
            BY <3>2 DEF t
    <2>9. Append(old, x) = new
        BY <2>4, <2>7, <2>8
    <2> QED
        BY <2>9 DEF old, new, x
<1>6. ASSUME a + m = Len(gens), g.step = s, g.attempt = m + 1,
             g.prompt = [about |-> about, faults |-> FaultsAfter(gens, a, m)]
      PROVE  Attempts(next, a, m + 1, s, about)
    <2>1. next[a + (m + 1)] = g
        BY <1>1, <1>6
    <2>2. FaultsAfter(next, a, (m + 1) - 1) = FaultsAfter(gens, a, m)
        BY <1>3
    <2>3. \A i \in 1 .. m + 1 : i \in 1 .. m \/ i = m + 1
        OBVIOUS
    <2> QED
        BY <1>4, <1>6, <2>1, <2>2, <2>3 DEF Attempts
<1> QED
    BY <1>4, <1>5, <1>6 DEF Attempts, next

\* The number of the attempt at hand.
LEMMA AttemptNumber ==
    ASSUME NEW e \in Evaluations, generations[e] \in Seq(Entries(generations[e])), step[e] \in Steps,
           NEW n \in Nat, Split(e, n)
    PROVE  /\ Attempt(e) = (IF step[e] = "extract" THEN Len(generations[e]) ELSE Len(generations[e]) - n) + 1
           /\ Of(generations[e], "extract") = 1 .. n /\ Cardinality(1 .. n) = n
           /\ Of(generations[e], "support") = n + 1 .. Len(generations[e])
           /\ Cardinality(n + 1 .. Len(generations[e])) = Len(generations[e]) - n
<1> DEFINE gens == generations[e]
           N == Len(gens)
<1>1. N \in Nat /\ DOMAIN gens = 1 .. N /\ n <= N
    <2>1. n \in 0 .. N
        BY DEF Split
    <2>2. N \in Nat /\ DOMAIN gens = 1 .. N
        OBVIOUS
    <2> HIDE DEF gens, N
    <2> QED
        BY <2>1, <2>2
<1>2. \A i \in 1 .. n : gens[i].step = "extract"
    <2>1. Attempts(gens, 0, n, "extract", << >>)
        BY DEF Split
    <2>2. \A i \in 1 .. n : 0 + i = i
        OBVIOUS
    <2> HIDE DEF gens
    <2> QED
        BY <2>1, <2>2 DEF Attempts
<1>3. \A i \in n + 1 .. N : gens[i].step = "support"
    <2>1. \A i \in n + 1 .. N : i - n \in 1 .. N - n /\ n + (i - n) = i
        BY <1>1
    <2>2. Attempts(gens, n, N - n, "support", claims[e])
        BY DEF Split
    <2> HIDE DEF gens, N
    <2>3. ASSUME NEW i \in n + 1 .. N PROVE gens[i].step = "support"
        <3> DEFINE k == i - n
        <3>1. k \in 1 .. N - n /\ n + k = i
            BY <2>1
        <3> HIDE DEF k
        <3>2. gens[n + k].step = "support"
            BY <2>2, <3>1 DEF Attempts
        <3> QED
            BY <3>1, <3>2
    <2> QED
        BY <2>3
<1>4. Of(gens, "extract") = 1 .. n /\ Of(gens, "support") = n + 1 .. N
    <2>1. \A i \in 1 .. N : i \in 1 .. n \/ i \in n + 1 .. N
        BY <1>1
    <2> HIDE DEF N
    <2> QED
        BY <1>1, <1>2, <1>3, <2>1 DEF Of
<1>5. Cardinality(1 .. n) = n /\ Cardinality(n + 1 .. N) = N - n
    <2> HIDE DEF N
    <2>1. Cardinality(1 .. n) = IF 1 > n THEN 0 ELSE n - 1 + 1
        BY FS_Interval
    <2>2. Cardinality(n + 1 .. N) = IF n + 1 > N THEN 0 ELSE N - (n + 1) + 1
        BY <1>1, FS_Interval
    <2> QED
        BY <1>1, <2>1, <2>2
<1>6. Attempt(e) = Cardinality(Of(gens, step[e])) + 1
    BY DEF Attempt, Of
<1>7. step[e] = "extract" => n = N
    BY DEF Split
<1> QED
    BY <1>4, <1>5, <1>6, <1>7 DEF Steps

\* What a step that records does to the prompt and the claims.
LEMMA RecordingMoves ==
    ASSUME Types, NEW e \in Evaluations, Recording(e)
    PROVE  \/ /\ step' = step /\ claims' = claims /\ stage'[e] = "lookup"
              /\ prompt'[e] = [prompt[e] EXCEPT !.faults = Append(prompt[e].faults, Fault(e))]
           \/ /\ step' = step /\ claims' = claims /\ stage'[e] \in {"sealed", "failed"}
           \/ /\ step[e] = "extract" /\ step'[e] = "support" /\ IsRead(Recorded(e)) /\ stage'[e] = "lookup"
              /\ claims'[e] = Claims(Reading[answer[e].text].list)
              /\ prompt'[e] = [about |-> claims'[e], faults |-> << >>]
<1> USE DEF Types, Goto, Fail
<1>1. CASE Repair(e)
    BY <1>1 DEF Repair
<1>2. CASE RepairFails(e)
    BY <1>2 DEF RepairFails
<1>3. CASE GiveUp(e)
    BY <1>3 DEF GiveUp
<1>4. CASE Extract(e)
    BY <1>4 DEF Extract, Fault, IsRead, FaultOf, Recorded
<1>5. CASE Judge(e)
    BY <1>5 DEF Judge
<1> QED
    BY <1>1, <1>2, <1>3, <1>4, <1>5 DEF Recording

LEMMA RecordingKeepsSplit ==
    ASSUME IInv, NEW e \in Evaluations, Recording(e), NEW n \in Nat, Split(e, n)
    PROVE  \E m \in Nat : Split(e, m)'
<1> DEFINE s == generations[e]
           g == Recorded(e)
           next == Append(s, g)
           next_extracts == IF step[e] = "extract" THEN n + 1 ELSE n
<1>1. Types /\ step[e] \in Steps /\ s \in Seq(Entries(s))
    BY DEF IInv, Types, AttemptsInv
<1>2. stage[e] = "decoding" /\ generations'[e] = next
    BY <1>1, RecordingAppends
<1>3. PICK N \in Nat : N = Len(s)
    BY <1>1
<1>4. /\ n <= N
      /\ Attempts(s, 0, n, "extract", << >>)
      /\ Attempts(s, n, N - n, "support", claims[e])
      /\ step[e] = "extract" => n = N
      /\ step[e] = "support" => /\ n >= 1 /\ IsRead(s[n])
                                /\ claims[e] = Claims(Reading[s[n].text].list)
    BY <1>3 DEF Split
<1>5. /\ Len(next) = N + 1 /\ next[N + 1] = g
      /\ \A i \in 1 .. N : next[i] = s[i]
    <2>1. Len(next) = N + 1
        <3> DEFINE S == Entries(s) \cup {g}
        <3>1. s \in Seq(S) /\ g \in S
            BY <1>1
        <3> HIDE DEF S, s, g
        <3> QED
            BY <1>3, <3>1, AppendProperties
    <2> QED
        BY <1>1, <1>3, <2>1, AppendExtends
<1>6. /\ g.step = step[e] /\ g.prompt = prompt[e] /\ g.text = answer[e].text
      /\ g.attempt = (IF step[e] = "extract" THEN N ELSE N - n) + 1
      /\ FaultOf(g) = Fault(e)
    BY <1>1, <1>3, AttemptNumber DEF Recorded, Fault, FaultOf
<1>7. prompt[e] = IF step[e] = "extract"
                  THEN [about |-> << >>, faults |-> FaultsAfter(s, 0, N)]
                  ELSE [about |-> claims[e], faults |-> FaultsAfter(s, n, N - n)]
    <2>1. step[e] = "extract" => N - 0 = N
        BY <1>3
    <2> QED
        BY <1>2, <1>3, <2>1 DEF Split, Running
<1> HIDE DEF s, g, next
<1>8. CASE step[e] = "extract"
    <2>1. n = N /\ 0 \in Nat /\ 0 + N = N
        BY <1>4, <1>8
    <2>2. /\ Attempts(next, 0, N + 1, "extract", << >>)
          /\ Append(FaultsAfter(s, 0, N), Fault(e)) = FaultsAfter(next, 0, N + 1)
        <3>1. s \in Seq(Entries(s)) /\ 0 + N <= Len(s) /\ 0 + N = Len(s)
            BY <1>1, <1>3
        <3>2. /\ g.step = "extract" /\ g.attempt = N + 1
              /\ g.prompt = [about |-> << >>, faults |-> FaultsAfter(s, 0, N)]
            BY <1>6, <1>7, <1>8
        <3> QED
            BY <1>4, <1>6, <2>1, <3>1, <3>2, AttemptsGrow DEF next
    <2>3. ASSUME NEW about PROVE Attempts(next, N + 1, (N + 1) - (N + 1), "support", about)
        BY <1>3 DEF Attempts
    <2>4. CASE step' = step /\ claims' = claims /\ stage'[e] = "lookup"
               /\ prompt'[e] = [prompt[e] EXCEPT !.faults = Append(prompt[e].faults, Fault(e))]
        <3>1. prompt'[e] = [about |-> << >>, faults |-> FaultsAfter(next, 0, N + 1)]
            BY <1>7, <1>8, <2>2, <2>4
        <3>2. (N + 1) - 0 = N + 1 /\ N + 1 \in 0 .. N + 1 /\ N + 1 \in Nat
            BY <1>3
        <3>3. Split(e, N + 1)'
            BY <1>2, <1>5, <1>8, <2>2, <2>3, <2>4, <3>1, <3>2 DEF Split
        <3> QED
            BY <3>2, <3>3
    <2>5. CASE step' = step /\ claims' = claims /\ stage'[e] \in {"sealed", "failed"}
        <3>1. N + 1 \in 0 .. N + 1 /\ N + 1 \in Nat
            BY <1>3
        <3>2. Split(e, N + 1)'
            BY <1>2, <1>5, <1>8, <2>2, <2>3, <2>5, <3>1 DEF Split, Running
        <3> QED
            BY <3>1, <3>2
    <2>6. CASE /\ step'[e] = "support" /\ IsRead(g) /\ stage'[e] = "lookup"
               /\ claims'[e] = Claims(Reading[answer[e].text].list)
               /\ prompt'[e] = [about |-> claims'[e], faults |-> << >>]
        <3>1. N + 1 \in 0 .. N + 1 /\ N + 1 \in Nat /\ N + 1 >= 1 /\ (N + 1) - (N + 1) = 0
            BY <1>3
        <3>2. FaultsAfter(next, N + 1, 0) = << >>
            BY NoFaults
        <3>3. Split(e, N + 1)'
            BY <1>2, <1>5, <1>6, <2>2, <2>3, <2>6, <3>1, <3>2 DEF Split
        <3> QED
            BY <3>1, <3>3
    <2> QED
        BY <1>1, <2>4, <2>5, <2>6, RecordingMoves DEF g
<1>9. CASE step[e] = "support"
    <2>1. N - n \in Nat /\ n + (N - n) = N /\ (N + 1) - n = (N - n) + 1 /\ n \in 0 .. N + 1
        BY <1>3, <1>4
    <2>2. PICK c : c = claims[e]
        OBVIOUS
    <2>3. /\ Attempts(next, 0, n, "extract", << >>)
          /\ Attempts(next, n, (N - n) + 1, "support", c)
          /\ Append(FaultsAfter(s, n, N - n), Fault(e)) = FaultsAfter(next, n, (N - n) + 1)
        <3>1. s \in Seq(Entries(s)) /\ 0 + n <= Len(s) /\ n + (N - n) = Len(s)
            BY <1>1, <1>3, <1>4
        <3>2. Attempts(next, 0, n, "extract", << >>)
            BY <1>4, <3>1, AttemptsGrow DEF next
        <3>3. /\ g.step = "support" /\ g.attempt = (N - n) + 1
              /\ g.prompt = [about |-> c, faults |-> FaultsAfter(s, n, N - n)]
            BY <1>6, <1>7, <1>9, <2>2
        <3>4. Attempts(s, n, N - n, "support", c) /\ n + (N - n) <= Len(s)
            BY <1>4, <2>2, <3>1
        <3> QED
            BY <1>6, <2>1, <3>1, <3>2, <3>3, <3>4, AttemptsGrow DEF next
    <2>4. /\ n >= 1 /\ next[n] = s[n]
          /\ IsRead(next[n]) /\ c = Claims(Reading[next[n].text].list)
        BY <1>3, <1>4, <1>5, <1>9, <2>2
    <2>5. step'[e] = "support" /\ claims'[e] = c
          /\ (stage'[e] = "lookup" =>
                prompt'[e] = [about |-> c, faults |-> FaultsAfter(next, n, (N - n) + 1)])
          /\ stage'[e] \in {"lookup", "sealed", "failed"}
        <3>1. /\ prompt[e] = [about |-> c, faults |-> FaultsAfter(s, n, N - n)]
              /\ [prompt[e] EXCEPT !.faults = Append(prompt[e].faults, Fault(e))] =
                    [about |-> c, faults |-> FaultsAfter(next, n, (N - n) + 1)]
            BY <1>7, <1>9, <2>2, <2>3
        <3>2. step[e] # "extract"
            BY <1>9
        <3> QED
            BY <1>1, <1>9, <2>2, <3>1, <3>2, RecordingMoves, Zenon
    <2>6. Split(e, n)'
        BY <1>2, <1>5, <2>1, <2>3, <2>4, <2>5 DEF Split, Running
    <2> QED
        BY <2>6
<1> QED
    BY <1>1, <1>8, <1>9 DEF Steps

LEMMA StepChain == IInv /\ ChainInv /\ [Next]_vars => ChainInv'
<1> SUFFICES ASSUME IInv, ChainInv, [Next]_vars, NEW f \in Evaluations PROVE \E n \in Nat : Split(f, n)'
    BY DEF ChainInv
<1>1. PICK n \in Nat : Split(f, n)
    BY DEF ChainInv
<1>2. ASSUME /\ step'[f] = step[f] /\ claims'[f] = claims[f] /\ prompt'[f] = prompt[f]
             /\ generations'[f] = generations[f]
             /\ stage'[f] \in Running \cup {"idle"} => stage[f] \in Running \cup {"idle"}
      PROVE  Split(f, n)'
    BY <1>1, <1>2 DEF Split
<1>3. ASSUME NEW e \in Evaluations, Begin(e) \/ Proceed(e)
      PROVE  \E m \in Nat : Split(f, m)'
    <2>1. CASE f # e
        <3>1. Frame(e)
            BY <1>3, StepFrames DEF IInv
        <3> QED
            BY <1>2, <2>1, <3>1 DEF Frame
    <2>2. CASE f = e /\ Recording(e)
        BY <1>1, <2>2, RecordingKeepsSplit
    <2>3. CASE f = e /\ ~Recording(e)
        <3>1. \/ Begin(e) \/ RenderFails(e) \/ LoadHit(e) \/ LoadNothing(e) \/ Generate(e)
              \/ GeneratorFails(e) \/ Store(e) \/ CacheFails(e)
            BY <1>3, <2>3 DEF Proceed, Recording
        <3>2. UNCHANGED <<step, claims, prompt, generations>> /\ stage[e] \in Running \cup {"idle"}
            BY <3>1 DEF Begin, RenderFails, LoadHit, LoadNothing, Generate, GeneratorFails, Store, CacheFails, Running
        <3> QED
            BY <1>2, <2>3, <3>2
    <2> QED
        BY <2>1, <2>2, <2>3
<1>4. CASE UNCHANGED vars
    <2>1. UNCHANGED <<stage, step, prompt, claims, generations>>
        BY <1>4 DEF vars, evalVars
    <2> QED
        BY <1>2, <2>1
<1> QED
    BY <1>3, <1>4 DEF Next

LEMMA SpecChain == Spec => []ChainInv
<1>1. Init => ChainInv
    <2> SUFFICES ASSUME Init, NEW e \in Evaluations PROVE \E n \in Nat : Split(e, n)
        BY DEF ChainInv
    <2>1. /\ generations[e] = << >> /\ step[e] = "extract" /\ Len(generations[e]) = 0
          /\ prompt[e] = [about |-> << >>, faults |-> << >>]
        BY DEF Init
    <2>2. FaultsAfter(<< >>, 0, 0) = << >>
        BY NoFaults
    <2>3. Split(e, 0)
        BY <2>1, <2>2 DEF Split, Attempts
    <2> QED
        BY <2>3
<1> QED
    BY <1>1, StepChain, SpecInv, PTL DEF Spec

-----------------------------------------------------------------------------
(* What follows *)

\* A cached answer stands for what its key says: a cache-using evaluation of the
\* same protocol and instance got it fresh from the expected model for that very
\* prompt, and there is one answer per key (claimjudge.go 525-560, cache.go 57-74).
THEOREM CachedAnswersAreGenuine == Spec => []CacheIsGenuine
<1>1. IInv => CacheIsGenuine
    <2> SUFFICES ASSUME IInv PROVE CacheIsGenuine
        OBVIOUS
    <2>1. ASSUME NEW entry \in cache
          PROVE  LET e == entry.by IN
                 /\ Mode(e) = "use"
                 /\ entry.key.protocol = job[e].protocol /\ entry.key.instance = job[e].instance
                 /\ entry.model = Expected[entry.key.protocol]
                 /\ \/ \E i \in FreshAt(e) :
                        /\ generations[e][i].step = entry.key.step /\ generations[e][i].prompt = entry.key.prompt
                        /\ generations[e][i].text = entry.text
                    \/ stage[e] = "decoding" /\ KeyOf(e) = entry.key /\ answer[e].text = entry.text
        BY DEF IInv, EntryInv, Generated, FreshAt, Misses
    <2> QED
        BY <2>1 DEF CacheIsGenuine, IInv
<1> QED
    BY <1>1, SpecInv, PTL

\* A bypassing evaluation reports fresh generations only, one per call it made,
\* and leaves nothing in the cache (claimjudge.go 532-555, interfaces.go 46-48).
THEOREM BypassStaysFresh == Spec => []BypassIsFresh
<1>1. IInv => BypassIsFresh
    <2> SUFFICES ASSUME IInv, NEW e \in Evaluations, Mode(e) = "bypass"
                 PROVE  /\ \A i \in DOMAIN generations[e] : ~generations[e][i].hit
                        /\ stage[e] = "sealed" => calls[e] = Len(generations[e])
                        /\ \A entry \in cache : entry.by # e
        BY DEF BypassIsFresh
    <2>1. Misses(generations[e]) = DOMAIN generations[e]
        BY DEF IInv, ModeInv
    <2>2. \A i \in DOMAIN generations[e] : ~generations[e][i].hit
        BY <2>1 DEF Misses
    <2>3. ASSUME stage[e] = "sealed" PROVE calls[e] = Len(generations[e])
        <3>1. generations[e] \in Seq(Entries(generations[e]))
            BY DEF IInv, AttemptsInv
        <3>2. Cardinality(DOMAIN generations[e]) = Len(generations[e]) /\ Len(generations[e]) \in Nat
            BY <3>1, Countable
        <3>3. calls[e] = Cardinality(Misses(generations[e])) + Owed(e) /\ Owed(e) = 0
            BY <2>3 DEF IInv, CallsInv, Owed
        <3> QED
            BY <2>1, <3>2, <3>3
    <2>4. \A entry \in cache : entry.by # e
        BY DEF IInv, EntryInv
    <2> QED
        BY <2>2, <2>3, <2>4
<1> QED
    BY <1>1, SpecInv, PTL

\* Calls are accounted for and bounded by the protocol's attempts
\* (claimjudge.go 123-124, 491-505).
THEOREM CostIsBounded == Spec => []CostBounded
<1>1. IInv => CostBounded
    <2> SUFFICES ASSUME IInv, NEW e \in Evaluations
                 PROVE  /\ calls[e] - Cardinality(FreshAt(e)) \in
                            IF stage[e] \in {"idle", "lookup", "sealed"} \/ failure[e] \in {"answer", "rejected"}
                            THEN {0} ELSE {0, 1}
                        /\ calls[e] <= 2 * Limit[job[e].protocol]
                        /\ failure[e] = "rejected" => calls[e] = 0 /\ generations[e] = << >>
        BY DEF CostBounded
    <2>1. FreshAt(e) = Misses(generations[e])
        BY DEF FreshAt, Misses
    <2>2. Cardinality(Misses(generations[e])) \in Nat
        BY Countable DEF IInv, AttemptsInv
    <2>3. CallsInv(e)
        BY DEF IInv
    <2>4. CASE failure[e] = "outage"
        <3>1. stage[e] = "failed" /\ calls[e] - Cardinality(FreshAt(e)) \in {0, 1}
            BY <2>1, <2>3, <2>4 DEF CallsInv
        <3> QED
            BY <2>3, <2>4, <3>1 DEF CallsInv
    <2>5. CASE failure[e] # "outage"
        <3>1. calls[e] = Cardinality(FreshAt(e)) + Owed(e) /\ Owed(e) \in {0, 1}
            BY <2>1, <2>3, <2>5 DEF CallsInv, Owed
        <3>2. stage[e] \in {"idle", "lookup", "sealed"} \/ failure[e] \in {"answer", "rejected"} => Owed(e) = 0
            BY <2>3 DEF CallsInv, Owed
        <3> QED
            BY <2>1, <2>2, <2>3, <3>1, <3>2 DEF CallsInv
    <2> QED
        BY <2>4, <2>5
<1> QED
    BY <1>1, SpecInv, PTL

\* A report is sealed only on a support text that judges every claim once, in
\* order; only texts that are one object and nothing else were read, at whatever
\* length; what was read is not asked again, and in a report what could not be
\* read was (claimjudge.go 491-523, 326-402; strictdecode.go 113-134).
THEOREM InvalidAnswersFail == Spec => []FailsClosed
<1>1. IInv /\ ReadInv => FailsClosed
    <2> SUFFICES ASSUME IInv, ReadInv, NEW e \in Evaluations
                 PROVE  /\ stage[e] = "sealed" =>
                            LET last == Reading[generations[e][Len(generations[e])].text]
                            IN  last.sound /\ last.list = [i \in 1 .. Len(claims[e]) |-> i]
                        /\ \A i \in DOMAIN generations[e] :
                            LET g == generations[e][i]
                                followed == \E k \in DOMAIN generations[e] : k > i /\ generations[e][k].step = g.step
                            IN  IF Reading[g.text].fault = "" THEN OneObject(g.text) /\ ~followed
                                ELSE stage[e] = "sealed" => followed
        BY DEF FailsClosed
    <2> DEFINE Followed(i) == \E k \in DOMAIN generations[e] : k > i /\ generations[e][k].step = generations[e][i].step
    <2>1. TextInv(e) /\ OrderInv(e) /\ AttemptsInv(e)
        BY DEF IInv, ReadInv
    <2>2. DOMAIN generations[e] \subseteq Int
        <3>1. generations[e] \in Seq(Entries(generations[e]))
            BY <2>1 DEF AttemptsInv
        <3>2. Len(generations[e]) \in Nat /\ DOMAIN generations[e] = 1 .. Len(generations[e])
            BY <3>1
        <3> QED
            BY <3>2
    <2>3. ASSUME stage[e] = "sealed"
          PROVE  /\ Reading[generations[e][Len(generations[e])].text].sound
                 /\ Reading[generations[e][Len(generations[e])].text].list = [i \in 1 .. Len(claims[e]) |-> i]
        BY <2>1, <2>3 DEF OrderInv, SealedOn
    <2>4. ASSUME NEW i \in DOMAIN generations[e], FaultAt(e, i) = ""
          PROVE  OneObject(generations[e][i].text) /\ ~Followed(i)
        <3>1. generations[e][i].text \in AllTexts
            BY <2>1 DEF TextInv
        <3>2. generations[e][i].text \in Text
            BY <3>1, JudgeAssumption DEF AllTexts
        <3>3. DecodeJSONObjectStrict(generations[e][i].text).fault = ""
            BY <2>4, <3>1, ReadingDecodes, Zenon DEF FaultAt
        <3>4. OneObject(generations[e][i].text)
            BY <3>2, <3>3, StrictDecodingIsExact
        <3>5. ~Followed(i)
            BY <2>1, <2>2, <2>4 DEF OrderInv, StepAt
        <3> QED
            BY <3>4, <3>5
    <2>5. ASSUME NEW i \in DOMAIN generations[e], FaultAt(e, i) # "", stage[e] = "sealed"
          PROVE  Followed(i)
        <3>1. PICK k \in DOMAIN generations[e] : StepAt(e, k) = StepAt(e, i) /\ FaultAt(e, k) = ""
            BY <2>1, <2>5 DEF OrderInv, SealedOn, Steps
        <3>2. k # i /\ ~(k < i)
            BY <2>1, <2>5, <3>1 DEF OrderInv
        <3>3. k > i
            BY <2>2, <3>2
        <3> QED
            BY <3>1, <3>3 DEF StepAt
    <2> QED
        BY <2>3, <2>4, <2>5 DEF FaultAt
<1> QED
    BY <1>1, SpecInv, SpecRead, PTL

\* The m generations behind position a are all the attempts of a step: the last
\* one, and no other, could be read.
AllAttempts(gens, a, m, s, about, limit) ==
    /\ gens \in Seq(Entries(gens)) /\ a \in Nat /\ m \in Nat /\ limit \in Nat
    /\ m >= 1 /\ m <= limit /\ a + m <= Len(gens)
    /\ Attempts(gens, a, m, s, about) /\ IsRead(gens[a + m])
    /\ \A i \in 1 .. m : i < m => ~IsRead(gens[a + i])

\* What provenance says of one step: a chain, of that step's generations.
StepChainOf(part, s, about, limit) ==
    Chain(part, about, limit) /\ \A i \in DOMAIN part : part[i].step = s

\* Such a stretch of the generations is what provenance calls a chain.
LEMMA ChainOf ==
    ASSUME NEW gens, NEW a, NEW m, NEW s, NEW about, NEW limit, AllAttempts(gens, a, m, s, about, limit),
           NEW first, NEW last, first = a + 1, last = a + m,
           NEW part, part = SubSeq(gens, first, last)
    PROVE  StepChainOf(part, s, about, limit)
<1>0. /\ gens \in Seq(Entries(gens)) /\ a \in Nat /\ m \in Nat /\ limit \in Nat
      /\ m >= 1 /\ m <= limit /\ a + m <= Len(gens)
      /\ Attempts(gens, a, m, s, about) /\ IsRead(gens[a + m])
      /\ \A i \in 1 .. m : i < m => ~IsRead(gens[a + i])
    BY DEF AllAttempts
<1> USE <1>0
<1>1. Len(part) = m /\ DOMAIN part = 1 .. m /\ \A i \in 1 .. m : part[i] = gens[a + i]
    <2> DEFINE b == a + 1
               c == a + m
    <2>1. b \in Int /\ c \in Int /\ b <= c /\ c - b + 1 = m /\ \A i \in 1 .. m : b + i - 1 = a + i
        OBVIOUS
    <2>2. \A i \in b .. c : gens[i] \in Entries(gens)
        <3>1. Len(gens) \in Nat /\ DOMAIN gens = 1 .. Len(gens)
            OBVIOUS
        <3>2. \A i \in b .. c : i \in DOMAIN gens
            BY <3>1
        <3> HIDE DEF b, c
        <3> QED
            BY <3>2 DEF Entries
    <2> HIDE DEF b, c
    <2>3. /\ part \in Seq(Entries(gens)) /\ Len(part) = m
          /\ \A i \in 1 .. c - b + 1 : part[i] = gens[b + i - 1]
        BY <2>1, <2>2, SubSeqProperties DEF b, c
    <2>4. DOMAIN part = 1 .. m
        BY <2>3
    <2>5. \A i \in 1 .. m : part[i] = gens[a + i]
        BY <2>1, <2>3
    <2> QED
        BY <2>3, <2>4, <2>5
<1>2. ASSUME NEW i \in 1 .. m
      PROVE  [k \in 1 .. i - 1 |-> FaultOf(part[k])] = FaultsAfter(gens, a, i - 1)
    <2>1. \A k \in 1 .. i - 1 : k \in 1 .. m
        OBVIOUS
    <2>2. \A k \in 1 .. i - 1 : part[k] = gens[a + k]
        BY <1>1, <2>1
    <2> QED
        BY <2>2 DEF FaultsAfter
<1>3. ASSUME NEW i \in 1 .. m
      PROVE  /\ part[i].step = s /\ part[i].attempt = i
             /\ i < m => ~IsRead(part[i])
             /\ part[i].prompt = [about |-> about, faults |-> [k \in 1 .. i - 1 |-> FaultOf(part[k])]]
    BY <1>1, <1>2 DEF Attempts
<1>4. IsRead(part[m])
    <2>1. m \in 1 .. m
        OBVIOUS
    <2> QED
        BY <1>1, <2>1
<1>5. Len(part) \in 1 .. limit
    BY <1>1
<1>6. Chain(part, about, limit)
    BY <1>1, <1>3, <1>4, <1>5, Zenon DEF Chain, FaultOf, IsRead
<1> QED
    BY <1>1, <1>3, <1>6 DEF StepChainOf

\* The provenance of a sealed report tells the whole run: every attempt of
\* extraction and then of support, numbered and in order, each asked with what
\* the failed ones before it taught (claimjudge.go 225-344, 491-523).
THEOREM ProvenanceIsComplete == Spec => []ProvenanceTellsTheRun
<1>1. IInv /\ ReadInv /\ ChainInv => ProvenanceTellsTheRun
    <2> SUFFICES ASSUME IInv, ReadInv, ChainInv, NEW e \in Evaluations, stage[e] = "sealed"
                 PROVE  \E n \in 1 .. (Len(generations[e]) - 1) :
                            LET extract == SubSeq(generations[e], 1, n)
                                support == SubSeq(generations[e], n + 1, Len(generations[e]))
                                limit == Limit[job[e].protocol]
                            IN  /\ \A i \in DOMAIN extract : extract[i].step = "extract"
                                /\ \A i \in DOMAIN support : support[i].step = "support"
                                /\ Chain(extract, << >>, limit)
                                /\ claims[e] = Claims(Reading[extract[n].text].list)
                                /\ Chain(support, claims[e], limit)
        BY DEF ProvenanceTellsTheRun
    <2> DEFINE limit == Limit[job[e].protocol]
    <2>1. PICK n \in Nat : Split(e, n)
        BY DEF ChainInv
    <2>2. PICK gens : gens = generations[e]
        OBVIOUS
    <2>3. gens \in Seq(Entries(gens))
        BY <2>2 DEF IInv, AttemptsInv
    <2>4. PICK N \in Nat : N = Len(gens)
        BY <2>3
    <2>5. Types /\ step[e] = "support" /\ SealedOn(e) /\ OrderInv(e) /\ AttemptsInv(e) /\ limit \in Nat
        BY LimitType DEF IInv, ReadInv, OrderInv
    <2>6. /\ n <= N /\ n >= 1
          /\ Attempts(gens, 0, n, "extract", << >>)
          /\ Attempts(gens, n, N - n, "support", claims[e])
          /\ IsRead(gens[n])
          /\ claims[e] = Claims(Reading[gens[n].text].list)
        BY <2>1, <2>2, <2>4, <2>5 DEF Split
    <2>7. /\ N \in 1 .. N /\ gens[N].step = "support" /\ IsRead(gens[N])
        <3>1. N \in DOMAIN gens /\ gens[N].step = "support"
            BY <2>2, <2>4, <2>5 DEF SealedOn, StepAt
        <3>2. IsRead(gens[N])
            BY <2>2, <2>4, <2>5, Zenon DEF SealedOn, FaultAt, FaultOf, IsRead
        <3> QED
            BY <2>3, <2>4, <3>1, <3>2
    <2>20. \A i \in 1 .. n : gens[i].step = "extract"
        <3>1. Of(generations[e], "extract") = 1 .. n
            BY <2>1, <2>2, <2>3, <2>5, AttemptNumber DEF Steps
        <3> QED
            BY <2>2, <3>1 DEF Of
    <2>8. n < N
        <3>1. n \in 1 .. n
            BY <2>6
        <3>2. n # N
            BY <2>7, <2>20, <3>1
        <3> QED
            BY <2>6, <3>2
    <2>9. n <= limit /\ N - n <= limit
        <3>1. Cardinality(Of(gens, "extract")) <= limit /\ Cardinality(Of(gens, "support")) <= limit
            BY <2>2, <2>5 DEF AttemptsInv, Steps
        <3> HIDE DEF limit
        <3> QED
            BY <2>1, <2>2, <2>3, <2>4, <2>5, <3>1, AttemptNumber DEF Steps
    <2>10. ASSUME NEW i \in 1 .. N, NEW k \in 1 .. N, i < k, gens[i].step = gens[k].step
           PROVE  ~IsRead(gens[i])
        <3>1. DOMAIN gens = 1 .. N
            BY <2>3, <2>4
        <3> QED
            BY <2>2, <2>5, <2>10, <3>1 DEF OrderInv, StepAt, FaultAt, FaultOf, IsRead
    <2>11. PICK extract : extract = SubSeq(gens, 1, n)
        OBVIOUS
    <2>12. PICK support : support = SubSeq(gens, n + 1, N)
        OBVIOUS
    <2>13. PICK about : about = claims[e]
        OBVIOUS
    <2>14. PICK top \in Nat : top = limit
        BY <2>5
    <2> HIDE DEF limit
    <2>15. StepChainOf(extract, "extract", << >>, top)
        <3>1. 0 + 1 = 1 /\ 0 + n = n /\ 0 + n <= Len(gens) /\ n <= top
            BY <2>4, <2>6, <2>9, <2>14
        <3>2. ASSUME NEW i \in 1 .. n, i < n PROVE ~IsRead(gens[0 + i])
            <4>1. i \in 1 .. N /\ n \in 1 .. N /\ n \in 1 .. n /\ 0 + i = i
                BY <2>6
            <4>2. gens[i].step = gens[n].step
                BY <2>20, <4>1
            <4> QED
                BY <2>10, <3>2, <4>1, <4>2
        <3>3. extract = SubSeq(gens, 1, n) /\ 1 = 0 + 1 /\ n = 0 + n
            BY <2>11, <3>1
        <3>4. IsRead(gens[0 + n]) /\ 0 \in Nat
            BY <2>6, <3>1
        <3>5. AllAttempts(gens, 0, n, "extract", << >>, top)
            BY <2>3, <2>6, <3>1, <3>2, <3>4 DEF AllAttempts
        <3> QED
            BY <3>3, <3>5, ChainOf
    <2>16. StepChainOf(support, "support", about, top)
        <3> DEFINE m == N - n
        <3>1. m \in Nat /\ m >= 1 /\ m <= top /\ n + m = N /\ N <= Len(gens)
            BY <2>4, <2>6, <2>8, <2>9, <2>14
        <3>2. Attempts(gens, n, m, "support", about)
            BY <2>6, <2>13
        <3> HIDE DEF m
        <3>3. ASSUME NEW i \in 1 .. m, i < m PROVE ~IsRead(gens[n + i])
            <4>1. gens[n + i].step = "support"
                BY <3>2 DEF Attempts
            <4>2. n + i \in 1 .. N /\ n + i < N
                BY <3>1, <3>3
            <4> QED
                BY <2>7, <2>10, <4>1, <4>2
        <3>4. support = SubSeq(gens, n + 1, N) /\ N = n + m
            BY <2>12, <3>1
        <3>5. IsRead(gens[n + m]) /\ n + m <= Len(gens)
            BY <2>7, <3>1
        <3>6. AllAttempts(gens, n, m, "support", about, top)
            BY <2>3, <3>1, <3>2, <3>3, <3>5 DEF AllAttempts
        <3> QED
            BY <3>4, <3>6, ChainOf
    <2>17. extract[n] = gens[n]
        BY <2>3, <2>4, <2>6, <2>11
    <2>18. n \in 1 .. (N - 1)
        BY <2>6, <2>8
    <2>19. /\ extract = SubSeq(generations[e], 1, n)
           /\ support = SubSeq(generations[e], n + 1, Len(generations[e]))
           /\ n \in 1 .. (Len(generations[e]) - 1)
           /\ claims[e] = Claims(Reading[extract[n].text].list)
        BY <2>2, <2>4, <2>6, <2>11, <2>12, <2>17, <2>18
    <2>21. /\ \A i \in DOMAIN extract : extract[i].step = "extract"
           /\ \A i \in DOMAIN support : support[i].step = "support"
           /\ Chain(extract, << >>, Limit[job[e].protocol])
           /\ Chain(support, claims[e], Limit[job[e].protocol])
        BY <2>13, <2>14, <2>15, <2>16, Zenon DEF StepChainOf, limit
    <2> QED
        BY <2>19, <2>21, Zenon
<1> QED
    BY <1>1, SpecInv, SpecRead, SpecChain, PTL

-----------------------------------------------------------------------------
(* Warm runs: what an evaluation asks, and what the cache answers *)

\* What an attempt asks, a step and its prompt; the same of a generation or a key.
Asked(e) == [step |-> step[e], prompt |-> prompt[e]]
AskedIn(x) == [step |-> x.step, prompt |-> x.prompt]
First == [step |-> "extract", prompt |-> [about |-> << >>, faults |-> << >>]]

\* What a text leads to, and whether it is the last one.
Following(asked, text) ==
    IF Reading[text].fault # ""
    THEN [step |-> asked.step,
          prompt |-> [about |-> asked.prompt.about,
                      faults |-> Append(asked.prompt.faults, Reading[text].fault)]]
    ELSE [step |-> "support", prompt |-> [about |-> Claims(Reading[text].list), faults |-> << >>]]

Final(asked, text, limit) ==
    IF Reading[text].fault # "" THEN Len(asked.prompt.faults) + 1 >= limit ELSE asked.step = "support"

Passes(asked, text) ==
    /\ Reading[text].fault = "" /\ asked.step = "support" /\ Reading[text].sound
    /\ Reading[text].list = [i \in 1 .. Len(asked.prompt.about) |-> i]

\* An evaluation asks what the texts before tell it to ask, and ends on one
\* that leads nowhere.
WalkInv(e) ==
    LET gens == generations[e]
        n == Len(gens)
        limit == Limit[job[e].protocol]
    IN  /\ \A i \in DOMAIN gens : AskedIn(gens[i]) =
            IF i = 1 THEN First ELSE Following(AskedIn(gens[i - 1]), gens[i - 1].text)
        /\ \A i \in DOMAIN gens : i < n => ~Final(AskedIn(gens[i]), gens[i].text, limit)
        /\ stage[e] \in Running \cup {"idle"} =>
            /\ Asked(e) = IF n = 0 THEN First ELSE Following(AskedIn(gens[n]), gens[n].text)
            /\ n # 0 => ~Final(AskedIn(gens[n]), gens[n].text, limit)
        /\ Ended(e) =>
            /\ n # 0 /\ Asked(e) = AskedIn(gens[n]) /\ Final(AskedIn(gens[n]), gens[n].text, limit)
            /\ stage[e] = "sealed" <=> Passes(AskedIn(gens[n]), gens[n].text)
        /\ claims[e] = IF step[e] = "support" THEN prompt[e].about ELSE << >>

KeyFor(e, asked) ==
    [protocol |-> job[e].protocol, instance |-> job[e].instance,
     step |-> asked.step, prompt |-> asked.prompt]

\* The cache answers what e may ask; it answers it with text.
Holds(e, asked) == \E entry \in cache : entry.key = KeyFor(e, asked)
HoldsText(e, asked, text) == \E entry \in cache : entry.key = KeyFor(e, asked) /\ entry.text = text

\* The evaluations that share every cache key with e, e among them.
Sharing(e) == {f \in Evaluations :
    Mode(f) = "use" /\ job[f].protocol = job[e].protocol /\ job[f].instance = job[e].instance}

HeldInv(e) ==
    Mode(e) = "use" =>
        /\ stage[e] = "decoding" => Holds(e, Asked(e))
        /\ generations[e] # << >> => Holds(e, First)

Settled(entry) ==
    \/ Final(AskedIn(entry.key), entry.text, Limit[entry.key.protocol])
    \/ Holds(entry.by, Following(AskedIn(entry.key), entry.text))

\* An entry that leads somewhere leads to another entry, unless its writer is
\* on the way there or has failed.
LeadsInv(entry) ==
    LET e == entry.by IN
    \/ Settled(entry)
    \/ failure[e] = "outage"
    \/ stage[e] = "decoding" /\ Asked(e) = AskedIn(entry.key) /\ answer[e].text = entry.text
    \/ /\ stage[e] \in {"lookup", "asking", "storing"}
       /\ Asked(e) = Following(AskedIn(entry.key), entry.text)

\* The cache answers everything that the evaluations sharing it with e may ask.
Warm(e) ==
    /\ Holds(e, First)
    /\ \A entry \in cache : entry.by \in Sharing(e) => Settled(entry)
    /\ \A f \in Sharing(e) :
        /\ stage[f] \notin {"asking", "storing"}
        /\ stage[f] = "lookup" => Holds(f, Asked(f))
        /\ stage[f] = "decoding" => HoldsText(f, Asked(f), answer[f].text)

WarmInv(e) ==
    warm[e] =>
        /\ Mode(e) = "use" /\ calls[e] = 0 /\ Warm(e)
        /\ \A i \in DOMAIN generations[e] : HoldsText(e, AskedIn(generations[e][i]), generations[e][i].text)

WalksInv ==
    /\ \A e \in Evaluations : WalkInv(e) /\ HeldInv(e) /\ WarmInv(e)
    /\ \A entry \in cache : LeadsInv(entry)

LEMMA AttemptAsked ==
    ASSUME IInv, ChainInv, TypeOK, NEW e \in Evaluations, stage[e] \in Running
    PROVE  Fault(e) # "" => (Exhausted(e) <=> Final(Asked(e), answer[e].text, Limit[job[e].protocol]))
<1> DEFINE gens == generations[e]
           faults == prompt[e].faults
<1>1. PICK n \in Nat : Split(e, n)
    BY DEF ChainInv
<1>2. /\ gens \in Seq(Entries(gens)) /\ step[e] \in Steps
      /\ faults \in Seq(Faults)
    BY DEF IInv, Types, AttemptsInv, TypeOK, Prompt
<1>3. Attempt(e) = (IF step[e] = "extract" THEN Len(gens) ELSE Len(gens) - n) + 1
    BY <1>1, <1>2, AttemptNumber
<1> DEFINE a == IF step[e] = "extract" THEN 0 ELSE n
           m == Len(gens) - a
<1>4. faults = FaultsAfter(gens, a, m)
    <2>1. prompt[e] = [about |-> IF step[e] = "extract" THEN << >> ELSE claims[e],
                       faults |-> FaultsAfter(gens, a, Len(gens) - a)]
        BY <1>1 DEF Split, Running
    <2> QED
        BY <2>1
<1>5. Len(gens) \in Nat /\ n \in 0 .. Len(gens)
    <2>1. n \in 0 .. Len(gens)
        BY <1>1 DEF Split
    <2> HIDE DEF gens
    <2> QED
        BY <1>2, <2>1
<1>6. m \in Nat /\ Attempt(e) = m + 1
    <2> HIDE DEF gens
    <2> QED
        BY <1>3, <1>5
<1>7. Len(faults) = m
    <2>1. DOMAIN faults = 1 .. m
        BY <1>4 DEF FaultsAfter
    <2>2. Len(faults) \in Nat /\ DOMAIN faults = 1 .. Len(faults)
        <3> HIDE DEF faults
        <3> QED
            BY <1>2
    <2> HIDE DEF faults, m
    <2> QED
        BY <1>6, <2>1, <2>2
<1>8. Asked(e).prompt.faults = faults
    BY DEF Asked
<1>9. Attempt(e) = Len(Asked(e).prompt.faults) + 1
    BY <1>6, <1>7, <1>8
<1> QED
    BY <1>9 DEF Exhausted, Final, Fault

\* Where a step that records leads: to the attempt its text asks for, to an
\* outage, or to the end.
LEMMA RecordingWalks ==
    ASSUME IInv, ChainInv, TypeOK, NEW e \in Evaluations, Recording(e),
           claims[e] = IF step[e] = "support" THEN prompt[e].about ELSE << >>
    PROVE  /\ claims'[e] = IF step'[e] = "support" THEN prompt'[e].about ELSE << >>
           /\ \/ /\ stage'[e] = "lookup"
                 /\ ~Final(Asked(e), answer[e].text, Limit[job[e].protocol])
                 /\ Asked(e)' = Following(Asked(e), answer[e].text)
              \/ stage'[e] = "failed" /\ failure'[e] = "outage" /\ Asked(e)' = Asked(e)
              \/ /\ stage'[e] = "sealed" \/ (stage'[e] = "failed" /\ failure'[e] = "answer")
                 /\ Asked(e)' = Asked(e) /\ Final(Asked(e), answer[e].text, Limit[job[e].protocol])
                 /\ stage'[e] = "sealed" <=> Passes(Asked(e), answer[e].text)
<1> DEFINE text == answer[e].text
           limit == Limit[job[e].protocol]
<1>0. /\ stage[e] = "decoding" /\ stage[e] \in Running
      /\ Asked(e).step = step[e] /\ Asked(e).prompt = prompt[e] /\ Asked(e).prompt.about = prompt[e].about
      /\ Asked(e).prompt.faults = prompt[e].faults
    BY RecordingAppends DEF IInv, Running, Asked
<1>1. CASE Repair(e)
    <2>1. /\ prompt'[e] = [prompt[e] EXCEPT !.faults = Append(prompt[e].faults, Fault(e))]
          /\ UNCHANGED <<step, claims>> /\ stage'[e] = "lookup" /\ Fault(e) # "" /\ ~Exhausted(e)
        BY <1>1 DEF Repair, Goto, TypeOK
    <2>2. prompt[e] \in [about : Seq(Nat), faults : Seq(Faults)]
        BY DEF TypeOK, Prompt
    <2>3. prompt'[e] = [about |-> prompt[e].about, faults |-> Append(prompt[e].faults, Fault(e))]
        BY <2>1, <2>2
    <2>4. ~Final(Asked(e), text, limit)
        BY <1>0, <2>1, AttemptAsked
    <2>5. Asked(e)' = Following(Asked(e), text)
        BY <1>0, <2>1, <2>3 DEF Asked, Following, Fault
    <2> QED
        BY <2>1, <2>3, <2>4, <2>5
<1>2. CASE RepairFails(e)
    <2>1. UNCHANGED <<step, prompt, claims>> /\ stage'[e] = "failed" /\ failure'[e] = "outage"
        BY <1>2 DEF RepairFails, Fail, TypeOK
    <2> QED
        BY <2>1 DEF Asked
<1>3. CASE GiveUp(e)
    <2>1. /\ UNCHANGED <<step, prompt, claims>> /\ stage'[e] = "failed" /\ failure'[e] = "answer"
          /\ Fault(e) # "" /\ Exhausted(e)
        BY <1>3 DEF GiveUp, Fail, TypeOK
    <2>2. Final(Asked(e), text, limit)
        BY <1>0, <2>1, AttemptAsked
    <2>3. ~Passes(Asked(e), text)
        BY <2>1 DEF Passes, Fault
    <2> QED
        BY <2>1, <2>2, <2>3 DEF Asked
<1>4. CASE Extract(e)
    <2>1. /\ step'[e] = "support" /\ step[e] = "extract" /\ Fault(e) = "" /\ stage'[e] = "lookup"
          /\ claims'[e] = Claims(Reading[text].list)
          /\ prompt'[e] = [about |-> Claims(Reading[text].list), faults |-> << >>]
        BY <1>4 DEF Extract, Goto, TypeOK
    <2>2. ~Final(Asked(e), text, limit)
        BY <1>0, <2>1 DEF Final, Fault
    <2>3. Asked(e)' = Following(Asked(e), text)
        <3>1. Following(Asked(e), text) =
                [step |-> "support", prompt |-> [about |-> Claims(Reading[text].list), faults |-> << >>]]
            BY <2>1 DEF Following, Fault
        <3> QED
            BY <2>1, <3>1 DEF Asked
    <2>4. prompt'[e].about = claims'[e]
        <3>1. prompt'[e] = [about |-> claims'[e], faults |-> << >>]
            BY <2>1, Zenon
        <3> QED
            BY <3>1
    <2> QED
        BY <2>1, <2>2, <2>3, <2>4
<1>5. CASE Judge(e)
    <2>1. /\ UNCHANGED <<step, prompt, claims>> /\ Fault(e) = "" /\ step[e] = "support"
          /\ IF InOrder(Reading[text].list, Len(claims[e])) /\ Reading[text].sound
             THEN stage'[e] = "sealed"
             ELSE stage'[e] = "failed" /\ failure'[e] = "answer"
        BY <1>5 DEF Judge, Goto, Fail, TypeOK
    <2>2. Final(Asked(e), text, limit)
        BY <1>0, <2>1 DEF Final, Fault
    <2>3. Passes(Asked(e), text) <=> InOrder(Reading[text].list, Len(claims[e])) /\ Reading[text].sound
        BY <1>0, <2>1 DEF Passes, Fault, InOrder
    <2> QED
        BY <2>1, <2>2, <2>3 DEF Asked
<1> QED
    BY <1>1, <1>2, <1>3, <1>4, <1>5 DEF Recording

LEMMA RecordingKeepsWalk ==
    ASSUME IInv, ChainInv, TypeOK, NEW e \in Evaluations, Recording(e), WalkInv(e)
    PROVE  WalkInv(e)'
<1> DEFINE s == generations[e]
           g == Recorded(e)
           text == answer[e].text
           limit == Limit[job[e].protocol]
<1>0. PICK n \in Nat : n = Len(s)
    BY Countable DEF IInv, AttemptsInv
<1>1. PICK t : t = Append(s, g)
    OBVIOUS
<1>2. generations'[e] = t /\ job' = job /\ stage[e] = "decoding" /\ failure[e] = "none"
    BY <1>1, RecordingAppends DEF IInv, CallsInv
<1>3. /\ DOMAIN s = 1 .. n /\ DOMAIN t = 1 .. n + 1 /\ Len(t) = n + 1
      /\ (\A i \in 1 .. n : t[i] = s[i]) /\ t[n + 1] = g
    <2>1. s \in Seq(Entries(s))
        BY DEF IInv, AttemptsInv
    <2>2. Len(t) = n + 1
        BY <1>0, <1>1, <2>1
    <2> QED
        BY <1>0, <1>1, <2>1, <2>2, AppendExtends
<1>4. AskedIn(t[n + 1]) = Asked(e) /\ t[n + 1].text = text
    BY <1>3 DEF AskedIn, Asked, Recorded
<1>5. /\ \A i \in 1 .. n : AskedIn(s[i]) =
            IF i = 1 THEN First ELSE Following(AskedIn(s[i - 1]), s[i - 1].text)
      /\ \A i \in 1 .. n : i < n => ~Final(AskedIn(s[i]), s[i].text, limit)
      /\ Asked(e) = IF n = 0 THEN First ELSE Following(AskedIn(s[n]), s[n].text)
      /\ n # 0 => ~Final(AskedIn(s[n]), s[n].text, limit)
      /\ claims[e] = IF step[e] = "support" THEN prompt[e].about ELSE << >>
    BY <1>0, <1>2, <1>3 DEF WalkInv, Running
<1>6. /\ claims'[e] = IF step'[e] = "support" THEN prompt'[e].about ELSE << >>
      /\ \/ /\ stage'[e] = "lookup"
            /\ ~Final(Asked(e), text, limit)
            /\ Asked(e)' = Following(Asked(e), text)
         \/ stage'[e] = "failed" /\ failure'[e] = "outage" /\ Asked(e)' = Asked(e)
         \/ /\ stage'[e] = "sealed" \/ (stage'[e] = "failed" /\ failure'[e] = "answer")
            /\ Asked(e)' = Asked(e) /\ Final(Asked(e), text, limit)
            /\ stage'[e] = "sealed" <=> Passes(Asked(e), text)
    BY <1>5, RecordingWalks
<1> HIDE DEF s, g
<1>7. ASSUME NEW i \in 1 .. n + 1
      PROVE  AskedIn(t[i]) = IF i = 1 THEN First ELSE Following(AskedIn(t[i - 1]), t[i - 1].text)
    <2>1. CASE i \in 1 .. n
        <3>1. i # 1 => i - 1 \in 1 .. n
            BY <2>1
        <3> QED
            BY <1>3, <1>5, <2>1, <3>1
    <2>2. CASE i = n + 1
        <3>1. i - 1 = n /\ (i = 1 <=> n = 0) /\ (n # 0 => n \in 1 .. n)
            BY <2>2
        <3>2. n # 0 => t[i - 1] = s[n]
            BY <1>3, <3>1
        <3> QED
            BY <1>4, <1>5, <2>2, <3>1, <3>2
    <2>3. i \in 1 .. n \/ i = n + 1
        OBVIOUS
    <2> QED
        BY <2>1, <2>2, <2>3
<1>8. ASSUME NEW i \in 1 .. n + 1, i < n + 1
      PROVE  ~Final(AskedIn(t[i]), t[i].text, limit)
    <2>1. i \in 1 .. n /\ (i < n \/ i = n)
        BY <1>8
    <2>2. t[i] = s[i]
        BY <1>3, <2>1
    <2>3. i = n => n # 0
        BY <2>1
    <2> QED
        BY <1>5, <2>1, <2>2, <2>3
<1>9. stage'[e] \in Running \cup {"idle"} =>
        /\ Asked(e)' = Following(AskedIn(t[n + 1]), t[n + 1].text)
        /\ ~Final(AskedIn(t[n + 1]), t[n + 1].text, limit)
    BY <1>4, <1>6 DEF Running
<1>10. stage'[e] = "lookup" => failure'[e] # "answer"
    BY <1>2, RecordingAppends DEF IInv
<1>11. Ended(e)' =>
        /\ Asked(e)' = AskedIn(t[n + 1]) /\ Final(AskedIn(t[n + 1]), t[n + 1].text, limit)
        /\ stage'[e] = "sealed" <=> Passes(AskedIn(t[n + 1]), t[n + 1].text)
    BY <1>4, <1>6, <1>10 DEF Ended
<1>12. n + 1 # 0 /\ limit' = limit
    BY <1>2
<1> HIDE DEF text, limit
<1> QED
    BY <1>2, <1>3, <1>6, <1>7, <1>8, <1>9, <1>11, <1>12 DEF WalkInv, limit

LEMMA UnrecordedKeepsWalk ==
    ASSUME NEW e, WalkInv(e), job' = job,
           step'[e] = step[e], prompt'[e] = prompt[e], claims'[e] = claims[e], generations'[e] = generations[e],
           stage'[e] \in Running \cup {"idle"} => stage[e] \in Running \cup {"idle"},
           Ended(e)' => Ended(e) /\ stage'[e] = stage[e]
    PROVE  WalkInv(e)'
<1>1. Asked(e)' = Asked(e)
    BY DEF Asked
<1> QED
    BY <1>1 DEF WalkInv

LEMMA StepWalk ==
    ASSUME IInv, ChainInv, TypeOK, NEW e \in Evaluations, Begin(e) \/ Proceed(e),
           NEW f \in Evaluations, WalkInv(f)
    PROVE  WalkInv(f)'
<1>1. job' = job /\ Frame(e) /\ Types
    BY StepFrames DEF IInv
<1>2. CASE f # e
    <2>1. UNCHANGED <<stage[f], step[f], prompt[f], claims[f], generations[f], failure[f]>>
        BY <1>1, <1>2 DEF Frame
    <2>2. Ended(f)' => Ended(f) /\ stage'[f] = stage[f]
        BY <2>1 DEF Ended
    <2> QED
        BY <1>1, <2>1, <2>2, UnrecordedKeepsWalk
<1>3. CASE f = e /\ Recording(e)
    BY <1>3, RecordingKeepsWalk
<1>4. CASE f = e /\ ~Recording(e)
    <2>1. \/ Begin(e) \/ RenderFails(e) \/ LoadHit(e) \/ LoadNothing(e) \/ Generate(e)
          \/ GeneratorFails(e) \/ Store(e) \/ CacheFails(e)
        BY <1>4 DEF Proceed, Recording
    <2>2. UNCHANGED <<step, claims, prompt, generations>> /\ stage[e] \in Running \cup {"idle"}
        BY <2>1 DEF Begin, RenderFails, LoadHit, LoadNothing, Generate, GeneratorFails, Store, CacheFails, Running
    <2>3. failure[e] = "none"
        BY <2>2 DEF IInv, CallsInv, Running
    <2>4. stage'[e] # "sealed" /\ failure'[e] # "answer"
        BY <1>1, <2>1, <2>3 DEF Begin, RenderFails, LoadHit, LoadNothing, Generate, GeneratorFails, Store,
            CacheFails, Goto, Fail, Types
    <2> QED
        BY <1>1, <1>4, <2>2, <2>4, UnrecordedKeepsWalk DEF Ended
<1> QED
    BY <1>2, <1>3, <1>4

-----------------------------------------------------------------------------
(* What the cache holds *)

LEMMA OnlyStoreWrites ==
    ASSUME NEW e, Begin(e) \/ Proceed(e), ~Store(e)
    PROVE  cache' = cache
BY DEF Begin, Proceed, RenderFails, LoadHit, LoadNothing, Generate, GeneratorFails, CacheFails,
       Repair, RepairFails, GiveUp, Extract, Judge

LEMMA StoreWrites ==
    ASSUME NEW e, Store(e)
    PROVE  \E new : /\ cache' = (cache \ Lookup(KeyFor(e, Asked(e)))) \cup {new}
                    /\ new.key = KeyFor(e, Asked(e)) /\ new.text = answer[e].text /\ new.by = e
<1>1. KeyOf(e) = KeyFor(e, Asked(e))
    BY DEF KeyOf, KeyFor, Asked
<1> DEFINE new == [key |-> KeyOf(e), text |-> answer[e].text, model |-> Expected[job[e].protocol], by |-> e]
<1>2. cache' = (cache \ Lookup(KeyOf(e))) \cup {new}
    BY DEF Store
<1>3. new.key = KeyOf(e) /\ new.text = answer[e].text /\ new.by = e
    OBVIOUS
<1> HIDE DEF new
<1> QED
    BY <1>1, <1>2, <1>3

\* What the cache answers it goes on answering, if perhaps with another text.
LEMMA HoldsStays ==
    ASSUME Types, NEW e \in Evaluations, Begin(e) \/ Proceed(e), NEW f, NEW asked, Holds(f, asked)
    PROVE  Holds(f, asked)'
<1>1. PICK entry \in cache : entry.key = KeyFor(f, asked)
    BY DEF Holds
<1>2. KeyFor(f, asked)' = KeyFor(f, asked)
    BY StepFrames DEF KeyFor
<1>3. CASE Store(e)
    <2>1. PICK new : /\ cache' = (cache \ Lookup(KeyFor(e, Asked(e)))) \cup {new}
                     /\ new.key = KeyFor(e, Asked(e))
        BY <1>3, StoreWrites
    <2>2. CASE KeyFor(f, asked) = KeyFor(e, Asked(e))
        BY <1>2, <2>1, <2>2 DEF Holds
    <2>3. CASE KeyFor(f, asked) # KeyFor(e, Asked(e))
        <3>1. entry \in cache'
            BY <1>1, <2>1, <2>3 DEF Lookup
        <3> QED
            BY <1>1, <1>2, <3>1 DEF Holds
    <2> QED
        BY <2>2, <2>3
<1>4. CASE ~Store(e)
    <2>1. cache' = cache
        BY <1>4, OnlyStoreWrites
    <2> QED
        BY <1>1, <1>2, <2>1 DEF Holds
<1> QED
    BY <1>3, <1>4

LEMMA StepHeld ==
    ASSUME IInv, WalksInv, NEW e \in Evaluations, Begin(e) \/ Proceed(e), NEW f \in Evaluations
    PROVE  HeldInv(f)'
<1>1. Types /\ job' = job /\ Frame(e) /\ HeldInv(f) /\ WalkInv(f) /\ ModeInv(f)
    BY StepFrames DEF IInv, WalksInv
<1>2. SUFFICES ASSUME Mode(f) = "use"
               PROVE  /\ stage'[f] = "decoding" => Holds(f, Asked(f))'
                      /\ generations'[f] # << >> => Holds(f, First)'
    BY <1>1 DEF HeldInv, Mode
<1>3. \A asked : Holds(f, asked) => Holds(f, asked)'
    BY <1>1, HoldsStays
<1>4. CASE f # e \/ ~(Recording(e) \/ LoadHit(e) \/ Generate(e) \/ Store(e))
    <2>1. generations'[f] = generations[f] /\ Asked(f)' = Asked(f)
        BY <1>1, <1>4 DEF Frame, Asked, Begin, Proceed, Recording, RenderFails, LoadNothing, GeneratorFails, CacheFails
    <2>2. stage'[f] = "decoding" => stage[f] = "decoding"
        BY <1>1, <1>4 DEF Frame, Begin, Proceed, Recording, RenderFails, LoadNothing, GeneratorFails, CacheFails,
            Goto, Fail, Types
    <2>3. Holds(f, Asked(f)) => Holds(f, Asked(f))'
        <3>1. PICK asked : asked = Asked(f)
            OBVIOUS
        <3>2. Holds(f, asked) => Holds(f, asked)'
            BY <1>3
        <3> QED
            BY <2>1, <3>1, <3>2 DEF Holds
    <2> QED
        BY <1>1, <1>2, <1>3, <2>1, <2>2, <2>3 DEF HeldInv
<1>5. CASE f = e /\ Recording(e)
    <2>1. stage[f] = "decoding" /\ stage'[f] # "decoding"
        BY <1>1, <1>5, RecordingAppends
    <2>2. Holds(f, First)
        <3>1. CASE generations[f] = << >>
            <4>1. Len(generations[f]) = 0
                BY <3>1
            <4>2. Asked(f) = First
                BY <1>1, <2>1, <4>1 DEF WalkInv, Running
            <4> QED
                BY <1>1, <1>2, <2>1, <4>2 DEF HeldInv
        <3>2. CASE generations[f] # << >>
            BY <1>1, <1>2, <3>2 DEF HeldInv
        <3> QED
            BY <3>1, <3>2
    <2> QED
        BY <1>3, <2>1, <2>2
<1>6. CASE f = e /\ (LoadHit(e) \/ Generate(e) \/ Store(e))
    <2>1. generations' = generations /\ step' = step /\ prompt' = prompt
        BY <1>6 DEF LoadHit, Generate, Store
    <2>2. KeyFor(f, Asked(f))' = KeyFor(f, Asked(f)) /\ KeyOf(e) = KeyFor(e, Asked(e))
        BY <1>1, <2>1 DEF KeyFor, Asked, KeyOf
    <2>3. generations'[f] # << >> => Holds(f, First)'
        BY <1>1, <1>2, <1>3, <2>1 DEF HeldInv
    <2>4. stage'[f] = "decoding" => Holds(f, Asked(f))'
        <3>1. CASE LoadHit(e)
            <4>1. cache' = cache /\ \E entry \in cache : entry.key = KeyOf(e)
                BY <3>1 DEF LoadHit, Lookup
            <4> QED
                BY <1>6, <2>2, <4>1 DEF Holds
        <3>2. CASE Generate(e)
            <4>1. UsesCache(e)
                BY <1>2, <1>6 DEF UsesCache
            <4>2. stage'[e] # "decoding"
                BY <1>1, <3>2, <4>1 DEF Generate, Goto, Fail, Types
            <4> QED
                BY <1>6, <4>2
        <3>3. CASE Store(e)
            <4>1. PICK new : new \in cache' /\ new.key = KeyFor(e, Asked(e))
                BY <3>3, StoreWrites
            <4> QED
                BY <1>6, <2>2, <4>1 DEF Holds
        <3> QED
            BY <1>6, <3>1, <3>2, <3>3
    <2> QED
        BY <2>3, <2>4
<1> QED
    BY <1>1, <1>4, <1>5, <1>6

LEMMA SettledStays ==
    ASSUME Types, NEW e \in Evaluations, Begin(e) \/ Proceed(e), NEW entry, Settled(entry)
    PROVE  Settled(entry)'
BY HoldsStays DEF Settled

\* An entry that leads nowhere yet is on its writer's way.
LEMMA StepLeads ==
    ASSUME IInv, ChainInv, TypeOK, WalksInv, NEW e \in Evaluations, Begin(e) \/ Proceed(e),
           NEW entry \in cache'
    PROVE  LeadsInv(entry)'
<1>1. Types /\ job' = job /\ Frame(e) /\ WalkInv(e) /\ CallsInv(e)
    BY StepFrames DEF IInv, WalksInv
<1>2. CASE entry \notin cache
    <2>1. Store(e)
        BY <1>2, OnlyStoreWrites
    <2>2. entry.key = KeyFor(e, Asked(e)) /\ entry.text = answer[e].text /\ entry.by = e
        BY <1>2, <2>1, StoreWrites
    <2>3. AskedIn(entry.key) = Asked(e)
        BY <2>2 DEF AskedIn, KeyFor, Asked
    <2>4. stage'[e] = "decoding" /\ Asked(e)' = Asked(e) /\ answer' = answer
        BY <1>1, <2>1 DEF Store, Goto, Types, Asked
    <2>5. stage'[e] = "decoding" /\ Asked(e)' = AskedIn(entry.key) /\ answer'[e].text = entry.text
        BY <2>2, <2>3, <2>4
    <2> QED
        BY <2>2, <2>5 DEF LeadsInv
<1>3. CASE entry \in cache
    <2>0. PICK w \in Evaluations : w = entry.by
        BY <1>3 DEF IInv, EntryInv
    <2> DEFINE next == Following(AskedIn(entry.key), entry.text)
    <2>1. /\ LeadsInv(entry) /\ Mode(w) = "use" /\ job[w].protocol = entry.key.protocol
        BY <1>3, <2>0 DEF WalksInv, IInv, EntryInv
    <2>2. CASE Settled(entry)
        <3>1. Settled(entry)'
            BY <1>1, <2>2, SettledStays
        <3> QED
            BY <3>1 DEF LeadsInv
    <2>3. CASE ~Settled(entry) /\ w # e
        <3>1. /\ stage'[w] = stage[w] /\ failure'[w] = failure[w] /\ Asked(w)' = Asked(w)
              /\ answer'[w] = answer[w]
            BY <1>1, <2>3 DEF Frame, Asked
        <3> QED
            BY <2>0, <2>1, <2>3, <3>1 DEF LeadsInv
    <2>4. CASE ~Settled(entry) /\ w = e
        <3>1. stage[e] \in Running \cup {"idle"} /\ failure[e] = "none"
            <4>1. stage[e] \in Running \cup {"idle"}
                BY DEF Begin, Proceed, RenderFails, LoadHit, LoadNothing, Generate, GeneratorFails, Store,
                    CacheFails, Repair, RepairFails, GiveUp, Extract, Judge, Running
            <4> QED
                BY <1>1, <4>1 DEF CallsInv, Running
        <3>2. \/ stage[e] = "decoding" /\ Asked(e) = AskedIn(entry.key) /\ answer[e].text = entry.text
              \/ stage[e] \in {"lookup", "asking", "storing"} /\ Asked(e) = next
            BY <2>0, <2>1, <2>4, <3>1 DEF LeadsInv
        <3>3. CASE stage[e] = "decoding" /\ Asked(e) = AskedIn(entry.key) /\ answer[e].text = entry.text
            <4>1. Recording(e)
                BY <3>3 DEF Begin, Proceed, Recording, RenderFails, LoadHit, LoadNothing, Generate,
                    GeneratorFails, Store, CacheFails
            <4>2. ~Final(Asked(e), answer[e].text, Limit[job[e].protocol])
                BY <2>1, <2>4, <3>3 DEF Settled
            <4>3. claims[e] = IF step[e] = "support" THEN prompt[e].about ELSE << >>
                BY <1>1 DEF WalkInv
            <4>4. \/ stage'[e] = "lookup" /\ Asked(e)' = Following(Asked(e), answer[e].text)
                  \/ failure'[e] = "outage"
                BY <4>1, <4>2, <4>3, RecordingWalks
            <4>5. \/ stage'[e] = "lookup" /\ Asked(e)' = next
                  \/ failure'[e] = "outage"
                BY <3>3, <4>4
            <4> QED
                BY <2>0, <2>4, <4>5 DEF LeadsInv
        <3>4. CASE stage[e] \in {"lookup", "asking", "storing"} /\ Asked(e) = next
            <4>1. ~Begin(e) /\ ~Recording(e)
                BY <3>4, RecordingAppends, <1>1 DEF Begin
            <4>2. Asked(e)' = Asked(e)
                BY <4>1 DEF Proceed, Recording, RenderFails, LoadHit, LoadNothing, Generate, GeneratorFails,
                    Store, CacheFails, Asked
            <4>3. ASSUME Holds(e, next)' PROVE LeadsInv(entry)'
                BY <2>0, <2>4, <4>3 DEF LeadsInv, Settled
            <4>4. CASE RenderFails(e) \/ GeneratorFails(e) \/ CacheFails(e)
                <5>1. failure'[e] = "outage"
                    BY <1>1, <4>4 DEF RenderFails, GeneratorFails, CacheFails, Fail, Types
                <5> QED
                    BY <2>0, <2>4, <5>1 DEF LeadsInv
            <4>5. CASE LoadHit(e)
                <5>1. Holds(e, Asked(e))
                    BY <4>5 DEF LoadHit, Lookup, Holds, KeyOf, KeyFor, Asked
                <5> QED
                    BY <1>1, <3>4, <4>3, <5>1, HoldsStays
            <4>6. CASE LoadNothing(e)
                <5>1. stage'[e] = "asking"
                    BY <1>1, <4>6 DEF LoadNothing, Goto, Types
                <5> QED
                    BY <2>0, <2>4, <3>4, <4>2, <5>1 DEF LeadsInv
            <4>7. CASE Generate(e)
                <5>1. UsesCache(e)
                    BY <2>1, <2>4 DEF UsesCache
                <5>2. stage'[e] = "storing" \/ failure'[e] = "outage"
                    BY <1>1, <4>7, <5>1 DEF Generate, Goto, Fail, Types
                <5> QED
                    BY <2>0, <2>4, <3>4, <4>2, <5>2 DEF LeadsInv
            <4>8. CASE Store(e)
                <5>1. PICK new : new \in cache' /\ new.key = KeyFor(e, next)
                    BY <3>4, <4>8, StoreWrites
                <5>2. KeyFor(e, next)' = KeyFor(e, next)
                    BY <1>1 DEF KeyFor
                <5>3. Holds(e, next)'
                    BY <5>1, <5>2 DEF Holds
                <5> QED
                    BY <4>3, <5>3
            <4> QED
                BY <4>1, <4>4, <4>5, <4>6, <4>7, <4>8 DEF Proceed, Recording
        <3> QED
            BY <3>2, <3>3, <3>4
    <2> QED
        BY <2>2, <2>3, <2>4
<1> QED
    BY <1>2, <1>3

-----------------------------------------------------------------------------
(* Warm evaluations *)

LEMMA SharingKeys ==
    ASSUME NEW f, NEW g \in Sharing(f), NEW asked
    PROVE  KeyFor(g, asked) = KeyFor(f, asked) /\ (Holds(g, asked) <=> Holds(f, asked))
BY DEF Sharing, KeyFor, Holds

\* The writer of an entry under a key of f shares it with f.
LEMMA WriterShares ==
    ASSUME IInv, NEW f, NEW asked, NEW entry \in cache, entry.key = KeyFor(f, asked)
    PROVE  entry.by \in Sharing(f) /\ entry.key.protocol = job[f].protocol
<1>1. EntryInv(entry)
    BY DEF IInv
<1>2. entry.key.protocol = job[f].protocol /\ entry.key.instance = job[f].instance
    BY DEF KeyFor
<1> QED
    BY <1>1, <1>2 DEF EntryInv, Sharing

\* Nothing but a Store under the very key changes what the cache answers.
LEMMA TextStays ==
    ASSUME Types, NEW e \in Evaluations, Begin(e) \/ Proceed(e),
           NEW f, NEW asked, NEW text, HoldsText(f, asked, text),
           Store(e) => KeyFor(e, Asked(e)) # KeyFor(f, asked)
    PROVE  HoldsText(f, asked, text)'
<1>1. PICK entry \in cache : entry.key = KeyFor(f, asked) /\ entry.text = text
    BY DEF HoldsText
<1>2. KeyFor(f, asked)' = KeyFor(f, asked)
    BY StepFrames DEF KeyFor
<1>3. entry \in cache'
    <2>1. CASE Store(e)
        <3>1. PICK new : cache' = (cache \ Lookup(KeyFor(e, Asked(e)))) \cup {new}
            BY <2>1, StoreWrites
        <3>2. entry \notin Lookup(KeyFor(e, Asked(e)))
            BY <1>1, <2>1 DEF Lookup
        <3> QED
            BY <3>1, <3>2
    <2>2. CASE ~Store(e)
        BY <2>2, OnlyStoreWrites
    <2> QED
        BY <2>1, <2>2
<1> QED
    BY <1>1, <1>2, <1>3 DEF HoldsText

\* Where every text that is asked for leads.
LEMMA SettledLeads ==
    ASSUME IInv, NEW e \in Evaluations, NEW asked, NEW text, HoldsText(e, asked, text),
           \A entry \in cache : entry.by \in Sharing(e) => Settled(entry),
           ~Final(asked, text, Limit[job[e].protocol])
    PROVE  Holds(e, Following(asked, text))
<1>1. PICK entry \in cache : entry.key = KeyFor(e, asked) /\ entry.text = text
    BY DEF HoldsText
<1>2. entry.by \in Sharing(e) /\ entry.key.protocol = job[e].protocol
    BY <1>1, WriterShares
<1>3. AskedIn(entry.key).step = asked.step /\ AskedIn(entry.key).prompt = asked.prompt
    BY <1>1 DEF AskedIn, KeyFor
<1>4. /\ Following(AskedIn(entry.key), text) = Following(asked, text)
      /\ Final(AskedIn(entry.key), text, Limit[job[e].protocol]) <=> Final(asked, text, Limit[job[e].protocol])
    BY <1>3 DEF Following, Final
<1>5. Holds(entry.by, Following(asked, text))
    BY <1>1, <1>2, <1>4 DEF Settled
<1> QED
    BY <1>2, <1>5, SharingKeys

LEMMA WarmStarts ==
    ASSUME IInv, WalksInv, TypeOK, NEW e \in Evaluations, Begin(e), warm'[e]
    PROVE  WarmInv(e)'
<1>1. Types /\ job' = job /\ Frame(e)
    BY StepFrames DEF IInv
<1>2. /\ stage[e] = "idle" /\ UNCHANGED <<step, prompt, generations, calls, cache, answer>>
      /\ Mode(e) = "use" /\ (\E f \in Peers(e) : Ended(f))
      /\ \A f \in Peers(e) : stage[f] = "idle" \/ Ended(f)
    BY DEF Begin, TypeOK
<1>3. /\ generations[e] = << >> /\ calls[e] = 0 /\ Asked(e) = First
    <2>1. generations[e] = << >> /\ calls[e] = 0
        BY <1>2 DEF IInv, AttemptsInv, CallsInv
    <2>2. Len(generations[e]) = 0
        BY <2>1
    <2> QED
        BY <1>2, <2>1, <2>2 DEF WalksInv, WalkInv
<1>4. \A f \in Sharing(e) : f = e \/ f \in Peers(e)
    BY DEF Sharing, Peers
<1>5. Holds(e, First)
    <2>1. PICK f \in Peers(e) : Ended(f)
        BY <1>2
    <2>2. f \in Evaluations /\ f \in Sharing(e) /\ Mode(f) = "use"
        BY DEF Peers, Sharing
    <2>3. generations[f] # << >>
        <3>1. Len(generations[f]) # 0
            BY <2>1, <2>2 DEF WalksInv, WalkInv
        <3> QED
            BY <3>1
    <2>4. Holds(f, First)
        BY <2>2, <2>3 DEF WalksInv, HeldInv
    <2> QED
        BY <2>2, <2>4, SharingKeys
<1>6. ASSUME NEW entry \in cache, entry.by \in Sharing(e) PROVE Settled(entry)
    <2> DEFINE w == entry.by
    <2>1. LeadsInv(entry) /\ Generated(entry, w) /\ w \in Evaluations /\ w \in Sharing(e)
        BY <1>6 DEF WalksInv, IInv, EntryInv
    <2>2. AttemptsInv(w) /\ CallsInv(w)
        BY <2>1 DEF IInv
    <2> HIDE DEF w
    <2>3. stage[w] # "idle"
        <3>1. generations[w] = << >> => Misses(generations[w]) = {}
            BY DEF Misses
        <3> QED
            BY <2>1, <2>2, <3>1 DEF AttemptsInv, Generated
    <2>4. Ended(w)
        BY <1>2, <1>4, <2>1, <2>3
    <2>5. stage[w] \in {"sealed", "failed"} /\ failure[w] # "outage"
        BY <2>2, <2>4 DEF Ended, CallsInv
    <2> QED
        BY <2>1, <2>5 DEF LeadsInv, w
<1>7. stage'[e] \in {"lookup", "failed"}
    BY <1>1 DEF Begin, Goto, Fail, Types
<1>8. ASSUME NEW f \in Sharing(e)
      PROVE  /\ stage'[f] \notin {"asking", "storing", "decoding"}
             /\ stage'[f] = "lookup" => f = e
    <2>1. CASE f = e
        BY <1>7, <2>1
    <2>2. CASE f # e
        <3>1. stage[f] = "idle" \/ Ended(f)
            BY <1>2, <1>4, <2>2
        <3>2. f \in Evaluations /\ CallsInv(f)
            BY DEF Sharing, IInv
        <3>3. stage[f] \in {"idle", "sealed", "failed"}
            BY <3>1, <3>2 DEF Ended, CallsInv
        <3> QED
            BY <1>1, <2>2, <3>2, <3>3 DEF Frame
    <2> QED
        BY <2>1, <2>2
<1>9. Asked(e)' = First /\ Mode(e)' = "use" /\ Sharing(e)' = Sharing(e)
    BY <1>1, <1>2, <1>3 DEF Asked, Mode, Sharing
<1>10. Holds(e, First)' /\ Holds(e, Asked(e))'
    <2>1. Holds(e, First)'
        BY <1>1, <1>2, <1>5 DEF Holds, KeyFor
    <2> QED
        BY <1>9, <2>1 DEF Holds
<1>11. \A entry \in cache' : entry.by \in Sharing(e)' => Settled(entry)'
    BY <1>1, <1>2, <1>6, <1>9, SettledStays
<1>12. Warm(e)'
    BY <1>8, <1>9, <1>10, <1>11 DEF Warm
<1>13. DOMAIN generations'[e] = {}
    BY <1>2, <1>3
<1> QED
    BY <1>2, <1>3, <1>9, <1>12, <1>13 DEF WarmInv

LEMMA WarmStays ==
    ASSUME IInv, WalksInv, ChainInv, TypeOK, NEW e \in Evaluations, Begin(e) \/ Proceed(e),
           NEW f \in Evaluations, warm[f]
    PROVE  WarmInv(f)'
<1>1. /\ Types /\ job' = job /\ Frame(e) /\ ModeInv(e) /\ CallsInv(e)
      /\ WalkInv(e) /\ HeldInv(e)
    BY StepFrames DEF IInv, WalksInv
<1>2. /\ Mode(f) = "use" /\ calls[f] = 0 /\ Warm(f) /\ f \in Sharing(f)
      /\ \A i \in DOMAIN generations[f] : HoldsText(f, AskedIn(generations[f][i]), generations[f][i].text)
    BY DEF WalksInv, WarmInv, Sharing
<1>3. /\ Sharing(f)' = Sharing(f) /\ Mode(f)' = Mode(f)
      /\ \A g, asked : KeyFor(g, asked)' = KeyFor(g, asked)
    BY <1>1 DEF Sharing, Mode, KeyFor
<1>4. e \in Sharing(f) => stage[e] \notin {"asking", "storing"}
    BY <1>2 DEF Warm
<1>5. ASSUME Store(e), NEW asked, NEW other PROVE KeyFor(e, asked) # KeyFor(f, other)
    <2>1. stage[e] = "storing"
        BY <1>5 DEF Store
    <2>2. Mode(e) = "use"
        BY <1>1, <2>1 DEF ModeInv, Running, Modes
    <2>3. job[e].protocol # job[f].protocol \/ job[e].instance # job[f].instance
        BY <1>4, <2>1, <2>2 DEF Sharing
    <2> QED
        BY <2>3 DEF KeyFor
<1>6. ASSUME NEW g \in Sharing(f), NEW asked, NEW text, HoldsText(g, asked, text)
      PROVE  HoldsText(g, asked, text)'
    <2>1. KeyFor(g, asked) = KeyFor(f, asked)
        BY SharingKeys
    <2>2. PICK mine : mine = Asked(e)
        OBVIOUS
    <2>3. Store(e) => KeyFor(e, mine) # KeyFor(g, asked)
        BY <1>5, <2>1
    <2>4. Store(e) => KeyFor(e, Asked(e)) # KeyFor(g, asked)
        BY <2>2, <2>3
    <2> QED
        BY <1>1, <1>6, <2>4, TextStays
<1>7. Holds(f, First)'
    BY <1>1, <1>2, HoldsStays DEF Warm
<1>8. ASSUME NEW entry \in cache', entry.by \in Sharing(f)' PROVE Settled(entry)'
    <2>1. entry \in cache
        <3>1. ASSUME entry \notin cache PROVE FALSE
            <4>1. Store(e)
                BY <3>1, OnlyStoreWrites
            <4>2. entry.by = e /\ stage[e] = "storing"
                BY <3>1, <4>1, StoreWrites DEF Store
            <4> QED
                BY <1>3, <1>4, <1>8, <4>2
        <3> QED
            BY <3>1
    <2>2. Settled(entry)
        BY <1>2, <1>3, <1>8, <2>1 DEF Warm
    <2> QED
        BY <1>1, <2>2, SettledStays
<1>9. ASSUME NEW g \in Sharing(f)
      PROVE  /\ stage'[g] \notin {"asking", "storing"}
             /\ stage'[g] = "lookup" => Holds(g, Asked(g))'
             /\ stage'[g] = "decoding" => HoldsText(g, Asked(g), answer[g].text)'
    <2>1. /\ stage[g] \notin {"asking", "storing"}
          /\ stage[g] = "lookup" => Holds(g, Asked(g))
          /\ stage[g] = "decoding" => HoldsText(g, Asked(g), answer[g].text)
          /\ g \in Evaluations /\ Mode(g) = "use"
        BY <1>2 DEF Warm, Sharing
    <2>2. PICK asked, text : asked = Asked(g) /\ text = answer[g].text
        OBVIOUS
    <2>3. Holds(g, asked) => Holds(g, asked)'
        BY <1>1, HoldsStays
    <2>4. HoldsText(g, asked, text) => HoldsText(g, asked, text)'
        BY <1>6
    <2>5. CASE g # e
        <3>1. stage'[g] = stage[g] /\ Asked(g)' = asked /\ answer'[g] = answer[g]
            BY <1>1, <2>1, <2>2, <2>5 DEF Frame, Asked
        <3>2. stage[g] = "lookup" => Holds(g, Asked(g))'
            BY <2>1, <2>2, <2>3, <3>1 DEF Holds
        <3>3. stage[g] = "decoding" => HoldsText(g, Asked(g), answer[g].text)'
            BY <2>1, <2>2, <2>4, <3>1 DEF HoldsText
        <3> QED
            BY <2>1, <3>1, <3>2, <3>3
    <2>6. CASE g = e /\ Recording(e)
        <3>1. stage[e] = "decoding" /\ HoldsText(e, asked, text)
            BY <1>1, <2>1, <2>2, <2>6, RecordingAppends
        <3>2. claims[e] = IF step[e] = "support" THEN prompt[e].about ELSE << >>
            BY <1>1 DEF WalkInv
        <3>3. \/ /\ stage'[e] = "lookup" /\ ~Final(Asked(e), answer[e].text, Limit[job[e].protocol])
                 /\ Asked(e)' = Following(Asked(e), answer[e].text)
              \/ stage'[e] \in {"failed", "sealed"}
            BY <2>6, <3>2, RecordingWalks
        <3>4. stage'[e] = "lookup" =>
                Asked(e)' = Following(asked, text) /\ ~Final(asked, text, Limit[job[e].protocol])
            BY <2>2, <2>6, <3>3
        <3>5. \A entry \in cache : entry.by \in Sharing(e) => Settled(entry)
            <4>1. Sharing(e) = Sharing(f)
                BY <2>6 DEF Sharing
            <4> QED
                BY <1>2, <4>1 DEF Warm
        <3>6. PICK next : next = Following(asked, text)
            OBVIOUS
        <3>7. stage'[e] = "lookup" => Holds(e, next)
            BY <3>1, <3>4, <3>5, <3>6, SettledLeads
        <3>8. stage'[e] = "lookup" => Holds(e, next)'
            BY <1>1, <3>7, HoldsStays
        <3>9. stage'[e] = "lookup" => Holds(e, Asked(e))'
            BY <3>4, <3>6, <3>8 DEF Holds
        <3> QED
            BY <2>6, <3>3, <3>9
    <2>7. CASE g = e /\ ~Recording(e)
        <3>1. step' = step /\ prompt' = prompt /\ Asked(e)' = asked
            BY <2>2, <2>7 DEF Begin, Proceed, Recording, RenderFails, LoadHit, LoadNothing, Generate,
                GeneratorFails, Store, CacheFails, Asked
        <3>2. KeyOf(e) = KeyFor(e, asked) /\ UsesCache(e)
            BY <2>1, <2>2, <2>7 DEF KeyOf, KeyFor, Asked, UsesCache
        <3>3. ~Generate(e) /\ ~GeneratorFails(e) /\ ~Store(e)
            BY <2>1, <2>7 DEF Generate, GeneratorFails, Store
        <3>4. CASE Begin(e)
            <4>1. stage'[e] \in {"lookup", "failed"} /\ stage[e] = "idle"
                BY <1>1, <3>4 DEF Begin, Goto, Fail, Types
            <4>2. asked = First
                <5>1. generations[e] = << >>
                    BY <4>1 DEF IInv, AttemptsInv
                <5>2. Len(generations[e]) = 0
                    BY <5>1
                <5> QED
                    BY <1>1, <2>2, <2>7, <4>1, <5>2 DEF WalkInv
            <4>3. Holds(g, First)
                BY <1>2, SharingKeys DEF Warm
            <4>4. Holds(g, Asked(g))'
                BY <2>3, <2>7, <3>1, <4>2, <4>3 DEF Holds
            <4> QED
                BY <2>7, <4>1, <4>4
        <3>5. CASE RenderFails(e) \/ CacheFails(e)
            <4>1. stage'[e] = "failed"
                BY <1>1, <3>5 DEF RenderFails, CacheFails, Fail, Types
            <4> QED
                BY <2>7, <4>1
        <3>6. CASE LoadHit(e)
            <4>1. PICK entry \in cache :
                    /\ entry.key = KeyOf(e)
                    /\ \/ stage'[e] = "failed"
                       \/ stage'[e] = "decoding" /\ answer'[e].text = entry.text
                BY <1>1, <3>6 DEF LoadHit, Lookup, Goto, Fail, Types
            <4>2. cache' = cache /\ KeyFor(e, asked)' = KeyFor(e, asked)
                BY <1>3, <3>6 DEF LoadHit
            <4>3. stage'[e] = "decoding" => HoldsText(e, Asked(e), answer[e].text)'
                BY <3>1, <3>2, <4>1, <4>2 DEF HoldsText
            <4> QED
                BY <2>7, <4>1, <4>3
        <3>7. CASE LoadNothing(e)
            <4>1. Lookup(KeyOf(e)) = {} /\ stage[e] = "lookup"
                BY <3>2, <3>7 DEF LoadNothing
            <4>2. Holds(e, asked)
                BY <2>1, <2>2, <2>7, <4>1
            <4> QED
                BY <3>2, <4>1, <4>2 DEF Lookup, Holds
        <3> QED
            BY <2>7, <3>3, <3>4, <3>5, <3>6, <3>7 DEF Proceed, Recording
    <2> QED
        BY <2>5, <2>6, <2>7
<1>10. Warm(f)'
    BY <1>3, <1>7, <1>8, <1>9 DEF Warm
<1>11. calls'[f] = 0
    <2>1. CASE f # e
        BY <1>1, <1>2, <2>1 DEF Frame
    <2>2. CASE f = e
        <3>1. ~Generate(e) /\ ~GeneratorFails(e)
            BY <1>2, <1>4, <2>2 DEF Generate, GeneratorFails
        <3>2. calls' = calls
            BY <3>1 DEF Begin, Proceed, RenderFails, LoadHit, LoadNothing, Store, CacheFails,
                Repair, RepairFails, GiveUp, Extract, Judge
        <3> QED
            BY <1>2, <2>2, <3>2
    <2> QED
        BY <2>1, <2>2
<1>12. ASSUME NEW i \in DOMAIN generations'[f]
       PROVE  HoldsText(f, AskedIn(generations[f][i]), generations[f][i].text)'
    <2>1. PICK x : x = generations'[f][i]
        OBVIOUS
    <2>2. HoldsText(f, AskedIn(x), x.text)
        <3>1. CASE f = e /\ Recording(e)
            <4> DEFINE s == generations[e]
            <4>1. /\ stage[e] = "decoding" /\ generations'[e] = Append(s, Recorded(e)) /\ s \in Seq(Entries(s))
                BY <1>1, <3>1, RecordingAppends DEF IInv, AttemptsInv
            <4>2. HoldsText(e, Asked(e), answer[e].text)
                BY <1>2, <3>1, <4>1 DEF Warm
            <4>3. /\ DOMAIN s = 1 .. Len(s) /\ DOMAIN Append(s, Recorded(e)) = 1 .. Len(s) + 1 /\ Len(s) \in Nat
                  /\ \A k \in 1 .. Len(s) : Append(s, Recorded(e))[k] = s[k]
                  /\ Append(s, Recorded(e))[Len(s) + 1] = Recorded(e)
                BY <4>1, AppendExtends
            <4>4. i \in 1 .. Len(s) \/ i = Len(s) + 1
                <5> HIDE DEF s
                <5> QED
                    BY <1>12, <3>1, <4>1, <4>3
            <4>5. CASE i \in 1 .. Len(s)
                <5>1. i \in DOMAIN generations[f] /\ x = generations[f][i]
                    BY <2>1, <3>1, <4>1, <4>3, <4>5
                <5> QED
                    BY <1>2, <5>1
            <4>6. CASE i = Len(s) + 1
                <5>1. x = Recorded(e)
                    BY <2>1, <3>1, <4>1, <4>3, <4>6
                <5>2. AskedIn(x) = Asked(e) /\ x.text = answer[e].text
                    BY <5>1 DEF AskedIn, Asked, Recorded
                <5> QED
                    BY <3>1, <4>2, <5>2
            <4> QED
                BY <4>4, <4>5, <4>6
        <3>2. CASE ~(f = e /\ Recording(e))
            <4>1. generations'[f] = generations[f]
                BY <1>1, <3>2 DEF Frame, Begin, Proceed, Recording, RenderFails, LoadHit, LoadNothing, Generate,
                    GeneratorFails, Store, CacheFails
            <4> QED
                BY <1>2, <1>12, <2>1, <4>1
        <3> QED
            BY <3>1, <3>2
    <2>3. PICK asked, text : asked = AskedIn(x) /\ text = x.text
        OBVIOUS
    <2>4. HoldsText(f, asked, text)'
        BY <1>2, <1>6, <2>2, <2>3
    <2>5. AskedIn(generations[f][i])' = asked /\ generations'[f][i].text = text
        BY <2>1, <2>3 DEF AskedIn
    <2> QED
        BY <2>4, <2>5 DEF HoldsText
<1> QED
    BY <1>2, <1>3, <1>10, <1>11, <1>12 DEF WarmInv

LEMMA SpecWalks == Spec => []WalksInv
<1>1. Init => WalksInv
    <2> SUFFICES ASSUME Init PROVE WalksInv
        OBVIOUS
    <2>1. ASSUME NEW e \in Evaluations PROVE WalkInv(e) /\ HeldInv(e) /\ WarmInv(e)
        <3>1. /\ generations[e] = << >> /\ Len(generations[e]) = 0 /\ DOMAIN generations[e] = {}
              /\ Asked(e) = First /\ stage[e] = "idle" /\ failure[e] = "none" /\ ~warm[e]
              /\ step[e] = "extract" /\ claims[e] = << >>
            BY DEF Init, Asked, First
        <3>2. ~Ended(e)
            BY <3>1 DEF Ended
        <3>3. WalkInv(e)
            BY <3>1, <3>2 DEF WalkInv
        <3> QED
            BY <3>1, <3>3 DEF HeldInv, WarmInv
    <2>2. cache = {}
        BY DEF Init
    <2> QED
        BY <2>1, <2>2 DEF WalksInv
<1>2. IInv /\ ChainInv /\ TypeOK /\ WalksInv /\ [Next]_vars => WalksInv'
    <2> SUFFICES ASSUME IInv, ChainInv, TypeOK, WalksInv, [Next]_vars PROVE WalksInv'
        OBVIOUS
    <2>1. ASSUME NEW e \in Evaluations, Begin(e) \/ Proceed(e) PROVE WalksInv'
        <3>1. ASSUME NEW f \in Evaluations PROVE WalkInv(f)' /\ HeldInv(f)'
            BY <2>1, StepWalk, StepHeld DEF WalksInv
        <3>2. ASSUME NEW f \in Evaluations PROVE WarmInv(f)'
            <4>1. CASE warm[f]
                BY <2>1, <4>1, WarmStays
            <4>2. CASE ~warm[f] /\ warm'[f]
                <5>1. f = e /\ Begin(e)
                    BY <2>1, <4>2 DEF TypeOK, Begin, Proceed, RenderFails, LoadHit, LoadNothing, Generate,
                        GeneratorFails, Store, CacheFails, Repair, RepairFails, GiveUp, Extract, Judge
                <5> QED
                    BY <4>2, <5>1, WarmStarts
            <4>3. CASE ~warm'[f]
                BY <4>3 DEF WarmInv
            <4> QED
                BY <4>1, <4>2, <4>3
        <3>3. \A entry \in cache' : LeadsInv(entry)'
            BY <2>1, StepLeads
        <3> QED
            BY <3>1, <3>2, <3>3 DEF WalksInv
    <2>2. CASE UNCHANGED vars
        <3>1. UNCHANGED <<job, stage, step, prompt, answer, claims, generations, calls, failure, warm, cache>>
            BY <2>2 DEF vars, evalVars
        <3>2. /\ \A e : Asked(e)' = Asked(e) /\ (Ended(e)' <=> Ended(e)) /\ Mode(e)' = Mode(e)
              /\ \A e, asked : Holds(e, asked)' <=> Holds(e, asked)
              /\ \A e, asked, text : HoldsText(e, asked, text)' <=> HoldsText(e, asked, text)
              /\ \A e : Sharing(e)' = Sharing(e)
            BY <3>1 DEF Asked, Ended, Mode, Holds, HoldsText, KeyFor, Sharing
        <3>3. \A entry : Settled(entry)' <=> Settled(entry)
            BY <3>2 DEF Settled
        <3>4. ASSUME NEW entry \in cache PROVE LeadsInv(entry)'
            BY <3>1, <3>2, <3>3 DEF WalksInv, LeadsInv
        <3>5. ASSUME NEW e \in Evaluations PROVE WalkInv(e)' /\ HeldInv(e)' /\ WarmInv(e)'
            <4>1. WalkInv(e)'
                BY <3>1, <3>2 DEF WalksInv, WalkInv
            <4>2. Holds(e, Asked(e))' <=> Holds(e, Asked(e))
                BY <3>1, <3>2 DEF Holds, KeyFor
            <4>3. HeldInv(e)'
                BY <3>1, <3>2, <4>2 DEF WalksInv, HeldInv
            <4>4. Warm(e) => Warm(e)'
                <5>1. \A f : /\ Holds(f, Asked(f))' <=> Holds(f, Asked(f))
                             /\ HoldsText(f, Asked(f), answer[f].text)' <=> HoldsText(f, Asked(f), answer[f].text)
                    BY <3>1, <3>2 DEF Holds, HoldsText, KeyFor
                <5> QED
                    BY <3>1, <3>2, <3>3, <5>1 DEF Warm
            <4>5. WarmInv(e)'
                <5>1. ASSUME NEW i
                      PROVE  HoldsText(e, AskedIn(generations[e][i]), generations[e][i].text)' <=>
                             HoldsText(e, AskedIn(generations[e][i]), generations[e][i].text)
                    BY <3>1 DEF HoldsText, KeyFor, AskedIn
                <5> QED
                    BY <3>1, <3>2, <4>4, <5>1 DEF WalksInv, WarmInv
            <4> QED
                BY <4>1, <4>3, <4>5
        <3> QED
            BY <3>1, <3>4, <3>5 DEF WalksInv
    <2> QED
        BY <2>1, <2>2 DEF Next
<1> QED
    BY <1>1, <1>2, SpecInv, SpecChain, JudgeTypes, PTL DEF Spec

\* Two warm evaluations on the same keys get the same texts, as far as they both
\* go.
LEMMA WarmTextsAgree ==
    ASSUME IInv, WalksInv, NEW e \in Evaluations, NEW f \in Evaluations, warm[e], warm[f], f \in Sharing(e),
           NEW n \in Nat, 1 .. n \subseteq DOMAIN generations[e], 1 .. n \subseteq DOMAIN generations[f],
           NEW i \in 1 .. n
    PROVE  /\ AskedIn(generations[e][i]) = AskedIn(generations[f][i])
           /\ generations[e][i].text = generations[f][i].text
<1> DEFINE s == generations[e]
           t == generations[f]
           Same(k) == AskedIn(s[k]) = AskedIn(t[k]) /\ s[k].text = t[k].text
           S == {k \in 0 .. n : k # 0 => Same(k)}
<1>1. /\ \A k \in 1 .. n :
            /\ AskedIn(s[k]) = IF k = 1 THEN First ELSE Following(AskedIn(s[k - 1]), s[k - 1].text)
            /\ AskedIn(t[k]) = IF k = 1 THEN First ELSE Following(AskedIn(t[k - 1]), t[k - 1].text)
            /\ HoldsText(e, AskedIn(s[k]), s[k].text) /\ HoldsText(f, AskedIn(t[k]), t[k].text)
    <2>1. WalkInv(e) /\ WalkInv(f) /\ WarmInv(e) /\ WarmInv(f)
        BY DEF WalksInv
    <2> QED
        BY <2>1 DEF WalkInv, WarmInv
<1>2. ASSUME NEW k \in 1 .. n, AskedIn(s[k]) = AskedIn(t[k]) PROVE Same(k)
    <2>1. PICK x \in cache : x.key = KeyFor(e, AskedIn(s[k])) /\ x.text = s[k].text
        BY <1>1 DEF HoldsText
    <2>2. PICK y \in cache : y.key = KeyFor(f, AskedIn(t[k])) /\ y.text = t[k].text
        BY <1>1 DEF HoldsText
    <2>3. x.key = y.key
        BY <1>2, <2>1, <2>2, SharingKeys
    <2>4. x = y
        BY <2>3 DEF IInv
    <2> QED
        BY <1>2, <2>1, <2>2, <2>4
<1>3. 0 \in S
    OBVIOUS
<1>4. ASSUME NEW k \in 1 .. n, k - 1 \in S PROVE k \in S
    <2>1. k \in 0 .. n
        OBVIOUS
    <2>2. k = 1 \/ Same(k - 1)
        BY <1>4
    <2>3. AskedIn(s[k]) = AskedIn(t[k])
        <3> HIDE DEF s, t
        <3> QED
            BY <1>1, <2>2
    <2>4. Same(k)
        BY <1>2, <2>3
    <2> HIDE DEF Same
    <2> QED
        BY <2>1, <2>4
<1>5. 0 .. n \subseteq S
    <2> HIDE DEF S
    <2> QED
        BY <1>3, <1>4, Induction
<1>6. i \in 0 .. n /\ i # 0
    OBVIOUS
<1> QED
    BY <1>5, <1>6

\* Neither goes on where the other ends.
LEMMA WarmNotLonger ==
    ASSUME IInv, WalksInv, NEW e \in Evaluations, NEW f \in Evaluations, warm[e], warm[f], f \in Sharing(e),
           Ended(e)
    PROVE  ~(Len(generations[e]) < Len(generations[f]))
<1> SUFFICES ASSUME Len(generations[e]) < Len(generations[f]) PROVE FALSE
    OBVIOUS
<1> DEFINE s == generations[e]
           t == generations[f]
           limit == Limit[job[e].protocol]
<1>0. PICK n \in Nat : n = Len(s) /\ DOMAIN s = 1 .. n
    BY Countable, AppendExtends DEF IInv, AttemptsInv
<1>1. PICK m \in Nat : m = Len(t) /\ DOMAIN t = 1 .. m
    BY Countable, AppendExtends DEF IInv, AttemptsInv
<1>2. n < m /\ n # 0 /\ Final(AskedIn(s[n]), s[n].text, limit)
    BY <1>0, <1>1 DEF WalksInv, WalkInv
<1>3. n \in 1 .. n /\ 1 .. n \subseteq 1 .. n /\ 1 .. n \subseteq 1 .. m /\ n \in 1 .. m
    BY <1>2
<1>4. AskedIn(s[n]) = AskedIn(t[n]) /\ s[n].text = t[n].text
    BY <1>0, <1>1, <1>3, WarmTextsAgree
<1>5. Limit[job[f].protocol] = limit
    BY DEF Sharing
<1>6. ~Final(AskedIn(t[n]), t[n].text, limit)
    BY <1>1, <1>2, <1>3, <1>5 DEF WalksInv, WalkInv
<1> QED
    BY <1>2, <1>4, <1>6

\* A warm evaluation pays for nothing, and those that share its keys and are warm
\* as well end with its claims and its verdict, however they are scheduled and
\* whatever the answers were worth (claimjudge.go 525-560, cache.go 57-74).
THEOREM WarmRunsReplay == Spec => []WarmReplay
<1>1. IInv /\ WalksInv => WarmReplay
    <2> SUFFICES ASSUME IInv, WalksInv, NEW e \in Evaluations, NEW f \in Evaluations, warm[e]
                 PROVE  /\ calls[e] = 0
                        /\ warm[f] /\ f \in Peers(e) /\ Ended(e) /\ Ended(f) =>
                            claims[e] = claims[f] /\ stage[e] = stage[f]
        BY DEF WarmReplay
    <2>1. calls[e] = 0 /\ Mode(e) = "use"
        BY DEF WalksInv, WarmInv
    <2>2. ASSUME warm[f], f \in Peers(e), Ended(e), Ended(f)
          PROVE  claims[e] = claims[f] /\ stage[e] = stage[f]
        <3> DEFINE s == generations[e]
                   t == generations[f]
        <3>0. f \in Sharing(e) /\ e \in Sharing(f)
            BY <2>1, <2>2 DEF Peers, Sharing
        <3>1. PICK n \in Nat : n = Len(s) /\ DOMAIN s = 1 .. n
            BY Countable, AppendExtends DEF IInv, AttemptsInv
        <3>2. PICK m \in Nat : m = Len(t) /\ DOMAIN t = 1 .. m
            BY Countable, AppendExtends DEF IInv, AttemptsInv
        <3>3. ~(n < m) /\ ~(m < n)
            BY <2>2, <3>0, <3>1, <3>2, WarmNotLonger
        <3>4. m = n
            BY <3>3
        <3>5. /\ n # 0 /\ Asked(e) = AskedIn(s[n]) /\ Asked(f) = AskedIn(t[n])
              /\ stage[e] = "sealed" <=> Passes(AskedIn(s[n]), s[n].text)
              /\ stage[f] = "sealed" <=> Passes(AskedIn(t[n]), t[n].text)
              /\ claims[e] = IF step[e] = "support" THEN prompt[e].about ELSE << >>
              /\ claims[f] = IF step[f] = "support" THEN prompt[f].about ELSE << >>
            <4>1. WalkInv(e) /\ WalkInv(f)
                BY DEF WalksInv
            <4> QED
                BY <2>2, <3>1, <3>2, <3>4, <4>1 DEF WalkInv
        <3>6. n \in 1 .. n
            BY <3>5
        <3>7. AskedIn(s[n]) = AskedIn(t[n]) /\ s[n].text = t[n].text
            BY <2>2, <3>0, <3>1, <3>2, <3>4, <3>6, WarmTextsAgree
        <3>8. step[e] = step[f] /\ prompt[e] = prompt[f]
            BY <3>5, <3>7 DEF Asked
        <3>9. stage[e] \in {"sealed", "failed"} /\ stage[f] \in {"sealed", "failed"}
            BY <2>2 DEF Ended, IInv, CallsInv
        <3> QED
            BY <3>5, <3>7, <3>8, <3>9
    <2> QED
        BY <2>1, <2>2
<1> QED
    BY <1>1, SpecInv, SpecWalks, PTL

=============================================================================
