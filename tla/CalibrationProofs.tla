-------------------------- MODULE CalibrationProofs --------------------------
(***************************************************************************)
(* Theorems about Calibration, for gold sets, reports and binnings of any  *)
(* size.  Sums and buckets are recursive functions; what they compute is   *)
(* proved by induction on their arguments, with sets of numbers in the     *)
(* place of predicates.                                                    *)
(***************************************************************************)
EXTENDS Calibration, FiniteSetTheorems, SequenceTheorems, TLAPS

-----------------------------------------------------------------------------
(* Induction and recursion *)

\* Of a set of numbers up to n, one is the least.
LEMMA LeastExists ==
    ASSUME NEW n \in Nat, NEW S \in SUBSET (0 .. n), S # {}
    PROVE  \E k \in S : \A j \in S : k <= j
<1> DEFINE F == {0 .. k : k \in S}
<1>0. IsFiniteSet(0 .. n)
    BY FS_Interval
<1>1. F \subseteq SUBSET (0 .. n) /\ F # {}
    <2>1. \A k \in S : (0 .. k) \subseteq (0 .. n)
        OBVIOUS
    <2> QED
        BY <2>1
<1>2. \A X \in F : IsFiniteSet(X)
    BY <1>0, <1>1, FS_Subset
<1>3. F \subseteq FiniteSubsetsOf(0 .. n)
    BY <1>1, <1>2 DEF FiniteSubsetsOf
<1>4. PICK X \in F : \A Y \in F : ~(<<Y, X>> \in StrictSubsetOrdering(0 .. n))
    <2> HIDE DEF F
    <2> QED
        BY <1>0, <1>1, <1>3, FS_StrictSubsetOrderingWellFounded, WFMin
<1>5. PICK k \in S : X = 0 .. k
    OBVIOUS
<1>6. ASSUME NEW j \in S, ~(k <= j) PROVE FALSE
    <2>1. j \in 0 .. n /\ k \in 0 .. n
        OBVIOUS
    <2>2. 0 .. j \in F /\ (0 .. j) \subseteq (0 .. k) /\ k \in 0 .. k /\ k \notin 0 .. j
        BY <1>6, <2>1
    <2>3. <<0 .. j, X>> \in StrictSubsetOrdering(0 .. n)
        BY <1>5, <2>1, <2>2 DEF StrictSubsetOrdering
    <2> QED
        BY <1>4, <2>2, <2>3
<1> QED
    BY <1>6

\* A set with 0 that has, with a number below n, the next one too.
LEMMA Induction ==
    ASSUME NEW n \in Nat, NEW S, 0 \in S, \A k \in 1 .. n : k - 1 \in S => k \in S
    PROVE  0 .. n \subseteq S
<1> DEFINE T == (0 .. n) \ S
<1>1. SUFFICES ASSUME T # {} PROVE FALSE
    OBVIOUS
<1>2. PICK k \in T : \A j \in T : k <= j
    <2>1. T \in SUBSET (0 .. n)
        OBVIOUS
    <2> HIDE DEF T
    <2> QED
        BY <1>1, <2>1, LeastExists
<1>3. k \in 1 .. n /\ k - 1 \in 0 .. n /\ ~(k <= k - 1)
    OBVIOUS
<1> QED
    BY <1>2, <1>3

\* g starts with a, and Step makes each value from its place and the value before.
Follows(g, n, X, a, Step) ==
    /\ g \in [0 .. n -> X] /\ g[0] = a
    /\ \A k \in 1 .. n : g[k] = Step[<<k, g[k - 1]>>]

\* A function defined by recursion over 0 .. n exists.
LEMMA Recursion ==
    ASSUME NEW n \in Nat, NEW X, NEW a \in X, NEW Step \in [(1 .. n) \X X -> X]
    PROVE  \E g : Follows(g, n, X, a, Step)
<1> DEFINE Upto(m, g) == g[0] = a /\ \A k \in 1 .. m : g[k] = Step[<<k, g[k - 1]>>]
           S == {m \in 0 .. n : \E g \in [0 .. m -> X] : Upto(m, g)}
<1>1. 0 \in S
    <2> DEFINE g == [k \in 0 .. 0 |-> a]
    <2>1. g \in [0 .. 0 -> X] /\ Upto(0, g) /\ 0 \in 0 .. n
        OBVIOUS
    <2> HIDE DEF g, Upto
    <2> QED
        BY <2>1
<1>2. ASSUME NEW m \in 1 .. n, m - 1 \in S PROVE m \in S
    <2>1. PICK g \in [0 .. (m - 1) -> X] : Upto(m - 1, g)
        BY <1>2
    <2> DEFINE h == [k \in 0 .. m |-> IF k = m THEN Step[<<m, g[m - 1]>>] ELSE g[k]]
    <2>2. m - 1 \in 0 .. (m - 1) /\ g[m - 1] \in X /\ \A k \in 0 .. m : k # m => k \in 0 .. (m - 1)
        OBVIOUS
    <2>3. Step[<<m, g[m - 1]>>] \in X
        BY <2>2
    <2>4. h \in [0 .. m -> X]
        BY <2>2, <2>3
    <2>5. h[0] = a
        BY <2>1
    <2>6. ASSUME NEW k \in 1 .. m PROVE h[k] = Step[<<k, h[k - 1]>>]
        <3>1. k \in 0 .. m /\ k - 1 \in 0 .. m /\ k - 1 # m
            OBVIOUS
        <3>2. h[k - 1] = g[k - 1]
            BY <3>1
        <3>3. CASE k = m
            BY <3>1, <3>2, <3>3
        <3>4. CASE k # m
            <4>1. k \in 1 .. (m - 1)
                BY <3>4
            <4>2. g[k] = Step[<<k, g[k - 1]>>] /\ h[k] = g[k]
                BY <2>1, <3>1, <3>4, <4>1
            <4> QED
                BY <3>2, <4>2
        <3> QED
            BY <3>3, <3>4
    <2>7. Upto(m, h)
        BY <2>5, <2>6
    <2> HIDE DEF h, Upto
    <2> QED
        BY <2>4, <2>7
<1>3. 0 .. n \subseteq S
    <2> HIDE DEF S
    <2> QED
        BY <1>1, <1>2, Induction
<1>4. n \in S
    <2> HIDE DEF S
    <2> QED
        BY <1>3
<1> QED
    BY <1>4 DEF Follows

-----------------------------------------------------------------------------
(* Sums *)

\* s holds the sums of the beginnings of f.
Partial(s, f) ==
    /\ s \in [0 .. Len(f) -> Int] /\ s[0] = 0
    /\ \A k \in 1 .. Len(f) : s[k] = s[k - 1] + f[k]

LEMMA TotalIsPartial ==
    ASSUME NEW f \in Seq(Int)
    PROVE  \E s : Partial(s, f) /\ Total(f) = s[Len(f)]
<1> DEFINE n == Len(f)
           Step == [p \in (1 .. n) \X Int |-> p[2] + f[p[1]]]
           Sums(s) == s = [k \in 0 .. n |-> IF k = 0 THEN 0 ELSE s[k - 1] + f[k]]
           s0 == CHOOSE s : Sums(s)
<1>1. n \in Nat /\ Step \in [(1 .. n) \X Int -> Int] /\ \A k \in 1 .. n : f[k] \in Int
    OBVIOUS
<1>2. PICK g \in [0 .. n -> Int] : g[0] = 0 /\ \A k \in 1 .. n : g[k] = Step[<<k, g[k - 1]>>]
    <2>0. 0 \in Int
        OBVIOUS
    <2>1. \E g : Follows(g, n, Int, 0, Step)
        <3> HIDE DEF Step, n, Sums
        <3> QED
            BY <1>1, <2>0, Recursion, Zenon
    <2> QED
        BY <2>1 DEF Follows
<1>3. \A k \in 1 .. n : g[k] = g[k - 1] + f[k]
    <2>1. \A k \in 1 .. n : k - 1 \in 0 .. n
        BY <1>1
    <2> QED
        BY <1>1, <1>2, <2>1
<1>4. Sums(g)
    <2>1. \A k \in 0 .. n : k # 0 => k \in 1 .. n
        BY <1>1
    <2>2. \A k \in 0 .. n : g[k] = IF k = 0 THEN 0 ELSE g[k - 1] + f[k]
        BY <1>2, <1>3, <2>1
    <2> QED
        BY <2>2
<1>5. Sums(s0)
    <2> HIDE DEF Sums
    <2> QED
        BY <1>4
<1>6. Total(f) = s0[n]
    BY DEF Total
<1>7. \A k \in 1 .. n : k \in 0 .. n /\ k - 1 \in 0 .. n /\ k # 0
    BY <1>1
<1>8. s0[0] = 0 /\ \A k \in 1 .. n : s0[k] = s0[k - 1] + f[k]
    <2> HIDE DEF s0
    <2>1. 0 \in 0 .. n
        BY <1>1
    <2> QED
        BY <1>5, <1>7, <2>1
<1>9. \A k \in 0 .. n : s0[k] \in Int
    <2> DEFINE S == {k \in 0 .. n : s0[k] \in Int}
    <2> HIDE DEF s0
    <2>1. 0 \in S
        BY <1>1, <1>8
    <2>2. \A k \in 1 .. n : k - 1 \in S => k \in S
        BY <1>1, <1>7, <1>8
    <2>3. 0 .. n \subseteq S
        <3> HIDE DEF S
        <3> QED
            BY <1>1, <2>1, <2>2, Induction
    <2> QED
        BY <2>3
<1>10. s0 \in [0 .. n -> Int]
    <2> HIDE DEF s0
    <2> QED
        BY <1>5, <1>9
<1> HIDE DEF s0
<1> QED
    BY <1>6, <1>8, <1>10 DEF Partial

LEMMA PartialStep ==
    ASSUME NEW f \in Seq(Int), NEW s, Partial(s, f), NEW k \in 1 .. Len(f)
    PROVE  /\ k \in 0 .. Len(f) /\ k - 1 \in 0 .. Len(f)
           /\ s[k - 1] \in Int /\ s[k] \in Int /\ f[k] \in Int /\ s[k] = s[k - 1] + f[k]
<1>1. k \in 0 .. Len(f) /\ k - 1 \in 0 .. Len(f) /\ f[k] \in Int
    OBVIOUS
<1>2. s \in [0 .. Len(f) -> Int] /\ s[k] = s[k - 1] + f[k]
    BY DEF Partial
<1>3. s[k] \in Int /\ s[k - 1] \in Int
    BY <1>1, <1>2
<1> QED
    BY <1>1, <1>2, <1>3

LEMMA TotalType ==
    ASSUME NEW f \in Seq(Int)
    PROVE  Total(f) \in Int
<1>1. PICK s : Partial(s, f) /\ Total(f) = s[Len(f)]
    BY TotalIsPartial
<1>2. Len(f) \in 0 .. Len(f)
    OBVIOUS
<1> QED
    BY <1>1, <1>2 DEF Partial

\* A sum of terms from 0 to c.
LEMMA TotalInRange ==
    ASSUME NEW f \in Seq(Int), NEW c \in Nat, \A i \in 1 .. Len(f) : f[i] \in 0 .. c
    PROVE  Total(f) \in 0 .. (Len(f) * c)
<1>1. PICK s : Partial(s, f) /\ Total(f) = s[Len(f)]
    BY TotalIsPartial
<1>2. Len(f) \in Nat /\ \A k \in 1 .. Len(f) : k \in 0 .. Len(f) /\ k - 1 \in 0 .. Len(f)
    OBVIOUS
<1> DEFINE S == {k \in 0 .. Len(f) : s[k] \in 0 .. (k * c)}
<1>3. 0 \in S
    BY <1>1 DEF Partial
<1>4. ASSUME NEW k \in 1 .. Len(f), k - 1 \in S PROVE k \in S
    <2>1. s[k] = s[k - 1] + f[k] /\ s[k - 1] \in Int /\ s[k] \in Int
        BY <1>1, <1>2 DEF Partial
    <2>2. s[k - 1] >= 0 /\ s[k - 1] <= (k - 1) * c /\ f[k] >= 0 /\ f[k] <= c /\ f[k] \in Int
        BY <1>4
    <2>3. k * c = (k - 1) * c + c /\ k * c \in Int /\ (k - 1) * c \in Int
        OBVIOUS
    <2>4. s[k] \in 0 .. (k * c)
        BY <2>1, <2>2, <2>3
    <2> QED
        BY <1>2, <2>4
<1>5. Len(f) \in S
    <2>1. 0 .. Len(f) \subseteq S
        <3> HIDE DEF S
        <3> QED
            BY <1>2, <1>3, <1>4, Induction
    <2> QED
        BY <1>2, <2>1
<1> QED
    BY <1>1, <1>5

\* The size of a sum is at most the sum of the sizes.
LEMMA TotalMagnitude ==
    ASSUME NEW f \in Seq(Int), NEW g \in Seq(Int), Len(f) = Len(g),
           \A i \in 1 .. Len(f) : g[i] = Magnitude(f[i])
    PROVE  Magnitude(Total(f)) <= Total(g)
<1>1. PICK s : Partial(s, f) /\ Total(f) = s[Len(f)]
    BY TotalIsPartial
<1>2. PICK t : Partial(t, g) /\ Total(g) = t[Len(g)]
    BY TotalIsPartial
<1>3. Len(f) \in Nat /\ \A k \in 1 .. Len(f) : k \in 0 .. Len(f) /\ k - 1 \in 0 .. Len(f)
    OBVIOUS
<1> DEFINE S == {k \in 0 .. Len(f) : Magnitude(s[k]) <= t[k]}
<1>4. 0 \in S
    BY <1>1, <1>2 DEF Partial, Magnitude
<1>5. ASSUME NEW k \in 1 .. Len(f), k - 1 \in S PROVE k \in S
    <2>1. s[k] = s[k - 1] + f[k] /\ t[k] = t[k - 1] + g[k]
        BY <1>1, <1>2 DEF Partial
    <2>2. s[k - 1] \in Int /\ t[k - 1] \in Int /\ f[k] \in Int /\ g[k] \in Int
        BY <1>1, <1>2, PartialStep
    <2>3. Magnitude(s[k - 1]) <= t[k - 1] /\ g[k] = Magnitude(f[k])
        BY <1>5
    <2> DEFINE a == s[k - 1]
               b == t[k - 1]
               y == f[k]
    <2>4. Magnitude(a + y) <= b + Magnitude(y)
        <3>1. a \in Int /\ b \in Int /\ y \in Int /\ Magnitude(a) <= b
            BY <2>2, <2>3
        <3> HIDE DEF a, b, y
        <3> QED
            BY <3>1 DEF Magnitude
    <2> QED
        BY <1>3, <2>1, <2>3, <2>4
<1>6. Len(f) \in S
    <2>1. 0 .. Len(f) \subseteq S
        <3> HIDE DEF S
        <3> QED
            BY <1>3, <1>4, <1>5, Induction
    <2> QED
        BY <1>3, <2>1
<1> QED
    BY <1>1, <1>2, <1>6

\* Changing one term changes the sum by as much.
LEMMA TotalChange ==
    ASSUME NEW f \in Seq(Int), NEW g \in Seq(Int), Len(f) = Len(g),
           NEW c \in 1 .. Len(f), \A i \in 1 .. Len(f) : i # c => g[i] = f[i]
    PROVE  Total(g) = Total(f) + g[c] - f[c]
<1>1. PICK s : Partial(s, f) /\ Total(f) = s[Len(f)]
    BY TotalIsPartial
<1>2. PICK t : Partial(t, g) /\ Total(g) = t[Len(g)]
    BY TotalIsPartial
<1>3. Len(f) \in Nat /\ \A k \in 1 .. Len(f) : k \in 0 .. Len(f) /\ k - 1 \in 0 .. Len(f)
    OBVIOUS
<1> DEFINE S == {k \in 0 .. Len(f) : t[k] = IF k < c THEN s[k] ELSE s[k] + g[c] - f[c]}
<1>4. 0 \in S
    BY <1>1, <1>2 DEF Partial
<1>5. ASSUME NEW k \in 1 .. Len(f), k - 1 \in S PROVE k \in S
    <2>1. s[k] = s[k - 1] + f[k] /\ t[k] = t[k - 1] + g[k]
        BY <1>1, <1>2 DEF Partial
    <2>2. /\ s[k - 1] \in Int /\ t[k - 1] \in Int /\ f[k] \in Int /\ g[k] \in Int
          /\ f[c] \in Int /\ g[c] \in Int /\ k \in Int /\ c \in Int
        BY <1>1, <1>2, PartialStep
    <2>3. t[k - 1] = IF k - 1 < c THEN s[k - 1] ELSE s[k - 1] + g[c] - f[c]
        BY <1>5
    <2>4. CASE k < c
        <3>1. k - 1 < c /\ k # c
            BY <2>2, <2>4
        <3>2. g[k] = f[k]
            BY <3>1
        <3> QED
            BY <1>3, <2>1, <2>2, <2>3, <2>4, <3>1, <3>2
    <2>5. CASE k = c
        <3>1. k - 1 < c /\ ~(k < c)
            BY <2>2, <2>5
        <3>2. t[k - 1] = s[k - 1] /\ g[k] = g[c] /\ f[k] = f[c]
            BY <2>3, <2>5, <3>1
        <3>3. t[k] = s[k] + g[c] - f[c]
            BY <2>1, <2>2, <3>2
        <3> QED
            BY <1>3, <3>1, <3>3
    <2>6. CASE k > c
        <3>1. ~(k - 1 < c) /\ k # c /\ ~(k < c)
            BY <2>2, <2>6
        <3>2. g[k] = f[k] /\ t[k - 1] = s[k - 1] + g[c] - f[c]
            BY <2>3, <3>1
        <3>3. t[k] = s[k] + g[c] - f[c]
            <4> DEFINE x == s[k - 1]
                       y == g[c]
                       z == f[c]
                       w == f[k]
            <4>1. t[k] = (x + y - z) + w /\ s[k] = x + w
                BY <2>1, <3>2
            <4>2. x \in Int /\ y \in Int /\ z \in Int /\ w \in Int
                BY <2>2
            <4>3. (x + y - z) + w = (x + w) + y - z
                <5> HIDE DEF x, y, z, w
                <5> QED
                    BY <4>2
            <4> QED
                BY <4>1, <4>3, Zenon
        <3>4. k \in 0 .. Len(f)
            BY <1>3
        <3> QED
            BY <3>1, <3>3, <3>4
    <2> QED
        BY <2>2, <2>4, <2>5, <2>6
<1>6. Len(f) \in S
    <2>1. 0 .. Len(f) \subseteq S
        <3> HIDE DEF S
        <3> QED
            BY <1>3, <1>4, <1>5, Induction
    <2> QED
        BY <1>3, <2>1
<1> QED
    BY <1>1, <1>2, <1>6

\* What a difference of squares gives: with Q the sum of the squares, none of
\* the sums of (x - f[i]) * (x - f[i]) is negative.
LEMMA TotalOfSquares ==
    ASSUME NEW f \in Seq(Int), NEW g \in Seq(Int), Len(f) = Len(g),
           \A i \in 1 .. Len(f) : g[i] = f[i] * f[i]
    PROVE  Total(f) * Total(f) <= Len(f) * Total(g)
<1>1. PICK s : Partial(s, f) /\ Total(f) = s[Len(f)]
    BY TotalIsPartial
<1>2. PICK t : Partial(t, g) /\ Total(g) = t[Len(g)]
    BY TotalIsPartial
<1>3. Len(f) \in Nat /\ \A k \in 1 .. Len(f) : k \in 0 .. Len(f) /\ k - 1 \in 0 .. Len(f)
    OBVIOUS
<1>4. /\ \A k \in 0 .. Len(f) : s[k] \in Int /\ t[k] \in Int
      /\ s[0] = 0 /\ t[0] = 0
      /\ \A k \in 1 .. Len(f) : s[k] = s[k - 1] + f[k] /\ t[k] = t[k - 1] + f[k] * f[k]
      /\ \A k \in 1 .. Len(f) : f[k] \in Int
    <2>1. \A k \in 0 .. Len(f) : s[k] \in Int /\ t[k] \in Int
        BY <1>1, <1>2 DEF Partial
    <2>2. s[0] = 0 /\ t[0] = 0 /\ \A k \in 1 .. Len(f) : f[k] \in Int
        BY <1>1, <1>2 DEF Partial
    <2>3. \A k \in 1 .. Len(f) : s[k] = s[k - 1] + f[k] /\ t[k] = t[k - 1] + g[k] /\ g[k] = f[k] * f[k]
        BY <1>1, <1>2 DEF Partial
    <2> QED
        BY <2>1, <2>2, <2>3
<1>5. ASSUME NEW x \in Int, NEW k \in 0 .. Len(f)
      PROVE  t[k] + k * (x * x) >= 2 * (x * s[k])
    <2> DEFINE S == {j \in 0 .. Len(f) : t[j] + j * (x * x) >= 2 * (x * s[j])}
    <2>1. 0 \in S
        <3> DEFINE a == s[0]
                   b == t[0]
        <3>1. a = 0 /\ b = 0 /\ 0 \in 0 .. Len(f)
            BY <1>3, <1>4
        <3>2. b + 0 * (x * x) >= 2 * (x * a)
            <4> HIDE DEF a, b
            <4> QED
                BY <3>1
        <3> QED
            BY <3>1, <3>2
    <2>2. ASSUME NEW j \in 1 .. Len(f), j - 1 \in S PROVE j \in S
        <3> DEFINE y == f[j]
                   a == s[j - 1]
                   q == t[j - 1]
        <3>1. y \in Int /\ a \in Int /\ q \in Int /\ j \in Int /\ j \in 0 .. Len(f)
            BY <1>3, <1>4
        <3>2. q + (j - 1) * (x * x) >= 2 * (x * a)
            BY <2>2
        <3>3. s[j] = a + y /\ t[j] = q + y * y
            BY <1>4
        <3> HIDE DEF y, a, q
        <3>4. (x - y) * (x - y) >= 0
            <4>1. \A d \in Int : d * d >= 0
                OBVIOUS
            <4> QED
                BY <3>1, <4>1
        <3>5. (x - y) * (x - y) = x * x - 2 * (x * y) + y * y
            BY <3>1
        <3>6. x * (a + y) = x * a + x * y
            BY <3>1
        <3>7. j * (x * x) = (j - 1) * (x * x) + x * x
            BY <3>1
        <3>8. x * x \in Int /\ x * y \in Int /\ y * y \in Int /\ x * a \in Int /\ (j - 1) * (x * x) \in Int
            BY <3>1
        <3>9. (q + y * y) + j * (x * x) >= 2 * (x * (a + y))
            <4> DEFINE xx == x * x
                       xy == x * y
                       yy == y * y
                       xa == x * a
                       jx == (j - 1) * (x * x)
            <4>1. xx \in Int /\ xy \in Int /\ yy \in Int /\ xa \in Int /\ jx \in Int
                BY <3>8
            <4>2. q + jx >= 2 * xa /\ xx - 2 * xy + yy >= 0
                BY <3>2, <3>4, <3>5
            <4>3. x * (a + y) = xa + xy /\ j * (x * x) = jx + xx
                BY <3>6, <3>7
            <4> HIDE DEF xx, xy, yy, xa, jx
            <4>4. (q + yy) + (jx + xx) >= 2 * (xa + xy)
                BY <3>1, <4>1, <4>2
            <4> QED
                BY <4>3, <4>4 DEF yy
        <3> QED
            BY <3>1, <3>3, <3>9
    <2>3. k \in S
        <3> HIDE DEF S
        <3> QED
            BY <1>3, <2>1, <2>2, Induction
    <2> QED
        BY <2>3
<1> DEFINE S == {k \in 0 .. Len(f) : s[k] * s[k] <= k * t[k]}
<1>6. 0 \in S
    <2> DEFINE a == s[0]
               b == t[0]
    <2>1. a = 0 /\ b = 0 /\ 0 \in 0 .. Len(f)
        BY <1>3, <1>4
    <2>2. a * a <= 0 * b
        <3> HIDE DEF a, b
        <3> QED
            BY <2>1
    <2> QED
        BY <2>1, <2>2
<1>7. ASSUME NEW k \in 1 .. Len(f), k - 1 \in S PROVE k \in S
    <2> DEFINE y == f[k]
               a == s[k - 1]
               q == t[k - 1]
               m == k - 1
    <2>1. y \in Int /\ a \in Int /\ q \in Int /\ m \in Int /\ k = m + 1
        BY <1>3, <1>4
    <2>2. a * a <= m * q
        BY <1>7
    <2>3. q + m * (y * y) >= 2 * (y * a)
        BY <1>3, <1>4, <1>5
    <2>4. s[k] = a + y /\ t[k] = q + y * y
        BY <1>4
    <2> HIDE DEF y, a, q, m
    <2>5. (a + y) * (a + y) = a * a + 2 * (y * a) + y * y
        BY <2>1
    <2>6. (m + 1) * (q + y * y) = m * q + m * (y * y) + q + y * y
        BY <2>1
    <2>7. (a + y) * (a + y) <= (m + 1) * (q + y * y)
        <3> DEFINE aa == a * a
                   ya == y * a
                   yy == y * y
                   mq == m * q
                   my == m * (y * y)
        <3>1. aa \in Int /\ ya \in Int /\ yy \in Int /\ mq \in Int /\ my \in Int
            BY <2>1
        <3>2. aa <= mq /\ q + my >= 2 * ya
            BY <2>2, <2>3
        <3>3. (a + y) * (a + y) = aa + 2 * ya + yy /\ (m + 1) * (q + y * y) = mq + my + q + yy
            BY <2>5, <2>6
        <3> HIDE DEF aa, ya, yy, mq, my
        <3>4. aa + 2 * ya + yy <= mq + my + q + yy
            BY <2>1, <3>1, <3>2
        <3> QED
            BY <3>3, <3>4
    <2> QED
        BY <1>3, <2>1, <2>4, <2>7
<1>8. Len(f) \in S
    <2>1. 0 .. Len(f) \subseteq S
        <3> HIDE DEF S
        <3> QED
            BY <1>3, <1>6, <1>7, Induction
    <2> QED
        BY <1>3, <2>1
<1> QED
    BY <1>1, <1>2, <1>8

-----------------------------------------------------------------------------
(* The two scores *)

Gaps == [i \in DOMAIN pairs |-> Gap(i)]
Sizes == [i \in DOMAIN pairs |-> Magnitude(Gap(i))]

\* What BrierScore and ExpectedCalibrationError accept.
Scorable ==
    /\ bins \in BinCounts /\ low \subseteq {p \in Edges : (p * Bins) % Unit = 0}
    /\ pairs \in Seq([p : 0 .. Unit, z : {0, 1}])

LEMMA BinsPositive ==
    ASSUME bins \in BinCounts
    PROVE  Bins \in Nat /\ Bins >= 1
BY CalibrationAssumption DEF Bins

LEMMA GapTypes ==
    ASSUME Scorable, NEW i \in DOMAIN pairs
    PROVE  /\ pairs[i].p \in 0 .. Unit /\ Gap(i) \in Int /\ Magnitude(Gap(i)) \in 0 .. Unit
           /\ Gap(i) * Gap(i) \in 0 .. (Unit * Unit)
           /\ Magnitude(Gap(i)) * Magnitude(Gap(i)) = Gap(i) * Gap(i)
<1>1. pairs[i] \in [p : 0 .. Unit, z : {0, 1}]
    <2> DEFINE R == [p : 0 .. Unit, z : {0, 1}]
    <2>1. pairs \in Seq(R)
        BY DEF Scorable
    <2> HIDE DEF R
    <2>2. pairs[i] \in R
        BY <2>1
    <2> QED
        BY <2>2 DEF R
<1> DEFINE p == pairs[i].p
           z == pairs[i].z
           m == Magnitude(Gap(i))
<1>2. Unit \in Nat /\ p \in Int /\ 0 <= p /\ p <= Unit /\ z \in {0, 1}
    BY <1>1, CalibrationAssumption
<1>3. Unit * 0 = 0 /\ Unit * 1 = Unit
    BY <1>2
<1>4. Gap(i) \in Int /\ Gap(i) <= Unit /\ -Unit <= Gap(i)
    <2>1. Gap(i) = p - Unit * z
        BY DEF Gap
    <2>2. Gap(i) = p \/ Gap(i) = p - Unit
        BY <1>2, <1>3, <2>1
    <2> HIDE DEF p, z
    <2> QED
        BY <1>2, <2>2
<1>5. m \in Int /\ 0 <= m /\ m <= Unit /\ (m = Gap(i) \/ m = -Gap(i))
    BY <1>2, <1>4 DEF Magnitude
<1>6. m * m = Gap(i) * Gap(i)
    <2> DEFINE y == Gap(i)
    <2>1. y \in Int /\ (m = y \/ m = -y)
        BY <1>4, <1>5
    <2> HIDE DEF y, m
    <2>2. (-y) * (-y) = y * y
        BY <2>1
    <2>3. m * m = y * y
        BY <2>1, <2>2
    <2> QED
        BY <2>3 DEF y
<1>7. m * m \in Int /\ 0 <= m * m /\ m * m <= Unit * Unit
    <2> HIDE DEF m
    <2>1. m * m \in Int /\ 0 <= m * m
        BY <1>5
    <2>2. m * m <= m * Unit /\ m * Unit <= Unit * Unit
        BY <1>2, <1>5
    <2> QED
        BY <1>2, <1>5, <2>1, <2>2
<1>8. Unit * Unit \in Int
    BY <1>2
<1> QED
    BY <1>2, <1>4, <1>5, <1>6, <1>7, <1>8

LEMMA WholeDivision ==
    ASSUME NEW x \in Nat, NEW u \in Nat, u >= 1
    PROVE  (x < u => x % u = x) /\ (x >= u => x \div u >= 1)
<1>1. ASSUME x < u PROVE x % u = x
    BY <1>1
<1>2. ASSUME x >= u PROVE x \div u >= 1
    BY <1>2
<1> QED
    BY <1>1, <1>2

\* No rounding puts a probability outside the bins.
LEMMA BinInRange ==
    ASSUME Scorable, NEW p \in 0 .. Unit
    PROVE  Bin(p) \in Int /\ Bin(p) + 1 \in 1 .. Bins
<1> DEFINE x == p * Bins
           exact == x \div Unit
<1>1. Bins \in Nat /\ Bins >= 1 /\ Unit \in Nat /\ Unit >= 1 /\ p \in Nat
    BY BinsPositive, CalibrationAssumption DEF Scorable
<1>2. x \in Nat
    BY <1>1
<1>3. exact \in Nat
    <2> HIDE DEF x
    <2> QED
        BY <1>1, <1>2
<1>4. p \in low => exact >= 1
    <2>1. SUFFICES ASSUME p \in low PROVE exact >= 1
        OBVIOUS
    <2>2. p \in Edges /\ x % Unit = 0
        BY <2>1 DEF Scorable
    <2>3. p >= 1
        BY <2>2, CalibrationAssumption
    <2>4. x >= 1
        BY <1>1, <2>3
    <2> HIDE DEF x
    <2>5. CASE x < Unit
        BY <1>1, <1>2, <2>2, <2>4, <2>5, WholeDivision
    <2>6. CASE x >= Unit
        BY <1>1, <1>2, <2>6, WholeDivision
    <2> QED
        BY <1>1, <1>2, <2>5, <2>6
<1>5. Bin(p) = LET idx == IF p \in low THEN exact - 1 ELSE exact
               IN  IF idx >= Bins THEN Bins - 1 ELSE idx
    BY DEF Bin
<1> HIDE DEF exact
<1> QED
    BY <1>1, <1>3, <1>4, <1>5

\* The buckets while the pairs go in.
Filling(after) ==
    /\ after \in [0 .. Len(pairs) -> [1 .. Bins -> Int]]
    /\ after[0] = [b \in 1 .. Bins |-> 0]
    /\ \A k \in 1 .. Len(pairs) :
        after[k] = [after[k - 1] EXCEPT ![Bin(pairs[k].p) + 1] = @ + Gap(k)]

LEMMA BucketsFill ==
    ASSUME Scorable
    PROVE  \E after : Filling(after) /\ Buckets = after[Len(pairs)]
<1> DEFINE n == Len(pairs)
           X == [1 .. Bins -> Int]
           zero == [b \in 1 .. Bins |-> 0]
           Put(k, x) == [x EXCEPT ![Bin(pairs[k].p) + 1] = @ + Gap(k)]
           Step == [q \in (1 .. n) \X X |-> Put(q[1], q[2])]
           Fill(a) == a = [k \in 0 .. n |-> IF k = 0 THEN zero ELSE Put(k, a[k - 1])]
           a0 == CHOOSE a : Fill(a)
<1>1. n \in Nat /\ DOMAIN pairs = 1 .. n /\ zero \in X
    BY DEF Scorable
<1>2. ASSUME NEW k \in 1 .. n, NEW x \in X PROVE Put(k, x) \in X
    <2>1. Gap(k) \in Int /\ pairs[k].p \in 0 .. Unit
        BY <1>1, GapTypes
    <2>2. Bin(pairs[k].p) + 1 \in 1 .. Bins
        BY <2>1, BinInRange
    <2> DEFINE c == Bin(pairs[k].p) + 1
    <2>3. x[c] + Gap(k) \in Int
        BY <2>1, <2>2
    <2> HIDE DEF c
    <2>4. [x EXCEPT ![c] = x[c] + Gap(k)] \in X
        BY <2>3
    <2> QED
        BY <2>4 DEF c
<1>3. Step \in [(1 .. n) \X X -> X]
    <2> HIDE DEF Put, X, n
    <2> QED
        BY <1>2
<1>4. PICK g : Follows(g, n, X, zero, Step)
    <2> HIDE DEF Step, n, X, zero
    <2> QED
        BY <1>1, <1>3, Recursion, Zenon
<1>5. \A k \in 1 .. n : k \in 0 .. n /\ k - 1 \in 0 .. n /\ k # 0
    BY <1>1
<1>6. \A k \in 1 .. n : g[k] = Put(k, g[k - 1])
    <2> HIDE DEF Put, X, n, zero
    <2> QED
        BY <1>4, <1>5 DEF Follows
<1>7. Fill(g)
    <2> HIDE DEF Put, X, n, zero
    <2>1. g \in [0 .. n -> X] /\ g[0] = zero
        BY <1>4 DEF Follows
    <2>2. \A k \in 0 .. n : k # 0 => k \in 1 .. n
        BY <1>1
    <2>3. \A k \in 0 .. n : g[k] = IF k = 0 THEN zero ELSE Put(k, g[k - 1])
        BY <1>6, <2>1, <2>2
    <2> QED
        BY <2>1, <2>3
<1>8. Fill(a0)
    <2> HIDE DEF Fill
    <2> QED
        BY <1>7
<1>9. Buckets = a0[n]
    BY DEF Buckets
<1>10. a0[0] = zero /\ \A k \in 1 .. n : a0[k] = Put(k, a0[k - 1])
    <2> HIDE DEF a0, Put, X, n, zero
    <2>1. 0 \in 0 .. n
        BY <1>1
    <2> QED
        BY <1>5, <1>8, <2>1
<1>11. \A k \in 0 .. n : a0[k] \in X
    <2> DEFINE S == {k \in 0 .. n : a0[k] \in X}
    <2> HIDE DEF a0, Put, X, n, zero
    <2>1. 0 \in S
        BY <1>1, <1>10
    <2>2. \A k \in 1 .. n : k - 1 \in S => k \in S
        BY <1>2, <1>5, <1>10
    <2>3. 0 .. n \subseteq S
        <3> HIDE DEF S
        <3> QED
            BY <1>1, <2>1, <2>2, Induction
    <2> QED
        BY <2>3
<1>12. a0 \in [0 .. n -> X]
    <2> HIDE DEF a0, Put, X, n, zero
    <2> QED
        BY <1>8, <1>11
<1>13. Filling(a0)
    <2> HIDE DEF a0
    <2> QED
        BY <1>10, <1>12 DEF Filling
<1> HIDE DEF a0
<1> QED
    BY <1>9, <1>13

LEMMA GapSequences ==
    ASSUME Scorable
    PROVE  /\ Gaps \in Seq(Int) /\ Sizes \in Seq(Int) /\ Len(pairs) \in Nat
           /\ Len(Gaps) = Len(pairs) /\ Len(Sizes) = Len(pairs)
           /\ \A i \in 1 .. Len(pairs) :
                /\ Gaps[i] = Gap(i) /\ Sizes[i] = Magnitude(Gap(i))
                /\ Gap(i) \in Int /\ Magnitude(Gap(i)) \in Int
<1>1. Len(pairs) \in Nat /\ DOMAIN pairs = 1 .. Len(pairs)
    BY DEF Scorable
<1>2. \A i \in 1 .. Len(pairs) : Gap(i) \in Int /\ Magnitude(Gap(i)) \in Int
    BY <1>1, GapTypes
<1> QED
    BY <1>1, <1>2 DEF Gaps, Sizes

\* A row of buckets, and the row of their sizes.
LEMMA RowTypes ==
    ASSUME Scorable, NEW x \in [1 .. Bins -> Int]
    PROVE  LET sizes == [b \in 1 .. Bins |-> Magnitude(x[b])]
           IN  /\ x \in Seq(Int) /\ Len(x) = Bins
               /\ sizes \in Seq(Int) /\ Len(sizes) = Bins
<1>1. Bins \in Nat
    BY BinsPositive DEF Scorable
<1>2. \A b \in 1 .. Bins : Magnitude(x[b]) \in Int
    BY DEF Magnitude
<1> QED
    BY <1>1, <1>2

\* However the bins are filled, they hold the whole sum, and no more than the
\* sum of the sizes.
LEMMA BucketsBetween ==
    ASSUME Scorable
    PROVE  /\ Magnitude(Total(Gaps)) <= CalibrationSum
           /\ CalibrationSum <= Total(Sizes)
           /\ CalibrationSum \in Int
<1> DEFINE n == Len(pairs)
           Size(x) == [b \in 1 .. Bins |-> Magnitude(x[b])]
<1>1. PICK after : Filling(after) /\ Buckets = after[n]
    BY BucketsFill
<1>2. PICK s : Partial(s, Gaps) /\ Total(Gaps) = s[Len(Gaps)]
    BY GapSequences, TotalIsPartial
<1>3. PICK t : Partial(t, Sizes) /\ Total(Sizes) = t[Len(Sizes)]
    BY GapSequences, TotalIsPartial
<1>4. n \in Nat /\ Len(Gaps) = n /\ Len(Sizes) = n /\ Gaps \in Seq(Int) /\ Sizes \in Seq(Int)
    BY GapSequences
<1>5. \A k \in 0 .. n : after[k] \in [1 .. Bins -> Int]
    BY <1>1 DEF Filling
<1> DEFINE S == {k \in 0 .. n : Total(after[k]) = s[k] /\ Total(Size(after[k])) <= t[k]}
<1>6. 0 \in S
    <2> DEFINE x == after[0]
    <2>1. 0 \in 0 .. n /\ x \in [1 .. Bins -> Int]
        BY <1>4, <1>5
    <2>2. x \in Seq(Int) /\ Len(x) = Bins /\ Size(x) \in Seq(Int) /\ Len(Size(x)) = Bins
        BY <2>1, RowTypes
    <2>3. \A b \in 1 .. Bins : x[b] = 0
        BY <1>1 DEF Filling
    <2>4. \A b \in 1 .. Bins : Size(x)[b] = 0
        BY <2>3 DEF Magnitude
    <2>5. Bins \in Nat /\ Bins * 0 = 0
        BY BinsPositive DEF Scorable
    <2>6. Total(x) \in 0 .. (Len(x) * 0)
        <3>1. 0 \in Nat /\ \A b \in 1 .. Len(x) : x[b] \in 0 .. 0
            BY <2>2, <2>3
        <3> HIDE DEF x
        <3> QED
            BY <2>2, <3>1, TotalInRange, Zenon
    <2>7. Total(Size(x)) \in 0 .. (Len(Size(x)) * 0)
        <3> HIDE DEF Size
        <3>1. 0 \in Nat /\ \A b \in 1 .. Len(Size(x)) : Size(x)[b] \in 0 .. 0
            BY <2>2, <2>4
        <3> HIDE DEF x
        <3> QED
            BY <2>2, <3>1, TotalInRange, Zenon
    <2>8. s[0] = 0 /\ t[0] = 0
        BY <1>2, <1>3 DEF Partial
    <2> HIDE DEF Size
    <2>9. Total(x) = 0 /\ Total(Size(x)) = 0
        BY <2>2, <2>5, <2>6, <2>7
    <2> QED
        BY <2>1, <2>8, <2>9
<1>7. ASSUME NEW k \in 1 .. n, k - 1 \in S PROVE k \in S
    <2> DEFINE x == after[k - 1]
               y == after[k]
               c == Bin(pairs[k].p) + 1
    <2>1. k \in 0 .. n /\ k - 1 \in 0 .. n /\ k \in DOMAIN pairs
        BY <1>4 DEF Scorable
    <2>2. x \in [1 .. Bins -> Int] /\ y \in [1 .. Bins -> Int]
        BY <1>5, <2>1
    <2>3. c \in 1 .. Bins /\ Gap(k) \in Int
        BY <2>1, GapTypes, BinInRange
    <2>4. y = [x EXCEPT ![c] = x[c] + Gap(k)]
        BY <1>1 DEF Filling
    <2>5. /\ s[k] = s[k - 1] + Gap(k) /\ t[k] = t[k - 1] + Magnitude(Gap(k))
          /\ s[k - 1] \in Int /\ t[k - 1] \in Int /\ Magnitude(Gap(k)) \in Int
        <3>1. k \in 1 .. Len(Gaps) /\ k \in 1 .. Len(Sizes) /\ k \in 1 .. Len(pairs)
            BY <1>4
        <3>2. Gaps[k] = Gap(k) /\ Sizes[k] = Magnitude(Gap(k)) /\ Magnitude(Gap(k)) \in Int
            BY <3>1, GapSequences
        <3> QED
            BY <1>2, <1>3, <1>4, <3>1, <3>2, PartialStep
    <2>6. Total(x) = s[k - 1] /\ Total(Size(x)) <= t[k - 1]
        BY <1>7
    <2> HIDE DEF x, y, c
    <2>7. /\ x \in Seq(Int) /\ y \in Seq(Int) /\ Len(x) = Bins /\ Len(y) = Bins
          /\ Size(x) \in Seq(Int) /\ Size(y) \in Seq(Int)
          /\ Len(Size(x)) = Bins /\ Len(Size(y)) = Bins
        BY <2>2, RowTypes
    <2>8. x[c] \in Int /\ y[c] = x[c] + Gap(k) /\ \A b \in 1 .. Bins : b # c => y[b] = x[b]
        BY <2>2, <2>3, <2>4
    <2>9. /\ Size(x)[c] = Magnitude(x[c]) /\ Size(y)[c] = Magnitude(y[c])
          /\ \A b \in 1 .. Bins : b # c => Size(y)[b] = Size(x)[b]
        BY <2>3, <2>8
    <2>10. Total(y) = Total(x) + y[c] - x[c]
        <3>1. /\ Len(x) = Len(y) /\ c \in 1 .. Len(x)
              /\ \A b \in 1 .. Len(x) : b # c => y[b] = x[b]
            BY <2>3, <2>7, <2>8
        <3> QED
            BY <2>7, <3>1, TotalChange, Zenon
    <2>11. Total(Size(y)) = Total(Size(x)) + Magnitude(y[c]) - Magnitude(x[c])
        <3> HIDE DEF Size
        <3>1. Total(Size(y)) = Total(Size(x)) + Size(y)[c] - Size(x)[c]
            <4>1. /\ Len(Size(x)) = Len(Size(y)) /\ c \in 1 .. Len(Size(x))
                  /\ \A b \in 1 .. Len(Size(x)) : b # c => Size(y)[b] = Size(x)[b]
                BY <2>3, <2>7, <2>9
            <4> QED
                BY <2>7, <4>1, TotalChange, Zenon
        <3> QED
            BY <2>9, <3>1
    <2> HIDE DEF Size
    <2>12. Total(x) \in Int /\ Total(Size(x)) \in Int
        BY <2>7, TotalType
    <2>13. Magnitude(y[c]) - Magnitude(x[c]) <= Magnitude(Gap(k))
        <3> DEFINE u == x[c]
                   v == Gap(k)
        <3>1. u \in Int /\ v \in Int /\ y[c] = u + v
            BY <2>3, <2>8
        <3> HIDE DEF u, v
        <3>2. Magnitude(u + v) - Magnitude(u) <= Magnitude(v)
            BY <3>1 DEF Magnitude
        <3> QED
            BY <3>1, <3>2 DEF u, v
    <2>14. Magnitude(y[c]) \in Int /\ Magnitude(x[c]) \in Int
        BY <2>3, <2>8 DEF Magnitude
    <2>15. Total(y) = s[k]
        BY <2>3, <2>5, <2>6, <2>8, <2>10, <2>12
    <2>16. Total(Size(y)) <= t[k]
        BY <2>5, <2>6, <2>11, <2>12, <2>13, <2>14
    <2> QED
        BY <2>1, <2>15, <2>16 DEF y
<1>8. n \in S
    <2>1. 0 .. n \subseteq S
        <3> HIDE DEF S, n
        <3> QED
            BY <1>4, <1>6, <1>7, Induction
    <2> HIDE DEF S
    <2> QED
        BY <1>4, <2>1
<1>9. Buckets \in [1 .. Bins -> Int] /\ Total(Buckets) = Total(Gaps) /\ Total(Size(Buckets)) <= Total(Sizes)
    <2> HIDE DEF Size
    <2>1. n \in 0 .. n
        BY <1>4
    <2> QED
        BY <1>1, <1>2, <1>3, <1>4, <1>5, <1>8, <2>1
<1>10. /\ Buckets \in Seq(Int) /\ Len(Buckets) = Bins /\ Size(Buckets) \in Seq(Int)
       /\ Len(Size(Buckets)) = Bins
    BY <1>9, RowTypes
<1>11. \A b \in 1 .. Bins : Size(Buckets)[b] = Magnitude(Buckets[b])
    OBVIOUS
<1>12. CalibrationSum = Total(Size(Buckets))
    BY DEF CalibrationSum
<1> HIDE DEF Size
<1>13. Magnitude(Total(Buckets)) <= Total(Size(Buckets))
    BY <1>10, <1>11, TotalMagnitude
<1>14. Total(Size(Buckets)) \in Int
    BY <1>10, TotalType
<1> QED
    BY <1>9, <1>12, <1>13, <1>14

\* The two scores against each other, and in their ranges.
LEMMA ScoresFit ==
    ASSUME Scorable
    PROVE  /\ CalibrationSum * CalibrationSum <= Len(pairs) * BrierSum
           /\ BrierSum \in 0 .. (Len(pairs) * Unit * Unit)
           /\ CalibrationSum \in 0 .. (Len(pairs) * Unit)
<1> DEFINE n == Len(pairs)
           squares == [i \in DOMAIN pairs |-> Gap(i) * Gap(i)]
           c == CalibrationSum
           t == Total(Sizes)
<1>1. n \in Nat /\ DOMAIN pairs = 1 .. n /\ Unit \in Nat /\ Unit * Unit \in Nat
    <2>1. n \in Nat /\ DOMAIN pairs = 1 .. n
        BY DEF Scorable
    <2> QED
        BY <2>1, CalibrationAssumption
<1>2. \A i \in 1 .. n : /\ Gap(i) * Gap(i) \in 0 .. (Unit * Unit)
                         /\ Magnitude(Gap(i)) \in 0 .. Unit
                         /\ Magnitude(Gap(i)) * Magnitude(Gap(i)) = Gap(i) * Gap(i)
    BY <1>1, GapTypes
<1>3. squares \in Seq(Int) /\ Len(squares) = n /\ \A i \in 1 .. n : squares[i] = Gap(i) * Gap(i)
    <2>1. \A i \in 1 .. n : Gap(i) * Gap(i) \in Int
        BY <1>1, <1>2
    <2> QED
        BY <1>1, <2>1
<1>4. Sizes \in Seq(Int) /\ Len(Sizes) = n /\ \A i \in 1 .. n : Sizes[i] = Magnitude(Gap(i))
    BY GapSequences
<1>5. BrierSum = Total(squares)
    BY DEF BrierSum
<1>6. t * t <= n * BrierSum
    <2>1. \A i \in 1 .. Len(Sizes) : squares[i] = Sizes[i] * Sizes[i]
        BY <1>2, <1>3, <1>4
    <2>2. Len(Sizes) = Len(squares)
        BY <1>3, <1>4
    <2> HIDE DEF squares
    <2>3. Total(Sizes) * Total(Sizes) <= Len(Sizes) * Total(squares)
        BY <1>3, <1>4, <2>1, <2>2, TotalOfSquares, Zenon
    <2> QED
        BY <1>4, <1>5, <2>3
<1>7. c \in Int /\ 0 <= c /\ c <= t /\ t \in Int
    <2>1. Magnitude(Total(Gaps)) <= c /\ c <= t /\ c \in Int
        BY BucketsBetween
    <2>2. Total(Gaps) \in Int /\ t \in Int
        BY GapSequences, TotalType
    <2>3. Magnitude(Total(Gaps)) \in Int /\ Magnitude(Total(Gaps)) >= 0
        BY <2>2 DEF Magnitude
    <2> HIDE DEF c, t
    <2> QED
        BY <2>1, <2>2, <2>3
<1>8. c * c <= t * t
    <2> HIDE DEF c, t
    <2>1. c * c <= c * t /\ c * t <= t * t
        BY <1>7
    <2>2. c * c \in Int /\ c * t \in Int /\ t * t \in Int
        BY <1>7
    <2> QED
        BY <2>1, <2>2
<1>9. Total(squares) \in 0 .. (n * (Unit * Unit))
    <2>1. \A i \in 1 .. Len(squares) : squares[i] \in 0 .. (Unit * Unit)
        BY <1>2, <1>3
    <2> HIDE DEF squares
    <2>2. Total(squares) \in 0 .. (Len(squares) * (Unit * Unit))
        BY <1>1, <1>3, <2>1, TotalInRange, Zenon
    <2> QED
        BY <1>3, <2>2
<1>10. t \in 0 .. (n * Unit)
    <2>1. \A i \in 1 .. Len(Sizes) : Sizes[i] \in 0 .. Unit
        BY <1>2, <1>4
    <2>2. Total(Sizes) \in 0 .. (Len(Sizes) * Unit)
        BY <1>1, <1>4, <2>1, TotalInRange, Zenon
    <2> QED
        BY <1>4, <2>2
<1>11. n * Unit * Unit = n * (Unit * Unit) /\ n * Unit \in Int /\ n * (Unit * Unit) \in Int
    BY <1>1
<1>12. BrierSum \in 0 .. (n * Unit * Unit) /\ BrierSum \in Int
    <2> HIDE DEF squares
    <2> QED
        BY <1>5, <1>9, <1>11
<1>13. n * BrierSum \in Int /\ c * c \in Int /\ t * t \in Int
    BY <1>1, <1>7, <1>12
<1>14. c * c <= n * BrierSum
    <2> HIDE DEF c, t
    <2> QED
        BY <1>6, <1>8, <1>13
<1>15. c \in 0 .. (n * Unit)
    <2> HIDE DEF c, t
    <2> QED
        BY <1>7, <1>10, <1>11
<1> QED
    BY <1>12, <1>14, <1>15

-----------------------------------------------------------------------------
(* What the second loop counts *)

Cells == {"tp", "fn", "fp", "tn"}

\* The verdict found for the gold claim i.
FoundAt(i) ==
    IF gold[i].instance \in DOMAIN reports
    THEN FindPredicted(reports[gold[i].instance].results, gold[i]) ELSE 0
VerdictAt(i) == reports[gold[i].instance].results[FoundAt(i)]
PairAt(i) == [p |-> VerdictAt(i).probability, z |-> Outcome(gold[i].label)]
CellAt(i) == Cell(gold[i].label, VerdictAt(i).label)
Scored(i) == FoundAt(i) # 0 /\ VerdictAt(i).probability # None

FoundUpTo(k) == {i \in 1 .. k : FoundAt(i) # 0}
CellUpTo(k, cell) == {i \in 1 .. k : FoundAt(i) # 0 /\ CellAt(i) = cell}

\* up holds the pairs of the beginnings of the gold set.
Collects(up) ==
    /\ up[0] = << >>
    /\ \A k \in 1 .. Len(gold) :
        up[k] = IF Scored(k) THEN Append(up[k - 1], PairAt(k)) ELSE up[k - 1]

Probabilities == UNION {{v.probability : v \in Range(reports[key].results)} : key \in DOMAIN reports}
PairSet == [p : Probabilities, z : {0, 1}]

Inputs ==
    /\ gold \in GoldSets /\ reports \in ReportMaps /\ bins \in BinCounts
    /\ matcher \in {"id"} \cup DOMAIN reports
    /\ low \subseteq {p \in Edges : (p * Bins) % Unit = 0}

Shapes ==
    /\ pc \in {"validate", "check", "match", "seal", "sealed", "failed"}
    /\ reason \in {"none", "input", "report", "probability"}
    /\ unchecked \subseteq DOMAIN reports /\ at \in 1 .. (Len(gold) + 1)
    /\ confusion \in [Cells -> Nat]
    /\ pairs \in Seq(PairSet)

Books ==
    /\ total = at - 1
    /\ matched = Cardinality(FoundUpTo(at - 1))
    /\ matched = confusion["tp"] + confusion["fn"] + confusion["fp"] + confusion["tn"]
    /\ \A cell \in Cells : confusion[cell] = Cardinality(CellUpTo(at - 1, cell))
    /\ Len(pairs) <= matched
    /\ \A up : Collects(up) => pairs = up[at - 1]

\* The verdicts used are those found; repeated gold claims were refused before.
Uses ==
    \A x \in taken :
        /\ x.at \in FoundUpTo(at - 1)
        /\ x = [at |-> x.at, key |-> gold[x.at].instance, position |-> FoundAt(x.at)]

Course ==
    /\ pc \in {"validate", "check"} => at = 1
    /\ pc \in {"seal", "sealed"} => at = Len(gold) + 1
    /\ pc \in {"check", "match", "seal", "sealed"} \/ at # 1 => ValidGoldSet
    /\ metrics = IF pc = "sealed" THEN Metrics ELSE << >>

Scores ==
    \/ brier = None /\ ece = None
    \/ /\ pc \in {"seal", "sealed", "failed"} /\ Scorable
       /\ brier = BrierSum /\ ece = CalibrationSum

CalibrationIInv == Inputs /\ Shapes /\ Books /\ Uses /\ Course /\ Scores

LEMMA GoldIsSequence ==
    ASSUME Inputs
    PROVE  /\ gold \in Seq(Range(gold)) /\ Len(gold) \in Nat /\ DOMAIN gold = 1 .. Len(gold)
           /\ \A key \in DOMAIN reports : reports[key].results \in Seq(Range(reports[key].results))
<1>1. gold \in Seq(Range(gold))
    BY CalibrationAssumption DEF Inputs
<1>2. Len(gold) \in Nat /\ DOMAIN gold = 1 .. Len(gold)
    <2> DEFINE R == Range(gold)
    <2>1. gold \in Seq(R)
        BY <1>1
    <2> HIDE DEF R
    <2> QED
        BY <2>1
<1>3. \A key \in DOMAIN reports : reports[key].results \in Seq(Range(reports[key].results))
    BY CalibrationAssumption DEF Inputs
<1> QED
    BY <1>1, <1>2, <1>3

\* FindPredicted returns the place of a verdict that matches, or 0.
LEMMA FindPredictedMatches ==
    ASSUME NEW R, NEW results \in Seq(R), NEW g
    PROVE  LET i == FindPredicted(results, g)
           IN  /\ i \in 0 .. Len(results)
               /\ i # 0 => i \in 1 .. Len(results) /\ Matches(g, results[i])
<1> DEFINE I == {i \in 1 .. Len(results) : Matches(g, results[i])}
<1>1. FindPredicted(results, g) = IF I # {} THEN Min(I) ELSE 0
    BY DEF FindPredicted, SelectInSeq
<1>2. Len(results) \in Nat
    OBVIOUS
<1>3. I # {} => Min(I) \in I
    <2>1. I \in SUBSET (0 .. Len(results))
        BY <1>2
    <2> HIDE DEF I
    <2>2. I # {} => \E k \in I : \A j \in I : k <= j
        BY <1>2, <2>1, LeastExists
    <2> QED
        BY <2>2 DEF Min
<1>4. CASE I = {}
    BY <1>1, <1>2, <1>4
<1>5. CASE I # {}
    <2> DEFINE i == FindPredicted(results, g)
    <2>1. i \in I
        BY <1>1, <1>3, <1>5
    <2>2. i \in 1 .. Len(results) /\ Matches(g, results[i])
        BY <2>1
    <2>3. i \in 0 .. Len(results)
        BY <1>2, <2>2
    <2> QED
        BY <2>2, <2>3
<1> QED
    BY <1>4, <1>5

LEMMA FoundMatches ==
    ASSUME Inputs, NEW i, FoundAt(i) # 0
    PROVE  /\ gold[i].instance \in DOMAIN reports
           /\ FoundAt(i) \in DOMAIN reports[gold[i].instance].results
           /\ Matches(gold[i], VerdictAt(i))
           /\ VerdictAt(i) \in Range(reports[gold[i].instance].results)
           /\ VerdictAt(i).probability \in Probabilities
<1> DEFINE results == reports[gold[i].instance].results
           R == Range(results)
<1>1. gold[i].instance \in DOMAIN reports /\ FoundAt(i) = FindPredicted(results, gold[i])
    BY DEF FoundAt
<1>2. results \in Seq(R)
    BY <1>1, GoldIsSequence
<1>3. FoundAt(i) \in 1 .. Len(results) /\ Matches(gold[i], results[FoundAt(i)])
    <2> HIDE DEF results, R
    <2> QED
        BY <1>1, <1>2, FindPredictedMatches
<1>4. DOMAIN results = 1 .. Len(results)
    <2> HIDE DEF results, R
    <2> QED
        BY <1>2
<1>5. VerdictAt(i) = results[FoundAt(i)]
    BY DEF VerdictAt
<1>6. VerdictAt(i) \in R
    <2> HIDE DEF results
    <2> QED
        BY <1>3, <1>4, <1>5 DEF Range
<1>7. VerdictAt(i).probability \in Probabilities
    BY <1>1, <1>6 DEF Probabilities
<1> QED
    BY <1>1, <1>3, <1>4, <1>5, <1>6, <1>7

\* One more gold claim: what the counts grow by.
LEMMA CountsGrow ==
    ASSUME NEW k \in Nat \ {0}
    PROVE  /\ Cardinality(FoundUpTo(k - 1)) \in 0 .. (k - 1)
           /\ Cardinality(FoundUpTo(k)) =
                IF FoundAt(k) # 0 THEN Cardinality(FoundUpTo(k - 1)) + 1 ELSE Cardinality(FoundUpTo(k - 1))
           /\ \A cell \in Cells :
                /\ Cardinality(CellUpTo(k - 1, cell)) \in Nat
                /\ Cardinality(CellUpTo(k, cell)) =
                    IF FoundAt(k) # 0 /\ CellAt(k) = cell
                    THEN Cardinality(CellUpTo(k - 1, cell)) + 1 ELSE Cardinality(CellUpTo(k - 1, cell))
<1>1. k - 1 \in Nat /\ k \notin 1 .. (k - 1) /\ 1 .. k = (1 .. (k - 1)) \cup {k}
    OBVIOUS
<1>2. IsFiniteSet(1 .. (k - 1)) /\ Cardinality(1 .. (k - 1)) = k - 1
    <2>1. IsFiniteSet(1 .. (k - 1)) /\ Cardinality(1 .. (k - 1)) = IF 1 > k - 1 THEN 0 ELSE (k - 1) - 1 + 1
        BY <1>1, FS_Interval
    <2> QED
        BY <1>1, <2>1
<1>3. ASSUME NEW A, A \in SUBSET (1 .. (k - 1))
      PROVE  /\ IsFiniteSet(A) /\ Cardinality(A) \in Nat /\ Cardinality(A) <= k - 1
             /\ Cardinality(A \cup {k}) = Cardinality(A) + 1
    <2>1. IsFiniteSet(A) /\ Cardinality(A) <= Cardinality(1 .. (k - 1))
        BY <1>2, <1>3, FS_Subset
    <2>2. Cardinality(A) \in Nat
        BY <2>1, FS_CardinalityType
    <2>3. k \notin A
        BY <1>1, <1>3
    <2>4. Cardinality(A \cup {k}) = Cardinality(A) + 1
        BY <2>1, <2>3, FS_AddElement
    <2> QED
        BY <1>2, <2>1, <2>2, <2>4
<1>4. /\ FoundUpTo(k - 1) \in SUBSET (1 .. (k - 1))
      /\ FoundUpTo(k) = IF FoundAt(k) # 0 THEN FoundUpTo(k - 1) \cup {k} ELSE FoundUpTo(k - 1)
    BY <1>1 DEF FoundUpTo
<1>5. ASSUME NEW cell \in Cells
      PROVE  /\ CellUpTo(k - 1, cell) \in SUBSET (1 .. (k - 1))
             /\ CellUpTo(k, cell) = IF FoundAt(k) # 0 /\ CellAt(k) = cell
                                    THEN CellUpTo(k - 1, cell) \cup {k} ELSE CellUpTo(k - 1, cell)
    BY <1>1 DEF CellUpTo
<1>6. Cardinality(FoundUpTo(k - 1)) \in 0 .. (k - 1)
    <2>1. Cardinality(FoundUpTo(k - 1)) \in Nat /\ Cardinality(FoundUpTo(k - 1)) <= k - 1
        BY <1>3, <1>4
    <2> QED
        BY <1>1, <2>1
<1> QED
    BY <1>3, <1>4, <1>5, <1>6

-----------------------------------------------------------------------------
(* The steps of Calibrate *)

\* The inputs stay, and with them what is found in them.
LEMMA FoundStays ==
    ASSUME UNCHANGED inputs
    PROVE  /\ \A i : FoundAt(i)' = FoundAt(i)
           /\ \A i : VerdictAt(i)' = VerdictAt(i)
           /\ \A i : Scored(i)' = Scored(i) /\ PairAt(i)' = PairAt(i) /\ CellAt(i)' = CellAt(i)
           /\ \A k : FoundUpTo(k)' = FoundUpTo(k)
           /\ \A k, cell : CellUpTo(k, cell)' = CellUpTo(k, cell)
           /\ \A up : Collects(up)' = Collects(up)
           /\ Probabilities' = Probabilities /\ PairSet' = PairSet /\ ValidGoldSet' = ValidGoldSet
           /\ Inputs' = Inputs
<1>1. gold' = gold /\ reports' = reports /\ matcher' = matcher /\ bins' = bins /\ low' = low
    BY DEF inputs
<1>2. \A g, v : Matches(g, v)' = Matches(g, v)
    BY <1>1 DEF Matches, MatchByID, MatchByText
<1>3. \A i : FoundAt(i)' = FoundAt(i)
    BY <1>1, <1>2 DEF FoundAt, FindPredicted, SelectInSeq
<1>4. \A i : VerdictAt(i)' = VerdictAt(i)
    BY <1>1, <1>3 DEF VerdictAt
<1>5. \A i : Scored(i)' = Scored(i) /\ PairAt(i)' = PairAt(i) /\ CellAt(i)' = CellAt(i)
    BY <1>1, <1>3, <1>4 DEF Scored, PairAt, CellAt
<1>6. \A k : FoundUpTo(k)' = FoundUpTo(k)
    BY <1>3 DEF FoundUpTo
<1>7. \A k, cell : CellUpTo(k, cell)' = CellUpTo(k, cell)
    BY <1>3, <1>5 DEF CellUpTo
<1>8. \A up : Collects(up)' = Collects(up)
    BY <1>1, <1>5 DEF Collects
<1>9. Probabilities' = Probabilities /\ PairSet' = PairSet
    BY <1>1 DEF Probabilities, PairSet
<1>10. ValidGoldSet' = ValidGoldSet
    BY <1>1 DEF ValidGoldSet
<1>11. Inputs' = Inputs
    BY <1>1 DEF Inputs, Bins
<1> QED
    BY <1>3, <1>4, <1>5, <1>6, <1>7, <1>8, <1>9, <1>10, <1>11

\* A step outside the second loop keeps the books.
LEMMA BooksStay ==
    ASSUME Books, Uses, UNCHANGED <<inputs, at, counts>>
    PROVE  Books' /\ Uses'
<1>1. /\ gold' = gold /\ at' = at /\ matched' = matched /\ total' = total
      /\ confusion' = confusion /\ pairs' = pairs /\ taken' = taken
    BY DEF inputs, counts
<1>2. /\ FoundUpTo(at - 1)' = FoundUpTo(at - 1)
      /\ \A cell : CellUpTo(at - 1, cell)' = CellUpTo(at - 1, cell)
      /\ \A up : Collects(up)' = Collects(up)
      /\ \A i : FoundAt(i)' = FoundAt(i)
    <2>1. /\ \A i : FoundAt(i)' = FoundAt(i) /\ CellAt(i)' = CellAt(i)
          /\ \A up : Collects(up)' = Collects(up)
        BY FoundStays
    <2>2. FoundUpTo(at - 1)' = FoundUpTo(at - 1)
        BY <1>1, <2>1 DEF FoundUpTo
    <2>3. \A cell : CellUpTo(at - 1, cell)' = CellUpTo(at - 1, cell)
        BY <1>1, <2>1 DEF CellUpTo
    <2> QED
        BY <2>1, <2>2, <2>3
<1>3. Books'
    BY <1>1, <1>2 DEF Books
<1>4. Uses'
    BY <1>1, <1>2 DEF Uses
<1> QED
    BY <1>3, <1>4

LEMMA ScoresStay ==
    ASSUME Scores, UNCHANGED <<inputs, pairs, scores>>, pc' \in {"seal", "sealed", "failed"}
    PROVE  Scores'
<1>1. /\ bins' = bins /\ low' = low /\ pairs' = pairs /\ brier' = brier /\ ece' = ece
    BY DEF inputs, scores
<1>2. Scorable' = Scorable
    BY <1>1 DEF Scorable, Bins
<1>3. BrierSum' = BrierSum /\ CalibrationSum' = CalibrationSum
    BY <1>1 DEF BrierSum, CalibrationSum, Buckets, Bins, Bin, Gap
<1> QED
    BY <1>1, <1>2, <1>3 DEF Scores

LEMMA InitIsSound ==
    Init => CalibrationIInv
<1> SUFFICES ASSUME Init PROVE CalibrationIInv
    OBVIOUS
<1>1. Inputs
    BY DEF Init, Inputs
<1>2. Len(gold) \in Nat /\ at = 1 /\ at - 1 = 0 /\ 1 .. (at - 1) = {}
    BY <1>1, GoldIsSequence DEF Init
<1>3. confusion \in [Cells -> Nat] /\ \A cell \in Cells : confusion[cell] = 0
    BY DEF Init, EmptyConfusion, Cells
<1>4. Shapes
    BY <1>2, <1>3 DEF Init, Shapes
<1>5. Books
    <2>1. FoundUpTo(at - 1) = {} /\ \A cell : CellUpTo(at - 1, cell) = {}
        BY <1>2 DEF FoundUpTo, CellUpTo
    <2>2. Cardinality({}) = 0
        BY FS_EmptySet
    <2>3. confusion["tp"] = 0 /\ confusion["fn"] = 0 /\ confusion["fp"] = 0 /\ confusion["tn"] = 0
        BY <1>3 DEF Cells
    <2>4. \A up : Collects(up) => pairs = up[at - 1]
        BY <1>2 DEF Init, Collects
    <2>5. total = 0 /\ matched = 0 /\ Len(pairs) = 0
        BY DEF Init
    <2>6. matched = Cardinality(FoundUpTo(at - 1))
        BY <2>1, <2>2, <2>5
    <2>7. \A cell \in Cells : confusion[cell] = Cardinality(CellUpTo(at - 1, cell))
        BY <1>3, <2>1, <2>2
    <2> QED
        BY <1>2, <2>3, <2>4, <2>5, <2>6, <2>7 DEF Books
<1>6. Uses /\ Course /\ Scores
    BY DEF Init, Uses, Course, Scores
<1> QED
    BY <1>1, <1>4, <1>5, <1>6 DEF CalibrationIInv

\* A gold claim that is looked up keeps the books.
LEMMA LookupIsSound ==
    ASSUME CalibrationIInv, Miss \/ Hit
    PROVE  CalibrationIInv'
<1>1. /\ Inputs /\ Shapes /\ Books /\ Uses /\ Course /\ Scores
      /\ UNCHANGED inputs /\ at' = at + 1 /\ pc = "match" /\ pc' = "match" /\ total' = total + 1
      /\ UNCHANGED <<reason, unchecked, scores, metrics>> /\ at <= Len(gold)
    BY DEF CalibrationIInv, Miss, Hit
<1>2. /\ Len(gold) \in Nat /\ at \in 1 .. Len(gold) /\ at \in Nat \ {0}
      /\ at' - 1 = at /\ at' \in 1 .. (Len(gold) + 1)
    BY <1>1, GoldIsSequence DEF Shapes
<1>3. gold' = gold /\ reports' = reports
    BY <1>1 DEF inputs
<1>4. Inputs'
    BY <1>1, FoundStays
<1>5. Found = FoundAt(at) /\ G = gold[at]
    BY DEF Found, FoundAt, Results, G
<1>6. (FoundAt(at) = 0 /\ Miss) \/ (FoundAt(at) # 0 /\ Hit)
    BY <1>5 DEF Miss, Hit
<1>7. /\ FoundUpTo(at - 1)' = FoundUpTo(at)
      /\ \A cell : CellUpTo(at - 1, cell)' = CellUpTo(at, cell)
    <2>1. \A i : FoundAt(i)' = FoundAt(i) /\ CellAt(i)' = CellAt(i)
        BY <1>1, FoundStays
    <2>2. FoundUpTo(at - 1)' = FoundUpTo(at)
        BY <1>2, <2>1 DEF FoundUpTo
    <2>3. \A cell : CellUpTo(at - 1, cell)' = CellUpTo(at, cell)
        BY <1>2, <2>1 DEF CellUpTo
    <2> QED
        BY <2>2, <2>3
<1>8. total' = at' - 1
    BY <1>1, <1>2 DEF Books
<1>9. \A up : Collects(up)' = Collects(up)
    BY <1>1, FoundStays
<1>10. CASE FoundAt(at) = 0 /\ Miss
    <2>1. UNCHANGED <<matched, confusion, pairs, taken>>
        BY <1>10 DEF Miss
    <2>2. Cardinality(FoundUpTo(at)) = Cardinality(FoundUpTo(at - 1))
        BY <1>2, <1>10, CountsGrow
    <2>3. \A cell \in Cells : Cardinality(CellUpTo(at, cell)) = Cardinality(CellUpTo(at - 1, cell))
        BY <1>2, <1>10, CountsGrow
    <2>4. matched' = Cardinality(FoundUpTo(at))
        BY <1>1, <2>1, <2>2 DEF Books
    <2>5. \A cell \in Cells : confusion'[cell] = Cardinality(CellUpTo(at, cell))
        BY <1>1, <2>1, <2>3 DEF Books
    <2>6. ASSUME NEW up, Collects(up) PROVE pairs' = up[at]
        <3>1. ~Scored(at)
            BY <1>10 DEF Scored
        <3>2. up[at] = up[at - 1]
            BY <1>2, <2>6, <3>1 DEF Collects
        <3> QED
            BY <1>1, <2>1, <2>6, <3>2 DEF Books
    <2>7. Shapes'
        BY <1>1, <1>2, <1>3, <2>1, FoundStays DEF Shapes
    <2>8. /\ matched' = confusion'["tp"] + confusion'["fn"] + confusion'["fp"] + confusion'["tn"]
          /\ Len(pairs') <= matched'
        BY <1>1, <2>1 DEF Books
    <2>9. Uses'
        <3>1. taken' = taken /\ FoundUpTo(at - 1) \subseteq FoundUpTo(at)
            BY <1>2, <2>1 DEF FoundUpTo
        <3> QED
            BY <1>1, <1>2, <1>3, <3>1, FoundStays DEF Uses, FoundUpTo
    <2>10. Books'
        BY <1>2, <1>7, <1>8, <1>9, <2>4, <2>5, <2>6, <2>8 DEF Books
    <2> QED
        BY <1>1, <1>4, <2>7, <2>9, <2>10, FoundStays DEF CalibrationIInv, Course, Scores, scores
<1>11. CASE FoundAt(at) # 0 /\ Hit
    <2> DEFINE c == CellAt(at)
               x == [at |-> at, key |-> gold[at].instance, position |-> FoundAt(at)]
    <2>1. /\ matched' = matched + 1
          /\ confusion' = [confusion EXCEPT ![c] = confusion[c] + 1]
          /\ pairs' = IF VerdictAt(at).probability = None THEN pairs ELSE Append(pairs, PairAt(at))
          /\ taken' = taken \cup {x}
        BY <1>5, <1>11 DEF Hit, Results, G, VerdictAt, PairAt, CellAt
    <2>2. c \in Cells
        BY DEF CellAt, Cell, Cells
    <2>3. /\ confusion \in [Cells -> Nat] /\ confusion' \in [Cells -> Nat]
          /\ confusion'[c] = confusion[c] + 1
          /\ \A cell \in Cells : cell # c => confusion'[cell] = confusion[cell]
        <3>1. confusion \in [Cells -> Nat]
            BY <1>1 DEF Shapes
        <3> HIDE DEF c
        <3> QED
            BY <2>1, <2>2, <3>1
    <2>4. matched = Cardinality(FoundUpTo(at - 1)) /\ matched \in Nat
        <3>1. Cardinality(FoundUpTo(at - 1)) \in 0 .. (at - 1)
            BY <1>2, CountsGrow
        <3> QED
            BY <1>1, <1>2, <3>1 DEF Books
    <2>5. matched' = Cardinality(FoundUpTo(at))
        BY <1>2, <1>11, <2>1, <2>4, CountsGrow
    <2>6. ASSUME NEW cell \in Cells PROVE confusion'[cell] = Cardinality(CellUpTo(at, cell))
        <3>1. confusion[cell] = Cardinality(CellUpTo(at - 1, cell))
            BY <1>1 DEF Books
        <3>2. Cardinality(CellUpTo(at, cell)) =
                IF c = cell THEN Cardinality(CellUpTo(at - 1, cell)) + 1
                ELSE Cardinality(CellUpTo(at - 1, cell))
            BY <1>2, <1>11, CountsGrow
        <3> HIDE DEF c
        <3> QED
            BY <2>3, <3>1, <3>2
    <2>7. matched' = confusion'["tp"] + confusion'["fn"] + confusion'["fp"] + confusion'["tn"]
        <3>1. matched = confusion["tp"] + confusion["fn"] + confusion["fp"] + confusion["tn"]
            BY <1>1 DEF Books
        <3>2. /\ confusion["tp"] \in Nat /\ confusion["fn"] \in Nat
              /\ confusion["fp"] \in Nat /\ confusion["tn"] \in Nat
            BY <2>3 DEF Cells
        <3>3. c = "tp" \/ c = "fn" \/ c = "fp" \/ c = "tn"
            BY <2>2 DEF Cells
        <3>4. \A cell \in {"tp", "fn", "fp", "tn"} :
                confusion'[cell] = IF cell = c THEN confusion[cell] + 1 ELSE confusion[cell]
            BY <2>3 DEF Cells
        <3>5. matched' = matched + 1
            BY <2>1
        <3> HIDE DEF c
        <3>6. CASE c = "tp"
            BY <3>1, <3>2, <3>4, <3>5, <3>6
        <3>7. CASE c = "fn"
            BY <3>1, <3>2, <3>4, <3>5, <3>7
        <3>8. CASE c = "fp"
            BY <3>1, <3>2, <3>4, <3>5, <3>8
        <3>9. CASE c = "tn"
            BY <3>1, <3>2, <3>4, <3>5, <3>9
        <3> QED
            BY <3>3, <3>6, <3>7, <3>8, <3>9
    <2>8. VerdictAt(at).probability \in Probabilities /\ PairAt(at) \in PairSet
        <3>1. VerdictAt(at).probability \in Probabilities
            BY <1>1, <1>11, FoundMatches
        <3> QED
            BY <3>1 DEF PairAt, PairSet, Outcome
    <2>9. pairs \in Seq(PairSet) /\ pairs' \in Seq(PairSet) /\ Len(pairs') <= matched'
        <3>1. pairs \in Seq(PairSet) /\ Len(pairs) <= matched
            BY <1>1 DEF Shapes, Books
        <3> HIDE DEF c, x
        <3>2. Append(pairs, PairAt(at)) \in Seq(PairSet) /\ Len(Append(pairs, PairAt(at))) = Len(pairs) + 1
            BY <2>8, <3>1
        <3>3. Len(pairs) \in Nat
            BY <3>1
        <3> QED
            BY <2>1, <2>4, <3>1, <3>2, <3>3
    <2>10. ASSUME NEW up, Collects(up) PROVE pairs' = up[at]
        <3>1. Scored(at) <=> VerdictAt(at).probability # None
            BY <1>11 DEF Scored
        <3>2. up[at] = IF Scored(at) THEN Append(up[at - 1], PairAt(at)) ELSE up[at - 1]
            BY <1>2, <2>10 DEF Collects
        <3>3. pairs = up[at - 1]
            BY <1>1, <2>10 DEF Books
        <3> QED
            BY <2>1, <3>1, <3>2, <3>3
    <2>11. Shapes'
        <3>1. PairSet' = PairSet
            BY <1>1, FoundStays
        <3> HIDE DEF c, x
        <3> QED
            BY <1>1, <1>2, <1>3, <2>3, <2>9, <3>1 DEF Shapes
    <2>12. Uses'
        <3>1. at \in FoundUpTo(at) /\ FoundUpTo(at - 1) \subseteq FoundUpTo(at)
            BY <1>2, <1>11 DEF FoundUpTo
        <3>2. ASSUME NEW y \in taken'
              PROVE  /\ y.at \in FoundUpTo(at)
                     /\ y = [at |-> y.at, key |-> gold[y.at].instance, position |-> FoundAt(y.at)]
            <4>1. CASE y \in taken
                BY <1>1, <3>1, <4>1 DEF Uses
            <4>2. CASE y = x
                BY <3>1, <4>2
            <4> QED
                BY <2>1, <3>2, <4>1, <4>2
        <3>3. \A i : FoundAt(i)' = FoundAt(i)
            BY <1>1, FoundStays
        <3> QED
            BY <1>3, <1>7, <3>2, <3>3 DEF Uses
    <2>13. Books'
        BY <1>2, <1>7, <1>8, <1>9, <2>5, <2>6, <2>7, <2>9, <2>10 DEF Books
    <2> QED
        BY <1>1, <1>4, <2>11, <2>12, <2>13, FoundStays DEF CalibrationIInv, Course, Scores, scores
<1> QED
    BY <1>6, <1>10, <1>11

\* What is fixed while the second loop does not run.
LEMMA OtherSteps ==
    ASSUME CalibrationIInv, Validate \/ CheckReport \/ AllChecked \/ Score \/ Seal \/ UNCHANGED vars
    PROVE  Inputs' /\ Books' /\ Uses'
<1>1. UNCHANGED <<inputs, at, counts>>
    BY DEF Validate, CheckReport, AllChecked, Score, Seal, vars
<1>2. Inputs /\ Books /\ Uses
    BY DEF CalibrationIInv
<1> QED
    BY <1>1, <1>2, BooksStay, FoundStays

LEMMA ScoreIsSound ==
    ASSUME CalibrationIInv, Score
    PROVE  Scores'
<1>1. Inputs /\ Shapes /\ Scores /\ UNCHANGED inputs /\ pairs' = pairs /\ pc = "match"
    BY DEF CalibrationIInv, Score, counts
<1>2. brier = None /\ ece = None
    BY <1>1 DEF Scores
<1>3. CASE UNCHANGED scores
    BY <1>2, <1>3 DEF scores, Scores
<1>4. CASE ~ UNCHANGED scores
    <2>1. /\ \A i \in DOMAIN pairs : IsProbability(pairs[i].p)
          /\ brier' = BrierSum /\ ece' = CalibrationSum /\ pc' = "seal"
        BY <1>4 DEF Score
    <2>2. pairs \in Seq([p : 0 .. Unit, z : {0, 1}])
        <3>1. pairs \in Seq(PairSet)
            BY <1>1 DEF Shapes
        <3>2. Len(pairs) \in Nat /\ DOMAIN pairs = 1 .. Len(pairs) /\ \A i \in DOMAIN pairs : pairs[i] \in PairSet
            <4> HIDE DEF PairSet
            <4> QED
                BY <3>1
        <3>3. \A i \in DOMAIN pairs : pairs[i] \in [p : 0 .. Unit, z : {0, 1}]
            BY <2>1, <3>2 DEF PairSet, IsProbability
        <3> DEFINE R == [p : 0 .. Unit, z : {0, 1}]
        <3>4. \A i \in DOMAIN pairs : pairs[i] \in R
            BY <3>3
        <3>5. pairs = [i \in 1 .. Len(pairs) |-> pairs[i]]
            BY <3>1, <3>2
        <3> HIDE DEF R
        <3>6. pairs \in Seq(R)
            BY <3>2, <3>4, <3>5
        <3> QED
            BY <3>6 DEF R
    <2>3. Scorable
        BY <1>1, <2>2 DEF Scorable, Inputs
    <2>4. Scorable' = Scorable /\ BrierSum' = BrierSum /\ CalibrationSum' = CalibrationSum
        <3>1. bins' = bins /\ low' = low /\ pairs' = pairs
            BY <1>1 DEF inputs
        <3>2. Scorable' = Scorable
            BY <3>1 DEF Scorable, Bins
        <3>3. BrierSum' = BrierSum /\ CalibrationSum' = CalibrationSum
            BY <3>1 DEF BrierSum, CalibrationSum, Buckets, Bins, Bin, Gap
        <3> QED
            BY <3>2, <3>3
    <2> QED
        BY <2>1, <2>3, <2>4 DEF Scores
<1> QED
    BY <1>3, <1>4

\* Calibrate never refuses to seal what it computed.
LEMMA BodyIsValid ==
    ASSUME CalibrationIInv
    PROVE  ValidBody
<1>1. Inputs /\ Shapes /\ Books /\ Scores
    BY DEF CalibrationIInv
<1> DEFINE tp == confusion["tp"]
           fn == confusion["fn"]
           fp == confusion["fp"]
           tn == confusion["tn"]
<1>2. tp \in Nat /\ fn \in Nat /\ fp \in Nat /\ tn \in Nat
    BY <1>1 DEF Shapes, Cells
<1>3. matched \in 0 .. total /\ total \in Nat
    <2>1. at \in Nat \ {0} /\ total = at - 1 /\ matched = Cardinality(FoundUpTo(at - 1))
        BY <1>1, GoldIsSequence DEF Shapes, Books
    <2>2. Cardinality(FoundUpTo(at - 1)) \in 0 .. (at - 1)
        BY <2>1, CountsGrow
    <2> QED
        BY <2>1, <2>2
<1>4. /\ WithinUnit(Metrics.recall) /\ WithinUnit(Metrics.sensitivity)
      /\ WithinUnit(Metrics.specificity) /\ WithinUnit(Metrics.falseSupport)
    <2>1. WithinUnit(Metrics.recall)
        BY <1>3 DEF Metrics, WithinUnit
    <2>2. ASSUME NEW a \in Nat, NEW b \in Nat PROVE WithinUnit(Rate(a, a + b)) /\ WithinUnit(Rate(a, b + a))
        BY DEF WithinUnit, Rate
    <2>3. WithinUnit(Rate(tp, tp + fn)) /\ WithinUnit(Rate(tn, tn + fp)) /\ WithinUnit(Rate(fp, tp + fp))
        <3> HIDE DEF tp, fn, fp, tn
        <3> QED
            BY <1>2, <2>2
    <2>4. /\ Metrics.sensitivity = Rate(tp, tp + fn)
          /\ Metrics.specificity = Rate(tn, tn + fp)
          /\ Metrics.falseSupport = Rate(fp, tp + fp)
        BY DEF Metrics
    <2> QED
        BY <2>1, <2>3, <2>4
<1>5. \A name \in DOMAIN Metrics : WithinUnit(Metrics[name])
    <2>1. DOMAIN Metrics = {"recall", "sensitivity", "specificity", "falseSupport"}
        BY DEF Metrics
    <2>2. /\ Metrics.recall = Metrics["recall"] /\ Metrics.sensitivity = Metrics["sensitivity"]
          /\ Metrics.specificity = Metrics["specificity"] /\ Metrics.falseSupport = Metrics["falseSupport"]
        OBVIOUS
    <2> QED
        BY <1>4, <2>1, <2>2
<1>6. /\ brier # None => brier \in 0 .. (Len(pairs) * Unit * Unit)
      /\ ece # None => ece \in 0 .. (Len(pairs) * Unit)
    <2>1. CASE brier = None /\ ece = None
        BY <2>1
    <2>2. CASE Scorable /\ brier = BrierSum /\ ece = CalibrationSum
        BY <2>2, ScoresFit
    <2> QED
        BY <1>1, <2>1, <2>2 DEF Scores
<1> QED
    BY <1>5, <1>6 DEF ValidBody

LEMMA NextIsSound ==
    ASSUME CalibrationIInv, [Next]_vars
    PROVE  CalibrationIInv'
<1>1. Inputs /\ Shapes /\ Books /\ Uses /\ Course /\ Scores
    BY DEF CalibrationIInv
<1>2. CASE Miss \/ Hit
    BY <1>2, LookupIsSound
<1>3. CASE Validate
    <2>1. UNCHANGED <<inputs, at, counts, scores, metrics, unchecked>> /\ pc = "validate"
        BY <1>3 DEF Validate
    <2>2. Inputs' /\ Books' /\ Uses'
        BY <1>3, OtherSteps
    <2>3. Shapes' /\ Scores'
        BY <1>1, <1>3, <2>1, FoundStays DEF Validate, Refuse, Shapes, Scores, counts, scores, inputs
    <2>4. Course'
        <3>1. at' = at /\ at = 1 /\ metrics' = << >> /\ pc' \in {"check", "failed"} /\ (pc' = "check" => ValidGoldSet)
            BY <1>1, <1>3, <2>1 DEF Validate, Refuse, Course
        <3>2. ValidGoldSet' = ValidGoldSet
            BY <2>1, FoundStays
        <3> QED
            BY <3>1, <3>2 DEF Course
    <2> QED
        BY <2>2, <2>3, <2>4 DEF CalibrationIInv
<1>4. CASE CheckReport
    <2>1. UNCHANGED <<inputs, at, counts, scores, metrics>> /\ pc = "check" /\ unchecked' \subseteq unchecked
        BY <1>4 DEF CheckReport
    <2>2. Inputs' /\ Books' /\ Uses'
        BY <1>4, OtherSteps
    <2>3. Shapes' /\ Scores'
        BY <1>1, <1>4, <2>1, FoundStays DEF CheckReport, Refuse, Shapes, Scores, counts, scores, inputs
    <2>4. Course'
        <3>1. at' = at /\ at = 1 /\ metrics' = << >> /\ pc' \in {"check", "failed"} /\ ValidGoldSet
            BY <1>1, <1>4, <2>1 DEF CheckReport, Refuse, Course
        <3>2. ValidGoldSet' = ValidGoldSet
            BY <2>1, FoundStays
        <3> QED
            BY <3>1, <3>2 DEF Course
    <2> QED
        BY <2>2, <2>3, <2>4 DEF CalibrationIInv
<1>5. CASE AllChecked
    <2>1. UNCHANGED <<inputs, at, counts, scores, metrics, reason, unchecked>> /\ pc = "check" /\ pc' = "match"
        BY <1>5 DEF AllChecked
    <2>2. Inputs' /\ Books' /\ Uses'
        BY <1>5, OtherSteps
    <2>3. Shapes' /\ Scores'
        BY <1>1, <2>1, FoundStays DEF Shapes, Scores, counts, scores, inputs
    <2>4. Course'
        <3>1. ValidGoldSet' = ValidGoldSet
            BY <2>1, FoundStays
        <3> QED
            BY <1>1, <2>1, <3>1 DEF Course
    <2> QED
        BY <2>2, <2>3, <2>4 DEF CalibrationIInv
<1>6. CASE Score
    <2>1. UNCHANGED <<inputs, at, counts, metrics, unchecked>> /\ pc = "match" /\ at > Len(gold)
        BY <1>6 DEF Score
    <2>2. Inputs' /\ Books' /\ Uses' /\ Scores'
        BY <1>6, OtherSteps, ScoreIsSound
    <2>3. pc' \in {"seal", "failed"} /\ reason' \in {reason, "probability"}
        BY <1>6 DEF Score, Refuse
    <2>4. Shapes'
        BY <1>1, <2>1, <2>3, FoundStays DEF Shapes, counts, inputs
    <2>5. Course'
        <3>1. ValidGoldSet' = ValidGoldSet /\ gold' = gold
            BY <2>1, FoundStays DEF inputs
        <3>2. at = Len(gold) + 1
            BY <1>1, <2>1, GoldIsSequence DEF Shapes
        <3> QED
            BY <1>1, <2>1, <2>3, <3>1, <3>2 DEF Course
    <2> QED
        BY <2>2, <2>4, <2>5 DEF CalibrationIInv
<1>7. CASE Seal
    <2>1. UNCHANGED <<inputs, at, counts, scores, unchecked>> /\ pc = "seal"
        BY <1>7 DEF Seal
    <2>2. metrics' = Metrics /\ pc' = "sealed" /\ reason' = reason
        BY <1>7, BodyIsValid DEF Seal
    <2>3. Inputs' /\ Books' /\ Uses'
        BY <1>7, OtherSteps
    <2>4. Scores'
        BY <1>1, <2>1, <2>2, ScoresStay DEF counts
    <2>5. Shapes'
        BY <1>1, <2>1, <2>2, FoundStays DEF Shapes, counts, inputs
    <2>6. Course'
        <3>1. ValidGoldSet' = ValidGoldSet /\ gold' = gold
            BY <2>1, FoundStays DEF inputs
        <3>2. Metrics' = Metrics
            BY <2>1 DEF Metrics, Rate, counts
        <3> QED
            BY <1>1, <2>1, <2>2, <3>1, <3>2 DEF Course
    <2> QED
        BY <2>3, <2>4, <2>5, <2>6 DEF CalibrationIInv
<1>8. CASE UNCHANGED vars
    <2>1. UNCHANGED <<inputs, at, counts, scores, metrics, unchecked, pc, reason>>
        BY <1>8 DEF vars
    <2>2. Inputs' /\ Books' /\ Uses'
        BY <1>8, OtherSteps
    <2>3. Shapes'
        BY <1>1, <2>1, FoundStays DEF Shapes, counts, inputs
    <2>4. Scores'
        <3>1. CASE brier = None /\ ece = None
            BY <2>1, <3>1 DEF Scores, scores
        <3>2. CASE ~(brier = None /\ ece = None)
            <4>1. pc' \in {"seal", "sealed", "failed"}
                BY <1>1, <2>1, <3>2 DEF Scores
            <4> QED
                BY <1>1, <2>1, <4>1, ScoresStay DEF counts
        <3> QED
            BY <3>1, <3>2
    <2>5. Course'
        <3>1. ValidGoldSet' = ValidGoldSet /\ gold' = gold
            BY <2>1, FoundStays DEF inputs
        <3>2. Metrics' = Metrics
            BY <2>1 DEF Metrics, Rate, counts
        <3> QED
            BY <1>1, <2>1, <3>1, <3>2 DEF Course
    <2> QED
        BY <2>2, <2>3, <2>4, <2>5 DEF CalibrationIInv
<1> QED
    BY <1>2, <1>3, <1>4, <1>5, <1>6, <1>7, <1>8 DEF Next

-----------------------------------------------------------------------------
(* The theorems *)

\* The books of a calibration hold in every reachable state: what is counted is
\* what was found, whatever the order the reports were checked in.
THEOREM CalibrationInvariant ==
    Spec => []CalibrationIInv
BY InitIsSound, NextIsSound, PTL DEF Spec

LEMMA UpTo ==
    ASSUME NEW n \in Nat
    PROVE  IsFiniteSet(1 .. n) /\ Cardinality(1 .. n) = n
<1>1. IsFiniteSet(1 .. n) /\ Cardinality(1 .. n) = IF 1 > n THEN 0 ELSE n - 1 + 1
    BY FS_Interval
<1> QED
    BY <1>1

LEMMA MatchedInRange ==
    ASSUME CalibrationIInv
    PROVE  /\ total \in Nat /\ total = at - 1 /\ total <= Len(gold) /\ matched \in 0 .. total
           /\ matched = Cardinality(FoundUpTo(total))
<1>1. /\ at \in Nat \ {0} /\ total = at - 1 /\ matched = Cardinality(FoundUpTo(at - 1))
      /\ at - 1 <= Len(gold)
    BY GoldIsSequence DEF CalibrationIInv, Shapes, Books
<1>2. Cardinality(FoundUpTo(at - 1)) \in 0 .. (at - 1)
    BY <1>1, CountsGrow
<1> QED
    BY <1>1, <1>2

\* Calibrate keeps its types for any gold set, reports and binning, and no rate
\* is a division by nothing (report.go:109-117).
THEOREM CalibrationTypes ==
    Spec => []TypeOK
<1>1. CalibrationIInv => TypeOK
    <2> SUFFICES ASSUME CalibrationIInv PROVE TypeOK
        OBVIOUS
    <2>1. Inputs /\ Shapes /\ Books /\ Course
        BY DEF CalibrationIInv
    <2>2. matched \in 0 .. total /\ total \in 0 .. Len(gold) /\ Len(gold) \in Nat
        BY <2>1, MatchedInRange, GoldIsSequence
    <2>3. confusion \in [{"tp", "fn", "fp", "tn"} -> 0 .. matched]
        <3>1. /\ confusion["tp"] \in Nat /\ confusion["fn"] \in Nat
              /\ confusion["fp"] \in Nat /\ confusion["tn"] \in Nat
            BY <2>1 DEF Shapes, Cells
        <3>2. matched = confusion["tp"] + confusion["fn"] + confusion["fp"] + confusion["tn"]
            BY <2>1 DEF Books
        <3>3. \A cell \in {"tp", "fn", "fp", "tn"} : confusion[cell] \in 0 .. matched
            BY <3>1, <3>2
        <3> QED
            BY <2>1, <3>3 DEF Shapes, Cells
    <2>4. metrics # << >> => \A name \in DOMAIN metrics : metrics[name][2] > 0
        <3>1. SUFFICES ASSUME metrics = Metrics
                       PROVE \A name \in DOMAIN metrics : metrics[name][2] > 0
            BY <2>1 DEF Course
        <3>2. ASSUME NEW a, NEW b \in Nat PROVE Rate(a, b)[2] > 0
            BY DEF Rate
        <3>3. /\ confusion.tp + confusion.fn \in Nat /\ confusion.tn + confusion.fp \in Nat
              /\ confusion.tp + confusion.fp \in Nat
            BY <2>1 DEF Shapes, Cells
        <3>4. /\ Metrics.recall[2] > 0 /\ Metrics.sensitivity[2] > 0
              /\ Metrics.specificity[2] > 0 /\ Metrics.falseSupport[2] > 0
            BY <2>2, <3>2, <3>3 DEF Metrics
        <3>5. DOMAIN Metrics = {"recall", "sensitivity", "specificity", "falseSupport"}
            BY DEF Metrics
        <3> QED
            BY <3>1, <3>4, <3>5
    <2> QED
        BY <2>1, <2>2, <2>3, <2>4 DEF TypeOK, Inputs, Shapes, Books
<1> QED
    BY <1>1, CalibrationInvariant, PTL

\* However many pairs and bins there are and wherever rounding puts the edges,
\* the expected calibration error lies between the bias and the mean absolute
\* error, and its square below the Brier score (scoring.go:42-98).
THEOREM ErrorsFit ==
    Spec => []ErrorsAreConsistent
<1>1. CalibrationIInv => ErrorsAreConsistent
    <2> SUFFICES ASSUME CalibrationIInv, ece # None PROVE ErrorsAreConsistent
        BY DEF ErrorsAreConsistent
    <2>1. Scorable /\ brier = BrierSum /\ ece = CalibrationSum
        BY DEF CalibrationIInv, Scores
    <2>2. Magnitude(Total(Gaps)) <= ece /\ ece <= Total(Sizes)
        BY <2>1, BucketsBetween
    <2>3. ece * ece <= Len(pairs) * brier
        BY <2>1, ScoresFit
    <2> QED
        BY <2>2, <2>3 DEF ErrorsAreConsistent, Gaps, Sizes
<1> QED
    BY <1>1, CalibrationInvariant, PTL

\* Every rate and score that Calibrate computes is one that Seal accepts
\* (report.go:130, 203-226): the last error path is never taken.
THEOREM SealingNeverFails ==
    Spec => [](reason # "seal" /\ ValidBody)
<1>1. CalibrationIInv => reason # "seal" /\ ValidBody
    BY BodyIsValid DEF CalibrationIInv, Shapes
<1> QED
    BY <1>1, CalibrationInvariant, PTL

\* With claims matched by id, no verdict answers two gold claims, however many
\* there are (gold.go:87-100, recall.go:15-20).
THEOREM VerdictsUsedOnce ==
    Spec => []VerdictUsedOnce
<1>1. CalibrationIInv => VerdictUsedOnce
    <2> SUFFICES ASSUME CalibrationIInv, matcher = "id",
                        NEW x \in taken, NEW y \in taken, x.key = y.key, x.position = y.position
                 PROVE  x = y
        BY DEF VerdictUsedOnce
    <2>1. Inputs /\ Shapes /\ Uses /\ Course
        BY DEF CalibrationIInv
    <2>2. /\ x.at \in 1 .. (at - 1) /\ FoundAt(x.at) # 0 /\ y.at \in 1 .. (at - 1) /\ FoundAt(y.at) # 0
          /\ x = [at |-> x.at, key |-> gold[x.at].instance, position |-> FoundAt(x.at)]
          /\ y = [at |-> y.at, key |-> gold[y.at].instance, position |-> FoundAt(y.at)]
        BY <2>1 DEF Uses, FoundUpTo
    <2>3. gold[x.at].instance = gold[y.at].instance /\ FoundAt(x.at) = FoundAt(y.at)
        BY <2>2
    <2>4. VerdictAt(x.at) = VerdictAt(y.at)
        BY <2>3 DEF VerdictAt
    <2>5. gold[x.at].claim = VerdictAt(x.at).claim /\ gold[y.at].claim = VerdictAt(y.at).claim
        BY <2>1, <2>2, FoundMatches DEF Matches, MatchByID
    <2>6. at # 1 /\ x.at \in DOMAIN gold /\ y.at \in DOMAIN gold
        BY <2>1, <2>2, GoldIsSequence DEF Shapes
    <2>7. x.at = y.at
        BY <2>1, <2>3, <2>4, <2>5, <2>6 DEF Course, ValidGoldSet
    <2> QED
        BY <2>2, <2>7
<1> QED
    BY <1>1, CalibrationInvariant, PTL

\* Full recall without a false verdict means that every gold claim, of any number,
\* has a verdict on its own side in the report of its instance (recall.go:41-43).
THEOREM PerfectRatesAreEarned ==
    Spec => []PerfectIsCorrect
<1>1. CalibrationIInv => PerfectIsCorrect
    <2> SUFFICES ASSUME CalibrationIInv, pc = "sealed", matcher = "id",
                        metrics.recall[1] = metrics.recall[2],
                        confusion.fn = 0, confusion.fp = 0, NEW i \in DOMAIN gold
                 PROVE  /\ gold[i].instance \in DOMAIN reports
                        /\ \E v \in Range(reports[gold[i].instance].results) :
                            v.claim = gold[i].claim /\ IsEntailed(v.label) = IsEntailed(gold[i].label)
        BY DEF PerfectIsCorrect
    <2>1. Inputs /\ Shapes /\ Books /\ Course /\ metrics = Metrics
        BY DEF CalibrationIInv, Course
    <2> DEFINE n == Len(gold)
    <2>2. n \in Nat /\ i \in 1 .. n /\ at = n + 1 /\ total = n /\ at - 1 = n
        BY <2>1, GoldIsSequence DEF Course, Books
    <2>3. matched = n
        <3>1. metrics.recall = <<matched, IF total < 1 THEN 1 ELSE total>>
            BY <2>1 DEF Metrics
        <3> QED
            BY <2>2, <3>1
    <2>4. FoundUpTo(n) = 1 .. n
        <3>1. FoundUpTo(n) \subseteq 1 .. n
            BY DEF FoundUpTo
        <3>2. Cardinality(FoundUpTo(n)) = n
            BY <2>1, <2>2, <2>3 DEF Books
        <3>3. IsFiniteSet(1 .. n) /\ Cardinality(1 .. n) = n
            BY <2>2, UpTo, Zenon
        <3> QED
            BY <3>1, <3>2, <3>3, FS_Subset
    <2>5. FoundAt(i) # 0
        BY <2>2, <2>4 DEF FoundUpTo
    <2>6. CellUpTo(n, "fn") = {} /\ CellUpTo(n, "fp") = {}
        <3>1. Cardinality(CellUpTo(n, "fn")) = 0 /\ Cardinality(CellUpTo(n, "fp")) = 0
            BY <2>1, <2>2 DEF Books, Cells
        <3>2. IsFiniteSet(1 .. n)
            BY <2>2, UpTo, Zenon
        <3>3. CellUpTo(n, "fn") \subseteq 1 .. n /\ CellUpTo(n, "fp") \subseteq 1 .. n
            BY DEF CellUpTo
        <3>4. IsFiniteSet(CellUpTo(n, "fn")) /\ IsFiniteSet(CellUpTo(n, "fp"))
            BY <3>2, <3>3, FS_Subset
        <3> QED
            BY <3>1, <3>4, FS_EmptySet
    <2>7. CellAt(i) # "fn" /\ CellAt(i) # "fp"
        BY <2>2, <2>5, <2>6 DEF CellUpTo
    <2>8. IsEntailed(VerdictAt(i).label) = IsEntailed(gold[i].label)
        BY <2>7 DEF CellAt, Cell, IsEntailed
    <2>9. gold[i].claim = VerdictAt(i).claim
        BY <2>1, <2>5, FoundMatches DEF Matches, MatchByID
    <2>10. gold[i].instance \in DOMAIN reports /\ VerdictAt(i) \in Range(reports[gold[i].instance].results)
        BY <2>1, <2>5, FoundMatches
    <2> QED
        BY <2>8, <2>9, <2>10
<1> QED
    BY <1>1, CalibrationInvariant, PTL

\* For gold claims of one instance, ConfidenceOutcomePairs collects as the loop does.
LEMMA PairsCollect ==
    ASSUME Inputs, NEW key \in DOMAIN reports, \A i \in DOMAIN gold : gold[i].instance = key
    PROVE  \E up : Collects(up) /\ ConfidenceOutcomePairs(reports[key].results) = up[Len(gold)]
<1> DEFINE n == Len(gold)
           results == reports[key].results
           X == Seq(PairSet)
           find(i) == FindPredicted(results, gold[i])
           Add(k, x) == IF find(k) = 0 \/ results[find(k)].probability = None THEN x
                        ELSE Append(x, [p |-> results[find(k)].probability, z |-> Outcome(gold[k].label)])
           Step == [q \in (1 .. n) \X X |-> Add(q[1], q[2])]
           Upto(u) == u = [k \in 0 .. n |-> IF k = 0 THEN << >> ELSE Add(k, u[k - 1])]
           u0 == CHOOSE u : Upto(u)
<1>1. n \in Nat /\ DOMAIN gold = 1 .. n /\ << >> \in X
    BY GoldIsSequence
<1>2. ASSUME NEW k \in 1 .. n
      PROVE  FoundAt(k) = find(k) /\ VerdictAt(k) = results[find(k)]
    BY <1>1 DEF FoundAt, VerdictAt
<1>3. ASSUME NEW k \in 1 .. n, NEW x
      PROVE  Add(k, x) = IF Scored(k) THEN Append(x, PairAt(k)) ELSE x
    BY <1>2 DEF Scored, PairAt
<1>4. ASSUME NEW k \in 1 .. n, NEW x \in X PROVE Add(k, x) \in X
    <2>1. Scored(k) => PairAt(k) \in PairSet
        BY FoundMatches DEF Scored, PairAt, PairSet, Outcome
    <2>2. Scored(k) => Append(x, PairAt(k)) \in X
        <3> HIDE DEF PairSet
        <3> QED
            BY <2>1
    <2> HIDE DEF Add, X
    <2> QED
        BY <1>3, <2>2
<1>5. Step \in [(1 .. n) \X X -> X]
    <2> HIDE DEF Add, X, n
    <2> QED
        BY <1>4
<1>6. PICK g : Follows(g, n, X, << >>, Step)
    <2> HIDE DEF Step, n, X
    <2> QED
        BY <1>1, <1>5, Recursion, Zenon
<1>7. \A k \in 1 .. n : k \in 0 .. n /\ k - 1 \in 0 .. n /\ k # 0
    BY <1>1
<1>8. \A k \in 1 .. n : g[k] = Add(k, g[k - 1])
    <2> HIDE DEF Add, X, n
    <2> QED
        BY <1>6, <1>7 DEF Follows
<1>9. Upto(g)
    <2> HIDE DEF Add, X, n
    <2>1. g \in [0 .. n -> X] /\ g[0] = << >>
        BY <1>6 DEF Follows
    <2>2. \A k \in 0 .. n : k # 0 => k \in 1 .. n
        BY <1>1
    <2>3. \A k \in 0 .. n : g[k] = IF k = 0 THEN << >> ELSE Add(k, g[k - 1])
        BY <1>8, <2>1, <2>2
    <2> QED
        BY <2>1, <2>3
<1>10. Upto(u0)
    <2> HIDE DEF Upto
    <2> QED
        BY <1>9
<1>11. ConfidenceOutcomePairs(results) = u0[n]
    BY DEF ConfidenceOutcomePairs
<1>12. u0[0] = << >> /\ \A k \in 1 .. n : u0[k] = Add(k, u0[k - 1])
    <2> HIDE DEF u0, Add, n
    <2>1. 0 \in 0 .. n
        BY <1>1
    <2> QED
        BY <1>7, <1>10, <2>1
<1>13. Collects(u0)
    <2> HIDE DEF u0, Add
    <2> QED
        BY <1>3, <1>12 DEF Collects
<1> HIDE DEF u0
<1> QED
    BY <1>11, <1>13

\* For a gold set of one instance, of any size, Calibrate counts what the
\* stand-alone functions count (recall.go:50-64, confusion.go:90-103,
\* scoring.go:104-122).
THEOREM FunctionsAgree ==
    Spec => []AgreesWithFunctions
<1>1. CalibrationIInv => AgreesWithFunctions
    <2> SUFFICES ASSUME CalibrationIInv, pc = "sealed", NEW key \in DOMAIN reports,
                        gold # << >>, \A i \in DOMAIN gold : gold[i].instance = key
                 PROVE  /\ metrics.recall = ExtractionRecall(reports[key].results)
                        /\ confusion = ConfusionFromClaims(reports[key].results)
                        /\ pairs = ConfidenceOutcomePairs(reports[key].results)
        BY DEF AgreesWithFunctions
    <2> DEFINE n == Len(gold)
               results == reports[key].results
    <2>1. Inputs /\ Shapes /\ Books /\ Course /\ metrics = Metrics
        BY DEF CalibrationIInv, Course
    <2>2. n \in Nat /\ DOMAIN gold = 1 .. n /\ at = n + 1 /\ total = n /\ at - 1 = n
        BY <2>1, GoldIsSequence DEF Course, Books
    <2>3. n >= 1
        <3>1. gold \in Seq(Range(gold))
            BY <2>1, GoldIsSequence
        <3> QED
            BY <2>2, <3>1
    <2>4. ASSUME NEW i \in DOMAIN gold
          PROVE  /\ FoundAt(i) = FindPredicted(results, gold[i])
                 /\ VerdictAt(i) = results[FindPredicted(results, gold[i])]
        BY DEF FoundAt, VerdictAt
    <2>5. Hits(results) = FoundUpTo(n)
        BY <2>2, <2>4 DEF Hits, FoundUpTo
    <2>6. metrics.recall = ExtractionRecall(results)
        <3>1. metrics.recall = <<matched, total>>
            BY <2>1, <2>2, <2>3 DEF Metrics
        <3>2. matched = Cardinality(FoundUpTo(n))
            BY <2>1, <2>2 DEF Books
        <3> QED
            BY <2>2, <2>5, <3>1, <3>2 DEF ExtractionRecall
    <2>7. confusion = ConfusionFromClaims(results)
        <3>1. DOMAIN EmptyConfusion = Cells
            BY DEF EmptyConfusion, Cells
        <3>2. ASSUME NEW cell
              PROVE  {i \in Hits(results) :
                        Cell(gold[i].label, results[FindPredicted(results, gold[i])].label) = cell}
                      = CellUpTo(n, cell)
            BY <2>2, <2>4, <2>5 DEF FoundUpTo, CellUpTo, CellAt
        <3>3. ConfusionFromClaims(results) = [cell \in Cells |-> Cardinality(CellUpTo(n, cell))]
            BY <3>1, <3>2 DEF ConfusionFromClaims
        <3>4. \A cell \in Cells : confusion[cell] = Cardinality(CellUpTo(n, cell))
            BY <2>1, <2>2 DEF Books
        <3> QED
            BY <2>1, <3>3, <3>4 DEF Shapes
    <2>8. pairs = ConfidenceOutcomePairs(results)
        <3>1. PICK up : Collects(up) /\ ConfidenceOutcomePairs(results) = up[n]
            BY <2>1, PairsCollect
        <3>2. pairs = up[n]
            BY <2>1, <2>2, <3>1 DEF Books
        <3> QED
            BY <3>1, <3>2
    <2> QED
        BY <2>6, <2>7, <2>8
<1> QED
    BY <1>1, CalibrationInvariant, PTL

=============================================================================
