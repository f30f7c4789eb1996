--------------------------- MODULE JsonTextProofs ----------------------------
(***************************************************************************)
(* What shared/cJSON.c prints it reads again, and writes only inside its   *)
(* buffer: for every text and every value, any limit of nesting and any    *)
(* first size of the print buffer.  The strings of any text, well formed   *)
(* or not, fit what is allocated for them.                                 *)
(*                                                                         *)
(* A recursive function is known here by the equation its definition gives *)
(* each of its values: a loop is a row g of what each pass leaves, and a   *)
(* fact that each pass hands on holds of all, as the first pass without it *)
(* would have a least number (LeastExists, AllIndexes).  What is read at   *)
(* each depth is a row from[d], what is written a row put[d]; the facts    *)
(* about them go from the deepest up.                                      *)
(*                                                                         *)
(* That what is printed is read follows the text from place to place: a    *)
(* string, a number, and a word end where they were printed to end and are *)
(* what was printed (...Read); so are the items of a list, if those one    *)
(* level deeper are, with their commas, names and white space (Places,     *)
(* ItemStep, ItemsRead); and then a value at each depth (Returns).  The    *)
(* chunks written add up to the text and ask for the room they take, so    *)
(* the print buffer grows as needed, or refuses (Buffer).                  *)
(***************************************************************************)
EXTENDS JsonText, FiniteSetTheorems, SequenceTheorems, WellFoundedInduction, TLAPS

\* A non-empty set of naturals has a least element.
LEMMA LeastExists ==
    ASSUME NEW S, S \subseteq Nat, S # {}
    PROVE  \E i \in S : \A j \in S : i <= j
<1>1. PICK i \in S : \A j \in S : ~(<<j, i>> \in OpToRel(<, Nat))
  BY NatLessThanWellFounded, WFMin, Zenon
<1>2. \A j \in S : ~(j < i)
  BY <1>1 DEF OpToRel
<1> QED
  BY <1>2

\* A set that has the first index, and with each the next, has them all.
LEMMA AllIndexes ==
    ASSUME NEW m \in Int, NEW n \in Int, NEW S, m <= n => m \in S,
           \A j \in m..n - 1 : j \in S => j + 1 \in S, m >= 0
    PROVE  m..n \subseteq S
<1> SUFFICES ASSUME m..n \ S # {} PROVE FALSE
  OBVIOUS
<1> DEFINE T == m..n \ S
<1>1. T \subseteq Nat /\ T # {}
  OBVIOUS
<1>2. PICK k \in T : \A j \in T : k <= j
  BY <1>1, LeastExists
<1>3. k # m /\ k \in m..n
  BY <1>2
<1>4. k - 1 \in m..n - 1 /\ k - 1 \notin T /\ k - 1 \in m..n
  BY <1>2, <1>3
<1>5. k - 1 \in S /\ (k - 1) + 1 = k
  BY <1>4, <1>3
<1> QED
  BY <1>2, <1>4, <1>5

-----------------------------------------------------------------------------
(* Loops of the text functions: a row g of what each pass leaves.          *)

\* Passes that each follow from the one before make a row.
LEMMA AllFrom ==
    ASSUME NEW n \in Nat, NEW T, 0 \in T, \A k \in 0..n - 1 : k \in T => k + 1 \in T
    PROVE  \A k \in 0..n : k \in T
<1>1. 0..n \subseteq T
  BY AllIndexes
<1> QED
  BY <1>1

IsRow(g, S, n, x, F) == g \in [0..n -> S] /\ g[0] = x /\ \A k \in 1..n : g[k] = F[k][g[k - 1]]

LEMMA RowExists ==
    ASSUME NEW S, NEW n \in Nat, NEW x \in S, NEW F, F \in [1..n -> [S -> S]]
    PROVE  \E g : IsRow(g, S, n, x, F)
<1> DEFINE T == {m \in 0..n : \E g : IsRow(g, S, m, x, F)}
<1>1. 0 \in T
  <2>1. [k \in 0..0 |-> x] \in [0..0 -> S] /\ [k \in 0..0 |-> x][0] = x
    OBVIOUS
  <2>2. IsRow([k \in 0..0 |-> x], S, 0, x, F)
    BY <2>1 DEF IsRow
  <2> QED
    BY <2>2
<1>2. ASSUME NEW m \in 0..n - 1, m \in T
      PROVE  m + 1 \in T
  <2>1. PICK g : IsRow(g, S, m, x, F)
    BY <1>2
  <2>0. g \in [0..m -> S] /\ g[0] = x /\ \A k \in 1..m : g[k] = F[k][g[k - 1]]
    BY <2>1 DEF IsRow
  <2> DEFINE h == [k \in 0..m + 1 |-> IF k = m + 1 THEN F[m + 1][g[m]] ELSE g[k]]
  <2>2. h \in [0..m + 1 -> S]
    <3>1. g[m] \in S /\ m + 1 \in 1..n
      BY <2>0
    <3>2. F[m + 1][g[m]] \in S
      BY <3>1
    <3> QED
      BY <2>0, <3>2
  <2>3. ASSUME NEW k \in 1..m + 1
        PROVE  h[k] = F[k][h[k - 1]]
    <3>1. CASE k = m + 1
      BY <3>1
    <3>2. CASE k # m + 1
      <4>1. k \in 1..m /\ k - 1 \in 0..m /\ h[k] = g[k] /\ h[k - 1] = g[k - 1]
        BY <3>2
      <4> QED
        BY <4>1, <2>0
    <3> QED
      BY <3>1, <3>2
  <2>4. h[0] = x
    BY <2>0
  <2> HIDE DEF h
  <2>5. IsRow(h, S, m + 1, x, F)
    BY <2>2, <2>3, <2>4 DEF IsRow
  <2> QED
    BY <2>5
<1> HIDE DEF T
<1>3. \A m \in 0..n - 1 : m \in T => m + 1 \in T
  BY <1>2
<1>4. \A k \in 0..n : k \in T
  BY ONLY <1>1, <1>3, n \in Nat, AllFrom
<1> USE DEF T
<1>5. n \in T
  BY <1>4
<1> QED
  BY <1>5

\* A row that has come to rest stays.
LEMMA RowStays ==
    ASSUME NEW g, NEW m \in Nat, NEW n \in Nat, m <= n,
           \A k \in m + 1..n : g[k - 1] = g[m] => g[k] = g[m]
    PROVE  g[n] = g[m]
<1> DEFINE T == {k \in m..n : g[k] = g[m]}
<1>1. m \in T
  OBVIOUS
<1>2. ASSUME NEW k \in m..n - 1, k \in T
      PROVE  k + 1 \in T
  <2>1. k + 1 \in m + 1..n /\ (k + 1) - 1 = k
    OBVIOUS
  <2>2. g[k + 1] = g[m]
    BY <1>2, <2>1
  <2> QED
    BY <2>1, <2>2
<1> HIDE DEF T
<1>3. m..n \subseteq T
  BY <1>1, <1>2, AllIndexes
<1> USE DEF T
<1> QED
  BY <1>3

\* Two rows that start alike and go on alike are the same.
LEMMA RowsAgree ==
    ASSUME NEW f, NEW g, NEW n \in Nat, f[0] = g[0],
           \A k \in 1..n : f[k - 1] = g[k - 1] => f[k] = g[k]
    PROVE  \A k \in 0..n : f[k] = g[k]
<1> DEFINE T == {k \in 0..n : f[k] = g[k]}
<1>1. 0 \in T
  OBVIOUS
<1>2. ASSUME NEW k \in 0..n - 1, k \in T
      PROVE  k + 1 \in T
  <2>1. k + 1 \in 1..n /\ (k + 1) - 1 = k
    OBVIOUS
  <2>2. f[k + 1] = g[k + 1]
    BY <1>2, <2>1
  <2> QED
    BY <2>1, <2>2
<1> HIDE DEF T
<1>3. 0..n \subseteq T
  BY <1>1, <1>2, AllIndexes
<1> USE DEF T
<1> QED
  BY <1>3

-----------------------------------------------------------------------------
(* Characters and their bytes.                                             *)

LEMMA WidthRange ==
    ASSUME NEW c
    PROVE  Width(c) \in Nat /\ Width(c) >= 1
BY DEF Width

\* The sums of the first k numbers.
Totals(ns, f) == /\ f[0] = 0 /\ \A k \in 0..Len(ns) : f[k] \in Nat
                 /\ \A k \in 1..Len(ns) : f[k] = f[k - 1] + ns[k]

TotalStep(ns, f, k) == IF k = 0 THEN 0 ELSE f[k - 1] + ns[k]

LEMMA TotalIs ==
    ASSUME NEW ns, Len(ns) \in Nat, \A k \in 1..Len(ns) : ns[k] \in Nat
    PROVE  \E f : Totals(ns, f) /\ Total(ns) = f[Len(ns)]
<1> DEFINE n == Len(ns)
           F == [k \in 1..n |-> [y \in Nat |-> y + ns[k]]]
<1>1. \A k \in 1..n : \A y \in Nat : F[k][y] = y + ns[k] /\ F[k][y] \in Nat
  OBVIOUS
<1> HIDE DEF F, n
<1>0. n \in Nat /\ F \in [1..n -> [Nat -> Nat]]
  BY DEF n, F
<1>2. PICK g : IsRow(g, Nat, n, 0, F)
  BY <1>0, RowExists
<1>20. g \in [0..n -> Nat] /\ g[0] = 0 /\ \A k \in 1..n : g[k] = F[k][g[k - 1]]
  BY <1>2 DEF IsRow
<1>21. g[0] = 0 /\ (\A k \in 0..n : g[k] \in Nat) /\ (\A k \in 1..n : g[k] = F[k][g[k - 1]])
  BY <1>20
<1>22. g = [k \in 0..n |-> g[k]]
  BY <1>20
<1>3. ASSUME NEW k \in 0..n
      PROVE  g[k] = TotalStep(ns, g, k)
  <2>1. CASE k = 0
    BY <2>1, <1>21 DEF TotalStep
  <2>2. CASE k # 0
    <3>1. k \in 1..n /\ g[k - 1] \in Nat
      BY <2>2, <1>21, <1>0
    <3> QED
      BY <3>1, <2>2, <1>1, <1>21 DEF TotalStep
  <2> QED
    BY <2>1, <2>2
<1>4. g = [k \in 0..n |-> TotalStep(ns, g, k)]
  BY <1>22, <1>3
<1> USE DEF n
<1> DEFINE f == CHOOSE f : f = [k \in 0..Len(ns) |-> TotalStep(ns, f, k)]
<1>5. f = [k \in 0..Len(ns) |-> TotalStep(ns, f, k)]
  BY <1>4
<1>6. Total(ns) = f[Len(ns)]
  BY Zenon DEF Total, TotalStep
<1> HIDE DEF f
<1>7. \A k \in 0..n : f[k] = TotalStep(ns, f, k)
  BY <1>5
<1>8. \A k \in 0..n : f[k] = g[k]
  <2>1. f[0] = g[0]
    BY <1>7, <1>21 DEF TotalStep
  <2>2. ASSUME NEW k \in 1..n, f[k - 1] = g[k - 1]
        PROVE  f[k] = g[k]
    BY <1>7, <1>3, <2>2 DEF TotalStep
  <2> QED
    BY <2>1, <2>2, RowsAgree
<1>9. Totals(ns, g)
  BY <1>21, <1>3 DEF Totals, TotalStep
<1> QED
  BY <1>6, <1>8, <1>9

\* The bytes of the first k characters.
Sums(s, f) == /\ f[0] = 0 /\ \A k \in 0..Len(s) : f[k] \in Nat
              /\ \A k \in 1..Len(s) : f[k] = f[k - 1] + Width(s[k])

LEMMA BytesIs ==
    ASSUME NEW S, NEW s \in Seq(S)
    PROVE  \E f : Sums(s, f) /\ Bytes(s) = f[Len(s)]
<1> DEFINE ns == [i \in DOMAIN s |-> Width(s[i])]
<1>1. Len(s) \in Nat /\ Len(ns) = Len(s) /\ \A k \in 1..Len(s) : ns[k] = Width(s[k])
  OBVIOUS
<1>2. \A k \in 1..Len(ns) : ns[k] \in Nat
  BY <1>1, WidthRange
<1>3. Bytes(s) = Total(ns)
  BY DEF Bytes
<1> HIDE DEF ns
<1>4. PICK f : Totals(ns, f) /\ Total(ns) = f[Len(ns)]
  BY <1>1, <1>2, TotalIs
<1>5. Sums(s, f)
  BY <1>1, <1>4 DEF Sums, Totals
<1> QED
  BY <1>1, <1>3, <1>4, <1>5
\* The sums of a sequence are the only ones.
LEMMA SumsOnly ==
    ASSUME NEW S, NEW s \in Seq(S), NEW f, NEW g, Sums(s, f), Sums(s, g)
    PROVE  \A k \in 0..Len(s) : f[k] = g[k]
<1>1. f[0] = g[0]
  BY DEF Sums
<1>2. ASSUME NEW k \in 1..Len(s), f[k - 1] = g[k - 1]
      PROVE  f[k] = g[k]
  BY <1>2 DEF Sums
<1>3. Len(s) \in Nat
  OBVIOUS
<1> QED
  BY <1>1, <1>2, <1>3, RowsAgree

LEMMA BytesOfSums ==
    ASSUME NEW S, NEW s \in Seq(S), NEW f, Sums(s, f)
    PROVE  Bytes(s) = f[Len(s)]
<1>1. PICK g : Sums(s, g) /\ Bytes(s) = g[Len(s)]
  BY BytesIs
<1> QED
  BY <1>1, SumsOnly

LEMMA BytesNat ==
    ASSUME NEW S, NEW s \in Seq(S)
    PROVE  Bytes(s) \in Nat
<1>1. PICK g : Sums(s, g) /\ Bytes(s) = g[Len(s)]
  BY BytesIs
<1> QED
  BY <1>1 DEF Sums

\* The bytes between two places.
LEMMA BytesBetween ==
    ASSUME NEW S, NEW t \in Seq(S), NEW f, Sums(t, f),
           NEW a \in 1..Len(t) + 1, NEW b \in 0..Len(t), a <= b + 1
    PROVE  Bytes(SubSeq(t, a, b)) = f[b] - f[a - 1]
<1> DEFINE s == SubSeq(t, a, b)
           n == b - a + 1
           g == [k \in 0..n |-> f[a - 1 + k] - f[a - 1]]
<1>0. Len(t) \in Nat /\ n \in Nat /\ (\A k \in 0..Len(t) : f[k] \in Nat)
      /\ \A k \in 1..Len(t) : f[k] = f[k - 1] + Width(t[k])
  BY DEF Sums
<1>1. s \in Seq(S) /\ Len(s) = n /\ \A k \in 1..n : s[k] = t[a + k - 1]
  <2>1. CASE n = 0
    <3>1. a = b + 1
      BY <2>1
    <3> QED
      BY <3>1, <2>1, <1>0
  <2>2. CASE n # 0
    BY <2>2, <1>0
  <2> QED
    BY <2>1, <2>2
<1>2. \A k \in 1..n : g[k] = g[k - 1] + Width(s[k])
  <2> SUFFICES ASSUME NEW k \in 1..n
               PROVE  g[k] = g[k - 1] + Width(s[k])
    OBVIOUS
  <2>1. a - 1 + k \in 1..Len(t) /\ (a - 1 + k) - 1 = a - 1 + (k - 1) /\ a + k - 1 = a - 1 + k
        /\ a - 1 \in 0..Len(t) /\ a - 1 + (k - 1) \in 0..Len(t) /\ k \in 0..n /\ k - 1 \in 0..n
    OBVIOUS
  <2>2. f[a - 1 + k] = f[a - 1 + (k - 1)] + Width(t[a - 1 + k])
    BY <2>1, <1>0
  <2>3. s[k] = t[a - 1 + k]
    BY <2>1, <1>1
  <2>4. f[a - 1] \in Nat /\ f[a - 1 + (k - 1)] \in Nat /\ f[a - 1 + k] \in Nat
    BY <2>1, <1>0
  <2>5. Width(t[a - 1 + k]) \in Nat
    BY WidthRange
  <2>6. g[k] = f[a - 1 + k] - f[a - 1] /\ g[k - 1] = f[a - 1 + (k - 1)] - f[a - 1]
    BY <2>1
  <2> HIDE DEF g, s, n
  <2> QED
    BY <2>2, <2>3, <2>4, <2>5, <2>6
<1>3. g[0] = 0 /\ \A k \in 0..n : g[k] \in Int
  <2>1. \A k \in 0..n : a - 1 + k \in 0..Len(t) /\ a - 1 \in 0..Len(t)
    OBVIOUS
  <2> QED
    BY <2>1, <1>0
<1>4. \A k \in 0..n : g[k] \in Nat
  <2> DEFINE T == {k \in 0..n : g[k] \in Nat}
  <2> HIDE DEF g, s, n
  <2>1. 0 \in T
    BY <1>3, <1>0
  <2>2. ASSUME NEW k \in 0..n - 1, k \in T
        PROVE  k + 1 \in T
    <3>1. k + 1 \in 1..n /\ (k + 1) - 1 = k
      BY <1>0
    <3>2. g[k + 1] = g[k] + Width(s[k + 1])
      BY <1>2, <3>1
    <3> QED
      BY <3>2, <3>1, <2>2, WidthRange
  <2> HIDE DEF T
  <2>3. \A k \in 0..n : k \in T
    BY <2>1, <2>2, <1>0, AllFrom
  <2> QED
    BY <2>3 DEF T
<1>5. Sums(s, g)
  BY <1>1, <1>2, <1>3, <1>4 DEF Sums
<1>6. g[n] = f[b] - f[a - 1]
  <2>1. a - 1 + n = b /\ n \in 0..n
    BY <1>0
  <2> QED
    BY <2>1
<1> HIDE DEF g, s
<1>7. Bytes(s) = g[Len(s)]
  BY <1>5, <1>1, <1>0, BytesOfSums
<1> QED
  BY <1>6, <1>7, <1>1 DEF s

LEMMA BytesEmpty == Bytes(<<>>) = 0
<1>1. Len(<<>>) = 0 /\ <<>> \in Seq(Nat)
  OBVIOUS
<1>2. PICK g : Sums(<<>>, g) /\ Bytes(<<>>) = g[Len(<<>>)]
  BY <1>1, BytesIs
<1> QED
  BY <1>1, <1>2 DEF Sums

\* The bytes of two sequences one after the other.
LEMMA BytesConcat ==
    ASSUME NEW S, NEW s \in Seq(S), NEW r \in Seq(S)
    PROVE  Bytes(s \o r) = Bytes(s) + Bytes(r)
<1> DEFINE t == s \o r
<1>1. t \in Seq(S) /\ Len(t) = Len(s) + Len(r) /\ Len(s) \in Nat /\ Len(r) \in Nat
  OBVIOUS
<1>2. SubSeq(t, 1, Len(s)) = s
  OBVIOUS
<1>3. SubSeq(t, Len(s) + 1, Len(t)) = r
  <2>1. Len(SubSeq(t, Len(s) + 1, Len(t))) = Len(r) /\ SubSeq(t, Len(s) + 1, Len(t)) \in Seq(S)
    BY <1>1
  <2>2. \A k \in 1..Len(r) : SubSeq(t, Len(s) + 1, Len(t))[k] = r[k]
    BY <1>1
  <2> QED
    BY <2>1, <2>2
<1> HIDE DEF t
<1>4. PICK f : Sums(t, f) /\ Bytes(t) = f[Len(t)]
  BY <1>1, BytesIs
<1>5. f[0] = 0 /\ \A k \in 0..Len(t) : f[k] \in Nat
  BY <1>4 DEF Sums
<1>6. Bytes(SubSeq(t, 1, Len(s))) = f[Len(s)] - f[1 - 1]
  BY <1>1, <1>4, BytesBetween
<1>7. Bytes(SubSeq(t, Len(s) + 1, Len(t))) = f[Len(t)] - f[(Len(s) + 1) - 1]
  BY <1>1, <1>4, BytesBetween
<1>8. (Len(s) + 1) - 1 = Len(s) /\ Len(s) \in 0..Len(t) /\ Len(t) \in 0..Len(t)
  BY <1>1
<1>9. f[Len(s)] \in Nat /\ f[Len(t)] \in Nat
  BY <1>5, <1>8
<1>10. f[1 - 1] = 0 /\ f[(Len(s) + 1) - 1] = f[Len(s)]
  BY <1>5, <1>8
<1>11. Bytes(s) = f[Len(s)] - 0
  BY <1>2, <1>6, <1>10
<1>12. Bytes(r) = f[Len(t)] - f[Len(s)]
  BY <1>3, <1>7, <1>10
<1> QED
  BY <1>4, <1>9, <1>11, <1>12 DEF t

LEMMA BytesOne ==
    ASSUME NEW c
    PROVE  Bytes(<<c>>) = Width(c)
<1>1. Len(<<c>>) = 1 /\ <<c>>[1] = c /\ <<c>> \in Seq({c})
  OBVIOUS
<1>2. PICK g : Sums(<<c>>, g) /\ Bytes(<<c>>) = g[Len(<<c>>)]
  BY <1>1, BytesIs
<1>3. g[0] = 0 /\ g[1] = g[1 - 1] + Width(<<c>>[1])
  BY <1>1, <1>2 DEF Sums
<1> QED
  BY <1>1, <1>2, <1>3, WidthRange

-----------------------------------------------------------------------------
(* Sequences one after the other, and what stands at a place of a text.    *)

\* What the first k sequences come to.
Joins(S, ss, f) == /\ f[0] = <<>> /\ \A k \in 0..Len(ss) : f[k] \in Seq(S)
                   /\ \A k \in 1..Len(ss) : f[k] = f[k - 1] \o ss[k]

FlattenStep(ss, f, i) == IF i = 1 THEN ss[i] ELSE f[i - 1] \o ss[i]

LEMMA EmptyConcat ==
    ASSUME NEW S, NEW s \in Seq(S)
    PROVE  <<>> \o s = s /\ s \o <<>> = s
OBVIOUS

LEMMA FlattenIs ==
    ASSUME NEW S, NEW ss, Len(ss) \in Nat, ss = [i \in 1..Len(ss) |-> ss[i]],
           \A i \in 1..Len(ss) : ss[i] \in Seq(S)
    PROVE  \E f : Joins(S, ss, f) /\ FlattenSeq(ss) = f[Len(ss)]
<1> DEFINE n == Len(ss)
           F == [k \in 1..n |-> [y \in Seq(S) |-> y \o ss[k]]]
<1>1. \A k \in 1..n : \A y \in Seq(S) : F[k][y] = y \o ss[k] /\ F[k][y] \in Seq(S)
  OBVIOUS
<1> HIDE DEF F, n
<1>0. n \in Nat /\ F \in [1..n -> [Seq(S) -> Seq(S)]] /\ <<>> \in Seq(S)
  BY DEF n, F
<1>2. PICK g : IsRow(g, Seq(S), n, <<>>, F)
  BY <1>0, RowExists
<1>20. g \in [0..n -> Seq(S)] /\ g[0] = <<>> /\ \A k \in 1..n : g[k] = F[k][g[k - 1]]
  BY <1>2 DEF IsRow
<1>21. g[0] = <<>> /\ (\A k \in 0..n : g[k] \in Seq(S)) /\ (\A k \in 1..n : g[k] = F[k][g[k - 1]])
  BY <1>20
<1>22. ASSUME NEW k \in 1..n
       PROVE  g[k] = g[k - 1] \o ss[k]
  <2>1. k - 1 \in 0..n
    BY <1>0
  <2>2. g[k - 1] \in Seq(S) /\ g[k] = F[k][g[k - 1]]
    BY <1>21, <2>1
  <2> QED
    BY <2>2, <1>1
<1>3. Joins(S, ss, g)
  BY <1>21, <1>22 DEF Joins, n
<1> DEFINE h == [k \in 1..n |-> g[k]]
<1>4. ASSUME NEW k \in 1..n
      PROVE  h[k] = FlattenStep(ss, h, k)
  <2>1. CASE k = 1
    <3>1. 1 \in 1..n /\ h[k] = g[1] /\ 1 - 1 = 0
      BY <2>1
    <3>2. g[1] = g[1 - 1] \o ss[1]
      BY <3>1, <1>22
    <3>3. ss[1] \in Seq(S)
      BY <3>1 DEF n
    <3>4. g[1] = ss[1]
      BY <3>1, <3>2, <3>3, <1>21, EmptyConcat
    <3> QED
      BY <3>1, <3>4, <2>1 DEF FlattenStep
  <2>2. CASE k # 1
    <3>1. k - 1 \in 1..n
      BY <2>2, <1>0
    <3>2. h[k] = g[k] /\ h[k - 1] = g[k - 1]
      BY <3>1
    <3> QED
      BY <3>2, <1>22, <2>2 DEF FlattenStep
  <2> QED
    BY <2>1, <2>2
<1>5. h = [k \in 1..n |-> FlattenStep(ss, h, k)]
  BY <1>4
<1> DEFINE f == CHOOSE f : f = [k \in 1..n |-> FlattenStep(ss, f, k)]
<1>6. f = [k \in 1..n |-> FlattenStep(ss, f, k)]
  BY <1>5
<1>7. FlattenSeq(ss) = IF Len(ss) = 0 THEN ss ELSE f[Len(ss)]
  BY Zenon DEF FlattenSeq, FlattenStep, n
<1> HIDE DEF f
<1>8. \A k \in 1..n : f[k] = FlattenStep(ss, f, k)
  BY <1>6
<1>9. CASE n = 0
  <2>1. ss = <<>>
    BY <1>9 DEF n
  <2> QED
    BY <2>1, <1>9, <1>7, <1>3, <1>21 DEF n
<1>10. CASE n # 0
  <2> DEFINE p == [k \in 0..n |-> IF k = 0 THEN <<>> ELSE f[k]]
  <2>1. p[0] = g[0]
    BY <1>21, <1>0
  <2>2. ASSUME NEW k \in 1..n, p[k - 1] = g[k - 1]
        PROVE  p[k] = g[k]
    <3>1. CASE k = 1
      <4>1. f[k] = ss[1] /\ h[k] = ss[1]
        BY <3>1, <1>8, <1>4 DEF FlattenStep
      <4> QED
        BY <4>1, <3>1, <1>0
    <3>2. CASE k # 1
      <4>0. k - 1 \in 1..n /\ k \in 0..n /\ k - 1 \in 0..n /\ k # 0 /\ k - 1 # 0
        BY <3>2, <1>0
      <4>2. f[k] = f[k - 1] \o ss[k]
        BY <3>2, <1>8 DEF FlattenStep
      <4>1. p[k - 1] = f[k - 1] /\ p[k] = f[k] /\ f[k] = f[k - 1] \o ss[k]
        BY <4>0, <4>2
      <4> QED
        BY <4>1, <2>2, <1>22
    <3> QED
      BY <3>1, <3>2
  <2> HIDE DEF p
  <2>3. \A k \in 0..n : p[k] = g[k]
    BY <2>1, <2>2, <1>0, RowsAgree
  <2>4. p[n] = g[n] /\ p[n] = f[n]
    BY <2>3, <1>10, <1>0 DEF p
  <2> QED
    BY <2>4, <1>7, <1>3, <1>10 DEF n
<1> QED
  BY <1>9, <1>10

\* s stands in t from place i on.
At(t, i, s) == /\ i \in Nat /\ i >= 1 /\ i + Len(s) - 1 <= Len(t)
               /\ \A j \in 1..Len(s) : t[i + j - 1] = s[j]

LEMMA AtConcat ==
    ASSUME NEW S, NEW t \in Seq(S), NEW i, NEW a \in Seq(S), NEW b \in Seq(S), At(t, i, a \o b)
    PROVE  At(t, i, a) /\ At(t, i + Len(a), b)
<1>1. /\ Len(a) \in Nat /\ Len(b) \in Nat /\ Len(t) \in Nat /\ Len(a \o b) = Len(a) + Len(b)
      /\ i \in Nat /\ i >= 1 /\ i + Len(a \o b) - 1 <= Len(t)
      /\ \A j \in 1..Len(a \o b) : t[i + j - 1] = (a \o b)[j]
  BY DEF At
<1>2. ASSUME NEW j \in 1..Len(a)
      PROVE  t[i + j - 1] = a[j]
  <2>1. j \in 1..Len(a \o b) /\ (a \o b)[j] = a[j]
    BY <1>1
  <2> QED
    BY <2>1, <1>1
<1>3. ASSUME NEW j \in 1..Len(b)
      PROVE  t[i + Len(a) + j - 1] = b[j]
  <2>1. Len(a) + j \in 1..Len(a \o b) /\ (a \o b)[Len(a) + j] = b[j]
    BY <1>1
  <2>2. t[i + (Len(a) + j) - 1] = b[j]
    BY <2>1, <1>1
  <2>3. i + (Len(a) + j) - 1 = i + Len(a) + j - 1
    BY <1>1
  <2> QED
    BY <2>2, <2>3
<1> QED
  BY <1>1, <1>2, <1>3 DEF At

\* Each of the sequences stands in t where those before it end.
LEMMA AtJoins ==
    ASSUME NEW S, NEW t \in Seq(S), NEW i, NEW ss, Len(ss) \in Nat,
           \A k \in 1..Len(ss) : ss[k] \in Seq(S),
           NEW f, Joins(S, ss, f), At(t, i, f[Len(ss)])
    PROVE  \A k \in 1..Len(ss) : At(t, i + Len(f[k - 1]), ss[k])
<1> DEFINE n == Len(ss)
           T == {k \in 0..n : At(t, i, f[n - k])}
<1>0. n \in Nat /\ f[0] = <<>> /\ (\A k \in 0..n : f[k] \in Seq(S))
      /\ (\A k \in 1..n : f[k] = f[k - 1] \o ss[k])
  BY DEF Joins
<1>1. \A k \in 1..n : At(t, i, f[k]) => At(t, i, f[k - 1]) /\ At(t, i + Len(f[k - 1]), ss[k])
  <2> SUFFICES ASSUME NEW k \in 1..n, At(t, i, f[k])
               PROVE  At(t, i, f[k - 1]) /\ At(t, i + Len(f[k - 1]), ss[k])
    OBVIOUS
  <2>1. k - 1 \in 0..n
    BY <1>0
  <2>2. f[k - 1] \in Seq(S) /\ ss[k] \in Seq(S) /\ f[k] = f[k - 1] \o ss[k]
    BY <1>0, <2>1
  <2> QED
    BY <2>2, AtConcat
<1>2. 0 \in T
  <2>1. n - 0 = n
    BY <1>0
  <2> QED
    BY <2>1, <1>0
<1> HIDE DEF n
<1>3. ASSUME NEW k \in 0..n - 1, k \in T
      PROVE  k + 1 \in T
  <2>1. n - k \in 1..n /\ (n - k) - 1 = n - (k + 1) /\ k + 1 \in 0..n
    BY <1>0
  <2> QED
    BY <2>1, <1>1, <1>3
<1> HIDE DEF T
<1>4. \A k \in 0..n : k \in T
  BY <1>0, <1>2, <1>3, AllFrom
<1>5. ASSUME NEW k \in 1..n
      PROVE  At(t, i + Len(f[k - 1]), ss[k])
  <2>1. n - k \in 0..n /\ n - (n - k) = k
    BY <1>0
  <2>2. At(t, i, f[k])
    BY <2>1, <1>4 DEF T
  <2> QED
    BY <2>2, <1>1
<1> QED
  BY <1>5 DEF n

LEMMA AtOne ==
    ASSUME NEW t, NEW i, NEW c, At(t, i, <<c>>)
    PROVE  i \in Nat /\ i >= 1 /\ i <= Len(t) /\ t[i] = c
<1>1. Len(<<c>>) = 1 /\ <<c>>[1] = c /\ 1 \in 1..1
  OBVIOUS
<1>2. i \in Nat /\ i >= 1 /\ i + 1 - 1 <= Len(t) /\ t[i + 1 - 1] = c
  BY <1>1 DEF At
<1>3. i + 1 - 1 = i
  BY <1>2
<1> QED
  BY <1>2, <1>3

-----------------------------------------------------------------------------
(* Strings: what parse_string reads and what print_string_ptr writes.      *)

\* What is known of the characters.
LEMMA CharFacts ==
    /\ Quote \in Character /\ Back \in Character /\ Quote # Back /\ Width(Back) = 1 /\ Width(Quote) = 1
    /\ Width("u") = 1 /\ "u" \notin DOMAIN Escape /\ Width("wide") = 4 /\ "wide" \in Character
    /\ Width(High) = 4 /\ Width(Low) = 4 /\ High # Quote /\ High # Back /\ Low # Quote /\ Low # Back
    /\ "u" # Quote /\ "u" # Back
  BY DEF Quote, Back, Character, Width, Escape, High, Low

LEMMA EscapeFacts ==
    ASSUME NEW c \in DOMAIN Escape
    PROVE  Escape[c] \in Character /\ Width(Escape[c]) = 1 /\ Width(c) = 1
  BY DEF Escape, Character, Width, Quote, Back, High, Low

LEMMA CodeFacts ==
    ASSUME NEW c \in DOMAIN Code
    PROVE  /\ Code[c] \in Character /\ Width(Code[c]) = 1 /\ Width(c) = 4
           /\ c # Quote /\ c # Back /\ c # High
  BY DEF Code, Character, Width, Quote, Back, High, Low

ScanStep(t, at, f, k) == IF k = 0 THEN [end |-> at + 1, skipped |-> 0] ELSE Scanned(t, f[k - 1])

\* What the passes of the first loop leave.
Scans(t, at, f) == /\ f[0] = [end |-> at + 1, skipped |-> 0]
                      /\ \A k \in 0..Len(t) : f[k] \in [end : Nat, skipped : Nat]
                 /\ \A k \in 1..Len(t) : f[k] = Scanned(t, f[k - 1])

LEMMA ScanIs ==
    ASSUME NEW t, Len(t) \in Nat, NEW at \in Nat
    PROVE  \E f : Scans(t, at, f) /\ Scan(t, at) = f[Len(t)]
<1> DEFINE n == Len(t)
           F == [k \in 1..n |-> [y \in [end : Nat, skipped : Nat] |-> Scanned(t, y)]]
<1>1. [end |-> at + 1, skipped |-> 0] \in [end : Nat, skipped : Nat]
    /\ \A k \in 1..n : \A y \in [end : Nat, skipped : Nat] : Scanned(t, y) \in [end : Nat, skipped : Nat]
  BY DEF Scanned
<1>2. \A k \in 1..n : \A y \in [end : Nat, skipped : Nat] : F[k][y] = Scanned(t, y)
  OBVIOUS
<1>3. n \in Nat
  OBVIOUS
<1>4. F \in [1..n -> [[end : Nat, skipped : Nat] -> [end : Nat, skipped : Nat]]]
  BY <1>1
<1> HIDE DEF F, n
<1>5. PICK g : IsRow(g, [end : Nat, skipped : Nat], n, [end |-> at + 1, skipped |-> 0], F)
  BY <1>1, <1>3, <1>4, RowExists
<1>6. g \in [0..n -> [end : Nat, skipped : Nat]] /\ g[0] = [end |-> at + 1, skipped |-> 0]
    /\ \A k \in 1..n : g[k] = F[k][g[k - 1]]
  BY <1>5 DEF IsRow
<1>7. g[0] = [end |-> at + 1, skipped |-> 0]
    /\ (\A k \in 0..n : g[k] \in [end : Nat, skipped : Nat]) /\ (\A k \in 1..n : g[k] = F[k][g[k - 1]])
  BY <1>6
<1>8. g = [k \in 0..n |-> g[k]]
  BY <1>6
<1>9. ASSUME NEW k \in 0..n
      PROVE  g[k] = ScanStep(t, at, g, k)
  <2>1. CASE k = 0
    BY <2>1, <1>7 DEF ScanStep
  <2>2. CASE k # 0
    <3>1. k \in 1..n /\ k - 1 \in 0..n
      BY <2>2, <1>3
    <3>2. g[k - 1] \in [end : Nat, skipped : Nat] /\ g[k] = F[k][g[k - 1]]
      BY <3>1, <1>7
    <3>3. F[k][g[k - 1]] = Scanned(t, g[k - 1])
      BY <3>1, <3>2, <1>2
    <3> QED
      BY <3>2, <3>3, <2>2 DEF ScanStep
  <2> QED
    BY <2>1, <2>2
<1>10. g = [k \in 0..n |-> ScanStep(t, at, g, k)]
  BY <1>8, <1>9
<1> DEFINE f == CHOOSE f : f = [k \in 0..n |-> ScanStep(t, at, f, k)]
<1>11. f = [k \in 0..n |-> ScanStep(t, at, f, k)]
  BY <1>10
<1>12. Scan(t, at) = f[n]
  BY Zenon DEF Scan, ScanStep, n
<1> HIDE DEF f
<1>13. \A k \in 0..n : f[k] = ScanStep(t, at, f, k)
  BY <1>11
<1>14. f[0] = g[0]
  <2>1. 0 \in 0..n
    BY <1>3
  <2>2. f[0] = ScanStep(t, at, f, 0)
    BY <1>13, <2>1, Zenon
  <2>3. ScanStep(t, at, f, 0) = [end |-> at + 1, skipped |-> 0]
    BY Zenon DEF ScanStep
  <2> QED
    BY <2>2, <2>3, <1>7, Zenon
<1>15. ASSUME NEW k \in 1..n, f[k - 1] = g[k - 1]
       PROVE  f[k] = g[k]
  BY <1>13, <1>9, <1>15, <1>3 DEF ScanStep
<1>16. \A k \in 0..n : f[k] = g[k]
  BY <1>14, <1>15, <1>3, RowsAgree
<1>17. \A k \in 1..n : g[k] = Scanned(t, g[k - 1])
  BY <1>9, <1>3 DEF ScanStep
<1>18. Scans(t, at, g)
  BY <1>7, <1>17 DEF Scans, n
<1> QED
  BY <1>12, <1>16, <1>18, <1>3 DEF n

\* What a character is read as.
LEMMA DecodedFacts ==
    ASSUME NEW t \in Seq(Character), NEW i \in Nat, i >= 1, i <= Len(t), NEW end
    PROVE  LET d == Decoded(t, i, end)
           IN  /\ d.takes \in {0, 1, 2, 3, 6}
               /\ d.takes # 0 => d.char \in Character
<1>1. t[i] \in Character
  OBVIOUS
<1>2. CASE t[i] # Back
  <2>1. Decoded(t, i, end) = [takes |-> 1, char |-> t[i]]
    BY <1>2 DEF Decoded
  <2> QED
    BY <2>1, <1>1
<1>3. CASE t[i] = Back /\ t[i + 1] \in DOMAIN Escape
  <2>1. Decoded(t, i, end) = [takes |-> 2, char |-> Escape[t[i + 1]]]
    BY <1>3, CharFacts DEF Decoded
  <2> QED
    BY <2>1, <1>3, EscapeFacts
<1>4. CASE t[i] = Back /\ t[i + 1] \notin DOMAIN Escape /\ t[i + 1] = "u"
  <2>1. Decoded(t, i, end) = utf16_literal_to_utf8(t, i, end)
    BY <1>4 DEF Decoded
  <2>2. CASE i + 2 < end /\ t[i + 2] \in DOMAIN Code
    BY <2>1, <2>2, CodeFacts DEF utf16_literal_to_utf8
  <2>3. CASE ~(i + 2 < end /\ t[i + 2] \in DOMAIN Code)
    BY <2>1, <2>3, CharFacts DEF utf16_literal_to_utf8
  <2> QED
    BY <2>2, <2>3
<1>5. CASE t[i] = Back /\ t[i + 1] \notin DOMAIN Escape /\ t[i + 1] # "u"
  BY <1>5 DEF Decoded
<1> QED
  BY <1>2, <1>3, <1>4, <1>5

\* What the second loop goes on from.
Reading == [ok : BOOLEAN, at : {i \in Nat : i >= 1}, out : Seq(Character)]

UnescapeStep(t, at, end, f, k) == IF k = 0 THEN [ok |-> TRUE, at |-> at + 1, out |-> <<>>] ELSE Unescaped(t, end, f[k - 1])

\* What the passes of the second loop leave.
Unescapes(t, at, end, f) == /\ f[0] = [ok |-> TRUE, at |-> at + 1, out |-> <<>>]
                            /\ \A k \in 0..Len(t) : f[k] \in Reading
                          /\ \A k \in 1..Len(t) : f[k] = Unescaped(t, end, f[k - 1])

LEMMA UnescapeIs ==
    ASSUME NEW t \in Seq(Character), NEW at \in Nat, NEW end \in Nat, end <= Len(t) + 1
    PROVE  \E f : Unescapes(t, at, end, f) /\ Unescape(t, at, end) = f[Len(t)]
<1> DEFINE n == Len(t)
           F == [k \in 1..n |-> [y \in Reading |-> Unescaped(t, end, y)]]
<1>1. [ok |-> TRUE, at |-> at + 1, out |-> <<>>] \in Reading
    /\ \A k \in 1..n : \A y \in Reading : Unescaped(t, end, y) \in Reading
  <2>1. [ok |-> TRUE, at |-> at + 1, out |-> <<>>] \in Reading
    BY DEF Reading
  <2>2. ASSUME NEW y \in Reading
        PROVE  Unescaped(t, end, y) \in Reading
    <3>0. y.ok \in BOOLEAN /\ y.at \in Nat /\ y.at >= 1 /\ y.out \in Seq(Character)
          /\ y = [ok |-> y.ok, at |-> y.at, out |-> y.out]
      BY DEF Reading
    <3>1. CASE ~(y.ok /\ y.at < end)
      BY <3>1 DEF Unescaped
    <3>2. CASE y.ok /\ y.at < end
      <4> DEFINE d == Decoded(t, y.at, end)
      <4>1. d.takes \in {0, 1, 2, 3, 6} /\ (d.takes # 0 => d.char \in Character)
        BY <3>0, <3>2, DecodedFacts
      <4>2. Unescaped(t, end, y) = With(y, d)
        BY <3>2 DEF Unescaped
      <4> HIDE DEF d
      <4>3. CASE d.takes = 0
        <5>1. Unescaped(t, end, y) = [ok |-> FALSE, at |-> y.at, out |-> y.out]
          BY <3>0, <4>2, <4>3 DEF With
        <5> QED
          BY <5>1, <3>0 DEF Reading
      <4>4. CASE d.takes # 0
        <5>1. Unescaped(t, end, y) = [ok |-> y.ok, at |-> y.at + d.takes, out |-> Append(y.out, d.char)]
          BY <3>0, <4>2, <4>4 DEF With
        <5>2. Append(y.out, d.char) \in Seq(Character)
          BY <3>0, <4>1, <4>4
        <5>3. y.at + d.takes \in Nat /\ y.at + d.takes >= 1
          BY <3>0, <4>1
        <5> QED
          BY <5>1, <5>2, <5>3, <3>0 DEF Reading
      <4> QED
        BY <4>3, <4>4
    <3> QED
      BY <3>1, <3>2
  <2> QED
    BY <2>1, <2>2
<1>2. \A k \in 1..n : \A y \in Reading : F[k][y] = Unescaped(t, end, y)
  OBVIOUS
<1>3. n \in Nat
  OBVIOUS
<1>4. F \in [1..n -> [Reading -> Reading]]
  BY <1>1
<1> HIDE DEF F, n
<1>5. PICK g : IsRow(g, Reading, n, [ok |-> TRUE, at |-> at + 1, out |-> <<>>], F)
  BY <1>1, <1>3, <1>4, RowExists
<1>6. g \in [0..n -> Reading] /\ g[0] = [ok |-> TRUE, at |-> at + 1, out |-> <<>>]
    /\ \A k \in 1..n : g[k] = F[k][g[k - 1]]
  BY <1>5 DEF IsRow
<1>7. g[0] = [ok |-> TRUE, at |-> at + 1, out |-> <<>>] /\ (\A k \in 0..n : g[k] \in Reading)
    /\ (\A k \in 1..n : g[k] = F[k][g[k - 1]])
  BY <1>6
<1>8. g = [k \in 0..n |-> g[k]]
  BY <1>6
<1>9. ASSUME NEW k \in 0..n
      PROVE  g[k] = UnescapeStep(t, at, end, g, k)
  <2>1. CASE k = 0
    BY <2>1, <1>7 DEF UnescapeStep
  <2>2. CASE k # 0
    <3>1. k \in 1..n /\ k - 1 \in 0..n
      BY <2>2, <1>3
    <3>2. g[k - 1] \in Reading /\ g[k] = F[k][g[k - 1]]
      BY <3>1, <1>7
    <3>3. F[k][g[k - 1]] = Unescaped(t, end, g[k - 1])
      BY <3>1, <3>2, <1>2
    <3> QED
      BY <3>2, <3>3, <2>2 DEF UnescapeStep
  <2> QED
    BY <2>1, <2>2
<1>10. g = [k \in 0..n |-> UnescapeStep(t, at, end, g, k)]
  BY <1>8, <1>9
<1> DEFINE f == CHOOSE f : f = [k \in 0..n |-> UnescapeStep(t, at, end, f, k)]
<1>11. f = [k \in 0..n |-> UnescapeStep(t, at, end, f, k)]
  BY <1>10
<1>12. Unescape(t, at, end) = f[n]
  BY Zenon DEF Unescape, UnescapeStep, n
<1> HIDE DEF f
<1>13. \A k \in 0..n : f[k] = UnescapeStep(t, at, end, f, k)
  BY <1>11
<1>14. f[0] = g[0]
  <2>1. 0 \in 0..n
    BY <1>3
  <2>2. f[0] = UnescapeStep(t, at, end, f, 0)
    BY <1>13, <2>1, Zenon
  <2>3. UnescapeStep(t, at, end, f, 0) = [ok |-> TRUE, at |-> at + 1, out |-> <<>>]
    BY Zenon DEF UnescapeStep
  <2> QED
    BY <2>2, <2>3, <1>7, Zenon
<1>15. ASSUME NEW k \in 1..n, f[k - 1] = g[k - 1]
       PROVE  f[k] = g[k]
  BY <1>13, <1>9, <1>15, <1>3 DEF UnescapeStep
<1>16. \A k \in 0..n : f[k] = g[k]
  BY <1>14, <1>15, <1>3, RowsAgree
<1>17. \A k \in 1..n : g[k] = Unescaped(t, end, g[k - 1])
  BY <1>9, <1>3 DEF UnescapeStep
<1>18. Unescapes(t, at, end, g)
  BY <1>7, <1>17 DEF Unescapes, n
<1> QED
  BY <1>12, <1>16, <1>18, <1>3 DEF n

LEMMA BytesAppend ==
    ASSUME NEW S, NEW s \in Seq(S), NEW c \in S
    PROVE  Bytes(Append(s, c)) = Bytes(s) + Width(c)
<1>1. Append(s, c) = s \o <<c>> /\ <<c>> \in Seq(S)
  OBVIOUS
<1> QED
  BY <1>1, BytesConcat, BytesOne

\* A pass of the first loop that is not the last goes on by one or two.
LEMMA ScanGoes ==
    ASSUME NEW t, Len(t) \in Nat, NEW at \in Nat, NEW g, Scans(t, at, g),
           NEW m \in 0..Len(t), g[m].end < g[Len(t)].end
    PROVE  /\ m + 1 \in 0..Len(t) /\ g[m].end <= Len(t) /\ t[g[m].end] # Quote
           /\ g[m].end \in Nat /\ g[m].skipped \in Nat
           /\ t[g[m].end] = Back => g[m + 1].end = g[m].end + 2 /\ g[m + 1].skipped = g[m].skipped + 1
           /\ t[g[m].end] # Back => g[m + 1].end = g[m].end + 1 /\ g[m + 1].skipped = g[m].skipped
<1>1. /\ \A k \in 0..Len(t) : g[k] \in [end : Nat, skipped : Nat]
      /\ \A k \in 1..Len(t) : g[k] = Scanned(t, g[k - 1])
  BY DEF Scans
<1>2. g[m] \in [end : Nat, skipped : Nat] /\ g[Len(t)] \in [end : Nat, skipped : Nat]
  BY <1>1
<1>3. m # Len(t)
  BY <1>2
<1>4. CanRead(t, g[m].end) /\ t[g[m].end] # Quote
  <2> SUFFICES ASSUME ~CanRead(t, g[m].end) \/ t[g[m].end] = Quote
               PROVE  FALSE
    OBVIOUS
  <2>1. Scanned(t, g[m]) = g[m]
    BY DEF Scanned
  <2>2. ASSUME NEW k \in m + 1..Len(t), g[k - 1] = g[m]
        PROVE  g[k] = g[m]
    <3>1. k \in 1..Len(t)
      OBVIOUS
    <3> QED
      BY <3>1, <2>1, <2>2, <1>1
  <2>3. m \in Nat /\ m <= Len(t)
    OBVIOUS
  <2>4. g[Len(t)] = g[m]
    BY <2>2, <2>3, RowStays
  <2> QED
    BY <2>4, <1>2
<1>5. m + 1 \in 1..Len(t) /\ m + 1 \in 0..Len(t) /\ (m + 1) - 1 = m
  BY <1>3
<1>6. g[m + 1] = Scanned(t, g[m])
  BY <1>5, <1>1
<1>7. CASE t[g[m].end] = Back
  <2>1. g[m + 1] = [end |-> g[m].end + 2, skipped |-> g[m].skipped + 1]
    BY <1>6, <1>4, <1>7 DEF Scanned
  <2> QED
    BY <2>1, <1>2, <1>4, <1>5, <1>7 DEF CanRead
<1>8. CASE t[g[m].end] # Back
  <2>1. g[m + 1] = [g[m] EXCEPT !.end = @ + 1]
    BY <1>6, <1>4, <1>8 DEF Scanned
  <2> QED
    BY <2>1, <1>2, <1>4, <1>5, <1>8 DEF CanRead
<1> QED
  BY <1>7, <1>8

\* The passes of the first loop go forward, and what they skip is less than
\* the bytes they pass by.
LEMMA ScanForward ==
    ASSUME NEW t \in Seq(Character), NEW at \in Nat, NEW g, Scans(t, at, g),
           g[Len(t)].end <= Len(t) + 1,
           NEW W, Sums(t, W), NEW m \in 0..Len(t)
    PROVE  /\ g[m].end \in Nat /\ g[m].skipped \in Nat /\ g[m].end >= at + 1
           /\ g[m].end <= g[Len(t)].end
           /\ W[g[m].end - 1] - g[m].skipped <= W[g[Len(t)].end - 1] - g[Len(t)].skipped
<1> DEFINE L == Len(t)
           Good(k) == /\ g[k].end >= at + 1 /\ g[k].end <= g[L].end
                      /\ W[g[k].end - 1] - g[k].skipped <= W[g[L].end - 1] - g[L].skipped
           T == {j \in 0..L : g[L - j].end <= g[L].end
                              /\ W[g[L - j].end - 1] - g[L - j].skipped <= W[g[L].end - 1] - g[L].skipped}
           U == {j \in 0..L : g[j].end >= at + 1}
<1>0. L \in Nat
  OBVIOUS
<1>1. /\ \A k \in 0..L : g[k].end \in Nat /\ g[k].skipped \in Nat
      /\ g[0] = [end |-> at + 1, skipped |-> 0]
      /\ \A k \in 1..L : g[k] = Scanned(t, g[k - 1])
  BY DEF Scans
<1>2. /\ \A k \in 0..L : W[k] \in Nat
      /\ \A k \in 1..L : W[k] = W[k - 1] + Width(t[k])
  BY DEF Sums
<1> HIDE DEF L
<1>3. ASSUME NEW k \in 0..L - 1
      PROVE  /\ g[k + 1].end >= g[k].end
             /\ g[k].end >= 1 /\ g[k + 1].end <= L + 1
                => W[g[k].end - 1] - g[k].skipped <= W[g[k + 1].end - 1] - g[k + 1].skipped
  <2> DEFINE e == g[k].end
             q == g[k].skipped
             e2 == g[k + 1].end
             q2 == g[k + 1].skipped
  <2>1. k + 1 \in 1..L /\ (k + 1) - 1 = k /\ k \in 0..L
    BY <1>0
  <2>2. g[k + 1] = Scanned(t, g[k]) /\ g[k] \in [end : Nat, skipped : Nat]
    BY <2>1, <1>1 DEF Scans, L
  <2>6. e \in Nat /\ q \in Nat
    BY <2>2
  <2>3. CASE ~CanRead(t, e) \/ t[e] = Quote
    <3>1. g[k + 1] = g[k]
      BY <2>2, <2>3 DEF Scanned
    <3>2. e2 = e /\ q2 = q
      BY <3>1
    <3> HIDE DEF e, q, e2, q2
    <3>3. ASSUME e >= 1, e <= L + 1
          PROVE  W[e - 1] - q <= W[e - 1] - q
      <4>1. e - 1 \in 0..L
        BY <3>3, <2>6, <1>0
      <4>2. W[e - 1] \in Nat
        BY <4>1, <1>2
      <4> QED
        BY <4>2, <2>6
    <3>4. e2 >= e /\ (e >= 1 /\ e2 <= L + 1 => W[e - 1] - q <= W[e2 - 1] - q2)
      BY <3>2, <3>3, <2>6
    <3> QED
      BY <3>4 DEF e, q, e2, q2
  <2>4. CASE CanRead(t, e) /\ t[e] # Quote /\ t[e] = Back
    <3>1. g[k + 1] = [end |-> e + 2, skipped |-> q + 1]
      BY <2>2, <2>4 DEF Scanned
    <3>2. e2 = e + 2 /\ q2 = q + 1
      BY <3>1
    <3> HIDE DEF e, q, e2, q2
    <3>3. ASSUME e >= 1, e + 2 <= L + 1
          PROVE  W[e - 1] - q <= W[e + 1] - (q + 1)
      <4>1. e \in 1..L /\ e + 1 \in 1..L /\ (e + 1) - 1 = e /\ e - 1 \in 0..L
        BY <3>3, <2>6, <1>0
      <4>2. W[e] = W[e - 1] + Width(t[e]) /\ W[e + 1] = W[(e + 1) - 1] + Width(t[e + 1])
          /\ W[e - 1] \in Nat
        BY <4>1, <1>2
      <4>3. W[e + 1] = W[e] + Width(t[e + 1])
        BY <4>1, <4>2
      <4>4. Width(t[e]) \in Nat /\ Width(t[e]) >= 1 /\ Width(t[e + 1]) \in Nat
        BY WidthRange
      <4> QED
        BY <4>2, <4>3, <4>4, <2>6
    <3>4. (e + 2) - 1 = e + 1
      BY <2>6
    <3>5. e2 >= e /\ (e >= 1 /\ e2 <= L + 1 => W[e - 1] - q <= W[e2 - 1] - q2)
      BY <3>2, <3>3, <3>4, <2>6
    <3> QED
      BY <3>5 DEF e, q, e2, q2
  <2>5. CASE CanRead(t, e) /\ t[e] # Quote /\ t[e] # Back
    <3>1. g[k + 1] = [g[k] EXCEPT !.end = @ + 1]
      BY <2>2, <2>5 DEF Scanned
    <3>2. e2 = e + 1 /\ q2 = q
      BY <3>1, <2>2
    <3> HIDE DEF e, q, e2, q2
    <3>3. ASSUME e >= 1, e + 1 <= L + 1
          PROVE  W[e - 1] - q <= W[e] - q
      <4>1. e \in 1..L /\ e - 1 \in 0..L
        BY <3>3, <2>6, <1>0
      <4>2. W[e] = W[e - 1] + Width(t[e]) /\ W[e - 1] \in Nat
        BY <4>1, <1>2
      <4>3. Width(t[e]) \in Nat
        BY WidthRange
      <4> QED
        BY <4>2, <4>3, <2>6
    <3>4. (e + 1) - 1 = e
      BY <2>6
    <3>5. e2 >= e /\ (e >= 1 /\ e2 <= L + 1 => W[e - 1] - q <= W[e2 - 1] - q2)
      BY <3>2, <3>3, <3>4, <2>6
    <3> QED
      BY <3>5 DEF e, q, e2, q2
  <2> QED
    BY <2>3, <2>4, <2>5
<1>4. \A k \in 0..L : k \in U
  <2>1. 0 \in U
    BY <1>0, <1>1
  <2>2. ASSUME NEW k \in 0..L - 1, k \in U
        PROVE  k + 1 \in U
    <3>1. k \in 0..L /\ k + 1 \in 0..L
      BY <1>0
    <3>2. g[k].end \in Nat /\ g[k + 1].end \in Nat
      BY <1>1, <3>1
    <3> QED
      BY <2>2, <1>3, <3>1, <3>2
  <2> HIDE DEF U
  <2> QED
    BY <2>1, <2>2, <1>0, AllFrom
<1>5. \A k \in 0..L : k \in T
  <2>1. 0 \in T
    <3>1. L - 0 = L /\ L \in 0..L
      BY <1>0
    <3>2. g[L].end \in Nat /\ g[L].skipped \in Nat /\ g[L].end >= at + 1 /\ g[L].end <= L + 1
      BY <3>1, <1>1, <1>4 DEF L
    <3>3. g[L].end - 1 \in 0..L
      BY <3>2, <1>0
    <3>4. W[g[L].end - 1] \in Nat
      BY <3>3, <1>2
    <3> QED
      BY <3>1, <3>2, <3>4, <1>0
  <2>2. ASSUME NEW j \in 0..L - 1, j \in T
        PROVE  j + 1 \in T
    <3> DEFINE k == L - (j + 1)
    <3>1. k \in 0..L - 1 /\ k + 1 = L - j /\ k \in 0..L /\ k + 1 \in 0..L /\ L \in 0..L
        /\ j + 1 \in 0..L
      BY <1>0
    <3> HIDE DEF k
    <3>2. g[k + 1].end <= g[L].end
        /\ W[g[k + 1].end - 1] - g[k + 1].skipped <= W[g[L].end - 1] - g[L].skipped
      BY <2>2, <3>1
    <3>3. /\ g[k].end \in Nat /\ g[k].skipped \in Nat /\ g[k + 1].end \in Nat
             /\ g[k + 1].skipped \in Nat
          /\ g[L].end \in Nat /\ g[L].skipped \in Nat
          /\ g[k].end >= at + 1 /\ g[L].end <= L + 1 /\ g[L].end >= at + 1 /\ g[k + 1].end >= at + 1
      BY <3>1, <1>1, <1>4 DEF L
    <3>4. /\ g[k + 1].end >= g[k].end
          /\ g[k].end >= 1 /\ g[k + 1].end <= L + 1
                => W[g[k].end - 1] - g[k].skipped <= W[g[k + 1].end - 1] - g[k + 1].skipped
      BY <1>3, <3>1
    <3> DEFINE e == g[k].end
               q == g[k].skipped
               e2 == g[k + 1].end
               q2 == g[k + 1].skipped
               e3 == g[L].end
               q3 == g[L].skipped
    <3>5. /\ e \in Nat /\ q \in Nat /\ e2 \in Nat /\ q2 \in Nat /\ e3 \in Nat /\ q3 \in Nat
          /\ e >= at + 1 /\ e3 <= L + 1 /\ e3 >= at + 1 /\ e2 >= at + 1
      BY <3>3
    <3>6. /\ e2 <= e3 /\ W[e2 - 1] - q2 <= W[e3 - 1] - q3 /\ e2 >= e
          /\ e >= 1 /\ e2 <= L + 1 => W[e - 1] - q <= W[e2 - 1] - q2
      BY <3>2, <3>4
    <3> HIDE DEF e, q, e2, q2, e3, q3
    <3>7. e - 1 \in 0..L /\ e2 - 1 \in 0..L /\ e3 - 1 \in 0..L /\ e <= e3
      BY <3>5, <3>6, <1>0
    <3>8. W[e - 1] \in Nat /\ W[e2 - 1] \in Nat /\ W[e3 - 1] \in Nat
      BY <3>7, <1>2
    <3>10. e >= 1 /\ e2 <= L + 1
      BY <3>5, <3>6, <1>0
    <3>11. W[e - 1] - q <= W[e3 - 1] - q3
      <4> DEFINE w == W[e - 1]
                 w2 == W[e2 - 1]
                 w3 == W[e3 - 1]
      <4>1. w - q <= w2 - q2 /\ w2 - q2 <= w3 - q3
        BY <3>6, <3>10
      <4>2. w \in Nat /\ w2 \in Nat /\ w3 \in Nat
        BY <3>8
      <4> HIDE DEF w, w2, w3
      <4>3. w - q <= w3 - q3
        BY <4>1, <4>2, <3>5
      <4> QED
        BY <4>3 DEF w, w3
    <3>9. g[k].end <= g[L].end /\ W[g[k].end - 1] - g[k].skipped <= W[g[L].end - 1] - g[L].skipped
      BY <3>7, <3>11 DEF e, q, e3, q3
    <3> QED
      BY <3>9, <3>1 DEF k
  <2> HIDE DEF T
  <2> QED
    BY <2>1, <2>2, <1>0, AllFrom
<1>6. L - m \in 0..L /\ L - (L - m) = m /\ m \in 0..L
  BY <1>0 DEF L
<1> QED
  BY <1>1, <1>4, <1>5, <1>6 DEF L

\* Where the second loop is, the first has been, and what was written until
\* then is no more than what was passed by and not skipped.
Along(t, at, sc, W, r) == \E m \in 0..Len(t) :
    sc[m].end = r.at /\ Bytes(r.out) <= W[r.at - 1] - W[at] - sc[m].skipped

LEMMA AlongStays ==
    ASSUME NEW t \in Seq(Character), NEW at \in Nat, at >= 1, NEW sc, Scans(t, at, sc),
           NEW end, end = sc[Len(t)].end, end <= Len(t), NEW W, Sums(t, W),
           NEW r \in Reading, Along(t, at, sc, W, r)
    PROVE  Along(t, at, sc, W, Unescaped(t, end, r))
<1> DEFINE L == Len(t)
           i == r.at
           b == Bytes(r.out)
<1>0. L \in Nat /\ i \in Nat /\ r.out \in Seq(Character) /\ r.ok \in BOOLEAN
      /\ r = [ok |-> r.ok, at |-> r.at, out |-> r.out]
  BY DEF Reading
<1>1. PICK m \in 0..L : sc[m].end = i /\ b <= W[i - 1] - W[at] - sc[m].skipped
  BY DEF Along
<1>2. b \in Nat
  BY <1>0, BytesNat
<1>3. \A k \in 0..L : sc[k].end \in Nat /\ sc[k].skipped \in Nat
  BY DEF Scans
<1>4. end \in Nat /\ sc[L].end <= L + 1
  BY <1>3, <1>0
<1>5. \A k \in 0..L : sc[k].end >= at + 1 /\ sc[k].end <= end
  BY <1>4, ScanForward
<1>6. /\ \A k \in 0..L : W[k] \in Nat
      /\ \A k \in 1..L : W[k] = W[k - 1] + Width(t[k])
  BY DEF Sums
<1> DEFINE d == Decoded(t, i, end)
<1>7. CASE ~(r.ok /\ i < end)
  BY <1>7 DEF Unescaped
<1>8. CASE r.ok /\ i < end /\ d.takes = 0
  <2>1. Unescaped(t, end, r) = [r EXCEPT !.ok = FALSE]
    BY <1>8 DEF Unescaped, With
  <2>2. Unescaped(t, end, r).at = i /\ Unescaped(t, end, r).out = r.out
    BY <2>1, <1>0
  <2> QED
    BY <2>2 DEF Along
<1>9. CASE r.ok /\ i < end /\ d.takes # 0
  <2> DEFINE q == sc[m].skipped
             a == W[i - 1]
             w0 == W[at]
             j == i + d.takes
  <2>1. i >= 1 /\ i <= L /\ i \in 1..L /\ i - 1 \in 0..L /\ at \in 0..L
    BY <1>0, <1>1, <1>3, <1>4, <1>5, <1>9
  <2>2. d.char \in Character /\ Unescaped(t, end, r).at = j
        /\ Unescaped(t, end, r).out = Append(r.out, d.char)
    <3>1. d.takes \in {0, 1, 2, 3, 6} /\ (d.takes # 0 => d.char \in Character)
      BY <1>0, <2>1, DecodedFacts
    <3>2. Unescaped(t, end, r) = [r EXCEPT !.at = @ + d.takes, !.out = Append(@, d.char)]
      BY <1>9 DEF Unescaped, With
    <3> HIDE DEF d
    <3> QED
      BY <3>1, <3>2, <1>0, <1>9
  <2>3. Bytes(Append(r.out, d.char)) = b + Width(d.char)
    BY <2>2, <1>0, BytesAppend
  <2>4. a \in Nat /\ w0 \in Nat /\ q \in Nat /\ b <= a - w0 - q /\ sc[m].end = i
    BY <2>1, <1>6, <1>3, <1>1
  <2>5. SUFFICES \E k \in 0..L : sc[k].end = j /\ b + Width(d.char) <= W[j - 1] - w0 - sc[k].skipped
    BY <2>2, <2>3 DEF Along
  <2>6. /\ m + 1 \in 0..L /\ t[i] # Quote
        /\ t[i] = Back => sc[m + 1].end = i + 2 /\ sc[m + 1].skipped = q + 1
        /\ t[i] # Back => sc[m + 1].end = i + 1 /\ sc[m + 1].skipped = q
    <3>1. sc[m].end < sc[Len(t)].end /\ m \in 0..Len(t) /\ Len(t) \in Nat
      BY <1>9, <2>4
    <3>2. /\ m + 1 \in 0..Len(t) /\ t[sc[m].end] # Quote
          /\ t[sc[m].end] = Back => sc[m + 1].end = sc[m].end + 2
              /\ sc[m + 1].skipped = sc[m].skipped + 1
          /\ t[sc[m].end] # Back => sc[m + 1].end = sc[m].end + 1 /\ sc[m + 1].skipped = sc[m].skipped
      BY <3>1, ScanGoes
    <3> QED
      BY <3>2, <2>4
  <2>7. W[i] = a + Width(t[i]) /\ Width(t[i]) \in Nat
    BY <2>1, <1>6, WidthRange
  <2>8. CASE t[i] # Back
    <3>1. d.takes = 1 /\ d.char = t[i]
      BY <2>8 DEF Decoded
    <3>2. sc[m + 1].end = j /\ W[j - 1] = W[i] /\ sc[m + 1].skipped = q
      BY <3>1, <2>8, <2>6, <2>1
    <3> HIDE DEF d, a, w0, q, b
    <3>3. b + Width(d.char) <= W[j - 1] - w0 - sc[m + 1].skipped
      BY <3>1, <3>2, <2>4, <2>7, <1>2
    <3> QED
      BY <3>2, <3>3, <2>6
  <2>9. CASE t[i] = Back
    <3>0. i + 1 \in 1..L /\ (i + 1) - 1 = i /\ i + 2 <= end
      <4>1. sc[m + 1].end = i + 2 /\ sc[m + 1].end <= end
        BY <2>6, <2>9, <1>5
      <4> QED
        BY <4>1, <2>1, <1>0, <1>4
    <3>1. W[i + 1] = W[(i + 1) - 1] + Width(t[i + 1])
      BY <3>0, <1>6
    <3>2. W[i + 1] = a + 1 + Width(t[i + 1]) /\ Width(t[i + 1]) \in Nat
      BY <3>0, <3>1, <2>7, <2>9, CharFacts, WidthRange
    <3>3. CASE t[i + 1] \in DOMAIN Escape
      <4>1. d = [takes |-> 2, char |-> Escape[t[i + 1]]]
        BY <2>9, <3>3, CharFacts DEF Decoded
      <4>2. d.takes = 2 /\ Width(d.char) = 1 /\ Width(t[i + 1]) = 1
        BY <4>1, <3>3, EscapeFacts
      <4>3. sc[m + 1].end = j /\ W[j - 1] = W[i + 1] /\ sc[m + 1].skipped = q + 1
        <5>1. (i + 2) - 1 = i + 1
          BY <1>0
        <5> QED
          BY <5>1, <4>2, <2>6, <2>9
      <4> HIDE DEF d, a, w0, q, b
      <4>4. b + Width(d.char) <= W[j - 1] - w0 - sc[m + 1].skipped
        BY <4>2, <4>3, <3>2, <2>4, <1>2
      <4> QED
        BY <4>3, <4>4, <2>6
    <3>4. CASE t[i + 1] \notin DOMAIN Escape
      <4>1. t[i + 1] = "u" /\ d = utf16_literal_to_utf8(t, i, end)
        BY <2>9, <3>4, <1>9 DEF Decoded
      <4>2. W[i + 1] = a + 2
        BY <4>1, <3>2, CharFacts, <2>4
      <4>3. sc[m + 1].end = i + 2 /\ sc[m + 1].skipped = q + 1
        BY <2>6, <2>9
      <4>4. ASSUME i + 2 < end
            PROVE  /\ m + 2 \in 0..L /\ i + 2 \in 1..L
                   /\ W[i + 2] = a + 2 + Width(t[i + 2])
                   /\ t[i + 2] # Back => sc[m + 2].end = i + 3 /\ sc[m + 2].skipped = q + 1
        <5>1. i + 2 \in 1..L /\ (i + 2) - 1 = i + 1
          BY <4>4, <1>0, <1>4
        <5>2. W[i + 2] = W[(i + 2) - 1] + Width(t[i + 2])
          BY <5>1, <1>6
        <5>3. (m + 1) + 1 = m + 2
          OBVIOUS
        <5>4. /\ (m + 1) + 1 \in 0..L
              /\ t[i + 2] # Back => sc[(m + 1) + 1].end = sc[m + 1].end + 1
                  /\ sc[(m + 1) + 1].skipped = sc[m + 1].skipped
          BY <2>6, <4>3, <4>4, ScanGoes
        <5>5. t[i + 2] # Back => sc[m + 2].end = (i + 2) + 1 /\ sc[m + 2].skipped = q + 1
          BY <5>3, <5>4, <4>3
        <5>6. (i + 2) + 1 = i + 3
          BY <1>0
        <5> QED
          BY <5>1, <5>2, <5>3, <5>4, <5>5, <5>6, <4>2
      <4>5. CASE i + 2 < end /\ t[i + 2] \in DOMAIN Code
        <5>1. d = [takes |-> 3, char |-> Code[t[i + 2]]]
          BY <4>1, <4>5, CodeFacts DEF utf16_literal_to_utf8
        <5>2. d.takes = 3 /\ Width(d.char) = 1 /\ Width(t[i + 2]) = 4 /\ t[i + 2] # Back
          BY <5>1, <4>5, CodeFacts
        <5>3. (i + 3) - 1 = i + 2
          BY <1>0
        <5>4. sc[m + 2].end = j /\ W[j - 1] = a + 2 + 4 /\ sc[m + 2].skipped = q + 1 /\ m + 2 \in 0..L
          BY <5>2, <5>3, <4>4, <4>5
        <5> HIDE DEF d, a, w0, q, b
        <5>5. b + Width(d.char) <= W[j - 1] - w0 - sc[m + 2].skipped
          BY <5>2, <5>4, <2>4, <1>2
        <5> QED
          BY <5>4, <5>5
      <4>6. CASE ~(i + 2 < end /\ t[i + 2] \in DOMAIN Code)
        <5>1. /\ i + 5 < end /\ t[i + 2] = High /\ t[i + 3] = Back /\ t[i + 4] = "u" /\ t[i + 5] = Low
              /\ d = [takes |-> 6, char |-> "wide"]
          <6> HIDE DEF i
          <6> QED
            BY <4>1, <4>6, <1>9 DEF utf16_literal_to_utf8
        <5>2. d.takes = 6 /\ Width(d.char) = 4 /\ Width(t[i + 2]) = 4 /\ t[i + 2] # Back
          BY <5>1, CharFacts
        <5>3. i + 2 < end
          BY <5>1, <1>0, <1>4
        <5>4. /\ m + 2 \in 0..L /\ W[i + 2] = a + 6 /\ sc[m + 2].end = i + 3
                 /\ sc[m + 2].skipped = q + 1
          BY <4>4, <5>2, <5>3, <2>4
        <5>5. /\ i + 3 \in 1..L /\ i + 4 \in 1..L /\ i + 5 \in 1..L
              /\ (i + 3) - 1 = i + 2 /\ (i + 4) - 1 = i + 3 /\ (i + 5) - 1 = i + 4
              /\ i + 3 < end /\ i + 5 < end
          <6>1. i + 5 < end
            BY <5>1
          <6>2. i \in Nat /\ i >= 1 /\ end \in Nat /\ end <= L /\ L \in Nat
            BY <1>0, <1>4, <2>1
          <6> HIDE DEF i, L
          <6> QED
            BY <6>1, <6>2
        <5>6. W[i + 3] = W[i + 2] + Width(t[i + 3]) /\ W[i + 4] = W[i + 3] + Width(t[i + 4])
              /\ W[i + 5] = W[i + 4] + Width(t[i + 5])
          BY <5>5, <1>6
        <5>7. W[i + 5] = a + 12
          <6>1. W[i + 3] = W[i + 2] + 1 /\ W[i + 4] = W[i + 3] + 1 /\ W[i + 5] = W[i + 4] + 4
            BY <5>1, <5>6, CharFacts
          <6>2. W[i + 2] = a + 6 /\ a \in Nat
            BY <5>4, <2>4
          <6> HIDE DEF a
          <6> QED
            BY <6>1, <6>2
        <5>8. (m + 2) + 1 = m + 3 /\ (m + 3) + 1 = m + 4 /\ (i + 3) + 2 = i + 5
            /\ (i + 5) + 1 = i + 6 /\ (i + 6) - 1 = i + 5
          BY <1>0
        <5>9. /\ (m + 2) + 1 \in 0..L
              /\ sc[(m + 2) + 1].end = sc[m + 2].end + 2
                  /\ sc[(m + 2) + 1].skipped = sc[m + 2].skipped + 1
          <6>1. sc[m + 2].end < sc[Len(t)].end /\ m + 2 \in 0..Len(t) /\ t[sc[m + 2].end] = Back
            BY <5>1, <5>4, <5>5
          <6>2. Len(t) \in Nat
            OBVIOUS
          <6>3. /\ (m + 2) + 1 \in 0..Len(t)
                /\ t[sc[m + 2].end] = Back => /\ sc[(m + 2) + 1].end = sc[m + 2].end + 2
                                              /\ sc[(m + 2) + 1].skipped = sc[m + 2].skipped + 1
            BY <6>1, <6>2, ScanGoes
          <6> QED
            BY <6>1, <6>3
        <5>10. m + 3 \in 0..L /\ sc[m + 3].end = i + 5 /\ sc[m + 3].skipped = q + 1 + 1
          BY <5>4, <5>8, <5>9
        <5>11. /\ (m + 3) + 1 \in 0..L
               /\ sc[(m + 3) + 1].end = sc[m + 3].end + 1 /\ sc[(m + 3) + 1].skipped = sc[m + 3].skipped
          <6>1. sc[m + 3].end < sc[Len(t)].end /\ m + 3 \in 0..Len(t) /\ t[sc[m + 3].end] # Back
            BY <5>1, <5>10, <5>5, CharFacts
          <6> QED
            BY <6>1, <1>0, ScanGoes
        <5>12. m + 4 \in 0..L /\ sc[m + 4].end = j /\ sc[m + 4].skipped = q + 1 + 1 /\ W[j - 1] = a + 12
          BY <5>2, <5>7, <5>8, <5>10, <5>11
        <5> HIDE DEF d, a, w0, q, b, j
        <5>13. b + Width(d.char) <= W[j - 1] - w0 - sc[m + 4].skipped
          BY <5>2, <5>12, <2>4, <1>2
        <5> QED
          BY <5>12, <5>13
      <4> QED
        BY <4>5, <4>6
    <3> QED
      BY <3>3, <3>4
  <2> QED
    BY <2>8, <2>9
<1> QED
  BY <1>7, <1>8, <1>9

\* What parse_string writes, with a null, is no more than it allocated.
LEMMA WrittenFits ==
    ASSUME NEW t \in Seq(Character), NEW at \in 1..Len(t), Scan(t, at).end <= Len(t)
    PROVE  Bytes(Unescape(t, at, Scan(t, at).end).out) + 1 <= allocation_length(t, at, Scan(t, at))
<1> DEFINE L == Len(t)
<1>0. L \in Nat /\ at \in Nat /\ at >= 1
  OBVIOUS
<1>1. PICK sc : Scans(t, at, sc) /\ Scan(t, at) = sc[L]
  BY <1>0, ScanIs
<1> DEFINE end == sc[L].end
           k3 == sc[L].skipped
<1>2. \A k \in 0..L : sc[k].end \in Nat /\ sc[k].skipped \in Nat
  BY <1>1 DEF Scans
<1>3. end \in Nat /\ end <= L /\ end <= L + 1 /\ k3 \in Nat
  BY <1>0, <1>1, <1>2
<1>4. PICK un : Unescapes(t, at, end, un) /\ Unescape(t, at, end) = un[L]
  BY <1>0, <1>3, UnescapeIs
<1>5. PICK W : Sums(t, W)
  BY BytesIs
<1>6. /\ \A k \in 0..L : W[k] \in Nat
      /\ \A k \in 1..L : W[k] = W[k - 1] + Width(t[k])
  BY <1>5 DEF Sums
<1>7. /\ \A k \in 0..L : un[k] \in Reading
      /\ un[0] = [ok |-> TRUE, at |-> at + 1, out |-> <<>>]
      /\ \A k \in 1..L : un[k] = Unescaped(t, end, un[k - 1])
  BY <1>4 DEF Unescapes
<1> DEFINE T == {k \in 0..L : Along(t, at, sc, W, un[k])}
<1>8. 0 \in T
  <2>1. sc[0].end = at + 1 /\ sc[0].skipped = 0
    BY <1>1 DEF Scans
  <2>2. un[0].at = at + 1 /\ un[0].out = <<>>
    BY <1>7
  <2>3. (at + 1) - 1 = at /\ W[at] \in Nat /\ 0 \in 0..L
    BY <1>0, <1>6
  <2>4. Bytes(un[0].out) <= W[un[0].at - 1] - W[at] - sc[0].skipped
    BY <2>1, <2>2, <2>3, BytesEmpty
  <2> QED
    BY <2>1, <2>2, <2>3, <2>4 DEF Along
<1> HIDE DEF end
<1>9. ASSUME NEW k \in 0..L - 1, k \in T
      PROVE  k + 1 \in T
  <2>1. k + 1 \in 1..L /\ (k + 1) - 1 = k /\ k \in 0..L /\ k + 1 \in 0..L
    BY <1>0
  <2>2. un[k] \in Reading /\ un[k + 1] = Unescaped(t, end, un[k])
    BY <2>1, <1>7
  <2>3. Along(t, at, sc, W, un[k])
    BY <1>9
  <2>4. Along(t, at, sc, W, un[k + 1])
    BY <2>2, <2>3, <1>0, <1>1, <1>3, <1>5, AlongStays DEF end
  <2> QED
    BY <2>1, <2>4
<1> HIDE DEF T
<1>10. \A k \in 0..L : k \in T
  BY <1>8, <1>9, <1>0, AllFrom
<1>11. Along(t, at, sc, W, un[L])
  BY <1>10, <1>0 DEF T
<1>12. PICK m \in 0..L : /\ sc[m].end = un[L].at
                         /\ Bytes(un[L].out) <= W[un[L].at - 1] - W[at] - sc[m].skipped
  BY <1>11 DEF Along
<1> DEFINE e == sc[m].end
           q == sc[m].skipped
           b == Bytes(un[L].out)
<1>13. /\ e \in Nat /\ q \in Nat /\ e >= at + 1 /\ e <= end
       /\ W[e - 1] - q <= W[end - 1] - k3
  BY <1>0, <1>1, <1>3, <1>5, <1>12, ScanForward DEF end
<1>14. b \in Nat
  <2>1. un[L].out \in Seq(Character)
    BY <1>7, <1>0 DEF Reading
  <2> QED
    BY <2>1, BytesNat
<1>15. b <= W[e - 1] - W[at] - q
  BY <1>12
<1> HIDE DEF e, q, b, k3, L
<1>16. e - 1 \in 0..L /\ end - 1 \in 0..L /\ at - 1 \in 0..L /\ at \in 1..L /\ at \in 0..L /\ at <= end
  BY <1>0, <1>3, <1>13 DEF L
<1>17. W[e - 1] \in Nat /\ W[end - 1] \in Nat /\ W[at - 1] \in Nat /\ W[at] \in Nat
  BY <1>16, <1>6
<1>18. W[at] = W[at - 1] + Width(t[at]) /\ Width(t[at]) \in Nat /\ Width(t[at]) >= 1
  BY <1>16, <1>6, WidthRange
<1>19. Bytes(SubSeq(t, at, end - 1)) = W[end - 1] - W[at - 1]
  <2>1. at \in 1..Len(t) + 1 /\ end - 1 \in 0..Len(t) /\ at <= (end - 1) + 1
    BY <1>0, <1>3, <1>16 DEF L
  <2> QED
    BY <2>1, <1>5, BytesBetween
<1>20. allocation_length(t, at, Scan(t, at)) = W[end - 1] - W[at - 1] - k3 + 1
  BY <1>1, <1>19 DEF allocation_length, end, k3
<1>21. b + 1 <= W[end - 1] - W[at - 1] - k3 + 1
  <2> DEFINE we == W[e - 1]
             wn == W[end - 1]
             wa == W[at - 1]
             w0 == W[at]
  <2>1. we - q <= wn - k3 /\ b <= we - w0 - q /\ w0 >= wa + 1
    BY <1>13, <1>15, <1>17, <1>18
  <2>2. we \in Nat /\ wn \in Nat /\ wa \in Nat /\ w0 \in Nat /\ q \in Nat /\ k3 \in Nat /\ b \in Nat
    BY <1>17, <1>13, <1>3, <1>14
  <2> HIDE DEF we, wn, wa, w0
  <2>3. b + 1 <= wn - wa - k3 + 1
    BY <2>1, <2>2
  <2> QED
    BY <2>3 DEF wn, wa
<1> QED
  BY <1>20, <1>21, <1>1, <1>4 DEF end, b, L

-----------------------------------------------------------------------------
(* A string printed is the string read.                                    *)

\* The forms a character is printed in.
LEMMA EscapedForms ==
    ASSUME NEW c \in Character
    PROVE  \/ Escaped(c) = <<c>> /\ c # Quote /\ c # Back /\ Extra(c) = 0
           \/ /\ Extra(c) = 1 /\ Width(c) = 1
              /\ \E e \in DOMAIN Escape : Escaped(c) = <<Back, e>> /\ Escape[e] = c
           \/ /\ Extra(c) = 5 /\ Width(c) = 1
              /\ \E k \in DOMAIN Code : Escaped(c) = <<Back, "u", k>> /\ Code[k] = c
<1>1. CASE c \in {"\n", "\t"}
  BY <1>1 DEF Escaped, Escape, Extra, Width, Quote, Back, High, Low
<1>2. CASE c \in {Quote, Back}
  BY <1>2 DEF Escaped, Escape, Extra, Width, Quote, Back, High, Low
<1>3. CASE c = "ctl"
  BY <1>3 DEF Escaped, Code, Extra, Width, Quote, Back, High, Low
<1>4. CASE c \notin {"\n", "\t", Quote, Back, "ctl"}
  BY <1>4 DEF Escaped, Extra
<1> QED
  BY <1>1, <1>2, <1>3, <1>4

LEMMA EscapedSeq ==
    ASSUME NEW c \in Character
    PROVE  /\ Escaped(c) \in Seq(Character) /\ Len(Escaped(c)) \in 1..3
           /\ Extra(c) \in Nat
           /\ Bytes(Escaped(c)) = Width(c) + Extra(c)
<1>1. CASE Escaped(c) = <<c>> /\ Extra(c) = 0
  <2>1. Bytes(<<c>>) = Width(c) /\ Width(c) \in Nat
    BY BytesOne, WidthRange
  <2>2. <<c>> \in Seq(Character) /\ Len(<<c>>) = 1
    OBVIOUS
  <2> QED
    BY <1>1, <2>1, <2>2
<1>2. ASSUME NEW e \in DOMAIN Escape, Escaped(c) = <<Back, e>>, Extra(c) = 1, Width(c) = 1
      PROVE  /\ Escaped(c) \in Seq(Character) /\ Len(Escaped(c)) \in 1..3
             /\ Extra(c) \in Nat
             /\ Bytes(Escaped(c)) = Width(c) + Extra(c)
  <2>1. e \in Character /\ Width(e) = 1 /\ Back \in Character
    BY EscapeFacts, CharFacts DEF Character
  <2>2. <<Back, e>> = <<Back>> \o <<e>> /\ <<Back>> \in Seq(Character) /\ <<e>> \in Seq(Character)
    BY <2>1
  <2>3. Bytes(<<Back>> \o <<e>>) = Bytes(<<Back>>) + Bytes(<<e>>)
    BY <2>2, BytesConcat
  <2>4. Bytes(<<Back>>) = 1 /\ Bytes(<<e>>) = 1
    BY <2>1, BytesOne, CharFacts
  <2>5. Bytes(<<Back, e>>) = 1 + 1
    BY <2>2, <2>3, <2>4
  <2>6. Len(<<Back, e>>) = 2 /\ <<Back, e>> \in Seq(Character)
    BY <2>1
  <2> QED
    BY <1>2, <2>5, <2>6
<1>3. ASSUME NEW k \in DOMAIN Code, Escaped(c) = <<Back, "u", k>>, Extra(c) = 5, Width(c) = 1
      PROVE  /\ Escaped(c) \in Seq(Character) /\ Len(Escaped(c)) \in 1..3
             /\ Extra(c) \in Nat
             /\ Bytes(Escaped(c)) = Width(c) + Extra(c)
  <2>1. k \in Character /\ Width(k) = 4 /\ Back \in Character /\ "u" \in Character
    BY CodeFacts, CharFacts DEF Character
  <2>2. /\ <<Back, "u", k>> = (<<Back>> \o <<"u">>) \o <<k>>
        /\ <<Back>> \in Seq(Character) /\ <<"u">> \in Seq(Character) /\ <<k>> \in Seq(Character)
        /\ <<Back>> \o <<"u">> \in Seq(Character)
    BY <2>1
  <2>3. Bytes(<<Back>> \o <<"u">>) = Bytes(<<Back>>) + Bytes(<<"u">>)
    BY <2>2, BytesConcat
  <2>4. Bytes((<<Back>> \o <<"u">>) \o <<k>>) = Bytes(<<Back>> \o <<"u">>) + Bytes(<<k>>)
    BY <2>2, BytesConcat
  <2>5. Bytes(<<Back>>) = 1 /\ Bytes(<<"u">>) = 1 /\ Bytes(<<k>>) = 4
    BY <2>1, BytesOne, CharFacts
  <2>6. Bytes(<<Back, "u", k>>) = (1 + 1) + 4
    BY <2>2, <2>3, <2>4, <2>5
  <2>7. Len(<<Back, "u", k>>) = 3 /\ <<Back, "u", k>> \in Seq(Character)
    BY <2>1
  <2> QED
    BY <1>3, <2>6, <2>7
<1> QED
  BY <1>1, <1>2, <1>3, EscapedForms

\* The characters of a string as they are printed.
Escapes(s) == [i \in DOMAIN s |-> Escaped(s[i])]

LEMMA EscapesSeq ==
    ASSUME NEW s \in Seq(Character)
    PROVE  /\ Len(s) \in Nat /\ Len(Escapes(s)) = Len(s)
           /\ Escapes(s) = [i \in 1..Len(Escapes(s)) |-> Escapes(s)[i]]
           /\ \A i \in 1..Len(s) : s[i] \in Character /\ Escapes(s)[i] = Escaped(s[i])
                                   /\ Escapes(s)[i] \in Seq(Character)
<1>1. \A i \in 1..Len(s) : s[i] \in Character
  OBVIOUS
<1>2. \A i \in 1..Len(s) : Escaped(s[i]) \in Seq(Character)
  BY <1>1, EscapedSeq
<1> QED
  BY <1>1, <1>2 DEF Escapes

\* print_string_ptr reckons with the bytes it writes.
LEMMA QuotedBytes ==
    ASSUME NEW s \in Seq(Character)
    PROVE  /\ Quoted(s) \in Seq(Character)
           /\ escape_characters(s) \in Nat
           /\ Bytes(Quoted(s)) = Bytes(s) + escape_characters(s) + 2
<1> DEFINE n == Len(s)
           ss == Escapes(s)
           ns == [i \in DOMAIN s |-> Extra(s[i])]
<1>1. /\ n \in Nat /\ Len(ss) = n /\ ss = [i \in 1..Len(ss) |-> ss[i]]
      /\ \A i \in 1..n : s[i] \in Character /\ ss[i] = Escaped(s[i]) /\ ss[i] \in Seq(Character)
  BY EscapesSeq
<1>2. PICK f : Joins(Character, ss, f) /\ FlattenSeq(ss) = f[n]
  BY <1>1, FlattenIs
<1>3. PICK W : Sums(s, W) /\ Bytes(s) = W[n]
  BY BytesIs
<1>4. Len(ns) = n /\ (\A i \in 1..n : ns[i] = Extra(s[i])) /\ \A i \in 1..n : ns[i] \in Nat
  BY <1>1, EscapedSeq
<1>5. escape_characters(s) = Total(ns)
  BY DEF escape_characters
<1> HIDE DEF ns, ss, n
<1>6. PICK E : Totals(ns, E) /\ Total(ns) = E[n]
  BY <1>1, <1>4, TotalIs
<1>7. /\ \A k \in 0..n : f[k] \in Seq(Character) /\ W[k] \in Nat /\ E[k] \in Nat
      /\ f[0] = <<>> /\ W[0] = 0 /\ E[0] = 0
      /\ \A k \in 1..n : f[k] = f[k - 1] \o ss[k] /\ W[k] = W[k - 1] + Width(s[k])
          /\ E[k] = E[k - 1] + Extra(s[k])
  BY <1>1, <1>2, <1>3, <1>4, <1>6 DEF Joins, Sums, Totals, n
<1> DEFINE T == {k \in 0..n : Bytes(f[k]) = W[k] + E[k]}
<1>8. 0 \in T
  BY <1>1, <1>7, BytesEmpty
<1>9. ASSUME NEW k \in 0..n - 1, k \in T
      PROVE  k + 1 \in T
  <2>1. k + 1 \in 1..n /\ (k + 1) - 1 = k /\ k \in 0..n /\ k + 1 \in 0..n
    BY <1>1
  <2>2. /\ f[k + 1] = f[k] \o ss[k + 1] /\ f[k] \in Seq(Character) /\ W[k] \in Nat /\ E[k] \in Nat
        /\ W[k + 1] = W[k] + Width(s[k + 1]) /\ E[k + 1] = E[k] + Extra(s[k + 1])
        /\ s[k + 1] \in Character /\ ss[k + 1] = Escaped(s[k + 1]) /\ ss[k + 1] \in Seq(Character)
    BY <2>1, <1>1, <1>7
  <2>3. Bytes(f[k + 1]) = Bytes(f[k]) + Bytes(ss[k + 1])
    BY <2>2, BytesConcat
  <2>4. Bytes(ss[k + 1]) = Width(s[k + 1]) + Extra(s[k + 1]) /\ Extra(s[k + 1]) \in Nat
    BY <2>2, EscapedSeq
  <2>5. Width(s[k + 1]) \in Nat /\ Bytes(f[k]) = W[k] + E[k]
    BY WidthRange, <1>9
  <2>6. Bytes(f[k + 1]) = W[k + 1] + E[k + 1]
    BY <2>2, <2>3, <2>4, <2>5
  <2> QED
    BY <2>1, <2>6
<1> HIDE DEF T
<1>10. \A k \in 0..n : k \in T
  BY <1>8, <1>9, <1>1, AllFrom
<1>11. n \in 0..n /\ f[n] \in Seq(Character) /\ Bytes(f[n]) = W[n] + E[n] /\ E[n] \in Nat
    /\ W[n] \in Nat
  BY <1>10, <1>1, <1>7 DEF T
<1>12. Quoted(s) = <<Quote>> \o f[n] \o <<Quote>>
  BY <1>2 DEF Quoted, ss, Escapes
<1>13. <<Quote>> \in Seq(Character) /\ Bytes(<<Quote>>) = 1
  BY CharFacts, BytesOne
<1>14. /\ <<Quote>> \o f[n] \in Seq(Character) /\ <<Quote>> \o f[n] \o <<Quote>> \in Seq(Character)
       /\ Bytes(<<Quote>> \o f[n]) = Bytes(<<Quote>>) + Bytes(f[n])
  <2> DEFINE z == f[n]
             y == <<Quote>>
  <2>1. z \in Seq(Character) /\ y \in Seq(Character)
    BY <1>11, <1>13
  <2> HIDE DEF z, y
  <2>2. Bytes(y \o z) = Bytes(y) + Bytes(z)
    BY <2>1, BytesConcat
  <2>3. y \o z \in Seq(Character) /\ y \o z \o y \in Seq(Character)
    BY <2>1
  <2> QED
    BY <2>2, <2>3 DEF y, z
<1>15. Bytes((<<Quote>> \o f[n]) \o <<Quote>>) = Bytes(<<Quote>> \o f[n]) + Bytes(<<Quote>>)
  BY <1>13, <1>14, BytesConcat
<1>16. Bytes(Quoted(s)) = (1 + (W[n] + E[n])) + 1
  BY <1>11, <1>12, <1>13, <1>14, <1>15
<1>17. escape_characters(s) = E[n] /\ Bytes(s) = W[n]
  BY <1>3, <1>5, <1>6
<1> QED
  BY <1>11, <1>12, <1>14, <1>16, <1>17

\* The sequences before the k-th are no longer than all of them.
LEMMA JoinsGrow ==
    ASSUME NEW S, NEW ss, Len(ss) \in Nat, \A k \in 1..Len(ss) : ss[k] \in Seq(S),
           NEW f, Joins(S, ss, f)
    PROVE  \A k \in 0..Len(ss) : Len(f[k]) <= Len(f[Len(ss)])
<1> DEFINE n == Len(ss)
           T == {j \in 0..n : Len(f[n - j]) <= Len(f[n])}
<1>0. n \in Nat /\ (\A k \in 0..n : f[k] \in Seq(S)) /\ (\A k \in 1..n : f[k] = f[k - 1] \o ss[k])
  BY DEF Joins
<1>1. \A k \in 0..n : Len(f[k]) \in Nat
  BY <1>0
<1>2. \A k \in 1..n : Len(f[k]) = Len(f[k - 1]) + Len(ss[k]) /\ Len(ss[k]) \in Nat
  <2> SUFFICES ASSUME NEW k \in 1..n
               PROVE  Len(f[k]) = Len(f[k - 1]) + Len(ss[k]) /\ Len(ss[k]) \in Nat
    OBVIOUS
  <2>1. k - 1 \in 0..n
    BY <1>0
  <2>2. f[k - 1] \in Seq(S) /\ ss[k] \in Seq(S) /\ f[k] = f[k - 1] \o ss[k]
    BY <2>1, <1>0
  <2> QED
    BY <2>2
<1> HIDE DEF n
<1>3. 0 \in T
  <2>1. n - 0 = n /\ n \in 0..n
    BY <1>0
  <2> QED
    BY <2>1, <1>0, <1>1
<1>4. ASSUME NEW j \in 0..n - 1, j \in T
      PROVE  j + 1 \in T
  <2>1. n - j \in 1..n /\ (n - j) - 1 = n - (j + 1) /\ n - (j + 1) \in 0..n /\ j + 1 \in 0..n
      /\ n - j \in 0..n /\ n \in 0..n
    BY <1>0
  <2>2. Len(f[n - j]) = Len(f[(n - j) - 1]) + Len(ss[n - j]) /\ Len(ss[n - j]) \in Nat
    BY <2>1, <1>2
  <2>3. Len(f[n - (j + 1)]) \in Nat /\ Len(f[n - j]) <= Len(f[n]) /\ Len(f[n]) \in Nat
    BY <2>1, <1>1, <1>4
  <2>4. Len(f[n - (j + 1)]) <= Len(f[n])
    <3> DEFINE a == Len(f[n - j])
               b == Len(f[n - (j + 1)])
               c == Len(ss[n - j])
               d == Len(f[n])
    <3>1. a = b + c /\ c \in Nat /\ b \in Nat /\ d \in Nat /\ a <= d
      BY <2>1, <2>2, <2>3
    <3> HIDE DEF a, b, c, d
    <3>2. b <= d
      BY <3>1
    <3> QED
      BY <3>2 DEF b, d
  <2> QED
    BY <2>1, <2>4
<1> HIDE DEF T
<1>5. \A j \in 0..n : j \in T
  BY <1>3, <1>4, <1>0, AllFrom
<1>6. ASSUME NEW k \in 0..n
      PROVE  Len(f[k]) <= Len(f[n])
  <2>1. n - k \in 0..n /\ n - (n - k) = k
    BY <1>0
  <2> QED
    BY <2>1, <1>5 DEF T
<1> QED
  BY <1>6 DEF n

\* A string without a null is its own C string.
LEMMA CStringIs ==
    ASSUME NEW s \in Seq(Character), \A k \in 1..Len(s) : s[k] # "nul"
    PROVE  CString(s) = s
<1>1. {i \in 1..Len(s) : s[i] = "nul"} = {}
  OBVIOUS
<1>2. SelectInSeq(s, LAMBDA c : c = "nul") = 0
  BY <1>1 DEF SelectInSeq
<1> QED
  BY <1>2 DEF CString

\* The first null ends the C string.
LEMMA CStringText ==
    ASSUME NEW s \in Seq(Character)
    PROVE  CString(s) \in CText
<1> DEFINE I == {i \in 1..Len(s) : s[i] = "nul"}
           C == Character \ {"nul"}
<1>1. CASE I = {}
  <2>1. \A k \in 1..Len(s) : s[k] # "nul" /\ s[k] \in Character
    BY <1>1
  <2>2. CString(s) = s
    BY <2>1, CStringIs
  <2>3. s \in Seq(C)
    <3>1. s = [k \in 1..Len(s) |-> s[k]] /\ Len(s) \in Nat
      OBVIOUS
    <3> QED
      BY <2>1, <3>1
  <2> QED
    BY <2>2, <2>3 DEF CText
<1>2. CASE I # {}
  <2>1. I \subseteq Nat
    OBVIOUS
  <2>2. PICK m \in I : \A j \in I : m <= j
    BY <1>2, <2>1, LeastExists
  <2>3. Min(I) = m
    <3>1. \A x \in I : (\A j \in I : x <= j) => x = m
      BY <2>1, <2>2
    <3> QED
      BY <2>2, <3>1 DEF Min
  <2>4. SelectInSeq(s, LAMBDA c : c = "nul") = m
    BY <2>3, <1>2 DEF SelectInSeq
  <2>5. m \in 1..Len(s) /\ Len(s) \in Nat /\ m # 0
    BY <2>2
  <2>6. CString(s) = SubSeq(s, 1, m - 1)
    BY <2>4, <2>5 DEF CString
  <2> DEFINE r == SubSeq(s, 1, m - 1)
  <2>7. r = [k \in 1..m - 1 |-> s[k]]
    BY <2>5
  <2>8. \A k \in 1..m - 1 : s[k] \in C
    <3> SUFFICES ASSUME NEW k \in 1..m - 1
                 PROVE  s[k] \in C
      OBVIOUS
    <3>1. k \in 1..Len(s) /\ k < m
      BY <2>5
    <3>2. k \notin I
      BY <2>2, <3>1
    <3> QED
      BY <3>1, <3>2
  <2>9. r \in Seq(C)
    <3>1. m - 1 \in Nat
      BY <2>5
    <3> HIDE DEF C
    <3> QED
      BY <2>7, <2>8, <3>1
  <2> QED
    BY <2>6, <2>9 DEF CText
<1> QED
  BY <1>1, <1>2

\* A character printed is one that the second loop reads in one pass.
LEMMA EscapedDecoded ==
    ASSUME NEW t \in Seq(Character), NEW i \in Nat, NEW c \in Character, At(t, i, Escaped(c)), NEW end,
           end \in Nat, i + Len(Escaped(c)) <= end
    PROVE  Decoded(t, i, end) = [takes |-> Len(Escaped(c)), char |-> c]
<1>0. /\ i >= 1 /\ i + Len(Escaped(c)) - 1 <= Len(t) /\ Len(t) \in Nat
      /\ \A j \in 1..Len(Escaped(c)) : t[i + j - 1] = Escaped(c)[j]
  BY DEF At
<1>1. CASE Escaped(c) = <<c>> /\ c # Back
  <2>1. Len(<<c>>) = 1 /\ <<c>>[1] = c /\ 1 \in 1..1 /\ i + 1 - 1 = i
    OBVIOUS
  <2>2. t[i] = c
    BY <1>0, <1>1, <2>1
  <2> QED
    BY <1>1, <2>1, <2>2 DEF Decoded
<1>2. ASSUME NEW e \in DOMAIN Escape, Escaped(c) = <<Back, e>>, Escape[e] = c
      PROVE  Decoded(t, i, end) = [takes |-> Len(Escaped(c)), char |-> c]
  <2>1. /\ Len(<<Back, e>>) = 2 /\ <<Back, e>>[1] = Back /\ <<Back, e>>[2] = e
        /\ 1 \in 1..2 /\ 2 \in 1..2 /\ i + 1 - 1 = i /\ i + 2 - 1 = i + 1
    OBVIOUS
  <2>2. t[i] = Back /\ t[i + 1] = e
    BY <1>0, <1>2, <2>1
  <2>3. Decoded(t, i, end) = [takes |-> 2, char |-> Escape[e]]
    BY <2>2, CharFacts DEF Decoded
  <2> QED
    BY <1>2, <2>1, <2>3
<1>3. ASSUME NEW k \in DOMAIN Code, Escaped(c) = <<Back, "u", k>>, Code[k] = c
      PROVE  Decoded(t, i, end) = [takes |-> Len(Escaped(c)), char |-> c]
  <2> DEFINE x == <<Back, "u", k>>
  <2>1. /\ Len(x) = 3 /\ x[1] = Back /\ x[2] = "u" /\ x[3] = k
        /\ 1 \in 1..3 /\ 2 \in 1..3 /\ 3 \in 1..3
        /\ i + 1 - 1 = i /\ i + 2 - 1 = i + 1 /\ i + 3 - 1 = i + 2 /\ i + 2 < i + 3
    OBVIOUS
  <2> HIDE DEF x
  <2>0. Escaped(c) = x
    BY <1>3 DEF x
  <2>2. t[i] = Back /\ t[i + 1] = "u" /\ t[i + 2] = k
    BY <1>0, <2>0, <2>1
  <2>3. Decoded(t, i, end) = utf16_literal_to_utf8(t, i, end)
    BY <2>2, CharFacts DEF Decoded
  <2>4. i + 2 < end
    BY <2>0, <2>1
  <2>5. utf16_literal_to_utf8(t, i, end) = [takes |-> 3, char |-> Code[k]]
    BY <2>2, <2>4, CodeFacts DEF utf16_literal_to_utf8
  <2> QED
    BY <1>3, <2>0, <2>1, <2>3, <2>5
<1> QED
  BY <1>1, <1>2, <1>3, EscapedForms

\* The first loop comes to the place x, in fewer passes than its number.
Reaches(t, g, x) == \E k \in 0..Len(t) : g[k].end = x /\ k < g[k].end

\* The first loop passes by a character printed.
LEMMA EscapedScanned ==
    ASSUME NEW t \in Seq(Character), NEW i \in Nat, NEW c \in Character, At(t, i, Escaped(c)),
           NEW at \in Nat, NEW g, Scans(t, at, g), NEW m \in 0..Len(t), g[m].end = i, m < i,
           i + Len(Escaped(c)) <= Len(t)
    PROVE  Reaches(t, g, i + Len(Escaped(c)))
<1> SUFFICES \E k \in 0..Len(t) : g[k].end = i + Len(Escaped(c)) /\ k < g[k].end
  BY DEF Reaches
<1>0. /\ i >= 1 /\ i + Len(Escaped(c)) - 1 <= Len(t) /\ Len(t) \in Nat /\ m \in Nat
      /\ \A j \in 1..Len(Escaped(c)) : t[i + j - 1] = Escaped(c)[j]
  BY DEF At
<1>4. ASSUME NEW j \in 0..Len(t) - 1, g[j].end \in Nat, g[j].end <= Len(t), t[g[j].end] # Quote
      PROVE  /\ j + 1 \in 0..Len(t) /\ g[j + 1].end \in Nat
             /\ t[g[j].end] = Back => g[j + 1].end = g[j].end + 2
             /\ t[g[j].end] # Back => g[j + 1].end = g[j].end + 1
  <2>1. j + 1 \in 1..Len(t) /\ (j + 1) - 1 = j /\ j \in 0..Len(t)
    BY <1>0
  <2>2. g[j + 1] = Scanned(t, g[j]) /\ g[j] \in [end : Nat, skipped : Nat]
    BY <2>1 DEF Scans
  <2>3. CASE t[g[j].end] = Back
    <3>1. g[j + 1] = [end |-> g[j].end + 2, skipped |-> g[j].skipped + 1]
      BY <1>4, <2>2, <2>3 DEF Scanned, CanRead
    <3> QED
      BY <3>1, <1>4, <2>1, <2>3
  <2>4. CASE t[g[j].end] # Back
    <3>1. g[j + 1] = [g[j] EXCEPT !.end = @ + 1]
      BY <1>4, <2>2, <2>4 DEF Scanned, CanRead
    <3>2. g[j + 1].end = g[j].end + 1
      BY <3>1, <2>2
    <3> QED
      BY <3>2, <1>4, <2>1, <2>4
  <2> QED
    BY <2>3, <2>4
<1>1. CASE Escaped(c) = <<c>> /\ c # Back /\ c # Quote
  <2>1. Len(<<c>>) = 1 /\ <<c>>[1] = c /\ 1 \in 1..1 /\ i + 1 - 1 = i
    OBVIOUS
  <2>2. t[i] = c /\ m \in 0..Len(t) - 1 /\ g[m].end \in Nat /\ g[m].end <= Len(t)
    BY <1>0, <1>1, <2>1
  <2>3. m + 1 \in 0..Len(t) /\ g[m + 1].end = i + 1
    BY <2>2, <1>1, <1>4
  <2> QED
    BY <2>1, <2>3, <1>0, <1>1
<1>2. ASSUME NEW e \in DOMAIN Escape, Escaped(c) = <<Back, e>>
      PROVE  \E k \in 0..Len(t) : g[k].end = i + Len(Escaped(c)) /\ k < g[k].end
  <2>1. /\ Len(<<Back, e>>) = 2 /\ <<Back, e>>[1] = Back
        /\ 1 \in 1..2 /\ i + 1 - 1 = i
    OBVIOUS
  <2>2. t[i] = Back /\ m \in 0..Len(t) - 1 /\ g[m].end \in Nat /\ g[m].end <= Len(t)
    BY <1>0, <1>2, <2>1
  <2>3. m + 1 \in 0..Len(t) /\ g[m + 1].end = i + 2
    BY <2>2, <1>4, CharFacts
  <2>4. m + 1 < i + 2
    BY <1>0
  <2> QED
    BY <2>1, <2>3, <2>4, <1>2
<1>3. ASSUME NEW d \in DOMAIN Code, Escaped(c) = <<Back, "u", d>>
      PROVE  \E k \in 0..Len(t) : g[k].end = i + Len(Escaped(c)) /\ k < g[k].end
  <2> DEFINE x == <<Back, "u", d>>
  <2>1. /\ Len(x) = 3 /\ x[1] = Back /\ x[3] = d
        /\ 1 \in 1..3 /\ 3 \in 1..3 /\ i + 1 - 1 = i /\ i + 3 - 1 = i + 2
    OBVIOUS
  <2> HIDE DEF x
  <2>0. Escaped(c) = x
    BY <1>3 DEF x
  <2>2. t[i] = Back /\ t[i + 2] = d /\ m \in 0..Len(t) - 1 /\ g[m].end \in Nat /\ g[m].end <= Len(t)
    BY <1>0, <2>0, <2>1
  <2>3. m + 1 \in 0..Len(t) /\ g[m + 1].end = i + 2
    BY <2>2, <1>4, CharFacts
  <2>4. d # Quote /\ d # Back /\ i + 2 <= Len(t) /\ m + 1 \in 0..Len(t) - 1 /\ (m + 1) + 1 = m + 2
    BY <1>0, <2>0, <2>1, CodeFacts
  <2>5. m + 2 \in 0..Len(t) /\ g[m + 2].end = (i + 2) + 1
    <3>1. g[m + 1].end \in Nat /\ g[m + 1].end <= Len(t) /\ t[g[m + 1].end] = d
      BY <2>2, <2>3, <2>4
    <3>2. (m + 1) + 1 \in 0..Len(t) /\ g[(m + 1) + 1].end = g[m + 1].end + 1
      BY <3>1, <2>4, <1>4
    <3> QED
      BY <3>2, <2>4, <2>3
  <2>6. m + 2 < i + 3 /\ (i + 2) + 1 = i + 3
    BY <1>0
  <2> QED
    BY <2>0, <2>1, <2>5, <2>6
<1> QED
  BY <1>1, <1>2, <1>3, EscapedForms

LEMMA ConcatSeq ==
    ASSUME NEW S, NEW a \in Seq(S), NEW b \in Seq(S)
    PROVE  a \o b \in Seq(S) /\ Len(a \o b) = Len(a) + Len(b) /\ Len(a) \in Nat /\ Len(b) \in Nat
OBVIOUS

\* The string printed at a place is the string read there.
LEMMA StringRead ==
    ASSUME NEW t \in Seq(Character), NEW at, NEW s \in CText, At(t, at, Quoted(s))
    PROVE  parse_string(t, at) = Read(at + Len(Quoted(s)), String(s))
<1> DEFINE n == Len(s)
           L == Len(t)
           ss == Escapes(s)
           y == <<Quote>>
<1>0. s \in Seq(Character) /\ n \in Nat /\ L \in Nat
    /\ (\A k \in 1..n : s[k] # "nul" /\ s[k] \in Character)
  <2>1. \A k \in 1..n : s[k] \in Character \ {"nul"}
    BY DEF CText
  <2>2. s = [k \in 1..n |-> s[k]] /\ n \in Nat
    BY DEF CText
  <2> QED
    BY <2>1, <2>2
<1>1. /\ Len(ss) = n /\ ss = [i \in 1..Len(ss) |-> ss[i]]
      /\ \A i \in 1..n : ss[i] = Escaped(s[i]) /\ ss[i] \in Seq(Character)
  BY <1>0, EscapesSeq
<1>2. PICK f : Joins(Character, ss, f) /\ FlattenSeq(ss) = f[n]
  BY <1>0, <1>1, FlattenIs
<1>3. /\ \A k \in 0..n : f[k] \in Seq(Character)
      /\ f[0] = <<>>
      /\ \A k \in 1..n : f[k] = f[k - 1] \o ss[k]
  BY <1>1, <1>2 DEF Joins
<1>4. y \in Seq(Character) /\ Len(y) = 1
  BY CharFacts
<1>5. Quoted(s) = y \o f[n] \o y
  BY <1>2 DEF Quoted, Escapes
<1> HIDE DEF y, ss, n
<1> DEFINE z == f[n]
<1>6. z \in Seq(Character) /\ y \o z \in Seq(Character) /\ Len(y \o z) = 1 + Len(z)
      /\ Len(Quoted(s)) = 1 + Len(z) + 1
  <2>1. n \in 0..n
    BY <1>0
  <2>2. z \in Seq(Character)
    BY <2>1, <1>3
  <2> HIDE DEF z
  <2>6. y \in Seq(Character) /\ Len(y) = 1
    BY <1>4
  <2> HIDE DEF y
  <2>7. y \o z \in Seq(Character) /\ Len(y \o z) = Len(y) + Len(z) /\ Len(z) \in Nat
    BY <2>2, <2>6, ConcatSeq
  <2>3. y \o z \in Seq(Character) /\ Len(y \o z) = 1 + Len(z) /\ Len(z) \in Nat
    BY <2>6, <2>7
  <2>4. Len(y \o z \o y) = 1 + Len(z) + 1
    BY <2>2, <2>3, <1>4
  <2>5. Quoted(s) = y \o z \o y
    BY <1>5 DEF z
  <2> QED
    BY <2>2, <2>3, <2>4, <2>5
<1>7. At(t, at, y \o z) /\ At(t, at + Len(y \o z), y)
  <2>1. At(t, at, (y \o z) \o y)
    BY <1>5
  <2> HIDE DEF z
  <2> QED
    BY <2>1, <1>4, <1>6, AtConcat
<1>8. At(t, at, y) /\ At(t, at + 1, z)
  <2> HIDE DEF z
  <2> QED
    BY <1>4, <1>6, <1>7, AtConcat
<1> DEFINE p == [k \in 0..n |-> at + 1 + Len(f[k])]
<1>9. /\ at \in Nat /\ at >= 1 /\ at <= L /\ t[at] = Quote
      /\ p[n] \in Nat /\ p[n] <= L /\ t[p[n]] = Quote
      /\ at + Len(Quoted(s)) = p[n] + 1
      /\ at + 1 + Len(z) = p[n]
  <2>1. at \in Nat /\ at >= 1 /\ at <= L /\ t[at] = Quote
    BY <1>8, AtOne DEF y
  <2>2. at + (1 + Len(z)) = at + 1 + Len(z) /\ Len(z) \in Nat
    <3>1. Len(z) \in Nat
      BY <1>6
    <3> HIDE DEF z
    <3> QED
      BY <2>1, <3>1
  <2>3. p[n] = at + 1 + Len(z)
    BY <1>0
  <2>4. At(t, p[n], <<Quote>>)
    BY <1>6, <1>7, <2>2, <2>3 DEF y
  <2>5. p[n] \in Nat /\ p[n] <= L /\ t[p[n]] = Quote
    BY <2>4, AtOne
  <2>6. at + Len(Quoted(s)) = p[n] + 1
    <3> DEFINE lz == Len(z)
    <3>1. Len(Quoted(s)) = 1 + lz + 1 /\ p[n] = at + 1 + lz /\ lz \in Nat
      BY <1>6, <2>2, <2>3
    <3> HIDE DEF lz, p
    <3> QED
      BY <3>1, <2>1
  <2> QED
    BY <2>1, <2>3, <2>5, <2>6
<1>10. \A k \in 1..n : At(t, at + 1 + Len(f[k - 1]), ss[k])
  BY <1>0, <1>1, <1>2, <1>8, AtJoins
<1>11. \A k \in 0..n : Len(f[k]) \in Nat /\ Len(f[k]) <= Len(f[n])
  <2>1. \A k \in 0..n : Len(f[k]) <= Len(f[n])
    BY <1>0, <1>1, <1>2, JoinsGrow
  <2> QED
    BY <2>1, <1>3
<1>12. ASSUME NEW k \in 1..n
       PROVE  /\ p[k] = p[k - 1] + Len(Escaped(s[k])) /\ At(t, p[k - 1], Escaped(s[k]))
              /\ p[k - 1] \in Nat /\ p[k] <= p[n] /\ s[k] \in Character
              /\ Len(Escaped(s[k])) \in 1..3
  <2>1. k - 1 \in 0..n /\ k \in 0..n
    BY <1>0
  <2>2. p[k - 1] = at + 1 + Len(f[k - 1]) /\ p[k] = at + 1 + Len(f[k]) /\ p[n] = at + 1 + Len(f[n])
    BY <2>1, <1>0
  <2>3. Len(f[k]) = Len(f[k - 1]) + Len(ss[k])
    <3> DEFINE u == f[k - 1]
               w == ss[k]
    <3>1. u \in Seq(Character) /\ w \in Seq(Character) /\ f[k] = u \o w
      BY <2>1, <1>1, <1>3
    <3> HIDE DEF u, w
    <3>2. Len(f[k]) = Len(u) + Len(w)
      BY <3>1
    <3> QED
      BY <3>2 DEF u, w
  <2>4. ss[k] = Escaped(s[k]) /\ s[k] \in Character
    BY <1>0, <1>1
  <2>5. Len(Escaped(s[k])) \in 1..3
    BY <2>4, EscapedSeq
  <2>6. At(t, p[k - 1], Escaped(s[k]))
    BY <1>10, <2>2, <2>4
  <2> DEFINE a == Len(f[k - 1])
             b == Len(f[k])
             c == Len(f[n])
             e == Len(Escaped(s[k]))
  <2>7. b = a + e /\ a \in Nat /\ b \in Nat /\ b <= c /\ c \in Nat /\ e \in 1..3
    <3>1. n \in 0..n
      BY <1>0
    <3>2. a \in Nat /\ b \in Nat /\ b <= c /\ c \in Nat
      BY <2>1, <3>1, <1>11
    <3>3. b = a + e /\ e \in 1..3
      BY <2>3, <2>4, <2>5
    <3> QED
      BY <3>2, <3>3
  <2>8. p[k - 1] = at + 1 + a /\ p[k] = at + 1 + b /\ p[n] = at + 1 + c
    BY <2>2
  <2> HIDE DEF a, b, c, e, p
  <2>9. p[k] = p[k - 1] + e /\ p[k - 1] \in Nat /\ p[k] <= p[n]
    BY <2>7, <2>8, <1>9
  <2> QED
    BY <2>4, <2>5, <2>6, <2>9 DEF e
<1>13. p[0] = at + 1
  <2>1. Len(<<>>) = 0
    OBVIOUS
  <2>2. 0 \in 0..n
    BY <1>0
  <2>3. p[0] = at + 1 + Len(f[0])
    BY <2>2
  <2>4. f[0] = <<>> /\ at \in Nat
    BY <1>3, <1>9
  <2> HIDE DEF p
  <2> QED
    BY <2>1, <2>3, <2>4
<1> HIDE DEF p, z
<1>14. PICK sc : Scans(t, at, sc) /\ Scan(t, at) = sc[L]
  BY <1>0, <1>9, ScanIs
<1>15. /\ sc[0].end = at + 1
       /\ \A k \in 1..L : sc[k] = Scanned(t, sc[k - 1])
  BY <1>14 DEF Scans
<1> DEFINE T == {k \in 0..n : \E m \in 0..L : sc[m].end = p[k] /\ m < p[k]}
<1>16. 0 \in T
  BY <1>15, <1>13, <1>0, <1>9
<1>17. ASSUME NEW k \in 0..n - 1, k \in T
       PROVE  k + 1 \in T
  <2>1. k + 1 \in 1..n /\ (k + 1) - 1 = k /\ k + 1 \in 0..n
    BY <1>0
  <2>2. PICK m \in 0..L : sc[m].end = p[k] /\ m < p[k]
    BY <1>17
  <2>3. /\ p[k + 1] = p[k] + Len(Escaped(s[k + 1])) /\ At(t, p[k], Escaped(s[k + 1]))
        /\ p[k] \in Nat /\ p[k + 1] <= p[n] /\ s[k + 1] \in Character /\ Len(Escaped(s[k + 1])) \in 1..3
    BY <2>1, <1>12
  <2>4. p[k] + Len(Escaped(s[k + 1])) <= Len(t)
    BY <2>3, <1>9, <1>0
  <2>5. \E j \in 0..Len(t) : sc[j].end = p[k] + Len(Escaped(s[k + 1])) /\ j < sc[j].end
    <3> DEFINE i == p[k]
               c == s[k + 1]
    <3>1. i \in Nat /\ c \in Character /\ At(t, i, Escaped(c)) /\ i + Len(Escaped(c)) <= Len(t)
      BY <2>3, <2>4
    <3>2. m \in 0..Len(t) /\ sc[m].end = i /\ m < i
      BY <2>2
    <3>3. at \in Nat /\ Scans(t, at, sc)
      BY <1>9, <1>14
    <3> HIDE DEF i, c
    <3>4. Reaches(t, sc, i + Len(Escaped(c)))
      BY <3>1, <3>2, <3>3, EscapedScanned
    <3> QED
      BY <3>4 DEF Reaches, i, c
  <2> QED
    BY <2>1, <2>3, <2>5
<1> HIDE DEF T
<1>18. \A k \in 0..n : k \in T
  BY <1>16, <1>17, <1>0, AllFrom
<1>19. PICK m \in 0..L : sc[m].end = p[n]
  BY <1>18, <1>0 DEF T
<1>20. sc[L] = sc[m]
  <2>1. Scanned(t, sc[m]) = sc[m]
    BY <1>9, <1>19 DEF Scanned
  <2>2. ASSUME NEW k \in m + 1..L, sc[k - 1] = sc[m]
        PROVE  sc[k] = sc[m]
    <3>1. k \in 1..L
      BY <1>0
    <3> QED
      BY <2>1, <2>2, <3>1, <1>15
  <2>3. m \in Nat /\ m <= L
    BY <1>0
  <2> QED
    BY <2>2, <2>3, <1>0, RowStays
<1>21. Scan(t, at).end = p[n]
  BY <1>14, <1>19, <1>20
<1> DEFINE end == p[n]
<1>22. PICK un : Unescapes(t, at, end, un) /\ Unescape(t, at, end) = un[L]
  <2>1. end \in Nat /\ end <= Len(t) + 1 /\ at \in Nat
    BY <1>9, <1>0
  <2> HIDE DEF end
  <2> QED
    BY <2>1, UnescapeIs
<1>23. /\ un[0] = [ok |-> TRUE, at |-> at + 1, out |-> <<>>]
       /\ \A k \in 1..L : un[k] = Unescaped(t, end, un[k - 1])
  BY <1>22 DEF Unescapes
<1> DEFINE U == {k \in 0..n : k <= L /\ un[k] = [ok |-> TRUE, at |-> p[k], out |-> SubSeq(s, 1, k)]}
<1>24. 0 \in U
  <2>1. SubSeq(s, 1, 0) = <<>> /\ 0 \in 0..n /\ 0 <= L
    BY <1>0
  <2>2. un[0] = [ok |-> TRUE, at |-> p[0], out |-> SubSeq(s, 1, 0)]
    BY <2>1, <1>13, <1>23
  <2> QED
    BY <2>1, <2>2
<1>25. ASSUME NEW k \in 0..n - 1, k \in U
       PROVE  k + 1 \in U
  <2>1. k + 1 \in 1..n /\ (k + 1) - 1 = k /\ k + 1 \in 0..n
    BY <1>0
  <2>0. un[k] = [ok |-> TRUE, at |-> p[k], out |-> SubSeq(s, 1, k)]
    BY <1>25
  <2>3. /\ p[k + 1] = p[k] + Len(Escaped(s[k + 1])) /\ At(t, p[k], Escaped(s[k + 1]))
        /\ p[k] \in Nat /\ p[k + 1] <= p[n] /\ s[k + 1] \in Character /\ Len(Escaped(s[k + 1])) \in 1..3
    BY <2>1, <1>12
  <2>4. Decoded(t, p[k], end) = [takes |-> Len(Escaped(s[k + 1])), char |-> s[k + 1]]
    <3> HIDE DEF end
    <3>1. end \in Nat /\ p[k] + Len(Escaped(s[k + 1])) <= end
      BY <2>3, <1>9 DEF end
    <3> QED
      BY <2>3, <3>1, EscapedDecoded
  <2>5. p[k] < end
    <3> DEFINE e == Len(Escaped(s[k + 1]))
    <3>1. e \in 1..3 /\ p[k + 1] = p[k] + e /\ p[k] \in Nat /\ p[k + 1] <= end
      BY <2>3
    <3>2. end \in Nat
      BY <1>9
    <3> HIDE DEF e, end
    <3> QED
      BY <3>1, <3>2
  <2>6. Unescaped(t, end, un[k]) = [ok |-> TRUE, at |-> p[k + 1], out |-> Append(SubSeq(s, 1, k), s[k + 1])]
    <3>1. Unescaped(t, end, un[k]) = With(un[k], Decoded(t, p[k], end))
      BY <1>25, <2>5 DEF Unescaped
    <3> DEFINE o == SubSeq(s, 1, k)
               e == Len(Escaped(s[k + 1]))
    <3>2. un[k] = [ok |-> TRUE, at |-> p[k], out |-> o] /\ e # 0 /\ p[k + 1] = p[k] + e
          /\ Decoded(t, p[k], end) = [takes |-> e, char |-> s[k + 1]]
      <4>1. un[k] = [ok |-> TRUE, at |-> p[k], out |-> o]
        BY <2>0
      <4>2. e # 0 /\ p[k + 1] = p[k] + e
        <5>1. e \in 1..3 /\ p[k + 1] = p[k] + e
          BY <2>3
        <5> HIDE DEF e
        <5> QED
          BY <5>1
      <4> QED
        BY <4>1, <4>2, <2>4
    <3>4. p[k] \in Nat
      BY <2>3
    <3> HIDE DEF o, e, end
    <3>3. With(un[k], Decoded(t, p[k], end)) = [ok |-> TRUE, at |-> p[k] + e, out |-> Append(o, s[k + 1])]
      <4> DEFINE d == Decoded(t, p[k], end)
                 r == un[k]
      <4>1. d.takes = e /\ d.char = s[k + 1]
        BY <3>2
      <4>2. r = [ok |-> TRUE, at |-> p[k], out |-> o]
        BY <3>2
      <4> HIDE DEF d, r
      <4>3. With(r, d) = [r EXCEPT !.at = @ + d.takes, !.out = Append(@, d.char)]
        BY <4>1, <3>2 DEF With
      <4>4. With(r, d) = [ok |-> TRUE, at |-> p[k] + e, out |-> Append(o, s[k + 1])]
        BY <4>1, <4>2, <4>3
      <4> QED
        BY <4>4 DEF d, r
    <3> QED
      BY <3>1, <3>2, <3>3 DEF o
  <2>7. Append(SubSeq(s, 1, k), s[k + 1]) = SubSeq(s, 1, k + 1)
    BY <1>0, <2>1 DEF n
  <2>8. k + 1 <= L
    <3>1. p[k] > k
      <4>1. \A j \in 0..n : p[j] \in Nat /\ p[j] > j
        <5> DEFINE V == {j \in 0..n : p[j] \in Nat /\ p[j] > j}
        <5>1. 0 \in V
          BY <1>13, <1>9, <1>0
        <5>2. ASSUME NEW j \in 0..n - 1, j \in V
              PROVE  j + 1 \in V
          <6>1. j + 1 \in 1..n /\ (j + 1) - 1 = j /\ j + 1 \in 0..n
            BY <1>0
          <6>2. p[j + 1] = p[j] + Len(Escaped(s[j + 1])) /\ Len(Escaped(s[j + 1])) \in 1..3
            BY <6>1, <1>12
          <6>3. p[j] \in Nat /\ p[j] > j
            BY <5>2
          <6>4. p[j + 1] \in Nat /\ p[j + 1] > j + 1
            <7> DEFINE e == Len(Escaped(s[j + 1]))
            <7>1. e \in 1..3 /\ p[j + 1] = p[j] + e
              BY <6>2
            <7> HIDE DEF e
            <7> QED
              BY <7>1, <6>3
          <6> QED
            BY <6>1, <6>4
        <5> HIDE DEF V
        <5>3. \A j \in 0..n : j \in V
          BY <5>1, <5>2, <1>0, AllFrom
        <5> QED
          BY <5>3 DEF V
      <4> QED
        BY <4>1, <1>0
    <3> QED
      BY <3>1, <2>5, <2>3, <1>9, <1>0
  <2>9. k + 1 \in 1..L
    BY <2>8, <1>0
  <2>10. un[k + 1] = Unescaped(t, end, un[k])
    BY <2>9, <2>1, <1>23
  <2> QED
    BY <2>1, <2>6, <2>7, <2>8, <2>10
<1> HIDE DEF U
<1>26. \A k \in 0..n : k \in U
  BY <1>24, <1>25, <1>0, AllFrom
<1>27. n <= L /\ un[n] = [ok |-> TRUE, at |-> end, out |-> s]
  <2>1. SubSeq(s, 1, n) = s
    BY <1>0 DEF n
  <2> QED
    BY <2>1, <1>26, <1>0 DEF U
<1>28. un[L] = un[n]
  <2>1. Unescaped(t, end, un[n]) = un[n]
    BY <1>27, <1>9 DEF Unescaped
  <2>2. ASSUME NEW k \in n + 1..L, un[k - 1] = un[n]
        PROVE  un[k] = un[n]
    <3>1. k \in 1..L
      BY <1>0
    <3> QED
      BY <2>1, <2>2, <3>1, <1>23
  <2> QED
    BY <2>2, <1>0, <1>27, RowStays
<1>29. CString(s) = s
  BY <1>0, CStringIs DEF n
<1>30. Unescape(t, at, Scan(t, at).end) = [ok |-> TRUE, at |-> end, out |-> s]
  BY <1>21, <1>22, <1>27, <1>28
<1> QED
  BY <1>9, <1>21, <1>29, <1>30 DEF parse_string, CanRead

-----------------------------------------------------------------------------
(* A number printed is the number read.                                    *)

DigitChar == NumberChar \ {"-"}

LEMMA DigitFacts ==
    ASSUME NEW i \in 0..9
    PROVE  Digit[i] \in DigitChar /\ DigitOf(Digit[i]) = i
<1>1. Digit[i] \in DigitChar
  BY DEF Digit, DigitChar, NumberChar
<1>2. ASSUME NEW j \in 0..9, Digit[j] = Digit[i]
      PROVE  j = i
  <2>1. /\ Digit[0] = "0" /\ Digit[1] = "1" /\ Digit[2] = "2" /\ Digit[3] = "3" /\ Digit[4] = "4"
        /\ Digit[5] = "5" /\ Digit[6] = "6" /\ Digit[7] = "7" /\ Digit[8] = "8" /\ Digit[9] = "9"
    BY DEF Digit
  <2>2. i \in {0, 1, 2, 3, 4, 5, 6, 7, 8, 9} /\ j \in {0, 1, 2, 3, 4, 5, 6, 7, 8, 9}
    OBVIOUS
  <2> QED
    BY <1>2, <2>1, <2>2
<1>3. \A j \in 0..9 : Digit[j] = Digit[i] => j = i
  BY <1>2
<1>4. DigitOf(Digit[i]) = i
  BY <1>3 DEF DigitOf
<1> QED
  BY <1>1, <1>4

LEMMA DigitRange ==
    ASSUME NEW c \in DigitChar
    PROVE  DigitOf(c) \in 0..9 /\ Digit[DigitOf(c)] = c /\ c \in Character /\ Width(c) = 1
<1>1. \E i \in 0..9 : Digit[i] = c
  <2>1. /\ Digit[0] = "0" /\ Digit[1] = "1" /\ Digit[2] = "2" /\ Digit[3] = "3" /\ Digit[4] = "4"
        /\ Digit[5] = "5" /\ Digit[6] = "6" /\ Digit[7] = "7" /\ Digit[8] = "8" /\ Digit[9] = "9"
    BY DEF Digit
  <2>2. c \in {"0", "1", "2", "3", "4", "5", "6", "7", "8", "9"}
    BY DEF DigitChar, NumberChar
  <2>3. 0 \in 0..9 /\ 1 \in 0..9 /\ 2 \in 0..9 /\ 3 \in 0..9 /\ 4 \in 0..9
        /\ 5 \in 0..9 /\ 6 \in 0..9 /\ 7 \in 0..9 /\ 8 \in 0..9 /\ 9 \in 0..9
    OBVIOUS
  <2> QED
    BY <2>1, <2>2, <2>3
<1>2. DigitOf(c) \in 0..9 /\ Digit[DigitOf(c)] = c
  BY <1>1 DEF DigitOf
<1>3. c \in Character /\ Width(c) = 1
  BY DEF DigitChar, NumberChar, Character, Width, High, Low
<1> QED
  BY <1>2, <1>3

IntStep(s, f, k) == IF k = 0 THEN 0 ELSE 10 * f[k - 1] + DigitOf(s[k])

\* What the first digits come to.
Ints(s, f) == /\ f[0] = 0 /\ \A k \in 0..Len(s) : f[k] \in Int
            /\ \A k \in 1..Len(s) : f[k] = 10 * f[k - 1] + DigitOf(s[k])

LEMMA IntIs ==
    ASSUME NEW s, Len(s) \in Nat, \A k \in 1..Len(s) : DigitOf(s[k]) \in Int
    PROVE  \E f : Ints(s, f) /\ IntOf(s) = f[Len(s)]
<1> DEFINE n == Len(s)
           F == [k \in 1..n |-> [y \in Int |-> 10 * y + DigitOf(s[k])]]
<1>1. 0 \in Int /\ \A k \in 1..n : \A y \in Int : 10 * y + DigitOf(s[k]) \in Int
  OBVIOUS
<1>2. \A k \in 1..n : \A y \in Int : F[k][y] = 10 * y + DigitOf(s[k])
  OBVIOUS
<1>3. n \in Nat
  OBVIOUS
<1>4. F \in [1..n -> [Int -> Int]]
  BY <1>1
<1> HIDE DEF F, n
<1>5. PICK g : IsRow(g, Int, n, 0, F)
  BY <1>1, <1>3, <1>4, RowExists
<1>6. g \in [0..n -> Int] /\ g[0] = 0 /\ \A k \in 1..n : g[k] = F[k][g[k - 1]]
  BY <1>5 DEF IsRow
<1>7. g[0] = 0 /\ (\A k \in 0..n : g[k] \in Int) /\ (\A k \in 1..n : g[k] = F[k][g[k - 1]])
  BY <1>6
<1>8. g = [k \in 0..n |-> g[k]]
  BY <1>6
<1>9. ASSUME NEW k \in 0..n
      PROVE  g[k] = IntStep(s, g, k)
  <2>1. CASE k = 0
    BY <2>1, <1>7 DEF IntStep
  <2>2. CASE k # 0
    <3>1. k \in 1..n /\ k - 1 \in 0..n
      BY <2>2, <1>3
    <3>2. g[k - 1] \in Int /\ g[k] = F[k][g[k - 1]]
      BY <3>1, <1>7
    <3>3. F[k][g[k - 1]] = 10 * g[k - 1] + DigitOf(s[k])
      BY <3>1, <3>2, <1>2
    <3> QED
      BY <3>2, <3>3, <2>2 DEF IntStep
  <2> QED
    BY <2>1, <2>2
<1>10. g = [k \in 0..n |-> IntStep(s, g, k)]
  BY <1>8, <1>9
<1> DEFINE f == CHOOSE f : f = [k \in 0..n |-> IntStep(s, f, k)]
<1>11. f = [k \in 0..n |-> IntStep(s, f, k)]
  BY <1>10
<1>12. IntOf(s) = f[n]
  BY Zenon DEF IntOf, IntStep, n
<1> HIDE DEF f
<1>13. \A k \in 0..n : f[k] = IntStep(s, f, k)
  BY <1>11
<1>14. f[0] = g[0]
  <2>1. 0 \in 0..n
    BY <1>3
  <2>2. f[0] = IntStep(s, f, 0)
    BY <1>13, <2>1, Zenon
  <2>3. IntStep(s, f, 0) = 0
    BY Zenon DEF IntStep
  <2> QED
    BY <2>2, <2>3, <1>7, Zenon
<1>15. ASSUME NEW k \in 1..n, f[k - 1] = g[k - 1]
       PROVE  f[k] = g[k]
  BY <1>13, <1>9, <1>15, <1>3 DEF IntStep
<1>16. \A k \in 0..n : f[k] = g[k]
  BY <1>14, <1>15, <1>3, RowsAgree
<1>17. \A k \in 1..n : g[k] = 10 * g[k - 1] + DigitOf(s[k])
  BY <1>9, <1>3 DEF IntStep
<1>18. Ints(s, g)
  BY <1>7, <1>17 DEF Ints, n
<1> QED
  BY <1>12, <1>16, <1>18, <1>3 DEF n

LEMMA DigitsInt ==
    ASSUME NEW s \in Seq(DigitChar)
    PROVE  \E f : Ints(s, f) /\ IntOf(s) = f[Len(s)]
<1>1. Len(s) \in Nat /\ \A k \in 1..Len(s) : s[k] \in DigitChar
  OBVIOUS
<1>2. \A k \in 1..Len(s) : DigitOf(s[k]) \in Int
  BY <1>1, DigitRange
<1> QED
  BY <1>1, <1>2, IntIs

LEMMA IntOfInt ==
    ASSUME NEW s \in Seq(DigitChar)
    PROVE  IntOf(s) \in Int
<1>1. PICK f : Ints(s, f) /\ IntOf(s) = f[Len(s)]
  BY DigitsInt
<1>2. Len(s) \in 0..Len(s)
  OBVIOUS
<1> QED
  BY <1>1, <1>2 DEF Ints

LEMMA IntAppend ==
    ASSUME NEW s \in Seq(DigitChar), NEW c \in DigitChar
    PROVE  IntOf(Append(s, c)) = 10 * IntOf(s) + DigitOf(c)
<1> DEFINE r == Append(s, c)
           n == Len(s)
<1>1. r \in Seq(DigitChar) /\ n \in Nat /\ Len(r) = n + 1 /\ r[n + 1] = c /\ \A k \in 1..n : r[k] = s[k]
  OBVIOUS
<1>2. PICK f : Ints(s, f) /\ IntOf(s) = f[n]
  BY DigitsInt
<1> HIDE DEF r
<1>3. PICK g : Ints(r, g) /\ IntOf(r) = g[Len(r)]
  BY <1>1, DigitsInt
<1>4. f[0] = g[0]
  BY <1>2, <1>3 DEF Ints
<1>5. ASSUME NEW k \in 1..n, f[k - 1] = g[k - 1]
      PROVE  f[k] = g[k]
  <2>1. k \in 1..Len(r) /\ r[k] = s[k]
    BY <1>1
  <2>2. f[k] = 10 * f[k - 1] + DigitOf(s[k]) /\ g[k] = 10 * g[k - 1] + DigitOf(r[k])
    BY <1>2, <1>3, <2>1 DEF Ints
  <2> QED
    BY <2>1, <2>2, <1>5
<1>6. f[n] = g[n]
  <2>1. \A k \in 0..n : f[k] = g[k]
    BY <1>1, <1>4, <1>5, RowsAgree
  <2>2. n \in 0..n
    BY <1>1
  <2> QED
    BY <2>1, <2>2
<1>7. g[n + 1] = 10 * g[(n + 1) - 1] + DigitOf(r[n + 1])
  <2>1. n + 1 \in 1..Len(r)
    BY <1>1
  <2> QED
    BY <1>3, <2>1 DEF Ints
<1>8. (n + 1) - 1 = n
  BY <1>1
<1> QED
  BY <1>1, <1>2, <1>3, <1>6, <1>7, <1>8 DEF r

DigitsStep(f, m) == IF m < 10 THEN <<Digit[m]>> ELSE Append(f[m \div 10], Digit[m % 10])

LEMMA TenthOf ==
    ASSUME NEW m \in Nat, m >= 10
    PROVE  m \div 10 \in 0..m - 1 /\ m % 10 \in 0..9 /\ 10 * (m \div 10) + (m % 10) = m
<1>1. m \div 10 \in Nat /\ m % 10 \in 0..9 /\ 10 * (m \div 10) + (m % 10) = m
  OBVIOUS
<1> DEFINE q == m \div 10
           r == m % 10
<1>2. q \in Nat /\ r \in 0..9 /\ 10 * q + r = m
  BY <1>1
<1> HIDE DEF q, r
<1>3. q \in 0..m - 1
  BY <1>2
<1> QED
  BY <1>1, <1>3 DEF q

LEMMA DigitsExist ==
    ASSUME NEW n \in Nat
    PROVE  \E f : f = [m \in 0..n |-> DigitsStep(f, m)]
<1> DEFINE T == {m \in 0..n : \E f : f = [j \in 0..m |-> DigitsStep(f, j)]}
<1>1. 0 \in T
  <2> DEFINE f == [j \in 0..0 |-> <<Digit[j]>>]
  <2>1. \A j \in 0..0 : <<Digit[j]>> = DigitsStep(f, j)
    BY DEF DigitsStep
  <2>2. f = [j \in 0..0 |-> DigitsStep(f, j)]
    BY <2>1, Zenon
  <2> HIDE DEF f
  <2> QED
    BY <2>2
<1>2. ASSUME NEW m \in 0..n - 1, m \in T
      PROVE  m + 1 \in T
  <2>1. PICK f : f = [j \in 0..m |-> DigitsStep(f, j)]
    BY <1>2
  <2> DEFINE h == [j \in 0..m + 1 |-> IF j = m + 1 THEN DigitsStep(f, j) ELSE f[j]]
  <2>2. m \in Nat /\ \A j \in 0..m : f[j] = DigitsStep(f, j)
    BY <2>1
  <2>3. ASSUME NEW j \in 0..m + 1
        PROVE  h[j] = DigitsStep(h, j)
    <3>1. h[j] = DigitsStep(f, j)
      BY <2>2
    <3>2. DigitsStep(h, j) = DigitsStep(f, j)
      <4>1. CASE j < 10
        BY <4>1 DEF DigitsStep
      <4>2. CASE ~(j < 10)
        <5>1. j \div 10 \in 0..j - 1
          BY <4>2, <2>2, TenthOf
        <5>2. \A i \in 0..j - 1 : h[i] = f[i]
          BY <2>2
        <5>3. h[j \div 10] = f[j \div 10]
          <6> HIDE DEF h
          <6> QED
            BY <5>1, <5>2, Zenon
        <5> HIDE DEF h
        <5> QED
          BY <4>2, <5>3 DEF DigitsStep
      <4> QED
        BY <4>1, <4>2
    <3> QED
      BY <3>1, <3>2
  <2>4. h = [j \in 0..m + 1 |-> h[j]]
    OBVIOUS
  <2> HIDE DEF h
  <2>5. h = [j \in 0..m + 1 |-> DigitsStep(h, j)]
    BY <2>3, <2>4
  <2>6. m + 1 \in 0..n
    BY <2>2
  <2> QED
    BY <2>5, <2>6
<1> HIDE DEF T
<1>3. \A m \in 0..n : m \in T
  BY <1>1, <1>2, AllFrom
<1>4. n \in T
  BY <1>3
<1> QED
  BY <1>4 DEF T

\* The digits of a number are read as the number.
LEMMA DigitsRead ==
    ASSUME NEW n \in Nat
    PROVE  Digits(n) \in Seq(DigitChar) /\ Len(Digits(n)) >= 1 /\ IntOf(Digits(n)) = n
<1> DEFINE f == CHOOSE f : f = [m \in 0..n |-> DigitsStep(f, m)]
           Good(m) == f[m] \in Seq(DigitChar) /\ Len(f[m]) >= 1 /\ IntOf(f[m]) = m
           B == {m \in 0..n : ~Good(m)}
<1>1. f = [m \in 0..n |-> DigitsStep(f, m)]
  BY DigitsExist
<1>2. Digits(n) = f[n]
  BY Zenon DEF Digits, DigitsStep
<1> HIDE DEF f
<1>3. \A m \in 0..n : f[m] = DigitsStep(f, m)
  BY <1>1
<1>4. ASSUME B # {}
      PROVE  FALSE
  <2>1. B \subseteq Nat
    OBVIOUS
  <2>2. PICK m \in B : \A j \in B : m <= j
    BY <1>4, <2>1, LeastExists
  <2>3. m \in 0..n /\ ~Good(m)
    BY <2>2
  <2>4. CASE m < 10
    <3>0. f[m] = DigitsStep(f, m)
      BY <2>3, <1>3
    <3>1. m \in 0..9 /\ f[m] = <<Digit[m]>>
      <4>1. DigitsStep(f, m) = <<Digit[m]>>
        BY <2>4, Zenon DEF DigitsStep
      <4>2. m \in 0..9
        BY <2>3, <2>4
      <4> QED
        BY <3>0, <4>1, <4>2
    <3>2. Digit[m] \in DigitChar /\ DigitOf(Digit[m]) = m
      BY <3>1, DigitFacts
    <3>3. <<Digit[m]>> = Append(<<>>, Digit[m]) /\ <<>> \in Seq(DigitChar)
        /\ <<Digit[m]>> \in Seq(DigitChar)
          /\ Len(<<Digit[m]>>) = 1
      BY <3>2
    <3>4. IntOf(Append(<<>>, Digit[m])) = 10 * IntOf(<<>>) + m
      BY <3>2, <3>3, IntAppend
    <3>5. IntOf(<<>>) = 0
      <4>1. PICK g : Ints(<<>>, g) /\ IntOf(<<>>) = g[Len(<<>>)]
        BY <3>3, DigitsInt
      <4>2. Len(<<>>) = 0
        OBVIOUS
      <4> QED
        BY <4>1, <4>2 DEF Ints
    <3>6. Good(m)
      BY <3>1, <3>3, <3>4, <3>5
    <3> QED
      BY <3>6, <2>3
  <2>5. CASE ~(m < 10)
    <3> DEFINE q == m \div 10
               r == m % 10
    <3>1. q \in 0..m - 1 /\ r \in 0..9 /\ 10 * q + r = m
      BY <2>3, <2>5, TenthOf
    <3>2. f[m] = Append(f[q], Digit[r])
      BY <2>3, <2>5, <1>3 DEF DigitsStep
    <3> HIDE DEF q, r
    <3>3. q \in 0..n /\ q < m
      BY <3>1, <2>3
    <3>4. q \notin B
      BY <2>2, <3>3
    <3>5. Good(q)
      BY <3>3, <3>4
    <3>6. Digit[r] \in DigitChar /\ DigitOf(Digit[r]) = r
      BY <3>1, DigitFacts
    <3>7. IntOf(Append(f[q], Digit[r])) = 10 * q + r
      BY <3>5, <3>6, IntAppend
    <3> DEFINE s == f[q]
    <3>9. s \in Seq(DigitChar)
      BY <3>5
    <3> HIDE DEF s
    <3>8. Append(s, Digit[r]) \in Seq(DigitChar) /\ Len(Append(s, Digit[r])) = Len(s) + 1
        /\ Len(s) \in Nat
      BY <3>6, <3>9
    <3>10. Good(m)
      BY <3>1, <3>2, <3>7, <3>8 DEF s
    <3> QED
      BY <3>10, <2>3
  <2> QED
    BY <2>4, <2>5
<1>5. n \in 0..n /\ n \notin B
  BY <1>4
<1>6. Good(n)
  BY <1>5
<1> QED
  BY <1>2, <1>6

LEMMA SeqRetyped ==
    ASSUME NEW R, NEW S, NEW s \in Seq(R), \A k \in 1..Len(s) : s[k] \in S
    PROVE  s \in Seq(S)
<1>1. s = [k \in 1..Len(s) |-> s[k]] /\ Len(s) \in Nat
  OBVIOUS
<1> QED
  BY <1>1

LEMMA SeqsEqual ==
    ASSUME NEW R, NEW S, NEW r \in Seq(R), NEW s \in Seq(S), Len(r) = Len(s),
           \A k \in 1..Len(s) : r[k] = s[k]
    PROVE  r = s
OBVIOUS

LEMMA MinIs ==
    ASSUME NEW S, S \subseteq Nat, NEW m \in S, \A j \in S : m <= j
    PROVE  Min(S) = m
<1>1. \A x \in S : (\A j \in S : x <= j) => x = m
  OBVIOUS
<1> QED
  BY <1>1 DEF Min

\* Digits end where something else begins.
LEMMA DigitsRun ==
    ASSUME NEW t \in Seq(Character), NEW i, NEW s \in Seq(DigitChar), At(t, i, s),
           NEW e, e = i + Len(s), e <= Len(t), t[e] \notin DigitChar
    PROVE  /\ Min({j \in i..Len(t) : t[j] \notin NumberChar \ {"-"}} \cup {Len(t) + 1}) = e
           /\ SubSeq(t, i, e - 1) = s
<1> DEFINE n == Len(s)
           L == Len(t)
           I == {j \in i..L : t[j] \notin NumberChar \ {"-"}} \cup {L + 1}
<1>1. /\ i \in Nat /\ i >= 1 /\ i + n - 1 <= L /\ L \in Nat /\ n \in Nat /\ e = i + n
      /\ \A j \in 1..n : t[i + j - 1] = s[j] /\ s[j] \in DigitChar
  BY DEF At
<1>2. i + n \in I
  BY <1>1 DEF DigitChar
<1>3. ASSUME NEW j \in I
      PROVE  i + n <= j
  <2>1. CASE j = L + 1
    BY <2>1, <1>1
  <2>2. CASE j \in i..L /\ t[j] \notin DigitChar
    <3>1. SUFFICES ASSUME j < i + n PROVE FALSE
      BY <1>1, <2>2
    <3>2. j - i + 1 \in 1..n /\ i + (j - i + 1) - 1 = j
      BY <1>1, <2>2, <3>1
    <3>3. t[i + (j - i + 1) - 1] \in DigitChar
      BY <3>2, <1>1
    <3> QED
      BY <3>2, <3>3, <2>2
  <2> QED
    BY <2>1, <2>2 DEF DigitChar
<1>4. I \subseteq Nat
  BY <1>1
<1> HIDE DEF I
<1>5. Min(I) = i + n
  BY <1>1, <1>2, <1>3, <1>4, MinIs
<1>6. SubSeq(t, i, i + n - 1) = s
  <2> DEFINE r == SubSeq(t, i, i + n - 1)
  <2>0. CASE n = 0
    <3>1. s = <<>>
      BY <2>0
    <3>2. i + n - 1 = i - 1
      BY <2>0, <1>1
    <3>3. Len(r) = 0 /\ r \in Seq(Character)
      BY <3>2, <1>1
    <3> QED
      BY <3>1, <3>3
  <2>1. CASE n # 0
    <3>1. Len(r) = n /\ r \in Seq(Character)
      BY <1>1, <2>1
    <3>2. \A k \in 1..n : r[k] = t[i + k - 1]
      BY <1>1, <2>1
    <3>3. \A k \in 1..n : r[k] = s[k]
      BY <1>1, <3>2
    <3>4. s \in Seq(Character)
      <4>1. \A k \in 1..n : s[k] \in Character
        BY <1>1, DigitRange
      <4> QED
        BY <4>1, SeqRetyped
    <3> HIDE DEF r
    <3>5. r = s
      BY <3>1, <3>3, <3>4, SeqsEqual
    <3> QED
      BY <3>5 DEF r
  <2> QED
    BY <2>0, <2>1
<1> QED
  BY <1>1, <1>5, <1>6 DEF I

NumberText(n) == IF n < 0 THEN <<"-">> \o Digits(-n) ELSE Digits(n)

\* The number printed at a place is the number read there.
LEMMA NumberRead ==
    ASSUME NEW t \in Seq(Character), NEW at, NEW n \in Int, At(t, at, NumberText(n)),
           at + Len(NumberText(n)) <= Len(t), t[at + Len(NumberText(n))] \notin NumberChar
    PROVE  /\ t[at] \in NumberChar
           /\ parse_number(t, at) = Read(at + Len(NumberText(n)), Number(n))
<1> DEFINE e == at + Len(NumberText(n))
<1>1. CASE n < 0
  <2> DEFINE s == Digits(-n)
             y == <<"-">>
  <2>0. -n \in Nat
    BY <1>1
  <2>1. s \in Seq(DigitChar) /\ Len(s) >= 1 /\ IntOf(s) = -n /\ -n \in Nat
    BY <2>0, DigitsRead
  <2> HIDE DEF s
  <2>2. \A k \in 1..Len(s) : s[k] \in Character
    BY <2>1, DigitRange
  <2>3. s \in Seq(Character) /\ y \in Seq(Character) /\ Len(y) = 1
    <3>1. s \in Seq(Character)
      BY <2>1, <2>2, SeqRetyped
    <3>2. "-" \in Character
      BY DEF Character, NumberChar
    <3> QED
      BY <3>1, <3>2
  <2>4. NumberText(n) = y \o s
    BY <1>1 DEF NumberText, s
  <2>5. t[at] = "-" /\ at \in Nat /\ at <= Len(t)
    <3>1. At(t, at, y)
      BY <2>3, <2>4, AtConcat DEF y
    <3> QED
      BY <3>1, AtOne
  <2> HIDE DEF y
  <2>6. At(t, at + 1, s)
    BY <2>3, <2>4, AtConcat
  <2>7. Len(y \o s) = 1 + Len(s) /\ Len(s) \in Nat
    BY <2>3, ConcatSeq
  <2>8. e = at + 1 + Len(s)
    <3> DEFINE ls == Len(s)
    <3>1. e = at + (1 + ls) /\ ls \in Nat
      BY <2>4, <2>7
    <3> HIDE DEF ls, e
    <3>2. e = at + 1 + ls
      BY <3>1, <2>5
    <3> QED
      BY <3>2 DEF ls
  <2>9. t[e] \notin DigitChar /\ e <= Len(t)
    BY DEF DigitChar
  <2>11. Min({j \in at + 1..Len(t) : t[j] \notin NumberChar \ {"-"}} \cup {Len(t) + 1}) = e
         /\ SubSeq(t, at + 1, e - 1) = s
    <3> HIDE DEF e
    <3> QED
      BY <2>1, <2>6, <2>8, <2>9, DigitsRun
  <2>12. e # at + 1 /\ -(-n) = n
    <3> DEFINE ls == Len(s)
    <3>1. e = at + 1 + ls /\ ls \in Nat /\ ls >= 1
      BY <2>1, <2>7, <2>8
    <3> HIDE DEF e, ls
    <3> QED
      BY <3>1, <2>5
  <2> HIDE DEF e
  <2>13. parse_number(t, at) = Read(e, Number(-(-n)))
    BY <2>1, <2>5, <2>11, <2>12, Zenon DEF parse_number
  <2>14. t[at] \in NumberChar
    BY <2>5 DEF NumberChar
  <2> QED
    BY <2>12, <2>13, <2>14 DEF e
<1>2. CASE ~(n < 0)
  <2> DEFINE s == Digits(n)
  <2>1. s \in Seq(DigitChar) /\ Len(s) >= 1 /\ IntOf(s) = n
    BY <1>2, DigitsRead
  <2> HIDE DEF s
  <2>4. NumberText(n) = s
    BY <1>2 DEF NumberText, s
  <2>2. /\ at \in Nat /\ at >= 1 /\ Len(s) \in Nat /\ t[at] \in DigitChar
        /\ e = at + Len(s)
    <3>1. 1 \in 1..Len(s) /\ s[1] \in DigitChar
      BY <2>1
    <3>2. At(t, at, s)
      BY <2>4
    <3>3. at \in Nat /\ at >= 1 /\ t[at + 1 - 1] = s[1]
      BY <3>1, <3>2 DEF At
    <3>4. at + 1 - 1 = at
      BY <3>3
    <3> QED
      BY <2>1, <2>4, <3>1, <3>3, <3>4
  <2>3. t[at] # "-" /\ t[at] \in NumberChar
    BY <2>2 DEF DigitChar
  <2>5. e <= Len(t) /\ t[e] \notin DigitChar
    BY DEF DigitChar
  <2>7. Min({j \in at..Len(t) : t[j] \notin NumberChar \ {"-"}} \cup {Len(t) + 1}) = e
        /\ SubSeq(t, at, e - 1) = s
    <3>1. At(t, at, s)
      BY <2>4
    <3> HIDE DEF e
    <3> QED
      BY <2>1, <2>2, <2>5, <3>1, DigitsRun
  <2>8. e # at
    <3> DEFINE ls == Len(s)
    <3>1. e = at + ls /\ ls \in Nat /\ ls >= 1
      BY <2>1, <2>2
    <3> HIDE DEF e, ls
    <3> QED
      BY <3>1, <2>2
  <2> HIDE DEF e
  <2>9. parse_number(t, at) = Read(e, Number(n))
    BY <2>1, <2>3, <2>7, <2>8, Zenon DEF parse_number
  <2> QED
    BY <2>3, <2>9 DEF e
<1> QED
  BY <1>1, <1>2

-----------------------------------------------------------------------------
(* What is read, and where it ends.                                        *)

\* What can be read of a text: a value of V, and a place after at.
Results(t, at, V) == {Failed} \cup {Read(i, v) : i \in at + 1..Len(t) + 1, v \in V}

LEMMA NumberResult ==
    ASSUME NEW t \in Seq(Character), NEW at \in 1..Len(t), t[at] \in NumberChar
    PROVE  parse_number(t, at) \in Results(t, at, Scalar)
<1> DEFINE L == Len(t)
           digits == IF t[at] = "-" THEN at + 1 ELSE at
           I == {i \in digits..L : t[i] \notin NumberChar \ {"-"}} \cup {L + 1}
           after == Min(I)
           s == SubSeq(t, digits, after - 1)
           n == IntOf(s)
<1>0. L \in Nat /\ digits \in Nat /\ digits >= 1 /\ digits <= L + 1 /\ at \in Nat /\ digits >= at
  OBVIOUS
<1>1. I \subseteq Nat /\ I # {}
  BY <1>0
<1>2. PICK m \in I : \A j \in I : m <= j
  BY <1>1, LeastExists
<1> HIDE DEF I
<1>3. after = m
  BY <1>1, <1>2, MinIs
<1>4. m \in digits..L + 1
  BY <1>2, <1>0 DEF I
<1>5. parse_number(t, at) = IF after = digits THEN Failed ELSE Read(after, Number(IF t[at] = "-" THEN -n ELSE n))
  BY Zenon DEF parse_number, I
<1>6. ASSUME after # digits
      PROVE  after \in at + 1..L + 1 /\ n \in Int
  <2>1. after \in digits + 1..L + 1
    BY <1>3, <1>4, <1>6, <1>0
  <2> HIDE DEF digits, after
  <2>2. \A k \in digits..after - 1 : t[k] \in DigitChar
    <3> SUFFICES ASSUME NEW k \in digits..after - 1
                 PROVE  t[k] \in DigitChar
      OBVIOUS
    <3>1. k \in digits..L /\ k < m
      BY <2>1, <1>0, <1>3
    <3>2. k \notin I
      BY <3>1, <1>2, <1>4, <1>0
    <3> QED
      BY <3>1, <3>2 DEF I, DigitChar
  <2>3. s = [k \in 1..after - digits |-> t[digits + k - 1]]
    <3>1. Len(s) = after - digits /\ \A k \in 1..after - digits : s[k] = t[digits + k - 1]
      BY <2>1, <1>0
    <3> QED
      BY <2>1, <1>0
  <2>4. s \in Seq(DigitChar)
    <3>1. \A k \in 1..after - digits : t[digits + k - 1] \in DigitChar
      <4> SUFFICES ASSUME NEW k \in 1..after - digits
                   PROVE  t[digits + k - 1] \in DigitChar
        OBVIOUS
      <4>1. digits + k - 1 \in digits..after - 1
        BY <2>1, <1>0
      <4> QED
        BY <4>1, <2>2
    <3>2. after - digits \in Nat
      BY <2>1, <1>0
    <3> HIDE DEF s
    <3> QED
      BY <2>3, <3>1, <3>2
  <2> HIDE DEF s
  <2>5. n \in Int
    BY <2>4, IntOfInt
  <2>6. after \in at + 1..L + 1
    BY <2>1, <1>0
  <2> QED
    BY <2>5, <2>6
<1> HIDE DEF after, digits, n
<1>7. CASE after = digits
  BY <1>5, <1>7 DEF Results
<1>8. CASE after # digits
  <2> DEFINE v == Number(IF t[at] = "-" THEN -n ELSE n)
  <2>1. v \in Scalar
    BY <1>6, <1>8 DEF Scalar, Number
  <2>2. parse_number(t, at) = Read(after, v)
    BY <1>5, <1>8
  <2> HIDE DEF v
  <2> QED
    BY <2>1, <2>2, <1>6, <1>8 DEF Results
<1> QED
  BY <1>7, <1>8

LEMMA StringResult ==
    ASSUME NEW t \in Seq(Character), NEW at \in 1..Len(t)
    PROVE  \/ parse_string(t, at) = Failed
           \/ \E i \in at + 1..Len(t) + 1, s \in CText : parse_string(t, at) = Read(i, String(s))
<1> DEFINE L == Len(t)
           end == Scan(t, at).end
           r == Unescape(t, at, end)
<1>0. L \in Nat /\ at \in Nat
  OBVIOUS
<1>1. PICK sc : Scans(t, at, sc) /\ Scan(t, at) = sc[L]
  BY <1>0, ScanIs
<1>2. end \in Nat
  <2>1. L \in 0..L
    BY <1>0
  <2>2. sc[L] \in [end : Nat, skipped : Nat]
    BY <1>1, <2>1 DEF Scans
  <2> QED
    BY <1>1, <2>2
<1>3. CASE end <= L
  <2>1. end >= at + 1
    <3>1. PICK W : Sums(t, W)
      BY BytesIs
    <3>2. L \in 0..L /\ sc[L].end <= L + 1
      BY <1>0, <1>1, <1>2, <1>3
    <3>3. sc[L].end >= at + 1
      BY <1>0, <1>1, <3>1, <3>2, ScanForward
    <3> QED
      BY <3>3, <1>1
  <2>2. r.out \in Seq(Character)
    <3> HIDE DEF end
    <3>1. end <= L + 1
      BY <1>0, <1>2, <1>3
    <3>2. PICK un : Unescapes(t, at, end, un) /\ Unescape(t, at, end) = un[L]
      BY <1>0, <1>2, <3>1, UnescapeIs
    <3>3. un[L] \in Reading
      BY <3>2, <1>0 DEF Unescapes
    <3> QED
      BY <3>2, <3>3 DEF Reading
  <2>3. CString(r.out) \in CText
    <3> HIDE DEF r
    <3> QED
      BY <2>2, CStringText
  <2>4. end + 1 \in at + 1..L + 1
    BY <2>1, <1>2, <1>3, <1>0
  <2>5. parse_string(t, at) = Failed \/ parse_string(t, at) = Read(end + 1, String(CString(r.out)))
    BY Zenon DEF parse_string
  <2> HIDE DEF end, r
  <2> QED
    BY <2>3, <2>4, <2>5
<1>4. CASE ~(end <= L)
  <2>1. ~CanRead(t, end)
    BY <1>4 DEF CanRead
  <2>2. parse_string(t, at) = Failed
    BY <2>1, Zenon DEF parse_string
  <2> QED
    BY <2>2
<1> QED
  BY <1>3, <1>4

LEMMA SkipRange ==
    ASSUME NEW t, Len(t) \in Nat, NEW at \in Nat, at >= 1
    PROVE  LET i == buffer_skip_whitespace(t, at)
           IN  IF at <= Len(t) THEN i \in at..Len(t) ELSE i = at
<1> DEFINE rest == {i \in at..Len(t) : t[i] \notin Space}
<1>1. CASE ~(at <= Len(t))
  BY <1>1 DEF buffer_skip_whitespace, CanRead
<1>2. CASE at <= Len(t) /\ rest = {}
  BY <1>2 DEF buffer_skip_whitespace, CanRead
<1>3. CASE at <= Len(t) /\ rest # {}
  <2>1. rest \subseteq Nat
    OBVIOUS
  <2>2. PICK m \in rest : \A j \in rest : m <= j
    BY <1>3, <2>1, LeastExists
  <2>3. m \in at..Len(t)
    BY <2>2
  <2>4. buffer_skip_whitespace(t, at) = Min(rest)
    BY <1>3 DEF buffer_skip_whitespace, CanRead
  <2> HIDE DEF rest
  <2>5. Min(rest) = m
    BY <2>1, <2>2, MinIs
  <2> QED
    BY <2>3, <2>4, <2>5, <1>3
<1> QED
  BY <1>1, <1>2, <1>3

\* Whitespace is skipped up to the first other character.
LEMMA SkipTo ==
    ASSUME NEW t, Len(t) \in Nat, NEW a \in Nat, NEW b \in Nat, a >= 1, a <= b, b <= Len(t),
           \A i \in a..b - 1 : t[i] \in Space, t[b] \notin Space
    PROVE  buffer_skip_whitespace(t, a) = b
<1> DEFINE rest == {i \in a..Len(t) : t[i] \notin Space}
<1>1. b \in rest /\ rest \subseteq Nat
  OBVIOUS
<1>2. ASSUME NEW j \in rest
      PROVE  b <= j
  <2>1. j \in a..Len(t) /\ j \notin a..b - 1
    BY <1>2
  <2> QED
    BY <2>1
<1>3. buffer_skip_whitespace(t, a) = Min(rest)
  BY <1>1 DEF buffer_skip_whitespace, CanRead
<1> HIDE DEF rest
<1>4. Min(rest) = b
  BY <1>1, <1>2, MinIs
<1> QED
  BY <1>3, <1>4

-----------------------------------------------------------------------------
(* Values and how deep they nest.                                          *)

ItemOf(object, V) == [name : IF object THEN CText ELSE {NoName}, v : V]

LEMMA ScalarCases ==
    ASSUME NEW v
    PROVE  v \in Scalar <=> \/ \E w \in Word : v = Plain(w)
                            \/ \E n \in Int : v = Number(n)
                            \/ \E s \in CText : v = String(s)
BY DEF Scalar, Plain, Number, String

LEMMA HoldingCases ==
    ASSUME NEW V, NEW v
    PROVE  v \in Holding(V) <=> \/ v \in Scalar
                                \/ \E object \in BOOLEAN : \E of \in Seq(ItemOf(object, V)) :
                                      v = Container(object, of)
<1>0. ItemOf(FALSE, V) = [name : {NoName}, v : V] /\ ItemOf(TRUE, V) = [name : CText, v : V]
  BY DEF ItemOf
<1>4. ASSUME NEW S, NEW y
      PROVE  v \in [type : {y}, of : S] <=> \E of \in S : v = [type |-> y, of |-> of]
  <2>1. ASSUME v \in [type : {y}, of : S]
        PROVE  \E of \in S : v = [type |-> y, of |-> of]
    <3>1. v = [type |-> y, of |-> v.of] /\ v.of \in S
      BY <2>1
    <3> QED
      BY <3>1
  <2> QED
    BY <2>1
<1>1. v \in [type : {"array"}, of : Seq([name : {NoName}, v : V])]
      <=> \E of \in Seq(ItemOf(FALSE, V)) : v = Array(of)
  BY <1>0, <1>4 DEF Array
<1>2. v \in [type : {"object"}, of : Seq([name : CText, v : V])]
      <=> \E of \in Seq(ItemOf(TRUE, V)) : v = Object(of)
  BY <1>0, <1>4 DEF Object
<1>3. (\E object \in BOOLEAN : \E of \in Seq(ItemOf(object, V)) : v = Container(object, of))
      <=> \/ \E of \in Seq(ItemOf(FALSE, V)) : v = Array(of)
          \/ \E of \in Seq(ItemOf(TRUE, V)) : v = Object(of)
  BY DEF Container
<1> QED
  BY <1>1, <1>2, <1>3 DEF Holding

LEMMA HoldingMono ==
    ASSUME NEW V, NEW W, V \subseteq W
    PROVE  Holding(V) \subseteq Holding(W)
<1> SUFFICES ASSUME NEW v \in Holding(V)
             PROVE  v \in Holding(W)
  OBVIOUS
<1>1. CASE v \in Scalar
  BY <1>1, HoldingCases
<1>2. ASSUME NEW object \in BOOLEAN, NEW of \in Seq(ItemOf(object, V)), v = Container(object, of)
      PROVE  v \in Holding(W)
  <2>1. \A k \in 1..Len(of) : of[k] \in ItemOf(object, W)
    <3>1. \A k \in 1..Len(of) : of[k] \in ItemOf(object, V)
      OBVIOUS
    <3>2. ItemOf(object, V) \subseteq ItemOf(object, W)
      BY DEF ItemOf
    <3> QED
      BY <3>1, <3>2
  <2>2. of \in Seq(ItemOf(object, W))
    BY <2>1, SeqRetyped
  <2> QED
    BY <2>2, <1>2, HoldingCases
<1> QED
  BY <1>1, <1>2, HoldingCases

NestedStep(f, k) == IF k = 0 THEN Scalar ELSE Holding(f[k - 1])

LEMMA NestedExist ==
    ASSUME NEW n \in Nat
    PROVE  \E f : f = [k \in 0..n |-> NestedStep(f, k)]
<1> DEFINE T == {m \in 0..n : \E f : f = [k \in 0..m |-> NestedStep(f, k)]}
<1>1. 0 \in T
  <2> DEFINE f == [k \in 0..0 |-> Scalar]
  <2>1. \A k \in 0..0 : Scalar = NestedStep(f, k)
    BY DEF NestedStep
  <2>2. f = [k \in 0..0 |-> NestedStep(f, k)]
    BY <2>1, Zenon
  <2> HIDE DEF f
  <2> QED
    BY <2>2
<1>2. ASSUME NEW m \in 0..n - 1, m \in T
      PROVE  m + 1 \in T
  <2>1. PICK f : f = [k \in 0..m |-> NestedStep(f, k)]
    BY <1>2
  <2> DEFINE h == [k \in 0..m + 1 |-> IF k = m + 1 THEN NestedStep(f, k) ELSE f[k]]
  <2>2. m \in Nat /\ \A k \in 0..m : f[k] = NestedStep(f, k)
    BY <2>1
  <2>3. ASSUME NEW k \in 0..m + 1
        PROVE  h[k] = NestedStep(h, k)
    <3>1. h[k] = NestedStep(f, k)
      BY <2>2
    <3>2. NestedStep(h, k) = NestedStep(f, k)
      <4>1. CASE k = 0
        BY <4>1 DEF NestedStep
      <4>2. CASE k # 0
        <5>1. k - 1 \in 0..m + 1 /\ k - 1 # m + 1
          BY <4>2, <2>2
        <5>2. h[k - 1] = f[k - 1]
          BY <5>1
        <5> HIDE DEF h
        <5> QED
          BY <4>2, <5>2 DEF NestedStep
      <4> QED
        BY <4>1, <4>2
    <3> QED
      BY <3>1, <3>2
  <2>4. h = [k \in 0..m + 1 |-> h[k]]
    OBVIOUS
  <2> HIDE DEF h
  <2>5. h = [k \in 0..m + 1 |-> NestedStep(h, k)]
    BY <2>3, <2>4
  <2>6. m + 1 \in 0..n
    BY <2>2
  <2> QED
    BY <2>5, <2>6
<1> HIDE DEF T
<1>3. \A m \in 0..n : m \in T
  BY <1>1, <1>2, AllFrom
<1>4. n \in T
  BY <1>3
<1> QED
  BY <1>4 DEF T

LEMMA NestedRow ==
    ASSUME NEW n \in Nat
    PROVE  \E f : (\A k \in 0..n : f[k] = NestedStep(f, k)) /\ Nested(n) = f[n]
<1> DEFINE f == CHOOSE f : f = [k \in 0..n |-> NestedStep(f, k)]
<1>1. f = [k \in 0..n |-> NestedStep(f, k)]
  BY NestedExist
<1>2. Nested(n) = f[n]
  BY Zenon DEF Nested, NestedStep
<1> HIDE DEF f
<1>3. \A k \in 0..n : f[k] = NestedStep(f, k)
  BY <1>1
<1> QED
  BY <1>2, <1>3

\* One level more holds the values of the level below.
LEMMA NestedIs ==
    /\ Nested(0) = Scalar
    /\ \A n \in Nat : Nested(n + 1) = Holding(Nested(n))
<1>1. Nested(0) = Scalar
  <2>1. PICK f : (\A k \in 0..0 : f[k] = NestedStep(f, k)) /\ Nested(0) = f[0]
    BY NestedRow
  <2>2. f[0] = NestedStep(f, 0)
    BY <2>1
  <2> QED
    BY <2>1, <2>2 DEF NestedStep
<1>2. ASSUME NEW n \in Nat
      PROVE  Nested(n + 1) = Holding(Nested(n))
  <2>1. PICK f : (\A k \in 0..n : f[k] = NestedStep(f, k)) /\ Nested(n) = f[n]
    BY NestedRow
  <2>2. PICK g : (\A k \in 0..n + 1 : g[k] = NestedStep(g, k)) /\ Nested(n + 1) = g[n + 1]
    BY NestedRow
  <2>3. f[0] = g[0]
    BY <2>1, <2>2 DEF NestedStep
  <2>4. ASSUME NEW k \in 1..n, f[k - 1] = g[k - 1]
        PROVE  f[k] = g[k]
    <3>1. f[k] = NestedStep(f, k) /\ g[k] = NestedStep(g, k) /\ k # 0
      BY <2>1, <2>2
    <3> QED
      BY <3>1, <2>4 DEF NestedStep
  <2>5. \A k \in 0..n : f[k] = g[k]
    BY <2>3, <2>4, RowsAgree
  <2>6. f[n] = g[n] /\ g[n + 1] = NestedStep(g, n + 1) /\ n + 1 # 0 /\ (n + 1) - 1 = n
    BY <2>2, <2>5
  <2>7. NestedStep(g, n + 1) = Holding(g[(n + 1) - 1])
    BY <2>6, Zenon DEF NestedStep
  <2> QED
    BY <2>1, <2>2, <2>6, <2>7
<1> QED
  BY <1>1, <1>2

LEMMA NestedGrows ==
    ASSUME NEW n \in Nat
    PROVE  Nested(n) \subseteq Nested(n + 1)
<1> DEFINE T == {k \in 0..n : Nested(k) \subseteq Nested(k + 1)}
<1>1. 0 \in T
  <2>1. 0 \in Nat /\ 0 + 1 = 1
    OBVIOUS
  <2>2. Nested(0) = Scalar /\ Nested(0 + 1) = Holding(Nested(0))
    BY <2>1, NestedIs
  <2>3. Scalar \subseteq Holding(Nested(0))
    BY HoldingCases
  <2> QED
    BY <2>2, <2>3
<1>2. ASSUME NEW k \in 0..n - 1, k \in T
      PROVE  k + 1 \in T
  <2>1. k \in Nat /\ k + 1 \in Nat /\ k + 1 \in 0..n
    OBVIOUS
  <2>2. Nested(k + 1) = Holding(Nested(k)) /\ Nested((k + 1) + 1) = Holding(Nested(k + 1))
    BY <2>1, NestedIs
  <2>3. Nested(k) \subseteq Nested(k + 1)
    BY <1>2
  <2>4. Holding(Nested(k)) \subseteq Holding(Nested(k + 1))
    BY <2>3, HoldingMono
  <2> QED
    BY <2>1, <2>2, <2>4
<1> HIDE DEF T
<1>3. \A k \in 0..n : k \in T
  BY <1>1, <1>2, AllFrom
<1>4. n \in T
  BY <1>3
<1> QED
  BY <1>4 DEF T

LEMMA NestedUp ==
    ASSUME NEW m \in Nat, NEW n \in Nat, m <= n
    PROVE  Nested(m) \subseteq Nested(n)
<1> DEFINE T == {k \in m..n : Nested(m) \subseteq Nested(k)}
<1>1. m \in T
  OBVIOUS
<1>2. ASSUME NEW k \in m..n - 1, k \in T
      PROVE  k + 1 \in T
  <2>1. k \in Nat /\ k + 1 \in m..n
    OBVIOUS
  <2>2. Nested(m) \subseteq Nested(k) /\ Nested(k) \subseteq Nested(k + 1)
    BY <1>2, <2>1, NestedGrows
  <2>3. Nested(m) \subseteq Nested(k + 1)
    BY <2>2
  <2> QED
    BY <2>1, <2>3
<1> HIDE DEF T
<1>3. m..n \subseteq T
  BY <1>1, <1>2, AllIndexes
<1>4. n \in T
  BY <1>3
<1> QED
  BY <1>4 DEF T

\* A container holds items one level less deep.
LEMMA NestedCases ==
    ASSUME NEW n \in Nat, NEW v \in Nested(n), v \notin Scalar
    PROVE  /\ n >= 1
           /\ \E object \in BOOLEAN : \E of \in Seq(ItemOf(object, Nested(n - 1))) : v = Container(object, of)
<1>1. n >= 1
  BY NestedIs
<1>2. n - 1 \in Nat /\ (n - 1) + 1 = n
  BY <1>1
<1>3. Nested(n) = Holding(Nested(n - 1))
  BY <1>2, NestedIs
<1> QED
  BY <1>1, <1>3, HoldingCases

LEMMA NestedBuilt ==
    ASSUME NEW n \in Nat, n >= 1, NEW object \in BOOLEAN, NEW of \in Seq(ItemOf(object, Nested(n - 1)))
    PROVE  Container(object, of) \in Nested(n)
<1>2. n - 1 \in Nat /\ (n - 1) + 1 = n
  OBVIOUS
<1>3. Nested(n) = Holding(Nested(n - 1))
  BY <1>2, NestedIs
<1> QED
  BY <1>3, HoldingCases

-----------------------------------------------------------------------------
(* Lists of items: what parse_array and parse_object read.                 *)

\* What is read one level deeper is of V.
Deeper(t, V, deeper) == \A i \in 1..Len(t) + 1 : deeper[i] \in Results(t, i, V)

LEMMA ResultCases ==
    ASSUME NEW t, NEW at, NEW V, NEW r \in Results(t, at, V)
    PROVE  \/ r = Failed /\ ~r.ok
           \/ r.ok /\ r.at \in at + 1..Len(t) + 1 /\ r.v \in V /\ r = Read(r.at, r.v)
<1>1. CASE r = Failed
  BY <1>1 DEF Failed
<1>2. ASSUME NEW i \in at + 1..Len(t) + 1, NEW v \in V, r = Read(i, v)
      PROVE  r.ok /\ r.at \in at + 1..Len(t) + 1 /\ r.v \in V /\ r = Read(r.at, r.v)
  <2>1. r.ok = TRUE /\ r.at = i /\ r.v = v
    BY <1>2 DEF Read
  <2> QED
    BY <2>1, <1>2
<1> QED
  BY <1>1, <1>2 DEF Results

LEMMA ResultRead ==
    ASSUME NEW t, NEW at, NEW V, NEW i \in at + 1..Len(t) + 1, NEW v \in V
    PROVE  Read(i, v) \in Results(t, at, V)
BY DEF Results

LEMMA ResultFailed ==
    ASSUME NEW t, NEW at, NEW V
    PROVE  Failed \in Results(t, at, V)
BY DEF Results

LEMMA NamedResult ==
    ASSUME NEW t, Len(t) \in Nat, NEW V, NEW at \in Nat, NEW i \in Nat, i >= at,
           NEW r \in Results(t, i, V), NEW object \in BOOLEAN,
           NEW name, name \in IF object THEN CText ELSE {NoName}
    PROVE  Named(r, name) \in Results(t, at, ItemOf(object, V))
<1>1. CASE r = Failed
  <2>1. Named(r, name) = Failed
    BY <1>1 DEF Named, Failed
  <2> QED
    BY <2>1, ResultFailed
<1>2. CASE r.ok /\ r.at \in i + 1..Len(t) + 1 /\ r.v \in V
  <2>1. Item(name, r.v) \in ItemOf(object, V)
    BY <1>2 DEF Item, ItemOf
  <2>2. Named(r, name) = Read(r.at, Item(name, r.v))
    BY <1>2 DEF Named
  <2>3. r.at \in at + 1..Len(t) + 1
    BY <1>2
  <2> QED
    BY <2>1, <2>2, <2>3, ResultRead
<1> QED
  BY <1>1, <1>2, ResultCases

LEMMA ItemResult ==
    ASSUME NEW t \in Seq(Character), NEW V, NEW deeper, Deeper(t, V, deeper),
           NEW at \in 1..Len(t), NEW object \in BOOLEAN
    PROVE  parse_item(t, at, deeper, object) \in Results(t, at, ItemOf(object, V))
<1> DEFINE L == Len(t)
<1>0. L \in Nat /\ at \in Nat /\ at >= 1 /\ at <= L /\ at + 1 \in Nat /\ at + 1 >= 1
  OBVIOUS
<1>1. ASSUME NEW i \in Nat, i >= at + 1, i <= L + 1
      PROVE  /\ buffer_skip_whitespace(t, i) \in i..L + 1
             /\ i <= L => buffer_skip_whitespace(t, i) \in i..L
  <2>1. i >= 1
    BY <1>1, <1>0
  <2>2. IF i <= Len(t) THEN buffer_skip_whitespace(t, i) \in i..Len(t) ELSE buffer_skip_whitespace(t, i) = i
    BY <1>0, <2>1, SkipRange
  <2> QED
    BY <2>2, <1>0, <1>1
<1>2. CASE ~object
  <2> DEFINE i == buffer_skip_whitespace(t, at + 1)
  <2>1. i \in at + 1..L + 1
    BY <1>0, <1>1
  <2> HIDE DEF i
  <2>2. deeper[i] \in Results(t, i, V) /\ i \in Nat /\ i >= at
    BY <2>1, <1>0 DEF Deeper
  <2>3. parse_item(t, at, deeper, object) = Named(deeper[i], NoName)
    BY <1>2, Zenon DEF parse_item, i
  <2>4. NoName \in IF object THEN CText ELSE {NoName}
    BY <1>2
  <2> QED
    BY <1>0, <2>2, <2>3, <2>4, NamedResult
<1>3. CASE object /\ ~CanRead(t, at + 1)
  <2>1. parse_item(t, at, deeper, object) = Failed
    BY <1>3 DEF parse_item
  <2> QED
    BY <2>1, ResultFailed
<1>4. CASE object /\ CanRead(t, at + 1)
  <2> DEFINE i == buffer_skip_whitespace(t, at + 1)
             name == parse_string(t, i)
  <2>1. i \in at + 1..L
    BY <1>0, <1>1, <1>4 DEF CanRead
  <2> HIDE DEF i
  <2>2. i \in 1..Len(t)
    BY <2>1, <1>0
  <2>3. parse_item(t, at, deeper, object) = AfterName(t, name, deeper)
    BY <1>4, Zenon DEF parse_item, i
  <2>4. \/ name = Failed
        \/ \E j \in i + 1..Len(t) + 1, s \in CText : name = Read(j, String(s))
    BY <2>2, StringResult
  <2> HIDE DEF name
  <2>5. CASE name = Failed
    <3>1. AfterName(t, name, deeper) = Failed
      BY <2>5 DEF AfterName, Failed
    <3> QED
      BY <3>1, <2>3, ResultFailed
  <2>6. ASSUME NEW j \in i + 1..Len(t) + 1, NEW s \in CText, name = Read(j, String(s))
        PROVE  parse_item(t, at, deeper, object) \in Results(t, at, ItemOf(object, V))
    <3> DEFINE colon == buffer_skip_whitespace(t, j)
    <3>1. name.ok /\ name.at = j /\ name.v.chars = s
      BY <2>6 DEF Read, String
    <3>2. AfterName(t, name, deeper) = AfterColon(t, colon, name, deeper)
      BY <3>1 DEF AfterName
    <3>3. colon \in at + 1..L + 1
      <4>1. j \in Nat /\ j >= at + 1 /\ j <= L + 1
        BY <2>1, <1>0
      <4>2. colon \in j..L + 1
        BY <4>1, <1>1
      <4> QED
        BY <4>1, <4>2, <1>0
    <3> HIDE DEF colon
    <3>4. CASE ~CanRead(t, colon) \/ t[colon] # ":"
      <4>1. AfterColon(t, colon, name, deeper) = Failed
        BY <3>4 DEF AfterColon
      <4> QED
        BY <4>1, <3>2, <2>3, ResultFailed
    <3>5. CASE ~(~CanRead(t, colon) \/ t[colon] # ":")
      <4> DEFINE k == buffer_skip_whitespace(t, colon + 1)
      <4>1. k \in at + 1..L + 1
        <5>1. colon + 1 \in Nat /\ colon + 1 >= at + 1 /\ colon + 1 <= L + 1
          BY <3>3, <3>5, <1>0 DEF CanRead
        <5>2. k \in colon + 1..L + 1
          BY <5>1, <1>1
        <5> QED
          BY <5>1, <5>2, <1>0
      <4>2. AfterColon(t, colon, name, deeper) = Named(deeper[k], s)
        BY <3>5, <3>1 DEF AfterColon
      <4> HIDE DEF k
      <4>3. deeper[k] \in Results(t, k, V) /\ k \in Nat /\ k >= at
        BY <4>1, <1>0 DEF Deeper
      <4>4. s \in IF object THEN CText ELSE {NoName}
        BY <1>4
      <4> QED
        BY <1>0, <4>2, <4>3, <4>4, <3>2, <2>3, NamedResult
    <3> QED
      BY <3>4, <3>5
  <2> QED
    BY <2>4, <2>5, <2>6
<1> QED
  BY <1>2, <1>3, <1>4

\* What a loop goes on from.
Listing(t, at, object, V) ==
    {l \in [at : Nat, of : Seq(ItemOf(object, V)), more : BOOLEAN, ok : BOOLEAN] :
        /\ l.at >= at /\ l.at <= Len(t) + 1
        /\ l.more => l.at <= Len(t)
        /\ l.ok /\ ~l.more => l.at >= at + 1}

LEMMA ListEnds ==
    ASSUME NEW S, NEW l \in [at : Nat, of : S, more : BOOLEAN, ok : BOOLEAN]
    PROVE  [l EXCEPT !.more = FALSE, !.ok = FALSE] = [at |-> l.at, of |-> l.of, more |-> FALSE, ok |-> FALSE]
<1> DEFINE r == [l EXCEPT !.more = FALSE, !.ok = FALSE]
<1>1. r.at = l.at
  OBVIOUS
<1>2. r.of = l.of
  OBVIOUS
<1>3. r.more = FALSE
  OBVIOUS
<1>4. r.ok = FALSE
  OBVIOUS
<1>5. r \in [at : Nat, of : S, more : BOOLEAN, ok : BOOLEAN]
  OBVIOUS
<1> HIDE DEF r
<1>6. r = [at |-> r.at, of |-> r.of, more |-> r.more, ok |-> r.ok]
  BY <1>5
<1>7. r = [at |-> l.at, of |-> l.of, more |-> FALSE, ok |-> FALSE]
  BY <1>1, <1>2, <1>3, <1>4, <1>6
<1> QED
  BY <1>7 DEF r

LEMMA ListLast ==
    ASSUME NEW S, NEW l \in [at : Nat, of : S, more : BOOLEAN, ok : BOOLEAN], NEW x \in Nat, NEW y \in S
    PROVE  [l EXCEPT !.at = x, !.of = y, !.more = FALSE] = [at |-> x, of |-> y, more |-> FALSE, ok |-> l.ok]
<1> DEFINE r == [l EXCEPT !.at = x, !.of = y, !.more = FALSE]
<1>1. r.at = x
  OBVIOUS
<1>2. r.of = y
  OBVIOUS
<1>3. r.more = FALSE
  OBVIOUS
<1>4. r.ok = l.ok
  OBVIOUS
<1>5. r \in [at : Nat, of : S, more : BOOLEAN, ok : BOOLEAN]
  OBVIOUS
<1> HIDE DEF r
<1>6. r = [at |-> r.at, of |-> r.of, more |-> r.more, ok |-> r.ok]
  BY <1>5
<1>7. r = [at |-> x, of |-> y, more |-> FALSE, ok |-> l.ok]
  BY <1>1, <1>2, <1>3, <1>4, <1>6
<1> QED
  BY <1>7 DEF r

LEMMA ListNext ==
    ASSUME NEW S, NEW l \in [at : Nat, of : S, more : BOOLEAN, ok : BOOLEAN], NEW x \in Nat, NEW y \in S
    PROVE  [l EXCEPT !.at = x, !.of = y] = [at |-> x, of |-> y, more |-> l.more, ok |-> l.ok]
<1> DEFINE r == [l EXCEPT !.at = x, !.of = y]
<1>1. r.at = x
  OBVIOUS
<1>2. r.of = y
  OBVIOUS
<1>3. r.more = l.more
  OBVIOUS
<1>4. r.ok = l.ok
  OBVIOUS
<1>5. r \in [at : Nat, of : S, more : BOOLEAN, ok : BOOLEAN]
  OBVIOUS
<1> HIDE DEF r
<1>6. r = [at |-> r.at, of |-> r.of, more |-> r.more, ok |-> r.ok]
  BY <1>5
<1>7. r = [at |-> x, of |-> y, more |-> l.more, ok |-> l.ok]
  BY <1>1, <1>2, <1>3, <1>4, <1>6
<1> QED
  BY <1>7 DEF r

LEMMA LongerListing ==
    ASSUME NEW t \in Seq(Character), NEW V, NEW deeper, Deeper(t, V, deeper),
           NEW at \in 1..Len(t), NEW object \in BOOLEAN, NEW l \in Listing(t, at, object, V)
    PROVE  Longer(t, deeper, object, l) \in Listing(t, at, object, V)
<1> DEFINE L == Len(t)
           S == ItemOf(object, V)
<1>0. /\ L \in Nat /\ at \in Nat /\ at >= 1 /\ at <= L
      /\ l.at \in Nat /\ l.at >= at /\ l.at <= L + 1 /\ l.of \in Seq(S) /\ l.more \in BOOLEAN
          /\ l.ok \in BOOLEAN
      /\ l \in [at : Nat, of : Seq(S), more : BOOLEAN, ok : BOOLEAN]
      /\ l.more => l.at <= L
  BY DEF Listing
<1>1. CASE ~l.more
  BY <1>1 DEF Longer
<1>2. NoMore(l) \in Listing(t, at, object, V)
  <2>1. NoMore(l) = [at |-> l.at, of |-> l.of, more |-> FALSE, ok |-> FALSE]
    BY <1>0, ListEnds DEF NoMore
  <2> HIDE DEF S
  <2> QED
    BY <2>1, <1>0 DEF Listing, S
<1>3. CASE l.more
  <2> DEFINE r == parse_item(t, l.at, deeper, object)
  <2>1. l.at \in 1..Len(t)
    BY <1>0, <1>3
  <2>2. r \in Results(t, l.at, S)
    BY <2>1, ItemResult
  <2>3. Longer(t, deeper, object, l) = FromItem(t, r, l, object)
    BY <1>3 DEF Longer
  <2> HIDE DEF r, S
  <2>4. CASE r = Failed
    <3>1. FromItem(t, r, l, object) = NoMore(l)
      BY <2>4 DEF FromItem, Failed
    <3> QED
      BY <3>1, <2>3, <1>2
  <2>5. CASE r.ok /\ r.at \in l.at + 1..L + 1 /\ r.v \in S
    <3> DEFINE next == buffer_skip_whitespace(t, r.at)
               more == Append(l.of, r.v)
    <3>1. r.at \in Nat /\ r.at >= 1
      BY <2>5, <1>0
    <3>2. IF r.at <= Len(t) THEN next \in r.at..Len(t) ELSE next = r.at
      BY <1>0, <3>1, SkipRange
    <3>3. next \in Nat /\ next >= at + 1 /\ next <= L + 1
      <4> HIDE DEF next
      <4> QED
        BY <3>1, <3>2, <2>5, <1>0
    <3>4. FromItem(t, r, l, object) = AfterItem(t, next, r.v, l, object)
      BY <2>5 DEF FromItem
    <3> HIDE DEF next
    <3>5. more \in Seq(S)
      <4> DEFINE of == l.of
      <4>1. of \in Seq(S) /\ r.v \in S
        BY <1>0, <2>5
      <4> HIDE DEF of
      <4>2. Append(of, r.v) \in Seq(S)
        BY <4>1
      <4> QED
        BY <4>2 DEF of
    <3> HIDE DEF more
    <3>6. CASE ~CanRead(t, next)
      BY <3>4, <3>6, <2>3, <1>2 DEF AfterItem
    <3>7. CASE CanRead(t, next) /\ t[next] = Close(object)
      <4>1. AfterItem(t, next, r.v, l, object) = [l EXCEPT !.at = next + 1, !.of = Append(@, r.v), !.more = FALSE]
        <5>1. t[next] # ","
          BY <3>7 DEF Close
        <5> QED
          BY <3>7, <5>1 DEF AfterItem
      <4>2. AfterItem(t, next, r.v, l, object) = [at |-> next + 1, of |-> more, more |-> FALSE, ok |-> l.ok]
        <5>1. next + 1 \in Nat
          BY <3>3
        <5> QED
          BY <4>1, <1>0, <5>1, <3>5, ListLast DEF more
      <4>3. next + 1 \in Nat /\ next + 1 >= at /\ next + 1 <= L + 1 /\ next + 1 >= at + 1
        BY <3>3, <3>7, <1>0 DEF CanRead
      <4> DEFINE n == next + 1
      <4> HIDE DEF n
      <4>4. [at |-> n, of |-> more, more |-> FALSE, ok |-> l.ok] \in Listing(t, at, object, V)
        BY <4>3, <3>5, <1>0 DEF Listing, S, n
      <4> QED
        BY <4>2, <4>4, <3>4, <2>3 DEF n
    <3>8. CASE CanRead(t, next) /\ t[next] = "," /\ t[next] # Close(object)
      <4>1. AfterItem(t, next, r.v, l, object) = [l EXCEPT !.at = next, !.of = Append(@, r.v)]
        BY <3>8 DEF AfterItem
      <4>2. AfterItem(t, next, r.v, l, object) = [at |-> next, of |-> more, more |-> TRUE, ok |-> l.ok]
        <5>1. AfterItem(t, next, r.v, l, object) = [at |-> next, of |-> more, more |-> l.more, ok |-> l.ok]
          BY <4>1, <1>0, <3>3, <3>5, ListNext DEF more
        <5>2. l.more = TRUE
          BY <1>3, <1>0
        <5> QED
          BY <5>1, <5>2
      <4>3. next \in Nat /\ next >= at /\ next <= L /\ next <= L + 1
        <5>1. next <= L
          BY <3>8 DEF CanRead
        <5> QED
          BY <3>3, <5>1, <1>0
      <4>4. [at |-> next, of |-> more, more |-> TRUE, ok |-> l.ok] \in Listing(t, at, object, V)
        BY <4>3, <3>5, <1>0 DEF Listing, S
      <4> QED
        BY <4>2, <4>4, <3>4, <2>3
    <3>9. CASE CanRead(t, next) /\ t[next] # "," /\ t[next] # Close(object)
      BY <3>4, <3>9, <2>3, <1>2 DEF AfterItem
    <3> QED
      BY <3>6, <3>7, <3>8, <3>9
  <2> QED
    BY <2>2, <2>4, <2>5, ResultCases DEF S
<1> QED
  BY <1>1, <1>3

LoopStep(t, at, deeper, object, V, f, k) == IF k = 0 THEN [at |-> at, of |-> <<>>, more |-> TRUE, ok |-> TRUE] ELSE Longer(t, deeper, object, f[k - 1])

\* What the passes of the loop leave.
Loops(t, at, deeper, object, V, f) == /\ f[0] = [at |-> at, of |-> <<>>, more |-> TRUE, ok |-> TRUE] /\ \A k \in 0..Len(t) : f[k] \in Listing(t, at, object, V)
                                    /\ \A k \in 1..Len(t) : f[k] = Longer(t, deeper, object, f[k - 1])

LEMMA LoopIs ==
    ASSUME NEW t \in Seq(Character), NEW V, NEW deeper, Deeper(t, V, deeper),
           NEW at \in 1..Len(t), NEW object \in BOOLEAN
    PROVE  \E f : Loops(t, at, deeper, object, V, f) /\ Loop(t, at, deeper, object) = f[Len(t)]
<1> DEFINE n == Len(t)
           F == [k \in 1..n |-> [y \in Listing(t, at, object, V) |-> Longer(t, deeper, object, y)]]
<1>1. [at |-> at, of |-> <<>>, more |-> TRUE, ok |-> TRUE] \in Listing(t, at, object, V)
    /\ \A k \in 1..n : \A y \in Listing(t, at, object, V) : Longer(t, deeper, object, y) \in Listing(t, at, object, V)
  <2>1. [at |-> at, of |-> <<>>, more |-> TRUE, ok |-> TRUE] \in Listing(t, at, object, V)
    <3>1. <<>> \in Seq(ItemOf(object, V)) /\ at \in Nat /\ at >= at /\ at <= Len(t) + 1 /\ at <= Len(t)
      OBVIOUS
    <3> QED
      BY <3>1 DEF Listing
  <2> QED
    BY <2>1, LongerListing
<1>2. \A k \in 1..n : \A y \in Listing(t, at, object, V) : F[k][y] = Longer(t, deeper, object, y)
  OBVIOUS
<1>3. n \in Nat
  OBVIOUS
<1>4. F \in [1..n -> [Listing(t, at, object, V) -> Listing(t, at, object, V)]]
  BY <1>1
<1> HIDE DEF F, n
<1>5. PICK g : IsRow(g, Listing(t, at, object, V), n, [at |-> at, of |-> <<>>, more |-> TRUE, ok |-> TRUE], F)
  BY <1>1, <1>3, <1>4, RowExists
<1>6. g \in [0..n -> Listing(t, at, object, V)]
    /\ g[0] = [at |-> at, of |-> <<>>, more |-> TRUE, ok |-> TRUE]
        /\ \A k \in 1..n : g[k] = F[k][g[k - 1]]
  BY <1>5 DEF IsRow
<1>7. g[0] = [at |-> at, of |-> <<>>, more |-> TRUE, ok |-> TRUE]
    /\ (\A k \in 0..n : g[k] \in Listing(t, at, object, V)) /\ (\A k \in 1..n : g[k] = F[k][g[k - 1]])
  BY <1>6
<1>8. g = [k \in 0..n |-> g[k]]
  BY <1>6
<1>9. ASSUME NEW k \in 0..n
      PROVE  g[k] = LoopStep(t, at, deeper, object, V, g, k)
  <2>1. CASE k = 0
    BY <2>1, <1>7 DEF LoopStep
  <2>2. CASE k # 0
    <3>1. k \in 1..n /\ k - 1 \in 0..n
      BY <2>2, <1>3
    <3>2. g[k - 1] \in Listing(t, at, object, V) /\ g[k] = F[k][g[k - 1]]
      BY <3>1, <1>7
    <3>3. F[k][g[k - 1]] = Longer(t, deeper, object, g[k - 1])
      BY <3>1, <3>2, <1>2
    <3> QED
      BY <3>2, <3>3, <2>2 DEF LoopStep
  <2> QED
    BY <2>1, <2>2
<1>10. g = [k \in 0..n |-> LoopStep(t, at, deeper, object, V, g, k)]
  BY <1>8, <1>9
<1> DEFINE f == CHOOSE f : f = [k \in 0..n |-> LoopStep(t, at, deeper, object, V, f, k)]
<1>11. f = [k \in 0..n |-> LoopStep(t, at, deeper, object, V, f, k)]
  BY <1>10
<1>12. Loop(t, at, deeper, object) = f[n]
  BY Zenon DEF Loop, LoopStep, n
<1> HIDE DEF f
<1>13. \A k \in 0..n : f[k] = LoopStep(t, at, deeper, object, V, f, k)
  BY <1>11
<1>14. f[0] = g[0]
  <2>1. 0 \in 0..n
    BY <1>3
  <2>2. f[0] = LoopStep(t, at, deeper, object, V, f, 0)
    BY <1>13, <2>1, Zenon
  <2>3. LoopStep(t, at, deeper, object, V, f, 0) = [at |-> at, of |-> <<>>, more |-> TRUE, ok |-> TRUE]
    BY Zenon DEF LoopStep
  <2> QED
    BY <2>2, <2>3, <1>7, Zenon
<1>15. ASSUME NEW k \in 1..n, f[k - 1] = g[k - 1]
       PROVE  f[k] = g[k]
  BY <1>13, <1>9, <1>15, <1>3 DEF LoopStep
<1>16. \A k \in 0..n : f[k] = g[k]
  BY <1>14, <1>15, <1>3, RowsAgree
<1>17. \A k \in 1..n : g[k] = Longer(t, deeper, object, g[k - 1])
  BY <1>9, <1>3 DEF LoopStep
<1>18. Loops(t, at, deeper, object, V, g)
  BY <1>7, <1>17 DEF Loops, n
<1> QED
  BY <1>12, <1>16, <1>18, <1>3 DEF n

LEMMA ListResult ==
    ASSUME NEW t \in Seq(Character), NEW V, NEW deeper, Deeper(t, V, deeper),
           NEW at \in 1..Len(t), NEW object \in BOOLEAN, NEW first \in Nat, first >= at + 1
    PROVE  parse_list(t, at, first, deeper, object) \in Results(t, at, Holding(V))
<1> DEFINE L == Len(t)
           l == Loop(t, at, deeper, object)
<1>0. L \in Nat /\ at \in Nat
  OBVIOUS
<1>1. CASE ~CanRead(t, first)
  BY <1>1, ResultFailed DEF parse_list
<1>2. CASE CanRead(t, first) /\ t[first] = Close(object)
  <2>1. parse_list(t, at, first, deeper, object) = Read(first + 1, Container(object, <<>>))
    BY <1>2 DEF parse_list
  <2>2. <<>> \in Seq(ItemOf(object, V))
    OBVIOUS
  <2>3. Container(object, <<>>) \in Holding(V)
    BY <2>2, HoldingCases
  <2>4. first + 1 \in at + 1..Len(t) + 1
    BY <1>2, <1>0 DEF CanRead
  <2> QED
    BY <2>1, <2>3, <2>4, ResultRead
<1>3. CASE CanRead(t, first) /\ t[first] # Close(object)
  <2>1. parse_list(t, at, first, deeper, object) = Items(l, object)
    BY <1>3 DEF parse_list
  <2>2. l \in Listing(t, at, object, V)
    <3>1. PICK f : Loops(t, at, deeper, object, V, f) /\ Loop(t, at, deeper, object) = f[Len(t)]
      BY LoopIs
    <3>2. Len(t) \in 0..Len(t)
      BY <1>0
    <3> QED
      BY <3>1, <3>2 DEF Loops
  <2> HIDE DEF l
  <2>3. CASE l.ok /\ ~l.more
    <3>1. l.of \in Seq(ItemOf(object, V)) /\ l.at \in at + 1..Len(t) + 1
      BY <2>2, <2>3, <1>0 DEF Listing
    <3>2. Container(object, l.of) \in Holding(V)
      BY <3>1, HoldingCases
    <3>3. Items(l, object) = Read(l.at, Container(object, l.of))
      BY <2>3 DEF Items
    <3> QED
      BY <2>1, <3>1, <3>2, <3>3, ResultRead
  <2>4. CASE ~(l.ok /\ ~l.more)
    <3>1. Items(l, object) = Failed
      BY <2>4 DEF Items
    <3> QED
      BY <2>1, <3>1, ResultFailed
  <2> QED
    BY <2>3, <2>4
<1> QED
  BY <1>1, <1>2, <1>3

-----------------------------------------------------------------------------
(* A value at a place, at each depth.                                      *)

LEMMA StartFacts ==
    /\ Quote \notin Word /\ Quote \notin NumberChar /\ ~Opens(Quote)
    /\ \A c \in Word : c \notin NumberChar /\ ~Opens(c)
    /\ \A c \in NumberChar : ~Opens(c)
BY DEF Quote, Word, NumberChar, Opens

LEMMA ValueCases ==
    ASSUME NEW t, NEW at, NEW depth, NEW deeper
    PROVE  LET r == parse_value(t, at, depth, deeper)
           IN  /\ ~CanRead(t, at) => r = Failed
               /\ CanRead(t, at) /\ t[at] \in Word => r = Read(at + 1, Plain(t[at]))
               /\ CanRead(t, at) /\ t[at] = Quote => r = parse_string(t, at)
               /\ CanRead(t, at) /\ t[at] \in NumberChar => r = parse_number(t, at)
               /\ CanRead(t, at) /\ Opens(t[at]) /\ depth < CJSON_NESTING_LIMIT
                  => r = parse_list(t, at, buffer_skip_whitespace(t, at + 1), deeper, t[at] = "{")
               /\ CanRead(t, at) /\ t[at] \notin Word /\ t[at] # Quote /\ t[at] \notin NumberChar
                  /\ ~(Opens(t[at]) /\ depth < CJSON_NESTING_LIMIT) => r = Failed
<1>1. CASE ~CanRead(t, at)
  BY <1>1 DEF parse_value
<1>2. CASE CanRead(t, at) /\ t[at] \in Word
  BY <1>2, StartFacts DEF parse_value
<1>3. CASE CanRead(t, at) /\ t[at] = Quote
  BY <1>3, StartFacts DEF parse_value
<1>4. CASE CanRead(t, at) /\ t[at] \in NumberChar
  BY <1>4, StartFacts DEF parse_value
<1>5. CASE CanRead(t, at) /\ Opens(t[at]) /\ depth < CJSON_NESTING_LIMIT
  BY <1>5, StartFacts DEF parse_value
<1>6. CASE CanRead(t, at) /\ t[at] \notin Word /\ t[at] # Quote /\ t[at] \notin NumberChar
           /\ ~(Opens(t[at]) /\ depth < CJSON_NESTING_LIMIT)
  BY <1>6 DEF parse_value
<1> QED
  BY <1>1, <1>2, <1>3, <1>4, <1>5, <1>6

\* At the last depth no container is read.
LEMMA LastDepth ==
    ASSUME NEW t, NEW at, NEW depth, ~(depth < CJSON_NESTING_LIMIT), NEW x, NEW y
    PROVE  parse_value(t, at, depth, x) = parse_value(t, at, depth, y)
<1>1. CASE ~CanRead(t, at)
  BY <1>1, ValueCases
<1>2. CASE CanRead(t, at) /\ t[at] \in Word
  BY <1>2, ValueCases
<1>3. CASE CanRead(t, at) /\ t[at] = Quote
  BY <1>3, ValueCases
<1>4. CASE CanRead(t, at) /\ t[at] \in NumberChar
  BY <1>4, ValueCases
<1>5. CASE CanRead(t, at) /\ t[at] \notin Word /\ t[at] # Quote /\ t[at] \notin NumberChar
  BY <1>5, ValueCases
<1> QED
  BY <1>1, <1>2, <1>3, <1>4, <1>5

FromStep(t, f, d) == [at \in 1..Len(t) + 1 |-> parse_value(t, at, d, f[d + 1])]

LEMMA LimitNat == CJSON_NESTING_LIMIT \in Nat /\ MaxSize \in Nat /\ MaxPieces \in Nat
    /\ StartSize \in Nat /\ INT_MAX \in Nat
BY TextAssumption DEF TextAssumption

LEMMA FromExist ==
    ASSUME NEW t, Len(t) \in Nat
    PROVE  \E f : f = [d \in 0..CJSON_NESTING_LIMIT |-> FromStep(t, f, d)]
<1> DEFINE n == CJSON_NESTING_LIMIT
           T == {m \in 0..n : \E f : \A d \in n - m..n : f[d] = FromStep(t, f, d)}
<1>0. n \in Nat
  BY LimitNat
<1>4. ASSUME NEW x, NEW y
      PROVE  FromStep(t, x, n) = FromStep(t, y, n)
  <2>1. ~(n < n)
    BY <1>0
  <2>2. \A at \in 1..Len(t) + 1 : parse_value(t, at, n, x[n + 1]) = parse_value(t, at, n, y[n + 1])
    BY <2>1, LastDepth
  <2> QED
    BY <2>2 DEF FromStep
<1> HIDE DEF n
<1>1. 0 \in T
  <2> DEFINE f == [d \in 0..n |-> FromStep(t, <<>>, n)]
  <2>1. n - 0 = n /\ n \in 0..n /\ \A d \in n..n : d = n
    BY <1>0
  <2>2. f[n] = FromStep(t, <<>>, n)
    BY <2>1
  <2> HIDE DEF f
  <2>3. f[n] = FromStep(t, f, n)
    BY <2>2, <1>4
  <2>4. \A d \in n - 0..n : f[d] = FromStep(t, f, d)
    BY <2>1, <2>3
  <2> QED
    BY <2>4, <1>0
<1>2. ASSUME NEW m \in 0..n - 1, m \in T
      PROVE  m + 1 \in T
  <2>1. PICK f : \A d \in n - m..n : f[d] = FromStep(t, f, d)
    BY <1>2
  <2> DEFINE e == n - (m + 1)
             h == [d \in 0..n |-> IF d = e THEN FromStep(t, f, d) ELSE f[d]]
  <2>2. e \in 0..n /\ e + 1 = n - m /\ m + 1 \in 0..n /\ e < n /\ e \in Nat
    BY <1>0
  <2> HIDE DEF e
  <2>3. ASSUME NEW d \in e..n
        PROVE  h[d] = FromStep(t, h, d)
    <3>1. d \in 0..n
      BY <2>2
    <3>2. h[d] = FromStep(t, f, d)
      <4>1. CASE d = e
        BY <3>1, <4>1
      <4>2. CASE d # e
        <5>1. d \in n - m..n
          BY <4>2, <2>2, <1>0
        <5>2. h[d] = f[d]
          BY <3>1, <4>2
        <5> QED
          BY <5>1, <5>2, <2>1
      <4> QED
        BY <4>1, <4>2
    <3>3. FromStep(t, h, d) = FromStep(t, f, d)
      <4>1. CASE d = n
        <5> HIDE DEF h
        <5> QED
          BY <4>1, <1>4
      <4>2. CASE d # n
        <5>1. d + 1 \in 0..n /\ d + 1 # e
          BY <3>1, <4>2, <2>2, <1>0
        <5>2. h[d + 1] = f[d + 1]
          BY <5>1
        <5> HIDE DEF h
        <5> QED
          BY <5>2 DEF FromStep
      <4> QED
        BY <4>1, <4>2
    <3> QED
      BY <3>2, <3>3
  <2> HIDE DEF h
  <2>4. \A d \in n - (m + 1)..n : h[d] = FromStep(t, h, d)
    BY <2>3 DEF e
  <2> QED
    BY <2>2, <2>4
<1> HIDE DEF T
<1>3. \A m \in 0..n : m \in T
  BY <1>0, <1>1, <1>2, AllFrom
<1>5. n \in T
  BY <1>0, <1>3
<1>6. PICK g : \A d \in n - n..n : g[d] = FromStep(t, g, d)
  BY <1>5 DEF T
<1>7. n - n = 0
  BY <1>0
<1> DEFINE f == [d \in 0..n |-> g[d]]
<1>8. ASSUME NEW d \in 0..n
      PROVE  g[d] = FromStep(t, f, d)
  <2>1. g[d] = FromStep(t, g, d)
    BY <1>6, <1>7
  <2>2. CASE d = n
    <3> HIDE DEF f
    <3> QED
      BY <2>1, <2>2, <1>4
  <2>3. CASE d # n
    <3>1. d + 1 \in 0..n
      BY <2>3, <1>0
    <3>2. f[d + 1] = g[d + 1]
      BY <3>1
    <3> HIDE DEF f
    <3> QED
      BY <2>1, <3>2 DEF FromStep
  <2> QED
    BY <2>2, <2>3
<1>9. f = [d \in 0..n |-> FromStep(t, f, d)]
  BY <1>8, Zenon
<1> HIDE DEF f
<1> QED
  BY <1>9 DEF n

\* What parse_value returns at each depth and place.
Froms(t, f) == \A d \in 0..CJSON_NESTING_LIMIT : f[d] = FromStep(t, f, d)

LEMMA ParseIs ==
    ASSUME NEW t, Len(t) \in Nat
    PROVE  \E f : Froms(t, f) /\ parse(t) = f[0]
<1> DEFINE f == CHOOSE f : f = [d \in 0..CJSON_NESTING_LIMIT |-> FromStep(t, f, d)]
<1>1. f = [d \in 0..CJSON_NESTING_LIMIT |-> FromStep(t, f, d)]
  BY FromExist
<1>2. parse(t) = f[0]
  BY Zenon DEF parse, FromStep
<1> HIDE DEF f
<1>3. \A d \in 0..CJSON_NESTING_LIMIT : f[d] = FromStep(t, f, d)
  BY <1>1
<1> QED
  BY <1>2, <1>3 DEF Froms

LEMMA ScalarResult ==
    ASSUME NEW t \in Seq(Character), NEW at \in 1..Len(t) + 1, NEW deeper, NEW V,
           Scalar \subseteq V, NEW depth,
           ~CanRead(t, at) \/ t[at] \in Word \/ t[at] = Quote \/ t[at] \in NumberChar
    PROVE  parse_value(t, at, depth, deeper) \in Results(t, at, V)
<1> DEFINE r == parse_value(t, at, depth, deeper)
<1>1. CASE ~CanRead(t, at)
  <2>1. r = Failed
    BY <1>1, ValueCases
  <2> QED
    BY <2>1, ResultFailed
<1>0. CASE CanRead(t, at)
  <2>0. at \in 1..Len(t) /\ Len(t) \in Nat /\ at + 1 \in at + 1..Len(t) + 1
    BY <1>0 DEF CanRead
  <2>1. CASE t[at] \in Word
    <3>1. r = Read(at + 1, Plain(t[at]))
      BY <1>0, <2>1, ValueCases
    <3>2. Plain(t[at]) \in V
      BY <2>1, ScalarCases
    <3> QED
      BY <3>1, <3>2, <2>0, ResultRead
  <2>2. CASE t[at] = Quote
    <3>1. r = parse_string(t, at)
      BY <1>0, <2>2, ValueCases
    <3> HIDE DEF r
    <3>2. CASE r = Failed
      BY <3>2, ResultFailed DEF r
    <3>3. ASSUME NEW i \in at + 1..Len(t) + 1, NEW s \in CText, r = Read(i, String(s))
          PROVE  r \in Results(t, at, V)
      <4>1. String(s) \in V
        BY ScalarCases
      <4> QED
        BY <4>1, <3>3, ResultRead
    <3> QED
      BY <2>0, <3>1, <3>2, <3>3, StringResult DEF r
  <2>3. CASE t[at] \in NumberChar
    <3>1. r = parse_number(t, at)
      BY <1>0, <2>3, ValueCases
    <3>2. r \in Results(t, at, Scalar)
      BY <2>0, <2>3, <3>1, NumberResult
    <3> HIDE DEF r
    <3>3. r \in Results(t, at, V)
      BY <3>2 DEF Results
    <3> QED
      BY <3>3 DEF r
  <2> QED
    BY <2>1, <2>2, <2>3, <1>0
<1> QED
  BY <1>0, <1>1

LEMMA FromResult ==
    ASSUME NEW t \in Seq(Character), NEW f, Froms(t, f), NEW d \in 0..CJSON_NESTING_LIMIT
    PROVE  Deeper(t, Nested(CJSON_NESTING_LIMIT - d), f[d])
<1> DEFINE n == CJSON_NESTING_LIMIT
           T == {m \in 0..n : Deeper(t, Nested(m), f[n - m])}
<1>0. n \in Nat /\ Len(t) \in Nat
  BY LimitNat
<1>1. ASSUME NEW e \in 0..n
      PROVE  \A at \in 1..Len(t) + 1 : f[e][at] = parse_value(t, at, e, f[e + 1])
  <2>1. f[e] = FromStep(t, f, e)
    BY DEF Froms
  <2> QED
    BY <2>1 DEF FromStep
<1>2. ASSUME NEW m \in 0..n, m >= 1 => Deeper(t, Nested(m - 1), f[n - (m - 1)])
      PROVE  Deeper(t, Nested(m), f[n - m])
  <2> DEFINE e == n - m
  <2>1. e \in 0..n /\ m \in Nat /\ (m >= 1 => e + 1 = n - (m - 1)) /\ (e < n <=> m >= 1)
    BY <1>0
  <2> HIDE DEF e
  <2> SUFFICES ASSUME NEW at \in 1..Len(t) + 1
               PROVE  parse_value(t, at, e, f[e + 1]) \in Results(t, at, Nested(m))
    BY <1>1, <2>1 DEF Deeper, e
  <2>2. Scalar \subseteq Nested(m)
    BY <2>1, NestedIs, NestedUp
  <2>3. CASE ~CanRead(t, at) \/ t[at] \in Word \/ t[at] = Quote \/ t[at] \in NumberChar
    BY <2>2, <2>3, ScalarResult
  <2>4. CASE CanRead(t, at) /\ Opens(t[at]) /\ e < CJSON_NESTING_LIMIT
    <3>0. at \in 1..Len(t) /\ at + 1 \in Nat /\ at + 1 >= 1
      BY <2>4, <1>0 DEF CanRead
    <3> DEFINE first == buffer_skip_whitespace(t, at + 1)
               object == t[at] = "{"
               w == f[e + 1]
    <3>1. parse_value(t, at, e, w) = parse_list(t, at, first, w, object)
      BY <2>4, ValueCases
    <3>2. first \in Nat /\ first >= at + 1
      <4>1. IF at + 1 <= Len(t) THEN first \in at + 1..Len(t) ELSE first = at + 1
        BY <1>0, <3>0, SkipRange
      <4> HIDE DEF first
      <4> QED
        BY <4>1, <3>0
    <3>3. m >= 1 /\ Deeper(t, Nested(m - 1), w)
      BY <2>1, <2>4, <1>2
    <3>4. object \in BOOLEAN
      OBVIOUS
    <3> HIDE DEF first, object, w
    <3>5. parse_list(t, at, first, w, object) \in Results(t, at, Holding(Nested(m - 1)))
      BY <3>0, <3>2, <3>3, <3>4, ListResult
    <3>6. Holding(Nested(m - 1)) = Nested(m)
      <4>1. m - 1 \in Nat /\ (m - 1) + 1 = m
        BY <2>1, <3>3
      <4> QED
        BY <4>1, NestedIs
    <3> QED
      BY <3>1, <3>5, <3>6 DEF w
  <2>5. CASE /\ CanRead(t, at) /\ t[at] \notin Word /\ t[at] # Quote /\ t[at] \notin NumberChar
             /\ ~(Opens(t[at]) /\ e < CJSON_NESTING_LIMIT)
    <3>1. parse_value(t, at, e, f[e + 1]) = Failed
      BY <2>5, ValueCases
    <3> QED
      BY <3>1, ResultFailed
  <2> QED
    BY <2>3, <2>4, <2>5
<1>3. 0 \in T
  <2>1. 0 \in 0..n /\ ~(0 >= 1)
    BY <1>0
  <2>2. Deeper(t, Nested(0), f[n - 0])
    BY <2>1, <1>2
  <2> QED
    BY <2>1, <2>2
<1>4. ASSUME NEW m \in 0..n - 1, m \in T
      PROVE  m + 1 \in T
  <2>1. m + 1 \in 0..n /\ (m + 1) - 1 = m
    BY <1>0
  <2>2. Deeper(t, Nested((m + 1) - 1), f[n - ((m + 1) - 1)])
    BY <2>1, <1>4
  <2>3. Deeper(t, Nested(m + 1), f[n - (m + 1)])
    BY <2>1, <2>2, <1>2
  <2> QED
    BY <2>1, <2>3
<1> HIDE DEF T
<1>5. \A m \in 0..n : m \in T
  BY <1>0, <1>3, <1>4, AllFrom
<1>6. n - d \in 0..n /\ n - (n - d) = d
  BY <1>0
<1>7. n - d \in T
  BY <1>5, <1>6
<1> QED
  BY <1>6, <1>7 DEF T

\* What is read of a text nests no deeper than the limit.
LEMMA WholeResult ==
    ASSUME NEW t \in Seq(Character), NEW b \in BOOLEAN, cJSON_ParseWithLengthOpts(t, b).ok
    PROVE  cJSON_ParseWithLengthOpts(t, b).v \in Nested(CJSON_NESTING_LIMIT)
<1> DEFINE i == buffer_skip_whitespace(t, skip_utf8_bom(t))
           r == parse(t)[i]
<1>0. ~Failed.ok
  BY DEF Failed
<1>1. t # <<>>
  BY <1>0 DEF cJSON_ParseWithLengthOpts
<1>2. Len(t) \in Nat /\ Len(t) >= 1
  BY <1>1
<1>3. skip_utf8_bom(t) \in {1, 2}
  BY DEF skip_utf8_bom
<1>4. i \in 1..Len(t) + 1
  <2> DEFINE k == skip_utf8_bom(t)
  <2>1. k \in Nat /\ k >= 1 /\ k <= Len(t) + 1
    BY <1>2, <1>3
  <2> HIDE DEF k
  <2>2. IF k <= Len(t) THEN i \in k..Len(t) ELSE i = k
    BY <1>2, <2>1, SkipRange DEF k
  <2> HIDE DEF i
  <2> QED
    BY <1>2, <2>1, <2>2
<1>5. PICK f : Froms(t, f) /\ parse(t) = f[0]
  BY <1>2, ParseIs
<1>6. CJSON_NESTING_LIMIT - 0 = CJSON_NESTING_LIMIT /\ 0 \in 0..CJSON_NESTING_LIMIT
  BY LimitNat
<1>7. r \in Results(t, i, Nested(CJSON_NESTING_LIMIT))
  <2>1. Deeper(t, Nested(CJSON_NESTING_LIMIT - 0), f[0])
    BY <1>5, <1>6, FromResult
  <2> HIDE DEF i
  <2> QED
    BY <1>4, <1>5, <1>6, <2>1 DEF Deeper
<1>8. cJSON_ParseWithLengthOpts(t, b) = AsWhole(t, r, b)
  BY <1>1 DEF cJSON_ParseWithLengthOpts
<1> HIDE DEF r, i
<1>9. r.ok
  BY <1>0, <1>8 DEF AsWhole
<1>10. cJSON_ParseWithLengthOpts(t, b) = Ended(t, r, b, buffer_skip_whitespace(t, r.at))
  BY <1>8, <1>9 DEF AsWhole
<1>11. cJSON_ParseWithLengthOpts(t, b) = r
  BY <1>0, <1>10, Zenon DEF Ended
<1> QED
  BY <1>7, <1>9, <1>11, ResultCases, <1>0

-----------------------------------------------------------------------------
(* Chunks, and all they put.                                               *)

\* A chunk that is asked for: never less than what is written, and at most one
\* byte more.
Printable == {c \in {Chunk(a, p, e) : a \in Nat, p \in Seq(Character), e \in BOOLEAN} :
                 c.ask \in {c.size, c.size + 1}}
Printing == Printable \cup {Refused}

LEMMA ChunkFields ==
    ASSUME NEW a, NEW p, NEW e
    PROVE  /\ Chunk(a, p, e).ask = a /\ Chunk(a, p, e).put = p /\ Chunk(a, p, e).ends = e
           /\ Chunk(a, p, e).size = Bytes(p)
           /\ Refused.ask = -1 /\ Refused.put = <<>>
BY DEF Chunk, Refused

LEMMA ChunkPrintable ==
    ASSUME NEW p \in Seq(Character), NEW e \in BOOLEAN, NEW a, a \in {Bytes(p), Bytes(p) + 1}
    PROVE  Chunk(a, p, e) \in Printable
<1>1. a \in Nat
  BY BytesNat
<1>2. Chunk(a, p, e) \in {Chunk(x, y, z) : x \in Nat, y \in Seq(Character), z \in BOOLEAN}
  BY <1>1
<1> QED
  BY <1>2, ChunkFields DEF Printable

LEMMA PrintableFacts ==
    ASSUME NEW c \in Printable
    PROVE  /\ c.put \in Seq(Character) /\ c.size = Bytes(c.put) /\ c.size \in Nat
           /\ c.ask \in {c.size, c.size + 1} /\ c.ends \in BOOLEAN /\ c # Refused
<1>1. PICK a \in Nat, p \in Seq(Character), e \in BOOLEAN : c = Chunk(a, p, e)
  BY DEF Printable
<1>2. c.ask = a /\ c.put = p /\ c.ends = e /\ c.size = Bytes(p) /\ Refused.ask = -1
  BY <1>1, ChunkFields
<1>3. Bytes(p) \in Nat
  BY BytesNat
<1>4. c.ask \in {c.size, c.size + 1}
  BY DEF Printable
<1> QED
  BY <1>2, <1>3, <1>4

LEMMA PrintingPut ==
    ASSUME NEW c \in Printing
    PROVE  c.put \in Seq(Character)
<1>0. <<>> \in Seq(Character)
  OBVIOUS
<1>1. CASE c = Refused
  BY <1>0, <1>1, ChunkFields
<1>2. CASE c \in Printable
  BY <1>2, PrintableFacts
<1> QED
  BY <1>1, <1>2 DEF Printing

LEMMA ConcatIn ==
    ASSUME NEW C, NEW D, NEW a \in Seq(D), NEW b \in Seq(D), a \o b \in Seq(C)
    PROVE  a \in Seq(C) /\ b \in Seq(C)
<1> DEFINE s == a \o b
<1>1. /\ Len(a) \in Nat /\ Len(b) \in Nat /\ Len(s) = Len(a) + Len(b)
      /\ \A k \in 1..Len(a) : s[k] = a[k]
      /\ \A k \in 1..Len(b) : s[Len(a) + k] = b[k]
  OBVIOUS
<1>2. \A k \in 1..Len(s) : s[k] \in C
  OBVIOUS
<1> HIDE DEF s
<1>3. \A k \in 1..Len(a) : a[k] \in C
  <2> SUFFICES ASSUME NEW k \in 1..Len(a)
               PROVE  a[k] \in C
    OBVIOUS
  <2>1. k \in 1..Len(s)
    BY <1>1
  <2> QED
    BY <2>1, <1>1, <1>2
<1>4. \A k \in 1..Len(b) : b[k] \in C
  <2> SUFFICES ASSUME NEW k \in 1..Len(b)
               PROVE  b[k] \in C
    OBVIOUS
  <2>1. Len(a) + k \in 1..Len(s)
    BY <1>1
  <2> QED
    BY <2>1, <1>1, <1>2
<1> QED
  BY <1>3, <1>4, SeqRetyped

\* A sequence put together is of C when each of its parts is.
LEMMA JoinsIn ==
    ASSUME NEW D, NEW ss, Len(ss) \in Nat, \A i \in 1..Len(ss) : ss[i] \in Seq(D), NEW f,
           Joins(D, ss, f), NEW C
    PROVE  /\ (\A i \in 1..Len(ss) : ss[i] \in Seq(C)) => f[Len(ss)] \in Seq(C)
           /\ f[Len(ss)] \in Seq(C) => \A i \in 1..Len(ss) : ss[i] \in Seq(C)
<1> DEFINE n == Len(ss)
<1>0. n \in Nat /\ f[0] = <<>> /\ (\A k \in 0..n : f[k] \in Seq(D))
                                  /\ (\A k \in 1..n : f[k] = f[k - 1] \o ss[k])
  BY DEF Joins
<1>1. ASSUME \A i \in 1..n : ss[i] \in Seq(C)
      PROVE  f[n] \in Seq(C)
  <2> DEFINE T == {k \in 0..n : f[k] \in Seq(C)}
  <2> HIDE DEF n
  <2>1. 0 \in T
    BY <1>0
  <2>2. ASSUME NEW k \in 0..n - 1, k \in T
        PROVE  k + 1 \in T
    <3>1. k + 1 \in 1..n /\ (k + 1) - 1 = k /\ k + 1 \in 0..n
      BY <1>0
    <3>2. f[k + 1] = f[k] \o ss[k + 1] /\ f[k] \in Seq(C) /\ ss[k + 1] \in Seq(C)
      BY <3>1, <2>2, <1>0, <1>1
    <3>3. f[k + 1] \in Seq(C)
      BY <3>2, ConcatSeq
    <3> QED
      BY <3>1, <3>3
  <2> HIDE DEF T
  <2>3. \A k \in 0..n : k \in T
    BY <2>1, <2>2, <1>0, AllFrom
  <2> QED
    BY <2>3, <1>0 DEF T
<1>2. ASSUME f[n] \in Seq(C)
      PROVE  \A i \in 1..n : ss[i] \in Seq(C)
  <2> DEFINE T == {j \in 0..n : f[n - j] \in Seq(C)}
  <2> HIDE DEF n
  <2>0. \A k \in 1..n : f[k] \in Seq(C) => f[k - 1] \in Seq(C) /\ ss[k] \in Seq(C)
    <3> SUFFICES ASSUME NEW k \in 1..n, f[k] \in Seq(C)
                 PROVE  f[k - 1] \in Seq(C) /\ ss[k] \in Seq(C)
      OBVIOUS
    <3>1. k - 1 \in 0..n
      BY <1>0
    <3>2. f[k] = f[k - 1] \o ss[k] /\ f[k - 1] \in Seq(D) /\ ss[k] \in Seq(D)
      BY <3>1, <1>0 DEF n
    <3> QED
      BY <3>2, ConcatIn
  <2>1. 0 \in T
    <3>1. n - 0 = n
      BY <1>0
    <3> QED
      BY <3>1, <1>0, <1>2
  <2>2. ASSUME NEW j \in 0..n - 1, j \in T
        PROVE  j + 1 \in T
    <3>1. n - j \in 1..n /\ (n - j) - 1 = n - (j + 1) /\ j + 1 \in 0..n
      BY <1>0
    <3> QED
      BY <3>1, <2>0, <2>2
  <2> HIDE DEF T
  <2>3. \A j \in 0..n : j \in T
    BY <2>1, <2>2, <1>0, AllFrom
  <2>4. ASSUME NEW i \in 1..n
        PROVE  ss[i] \in Seq(C)
    <3>1. n - i \in 0..n /\ n - (n - i) = i
      BY <1>0
    <3>2. f[i] \in Seq(C)
      BY <3>1, <2>3 DEF T
    <3> QED
      BY <3>2, <2>0
  <2> QED
    BY <2>4
<1> QED
  BY <1>1, <1>2

\* All that the first chunks put.
PutsOf(cs, f) == /\ f[0] = <<>> /\ \A k \in 0..Len(cs) : f[k] \in Seq(Character)
                 /\ \A k \in 1..Len(cs) : f[k] = f[k - 1] \o cs[k].put

LEMMA AllPutIs ==
    ASSUME NEW cs \in Seq(Printing)
    PROVE  \E f : PutsOf(cs, f) /\ AllPut(cs) = f[Len(cs)]
<1> DEFINE ss == [i \in DOMAIN cs |-> cs[i].put]
<1>1. Len(cs) \in Nat /\ Len(ss) = Len(cs) /\ ss = [i \in 1..Len(ss) |-> ss[i]]
      /\ \A i \in 1..Len(cs) : ss[i] = cs[i].put /\ cs[i] \in Printing
  OBVIOUS
<1>2. AllPut(cs) = FlattenSeq(ss)
  BY DEF AllPut
<1> HIDE DEF ss
<1>3. \A i \in 1..Len(ss) : ss[i] \in Seq(Character)
  BY <1>1, PrintingPut
<1>4. PICK f : Joins(Character, ss, f) /\ FlattenSeq(ss) = f[Len(ss)]
  BY <1>1, <1>3, FlattenIs
<1>5. PutsOf(cs, f)
  BY <1>1, <1>4 DEF Joins, PutsOf
<1> QED
  BY <1>1, <1>2, <1>4, <1>5

LEMMA PutsOnly ==
    ASSUME NEW cs \in Seq(Printing), NEW f, PutsOf(cs, f)
    PROVE  AllPut(cs) = f[Len(cs)]
<1>0. Len(cs) \in Nat
  OBVIOUS
<1>1. PICK g : PutsOf(cs, g) /\ AllPut(cs) = g[Len(cs)]
  BY AllPutIs
<1>2. f[0] = g[0]
  BY <1>1 DEF PutsOf
<1>3. ASSUME NEW k \in 1..Len(cs), f[k - 1] = g[k - 1]
      PROVE  f[k] = g[k]
  BY <1>1, <1>3 DEF PutsOf
<1>4. \A k \in 0..Len(cs) : f[k] = g[k]
  BY <1>0, <1>2, <1>3, RowsAgree
<1> QED
  BY <1>0, <1>1, <1>4

LEMMA AllPutSeq ==
    ASSUME NEW cs \in Seq(Printing)
    PROVE  AllPut(cs) \in Seq(Character)
<1>1. PICK f : PutsOf(cs, f) /\ AllPut(cs) = f[Len(cs)]
  BY AllPutIs
<1>2. Len(cs) \in 0..Len(cs)
  OBVIOUS
<1> QED
  BY <1>1, <1>2 DEF PutsOf

LEMMA AllPutEmpty == AllPut(<<>>) = <<>>
<1>1. <<>> \in Seq(Printing) /\ Len(<<>>) = 0
  OBVIOUS
<1>2. PICK f : PutsOf(<<>>, f) /\ AllPut(<<>>) = f[Len(<<>>)]
  BY <1>1, AllPutIs
<1> QED
  BY <1>1, <1>2 DEF PutsOf

LEMMA AllPutAppend ==
    ASSUME NEW cs \in Seq(Printing), NEW c \in Printing
    PROVE  AllPut(Append(cs, c)) = AllPut(cs) \o c.put
<1> DEFINE n == Len(cs)
           r == Append(cs, c)
<1>1. r \in Seq(Printing) /\ n \in Nat /\ Len(r) = n + 1 /\ r[n + 1] = c /\ \A k \in 1..n : r[k] = cs[k]
  OBVIOUS
<1> HIDE DEF r
<1>2. PICK f : PutsOf(r, f) /\ AllPut(r) = f[Len(r)]
  BY <1>1, AllPutIs
<1>3. PutsOf(cs, f)
  <2>1. \A k \in 0..n : k \in 0..Len(r)
    BY <1>1
  <2>2. \A k \in 1..n : k \in 1..Len(r) /\ r[k] = cs[k]
    BY <1>1
  <2> QED
    BY <2>1, <2>2, <1>2 DEF PutsOf
<1>4. AllPut(cs) = f[n]
  BY <1>3, PutsOnly
<1>5. n + 1 \in 1..Len(r) /\ (n + 1) - 1 = n
  BY <1>1
<1>6. f[n + 1] = f[(n + 1) - 1] \o r[n + 1].put
  BY <1>2, <1>5 DEF PutsOf
<1> QED
  BY <1>1, <1>2, <1>4, <1>5, <1>6 DEF r

LEMMA AllPutOne ==
    ASSUME NEW c \in Printing
    PROVE  AllPut(<<c>>) = c.put
<1>1. <<c>> = Append(<<>>, c) /\ <<>> \in Seq(Printing) /\ c.put \in Seq(Character)
  BY PrintingPut
<1>2. AllPut(<<c>>) = AllPut(<<>>) \o c.put
  BY <1>1, AllPutAppend
<1> QED
  BY <1>1, <1>2, AllPutEmpty, EmptyConcat

LEMMA ConcatAssoc ==
    ASSUME NEW S, NEW a \in Seq(S), NEW b \in Seq(S), NEW c \in Seq(S)
    PROVE  (a \o b) \o c = a \o (b \o c)
OBVIOUS

LEMMA AllPutConcat ==
    ASSUME NEW a \in Seq(Printing), NEW b \in Seq(Printing)
    PROVE  AllPut(a \o b) = AllPut(a) \o AllPut(b)
<1> DEFINE n == Len(b)
           T == {k \in 0..n : AllPut(a \o SubSeq(b, 1, k)) = AllPut(a) \o AllPut(SubSeq(b, 1, k))}
<1>0. n \in Nat /\ \A k \in 0..n : SubSeq(b, 1, k) \in Seq(Printing)
  OBVIOUS
<1>1. 0 \in T
  <2>1. SubSeq(b, 1, 0) = <<>> /\ a \o <<>> = a /\ 0 \in 0..n
    BY <1>0
  <2>2. AllPut(a) \o <<>> = AllPut(a)
    BY AllPutSeq, EmptyConcat
  <2> HIDE DEF n
  <2>3. AllPut(a \o SubSeq(b, 1, 0)) = AllPut(a) \o AllPut(SubSeq(b, 1, 0))
    BY <2>1, <2>2, AllPutEmpty
  <2> QED
    BY <2>1, <2>3
<1>2. ASSUME NEW k \in 0..n - 1, k \in T
      PROVE  k + 1 \in T
  <2> DEFINE s == SubSeq(b, 1, k)
             c == b[k + 1]
  <2>1. k + 1 \in 0..n /\ k + 1 \in 1..n /\ k \in 0..n /\ SubSeq(b, 1, k + 1) = Append(s, c)
      /\ c \in Printing /\ s \in Seq(Printing)
    BY <1>0
  <2>2. AllPut(a \o s) = AllPut(a) \o AllPut(s)
    BY <1>2
  <2> HIDE DEF s, c, n
  <2>3. a \o Append(s, c) = Append(a \o s, c) /\ a \o s \in Seq(Printing)
    BY <2>1
  <2>4. AllPut(Append(a \o s, c)) = (AllPut(a) \o AllPut(s)) \o c.put
    BY <2>1, <2>2, <2>3, AllPutAppend
  <2>5. AllPut(a) \in Seq(Character) /\ AllPut(s) \in Seq(Character) /\ c.put \in Seq(Character)
    <3>1. AllPut(a) \in Seq(Character)
      BY AllPutSeq
    <3>2. AllPut(s) \in Seq(Character)
      BY <2>1, AllPutSeq
    <3>3. c.put \in Seq(Character)
      BY <2>1, PrintingPut
    <3> QED
      BY <3>1, <3>2, <3>3
  <2>6. (AllPut(a) \o AllPut(s)) \o c.put = AllPut(a) \o (AllPut(s) \o c.put)
    <3> DEFINE x == AllPut(a)
               y == AllPut(s)
               z == c.put
    <3>1. x \in Seq(Character) /\ y \in Seq(Character) /\ z \in Seq(Character)
      BY <2>5
    <3> HIDE DEF x, y, z
    <3>2. (x \o y) \o z = x \o (y \o z)
      BY <3>1, ConcatAssoc
    <3> QED
      BY <3>2 DEF x, y, z
  <2>7. AllPut(Append(s, c)) = AllPut(s) \o c.put
    BY <2>1, AllPutAppend
  <2> QED
    BY <2>1, <2>3, <2>4, <2>6, <2>7
<1> HIDE DEF T
<1>3. \A k \in 0..n : k \in T
  BY <1>0, <1>1, <1>2, AllFrom
<1>4. SubSeq(b, 1, n) = b /\ n \in T
  BY <1>0, <1>3
<1> QED
  BY <1>4 DEF T

\* What the chunks put together put is what each of the parts puts.
LEMMA AllPutJoins ==
    ASSUME NEW ss, Len(ss) \in Nat, \A i \in 1..Len(ss) : ss[i] \in Seq(Printing),
           NEW f, Joins(Printing, ss, f)
    PROVE  \E g : /\ Joins(Character, [i \in 1..Len(ss) |-> AllPut(ss[i])], g)
                  /\ AllPut(f[Len(ss)]) = g[Len(ss)]
<1> DEFINE n == Len(ss)
           g == [k \in 0..n |-> AllPut(f[k])]
           ps == [i \in 1..n |-> AllPut(ss[i])]
<1>0. n \in Nat /\ f[0] = <<>> /\ (\A k \in 0..n : f[k] \in Seq(Printing))
                                  /\ (\A k \in 1..n : f[k] = f[k - 1] \o ss[k])
  BY DEF Joins
<1>1. Len(ps) = n /\ (\A k \in 1..n : ps[k] = AllPut(ss[k])) /\ (\A k \in 0..n : g[k] = AllPut(f[k]))
  BY <1>0
<1> HIDE DEF g, ps
<1>2. \A k \in 0..n : g[k] \in Seq(Character)
  BY <1>0, <1>1, AllPutSeq
<1>3. g[0] = <<>>
  BY <1>0, <1>1, AllPutEmpty
<1>4. ASSUME NEW k \in 1..n
      PROVE  g[k] = g[k - 1] \o ps[k]
  <2>1. k - 1 \in 0..n /\ k \in 0..n
    BY <1>0
  <2>2. f[k] = f[k - 1] \o ss[k] /\ f[k - 1] \in Seq(Printing) /\ ss[k] \in Seq(Printing)
    BY <2>1, <1>0
  <2>3. AllPut(f[k]) = AllPut(f[k - 1]) \o AllPut(ss[k])
    BY <2>2, AllPutConcat
  <2> QED
    BY <2>1, <2>3, <1>1
<1>5. Joins(Character, ps, g)
  BY <1>1, <1>2, <1>3, <1>4 DEF Joins
<1>6. AllPut(f[n]) = g[n]
  BY <1>0, <1>1
<1> QED
  BY <1>5, <1>6 DEF ps

-----------------------------------------------------------------------------
(* What print_value writes.                                                *)

\* The parts of what is written of a container.
OpenText(object, format) == IF ~object THEN <<"[">> ELSE IF format THEN <<"{", "\n">> ELSE <<"{">>
OpenChunk(object, format) == IF object THEN Chunk(Len(OpenText(TRUE, format)) + 1, OpenText(TRUE, format), FALSE)
                             ELSE Chunk(1, <<"[">>, FALSE)
CloseText(object, depth, format) == IF ~object THEN <<"]">>
                                    ELSE (IF format THEN Tabs(depth) ELSE <<>>) \o <<"}">>
CloseChunk(object, depth, format) == IF object THEN Chunk(IF format THEN depth + 2 ELSE 2, CloseText(TRUE, depth, format), TRUE)
                                     ELSE Chunk(2, <<"]">>, TRUE)
ColonText(format) == IF format THEN <<":", "\t">> ELSE <<":">>
CommaText(more, format) == (IF more THEN <<",">> ELSE <<>>) \o (IF format THEN <<"\n">> ELSE <<>>)
Indent(depth, format) == IF format THEN <<Chunk(depth + 1, Tabs(depth + 1), FALSE)>> ELSE <<>>
NameChunks(name, depth, format) ==
    Indent(depth, format) \o <<print_string_ptr(name),
        Chunk(Len(ColonText(format)), ColonText(format), FALSE)>>
CommaChunk(format) == Chunk(IF format THEN 3 ELSE 2, IF format THEN <<",", " ">> ELSE <<",">>, TRUE)
AfterChunks(object, more, format) ==
    IF object THEN <<Chunk(Len(CommaText(more, format)) + 1, CommaText(more, format), TRUE)>>
    ELSE IF more THEN <<CommaChunk(format)>> ELSE <<>>
ItemChunks(object, m, more, depth, format, p) ==
    IF object THEN NameChunks(m.name, depth, format) \o p \o AfterChunks(TRUE, more, format)
    ELSE p \o AfterChunks(FALSE, more, format)
ItemsChunks(object, of, depth, format, deeper) ==
    [i \in DOMAIN of |-> ItemChunks(object, of[i], i < Len(of), depth, format, deeper[of[i].v])]
ListChunks(object, of, depth, format, deeper) ==
    IF depth >= CJSON_NESTING_LIMIT THEN <<Refused>>
    ELSE <<OpenChunk(object, format)>> \o FlattenSeq(ItemsChunks(object, of, depth, format, deeper))
         \o <<CloseChunk(object, depth, format)>>

LEMMA ArrayChunks ==
    ASSUME NEW of, NEW depth, NEW format \in BOOLEAN, NEW deeper
    PROVE  print_array(of, depth, format, deeper) = ListChunks(FALSE, of, depth, format, deeper)
<1>1. ItemsChunks(FALSE, of, depth, format, deeper)
      = [i \in DOMAIN of |-> deeper[of[i].v] \o IF i < Len(of) THEN <<CommaChunk(format)>> ELSE <<>>]
  BY DEF ItemsChunks, ItemChunks, AfterChunks
<1> QED
  BY <1>1, Zenon DEF print_array, ListChunks, OpenChunk, CloseChunk, CommaChunk

LEMMA ObjectChunks ==
    ASSUME NEW of, NEW depth, NEW format \in BOOLEAN, NEW deeper
    PROVE  print_object(of, depth, format, deeper) = ListChunks(TRUE, of, depth, format, deeper)
<1>1. ItemsChunks(TRUE, of, depth, format, deeper)
      = [i \in DOMAIN of |->
            Indent(depth, format) \o <<print_string_ptr(of[i].name),
                Chunk(Len(ColonText(format)), ColonText(format), FALSE)>>
            \o deeper[of[i].v] \o <<Chunk(Len(CommaText(i < Len(of), format)) + 1, CommaText(i < Len(of), format), TRUE)>>]
  BY Zenon DEF ItemsChunks, ItemChunks, AfterChunks, NameChunks
<1> QED
  BY <1>1, Zenon DEF print_object, ListChunks, OpenChunk, CloseChunk, OpenText, CloseText,
      CommaText, ColonText, Indent

LEMMA PlainPrinted ==
    ASSUME NEW depth, NEW format, NEW deeper, NEW w \in Word
    PROVE  print_value(Plain(w), depth, format, deeper) = <<Chunk(Width(w) + 1, <<w>>, TRUE)>>
BY DEF print_value, Plain, Word

LEMMA NumberPrinted ==
    ASSUME NEW depth, NEW format, NEW deeper, NEW n
    PROVE  print_value(Number(n), depth, format, deeper) = <<print_number(n)>>
BY DEF print_value, Number, Word

LEMMA StringPrinted ==
    ASSUME NEW depth, NEW format, NEW deeper, NEW s
    PROVE  print_value(String(s), depth, format, deeper) = <<print_string_ptr(s)>>
BY DEF print_value, String, Word

LEMMA ContainerPrinted ==
    ASSUME NEW depth, NEW format \in BOOLEAN, NEW deeper, NEW object \in BOOLEAN, NEW of
    PROVE  print_value(Container(object, of), depth, format, deeper) = ListChunks(object, of, depth, format, deeper)
<1>1. Array(of).type = "array" /\ Array(of).of = of /\ Object(of).type = "object" /\ Object(of).of = of
  BY DEF Array, Object
<1>2. print_value(Array(of), depth, format, deeper) = print_array(of, depth, format, deeper)
  BY <1>1 DEF print_value, Word
<1>3. print_value(Object(of), depth, format, deeper) = print_object(of, depth, format, deeper)
  BY <1>1 DEF print_value, Word
<1>4. CASE object
  <2>1. object = TRUE /\ Container(object, of) = Object(of)
    BY <1>4 DEF Container
  <2> QED
    BY <2>1, <1>3, ObjectChunks
<1>5. CASE ~object
  <2>1. object = FALSE /\ Container(object, of) = Array(of)
    BY <1>5 DEF Container
  <2> QED
    BY <2>1, <1>2, ArrayChunks
<1> QED
  BY <1>4, <1>5

\* Scalars are written the same at every depth.
LEMMA ScalarPrinted ==
    ASSUME NEW v \in Scalar, NEW depth, NEW format \in BOOLEAN, NEW x, NEW y
    PROVE  print_value(v, depth, format, x) = print_value(v, depth, format, y)
<1>1. ASSUME NEW w \in Word, v = Plain(w)
      PROVE  print_value(v, depth, format, x) = print_value(v, depth, format, y)
  <2>1. print_value(Plain(w), depth, format, x) = <<Chunk(Width(w) + 1, <<w>>, TRUE)>>
    BY PlainPrinted
  <2>2. print_value(Plain(w), depth, format, y) = <<Chunk(Width(w) + 1, <<w>>, TRUE)>>
    BY PlainPrinted
  <2> QED
    BY <1>1, <2>1, <2>2
<1>2. ASSUME NEW n \in Int, v = Number(n)
      PROVE  print_value(v, depth, format, x) = print_value(v, depth, format, y)
  <2>1. print_value(Number(n), depth, format, x) = <<print_number(n)>>
    BY NumberPrinted
  <2>2. print_value(Number(n), depth, format, y) = <<print_number(n)>>
    BY NumberPrinted
  <2> QED
    BY <1>2, <2>1, <2>2
<1>3. ASSUME NEW s \in CText, v = String(s)
      PROVE  print_value(v, depth, format, x) = print_value(v, depth, format, y)
  <2>1. print_value(String(s), depth, format, x) = <<print_string_ptr(s)>>
    BY StringPrinted
  <2>2. print_value(String(s), depth, format, y) = <<print_string_ptr(s)>>
    BY StringPrinted
  <2> QED
    BY <1>3, <2>1, <2>2
<1> QED
  BY <1>1, <1>2, <1>3, ScalarCases

PutStep(format, f, d) == [v \in Nested(Deepest - d) |-> print_value(v, d, format, f[d + 1])]

LEMMA DeepestNat == Deepest \in Nat /\ CJSON_NESTING_LIMIT <= Deepest /\ MaxSize <= Deepest
BY LimitNat DEF Deepest

LEMMA PutExist ==
    ASSUME NEW format \in BOOLEAN
    PROVE  \E f : f = [d \in 0..Deepest |-> PutStep(format, f, d)]
<1> DEFINE n == Deepest
           T == {m \in 0..n : \E f : \A d \in n - m..n : f[d] = PutStep(format, f, d)}
<1>0. n \in Nat
  BY DeepestNat
<1>4. ASSUME NEW x, NEW y
      PROVE  PutStep(format, x, n) = PutStep(format, y, n)
  <2>1. Nested(Deepest - n) = Scalar
    <3>1. Deepest - n = 0
      BY <1>0
    <3> QED
      BY <3>1, NestedIs
  <2>2. \A v \in Scalar : print_value(v, n, format, x[n + 1]) = print_value(v, n, format, y[n + 1])
    BY ScalarPrinted
  <2> QED
    BY <2>1, <2>2, Zenon DEF PutStep
<1> HIDE DEF n
<1>1. 0 \in T
  <2> DEFINE f == [d \in 0..n |-> PutStep(format, <<>>, n)]
  <2>1. n - 0 = n /\ n \in 0..n /\ \A d \in n..n : d = n
    BY <1>0
  <2>2. f[n] = PutStep(format, <<>>, n)
    BY <2>1
  <2> HIDE DEF f
  <2>3. f[n] = PutStep(format, f, n)
    BY <2>2, <1>4
  <2>4. \A d \in n - 0..n : f[d] = PutStep(format, f, d)
    BY <2>1, <2>3
  <2> QED
    BY <2>4, <1>0
<1>2. ASSUME NEW m \in 0..n - 1, m \in T
      PROVE  m + 1 \in T
  <2>1. PICK f : \A d \in n - m..n : f[d] = PutStep(format, f, d)
    BY <1>2
  <2> DEFINE e == n - (m + 1)
             h == [d \in 0..n |-> IF d = e THEN PutStep(format, f, d) ELSE f[d]]
  <2>2. e \in 0..n /\ e + 1 = n - m /\ m + 1 \in 0..n /\ e < n /\ e \in Nat
    BY <1>0
  <2> HIDE DEF e
  <2>3. ASSUME NEW d \in e..n
        PROVE  h[d] = PutStep(format, h, d)
    <3>1. d \in 0..n
      BY <2>2
    <3>2. h[d] = PutStep(format, f, d)
      <4>1. CASE d = e
        BY <3>1, <4>1
      <4>2. CASE d # e
        <5>1. d \in n - m..n
          BY <4>2, <2>2, <1>0
        <5>2. h[d] = f[d]
          BY <3>1, <4>2
        <5> QED
          BY <5>1, <5>2, <2>1
      <4> QED
        BY <4>1, <4>2
    <3>3. PutStep(format, h, d) = PutStep(format, f, d)
      <4>1. CASE d = n
        <5> HIDE DEF h
        <5> QED
          BY <4>1, <1>4
      <4>2. CASE d # n
        <5>1. d + 1 \in 0..n /\ d + 1 # e
          BY <3>1, <4>2, <2>2, <1>0
        <5>2. h[d + 1] = f[d + 1]
          BY <5>1
        <5> HIDE DEF h
        <5> QED
          BY <5>2 DEF PutStep
      <4> QED
        BY <4>1, <4>2
    <3> QED
      BY <3>2, <3>3
  <2> HIDE DEF h
  <2>4. \A d \in n - (m + 1)..n : h[d] = PutStep(format, h, d)
    BY <2>3 DEF e
  <2> QED
    BY <2>2, <2>4
<1> HIDE DEF T
<1>3. \A m \in 0..n : m \in T
  BY <1>0, <1>1, <1>2, AllFrom
<1>5. n \in T
  BY <1>0, <1>3
<1>6. PICK g : \A d \in n - n..n : g[d] = PutStep(format, g, d)
  BY <1>5 DEF T
<1>7. n - n = 0
  BY <1>0
<1> DEFINE f == [d \in 0..n |-> g[d]]
<1>8. ASSUME NEW d \in 0..n
      PROVE  g[d] = PutStep(format, f, d)
  <2>1. g[d] = PutStep(format, g, d)
    BY <1>6, <1>7
  <2>2. CASE d = n
    <3> HIDE DEF f
    <3> QED
      BY <2>1, <2>2, <1>4
  <2>3. CASE d # n
    <3>1. d + 1 \in 0..n
      BY <2>3, <1>0
    <3>2. f[d + 1] = g[d + 1]
      BY <3>1
    <3> HIDE DEF f
    <3> QED
      BY <2>1, <3>2 DEF PutStep
  <2> QED
    BY <2>2, <2>3
<1>9. f = [d \in 0..n |-> PutStep(format, f, d)]
  BY <1>8, Zenon
<1> HIDE DEF f
<1> QED
  BY <1>9 DEF n

\* What print_value writes at each depth.
Puts(format, f) == \A d \in 0..Deepest : f[d] = PutStep(format, f, d)

LEMMA ChunksIs ==
    ASSUME NEW format \in BOOLEAN
    PROVE  \E f : Puts(format, f) /\ \A v : Chunks(v, format) = f[0][v]
<1> DEFINE f == CHOOSE f : f = [d \in 0..Deepest |-> PutStep(format, f, d)]
<1>1. f = [d \in 0..Deepest |-> PutStep(format, f, d)]
  BY PutExist
<1>2. \A v : Chunks(v, format) = f[0][v]
  BY Zenon DEF Chunks, PutStep
<1> HIDE DEF f
<1>3. \A d \in 0..Deepest : f[d] = PutStep(format, f, d)
  BY <1>1
<1> QED
  BY <1>2, <1>3 DEF Puts

LEMMA PutsAre ==
    ASSUME NEW format, NEW f, Puts(format, f), NEW d \in 0..Deepest, NEW v \in Nested(Deepest - d)
    PROVE  f[d][v] = print_value(v, d, format, f[d + 1])
<1>1. f[d] = PutStep(format, f, d)
  BY DEF Puts
<1> QED
  BY <1>1, Zenon DEF PutStep

-----------------------------------------------------------------------------
(* What is written of a value can be printed, unless it is too deep.       *)

LEMMA NarrowBytes ==
    ASSUME NEW S, NEW s \in Seq(S), \A k \in 1..Len(s) : Width(s[k]) = 1
    PROVE  Bytes(s) = Len(s)
<1> DEFINE n == Len(s)
<1>0. n \in Nat
  OBVIOUS
<1>1. PICK f : Sums(s, f) /\ Bytes(s) = f[n]
  BY BytesIs
<1> DEFINE T == {k \in 0..n : f[k] = k}
<1>2. 0 \in T
  BY <1>0, <1>1 DEF Sums
<1>3. ASSUME NEW k \in 0..n - 1, k \in T
      PROVE  k + 1 \in T
  <2>1. k + 1 \in 1..n /\ (k + 1) - 1 = k /\ k + 1 \in 0..n
    BY <1>0
  <2>2. f[k + 1] = f[(k + 1) - 1] + Width(s[k + 1])
    BY <2>1, <1>1 DEF Sums
  <2>3. f[k + 1] = k + 1
    BY <2>1, <2>2, <1>3
  <2> QED
    BY <2>1, <2>3
<1> HIDE DEF T
<1>4. \A k \in 0..n : k \in T
  BY <1>0, <1>2, <1>3, AllFrom
<1> QED
  BY <1>0, <1>1, <1>4 DEF T

\* The characters between the values.
Between == {"[", "]", "{", "}", ",", ":", "\t", "\n", " "}

LEMMA BetweenFacts ==
    ASSUME NEW c \in Between
    PROVE  c \in Character /\ Width(c) = 1 /\ c \notin NumberChar /\ c # Quote /\ c \notin Word
<1>1. c \in Character
  BY DEF Between, Character
<1>2. Width(c) = 1
  BY DEF Between, Width, High, Low
<1>3. c \notin NumberChar /\ c # Quote /\ c \notin Word
  BY DEF Between, NumberChar, Quote, Word
<1> QED
  BY <1>1, <1>2, <1>3

LEMMA WordFacts ==
    ASSUME NEW w \in Word
    PROVE  w \in Character /\ w \notin Space
BY DEF Word, Character, Space

LEMMA NumberFacts ==
    ASSUME NEW c \in NumberChar
    PROVE  c \in Character /\ c \notin Space
BY DEF NumberChar, Character, Space

LEMMA SpaceFacts ==
    /\ {" ", "\n", "\t", "nul"} \subseteq Space /\ "nul" \in Character /\ "nul" \notin NumberChar
    /\ Quote \notin Space /\ \A c \in {"[", "]", "{", "}", ",", ":"} : c \notin Space
BY DEF Space, Character, NumberChar, Quote

LEMMA TabsText ==
    ASSUME NEW n \in Nat
    PROVE  /\ Tabs(n) \in Seq(Character) /\ Len(Tabs(n)) = n /\ \A k \in 1..n : Tabs(n)[k] = "\t"
           /\ Bytes(Tabs(n)) = n
<1>1. "\t" \in Character /\ Width("\t") = 1
  BY BetweenFacts DEF Between
<1>2. Tabs(n) \in Seq(Character) /\ Len(Tabs(n)) = n /\ \A k \in 1..n : Tabs(n)[k] = "\t"
  BY <1>1 DEF Tabs
<1>3. Bytes(Tabs(n)) = n
  <2>1. \A k \in 1..Len(Tabs(n)) : Width(Tabs(n)[k]) = 1
    BY <1>1, <1>2
  <2> QED
    BY <2>1, <1>2, NarrowBytes
<1> QED
  BY <1>2, <1>3

LEMMA ConcatAt ==
    ASSUME NEW S, NEW a \in Seq(S), NEW b \in Seq(S)
    PROVE  /\ \A k \in 1..Len(a) : (a \o b)[k] = a[k]
           /\ \A k \in 1..Len(b) : (a \o b)[Len(a) + k] = b[k]
OBVIOUS

LEMMA TuplesIn ==
    ASSUME NEW S, NEW a \in S, NEW b \in S
    PROVE  <<a>> \in Seq(S) /\ <<a, b>> \in Seq(S) /\ <<>> \in Seq(S)
<1>1. <<a>> \in Seq(S)
  OBVIOUS
<1>2. <<a, b>> \in Seq(S)
  OBVIOUS
<1>3. <<>> \in Seq(S)
  OBVIOUS
<1> QED
  BY <1>1, <1>2, <1>3

LEMMA SmallTexts ==
    ASSUME NEW object \in BOOLEAN, NEW format \in BOOLEAN, NEW more \in BOOLEAN
    PROVE  /\ OpenText(object, format) \in Seq(Character)
              /\ Bytes(OpenText(object, format)) = Len(OpenText(object, format))
           /\ ColonText(format) \in Seq(Character) /\ Bytes(ColonText(format)) = Len(ColonText(format))
           /\ CommaText(more, format) \in Seq(Character)
               /\ Bytes(CommaText(more, format)) = Len(CommaText(more, format))
<1>1. ASSUME NEW s \in Seq(Between)
      PROVE  s \in Seq(Character) /\ Bytes(s) = Len(s)
  <2>1. \A k \in 1..Len(s) : s[k] \in Between
    OBVIOUS
  <2>2. \A k \in 1..Len(s) : Width(s[k]) = 1
    BY <2>1, BetweenFacts
  <2>3. \A k \in 1..Len(s) : s[k] \in Character
    BY <2>1, BetweenFacts
  <2> QED
    BY <2>2, <2>3, NarrowBytes, SeqRetyped
<1>0. "[" \in Between /\ "{" \in Between /\ "\n" \in Between /\ ":" \in Between /\ "\t" \in Between /\ "," \in Between
  BY DEF Between
<1>2. OpenText(object, format) \in Seq(Between)
  <2>1. <<"[">> \in Seq(Between) /\ <<"{">> \in Seq(Between) /\ <<"{", "\n">> \in Seq(Between)
    BY <1>0, TuplesIn
  <2> QED
    BY <2>1 DEF OpenText
<1>3. ColonText(format) \in Seq(Between)
  <2>1. <<":">> \in Seq(Between) /\ <<":", "\t">> \in Seq(Between)
    BY <1>0, TuplesIn
  <2> QED
    BY <2>1 DEF ColonText
<1>4. CommaText(more, format) \in Seq(Between)
  <2> DEFINE x == IF more THEN <<",">> ELSE <<>>
             y == IF format THEN <<"\n">> ELSE <<>>
  <2>0. <<",">> \in Seq(Between) /\ <<"\n">> \in Seq(Between) /\ <<>> \in Seq(Between)
    BY <1>0, TuplesIn
  <2>1. x \in Seq(Between) /\ y \in Seq(Between)
    BY <2>0
  <2> HIDE DEF x, y
  <2>2. x \o y \in Seq(Between)
    BY <2>1
  <2> QED
    BY <2>2 DEF CommaText, x, y
<1> QED
  BY <1>1, <1>2, <1>3, <1>4

LEMMA CloseTextSeq ==
    ASSUME NEW object \in BOOLEAN, NEW depth \in Nat, NEW format \in BOOLEAN
    PROVE  /\ CloseText(object, depth, format) \in Seq(Character)
           /\ Bytes(CloseText(object, depth, format)) = Len(CloseText(object, depth, format))
           /\ Len(CloseText(object, depth, format)) = IF object /\ format THEN depth + 1 ELSE 1
           /\ CloseText(object, depth, format)[Len(CloseText(object, depth, format))] = Close(object)
           /\ \A k \in 1..Len(CloseText(object, depth, format)) - 1 : CloseText(object, depth, format)[k] = "\t"
<1> DEFINE s == CloseText(object, depth, format)
           b == Close(object)
<1>0. b \in Character /\ Width(b) = 1
  <2>1. b \in Between
    BY DEF Close, Between
  <2> QED
    BY <2>1, BetweenFacts
<1>1. CASE ~(object /\ format)
  <2>1. CloseText(object, depth, format) = <<b>>
    <3>1. CASE ~object
      BY <3>1 DEF CloseText, Close
    <3>2. CASE object /\ ~format
      <4>1. CloseText(object, depth, format) = <<>> \o <<"}">> /\ b = "}"
        BY <3>2 DEF CloseText, Close
      <4>2. <<>> \o <<"}">> = <<"}">>
        OBVIOUS
      <4> QED
        BY <4>1, <4>2
    <3> QED
      BY <1>1, <3>1, <3>2
  <2> HIDE DEF b
  <2>2. <<b>> \in Seq(Character) /\ Len(<<b>>) = 1 /\ <<b>>[1] = b
      /\ \A k \in 1..Len(<<b>>) - 1 : <<b>>[k] = "\t"
    BY <1>0
  <2>3. Bytes(<<b>>) = 1
    BY <1>0, BytesOne
  <2> QED
    BY <2>1, <2>2, <2>3, <1>1 DEF b
<1>2. CASE object /\ format
  <2> DEFINE T == Tabs(depth)
  <2>1. s = T \o <<b>>
    BY <1>2 DEF CloseText, Close
  <2>3. T \in Seq(Character) /\ Len(T) = depth /\ (\A k \in 1..depth : T[k] = "\t") /\ Bytes(T) = depth
    BY TabsText
  <2> HIDE DEF T, b, s
  <2>5. s \in Seq(Character) /\ Len(s) = depth + 1 /\ s[depth + 1] = b
      /\ \A k \in 1..depth : s[k] = "\t"
    <3>1. <<b>> \in Seq(Character) /\ Len(<<b>>) = 1 /\ <<b>>[1] = b
      BY <1>0
    <3> DEFINE q == <<b>>
    <3> HIDE DEF q
    <3>2. q \in Seq(Character) /\ Len(q) = 1 /\ q[1] = b /\ s = T \o q
      BY <3>1, <2>1 DEF q
    <3>3. T \o q \in Seq(Character) /\ Len(T \o q) = Len(T) + 1
      BY <3>2, <2>3, ConcatSeq
    <3>4. (\A k \in 1..Len(T) : (T \o q)[k] = T[k]) /\ \A k \in 1..Len(q) : (T \o q)[Len(T) + k] = q[k]
      <4>1. T \in Seq(Character)
        BY <2>3
      <4>2. q \in Seq(Character)
        BY <3>2
      <4> QED
        BY <4>1, <4>2, ConcatAt
    <3>6. 1 \in 1..Len(q)
      BY <3>2
    <3>5. (T \o q)[Len(T) + 1] = q[1]
      BY <3>4, <3>6
    <3> QED
      BY <3>2, <3>3, <3>4, <3>5, <2>3
  <2>6. Bytes(s) = depth + 1
    <3>1. <<b>> \in Seq(Character)
      BY <1>0
    <3>2. Bytes(<<b>>) = 1
      BY <1>0, BytesOne
    <3>3. Bytes(s) = Bytes(T) + Bytes(<<b>>)
      BY <2>1, <2>3, <3>1, BytesConcat
    <3> QED
      BY <2>3, <3>2, <3>3
  <2>7. (depth + 1) - 1 = depth
    OBVIOUS
  <2>8. /\ s \in Seq(Character) /\ Bytes(s) = Len(s) /\ Len(s) = IF object
           /\ format THEN depth + 1 ELSE 1
        /\ s[Len(s)] = b /\ \A k \in 1..Len(s) - 1 : s[k] = "\t"
    BY <2>5, <2>6, <2>7, <1>2
  <2> QED
    BY <2>8 DEF s, b
<1> QED
  BY <1>1, <1>2

LEMMA OpenPrintable ==
    ASSUME NEW object \in BOOLEAN, NEW format \in BOOLEAN
    PROVE  /\ OpenChunk(object, format) \in Printable
           /\ OpenChunk(object, format).put = OpenText(object, format)
<1> DEFINE s == OpenText(object, format)
<1>1. s \in Seq(Character) /\ Bytes(s) = Len(s)
  BY SmallTexts
<1>2. CASE object
  <2>0. object = TRUE
    BY <1>2
  <2>1. OpenChunk(object, format) = Chunk(Len(s) + 1, s, FALSE)
    BY <2>0 DEF OpenChunk
  <2> HIDE DEF s
  <2>2. Len(s) + 1 \in {Bytes(s), Bytes(s) + 1}
    BY <1>1
  <2> QED
    <3>1. FALSE \in BOOLEAN
      OBVIOUS
    <3>2. Chunk(Len(s) + 1, s, FALSE) \in Printable
      BY <1>1, <2>2, <3>1, ChunkPrintable
    <3>3. Chunk(Len(s) + 1, s, FALSE).put = s
      BY DEF Chunk
    <3> QED
      BY <2>1, <3>2, <3>3 DEF s
<1>3. CASE ~object
  <2>1. OpenChunk(object, format) = Chunk(1, s, FALSE) /\ s = <<"[">>
    BY <1>3 DEF OpenChunk, OpenText
  <2> HIDE DEF s
  <2>2. 1 \in {Bytes(s), Bytes(s) + 1}
    <3>1. Len(<<"[">>) = 1
      OBVIOUS
    <3> QED
      BY <1>1, <2>1, <3>1
  <2> QED
    <3>1. FALSE \in BOOLEAN
      OBVIOUS
    <3>2. Chunk(1, s, FALSE) \in Printable
      BY <1>1, <2>2, <3>1, ChunkPrintable
    <3>3. Chunk(1, s, FALSE).put = s
      BY DEF Chunk
    <3> QED
      BY <2>1, <3>2, <3>3 DEF s
<1> QED
  BY <1>2, <1>3

LEMMA ClosePrintable ==
    ASSUME NEW object \in BOOLEAN, NEW depth \in Nat, NEW format \in BOOLEAN
    PROVE  /\ CloseChunk(object, depth, format) \in Printable
           /\ CloseChunk(object, depth, format).put = CloseText(object, depth, format)
<1> DEFINE s == CloseText(object, depth, format)
           a == IF object THEN IF format THEN depth + 2 ELSE 2 ELSE 2
<1>1. s \in Seq(Character) /\ Bytes(s) = Len(s) /\ Len(s) = IF object /\ format THEN depth + 1 ELSE 1
  BY CloseTextSeq
<1>2. a \in {Bytes(s), Bytes(s) + 1}
  <2> HIDE DEF s
  <2> QED
    BY <1>1
<1>3. CloseChunk(object, depth, format) = Chunk(a, s, TRUE)
  <2>1. CASE object
    <3>1. object = TRUE
      BY <2>1
    <3> QED
      BY <3>1 DEF CloseChunk
  <2>2. CASE ~object
    <3>1. s = <<"]">> /\ a = 2 /\ object = FALSE
      BY <2>2 DEF CloseText
    <3> QED
      BY <3>1 DEF CloseChunk
  <2> QED
    BY <2>1, <2>2
<1> HIDE DEF s, a
<1>4. TRUE \in BOOLEAN
  OBVIOUS
<1>5. Chunk(a, s, TRUE) \in Printable
  BY <1>1, <1>2, <1>4, ChunkPrintable
<1>6. Chunk(a, s, TRUE).put = s
  BY DEF Chunk
<1> QED
  BY <1>3, <1>5, <1>6 DEF s

LEMMA StringPrintable ==
    ASSUME NEW s \in CText
    PROVE  print_string_ptr(s) \in Printable /\ print_string_ptr(s).put = Quoted(s)
<1>1. s \in Seq(Character)
  BY DEF CText
<1>2. Quoted(s) \in Seq(Character) /\ escape_characters(s) \in Nat
    /\ Bytes(Quoted(s)) = Bytes(s) + escape_characters(s) + 2
  BY <1>1, QuotedBytes
<1>3. Bytes(s) \in Nat
  BY <1>1, BytesNat
<1> DEFINE a == Bytes(s) + escape_characters(s) + 3
<1>4. a \in {Bytes(Quoted(s)), Bytes(Quoted(s)) + 1}
  BY <1>2, <1>3
<1>5. print_string_ptr(s) = Chunk(a, Quoted(s), TRUE)
  BY DEF print_string_ptr
<1> HIDE DEF a
<1>6. Chunk(a, Quoted(s), TRUE) \in Printable
  BY <1>2, <1>4, ChunkPrintable
<1>7. Chunk(a, Quoted(s), TRUE).put = Quoted(s)
  BY DEF Chunk
<1> QED
  BY <1>5, <1>6, <1>7

LEMMA NumberTextSeq ==
    ASSUME NEW n \in Int
    PROVE  NumberText(n) \in Seq(Character) /\ Len(NumberText(n)) >= 1
        /\ NumberText(n)[1] \in NumberChar
<1>1. DigitChar \subseteq Character /\ "-" \in Character /\ DigitChar \subseteq NumberChar
    /\ "-" \in NumberChar
  BY DEF DigitChar, Character, NumberChar
<1>2. CASE n < 0
  <2>1. -n \in Nat
    BY <1>2
  <2> DEFINE s == Digits(-n)
  <2>2. s \in Seq(DigitChar) /\ Len(s) >= 1
    BY <2>1, DigitsRead
  <2> HIDE DEF s
  <2>3. s \in Seq(Character)
    BY <1>1, <2>2
  <2>4. <<"-">> \o s \in Seq(Character) /\ Len(<<"-">> \o s) >= 1 /\ (<<"-">> \o s)[1] = "-"
    BY <1>1, <2>2, <2>3
  <2> QED
    BY <1>1, <1>2, <2>4 DEF NumberText, s
<1>3. CASE ~(n < 0)
  <2>1. n \in Nat
    BY <1>3
  <2> DEFINE s == Digits(n)
  <2>2. s \in Seq(DigitChar) /\ Len(s) >= 1
    BY <2>1, DigitsRead
  <2> HIDE DEF s
  <2>3. s \in Seq(Character) /\ s[1] \in NumberChar
    BY <1>1, <2>2
  <2> QED
    BY <1>3, <2>2, <2>3 DEF NumberText, s
<1> QED
  BY <1>2, <1>3

LEMMA NumberPrintable ==
    ASSUME NEW n \in Int
    PROVE  print_number(n) \in Printable /\ print_number(n).put = NumberText(n)
<1> DEFINE s == NumberText(n)
<1>1. s \in Seq(Character)
  BY NumberTextSeq
<1>2. Bytes(s) + 1 \in {Bytes(s), Bytes(s) + 1}
  OBVIOUS
<1>3. print_number(n) = Chunk(Bytes(s) + 1, s, TRUE)
  BY Zenon DEF print_number, NumberText
<1> HIDE DEF s
<1>4. Chunk(Bytes(s) + 1, s, TRUE) \in Printable
  BY <1>1, <1>2, ChunkPrintable
<1>5. Chunk(Bytes(s) + 1, s, TRUE).put = s
  BY DEF Chunk
<1> QED
  BY <1>3, <1>4, <1>5 DEF s

LEMMA WordPrintable ==
    ASSUME NEW w \in Word
    PROVE  Chunk(Width(w) + 1, <<w>>, TRUE) \in Printable
        /\ Chunk(Width(w) + 1, <<w>>, TRUE).put = <<w>>
<1>1. w \in Character
  BY WordFacts
<1>2. Width(w) + 1 \in {Bytes(<<w>>), Bytes(<<w>>) + 1}
  BY BytesOne
<1>3. <<w>> \in Seq(Character) /\ TRUE \in BOOLEAN
  BY <1>1
<1>4. Chunk(Width(w) + 1, <<w>>, TRUE) \in Printable
  BY <1>2, <1>3, ChunkPrintable
<1>5. Chunk(Width(w) + 1, <<w>>, TRUE).put = <<w>>
  BY DEF Chunk
<1> QED
  BY <1>4, <1>5

\* What is written of a scalar.
ScalarText(v) == CASE v.type \in Word -> <<v.type>>
                   [] v.type = "number" -> NumberText(v.int)
                   [] v.type = "string" -> Quoted(v.chars)

LEMMA ScalarWritten ==
    ASSUME NEW v \in Scalar, NEW depth, NEW format, NEW deeper
    PROVE  \E c \in Printable : print_value(v, depth, format, deeper) = <<c>> /\ c.put = ScalarText(v)
<1>1. ASSUME NEW w \in Word, v = Plain(w)
      PROVE  \E c \in Printable : print_value(v, depth, format, deeper) = <<c>> /\ c.put = ScalarText(v)
  <2>1. ScalarText(v) = <<w>>
    <3>1. v.type = w
      BY <1>1 DEF Plain
    <3>2. w # "number" /\ w # "string"
      BY DEF Word
    <3> QED
      BY <3>1, <3>2 DEF ScalarText
  <2> QED
    BY <1>1, <2>1, PlainPrinted, WordPrintable
<1>2. ASSUME NEW n \in Int, v = Number(n)
      PROVE  \E c \in Printable : print_value(v, depth, format, deeper) = <<c>> /\ c.put = ScalarText(v)
  <2>1. ScalarText(v) = NumberText(n)
    BY <1>2 DEF ScalarText, Number, Word
  <2> QED
    BY <1>2, <2>1, NumberPrinted, NumberPrintable
<1>3. ASSUME NEW s \in CText, v = String(s)
      PROVE  \E c \in Printable : print_value(v, depth, format, deeper) = <<c>> /\ c.put = ScalarText(v)
  <2>1. ScalarText(v) = Quoted(s)
    BY <1>3 DEF ScalarText, String, Word
  <2> QED
    BY <1>3, <2>1, StringPrinted, StringPrintable
<1> QED
  BY <1>1, <1>2, <1>3, ScalarCases

-----------------------------------------------------------------------------
(* What is written of the items of a container.                            *)

LEMMA PrintableSeq ==
    ASSUME NEW s \in Seq(Printable)
    PROVE  s \in Seq(Printing)
<1>1. Printable \subseteq Printing
  BY DEF Printing
<1> HIDE DEF Printing
<1> QED
  BY <1>1

LEMMA PrintableOne ==
    ASSUME NEW c \in Printable
    PROVE  <<c>> \in Seq(Printable) /\ AllPut(<<c>>) = c.put
<1>1. <<c>> \in Seq(Printable)
  OBVIOUS
<1>2. c \in Printing
  BY DEF Printing
<1> QED
  BY <1>1, <1>2, AllPutOne

LEMMA PrintableConcat ==
    ASSUME NEW a \in Seq(Printable), NEW b \in Seq(Printable)
    PROVE  a \o b \in Seq(Printable) /\ AllPut(a \o b) = AllPut(a) \o AllPut(b)
<1>1. a \o b \in Seq(Printable)
  BY ConcatSeq
<1>2. a \in Seq(Printing) /\ b \in Seq(Printing)
  BY PrintableSeq
<1> QED
  BY <1>1, <1>2, AllPutConcat

IndentText(depth, format) == IF format THEN Tabs(depth + 1) ELSE <<>>
NameText(name, depth, format) == IndentText(depth, format) \o (Quoted(name) \o ColonText(format))
BeforeText(object, m, depth, format) == IF object THEN NameText(m.name, depth, format) ELSE <<>>
AfterText(object, more, format) ==
    IF object THEN CommaText(more, format)
    ELSE IF more THEN IF format THEN <<",", " ">> ELSE <<",">> ELSE <<>>
ItemText(object, m, more, depth, format, s) ==
    (BeforeText(object, m, depth, format) \o s) \o AfterText(object, more, format)

LEMMA IndentWritten ==
    ASSUME NEW depth \in Nat, NEW format \in BOOLEAN
    PROVE  /\ Indent(depth, format) \in Seq(Printable)
           /\ AllPut(Indent(depth, format)) = IndentText(depth, format)
           /\ IndentText(depth, format) \in Seq(Character)
<1>1. CASE ~format
  <2>1. Indent(depth, format) = <<>> /\ IndentText(depth, format) = <<>>
    BY <1>1 DEF Indent, IndentText
  <2>2. <<>> \in Seq(Printable) /\ <<>> \in Seq(Character)
    OBVIOUS
  <2> QED
    BY <2>1, <2>2, AllPutEmpty
<1>2. CASE format
  <2> DEFINE s == Tabs(depth + 1)
             c == Chunk(depth + 1, s, FALSE)
  <2>1. depth + 1 \in Nat
    OBVIOUS
  <2>2. s \in Seq(Character) /\ Bytes(s) = depth + 1
    BY <2>1, TabsText
  <2>3. Indent(depth, format) = <<c>> /\ IndentText(depth, format) = s
    BY <1>2 DEF Indent, IndentText
  <2>4. c.put = s
    BY DEF Chunk
  <2>5. depth + 1 \in {Bytes(s), Bytes(s) + 1} /\ FALSE \in BOOLEAN
    BY <2>2
  <2> HIDE DEF s
  <2>6. c \in Printable
    BY <2>2, <2>5, ChunkPrintable
  <2> HIDE DEF c
  <2> QED
    BY <2>2, <2>3, <2>4, <2>6, PrintableOne
<1> QED
  BY <1>1, <1>2

LEMMA NameWritten ==
    ASSUME NEW name \in CText, NEW depth \in Nat, NEW format \in BOOLEAN
    PROVE  /\ NameChunks(name, depth, format) \in Seq(Printable)
           /\ AllPut(NameChunks(name, depth, format)) = NameText(name, depth, format)
           /\ NameText(name, depth, format) \in Seq(Character)
<1> DEFINE a == Indent(depth, format)
           q == print_string_ptr(name)
           k == ColonText(format)
           c == Chunk(Len(k), k, FALSE)
<1>1. a \in Seq(Printable) /\ AllPut(a) = IndentText(depth, format)
    /\ IndentText(depth, format) \in Seq(Character)
  BY IndentWritten
<1>2. q \in Printable /\ q.put = Quoted(name) /\ Quoted(name) \in Seq(Character)
  <2>1. name \in Seq(Character)
    BY DEF CText
  <2> QED
    BY <2>1, StringPrintable, QuotedBytes
<1>3. c \in Printable /\ c.put = k /\ k \in Seq(Character)
  <2>1. k \in Seq(Character) /\ Bytes(k) = Len(k)
    BY SmallTexts
  <2>2. c.put = k
    BY DEF Chunk
  <2> HIDE DEF k
  <2>3. Len(k) \in {Bytes(k), Bytes(k) + 1} /\ FALSE \in BOOLEAN
    BY <2>1
  <2>4. Chunk(Len(k), k, FALSE) \in Printable
    BY <2>1, <2>3, ChunkPrintable
  <2> QED
    BY <2>1, <2>2, <2>4
<1>4. NameChunks(name, depth, format) = a \o <<q, c>>
  BY DEF NameChunks
<1> HIDE DEF a, q, c, k
<1>5. <<q, c>> = <<q>> \o <<c>>
  OBVIOUS
<1>6. <<q>> \in Seq(Printable) /\ AllPut(<<q>>) = q.put /\ <<c>> \in Seq(Printable)
    /\ AllPut(<<c>>) = c.put
  BY <1>2, <1>3, PrintableOne
<1>7. <<q>> \o <<c>> \in Seq(Printable) /\ AllPut(<<q>> \o <<c>>) = Quoted(name) \o k
  <2> DEFINE x == <<q>>
             y == <<c>>
  <2>1. x \in Seq(Printable) /\ AllPut(x) = Quoted(name) /\ y \in Seq(Printable) /\ AllPut(y) = k
    BY <1>2, <1>3, <1>6
  <2> HIDE DEF x, y
  <2>2. x \o y \in Seq(Printable) /\ AllPut(x \o y) = AllPut(x) \o AllPut(y)
    BY <2>1, PrintableConcat
  <2>3. x \o y \in Seq(Printable) /\ AllPut(x \o y) = Quoted(name) \o k
    BY <2>1, <2>2
  <2> QED
    BY <2>3 DEF x, y
<1>8. a \o (<<q>> \o <<c>>) \in Seq(Printable)
    /\ AllPut(a \o (<<q>> \o <<c>>)) = IndentText(depth, format) \o (Quoted(name) \o k)
  BY <1>1, <1>7, PrintableConcat
<1>9. IndentText(depth, format) \o (Quoted(name) \o k) \in Seq(Character)
  <2>1. Quoted(name) \o k \in Seq(Character)
    BY <1>2, <1>3, ConcatSeq
  <2> QED
    BY <1>1, <2>1, ConcatSeq
<1> QED
  BY <1>4, <1>5, <1>8, <1>9 DEF NameText, k

LEMMA AfterWritten ==
    ASSUME NEW object \in BOOLEAN, NEW more \in BOOLEAN, NEW format \in BOOLEAN
    PROVE  /\ AfterChunks(object, more, format) \in Seq(Printable)
           /\ AllPut(AfterChunks(object, more, format)) = AfterText(object, more, format)
           /\ AfterText(object, more, format) \in Seq(Character)
<1>1. CASE object
  <2> DEFINE s == CommaText(more, format)
             c == Chunk(Len(s) + 1, s, TRUE)
  <2>1. AfterChunks(object, more, format) = <<c>> /\ AfterText(object, more, format) = s
    BY <1>1 DEF AfterChunks, AfterText
  <2>2. s \in Seq(Character) /\ Bytes(s) = Len(s)
    BY SmallTexts
  <2>3. c.put = s
    BY DEF Chunk
  <2> HIDE DEF s
  <2>4. Len(s) + 1 \in {Bytes(s), Bytes(s) + 1} /\ TRUE \in BOOLEAN
    BY <2>2
  <2>5. c \in Printable
    BY <2>2, <2>4, ChunkPrintable
  <2> HIDE DEF c
  <2> QED
    BY <2>1, <2>2, <2>3, <2>5, PrintableOne
<1>2. CASE ~object /\ ~more
  <2>1. AfterChunks(object, more, format) = <<>> /\ AfterText(object, more, format) = <<>>
    BY <1>2 DEF AfterChunks, AfterText
  <2>2. <<>> \in Seq(Printable) /\ <<>> \in Seq(Character)
    OBVIOUS
  <2> QED
    BY <2>1, <2>2, AllPutEmpty
<1>3. CASE ~object /\ more
  <2> DEFINE s == IF format THEN <<",", " ">> ELSE <<",">>
             n == IF format THEN 3 ELSE 2
             c == Chunk(n, s, TRUE)
  <2>1. AfterChunks(object, more, format) = <<c>> /\ AfterText(object, more, format) = s
    BY <1>3 DEF AfterChunks, AfterText, CommaChunk
  <2>0. "," \in Character /\ " " \in Character /\ Width(",") = 1 /\ Width(" ") = 1
    BY BetweenFacts DEF Between
  <2>2. s \in Seq(Character)
    BY <2>0, TuplesIn
  <2>3. c.put = s
    BY DEF Chunk
  <2>4. (format => s = <<",", " ">> /\ n = 3) /\ (~format => s = <<",">> /\ n = 2) /\ TRUE \in BOOLEAN
    OBVIOUS
  <2>6. Bytes(<<",">>) = 1
    BY <2>0, BytesOne
  <2>7. Bytes(<<",", " ">>) = 2
    <3>1. <<",", " ">> \in Seq(Character)
      BY <2>0, TuplesIn
    <3>2. Len(<<",", " ">>) = 2 /\ <<",", " ">>[1] = "," /\ <<",", " ">>[2] = " "
      OBVIOUS
    <3>3. \A k \in 1..Len(<<",", " ">>) : Width(<<",", " ">>[k]) = 1
      <4> SUFFICES ASSUME NEW k \in 1..2
                   PROVE  Width(<<",", " ">>[k]) = 1
        BY <3>2
      <4>1. k = 1 \/ k = 2
        OBVIOUS
      <4> QED
        BY <4>1, <3>2, <2>0
    <3> QED
      BY <3>1, <3>2, <3>3, NarrowBytes
  <2> HIDE DEF s, n
  <2>8. n \in {Bytes(s), Bytes(s) + 1}
    <3>1. CASE format
      <4>1. Bytes(s) = 2 /\ n = 3
        BY <3>1, <2>4, <2>7
      <4> QED
        BY <4>1
    <3>2. CASE ~format
      <4>1. Bytes(s) = 1 /\ n = 2
        BY <3>2, <2>4, <2>6
      <4> QED
        BY <4>1
    <3> QED
      BY <3>1, <3>2
  <2>5. c \in Printable
    BY <2>2, <2>4, <2>8, ChunkPrintable
  <2> HIDE DEF c
  <2> QED
    BY <2>1, <2>2, <2>3, <2>5, PrintableOne
<1> QED
  BY <1>1, <1>2, <1>3

BeforeChunks(object, m, depth, format) == IF object THEN NameChunks(m.name, depth, format) ELSE <<>>

LEMMA BeforeWritten ==
    ASSUME NEW object \in BOOLEAN, NEW V, NEW m \in ItemOf(object, V), NEW depth \in Nat,
           NEW format \in BOOLEAN
    PROVE  /\ BeforeChunks(object, m, depth, format) \in Seq(Printable)
           /\ AllPut(BeforeChunks(object, m, depth, format)) = BeforeText(object, m, depth, format)
           /\ BeforeText(object, m, depth, format) \in Seq(Character)
<1>1. CASE object
  <2>1. m.name \in CText
    BY <1>1 DEF ItemOf
  <2>2. BeforeChunks(object, m, depth, format) = NameChunks(m.name, depth, format)
        /\ BeforeText(object, m, depth, format) = NameText(m.name, depth, format)
    BY <1>1 DEF BeforeChunks, BeforeText
  <2> QED
    BY <2>1, <2>2, NameWritten
<1>2. CASE ~object
  <2>1. BeforeChunks(object, m, depth, format) = <<>> /\ BeforeText(object, m, depth, format) = <<>>
    BY <1>2 DEF BeforeChunks, BeforeText
  <2>2. <<>> \in Seq(Printable) /\ <<>> \in Seq(Character)
    OBVIOUS
  <2> QED
    BY <2>1, <2>2, AllPutEmpty
<1> QED
  BY <1>1, <1>2

\* An item is written as its value with what comes before and after it.
LEMMA ItemWritten ==
    ASSUME NEW object \in BOOLEAN, NEW V, NEW m \in ItemOf(object, V), NEW more \in BOOLEAN,
           NEW depth \in Nat, NEW format \in BOOLEAN, NEW p \in Seq(Printing)
    PROVE  LET c == ItemChunks(object, m, more, depth, format, p)
           IN  /\ c \in Seq(Printing)
               /\ c \in Seq(Printable) <=> p \in Seq(Printable)
               /\ AllPut(c) = ItemText(object, m, more, depth, format, AllPut(p))
               /\ AllPut(c) \in Seq(Character)
<1> DEFINE a == BeforeChunks(object, m, depth, format)
           b == AfterChunks(object, more, format)
           c == ItemChunks(object, m, more, depth, format, p)
<1>1. a \in Seq(Printable) /\ AllPut(a) = BeforeText(object, m, depth, format)
  BY BeforeWritten
<1>2. b \in Seq(Printable) /\ AllPut(b) = AfterText(object, more, format)
  BY AfterWritten
<1>3. a \in Seq(Printing) /\ b \in Seq(Printing)
  BY <1>1, <1>2, PrintableSeq
<1>4. c = (a \o p) \o b
  <2>1. CASE object
    BY <2>1 DEF ItemChunks, BeforeChunks
  <2>2. CASE ~object
    <3>1. c = p \o b /\ a = <<>>
      BY <2>2 DEF ItemChunks, BeforeChunks
    <3>2. <<>> \o p = p
      BY EmptyConcat
    <3> QED
      BY <3>1, <3>2
  <2> QED
    BY <2>1, <2>2
<1> HIDE DEF a, b, c
<1>5. a \o p \in Seq(Printing)
  BY <1>3, ConcatSeq
<1>6. c \in Seq(Printing)
  BY <1>3, <1>4, <1>5, ConcatSeq
<1>7. ASSUME p \in Seq(Printable)
      PROVE  c \in Seq(Printable)
  <2>1. a \o p \in Seq(Printable)
    BY <1>1, <1>7, ConcatSeq
  <2> QED
    BY <1>2, <1>4, <2>1, ConcatSeq
<1>8. ASSUME c \in Seq(Printable)
      PROVE  p \in Seq(Printable)
  <2>1. a \o p \in Seq(Printable)
    BY <1>3, <1>4, <1>5, <1>8, ConcatIn
  <2> QED
    BY <1>3, <2>1, ConcatIn
<1>9. AllPut(c) = (AllPut(a) \o AllPut(p)) \o AllPut(b)
  <2>1. AllPut(c) = AllPut(a \o p) \o AllPut(b)
    BY <1>3, <1>4, <1>5, AllPutConcat
  <2>2. AllPut(a \o p) = AllPut(a) \o AllPut(p)
    BY <1>3, AllPutConcat
  <2> QED
    BY <2>1, <2>2
<1>10. AllPut(c) = ItemText(object, m, more, depth, format, AllPut(p))
  BY <1>1, <1>2, <1>9 DEF ItemText
<1>11. AllPut(c) \in Seq(Character)
  BY <1>6, AllPutSeq
<1> QED
  BY <1>6, <1>7, <1>8, <1>10, <1>11 DEF c

\* The texts of the items of a container.
ItemTexts(object, of, depth, format, deeper) ==
    [i \in 1..Len(of) |-> ItemText(object, of[i], i < Len(of), depth, format, AllPut(deeper[of[i].v]))]

LEMMA ItemsWritten ==
    ASSUME NEW object \in BOOLEAN, NEW V, NEW of \in Seq(ItemOf(object, V)), NEW depth \in Nat,
           NEW format \in BOOLEAN,
           NEW deeper, \A v \in V : deeper[v] \in Seq(Printing)
    PROVE  LET c == FlattenSeq(ItemsChunks(object, of, depth, format, deeper))
           IN  /\ c \in Seq(Printing)
               /\ c \in Seq(Printable) <=> \A i \in 1..Len(of) : deeper[of[i].v] \in Seq(Printable)
               /\ \E g : /\ Joins(Character, ItemTexts(object, of, depth, format, deeper), g)
                         /\ AllPut(c) = g[Len(of)]
<1> DEFINE n == Len(of)
           ss == ItemsChunks(object, of, depth, format, deeper)
           texts == ItemTexts(object, of, depth, format, deeper)
           item(i) == ItemChunks(object, of[i], i < n, depth, format, deeper[of[i].v])
<1>0. n \in Nat /\ DOMAIN of = 1..n /\ \A i \in 1..n : of[i] \in ItemOf(object, V)
  OBVIOUS
<1>1. \A i \in 1..n : of[i].v \in V
  BY <1>0 DEF ItemOf
<1>2. ss = [i \in 1..n |-> item(i)]
  BY <1>0 DEF ItemsChunks
<1>3. texts = [i \in 1..n |-> ItemText(object, of[i], i < n, depth, format, AllPut(deeper[of[i].v]))]
  BY DEF ItemTexts
<1>4. ASSUME NEW i \in 1..n
      PROVE  /\ item(i) \in Seq(Printing)
             /\ item(i) \in Seq(Printable) <=> deeper[of[i].v] \in Seq(Printable)
             /\ AllPut(item(i)) = ItemText(object, of[i], i < n, depth, format, AllPut(deeper[of[i].v]))
  <2>1. of[i] \in ItemOf(object, V) /\ deeper[of[i].v] \in Seq(Printing) /\ (i < n) \in BOOLEAN
    BY <1>0, <1>1
  <2> DEFINE more == i < n
             p == deeper[of[i].v]
             m == of[i]
             c == ItemChunks(object, m, more, depth, format, p)
  <2>2. more \in BOOLEAN /\ p \in Seq(Printing) /\ m \in ItemOf(object, V)
    BY <2>1
  <2> HIDE DEF more, p, m
  <2>3. c \in Seq(Printing) /\ (c \in Seq(Printable) <=> p \in Seq(Printable))
      /\ AllPut(c) = ItemText(object, m, more, depth, format, AllPut(p))
    BY <2>2, ItemWritten
  <2> QED
    BY <2>3 DEF more, p, m
<1> HIDE DEF item
<1>5. /\ Len(ss) = n /\ ss = [i \in 1..Len(ss) |-> ss[i]]
      /\ \A i \in 1..n : ss[i] = item(i)
  BY <1>0, <1>2
<1>6. \A i \in 1..n : texts[i] = ItemText(object, of[i], i < n, depth, format, AllPut(deeper[of[i].v]))
  BY <1>3
<1> HIDE DEF ss, texts
<1>7. \A i \in 1..Len(ss) : ss[i] \in Seq(Printing)
  BY <1>4, <1>5
<1>8. PICK f : Joins(Printing, ss, f) /\ FlattenSeq(ss) = f[Len(ss)]
  BY <1>0, <1>5, <1>7, FlattenIs
<1>9. Len(ss) \in Nat
  BY <1>0, <1>5
<1>10. PICK g : Joins(Character, [i \in 1..Len(ss) |-> AllPut(ss[i])], g)
    /\ AllPut(f[Len(ss)]) = g[Len(ss)]
  BY <1>7, <1>8, <1>9, AllPutJoins
<1>11. [i \in 1..Len(ss) |-> AllPut(ss[i])] = texts
  BY <1>3, <1>4, <1>5
<1>12. FlattenSeq(ss) \in Seq(Printing)
  <2>1. Len(ss) \in 0..Len(ss)
    BY <1>9
  <2> QED
    BY <1>8, <2>1 DEF Joins
<1>13. FlattenSeq(ss) \in Seq(Printable) <=> \A i \in 1..n : ss[i] \in Seq(Printable)
  <2>1. f[Len(ss)] \in Seq(Printable) <=> \A i \in 1..Len(ss) : ss[i] \in Seq(Printable)
    BY <1>7, <1>8, <1>9, JoinsIn
  <2> QED
    BY <2>1, <1>5, <1>8
<1>14. (\A i \in 1..n : ss[i] \in Seq(Printable)) <=> \A i \in 1..n : deeper[of[i].v] \in Seq(Printable)
  BY <1>4, <1>5
<1>15. Joins(Character, texts, g) /\ AllPut(FlattenSeq(ss)) = g[n]
  BY <1>5, <1>8, <1>10, <1>11
<1> QED
  BY <1>12, <1>13, <1>14, <1>15 DEF ss, texts

\* The text of a container whose items are written one level deeper.
ListText(object, of, depth, format, deeper, s) ==
    \E g : /\ Joins(Character, ItemTexts(object, of, depth, format, deeper), g)
           /\ s = (OpenText(object, format) \o g[Len(of)]) \o CloseText(object, depth, format)

\* A container can be printed when its items can and it is not too deep.
LEMMA ListWritten ==
    ASSUME NEW object \in BOOLEAN, NEW V, NEW of \in Seq(ItemOf(object, V)), NEW depth \in Nat,
           NEW format \in BOOLEAN,
           NEW deeper, \A v \in V : deeper[v] \in Seq(Printing)
    PROVE  LET c == ListChunks(object, of, depth, format, deeper)
           IN  /\ c \in Seq(Printing)
               /\ c \in Seq(Printable) <=> /\ depth < CJSON_NESTING_LIMIT
                                           /\ \A i \in 1..Len(of) : deeper[of[i].v] \in Seq(Printable)
               /\ depth < CJSON_NESTING_LIMIT => ListText(object, of, depth, format, deeper, AllPut(c))
<1> DEFINE c == ListChunks(object, of, depth, format, deeper)
           a == OpenChunk(object, format)
           b == CloseChunk(object, depth, format)
           m == FlattenSeq(ItemsChunks(object, of, depth, format, deeper))
<1>0. CJSON_NESTING_LIMIT \in Nat
  BY LimitNat
<1>1. CASE depth >= CJSON_NESTING_LIMIT
  <2>1. c = <<Refused>> /\ ~(depth < CJSON_NESTING_LIMIT)
    BY <1>0, <1>1 DEF ListChunks
  <2>2. Refused \in Printing /\ Refused \notin Printable
    BY PrintableFacts DEF Printing
  <2> HIDE DEF c
  <2>3. c \in Seq(Printing)
    BY <2>1, <2>2
  <2>4. c \notin Seq(Printable)
    <3> SUFFICES ASSUME c \in Seq(Printable)
                 PROVE  FALSE
      OBVIOUS
    <3>1. Len(c) = 1 /\ c[1] = Refused
      BY <2>1
    <3>2. c[1] \in Printable
      BY <3>1
    <3> QED
      BY <3>1, <3>2, <2>2
  <2> QED
    BY <2>1, <2>3, <2>4 DEF c
<1>2. CASE depth < CJSON_NESTING_LIMIT
  <2>1. c = (<<a>> \o m) \o <<b>>
    BY <1>0, <1>2 DEF ListChunks
  <2>2. a \in Printable /\ a.put = OpenText(object, format) /\ b \in Printable
      /\ b.put = CloseText(object, depth, format)
    BY OpenPrintable, ClosePrintable
  <2>3. /\ m \in Seq(Printing)
        /\ m \in Seq(Printable) <=> \A i \in 1..Len(of) : deeper[of[i].v] \in Seq(Printable)
        /\ \E g : Joins(Character, ItemTexts(object, of, depth, format, deeper), g)
            /\ AllPut(m) = g[Len(of)]
    BY ItemsWritten
  <2> DEFINE x == <<a>>
             y == <<b>>
  <2> HIDE DEF a, b, m, c
  <2>4. x \in Seq(Printable) /\ AllPut(x) = OpenText(object, format) /\ y \in Seq(Printable)
      /\ AllPut(y) = CloseText(object, depth, format)
    BY <2>2, PrintableOne
  <2>5. c = (x \o m) \o y
    BY <2>1
  <2> HIDE DEF x, y
  <2>6. x \in Seq(Printing) /\ y \in Seq(Printing)
    BY <2>4, PrintableSeq
  <2>7. x \o m \in Seq(Printing)
    BY <2>3, <2>6, ConcatSeq
  <2>8. c \in Seq(Printing)
    BY <2>5, <2>6, <2>7, ConcatSeq
  <2>9. ASSUME m \in Seq(Printable)
        PROVE  c \in Seq(Printable)
    <3>1. x \o m \in Seq(Printable)
      BY <2>4, <2>9, ConcatSeq
    <3> QED
      BY <2>4, <2>5, <3>1, ConcatSeq
  <2>10. ASSUME c \in Seq(Printable)
         PROVE  m \in Seq(Printable)
    <3>1. x \o m \in Seq(Printable)
      BY <2>5, <2>6, <2>7, <2>10, ConcatIn
    <3> QED
      BY <2>3, <2>6, <3>1, ConcatIn
  <2>11. AllPut(c) = (AllPut(x) \o AllPut(m)) \o AllPut(y)
    <3>1. AllPut(c) = AllPut(x \o m) \o AllPut(y)
      BY <2>5, <2>6, <2>7, AllPutConcat
    <3>2. AllPut(x \o m) = AllPut(x) \o AllPut(m)
      BY <2>3, <2>6, AllPutConcat
    <3> QED
      BY <3>1, <3>2
  <2>12. PICK g : Joins(Character, ItemTexts(object, of, depth, format, deeper), g)
      /\ AllPut(m) = g[Len(of)]
    BY <2>3
  <2>13. AllPut(c) = (OpenText(object, format) \o g[Len(of)]) \o CloseText(object, depth, format)
    BY <2>4, <2>11, <2>12
  <2>14. ListText(object, of, depth, format, deeper, AllPut(c))
    BY <2>12, <2>13 DEF ListText
  <2> QED
    BY <1>2, <2>3, <2>8, <2>9, <2>10, <2>14 DEF c
<1>3. depth >= CJSON_NESTING_LIMIT \/ depth < CJSON_NESTING_LIMIT
  BY <1>0
<1> HIDE DEF c
<1> QED
  BY <1>1, <1>2, <1>3

\* Everything that is held can be written, or is refused.
LEMMA PutPrinting ==
    ASSUME NEW format \in BOOLEAN, NEW f, Puts(format, f), NEW d \in 0..Deepest
    PROVE  \A v \in Nested(Deepest - d) : f[d][v] \in Seq(Printing)
<1> DEFINE n == Deepest
           T == {m \in 0..n : \A v \in Nested(m) : f[n - m][v] \in Seq(Printing)}
<1>0. n \in Nat
  BY DeepestNat
<1>1. ASSUME NEW e \in 0..n, NEW v \in Nested(n - e), v \in Scalar
      PROVE  f[e][v] \in Seq(Printing)
  <2>1. f[e][v] = print_value(v, e, format, f[e + 1])
    BY PutsAre
  <2>2. PICK c \in Printable : print_value(v, e, format, f[e + 1]) = <<c>>
    BY <1>1, ScalarWritten
  <2>3. <<c>> \in Seq(Printing)
    BY PrintableOne, PrintableSeq
  <2> QED
    BY <2>1, <2>2, <2>3
<1>2. 0 \in T
  <2>1. n - 0 \in 0..n /\ n - (n - 0) = 0 /\ Nested(0) = Scalar
    BY <1>0, NestedIs
  <2>2. \A v \in Nested(0) : f[n - 0][v] \in Seq(Printing)
    BY <2>1, <1>1
  <2> HIDE DEF n
  <2> QED
    BY <2>2, <1>0
<1>3. ASSUME NEW m \in 0..n - 1, m \in T
      PROVE  m + 1 \in T
  <2> DEFINE e == n - (m + 1)
  <2>1. e \in 0..n /\ e + 1 = n - m /\ n - e = m + 1 /\ m + 1 \in 0..n /\ e \in Nat
      /\ (m + 1) - 1 = m /\ m + 1 \in Nat
    BY <1>0
  <2>2. \A w \in Nested(m) : f[n - m][w] \in Seq(Printing)
    BY <1>3
  <2> HIDE DEF e, n
  <2>3. ASSUME NEW v \in Nested(m + 1)
        PROVE  f[e][v] \in Seq(Printing)
    <3>1. CASE v \in Scalar
      BY <2>1, <2>3, <3>1, <1>1
    <3>2. CASE v \notin Scalar
      <4>1. PICK object \in BOOLEAN : \E of \in Seq(ItemOf(object, Nested(m))) : v = Container(object, of)
        BY <2>1, <3>2, NestedCases
      <4>2. PICK of \in Seq(ItemOf(object, Nested(m))) : v = Container(object, of)
        BY <4>1
      <4>3. f[e][v] = print_value(v, e, format, f[e + 1])
        BY <2>1, PutsAre DEF n
      <4>4. print_value(v, e, format, f[e + 1]) = ListChunks(object, of, e, format, f[e + 1])
        BY <4>2, ContainerPrinted
      <4>5. ListChunks(object, of, e, format, f[e + 1]) \in Seq(Printing)
        BY <2>1, <2>2, ListWritten
      <4> QED
        BY <4>3, <4>4, <4>5
    <3> QED
      BY <3>1, <3>2
  <2>4. \A v \in Nested(m + 1) : f[n - (m + 1)][v] \in Seq(Printing)
    BY <2>3 DEF e
  <2> QED
    BY <2>1, <2>4
<1> HIDE DEF T
<1>4. \A m \in 0..n : m \in T
  BY <1>0, <1>2, <1>3, AllFrom
<1>5. n - d \in 0..n /\ n - (n - d) = d
  BY <1>0
<1>6. n - d \in T
  BY <1>4, <1>5
<1> QED
  BY <1>5, <1>6 DEF T

\* What nests no deeper than the limit is not refused.
LEMMA PutPrintable ==
    ASSUME NEW format \in BOOLEAN, NEW f, Puts(format, f), NEW d \in 0..CJSON_NESTING_LIMIT
    PROVE  \A v \in Nested(CJSON_NESTING_LIMIT - d) : f[d][v] \in Seq(Printable)
<1> DEFINE n == CJSON_NESTING_LIMIT
           T == {m \in 0..n : \A v \in Nested(m) : f[n - m][v] \in Seq(Printable)}
<1>0. n \in Nat /\ Deepest \in Nat /\ n <= Deepest
  BY DeepestNat, LimitNat
<1>7. ASSUME NEW m \in 0..n, NEW v \in Nested(m)
      PROVE  n - m \in 0..Deepest /\ v \in Nested(Deepest - (n - m))
          /\ f[n - m][v] = print_value(v, n - m, format, f[(n - m) + 1])
  <2>1. n - m \in 0..Deepest /\ Deepest - (n - m) \in Nat /\ m <= Deepest - (n - m) /\ m \in Nat
    BY <1>0
  <2>2. v \in Nested(Deepest - (n - m))
    BY <2>1, NestedUp
  <2> QED
    BY <2>1, <2>2, PutsAre
<1>1. ASSUME NEW m \in 0..n, NEW v \in Nested(m), v \in Scalar
      PROVE  f[n - m][v] \in Seq(Printable)
  <2>1. PICK c \in Printable : print_value(v, n - m, format, f[(n - m) + 1]) = <<c>>
    BY <1>1, ScalarWritten
  <2>2. <<c>> \in Seq(Printable)
    BY PrintableOne
  <2> QED
    BY <1>7, <2>1, <2>2
<1>2. 0 \in T
  <2>1. 0 \in 0..n /\ Nested(0) = Scalar
    BY <1>0, NestedIs
  <2>2. \A v \in Nested(0) : f[n - 0][v] \in Seq(Printable)
    BY <2>1, <1>1
  <2> HIDE DEF n
  <2> QED
    BY <2>1, <2>2
<1>3. ASSUME NEW m \in 0..n - 1, m \in T
      PROVE  m + 1 \in T
  <2> DEFINE e == n - (m + 1)
  <2>1. e \in 0..Deepest /\ e + 1 = n - m /\ m + 1 \in 0..n /\ e \in Nat /\ (m + 1) - 1 = m
      /\ m + 1 \in Nat /\ e < n
    BY <1>0
  <2>2. \A w \in Nested(m) : f[n - m][w] \in Seq(Printable)
    BY <1>3
  <2>5. \A w \in Nested(m) : f[n - m][w] \in Seq(Printing)
    BY <2>2, PrintableSeq
  <2>3. ASSUME NEW v \in Nested(m + 1)
        PROVE  f[n - (m + 1)][v] \in Seq(Printable)
    <3>1. CASE v \in Scalar
      BY <2>1, <2>3, <3>1, <1>1
    <3>2. CASE v \notin Scalar
      <4>1. PICK object \in BOOLEAN : \E of \in Seq(ItemOf(object, Nested(m))) : v = Container(object, of)
        BY <2>1, <3>2, NestedCases
      <4>2. PICK of \in Seq(ItemOf(object, Nested(m))) : v = Container(object, of)
        BY <4>1
      <4>3. f[e][v] = print_value(v, e, format, f[e + 1])
        BY <2>1, <1>7
      <4>4. print_value(v, e, format, f[e + 1]) = ListChunks(object, of, e, format, f[e + 1])
        BY <4>2, ContainerPrinted
      <4>6. \A i \in 1..Len(of) : f[e + 1][of[i].v] \in Seq(Printable)
        <5>1. \A i \in 1..Len(of) : of[i] \in ItemOf(object, Nested(m))
          OBVIOUS
        <5>2. \A i \in 1..Len(of) : of[i].v \in Nested(m)
          BY <5>1 DEF ItemOf
        <5> QED
          BY <5>2, <2>1, <2>2
      <4> HIDE DEF e, n
      <4>7. \A w \in Nested(m) : f[e + 1][w] \in Seq(Printing)
        BY <2>1, <2>5
      <4>5. ListChunks(object, of, e, format, f[e + 1]) \in Seq(Printable)
        BY <2>1, <4>6, <4>7, ListWritten DEF n
      <4> QED
        BY <4>3, <4>4, <4>5 DEF e
    <3> QED
      BY <3>1, <3>2
  <2> HIDE DEF n
  <2> QED
    BY <2>1, <2>3
<1> HIDE DEF T
<1>4. \A m \in 0..n : m \in T
  BY <1>0, <1>2, <1>3, AllFrom
<1>5. n - d \in 0..n /\ n - (n - d) = d
  BY <1>0
<1>6. n - d \in T
  BY <1>4, <1>5
<1> QED
  BY <1>5, <1>6 DEF T

-----------------------------------------------------------------------------
(* The print buffer.                                                       *)

Buffer == [offset : Nat, length : Int, noalloc : BOOLEAN, ok : BOOLEAN, inside : BOOLEAN]

LEMMA BufferRefused ==
    ASSUME NEW y \in Buffer
    PROVE  [y EXCEPT !.ok = FALSE] = [offset |-> y.offset, length |-> y.length, noalloc |-> y.noalloc, ok |-> FALSE, inside |-> y.inside]
<1> DEFINE r == [y EXCEPT !.ok = FALSE]
<1>0. y \in [offset : Nat, length : Int, noalloc : BOOLEAN, ok : BOOLEAN, inside : BOOLEAN]
  BY DEF Buffer
<1>1. r.offset = y.offset
  BY <1>0
<1>2. r.length = y.length
  BY <1>0
<1>3. r.noalloc = y.noalloc
  BY <1>0
<1>4. r.ok = FALSE
  BY <1>0
<1>5. r.inside = y.inside
  BY <1>0
<1>6. r \in [offset : Nat, length : Int, noalloc : BOOLEAN, ok : BOOLEAN, inside : BOOLEAN]
  BY <1>0
<1> HIDE DEF r
<1>7. r = [offset |-> r.offset, length |-> r.length, noalloc |-> r.noalloc, ok |-> r.ok, inside |-> r.inside]
  BY <1>6
<1>8. r = [offset |-> y.offset, length |-> y.length, noalloc |-> y.noalloc, ok |-> FALSE, inside |-> y.inside]
  BY <1>1, <1>2, <1>3, <1>4, <1>5, <1>7
<1> QED
  BY <1>8 DEF r

LEMMA BufferLonger ==
    ASSUME NEW y \in Buffer, NEW x \in Nat
    PROVE  [y EXCEPT !.length = x] = [offset |-> y.offset, length |-> x, noalloc |-> y.noalloc, ok |-> y.ok, inside |-> y.inside]
<1> DEFINE r == [y EXCEPT !.length = x]
<1>0. y \in [offset : Nat, length : Int, noalloc : BOOLEAN, ok : BOOLEAN, inside : BOOLEAN]
  BY DEF Buffer
<1>1. r.offset = y.offset
  BY <1>0
<1>2. r.length = x
  BY <1>0
<1>3. r.noalloc = y.noalloc
  BY <1>0
<1>4. r.ok = y.ok
  BY <1>0
<1>5. r.inside = y.inside
  BY <1>0
<1>6. r \in [offset : Nat, length : Int, noalloc : BOOLEAN, ok : BOOLEAN, inside : BOOLEAN]
  BY <1>0
<1> HIDE DEF r
<1>7. r = [offset |-> r.offset, length |-> r.length, noalloc |-> r.noalloc, ok |-> r.ok, inside |-> r.inside]
  BY <1>6
<1>8. r = [offset |-> y.offset, length |-> x, noalloc |-> y.noalloc, ok |-> y.ok, inside |-> y.inside]
  BY <1>1, <1>2, <1>3, <1>4, <1>5, <1>7
<1> QED
  BY <1>8 DEF r

LEMMA BufferWritten ==
    ASSUME NEW y \in Buffer, NEW x \in Nat, NEW b \in BOOLEAN
    PROVE  [y EXCEPT !.offset = x, !.inside = b] = [offset |-> x, length |-> y.length, noalloc |-> y.noalloc, ok |-> y.ok, inside |-> b]
<1> DEFINE r == [y EXCEPT !.offset = x, !.inside = b]
<1>0. y \in [offset : Nat, length : Int, noalloc : BOOLEAN, ok : BOOLEAN, inside : BOOLEAN]
  BY DEF Buffer
<1>1. r.offset = x
  BY <1>0
<1>2. r.length = y.length
  BY <1>0
<1>3. r.noalloc = y.noalloc
  BY <1>0
<1>4. r.ok = y.ok
  BY <1>0
<1>5. r.inside = b
  BY <1>0
<1>6. r \in [offset : Nat, length : Int, noalloc : BOOLEAN, ok : BOOLEAN, inside : BOOLEAN]
  BY <1>0
<1> HIDE DEF r
<1>7. r = [offset |-> r.offset, length |-> r.length, noalloc |-> r.noalloc, ok |-> r.ok, inside |-> r.inside]
  BY <1>6
<1>8. r = [offset |-> x, length |-> y.length, noalloc |-> y.noalloc, ok |-> y.ok, inside |-> b]
  BY <1>1, <1>2, <1>3, <1>4, <1>5, <1>7
<1> QED
  BY <1>8 DEF r

LEMMA BufferFields ==
    ASSUME NEW y \in Buffer
    PROVE  y.offset \in Nat /\ y.length \in Int /\ y.noalloc \in BOOLEAN /\ y.ok \in BOOLEAN
        /\ y.inside \in BOOLEAN
BY DEF Buffer

\* What is granted is room for what is asked, and one byte more.
LEMMA Ensured ==
    ASSUME NEW y \in Buffer, NEW needed \in Nat
    PROVE  LET q == ensure(y, needed)
           IN  /\ q \in Buffer /\ q.offset = y.offset /\ q.noalloc = y.noalloc /\ q.inside = y.inside
               /\ y.noalloc => q.length = y.length
               /\ q.ok => y.ok /\ needed + y.offset + 1 <= q.length
               /\ y.ok /\ (y.length = 0 \/ y.offset < y.length) /\ needed <= INT_MAX
                  /\ (needed + y.offset + 1 <= y.length \/ (~y.noalloc /\ needed + y.offset + 1 <= INT_MAX))
                  => q.ok
<1> DEFINE q == ensure(y, needed)
           size == needed + y.offset + 1
           L == IF size > INT_MAX \div 2 THEN INT_MAX ELSE size * 2
<1>0. y.offset \in Nat /\ y.length \in Int /\ y.noalloc \in BOOLEAN /\ y.ok \in BOOLEAN
    /\ y.inside \in BOOLEAN
  BY BufferFields
<1>1. INT_MAX \in Nat /\ size \in Int
  BY <1>0, LimitNat
<1> DEFINE full == y.length > 0 /\ y.offset >= y.length
           over == needed > INT_MAX \/ (size > y.length /\ (y.noalloc \/ size > INT_MAX))
<1>2. CASE full \/ over
  <2>1. q = [y EXCEPT !.ok = FALSE]
    BY <1>2 DEF ensure
  <2>2. q = [offset |-> y.offset, length |-> y.length, noalloc |-> y.noalloc, ok |-> FALSE, inside |-> y.inside]
    BY <2>1, BufferRefused
  <2> HIDE DEF q
  <2>3. q \in Buffer /\ q.offset = y.offset /\ q.noalloc = y.noalloc /\ q.inside = y.inside
      /\ q.length = y.length /\ ~q.ok
    BY <1>0, <2>2 DEF Buffer
  <2>4. ~(/\ y.length = 0 \/ y.offset < y.length
          /\ needed <= INT_MAX
          /\ size <= y.length \/ (~y.noalloc /\ size <= INT_MAX))
    BY <1>0, <1>1, <1>2
  <2> QED
    BY <2>3, <2>4 DEF q
<1>3. CASE ~full /\ ~over /\ size <= y.length
  <2>1. q = y
    BY <1>3 DEF ensure
  <2> QED
    BY <1>3, <2>1
<1>4. CASE ~full /\ ~over /\ ~(size <= y.length)
  <2>1. q = [y EXCEPT !.length = L]
    BY <1>4 DEF ensure
  <2>2. size <= INT_MAX /\ ~y.noalloc /\ size > y.length
    BY <1>0, <1>1, <1>4
  <2>5. size >= 0
    BY <1>0
  <2>11. L \in Nat /\ size <= L
    <3> HIDE DEF size
    <3>1. CASE size > INT_MAX \div 2
      BY <3>1, <2>2, <2>5, <1>1
    <3>2. CASE ~(size > INT_MAX \div 2)
      BY <3>2, <2>2, <2>5, <1>1
    <3> QED
      BY <3>1, <3>2
  <2> HIDE DEF L
  <2>12. q = [offset |-> y.offset, length |-> L, noalloc |-> y.noalloc, ok |-> y.ok, inside |-> y.inside]
    BY <2>1, <2>11, BufferLonger
  <2> HIDE DEF q
  <2>13. q \in Buffer /\ q.offset = y.offset /\ q.noalloc = y.noalloc /\ q.inside = y.inside
      /\ q.length = L /\ q.ok = y.ok
    BY <1>0, <2>11, <2>12 DEF Buffer
  <2> QED
    BY <2>2, <2>11, <2>13 DEF q
<1> QED
  BY <1>2, <1>3, <1>4

\* What is written stays inside the buffer, and is written when it can be.
LEMMA WriteFacts ==
    ASSUME NEW y \in Buffer, NEW c \in Printing
    PROVE  LET r == Write(y, c)
           IN  /\ r \in Buffer /\ r.noalloc = y.noalloc
               /\ y.inside => r.inside
               /\ r.ok => y.ok /\ c \in Printable
               /\ y.ok /\ c \in Printable /\ (y.length = 0 \/ y.offset < y.length) /\ c.ask <= INT_MAX
                  /\ (c.ask + y.offset + 1 <= y.length \/ (~y.noalloc /\ c.ask + y.offset + 1 <= INT_MAX))
                  => /\ r.ok /\ r.offset = y.offset + c.size /\ r.offset < r.length
                     /\ y.noalloc => r.length = y.length
<1> DEFINE r == Write(y, c)
           q == ensure(y, c.ask)
           offset == y.offset + c.size
           b == y.inside /\ offset + (IF c.ends THEN 1 ELSE 0) <= q.length
<1>0. y.offset \in Nat /\ y.length \in Int /\ y.noalloc \in BOOLEAN /\ y.ok \in BOOLEAN
    /\ y.inside \in BOOLEAN
  BY BufferFields
<1>1. c = Refused \/ (c \in Printable /\ c # Refused)
  BY PrintableFacts DEF Printing
<1>2. ASSUME r = [y EXCEPT !.ok = FALSE]
      PROVE  r \in Buffer /\ r.noalloc = y.noalloc /\ (y.inside => r.inside) /\ ~r.ok
  <2>1. r = [offset |-> y.offset, length |-> y.length, noalloc |-> y.noalloc, ok |-> FALSE, inside |-> y.inside]
    BY <1>2, BufferRefused
  <2> HIDE DEF r
  <2> QED
    BY <1>0, <2>1 DEF Buffer
<1>3. CASE c = Refused
  <2>1. r = [y EXCEPT !.ok = FALSE]
    BY <1>3 DEF Write
  <2>2. c \notin Printable
    BY <1>3, PrintableFacts
  <2> QED
    BY <2>1, <2>2, <1>2
<1>4. CASE c \in Printable /\ c # Refused
  <2>0. c.size \in Nat /\ c.ask \in {c.size, c.size + 1} /\ c.ends \in BOOLEAN
    BY <1>4, PrintableFacts
  <2>1. c.ask \in Nat /\ c.size <= c.ask
    BY <2>0
  <2>2. /\ q \in Buffer /\ q.offset = y.offset /\ q.noalloc = y.noalloc /\ q.inside = y.inside
        /\ y.noalloc => q.length = y.length
        /\ q.ok => y.ok /\ c.ask + y.offset + 1 <= q.length
        /\ y.ok /\ (y.length = 0 \/ y.offset < y.length) /\ c.ask <= INT_MAX
                  /\ (c.ask + y.offset + 1 <= y.length \/ (~y.noalloc /\ c.ask + y.offset + 1 <= INT_MAX))
                  => q.ok
    BY <2>1, Ensured
  <2>3. CASE ~y.ok \/ ~q.ok
    <3>1. r = [y EXCEPT !.ok = FALSE]
      BY <2>3 DEF Write
    <3> HIDE DEF q
    <3> QED
      BY <3>1, <1>2, <2>2, <2>3
  <2>4. CASE y.ok /\ q.ok
    <3>0. q.offset \in Nat /\ q.length \in Int /\ q.noalloc \in BOOLEAN /\ q.ok \in BOOLEAN
        /\ q.inside \in BOOLEAN
      BY <2>2, BufferFields
    <3>1. r = [q EXCEPT !.offset = offset, !.inside = b]
      BY <1>4, <2>2, <2>4 DEF Write
    <3>2. offset \in Nat /\ b \in BOOLEAN
      BY <1>0, <2>0
    <3>3. offset + (IF c.ends THEN 1 ELSE 0) <= q.length /\ offset < q.length
      <4> HIDE DEF q
      <4> QED
        BY <1>0, <2>0, <2>1, <2>2, <2>4, <3>0
    <3>4. b = y.inside
      BY <3>3, <1>0
    <3> HIDE DEF b, offset
    <3>5. r = [offset |-> offset, length |-> q.length, noalloc |-> q.noalloc, ok |-> q.ok, inside |-> b]
      BY <3>1, <3>2, <2>2, BufferWritten
    <3> HIDE DEF r, q
    <3>6. r \in Buffer /\ r.noalloc = y.noalloc /\ r.inside = y.inside /\ r.ok = q.ok
        /\ r.offset = offset /\ r.length = q.length
      BY <3>0, <3>2, <3>4, <3>5, <2>2 DEF Buffer
    <3> QED
      BY <3>6, <3>3, <2>2, <2>4, <1>4 DEF r, offset
  <2> QED
    BY <2>3, <2>4, <1>0
<1> QED
  BY <1>1, <1>3, <1>4

PrintStep(chunks, length, noalloc, f, k) == IF k = 0 THEN [offset |-> 0, length |-> length, noalloc |-> noalloc, ok |-> TRUE, inside |-> TRUE] ELSE Write(f[k - 1], chunks[k])

\* What the first chunks leave of the buffer.
Prints(chunks, length, noalloc, f) == /\ f[0] = [offset |-> 0, length |-> length, noalloc |-> noalloc, ok |-> TRUE, inside |-> TRUE] /\ \A k \in 0..Len(chunks) : f[k] \in Buffer
                                    /\ \A k \in 1..Len(chunks) : f[k] = Write(f[k - 1], chunks[k])

LEMMA PrintIs ==
    ASSUME NEW chunks \in Seq(Printing), NEW length \in Int, NEW noalloc \in BOOLEAN
    PROVE  \E f : Prints(chunks, length, noalloc, f)
        /\ Printed(chunks, length, noalloc) = f[Len(chunks)]
<1> DEFINE n == Len(chunks)
           F == [k \in 1..n |-> [y \in Buffer |-> Write(y, chunks[k])]]
<1>1. [offset |-> 0, length |-> length, noalloc |-> noalloc, ok |-> TRUE, inside |-> TRUE] \in Buffer /\ \A k \in 1..n : \A y \in Buffer : Write(y, chunks[k]) \in Buffer
  <2>1. [offset |-> 0, length |-> length, noalloc |-> noalloc, ok |-> TRUE, inside |-> TRUE] \in Buffer
    BY DEF Buffer
  <2>2. ASSUME NEW k \in 1..n, NEW y \in Buffer
        PROVE  Write(y, chunks[k]) \in Buffer
    <3>1. chunks[k] \in Printing
      OBVIOUS
    <3> QED
      BY <3>1, WriteFacts
  <2> QED
    BY <2>1, <2>2
<1>2. \A k \in 1..n : \A y \in Buffer : F[k][y] = Write(y, chunks[k])
  OBVIOUS
<1>3. n \in Nat
  OBVIOUS
<1>4. F \in [1..n -> [Buffer -> Buffer]]
  BY <1>1
<1> HIDE DEF F, n
<1>5. PICK g : IsRow(g, Buffer, n, [offset |-> 0, length |-> length, noalloc |-> noalloc, ok |-> TRUE, inside |-> TRUE], F)
  BY <1>1, <1>3, <1>4, RowExists
<1>6. g \in [0..n -> Buffer]
    /\ g[0] = [offset |-> 0, length |-> length, noalloc |-> noalloc, ok |-> TRUE, inside |-> TRUE]
        /\ \A k \in 1..n : g[k] = F[k][g[k - 1]]
  BY <1>5 DEF IsRow
<1>7. g[0] = [offset |-> 0, length |-> length, noalloc |-> noalloc, ok |-> TRUE, inside |-> TRUE]
    /\ (\A k \in 0..n : g[k] \in Buffer) /\ (\A k \in 1..n : g[k] = F[k][g[k - 1]])
  BY <1>6
<1>8. g = [k \in 0..n |-> g[k]]
  BY <1>6
<1>9. ASSUME NEW k \in 0..n
      PROVE  g[k] = PrintStep(chunks, length, noalloc, g, k)
  <2>1. CASE k = 0
    BY <2>1, <1>7 DEF PrintStep
  <2>2. CASE k # 0
    <3>1. k \in 1..n /\ k - 1 \in 0..n
      BY <2>2, <1>3
    <3>2. g[k - 1] \in Buffer /\ g[k] = F[k][g[k - 1]]
      BY <3>1, <1>7
    <3>3. F[k][g[k - 1]] = Write(g[k - 1], chunks[k])
      BY <3>1, <3>2, <1>2
    <3> QED
      BY <3>2, <3>3, <2>2 DEF PrintStep
  <2> QED
    BY <2>1, <2>2
<1>10. g = [k \in 0..n |-> PrintStep(chunks, length, noalloc, g, k)]
  BY <1>8, <1>9
<1> DEFINE f == CHOOSE f : f = [k \in 0..n |-> PrintStep(chunks, length, noalloc, f, k)]
<1>11. f = [k \in 0..n |-> PrintStep(chunks, length, noalloc, f, k)]
  BY <1>10
<1>12. Printed(chunks, length, noalloc) = f[n]
  BY Zenon DEF Printed, PrintStep, n
<1> HIDE DEF f
<1>13. \A k \in 0..n : f[k] = PrintStep(chunks, length, noalloc, f, k)
  BY <1>11
<1>14. f[0] = g[0]
  <2>1. 0 \in 0..n
    BY <1>3
  <2>2. f[0] = PrintStep(chunks, length, noalloc, f, 0)
    BY <1>13, <2>1, Zenon
  <2>3. PrintStep(chunks, length, noalloc, f, 0) = [offset |-> 0, length |-> length, noalloc |-> noalloc, ok |-> TRUE, inside |-> TRUE]
    BY Zenon DEF PrintStep
  <2> QED
    BY <2>2, <2>3, <1>7, Zenon
<1>15. ASSUME NEW k \in 1..n, f[k - 1] = g[k - 1]
       PROVE  f[k] = g[k]
  BY <1>13, <1>9, <1>15, <1>3 DEF PrintStep
<1>16. \A k \in 0..n : f[k] = g[k]
  BY <1>14, <1>15, <1>3, RowsAgree
<1>17. \A k \in 1..n : g[k] = Write(g[k - 1], chunks[k])
  BY <1>9, <1>3 DEF PrintStep
<1>18. Prints(chunks, length, noalloc, g)
  BY <1>7, <1>17 DEF Prints, n
<1> QED
  BY <1>12, <1>16, <1>18, <1>3 DEF n

\* Nothing is written beyond the buffer, and a value that is refused is not
\* taken for printed.
LEMMA PrintedInside ==
    ASSUME NEW chunks \in Seq(Printing), NEW length \in Int, NEW noalloc \in BOOLEAN
    PROVE  /\ Printed(chunks, length, noalloc).inside
           /\ Printed(chunks, length, noalloc).ok => chunks \in Seq(Printable)
<1> DEFINE n == Len(chunks)
<1>0. n \in Nat /\ \A k \in 1..n : chunks[k] \in Printing
  OBVIOUS
<1>1. PICK w : Prints(chunks, length, noalloc, w) /\ Printed(chunks, length, noalloc) = w[n]
  BY PrintIs
<1>2. /\ w[0] = [offset |-> 0, length |-> length, noalloc |-> noalloc, ok |-> TRUE, inside |-> TRUE]
      /\ \A k \in 0..n : w[k] \in Buffer
      /\ \A k \in 1..n : w[k] = Write(w[k - 1], chunks[k])
  BY <1>1 DEF Prints
<1> DEFINE T == {k \in 0..n : w[k].inside /\ (w[k].ok => \A i \in 1..k : chunks[i] \in Printable)}
<1>3. 0 \in T
  BY <1>0, <1>2
<1>4. ASSUME NEW k \in 0..n - 1, k \in T
      PROVE  k + 1 \in T
  <2>1. k + 1 \in 1..n /\ (k + 1) - 1 = k /\ k \in 0..n /\ k + 1 \in 0..n
      /\ \A i \in 1..k + 1 : i = k + 1 \/ i \in 1..k
    BY <1>0
  <2>2. w[k + 1] = Write(w[k], chunks[k + 1]) /\ w[k] \in Buffer /\ chunks[k + 1] \in Printing
    BY <2>1, <1>0, <1>2
  <2>3. /\ w[k].inside => w[k + 1].inside
        /\ w[k + 1].ok => w[k].ok /\ chunks[k + 1] \in Printable
    BY <2>2, WriteFacts
  <2>4. w[k + 1].inside /\ (w[k + 1].ok => \A i \in 1..k + 1 : chunks[i] \in Printable)
    BY <2>1, <2>3, <1>4
  <2> QED
    BY <2>1, <2>4
<1> HIDE DEF T, n
<1>5. \A k \in 0..n : k \in T
  BY <1>0, <1>3, <1>4, AllFrom
<1>6. n \in T
  BY <1>0, <1>5
<1>7. w[n].inside /\ (w[n].ok => \A i \in 1..n : chunks[i] \in Printable)
  BY <1>6 DEF T
<1>8. (\A i \in 1..n : chunks[i] \in Printable) => chunks \in Seq(Printable)
  BY SeqRetyped DEF n
<1> QED
  BY <1>1, <1>7, <1>8

\* There is room when the buffer may grow as far as needed, or is long enough
\* from the start.
LEMMA PrintedOk ==
    ASSUME NEW chunks \in Seq(Printable), NEW length \in Nat, NEW noalloc \in BOOLEAN,
           NEW total, total = Bytes(AllPut(chunks)), total + 2 <= INT_MAX,
           noalloc => length >= total + 2
    PROVE  Printed(chunks, length, noalloc).ok
<1> DEFINE n == Len(chunks)
<1>0. n \in Nat /\ (\A k \in 1..n : chunks[k] \in Printable) /\ chunks \in Seq(Printing)
  BY PrintableSeq
<1>00. INT_MAX \in Nat
  BY LimitNat
<1>1. PICK w : Prints(chunks, length, noalloc, w) /\ Printed(chunks, length, noalloc) = w[n]
  <2>1. length \in Int
    OBVIOUS
  <2> QED
    BY <1>0, <2>1, PrintIs
<1>2. /\ w[0] = [offset |-> 0, length |-> length, noalloc |-> noalloc, ok |-> TRUE, inside |-> TRUE]
      /\ \A k \in 0..n : w[k] \in Buffer
      /\ \A k \in 1..n : w[k] = Write(w[k - 1], chunks[k])
  BY <1>1 DEF Prints
<1>3. PICK f : PutsOf(chunks, f) /\ AllPut(chunks) = f[n]
  BY <1>0, AllPutIs
<1> DEFINE W == [k \in 0..n |-> Bytes(f[k])]
<1>4. /\ f[0] = <<>> /\ \A k \in 0..n : f[k] \in Seq(Character)
      /\ \A k \in 1..n : f[k] = f[k - 1] \o chunks[k].put
  BY <1>3 DEF PutsOf
<1>5. /\ W[0] = 0 /\ \A k \in 0..n : W[k] \in Nat
      /\ \A k \in 1..n : W[k] = W[k - 1] + chunks[k].size
      /\ W[n] = total
  <2>1. \A k \in 0..n : W[k] = Bytes(f[k])
    OBVIOUS
  <2> HIDE DEF W
  <2>2. W[0] = 0
    BY <1>0, <2>1, <1>4, BytesEmpty
  <2>3. \A k \in 0..n : W[k] \in Nat
    BY <2>1, <1>4, BytesNat
  <2>4. ASSUME NEW k \in 1..n
        PROVE  W[k] = W[k - 1] + chunks[k].size
    <3>1. k - 1 \in 0..n /\ k \in 0..n
      BY <1>0
    <3>2. chunks[k].put \in Seq(Character) /\ chunks[k].size = Bytes(chunks[k].put)
      BY <1>0, PrintableFacts
    <3>3. f[k - 1] \in Seq(Character) /\ f[k] = f[k - 1] \o chunks[k].put
      BY <3>1, <1>4
    <3>4. Bytes(f[k]) = Bytes(f[k - 1]) + Bytes(chunks[k].put)
      BY <3>2, <3>3, BytesConcat
    <3> QED
      BY <3>1, <3>2, <3>4, <2>1
  <2>5. W[n] = total
    <3>1. n \in 0..n
      BY <1>0
    <3> QED
      BY <3>1, <2>1, <1>3
  <2> QED
    BY <2>2, <2>3, <2>4, <2>5
<1> HIDE DEF W, n
<1>6. ASSUME NEW k \in 0..n
      PROVE  W[k] <= total
  <2> DEFINE S == {j \in k..n : W[k] <= W[j]}
  <2>1. k \in S
    BY <1>0, <1>5
  <2>2. ASSUME NEW j \in k..n - 1, j \in S
        PROVE  j + 1 \in S
    <3>1. j + 1 \in 1..n /\ (j + 1) - 1 = j /\ j \in 0..n /\ j + 1 \in k..n
      BY <1>0
    <3>2. W[j + 1] = W[j] + chunks[j + 1].size /\ chunks[j + 1].size \in Nat /\ W[j] \in Nat
        /\ W[k] \in Nat
      BY <3>1, <1>0, <1>5, PrintableFacts
    <3>3. W[k] <= W[j + 1]
      BY <3>2, <2>2
    <3> QED
      BY <3>1, <3>3
  <2> HIDE DEF S
  <2>5. k \in Int /\ n \in Int /\ k >= 0 /\ (k <= n => k \in S)
    BY <1>0, <2>1
  <2>3. k..n \subseteq S
    BY <2>5, <2>2, AllIndexes
  <2>4. n \in S
    BY <1>0, <2>3
  <2> QED
    BY <2>4, <1>5 DEF S
<1> DEFINE Good(k) == /\ w[k].ok /\ w[k].noalloc = noalloc /\ w[k].offset = W[k]
                      /\ w[k].length = 0 \/ w[k].offset < w[k].length
                      /\ noalloc => w[k].length = length
           T == {k \in 0..n : Good(k)}
<1>7. 0 \in T
  <2>1. w[0].ok /\ w[0].noalloc = noalloc /\ w[0].offset = 0 /\ w[0].length = length
    BY <1>2
  <2>2. Good(0)
    BY <2>1, <1>5
  <2> QED
    BY <2>2, <1>0
<1>8. ASSUME NEW k \in 0..n - 1, k \in T
      PROVE  k + 1 \in T
  <2> DEFINE y == w[k]
             r == w[k + 1]
             c == chunks[k + 1]
  <2>1. k + 1 \in 1..n /\ (k + 1) - 1 = k /\ k \in 0..n /\ k + 1 \in 0..n
    BY <1>0
  <2>2. r = Write(y, c) /\ y \in Buffer /\ c \in Printable /\ c \in Printing
    BY <2>1, <1>0, <1>2 DEF Printing
  <2>3. c.size \in Nat /\ c.ask \in {c.size, c.size + 1}
    BY <2>2, PrintableFacts
  <2>4. W[k + 1] = W[k] + c.size /\ W[k] \in Nat /\ W[k + 1] <= total /\ W[k + 1] \in Nat
      /\ total \in Nat
    <3>1. n \in 0..n
      BY <1>0
    <3> QED
      BY <2>1, <3>1, <1>5, <1>6
  <2>5. Good(k)
    BY <1>8
  <2>6. y.length \in Int /\ y.offset \in Nat /\ y.noalloc \in BOOLEAN
    BY <2>2, BufferFields
  <2>7. y.ok /\ (y.length = 0 \/ y.offset < y.length) /\ y.offset = W[k] /\ y.noalloc = noalloc
      /\ (noalloc => y.length = length)
    BY <2>5
  <2> HIDE DEF T
  <2> HIDE DEF y, r, c
  <2>8. c.ask + y.offset + 1 <= total + 2 /\ c.ask <= INT_MAX
    BY <2>3, <2>4, <2>6, <2>7, <1>00
  <2>9. c.ask + y.offset + 1 <= y.length \/ (~y.noalloc /\ c.ask + y.offset + 1 <= INT_MAX)
    <3> DEFINE x == c.ask + y.offset + 1
    <3>0. x \in Nat /\ x <= total + 2 /\ x <= INT_MAX /\ total \in Nat
      <4>1. c.ask \in Nat
        BY <2>3
      <4>2. x \in Nat
        BY <4>1, <2>6
      <4>3. x <= total + 2
        BY <2>8
      <4>4. total \in Nat
        BY <2>4
      <4> HIDE DEF x
      <4>5. x <= INT_MAX
        BY <4>2, <4>3, <4>4, <1>00
      <4> QED
        BY <4>2, <4>3, <4>4, <4>5
    <3> HIDE DEF x
    <3>1. CASE noalloc
      <4>1. y.length = length /\ length >= total + 2
        BY <3>1, <2>7
      <4>2. x <= y.length
        BY <4>1, <3>0, <2>6
      <4> QED
        BY <4>2 DEF x
    <3>2. CASE ~noalloc
      <4>1. ~y.noalloc
        BY <3>2, <2>7
      <4> QED
        BY <4>1, <3>0 DEF x
    <3> QED
      BY <3>1, <3>2
  <2>10. /\ r.ok /\ r.offset = y.offset + c.size /\ r.offset < r.length
            /\ (y.noalloc => r.length = y.length)
         /\ r.noalloc = y.noalloc
    BY <2>2, <2>7, <2>8, <2>9, WriteFacts
  <2>11. /\ r.ok /\ r.noalloc = noalloc /\ r.offset = W[k + 1]
         /\ r.length = 0 \/ r.offset < r.length
         /\ noalloc => r.length = length
    BY <2>4, <2>7, <2>10
  <2>12. Good(k + 1)
    BY <2>11 DEF r
  <2> QED
    BY <2>1, <2>12 DEF T
<1> HIDE DEF T
<1>9. \A k \in 0..n : k \in T
  BY <1>0, <1>7, <1>8, AllFrom
<1>10. n \in T
  BY <1>0, <1>9
<1> QED
  BY <1>1, <1>10 DEF T

-----------------------------------------------------------------------------
(* A list printed is the list read.                                        *)

\* The items of a list are read one after the other, up to the commas and the
\* closing bracket: item k from c[k] to e[k].
Path(t, deeper, object, of, c, e) ==
    /\ \A k \in 1..Len(of) : /\ c[k] \in Nat /\ c[k + 1] \in Nat /\ c[k] < c[k + 1]
                                /\ c[k + 1] <= Len(t)
                            /\ parse_item(t, c[k], deeper, object) = Read(e[k], of[k])
                            /\ buffer_skip_whitespace(t, e[k]) = c[k + 1]
    /\ \A k \in 1..Len(of) - 1 : t[c[k + 1]] = ","
    /\ t[c[Len(of) + 1]] = Close(object)

LEMMA ListRead ==
    ASSUME NEW t \in Seq(Character), NEW V, NEW deeper, Deeper(t, V, deeper),
           NEW at \in 1..Len(t), NEW object \in BOOLEAN,
           NEW W, NEW of \in Seq(ItemOf(object, W)), Len(of) >= 1, NEW c, NEW e, c[1] = at,
           Path(t, deeper, object, of, c, e)
    PROVE  Items(Loop(t, at, deeper, object), object) = Read(c[Len(of) + 1] + 1, Container(object, of))
<1> DEFINE n == Len(of)
           S == Seq(ItemOf(object, W))
           R == [at : Nat, of : S, more : BOOLEAN, ok : BOOLEAN]
           L(k) == [at |-> c[k + 1], of |-> SubSeq(of, 1, k), more |-> TRUE, ok |-> TRUE]
           last == [at |-> c[n + 1] + 1, of |-> of, more |-> FALSE, ok |-> TRUE]
<1>0. n \in Nat /\ n >= 1 /\ Len(t) \in Nat /\ \A k \in 1..n : of[k] \in ItemOf(object, W)
  OBVIOUS
<1>13. \A k \in 1..n : /\ c[k] \in Nat /\ c[k + 1] \in Nat /\ c[k] < c[k + 1] /\ c[k + 1] <= Len(t)
                       /\ parse_item(t, c[k], deeper, object) = Read(e[k], of[k])
                       /\ buffer_skip_whitespace(t, e[k]) = c[k + 1]
  BY Zenon DEF Path
<1>14. \A k \in 1..n - 1 : t[c[k + 1]] = ","
  BY Zenon DEF Path
<1>15. t[c[n + 1]] = Close(object)
  BY Zenon DEF Path
<1>1. PICK f : Loops(t, at, deeper, object, V, f) /\ Loop(t, at, deeper, object) = f[Len(t)]
  BY LoopIs
<1>2. /\ f[0] = [at |-> at, of |-> <<>>, more |-> TRUE, ok |-> TRUE]
      /\ \A k \in 1..Len(t) : f[k] = Longer(t, deeper, object, f[k - 1])
  BY <1>1 DEF Loops
<1>3. n < Len(t)
  <2> DEFINE T == {k \in 0..n : c[k + 1] >= k + 1 /\ c[k + 1] \in Nat}
  <2>1. 0 \in T
    <3>1. 1 \in 1..n
      BY <1>0
    <3>2. c[1] \in Nat /\ c[1] >= 1
      BY <1>0
    <3> QED
      BY <3>2, <1>0
  <2>2. ASSUME NEW k \in 0..n - 1, k \in T
        PROVE  k + 1 \in T
    <3>1. k + 1 \in 1..n /\ k + 1 \in 0..n
      BY <1>0
    <3>2. c[k + 1] \in Nat /\ c[(k + 1) + 1] \in Nat /\ c[k + 1] < c[(k + 1) + 1] /\ c[k + 1] >= k + 1
      BY <3>1, <2>2, <1>13
    <3>3. c[(k + 1) + 1] >= (k + 1) + 1
      BY <3>1, <3>2
    <3> QED
      BY <3>1, <3>2, <3>3
  <2> HIDE DEF T
  <2>3. \A k \in 0..n : k \in T
    BY <1>0, <2>1, <2>2, AllFrom
  <2>4. n \in T /\ n \in 1..n
    BY <1>0, <2>3
  <2>5. c[n + 1] >= n + 1 /\ c[n + 1] \in Nat /\ c[n + 1] <= Len(t)
    BY <2>4, <1>13 DEF T
  <2> QED
    BY <1>0, <2>5
<1>4. ASSUME NEW k \in 1..n
      PROVE  /\ L(k - 1) \in R /\ SubSeq(of, 1, k - 1) \in S
             /\ Longer(t, deeper, object, L(k - 1)) = AfterItem(t, c[k + 1], of[k], L(k - 1), object)
             /\ Append(SubSeq(of, 1, k - 1), of[k]) = SubSeq(of, 1, k) /\ SubSeq(of, 1, k) \in S
  <2>1. SubSeq(of, 1, k - 1) \in S /\ Append(SubSeq(of, 1, k - 1), of[k]) = SubSeq(of, 1, k)
      /\ SubSeq(of, 1, k) \in S
    <3>1. SubSeq(of, 1, k - 1) \in S /\ SubSeq(of, 1, k) \in S
      OBVIOUS
    <3>2. Append(SubSeq(of, 1, k - 1), of[k]) = SubSeq(of, 1, k)
      OBVIOUS
    <3> QED
      BY <3>1, <3>2
  <2>10. (k - 1) + 1 = k
    OBVIOUS
  <2>11. c[k] \in Nat
    BY <1>13, Zenon
  <2>2. (k - 1) + 1 = k /\ c[k] \in Nat
    BY <2>10, <2>11
  <2> HIDE DEF S
  <2>3. L(k - 1) \in R
    BY <2>1, <2>2
  <2>4. L(k - 1).more /\ L(k - 1).at = c[k]
    BY <2>2
  <2>5. parse_item(t, c[k], deeper, object) = Read(e[k], of[k])
      /\ buffer_skip_whitespace(t, e[k]) = c[k + 1]
    BY <1>13
  <2>6. Read(e[k], of[k]).ok /\ Read(e[k], of[k]).at = e[k] /\ Read(e[k], of[k]).v = of[k]
    BY DEF Read
  <2> DEFINE l == L(k - 1)
  <2>7. l.more /\ l.at = c[k]
    BY <2>4
  <2> HIDE DEF l
  <2>8. Longer(t, deeper, object, l) = FromItem(t, Read(e[k], of[k]), l, object)
    BY <2>5, <2>7 DEF Longer
  <2>9. FromItem(t, Read(e[k], of[k]), l, object) = AfterItem(t, c[k + 1], of[k], l, object)
    BY <2>5, <2>6 DEF FromItem
  <2> QED
    BY <2>1, <2>3, <2>8, <2>9 DEF l
<1>5. "," # Close(object)
  BY DEF Close
<1>6. ASSUME NEW k \in 1..n - 1
      PROVE  Longer(t, deeper, object, L(k - 1)) = L(k)
  <2>8. k \in 1..n
    BY <1>0
  <2>9. t[c[k + 1]] = ","
    BY <1>14, Zenon
  <2>10. c[k + 1] \in Nat /\ c[k + 1] <= Len(t)
    BY <2>8, <1>13, Zenon
  <2>1. k \in 1..n /\ t[c[k + 1]] = "," /\ c[k + 1] \in Nat /\ c[k + 1] <= Len(t)
    BY <2>8, <2>9, <2>10
  <2> DEFINE l == L(k - 1)
             x == c[k + 1]
  <2>2. l \in R /\ Longer(t, deeper, object, l) = AfterItem(t, x, of[k], l, object)
      /\ Append(l.of, of[k]) = SubSeq(of, 1, k)
        /\ SubSeq(of, 1, k) \in S /\ l.more = TRUE /\ l.ok = TRUE
    BY <2>1, <1>4
  <2> HIDE DEF l, x, S
  <2>3. AfterItem(t, x, of[k], l, object) = [l EXCEPT !.at = x, !.of = Append(l.of, of[k])]
    BY <2>1, <1>5 DEF AfterItem, CanRead, x
  <2>4. [l EXCEPT !.at = x, !.of = Append(l.of, of[k])] = [at |-> x, of |-> Append(l.of, of[k]), more |-> l.more, ok |-> l.ok]
    <3>1. x \in Nat /\ Append(l.of, of[k]) \in S
        /\ l \in [at : Nat, of : S, more : BOOLEAN, ok : BOOLEAN]
      BY <2>1, <2>2 DEF x
    <3> DEFINE y == Append(l.of, of[k])
    <3>2. y \in S
      BY <3>1
    <3> HIDE DEF y
    <3> DEFINE r == [l EXCEPT !.at = x, !.of = y]
    <3>4. r.at = x
      BY <3>1, <3>2
    <3>5. r.of = y
      BY <3>1, <3>2
    <3>6. r.more = l.more
      BY <3>1, <3>2
    <3>7. r.ok = l.ok
      BY <3>1, <3>2
    <3>8. r \in [at : Nat, of : S, more : BOOLEAN, ok : BOOLEAN]
      BY <3>1, <3>2
    <3> HIDE DEF r
    <3>9. r = [at |-> r.at, of |-> r.of, more |-> r.more, ok |-> r.ok]
      BY <3>8
    <3>10. r = [at |-> x, of |-> y, more |-> l.more, ok |-> l.ok]
      BY <3>4, <3>5, <3>6, <3>7, <3>9
    <3> QED
      BY <3>10 DEF r, y
  <2>5. Longer(t, deeper, object, l) = [at |-> x, of |-> SubSeq(of, 1, k), more |-> TRUE, ok |-> TRUE]
    BY <2>2, <2>3, <2>4
  <2> QED
    BY <2>5 DEF l, x
<1>7. Longer(t, deeper, object, L(n - 1)) = last
  <2>8. n \in 1..n
    BY <1>0
  <2>10. c[n + 1] \in Nat /\ c[n + 1] <= Len(t)
    BY <2>8, <1>13, Zenon
  <2>11. t[c[n + 1]] = Close(object)
    BY <1>15, Zenon
  <2>1. n \in 1..n /\ t[c[n + 1]] = Close(object) /\ c[n + 1] \in Nat /\ c[n + 1] <= Len(t)
    BY <2>8, <2>10, <2>11
  <2> DEFINE l == L(n - 1)
             x == c[n + 1]
  <2>2. l \in R /\ Longer(t, deeper, object, l) = AfterItem(t, x, of[n], l, object)
      /\ Append(l.of, of[n]) = SubSeq(of, 1, n)
        /\ SubSeq(of, 1, n) \in S /\ l.ok = TRUE
    BY <2>1, <1>4
  <2>6. SubSeq(of, 1, n) = of
    BY <1>0
  <2> HIDE DEF l, x, S
  <2>7. x + 1 \in Nat
    BY <2>1 DEF x
  <2>3. AfterItem(t, x, of[n], l, object) = [l EXCEPT !.at = x + 1, !.of = Append(l.of, of[n]), !.more = FALSE]
    BY <2>1, <1>5 DEF AfterItem, CanRead, x
  <2>4. [l EXCEPT !.at = x + 1, !.of = Append(l.of, of[n]), !.more = FALSE] = [at |-> x + 1, of |-> Append(l.of, of[n]), more |-> FALSE, ok |-> l.ok]
    <3>1. Append(l.of, of[n]) \in S /\ l \in [at : Nat, of : S, more : BOOLEAN, ok : BOOLEAN]
      BY <2>2
    <3> DEFINE y == Append(l.of, of[n])
               z == x + 1
    <3>2. y \in S /\ z \in Nat
      BY <3>1, <2>7
    <3> HIDE DEF y, z
    <3> DEFINE r == [l EXCEPT !.at = z, !.of = y, !.more = FALSE]
    <3>4. r.at = z
      BY <3>1, <3>2
    <3>5. r.of = y
      BY <3>1, <3>2
    <3>6. r.more = FALSE
      BY <3>1, <3>2
    <3>7. r.ok = l.ok
      BY <3>1, <3>2
    <3>8. r \in [at : Nat, of : S, more : BOOLEAN, ok : BOOLEAN]
      BY <3>1, <3>2
    <3> HIDE DEF r
    <3>9. r = [at |-> r.at, of |-> r.of, more |-> r.more, ok |-> r.ok]
      BY <3>8
    <3>10. r = [at |-> z, of |-> y, more |-> FALSE, ok |-> l.ok]
      BY <3>4, <3>5, <3>6, <3>7, <3>9
    <3> QED
      BY <3>10 DEF r, y, z
  <2>5. Longer(t, deeper, object, l) = [at |-> x + 1, of |-> of, more |-> FALSE, ok |-> TRUE]
    BY <2>2, <2>3, <2>4, <2>6
  <2> QED
    BY <2>5 DEF l, x
<1>8. f[0] = L(0)
  <2>1. SubSeq(of, 1, 0) = <<>> /\ 0 + 1 = 1
    OBVIOUS
  <2> QED
    BY <2>1, <1>2
<1> HIDE DEF L, last
<1>9. f[n - 1] = L(n - 1)
  <2> DEFINE T == {k \in 0..n - 1 : f[k] = L(k)}
  <2>1. 0 \in T
    BY <1>0, <1>8
  <2>2. ASSUME NEW k \in 0..(n - 1) - 1, k \in T
        PROVE  k + 1 \in T
    <3>1. k + 1 \in 1..n - 1 /\ k + 1 \in 1..Len(t) /\ (k + 1) - 1 = k /\ k + 1 \in 0..n - 1
      BY <1>0, <1>3
    <3>2. f[k + 1] = Longer(t, deeper, object, L(k))
      BY <3>1, <2>2, <1>2
    <3>3. Longer(t, deeper, object, L((k + 1) - 1)) = L(k + 1)
      BY <3>1, <1>6
    <3> QED
      BY <3>1, <3>2, <3>3
  <2>3. n - 1 \in Nat
    BY <1>0
  <2> HIDE DEF T, n
  <2>4. \A k \in 0..n - 1 : k \in T
    BY <2>1, <2>2, <2>3, AllFrom
  <2>5. n - 1 \in T
    BY <2>3, <2>4
  <2> QED
    BY <2>5 DEF T
<1>10. f[n] = last
  <2>1. n \in 1..Len(t)
    BY <1>0, <1>3
  <2> QED
    BY <2>1, <1>2, <1>7, <1>9
<1>11. f[Len(t)] = f[n]
  <2>1. ASSUME NEW k \in n + 1..Len(t), f[k - 1] = f[n]
        PROVE  f[k] = f[n]
    <3>1. k \in 1..Len(t)
      BY <1>0
    <3>2. f[k] = Longer(t, deeper, object, last)
      BY <3>1, <2>1, <1>2, <1>10
    <3>3. ~last.more
      BY DEF last
    <3>4. Longer(t, deeper, object, last) = last
      BY <3>3 DEF Longer
    <3> QED
      BY <3>2, <3>4, <1>10
  <2>2. n <= Len(t)
    BY <1>0, <1>3
  <2> HIDE DEF n
  <2> QED
    BY <2>1, <2>2, <1>0, RowStays
<1>12. last.ok /\ ~last.more /\ last.at = c[n + 1] + 1 /\ last.of = of
  BY DEF last
<1> QED
  BY <1>1, <1>10, <1>11, <1>12 DEF Items

\* Only space from a place up to another.
Gap(t, a, b) == a \in Nat /\ b \in Nat /\ a >= 1 /\ a <= b /\ \A i \in a..b - 1 : t[i] \in Space

LEMMA GapEmpty ==
    ASSUME NEW t, NEW a \in Nat, a >= 1
    PROVE  Gap(t, a, a)
BY DEF Gap

LEMMA GapJoin ==
    ASSUME NEW t, NEW a, NEW b, NEW c, Gap(t, a, b), Gap(t, b, c)
    PROVE  Gap(t, a, c)
<1>1. a \in Nat /\ b \in Nat /\ c \in Nat /\ a >= 1 /\ a <= c
  BY DEF Gap
<1>2. ASSUME NEW i \in a..c - 1
      PROVE  t[i] \in Space
  <2>1. i \in a..b - 1 \/ i \in b..c - 1
    BY <1>1
  <2> QED
    BY <2>1 DEF Gap
<1> QED
  BY <1>1, <1>2 DEF Gap

LEMMA GapText ==
    ASSUME NEW t, NEW a, NEW s \in Seq(Character), At(t, a, s), \A k \in 1..Len(s) : s[k] \in Space
    PROVE  Gap(t, a, a + Len(s))
<1>1. a \in Nat /\ a >= 1 /\ Len(s) \in Nat /\ \A j \in 1..Len(s) : t[a + j - 1] = s[j]
  BY DEF At
<1>2. ASSUME NEW i \in a..(a + Len(s)) - 1
      PROVE  t[i] \in Space
  <2> DEFINE j == i - a + 1
  <2>1. j \in 1..Len(s) /\ a + j - 1 = i
    BY <1>1
  <2>2. t[a + j - 1] = s[j] /\ s[j] \in Space
    BY <1>1, <2>1
  <2> QED
    BY <2>1, <2>2
<1> QED
  BY <1>1, <1>2 DEF Gap

LEMMA GapSkip ==
    ASSUME NEW t \in Seq(Character), NEW a, NEW b, Gap(t, a, b), b <= Len(t), t[b] \notin Space
    PROVE  buffer_skip_whitespace(t, a) = b
BY SkipTo DEF Gap

\* How the text of a value begins.
Starts(s) == s \in Seq(Character) /\ Len(s) >= 1 /\ s[1] \notin Space /\ s[1] \notin {"]", "}", "bom"}

LEMMA StartsAt ==
    ASSUME NEW t \in Seq(Character), NEW a, NEW s, Starts(s), At(t, a, s)
    PROVE  a \in Nat /\ a >= 1 /\ a <= Len(t) /\ t[a] = s[1] /\ t[a] \notin Space
        /\ t[a] \notin {"]", "}", "bom"}
<1>1. a \in Nat /\ a >= 1 /\ a + Len(s) - 1 <= Len(t) /\ \A j \in 1..Len(s) : t[a + j - 1] = s[j]
  BY DEF At
<1>2. s \in Seq(Character) /\ Len(s) >= 1
  BY Zenon DEF Starts
<1>4. s[1] \notin Space /\ s[1] \notin {"]", "}", "bom"}
  BY Zenon DEF Starts
<1>5. Len(s) \in Nat /\ Len(t) \in Nat /\ Len(s) >= 1
  BY <1>2
<1>3. t[a] = s[1]
  <2>1. 1 \in 1..Len(s) /\ a + 1 - 1 = a
    BY <1>1, <1>5
  <2>2. t[a + 1 - 1] = s[1]
    BY <1>1, <2>1
  <2> QED
    BY <2>1, <2>2
<1>6. a <= Len(t)
  BY <1>1, <1>5
<1> QED
  BY <1>1, <1>3, <1>4, <1>6, Zenon

LEMMA QuotedStarts ==
    ASSUME NEW s \in CText
    PROVE  Starts(Quoted(s)) /\ Quoted(s)[1] = Quote
<1> DEFINE x == FlattenSeq([i \in DOMAIN s |-> Escaped(s[i])])
           y == <<Quote>>
<1>1. s \in Seq(Character) /\ Escapes(s) = [i \in DOMAIN s |-> Escaped(s[i])]
  BY SeqRetyped DEF CText, Escapes
<1>4. x \in Seq(Character)
  <2>1. /\ Len(Escapes(s)) \in Nat /\ Escapes(s) = [i \in 1..Len(Escapes(s)) |-> Escapes(s)[i]]
        /\ \A i \in 1..Len(Escapes(s)) : Escapes(s)[i] \in Seq(Character)
    BY <1>1, EscapesSeq
  <2>2. PICK f : Joins(Character, Escapes(s), f) /\ FlattenSeq(Escapes(s)) = f[Len(Escapes(s))]
    BY <2>1, FlattenIs
  <2> QED
    BY <1>1, <2>1, <2>2 DEF Joins
<1>5. y \in Seq(Character) /\ Len(y) = 1 /\ y[1] = Quote
  BY CharFacts
<1>6. Quoted(s) = y \o x \o y
  BY DEF Quoted
<1> HIDE DEF x, y
<1>2. Quoted(s) \in Seq(Character) /\ Quoted(s)[1] = Quote /\ Len(Quoted(s)) >= 1
  BY <1>4, <1>5, <1>6
<1>3. Quote \notin Space /\ Quote \notin {"]", "}", "bom"}
  BY SpaceFacts DEF Quote
<1> QED
  BY <1>2, <1>3 DEF Starts

\* After the bracket or comma at c there is a name at q and a value at w.
Member(t, c, name, format, q, s, w) ==
    /\ t \in Seq(Character) /\ name \in CText /\ format \in BOOLEAN /\ c \in Nat /\ c >= 1
    /\ Gap(t, c + 1, q) /\ At(t, q, Quoted(name)) /\ At(t, q + Len(Quoted(name)), ColonText(format))
    /\ Starts(s) /\ w = (q + Len(Quoted(name))) + Len(ColonText(format)) /\ At(t, w, s)

\* The name of a member is read up to its colon, and then the value.
LEMMA NameRead ==
    ASSUME NEW t, NEW c, NEW name, NEW format, NEW q, NEW s, NEW w, Member(t, c, name, format, q, s, w),
           NEW r, r = q + Len(Quoted(name))
    PROVE  /\ CanRead(t, c + 1) /\ buffer_skip_whitespace(t, c + 1) = q
           /\ parse_string(t, q) = Read(r, String(name))
           /\ buffer_skip_whitespace(t, r) = r /\ CanRead(t, r) /\ t[r] = ":"
           /\ buffer_skip_whitespace(t, r + 1) = w
<1>30. t \in Seq(Character) /\ name \in CText /\ format \in BOOLEAN /\ c \in Nat /\ c >= 1
  BY Zenon DEF Member
<1>31. Gap(t, c + 1, q) /\ At(t, q, Quoted(name)) /\ At(t, q + Len(Quoted(name)), ColonText(format))
  BY Zenon DEF Member
<1>32. Starts(s) /\ w = (q + Len(Quoted(name))) + Len(ColonText(format)) /\ At(t, w, s)
  BY Zenon DEF Member
<1> USE <1>30, <1>31, <1>32
<1>1. q \in Nat /\ q >= c + 1 /\ q <= Len(t) /\ t[q] = Quote /\ t[q] \notin Space /\ Len(t) \in Nat
  <2>1. Starts(Quoted(name)) /\ Quoted(name)[1] = Quote
    BY QuotedStarts
  <2>2. q \in Nat /\ q <= Len(t) /\ t[q] = Quoted(name)[1] /\ t[q] \notin Space
    BY <2>1, StartsAt
  <2>3. c + 1 <= q
    BY Zenon DEF Gap
  <2> QED
    BY <2>1, <2>2, <2>3
<1>2. buffer_skip_whitespace(t, c + 1) = q
  BY <1>1, GapSkip
<1>3. parse_string(t, q) = Read(r, String(name))
  BY StringRead
<1>5. Len(Quoted(name)) \in Nat /\ r \in Nat /\ r >= 1
  <2>1. Len(Quoted(name)) \in Nat
    <3>1. Quoted(name) \in Seq(Character)
      BY QuotedStarts, Zenon DEF Starts
    <3> QED
      BY <3>1
  <2> QED
    BY <2>1, <1>1
<1>6. w \in Nat /\ w >= 1 /\ w <= Len(t) /\ t[w] \notin Space
  BY StartsAt
<1>7. r <= Len(t) /\ t[r] = ":" /\ Gap(t, r + 1, w)
  <2>1. At(t, r, ColonText(format)) /\ w = r + Len(ColonText(format))
    OBVIOUS
  <2>2. CASE ~format
    <3>1. ColonText(format) = <<":">> /\ Len(<<":">>) = 1
      BY <2>2 DEF ColonText
    <3>2. r <= Len(t) /\ t[r] = ":" /\ w = r + 1
      BY <3>1, <2>1, AtOne
    <3> QED
      BY <3>2, <1>6, GapEmpty
  <2>3. CASE format
    <3>1. ColonText(format) = <<":", "\t">> /\ Len(<<":", "\t">>) = 2 /\ <<":", "\t">>[1] = ":"
                                               /\ <<":", "\t">>[2] = "\t"
      BY <2>3 DEF ColonText
    <3>2. w = r + 2 /\ r + 2 - 1 <= Len(t) /\ t[r + 1 - 1] = ":" /\ t[r + 2 - 1] = "\t"
      BY <3>1, <2>1 DEF At
    <3>3. r + 1 - 1 = r /\ r + 2 - 1 = r + 1 /\ w = (r + 1) + 1 /\ r <= Len(t)
      BY <3>2, <1>1, <1>5
    <3>4. t[r] = ":" /\ t[r + 1] = "\t"
      BY <3>2, <3>3
    <3>6. "\t" \in Space
      BY SpaceFacts
    <3>7. \A i \in r + 1..w - 1 : i = r + 1
      BY <3>3, <1>5
    <3>8. \A i \in r + 1..w - 1 : t[i] \in Space
      BY <3>4, <3>6, <3>7, Zenon
    <3>5. Gap(t, r + 1, w)
      <4>1. r + 1 \in Nat /\ w \in Nat /\ r + 1 >= 1 /\ r + 1 <= w
        BY <3>3, <1>5
      <4> QED
        BY <4>1, <3>8 DEF Gap
    <3> QED
      BY <3>3, <3>4, <3>5
  <2> QED
    BY <2>2, <2>3
<1>8. buffer_skip_whitespace(t, r) = r
  <2>1. Gap(t, r, r) /\ t[r] \notin Space
    BY <1>5, <1>7, GapEmpty, SpaceFacts
  <2> QED
    BY <2>1, <1>7, GapSkip
<1>9. buffer_skip_whitespace(t, r + 1) = w
  BY <1>6, <1>7, GapSkip
<1>10. CanRead(t, c + 1) /\ CanRead(t, r)
  BY <1>1, <1>7 DEF CanRead
<1> QED
  BY <1>2, <1>3, <1>7, <1>8, <1>9, <1>10

\* The bracket of a container is followed by space.
LEMMA OpenGap ==
    ASSUME NEW t \in Seq(Character), NEW at, NEW object \in BOOLEAN, NEW format \in BOOLEAN,
           At(t, at, OpenText(object, format))
    PROVE  /\ at \in 1..Len(t) /\ t[at] = (IF object THEN "{" ELSE "[")
           /\ Gap(t, at + 1, at + Len(OpenText(object, format)))
<1>01. "\n" \in Space
  BY SpaceFacts
<1>02. Len(t) \in Nat
  OBVIOUS
<1>0. Len(t) \in Nat /\ "\n" \in Space
  BY <1>01, <1>02
<1>1. CASE ~(object /\ format)
  <2> DEFINE b == IF object THEN "{" ELSE "["
  <2>1. OpenText(object, format) = <<b>> /\ Len(<<b>>) = 1
    BY <1>1 DEF OpenText
  <2> HIDE DEF b
  <2>2. at \in Nat /\ at >= 1 /\ at <= Len(t) /\ t[at] = b
    BY <2>1, AtOne
  <2>3. Gap(t, at + 1, at + 1)
    BY <2>2, GapEmpty
  <2>4. at \in 1..Len(t) /\ at + Len(OpenText(object, format)) = at + 1
    BY <1>0, <2>1, <2>2
  <2> QED
    BY <2>2, <2>3, <2>4 DEF b
<1>2. CASE object /\ format
  <2> DEFINE s == OpenText(object, format)
  <2>1. s = <<"{", "\n">> /\ Len(<<"{", "\n">>) = 2 /\ <<"{", "\n">>[1] = "{" /\ <<"{", "\n">>[2] = "\n"
    BY <1>2 DEF OpenText
  <2> HIDE DEF s
  <2>2. at \in Nat /\ at >= 1 /\ at + Len(s) - 1 <= Len(t) /\ \A j \in 1..Len(s) : t[at + j - 1] = s[j]
    BY DEF At, s
  <2>3. Len(s) = 2 /\ s[1] = "{" /\ s[2] = "\n"
    BY <2>1
  <2>15. Len(s) = 2
    BY <2>3
  <2>16. at \in Nat /\ at >= 1 /\ at + Len(s) - 1 <= Len(t)
    BY <2>2
  <2>12. 1 \in 1..Len(s) /\ 2 \in 1..Len(s)
    BY <2>15
  <2>13. at + 1 <= Len(t)
    BY <2>15, <2>16, <1>02
  <2>14. at + Len(s) = (at + 1) + 1
    BY <2>15, <2>16
  <2>4. t[at + 1 - 1] = "{" /\ t[at + 2 - 1] = "\n"
    BY <2>2, <2>3, <2>12
  <2>5. at + 1 - 1 = at /\ at + 2 - 1 = at + 1 /\ at + 1 <= Len(t) /\ at + Len(s) = (at + 1) + 1
    BY <2>2, <2>13, <2>14
  <2>6. t[at] = "{" /\ t[at + 1] = "\n"
    BY <2>4, <2>5
  <2>7. \A i \in at + 1..(at + Len(s)) - 1 : i = at + 1
    BY <2>15, <2>16
  <2>8. \A i \in at + 1..(at + Len(s)) - 1 : t[i] \in Space
    BY <2>6, <2>7, <1>01, Zenon
  <2>9. at + 1 \in Nat /\ at + Len(s) \in Nat /\ at + 1 >= 1 /\ at + 1 <= at + Len(s)
    BY <2>15, <2>16
  <2>10. Gap(t, at + 1, at + Len(s))
    BY <2>8, <2>9 DEF Gap
  <2>11. at \in 1..Len(t)
    BY <1>0, <2>2, <2>5
  <2> QED
    BY <1>2, <2>6, <2>10, <2>11 DEF s
<1> QED
  BY <1>1, <1>2

\* Only space comes before the bracket that ends a container.
LEMMA CloseGap ==
    ASSUME NEW t \in Seq(Character), NEW at, NEW object \in BOOLEAN, NEW depth \in Nat,
           NEW format \in BOOLEAN,
           At(t, at, CloseText(object, depth, format)),
           NEW z, z = at + Len(CloseText(object, depth, format)) - 1
    PROVE  z \in Nat /\ z >= 1 /\ z <= Len(t) /\ t[z] = Close(object) /\ Gap(t, at, z)
        /\ t[z] \notin Space
<1> DEFINE s == CloseText(object, depth, format)
           n == Len(s)
<1>1. s \in Seq(Character) /\ n = (IF object /\ format THEN depth + 1 ELSE 1) /\ s[n] = Close(object)
      /\ \A k \in 1..n - 1 : s[k] = "\t"
  BY CloseTextSeq
<1>2. at \in Nat /\ at >= 1 /\ at + Len(s) - 1 <= Len(t) /\ \A j \in 1..Len(s) : t[at + j - 1] = s[j]
  BY DEF At
<1>3. z = at + n - 1
  OBVIOUS
<1>4. n \in Nat /\ n >= 1
  BY <1>1
<1> HIDE DEF n
<1>5. z \in Nat /\ z >= 1 /\ z <= Len(t)
  BY <1>2, <1>3, <1>4 DEF n
<1>6. t[z] = Close(object)
  <2>1. n \in 1..n
    BY <1>4
  <2>2. t[at + n - 1] = s[n]
    BY <1>2, <2>1 DEF n
  <2> QED
    BY <2>2, <1>1, <1>3
<1>7. \A i \in at..z - 1 : t[i] \in Space
  <2> SUFFICES ASSUME NEW i \in at..z - 1 PROVE t[i] \in Space
    OBVIOUS
  <2> DEFINE j == i - at + 1
  <2>1. j \in 1..n - 1 /\ j \in 1..n /\ at + j - 1 = i
    BY <1>2, <1>3, <1>4
  <2>2. s[j] = "\t"
    BY <1>1, <2>1
  <2>3. t[at + j - 1] = s[j]
    BY <1>2, <2>1 DEF n
  <2>4. "\t" \in Space
    BY SpaceFacts
  <2> QED
    BY <2>1, <2>2, <2>3, <2>4
<1>8. Gap(t, at, z)
  BY <1>2, <1>3, <1>4, <1>5, <1>7 DEF Gap
<1>9. Close(object) \notin Space
  BY SpaceFacts DEF Close
<1> QED
  BY <1>5, <1>6, <1>8, <1>9

\* Where the parts of the text of an item stand.
LEMMA ItemPlaces ==
    ASSUME NEW t \in Seq(Character), NEW object \in BOOLEAN, NEW V, NEW m \in ItemOf(object, V),
           NEW more \in BOOLEAN,
           NEW depth \in Nat, NEW format \in BOOLEAN, NEW s \in Seq(Character), NEW at,
           At(t, at, ItemText(object, m, more, depth, format, s))
    PROVE  LET w == at + Len(BeforeText(object, m, depth, format))
               e == w + Len(s)
           IN  /\ at \in Nat /\ at >= 1 /\ w \in Nat /\ w >= at /\ e \in Nat
               /\ At(t, at, BeforeText(object, m, depth, format)) /\ At(t, w, s)
               /\ At(t, e, AfterText(object, more, format))
               /\ at + Len(ItemText(object, m, more, depth, format, s)) = e + Len(AfterText(object, more, format))
<1> DEFINE b == BeforeText(object, m, depth, format)
           a == AfterText(object, more, format)
<1>1. b \in Seq(Character) /\ a \in Seq(Character)
  BY BeforeWritten, AfterWritten
<1>2. ItemText(object, m, more, depth, format, s) = (b \o s) \o a
  BY DEF ItemText
<1> HIDE DEF a, b
<1>3. b \o s \in Seq(Character) /\ Len(b \o s) = Len(b) + Len(s) /\ Len(b) \in Nat /\ Len(s) \in Nat
  BY <1>1, ConcatSeq
<1>4. Len((b \o s) \o a) = Len(b \o s) + Len(a) /\ Len(a) \in Nat
  BY <1>1, <1>3, ConcatSeq
<1>5. At(t, at, (b \o s) \o a)
  BY <1>2
<1>6. At(t, at, b \o s) /\ At(t, at + Len(b \o s), a)
  BY <1>1, <1>3, <1>5, AtConcat
<1>7. At(t, at, b) /\ At(t, at + Len(b), s)
  BY <1>1, <1>6, AtConcat
<1>8. at \in Nat /\ at >= 1
  BY <1>7 DEF At
<1>9. at + Len(b \o s) = (at + Len(b)) + Len(s)
  BY <1>3, <1>8
<1>10. at + Len((b \o s) \o a) = ((at + Len(b)) + Len(s)) + Len(a)
  BY <1>3, <1>4, <1>8
<1>11. at + Len(b) \in Nat /\ at + Len(b) >= at /\ (at + Len(b)) + Len(s) \in Nat
  BY <1>3, <1>8
<1>12. At(t, (at + Len(b)) + Len(s), a)
  BY <1>6, <1>9
<1> QED
  BY <1>2, <1>7, <1>8, <1>10, <1>11, <1>12 DEF a, b

\* An item printed after the bracket or comma at c is the item read there.
LEMMA ItemRead ==
    ASSUME NEW t \in Seq(Character), NEW object \in BOOLEAN, NEW V, NEW m \in ItemOf(object, V),
           NEW more \in BOOLEAN,
           NEW depth \in Nat, NEW format \in BOOLEAN, NEW s, Starts(s), NEW c \in Nat, c >= 1,
           NEW at, Gap(t, c + 1, at),
           At(t, at, ItemText(object, m, more, depth, format, s)),
           NEW deeper, NEW w, w = at + Len(BeforeText(object, m, depth, format)), NEW e,
           deeper[w] = Read(e, m.v)
    PROVE  /\ parse_item(t, c, deeper, object) = Read(e, m)
           /\ CanRead(t, buffer_skip_whitespace(t, c + 1))
           /\ t[buffer_skip_whitespace(t, c + 1)] # Close(object)
<1>1. s \in Seq(Character)
  BY Zenon DEF Starts
<1>2. /\ at \in Nat /\ at >= 1 /\ w \in Nat /\ w >= at
      /\ At(t, at, BeforeText(object, m, depth, format)) /\ At(t, w, s)
  BY <1>1, ItemPlaces
<1>3. w <= Len(t) /\ t[w] \notin Space /\ t[w] \notin {"]", "}", "bom"}
  BY <1>2, StartsAt
<1>4. CASE object
  <2> DEFINE name == m.name
             x == IndentText(depth, format)
             y == Quoted(name)
             z == ColonText(format)
             q == at + Len(x)
  <2>1. name \in CText /\ m = Item(name, m.v)
    BY <1>4 DEF ItemOf, Item
  <2>2. BeforeText(object, m, depth, format) = x \o (y \o z)
    BY <1>4 DEF BeforeText, NameText
  <2>3. x \in Seq(Character) /\ \A k \in 1..Len(x) : x[k] \in Space
    <3>1. CASE format
      <4>1. x = Tabs(depth + 1) /\ depth + 1 \in Nat
        BY <3>1 DEF IndentText
      <4>2. "\t" \in Space
        BY SpaceFacts
      <4>3. \A k \in 1..Len(x) : x[k] = "\t"
        BY <4>1, TabsText
      <4> QED
        BY <4>1, <4>2, <4>3, TabsText
    <3>2. CASE ~format
      <4>1. x = <<>>
        BY <3>2 DEF IndentText
      <4> QED
        BY <4>1
    <3> QED
      BY <3>1, <3>2
  <2>4. Starts(y) /\ y[1] = Quote
    BY <2>1, QuotedStarts
  <2>5. y \in Seq(Character) /\ z \in Seq(Character)
    <3>1. y \in Seq(Character)
      BY <2>4, Zenon DEF Starts
    <3>2. z \in Seq(Character)
      BY SmallTexts
    <3> QED
      BY <3>1, <3>2
  <2> HIDE DEF x, y, z
  <2>6. y \o z \in Seq(Character) /\ Len(y \o z) = Len(y) + Len(z) /\ Len(y) \in Nat /\ Len(z) \in Nat
    BY <2>5, ConcatSeq
  <2>7. At(t, at, x) /\ At(t, q, y \o z)
    BY <1>2, <2>2, <2>3, <2>6, AtConcat
  <2>8. At(t, q, y) /\ At(t, q + Len(y), z)
    BY <2>5, <2>7, AtConcat
  <2>9. Len(x \o (y \o z)) = Len(x) + Len(y \o z) /\ Len(x) \in Nat
    BY <2>3, <2>6, ConcatSeq
  <2>10. w = (q + Len(y)) + Len(z)
    BY <1>2, <2>2, <2>6, <2>9
  <2>11. Gap(t, c + 1, q)
    BY <2>3, <2>7, GapText, GapJoin
  <2>12. deeper[w] = Read(e, m.v)
    OBVIOUS
  <2> HIDE DEF q, name
  <2>13. /\ parse_item(t, c, deeper, object) = Read(e, Item(name, m.v))
         /\ buffer_skip_whitespace(t, c + 1) = q
    <3>1. At(t, q, Quoted(name)) /\ At(t, q + Len(Quoted(name)), ColonText(format))
          /\ w = (q + Len(Quoted(name))) + Len(ColonText(format))
      BY <2>8, <2>10 DEF y, z
    <3>2. At(t, w, s) /\ name \in CText
      BY <1>2, <2>1
    <3> DEFINE v == m.v
    <3>3. deeper[w] = Read(e, v)
      OBVIOUS
    <3> HIDE DEF v
    <3>5. Member(t, c, name, format, q, s, w)
      BY <2>11, <3>1, <3>2 DEF Member
    <3>4. /\ parse_item(t, c, deeper, object) = Read(e, Item(name, v))
          /\ buffer_skip_whitespace(t, c + 1) = q
      <4> DEFINE r == q + Len(Quoted(name))
                 read == Read(r, String(name))
      <4> HIDE DEF r
      <4>0. r = q + Len(Quoted(name))
        BY DEF r
      <4>1. /\ CanRead(t, c + 1) /\ buffer_skip_whitespace(t, c + 1) = q /\ parse_string(t, q) = read
            /\ buffer_skip_whitespace(t, r) = r /\ CanRead(t, r) /\ t[r] = ":"
            /\ buffer_skip_whitespace(t, r + 1) = w
        BY <3>5, <4>0, NameRead
      <4>2. read.ok /\ read.at = r /\ read.v.chars = name
        BY DEF Read, String
      <4> HIDE DEF read
      <4>5. parse_item(t, c, deeper, object) = AfterName(t, read, deeper)
        BY <4>1, <1>4 DEF parse_item
      <4>6. AfterName(t, read, deeper) = AfterColon(t, r, read, deeper)
        BY <4>1, <4>2 DEF AfterName
      <4>7. AfterColon(t, r, read, deeper) = Named(deeper[w], name)
        BY <4>1, <4>2 DEF AfterColon
      <4>3. Named(Read(e, v), name) = Read(e, Item(name, v))
        BY DEF Named, Read
      <4> QED
        BY <4>1, <4>3, <4>5, <4>6, <4>7, <3>3
    <3> QED
      BY <3>4 DEF v
  <2>14. q <= Len(t) /\ t[q] = Quote
    BY <2>4, <2>8, StartsAt
  <2>15. Quote # Close(object)
    BY DEF Quote, Close
  <2>16. object = TRUE
    BY <1>4
  <2> QED
    BY <2>1, <2>13, <2>14, <2>15, <2>16 DEF CanRead
<1>5. CASE ~object
  <2>1. BeforeText(object, m, depth, format) = <<>> /\ Len(<<>>) = 0
    BY <1>5 DEF BeforeText
  <2>2. w = at
    BY <1>2, <2>1
  <2>3. buffer_skip_whitespace(t, c + 1) = w
    BY <1>3, <2>2, GapSkip
  <2>4. m.name = NoName /\ m = Item(NoName, m.v)
    BY <1>5 DEF ItemOf, Item
  <2>5. parse_item(t, c, deeper, object) = Named(deeper[w], NoName)
    BY <1>5, <2>3 DEF parse_item
  <2>6. Named(Read(e, m.v), NoName) = Read(e, Item(NoName, m.v))
    BY DEF Named, Read
  <2>7. t[w] # Close(object)
    BY <1>3, <1>5 DEF Close
  <2> QED
    BY <1>3, <2>3, <2>4, <2>5, <2>6, <2>7 DEF CanRead
<1> QED
  BY <1>4, <1>5

LEMMA TupleFacts ==
    ASSUME NEW a, NEW b
    PROVE  /\ Len(<<a>>) = 1 /\ <<a>>[1] = a /\ Len(<<a, b>>) = 2 /\ <<a, b>>[1] = a /\ <<a, b>>[2] = b
           /\ <<a>> \o <<b>> = <<a, b>> /\ <<a>> \o <<>> = <<a>> /\ <<>> \o <<a>> = <<a>>
<1>1. Len(<<a>>) = 1 /\ <<a>>[1] = a
  OBVIOUS
<1>2. Len(<<a, b>>) = 2 /\ <<a, b>>[1] = a /\ <<a, b>>[2] = b
  OBVIOUS
<1>3. <<a>> \o <<b>> = <<a, b>>
  <2> DEFINE S == {a, b}
             x == <<a>>
             y == <<b>>
             z == <<a, b>>
  <2>1. x \in Seq(S) /\ y \in Seq(S) /\ z \in Seq(S)
    BY TuplesIn
  <2>2. Len(x) = 1 /\ Len(y) = 1 /\ Len(z) = 2
    OBVIOUS
  <2>3. x[1] = a /\ y[1] = b /\ z[1] = a /\ z[2] = b
    OBVIOUS
  <2> HIDE DEF S, x, y, z
  <2>10. x \o y \in Seq(S)
    BY <2>1
  <2>11. Len(x \o y) = Len(x) + Len(y)
    BY <2>1
  <2>4. x \o y \in Seq(S) /\ Len(x \o y) = 2
    BY <2>2, <2>10, <2>11
  <2>12. 1 \in 1..Len(x) /\ 1 \in 1..Len(y)
    BY <2>2
  <2>13. (x \o y)[1] = x[1] /\ (x \o y)[Len(x) + 1] = y[1]
    BY <2>1, <2>12, ConcatAt
  <2>5. (x \o y)[1] = z[1] /\ (x \o y)[1 + 1] = z[2]
    BY <2>2, <2>3, <2>13
  <2>6. \A k \in 1..2 : k = 1 \/ k = 1 + 1
    OBVIOUS
  <2>7. \A k \in 1..Len(x \o y) : (x \o y)[k] = z[k]
    BY <2>4, <2>5, <2>6
  <2>8. x \o y = z
    BY <2>1, <2>2, <2>4, <2>7, SeqsEqual
  <2> QED
    BY <2>8 DEF x, y, z
<1>4. <<a>> \o <<>> = <<a>>
  OBVIOUS
<1>5. <<>> \o <<a>> = <<a>>
  OBVIOUS
<1> QED
  BY <1>1, <1>2, <1>3, <1>4, <1>5

\* After an item comes a comma and space, after the last one only space.
LEMMA AfterGap ==
    ASSUME NEW t \in Seq(Character), NEW object \in BOOLEAN, NEW more \in BOOLEAN,
           NEW format \in BOOLEAN,
           NEW e, At(t, e, AfterText(object, more, format))
    PROVE  /\ more => e \in 1..Len(t) /\ t[e] = ","
              /\ Gap(t, e + 1, e + Len(AfterText(object, more, format)))
           /\ ~more => Gap(t, e, e + Len(AfterText(object, more, format)))
<1> DEFINE s == AfterText(object, more, format)
<1>1. e \in Nat /\ e >= 1 /\ e + Len(s) - 1 <= Len(t) /\ \A j \in 1..Len(s) : t[e + j - 1] = s[j]
  BY DEF At
<1>2. s \in Seq(Character)
  BY AfterWritten
<1>3. Len(s) \in Nat
  BY <1>2
<1> HIDE DEF s
<1>4. (more => Len(s) >= 1 /\ s[1] = ",") /\ (\A k \in (IF more THEN 2 ELSE 1)..Len(s) : s[k] \in Space)
  <2>1. " " \in Space
    BY SpaceFacts
  <2>2. "\n" \in Space
    BY SpaceFacts
  <2>3. ASSUME NEW b, b \in Space, more, s = <<",", b>>
        PROVE  (more => Len(s) >= 1 /\ s[1] = ",")
            /\ (\A k \in (IF more THEN 2 ELSE 1)..Len(s) : s[k] \in Space)
    <3>1. Len(s) = 2 /\ s[1] = "," /\ s[2] = b
      BY <2>3, TupleFacts
    <3>2. Len(s) = 2
      BY <3>1
    <3>3. \A k \in 2..Len(s) : k = 2
      BY <3>2
    <3>4. \A k \in 2..Len(s) : s[k] \in Space
      BY <2>3, <3>1, <3>3
    <3>5. Len(s) >= 1
      BY <3>2
    <3> QED
      BY <2>3, <3>1, <3>4, <3>5
  <2>4. ASSUME more, s = <<",">>
        PROVE  (more => Len(s) >= 1 /\ s[1] = ",")
            /\ (\A k \in (IF more THEN 2 ELSE 1)..Len(s) : s[k] \in Space)
    <3>1. Len(s) = 1 /\ s[1] = ","
      BY <2>4, TupleFacts
    <3>2. Len(s) = 1
      BY <3>1
    <3>3. Len(s) >= 1 /\ ~(\E k \in 2..Len(s) : TRUE)
      BY <3>2
    <3> QED
      BY <2>4, <3>1, <3>3
  <2>5. CASE object /\ more
    <3>1. s = <<",">> \o (IF format THEN <<"\n">> ELSE <<>>)
      BY <2>5 DEF AfterText, CommaText, s
    <3>2. CASE format
      <4>1. s = <<",">> \o <<"\n">>
        BY <3>1, <3>2
      <4>2. s = <<",", "\n">>
        BY <4>1, TupleFacts
      <4> QED
        BY <4>2, <2>2, <2>3, <2>5
    <3>3. CASE ~format
      <4>1. s = <<",">> \o <<>>
        BY <3>1, <3>3
      <4>2. s = <<",">>
        BY <4>1, TupleFacts
      <4> QED
        BY <4>2, <2>4, <2>5
    <3> QED
      BY <3>2, <3>3
  <2>6. CASE object /\ ~more
    <3>1. s = <<>> \o (IF format THEN <<"\n">> ELSE <<>>)
      BY <2>6 DEF AfterText, CommaText, s
    <3>2. CASE format
      <4>1. s = <<>> \o <<"\n">>
        BY <3>1, <3>2
      <4>2. s = <<"\n">>
        BY <4>1, TupleFacts
      <4>3. Len(s) = 1 /\ s[1] = "\n"
        BY <4>2, TupleFacts
      <4>4. Len(s) = 1
        BY <4>3
      <4>5. \A k \in 1..Len(s) : k = 1
        BY <4>4
      <4>6. \A k \in 1..Len(s) : s[k] \in Space
        BY <4>3, <4>5, <2>2
      <4> QED
        BY <4>6, <2>6
    <3>3. CASE ~format
      <4>1. s = <<>>
        BY <3>1, <3>3
      <4>2. ~(\E k \in 1..Len(s) : TRUE)
        BY <4>1
      <4> QED
        BY <4>2, <2>6
    <3> QED
      BY <3>2, <3>3
  <2>7. CASE ~object /\ more
    <3>1. s = IF format THEN <<",", " ">> ELSE <<",">>
      BY <2>7 DEF AfterText, s
    <3> QED
      BY <3>1, <2>1, <2>3, <2>4, <2>7
  <2>8. CASE ~object /\ ~more
    <3>1. s = <<>>
      BY <2>8 DEF AfterText, s
    <3>2. ~(\E k \in 1..Len(s) : TRUE)
      BY <3>1
    <3> QED
      BY <3>2, <2>8
  <2> QED
    BY <2>5, <2>6, <2>7, <2>8
<1> HIDE DEF s
<1>5. ASSUME more
      PROVE  e \in 1..Len(t) /\ t[e] = "," /\ Gap(t, e + 1, e + Len(s))
  <2>1. Len(s) >= 1
    BY <1>4, <1>5
  <2>2. s[1] = ","
    BY <1>4, <1>5
  <2>3. \A k \in 2..Len(s) : s[k] \in Space
    BY <1>4, <1>5
  <2>4. 1 \in 1..Len(s) /\ e + 1 - 1 = e /\ e <= Len(t)
    BY <2>1, <1>1, <1>3
  <2>5. t[e + 1 - 1] = s[1]
    BY <1>1, <2>4
  <2>6. \A i \in e + 1..(e + Len(s)) - 1 : t[i] \in Space
    <3> SUFFICES ASSUME NEW i \in e + 1..(e + Len(s)) - 1 PROVE t[i] \in Space
      OBVIOUS
    <3> DEFINE j == i - e + 1
    <3>1. j \in 2..Len(s) /\ j \in 1..Len(s) /\ e + j - 1 = i
      BY <1>1, <1>3
    <3>2. t[e + j - 1] = s[j] /\ s[j] \in Space
      BY <1>1, <2>3, <3>1
    <3> QED
      BY <3>1, <3>2
  <2>7. e + 1 \in Nat /\ e + Len(s) \in Nat /\ e + 1 >= 1 /\ e + 1 <= e + Len(s)
    BY <1>1, <1>3, <2>1
  <2>8. Gap(t, e + 1, e + Len(s))
    BY <2>6, <2>7 DEF Gap
  <2>9. e \in 1..Len(t)
    BY <1>1, <2>4
  <2> QED
    BY <2>2, <2>4, <2>5, <2>8, <2>9
<1>6. ASSUME ~more
      PROVE  Gap(t, e, e + Len(s))
  <2>1. \A k \in 1..Len(s) : s[k] \in Space
    BY <1>4, <1>6
  <2> QED
    BY <1>2, <2>1, GapText DEF s
<1> QED
  BY <1>5, <1>6 DEF s

\* Where the value of an item written at a place begins, and where it ends.
ValueStart(object, m, depth, format, at) == at + Len(BeforeText(object, m, depth, format))
ValueEnd(object, m, depth, format, s, at) == ValueStart(object, m, depth, format, at) + Len(s)

\* Wherever s stands, and no more of a number follows, v is read.
ReadsText(t, from, s, v) ==
    \A a \in 1..Len(t) : At(t, a, s) /\ a + Len(s) <= Len(t) /\ t[a + Len(s)] \notin NumberChar
                         => from[a] = Read(a + Len(s), v)

LEMMA ItemStep ==
    ASSUME NEW t \in Seq(Character), NEW object \in BOOLEAN, NEW V, NEW m \in ItemOf(object, V),
           NEW more \in BOOLEAN,
           NEW depth \in Nat, NEW format \in BOOLEAN, NEW s, Starts(s), NEW c \in Nat, c >= 1,
           NEW at, Gap(t, c + 1, at),
           At(t, at, ItemText(object, m, more, depth, format, s)), NEW deeper,
               ReadsText(t, deeper, s, m.v),
           NEW e, e = ValueEnd(object, m, depth, format, s, at), e <= Len(t), t[e] \notin NumberChar
    PROVE  /\ parse_item(t, c, deeper, object) = Read(e, m) /\ e \in Nat /\ e > c
           /\ CanRead(t, buffer_skip_whitespace(t, c + 1))
           /\ t[buffer_skip_whitespace(t, c + 1)] # Close(object)
<1> DEFINE w == ValueStart(object, m, depth, format, at)
<1>1. s \in Seq(Character) /\ Len(s) >= 1
  BY Zenon DEF Starts
<1>2. w = at + Len(BeforeText(object, m, depth, format)) /\ e = w + Len(s)
  BY DEF ValueEnd, ValueStart
<1>3. at \in Nat /\ w \in Nat /\ w >= at /\ At(t, w, s)
  <2>1. /\ at \in Nat /\ at + Len(BeforeText(object, m, depth, format)) \in Nat
        /\ at + Len(BeforeText(object, m, depth, format)) >= at
        /\ At(t, at + Len(BeforeText(object, m, depth, format)), s)
    BY <1>1, ItemPlaces
  <2> HIDE DEF w
  <2> QED
    BY <2>1, <1>2
<1> HIDE DEF w
<1>4. w \in 1..Len(t)
  <2>1. w <= Len(t) /\ w \in Nat /\ w >= 1
    BY <1>3, StartsAt
  <2>2. Len(t) \in Nat
    OBVIOUS
  <2> QED
    BY <2>1, <2>2
<1>5. deeper[w] = Read(e, m.v)
  BY <1>2, <1>3, <1>4 DEF ReadsText
<1>6. c + 1 <= at
  BY Zenon DEF Gap
<1>7. Len(s) \in Nat
  BY <1>1
<1>8. e \in Nat /\ e > c
  BY <1>1, <1>2, <1>3, <1>6, <1>7
<1>9. /\ parse_item(t, c, deeper, object) = Read(e, m)
      /\ CanRead(t, buffer_skip_whitespace(t, c + 1))
      /\ t[buffer_skip_whitespace(t, c + 1)] # Close(object)
  BY <1>2, <1>5, ItemRead
<1> QED
  BY <1>8, <1>9

\* A comma is read at e, and only space follows up to the next item.
CommaAt(t, e, next) == /\ e \in Nat /\ e <= Len(t) /\ t[e] = "," /\ t[e] \notin NumberChar
                       /\ buffer_skip_whitespace(t, e) = e /\ Gap(t, e + 1, next)

\* After an item that is not the last the comma is read.
LEMMA MoreStep ==
    ASSUME NEW t \in Seq(Character), NEW object \in BOOLEAN, NEW V, NEW m \in ItemOf(object, V),
           NEW more \in BOOLEAN,
           NEW depth \in Nat, NEW format \in BOOLEAN, NEW s \in Seq(Character), NEW at,
           At(t, at, ItemText(object, m, more, depth, format, s)),
           NEW e, e = ValueEnd(object, m, depth, format, s, at)
    PROVE  more => CommaAt(t, e, at + Len(ItemText(object, m, more, depth, format, s)))
<1> DEFINE a == AfterText(object, more, format)
           i == ItemText(object, m, more, depth, format, s)
<1>1. At(t, e, a) /\ at + Len(i) = e + Len(a)
  <2>1. e = (at + Len(BeforeText(object, m, depth, format))) + Len(s)
    BY DEF ValueEnd, ValueStart
  <2>4. /\ At(t, (at + Len(BeforeText(object, m, depth, format))) + Len(s), AfterText(object, more, format))
        /\ at + Len(ItemText(object, m, more, depth, format, s))
           = ((at + Len(BeforeText(object, m, depth, format))) + Len(s)) + Len(AfterText(object, more, format))
    BY ItemPlaces
  <2>2. At(t, (at + Len(BeforeText(object, m, depth, format))) + Len(s), a)
    BY <2>4
  <2>3. at + Len(i) = ((at + Len(BeforeText(object, m, depth, format))) + Len(s)) + Len(a)
    BY <2>4
  <2> QED
    BY <2>1, <2>2, <2>3
<1> SUFFICES ASSUME more
             PROVE  CommaAt(t, e, at + Len(i))
  OBVIOUS
<1>2. e \in 1..Len(t) /\ t[e] = "," /\ Gap(t, e + 1, e + Len(a))
  BY <1>1, AfterGap
<1> HIDE DEF a, i
<1>3. "," \notin NumberChar
  BY DEF NumberChar
<1>4. "," \notin Space
  BY SpaceFacts
<1>11. e \in 1..Len(t)
  BY <1>2
<1>12. Len(t) \in Nat
  OBVIOUS
<1>10. Len(t) \in Nat /\ e \in 1..Len(t)
  BY <1>11, <1>12
<1>8. e \in Nat /\ e <= Len(t) /\ e >= 1
  BY <1>10
<1>5. Gap(t, e, e) /\ e \in Nat /\ e <= Len(t)
  BY <1>8, GapEmpty
<1>6. buffer_skip_whitespace(t, e) = e
  BY <1>2, <1>4, <1>5, GapSkip
<1>7. Gap(t, e + 1, at + Len(i))
  BY <1>1, <1>2
<1> QED
  BY <1>2, <1>3, <1>5, <1>6, <1>7 DEF CommaAt

\* After the last item the closing bracket is read.
LEMMA LastStep ==
    ASSUME NEW t \in Seq(Character), NEW object \in BOOLEAN, NEW V, NEW m \in ItemOf(object, V),
           NEW more \in BOOLEAN, ~more,
           NEW depth \in Nat, NEW format \in BOOLEAN, NEW s \in Seq(Character), NEW at,
           At(t, at, ItemText(object, m, more, depth, format, s)),
           NEW e, e = ValueEnd(object, m, depth, format, s, at),
           NEW y, y = at + Len(ItemText(object, m, more, depth, format, s)),
           At(t, y, CloseText(object, depth, format)),
           NEW z, z = y + Len(CloseText(object, depth, format)) - 1
    PROVE  /\ e \in Nat /\ e <= Len(t) /\ t[e] \notin NumberChar /\ buffer_skip_whitespace(t, e) = z
           /\ e <= z
<1> DEFINE a == AfterText(object, more, format)
           i == ItemText(object, m, more, depth, format, s)
<1>1. At(t, e, a) /\ at + Len(i) = e + Len(a)
  BY ItemPlaces DEF ValueEnd, ValueStart
<1>2. Gap(t, e, e + Len(a))
  BY <1>1, AfterGap
<1>9. y = e + Len(a)
  BY <1>1
<1> HIDE DEF a, i
<1>3. z \in Nat /\ z >= 1 /\ z <= Len(t) /\ t[z] = Close(object) /\ Gap(t, y, z) /\ t[z] \notin Space
  BY CloseGap
<1>4. Gap(t, e, y)
  BY <1>2, <1>9
<1>5. Gap(t, e, z)
  BY <1>3, <1>4, GapJoin
<1>6. e \in Nat /\ e <= z /\ \A k \in e..z - 1 : t[k] \in Space
  BY <1>5 DEF Gap
<1>7. buffer_skip_whitespace(t, e) = z
  BY <1>3, <1>5, GapSkip
<1>8. t[e] \notin NumberChar
  <2>1. CASE e = z
    <3>1. Close(object) \notin NumberChar
      BY DEF Close, NumberChar
    <3> QED
      BY <2>1, <3>1, <1>3
  <2>2. CASE e # z
    <3>1. e \in e..z - 1
      BY <2>2, <1>3, <1>6
    <3>2. t[e] \in Space
      BY <3>1, <1>6
    <3> QED
      BY <3>2, NumberFacts
  <2> QED
    BY <2>1, <2>2
<1>10. e <= Len(t)
  <2>1. Len(t) \in Nat
    OBVIOUS
  <2> QED
    BY <2>1, <1>3, <1>6
<1> QED
  BY <1>6, <1>7, <1>8, <1>10

\* The text of a container of items with the values written as ss.
ItemsOf(object, of, depth, format, ss) ==
    [i \in 1..Len(of) |-> ItemText(object, of[i], i < Len(of), depth, format, ss[i])]
Place(at, object, format, g, k) == (at + Len(OpenText(object, format))) + Len(g[k - 1])
Whole(object, of, depth, format, g) == (OpenText(object, format) \o g[Len(of)]) \o CloseText(object, depth, format)

LEMMA ItemSeq ==
    ASSUME NEW object \in BOOLEAN, NEW V, NEW m \in ItemOf(object, V), NEW more \in BOOLEAN,
           NEW depth \in Nat, NEW format \in BOOLEAN, NEW s \in Seq(Character)
    PROVE  ItemText(object, m, more, depth, format, s) \in Seq(Character)
<1> DEFINE b == BeforeText(object, m, depth, format)
           a == AfterText(object, more, format)
<1>1. b \in Seq(Character) /\ a \in Seq(Character)
  BY BeforeWritten, AfterWritten
<1>2. ItemText(object, m, more, depth, format, s) = (b \o s) \o a
  BY DEF ItemText
<1> HIDE DEF a, b
<1>3. b \o s \in Seq(Character)
  BY <1>1, ConcatSeq
<1>4. (b \o s) \o a \in Seq(Character)
  BY <1>1, <1>3, ConcatSeq
<1> QED
  BY <1>2, <1>4

\* Where the parts of the text of a container stand.
LEMMA ListPlaces ==
    ASSUME NEW t \in Seq(Character), NEW object \in BOOLEAN, NEW V, NEW of \in Seq(ItemOf(object, V)),
           NEW depth \in Nat, NEW format \in BOOLEAN, NEW ss,
           \A i \in 1..Len(of) : ss[i] \in Seq(Character),
           NEW g, Joins(Character, ItemsOf(object, of, depth, format, ss), g),
           NEW at, At(t, at, Whole(object, of, depth, format, g))
    PROVE  /\ At(t, at, OpenText(object, format))
           /\ \A k \in 1..Len(of) :
                 /\ Place(at, object, format, g, k) \in Nat
                 /\ At(t, Place(at, object, format, g, k), ItemText(object, of[k], k < Len(of), depth, format, ss[k]))
                 /\ Place(at, object, format, g, k + 1)
                    = Place(at, object, format, g, k) + Len(ItemText(object, of[k], k < Len(of), depth, format, ss[k]))
           /\ At(t, Place(at, object, format, g, Len(of) + 1), CloseText(object, depth, format))
           /\ at + Len(Whole(object, of, depth, format, g))
              = Place(at, object, format, g, Len(of) + 1) + Len(CloseText(object, depth, format))
<1> DEFINE n == Len(of)
           o == OpenText(object, format)
           c == CloseText(object, depth, format)
           it == ItemsOf(object, of, depth, format, ss)
           w == g[n]
<1>0. n \in Nat
  OBVIOUS
<1>1. o \in Seq(Character) /\ c \in Seq(Character)
  BY SmallTexts, CloseTextSeq
<1>2. \A k \in 1..n : ItemText(object, of[k], k < n, depth, format, ss[k]) \in Seq(Character)
  <2> SUFFICES ASSUME NEW k \in 1..n PROVE ItemText(object, of[k], k < n, depth, format, ss[k]) \in Seq(Character)
    OBVIOUS
  <2> DEFINE more == k < n
             s == ss[k]
             m == of[k]
  <2>1. more \in BOOLEAN /\ s \in Seq(Character) /\ m \in ItemOf(object, V)
    OBVIOUS
  <2> HIDE DEF more, s, m
  <2>2. ItemText(object, m, more, depth, format, s) \in Seq(Character)
    BY <2>1, ItemSeq
  <2> QED
    BY <2>2 DEF more, s, m
<1>3. Len(it) = n /\ \A k \in 1..n : it[k] = ItemText(object, of[k], k < n, depth, format, ss[k])
  BY DEF ItemsOf
<1>4. \A k \in 1..n : it[k] \in Seq(Character)
  BY <1>2, <1>3
<1> HIDE DEF it, n, o, c
<1>5. /\ \A k \in 0..n : g[k] \in Seq(Character)
      /\ \A k \in 1..n : g[k] = g[k - 1] \o it[k]
  BY <1>3 DEF Joins, it
<1>6. w \in Seq(Character)
  BY <1>0, <1>5
<1> HIDE DEF w
<1>7. o \o w \in Seq(Character) /\ Len(o \o w) = Len(o) + Len(w) /\ Len(o) \in Nat /\ Len(w) \in Nat
  BY <1>1, <1>6, ConcatSeq
<1>8. Len((o \o w) \o c) = Len(o \o w) + Len(c) /\ Len(c) \in Nat
  BY <1>1, <1>7, ConcatSeq
<1>9. Whole(object, of, depth, format, g) = (o \o w) \o c
  BY DEF Whole, o, w, c, n
<1>10. At(t, at, (o \o w) \o c)
  BY <1>9
<1>11. At(t, at, o \o w) /\ At(t, at + Len(o \o w), c)
  BY <1>1, <1>7, <1>10, AtConcat
<1>12. At(t, at, o) /\ At(t, at + Len(o), w)
  BY <1>1, <1>6, <1>11, AtConcat
<1>13. at \in Nat
  BY <1>12 DEF At
<1>14. \A k \in 1..n : At(t, (at + Len(o)) + Len(g[k - 1]), it[k])
  <2>1. Joins(Character, it, g) /\ Len(it) \in Nat
      /\ (\A k \in 1..Len(it) : it[k] \in Seq(Character)) /\ At(t, at + Len(o), g[Len(it)])
    BY <1>0, <1>3, <1>4, <1>12 DEF it, w
  <2>2. \A k \in 1..Len(it) : At(t, (at + Len(o)) + Len(g[k - 1]), it[k])
    BY <2>1, AtJoins
  <2> QED
    BY <2>2, <1>3
<1>15. \A k \in 1..n : /\ (at + Len(o)) + Len(g[k - 1]) \in Nat
                       /\ (at + Len(o)) + Len(g[k]) = ((at + Len(o)) + Len(g[k - 1])) + Len(it[k])
  <2> SUFFICES ASSUME NEW k \in 1..n
               PROVE  /\ (at + Len(o)) + Len(g[k - 1]) \in Nat
                      /\ (at + Len(o)) + Len(g[k]) = ((at + Len(o)) + Len(g[k - 1])) + Len(it[k])
    OBVIOUS
  <2> DEFINE a == g[k - 1]
             b == it[k]
  <2>1. a \in Seq(Character) /\ b \in Seq(Character) /\ g[k] = a \o b
    <3>1. k - 1 \in 0..n
      BY <1>0
    <3> QED
      BY <3>1, <1>4, <1>5
  <2> HIDE DEF a, b
  <2>2. Len(a \o b) = Len(a) + Len(b) /\ Len(a) \in Nat /\ Len(b) \in Nat
    BY <2>1, ConcatSeq
  <2>3. (at + Len(o)) + Len(a) \in Nat
      /\ (at + Len(o)) + Len(a \o b) = ((at + Len(o)) + Len(a)) + Len(b)
    BY <2>2, <1>7, <1>13
  <2> QED
    BY <2>1, <2>3 DEF a, b
<1>16. at + Len(o \o w) = (at + Len(o)) + Len(w)
    /\ at + Len((o \o w) \o c) = ((at + Len(o)) + Len(w)) + Len(c)
  BY <1>7, <1>8, <1>13
<1>17. \A k \in 1..n : Place(at, object, format, g, k) = (at + Len(o)) + Len(g[k - 1])
  BY DEF Place, o
<1>18. \A k \in 1..n : Place(at, object, format, g, k + 1) = (at + Len(o)) + Len(g[k])
  <2> SUFFICES ASSUME NEW k \in 1..n PROVE Place(at, object, format, g, k + 1) = (at + Len(o)) + Len(g[k])
    OBVIOUS
  <2>1. (k + 1) - 1 = k
    OBVIOUS
  <2> QED
    BY <2>1 DEF Place, o
<1>19. Place(at, object, format, g, n + 1) = (at + Len(o)) + Len(w)
  <2>1. (n + 1) - 1 = n
    BY <1>0
  <2> QED
    BY <2>1 DEF Place, o, w
<1>20. \A k \in 1..n :
          /\ Place(at, object, format, g, k) \in Nat
          /\ At(t, Place(at, object, format, g, k), ItemText(object, of[k], k < n, depth, format, ss[k]))
          /\ Place(at, object, format, g, k + 1)
             = Place(at, object, format, g, k) + Len(ItemText(object, of[k], k < n, depth, format, ss[k]))
  BY <1>3, <1>14, <1>15, <1>17, <1>18
<1>21. /\ At(t, Place(at, object, format, g, n + 1), c)
       /\ at + Len((o \o w) \o c) = Place(at, object, format, g, n + 1) + Len(c)
  BY <1>11, <1>16, <1>19
<1> QED
  BY <1>9, <1>12, <1>20, <1>21 DEF n, o, c

\* The items of a list begin as values do, and are read one level deeper.
ItemsRead(t, deeper, of, ss) ==
    \A i \in 1..Len(of) : Starts(ss[i]) /\ ReadsText(t, deeper, ss[i], of[i].v)

\* A container printed is the container read.
LEMMA ContainerRead ==
    ASSUME NEW t \in Seq(Character), NEW V, NEW deeper, Deeper(t, V, deeper), NEW object \in BOOLEAN,
           NEW W, NEW of \in Seq(ItemOf(object, W)), NEW depth \in Nat, NEW format \in BOOLEAN,
           NEW ss, ItemsRead(t, deeper, of, ss), NEW g,
           Joins(Character, ItemsOf(object, of, depth, format, ss), g),
           NEW at, At(t, at, Whole(object, of, depth, format, g))
    PROVE  parse_list(t, at, buffer_skip_whitespace(t, at + 1), deeper, object)
           = Read(at + Len(Whole(object, of, depth, format, g)), Container(object, of))
<1> DEFINE n == Len(of)
           P(k) == Place(at, object, format, g, k)
           close == CloseText(object, depth, format)
           text_ == Whole(object, of, depth, format, g)
           z == P(n + 1) + Len(close) - 1
           first == buffer_skip_whitespace(t, at + 1)
<1>0. n \in Nat /\ Len(t) \in Nat
  OBVIOUS
<1>1. \A i \in 1..n : Starts(ss[i]) /\ ReadsText(t, deeper, ss[i], of[i].v)
  BY Zenon DEF ItemsRead
<1>2. \A i \in 1..n : ss[i] \in Seq(Character)
  BY <1>1, Zenon DEF Starts
<1>3. /\ At(t, at, OpenText(object, format))
      /\ \A k \in 1..n : /\ P(k) \in Nat
                         /\ At(t, P(k), ItemText(object, of[k], k < n, depth, format, ss[k]))
                         /\ P(k + 1) = P(k) + Len(ItemText(object, of[k], k < n, depth, format, ss[k]))
      /\ At(t, P(n + 1), close) /\ at + Len(text_) = P(n + 1) + Len(close)
  <2> HIDE DEF P, n, close, text_
  <2> QED
    BY <1>2, ListPlaces DEF P, n, close, text_
<1>4. /\ at \in 1..Len(t) /\ Gap(t, at + 1, at + Len(OpenText(object, format)))
  BY <1>3, OpenGap
<1>5. z \in Nat /\ z >= 1 /\ z <= Len(t) /\ t[z] = Close(object) /\ Gap(t, P(n + 1), z)
    /\ t[z] \notin Space
  BY <1>3, CloseGap
<1>6. Len(close) \in Nat
  BY CloseTextSeq
<1>7. P(n + 1) \in Nat
  BY <1>5, Zenon DEF Gap
<1>8. z + 1 = at + Len(text_)
  BY <1>3, <1>6, <1>7
<1>9. g[0] = <<>>
  BY Zenon DEF Joins
<1>10. P(1) = at + Len(OpenText(object, format))
  <2>1. 1 - 1 = 0 /\ Len(<<>>) = 0
    OBVIOUS
  <2>2. Len(OpenText(object, format)) \in Nat
    BY SmallTexts
  <2> QED
    BY <1>4, <1>9, <2>1, <2>2 DEF Place
<1>11. CASE n = 0
  <2>1. P(n + 1) = P(1) /\ of = <<>>
    BY <1>11
  <2>2. Gap(t, at + 1, z)
    BY <2>1, <1>4, <1>5, <1>10, GapJoin
  <2>3. first = z
    BY <2>2, <1>5, GapSkip
  <2> HIDE DEF first, z
  <2>4. parse_list(t, at, first, deeper, object) = Read(first + 1, Container(object, <<>>))
    BY <2>3, <1>5 DEF parse_list, CanRead
  <2> QED
    BY <2>1, <2>3, <2>4, <1>8 DEF first
<1>12. CASE n >= 1
  <2> DEFINE E(k) == ValueEnd(object, of[k], depth, format, ss[k], P(k))
             c == [k \in 1..n + 1 |-> IF k = 1 THEN at ELSE IF k = n + 1 THEN z ELSE E(k - 1)]
             e == [k \in 1..n |-> E(k)]
  <2>1. ASSUME NEW k \in 1..n
        PROVE  /\ E(k) \in Nat /\ E(k) <= Len(t) /\ t[E(k)] \notin NumberChar
               /\ k < n => buffer_skip_whitespace(t, E(k)) = E(k) /\ t[E(k)] = ","
                   /\ Gap(t, E(k) + 1, P(k + 1))
               /\ k = n => buffer_skip_whitespace(t, E(k)) = z /\ E(k) <= z
    <3> DEFINE m == of[k]
               s == ss[k]
               more == k < n
               p == P(k)
               x == E(k)
    <3>1. m \in ItemOf(object, W) /\ s \in Seq(Character) /\ more \in BOOLEAN
      BY <1>2
    <3>2. At(t, p, ItemText(object, m, more, depth, format, s))
        /\ x = ValueEnd(object, m, depth, format, s, p)
          /\ P(k + 1) = p + Len(ItemText(object, m, more, depth, format, s))
      BY <1>3
    <3> HIDE DEF m, s, more, p, x, P, z
    <3>3. more => /\ x \in Nat /\ x <= Len(t) /\ t[x] = "," /\ t[x] \notin NumberChar
                     /\ buffer_skip_whitespace(t, x) = x
                  /\ Gap(t, x + 1, P(k + 1))
      <4>1. more => CommaAt(t, x, p + Len(ItemText(object, m, more, depth, format, s)))
        BY <3>1, <3>2, MoreStep
      <4>2. p + Len(ItemText(object, m, more, depth, format, s)) = P(k + 1)
        BY <3>2
      <4>3. more => CommaAt(t, x, P(k + 1))
        BY <4>1, <4>2
      <4> QED
        BY <4>3 DEF CommaAt
    <3>4. k = n => ~more
      BY <1>0 DEF more
    <3>5. k = n => /\ x \in Nat /\ x <= Len(t) /\ t[x] \notin NumberChar
                      /\ buffer_skip_whitespace(t, x) = z /\ x <= z
      <4> SUFFICES ASSUME k = n
                   PROVE  /\ x \in Nat /\ x <= Len(t) /\ t[x] \notin NumberChar
                             /\ buffer_skip_whitespace(t, x) = z /\ x <= z
        OBVIOUS
      <4> DEFINE y == P(k + 1)
      <4>1. At(t, y, close) /\ z = y + Len(close) - 1
        BY <1>3 DEF z
      <4>2. y = p + Len(ItemText(object, m, more, depth, format, s))
        BY <3>2
      <4> HIDE DEF y
      <4> QED
        BY <3>1, <3>2, <3>4, <4>1, <4>2, LastStep
    <3>6. k < n \/ k = n
      BY <1>0
    <3> QED
      BY <3>3, <3>5, <3>6 DEF more, x
  <2>2. /\ c[1] = at /\ c[n + 1] = z /\ \A k \in 2..n : c[k] = E(k - 1)
        /\ \A k \in 1..n : e[k] = E(k)
    <3> HIDE DEF E, z, P
    <3>1. 1 \in 1..n + 1 /\ n + 1 \in 1..n + 1 /\ n + 1 # 1 /\ \A k \in 2..n : k \in 1..n + 1
        /\ k # 1 /\ k # n + 1
      BY <1>0, <1>12
    <3> QED
      BY <3>1
  <2> HIDE DEF c, e, z
  <2>3. ASSUME NEW k \in 1..n
        PROVE  /\ c[k + 1] \in Nat /\ c[k + 1] <= Len(t) /\ e[k] \in Nat /\ e[k] <= Len(t)
                  /\ t[e[k]] \notin NumberChar
               /\ buffer_skip_whitespace(t, e[k]) = c[k + 1] /\ e[k] <= c[k + 1]
               /\ k < n => c[k + 1] = e[k] /\ t[c[k + 1]] = ","
    <3>1. CASE k < n
      <4>1. k + 1 \in 2..n /\ (k + 1) - 1 = k
        BY <3>1, <1>0
      <4>2. c[k + 1] = E(k) /\ e[k] = E(k)
        BY <4>1, <2>2
      <4>3. E(k) \in Nat /\ E(k) <= Len(t) /\ t[E(k)] \notin NumberChar
          /\ buffer_skip_whitespace(t, E(k)) = E(k) /\ t[E(k)] = ","
        BY <3>1, <2>1
      <4> HIDE DEF E
      <4>7. \A i \in Nat : i <= i
        OBVIOUS
      <4>4. E(k) \in Nat /\ E(k) <= E(k)
        BY <4>3, <4>7
      <4>5. c[k + 1] \in Nat /\ c[k + 1] <= Len(t) /\ e[k] \in Nat /\ e[k] <= Len(t) /\ e[k] <= c[k + 1]
        BY <4>2, <4>3, <4>4
      <4>6. t[e[k]] \notin NumberChar /\ buffer_skip_whitespace(t, e[k]) = c[k + 1]
          /\ c[k + 1] = e[k] /\ t[c[k + 1]] = ","
        BY <4>2, <4>3
      <4> QED
        BY <4>5, <4>6
    <3>2. CASE k = n
      <4>1. c[k + 1] = z /\ e[k] = E(k)
        BY <3>2, <2>2
      <4> HIDE DEF E
      <4> QED
        BY <3>2, <4>1, <2>1, <1>5
    <3>3. k < n \/ k = n
      BY <1>0
    <3> QED
      BY <3>1, <3>2, <3>3
  <2>4. ASSUME NEW k \in 1..n
        PROVE  c[k] \in Nat /\ c[k] >= 1 /\ Gap(t, c[k] + 1, P(k))
    <3>1. CASE k = 1
      <4>1. c[k] = at /\ at \in Nat /\ at >= 1
        BY <3>1, <2>2, <1>4
      <4> HIDE DEF P
      <4>2. Gap(t, at + 1, P(1))
        BY <1>4, <1>10
      <4> QED
        BY <3>1, <4>1, <4>2
    <3>2. CASE k # 1
      <4> DEFINE j == k - 1
      <4>1. j \in 1..n /\ j < n /\ j + 1 = k /\ k \in 2..n
        BY <3>2, <1>0
      <4>2. c[k] = E(j)
        BY <4>1, <2>2
      <4> HIDE DEF j, E, P
      <4>3. E(j) \in Nat /\ Gap(t, E(j) + 1, P(j + 1)) /\ t[E(j)] = ","
          /\ buffer_skip_whitespace(t, E(j)) = E(j)
        BY <4>1, <2>1
      <4>4. E(j) >= 1
        <5>1. e[j] = E(j) /\ e[j] \in Nat
          BY <4>1, <2>2, <2>3
        <5>2. j \in 1..n /\ At(t, P(j), ItemText(object, of[j], j < n, depth, format, ss[j]))
          BY <4>1, <1>3
        <5>3. E(j) >= P(j) /\ P(j) >= 1
          <6> DEFINE m == of[j]
                     s == ss[j]
                     more == j < n
                     p == P(j)
          <6>1. m \in ItemOf(object, W) /\ s \in Seq(Character) /\ more \in BOOLEAN
            BY <5>2, <1>2
          <6>2. At(t, p, ItemText(object, m, more, depth, format, s))
            BY <5>2
          <6>3. E(j) = ValueEnd(object, m, depth, format, s, p)
            BY DEF E, P
          <6> HIDE DEF m, s, more, p
          <6>4. p >= 1 /\ p \in Nat /\ p + Len(BeforeText(object, m, depth, format)) >= p
                /\ p + Len(BeforeText(object, m, depth, format)) \in Nat
            BY <6>1, <6>2, ItemPlaces
          <6>5. Len(s) \in Nat
            BY <6>1
          <6> QED
            BY <6>3, <6>4, <6>5 DEF ValueEnd, ValueStart, p
        <5>4. P(j) \in Nat /\ E(j) \in Nat
          BY <4>1, <4>3, <1>3
        <5> QED
          BY <5>3, <5>4
      <4> QED
        BY <4>1, <4>2, <4>3, <4>4
    <3> QED
      BY <3>1, <3>2
  <2>5. ASSUME NEW k \in 1..n
        PROVE  /\ parse_item(t, c[k], deeper, object) = Read(e[k], of[k]) /\ e[k] > c[k]
               /\ CanRead(t, buffer_skip_whitespace(t, c[k] + 1))
               /\ t[buffer_skip_whitespace(t, c[k] + 1)] # Close(object)
    <3> DEFINE m == of[k]
               s == ss[k]
               more == k < n
               p == P(k)
               x == e[k]
               b == c[k]
    <3>1. m \in ItemOf(object, W) /\ more \in BOOLEAN /\ Starts(s) /\ ReadsText(t, deeper, s, m.v)
      BY <1>1
    <3>2. At(t, p, ItemText(object, m, more, depth, format, s))
        /\ x = ValueEnd(object, m, depth, format, s, p)
      BY <1>3, <2>2
    <3>3. b \in Nat /\ b >= 1 /\ Gap(t, b + 1, p) /\ x <= Len(t) /\ t[x] \notin NumberChar
      BY <2>3, <2>4
    <3> HIDE DEF m, s, more, p, x, b
    <3>4. parse_item(t, b, deeper, object) = Read(x, m) /\ x > b
          /\ CanRead(t, buffer_skip_whitespace(t, b + 1))
          /\ t[buffer_skip_whitespace(t, b + 1)] # Close(object)
      BY <3>1, <3>2, <3>3, ItemStep
    <3> QED
      BY <3>4 DEF m, x, b
  <2>6. Path(t, deeper, object, of, c, e)
    <3> HIDE DEF P, E
    <3>1. ASSUME NEW k \in 1..n
          PROVE  /\ c[k] \in Nat /\ c[k + 1] \in Nat /\ c[k] < c[k + 1] /\ c[k + 1] <= Len(t)
                 /\ parse_item(t, c[k], deeper, object) = Read(e[k], of[k])
                 /\ buffer_skip_whitespace(t, e[k]) = c[k + 1]
      <4>1. c[k] \in Nat /\ c[k + 1] \in Nat /\ c[k + 1] <= Len(t) /\ e[k] \in Nat
          /\ e[k] <= c[k + 1] /\ e[k] > c[k]
        BY <2>3, <2>4, <2>5
      <4>2. c[k] < c[k + 1]
        BY <4>1
      <4> QED
        BY <4>1, <4>2, <2>3, <2>5
    <3>2. ASSUME NEW k \in 1..n - 1
          PROVE  t[c[k + 1]] = ","
      <4>1. k \in 1..n /\ k < n
        BY <1>0
      <4> QED
        BY <4>1, <2>3
    <3>3. t[c[n + 1]] = Close(object)
      BY <2>2, <1>5
    <3> QED
      BY <3>1, <3>2, <3>3 DEF Path
  <2>7. 1 \in 1..n /\ c[1] = at
    BY <1>12, <2>2, <1>0
  <2>8. CanRead(t, first) /\ t[first] # Close(object)
    BY <2>5, <2>7
  <2> HIDE DEF P, first
  <2>9. parse_list(t, at, first, deeper, object) = Items(Loop(t, at, deeper, object), object)
    BY <2>8 DEF parse_list
  <2>10. Items(Loop(t, at, deeper, object), object) = Read(c[n + 1] + 1, Container(object, of))
    BY <2>6, <2>7, <1>4, <1>12, ListRead
  <2>11. c[n + 1] + 1 = at + Len(text_)
    BY <2>2, <1>8
  <2> QED
    BY <2>9, <2>10, <2>11 DEF first
<1> QED
  BY <1>0, <1>11, <1>12

-----------------------------------------------------------------------------
(* What is printed is read.                                                *)

LEMMA ScalarStarts ==
    ASSUME NEW v \in Scalar
    PROVE  Starts(ScalarText(v))
<1>1. ASSUME NEW w \in Word, v = Plain(w)
      PROVE  Starts(ScalarText(v))
  <2>1. v.type = w
    BY <1>1 DEF Plain
  <2>6. w # "number" /\ w # "string"
    BY DEF Word
  <2>2. ScalarText(v) = <<w>>
    BY <2>1, <2>6 DEF ScalarText
  <2>3. w \in Character /\ w \notin Space
    BY WordFacts
  <2>4. w \notin {"]", "}", "bom"}
    BY DEF Word
  <2>5. <<w>> \in Seq(Character) /\ Len(<<w>>) = 1 /\ <<w>>[1] = w
    BY <2>3, TupleFacts
  <2>7. Len(<<w>>) >= 1
    BY <2>5
  <2>8. Starts(<<w>>)
    BY <2>3, <2>4, <2>5, <2>7 DEF Starts
  <2> QED
    BY <2>2, <2>8
<1>2. ASSUME NEW n \in Int, v = Number(n)
      PROVE  Starts(ScalarText(v))
  <2>1. ScalarText(v) = NumberText(n)
    BY <1>2 DEF ScalarText, Number, Word
  <2>2. NumberText(n) \in Seq(Character) /\ Len(NumberText(n)) >= 1 /\ NumberText(n)[1] \in NumberChar
    BY NumberTextSeq
  <2>3. \A c \in NumberChar : c \notin {"]", "}", "bom"}
    BY DEF NumberChar
  <2>4. NumberText(n)[1] \notin Space
    BY <2>2, NumberFacts
  <2> QED
    BY <2>1, <2>2, <2>3, <2>4 DEF Starts
<1>3. ASSUME NEW s \in CText, v = String(s)
      PROVE  Starts(ScalarText(v))
  <2>1. ScalarText(v) = Quoted(s)
    BY <1>3 DEF ScalarText, String, Word
  <2> QED
    BY <2>1, QuotedStarts
<1> QED
  BY <1>1, <1>2, <1>3, ScalarCases

LEMMA ScalarRead ==
    ASSUME NEW t \in Seq(Character), NEW v \in Scalar, NEW at \in 1..Len(t), NEW depth, NEW deeper,
           NEW s, s = ScalarText(v), At(t, at, s), at + Len(s) <= Len(t),
           t[at + Len(s)] \notin NumberChar
    PROVE  parse_value(t, at, depth, deeper) = Read(at + Len(s), v)
<1>0. CanRead(t, at)
  BY DEF CanRead
<1>1. ASSUME NEW w \in Word, v = Plain(w)
      PROVE  parse_value(t, at, depth, deeper) = Read(at + Len(s), v)
  <2>1. v.type = w
    BY <1>1 DEF Plain
  <2>6. w # "number" /\ w # "string"
    BY DEF Word
  <2>2. s = <<w>>
    BY <2>1, <2>6 DEF ScalarText
  <2>3. Len(<<w>>) = 1 /\ t[at] = w
    BY <2>2, AtOne, TupleFacts
  <2>4. parse_value(t, at, depth, deeper) = Read(at + 1, Plain(t[at]))
    BY <1>0, <2>3, ValueCases
  <2>5. Len(s) = 1
    BY <2>2, <2>3
  <2> QED
    BY <1>1, <2>3, <2>4, <2>5
<1>2. ASSUME NEW n \in Int, v = Number(n)
      PROVE  parse_value(t, at, depth, deeper) = Read(at + Len(s), v)
  <2>1. s = NumberText(n)
    BY <1>2 DEF ScalarText, Number, Word
  <2>2. t[at] \in NumberChar /\ parse_number(t, at) = Read(at + Len(s), Number(n))
    BY <2>1, NumberRead
  <2> QED
    BY <1>0, <1>2, <2>2, ValueCases
<1>3. ASSUME NEW x \in CText, v = String(x)
      PROVE  parse_value(t, at, depth, deeper) = Read(at + Len(s), v)
  <2>1. s = Quoted(x)
    BY <1>3 DEF ScalarText, String, Word
  <2>2. parse_string(t, at) = Read(at + Len(s), String(x))
    BY <2>1, StringRead
  <2>3. Starts(s) /\ s[1] = Quote
    BY <2>1, QuotedStarts
  <2>4. t[at] = Quote
    BY <2>3, StartsAt
  <2> QED
    BY <1>0, <1>3, <2>2, <2>4, ValueCases
<1> QED
  BY <1>1, <1>2, <1>3, ScalarCases

LEMMA WholeStarts ==
    ASSUME NEW object \in BOOLEAN, NEW V, NEW of \in Seq(ItemOf(object, V)),
           NEW depth \in Nat, NEW format \in BOOLEAN, NEW ss,
           \A i \in 1..Len(of) : ss[i] \in Seq(Character),
           NEW g, Joins(Character, ItemsOf(object, of, depth, format, ss), g)
    PROVE  Starts(Whole(object, of, depth, format, g))
<1> DEFINE n == Len(of)
           o == OpenText(object, format)
           c == CloseText(object, depth, format)
           w == g[n]
           b == IF object THEN "{" ELSE "["
<1>1. o \in Seq(Character) /\ c \in Seq(Character)
  BY SmallTexts, CloseTextSeq
<1>2. Len(o) >= 1 /\ o[1] = b
  <2>1. CASE ~object
    <3>1. o = <<b>>
      BY <2>1 DEF OpenText
    <3> HIDE DEF o, b
    <3>2. Len(o) = 1 /\ o[1] = b
      BY <3>1, TupleFacts
    <3>3. Len(o) = 1
      BY <3>2
    <3>4. Len(o) >= 1
      BY <3>3
    <3> QED
      BY <3>2, <3>4
  <2>2. CASE object /\ format
    <3>1. o = <<b, "\n">>
      BY <2>2 DEF OpenText
    <3> HIDE DEF o, b
    <3>2. Len(o) = 2 /\ o[1] = b
      BY <3>1, TupleFacts
    <3>3. Len(o) = 2
      BY <3>2
    <3>4. Len(o) >= 1
      BY <3>3
    <3> QED
      BY <3>2, <3>4
  <2>3. CASE object /\ ~format
    <3>1. o = <<b>>
      BY <2>3 DEF OpenText
    <3> HIDE DEF o, b
    <3>2. Len(o) = 1 /\ o[1] = b
      BY <3>1, TupleFacts
    <3>3. Len(o) = 1
      BY <3>2
    <3>4. Len(o) >= 1
      BY <3>3
    <3> QED
      BY <3>2, <3>4
  <2> QED
    BY <2>1, <2>2, <2>3
<1>3. w \in Seq(Character)
  <2>1. Len(ItemsOf(object, of, depth, format, ss)) = n /\ n \in 0..n
    BY DEF ItemsOf
  <2> QED
    BY <2>1 DEF Joins
<1>4. Whole(object, of, depth, format, g) = (o \o w) \o c
  BY DEF Whole
<1>5. b \notin Space
  BY SpaceFacts
<1>6. b \notin {"]", "}", "bom"}
  OBVIOUS
<1> HIDE DEF o, c, w, b
<1>7. o \o w \in Seq(Character) /\ Len(o \o w) = Len(o) + Len(w) /\ Len(o) \in Nat /\ Len(w) \in Nat
  BY <1>1, <1>3, ConcatSeq
<1>8. (o \o w) \o c \in Seq(Character) /\ Len((o \o w) \o c) = Len(o \o w) + Len(c) /\ Len(c) \in Nat
  BY <1>1, <1>7, ConcatSeq
<1>9. Len(o \o w) >= 1 /\ Len((o \o w) \o c) >= 1
  BY <1>2, <1>7, <1>8
<1>10. 1 \in 1..Len(o) /\ 1 \in 1..Len(o \o w)
  BY <1>2, <1>7, <1>9
<1>11. (o \o w)[1] = o[1]
  BY <1>1, <1>3, <1>10, ConcatAt
<1>12. ((o \o w) \o c)[1] = (o \o w)[1]
  BY <1>1, <1>7, <1>10, ConcatAt
<1>13. ((o \o w) \o c)[1] = b
  BY <1>2, <1>11, <1>12
<1> QED
  BY <1>4, <1>5, <1>6, <1>8, <1>9, <1>13 DEF Starts

\* A value that can be printed from depth d on is read back there.
Returns(t, from, put, d, v) ==
    put[d][v] \in Seq(Printable) => /\ Starts(AllPut(put[d][v]))
                                    /\ ReadsText(t, from[d], AllPut(put[d][v]), v)

LEMMA ScalarReturns ==
    ASSUME NEW t \in Seq(Character), NEW from, Froms(t, from), NEW format \in BOOLEAN, NEW put,
           Puts(format, put),
           NEW d \in 0..CJSON_NESTING_LIMIT, NEW v \in Nested(Deepest - d), v \in Scalar
    PROVE  Returns(t, from, put, d, v)
<1>0. d \in 0..Deepest
  BY DeepestNat, LimitNat
<1>1. put[d][v] = print_value(v, d, format, put[d + 1])
  BY <1>0, PutsAre
<1>2. PICK c \in Printable : print_value(v, d, format, put[d + 1]) = <<c>> /\ c.put = ScalarText(v)
  BY ScalarWritten
<1>3. AllPut(put[d][v]) = ScalarText(v)
  BY <1>1, <1>2, PrintableOne
<1> DEFINE s == ScalarText(v)
<1>4. Starts(s)
  BY ScalarStarts
<1>5. ReadsText(t, from[d], s, v)
  <2> SUFFICES ASSUME NEW a \in 1..Len(t), At(t, a, s), a + Len(s) <= Len(t),
      t[a + Len(s)] \notin NumberChar
               PROVE  from[d][a] = Read(a + Len(s), v)
    BY DEF ReadsText
  <2>1. a \in 1..Len(t) + 1
    OBVIOUS
  <2>2. from[d][a] = parse_value(t, a, d, from[d + 1])
    BY <2>1 DEF Froms, FromStep
  <2>3. parse_value(t, a, d, from[d + 1]) = Read(a + Len(s), v)
    BY ScalarRead
  <2> QED
    BY <2>2, <2>3
<1> QED
  BY <1>3, <1>4, <1>5 DEF Returns

LEMMA HeldReturns ==
    ASSUME NEW t \in Seq(Character), NEW from, Froms(t, from), NEW format \in BOOLEAN, NEW put,
           Puts(format, put),
           NEW d \in 0..CJSON_NESTING_LIMIT, NEW W, W = Nested(Deepest - (d + 1)),
           NEW object \in BOOLEAN, NEW of \in Seq(ItemOf(object, W)),
           NEW v \in Nested(Deepest - d), v = Container(object, of),
           d < CJSON_NESTING_LIMIT => \A w \in W : Returns(t, from, put, d + 1, w)
    PROVE  Returns(t, from, put, d, v)
<1>0. d \in 0..Deepest /\ d \in Nat /\ CJSON_NESTING_LIMIT \in Nat
  BY DeepestNat, LimitNat
<1> DEFINE deeper == put[d + 1]
           c == ListChunks(object, of, d, format, deeper)
<1>1. put[d][v] = c
  <2>1. put[d][v] = print_value(v, d, format, put[d + 1])
    BY <1>0, PutsAre
  <2> QED
    BY <2>1, ContainerPrinted
<1>2. ASSUME c \in Seq(Printable)
      PROVE  Starts(AllPut(c)) /\ ReadsText(t, from[d], AllPut(c), v)
  <2>1. d < CJSON_NESTING_LIMIT
    <3>1. CASE d >= CJSON_NESTING_LIMIT
      <4>1. c = <<Refused>>
        BY <3>1 DEF ListChunks
      <4>2. <<Refused>>[1] = Refused /\ Len(<<Refused>>) = 1
        BY TupleFacts
      <4> DEFINE q == <<Refused>>
      <4>3. q \in Seq(Printable)
        BY <1>2, <4>1
      <4>5. Len(q) = 1 /\ q[1] = Refused
        BY <4>2
      <4> HIDE DEF q
      <4>6. 1 \in 1..Len(q)
        BY <4>5
      <4>7. q[1] \in Printable
        BY <4>3, <4>6
      <4>4. Refused \in Printable
        BY <4>5, <4>7
      <4> QED
        BY <4>4, PrintableFacts
    <3> QED
      BY <3>1, <1>0
  <2>2. d + 1 \in 0..CJSON_NESTING_LIMIT /\ d + 1 \in 0..Deepest
    BY <2>1, <1>0, DeepestNat
  <2>3. \A w \in W : deeper[w] \in Seq(Printing)
    BY <2>2, PutPrinting
  <2> HIDE DEF deeper
  <2>15. \A i \in 1..Len(of) : deeper[of[i].v] \in Seq(Printable)
    BY <1>0, <1>2, <2>3, ListWritten
  <2>17. ListText(object, of, d, format, deeper, AllPut(c))
    BY <1>0, <2>1, <2>3, ListWritten
  <2>16. \E g : /\ Joins(Character, ItemTexts(object, of, d, format, deeper), g)
                /\ AllPut(c) = (OpenText(object, format) \o g[Len(of)]) \o CloseText(object, d, format)
    BY <2>17, Zenon DEF ListText
  <2>4. /\ \A i \in 1..Len(of) : deeper[of[i].v] \in Seq(Printable)
        /\ \E g : /\ Joins(Character, ItemTexts(object, of, d, format, deeper), g)
                  /\ AllPut(c) = (OpenText(object, format) \o g[Len(of)]) \o CloseText(object, d, format)
    BY <2>15, <2>16
  <2>5. PICK g : /\ Joins(Character, ItemTexts(object, of, d, format, deeper), g)
                 /\ AllPut(c) = (OpenText(object, format) \o g[Len(of)]) \o CloseText(object, d, format)
    BY <2>4
  <2> DEFINE ss == [i \in 1..Len(of) |-> AllPut(deeper[of[i].v])]
             text_ == Whole(object, of, d, format, g)
  <2>6. AllPut(c) = text_
    BY <2>5 DEF Whole
  <2> HIDE DEF c
  <2>7. ItemTexts(object, of, d, format, deeper) = ItemsOf(object, of, d, format, ss)
    <3>1. \A i \in 1..Len(of) : ss[i] = AllPut(deeper[of[i].v])
      OBVIOUS
    <3> HIDE DEF ss
    <3> QED
      BY <3>1 DEF ItemTexts, ItemsOf
  <2>8. \A i \in 1..Len(of) : of[i].v \in W
    <3>1. \A i \in 1..Len(of) : of[i] \in ItemOf(object, W)
      OBVIOUS
    <3> QED
      BY <3>1 DEF ItemOf
  <2>9. \A i \in 1..Len(of) : Starts(ss[i]) /\ ReadsText(t, from[d + 1], ss[i], of[i].v)
    <3> SUFFICES ASSUME NEW i \in 1..Len(of) PROVE Starts(ss[i])
        /\ ReadsText(t, from[d + 1], ss[i], of[i].v)
      OBVIOUS
    <3>1. ss[i] = AllPut(deeper[of[i].v])
      OBVIOUS
    <3>2. Returns(t, from, put, d + 1, of[i].v)
      BY <2>1, <2>8
    <3>3. put[d + 1][of[i].v] \in Seq(Printable)
      BY <2>4 DEF deeper
    <3> HIDE DEF ss
    <3> QED
      BY <3>1, <3>2, <3>3 DEF Returns, deeper
  <2>10. ItemsRead(t, from[d + 1], of, ss)
    BY <2>9 DEF ItemsRead
  <2>11. \A i \in 1..Len(of) : ss[i] \in Seq(Character)
    BY <2>9, Zenon DEF Starts
  <2>12. Joins(Character, ItemsOf(object, of, d, format, ss), g)
    BY <2>5, <2>7
  <2> HIDE DEF ss
  <2>13. Starts(text_)
    BY <1>0, <2>11, <2>12, WholeStarts
  <2>14. ReadsText(t, from[d], text_, v)
    <3> SUFFICES ASSUME NEW a \in 1..Len(t), At(t, a, text_)
                 PROVE  from[d][a] = Read(a + Len(text_), v)
      BY DEF ReadsText
    <3>1. a \in 1..Len(t) + 1 /\ CanRead(t, a)
      BY DEF CanRead
    <3> DEFINE r == from[d + 1]
    <3>2. from[d][a] = parse_value(t, a, d, r)
      BY <3>1 DEF Froms, FromStep
    <3>3. Deeper(t, Nested(CJSON_NESTING_LIMIT - (d + 1)), r)
      BY <2>2, FromResult
    <3>4. ItemsRead(t, r, of, ss)
      BY <2>10
    <3> HIDE DEF r
    <3>5. parse_list(t, a, buffer_skip_whitespace(t, a + 1), r, object) = Read(a + Len(text_), Container(object, of))
      BY <1>0, <2>12, <3>3, <3>4, ContainerRead
    <3>6. t[a] = IF object THEN "{" ELSE "["
      <4>1. At(t, a, OpenText(object, format))
        BY <1>0, <2>11, <2>12, ListPlaces
      <4> QED
        BY <4>1, OpenGap
    <3>7. Opens(t[a])
      BY <3>6 DEF Opens
    <3>8. parse_value(t, a, d, r) = parse_list(t, a, buffer_skip_whitespace(t, a + 1), r, t[a] = "{")
      BY <2>1, <3>1, <3>7, ValueCases
    <3>9. (t[a] = "{") = object
      BY <3>6
    <3> QED
      BY <3>2, <3>5, <3>8, <3>9
  <2> QED
    BY <2>6, <2>13, <2>14
<1> HIDE DEF c
<1> QED
  BY <1>1, <1>2 DEF Returns

\* Whatever is held and can be printed is read back.
LEMMA AllReturn ==
    ASSUME NEW t \in Seq(Character), NEW from, Froms(t, from), NEW format \in BOOLEAN, NEW put,
           Puts(format, put)
    PROVE  \A v \in Nested(Deepest) : Returns(t, from, put, 0, v)
<1> DEFINE n == CJSON_NESTING_LIMIT
           T == {m \in 0..n : \A v \in Nested(Deepest - (n - m)) : Returns(t, from, put, n - m, v)}
<1>0. n \in Nat /\ Deepest \in Nat /\ n <= Deepest
  BY DeepestNat, LimitNat
<1>1. ASSUME NEW d \in 0..n,
    d < n => \A w \in Nested(Deepest - (d + 1)) : Returns(t, from, put, d + 1, w),
             NEW v \in Nested(Deepest - d)
      PROVE  Returns(t, from, put, d, v)
  <2>1. CASE v \in Scalar
    BY <2>1, ScalarReturns
  <2>2. CASE v \notin Scalar
    <3>1. Deepest - d \in Nat /\ (Deepest - d) - 1 = Deepest - (d + 1)
      BY <1>0
    <3> DEFINE W == Nested(Deepest - (d + 1))
    <3>2. \E object \in BOOLEAN : \E of \in Seq(ItemOf(object, W)) : v = Container(object, of)
      BY <2>2, <3>1, NestedCases
    <3>3. PICK object \in BOOLEAN : \E of \in Seq(ItemOf(object, W)) : v = Container(object, of)
      BY <3>2
    <3>4. PICK of \in Seq(ItemOf(object, W)) : v = Container(object, of)
      BY <3>3
    <3>5. W = Nested(Deepest - (d + 1)) /\ (d < n => \A w \in W : Returns(t, from, put, d + 1, w))
      BY <1>1
    <3> HIDE DEF W
    <3> QED
      BY <3>4, <3>5, HeldReturns
  <2> QED
    BY <2>1, <2>2
<1>2. 0 \in T
  <2>1. n - 0 \in 0..n /\ ~(n - 0 < n) /\ 0 \in 0..n
    BY <1>0
  <2>2. \A v \in Nested(Deepest - (n - 0)) : Returns(t, from, put, n - 0, v)
    BY <2>1, <1>1
  <2> HIDE DEF n
  <2> QED
    BY <2>1, <2>2
<1>3. ASSUME NEW m \in 0..n - 1, m \in T
      PROVE  m + 1 \in T
  <2> DEFINE d == n - (m + 1)
  <2>1. d \in 0..n /\ d + 1 = n - m /\ m + 1 \in 0..n
    BY <1>0
  <2>2. \A w \in Nested(Deepest - (d + 1)) : Returns(t, from, put, d + 1, w)
    <3>1. \A v \in Nested(Deepest - (n - m)) : Returns(t, from, put, n - m, v)
      BY <1>3
    <3> HIDE DEF d, n
    <3> QED
      BY <3>1, <2>1
  <2> HIDE DEF d, n, T
  <2>3. \A v \in Nested(Deepest - d) : Returns(t, from, put, d, v)
    BY <2>1, <2>2, <1>1
  <2> QED
    BY <2>1, <2>3 DEF T, d
<1> HIDE DEF T
<1>4. \A m \in 0..n : m \in T
  BY <1>0, <1>2, <1>3, AllFrom
<1>5. n \in 0..n /\ n - n = 0 /\ Deepest - 0 = Deepest
  BY <1>0
<1>6. n \in T
  BY <1>4, <1>5
<1>7. \A v \in Nested(Deepest - (n - n)) : Returns(t, from, put, n - n, v)
  BY <1>6 DEF T
<1> QED
  BY <1>5, <1>7

\* A string ends before the null that is put after it.
LEMMA Terminated ==
    ASSUME NEW s \in Seq(Character), NEW t, t = Append(s, "nul")
    PROVE  /\ t \in Seq(Character) /\ Len(t) = Len(s) + 1 /\ t[Len(t)] = "nul" /\ t # <<>> /\ At(t, 1, s) /\ Len(s) \in Nat
<1>1. "nul" \in Character
  BY SpaceFacts
<1>2. t \in Seq(Character) /\ Len(t) = Len(s) + 1 /\ Len(s) \in Nat
  BY <1>1
<1>3. t[Len(s) + 1] = "nul" /\ \A j \in 1..Len(s) : t[j] = s[j]
  BY <1>1
<1>4. \A j \in 1..Len(s) : 1 + j - 1 = j
  BY <1>2
<1>5. 1 + Len(s) - 1 <= Len(t)
  BY <1>2
<1>6. At(t, 1, s)
  BY <1>3, <1>4, <1>5 DEF At
<1>7. t # <<>>
  BY <1>2
<1> QED
  BY <1>2, <1>3, <1>6, <1>7

\* What is printed of a value is read as that value.
LEMMA PrintedReads ==
    ASSUME NEW v \in Nested(Deepest), NEW format \in BOOLEAN, Chunks(v, format) \in Seq(Printable)
    PROVE  ReadsAs(v, AllPut(Chunks(v, format)))
<1> DEFINE s == AllPut(Chunks(v, format))
           t == Append(s, "nul")
           n == Len(s) + 1
<1>1. s \in Seq(Character)
  BY PrintableSeq, AllPutSeq
<1>2. t \in Seq(Character) /\ Len(t) = n /\ t[n] = "nul" /\ t # <<>> /\ At(t, 1, s) /\ Len(s) \in Nat
  <2> HIDE DEF s
  <2> QED
    BY <1>1, Terminated
<1>3. PICK from : Froms(t, from) /\ parse(t) = from[0]
  <2> HIDE DEF t
  <2>1. Len(t) \in Nat
    BY <1>2
  <2> QED
    BY <2>1, ParseIs
<1>4. PICK put : Puts(format, put) /\ \A w : Chunks(w, format) = put[0][w]
  BY ChunksIs
<1>5. Chunks(v, format) = put[0][v]
  BY <1>4
<1>6. Returns(t, from, put, 0, v)
  <2> HIDE DEF t
  <2> QED
    BY <1>2, <1>3, <1>4, AllReturn
<1>7. Starts(s) /\ ReadsText(t, from[0], s, v)
  BY <1>5, <1>6 DEF Returns
<1> HIDE DEF s, t
<1>8. t[1] \notin Space /\ t[1] # "bom" /\ 1 <= Len(t)
  BY <1>2, <1>7, StartsAt
<1>9. 1 + Len(s) = n /\ n \in Nat /\ n >= 1 /\ 1 \in 1..Len(t)
  BY <1>2
<1>10. t[n] \notin NumberChar /\ t[n] \in Space
  BY <1>2, SpaceFacts
<1>11. from[0][1] = Read(n, v)
  <2>1. At(t, 1, s) /\ 1 + Len(s) <= Len(t) /\ t[1 + Len(s)] \notin NumberChar
    BY <1>2, <1>9, <1>10
  <2>2. from[0][1] = Read(1 + Len(s), v)
    BY <1>7, <1>9, <2>1 DEF ReadsText
  <2> QED
    BY <1>9, <2>2
<1>12. skip_utf8_bom(t) = 1
  BY <1>8 DEF skip_utf8_bom
<1>13. buffer_skip_whitespace(t, 1) = 1
  <2>1. Gap(t, 1, 1)
    BY GapEmpty
  <2> QED
    BY <1>2, <1>8, <2>1, GapSkip
<1>14. buffer_skip_whitespace(t, n) = n
  <2>1. n <= Len(t) /\ Len(t) \in Nat
    BY <1>2, <1>9
  <2>2. buffer_skip_whitespace(t, n) \in n..Len(t)
    BY <1>9, <2>1, SkipRange
  <2> QED
    BY <2>2, <1>2, <1>9
<1> DEFINE r == Read(n, v)
<1>15. r.ok /\ r.at = n /\ r.v = v
  BY DEF Read
<1> HIDE DEF r
<1>16. cJSON_ParseWithLengthOpts(t, TRUE) = AsWhole(t, r, TRUE)
  BY <1>2, <1>3, <1>11, <1>12, <1>13 DEF cJSON_ParseWithLengthOpts, r
<1>17. AsWhole(t, r, TRUE) = Ended(t, r, TRUE, n)
  BY <1>14, <1>15 DEF AsWhole
<1>18. CanRead(t, n)
  BY <1>2, <1>9 DEF CanRead
<1>19. Ended(t, r, TRUE, n) = r
  BY <1>2, <1>18 DEF Ended
<1>20. cJSON_ParseWithOpts(s, TRUE) = r
  BY <1>16, <1>17, <1>19 DEF cJSON_ParseWithOpts, t
<1>21. ReadsAs(v, s)
  BY <1>15, <1>20 DEF ReadsAs, Gives
<1> QED
  BY <1>21 DEF s

\* Whatever the value, printing it stays inside the buffer, what it gives is
\* read back, and it is refused for its depth or its length only.
LEMMA AllFaithful ==
    ASSUME NEW v \in Nested(Deepest), NEW format \in BOOLEAN
    PROVE  Faithful(v, Chunks(v, format))
<1> DEFINE c == Chunks(v, format)
           total == Bytes(AllPut(c))
           size == total + 1
<1>0. /\ CJSON_NESTING_LIMIT \in Nat /\ Deepest \in Nat /\ CJSON_NESTING_LIMIT <= Deepest
         /\ INT_MAX \in Nat /\ StartSize \in Nat
      /\ 0 \in 0..Deepest /\ 0 \in 0..CJSON_NESTING_LIMIT /\ Deepest - 0 = Deepest
          /\ CJSON_NESTING_LIMIT - 0 = CJSON_NESTING_LIMIT
  BY LimitNat, DeepestNat
<1>1. PICK put : Puts(format, put) /\ \A w : Chunks(w, format) = put[0][w]
  BY ChunksIs
<1>2. c = put[0][v]
  BY <1>1
<1>3. c \in Seq(Printing)
  <2>1. \A w \in Nested(Deepest - 0) : put[0][w] \in Seq(Printing)
    BY <1>0, <1>1, PutPrinting
  <2> QED
    BY <1>0, <1>2, <2>1
<1>4. v \in Nested(CJSON_NESTING_LIMIT) => c \in Seq(Printable)
  <2>1. \A w \in Nested(CJSON_NESTING_LIMIT - 0) : put[0][w] \in Seq(Printable)
    BY <1>0, <1>1, PutPrintable
  <2> QED
    BY <1>0, <1>2, <2>1
<1>5. c \in Seq(Printable) => ReadsAs(v, AllPut(c))
  BY PrintedReads
<1> HIDE DEF c
<1>6. total \in Nat
  <2>1. AllPut(c) \in Seq(Character)
    BY <1>3, AllPutSeq
  <2> QED
    BY <2>1, BytesNat
<1>7. total = Bytes(AllPut(c))
  OBVIOUS
<1> HIDE DEF total
<1>8. InGranted(v, c, print(c), size)
  <2> DEFINE p == Printed(c, StartSize, FALSE)
  <2>0. FALSE \in BOOLEAN /\ StartSize \in Int
    BY <1>0
  <2>1. p.inside /\ (p.ok => c \in Seq(Printable))
    BY <1>3, <2>0, PrintedInside
  <2>2. ASSUME v \in Nested(CJSON_NESTING_LIMIT), size + 4 <= INT_MAX
        PROVE  p.ok
    <3>1. c \in Seq(Printable)
      BY <1>4, <2>2
    <3>2. total + 2 <= INT_MAX
      BY <1>0, <1>6, <2>2
    <3> DEFINE noalloc == FALSE
    <3>3. noalloc \in BOOLEAN /\ (noalloc => StartSize >= total + 2)
      OBVIOUS
    <3> HIDE DEF noalloc
    <3>4. Printed(c, StartSize, noalloc).ok
      BY <1>0, <1>7, <3>1, <3>2, <3>3, PrintedOk
    <3> QED
      BY <3>4 DEF noalloc
  <2> HIDE DEF p
  <2>3. InGranted(v, c, p, size)
    BY <1>5, <2>1, <2>2 DEF InGranted
  <2> QED
    BY <2>3 DEF print, p
<1>9. ASSUME NEW length \in size - 5..size + 5, length <= INT_MAX
      PROVE  InOwn(v, c, size, length)
  <2> DEFINE p == cJSON_PrintPreallocated(c, length)
  <2>0. length \in Int /\ size = total + 1
    BY <1>6
  <2>1. p = Printed(c, length, TRUE)
    BY DEF cJSON_PrintPreallocated
  <2> DEFINE noalloc == TRUE
  <2>2. noalloc \in BOOLEAN /\ p = Printed(c, length, noalloc)
    BY <2>1
  <2> HIDE DEF noalloc, p
  <2>3. p.inside
    BY <1>3, <2>0, <2>2, PrintedInside
  <2>4. ASSUME v \in Nested(CJSON_NESTING_LIMIT), length = size + 5
        PROVE  p.ok
    <3>1. c \in Seq(Printable)
      BY <1>4, <2>4
    <3>2. length \in Nat /\ total + 2 <= INT_MAX /\ length >= total + 2
      BY <1>0, <1>6, <1>9, <2>0, <2>4
    <3> QED
      BY <1>7, <2>2, <3>1, <3>2, PrintedOk
  <2> QED
    BY <2>3, <2>4 DEF InOwn, p
<1>10. PrintsWell(v, c, size)
  BY <1>8, <1>9 DEF PrintsWell
<1> QED
  BY <1>7, <1>10 DEF Faithful, c

-----------------------------------------------------------------------------
(* The callers.                                                            *)

\* What the callers hold: a text, or a value that took at least as many steps
\* to build as it nests.
TextInv ==
    /\ text \in Seq(Character) /\ pieces \in Nat
    /\ value = Nothing \/ (pieces \in 1..MaxSize /\ value \in Nested(pieces - 1))

LEMMA TextStart == TextInit => TextInv
<1> SUFFICES ASSUME TextInit PROVE TextInv
  OBVIOUS
<1>1. text = <<>> /\ pieces = 0 /\ value = Nothing
  BY DEF TextInit
<1>2. <<>> \in Seq(Character)
  OBVIOUS
<1> QED
  BY <1>1, <1>2 DEF TextInv

\* A step of a builder leaves a value of one level more.
LEMMA TextGrown ==
    ASSUME TextInv, NEW v, Grown(v), v \in Nested(pieces)
    PROVE  TextInv'
<1>1. /\ value' = v /\ pieces < MaxSize /\ pieces' = pieces + 1 /\ text' = text
  BY DEF Grown
<1>2. pieces \in Nat /\ text \in Seq(Character)
  BY DEF TextInv
<1>3. MaxSize \in Nat
  BY LimitNat
<1>4. pieces' \in 1..MaxSize /\ pieces' - 1 = pieces /\ pieces' \in Nat
  BY <1>1, <1>2, <1>3
<1>5. value' \in Nested(pieces' - 1)
  BY <1>1, <1>4
<1> QED
  BY <1>1, <1>2, <1>4, <1>5 DEF TextInv

LEMMA TextBegin ==
    ASSUME TextInv, Begin
    PROVE  TextInv'
<1>1. PICK v \in Leaf : Grown(v)
  BY DEF Begin
<1>2. v \in Nested(0)
  BY TextAssumption
<1>3. pieces \in Nat
  BY DEF TextInv
<1>4. v \in Nested(pieces)
  <2>1. Nested(0) \subseteq Nested(pieces)
    BY <1>3, NestedUp
  <2> QED
    BY <1>2, <2>1
<1> QED
  BY <1>1, <1>4, TextGrown

LEMMA ItemIn ==
    ASSUME NEW object \in BOOLEAN, NEW V, NEW v \in V, NEW k, k \in IF object THEN CText ELSE {NoName}
    PROVE  Item(k, v) \in ItemOf(object, V)
BY DEF Item, ItemOf

LEMMA TextWrap ==
    ASSUME TextInv, Wrap
    PROVE  TextInv'
<1>1. value # Nothing
    /\ (Grown(Array(<<Item(NoName, value)>>)) \/ \E k \in KeyText : Grown(Object(<<Item(k, value)>>)))
  BY DEF Wrap
<1>2. pieces \in Nat /\ pieces >= 1 /\ value \in Nested(pieces - 1)
  BY <1>1 DEF TextInv
<1>3. ASSUME NEW object \in BOOLEAN, NEW k, k \in IF object THEN CText ELSE {NoName}
      PROVE  Container(object, <<Item(k, value)>>) \in Nested(pieces)
  <2>1. Item(k, value) \in ItemOf(object, Nested(pieces - 1))
    BY <1>2, <1>3, ItemIn
  <2>2. <<Item(k, value)>> \in Seq(ItemOf(object, Nested(pieces - 1)))
    BY <2>1, TuplesIn
  <2> QED
    BY <1>2, <2>2, NestedBuilt
<1>4. CASE Grown(Array(<<Item(NoName, value)>>))
  <2>1. Container(FALSE, <<Item(NoName, value)>>) \in Nested(pieces)
    BY <1>3
  <2>2. Array(<<Item(NoName, value)>>) \in Nested(pieces)
    BY <2>1 DEF Container
  <2> QED
    BY <1>4, <2>2, TextGrown
<1>5. ASSUME NEW k \in KeyText, Grown(Object(<<Item(k, value)>>))
      PROVE  TextInv'
  <2>1. k \in CText
    BY TextAssumption
  <2>2. Container(TRUE, <<Item(k, value)>>) \in Nested(pieces)
    BY <1>3, <2>1
  <2>3. Object(<<Item(k, value)>>) \in Nested(pieces)
    BY <2>2 DEF Container
  <2> QED
    BY <1>5, <2>3, TextGrown
<1> QED
  BY <1>1, <1>4, <1>5

LEMMA ScalarType ==
    ASSUME NEW v \in Scalar
    PROVE  v.type \notin {"array", "object"}
<1>1. ASSUME NEW w \in Word, v = Plain(w)
      PROVE  v.type \notin {"array", "object"}
  BY <1>1 DEF Plain, Word
<1>2. ASSUME NEW n \in Int, v = Number(n)
      PROVE  v.type \notin {"array", "object"}
  BY <1>2 DEF Number
<1>3. ASSUME NEW s \in CText, v = String(s)
      PROVE  v.type \notin {"array", "object"}
  BY <1>3 DEF String
<1> QED
  BY <1>1, <1>2, <1>3, ScalarCases

LEMMA TextExtend ==
    ASSUME TextInv, Extend
    PROVE  TextInv'
<1>1. value.type \in {"array", "object"}
  BY DEF Extend
<1>2. PICK v \in Part, k \in IF value.type = "array" THEN {NoName} ELSE KeyText :
          Grown([value EXCEPT !.of = Append(@, Item(k, v))])
  BY DEF Extend
<1>3. value # Nothing
  BY <1>1 DEF Nothing
<1>4. pieces \in Nat /\ pieces >= 1 /\ value \in Nested(pieces - 1) /\ pieces - 1 \in Nat
  BY <1>3 DEF TextInv
<1>5. value \notin Scalar
  BY <1>1, ScalarType
<1> DEFINE n == pieces - 1
<1>6. n >= 1 /\ \E object \in BOOLEAN : \E of \in Seq(ItemOf(object, Nested(n - 1))) : value = Container(object, of)
  <2> HIDE DEF n
  <2> QED
    BY <1>4, <1>5, NestedCases DEF n
<1>7. PICK object \in BOOLEAN : \E of \in Seq(ItemOf(object, Nested(n - 1))) : value = Container(object, of)
  BY <1>6
<1>8. PICK of \in Seq(ItemOf(object, Nested(n - 1))) : value = Container(object, of)
  BY <1>7
<1>9. v \in Nested(n)
  <2>1. v \in Nested(1)
    BY TextAssumption
  <2>2. Nested(1) \subseteq Nested(n)
    <3> HIDE DEF n
    <3> QED
      BY <1>4, <1>6, NestedUp DEF n
  <2> QED
    BY <2>1, <2>2
<1>10. k \in IF object THEN CText ELSE {NoName}
  <2>1. value.type = IF object THEN "object" ELSE "array"
    BY <1>8 DEF Container, Object, Array
  <2>2. KeyText \subseteq CText
    BY TextAssumption
  <2> QED
    BY <2>1, <2>2
<1> DEFINE y == Append(of, Item(k, v))
<1> HIDE DEF y
<1>11. [value EXCEPT !.of = Append(@, Item(k, v))] = Container(object, y)
  <2>1. CASE object
    <3>1. value = [type |-> "object", of |-> of] /\ Container(object, y) = [type |-> "object", of |-> y]
      BY <1>8, <2>1 DEF Container, Object
    <3>2. value.of = of
      BY <3>1
    <3>3. [value EXCEPT !.of = Append(@, Item(k, v))] = [value EXCEPT !.of = y]
      BY <3>2 DEF y
    <3>4. [value EXCEPT !.of = y] = [type |-> "object", of |-> y]
      BY <3>1
    <3> QED
      BY <3>1, <3>3, <3>4
  <2>2. CASE ~object
    <3>1. value = [type |-> "array", of |-> of] /\ Container(object, y) = [type |-> "array", of |-> y]
      BY <1>8, <2>2 DEF Container, Array
    <3>2. value.of = of
      BY <3>1
    <3>3. [value EXCEPT !.of = Append(@, Item(k, v))] = [value EXCEPT !.of = y]
      BY <3>2 DEF y
    <3>4. [value EXCEPT !.of = y] = [type |-> "array", of |-> y]
      BY <3>1
    <3> QED
      BY <3>1, <3>3, <3>4
  <2> QED
    BY <2>1, <2>2
<1>12. y \in Seq(ItemOf(object, Nested(n)))
  <2>1. Nested(n - 1) \subseteq Nested(n)
    <3>1. n - 1 \in Nat /\ n \in Nat /\ n - 1 <= n
      BY <1>4, <1>6
    <3> QED
      BY <3>1, NestedUp
  <2> HIDE DEF n
  <2>2. ItemOf(object, Nested(n - 1)) \subseteq ItemOf(object, Nested(n))
    BY <2>1 DEF ItemOf
  <2>3. \A i \in 1..Len(of) : of[i] \in ItemOf(object, Nested(n))
    <3>1. \A i \in 1..Len(of) : of[i] \in ItemOf(object, Nested(n - 1))
      OBVIOUS
    <3> QED
      BY <2>2, <3>1
  <2>4. of \in Seq(ItemOf(object, Nested(n)))
    BY <2>3, SeqRetyped
  <2>5. Item(k, v) \in ItemOf(object, Nested(n))
    BY <1>9, <1>10, ItemIn
  <2>6. Append(of, Item(k, v)) \in Seq(ItemOf(object, Nested(n)))
    BY <2>4, <2>5
  <2> QED
    BY <2>6 DEF y
<1>13. Container(object, y) \in Nested(pieces)
  <2>1. y \in Seq(ItemOf(object, Nested(pieces - 1)))
    BY <1>12
  <2>2. pieces \in Nat /\ pieces >= 1
    BY <1>4
  <2> QED
    BY <2>1, <2>2, NestedBuilt
<1> QED
  BY <1>2, <1>11, <1>13, TextGrown

LEMMA TextType ==
    ASSUME TextInv, Type
    PROVE  TextInv'
<1>1. PICK p \in Piece : text' = text \o p
  BY DEF Type
<1>2. value = Nothing /\ value' = value /\ pieces' = pieces + 1
  BY DEF Type
<1>3. p \in Seq(Character)
  BY TextAssumption
<1>4. text \in Seq(Character) /\ pieces \in Nat
  BY DEF TextInv
<1>5. text' \in Seq(Character)
  BY <1>1, <1>3, <1>4, ConcatSeq
<1>6. pieces' \in Nat
  BY <1>2, <1>4
<1> QED
  BY <1>2, <1>5, <1>6 DEF TextInv

\* The text typed is one of characters and the value built nests no deeper than
\* the steps that built it.
THEOREM TextTyped == TextSpec => []TextInv
<1>1. TextInv /\ [TextNext]_textVars => TextInv'
  <2> SUFFICES ASSUME TextInv, [TextNext]_textVars PROVE TextInv'
    OBVIOUS
  <2>1. CASE Begin
    BY <2>1, TextBegin
  <2>2. CASE Wrap
    BY <2>2, TextWrap
  <2>3. CASE Extend
    BY <2>3, TextExtend
  <2>4. CASE Type
    BY <2>4, TextType
  <2>5. CASE UNCHANGED textVars
    BY <2>5 DEF textVars, TextInv
  <2> QED
    BY <2>1, <2>2, <2>3, <2>4, <2>5 DEF TextNext
<1> QED
  BY <1>1, TextStart, PTL DEF TextSpec

\* What is built or read nests no deeper than printing can follow it.
LEMMA HeldNested ==
    ASSUME TextInv, NEW v \in Values, v # Nothing
    PROVE  v \in Nested(Deepest)
<1>1. text \in Seq(Character)
  BY DEF TextInv
<1>2. "nul" \in Character
  BY SpaceFacts
<1>3. Append(text, "nul") \in Seq(Character)
  BY <1>1, <1>2
<1>4. Deepest \in Nat /\ CJSON_NESTING_LIMIT <= Deepest /\ MaxSize <= Deepest
    /\ CJSON_NESTING_LIMIT \in Nat /\ MaxSize \in Nat
  BY DeepestNat, LimitNat
<1>5. Nested(CJSON_NESTING_LIMIT) \subseteq Nested(Deepest)
  BY <1>4, NestedUp
<1>6. ASSUME NEW t \in Seq(Character), NEW b \in BOOLEAN, cJSON_ParseWithLengthOpts(t, b).ok
      PROVE  cJSON_ParseWithLengthOpts(t, b).v \in Nested(Deepest)
  BY <1>5, <1>6, WholeResult
<1> DEFINE r1 == cJSON_ParseWithOpts(text, FALSE)
           r2 == cJSON_ParseWithOpts(text, TRUE)
           r3 == cJSON_ParseWithLengthOpts(text, FALSE)
<1>7. (r1.ok => r1.v \in Nested(Deepest)) /\ (r2.ok => r2.v \in Nested(Deepest))
    /\ (r3.ok => r3.v \in Nested(Deepest))
  <2>1. \A b \in BOOLEAN : cJSON_ParseWithLengthOpts(Append(text, "nul"), b).ok
                           => cJSON_ParseWithLengthOpts(Append(text, "nul"), b).v \in Nested(Deepest)
    BY <1>3, <1>6
  <2>2. \A b \in BOOLEAN : cJSON_ParseWithLengthOpts(text, b).ok => cJSON_ParseWithLengthOpts(text, b).v \in Nested(Deepest)
    BY <1>1, <1>6
  <2>3. TRUE \in BOOLEAN /\ FALSE \in BOOLEAN
    OBVIOUS
  <2> QED
    BY <2>1, <2>2, <2>3 DEF cJSON_ParseWithOpts
<1>8. value # Nothing => value \in Nested(Deepest)
  <2> SUFFICES ASSUME value # Nothing PROVE value \in Nested(Deepest)
    OBVIOUS
  <2>1. pieces \in 1..MaxSize /\ value \in Nested(pieces - 1)
    BY DEF TextInv
  <2>2. pieces - 1 \in Nat /\ pieces - 1 <= Deepest
    BY <1>4, <2>1
  <2> QED
    BY <1>4, <2>1, <2>2, NestedUp
<1> HIDE DEF r1, r2, r3
<1>9. v = value \/ \E r \in {r1, r2, r3} : r.ok /\ v = r.v
  BY Zenon DEF Values, r1, r2, r3
<1> QED
  BY <1>7, <1>8, <1>9

\* Whatever is built or read, printing it writes inside the buffer granted, and
\* parsing what was printed gives the same value: for every text and value, not
\* only the small ones.
THEOREM PrintedIsReadAlways == TextSpec => []PrintedIsRead
<1>1. TextInv => PrintedIsRead
  <2> SUFFICES ASSUME TextInv, NEW v \in Values \ {Nothing}, NEW format \in BOOLEAN
               PROVE  Faithful(v, Chunks(v, format))
    BY DEF PrintedIsRead
  <2>1. v \in Nested(Deepest)
    BY HeldNested
  <2> QED
    BY <2>1, AllFaithful
<1> QED
  BY <1>1, TextTyped, PTL

\* The strings of every text typed fit the memory allocated for them.
THEOREM StringFitsAlways == TextSpec => []StringFits
<1>1. TextInv => StringFits
  <2> SUFFICES ASSUME TextInv, NEW at \in {i \in DOMAIN text : text[i] = Quote},
      CanRead(text, Scan(text, at).end)
               PROVE  Bytes(Unescape(text, at, Scan(text, at).end).out) + 1 <= allocation_length(text, at, Scan(text, at))
    BY DEF StringFits
  <2>1. text \in Seq(Character)
    BY DEF TextInv
  <2>2. at \in 1..Len(text)
    BY <2>1
  <2>3. Scan(text, at).end <= Len(text)
    BY DEF CanRead
  <2> QED
    BY <2>1, <2>2, <2>3, WrittenFits
<1> QED
  BY <1>1, TextTyped, PTL
=============================================================================
