----------------------------- MODULE JsonProofs ------------------------------
(***************************************************************************)
(* Every call of JsonTree keeps the links of the items those of the        *)
(* sequences their callers see, and comes to a call of JsonForest, not     *)
(* necessarily with the same arguments: for any number of items and keys,  *)
(* and whenever memory runs out.                                           *)
(*                                                                         *)
(* The invariant says of the memory that its links are those of the rows   *)
(* kids (Lists), that the rows are a forest with the roots held (Grove),   *)
(* and that the strings are those the live items own.  A function of the   *)
(* code is first read as the links it sets (...Views), these as the links  *)
(* of other rows (...Lists), the rows as a forest (Grove...), and the heap *)
(* after it as good again (...Good); a call is then a step of the forest   *)
(* (Kept..., Step...).                                                     *)
(***************************************************************************)
EXTENDS JsonTree, FiniteSetTheorems, SequenceTheorems, WellFoundedInduction, TLAPS

-----------------------------------------------------------------------------
(* Rows of items and the links they are kept in.                           *)

\* A pointer to an item, or to none.
Ptr == Node \cup {Null}

\* The links of the rows K: next leads on, prev back, and the prev of the
\* first to the last.
Linked(nx, pv, ch, K) ==
    /\ \A p \in Node : ch[p] = IF Len(K[p]) = 0 THEN Null ELSE K[p][1]
    /\ \A p \in Node : \A j \in 1..Len(K[p]) :
           /\ nx[K[p][j]] = IF j = Len(K[p]) THEN Null ELSE K[p][j + 1]
           /\ pv[K[p][j]] = IF j = 1 THEN K[p][Len(K[p])] ELSE K[p][j - 1]

\* Nobody is at two places.
Apart(K) == \A p, q \in Node : \A j \in 1..Len(K[p]), k \in 1..Len(K[q]) :
                K[p][j] = K[q][k] => p = q /\ j = k

\* n is in no row.
IsTop(K, n) == \A p \in Node : \A j \in 1..Len(K[p]) : K[p][j] # n

\* The links nx, pv and ch are those of the rows K, and roots have no next or
\* prev.
Lists(nx, pv, ch, K) ==
    /\ nx \in [Node -> Ptr] /\ pv \in [Node -> Ptr] /\ ch \in [Node -> Ptr]
    /\ K \in [Node -> Seq(Node)]
    /\ Linked(nx, pv, ch, K)
    /\ Apart(K)
    /\ \A n \in Node : IsTop(K, n) => nx[n] = Null /\ pv[n] = Null

\* The items of a sequence with e inserted at place w, as
\* cJSON_InsertItemInArray has them.
LEMMA InsertAtPlaces ==
    ASSUME NEW S, NEW s \in Seq(S), NEW w \in 1..Len(s) + 1, NEW e \in S
    PROVE  /\ InsertAt(s, w, e) \in Seq(S)
           /\ Len(InsertAt(s, w, e)) = Len(s) + 1
           /\ \A j \in 1..Len(s) + 1 :
                  InsertAt(s, w, e)[j] = IF j < w THEN s[j] ELSE IF j = w THEN e ELSE s[j - 1]
<1> DEFINE a == SubSeq(s, 1, w - 1)
           b == SubSeq(s, w, Len(s))
<1>1. a \in Seq(S) /\ Len(a) = w - 1 /\ \A j \in 1..w - 1 : a[j] = s[j]
  OBVIOUS
<1>2. b \in Seq(S) /\ Len(b) = Len(s) - w + 1 /\ \A j \in 1..Len(s) - w + 1 : b[j] = s[w + j - 1]
  OBVIOUS
<1> HIDE DEF a, b
<1>3. (a \o <<e>>) \in Seq(S) /\ Len(a \o <<e>>) = w
      /\ \A j \in 1..w : (a \o <<e>>)[j] = IF j < w THEN s[j] ELSE e
  BY <1>1
<1> DEFINE c == a \o <<e>>
<1> HIDE DEF c
<1>4. c \in Seq(S) /\ Len(c) = w /\ \A j \in 1..w : c[j] = IF j < w THEN s[j] ELSE e
  BY <1>3 DEF c
<1>5. InsertAt(s, w, e) = c \o b
  BY DEF InsertAt, a, b, c
<1>6. /\ c \o b \in Seq(S) /\ Len(c \o b) = Len(c) + Len(b)
      /\ \A j \in 1..Len(c) + Len(b) : (c \o b)[j] = IF j <= Len(c) THEN c[j] ELSE b[j - Len(c)]
  BY <1>2, <1>4, ConcatProperties
<1> DEFINE t == c \o b
<1> HIDE DEF t
<1>7. t \in Seq(S) /\ Len(t) = Len(s) + 1
  BY <1>2, <1>4, <1>6 DEF t
<1>8. \A j \in 1..Len(s) + 1 : t[j] = IF j <= w THEN c[j] ELSE b[j - w]
  BY <1>2, <1>4, <1>6 DEF t
<1>9. \A j \in 1..Len(s) + 1 : t[j] = IF j < w THEN s[j] ELSE IF j = w THEN e ELSE s[j - 1]
  BY <1>2, <1>4, <1>8
<1> QED
  BY <1>5, <1>7, <1>9 DEF t

\* The items of a sequence without the one at place w.
LEMMA RemoveAtPlaces ==
    ASSUME NEW S, NEW s \in Seq(S), NEW w \in 1..Len(s)
    PROVE  /\ RemoveAt(s, w) \in Seq(S)
           /\ Len(RemoveAt(s, w)) = Len(s) - 1
           /\ \A j \in 1..Len(s) - 1 : RemoveAt(s, w)[j] = IF j < w THEN s[j] ELSE s[j + 1]
<1> DEFINE a == SubSeq(s, 1, w - 1)
           b == SubSeq(s, w + 1, Len(s))
<1>1. a \in Seq(S) /\ Len(a) = w - 1 /\ \A j \in 1..w - 1 : a[j] = s[j]
  OBVIOUS
<1>2. b \in Seq(S) /\ Len(b) = Len(s) - w /\ \A j \in 1..Len(s) - w : b[j] = s[w + j]
  OBVIOUS
<1> HIDE DEF a, b
<1>3. RemoveAt(s, w) = a \o b
  BY DEF RemoveAt, a, b
<1>6. /\ a \o b \in Seq(S) /\ Len(a \o b) = Len(a) + Len(b)
      /\ \A j \in 1..Len(a) + Len(b) : (a \o b)[j] = IF j <= Len(a) THEN a[j] ELSE b[j - Len(a)]
  BY <1>1, <1>2, ConcatProperties
<1> DEFINE t == a \o b
<1> HIDE DEF t
<1>7. t \in Seq(S) /\ Len(t) = Len(s) - 1
  BY <1>1, <1>2, <1>6 DEF t
<1>8. \A j \in 1..Len(s) - 1 : t[j] = IF j < w THEN a[j] ELSE b[j - w + 1]
  BY <1>1, <1>2, <1>6 DEF t
<1>9. \A j \in 1..Len(s) - 1 : t[j] = IF j < w THEN s[j] ELSE s[j + 1]
  BY <1>1, <1>2, <1>8
<1> QED
  BY <1>3, <1>7, <1>9 DEF t

\* The links nx1, pv1 and ch1 are nx, pv and ch once i is at place w of the
\* row L of p.
Inserted(nx, pv, ch, L, p, w, i, nx1, pv1, ch1) ==
    /\ nx1 \in [Node -> Ptr] /\ pv1 \in [Node -> Ptr] /\ ch1 \in [Node -> Ptr]
    /\ \A n \in Node : nx1[n] = IF n = i THEN IF w = Len(L) + 1 THEN Null ELSE L[w]
                                 ELSE IF w > 1 /\ n = L[w - 1] THEN i ELSE nx[n]
    /\ \A n \in Node : pv1[n] = IF n = i THEN IF w > 1 THEN L[w - 1]
                                               ELSE IF Len(L) = 0 THEN i ELSE L[Len(L)]
                                 ELSE IF \/ w <= Len(L) /\ n = L[w]
                                         \/ w = Len(L) + 1 /\ Len(L) > 0 /\ n = L[1]
                                 THEN i ELSE pv[n]
    /\ \A n \in Node : ch1[n] = IF n = p /\ w = 1 THEN i ELSE ch[n]


\* L with i at place w.
WithAt(L, M, w, i) ==
    /\ L \in Seq(Node) /\ M \in Seq(Node) /\ Len(L) \in Nat /\ Len(M) = Len(L) + 1 /\ w \in 1..Len(L) + 1 /\ i \in Node
    /\ \A j \in 1..Len(L) + 1 : M[j] = IF j < w THEN L[j] ELSE IF j = w THEN i ELSE L[j - 1]

\* The same lists but for one.
OneRow(K, J, p) ==
    /\ K \in [Node -> Seq(Node)] /\ J \in [Node -> Seq(Node)]
    /\ \A q \in Node \ {p} : J[q] = K[q]

\* Of two places with the same item, where nobody is at two.
LEMMA ApartAt ==
    ASSUME NEW K, Apart(K), NEW q \in Node, NEW r \in Node, NEW j \in 1..Len(K[q]), NEW k \in 1..Len(K[r]),
           K[q][j] = K[r][k]
    PROVE  q = r /\ j = k
BY DEF Apart

\* Inserting an item that is in no row leaves nobody at two places.
LEMMA InsertApart ==
    ASSUME NEW K, NEW J, NEW p \in Node, NEW i \in Node, NEW w, OneRow(K, J, p), WithAt(K[p], J[p], w, i),
           Apart(K), IsTop(K, i)
    PROVE  Apart(J)
<1> SUFFICES ASSUME NEW q \in Node, NEW r \in Node, NEW j \in 1..Len(J[q]), NEW k \in 1..Len(J[r]),
                    J[q][j] = J[r][k]
             PROVE  q = r /\ j = k
  BY DEF Apart
<1>1. CASE q # p /\ r # p
  <2>1. J[q] = K[q] /\ J[r] = K[r]
    BY <1>1 DEF OneRow
  <2>2. j \in 1..Len(K[q]) /\ k \in 1..Len(K[r]) /\ K[q][j] = K[r][k]
    BY <2>1
  <2> QED
    BY <2>2, ApartAt
<1>a. /\ \A u, v \in Node : \A m \in 1..Len(K[u]), n \in 1..Len(K[v]) : K[u][m] = K[v][n] => u = v /\ m = n
      /\ \A u \in Node : \A m \in 1..Len(K[u]) : K[u][m] # i
      /\ \A u \in Node \ {p} : J[u] = K[u]
  BY DEF Apart, IsTop, OneRow
<1>b. ASSUME NEW m \in 1..Len(J[p]), m # w
      PROVE  \E n \in 1..Len(K[p]) : J[p][m] = K[p][n] /\ ((m < w /\ n = m) \/ (m > w /\ n = m - 1))
  <2>1. CASE m < w
    BY <2>1 DEF WithAt
  <2>2. CASE m > w
    BY <2>2 DEF WithAt
  <2> QED
    BY <1>b, <2>1, <2>2 DEF WithAt
<1>c. \A m \in 1..Len(J[p]) : J[p][m] = i <=> m = w
  <2>1. w \in 1..Len(J[p]) /\ J[p][w] = i
    BY DEF WithAt
  <2> QED
    BY <1>a, <1>b, <2>1, SMTT(30)
<1>d. w \in Int /\ Len(J[p]) \in Int
  BY DEF WithAt
<1>2. CASE q = p /\ r # p
  <2>1. J[r][k] = K[r][k] /\ k \in 1..Len(K[r]) /\ K[r][k] # i
    BY <1>2, <1>a
  <2>2. j # w
    BY <1>2, <1>c, <2>1
  <2>3. PICK n \in 1..Len(K[p]) : J[p][j] = K[p][n]
    BY <1>2, <1>b, <2>2
  <2> QED
    BY <1>2, <1>a, <2>1, <2>3
<1>3. CASE q # p /\ r = p
  <2>1. J[q][j] = K[q][j] /\ j \in 1..Len(K[q]) /\ K[q][j] # i
    BY <1>3, <1>a
  <2>2. k # w
    BY <1>3, <1>c, <2>1
  <2>3. PICK n \in 1..Len(K[p]) : J[p][k] = K[p][n]
    BY <1>3, <1>b, <2>2
  <2> QED
    BY <1>3, <1>a, <2>1, <2>3
<1>4. CASE q = p /\ r = p
  <2>1. CASE j = w \/ k = w
    BY <1>4, <1>c, <2>1
  <2>2. CASE j # w /\ k # w
    <3>1. PICK m \in 1..Len(K[p]) : J[p][j] = K[p][m] /\ ((j < w /\ m = j) \/ (j > w /\ m = j - 1))
      BY <1>4, <1>b, <2>2
    <3>2. PICK n \in 1..Len(K[p]) : J[p][k] = K[p][n] /\ ((k < w /\ n = k) \/ (k > w /\ n = k - 1))
      BY <1>4, <1>b, <2>2
    <3>3. m = n
      BY <1>4, <1>a, <3>1, <3>2
    <3> QED
      BY <1>4, <1>d, <3>1, <3>2, <3>3
  <2> QED
    BY <2>1, <2>2
<1> QED
  BY <1>1, <1>2, <1>3, <1>4

\* What Lists says, one fact for each link.
LEMMA ListFacts ==
    ASSUME NEW nx, NEW pv, NEW ch, NEW K, Lists(nx, pv, ch, K)
    PROVE  /\ nx \in [Node -> Ptr] /\ pv \in [Node -> Ptr] /\ ch \in [Node -> Ptr]
           /\ K \in [Node -> Seq(Node)] /\ Apart(K)
           /\ \A q \in Node : K[q] \in Seq(Node) /\ Len(K[q]) \in Nat
           /\ \A q \in Node : \A j \in 1..Len(K[q]) : K[q][j] \in Node
           /\ \A q \in Node : \A j, k \in 1..Len(K[q]) : K[q][j] = K[q][k] => j = k
           /\ \A q \in Node : ch[q] = IF Len(K[q]) = 0 THEN Null ELSE K[q][1]
           /\ \A q \in Node : \A j \in 1..Len(K[q]) :
                  /\ nx[K[q][j]] = IF j = Len(K[q]) THEN Null ELSE K[q][j + 1]
                  /\ pv[K[q][j]] = IF j = 1 THEN K[q][Len(K[q])] ELSE K[q][j - 1]
           /\ \A n \in Node : IsTop(K, n) => nx[n] = Null /\ pv[n] = Null
<1>1. K \in [Node -> Seq(Node)]
  BY DEF Lists
<1>2. \A q \in Node : K[q] \in Seq(Node) /\ Len(K[q]) \in Nat
  BY <1>1
<1>3. \A q \in Node : \A j \in 1..Len(K[q]) : K[q][j] \in Node
  BY <1>2, ElementOfSeq
<1>4. \A q \in Node : \A j, k \in 1..Len(K[q]) : K[q][j] = K[q][k] => j = k
  BY DEF Lists, Apart
<1> QED
  BY <1>1, <1>2, <1>3, <1>4 DEF Lists, Linked

\* The links a call sets to insert i at place w are those of the rows with i
\* there.
LEMMA InsertLists ==
    ASSUME NEW nx, NEW pv, NEW ch, NEW K, Lists(nx, pv, ch, K),
           NEW J, NEW p \in Node, NEW w, NEW i, OneRow(K, J, p), WithAt(K[p], J[p], w, i), IsTop(K, i),
           NEW nx1, NEW pv1, NEW ch1, Inserted(nx, pv, ch, K[p], p, w, i, nx1, pv1, ch1)
    PROVE  Lists(nx1, pv1, ch1, J)
<1> DEFINE L == K[p]
           M == J[p]
<1>0. /\ L \in Seq(Node) /\ M \in Seq(Node) /\ Len(L) \in Nat /\ Len(M) = Len(L) + 1 /\ w \in 1..Len(L) + 1 /\ i \in Node
      /\ M[w] = i
      /\ \A j \in 1..Len(M) : j < w => M[j] = L[j] /\ j \in 1..Len(L)
      /\ \A j \in 1..Len(M) : j > w => M[j] = L[j - 1] /\ j - 1 \in 1..Len(L)
  BY DEF WithAt
<1>1. /\ J \in [Node -> Seq(Node)] /\ \A q \in Node \ {p} : J[q] = K[q]
  BY DEF OneRow
<1>2. /\ \A j \in 1..Len(L) : L[j] \in Node /\ L[j] # i
      /\ \A j, k \in 1..Len(L) : L[j] = L[k] => j = k
      /\ ch[p] = IF Len(L) = 0 THEN Null ELSE L[1]
      /\ \A j \in 1..Len(L) :
           /\ nx[L[j]] = IF j = Len(L) THEN Null ELSE L[j + 1]
           /\ pv[L[j]] = IF j = 1 THEN L[Len(L)] ELSE L[j - 1]
  BY ListFacts DEF IsTop
<1>3. Apart(J)
  BY <1>0, ListFacts, InsertApart
<1>4. /\ nx1 \in [Node -> Ptr] /\ pv1 \in [Node -> Ptr] /\ ch1 \in [Node -> Ptr]
      /\ \A n \in Node : nx1[n] = IF n = i THEN IF w = Len(L) + 1 THEN Null ELSE L[w]
                                  ELSE IF w > 1 /\ n = L[w - 1] THEN i ELSE nx[n]
      /\ \A n \in Node : pv1[n] = IF n = i THEN IF w > 1 THEN L[w - 1]
                                                ELSE IF Len(L) = 0 THEN i ELSE L[Len(L)]
                                  ELSE IF \/ w <= Len(L) /\ n = L[w]
                                          \/ w = Len(L) + 1 /\ Len(L) > 0 /\ n = L[1]
                                  THEN i ELSE pv[n]
      /\ \A n \in Node : ch1[n] = IF n = p /\ w = 1 THEN i ELSE ch[n]
  BY DEF Inserted
<1> HIDE DEF L, M
<1>5. ASSUME NEW n \in Node, IsTop(J, n) PROVE nx1[n] = Null /\ pv1[n] = Null
  <2>1. \A j \in 1..Len(M) : M[j] # n
    BY <1>5 DEF IsTop, M
  <2>2. n # i
    BY <2>1, <1>0
  <2>3. ASSUME NEW j \in 1..Len(L) PROVE L[j] # n
    <3>1. CASE j < w
      <4>1. j \in 1..Len(M)
        BY <1>0
      <4> QED
        BY <1>0, <2>1, <3>1, <4>1
    <3>2. CASE j >= w
      <4>1. j + 1 \in 1..Len(M) /\ j + 1 > w /\ (j + 1) - 1 = j
        BY <1>0, <3>2
      <4> QED
        BY <1>0, <2>1, <4>1
    <3> QED
      BY <3>1, <3>2, <1>0
  <2>4. IsTop(K, n)
    <3> SUFFICES ASSUME NEW q \in Node, NEW j \in 1..Len(K[q]) PROVE K[q][j] # n
      BY DEF IsTop
    <3>1. CASE q = p
      BY <2>3, <3>1 DEF L
    <3>2. CASE q # p
      BY <1>1, <1>5, <3>2 DEF IsTop
    <3> QED
      BY <3>1, <3>2
  <2>5. nx[n] = Null /\ pv[n] = Null
    BY <2>4, ListFacts
  <2>6. (w > 1 => w - 1 \in 1..Len(L)) /\ (w <= Len(L) => w \in 1..Len(L)) /\ (Len(L) > 0 => 1 \in 1..Len(L))
    BY <1>0
  <2> QED
    BY <2>2, <2>3, <2>5, <2>6, <1>4
<1>6. \A q \in Node : ch1[q] = IF Len(J[q]) = 0 THEN Null ELSE J[q][1]
  <2> SUFFICES ASSUME NEW q \in Node PROVE ch1[q] = IF Len(J[q]) = 0 THEN Null ELSE J[q][1]
    OBVIOUS
  <2>1. CASE q # p
    BY <2>1, <1>1, <1>4, ListFacts
  <2>2. CASE q = p /\ w = 1
    BY <2>2, <1>0, <1>4 DEF M
  <2>3. CASE q = p /\ w # 1
    <3>1. 1 \in 1..Len(M) /\ 1 < w
      BY <2>3, <1>0
    <3>2. M[1] = L[1] /\ Len(L) # 0 /\ Len(M) # 0
      BY <1>0, <3>1
    <3> QED
      BY <2>3, <3>2, <1>2, <1>4 DEF M
  <2> QED
    BY <2>1, <2>2, <2>3
<1>7. ASSUME NEW q \in Node \ {p}, NEW j \in 1..Len(J[q])
      PROVE  /\ nx1[J[q][j]] = IF j = Len(J[q]) THEN Null ELSE J[q][j + 1]
             /\ pv1[J[q][j]] = IF j = 1 THEN J[q][Len(J[q])] ELSE J[q][j - 1]
  <2>1. J[q] = K[q] /\ j \in 1..Len(K[q]) /\ K[q][j] \in Node /\ K[q][j] # i
    BY <1>1, ListFacts DEF IsTop
  <2>2. \A k \in 1..Len(L) : K[q][j] # L[k]
    BY <2>1 DEF Lists, Apart, L
  <2>3. (w > 1 => w - 1 \in 1..Len(L)) /\ (w <= Len(L) => w \in 1..Len(L)) /\ (Len(L) > 0 => 1 \in 1..Len(L))
    BY <1>0
  <2>4. nx1[K[q][j]] = nx[K[q][j]] /\ pv1[K[q][j]] = pv[K[q][j]]
    BY <2>1, <2>2, <2>3, <1>4
  <2> QED
    BY <2>1, <2>4, ListFacts
<1>8. ASSUME NEW j \in 1..Len(M)
      PROVE  /\ nx1[M[j]] = IF j = Len(M) THEN Null ELSE M[j + 1]
             /\ pv1[M[j]] = IF j = 1 THEN M[Len(M)] ELSE M[j - 1]
  <2>1. CASE j < w
    <3>1. M[j] = L[j] /\ j \in 1..Len(L) /\ L[j] \in Node /\ L[j] # i
      BY <1>0, <1>2, <2>1
    <3>2. nx1[L[j]] = IF w - 1 = j THEN i ELSE nx[L[j]]
      BY <1>0, <1>2, <1>4, <2>1, <3>1
    <3>3. pv1[L[j]] = IF w = Len(L) + 1 /\ j = 1 THEN i ELSE pv[L[j]]
      BY <1>0, <1>2, <1>4, <2>1, <3>1
    <3>4. nx1[M[j]] = M[j + 1] /\ j # Len(M)
      <4>1. j + 1 \in 1..Len(M)
        BY <1>0, <2>1
      <4>2. CASE w - 1 = j
        BY <1>0, <2>1, <3>1, <3>2, <4>1, <4>2
      <4>3. CASE w - 1 # j
        BY <1>0, <1>2, <2>1, <3>1, <3>2, <4>1, <4>3
      <4> QED
        BY <4>2, <4>3
    <3>5. CASE j = 1
      <4>1. CASE w = Len(L) + 1
        BY <1>0, <3>1, <3>3, <3>4, <3>5, <4>1
      <4>2. CASE w # Len(L) + 1
        <5>1. Len(M) \in 1..Len(M) /\ Len(M) > w /\ Len(M) - 1 = Len(L)
          BY <1>0, <4>2
        <5>2. M[Len(M)] = L[Len(L)]
          BY <1>0, <5>1
        <5> QED
          BY <1>2, <3>1, <3>3, <3>4, <3>5, <4>2, <5>2
      <4> QED
        BY <4>1, <4>2, <3>4, <3>5
    <3>6. CASE j # 1
      <4>1. j - 1 \in 1..Len(M) /\ j - 1 < w
        BY <2>1, <3>6, <1>0
      <4> QED
        BY <1>0, <1>2, <3>1, <3>3, <3>4, <3>6, <4>1
    <3> QED
      BY <3>4, <3>5, <3>6
  <2>2. CASE j = w
    <3>1. nx1[M[j]] = IF j = Len(M) THEN Null ELSE M[j + 1]
      <4>1. CASE w = Len(L) + 1
        BY <1>0, <1>4, <2>2, <4>1
      <4>2. CASE w # Len(L) + 1
        <5>1. w + 1 \in 1..Len(M) /\ w + 1 > w /\ (w + 1) - 1 = w
          BY <1>0, <4>2
        <5>2. M[w + 1] = L[w]
          BY <1>0, <5>1
        <5> QED
          BY <1>0, <1>4, <2>2, <4>2, <5>2
      <4> QED
        BY <4>1, <4>2
    <3>2. CASE w > 1
      <4>1. w - 1 \in 1..Len(M) /\ w - 1 < w
        BY <1>0, <3>2
      <4> QED
        BY <1>0, <1>4, <2>2, <3>1, <3>2, <4>1
    <3>3. CASE w = 1
      <4>0. pv1[i] = (IF Len(L) = 0 THEN i ELSE L[Len(L)]) /\ j = 1 /\ M[j] = i
        BY <1>0, <1>4, <2>2, <3>3
      <4>1. CASE Len(L) = 0
        BY <1>0, <3>1, <4>0, <4>1
      <4>2. CASE Len(L) # 0
        <5>1. Len(M) \in 1..Len(M) /\ Len(M) > w /\ Len(M) - 1 = Len(L)
          BY <1>0, <4>2, <3>3
        <5>2. M[Len(M)] = L[Len(L)]
          BY <1>0, <5>1
        <5> QED
          BY <3>1, <4>0, <4>2, <5>2
      <4> QED
        BY <4>1, <4>2
    <3> QED
      BY <3>2, <3>3, <1>0
  <2>3. CASE j > w
    <3> DEFINE k == j - 1
    <3>1. M[j] = L[k] /\ k \in 1..Len(L) /\ L[k] \in Node /\ L[k] # i /\ k >= w /\ j = k + 1
      BY <1>0, <1>2, <2>3
    <3>2. nx1[L[k]] = nx[L[k]]
      BY <1>0, <1>2, <1>4, <3>1
    <3>3. pv1[L[k]] = IF k = w THEN i ELSE pv[L[k]]
      BY <1>0, <1>2, <1>4, <3>1
    <3> HIDE DEF k
    <3>4. nx1[M[j]] = IF j = Len(M) THEN Null ELSE M[j + 1]
      <4>1. CASE j = Len(M)
        BY <1>0, <1>2, <3>1, <3>2, <4>1
      <4>2. CASE j # Len(M)
        <5>1. j + 1 \in 1..Len(M) /\ j + 1 > w /\ (j + 1) - 1 = k + 1
          BY <1>0, <2>3, <3>1, <4>2
        <5>2. M[j + 1] = L[k + 1]
          BY <1>0, <5>1
        <5> QED
          BY <1>0, <1>2, <3>1, <3>2, <4>2, <5>2
      <4> QED
        BY <4>1, <4>2
    <3>5. j # 1 /\ pv1[M[j]] = M[j - 1]
      <4>1. CASE k = w
        BY <1>0, <3>1, <3>3, <4>1
      <4>2. CASE k # w
        <5>1. k \in 1..Len(M) /\ k > w /\ j - 1 = k /\ k # 1
          BY <1>0, <3>1, <4>2
        <5>2. M[k] = L[k - 1]
          BY <1>0, <5>1
        <5> QED
          BY <1>2, <3>1, <3>3, <4>2, <5>1, <5>2
      <4> QED
        BY <4>1, <4>2
    <3> QED
      BY <3>4, <3>5
  <2> QED
    BY <2>1, <2>2, <2>3, <1>0
<1>9. Linked(nx1, pv1, ch1, J)
  BY <1>6, <1>7, <1>8 DEF Linked, M
<1> QED
  BY <1>1, <1>3, <1>4, <1>5, <1>9 DEF Lists

\* The links nx1, pv1 and ch1 are nx, pv and ch once i is out of the place w
\* of the row M of p.
Removed(nx, pv, ch, M, p, w, i, nx1, pv1, ch1) ==
    /\ nx1 \in [Node -> Ptr] /\ pv1 \in [Node -> Ptr] /\ ch1 \in [Node -> Ptr]
    /\ \A n \in Node : nx1[n] = IF n = i THEN Null
                                ELSE IF w > 1 /\ n = M[w - 1] THEN nx[i] ELSE nx[n]
    /\ \A n \in Node : pv1[n] = IF n = i THEN Null
                                ELSE IF \/ w < Len(M) /\ n = M[w + 1]
                                        \/ w = Len(M) /\ w > 1 /\ n = M[1]
                                THEN pv[i] ELSE pv[n]
    /\ \A n \in Node : ch1[n] = IF n = p /\ w = 1 THEN nx[i] ELSE ch[n]

\* An item taken out of its row is in no row.
LEMMA RemoveApart ==
    ASSUME NEW K, NEW J, NEW p \in Node, NEW i, NEW w, OneRow(K, J, p), WithAt(K[p], J[p], w, i), Apart(J)
    PROVE  Apart(K) /\ IsTop(K, i)
<1> DEFINE at(j) == IF j < w THEN j ELSE j + 1
<1>1. \A j \in 1..Len(K[p]) : at(j) \in 1..Len(J[p]) /\ K[p][j] = J[p][at(j)] /\ at(j) # w
  <2> SUFFICES ASSUME NEW j \in 1..Len(K[p]) PROVE at(j) \in 1..Len(J[p]) /\ K[p][j] = J[p][at(j)] /\ at(j) # w
    OBVIOUS
  <2>1. CASE j < w
    BY <2>1 DEF WithAt
  <2>2. CASE j >= w
    <3>1. j + 1 \in 1..Len(J[p]) /\ j + 1 > w /\ (j + 1) - 1 = j
      BY <2>2 DEF WithAt
    <3> QED
      BY <2>2, <3>1 DEF WithAt
  <2> QED
    BY <2>1, <2>2 DEF WithAt
<1>2. \A j, k \in 1..Len(K[p]) : at(j) = at(k) => j = k
  BY DEF WithAt
<1> HIDE DEF at
<1>3. w \in 1..Len(J[p]) /\ J[p][w] = i
  BY DEF WithAt
<1>4. \A q \in Node \ {p} : J[q] = K[q]
  BY DEF OneRow
<1>5. ASSUME NEW q \in Node, NEW r \in Node, NEW j \in 1..Len(K[q]), NEW k \in 1..Len(K[r]), K[q][j] = K[r][k]
      PROVE  q = r /\ j = k
  <2>1. CASE q # p /\ r # p
    BY <1>4, <1>5, <2>1 DEF Apart
  <2>2. CASE q = p /\ r # p
    BY <1>1, <1>4, <1>5, <2>2 DEF Apart
  <2>3. CASE q # p /\ r = p
    BY <1>1, <1>4, <1>5, <2>3 DEF Apart
  <2>4. CASE q = p /\ r = p
    BY <1>1, <1>2, <1>5, <2>4, SMTT(30) DEF Apart
  <2> QED
    BY <2>1, <2>2, <2>3, <2>4
<1>6. ASSUME NEW q \in Node, NEW j \in 1..Len(K[q]) PROVE K[q][j] # i
  <2>1. CASE q = p
    BY <1>1, <1>3, <2>1 DEF Apart
  <2>2. CASE q # p
    BY <1>3, <1>4, <2>2 DEF Apart
  <2> QED
    BY <2>1, <2>2
<1> QED
  BY <1>5, <1>6 DEF Apart, IsTop

\* The links a call sets to detach i are those of the rows without i.
LEMMA RemoveLists ==
    ASSUME NEW nx, NEW pv, NEW ch, NEW J, Lists(nx, pv, ch, J),
           NEW K, NEW p \in Node, NEW w, NEW i, OneRow(K, J, p), WithAt(K[p], J[p], w, i),
           NEW nx1, NEW pv1, NEW ch1, Removed(nx, pv, ch, J[p], p, w, i, nx1, pv1, ch1)
    PROVE  Lists(nx1, pv1, ch1, K) /\ IsTop(K, i)
<1> DEFINE L == K[p]
           M == J[p]
<1>0. /\ L \in Seq(Node) /\ M \in Seq(Node) /\ Len(L) \in Nat /\ Len(M) = Len(L) + 1 /\ w \in 1..Len(M) /\ i \in Node
      /\ M[w] = i
      /\ \A j \in 1..Len(L) : j < w => L[j] = M[j] /\ j \in 1..Len(M)
  BY DEF WithAt
<1>a. ASSUME NEW j \in 1..Len(L), j >= w PROVE L[j] = M[j + 1] /\ j + 1 \in 1..Len(M)
  <2>1. j + 1 \in 1..Len(M) /\ j + 1 > w /\ (j + 1) - 1 = j
    BY <1>0, <1>a
  <2> QED
    BY <1>a, <2>1 DEF WithAt
<1>1. K \in [Node -> Seq(Node)] /\ \A q \in Node \ {p} : J[q] = K[q]
  BY DEF OneRow
<1>2. /\ \A j \in 1..Len(M) : M[j] \in Node
      /\ \A j, k \in 1..Len(M) : M[j] = M[k] => j = k
      /\ ch[p] = IF Len(M) = 0 THEN Null ELSE M[1]
      /\ \A j \in 1..Len(M) :
           /\ nx[M[j]] = IF j = Len(M) THEN Null ELSE M[j + 1]
           /\ pv[M[j]] = IF j = 1 THEN M[Len(M)] ELSE M[j - 1]
  BY ListFacts
<1>3. Apart(K) /\ IsTop(K, i)
  BY ListFacts, RemoveApart
<1>4. /\ nx1 \in [Node -> Ptr] /\ pv1 \in [Node -> Ptr] /\ ch1 \in [Node -> Ptr]
      /\ \A n \in Node : nx1[n] = IF n = i THEN Null
                                  ELSE IF w > 1 /\ n = M[w - 1] THEN nx[i] ELSE nx[n]
      /\ \A n \in Node : pv1[n] = IF n = i THEN Null
                                  ELSE IF \/ w < Len(M) /\ n = M[w + 1]
                                          \/ w = Len(M) /\ w > 1 /\ n = M[1]
                                  THEN pv[i] ELSE pv[n]
      /\ \A n \in Node : ch1[n] = IF n = p /\ w = 1 THEN nx[i] ELSE ch[n]
  BY DEF Removed
<1>b. /\ nx[i] = IF w = Len(M) THEN Null ELSE M[w + 1]
      /\ pv[i] = IF w = 1 THEN M[Len(M)] ELSE M[w - 1]
  BY <1>0, <1>2
<1>c. (w > 1 => w - 1 \in 1..Len(M)) /\ (w < Len(M) => w + 1 \in 1..Len(M)) /\ 1 \in 1..Len(M)
  BY <1>0
<1> HIDE DEF L, M
<1>5. ASSUME NEW n \in Node, IsTop(K, n) PROVE nx1[n] = Null /\ pv1[n] = Null
  <2>1. CASE n = i
    BY <1>4, <2>1
  <2>2. CASE n # i
    <3>1. \A j \in 1..Len(L) : L[j] # n
      BY <1>5 DEF IsTop, L
    <3>2. ASSUME NEW j \in 1..Len(M) PROVE M[j] # n
      <4>1. CASE j < w
        BY <1>0, <3>1, <4>1
      <4>2. CASE j = w
        BY <1>0, <2>2, <4>2
      <4>3. CASE j > w
        <5>1. j - 1 \in 1..Len(L) /\ j - 1 >= w /\ (j - 1) + 1 = j
          BY <1>0, <4>3
        <5> QED
          BY <1>a, <3>1, <5>1
      <4> QED
        BY <4>1, <4>2, <4>3, <1>0
    <3>3. IsTop(J, n)
      <4> SUFFICES ASSUME NEW q \in Node, NEW j \in 1..Len(J[q]) PROVE J[q][j] # n
        BY DEF IsTop
      <4>1. CASE q = p
        BY <3>2, <4>1 DEF M
      <4>2. CASE q # p
        BY <1>1, <1>5, <4>2 DEF IsTop
      <4> QED
        BY <4>1, <4>2
    <3>4. nx[n] = Null /\ pv[n] = Null
      BY <3>3, ListFacts
    <3> QED
      BY <2>2, <3>2, <3>4, <1>c, <1>4
  <2> QED
    BY <2>1, <2>2
<1>6. \A q \in Node : ch1[q] = IF Len(K[q]) = 0 THEN Null ELSE K[q][1]
  <2> SUFFICES ASSUME NEW q \in Node PROVE ch1[q] = IF Len(K[q]) = 0 THEN Null ELSE K[q][1]
    OBVIOUS
  <2>1. CASE q # p
    BY <2>1, <1>1, <1>4, ListFacts
  <2>2. CASE q = p /\ w = 1
    <3>0. ch1[q] = nx[i] /\ K[q] = L
      BY <2>2, <1>4 DEF L
    <3>1. CASE Len(L) = 0
      BY <3>0, <1>0, <1>b, <2>2, <3>1
    <3>2. CASE Len(L) # 0
      <4>1. 1 \in 1..Len(L) /\ w # Len(M) /\ 1 >= w
        BY <1>0, <2>2, <3>2
      <4>2. L[1] = M[1 + 1]
        BY <1>a, <4>1
      <4> QED
        BY <3>0, <1>b, <2>2, <4>1, <4>2, <3>2
    <3> QED
      BY <3>1, <3>2
  <2>3. CASE q = p /\ w # 1
    <3>1. 1 \in 1..Len(L) /\ 1 < w
      BY <2>3, <1>0
    <3>2. M[1] = L[1] /\ Len(L) # 0 /\ Len(M) # 0
      BY <1>0, <3>1
    <3> QED
      BY <2>3, <3>2, <1>2, <1>4 DEF L
  <2> QED
    BY <2>1, <2>2, <2>3
<1>7. ASSUME NEW q \in Node \ {p}, NEW j \in 1..Len(K[q])
      PROVE  /\ nx1[K[q][j]] = IF j = Len(K[q]) THEN Null ELSE K[q][j + 1]
             /\ pv1[K[q][j]] = IF j = 1 THEN K[q][Len(K[q])] ELSE K[q][j - 1]
  <2>1. J[q] = K[q] /\ j \in 1..Len(J[q]) /\ J[q][j] \in Node
    BY <1>1, ListFacts
  <2>2. \A k \in 1..Len(M) : J[q][j] # M[k]
    BY <2>1 DEF Lists, Apart, M
  <2>4. nx1[J[q][j]] = nx[J[q][j]] /\ pv1[J[q][j]] = pv[J[q][j]]
    BY <2>1, <2>2, <1>0, <1>c, <1>4
  <2>5. /\ nx[J[q][j]] = IF j = Len(J[q]) THEN Null ELSE J[q][j + 1]
        /\ pv[J[q][j]] = IF j = 1 THEN J[q][Len(J[q])] ELSE J[q][j - 1]
    BY <2>1, ListFacts, SMTT(30)
  <2> QED
    BY <2>1, <2>4, <2>5
<1>8. ASSUME NEW j \in 1..Len(L)
      PROVE  /\ nx1[L[j]] = IF j = Len(L) THEN Null ELSE L[j + 1]
             /\ pv1[L[j]] = IF j = 1 THEN L[Len(L)] ELSE L[j - 1]
  <2>1. CASE j < w
    <3>1. L[j] = M[j] /\ j \in 1..Len(M) /\ M[j] \in Node /\ M[j] # i
      BY <1>0, <1>2, <2>1
    <3>2. nx1[M[j]] = IF w - 1 = j THEN nx[i] ELSE nx[M[j]]
      BY <1>0, <1>2, <1>4, <2>1, <3>1, <1>c
    <3>3. pv1[M[j]] = IF w = Len(M) /\ j = 1 THEN pv[i] ELSE pv[M[j]]
      BY <1>0, <1>2, <1>4, <2>1, <3>1, <1>c
    <3>4. nx1[L[j]] = IF j = Len(L) THEN Null ELSE L[j + 1]
      <4>1. CASE w - 1 = j /\ w = Len(M)
        BY <1>0, <1>b, <3>1, <3>2, <4>1
      <4>2. CASE w - 1 = j /\ w # Len(M)
        <5>1. w \in 1..Len(L) /\ w >= w /\ j + 1 = w /\ j # Len(L)
          BY <1>0, <4>2
        <5>2. L[w] = M[w + 1]
          BY <1>a, <5>1
        <5> QED
          BY <1>b, <3>1, <3>2, <4>2, <5>1, <5>2
      <4>3. CASE w - 1 # j
        <5>1. j + 1 \in 1..Len(L) /\ j + 1 < w /\ j # Len(L) /\ j # Len(M)
          BY <1>0, <2>1, <4>3
        <5>2. L[j + 1] = M[j + 1]
          BY <1>0, <5>1
        <5> QED
          BY <1>2, <3>1, <3>2, <4>3, <5>1, <5>2
      <4> QED
        BY <4>1, <4>2, <4>3
    <3>5. CASE j = 1
      <4>1. CASE w = Len(M)
        <5>1. Len(L) \in 1..Len(L) /\ Len(L) < w /\ Len(L) = w - 1 /\ w # 1
          BY <1>0, <2>1, <4>1
        <5>2. L[Len(L)] = M[w - 1]
          BY <1>0, <5>1
        <5> QED
          BY <1>b, <3>1, <3>3, <3>4, <3>5, <4>1, <5>1, <5>2
      <4>2. CASE w # Len(M)
        <5>1. Len(L) \in 1..Len(L) /\ Len(L) >= w /\ Len(L) + 1 = Len(M)
          BY <1>0, <4>2
        <5>2. L[Len(L)] = M[Len(M)]
          BY <1>a, <5>1
        <5> QED
          BY <1>2, <3>1, <3>3, <3>4, <3>5, <4>2, <5>2
      <4> QED
        BY <4>1, <4>2
    <3>6. CASE j # 1
      <4>1. j - 1 \in 1..Len(L) /\ j - 1 < w
        BY <2>1, <3>6, <1>0
      <4> QED
        BY <1>0, <1>2, <3>1, <3>3, <3>4, <3>6, <4>1
    <3> QED
      BY <3>5, <3>6
  <2>2. CASE j >= w
    <3> DEFINE k == j + 1
    <3>0. j >= w /\ j \in Int
      BY <2>2
    <3>a. L[j] = M[k] /\ k \in 1..Len(M) /\ k > w /\ j = k - 1
      BY <1>a, <3>0, <1>0
    <3>1. L[j] = M[k] /\ k \in 1..Len(M) /\ M[k] \in Node /\ M[k] # i /\ k > w /\ j = k - 1
      BY <1>0, <1>2, <3>a
    <3>2. nx1[M[k]] = nx[M[k]]
      BY <1>0, <1>2, <1>4, <3>1, <1>c
    <3>3. pv1[M[k]] = IF k = w + 1 THEN pv[i] ELSE pv[M[k]]
      BY <1>0, <1>2, <1>4, <3>1, <1>c
    <3> HIDE DEF k
    <3>4. nx1[L[j]] = IF j = Len(L) THEN Null ELSE L[j + 1]
      <4>1. CASE j = Len(L)
        BY <1>0, <1>2, <3>1, <3>2, <4>1
      <4>2. CASE j # Len(L)
        <5>1. k \in 1..Len(L) /\ k >= w /\ j + 1 = k /\ k # Len(M)
          BY <1>0, <3>0, <3>1, <4>2
        <5>2. L[k] = M[k + 1]
          BY <1>a, <5>1
        <5> QED
          BY <1>2, <3>1, <3>2, <4>2, <5>1, <5>2
      <4> QED
        BY <4>1, <4>2
    <3>5. CASE k = w + 1
      <4>1. CASE w = 1
        <5>1. Len(L) \in 1..Len(L) /\ Len(L) >= w /\ Len(L) + 1 = Len(M) /\ j = 1
          BY <1>0, <3>1, <3>5, <4>1
        <5>2. L[Len(L)] = M[Len(M)]
          BY <1>a, <5>1
        <5> QED
          BY <1>b, <3>1, <3>3, <3>4, <3>5, <4>1, <5>1, <5>2
      <4>2. CASE w # 1
        <5>1. j - 1 \in 1..Len(L) /\ j - 1 < w /\ j - 1 = w - 1 /\ j # 1
          BY <1>0, <3>1, <3>5, <4>2
        <5> QED
          BY <1>0, <1>b, <3>1, <3>3, <3>4, <3>5, <4>2, <5>1
      <4> QED
        BY <4>1, <4>2
    <3>6. CASE k # w + 1
      <4>1. j - 1 \in 1..Len(L) /\ j - 1 >= w /\ (j - 1) + 1 = j /\ j # 1 /\ k # 1 /\ k - 1 = j
        BY <1>0, <3>0, <3>1, <3>6
      <4>2. L[j - 1] = M[j]
        BY <1>a, <4>1
      <4> QED
        BY <1>2, <3>1, <3>3, <3>4, <3>6, <4>1, <4>2
    <3> QED
      BY <3>5, <3>6
  <2> QED
    BY <2>1, <2>2, <1>0
<1>9. Linked(nx1, pv1, ch1, K)
  BY <1>6, <1>7, <1>8 DEF Linked, L
<1> QED
  BY <1>1, <1>3, <1>4, <1>5, <1>9 DEF Lists

\* L with r at place w instead of i.
Instead(L, M, w, i, r) ==
    /\ L \in Seq(Node) /\ M \in Seq(Node) /\ Len(L) \in Nat /\ Len(M) = Len(L) /\ w \in 1..Len(L)
    /\ L[w] = i /\ i \in Node /\ r \in Node
    /\ \A j \in 1..Len(L) : M[j] = IF j = w THEN r ELSE L[j]

\* The links nx1, pv1 and ch1 are nx, pv and ch once r has the place w of i in
\* the row L of p.
Swapped(nx, pv, ch, L, p, w, i, r, nx1, pv1, ch1) ==
    /\ nx1 \in [Node -> Ptr] /\ pv1 \in [Node -> Ptr] /\ ch1 \in [Node -> Ptr]
    /\ \A n \in Node : nx1[n] = IF n = r THEN nx[i] ELSE IF n = i THEN Null
                                ELSE IF w > 1 /\ n = L[w - 1] THEN r ELSE nx[n]
    /\ \A n \in Node : pv1[n] = IF n = r THEN IF Len(L) = 1 THEN r ELSE pv[i] ELSE IF n = i THEN Null
                                ELSE IF \/ w < Len(L) /\ n = L[w + 1]
                                        \/ w = Len(L) /\ w > 1 /\ n = L[1]
                                THEN r ELSE pv[n]
    /\ \A n \in Node : ch1[n] = IF n = p /\ w = 1 THEN r ELSE ch[n]

\* The links cJSON_ReplaceItemViaPointer sets are those of the rows with r
\* instead of i.
LEMMA SwapLists ==
    ASSUME NEW nx, NEW pv, NEW ch, NEW K, Lists(nx, pv, ch, K),
           NEW J, NEW p \in Node, NEW w, NEW i, NEW r, OneRow(K, J, p), Instead(K[p], J[p], w, i, r), IsTop(K, r),
           NEW nx1, NEW pv1, NEW ch1, Swapped(nx, pv, ch, K[p], p, w, i, r, nx1, pv1, ch1)
    PROVE  Lists(nx1, pv1, ch1, J) /\ IsTop(J, i)
<1> DEFINE L == K[p]
           M == J[p]
<1>0. /\ L \in Seq(Node) /\ M \in Seq(Node) /\ Len(L) \in Nat /\ Len(M) = Len(L) /\ w \in 1..Len(L)
      /\ L[w] = i /\ i \in Node /\ r \in Node /\ M[w] = r
      /\ \A j \in 1..Len(L) : j # w => M[j] = L[j]
  BY DEF Instead
<1>1. J \in [Node -> Seq(Node)] /\ \A q \in Node \ {p} : J[q] = K[q]
  BY DEF OneRow
<1>2. /\ \A j \in 1..Len(L) : L[j] \in Node /\ L[j] # r
      /\ \A j, k \in 1..Len(L) : L[j] = L[k] => j = k
      /\ ch[p] = IF Len(L) = 0 THEN Null ELSE L[1]
      /\ \A j \in 1..Len(L) :
           /\ nx[L[j]] = IF j = Len(L) THEN Null ELSE L[j + 1]
           /\ pv[L[j]] = IF j = 1 THEN L[Len(L)] ELSE L[j - 1]
  BY ListFacts DEF IsTop
<1>4. /\ nx1 \in [Node -> Ptr] /\ pv1 \in [Node -> Ptr] /\ ch1 \in [Node -> Ptr]
      /\ \A n \in Node : nx1[n] = IF n = r THEN nx[i] ELSE IF n = i THEN Null
                                  ELSE IF w > 1 /\ n = L[w - 1] THEN r ELSE nx[n]
      /\ \A n \in Node : pv1[n] = IF n = r THEN IF Len(L) = 1 THEN r ELSE pv[i] ELSE IF n = i THEN Null
                                  ELSE IF \/ w < Len(L) /\ n = L[w + 1]
                                          \/ w = Len(L) /\ w > 1 /\ n = L[1]
                                  THEN r ELSE pv[n]
      /\ \A n \in Node : ch1[n] = IF n = p /\ w = 1 THEN r ELSE ch[n]
  BY DEF Swapped
<1>b. /\ nx[i] = IF w = Len(L) THEN Null ELSE L[w + 1]
      /\ pv[i] = IF w = 1 THEN L[Len(L)] ELSE L[w - 1]
  BY <1>0, <1>2
<1>c. (w > 1 => w - 1 \in 1..Len(L)) /\ (w < Len(L) => w + 1 \in 1..Len(L)) /\ 1 \in 1..Len(L) /\ i # r
  BY <1>0, <1>2
<1>e. \A u, v \in Node : \A m \in 1..Len(K[u]), n \in 1..Len(K[v]) : K[u][m] = K[v][n] => u = v /\ m = n
  BY DEF Lists, Apart
<1>f. \A u \in Node : \A m \in 1..Len(K[u]) : K[u][m] # r
  BY DEF IsTop
<1>3. Apart(J)
  <2> SUFFICES ASSUME NEW q \in Node, NEW s \in Node, NEW j \in 1..Len(J[q]), NEW k \in 1..Len(J[s]),
                      J[q][j] = J[s][k]
               PROVE  q = s /\ j = k
    BY DEF Apart
  <2>1. \A u \in Node : Len(J[u]) = Len(K[u])
    BY <1>0, <1>1
  <2>2. \A u \in Node : \A m \in 1..Len(K[u]) : J[u][m] = IF u = p /\ m = w THEN r ELSE K[u][m]
    BY <1>0, <1>1
  <2>3. J[q][j] = r => q = p /\ j = w
    BY <1>e, <1>f, <2>1, <2>2
  <2>4. J[s][k] = r => s = p /\ k = w
    BY <1>e, <1>f, <2>1, <2>2
  <2>5. CASE J[q][j] = r
    BY <2>3, <2>4, <2>5
  <2>6. CASE J[q][j] # r
    <3>1. J[q][j] = K[q][j] /\ j \in 1..Len(K[q])
      BY <2>1, <2>2, <2>6
    <3>2. J[s][k] = K[s][k] /\ k \in 1..Len(K[s])
      BY <2>1, <2>2, <2>6
    <3>3. K[q][j] = K[s][k] /\ j \in 1..Len(K[q]) /\ k \in 1..Len(K[s])
      BY <3>1, <3>2
    <3> QED
      BY <1>e, <3>3, SMTT(30)
  <2> QED
    BY <2>5, <2>6
<1>d. IsTop(J, i)
  <2> SUFFICES ASSUME NEW q \in Node, NEW j \in 1..Len(J[q]) PROVE J[q][j] # i
    BY DEF IsTop
  <2>1. CASE q = p
    BY <1>0, <1>2, <1>c, <2>1
  <2>2. CASE q # p
    <3>1. J[q] = K[q]
      BY <1>1, <2>2
    <3>2. w \in 1..Len(K[p]) /\ K[p][w] = i
      BY <1>0
    <3>3. j \in 1..Len(K[q])
      BY <3>1
    <3>4. K[q][j] = K[p][w] => q = p
      BY <1>e, <3>2, <3>3
    <3> QED
      BY <2>2, <3>1, <3>2, <3>4
  <2> QED
    BY <2>1, <2>2
<1> HIDE DEF L, M
<1>5. ASSUME NEW n \in Node, IsTop(J, n) PROVE nx1[n] = Null /\ pv1[n] = Null
  <2>1. CASE n = i
    BY <1>4, <1>c, <2>1
  <2>2. CASE n # i
    <3>1. \A j \in 1..Len(L) : M[j] # n
      BY <1>5, <1>0 DEF IsTop, M
    <3>2. n # r /\ \A j \in 1..Len(L) : L[j] # n
      BY <3>1, <1>0, <2>2
    <3>3. IsTop(K, n)
      <4> SUFFICES ASSUME NEW q \in Node, NEW j \in 1..Len(K[q]) PROVE K[q][j] # n
        BY DEF IsTop
      <4>1. CASE q = p
        BY <3>2, <4>1 DEF L
      <4>2. CASE q # p
        BY <1>1, <1>5, <4>2 DEF IsTop
      <4> QED
        BY <4>1, <4>2
    <3>4. nx[n] = Null /\ pv[n] = Null
      BY <3>3, ListFacts
    <3> QED
      BY <2>2, <3>2, <3>4, <1>c, <1>4
  <2> QED
    BY <2>1, <2>2
<1>6. \A q \in Node : ch1[q] = IF Len(J[q]) = 0 THEN Null ELSE J[q][1]
  <2> SUFFICES ASSUME NEW q \in Node PROVE ch1[q] = IF Len(J[q]) = 0 THEN Null ELSE J[q][1]
    OBVIOUS
  <2>1. CASE q # p
    BY <2>1, <1>1, <1>4, ListFacts
  <2>2. CASE q = p /\ w = 1
    BY <2>2, <1>0, <1>4 DEF M
  <2>3. CASE q = p /\ w # 1
    BY <2>3, <1>0, <1>2, <1>4, <1>c DEF M
  <2> QED
    BY <2>1, <2>2, <2>3
<1>7. ASSUME NEW q \in Node \ {p}, NEW j \in 1..Len(J[q])
      PROVE  /\ nx1[J[q][j]] = IF j = Len(J[q]) THEN Null ELSE J[q][j + 1]
             /\ pv1[J[q][j]] = IF j = 1 THEN J[q][Len(J[q])] ELSE J[q][j - 1]
  <2>1. J[q] = K[q] /\ j \in 1..Len(K[q]) /\ K[q][j] \in Node /\ K[q][j] # r
    BY <1>1, ListFacts DEF IsTop
  <2>2. \A k \in 1..Len(L) : K[q][j] # L[k]
    BY <2>1 DEF Lists, Apart, L
  <2>4. nx1[K[q][j]] = nx[K[q][j]] /\ pv1[K[q][j]] = pv[K[q][j]]
    BY <2>1, <2>2, <1>0, <1>c, <1>4
  <2>5. /\ nx[K[q][j]] = IF j = Len(K[q]) THEN Null ELSE K[q][j + 1]
        /\ pv[K[q][j]] = IF j = 1 THEN K[q][Len(K[q])] ELSE K[q][j - 1]
    BY <2>1, ListFacts
  <2> QED
    BY <2>1, <2>4, <2>5
<1>8. ASSUME NEW j \in 1..Len(M)
      PROVE  /\ nx1[M[j]] = IF j = Len(M) THEN Null ELSE M[j + 1]
             /\ pv1[M[j]] = IF j = 1 THEN M[Len(M)] ELSE M[j - 1]
  <2>1. CASE j = w
    <3>1. nx1[M[j]] = nx[i] /\ pv1[M[j]] = IF Len(L) = 1 THEN r ELSE pv[i]
      BY <1>0, <1>4, <2>1
    <3>2. nx[i] = IF j = Len(M) THEN Null ELSE M[j + 1]
      BY <1>0, <1>b, <1>c, <2>1
    <3>3. (IF Len(L) = 1 THEN r ELSE pv[i]) = IF j = 1 THEN M[Len(M)] ELSE M[j - 1]
      <4>1. CASE Len(L) = 1
        BY <1>0, <2>1, <4>1
      <4>2. CASE Len(L) # 1 /\ w = 1
        <5>1. Len(L) \in 1..Len(L) /\ Len(L) # w
          BY <1>0, <4>2
        <5> QED
          BY <1>0, <1>b, <2>1, <4>2, <5>1
      <4>3. CASE Len(L) # 1 /\ w # 1
        <5>1. w - 1 \in 1..Len(L) /\ w - 1 # w
          BY <1>0, <4>3
        <5> QED
          BY <1>0, <1>b, <2>1, <4>3, <5>1
      <4> QED
        BY <4>1, <4>2, <4>3
    <3> QED
      BY <3>1, <3>2, <3>3
  <2>2. CASE j # w
    <3>1. M[j] = L[j] /\ j \in 1..Len(L) /\ L[j] \in Node /\ L[j] # r /\ L[j] # i
      BY <1>0, <1>2, <2>2
    <3>a. w > 1 => (L[j] = L[w - 1] <=> j = w - 1)
      BY <1>2, <1>c, <3>1
    <3>b. j = w - 1 => w > 1
      BY <1>0, <3>1
    <3>2. nx1[L[j]] = IF j = w - 1 THEN r ELSE nx[L[j]]
      BY <1>4, <3>1, <3>a, <3>b
    <3>3. pv1[L[j]] = IF j = w + 1 \/ (w = Len(L) /\ j = 1) THEN r ELSE pv[L[j]]
      BY <1>0, <1>2, <1>4, <1>c, <2>2, <3>1
    <3>4. nx1[M[j]] = IF j = Len(M) THEN Null ELSE M[j + 1]
      <4>1. CASE j = w - 1
        BY <1>0, <3>1, <3>2, <4>1
      <4>2. CASE j # w - 1 /\ j # Len(L)
        <5>1. j + 1 \in 1..Len(L) /\ j + 1 # w
          BY <1>0, <3>1, <4>2
        <5> QED
          BY <1>0, <1>2, <3>1, <3>2, <4>2, <5>1
      <4>3. CASE j # w - 1 /\ j = Len(L)
        BY <1>0, <1>2, <3>1, <3>2, <4>3
      <4> QED
        BY <4>1, <4>2, <4>3
    <3>5. CASE j = w + 1
      BY <1>0, <3>1, <3>3, <3>4, <3>5
    <3>6. CASE j # w + 1 /\ j # 1
      <4>1. j - 1 \in 1..Len(L) /\ j - 1 # w
        BY <1>0, <3>1, <3>6
      <4> QED
        <5>1. pv1[M[j]] = pv[L[j]]
          BY <3>1, <3>3, <3>6
        <5>2. pv[L[j]] = L[j - 1] /\ M[j - 1] = L[j - 1]
          BY <1>0, <1>2, <3>1, <3>6, <4>1
        <5> QED
          BY <3>4, <3>6, <5>1, <5>2
    <3>7. CASE j # w + 1 /\ j = 1 /\ w = Len(L)
      BY <1>0, <3>1, <3>3, <3>4, <3>7
    <3>8. CASE j # w + 1 /\ j = 1 /\ w # Len(L)
      <4>1. Len(L) \in 1..Len(L) /\ Len(L) # w
        BY <1>0, <3>8
      <4> QED
        BY <1>0, <1>2, <3>1, <3>3, <3>4, <3>8, <4>1
    <3> QED
      BY <3>5, <3>6, <3>7, <3>8
  <2> QED
    BY <2>1, <2>2
<1>9. Linked(nx1, pv1, ch1, J)
  BY <1>6, <1>7, <1>8, SMTT(30) DEF Linked, M
<1> QED
  BY <1>1, <1>3, <1>4, <1>5, <1>9, <1>d DEF Lists

-----------------------------------------------------------------------------
(* Trees and forests.                                                      *)

\* With an item, S has its children.
Closed(K, S) == \A p \in S : ToSet(K[p]) \subseteq S
\* The items of the tree of n.
Tree(K, n) == {m \in Node : \A S \in SUBSET Node : n \in S /\ Closed(K, S) => m \in S}

\* L are the items of a forest with the children K and the roots H.
Grove(K, H, L) ==
    /\ K \in [Node -> Seq(Node)]
    /\ L \subseteq Node /\ H \subseteq L
    /\ \A p \in Node : ToSet(K[p]) \subseteq L \ H
    /\ \A p \in Node \ L : Len(K[p]) = 0
    /\ \A p, q \in Node : \A n \in ToSet(K[p]) : n \in ToSet(K[q]) => p = q
    /\ \A S \in SUBSET Node : H \subseteq S /\ Closed(K, S) => L \subseteq S

\* The items of a row, by their places.
LEMMA Rows ==
    ASSUME NEW s \in Seq(Node)
    PROVE  ToSet(s) \subseteq Node /\ Len(s) \in Nat /\ ToSet(s) = {s[j] : j \in 1..Len(s)}
<1>1. DOMAIN s = 1..Len(s) /\ Len(s) \in Nat
  OBVIOUS
<1>2. \A j \in 1..Len(s) : s[j] \in Node
  BY ElementOfSeq
<1> QED
  BY <1>1, <1>2 DEF ToSet

\* A tree has its root, and with an item its children.
LEMMA TreeClosed ==
    ASSUME NEW K \in [Node -> Seq(Node)], NEW n \in Node
    PROVE  n \in Tree(K, n) /\ Tree(K, n) \subseteq Node /\ Closed(K, Tree(K, n))
<1>1. n \in Tree(K, n) /\ Tree(K, n) \subseteq Node
  BY DEF Tree
<1>2. ASSUME NEW p \in Tree(K, n), NEW m \in ToSet(K[p]) PROVE m \in Tree(K, n)
  <2>1. p \in Node /\ m \in Node
    BY <1>1, Rows
  <2>2. ASSUME NEW S \in SUBSET Node, n \in S, Closed(K, S) PROVE m \in S
    <3>1. p \in S
      BY <2>2 DEF Tree
    <3> QED
      BY <2>2, <3>1 DEF Closed
  <2> QED
    BY <2>1, <2>2 DEF Tree
<1> QED
  BY <1>1, <1>2 DEF Closed

\* A tree is in every set with its root that has with an item its children.
LEMMA TreeLeast ==
    ASSUME NEW K, NEW n, NEW S \in SUBSET Node, n \in S, Closed(K, S)
    PROVE  Tree(K, n) \subseteq S
BY DEF Tree

\* Every item of a tree but its root has its parent there.
LEMMA TreeParent ==
    ASSUME NEW K \in [Node -> Seq(Node)], NEW n \in Node, NEW m \in Tree(K, n), m # n
    PROVE  \E p \in Tree(K, n) : m \in ToSet(K[p])
<1> DEFINE T == Tree(K, n)
           S == {n} \cup {k \in T : \E p \in T : k \in ToSet(K[p])}
<1>1. n \in T /\ T \subseteq Node /\ Closed(K, T)
  BY TreeClosed
<1> HIDE DEF T
<1>2. S \in SUBSET Node /\ n \in S /\ S \subseteq T
  BY <1>1
<1>3. Closed(K, S)
  <2> SUFFICES ASSUME NEW p \in S, NEW k \in ToSet(K[p]) PROVE k \in S
    BY DEF Closed
  <2>1. p \in T
    BY <1>2
  <2>2. k \in T
    BY <1>1, <2>1 DEF Closed
  <2> QED
    BY <2>1, <2>2
<1> HIDE DEF S
<1>4. m \in S
  BY <1>2, <1>3, TreeLeast
<1> QED
  BY <1>4 DEF S, T

\* The roots are the items that nobody has as a child.
LEMMA GroveTops ==
    ASSUME NEW K, NEW H, NEW L, Grove(K, H, L)
    PROVE  H = {n \in L : \A p \in Node : n \notin ToSet(K[p])}
<1> DEFINE S == H \cup {n \in Node : \E p \in Node : n \in ToSet(K[p])}
<1>1. S \in SUBSET Node /\ H \subseteq S
  BY DEF Grove
<1>2. Closed(K, S)
  <2> SUFFICES ASSUME NEW p \in S, NEW n \in ToSet(K[p]) PROVE n \in S
    BY DEF Closed
  <2>1. p \in Node
    BY <1>1
  <2>2. n \in Node
    BY <2>1 DEF Grove
  <2> QED
    BY <2>1, <2>2
<1>3. L \subseteq S
  BY <1>1, <1>2 DEF Grove
<1> QED
  BY <1>3 DEF Grove

\* A child of a tree that is not its root has its parent in the tree.
LEMMA TreeRows ==
    ASSUME NEW K, NEW H, NEW L, Grove(K, H, L), NEW i \in Node, NEW p \in Node,
           NEW n \in ToSet(K[p]), n \in Tree(K, i), n # i
    PROVE  p \in Tree(K, i)
<1>1. K \in [Node -> Seq(Node)]
  BY DEF Grove
<1>2. PICK q \in Tree(K, i) : n \in ToSet(K[q])
  BY <1>1, TreeParent
<1>3. q \in Node
  BY <1>1, TreeClosed
<1> QED
  BY <1>2, <1>3 DEF Grove

\* No item is below its own child: what is detached never has its parent in
\* it.
LEMMA NotBelowItself ==
    ASSUME NEW K, NEW H, NEW L, Grove(K, H, L), NEW p \in Node, NEW i \in ToSet(K[p])
    PROVE  p \notin Tree(K, i)
<1> SUFFICES ASSUME p \in Tree(K, i) PROVE FALSE
  OBVIOUS
<1> DEFINE T == Tree(K, i)
           S == L \ T
<1>0. K \in [Node -> Seq(Node)] /\ i \in Node /\ i \in L /\ S \in SUBSET Node
  BY DEF Grove
<1>1. i \in T /\ T \subseteq Node
  BY <1>0, TreeClosed
<1>2. H \subseteq S
  <2> SUFFICES ASSUME NEW r \in H, r \in T PROVE FALSE
    BY DEF Grove
  <2>1. r # i
    BY DEF Grove
  <2>2. PICK q \in T : r \in ToSet(K[q])
    BY <1>0, <2>1, TreeParent
  <2> QED
    BY <1>1, <2>2 DEF Grove
<1>3. Closed(K, S)
  <2> SUFFICES ASSUME NEW q \in S, NEW n \in ToSet(K[q]), n \in T PROVE FALSE
    BY DEF Closed, Grove
  <2>0. q \in Node
    BY <1>0
  <2>1. CASE n = i
    BY <2>0, <2>1 DEF Grove
  <2>2. CASE n # i
    BY <1>0, <2>0, <2>2, TreeRows
  <2> QED
    BY <2>1, <2>2
<1> QED
  BY <1>0, <1>1, <1>2, <1>3 DEF Grove

\* Every item is in the tree of just one root.
LEMMA OneRoot ==
    ASSUME NEW K, NEW H, NEW L, Grove(K, H, L)
    PROVE  /\ \A n \in L : \E i \in H : n \in Tree(K, i)
           /\ \A i, j \in H : i # j => Tree(K, i) \cap Tree(K, j) = {}
           /\ \A i \in L : Tree(K, i) \subseteq L
<1>0. K \in [Node -> Seq(Node)] /\ H \subseteq L /\ L \subseteq Node
  BY DEF Grove
<1>1. \A n \in L : \E i \in H : n \in Tree(K, i)
  <2> DEFINE S == {n \in Node : \E i \in H : n \in Tree(K, i)}
  <2>1. H \subseteq S
    BY <1>0, TreeClosed
  <2>2. Closed(K, S)
    <3> SUFFICES ASSUME NEW p \in S, NEW n \in ToSet(K[p]) PROVE n \in S
      BY DEF Closed
    <3>1. PICK i \in H : p \in Tree(K, i)
      OBVIOUS
    <3>2. n \in Tree(K, i) /\ n \in Node
      BY <1>0, <3>1, TreeClosed DEF Closed
    <3> QED
      BY <3>2
  <2>3. S \in SUBSET Node
    OBVIOUS
  <2> HIDE DEF S
  <2>4. L \subseteq S
    BY <2>1, <2>2, <2>3 DEF Grove
  <2> QED
    BY <2>4 DEF S
<1>2. ASSUME NEW i \in H, NEW j \in H, i # j PROVE Tree(K, i) \cap Tree(K, j) = {}
  <2> DEFINE S == Tree(K, i) \ Tree(K, j)
  <2>1. i \in Node /\ j \in Node /\ i \in Tree(K, i) /\ Tree(K, i) \subseteq Node
    BY <1>0, TreeClosed
  <2>2. i \notin Tree(K, j)
    <3> SUFFICES ASSUME i \in Tree(K, j) PROVE FALSE
      OBVIOUS
    <3>1. PICK q \in Tree(K, j) : i \in ToSet(K[q])
      BY <1>0, <1>2, <2>1, TreeParent
    <3>2. q \in Node
      BY <1>0, <2>1, TreeClosed
    <3> QED
      BY <3>1, <3>2 DEF Grove
  <2>3. Closed(K, S)
    <3> SUFFICES ASSUME NEW p \in S, NEW n \in ToSet(K[p]) PROVE n \in S
      BY DEF Closed
    <3>1. p \in Node /\ n \in Tree(K, i)
      BY <1>0, <2>1, TreeClosed DEF Closed
    <3>2. n # j
      BY <3>1 DEF Grove
    <3>3. n \notin Tree(K, j)
      BY <2>1, <3>1, <3>2, TreeRows
    <3> QED
      BY <3>1, <3>3
  <2>4. S \in SUBSET Node /\ i \in S
    BY <2>1, <2>2
  <2> HIDE DEF S
  <2>5. Tree(K, i) \subseteq S
    BY <2>3, <2>4, TreeLeast
  <2> QED
    BY <2>5 DEF S
<1>3. \A i \in L : Tree(K, i) \subseteq L
  <2> SUFFICES ASSUME NEW i \in L PROVE Tree(K, i) \subseteq L
    OBVIOUS
  <2>1. Closed(K, L)
    BY <1>0 DEF Grove, Closed
  <2> QED
    BY <1>0, <2>1, TreeLeast
<1> QED
  BY <1>1, <1>2, <1>3

\* J is K but for the children of p, and OneRow says so.
LEMMA GroveNew ==
    ASSUME NEW K, NEW H, NEW L, Grove(K, H, L), NEW n \in Node \ L, NEW J, OneRow(K, J, n),
           ToSet(J[n]) \subseteq Node \ L, n \notin ToSet(J[n])
    PROVE  Grove(J, H \cup {n}, L \cup {n} \cup ToSet(J[n]))
<1> DEFINE P == ToSet(J[n])
           M == L \cup {n} \cup P
<1>0. /\ K \in [Node -> Seq(Node)] /\ J \in [Node -> Seq(Node)] /\ L \subseteq Node /\ H \subseteq L
      /\ \A q \in Node \ {n} : J[q] = K[q]
      /\ \A p \in Node : ToSet(K[p]) \subseteq L \ H
      /\ \A p \in Node \ L : Len(K[p]) = 0
      /\ \A p, q \in Node : \A m \in ToSet(K[p]) : m \in ToSet(K[q]) => p = q
      /\ \A S \in SUBSET Node : H \subseteq S /\ Closed(K, S) => L \subseteq S
  BY DEF Grove, OneRow
<1>a. P \subseteq Node \ L /\ n \notin P /\ n \in Node \ L
  OBVIOUS
<1>1. ToSet(K[n]) = {}
  <2>1. K[n] \in Seq(Node) /\ Len(K[n]) = 0
    BY <1>0
  <2>2. ToSet(K[n]) = {K[n][j] : j \in 1..Len(K[n])}
    BY <2>1, Rows
  <2> QED
    BY <2>1, <2>2
<1>2. ASSUME NEW p \in Node PROVE ToSet(J[p]) \subseteq M \ (H \cup {n})
  BY <1>0, <1>a
<1>3. ASSUME NEW p \in Node \ M PROVE Len(J[p]) = 0
  BY <1>0
<1>4. ASSUME NEW p \in Node, NEW q \in Node, NEW m \in ToSet(J[p]), m \in ToSet(J[q]) PROVE p = q
  <2>1. CASE p = n /\ q # n
    BY <1>0, <1>4, <1>a, <2>1
  <2>2. CASE p # n /\ q = n
    BY <1>0, <1>4, <1>a, <2>2
  <2>3. CASE p # n /\ q # n
    BY <1>0, <1>4, <2>3
  <2> QED
    BY <2>1, <2>2, <2>3
<1>5. ASSUME NEW S \in SUBSET Node, H \cup {n} \subseteq S, Closed(J, S) PROVE M \subseteq S
  <2>1. Closed(K, S)
    BY <1>0, <1>1, <1>5 DEF Closed
  <2>2. P \subseteq S
    BY <1>5 DEF Closed
  <2> QED
    BY <1>0, <1>5, <2>1, <2>2
<1> QED
  BY <1>0, <1>a, <1>2, <1>3, <1>4, <1>5 DEF Grove

\* Linking the root i below p, which is not below i, leaves a forest without
\* the root i.
LEMMA GroveLink ==
    ASSUME NEW K, NEW H, NEW L, Grove(K, H, L), NEW p \in L, NEW i \in H, p \notin Tree(K, i),
           NEW J, OneRow(K, J, p), ToSet(J[p]) = ToSet(K[p]) \cup {i}
    PROVE  Grove(J, H \ {i}, L)
<1>0. /\ K \in [Node -> Seq(Node)] /\ J \in [Node -> Seq(Node)] /\ L \subseteq Node /\ H \subseteq L
      /\ \A q \in Node \ {p} : J[q] = K[q]
      /\ \A q \in Node : ToSet(K[q]) \subseteq L \ H
      /\ \A q \in Node \ L : Len(K[q]) = 0
      /\ \A q, r \in Node : \A m \in ToSet(K[q]) : m \in ToSet(K[r]) => q = r
      /\ \A S \in SUBSET Node : H \subseteq S /\ Closed(K, S) => L \subseteq S
  BY DEF Grove, OneRow
<1>1. ASSUME NEW q \in Node PROVE ToSet(J[q]) \subseteq L \ (H \ {i})
  <2>1. CASE q = p
    <3>1. ToSet(J[q]) = ToSet(K[q]) \cup {i} /\ ToSet(K[q]) \subseteq L \ H /\ i \in L
      BY <1>0, <2>1
    <3> QED
      BY <3>1
  <2>2. CASE q # p
    <3>1. ToSet(J[q]) = ToSet(K[q]) /\ ToSet(K[q]) \subseteq L \ H
      BY <1>0, <2>2
    <3> QED
      BY <3>1
  <2> QED
    BY <2>1, <2>2
<1>2. ASSUME NEW q \in Node \ L PROVE Len(J[q]) = 0
  BY <1>0
<1>3. ASSUME NEW q \in Node, NEW r \in Node, NEW m \in ToSet(J[q]), m \in ToSet(J[r]) PROVE q = r
  <2>1. CASE m = i
    <3>1. \A s \in Node \ {p} : i \notin ToSet(J[s])
      BY <1>0
    <3> QED
      BY <1>3, <2>1, <3>1
  <2>2. CASE m # i
    <3>1. m \in ToSet(K[q]) /\ m \in ToSet(K[r])
      BY <1>0, <1>3, <2>2
    <3> QED
      BY <1>0, <3>1
  <2> QED
    BY <2>1, <2>2
<1>4. ASSUME NEW S \in SUBSET Node, H \ {i} \subseteq S, Closed(J, S) PROVE L \subseteq S
  <2> DEFINE T == Tree(K, i)
             U == S \cup T
  <2>0. i \in T /\ T \subseteq Node /\ Closed(K, T) /\ p \notin T /\ i \in Node
    BY <1>0, TreeClosed
  <2> HIDE DEF T
  <2>1. Closed(K, S)
    BY <1>0, <1>4 DEF Closed
  <2>2. Closed(K, U)
    BY <2>0, <2>1 DEF Closed
  <2>3. U \in SUBSET Node /\ H \subseteq U
    BY <1>4, <2>0
  <2>4. L \subseteq U
    BY <1>0, <2>2, <2>3
  <2>5. p \in S
    BY <2>0, <2>4
  <2>6. i \in S
    BY <1>4, <2>5 DEF Closed
  <2> QED
    BY <1>0, <1>4, <2>1, <2>6
<1> QED
  BY <1>0, <1>1, <1>2, <1>3, <1>4 DEF Grove

\* Taking i out of the row of p leaves a forest with i as a root.
LEMMA GroveUnlink ==
    ASSUME NEW K, NEW H, NEW L, Grove(K, H, L), NEW p \in Node, NEW i,
           NEW J, OneRow(K, J, p), ToSet(K[p]) = ToSet(J[p]) \cup {i}, i \notin ToSet(J[p])
    PROVE  Grove(J, H \cup {i}, L) /\ p \in L
<1>0. /\ K \in [Node -> Seq(Node)] /\ J \in [Node -> Seq(Node)] /\ L \subseteq Node /\ H \subseteq L
      /\ \A q \in Node \ {p} : J[q] = K[q]
      /\ \A q \in Node : ToSet(K[q]) \subseteq L \ H
      /\ \A q \in Node \ L : Len(K[q]) = 0
      /\ \A q, r \in Node : \A m \in ToSet(K[q]) : m \in ToSet(K[r]) => q = r
      /\ \A S \in SUBSET Node : H \subseteq S /\ Closed(K, S) => L \subseteq S
  BY DEF Grove, OneRow
<1>a. i \in L /\ i \notin H /\ i \in ToSet(K[p])
  BY <1>0
<1>b. p \in L
  <2> SUFFICES ASSUME p \notin L PROVE FALSE
    OBVIOUS
  <2>1. K[p] \in Seq(Node) /\ Len(K[p]) = 0
    BY <1>0
  <2>2. ToSet(K[p]) = {K[p][j] : j \in 1..Len(K[p])}
    BY <2>1, Rows
  <2> QED
    BY <2>1, <2>2
<1>1. ASSUME NEW q \in Node PROVE ToSet(J[q]) \subseteq L \ (H \cup {i})
  BY <1>0, <1>a
<1>2. ASSUME NEW q \in Node \ L PROVE Len(J[q]) = 0
  BY <1>0, <1>b
<1>3. ASSUME NEW q \in Node, NEW r \in Node, NEW m \in ToSet(J[q]), m \in ToSet(J[r]) PROVE q = r
  <2>1. m \in ToSet(K[q]) /\ m \in ToSet(K[r])
    BY <1>0, <1>3
  <2> QED
    BY <1>0, <2>1
<1>4. ASSUME NEW S \in SUBSET Node, H \cup {i} \subseteq S, Closed(J, S) PROVE L \subseteq S
  <2>1. Closed(K, S)
    BY <1>0, <1>4 DEF Closed
  <2> QED
    BY <1>0, <1>4, <2>1
<1> QED
  BY <1>0, <1>a, <1>b, <1>1, <1>2, <1>3, <1>4 DEF Grove

\* The rows outside the tree of a root hold nothing of it.
LEMMA RowsApart ==
    ASSUME NEW K, NEW H, NEW L, Grove(K, H, L), NEW i \in H, NEW p \in Node \ Tree(K, i)
    PROVE  ToSet(K[p]) \cap Tree(K, i) = {}
<1> SUFFICES ASSUME NEW n \in ToSet(K[p]), n \in Tree(K, i) PROVE FALSE
  OBVIOUS
<1>1. n # i /\ i \in Node
  BY DEF Grove
<1> QED
  BY <1>1, TreeRows

\* Freeing the tree of a root leaves a forest.
LEMMA GroveFree ==
    ASSUME NEW K, NEW H, NEW L, Grove(K, H, L), NEW i \in H, NEW J \in [Node -> Seq(Node)],
           \A p \in Node : J[p] = IF p \in Tree(K, i) THEN <<>> ELSE K[p]
    PROVE  Grove(J, H \ {i}, L \ Tree(K, i))
<1> DEFINE T == Tree(K, i)
<1>0. /\ K \in [Node -> Seq(Node)] /\ L \subseteq Node /\ H \subseteq L
      /\ \A q \in Node : ToSet(K[q]) \subseteq L \ H
      /\ \A q \in Node \ L : Len(K[q]) = 0
      /\ \A q, r \in Node : \A m \in ToSet(K[q]) : m \in ToSet(K[r]) => q = r
      /\ \A S \in SUBSET Node : H \subseteq S /\ Closed(K, S) => L \subseteq S
  BY DEF Grove
<1>1. i \in T /\ T \subseteq L /\ i \in Node /\ T \subseteq Node
  BY <1>0, OneRoot, TreeClosed
<1>2. \A j \in H \ {i} : j \notin T
  <2> SUFFICES ASSUME NEW j \in H \ {i} PROVE j \notin T
    OBVIOUS
  <2>1. Tree(K, j) \cap T = {}
    BY OneRoot
  <2>2. j \in Tree(K, j)
    BY <1>0, TreeClosed
  <2> QED
    BY <2>1, <2>2
<1>3. \A p \in Node \ T : ToSet(K[p]) \cap T = {} /\ J[p] = K[p]
  BY RowsApart
<1>4. \A p \in T : Len(J[p]) = 0 /\ ToSet(J[p]) = {}
  <2> SUFFICES ASSUME NEW p \in T PROVE Len(J[p]) = 0 /\ ToSet(J[p]) = {}
    OBVIOUS
  <2>1. J[p] = <<>>
    BY <1>1
  <2>2. ToSet(<<>>) = {}
    BY DEF ToSet
  <2> QED
    BY <2>1, <2>2
<1> HIDE DEF T
<1>5. ASSUME NEW q \in Node PROVE ToSet(J[q]) \subseteq (L \ T) \ (H \ {i})
  <2>1. CASE q \in T
    BY <1>4, <2>1
  <2>2. CASE q \notin T
    BY <1>0, <1>1, <1>3, <2>2
  <2> QED
    BY <2>1, <2>2
<1>6. ASSUME NEW q \in Node \ (L \ T) PROVE Len(J[q]) = 0
  BY <1>0, <1>3, <1>4
<1>7. ASSUME NEW q \in Node, NEW r \in Node, NEW m \in ToSet(J[q]), m \in ToSet(J[r]) PROVE q = r
  <2>1. m \in ToSet(K[q]) /\ m \in ToSet(K[r])
    BY <1>3, <1>4, <1>7
  <2> QED
    BY <1>0, <2>1
<1>8. ASSUME NEW S \in SUBSET Node, H \ {i} \subseteq S, Closed(J, S) PROVE L \ T \subseteq S
  <2> DEFINE U == S \cup T
  <2>0. Closed(K, T)
    BY <1>0, <1>1, TreeClosed DEF T
  <2>1. Closed(K, U)
    BY <1>1, <1>3, <1>8, <2>0 DEF Closed
  <2>2. U \in SUBSET Node /\ H \subseteq U
    BY <1>1, <1>8
  <2> QED
    BY <1>0, <2>1, <2>2
<1>9. H \ {i} \subseteq L \ T /\ L \ T \subseteq Node
  BY <1>0, <1>2
<1>10. Grove(J, H \ {i}, L \ T)
  BY <1>5, <1>6, <1>7, <1>8, <1>9 DEF Grove
<1> QED
  BY <1>10 DEF T

\* A set closed for more children is closed for fewer.
LEMMA TreeShrinks ==
    ASSUME NEW K \in [Node -> Seq(Node)], NEW J, NEW r \in Node,
           \A p \in Node : ToSet(J[p]) \subseteq ToSet(K[p])
    PROVE  Tree(J, r) \subseteq Tree(K, r)
<1>1. r \in Tree(K, r) /\ Tree(K, r) \in SUBSET Node /\ Closed(K, Tree(K, r))
  BY TreeClosed
<1>2. Closed(J, Tree(K, r))
  BY <1>1 DEF Closed
<1> QED
  BY <1>1, <1>2, TreeLeast

-----------------------------------------------------------------------------
(* Walking a row by next.                                                  *)

\* Every set of naturals with a member has a least one.
LEMMA LeastExists ==
    ASSUME NEW S, S \subseteq Nat, S # {}
    PROVE  \E i \in S : \A j \in S : i <= j
<1>1. PICK i \in S : \A j \in S : ~(<<j, i>> \in OpToRel(<, Nat))
  BY NatLessThanWellFounded, WFMin, Zenon
<1>2. \A j \in S : ~(j < i)
  BY <1>1 DEF OpToRel
<1> QED
  BY <1>2

\* A set that has the first index, and with each the next, has them all.
LEMMA AllIndexes ==
    ASSUME NEW m \in Int, NEW n \in Int, NEW S, m <= n => m \in S, \A j \in m..n - 1 : j \in S => j + 1 \in S, m >= 0
    PROVE  m..n \subseteq S
<1> SUFFICES ASSUME m..n \ S # {} PROVE FALSE
  OBVIOUS
<1> DEFINE T == m..n \ S
<1>1. T \subseteq Nat /\ T # {}
  OBVIOUS
<1>2. PICK k \in T : \A j \in T : k <= j
  BY <1>1, LeastExists
<1>3. k # m /\ k \in m..n
  BY <1>2
<1>4. k - 1 \in m..n - 1 /\ k - 1 \notin T /\ k - 1 \in m..n
  BY <1>2, <1>3
<1>5. k - 1 \in S /\ (k - 1) + 1 = k
  BY <1>4, <1>3
<1> QED
  BY <1>2, <1>4, <1>5

\* The items found after k links of next from i on.
Onward(h, i, from, k) == IF k = 0 THEN <<i>>
            ELSE LET s == from[k - 1]
                 IN  IF Last(s) = Null THEN s ELSE Append(s, h.item[Last(s)].next)

\* What Walk returns, by the function it counts with.
LEMMA WalkIs ==
    ASSUME NEW h, NEW i, NEW g, g = [k \in 0..Cardinality(Node) |-> Onward(h, i, g, k)]
    PROVE  \E f : f = [k \in 0..Cardinality(Node) |-> Onward(h, i, f, k)] /\ Walk(h, i) = Front(f[Cardinality(Node)])
<1> DEFINE f == CHOOSE f : f = [k \in 0..Cardinality(Node) |-> Onward(h, i, f, k)]
<1>1. f = [k \in 0..Cardinality(Node) |-> Onward(h, i, f, k)]
  OBVIOUS
<1>2. Walk(h, i) = Front(f[Cardinality(Node)])
  BY Zenon DEF Walk, Onward
<1> QED
  BY <1>1, <1>2

\* The walk from the first item of a list, each leading to the next one and
\* the last one nowhere, gives the list.
LEMMA WalkRow ==
    ASSUME NEW h, NEW L \in Seq(Node), Len(L) <= Cardinality(Node),
           NEW i, i = IF Len(L) = 0 THEN Null ELSE L[1],
           \A j \in 1..Len(L) : h.item[L[j]].next = IF j = Len(L) THEN Null ELSE L[j + 1]
    PROVE  Walk(h, i) = L
<1> DEFINE X == L \o <<Null>>
           N == Cardinality(Node)
           g == [k \in 0..N |-> IF k <= Len(L) THEN SubSeq(X, 1, k + 1) ELSE X]
<1>0. N \in Nat /\ Len(L) \in Nat /\ Len(L) <= N
  BY NodeAssumption, FS_CardinalityType
<1> HIDE DEF N
<1>1. /\ X \in Seq(Node \cup {Null}) /\ Len(X) = Len(L) + 1
      /\ \A j \in 1..Len(L) : X[j] = L[j] /\ X[j] # Null
      /\ X[Len(L) + 1] = Null
  <2>1. L \in Seq(Node \cup {Null}) /\ <<Null>> \in Seq(Node \cup {Null}) /\ Len(<<Null>>) = 1
    OBVIOUS
  <2>2. /\ X \in Seq(Node \cup {Null}) /\ Len(X) = Len(L) + 1
        /\ \A j \in 1..Len(L) + 1 : X[j] = IF j <= Len(L) THEN L[j] ELSE <<Null>>[j - Len(L)]
    BY <2>1, ConcatProperties
  <2>3. \A j \in 1..Len(L) : L[j] # Null
    BY ElementOfSeq, NodeAssumption
  <2> HIDE DEF X
  <2>4. \A j \in 1..Len(L) : X[j] = L[j] /\ X[j] # Null
    BY <2>2, <2>3, <1>0
  <2>5. X[Len(L) + 1] = <<Null>>[(Len(L) + 1) - Len(L)]
    BY <2>2, <1>0
  <2>6. (Len(L) + 1) - Len(L) = 1
    BY <1>0
  <2> QED
    BY <2>2, <2>4, <2>5, <2>6
<1> HIDE DEF X
<1>2. \A k \in 1..Len(L) + 1 : SubSeq(X, 1, k) \in Seq(Node \cup {Null}) /\ Len(SubSeq(X, 1, k)) = k
                               /\ Last(SubSeq(X, 1, k)) = X[k]
  <2> SUFFICES ASSUME NEW k \in 1..Len(L) + 1
               PROVE  SubSeq(X, 1, k) \in Seq(Node \cup {Null}) /\ Len(SubSeq(X, 1, k)) = k
                      /\ SubSeq(X, 1, k)[k] = X[k]
    BY DEF Last
  <2>1. \A j \in 1..k : X[j] \in Node \cup {Null}
    BY <1>0, <1>1, ElementOfSeq
  <2> QED
    BY <1>0, <2>1, SubSeqProperties
<1>3. SubSeq(X, 1, Len(L) + 1) = X /\ Last(X) = Null
  BY <1>1, SubSeqFull DEF Last
<1>4. \A k \in 0..N : g[k] = Onward(h, i, g, k)
  <2> SUFFICES ASSUME NEW k \in 0..N PROVE g[k] = Onward(h, i, g, k)
    OBVIOUS
  <2>1. CASE k = 0
    <3>1. g[k] = SubSeq(X, 1, 1) /\ SubSeq(X, 1, 1) = <<X[1]>>
      <4>0. 1 \in 1..Len(X) /\ 1 \in 1..1 /\ 1 - 1 = 0
        BY <1>0, <1>1
      <4>1. SubSeq(X, 1, 1) = SubSeq(X, 1, 1 - 1) \o <<X[1]>>
        BY <1>1, <4>0, SubSeqRecursiveSecond
      <4>2. SubSeq(X, 1, 0) = <<>>
        BY SubSeqEmpty
      <4>3. <<>> \o <<X[1]>> = <<X[1]>>
        OBVIOUS
      <4>5. g[k] = SubSeq(X, 1, 1)
        BY <1>0, <2>1
      <4> HIDE DEF g
      <4> QED
        BY <4>0, <4>1, <4>2, <4>3, <4>5
    <3>2. X[1] = i
      BY <1>0, <1>1
    <3> HIDE DEF g
    <3> QED
      BY <2>1, <3>1, <3>2 DEF Onward
  <2>2. CASE k # 0 /\ k <= Len(L)
    <3>1. g[k - 1] = SubSeq(X, 1, k) /\ g[k] = SubSeq(X, 1, k + 1) /\ k \in 1..Len(L)
      BY <1>0, <2>2
    <3>2. Last(SubSeq(X, 1, k)) = L[k] /\ L[k] # Null
      BY <1>0, <1>1, <1>2, <3>1
    <3>3. h.item[L[k]].next = X[k + 1]
      <4>1. CASE k = Len(L)
        BY <1>0, <1>1, <3>1, <4>1
      <4>2. CASE k # Len(L)
        <5>1. k + 1 \in 1..Len(L)
          BY <1>0, <3>1, <4>2
        <5>2. X[k + 1] = L[k + 1]
          BY <1>1, <5>1
        <5> QED
          BY <3>1, <4>2, <5>2
      <4> QED
        BY <4>1, <4>2
    <3>4. SubSeq(X, 1, k + 1) = Append(SubSeq(X, 1, k), X[k + 1])
      <4>1. SubSeq(X, 1, k + 1) = SubSeq(X, 1, (k + 1) - 1) \o <<X[k + 1]>>
        BY <1>0, <1>1, <3>1, SubSeqRecursiveSecond
      <4>2. SubSeq(X, 1, k) \in Seq(Node \cup {Null}) /\ (k + 1) - 1 = k /\ X[k + 1] \in Node \cup {Null}
        BY <1>0, <1>1, <1>2, <3>1, ElementOfSeq
      <4> QED
        BY <4>1, <4>2, AppendIsConcat
    <3> HIDE DEF g
    <3> QED
      BY <2>2, <3>1, <3>2, <3>3, <3>4 DEF Onward
  <2>3. CASE k > Len(L)
    <3>1. g[k - 1] = X /\ g[k] = X /\ k # 0
      <4>1. CASE k - 1 <= Len(L)
        <5>1. (k - 1) + 1 = Len(L) + 1 /\ k - 1 \in 0..N /\ k # 0
          BY <1>0, <2>3, <4>1
        <5>2. g[k - 1] = SubSeq(X, 1, Len(L) + 1) /\ g[k] = X
          BY <2>3, <4>1, <5>1
        <5> QED
          BY <1>3, <5>1, <5>2
      <4>2. CASE ~(k - 1 <= Len(L))
        BY <1>0, <2>3, <4>2
      <4> QED
        BY <4>1, <4>2
    <3> HIDE DEF g
    <3> QED
      BY <3>1, <1>3 DEF Onward
  <2> QED
    BY <2>1, <2>2, <2>3, <1>0
<1>5. g = [k \in 0..N |-> Onward(h, i, g, k)]
  BY <1>4
<1>6. g[N] = X
  BY <1>0, <1>3
<1> HIDE DEF g
<1>7. PICK f : f = [k \in 0..N |-> Onward(h, i, f, k)] /\ Walk(h, i) = Front(f[N])
  BY <1>5, WalkIs DEF N
<1>8. \A k \in 0..N : f[k] = g[k]
  <2> DEFINE S == {k \in 0..N : f[k] = g[k]}
  <2>1. 0 \in S
    <3>1. f[0] = Onward(h, i, f, 0) /\ g[0] = Onward(h, i, g, 0) /\ 0 \in 0..N
      BY <1>0, <1>4, <1>7
    <3>2. Onward(h, i, f, 0) = <<i>> /\ Onward(h, i, g, 0) = <<i>>
      BY DEF Onward
    <3> QED
      BY <3>1, <3>2
  <2>2. ASSUME NEW k \in 0..N - 1, k \in S PROVE k + 1 \in S
    <3>0. k + 1 \in 0..N
      BY <1>0
    <3>1. f[k + 1] = Onward(h, i, f, k + 1) /\ g[k + 1] = Onward(h, i, g, k + 1)
      BY <1>4, <1>7, <3>0
    <3>2. (k + 1) - 1 = k /\ f[k] = g[k] /\ k + 1 # 0
      BY <2>2
    <3>3. Onward(h, i, f, k + 1) = Onward(h, i, g, k + 1)
      BY <3>2 DEF Onward
    <3> QED
      BY <3>0, <3>1, <3>3
  <2> HIDE DEF S
  <2>3. 0..N \subseteq S
    BY <1>0, <2>1, <2>2, AllIndexes
  <2> QED
    BY <2>3 DEF S
<1>9. Walk(h, i) = Front(X)
  BY <1>0, <1>6, <1>7, <1>8
<1>10. Front(X) = SubSeq(X, 1, Len(L))
  BY <1>0, <1>1 DEF Front
<1>11. SubSeq(X, 1, Len(L)) = L
  <2>1. \A j \in 1..Len(L) : X[j] \in Node
    BY <1>1, ElementOfSeq
  <2>2. /\ SubSeq(X, 1, Len(L)) \in Seq(Node)
        /\ Len(SubSeq(X, 1, Len(L))) = IF 1 <= Len(L) THEN Len(L) - 1 + 1 ELSE 0
        /\ \A j \in 1..Len(L) - 1 + 1 : SubSeq(X, 1, Len(L))[j] = X[1 + j - 1]
    BY <1>0, <2>1, SubSeqProperties
  <2> DEFINE Y == SubSeq(X, 1, Len(L))
  <2>3. Y \in Seq(Node) /\ Len(Y) = Len(L)
    BY <1>0, <2>2
  <2>4. \A j \in 1..Len(L) : Y[j] = L[j]
    BY <1>0, <1>1, <2>2
  <2> HIDE DEF Y
  <2>5. Y = L
    BY <2>3, <2>4, SeqEqual
  <2> QED
    BY <2>5 DEF Y
<1> QED
  BY <1>9, <1>10, <1>11

\* A list without an item twice is not longer than there are items.
LEMMA ShortRows ==
    ASSUME NEW L \in Seq(Node), \A j, k \in 1..Len(L) : L[j] = L[k] => j = k
    PROVE  Len(L) <= Cardinality(Node)
<1>1. Len(L) \in Nat /\ L \in [1..Len(L) -> Node]
  BY LenProperties
<1>2. L \in Injection(1..Len(L), Node)
  BY <1>1 DEF Injection, IsInjective
<1>3. Cardinality(1..Len(L)) <= Cardinality(Node)
  BY <1>2, NodeAssumption, FS_Injection
<1>4. Cardinality(1..Len(L)) = IF 1 > Len(L) THEN 0 ELSE Len(L) - 1 + 1
  BY <1>1, FS_Interval, SMTT(30)
<1>5. Cardinality(Node) \in Nat
  BY NodeAssumption, FS_CardinalityType
<1> QED
  BY <1>1, <1>3, <1>4, <1>5

-----------------------------------------------------------------------------
(* The memory, by its links and texts.                                     *)

\* What the memory of an item can hold.
KindOf == {"free", "string", "list"}
\* The memory of one item.
Item == [kind : KindOf, key : Key \cup {None}, const : BOOLEAN, next : Ptr, prev : Ptr, child : Ptr]
\* The memory of all items.
Heap == [item : [Node -> Item], strings : Int]

\* The links and texts of the items, each as a function.
Nx(h) == [n \in Node |-> h.item[n].next]
\* The prev of each item.
Pv(h) == [n \in Node |-> h.item[n].prev]
\* The child of each item.
Ch(h) == [n \in Node |-> h.item[n].child]
\* The kind of each item.
Kd(h) == [n \in Node |-> h.item[n].kind]
\* The key of each item.
Ky(h) == [n \in Node |-> h.item[n].key]
\* Whether the key of each item is a constant.
Ct(h) == [n \in Node |-> h.item[n].const]

\* Setting a next changes nothing else.
LEMMA PutNext ==
    ASSUME NEW h \in Heap, NEW n \in Node, NEW to \in Ptr
    PROVE  LET g == Put(h, n, "next", to) IN
           /\ g \in Heap
           /\ Nx(g) = [Nx(h) EXCEPT ![n] = to] /\ Pv(g) = Pv(h) /\ Ch(g) = Ch(h)
           /\ Kd(g) = Kd(h) /\ Ky(g) = Ky(h) /\ Ct(g) = Ct(h) /\ g.strings = h.strings
<1> DEFINE g == Put(h, n, "next", to)
<1> USE DEF Heap, Item
<1>0. h.item \in [Node -> Item] /\ h.item[n] \in Item /\ h = [item |-> h.item, strings |-> h.strings]
  OBVIOUS
<1>1. g = [item |-> [h.item EXCEPT ![n] = [h.item[n] EXCEPT !.next = to]], strings |-> h.strings]
  BY <1>0, SMTT(30) DEF Put
<1>a. [h.item[n] EXCEPT !.next = to] = [kind |-> h.item[n].kind, key |-> h.item[n].key, const |-> h.item[n].const,
         next |-> to, prev |-> h.item[n].prev, child |-> h.item[n].child]
  BY <1>0
<1>b. [h.item[n] EXCEPT !.next = to] \in Item
  BY <1>0, <1>a
<1>2. g \in Heap
  BY <1>0, <1>1, <1>b
<1>3. \A m \in Node : g.item[m] = IF m = n THEN [h.item[m] EXCEPT !.next = to] ELSE h.item[m]
  BY <1>1, <1>0
<1>4. g.strings = h.strings
  BY <1>1
<1>5. \A m \in Node : g.item[m].next = (IF m = n THEN to ELSE h.item[m].next)
    /\ g.item[m].prev = h.item[m].prev
    /\ g.item[m].child = h.item[m].child
    /\ g.item[m].kind = h.item[m].kind /\ g.item[m].key = h.item[m].key /\ g.item[m].const = h.item[m].const
  BY <1>3, <1>a
<1> QED
  BY <1>2, <1>4, <1>5 DEF Nx, Pv, Ch, Kd, Ky, Ct

\* Setting a prev changes nothing else.
LEMMA PutPrev ==
    ASSUME NEW h \in Heap, NEW n \in Node, NEW to \in Ptr
    PROVE  LET g == Put(h, n, "prev", to) IN
           /\ g \in Heap
           /\ Nx(g) = Nx(h) /\ Pv(g) = [Pv(h) EXCEPT ![n] = to] /\ Ch(g) = Ch(h)
           /\ Kd(g) = Kd(h) /\ Ky(g) = Ky(h) /\ Ct(g) = Ct(h) /\ g.strings = h.strings
<1> DEFINE g == Put(h, n, "prev", to)
<1> USE DEF Heap, Item
<1>0. h.item \in [Node -> Item] /\ h.item[n] \in Item /\ h = [item |-> h.item, strings |-> h.strings]
  OBVIOUS
<1>1. g = [item |-> [h.item EXCEPT ![n] = [h.item[n] EXCEPT !.prev = to]], strings |-> h.strings]
  BY <1>0 DEF Put
<1>a. [h.item[n] EXCEPT !.prev = to] = [kind |-> h.item[n].kind, key |-> h.item[n].key, const |-> h.item[n].const,
         next |-> h.item[n].next, prev |-> to, child |-> h.item[n].child]
  BY <1>0
<1>b. [h.item[n] EXCEPT !.prev = to] \in Item
  BY <1>0, <1>a
<1>2. g \in Heap
  BY <1>0, <1>1, <1>b
<1>3. \A m \in Node : g.item[m] = IF m = n THEN [h.item[m] EXCEPT !.prev = to] ELSE h.item[m]
  BY <1>1, <1>0
<1>4. g.strings = h.strings
  BY <1>1
<1>5. \A m \in Node : g.item[m].next = h.item[m].next
    /\ g.item[m].prev = (IF m = n THEN to ELSE h.item[m].prev)
    /\ g.item[m].child = h.item[m].child
    /\ g.item[m].kind = h.item[m].kind /\ g.item[m].key = h.item[m].key /\ g.item[m].const = h.item[m].const
  BY <1>3, <1>a
<1> QED
  BY <1>2, <1>4, <1>5 DEF Nx, Pv, Ch, Kd, Ky, Ct

\* Setting a child changes nothing else.
LEMMA PutChild ==
    ASSUME NEW h \in Heap, NEW n \in Node, NEW to \in Ptr
    PROVE  LET g == Put(h, n, "child", to) IN
           /\ g \in Heap
           /\ Nx(g) = Nx(h) /\ Pv(g) = Pv(h) /\ Ch(g) = [Ch(h) EXCEPT ![n] = to]
           /\ Kd(g) = Kd(h) /\ Ky(g) = Ky(h) /\ Ct(g) = Ct(h) /\ g.strings = h.strings
<1> DEFINE g == Put(h, n, "child", to)
<1> USE DEF Heap, Item
<1>0. h.item \in [Node -> Item] /\ h.item[n] \in Item /\ h = [item |-> h.item, strings |-> h.strings]
  OBVIOUS
<1>1. g = [item |-> [h.item EXCEPT ![n] = [h.item[n] EXCEPT !.child = to]], strings |-> h.strings]
  BY <1>0 DEF Put
<1>a. [h.item[n] EXCEPT !.child = to] = [kind |-> h.item[n].kind, key |-> h.item[n].key, const |-> h.item[n].const,
         next |-> h.item[n].next, prev |-> h.item[n].prev, child |-> to]
  BY <1>0
<1>b. [h.item[n] EXCEPT !.child = to] \in Item
  BY <1>0, <1>a
<1>2. g \in Heap
  BY <1>0, <1>1, <1>b
<1>3. \A m \in Node : g.item[m] = IF m = n THEN [h.item[m] EXCEPT !.child = to] ELSE h.item[m]
  BY <1>1, <1>0
<1>4. g.strings = h.strings
  BY <1>1
<1>5. \A m \in Node : g.item[m].next = h.item[m].next
    /\ g.item[m].prev = h.item[m].prev
    /\ g.item[m].child = (IF m = n THEN to ELSE h.item[m].child)
    /\ g.item[m].kind = h.item[m].kind /\ g.item[m].key = h.item[m].key /\ g.item[m].const = h.item[m].const
  BY <1>3, <1>a
<1> QED
  BY <1>2, <1>4, <1>5 DEF Nx, Pv, Ch, Kd, Ky, Ct

-----------------------------------------------------------------------------
(* What cJSON_Delete and cJSON_Duplicate leave of rows and forests.        *)

\* Every child is at a place.
LEMMA Places ==
    ASSUME NEW K \in [Node -> Seq(Node)], NEW q \in Node
    PROVE  \A j \in 1..Len(K[q]) : K[q][j] \in ToSet(K[q])
BY Rows

\* Every item of a row is at a place.
LEMMA PlaceOf ==
    ASSUME NEW K \in [Node -> Seq(Node)], NEW q \in Node, NEW n \in ToSet(K[q])
    PROVE  \E j \in 1..Len(K[q]) : n = K[q][j]
BY Rows

\* What cJSON_Delete frees is the tree of the item, once nothing follows it.
LEMMA DoomedTree ==
    ASSUME NEW nx, NEW pv, NEW ch, NEW K, Lists(nx, pv, ch, K),
           NEW H, NEW L, Grove(K, H, L), NEW i \in Node,
           NEW h, \A n \in Node : h.item[n].next = (IF n = i THEN Null ELSE nx[n]) /\ h.item[n].child = ch[n]
    PROVE  Doomed(h, i) = Tree(K, i)
<1> DEFINE T == Tree(K, i)
<1>0. K \in [Node -> Seq(Node)] /\ Null \notin Node
  BY NodeAssumption DEF Grove
<1>1. i \in T /\ T \in SUBSET Node /\ Closed(K, T)
  BY <1>0, TreeClosed
<1>2. \A n \in T \ {i} : \E q \in T : n \in ToSet(K[q])
  BY <1>0, TreeParent
<1>3. ASSUME NEW p \in T PROVE i \notin ToSet(K[p])
  BY <1>1, <1>3, NotBelowItself
<1> HIDE DEF T
<1>4. ASSUME NEW n \in T PROVE {h.item[n].next, h.item[n].child} \ {Null} \subseteq T
  <2>1. n \in Node
    BY <1>1
  <2>2. h.item[n].child = Null \/ h.item[n].child \in T
    <3>1. CASE Len(K[n]) = 0
      BY <2>1, <3>1, ListFacts
    <3>2. CASE Len(K[n]) # 0
      <4>1. h.item[n].child = K[n][1] /\ 1 \in 1..Len(K[n])
        BY <2>1, <3>2, ListFacts
      <4>2. K[n][1] \in ToSet(K[n])
        BY <1>0, <2>1, <4>1, Places
      <4> QED
        BY <1>1, <4>1, <4>2 DEF Closed
    <3> QED
      BY <3>1, <3>2
  <2>3. h.item[n].next = Null \/ h.item[n].next \in T
    <3>1. CASE n = i
      BY <2>1, <3>1
    <3>2. CASE n # i
      <4>1. PICK q \in T : n \in ToSet(K[q])
        BY <1>2, <3>2
      <4>2. q \in Node
        BY <1>1
      <4>3. PICK j \in 1..Len(K[q]) : n = K[q][j]
        BY <1>0, <4>1, <4>2, PlaceOf
      <4>4. nx[n] = IF j = Len(K[q]) THEN Null ELSE K[q][j + 1]
        BY <4>2, <4>3, ListFacts
      <4>5. CASE j = Len(K[q])
        BY <2>1, <3>2, <4>4, <4>5
      <4>6. CASE j # Len(K[q])
        <5>1. Len(K[q]) \in Nat
          BY <4>2, ListFacts
        <5>2. j + 1 \in 1..Len(K[q])
          BY <4>6, <5>1
        <5>3. K[q][j + 1] \in ToSet(K[q])
          BY <1>0, <4>2, <5>2, Places
        <5> QED
          BY <1>1, <2>1, <3>2, <4>1, <4>4, <4>6, <5>3 DEF Closed
      <4> QED
        BY <4>5, <4>6
    <3> QED
      BY <3>1, <3>2
  <2> QED
    BY <2>2, <2>3
<1>5. Doomed(h, i) \subseteq T
  BY <1>0, <1>1, <1>4 DEF Doomed
<1>6. ASSUME NEW S \in SUBSET Node, {i} \ {Null} \subseteq S,
             \A n \in S : {h.item[n].next, h.item[n].child} \ {Null} \subseteq S
      PROVE  T \subseteq S
  <2> DEFINE U == S \cap T
  <2>1. U \in SUBSET Node /\ i \in U
    BY <1>0, <1>1, <1>6
  <2>2. ASSUME NEW p \in U, NEW m \in ToSet(K[p]) PROVE m \in U
    <3>1. p \in Node /\ p \in S /\ p \in T
      BY <1>1
    <3>2. PICK j \in 1..Len(K[p]) : m = K[p][j]
      BY <1>0, <2>2, <3>1, PlaceOf
    <3>3. Len(K[p]) \in Nat /\ \A k \in 1..Len(K[p]) : K[p][k] \in Node
      BY <3>1, ListFacts
    <3> DEFINE J == {k \in 1..Len(K[p]) : K[p][k] \in S}
    <3>4. 1 \in J
      <4>1. h.item[p].child = K[p][1] /\ 1 \in 1..Len(K[p]) /\ K[p][1] \in Node
        BY <3>1, <3>2, <3>3, ListFacts
      <4> QED
        BY <1>0, <1>6, <3>1, <4>1
    <3>5. ASSUME NEW k \in 1..Len(K[p]) - 1, k \in J PROVE k + 1 \in J
      <4>1. k \in 1..Len(K[p]) /\ k # Len(K[p]) /\ k + 1 \in 1..Len(K[p])
        BY <3>3
      <4>2. K[p][k] \in ToSet(K[p])
        BY <1>0, <3>1, <4>1, Places
      <4>3. K[p][k] # i
        BY <1>3, <3>1, <4>2
      <4>4. nx[K[p][k]] = K[p][k + 1]
        BY <3>1, <4>1, ListFacts
      <4>5. h.item[K[p][k]].next = K[p][k + 1]
        BY <3>3, <4>1, <4>3, <4>4
      <4>6. K[p][k + 1] \in S
        BY <1>0, <1>6, <3>3, <3>5, <4>1, <4>5
      <4> QED
        BY <4>1, <4>6
    <3> HIDE DEF J
    <3>6. 1..Len(K[p]) \subseteq J
      <4>1. 1 \in Int /\ Len(K[p]) \in Int /\ 1 >= 0
        BY <3>3
      <4> QED
        BY <3>4, <3>5, <4>1, AllIndexes
    <3>7. m \in S
      BY <3>2, <3>6 DEF J
    <3>8. m \in T
      BY <1>1, <2>2, <3>1 DEF Closed
    <3> QED
      BY <3>7, <3>8
  <2>3. Closed(K, U)
    BY <2>2 DEF Closed
  <2> HIDE DEF U
  <2>4. T \subseteq U
    BY <2>1, <2>3, TreeLeast DEF T
  <2> QED
    BY <2>4 DEF U
<1>7. T \subseteq Doomed(h, i)
  BY <1>1, <1>6 DEF Doomed
<1> QED
  BY <1>5, <1>7 DEF T

\* A change of the children of p leaves a tree that p is not in.
LEMMA TreeKept ==
    ASSUME NEW K, NEW J, NEW p, OneRow(K, J, p), NEW i \in Node, p \notin Tree(K, i)
    PROVE  Tree(J, i) = Tree(K, i)
<1>0. /\ K \in [Node -> Seq(Node)] /\ J \in [Node -> Seq(Node)]
      /\ \A q \in Node \ {p} : J[q] = K[q]
  BY DEF OneRow
<1>1. i \in Tree(K, i) /\ Tree(K, i) \in SUBSET Node /\ Closed(K, Tree(K, i))
  BY <1>0, TreeClosed
<1>2. i \in Tree(J, i) /\ Tree(J, i) \in SUBSET Node /\ Closed(J, Tree(J, i))
  BY <1>0, TreeClosed
<1>3. Closed(J, Tree(K, i))
  BY <1>0, <1>1 DEF Closed
<1>4. Tree(J, i) \subseteq Tree(K, i)
  BY <1>1, <1>3, TreeLeast
<1>5. Closed(K, Tree(J, i))
  BY <1>0, <1>2, <1>4 DEF Closed
<1>6. Tree(K, i) \subseteq Tree(J, i)
  BY <1>2, <1>5, TreeLeast
<1> QED
  BY <1>4, <1>6

\* The lists without those of the tree of a root.
\* f but for the items of T, which have e.
Without(T, f, g, e) == \A n \in Node : g[n] = IF n \in T THEN e ELSE f[n]

\* The links left once the tree of a root is blank are those of the rows left.
LEMMA FreeLists ==
    ASSUME NEW nx, NEW pv, NEW ch, NEW K, Lists(nx, pv, ch, K),
           NEW H, NEW L, Grove(K, H, L), NEW i \in H,
           NEW J \in [Node -> Seq(Node)], Without(Tree(K, i), K, J, <<>>),
           NEW nx1 \in [Node -> Ptr], NEW pv1 \in [Node -> Ptr], NEW ch1 \in [Node -> Ptr],
           Without(Tree(K, i), nx, nx1, Null), Without(Tree(K, i), pv, pv1, Null), Without(Tree(K, i), ch, ch1, Null)
    PROVE  Lists(nx1, pv1, ch1, J)
<1> DEFINE T == Tree(K, i)
<1>0. K \in [Node -> Seq(Node)]
  BY DEF Grove
<1>1. \A p \in Node \ T : ToSet(K[p]) \cap T = {}
  BY RowsApart
<1>2. /\ \A p \in Node : J[p] = IF p \in T THEN <<>> ELSE K[p]
      /\ \A n \in Node : /\ nx1[n] = IF n \in T THEN Null ELSE nx[n]
                         /\ pv1[n] = IF n \in T THEN Null ELSE pv[n]
                         /\ ch1[n] = IF n \in T THEN Null ELSE ch[n]
  BY DEF Without
<1>3. ASSUME NEW n \in Node \ T, NEW p \in T, n \in ToSet(K[p]) PROVE FALSE
  BY <1>0, <1>3, TreeClosed DEF Closed, Grove
<1> HIDE DEF T
<1>4. ASSUME NEW p \in Node, NEW j \in 1..Len(J[p])
      PROVE  p \notin T /\ J[p] = K[p] /\ j \in 1..Len(K[p]) /\ J[p][j] \in Node \ T
  <2>1. p \notin T
    BY <1>2, <1>4
  <2>2. J[p] = K[p] /\ j \in 1..Len(K[p]) /\ K[p][j] \in Node
    BY <1>2, <2>1, ListFacts
  <2>3. K[p][j] \in ToSet(K[p])
    BY <1>0, <2>2, Places
  <2> QED
    BY <1>1, <2>1, <2>2, <2>3
<1>5. ASSUME NEW p \in Node PROVE ch1[p] = IF Len(J[p]) = 0 THEN Null ELSE J[p][1]
  <2>1. CASE p \in T
    BY <1>2, <2>1
  <2>2. CASE p \notin T
    BY <1>2, <2>2, ListFacts
  <2> QED
    BY <2>1, <2>2
<1>6. ASSUME NEW p \in Node, NEW j \in 1..Len(J[p])
      PROVE  /\ nx1[J[p][j]] = IF j = Len(J[p]) THEN Null ELSE J[p][j + 1]
             /\ pv1[J[p][j]] = IF j = 1 THEN J[p][Len(J[p])] ELSE J[p][j - 1]
  <2>1. nx1[J[p][j]] = nx[K[p][j]] /\ pv1[J[p][j]] = pv[K[p][j]] /\ J[p] = K[p] /\ j \in 1..Len(K[p])
    BY <1>2, <1>4
  <2> QED
    BY <2>1, ListFacts, SMTT(30)
<1>7. Apart(J)
  <2>1. ASSUME NEW p \in Node, NEW q \in Node, NEW j \in 1..Len(J[p]), NEW k \in 1..Len(J[q]), J[p][j] = J[q][k]
        PROVE  p = q /\ j = k
    <3>1. J[p] = K[p] /\ j \in 1..Len(K[p]) /\ J[q] = K[q] /\ k \in 1..Len(K[q])
      BY <1>4
    <3> QED
      BY <2>1, <3>1, ListFacts, SMTT(30) DEF Apart
  <2> QED
    BY <2>1 DEF Apart
<1>8. ASSUME NEW n \in Node, IsTop(J, n) PROVE nx1[n] = Null /\ pv1[n] = Null
  <2>1. CASE n \in T
    BY <1>2, <2>1
  <2>2. CASE n \notin T
    <3>1. ASSUME NEW p \in Node, NEW j \in 1..Len(K[p]), K[p][j] = n PROVE FALSE
      <4>1. n \in ToSet(K[p])
        BY <1>0, <3>1, Places
      <4>2. p \notin T
        BY <1>3, <2>2, <4>1
      <4> QED
        BY <1>2, <1>8, <3>1, <4>2 DEF IsTop
    <3>2. IsTop(K, n)
      BY <3>1 DEF IsTop
    <3>3. nx[n] = Null /\ pv[n] = Null
      BY <3>2, ListFacts
    <3> QED
      BY <1>2, <2>2, <3>3
  <2> QED
    BY <2>1, <2>2
<1> QED
  BY <1>5, <1>6, <1>7, <1>8 DEF Lists, Linked

\* J is K with a copy of the tree of i, m copied to to[m], where L are used.
CopyOf(K, J, L, i, to) ==
    /\ to \in [Tree(K, i) -> Node \ L]
    /\ \A m, n \in Tree(K, i) : to[m] = to[n] => m = n
    /\ J \in [Node -> Seq(Node)]
    /\ \A m \in Tree(K, i) : /\ Len(J[to[m]]) = Len(K[m])
                             /\ \A j \in 1..Len(K[m]) : J[to[m]][j] = to[K[m][j]]
    /\ \A n \in Node : (\A m \in Tree(K, i) : n # to[m]) => J[n] = K[n]

\* What stands where in the copy.
LEMMA CopyPlaces ==
    ASSUME NEW K, NEW H, NEW L, Grove(K, H, L), NEW i \in L, NEW J, NEW to, CopyOf(K, J, L, i, to)
    PROVE  /\ \A m \in Tree(K, i) : \A j \in 1..Len(K[m]) :
                  /\ K[m][j] \in Tree(K, i) \ {i}
                  /\ J[to[m]][j] = to[K[m][j]] /\ to[m] \in Node \ L
           /\ \A n \in Node : (\A m \in Tree(K, i) : n # to[m]) =>
                  /\ J[n] = K[n]
                  /\ \A j \in 1..Len(K[n]) : K[n][j] \in L
<1> DEFINE T == Tree(K, i)
<1>0. K \in [Node -> Seq(Node)] /\ i \in Node /\ \A n \in Node : ToSet(K[n]) \subseteq L
  BY DEF Grove
<1>1. T \subseteq Node /\ Closed(K, T)
  BY <1>0, TreeClosed
<1>2. ASSUME NEW m \in T, NEW j \in 1..Len(K[m]) PROVE K[m][j] \in T \ {i}
  <2>1. K[m][j] \in ToSet(K[m]) /\ m \in Node
    BY <1>0, <1>1, Places
  <2>2. K[m][j] # i
    BY <1>2, <2>1, NotBelowItself
  <2> QED
    BY <1>1, <2>1, <2>2 DEF Closed
<1>3. ASSUME NEW n \in Node, NEW j \in 1..Len(K[n]) PROVE K[n][j] \in L
  BY <1>0, Places
<1> QED
  BY <1>2, <1>3 DEF CopyOf

\* g is f with the pointers of the items T copied; those of X lead nowhere.
Moved(T, to, X, f, g) ==
    /\ \A m \in T : g[to[m]] = IF m \notin X /\ f[m] \in T THEN to[f[m]] ELSE Null
    /\ \A n \in Node : (\A m \in T : n # to[m]) => g[n] = f[n]

\* The links cJSON_Duplicate_rec sets are those of the rows with the copy.
LEMMA CopyLists ==
    ASSUME NEW nx, NEW pv, NEW ch, NEW K, Lists(nx, pv, ch, K),
           NEW H, NEW L, Grove(K, H, L), NEW i \in L, NEW J, NEW to, CopyOf(K, J, L, i, to),
           NEW nx1 \in [Node -> Ptr], NEW pv1 \in [Node -> Ptr], NEW ch1 \in [Node -> Ptr],
           Moved(Tree(K, i), to, {i}, nx, nx1), Moved(Tree(K, i), to, {i}, pv, pv1), Moved(Tree(K, i), to, {}, ch, ch1)
    PROVE  Lists(nx1, pv1, ch1, J)
<1> DEFINE T == Tree(K, i)
           New(n) == \A m \in T : n # to[m]
<1>0. K \in [Node -> Seq(Node)] /\ i \in Node /\ Null \notin Node
  BY NodeAssumption DEF Grove
<1>1. /\ T \subseteq Node /\ i \in T
      /\ \A m \in T \ {i} : \E q \in T : m \in ToSet(K[q])
  BY <1>0, TreeClosed, TreeParent
<1>2. /\ \A m \in T : \A j \in 1..Len(K[m]) :
             K[m][j] \in T \ {i} /\ J[to[m]][j] = to[K[m][j]]
      /\ \A n \in Node : New(n) => J[n] = K[n] /\ \A j \in 1..Len(K[n]) : K[n][j] \in L
  BY CopyPlaces
<1>3. /\ \A m \in T : to[m] \in Node \ L /\ Len(J[to[m]]) = Len(K[m])
      /\ \A m, n \in T : to[m] = to[n] => m = n
      /\ J \in [Node -> Seq(Node)]
  BY DEF CopyOf
<1>4. /\ \A m \in T :
            /\ nx1[to[m]] = IF m # i /\ nx[m] \in T THEN to[nx[m]] ELSE Null
            /\ pv1[to[m]] = IF m # i /\ pv[m] \in T THEN to[pv[m]] ELSE Null
            /\ ch1[to[m]] = IF ch[m] \in T THEN to[ch[m]] ELSE Null
      /\ \A n \in Node : New(n) => nx1[n] = nx[n] /\ pv1[n] = pv[n] /\ ch1[n] = ch[n]
  BY DEF Moved
<1>5. \A n \in Node \ L : Len(K[n]) = 0
  BY DEF Grove
<1> HIDE DEF T
<1>6. ASSUME NEW p \in Node PROVE ch1[p] = IF Len(J[p]) = 0 THEN Null ELSE J[p][1]
  <2>1. CASE New(p)
    BY <1>2, <1>4, <2>1, ListFacts
  <2>2. CASE ~New(p)
    <3>1. PICK m \in T : p = to[m]
      BY <2>2
    <3>2. m \in Node /\ Len(J[p]) = Len(K[m]) /\ Len(K[m]) \in Nat
      BY <1>1, <1>3, <3>1, ListFacts
    <3>3. CASE Len(K[m]) = 0
      <4>1. ch[m] = Null
        BY <3>2, <3>3, ListFacts
      <4> QED
        BY <1>0, <1>1, <1>4, <3>1, <3>2, <3>3, <4>1
    <3>4. CASE Len(K[m]) # 0
      <4>1. ch[m] = K[m][1] /\ 1 \in 1..Len(K[m])
        BY <3>2, <3>4, ListFacts
      <4> QED
        BY <1>2, <1>4, <3>1, <3>2, <3>4, <4>1
    <3> QED
      BY <3>3, <3>4
  <2> QED
    BY <2>1, <2>2
<1>7. ASSUME NEW p \in Node, NEW j \in 1..Len(J[p])
      PROVE  /\ nx1[J[p][j]] = IF j = Len(J[p]) THEN Null ELSE J[p][j + 1]
             /\ pv1[J[p][j]] = IF j = 1 THEN J[p][Len(J[p])] ELSE J[p][j - 1]
  <2>1. CASE New(p)
    <3>1. J[p] = K[p] /\ j \in 1..Len(K[p]) /\ K[p][j] \in L /\ K[p][j] \in Node
      BY <1>2, <2>1, ListFacts
    <3>2. New(K[p][j])
      BY <1>3, <3>1
    <3>3. nx1[K[p][j]] = nx[K[p][j]] /\ pv1[K[p][j]] = pv[K[p][j]]
      BY <1>4, <3>1, <3>2
    <3>4. /\ nx[K[p][j]] = IF j = Len(K[p]) THEN Null ELSE K[p][j + 1]
          /\ pv[K[p][j]] = IF j = 1 THEN K[p][Len(K[p])] ELSE K[p][j - 1]
      BY <3>1, ListFacts
    <3> QED
      BY <3>1, <3>3, <3>4
  <2>2. CASE ~New(p)
    <3>1. PICK m \in T : p = to[m]
      BY <2>2
    <3>2. m \in Node /\ Len(J[p]) = Len(K[m]) /\ Len(K[m]) \in Nat /\ j \in 1..Len(K[m])
      BY <1>1, <1>3, <1>7, <3>1, ListFacts
    <3>3. K[m][j] \in T \ {i} /\ J[p][j] = to[K[m][j]]
      BY <1>2, <3>1, <3>2
    <3>4. /\ nx[K[m][j]] = IF j = Len(K[m]) THEN Null ELSE K[m][j + 1]
          /\ pv[K[m][j]] = IF j = 1 THEN K[m][Len(K[m])] ELSE K[m][j - 1]
      BY <3>2, ListFacts
    <3>5. nx1[J[p][j]] = IF j = Len(J[p]) THEN Null ELSE J[p][j + 1]
      <4>1. CASE j = Len(K[m])
        BY <1>0, <1>1, <1>4, <3>2, <3>3, <3>4, <4>1
      <4>2. CASE j # Len(K[m])
        <5>1. j + 1 \in 1..Len(K[m])
          BY <3>2, <4>2
        <5>2. K[m][j + 1] \in T /\ J[p][j + 1] = to[K[m][j + 1]]
          BY <1>2, <3>1, <5>1
        <5> QED
          BY <1>4, <3>2, <3>3, <3>4, <4>2, <5>2
      <4> QED
        BY <4>1, <4>2
    <3>6. pv1[J[p][j]] = IF j = 1 THEN J[p][Len(J[p])] ELSE J[p][j - 1]
      <4>1. CASE j = 1
        <5>1. Len(K[m]) \in 1..Len(K[m])
          BY <3>2
        <5>2. K[m][Len(K[m])] \in T /\ J[p][Len(K[m])] = to[K[m][Len(K[m])]]
          BY <1>2, <3>1, <5>1
        <5> QED
          BY <1>4, <3>2, <3>3, <3>4, <4>1, <5>2
      <4>2. CASE j # 1
        <5>1. j - 1 \in 1..Len(K[m])
          BY <3>2, <4>2
        <5>2. K[m][j - 1] \in T /\ J[p][j - 1] = to[K[m][j - 1]]
          BY <1>2, <3>1, <5>1
        <5> QED
          BY <1>4, <3>2, <3>3, <3>4, <4>2, <5>2
      <4> QED
        BY <4>1, <4>2
    <3> QED
      BY <3>5, <3>6
  <2> QED
    BY <2>1, <2>2
<1>8. ASSUME NEW p \in Node, NEW q \in Node, NEW j \in 1..Len(J[p]), NEW k \in 1..Len(J[q]), J[p][j] = J[q][k]
      PROVE  p = q /\ j = k
  <2>1. CASE New(p) /\ New(q)
    <3>1. J[p] = K[p] /\ j \in 1..Len(K[p]) /\ J[q] = K[q] /\ k \in 1..Len(K[q])
      BY <1>2, <2>1
    <3> QED
      BY <1>8, <3>1, ListFacts DEF Apart
  <2>2. CASE New(p) /\ ~New(q)
    <3>1. J[p][j] \in L
      BY <1>2, <2>2
    <3>2. PICK m \in T : q = to[m]
      BY <2>2
    <3>3. k \in 1..Len(K[m]) /\ K[m][k] \in T /\ J[q][k] = to[K[m][k]]
      BY <1>2, <1>3, <3>2
    <3> QED
      BY <1>3, <1>8, <3>1, <3>3
  <2>3. CASE ~New(p) /\ New(q)
    <3>1. J[q][k] \in L
      BY <1>2, <2>3
    <3>2. PICK m \in T : p = to[m]
      BY <2>3
    <3>3. j \in 1..Len(K[m]) /\ K[m][j] \in T /\ J[p][j] = to[K[m][j]]
      BY <1>2, <1>3, <3>2
    <3> QED
      BY <1>3, <1>8, <3>1, <3>3
  <2>4. CASE ~New(p) /\ ~New(q)
    <3>1. PICK m \in T : p = to[m]
      BY <2>4
    <3>2. PICK n \in T : q = to[n]
      BY <2>4
    <3>3. j \in 1..Len(K[m]) /\ K[m][j] \in T /\ J[p][j] = to[K[m][j]]
      BY <1>2, <1>3, <3>1
    <3>4. k \in 1..Len(K[n]) /\ K[n][k] \in T /\ J[q][k] = to[K[n][k]]
      BY <1>2, <1>3, <3>2
    <3>5. K[m][j] = K[n][k]
      <4>1. to[K[m][j]] = to[K[n][k]]
        BY <1>8, <3>3, <3>4
      <4> QED
        BY <1>3, <3>3, <3>4, <4>1
    <3>6. m = n /\ j = k
      <4>1. m \in Node /\ n \in Node /\ Apart(K)
        BY <1>1, ListFacts
      <4> QED
        BY <3>3, <3>4, <3>5, <4>1 DEF Apart
    <3> QED
      BY <3>1, <3>2, <3>6
  <2> QED
    BY <2>1, <2>2, <2>3, <2>4
<1>9. ASSUME NEW n \in Node, IsTop(J, n) PROVE nx1[n] = Null /\ pv1[n] = Null
  <2>1. CASE New(n)
    <3>1. ASSUME NEW p \in Node, NEW j \in 1..Len(K[p]), K[p][j] = n PROVE FALSE
      <4>1. New(p)
        <5>1. ASSUME NEW m \in T, p = to[m] PROVE FALSE
          <6>1. Len(K[p]) = 0
            BY <1>3, <1>5, <5>1
          <6> QED
            BY <6>1
        <5> QED
          BY <5>1
      <4> QED
        BY <1>2, <1>9, <3>1, <4>1 DEF IsTop
    <3>2. IsTop(K, n)
      BY <3>1 DEF IsTop
    <3>3. nx[n] = Null /\ pv[n] = Null
      BY <3>2, ListFacts
    <3> QED
      BY <1>4, <2>1, <3>3
  <2>2. CASE ~New(n)
    <3>1. PICK m \in T : n = to[m]
      BY <2>2
    <3>2. m = i
      <4> SUFFICES ASSUME m # i PROVE FALSE
        OBVIOUS
      <4>1. PICK q \in T : m \in ToSet(K[q])
        BY <1>1
      <4>2. q \in Node
        BY <1>1
      <4>s. K \in [Node -> Seq(Node)]
        BY <1>0
      <4>p. \E j \in 1..Len(K[q]) : m = K[q][j]
        BY <4>1, <4>2, <4>s, PlaceOf, Zenon
      <4>3. PICK j \in 1..Len(K[q]) : m = K[q][j]
        BY <4>p
      <4>4. J[to[q]][j] = to[K[q][j]]
        <5>1. \A u \in T : \A v \in 1..Len(K[u]) : J[to[u]][v] = to[K[u][v]]
          BY <1>2
        <5> QED
          BY <4>1, <4>3, <5>1, Zenon
      <4>5. to[q] \in Node /\ Len(J[to[q]]) = Len(K[q])
        BY <1>3, <4>1
      <4>6. J[to[q]][j] = n /\ j \in 1..Len(J[to[q]])
        BY <3>1, <4>3, <4>4, <4>5
      <4> QED
        BY <1>9, <4>5, <4>6 DEF IsTop
    <3> QED
      BY <1>4, <3>1, <3>2
  <2> QED
    BY <2>1, <2>2
<1> QED
  BY <1>3, <1>6, <1>7, <1>8, <1>9 DEF Lists, Linked, Apart

\* The forest with a copy of the tree of i has one more root.
LEMMA GroveCopy ==
    ASSUME NEW K, NEW H, NEW L, Grove(K, H, L), NEW i \in L, NEW J, NEW to, CopyOf(K, J, L, i, to)
    PROVE  Grove(J, H \cup {to[i]}, L \cup {to[m] : m \in Tree(K, i)})
<1> DEFINE T == Tree(K, i)
           New(n) == \A m \in T : n # to[m]
           M == L \cup {to[m] : m \in T}
<1>0. /\ K \in [Node -> Seq(Node)] /\ i \in Node /\ L \subseteq Node /\ H \subseteq L
      /\ \A p \in Node : ToSet(K[p]) \subseteq L \ H
      /\ \A p \in Node \ L : Len(K[p]) = 0
      /\ \A p, q \in Node : \A n \in ToSet(K[p]) : n \in ToSet(K[q]) => p = q
      /\ \A S \in SUBSET Node : H \subseteq S /\ Closed(K, S) => L \subseteq S
  BY DEF Grove
<1>1. T \subseteq Node /\ i \in T /\ Closed(K, T) /\ T \subseteq L
  BY <1>0, TreeClosed, OneRoot
<1>2. /\ \A m \in T : \A j \in 1..Len(K[m]) :
             K[m][j] \in T \ {i} /\ J[to[m]][j] = to[K[m][j]]
      /\ \A n \in Node : New(n) => J[n] = K[n] /\ \A j \in 1..Len(K[n]) : K[n][j] \in L
  BY CopyPlaces
<1>3. /\ \A m \in T : to[m] \in Node \ L /\ Len(J[to[m]]) = Len(K[m])
      /\ \A m, n \in T : to[m] = to[n] => m = n
      /\ J \in [Node -> Seq(Node)]
  BY DEF CopyOf
<1>4. ASSUME NEW S \in SUBSET Node, T \subseteq Node, i \in S, Closed(K, S) PROVE T \subseteq S
  BY <1>4, TreeLeast
<1> HIDE DEF T
\* The children of a copy are the copies of the children.
<1>5. ASSUME NEW m \in T, NEW n
      PROVE  n \in ToSet(J[to[m]]) => \E x \in T \ {i} : n = to[x] /\ x \in ToSet(K[m])
  <2> SUFFICES ASSUME n \in ToSet(J[to[m]]) PROVE \E x \in T \ {i} : n = to[x] /\ x \in ToSet(K[m])
    OBVIOUS
  <2>1. to[m] \in Node /\ m \in Node
    BY <1>1, <1>3
  <2>2. PICK j \in 1..Len(J[to[m]]) : n = J[to[m]][j]
    BY <1>3, <2>1, PlaceOf, ZenonT(30)
  <2>3. j \in 1..Len(K[m])
    BY <1>3
  <2>4. K[m][j] \in T \ {i} /\ n = to[K[m][j]]
    BY <1>2, <2>2, <2>3
  <2>5. K[m][j] \in ToSet(K[m])
    BY <1>0, <2>1, <2>3, Places
  <2> QED
    BY <2>4, <2>5
<1>6. ASSUME NEW m \in T, NEW x \in ToSet(K[m]) PROVE x \in T /\ to[x] \in ToSet(J[to[m]])
  <2>1. to[m] \in Node /\ m \in Node
    BY <1>1, <1>3
  <2>2. PICK j \in 1..Len(K[m]) : x = K[m][j]
    <3>1. K \in [Node -> Seq(Node)]
      BY <1>0
    <3> QED
      BY <1>6, <2>1, <3>1, PlaceOf
  <2>3. j \in 1..Len(J[to[m]])
    BY <1>3
  <2>4. J[to[m]][j] \in ToSet(J[to[m]])
    BY <1>3, <2>1, <2>3, Places
  <2> QED
    BY <1>2, <2>2, <2>4
<1>7. M \subseteq Node /\ H \cup {to[i]} \subseteq M
  BY <1>0, <1>1, <1>3
<1>8. ASSUME NEW p \in Node PROVE ToSet(J[p]) \subseteq M \ (H \cup {to[i]})
  <2> SUFFICES ASSUME NEW n \in ToSet(J[p]) PROVE n \in M \ (H \cup {to[i]})
    OBVIOUS
  <2>1. CASE New(p)
    <3>1. J[p] = K[p]
      BY <1>2, <2>1
    <3>2. n \in L \ H
      BY <1>0, <3>1
    <3> QED
      BY <1>1, <1>3, <3>2
  <2>2. CASE ~New(p)
    <3>1. PICK m \in T : p = to[m]
      BY <2>2
    <3>2. PICK x \in T \ {i} : n = to[x] /\ x \in ToSet(K[m])
      BY <1>5, <3>1
    <3>3. n \notin L /\ n # to[i]
      BY <1>1, <1>3, <3>2
    <3> QED
      BY <1>0, <3>2, <3>3
  <2> QED
    BY <2>1, <2>2
<1>9. ASSUME NEW p \in Node \ M PROVE Len(J[p]) = 0
  <2>1. New(p) /\ p \notin L
    OBVIOUS
  <2> QED
    BY <1>0, <1>2, <2>1
<1>10. ASSUME NEW p \in Node, NEW q \in Node, NEW n \in ToSet(J[p]), n \in ToSet(J[q]) PROVE p = q
  <2>1. ASSUME NEW r \in Node, New(r) PROVE J[r] = K[r] /\ ToSet(J[r]) \subseteq L
    <3>1. J[r] = K[r]
      BY <1>2, <2>1
    <3> QED
      BY <1>0, <3>1
  <2>2. ASSUME NEW m \in T, n \in ToSet(J[to[m]]) PROVE n \notin L
    <3>1. PICK x \in T \ {i} : n = to[x] /\ x \in ToSet(K[m])
      BY <1>5, <2>2
    <3> QED
      BY <1>3, <3>1
  <2>3. CASE New(p) /\ New(q)
    <3>1. J[p] = K[p] /\ J[q] = K[q]
      BY <2>1, <2>3
    <3> QED
      BY <1>0, <1>10, <3>1
  <2>4. CASE New(p) /\ ~New(q)
    <3>1. n \in L
      BY <2>1, <2>4
    <3>2. PICK m \in T : q = to[m]
      BY <2>4
    <3> QED
      BY <1>10, <2>2, <3>1, <3>2
  <2>5. CASE ~New(p) /\ New(q)
    <3>1. n \in L
      BY <1>10, <2>1, <2>5
    <3>2. PICK m \in T : p = to[m]
      BY <2>5
    <3> QED
      BY <2>2, <3>1, <3>2
  <2>6. CASE ~New(p) /\ ~New(q)
    <3>1. PICK m \in T : p = to[m]
      BY <2>6
    <3>2. PICK k \in T : q = to[k]
      BY <2>6
    <3>3. PICK x \in T \ {i} : n = to[x] /\ x \in ToSet(K[m])
      BY <1>5, <3>1
    <3>4. PICK y \in T \ {i} : n = to[y] /\ y \in ToSet(K[k])
      BY <1>5, <1>10, <3>2
    <3>5. x = y /\ m \in Node /\ k \in Node
      BY <1>1, <1>3, <3>3, <3>4
    <3>6. m = k
      BY <1>0, <3>3, <3>4, <3>5
    <3> QED
      BY <3>1, <3>2, <3>6
  <2> QED
    BY <2>3, <2>4, <2>5, <2>6
<1>11. ASSUME NEW S \in SUBSET Node, H \cup {to[i]} \subseteq S, Closed(J, S) PROVE M \subseteq S
  <2> DEFINE R == {n \in S : New(n)}
             U == {m \in T : to[m] \in S}
  <2>1. H \subseteq R /\ R \in SUBSET Node
    BY <1>0, <1>3, <1>11
  <2>2. ASSUME NEW p \in R, NEW n \in ToSet(K[p]) PROVE n \in R
    <3>1. p \in Node /\ J[p] = K[p]
      BY <1>2
    <3>2. n \in L /\ n \in S
      BY <1>0, <1>11, <2>2, <3>1 DEF Closed
    <3> QED
      BY <1>3, <3>2
  <2>3. L \subseteq R
    <3>1. Closed(K, R)
      BY <2>2 DEF Closed
    <3> HIDE DEF R
    <3> QED
      BY <1>0, <2>1, <3>1
  <2>4. ASSUME NEW m \in U, NEW x \in ToSet(K[m]) PROVE x \in U
    <3>1. x \in T /\ to[x] \in ToSet(J[to[m]])
      BY <1>6, <2>4
    <3> QED
      BY <1>11, <3>1 DEF Closed
  <2>5. U \in SUBSET Node /\ i \in U
    BY <1>1, <1>11
  <2>6. T \subseteq U
    <3>1. Closed(K, U)
      BY <2>4 DEF Closed
    <3> HIDE DEF U
    <3> QED
      BY <1>1, <1>4, <2>5, <3>1
  <2> QED
    BY <2>3, <2>6
<1>12. M \in SUBSET Node /\ J \in [Node -> Seq(Node)]
  BY <1>3, <1>7
<1>13. Grove(J, H \cup {to[i]}, M)
  <2> HIDE DEF M
  <2> QED
    BY <1>7, <1>8, <1>9, <1>10, <1>11, <1>12 DEF Grove
<1> QED
  BY <1>13 DEF T

-----------------------------------------------------------------------------
(* The strings the items own.                                              *)

\* n owns a valuestring.
Text(h, n) == h.item[n].kind = "string"
\* n owns its key.
OwnKey(h, n) == h.item[n].key # None /\ ~h.item[n].const
\* The items of S that own a valuestring.
Texts(h, S) == {n \in S : Text(h, n)}
\* The items of S that own a key.
OwnKeys(h, S) == {n \in S : OwnKey(h, n)}

\* The strings of a set of items, counted by what they are.
LEMMA StringsAre ==
    ASSUME NEW h, NEW S \in SUBSET Node
    PROVE  /\ Strings(h, S) = Cardinality(Texts(h, S)) + Cardinality(OwnKeys(h, S))
           /\ IsFiniteSet(Texts(h, S)) /\ IsFiniteSet(OwnKeys(h, S))
           /\ Cardinality(Texts(h, S)) \in Nat /\ Cardinality(OwnKeys(h, S)) \in Nat
           /\ Strings(h, S) \in Nat
<1>1. Strings(h, S) = Cardinality(Texts(h, S)) + Cardinality(OwnKeys(h, S))
  BY Zenon DEF Strings, Texts, OwnKeys, Text, OwnKey
<1>2. Texts(h, S) \in SUBSET Node /\ OwnKeys(h, S) \in SUBSET Node
  BY DEF Texts, OwnKeys
<1>3. IsFiniteSet(Texts(h, S)) /\ IsFiniteSet(OwnKeys(h, S))
  BY <1>2, NodeAssumption, FS_Subset
<1>4. Cardinality(Texts(h, S)) \in Nat /\ Cardinality(OwnKeys(h, S)) \in Nat
  BY <1>3, FS_CardinalityType
<1> QED
  BY <1>1, <1>3, <1>4

\* Strings are counted by kinds and keys alone.
LEMMA StringsSame ==
    ASSUME NEW h, NEW g, NEW S \in SUBSET Node,
           \A n \in S : (Text(g, n) <=> Text(h, n)) /\ (OwnKey(g, n) <=> OwnKey(h, n))
    PROVE  Strings(g, S) = Strings(h, S)
<1>1. Texts(g, S) = Texts(h, S) /\ OwnKeys(g, S) = OwnKeys(h, S)
  BY DEF Texts, OwnKeys
<1> QED
  BY <1>1, StringsAre

\* The strings of two sets with nothing in common add up.
LEMMA StringsUnion ==
    ASSUME NEW h, NEW S \in SUBSET Node, NEW T \in SUBSET Node, S \cap T = {}
    PROVE  Strings(h, S \cup T) = Strings(h, S) + Strings(h, T)
<1> DEFINE A == Texts(h, S)
           B == Texts(h, T)
           C == OwnKeys(h, S)
           D == OwnKeys(h, T)
<1>1. Texts(h, S \cup T) = A \cup B /\ OwnKeys(h, S \cup T) = C \cup D
  BY DEF Texts, OwnKeys
<1>2. A \cap B = {} /\ C \cap D = {}
  BY DEF Texts, OwnKeys
<1>3. IsFiniteSet(A) /\ IsFiniteSet(B) /\ IsFiniteSet(C) /\ IsFiniteSet(D)
  BY StringsAre
<1>4. /\ Cardinality(A) \in Nat /\ Cardinality(B) \in Nat /\ Cardinality(C) \in Nat /\ Cardinality(D) \in Nat
      /\ Strings(h, S) = Cardinality(A) + Cardinality(C) /\ Strings(h, T) = Cardinality(B) + Cardinality(D)
  BY StringsAre
<1>5. Strings(h, S \cup T) = Cardinality(A \cup B) + Cardinality(C \cup D)
  BY <1>1, StringsAre
<1> HIDE DEF A, B, C, D
<1>6. Cardinality(A \cup B) = Cardinality(A) + Cardinality(B) - Cardinality({})
  BY <1>2, <1>3, FS_Union
<1>7. Cardinality(C \cup D) = Cardinality(C) + Cardinality(D) - Cardinality({})
  BY <1>2, <1>3, FS_Union
<1>8. Cardinality({}) = 0
  BY FS_EmptySet
<1> QED
  BY <1>4, <1>5, <1>6, <1>7, <1>8

\* The strings of one item.
LEMMA StringsOne ==
    ASSUME NEW h, NEW n \in Node
    PROVE  Strings(h, {n}) = (IF Text(h, n) THEN 1 ELSE 0) + (IF OwnKey(h, n) THEN 1 ELSE 0)
<1>1. Cardinality({}) = 0 /\ Cardinality({n}) = 1
  BY FS_EmptySet, FS_Singleton
<1>2. Strings(h, {n}) = Cardinality(Texts(h, {n})) + Cardinality(OwnKeys(h, {n}))
  BY StringsAre
<1>3. Texts(h, {n}) = IF Text(h, n) THEN {n} ELSE {}
  BY DEF Texts
<1>4. OwnKeys(h, {n}) = IF OwnKey(h, n) THEN {n} ELSE {}
  BY DEF OwnKeys
<1>5. Cardinality(Texts(h, {n})) = IF Text(h, n) THEN 1 ELSE 0
  BY <1>1, <1>3
<1>6. Cardinality(OwnKeys(h, {n})) = IF OwnKey(h, n) THEN 1 ELSE 0
  BY <1>1, <1>4
<1> QED
  BY <1>2, <1>5, <1>6

\* A copy without clashes has as many members.
LEMMA ImageCardinality ==
    ASSUME NEW T, IsFiniteSet(T), NEW to, NEW A \in SUBSET T, \A m, n \in T : to[m] = to[n] => m = n
    PROVE  Cardinality({to[m] : m \in A}) = Cardinality(A)
<1> DEFINE B == {to[m] : m \in A}
           f == [m \in A |-> to[m]]
<1>1. f \in [A -> B] /\ \A x \in A : f[x] = to[x]
  OBVIOUS
<1>2. \A x, y \in A : f[x] = f[y] => x = y
  BY <1>1
<1>3. \A b \in B : \E x \in A : f[x] = b
  BY <1>1
<1>4. f \in Injection(A, B) /\ f \in Surjection(A, B)
  <2> HIDE DEF f, B
  <2>1. DOMAIN f = A
    BY <1>1
  <2> QED
    BY <1>1, <1>2, <1>3, <2>1 DEF Injection, IsInjective, Surjection
<1> HIDE DEF f, B
<1>5. ExistsBijection(A, B)
  BY <1>4 DEF ExistsBijection, Bijection
<1>6. IsFiniteSet(A)
  BY FS_Subset
<1> QED
  BY <1>5, <1>6, FS_Bijection DEF B

\* The copies of items own as many strings.
LEMMA StringsCopy ==
    ASSUME NEW h, NEW g, NEW T \in SUBSET Node, NEW to \in [T -> Node], \A m, n \in T : to[m] = to[n] => m = n,
           \A m \in T : (Text(g, to[m]) <=> Text(h, m)) /\ (OwnKey(g, to[m]) <=> OwnKey(h, m))
    PROVE  Strings(g, {to[m] : m \in T}) = Strings(h, T)
<1> DEFINE C == {to[m] : m \in T}
<1>1. C \in SUBSET Node
  OBVIOUS
<1>2. Texts(g, C) = {to[m] : m \in Texts(h, T)} /\ Texts(h, T) \in SUBSET T
  BY DEF Texts
<1>3. OwnKeys(g, C) = {to[m] : m \in OwnKeys(h, T)} /\ OwnKeys(h, T) \in SUBSET T
  BY DEF OwnKeys
<1>4. IsFiniteSet(T)
  BY NodeAssumption, FS_Subset
<1>5. Cardinality(Texts(g, C)) = Cardinality(Texts(h, T))
  BY <1>2, <1>4, ImageCardinality
<1>6. Cardinality(OwnKeys(g, C)) = Cardinality(OwnKeys(h, T))
  BY <1>3, <1>4, ImageCardinality
<1> HIDE DEF C
<1> QED
  BY <1>1, <1>5, <1>6, StringsAre DEF C

-----------------------------------------------------------------------------
(* The invariant of the memory.                                            *)

\* The heap h holds the forest of K with the roots H.
Good(h, K, H) ==
    /\ h \in Heap
    /\ Lists(Nx(h), Pv(h), Ch(h), K)
    /\ Grove(K, H, LiveIn(h))
    /\ \A n \in Node \ LiveIn(h) : h.item[n].key = None
    /\ h.strings = Strings(h, LiveIn(h))

\* Only links differ.
SameTexts(h, g) == Kd(g) = Kd(h) /\ Ky(g) = Ky(h) /\ Ct(g) = Ct(h) /\ g.strings = h.strings

\* The types of the fields of an item.
LEMMA ItemType ==
    ASSUME NEW h \in Heap, NEW n \in Node
    PROVE  /\ h.item \in [Node -> Item] /\ h.item[n] \in Item /\ h.strings \in Int
           /\ h.item[n].next \in Ptr /\ h.item[n].prev \in Ptr /\ h.item[n].child \in Ptr
           /\ h.item[n].key \in Key \cup {None} /\ h.item[n].const \in BOOLEAN /\ h.item[n].kind \in KindOf
           /\ h.item[n] = [kind |-> h.item[n].kind, key |-> h.item[n].key, const |-> h.item[n].const,
                           next |-> h.item[n].next, prev |-> h.item[n].prev, child |-> h.item[n].child]
<1> USE DEF Heap, Item
<1>1. h.item \in [Node -> Item] /\ h.item[n] \in Item /\ h.strings \in Int
  OBVIOUS
<1> QED
  BY <1>1

\* The links and texts of one item.
LEMMA Views ==
    ASSUME NEW h, NEW n \in Node
    PROVE  /\ Nx(h)[n] = h.item[n].next /\ Pv(h)[n] = h.item[n].prev /\ Ch(h)[n] = h.item[n].child
           /\ Kd(h)[n] = h.item[n].kind /\ Ky(h)[n] = h.item[n].key /\ Ct(h)[n] = h.item[n].const
BY DEF Nx, Pv, Ch, Kd, Ky, Ct

\* Links lead to items or nowhere.
LEMMA ViewTypes ==
    ASSUME NEW h \in Heap
    PROVE  Nx(h) \in [Node -> Ptr] /\ Pv(h) \in [Node -> Ptr] /\ Ch(h) \in [Node -> Ptr]
<1>1. \A n \in Node : h.item[n].next \in Ptr /\ h.item[n].prev \in Ptr /\ h.item[n].child \in Ptr
  BY ItemType
<1> QED
  BY <1>1 DEF Nx, Pv, Ch

\* The strings and the live items are known from kinds and keys.
LEMMA TextsKept ==
    ASSUME NEW h, NEW g, SameTexts(h, g)
    PROVE  /\ LiveIn(g) = LiveIn(h)
           /\ \A S \in SUBSET Node : Strings(g, S) = Strings(h, S)
<1>1. \A n \in Node : g.item[n].kind = h.item[n].kind /\ g.item[n].key = h.item[n].key
                      /\ g.item[n].const = h.item[n].const
  BY Views DEF SameTexts
<1>2. LiveIn(g) = LiveIn(h)
  BY <1>1, Zenon DEF LiveIn
<1>3. \A n \in Node : (Text(g, n) <=> Text(h, n)) /\ (OwnKey(g, n) <=> OwnKey(h, n))
  BY <1>1, Zenon DEF Text, OwnKey
<1>4. ASSUME NEW S \in SUBSET Node PROVE Strings(g, S) = Strings(h, S)
  BY <1>3, StringsSame
<1> QED
  BY <1>2, <1>4

\* A call that changes only the links.
LEMMA Relinked ==
    ASSUME NEW h, NEW K, NEW H, Good(h, K, H), NEW g \in Heap, SameTexts(h, g),
           NEW J, NEW I, Lists(Nx(g), Pv(g), Ch(g), J), Grove(J, I, LiveIn(h))
    PROVE  Good(g, J, I) /\ LiveIn(g) = LiveIn(h) /\ Ky(g) = Ky(h)
<1>1. LiveIn(g) = LiveIn(h) /\ LiveIn(h) \in SUBSET Node
  BY TextsKept DEF LiveIn
<1>2. g.strings = h.strings /\ Ky(g) = Ky(h)
  BY DEF SameTexts
<1>3. Strings(g, LiveIn(g)) = Strings(h, LiveIn(h))
  BY <1>1, TextsKept
<1>4. \A n \in Node : g.item[n].key = h.item[n].key
  BY <1>2, Views
<1> QED
  BY <1>1, <1>2, <1>3, <1>4 DEF Good

\* What a good heap has for an item that there is not.
LEMMA Unused ==
    ASSUME NEW h, NEW K, NEW H, Good(h, K, H), NEW n \in Node \ LiveIn(h)
    PROVE  /\ Len(K[n]) = 0 /\ K[n] = <<>> /\ IsTop(K, n)
           /\ h.item[n].next = Null /\ h.item[n].prev = Null /\ h.item[n].child = Null /\ h.item[n].key = None
<1>1. /\ K \in [Node -> Seq(Node)] /\ Len(K[n]) = 0
      /\ \A p \in Node : ToSet(K[p]) \subseteq LiveIn(h)
  BY DEF Good, Grove
<1>2. K[n] = <<>>
  <2>1. K[n] \in Seq(Node)
    BY <1>1
  <2> QED
    BY <1>1, <2>1
<1>3. IsTop(K, n)
  <2> SUFFICES ASSUME NEW p \in Node, NEW j \in 1..Len(K[p]) PROVE K[p][j] # n
    BY DEF IsTop
  <2>1. K[p][j] \in ToSet(K[p])
    BY <1>1, Places
  <2> QED
    BY <1>1, <2>1
<1>4. Lists(Nx(h), Pv(h), Ch(h), K)
  BY DEF Good
<1>5. Nx(h)[n] = Null /\ Pv(h)[n] = Null /\ Ch(h)[n] = Null
  BY <1>1, <1>3, <1>4, ListFacts
<1>6. h.item[n].key = None
  BY DEF Good
<1> QED
  BY <1>1, <1>2, <1>3, <1>5, <1>6, Views

\* What Good says, one fact for each part.
LEMMA GoodFacts ==
    ASSUME NEW h, NEW K, NEW H, Good(h, K, H)
    PROVE  /\ h \in Heap /\ LiveIn(h) \subseteq Node /\ H \subseteq LiveIn(h)
           /\ K \in [Node -> Seq(Node)] /\ Lists(Nx(h), Pv(h), Ch(h), K) /\ Grove(K, H, LiveIn(h))
           /\ \A p \in Node : ToSet(K[p]) \subseteq LiveIn(h) \ H
           /\ \A i \in H : IsTop(K, i)
<1>1. /\ h \in Heap /\ LiveIn(h) \subseteq Node /\ H \subseteq LiveIn(h)
      /\ K \in [Node -> Seq(Node)] /\ Lists(Nx(h), Pv(h), Ch(h), K) /\ Grove(K, H, LiveIn(h))
      /\ \A p \in Node : ToSet(K[p]) \subseteq LiveIn(h) \ H
  BY DEF Good, Grove
<1>2. ASSUME NEW i \in H PROVE IsTop(K, i)
  <2> SUFFICES ASSUME NEW p \in Node, NEW j \in 1..Len(K[p]) PROVE K[p][j] # i
    BY DEF IsTop
  <2>1. K[p][j] \in ToSet(K[p])
    BY <1>1, Places
  <2> QED
    BY <1>1, <2>1
<1> QED
  BY <1>1, <1>2

\* What a caller sees, walking by next, is K.
LEMMA GoodChildren ==
    ASSUME NEW h, NEW K, NEW H, Good(h, K, H), NEW p \in Node
    PROVE  Children(h, p) = K[p]
<1>1. Lists(Nx(h), Pv(h), Ch(h), K) /\ K[p] \in Seq(Node)
  BY GoodFacts
<1>2. /\ \A j, k \in 1..Len(K[p]) : K[p][j] = K[p][k] => j = k
      /\ Ch(h)[p] = IF Len(K[p]) = 0 THEN Null ELSE K[p][1]
      /\ \A j \in 1..Len(K[p]) : K[p][j] \in Node
           /\ Nx(h)[K[p][j]] = IF j = Len(K[p]) THEN Null ELSE K[p][j + 1]
  BY <1>1, ListFacts
<1>3. /\ h.item[p].child = IF Len(K[p]) = 0 THEN Null ELSE K[p][1]
      /\ \A j \in 1..Len(K[p]) : h.item[K[p][j]].next = IF j = Len(K[p]) THEN Null ELSE K[p][j + 1]
  BY <1>2, Views
<1>4. Len(K[p]) <= Cardinality(Node)
  BY <1>1, <1>2, ShortRows
<1> QED
  BY <1>1, <1>3, <1>4, WalkRow DEF Children

-----------------------------------------------------------------------------
(* What each function of the code does to a good memory.                   *)

\* An item just made.
Born(kind) == [kind |-> kind, key |-> None, const |-> FALSE, next |-> Null, prev |-> Null, child |-> Null]

\* The parts of an update of a heap, for the provers to take one by one.
HeapOf(f, s) == [item |-> f, strings |-> s]
\* f with x at n.
At(f, n, x) == [f EXCEPT ![n] = x]
\* h with the item x in n, as cJSON_New_Item makes it.
WithItem(h, n, x, s) == [h EXCEPT !.item[n] = x, !.strings = s]
\* h with another key of n, as SetKey sets it.
WithKey(h, n, k, c, s) == [h EXCEPT !.item[n].key = k, !.item[n].const = c, !.strings = s]
\* The item x with the key k.
Keyed(x, k, c) == [kind |-> x.kind, key |-> k, const |-> c, next |-> x.next, prev |-> x.prev, child |-> x.child]

\* WithItem, field by field.
LEMMA ExceptItem ==
    ASSUME NEW h \in Heap, NEW n, NEW x, NEW s
    PROVE  WithItem(h, n, x, s) = HeapOf(At(h.item, n, x), s)
<1> DEFINE f == [h.item EXCEPT ![n] = x]
           y == [h EXCEPT !.item = f]
<1>1. h = [item |-> h.item, strings |-> h.strings]
  BY DEF Heap
<1> HIDE DEF f
<1>2. y = [item |-> f, strings |-> h.strings]
  BY <1>1
<1> HIDE DEF y
<1>3. [y EXCEPT !.strings = s] = [item |-> f, strings |-> s]
  BY <1>2
<1> QED
  BY <1>3 DEF f, y, WithItem, HeapOf, At

\* WithKey, field by field.
LEMMA ExceptKey ==
    ASSUME NEW h \in Heap, NEW n \in Node, NEW k, NEW c, NEW s
    PROVE  WithKey(h, n, k, c, s) = HeapOf(At(h.item, n, Keyed(h.item[n], k, c)), s)
<1> DEFINE x == [h.item[n] EXCEPT !.key = k]
           new == [kind |-> h.item[n].kind, key |-> k, const |-> c,
                 next |-> h.item[n].next, prev |-> h.item[n].prev, child |-> h.item[n].child]
           f == [h.item EXCEPT ![n] = x]
           y == [h EXCEPT !.item = f]
           fc == [f EXCEPT ![n] = new]
           z == [y EXCEPT !.item = fc]
<1>1. h = [item |-> h.item, strings |-> h.strings] /\ h.item \in [Node -> Item]
  BY DEF Heap
<1>2. h.item[n] = [kind |-> h.item[n].kind, key |-> h.item[n].key, const |-> h.item[n].const,
                   next |-> h.item[n].next, prev |-> h.item[n].prev, child |-> h.item[n].child]
  BY ItemType
<1>3. x = [kind |-> h.item[n].kind, key |-> k, const |-> h.item[n].const,
           next |-> h.item[n].next, prev |-> h.item[n].prev, child |-> h.item[n].child]
  BY <1>2
<1> HIDE DEF x
<1>4. [x EXCEPT !.const = c] = new
  BY <1>3
<1>5. f[n] = x
  BY <1>1
<1>6. fc = [h.item EXCEPT ![n] = new]
  BY <1>1
<1> HIDE DEF f, new
<1>7. y = [item |-> f, strings |-> h.strings]
  BY <1>1
<1> HIDE DEF y, fc
<1>8. y.item = f
  BY <1>7
<1>9. z = [item |-> fc, strings |-> h.strings]
  BY <1>7
<1> HIDE DEF z
<1>10. [z EXCEPT !.strings = s] = [item |-> fc, strings |-> s]
  BY <1>9
<1>11. z = [y EXCEPT !.item = [y.item EXCEPT ![n] = [y.item[n] EXCEPT !.const = c]]]
  BY <1>4, <1>5, <1>8 DEF z, fc
<1> QED
  BY <1>6, <1>10, <1>11 DEF f, x, y, new, WithKey, HeapOf, At, Keyed

\* A new item, field by field.
LEMMA BornIs ==
    ASSUME NEW kind
    PROVE  [Blank EXCEPT !.kind = kind] = Born(kind)
<1>1. ASSUME NEW f, NEW b
      PROVE  [[kind |-> f, key |-> None, const |-> b, next |-> Null, prev |-> Null, child |-> Null] EXCEPT !.kind = kind]
             = [kind |-> kind, key |-> None, const |-> b, next |-> Null, prev |-> Null, child |-> Null]
  OBVIOUS
<1> QED
  BY <1>1, Zenon DEF Blank, Born

\* What cJSON_New_Item changes: one item, and the strings by its valuestring.
LEMMA NewItem ==
    ASSUME NEW h \in Heap, NEW n \in Node, NEW kind \in Kind
    PROVE  LET g == cJSON_New_Item(h, n, kind) IN
           /\ g \in Heap
           /\ \A m \in Node : g.item[m] = IF m = n THEN Born(kind) ELSE h.item[m]
           /\ g.strings = h.strings + IF Text(g, n) THEN 1 ELSE 0
           /\ kind # "free"
<1> DEFINE g == cJSON_New_Item(h, n, kind)
           s == IF kind = "string" THEN h.strings + 1 ELSE h.strings
<1>0. h.item \in [Node -> Item] /\ h.strings \in Int /\ h = [item |-> h.item, strings |-> h.strings]
  BY DEF Heap
<1>1. [Blank EXCEPT !.kind = kind] = Born(kind)
  BY BornIs
<1>2. g = [item |-> [h.item EXCEPT ![n] = Born(kind)], strings |-> s]
  <2> DEFINE x == [Blank EXCEPT !.kind = kind]
  <2>1. g = WithItem(h, n, x, s)
    BY Zenon DEF cJSON_New_Item, WithItem
  <2> HIDE DEF s, x, g
  <2>2. WithItem(h, n, x, s) = HeapOf(At(h.item, n, x), s)
    BY ExceptItem
  <2>3. x = Born(kind)
    BY <1>1 DEF x
  <2> QED
    BY <2>1, <2>2, <2>3 DEF HeapOf, At
<1>3. Born(kind) \in Item
  BY DEF Born, Item, Kind, KindOf, Ptr
<1>4. s \in Int
  BY <1>0
<1>5. kind # "free"
  BY DEF Kind
<1>6. Born(kind).kind = kind
  BY DEF Born
<1> HIDE DEF s
<1>7. g \in Heap
  BY <1>0, <1>2, <1>3, <1>4 DEF Heap
<1>8. \A m \in Node : g.item[m] = IF m = n THEN Born(kind) ELSE h.item[m]
  BY <1>0, <1>2
<1>9. Text(g, n) <=> kind = "string"
  BY <1>6, <1>8 DEF Text
<1>10. g.strings = s
  BY <1>2
<1>11. g.strings = h.strings + IF Text(g, n) THEN 1 ELSE 0
  BY <1>0, <1>9, <1>10 DEF s
<1> QED
  BY <1>5, <1>7, <1>8, <1>11

\* A new item is one more root with no children.
LEMMA NewGood ==
    ASSUME NEW h, NEW K, NEW H, Good(h, K, H), NEW n \in Node \ LiveIn(h), NEW kind \in Kind
    PROVE  LET g == cJSON_New_Item(h, n, kind) IN
           Good(g, K, H \cup {n}) /\ LiveIn(g) = LiveIn(h) \cup {n} /\ Ky(g) = Ky(h)
<1> DEFINE g == cJSON_New_Item(h, n, kind)
           L == LiveIn(h)
<1>0. h \in Heap /\ L \in SUBSET Node /\ n \notin L /\ n \in Node
  BY GoodFacts
<1>1. /\ g \in Heap
      /\ \A m \in Node : g.item[m] = IF m = n THEN Born(kind) ELSE h.item[m]
      /\ g.strings = h.strings + IF Text(g, n) THEN 1 ELSE 0
      /\ kind # "free"
  BY <1>0, NewItem
<1>2. /\ Born(kind).kind = kind /\ Born(kind).key = None /\ Born(kind).const = FALSE
      /\ Born(kind).next = Null /\ Born(kind).prev = Null /\ Born(kind).child = Null
  BY DEF Born
<1>3. h.item[n].next = Null /\ h.item[n].prev = Null /\ h.item[n].child = Null /\ h.item[n].key = None
  BY Unused
<1> HIDE DEF g
<1>4. \A m \in Node : /\ g.item[m].next = h.item[m].next /\ g.item[m].prev = h.item[m].prev
                      /\ g.item[m].child = h.item[m].child /\ g.item[m].key = h.item[m].key
  BY <1>1, <1>2, <1>3
<1>5. Nx(g) = Nx(h) /\ Pv(g) = Pv(h) /\ Ch(g) = Ch(h) /\ Ky(g) = Ky(h)
  BY <1>4 DEF Nx, Pv, Ch, Ky
<1>6. \A m \in Node : g.item[m].kind # "free" <=> m = n \/ h.item[m].kind # "free"
  BY <1>1, <1>2
<1>7. LiveIn(g) = L \cup {n}
  BY <1>6 DEF LiveIn
<1> HIDE DEF L
<1>8. Grove(K, H \cup {n}, L \cup {n})
  <2>1. K \in [Node -> Seq(Node)] /\ K[n] = <<>> /\ Grove(K, H, L)
    BY GoodFacts, Unused DEF L
  <2>2. ToSet(K[n]) = {}
    BY <2>1 DEF ToSet
  <2>3. OneRow(K, K, n)
    BY <2>1 DEF OneRow
  <2>4. Grove(K, H \cup {n}, L \cup {n} \cup ToSet(K[n]))
    BY <1>0, <2>1, <2>2, <2>3, GroveNew
  <2> QED
    BY <2>2, <2>4
<1>9. g.strings = Strings(g, LiveIn(g))
  <2>1. Strings(g, L \cup {n}) = Strings(g, L) + Strings(g, {n})
    BY <1>0, StringsUnion
  <2>2. \A m \in L : (Text(g, m) <=> Text(h, m)) /\ (OwnKey(g, m) <=> OwnKey(h, m))
    BY <1>0, <1>1 DEF Text, OwnKey
  <2>3. Strings(g, L) = Strings(h, L)
    BY <1>0, <2>2, StringsSame
  <2>4. ~OwnKey(g, n)
    BY <1>0, <1>1, <1>2 DEF OwnKey
  <2>5. Strings(g, {n}) = (IF Text(g, n) THEN 1 ELSE 0) + (IF OwnKey(g, n) THEN 1 ELSE 0)
    BY <1>0, StringsOne
  <2>6. h.strings = Strings(h, L) /\ h.strings \in Int
    BY <1>0, ItemType DEF Good, L
  <2>7. Strings(g, {n}) = IF Text(g, n) THEN 1 ELSE 0
    BY <2>4, <2>5
  <2>8. g.strings = Strings(h, L) + Strings(g, {n})
    BY <1>1, <2>6, <2>7
  <2> QED
    BY <1>7, <2>1, <2>3, <2>8
<1>10. \A m \in Node \ LiveIn(g) : g.item[m].key = None
  BY <1>0, <1>4, <1>7 DEF Good, L
<1>11. Lists(Nx(g), Pv(g), Ch(g), K)
  BY <1>5, GoodFacts
<1>12. Good(g, K, H \cup {n})
  BY <1>1, <1>7, <1>8, <1>9, <1>10, <1>11 DEF Good
<1> QED
  BY <1>5, <1>7, <1>12 DEF g, L

\* The call that fails to allocate the string leaves the item of a list.
LEMMA UnfilledIs ==
    ASSUME NEW h \in Heap, NEW n \in Node
    PROVE  cJSON_New_ItemUnfilled(h, n) = cJSON_New_Item(h, n, "list")
<1>1. h = [item |-> h.item, strings |-> h.strings]
  BY DEF Heap
<1> QED
  BY <1>1 DEF cJSON_New_ItemUnfilled, cJSON_New_Item

\* Setting a key frees the string of the old one and owns that of the new: the
\* count stays right.
LEMMA KeyGood ==
    ASSUME NEW h, NEW K, NEW H, Good(h, K, H), NEW i \in LiveIn(h), NEW name \in Key \cup {None}
    PROVE  LET g == SetKey(h, i, name) IN
           /\ Good(g, K, H) /\ LiveIn(g) = LiveIn(h) /\ Ky(g) = [Ky(h) EXCEPT ![i] = name]
           /\ Nx(g) = Nx(h) /\ Pv(g) = Pv(h) /\ Ch(g) = Ch(h)
<1> DEFINE g == SetKey(h, i, name)
           L == LiveIn(h)
           new == [kind |-> h.item[i].kind, key |-> name, const |-> (name \in Literal),
                   next |-> h.item[i].next, prev |-> h.item[i].prev, child |-> h.item[i].child]
           s == h.strings - (IF OwnKey(h, i) THEN 1 ELSE 0) + (IF name \in Literal \cup {None} THEN 0 ELSE 1)
<1>0. h \in Heap /\ L \in SUBSET Node /\ i \in Node
  BY GoodFacts
<1>1. h.item \in [Node -> Item] /\ h.strings \in Int /\ h = [item |-> h.item, strings |-> h.strings]
  BY <1>0 DEF Heap
<1>2. /\ h.item[i].kind \in KindOf
      /\ h.item[i].next \in Ptr /\ h.item[i].prev \in Ptr /\ h.item[i].child \in Ptr
      /\ h.item[i] = [kind |-> h.item[i].kind, key |-> h.item[i].key, const |-> h.item[i].const,
                      next |-> h.item[i].next, prev |-> h.item[i].prev, child |-> h.item[i].child]
  BY <1>0, ItemType
<1>3. new \in Item
  BY <1>2 DEF Item
<1>5. g = [item |-> [h.item EXCEPT ![i] = new], strings |-> s]
  <2> DEFINE c == name \in Literal
  <2>1. g = WithKey(h, i, name, c, s)
    BY Zenon DEF SetKey, OwnKey, WithKey
  <2>2. Keyed(h.item[i], name, c) = new
    BY Zenon DEF Keyed
  <2> HIDE DEF c, s, g, new
  <2>3. WithKey(h, i, name, c, s) = HeapOf(At(h.item, i, Keyed(h.item[i], name, c)), s)
    BY <1>0, ExceptKey
  <2> QED
    BY <2>1, <2>2, <2>3 DEF HeapOf, At
<1>6. s \in Int
  BY <1>1
<1>7. /\ new.kind = h.item[i].kind /\ new.key = name /\ new.const = (name \in Literal)
      /\ new.next = h.item[i].next /\ new.prev = h.item[i].prev /\ new.child = h.item[i].child
  OBVIOUS
<1> HIDE DEF new, s, g
<1>8. g \in Heap /\ g.strings = s
  BY <1>1, <1>3, <1>5, <1>6 DEF Heap
<1>9. \A m \in Node : g.item[m] = IF m = i THEN new ELSE h.item[m]
  BY <1>1, <1>5
<1> HIDE DEF g
<1>10. \A m \in Node : /\ g.item[m].next = h.item[m].next /\ g.item[m].prev = h.item[m].prev
                       /\ g.item[m].child = h.item[m].child /\ g.item[m].kind = h.item[m].kind
                       /\ g.item[m].key = IF m = i THEN name ELSE h.item[m].key
                       /\ m # i => g.item[m].const = h.item[m].const
  BY <1>7, <1>9
<1>11. Nx(g) = Nx(h) /\ Pv(g) = Pv(h) /\ Ch(g) = Ch(h) /\ Ky(g) = [Ky(h) EXCEPT ![i] = name]
  BY <1>0, <1>10 DEF Nx, Pv, Ch, Ky
<1>12. LiveIn(g) = L
  BY <1>10, Zenon DEF LiveIn
<1>13. g.strings = Strings(g, L)
  <2> DEFINE R == L \ {i}
  <2>0. R \in SUBSET Node /\ R \cap {i} = {} /\ L = R \cup {i} /\ {i} \in SUBSET Node
    BY <1>0
  <2> HIDE DEF R
  <2>1. Strings(h, L) = Strings(h, R) + Strings(h, {i}) /\ Strings(g, L) = Strings(g, R) + Strings(g, {i})
    BY <2>0, StringsUnion
  <2>2. \A m \in R : (Text(g, m) <=> Text(h, m)) /\ (OwnKey(g, m) <=> OwnKey(h, m))
    BY <1>10, <2>0, Zenon DEF Text, OwnKey
  <2>3. Strings(g, R) = Strings(h, R) /\ Strings(h, R) \in Nat
    BY <2>0, <2>2, StringsSame, StringsAre
  <2>4. Strings(h, {i}) = (IF Text(h, i) THEN 1 ELSE 0) + (IF OwnKey(h, i) THEN 1 ELSE 0)
    BY <1>0, StringsOne
  <2>5. Strings(g, {i}) = (IF Text(g, i) THEN 1 ELSE 0) + (IF OwnKey(g, i) THEN 1 ELSE 0)
    BY <1>0, StringsOne
  <2>6. Text(g, i) <=> Text(h, i)
    BY <1>0, <1>10, Zenon DEF Text
  <2>7. OwnKey(g, i) <=> name \notin Literal \cup {None}
    BY <1>0, <1>7, <1>9 DEF OwnKey
  <2>8. h.strings = Strings(h, L)
    BY DEF Good, L
  <2> HIDE DEF L
  <2> QED
    BY <1>8, <2>1, <2>3, <2>4, <2>5, <2>6, <2>7, <2>8 DEF s
<1>14. \A m \in Node \ L : g.item[m].key = None
  <2>1. \A m \in Node \ L : h.item[m].key = None /\ m # i
    BY DEF Good
  <2> QED
    BY <1>10, <2>1
<1>15. Lists(Nx(g), Pv(g), Ch(g), K) /\ Grove(K, H, L)
  BY <1>11, GoodFacts
<1> HIDE DEF L
<1>16. Good(g, K, H)
  BY <1>8, <1>12, <1>13, <1>14, <1>15 DEF Good
<1> QED
  BY <1>11, <1>12, <1>16 DEF g, L

\* The items of a row with i at place w.
LEMMA WithAtSet ==
    ASSUME NEW L, NEW M, NEW w, NEW i, WithAt(L, M, w, i)
    PROVE  ToSet(M) = ToSet(L) \cup {i}
<1>0. /\ L \in Seq(Node) /\ M \in Seq(Node) /\ Len(L) \in Nat /\ Len(M) = Len(L) + 1 /\ w \in 1..Len(L) + 1 /\ i \in Node
      /\ \A j \in 1..Len(L) + 1 : M[j] = IF j < w THEN L[j] ELSE IF j = w THEN i ELSE L[j - 1]
  BY DEF WithAt
<1>1. ToSet(M) = {M[j] : j \in 1..Len(M)} /\ ToSet(L) = {L[j] : j \in 1..Len(L)}
  BY <1>0, Rows
<1>2. \A j \in 1..Len(M) : M[j] = i \/ \E k \in 1..Len(L) : M[j] = L[k]
  <2> SUFFICES ASSUME NEW j \in 1..Len(M) PROVE M[j] = i \/ \E k \in 1..Len(L) : M[j] = L[k]
    OBVIOUS
  <2>1. CASE j < w
    <3>1. j \in 1..Len(L) /\ M[j] = L[j]
      BY <1>0, <2>1
    <3> QED
      BY <3>1
  <2>2. CASE j = w
    BY <1>0, <2>2
  <2>3. CASE j > w
    <3>1. j - 1 \in 1..Len(L) /\ M[j] = L[j - 1]
      BY <1>0, <2>3
    <3> QED
      BY <3>1
  <2> QED
    BY <1>0, <2>1, <2>2, <2>3
<1>3. w \in 1..Len(M) /\ M[w] = i
  <2>1. M[w] = IF w < w THEN L[w] ELSE IF w = w THEN i ELSE L[w - 1]
    BY <1>0
  <2> QED
    BY <1>0, <2>1
<1>4. \A k \in 1..Len(L) : \E j \in 1..Len(M) : M[j] = L[k]
  <2> SUFFICES ASSUME NEW k \in 1..Len(L) PROVE \E j \in 1..Len(M) : M[j] = L[k]
    OBVIOUS
  <2>1. CASE k < w
    <3>1. k \in 1..Len(M) /\ M[k] = L[k]
      BY <1>0, <2>1
    <3> QED
      BY <3>1
  <2>2. CASE k >= w
    <3>1. k + 1 \in 1..Len(M) /\ k + 1 > w /\ (k + 1) - 1 = k
      BY <1>0, <2>2
    <3>2. M[k + 1] = L[k]
      BY <1>0, <3>1
    <3> QED
      BY <3>1, <3>2
  <2> QED
    BY <1>0, <2>1, <2>2
<1>5. ASSUME NEW n \in ToSet(M) PROVE n \in ToSet(L) \cup {i}
  <2>1. PICK j \in 1..Len(M) : n = M[j]
    BY <1>1
  <2>2. CASE M[j] = i
    BY <2>1, <2>2
  <2>3. CASE \E k \in 1..Len(L) : M[j] = L[k]
    BY <1>1, <2>1, <2>3
  <2> QED
    BY <1>2, <2>1, <2>2, <2>3
<1>6. ToSet(L) \subseteq ToSet(M)
  BY <1>1, <1>4
<1>7. i \in ToSet(M)
  BY <1>1, <1>3
<1> QED
  BY <1>5, <1>6, <1>7

\* K with the sequence s of p.
Row(K, p, s) == [K EXCEPT ![p] = s]

\* K with i at place w of p.
Grown(K, p, w, i) == Row(K, p, InsertAt(K[p], w, i))

\* The item i, a root, put at place w of p.
LEMMA PlacedGood ==
    ASSUME NEW h, NEW K, NEW H, Good(h, K, H), NEW p \in LiveIn(h), NEW i \in H, p \notin Tree(K, i),
           NEW w \in 1..Len(K[p]) + 1, NEW g \in Heap, SameTexts(h, g),
           Inserted(Nx(h), Pv(h), Ch(h), K[p], p, w, i, Nx(g), Pv(g), Ch(g))
    PROVE  /\ Good(g, Grown(K, p, w, i), H \ {i})
           /\ LiveIn(g) = LiveIn(h) /\ Ky(g) = Ky(h)
<1> DEFINE M == InsertAt(K[p], w, i)
           J == Row(K, p, M)
<1>0. /\ p \in Node /\ i \in Node /\ K \in [Node -> Seq(Node)] /\ K[p] \in Seq(Node) /\ Len(K[p]) \in Nat
      /\ Lists(Nx(h), Pv(h), Ch(h), K) /\ Grove(K, H, LiveIn(h)) /\ IsTop(K, i)
  <2>1. /\ LiveIn(h) \subseteq Node /\ H \subseteq LiveIn(h) /\ K \in [Node -> Seq(Node)]
        /\ Lists(Nx(h), Pv(h), Ch(h), K) /\ Grove(K, H, LiveIn(h)) /\ IsTop(K, i)
    BY GoodFacts
  <2>2. p \in Node /\ i \in Node /\ K[p] \in Seq(Node)
    BY <2>1
  <2> QED
    BY <2>1, <2>2
<1>1. /\ M \in Seq(Node) /\ Len(M) = Len(K[p]) + 1
      /\ \A j \in 1..Len(K[p]) + 1 : M[j] = IF j < w THEN K[p][j] ELSE IF j = w THEN i ELSE K[p][j - 1]
  BY <1>0, InsertAtPlaces
<1> HIDE DEF M
<1>2. J \in [Node -> Seq(Node)] /\ J[p] = M /\ \A q \in Node \ {p} : J[q] = K[q]
  BY <1>0, <1>1 DEF Row
<1>3. OneRow(K, J, p) /\ WithAt(K[p], J[p], w, i)
  BY <1>0, <1>1, <1>2 DEF OneRow, WithAt
<1>4. ToSet(M) = ToSet(K[p]) \cup {i}
  BY <1>2, <1>3, WithAtSet
<1> HIDE DEF J
<1>5. Grove(J, H \ {i}, LiveIn(h))
  BY <1>0, <1>2, <1>3, <1>4, GroveLink
<1>6. Lists(Nx(g), Pv(g), Ch(g), J)
  BY <1>0, <1>3, InsertLists
<1>7. Good(g, J, H \ {i}) /\ LiveIn(g) = LiveIn(h) /\ Ky(g) = Ky(h)
  BY <1>5, <1>6, Relinked
<1> QED
  BY <1>7 DEF J, M, Grown

\* What add_item_to_array sets are the links with i at the end.
LEMMA AddViews ==
    ASSUME NEW h, NEW K, NEW H, Good(h, K, H), NEW p \in Node, NEW i \in H
    PROVE  LET g == add_item_to_array(h, p, i) IN
           /\ g \in Heap /\ SameTexts(h, g)
           /\ Inserted(Nx(h), Pv(h), Ch(h), K[p], p, Len(K[p]) + 1, i, Nx(g), Pv(g), Ch(g))
<1> DEFINE g == add_item_to_array(h, p, i)
           L == K[p]
           c == h.item[p].child
<1>0. /\ i \in Node /\ h \in Heap /\ L \in Seq(Node) /\ Len(L) \in Nat
      /\ Lists(Nx(h), Pv(h), Ch(h), K) /\ IsTop(K, i)
  <2>1. /\ h \in Heap /\ LiveIn(h) \subseteq Node /\ H \subseteq LiveIn(h) /\ K \in [Node -> Seq(Node)]
        /\ Lists(Nx(h), Pv(h), Ch(h), K) /\ IsTop(K, i)
    BY GoodFacts
  <2>2. L \in Seq(Node)
    BY <2>1
  <2> QED
    BY <2>1, <2>2
<1>1. Nx(h) \in [Node -> Ptr] /\ Pv(h) \in [Node -> Ptr] /\ Ch(h) \in [Node -> Ptr]
  BY <1>0, ViewTypes
<1>2. /\ \A j \in 1..Len(L) : L[j] \in Node /\ L[j] # i
      /\ c = IF Len(L) = 0 THEN Null ELSE L[1]
      /\ \A j \in 1..Len(L) : Pv(h)[L[j]] = IF j = 1 THEN L[Len(L)] ELSE L[j - 1]
      /\ Nx(h)[i] = Null
  BY <1>0, ListFacts, Views DEF IsTop
<1>3. Null \notin Node /\ i \in Ptr
  BY <1>0, NodeAssumption DEF Ptr
<1> HIDE DEF L, c
<1>4. CASE Len(L) = 0
  <2> DEFINE g1 == Put(h, p, "child", i)
             g2 == Put(g1, i, "prev", i)
             g3 == Put(g2, i, "next", Null)
  <2>1. g = g3
    BY <1>2, <1>4, Zenon DEF add_item_to_array, c
  <2>2. /\ g1 \in Heap /\ Nx(g1) = Nx(h) /\ Pv(g1) = Pv(h) /\ Ch(g1) = [Ch(h) EXCEPT ![p] = i]
        /\ SameTexts(h, g1)
    BY <1>0, <1>3, PutChild DEF SameTexts
  <2> HIDE DEF g1
  <2>3. /\ g2 \in Heap /\ Nx(g2) = Nx(g1) /\ Pv(g2) = [Pv(g1) EXCEPT ![i] = i] /\ Ch(g2) = Ch(g1)
        /\ SameTexts(g1, g2)
    BY <1>0, <1>3, <2>2, PutPrev DEF SameTexts
  <2> HIDE DEF g2
  <2>4. /\ g3 \in Heap /\ Nx(g3) = [Nx(g2) EXCEPT ![i] = Null] /\ Pv(g3) = Pv(g2) /\ Ch(g3) = Ch(g2)
        /\ SameTexts(g2, g3)
    <3>1. Null \in Ptr
      BY DEF Ptr
    <3> QED
      BY <1>0, <2>3, <3>1, PutNext DEF SameTexts
  <2> HIDE DEF g3, g
  <2>5. g \in Heap /\ SameTexts(h, g)
    BY <2>1, <2>2, <2>3, <2>4 DEF SameTexts
  <2>6. /\ Nx(g) = [Nx(h) EXCEPT ![i] = Null] /\ Pv(g) = [Pv(h) EXCEPT ![i] = i] /\ Ch(g) = [Ch(h) EXCEPT ![p] = i]
        /\ Nx(g) \in [Node -> Ptr] /\ Pv(g) \in [Node -> Ptr] /\ Ch(g) \in [Node -> Ptr]
    BY <2>1, <2>2, <2>3, <2>4, <2>5, ViewTypes
  <2>7. Inserted(Nx(h), Pv(h), Ch(h), L, p, Len(L) + 1, i, Nx(g), Pv(g), Ch(g))
    BY <1>0, <1>1, <1>4, <2>6 DEF Inserted
  <2> QED
    BY <2>5, <2>7 DEF g, L
<1>5. CASE Len(L) # 0
  <2> DEFINE e == L[Len(L)]
             f == L[1]
             g1 == Put(h, e, "next", i)
             g2 == Put(g1, i, "prev", e)
             g3 == Put(g2, f, "prev", i)
  <2>0. e \in Node /\ e # i /\ f \in Node /\ f # i /\ c = f /\ Pv(h)[f] = e
    BY <1>0, <1>2, <1>5
  <2>1. g = g3
    <3>1. c # Null /\ h.item[c].prev = e /\ e # Null
      BY <1>3, <2>0, Views
    <3> HIDE DEF e, f
    <3> QED
      BY <2>0, <3>1, Zenon DEF add_item_to_array, suffix_object, c
  <2> HIDE DEF e, f
  <2>a. e \in Ptr
    BY <2>0 DEF Ptr
  <2>2. /\ g1 \in Heap /\ Nx(g1) = [Nx(h) EXCEPT ![e] = i] /\ Pv(g1) = Pv(h) /\ Ch(g1) = Ch(h)
        /\ SameTexts(h, g1)
    BY <1>0, <1>3, <2>0, PutNext DEF SameTexts
  <2> HIDE DEF g1
  <2>3. /\ g2 \in Heap /\ Nx(g2) = Nx(g1) /\ Pv(g2) = [Pv(g1) EXCEPT ![i] = e] /\ Ch(g2) = Ch(g1)
        /\ SameTexts(g1, g2)
    BY <1>0, <2>a, <2>2, PutPrev DEF SameTexts
  <2> HIDE DEF g2
  <2>4. /\ g3 \in Heap /\ Nx(g3) = Nx(g2) /\ Pv(g3) = [Pv(g2) EXCEPT ![f] = i] /\ Ch(g3) = Ch(g2)
        /\ SameTexts(g2, g3)
    BY <1>3, <2>0, <2>3, PutPrev DEF SameTexts
  <2> HIDE DEF g3, g
  <2>5. g \in Heap /\ SameTexts(h, g)
    BY <2>1, <2>2, <2>3, <2>4 DEF SameTexts
  <2>6. /\ Nx(g) = [Nx(h) EXCEPT ![e] = i] /\ Pv(g) = [[Pv(h) EXCEPT ![i] = e] EXCEPT ![f] = i] /\ Ch(g) = Ch(h)
        /\ Nx(g) \in [Node -> Ptr] /\ Pv(g) \in [Node -> Ptr] /\ Ch(g) \in [Node -> Ptr]
    BY <2>1, <2>2, <2>3, <2>4, <2>5, ViewTypes
  <2>7. /\ \A n \in Node : Nx(g)[n] = IF n = e THEN i ELSE Nx(h)[n]
        /\ \A n \in Node : Pv(g)[n] = IF n = f THEN i ELSE IF n = i THEN e ELSE Pv(h)[n]
        /\ \A n \in Node : Ch(g)[n] = Ch(h)[n]
    BY <1>1, <2>6
  <2>8. Inserted(Nx(h), Pv(h), Ch(h), L, p, Len(L) + 1, i, Nx(g), Pv(g), Ch(g))
    <3>1. Len(L) + 1 > 1 /\ (Len(L) + 1) - 1 = Len(L) /\ ~(Len(L) + 1 <= Len(L)) /\ Len(L) > 0 /\ Len(L) + 1 # 1
      BY <1>0, <1>5
    <3> QED
      BY <1>2, <2>0, <2>6, <2>7, <3>1 DEF Inserted, e, f
  <2> QED
    BY <2>5, <2>8 DEF g, L
<1> QED
  BY <1>4, <1>5 DEF g

\* Setting a next, by the views.
LEMMA ToNext ==
    ASSUME NEW h \in Heap, NEW n \in Node, NEW to \in Ptr
    PROVE  LET g == Put(h, n, "next", to) IN
           /\ g \in Heap /\ SameTexts(h, g) /\ Pv(g) = Pv(h) /\ Ch(g) = Ch(h)
           /\ \A m \in Node : Nx(g)[m] = IF m = n THEN to ELSE Nx(h)[m]
<1> DEFINE g == Put(h, n, "next", to)
<1>1. /\ g \in Heap /\ Nx(g) = [Nx(h) EXCEPT ![n] = to] /\ Pv(g) = Pv(h) /\ Ch(g) = Ch(h)
      /\ SameTexts(h, g)
  BY PutNext DEF SameTexts
<1>2. Nx(h) \in [Node -> Ptr]
  BY ViewTypes
<1> HIDE DEF g
<1>3. \A m \in Node : Nx(g)[m] = IF m = n THEN to ELSE Nx(h)[m]
  BY <1>1, <1>2
<1> QED
  BY <1>1, <1>3 DEF g

\* g is h with the next of n set to to.
NextSet(h, g, n, to) ==
    /\ g \in Heap /\ SameTexts(h, g) /\ Pv(g) = Pv(h) /\ Ch(g) = Ch(h)
    /\ \A m \in Node : Nx(g)[m] = IF m = n THEN to ELSE Nx(h)[m]

\* Setting a next, in one word.
LEMMA ToNextSet ==
    ASSUME NEW h \in Heap, NEW n \in Node, NEW to \in Ptr
    PROVE  NextSet(h, Put(h, n, "next", to), n, to)
BY ToNext DEF NextSet

\* Setting a prev, by the views.
LEMMA ToPrev ==
    ASSUME NEW h \in Heap, NEW n \in Node, NEW to \in Ptr
    PROVE  LET g == Put(h, n, "prev", to) IN
           /\ g \in Heap /\ SameTexts(h, g) /\ Nx(g) = Nx(h) /\ Ch(g) = Ch(h)
           /\ \A m \in Node : Pv(g)[m] = IF m = n THEN to ELSE Pv(h)[m]
<1> DEFINE g == Put(h, n, "prev", to)
<1>1. /\ g \in Heap /\ Pv(g) = [Pv(h) EXCEPT ![n] = to] /\ Nx(g) = Nx(h) /\ Ch(g) = Ch(h)
      /\ SameTexts(h, g)
  BY PutPrev DEF SameTexts
<1>2. Pv(h) \in [Node -> Ptr]
  BY ViewTypes
<1> HIDE DEF g
<1>3. \A m \in Node : Pv(g)[m] = IF m = n THEN to ELSE Pv(h)[m]
  BY <1>1, <1>2
<1> QED
  BY <1>1, <1>3 DEF g

\* Setting a child, by the views.
LEMMA ToChild ==
    ASSUME NEW h \in Heap, NEW n \in Node, NEW to \in Ptr
    PROVE  LET g == Put(h, n, "child", to) IN
           /\ g \in Heap /\ SameTexts(h, g) /\ Nx(g) = Nx(h) /\ Pv(g) = Pv(h)
           /\ \A m \in Node : Ch(g)[m] = IF m = n THEN to ELSE Ch(h)[m]
<1> DEFINE g == Put(h, n, "child", to)
<1>1. /\ g \in Heap /\ Ch(g) = [Ch(h) EXCEPT ![n] = to] /\ Nx(g) = Nx(h) /\ Pv(g) = Pv(h)
      /\ SameTexts(h, g)
  BY PutChild DEF SameTexts
<1>2. Ch(h) \in [Node -> Ptr]
  BY ViewTypes
<1> HIDE DEF g
<1>3. \A m \in Node : Ch(g)[m] = IF m = n THEN to ELSE Ch(h)[m]
  BY <1>1, <1>2
<1> QED
  BY <1>1, <1>3 DEF g

\* Setting a next under a condition.
LEMMA MayNext ==
    ASSUME NEW h \in Heap, NEW c \in BOOLEAN, NEW n, NEW to, c => n \in Node /\ to \in Ptr
    PROVE  LET g == IF c THEN Put(h, n, "next", to) ELSE h IN
           /\ g \in Heap /\ SameTexts(h, g) /\ Pv(g) = Pv(h) /\ Ch(g) = Ch(h)
           /\ \A m \in Node : Nx(g)[m] = IF c /\ m = n THEN to ELSE Nx(h)[m]
<1> DEFINE g == IF c THEN Put(h, n, "next", to) ELSE h
<1>1. CASE c
  <2>1. /\ g \in Heap /\ Nx(g) = [Nx(h) EXCEPT ![n] = to] /\ Pv(g) = Pv(h) /\ Ch(g) = Ch(h)
        /\ SameTexts(h, g)
    BY <1>1, PutNext DEF SameTexts
  <2>2. Nx(h) \in [Node -> Ptr]
    BY ViewTypes
  <2> HIDE DEF g
  <2>3. \A m \in Node : Nx(g)[m] = IF c /\ m = n THEN to ELSE Nx(h)[m]
    BY <1>1, <2>1, <2>2
  <2> QED
    BY <2>1, <2>3 DEF g
<1>2. CASE ~c
  BY <1>2 DEF SameTexts
<1> QED
  BY <1>1, <1>2 DEF g

\* Setting a prev under a condition.
LEMMA MayPrev ==
    ASSUME NEW h \in Heap, NEW c \in BOOLEAN, NEW n, NEW to, c => n \in Node /\ to \in Ptr
    PROVE  LET g == IF c THEN Put(h, n, "prev", to) ELSE h IN
           /\ g \in Heap /\ SameTexts(h, g) /\ Nx(g) = Nx(h) /\ Ch(g) = Ch(h)
           /\ \A m \in Node : Pv(g)[m] = IF c /\ m = n THEN to ELSE Pv(h)[m]
<1> DEFINE g == IF c THEN Put(h, n, "prev", to) ELSE h
<1>1. CASE c
  <2>1. /\ g \in Heap /\ Pv(g) = [Pv(h) EXCEPT ![n] = to] /\ Nx(g) = Nx(h) /\ Ch(g) = Ch(h)
        /\ SameTexts(h, g)
    BY <1>1, PutPrev DEF SameTexts
  <2>2. Pv(h) \in [Node -> Ptr]
    BY ViewTypes
  <2> HIDE DEF g
  <2>3. \A m \in Node : Pv(g)[m] = IF c /\ m = n THEN to ELSE Pv(h)[m]
    BY <1>1, <2>1, <2>2
  <2> QED
    BY <2>1, <2>3 DEF g
<1>2. CASE ~c
  BY <1>2 DEF SameTexts
<1> QED
  BY <1>1, <1>2 DEF g

\* Setting a child under a condition.
LEMMA MayChild ==
    ASSUME NEW h \in Heap, NEW c \in BOOLEAN, NEW n, NEW to, c => n \in Node /\ to \in Ptr
    PROVE  LET g == IF c THEN Put(h, n, "child", to) ELSE h IN
           /\ g \in Heap /\ SameTexts(h, g) /\ Nx(g) = Nx(h) /\ Pv(g) = Pv(h)
           /\ \A m \in Node : Ch(g)[m] = IF c /\ m = n THEN to ELSE Ch(h)[m]
<1> DEFINE g == IF c THEN Put(h, n, "child", to) ELSE h
<1>1. CASE c
  <2>1. /\ g \in Heap /\ Ch(g) = [Ch(h) EXCEPT ![n] = to] /\ Nx(g) = Nx(h) /\ Pv(g) = Pv(h)
        /\ SameTexts(h, g)
    BY <1>1, PutChild DEF SameTexts
  <2>2. Ch(h) \in [Node -> Ptr]
    BY ViewTypes
  <2> HIDE DEF g
  <2>3. \A m \in Node : Ch(g)[m] = IF c /\ m = n THEN to ELSE Ch(h)[m]
    BY <1>1, <2>1, <2>2
  <2> QED
    BY <2>1, <2>3 DEF g
<1>2. CASE ~c
  BY <1>2 DEF SameTexts
<1> QED
  BY <1>1, <1>2 DEF g

\* What an item of a list and the ends of the list lead to.
LEMMA PlaceFacts ==
    ASSUME NEW h, NEW K, NEW H, Good(h, K, H), NEW p \in Node, NEW w \in 1..Len(K[p])
    PROVE  LET L == K[p] IN
           /\ h \in Heap /\ L \in Seq(Node) /\ Len(L) \in Nat /\ Null \notin Node
           /\ \A j \in 1..Len(L) : L[j] \in Node
           /\ \A j, k \in 1..Len(L) : L[j] = L[k] => j = k
           /\ h.item[p].child = L[1]
           /\ h.item[L[w]].next = IF w = Len(L) THEN Null ELSE L[w + 1]
           /\ h.item[L[w]].prev = IF w = 1 THEN L[Len(L)] ELSE L[w - 1]
           /\ h.item[p].child = L[w] <=> w = 1
           /\ h.item[L[w]].prev \in Node
           /\ h.item[L[w]].next = Null <=> w = Len(L)
<1> DEFINE L == K[p]
<1>1. h \in Heap /\ K \in [Node -> Seq(Node)] /\ Lists(Nx(h), Pv(h), Ch(h), K) /\ Null \notin Node
  BY GoodFacts, NodeAssumption
<1>2. /\ L \in Seq(Node) /\ Len(L) \in Nat
      /\ \A j \in 1..Len(L) : L[j] \in Node
      /\ \A j, k \in 1..Len(L) : L[j] = L[k] => j = k
      /\ Ch(h)[p] = IF Len(L) = 0 THEN Null ELSE L[1]
      /\ Nx(h)[L[w]] = IF w = Len(L) THEN Null ELSE L[w + 1]
      /\ Pv(h)[L[w]] = IF w = 1 THEN L[Len(L)] ELSE L[w - 1]
  BY <1>1, ListFacts
<1> HIDE DEF L
<1>3. L[w] \in Node /\ Len(L) # 0 /\ 1 \in 1..Len(L) /\ Len(L) \in 1..Len(L)
  BY <1>2 DEF L
<1>4. /\ h.item[p].child = L[1]
      /\ h.item[L[w]].next = IF w = Len(L) THEN Null ELSE L[w + 1]
      /\ h.item[L[w]].prev = IF w = 1 THEN L[Len(L)] ELSE L[w - 1]
  BY <1>2, <1>3, Views
<1>5. w # 1 => w - 1 \in 1..Len(L)
  BY <1>2 DEF L
<1>6. w # Len(L) => w + 1 \in 1..Len(L)
  BY <1>2 DEF L
<1>7. h.item[p].child = L[w] <=> w = 1
  BY <1>2, <1>3, <1>4 DEF L
<1>8. h.item[L[w]].prev \in Node
  BY <1>2, <1>3, <1>4, <1>5
<1>9. h.item[L[w]].next = Null <=> w = Len(L)
  BY <1>1, <1>2, <1>4, <1>6
<1> QED
  BY <1>1, <1>2, <1>4, <1>7, <1>8, <1>9 DEF L

\* What cJSON_InsertItemInArray sets are the links with i at place w, also at
\* the head.
LEMMA InsertViews ==
    ASSUME NEW h, NEW K, NEW H, Good(h, K, H), NEW p \in Node, NEW i \in H, NEW w \in 1..Len(K[p])
    PROVE  LET g == cJSON_InsertItemInArray(h, p, w, i) IN
           /\ g \in Heap /\ SameTexts(h, g)
           /\ Inserted(Nx(h), Pv(h), Ch(h), K[p], p, w, i, Nx(g), Pv(g), Ch(g))
<1> DEFINE g == cJSON_InsertItemInArray(h, p, w, i)
           L == K[p]
           after == L[w]
           before == h.item[after].prev
           c == h.item[p].child
           first == after = c
           later == after # c
           g1 == Put(h, i, "next", after)
           g2 == Put(g1, i, "prev", before)
           g3 == Put(g2, after, "prev", i)
           g4 == IF first THEN Put(g3, p, "child", i) ELSE g3
           g5 == IF later THEN Put(g4, before, "next", i) ELSE g4
<1>0. /\ h \in Heap /\ L \in Seq(Node) /\ Len(L) \in Nat /\ Null \notin Node
      /\ \A j \in 1..Len(L) : L[j] \in Node
      /\ \A j, k \in 1..Len(L) : L[j] = L[k] => j = k
      /\ c = L[1] /\ (first <=> w = 1) /\ before \in Node
      /\ before = IF w = 1 THEN L[Len(L)] ELSE L[w - 1]
  BY PlaceFacts
<1>1. i \in Node /\ IsTop(K, i) /\ i \in Ptr /\ Children(h, p) = L
  BY GoodFacts, GoodChildren DEF Ptr
<1>2. \A j \in 1..Len(L) : L[j] # i
  BY <1>1 DEF IsTop
<1>3. after \in Node /\ after # i /\ after # Null /\ before \in Ptr /\ after \in Ptr /\ w \in DOMAIN L
  BY <1>0, <1>2 DEF Ptr
<1>a. first \in BOOLEAN /\ later \in BOOLEAN /\ (later <=> ~first)
  OBVIOUS
<1> HIDE DEF L, after, before, c, first, later
<1>4. g = g5
  <2> DEFINE aft == IF w \in DOMAIN Children(h, p) THEN Children(h, p)[w] ELSE Null
             linked == Put(Put(Put(h, i, "next", aft), i, "prev", h.item[aft].prev), aft, "prev", i)
  <2>1. g = IF aft = Null THEN add_item_to_array(h, p, i)
            ELSE Put(linked, IF aft = h.item[p].child THEN p ELSE h.item[aft].prev,
                 IF aft = h.item[p].child THEN "child" ELSE "next", i)
    BY Zenon DEF cJSON_InsertItemInArray
  <2>2. aft = after
    BY <1>1, <1>3 DEF after
  <2>3. linked = g3
    BY <2>2, Zenon DEF before
  <2> HIDE DEF aft, linked, g, g3
  <2>4. first <=> aft = h.item[p].child
    BY <2>2, Zenon DEF first, c
  <2>5. h.item[aft].prev = before
    BY <2>2, Zenon DEF before
  <2>6. CASE first
    BY <1>3, <1>a, <2>1, <2>2, <2>3, <2>4, <2>5, <2>6, Zenon
  <2>7. CASE ~first
    BY <1>3, <1>a, <2>1, <2>2, <2>3, <2>4, <2>5, <2>7, Zenon
  <2> QED
    BY <2>6, <2>7
<1>5. /\ g1 \in Heap /\ SameTexts(h, g1) /\ Pv(g1) = Pv(h) /\ Ch(g1) = Ch(h)
      /\ \A m \in Node : Nx(g1)[m] = IF m = i THEN after ELSE Nx(h)[m]
  BY <1>0, <1>1, <1>3, ToNext
<1> HIDE DEF g1
<1>6. /\ g2 \in Heap /\ SameTexts(g1, g2) /\ Nx(g2) = Nx(g1) /\ Ch(g2) = Ch(g1)
      /\ \A m \in Node : Pv(g2)[m] = IF m = i THEN before ELSE Pv(g1)[m]
  BY <1>1, <1>3, <1>5, ToPrev
<1> HIDE DEF g2
<1>7. /\ g3 \in Heap /\ SameTexts(g2, g3) /\ Nx(g3) = Nx(g2) /\ Ch(g3) = Ch(g2)
      /\ \A m \in Node : Pv(g3)[m] = IF m = after THEN i ELSE Pv(g2)[m]
  BY <1>1, <1>3, <1>6, ToPrev
<1> HIDE DEF g3
<1>8. /\ g4 \in Heap /\ SameTexts(g3, g4) /\ Nx(g4) = Nx(g3) /\ Pv(g4) = Pv(g3)
      /\ \A m \in Node : Ch(g4)[m] = IF first /\ m = p THEN i ELSE Ch(g3)[m]
  BY <1>1, <1>a, <1>7, MayChild
<1> HIDE DEF g4
<1>9. /\ g5 \in Heap /\ SameTexts(g4, g5) /\ Pv(g5) = Pv(g4) /\ Ch(g5) = Ch(g4)
      /\ \A m \in Node : Nx(g5)[m] = IF ~first /\ m = before THEN i ELSE Nx(g4)[m]
  <2>1. \A m \in Node : Nx(g5)[m] = IF later /\ m = before THEN i ELSE Nx(g4)[m]
    BY <1>0, <1>1, <1>a, <1>8, MayNext
  <2>2. g5 \in Heap /\ SameTexts(g4, g5) /\ Pv(g5) = Pv(g4) /\ Ch(g5) = Ch(g4)
    BY <1>0, <1>1, <1>a, <1>8, MayNext
  <2> QED
    BY <1>a, <2>1, <2>2
<1> HIDE DEF g5, g
<1>10. g \in Heap /\ SameTexts(h, g)
  BY <1>4, <1>5, <1>6, <1>7, <1>8, <1>9 DEF SameTexts
<1>11. Nx(g) \in [Node -> Ptr] /\ Pv(g) \in [Node -> Ptr] /\ Ch(g) \in [Node -> Ptr]
  BY <1>10, ViewTypes
<1>12. /\ \A m \in Node : Nx(g)[m] = IF ~first /\ m = before THEN i ELSE IF m = i THEN after ELSE Nx(h)[m]
       /\ \A m \in Node : Pv(g)[m] = IF m = after THEN i ELSE IF m = i THEN before ELSE Pv(h)[m]
       /\ \A m \in Node : Ch(g)[m] = IF first /\ m = p THEN i ELSE Ch(h)[m]
  BY <1>4, <1>5, <1>6, <1>7, <1>8, <1>9
<1>13. Inserted(Nx(h), Pv(h), Ch(h), L, p, w, i, Nx(g), Pv(g), Ch(g))
  <2>0. w \in 1..Len(L) /\ Len(L) # 0 /\ w # Len(L) + 1 /\ w <= Len(L)
    BY <1>0 DEF L
  <2>1. CASE w = 1
    BY <1>0, <1>3, <1>11, <1>12, <2>0, <2>1 DEF Inserted, after
  <2>2. CASE w # 1
    <3>1. w > 1 /\ w - 1 \in 1..Len(L)
      BY <2>0, <2>2, <1>0
    <3>2. before = L[w - 1] /\ before # i
      BY <1>0, <1>2, <2>2, <3>1
    <3> QED
      BY <1>0, <1>3, <1>11, <1>12, <2>0, <2>2, <3>1, <3>2 DEF Inserted, after
  <2> QED
    BY <2>1, <2>2
<1> QED
  BY <1>10, <1>13 DEF g, L

\* What cJSON_DetachItemViaPointer sets are the links without the item, also
\* at the head and at the tail.
LEMMA DetachViews ==
    ASSUME NEW h, NEW K, NEW H, Good(h, K, H), NEW p \in Node, NEW w \in 1..Len(K[p])
    PROVE  LET g == cJSON_DetachItemViaPointer(h, p, K[p][w]) IN
           /\ g \in Heap /\ SameTexts(h, g)
           /\ Removed(Nx(h), Pv(h), Ch(h), K[p], p, w, K[p][w], Nx(g), Pv(g), Ch(g))
<1> DEFINE L == K[p]
           i == L[w]
           g == cJSON_DetachItemViaPointer(h, p, i)
           next == h.item[i].next
           prev == h.item[i].prev
           c == h.item[p].child
           first == c = i
           later == ~first
           inner == next # Null
           tail == ~first /\ next = Null
           g1 == IF later THEN Put(h, prev, "next", next) ELSE h
           g2 == IF inner THEN Put(g1, next, "prev", prev) ELSE g1
           g3 == IF first THEN Put(g2, p, "child", next) ELSE g2
           g4 == IF tail THEN Put(g3, c, "prev", prev) ELSE g3
           g5 == Put(g4, i, "prev", Null)
           g6 == Put(g5, i, "next", Null)
<1>0. /\ h \in Heap /\ L \in Seq(Node) /\ Len(L) \in Nat /\ Null \notin Node
      /\ \A j \in 1..Len(L) : L[j] \in Node
      /\ \A j, k \in 1..Len(L) : L[j] = L[k] => j = k
      /\ c = L[1] /\ (first <=> w = 1) /\ prev \in Node /\ (next = Null <=> w = Len(L))
      /\ prev = IF w = 1 THEN L[Len(L)] ELSE L[w - 1]
      /\ next = IF w = Len(L) THEN Null ELSE L[w + 1]
  BY PlaceFacts
<1>1. /\ first \in BOOLEAN /\ later \in BOOLEAN /\ inner \in BOOLEAN /\ tail \in BOOLEAN
      /\ (later <=> w # 1) /\ (inner <=> w # Len(L)) /\ (tail <=> w # 1 /\ w = Len(L)) /\ (first <=> w = 1)
  BY <1>0
<1>2. w \in 1..Len(L) /\ Len(L) # 0 /\ 1 \in 1..Len(L) /\ Len(L) \in 1..Len(L)
  BY <1>0
<1>3. i \in Node /\ c \in Node /\ Null \in Ptr /\ prev \in Ptr /\ i # Null
  BY <1>0, <1>2 DEF Ptr
<1>4. (w # 1 => w - 1 \in 1..Len(L)) /\ (w # Len(L) => w + 1 \in 1..Len(L))
  BY <1>0, <1>2
<1>5. next \in Ptr /\ (inner => next \in Node)
  BY <1>0, <1>1, <1>4 DEF Ptr
<1>6. g = g6
  <2> DEFINE h3 == IF first THEN Put(g2, p, "child", next)
                   ELSE IF next = Null THEN Put(g2, g2.item[p].child, "prev", prev) ELSE g2
  <2>1. g = Put(Put(h3, i, "prev", Null), i, "next", Null)
    BY Zenon DEF cJSON_DetachItemViaPointer
  <2>2. g2.item[p].child = c
    <3>1. Ch(g1) = Ch(h) /\ g1 \in Heap
      <4> HIDE DEF later, prev, next
      <4> QED
        BY <1>0, <1>1, <1>3, <1>5, MayNext
    <3>2. Ch(g2) = Ch(g1)
      <4> HIDE DEF inner, prev, next, g1
      <4> QED
        BY <1>1, <1>3, <1>5, <3>1, MayPrev
    <3> HIDE DEF g2, g1
    <3> QED
      BY <3>1, <3>2, Views
  <2> HIDE DEF g2, g, c, next, prev, i
  <2>3. h3 = g4
    <3>1. CASE first
      BY <3>1
    <3>2. CASE ~first
      BY <2>2, <3>2
    <3> QED
      BY <3>1, <3>2
  <2> QED
    BY <2>1, <2>3
<1> HIDE DEF L, i, next, prev, c, first, later, inner, tail
<1>7. /\ g1 \in Heap /\ SameTexts(h, g1) /\ Pv(g1) = Pv(h) /\ Ch(g1) = Ch(h)
      /\ \A m \in Node : Nx(g1)[m] = IF later /\ m = prev THEN next ELSE Nx(h)[m]
  BY <1>0, <1>1, <1>5, MayNext
<1> HIDE DEF g1
<1>8. /\ g2 \in Heap /\ SameTexts(g1, g2) /\ Nx(g2) = Nx(g1) /\ Ch(g2) = Ch(g1)
      /\ \A m \in Node : Pv(g2)[m] = IF inner /\ m = next THEN prev ELSE Pv(g1)[m]
  BY <1>1, <1>3, <1>5, <1>7, MayPrev
<1> HIDE DEF g2
<1>9. /\ g3 \in Heap /\ SameTexts(g2, g3) /\ Nx(g3) = Nx(g2) /\ Pv(g3) = Pv(g2)
      /\ \A m \in Node : Ch(g3)[m] = IF first /\ m = p THEN next ELSE Ch(g2)[m]
  BY <1>1, <1>5, <1>8, MayChild
<1> HIDE DEF g3
<1>10. /\ g4 \in Heap /\ SameTexts(g3, g4) /\ Nx(g4) = Nx(g3) /\ Ch(g4) = Ch(g3)
       /\ \A m \in Node : Pv(g4)[m] = IF tail /\ m = c THEN prev ELSE Pv(g3)[m]
  BY <1>1, <1>3, <1>9, MayPrev
<1> HIDE DEF g4
<1>11. /\ g5 \in Heap /\ SameTexts(g4, g5) /\ Nx(g5) = Nx(g4) /\ Ch(g5) = Ch(g4)
       /\ \A m \in Node : Pv(g5)[m] = IF m = i THEN Null ELSE Pv(g4)[m]
  BY <1>3, <1>10, ToPrev
<1> HIDE DEF g5
<1>12. /\ g6 \in Heap /\ SameTexts(g5, g6) /\ Pv(g6) = Pv(g5) /\ Ch(g6) = Ch(g5)
       /\ \A m \in Node : Nx(g6)[m] = IF m = i THEN Null ELSE Nx(g5)[m]
  BY <1>3, <1>11, ToNext
<1> HIDE DEF g6, g
<1>13. g \in Heap /\ SameTexts(h, g)
  BY <1>6, <1>7, <1>8, <1>9, <1>10, <1>11, <1>12 DEF SameTexts
<1>14. Nx(g) \in [Node -> Ptr] /\ Pv(g) \in [Node -> Ptr] /\ Ch(g) \in [Node -> Ptr]
  BY <1>13, ViewTypes
<1>15. /\ \A m \in Node : Nx(g)[m] = IF m = i THEN Null ELSE IF later /\ m = prev THEN next ELSE Nx(h)[m]
       /\ \A m \in Node : Pv(g)[m] = IF m = i THEN Null ELSE IF tail /\ m = c THEN prev
                                     ELSE IF inner /\ m = next THEN prev ELSE Pv(h)[m]
       /\ \A m \in Node : Ch(g)[m] = IF first /\ m = p THEN next ELSE Ch(h)[m]
  BY <1>6, <1>7, <1>8, <1>9, <1>10, <1>11, <1>12
<1>16. Nx(h)[i] = next /\ Pv(h)[i] = prev
  BY <1>3, Views DEF next, prev
<1>17. Removed(Nx(h), Pv(h), Ch(h), L, p, w, i, Nx(g), Pv(g), Ch(g))
  <2>1. (w > 1 <=> w # 1) /\ (w < Len(L) <=> w # Len(L))
    BY <1>0, <1>2
  <2>2. w # 1 => prev = L[w - 1]
    BY <1>0
  <2>3. w # Len(L) => next = L[w + 1]
    BY <1>0
  <2> QED
    BY <1>0, <1>1, <1>14, <1>15, <1>16, <2>1, <2>2, <2>3 DEF Removed
<1> QED
  BY <1>13, <1>17 DEF g, L, i

\* K without the item at place w of p.
Shorter(K, p, w) == Row(K, p, RemoveAt(K[p], w))

\* The item at place w of p taken out of the forest.
LEMMA TakenOut ==
    ASSUME NEW h, NEW K, NEW H, Good(h, K, H), NEW p \in Node, NEW w \in 1..Len(K[p])
    PROVE  LET J == Shorter(K, p, w) IN
           /\ OneRow(J, K, p) /\ OneRow(K, J, p) /\ WithAt(J[p], K[p], w, K[p][w])
           /\ ToSet(K[p]) = ToSet(J[p]) \cup {K[p][w]}
           /\ Grove(J, H \cup {K[p][w]}, LiveIn(h)) /\ p \in LiveIn(h)
<1> DEFINE i == K[p][w]
           M == RemoveAt(K[p], w)
           J == Row(K, p, M)
<1>0. /\ K \in [Node -> Seq(Node)] /\ K[p] \in Seq(Node) /\ Len(K[p]) \in Nat
      /\ Lists(Nx(h), Pv(h), Ch(h), K) /\ Apart(K) /\ Grove(K, H, LiveIn(h)) /\ i \in Node
  BY GoodFacts, PlaceFacts DEF Lists
<1>2. /\ M \in Seq(Node) /\ Len(M) = Len(K[p]) - 1
      /\ \A j \in 1..Len(K[p]) - 1 : M[j] = IF j < w THEN K[p][j] ELSE K[p][j + 1]
  BY <1>0, RemoveAtPlaces
<1> HIDE DEF M
<1>3. J \in [Node -> Seq(Node)] /\ J[p] = M /\ \A q \in Node \ {p} : J[q] = K[q]
  BY <1>0, <1>2 DEF Row
<1> HIDE DEF J
<1>4. OneRow(J, K, p) /\ OneRow(K, J, p)
  BY <1>0, <1>3 DEF OneRow
<1>5. WithAt(M, K[p], w, i)
  <2>1. Len(M) \in Nat /\ Len(K[p]) = Len(M) + 1 /\ w \in 1..Len(M) + 1
    BY <1>0, <1>2
  <2>2. ASSUME NEW j \in 1..Len(M) + 1 PROVE K[p][j] = IF j < w THEN M[j] ELSE IF j = w THEN i ELSE M[j - 1]
    <3>1. CASE j < w
      BY <1>2, <2>1, <3>1
    <3>2. CASE j = w
      BY <3>2
    <3>3. CASE j > w
      <4>1. j - 1 \in 1..Len(K[p]) - 1 /\ ~(j - 1 < w) /\ (j - 1) + 1 = j
        BY <2>1, <3>3
      <4>2. M[j - 1] = K[p][j]
        BY <1>2, <4>1
      <4> QED
        BY <2>1, <3>3, <4>2
    <3> QED
      BY <2>1, <3>1, <3>2, <3>3
  <2> QED
    BY <1>0, <1>2, <2>1, <2>2 DEF WithAt
<1> HIDE DEF i
<1>6. IsTop(J, i)
  BY <1>0, <1>3, <1>4, <1>5, RemoveApart
<1>7. ToSet(K[p]) = ToSet(J[p]) \cup {i}
  BY <1>3, <1>5, WithAtSet
<1>8. i \notin ToSet(J[p])
  <2>1. ASSUME i \in ToSet(J[p]) PROVE FALSE
    <3>1. PICK j \in 1..Len(J[p]) : i = J[p][j]
      BY <1>3, <2>1, PlaceOf
    <3> QED
      BY <1>6, <3>1 DEF IsTop
  <2> QED
    BY <2>1
<1>9. Grove(J, H \cup {i}, LiveIn(h)) /\ p \in LiveIn(h)
  <2>1. Grove(K, H, LiveIn(h))
    BY <1>0
  <2> QED
    BY <1>4, <1>7, <1>8, <2>1, GroveUnlink
<1> QED
  BY <1>3, <1>4, <1>5, <1>7, <1>9 DEF i, J, M, Shorter

\* What taking the item i at place w of p out comes to.
TakesOut(h, K, H, p, w, i) ==
    LET g == cJSON_DetachItemViaPointer(h, p, i) IN
    Good(g, Shorter(K, p, w), H \cup {i}) /\ LiveIn(g) = LiveIn(h) /\ Ky(g) = Ky(h)

\* The item at place w of p taken out.
LEMMA DetachGood ==
    ASSUME NEW h, NEW K, NEW H, Good(h, K, H), NEW p \in Node, NEW w \in 1..Len(K[p])
    PROVE  TakesOut(h, K, H, p, w, K[p][w])
<1> DEFINE i == K[p][w]
           g == cJSON_DetachItemViaPointer(h, p, i)
           J == Shorter(K, p, w)
<1>1. g \in Heap /\ SameTexts(h, g) /\ Removed(Nx(h), Pv(h), Ch(h), K[p], p, w, i, Nx(g), Pv(g), Ch(g))
  BY DetachViews
<1> HIDE DEF g, J
<1>2. /\ OneRow(J, K, p) /\ OneRow(K, J, p) /\ WithAt(J[p], K[p], w, i)
      /\ Grove(J, H \cup {i}, LiveIn(h)) /\ p \in LiveIn(h)
  BY TakenOut DEF J
<1>3. Lists(Nx(g), Pv(g), Ch(g), J)
  <2>1. Lists(Nx(h), Pv(h), Ch(h), K)
    BY GoodFacts
  <2> HIDE DEF i
  <2> QED
    BY <1>1, <1>2, <2>1, RemoveLists
<1> HIDE DEF i
<1>4. Good(g, J, H \cup {i}) /\ LiveIn(g) = LiveIn(h) /\ Ky(g) = Ky(h)
  BY <1>1, <1>2, <1>3, Relinked
<1> QED
  BY <1>4, Zenon DEF g, J, i, TakesOut

\* The new heap without the items of gone.
LEMMA DeleteIs ==
    ASSUME NEW h \in Heap, NEW i, Doomed(h, i) \in SUBSET Node
    PROVE  LET g == cJSON_Delete(h, i) IN
           /\ g \in Heap /\ g.strings = h.strings - Strings(h, Doomed(h, i))
           /\ \A n \in Node : g.item[n] = IF n \in Doomed(h, i) THEN Blank ELSE h.item[n]
<1> DEFINE g == cJSON_Delete(h, i)
           T == Doomed(h, i)
           f == [n \in Node |-> IF n \in T THEN Blank ELSE h.item[n]]
           s == h.strings - Strings(h, T)
<1>1. g = HeapOf(f, s)
  BY Zenon DEF cJSON_Delete, HeapOf
<1>2. Blank \in Item
  BY DEF Blank, Item, KindOf, Ptr
<1>3. f \in [Node -> Item]
  BY <1>2, ItemType
<1>4. s \in Int
  <2>1. Strings(h, T) \in Nat
    BY StringsAre
  <2>2. h.strings \in Int
    BY DEF Heap
  <2> HIDE DEF T
  <2> QED
    BY <2>1, <2>2
<1>5. \A n \in Node : f[n] = IF n \in T THEN Blank ELSE h.item[n]
  OBVIOUS
<1> HIDE DEF f, s, g
<1>6. g.item = f /\ g.strings = s /\ g \in Heap
  BY <1>1, <1>3, <1>4 DEF HeapOf, Heap
<1> QED
  BY <1>5, <1>6 DEF g, s

\* A blank item has no key and no links.
LEMMA BlankIs ==
    /\ Blank.key = None /\ Blank.next = Null /\ Blank.prev = Null /\ Blank.child = Null
    /\ ~(Blank.kind # "free")
BY DEF Blank

\* The sequences and the keys when the items of T are gone.
Emptied(K, T) == [n \in Node |-> IF n \in T THEN <<>> ELSE K[n]]
\* The keys k once the items of T are freed.
Nameless(k, T) == [n \in Node |-> IF n \in T THEN None ELSE k[n]]

\* cJSON_Delete of a root frees its tree and the strings of the tree, and
\* nothing else.
LEMMA DeleteGood ==
    ASSUME NEW h, NEW K, NEW H, Good(h, K, H), NEW i \in H
    PROVE  LET g == cJSON_Delete(h, i)
               T == Tree(K, i) IN
           /\ Good(g, Emptied(K, T), H \ {i})
           /\ LiveIn(g) = LiveIn(h) \ T /\ T \subseteq LiveIn(h) /\ Doomed(h, i) = T
           /\ Ky(g) = Nameless(Ky(h), T)
<1> DEFINE g == cJSON_Delete(h, i)
           T == Tree(K, i)
           L == LiveIn(h)
           J == Emptied(K, T)
<1>0. /\ h \in Heap /\ L \subseteq Node /\ i \in Node /\ i \in L /\ K \in [Node -> Seq(Node)]
      /\ Lists(Nx(h), Pv(h), Ch(h), K) /\ Grove(K, H, L) /\ IsTop(K, i)
  <2>1. /\ h \in Heap /\ L \subseteq Node /\ H \subseteq L /\ K \in [Node -> Seq(Node)]
        /\ Lists(Nx(h), Pv(h), Ch(h), K) /\ Grove(K, H, L) /\ IsTop(K, i)
    BY GoodFacts
  <2> QED
    BY <2>1
<1>1. T \subseteq L
  BY <1>0, OneRoot
<1>2. Doomed(h, i) = T
  <2>1. Nx(h)[i] = Null
    BY <1>0, ListFacts
  <2>2. \A n \in Node : h.item[n].next = (IF n = i THEN Null ELSE Nx(h)[n]) /\ h.item[n].child = Ch(h)[n]
    BY <2>1, Views
  <2> QED
    BY <1>0, <2>2, DoomedTree
<1>3. /\ g \in Heap /\ g.strings = h.strings - Strings(h, T)
      /\ \A n \in Node : g.item[n] = IF n \in T THEN Blank ELSE h.item[n]
  <2>1. Doomed(h, i) \in SUBSET Node
    BY <1>0, <1>1, <1>2
  <2> QED
    BY <1>0, <1>2, <2>1, DeleteIs
<1> HIDE DEF g, T
<1>4. \A n \in Node :
         /\ g.item[n].next = IF n \in T THEN Null ELSE h.item[n].next
         /\ g.item[n].prev = IF n \in T THEN Null ELSE h.item[n].prev
         /\ g.item[n].child = IF n \in T THEN Null ELSE h.item[n].child
         /\ g.item[n].key = IF n \in T THEN None ELSE h.item[n].key
  BY <1>3, BlankIs
<1>5. \A n \in Node :
         /\ Nx(g)[n] = IF n \in T THEN Null ELSE Nx(h)[n]
         /\ Pv(g)[n] = IF n \in T THEN Null ELSE Pv(h)[n]
         /\ Ch(g)[n] = IF n \in T THEN Null ELSE Ch(h)[n]
         /\ Ky(g)[n] = IF n \in T THEN None ELSE Ky(h)[n]
  BY <1>4, Views
<1>6. J \in [Node -> Seq(Node)] /\ \A n \in Node : J[n] = IF n \in T THEN <<>> ELSE K[n]
  BY <1>0 DEF Emptied
<1> HIDE DEF J
<1>7. Lists(Nx(g), Pv(g), Ch(g), J)
  <2>1. Nx(g) \in [Node -> Ptr] /\ Pv(g) \in [Node -> Ptr] /\ Ch(g) \in [Node -> Ptr]
    BY <1>3, ViewTypes
  <2>2. /\ Without(T, K, J, <<>>) /\ Without(T, Nx(h), Nx(g), Null)
        /\ Without(T, Pv(h), Pv(g), Null) /\ Without(T, Ch(h), Ch(g), Null)
    BY <1>5, <1>6 DEF Without
  <2> QED
    BY <1>0, <1>6, <2>1, <2>2, FreeLists DEF T
<1>8. Grove(J, H \ {i}, L \ T)
  BY <1>0, <1>6, GroveFree DEF T
<1>9. LiveIn(g) = L \ T
  <2>1. \A n \in Node : g.item[n].kind # "free" <=> n \notin T /\ h.item[n].kind # "free"
    BY <1>3, BlankIs, Zenon
  <2> QED
    BY <2>1, Zenon DEF LiveIn, L
<1>10. \A n \in Node \ LiveIn(g) : g.item[n].key = None
  <2>1. \A n \in Node \ L : h.item[n].key = None
    BY DEF Good, L
  <2> QED
    BY <1>4, <1>9, <2>1
<1>11. g.strings = Strings(g, LiveIn(g))
  <2> DEFINE R == L \ T
  <2>1. R \in SUBSET Node /\ T \in SUBSET Node /\ R \cap T = {} /\ L = R \cup T
    BY <1>0, <1>1
  <2>2. \A n \in R : g.item[n] = h.item[n]
    BY <1>0, <1>3
  <2> HIDE DEF R
  <2>3. \A n \in R : (Text(g, n) <=> Text(h, n)) /\ (OwnKey(g, n) <=> OwnKey(h, n))
    BY <2>2, Zenon DEF Text, OwnKey
  <2>4. Strings(g, R) = Strings(h, R)
    BY <2>1, <2>3, StringsSame
  <2>5. Strings(h, L) = Strings(h, R) + Strings(h, T)
    BY <2>1, StringsUnion
  <2>6. Strings(h, R) \in Nat /\ Strings(h, T) \in Nat
    BY <2>1, StringsAre
  <2>7. h.strings = Strings(h, L)
    BY DEF Good, L
  <2> HIDE DEF L
  <2>8. g.strings = Strings(g, R)
    BY <1>3, <2>4, <2>5, <2>6, <2>7
  <2> QED
    BY <1>9, <2>8 DEF R
<1>12. Ky(g) = Nameless(Ky(h), T)
  BY <1>5 DEF Ky, Nameless
<1> HIDE DEF L
<1>13. Good(g, J, H \ {i})
  BY <1>3, <1>7, <1>8, <1>9, <1>10, <1>11 DEF Good
<1> QED
  BY <1>1, <1>2, <1>9, <1>12, <1>13 DEF g, J, L, T

\* What cJSON_ReplaceItemViaPointer has done before it deletes the old item.
Exchanged(h, p, i, r) ==
    LET this == h.item[i]
        first == h.item[p].child = i
        h1 == Put(Put(h, r, "next", this.next), r, "prev", this.prev)
        h2 == IF this.next # Null THEN Put(h1, this.next, "prev", r) ELSE h1
        h3 == CASE first /\ this.prev = i -> Put(Put(h2, r, "prev", r), p, "child", r)
                [] first /\ this.prev # i -> Put(h2, p, "child", r)
                [] OTHER -> Put(h2, this.prev, "next", r)
        h4 == IF ~first /\ this.next = Null THEN Put(h3, h3.item[p].child, "prev", r) ELSE h3
    IN  Put(Put(h4, i, "next", Null), i, "prev", Null)

\* What cJSON_ReplaceItemViaPointer sets before it deletes are the links with
\* r instead, also alone, at the head and at the tail.
LEMMA SwapViews ==
    ASSUME NEW h, NEW K, NEW H, Good(h, K, H), NEW p \in Node, NEW r \in H, NEW w \in 1..Len(K[p])
    PROVE  LET g == Exchanged(h, p, K[p][w], r) IN
           /\ g \in Heap /\ SameTexts(h, g)
           /\ Swapped(Nx(h), Pv(h), Ch(h), K[p], p, w, K[p][w], r, Nx(g), Pv(g), Ch(g))
<1> DEFINE L == K[p]
           i == L[w]
           g == Exchanged(h, p, i, r)
           next == h.item[i].next
           prev == h.item[i].prev
           c == h.item[p].child
           first == c = i
           later == ~first
           inner == next # Null
           alone == first /\ prev = i
           tail == ~first /\ next = Null
           g1 == Put(h, r, "next", next)
           g2 == Put(g1, r, "prev", prev)
           g3 == IF inner THEN Put(g2, next, "prev", r) ELSE g2
           g4 == IF alone THEN Put(g3, r, "prev", r) ELSE g3
           g5 == IF first THEN Put(g4, p, "child", r) ELSE g4
           g6 == IF later THEN Put(g5, prev, "next", r) ELSE g5
           g7 == IF tail THEN Put(g6, c, "prev", r) ELSE g6
           g8 == Put(g7, i, "next", Null)
           g9 == Put(g8, i, "prev", Null)
<1>0. /\ h \in Heap /\ L \in Seq(Node) /\ Len(L) \in Nat /\ Null \notin Node
      /\ \A j \in 1..Len(L) : L[j] \in Node
      /\ \A j, k \in 1..Len(L) : L[j] = L[k] => j = k
      /\ c = L[1] /\ (first <=> w = 1) /\ prev \in Node /\ (next = Null <=> w = Len(L))
      /\ prev = IF w = 1 THEN L[Len(L)] ELSE L[w - 1]
      /\ next = IF w = Len(L) THEN Null ELSE L[w + 1]
  BY PlaceFacts
<1>a. r \in Node /\ \A j \in 1..Len(L) : L[j] # r
  <2>1. H \subseteq LiveIn(h) /\ LiveIn(h) \subseteq Node /\ IsTop(K, r)
    BY GoodFacts
  <2> QED
    BY <2>1 DEF IsTop
<1>2. w \in 1..Len(L) /\ Len(L) # 0 /\ 1 \in 1..Len(L) /\ Len(L) \in 1..Len(L)
  BY <1>0
<1>b. alone <=> Len(L) = 1
  <2>1. CASE w = 1
    BY <1>0, <1>2, <2>1
  <2>2. CASE w # 1
    BY <1>0, <1>2, <2>2
  <2> QED
    BY <2>1, <2>2
<1>1. /\ first \in BOOLEAN /\ later \in BOOLEAN /\ inner \in BOOLEAN /\ tail \in BOOLEAN /\ alone \in BOOLEAN
      /\ (later <=> w # 1) /\ (inner <=> w # Len(L)) /\ (tail <=> w # 1 /\ w = Len(L)) /\ (first <=> w = 1)
      /\ (alone <=> Len(L) = 1)
  BY <1>0, <1>b
<1>3. i \in Node /\ c \in Node /\ Null \in Ptr /\ prev \in Ptr /\ i # Null /\ r \in Ptr /\ r # i
  BY <1>0, <1>a, <1>2 DEF Ptr
<1>4. (w # 1 => w - 1 \in 1..Len(L)) /\ (w # Len(L) => w + 1 \in 1..Len(L))
  BY <1>0, <1>2
<1>5. next \in Ptr /\ (inner => next \in Node)
  BY <1>0, <1>1, <1>4 DEF Ptr
<1>6. g = g9
  <2> DEFINE h3 == CASE first /\ prev = i -> Put(Put(g3, r, "prev", r), p, "child", r)
                     [] first /\ prev # i -> Put(g3, p, "child", r)
                     [] OTHER -> Put(g3, prev, "next", r)
             h4 == IF ~first /\ next = Null THEN Put(h3, h3.item[p].child, "prev", r) ELSE h3
  <2>1. g = Put(Put(h4, i, "next", Null), i, "prev", Null)
    BY Zenon DEF Exchanged
  <2>2. h3 = g6
    <3> HIDE DEF g3, next, prev, i, c
    <3>1. CASE first /\ prev = i
      BY <3>1
    <3>2. CASE first /\ prev # i
      BY <3>2
    <3>3. CASE ~first
      BY <3>3
    <3> QED
      BY <3>1, <3>2, <3>3
  <2>3. ~first => g6.item[p].child = c
    <3>1. Ch(g1) = Ch(h) /\ g1 \in Heap
      <4> HIDE DEF next
      <4> QED
        BY <1>0, <1>a, <1>5, ToNext
    <3>2. Ch(g2) = Ch(g1) /\ g2 \in Heap
      <4>1. r \in Node
        BY <1>a
      <4> HIDE DEF prev, g1, i, c, L
      <4> QED
        BY <1>3, <3>1, <4>1, ToPrev
    <3>3. Ch(g3) = Ch(g2) /\ g3 \in Heap
      <4> HIDE DEF inner, next, g2
      <4> QED
        BY <1>a, <1>1, <1>3, <1>5, <3>2, MayPrev
    <3>4. ~first => g5 = g3
      <4>1. ~first => ~alone
        OBVIOUS
      <4> DEFINE x == Put(g3, r, "prev", r)
                 y == Put(g4, p, "child", r)
      <4> HIDE DEF x, g3, alone, first
      <4>2. ~alone => g4 = g3
        BY DEF x
      <4> HIDE DEF g4, y
      <4>3. ~first => g5 = g4
        BY DEF y
      <4> QED
        BY <4>1, <4>2, <4>3
    <3>5. ~first => Ch(g6) = Ch(g5)
      <4>1. g5 \in Heap \/ first
        <5> HIDE DEF g5, g3, first
        <5> QED
          BY <3>3, <3>4
      <4> HIDE DEF later, prev, g5, first
      <4>2. CASE g5 \in Heap
        BY <1>0, <1>1, <1>3, <4>2, MayNext
      <4> QED
        BY <4>1, <4>2
    <3> HIDE DEF g6, g5, g3, g2, g1, first
    <3>6. ~first => Ch(g6) = Ch(h)
      BY <3>1, <3>2, <3>3, <3>4, <3>5
    <3>7. Ch(g6)[p] = g6.item[p].child /\ Ch(h)[p] = c
      BY Views
    <3> QED
      BY <3>6, <3>7
  <2> HIDE DEF h3, g6, c, next, prev, i
  <2>4. h4 = g7
    BY <2>2, <2>3
  <2> HIDE DEF h4, g7, g
  <2> QED
    BY <2>1, <2>4
<1> HIDE DEF L, i, next, prev, c, first, later, inner, tail, alone
<1>7. /\ g1 \in Heap /\ SameTexts(h, g1) /\ Pv(g1) = Pv(h) /\ Ch(g1) = Ch(h)
      /\ \A m \in Node : Nx(g1)[m] = IF m = r THEN next ELSE Nx(h)[m]
  BY <1>0, <1>a, <1>5, ToNext
<1> HIDE DEF g1
<1>8. /\ g2 \in Heap /\ SameTexts(g1, g2) /\ Nx(g2) = Nx(g1) /\ Ch(g2) = Ch(g1)
      /\ \A m \in Node : Pv(g2)[m] = IF m = r THEN prev ELSE Pv(g1)[m]
  BY <1>a, <1>3, <1>7, ToPrev
<1> HIDE DEF g2
<1>9. /\ g3 \in Heap /\ SameTexts(g2, g3) /\ Nx(g3) = Nx(g2) /\ Ch(g3) = Ch(g2)
      /\ \A m \in Node : Pv(g3)[m] = IF inner /\ m = next THEN r ELSE Pv(g2)[m]
  BY <1>1, <1>3, <1>5, <1>8, MayPrev
<1> HIDE DEF g3
<1>10. /\ g4 \in Heap /\ SameTexts(g3, g4) /\ Nx(g4) = Nx(g3) /\ Ch(g4) = Ch(g3)
       /\ \A m \in Node : Pv(g4)[m] = IF alone /\ m = r THEN r ELSE Pv(g3)[m]
  BY <1>a, <1>1, <1>3, <1>9, MayPrev
<1> HIDE DEF g4
<1>11. /\ g5 \in Heap /\ SameTexts(g4, g5) /\ Nx(g5) = Nx(g4) /\ Pv(g5) = Pv(g4)
       /\ \A m \in Node : Ch(g5)[m] = IF first /\ m = p THEN r ELSE Ch(g4)[m]
  BY <1>1, <1>3, <1>10, MayChild
<1> HIDE DEF g5
<1>12. /\ g6 \in Heap /\ SameTexts(g5, g6) /\ Pv(g6) = Pv(g5) /\ Ch(g6) = Ch(g5)
       /\ \A m \in Node : Nx(g6)[m] = IF later /\ m = prev THEN r ELSE Nx(g5)[m]
  BY <1>0, <1>1, <1>3, <1>11, MayNext
<1> HIDE DEF g6
<1>13. /\ g7 \in Heap /\ SameTexts(g6, g7) /\ Nx(g7) = Nx(g6) /\ Ch(g7) = Ch(g6)
       /\ \A m \in Node : Pv(g7)[m] = IF tail /\ m = c THEN r ELSE Pv(g6)[m]
  BY <1>1, <1>3, <1>12, MayPrev
<1> HIDE DEF g7
<1>14. /\ g8 \in Heap /\ SameTexts(g7, g8) /\ Pv(g8) = Pv(g7) /\ Ch(g8) = Ch(g7)
       /\ \A m \in Node : Nx(g8)[m] = IF m = i THEN Null ELSE Nx(g7)[m]
  <2>1. g7 \in Heap /\ i \in Node /\ Null \in Ptr
    BY <1>3, <1>13
  <2>2. NextSet(g7, g8, i, Null)
    BY <2>1, ToNextSet
  <2> HIDE DEF g8
  <2> QED
    BY <2>2 DEF NextSet
<1> HIDE DEF g8
<1>15. /\ g9 \in Heap /\ SameTexts(g8, g9) /\ Nx(g9) = Nx(g8) /\ Ch(g9) = Ch(g8)
       /\ \A m \in Node : Pv(g9)[m] = IF m = i THEN Null ELSE Pv(g8)[m]
  BY <1>3, <1>14, ToPrev
<1> HIDE DEF g9, g
<1>16. g \in Heap /\ SameTexts(h, g)
  BY <1>6, <1>7, <1>8, <1>9, <1>10, <1>11, <1>12, <1>13, <1>14, <1>15 DEF SameTexts
<1>17. Nx(g) \in [Node -> Ptr] /\ Pv(g) \in [Node -> Ptr] /\ Ch(g) \in [Node -> Ptr]
  BY <1>16, ViewTypes
<1>18. /\ \A m \in Node : Nx(g)[m] = IF m = i THEN Null ELSE IF later /\ m = prev THEN r
                                     ELSE IF m = r THEN next ELSE Nx(h)[m]
       /\ \A m \in Node : Pv(g)[m] = IF m = i THEN Null ELSE IF tail /\ m = c THEN r
                                     ELSE IF alone /\ m = r THEN r ELSE IF inner /\ m = next THEN r
                                     ELSE IF m = r THEN prev ELSE Pv(h)[m]
       /\ \A m \in Node : Ch(g)[m] = IF first /\ m = p THEN r ELSE Ch(h)[m]
  BY <1>6, <1>7, <1>8, <1>9, <1>10, <1>11, <1>12, <1>13, <1>14, <1>15
<1>19. Nx(h)[i] = next /\ Pv(h)[i] = prev
  BY <1>3, Views DEF next, prev
<1>20. /\ (w > 1 <=> w # 1) /\ (w < Len(L) <=> w # Len(L))
       /\ (w # 1 => prev = L[w - 1]) /\ (w # Len(L) => next = L[w + 1])
       /\ (w # 1 => prev # r) /\ (w # Len(L) => next # r) /\ c # r /\ c = L[1]
       /\ (w # 1 => prev # i) /\ (w # Len(L) => next # i) /\ (w # 1 => c # i)
  <2>1. (w > 1 <=> w # 1) /\ (w < Len(L) <=> w # Len(L)) /\ c # r /\ c = L[1]
    BY <1>0, <1>a, <1>2
  <2>2. w # 1 => prev = L[w - 1] /\ prev # r /\ L[w - 1] # L[w]
    <3>1. w # 1 => w - 1 # w
      BY <1>2
    <3> QED
      BY <1>0, <1>a, <1>2, <1>4, <3>1
  <2>3. w # Len(L) => next = L[w + 1] /\ next # r /\ L[w + 1] # L[w]
    <3>1. w + 1 # w
      BY <1>2
    <3> QED
      BY <1>0, <1>a, <1>2, <1>4, <3>1
  <2>4. w # 1 => L[1] # L[w]
    BY <1>0, <1>2
  <2> QED
    BY <2>1, <2>2, <2>3, <2>4 DEF i
<1>21. /\ \A m \in Node : Nx(g)[m] = IF m = r THEN Nx(h)[i] ELSE IF m = i THEN Null
                                     ELSE IF w > 1 /\ m = L[w - 1] THEN r ELSE Nx(h)[m]
       /\ \A m \in Node : Ch(g)[m] = IF m = p /\ w = 1 THEN r ELSE Ch(h)[m]
  BY <1>1, <1>3, <1>18, <1>19, <1>20
<1>22. \A m \in Node : Pv(g)[m] = IF m = r THEN IF Len(L) = 1 THEN r ELSE Pv(h)[i] ELSE IF m = i THEN Null
                                ELSE IF \/ w < Len(L) /\ m = L[w + 1]
                                        \/ w = Len(L) /\ w > 1 /\ m = L[1]
                                THEN r ELSE Pv(h)[m]
  BY <1>1, <1>3, <1>18, <1>19, <1>20
<1>23. Swapped(Nx(h), Pv(h), Ch(h), L, p, w, i, r, Nx(g), Pv(g), Ch(g))
  BY <1>17, <1>21, <1>22 DEF Swapped
<1> QED
  BY <1>16, <1>23 DEF g, L, i

\* K with r at place w of p.
Changed(K, p, w, r) == Row(K, p, At(K[p], w, r))

\* What putting r in the place w of p, where i was, comes to.
PutsInstead(h, K, H, p, w, i, r) ==
    LET g == cJSON_ReplaceItemViaPointer(h, p, i, r)
        T == Tree(K, i) IN
    /\ Good(g, Emptied(Changed(K, p, w, r), T), H \ {r})
    /\ LiveIn(g) = LiveIn(h) \ T /\ p \notin T /\ r \notin T /\ p \in LiveIn(h)
    /\ Ky(g) = Nameless(Ky(h), T)

\* The replacement r in the place w of p, and the tree that was there freed.
LEMMA ReplaceGood ==
    ASSUME NEW h, NEW K, NEW H, Good(h, K, H), NEW p \in Node, NEW r \in H, p \notin Tree(K, r),
           NEW w \in 1..Len(K[p])
    PROVE  PutsInstead(h, K, H, p, w, K[p][w], r)
<1> DEFINE i == K[p][w]
           e == Exchanged(h, p, i, r)
           g == cJSON_ReplaceItemViaPointer(h, p, i, r)
           L == LiveIn(h)
           T == Tree(K, i)
           s == At(K[p], w, r)
           J == Row(K, p, s)
           M == Shorter(K, p, w)
           I == (H \cup {i}) \ {r}
<1>0. /\ K \in [Node -> Seq(Node)] /\ K[p] \in Seq(Node) /\ Len(K[p]) \in Nat
      /\ Lists(Nx(h), Pv(h), Ch(h), K) /\ Grove(K, H, L) /\ i \in Node /\ L \subseteq Node
  BY GoodFacts, PlaceFacts
<1>a. i \in ToSet(K[p]) /\ i \notin H /\ r \in Node /\ IsTop(K, r)
  <2>1. i \in ToSet(K[p])
    BY <1>0, Places
  <2>2. ToSet(K[p]) \subseteq L \ H /\ H \subseteq L /\ IsTop(K, r)
    BY GoodFacts
  <2> QED
    BY <1>0, <2>1, <2>2
<1>1. e \in Heap /\ SameTexts(h, e) /\ Swapped(Nx(h), Pv(h), Ch(h), K[p], p, w, i, r, Nx(e), Pv(e), Ch(e))
  BY SwapViews
<1>2. g = cJSON_Delete(e, i)
  BY Zenon DEF cJSON_ReplaceItemViaPointer, Exchanged
<1> HIDE DEF M, e, g
<1>3. /\ OneRow(M, K, p) /\ OneRow(K, M, p) /\ WithAt(M[p], K[p], w, i)
      /\ ToSet(K[p]) = ToSet(M[p]) \cup {i}
      /\ Grove(M, H \cup {i}, L) /\ p \in L
  BY TakenOut DEF M
<1> HIDE DEF i, L
<1>4. s \in Seq(Node) /\ Len(s) = Len(K[p]) /\ \A j \in 1..Len(K[p]) : s[j] = IF j = w THEN r ELSE K[p][j]
  BY <1>0, <1>a DEF At
<1> HIDE DEF s
<1>5. J \in [Node -> Seq(Node)] /\ J[p] = s /\ \A q \in Node \ {p} : J[q] = K[q]
  BY <1>0, <1>4 DEF Row
<1> HIDE DEF J
<1>6. OneRow(K, J, p) /\ OneRow(M, J, p)
  BY <1>0, <1>3, <1>5 DEF OneRow
<1>7. Instead(K[p], J[p], w, i, r)
  BY <1>0, <1>a, <1>4, <1>5 DEF Instead, i
<1>8. WithAt(M[p], J[p], w, r)
  <2>1. /\ M[p] \in Seq(Node) /\ Len(M[p]) \in Nat /\ Len(K[p]) = Len(M[p]) + 1 /\ w \in 1..Len(M[p]) + 1
        /\ \A j \in 1..Len(M[p]) + 1 : K[p][j] = IF j < w THEN M[p][j] ELSE IF j = w THEN i ELSE M[p][j - 1]
    BY <1>3 DEF WithAt
  <2>2. \A j \in 1..Len(M[p]) + 1 : s[j] = IF j < w THEN M[p][j] ELSE IF j = w THEN r ELSE M[p][j - 1]
    BY <1>4, <2>1
  <2> QED
    BY <1>a, <1>4, <1>5, <2>1, <2>2 DEF WithAt
<1>9. ToSet(J[p]) = ToSet(M[p]) \cup {r}
  BY <1>8, WithAtSet
<1>10. p \notin Tree(M, r)
  <2>1. \A q \in Node : ToSet(M[q]) \subseteq ToSet(K[q])
    BY <1>3 DEF OneRow
  <2>2. Tree(M, r) \subseteq Tree(K, r)
    BY <1>0, <1>a, <2>1, TreeShrinks
  <2> QED
    BY <2>2
<1>11. Grove(J, I, L)
  <2>1. r \in H \cup {i}
    OBVIOUS
  <2> QED
    BY <1>3, <1>6, <1>9, <1>10, <2>1, GroveLink
<1>12. Lists(Nx(e), Pv(e), Ch(e), J)
  BY <1>0, <1>1, <1>6, <1>7, <1>a, SwapLists
<1>13. i # r /\ i \in I /\ I \ {i} = H \ {r}
  BY <1>a
<1> HIDE DEF I
<1>14. Good(e, J, I) /\ LiveIn(e) = L /\ Ky(e) = Ky(h)
  BY <1>1, <1>11, <1>12, Relinked DEF L
<1>15. p \notin T
  BY <1>0, <1>a, NotBelowItself
<1>16. Tree(J, i) = T
  BY <1>0, <1>6, <1>15, TreeKept
<1>17. r \notin T
  <2>1. ASSUME r \in T PROVE FALSE
    <3>1. PICK q \in T : r \in ToSet(K[q])
      BY <1>0, <1>13, <2>1, TreeParent
    <3>2. q \in Node
      BY <1>0, <3>1, TreeClosed
    <3> QED
      BY <3>1, <3>2, GoodFacts
  <2> QED
    BY <2>1
<1> HIDE DEF T
<1> DEFINE d == cJSON_Delete(e, i)
<1>18. Good(d, Emptied(J, T), I \ {i}) /\ LiveIn(d) = LiveIn(e) \ T /\ Ky(d) = Nameless(Ky(e), T)
  BY <1>13, <1>14, <1>16, DeleteGood
<1>19. /\ Good(g, Emptied(J, T), H \ {r}) /\ LiveIn(g) = L \ T
       /\ Ky(g) = Nameless(Ky(h), T)
  BY <1>2, <1>13, <1>14, <1>18
<1> QED
  BY <1>3, <1>15, <1>17, <1>19, Zenon DEF g, L, T, J, s, i, Changed, PutsInstead

\* The types of a live item and of a root.
LEMMA RootFacts ==
    ASSUME NEW h, NEW K, NEW H, Good(h, K, H), NEW p \in LiveIn(h), NEW i \in H
    PROVE  p \in Node /\ i \in Node /\ i \in LiveIn(h) /\ K[p] \in Seq(Node) /\ Len(K[p]) \in Nat
<1>1. LiveIn(h) \subseteq Node /\ H \subseteq LiveIn(h) /\ K \in [Node -> Seq(Node)]
  BY GoodFacts
<1>2. p \in Node /\ i \in Node /\ i \in LiveIn(h) /\ K[p] \in Seq(Node)
  BY <1>1
<1> QED
  BY <1>2

\* K with i at the end of p.
Longer(K, p, i) == Grown(K, p, Len(K[p]) + 1, i)

\* add_item_to_array puts a root at the end of a row.
LEMMA AddGood ==
    ASSUME NEW h, NEW K, NEW H, Good(h, K, H), NEW p \in LiveIn(h), NEW i \in H, p \notin Tree(K, i)
    PROVE  LET g == add_item_to_array(h, p, i) IN
           /\ Good(g, Longer(K, p, i), H \ {i})
           /\ LiveIn(g) = LiveIn(h) /\ Ky(g) = Ky(h)
<1> DEFINE g == add_item_to_array(h, p, i)
           w == Len(K[p]) + 1
<1>1. p \in Node /\ i \in Node /\ w \in 1..Len(K[p]) + 1
  BY RootFacts
<1>2. g \in Heap /\ SameTexts(h, g) /\ Inserted(Nx(h), Pv(h), Ch(h), K[p], p, w, i, Nx(g), Pv(g), Ch(g))
  BY <1>1, AddViews
<1> HIDE DEF g, w
<1>3. Good(g, Grown(K, p, w, i), H \ {i}) /\ LiveIn(g) = LiveIn(h) /\ Ky(g) = Ky(h)
  BY <1>1, <1>2, PlacedGood
<1> QED
  BY <1>3 DEF g, w, Longer

\* Where cJSON_InsertItemInArray puts an item for w: at the end if there are fewer.
Spot(K, p, w) == IF w \in 1..Len(K[p]) THEN w ELSE Len(K[p]) + 1

\* The item i put at place w of p, or at its end.
LEMMA InsertGood ==
    ASSUME NEW h, NEW K, NEW H, Good(h, K, H), NEW p \in LiveIn(h), NEW i \in H, p \notin Tree(K, i), NEW w \in Nat \ {0}
    PROVE  LET g == cJSON_InsertItemInArray(h, p, w, i) IN
           /\ Good(g, Grown(K, p, Spot(K, p, w), i), H \ {i})
           /\ LiveIn(g) = LiveIn(h) /\ Ky(g) = Ky(h) /\ Spot(K, p, w) \in 1..Len(K[p]) + 1
<1> DEFINE g == cJSON_InsertItemInArray(h, p, w, i)
           v == Spot(K, p, w)
<1>1. p \in Node /\ i \in Node /\ v \in 1..Len(K[p]) + 1 /\ DOMAIN K[p] = 1..Len(K[p])
  BY RootFacts DEF Spot
<1>2. CASE w \in 1..Len(K[p])
  <2>1. g \in Heap /\ SameTexts(h, g) /\ Inserted(Nx(h), Pv(h), Ch(h), K[p], p, w, i, Nx(g), Pv(g), Ch(g))
    BY <1>1, <1>2, InsertViews
  <2> HIDE DEF g
  <2>2. w \in 1..Len(K[p]) + 1
    BY <1>1, <1>2
  <2>3. Good(g, Grown(K, p, w, i), H \ {i}) /\ LiveIn(g) = LiveIn(h) /\ Ky(g) = Ky(h)
    BY <2>1, <2>2, PlacedGood, SMTT(30)
  <2>4. v = w
    BY <1>2 DEF Spot
  <2> QED
    BY <1>1, <2>3, <2>4 DEF g
<1>3. CASE w \notin 1..Len(K[p])
  <2>1. Children(h, p) = K[p]
    BY <1>1, GoodChildren
  <2>2. g = add_item_to_array(h, p, i)
    BY <1>1, <1>3, <2>1, Zenon DEF cJSON_InsertItemInArray
  <2>3. Good(g, Longer(K, p, i), H \ {i}) /\ LiveIn(g) = LiveIn(h) /\ Ky(g) = Ky(h)
    BY <2>2, AddGood
  <2> HIDE DEF g
  <2>4. v = Len(K[p]) + 1
    BY <1>3 DEF Spot
  <2> QED
    BY <1>1, <2>3, <2>4 DEF g, Longer
<1> QED
  BY <1>2, <1>3

\* What a call finds below i are the items of its tree.
LEMMA BelowIs ==
    ASSUME NEW h, NEW K, NEW H, Good(h, K, H), NEW i \in Node
    PROVE  Doomed(Put(h, i, "next", Null), i) = Tree(K, i)
<1> DEFINE g == Put(h, i, "next", Null)
<1>1. h \in Heap /\ Null \in Ptr /\ Lists(Nx(h), Pv(h), Ch(h), K) /\ Grove(K, H, LiveIn(h))
  BY GoodFacts DEF Ptr
<1>2. g \in Heap /\ Ch(g) = Ch(h) /\ \A m \in Node : Nx(g)[m] = IF m = i THEN Null ELSE Nx(h)[m]
  BY <1>1, ToNext
<1> HIDE DEF g
<1>3. \A n \in Node : g.item[n].next = (IF n = i THEN Null ELSE Nx(h)[n]) /\ g.item[n].child = Ch(h)[n]
  BY <1>2, Views
<1>4. Doomed(g, i) = Tree(K, i)
  BY <1>1, <1>3, DoomedTree
<1> QED
  BY <1>4 DEF g

\* The heap g is h with new items to[m], each with the texts of m.
CopyTexts(h, g, T, to) ==
    /\ \A m \in T : /\ g.item[to[m]].kind = h.item[m].kind /\ g.item[to[m]].key = h.item[m].key
                     /\ g.item[to[m]].const = h.item[m].const
    /\ \A n \in Node : (\A m \in T : n # to[m]) => g.item[n] = h.item[n]
    /\ g.strings = h.strings + Strings(h, T)

\* The new items of T, none of which there was.
Copies(h, T, to) ==
    /\ T \subseteq LiveIn(h) /\ to \in [T -> Node \ LiveIn(h)]
    /\ \A m, n \in T : to[m] = to[n] => m = n

\* The keys when the items of T are copied.
CopyKeys(k, T, to) == [n \in Node |-> IF \E m \in T : to[m] = n THEN k[CHOOSE m \in T : to[m] = n] ELSE k[n]]

\* A heap with copies of items, their texts and links, is good, and the
\* strings are counted.
LEMMA CopiesGood ==
    ASSUME NEW h, NEW K, NEW H, Good(h, K, H), NEW T, NEW to, Copies(h, T, to),
           NEW g \in Heap, CopyTexts(h, g, T, to), NEW J, NEW I, Lists(Nx(g), Pv(g), Ch(g), J),
           Grove(J, I, LiveIn(h) \cup {to[m] : m \in T})
    PROVE  /\ Good(g, J, I) /\ LiveIn(g) = LiveIn(h) \cup {to[m] : m \in T}
           /\ Ky(g) = CopyKeys(Ky(h), T, to)
<1> DEFINE L == LiveIn(h)
           N == {to[m] : m \in T}
<1>0. /\ L \subseteq Node /\ T \in SUBSET Node /\ to \in [T -> Node] /\ N \subseteq Node /\ N \cap L = {}
      /\ \A m, n \in T : to[m] = to[n] => m = n
      /\ \A m \in T : to[m] \in Node \ L /\ m \in L /\ m \in Node
  <2>1. L \subseteq Node
    BY GoodFacts
  <2> HIDE DEF L
  <2>2. T \subseteq L /\ to \in [T -> Node \ L] /\ \A m, n \in T : to[m] = to[n] => m = n
    BY DEF Copies, L
  <2> QED
    BY <2>1, <2>2
<1>1. /\ \A m \in T : /\ g.item[to[m]].kind = h.item[m].kind /\ g.item[to[m]].key = h.item[m].key
                        /\ g.item[to[m]].const = h.item[m].const
      /\ \A n \in Node \ N : g.item[n] = h.item[n]
      /\ g.strings = h.strings + Strings(h, T)
  BY DEF CopyTexts
<1>2. \A n \in Node : g.item[n].kind # "free" <=> n \in L \/ n \in N
  <2>1. ASSUME NEW n \in N PROVE g.item[n].kind # "free"
    <3>1. PICK m \in T : n = to[m]
      BY <2>1
    <3>2. h.item[m].kind # "free"
      BY <1>0, Zenon DEF LiveIn
    <3>3. g.item[n].kind = h.item[m].kind
      BY <1>1, <3>1
    <3> QED
      BY <3>2, <3>3
  <2>2. ASSUME NEW n \in Node \ N PROVE g.item[n].kind # "free" <=> n \in L
    <3>1. g.item[n] = h.item[n]
      BY <1>1
    <3> QED
      BY <3>1, Zenon DEF LiveIn
  <2> HIDE DEF L, N
  <2> QED
    BY <2>1, <2>2, Zenon
<1>3. LiveIn(g) = L \cup N
  <2> HIDE DEF L, N
  <2>1. LiveIn(g) \subseteq Node /\ \A n \in Node : n \in LiveIn(g) <=> g.item[n].kind # "free"
    BY Zenon DEF LiveIn
  <2> QED
    BY <1>0, <1>2, <2>1
<1>4. \A n \in Node \ LiveIn(g) : g.item[n].key = None
  <2>1. ASSUME NEW n \in Node \ LiveIn(g) PROVE g.item[n].key = None
    <3>1. g.item[n] = h.item[n] /\ n \in Node \ L
      BY <1>1, <1>3
    <3> QED
      BY <3>1 DEF Good
  <2> QED
    BY <2>1
<1>5. g.strings = Strings(g, LiveIn(g))
  <2>1. \A m \in T : (Text(g, to[m]) <=> Text(h, m)) /\ (OwnKey(g, to[m]) <=> OwnKey(h, m))
    BY <1>1, Zenon DEF Text, OwnKey
  <2>2. Strings(g, N) = Strings(h, T)
    BY <1>0, <2>1, StringsCopy
  <2>3. \A n \in L : g.item[n] = h.item[n]
    BY <1>0, <1>1
  <2>4. \A n \in L : (Text(g, n) <=> Text(h, n)) /\ (OwnKey(g, n) <=> OwnKey(h, n))
    BY <2>3, Zenon DEF Text, OwnKey
  <2>5. h.strings = Strings(h, L)
    BY DEF Good
  <2> HIDE DEF L, N
  <2>6. Strings(g, L) = Strings(h, L)
    BY <1>0, <2>4, StringsSame
  <2>7. Strings(g, L \cup N) = Strings(g, L) + Strings(g, N)
    BY <1>0, StringsUnion
  <2> QED
    BY <1>1, <1>3, <2>2, <2>5, <2>6, <2>7
<1>6. Ky(g) = CopyKeys(Ky(h), T, to)
  <2>1. ASSUME NEW n \in Node PROVE Ky(g)[n] = CopyKeys(Ky(h), T, to)[n]
    <3>0. Ky(g)[n] = g.item[n].key /\ Ky(h)[n] = h.item[n].key
      BY Views
    <3>1. CASE \E m \in T : to[m] = n
      <4> DEFINE m == CHOOSE m \in T : to[m] = n
      <4>1. m \in T /\ to[m] = n
        BY <3>1
      <4>2. CopyKeys(Ky(h), T, to)[n] = Ky(h)[m]
        BY <3>1 DEF CopyKeys
      <4> HIDE DEF m
      <4>3. Ky(h)[m] = h.item[m].key
        BY <1>0, <4>1, Views
      <4> QED
        BY <1>1, <3>0, <4>1, <4>2, <4>3
    <3>2. CASE ~\E m \in T : to[m] = n
      <4>1. g.item[n] = h.item[n]
        BY <1>1, <3>2
      <4> QED
        BY <3>0, <3>2, <4>1 DEF CopyKeys
    <3> QED
      BY <3>1, <3>2
  <2>2. Ky(g) = [n \in Node |-> Ky(g)[n]]
    BY DEF Ky
  <2>3. CopyKeys(Ky(h), T, to) = [n \in Node |-> CopyKeys(Ky(h), T, to)[n]]
    BY DEF CopyKeys
  <2> QED
    BY <2>1, <2>2, <2>3
<1>7. Good(g, J, I)
  BY <1>3, <1>4, <1>5 DEF Good
<1> QED
  BY <1>3, <1>6, <1>7

\* The copy of the item x: the pointers a, b and c, and the texts of x.
Relink(x, a, b, c) == [kind |-> x.kind, key |-> x.key, const |-> x.const, next |-> a, prev |-> b, child |-> c]
\* The copy of the pointer x.
Renew(T, to, x) == IF x \in T THEN to[x] ELSE Null
\* The copy of the item m.
CopyItem(h, i, T, to, m) == Relink(h.item[m], IF m = i THEN Null ELSE Renew(T, to, h.item[m].next),
                                   IF m = i THEN Null ELSE Renew(T, to, h.item[m].prev), Renew(T, to, h.item[m].child))

\* x with other links.
Redirected(x, a, b, c) == [x EXCEPT !.next = a, !.prev = b, !.child = c]

\* Redirected, field by field.
LEMMA RelinkIs ==
    ASSUME NEW x \in Item, NEW a, NEW b, NEW c
    PROVE  Redirected(x, a, b, c) = Relink(x, a, b, c)
<1> DEFINE y == [x EXCEPT !.next = a]
           z == [y EXCEPT !.prev = b]
<1>1. x = [kind |-> x.kind, key |-> x.key, const |-> x.const, next |-> x.next, prev |-> x.prev, child |-> x.child]
  BY DEF Item
<1>2. y = [kind |-> x.kind, key |-> x.key, const |-> x.const, next |-> a, prev |-> x.prev, child |-> x.child]
  BY <1>1
<1> HIDE DEF y
<1>3. z = [kind |-> x.kind, key |-> x.key, const |-> x.const, next |-> a, prev |-> b, child |-> x.child]
  BY <1>2
<1> HIDE DEF z
<1>4. [z EXCEPT !.child = c] = [kind |-> x.kind, key |-> x.key, const |-> x.const, next |-> a, prev |-> b, child |-> c]
  BY <1>3
<1> QED
  BY <1>4 DEF y, z, Relink, Redirected

\* What cJSON_Duplicate_rec makes: the texts and links of the copies.
LEMMA DuplicateIs ==
    ASSUME NEW h \in Heap, NEW i, NEW T, NEW to, Copies(h, T, to)
    PROVE  LET g == cJSON_Duplicate_rec(h, i, T, to) IN
           /\ g \in Heap /\ CopyTexts(h, g, T, to)
           /\ Moved(T, to, {i}, Nx(h), Nx(g)) /\ Moved(T, to, {i}, Pv(h), Pv(g)) /\ Moved(T, to, {}, Ch(h), Ch(g))
<1> DEFINE g == cJSON_Duplicate_rec(h, i, T, to)
           copy(m) == CopyItem(h, i, T, to, m)
           f == [n \in Node |-> IF \E m \in T : to[m] = n THEN copy(CHOOSE m \in T : to[m] = n) ELSE h.item[n]]
           s == h.strings + Strings(h, T)
<1>0. /\ T \in SUBSET Node /\ \A m, n \in T : to[m] = to[n] => m = n
      /\ \A m \in T : to[m] \in Node /\ to[m] \in Ptr /\ m \in Node
  BY DEF Copies, LiveIn, Ptr
<1>1. \A m \in T : [h.item[m] EXCEPT !.next = IF m = i THEN Null ELSE Renew(T, to, @),
                                     !.prev = IF m = i THEN Null ELSE Renew(T, to, @),
                                     !.child = Renew(T, to, @)] = copy(m)
  <2> SUFFICES ASSUME NEW m \in T
               PROVE [h.item[m] EXCEPT !.next = IF m = i THEN Null ELSE Renew(T, to, @),
                                     !.prev = IF m = i THEN Null ELSE Renew(T, to, @),
                                     !.child = Renew(T, to, @)] = copy(m)
    OBVIOUS
  <2>1. h.item[m] \in Item
    BY <1>0, ItemType
  <2> DEFINE x == h.item[m]
             a == IF m = i THEN Null ELSE Renew(T, to, x.next)
             b == IF m = i THEN Null ELSE Renew(T, to, x.prev)
             c == Renew(T, to, x.child)
  <2>2. x \in Item
    BY <2>1
  <2>3. Redirected(x, a, b, c) = Relink(x, a, b, c)
    <3> HIDE DEF x, a, b, c
    <3> QED
      BY <2>2, RelinkIs
  <2> QED
    BY <2>3, Zenon DEF CopyItem, Redirected
<1>2. g = HeapOf(f, s)
  BY <1>1, Zenon DEF cJSON_Duplicate_rec, HeapOf, Renew
<1>3. \A m \in T : copy(m) \in Item
  <2> SUFFICES ASSUME NEW m \in T PROVE copy(m) \in Item
    OBVIOUS
  <2>1. /\ h.item[m].kind \in KindOf /\ h.item[m].key \in Key \cup {None} /\ h.item[m].const \in BOOLEAN
    BY <1>0, ItemType
  <2>2. \A x : Renew(T, to, x) \in Ptr
    BY <1>0 DEF Renew, Ptr
  <2> DEFINE x == h.item[m]
             a == IF m = i THEN Null ELSE Renew(T, to, x.next)
             b == IF m = i THEN Null ELSE Renew(T, to, x.prev)
             c == Renew(T, to, x.child)
  <2>3. a \in Ptr /\ b \in Ptr /\ c \in Ptr
    BY <2>2 DEF Ptr
  <2>4. copy(m) = Relink(x, a, b, c)
    BY Zenon DEF CopyItem
  <2> HIDE DEF copy, a, b, c
  <2> QED
    BY <2>1, <2>3, <2>4 DEF Relink, Item
<1>4. \A m \in T : /\ copy(m).kind = h.item[m].kind /\ copy(m).key = h.item[m].key /\ copy(m).const = h.item[m].const
                   /\ copy(m).next = IF m \notin {i} /\ h.item[m].next \in T THEN to[h.item[m].next] ELSE Null
                   /\ copy(m).prev = IF m \notin {i} /\ h.item[m].prev \in T THEN to[h.item[m].prev] ELSE Null
                   /\ copy(m).child = IF m \notin {} /\ h.item[m].child \in T THEN to[h.item[m].child] ELSE Null
  BY DEF CopyItem, Relink, Renew
<1> HIDE DEF copy
<1>5. f \in [Node -> Item]
  <2>1. \A n \in Node : h.item[n] \in Item
    BY ItemType
  <2>2. \A n \in Node : (\E m \in T : to[m] = n) => (CHOOSE m \in T : to[m] = n) \in T
    OBVIOUS
  <2> QED
    BY <1>3, <2>1, <2>2
<1>6. \A m \in T : f[to[m]] = copy(m)
  <2> SUFFICES ASSUME NEW m \in T PROVE f[to[m]] = copy(m)
    OBVIOUS
  <2>1. (CHOOSE k \in T : to[k] = to[m]) = m
    BY <1>0
  <2> QED
    BY <1>0, <2>1
<1>7. \A n \in Node : (\A m \in T : n # to[m]) => f[n] = h.item[n]
  OBVIOUS
<1>8. s \in Int
  <2>1. h.strings \in Int
    BY DEF Heap
  <2>2. Strings(h, T) \in Nat
    BY <1>0, StringsAre
  <2> QED
    BY <2>1, <2>2
<1> HIDE DEF f, s, g
<1>9. g \in Heap /\ g.item = f /\ g.strings = s
  BY <1>2, <1>5, <1>8 DEF HeapOf, Heap
<1>10. CopyTexts(h, g, T, to)
  BY <1>4, <1>6, <1>7, <1>9 DEF CopyTexts, s
<1>11. Moved(T, to, {i}, Nx(h), Nx(g)) /\ Moved(T, to, {i}, Pv(h), Pv(g)) /\ Moved(T, to, {}, Ch(h), Ch(g))
  <2>1. /\ \A m \in T : Nx(g)[to[m]] = copy(m).next /\ Pv(g)[to[m]] = copy(m).prev /\ Ch(g)[to[m]] = copy(m).child
        /\ \A m \in T : Nx(h)[m] = h.item[m].next /\ Pv(h)[m] = h.item[m].prev /\ Ch(h)[m] = h.item[m].child
    BY <1>0, <1>6, <1>9, Views
  <2>2. \A n \in Node : (\A m \in T : n # to[m]) => Nx(g)[n] = Nx(h)[n] /\ Pv(g)[n] = Pv(h)[n] /\ Ch(g)[n] = Ch(h)[n]
    BY <1>7, <1>9, Views
  <2> QED
    BY <1>4, <2>1, <2>2 DEF Moved
<1> QED
  BY <1>9, <1>10, <1>11 DEF g

\* K with the tree T copied.
CopyRows(K, T, to) == [n \in Node |-> IF \E m \in T : to[m] = n
                         THEN LET m == CHOOSE m \in T : to[m] = n IN [j \in DOMAIN K[m] |-> to[K[m][j]]]
                         ELSE K[n]]

\* CopyRows has the copy of the tree of i, and all else as it was.
LEMMA CopyRowsIs ==
    ASSUME NEW K \in [Node -> Seq(Node)], NEW L \in SUBSET Node, NEW i \in Node,
           NEW to \in [Tree(K, i) -> Node \ L], \A m, n \in Tree(K, i) : to[m] = to[n] => m = n
    PROVE  CopyOf(K, CopyRows(K, Tree(K, i), to), L, i, to)
<1> DEFINE T == Tree(K, i)
           J == CopyRows(K, T, to)
           row(m) == [j \in DOMAIN K[m] |-> to[K[m][j]]]
<1>1. T \subseteq Node /\ Closed(K, T)
  BY TreeClosed
<1>2. ASSUME NEW m \in T
      PROVE  row(m) \in Seq(Node) /\ Len(row(m)) = Len(K[m]) /\ \A j \in 1..Len(K[m]) : row(m)[j] = to[K[m][j]]
  <2>1. K[m] \in Seq(Node) /\ Len(K[m]) \in Nat /\ DOMAIN K[m] = 1..Len(K[m]) /\ m \in Node
    BY <1>1
  <2>2. \A j \in 1..Len(K[m]) : K[m][j] \in ToSet(K[m])
    BY <2>1, Places
  <2>3. ToSet(K[m]) \subseteq T
    BY <1>1 DEF Closed
  <2>4. \A j \in 1..Len(K[m]) : to[K[m][j]] \in Node
    BY <2>2, <2>3
  <2>5. row(m) = [j \in 1..Len(K[m]) |-> to[K[m][j]]]
    BY <2>1
  <2> HIDE DEF row
  <2> QED
    BY <2>1, <2>4, <2>5
<1>3. ASSUME NEW m \in T PROVE to[m] \in Node /\ J[to[m]] = row(m)
  <2>1. (CHOOSE k \in T : to[k] = to[m]) = m
    OBVIOUS
  <2>2. to[m] \in Node
    OBVIOUS
  <2>3. J[to[m]] = row(CHOOSE k \in T : to[k] = to[m])
    BY <2>2 DEF CopyRows
  <2> HIDE DEF row, J
  <2> QED
    BY <2>1, <2>2, <2>3
<1>4. \A n \in Node : (\A m \in T : n # to[m]) => J[n] = K[n]
  BY DEF CopyRows
<1>5. J \in [Node -> Seq(Node)]
  <2>1. J = [n \in Node |-> J[n]]
    BY DEF CopyRows
  <2>2. ASSUME NEW n \in Node PROVE J[n] \in Seq(Node)
    <3>1. CASE \A m \in T : n # to[m]
      BY <1>4, <3>1
    <3>2. CASE \E m \in T : n = to[m]
      <4>1. PICK m \in T : n = to[m]
        BY <3>2
      <4> HIDE DEF row, J
      <4> QED
        BY <1>2, <1>3, <4>1
    <3> QED
      BY <3>1, <3>2
  <2> HIDE DEF J
  <2> QED
    BY <2>1, <2>2
<1> HIDE DEF J, row
<1>6. \A m \in T : Len(J[to[m]]) = Len(K[m]) /\ \A j \in 1..Len(K[m]) : J[to[m]][j] = to[K[m][j]]
  BY <1>2, <1>3
<1> QED
  BY <1>4, <1>5, <1>6 DEF CopyOf, J

\* cJSON_Duplicate with recursion makes one more root, equal to i but for the
\* items themselves.
LEMMA DeepCopyGood ==
    ASSUME NEW h, NEW K, NEW H, Good(h, K, H), NEW i \in LiveIn(h),
           NEW to \in Injection(Tree(K, i), Node \ LiveIn(h))
    PROVE  LET g == cJSON_Duplicate_rec(h, i, Tree(K, i), to)
               T == Tree(K, i) IN
           /\ Good(g, CopyRows(K, T, to), H \cup {to[i]})
           /\ LiveIn(g) = LiveIn(h) \cup {to[m] : m \in T} /\ Ky(g) = CopyKeys(Ky(h), T, to)
           /\ T \subseteq LiveIn(h) /\ i \in T
<1> DEFINE L == LiveIn(h)
           T == Tree(K, i)
           g == cJSON_Duplicate_rec(h, i, T, to)
           J == CopyRows(K, T, to)
<1>1. /\ h \in Heap /\ L \subseteq Node /\ K \in [Node -> Seq(Node)]
      /\ Lists(Nx(h), Pv(h), Ch(h), K) /\ Grove(K, H, L)
  BY GoodFacts
<1>2. i \in Node /\ T \subseteq L /\ i \in T
  <2>1. i \in Node
    BY <1>1
  <2> QED
    BY <1>1, <2>1, OneRoot, TreeClosed
<1>3. to \in [T -> Node \ L] /\ \A m, n \in T : to[m] = to[n] => m = n
  BY DEF Injection, IsInjective
<1>4. Copies(h, T, to)
  BY <1>2, <1>3 DEF Copies
<1>5. CopyOf(K, J, L, i, to)
  <2> HIDE DEF L
  <2> QED
    BY <1>1, <1>2, <1>3, CopyRowsIs
<1>6. /\ g \in Heap /\ CopyTexts(h, g, T, to)
      /\ Moved(T, to, {i}, Nx(h), Nx(g)) /\ Moved(T, to, {i}, Pv(h), Pv(g)) /\ Moved(T, to, {}, Ch(h), Ch(g))
  BY <1>1, <1>4, DuplicateIs
<1> HIDE DEF g, J
<1>7. Nx(g) \in [Node -> Ptr] /\ Pv(g) \in [Node -> Ptr] /\ Ch(g) \in [Node -> Ptr]
  BY <1>6, ViewTypes
<1>8. Lists(Nx(g), Pv(g), Ch(g), J)
  BY <1>1, <1>5, <1>6, <1>7, CopyLists
<1>9. Grove(J, H \cup {to[i]}, L \cup {to[m] : m \in T})
  BY <1>1, <1>5, GroveCopy
<1> HIDE DEF T
<1>10. Good(g, J, H \cup {to[i]}) /\ LiveIn(g) = L \cup {to[m] : m \in T} /\ Ky(g) = CopyKeys(Ky(h), T, to)
  BY <1>4, <1>6, <1>8, <1>9, CopiesGood
<1> QED
  BY <1>2, <1>10 DEF g, J, T

\* cJSON_Duplicate without recursion makes one more root without children.
LEMMA ShallowCopyGood ==
    ASSUME NEW h, NEW K, NEW H, Good(h, K, H), NEW i \in LiveIn(h),
           NEW to \in Injection({i}, Node \ LiveIn(h))
    PROVE  LET g == cJSON_Duplicate_rec(h, i, {i}, to) IN
           /\ Good(g, K, H \cup {to[i]})
           /\ LiveIn(g) = LiveIn(h) \cup {to[m] : m \in {i}} /\ Ky(g) = CopyKeys(Ky(h), {i}, to)
<1> DEFINE L == LiveIn(h)
           T == {i}
           n == to[i]
           g == cJSON_Duplicate_rec(h, i, T, to)
<1>1. /\ h \in Heap /\ L \subseteq Node /\ K \in [Node -> Seq(Node)]
      /\ Lists(Nx(h), Pv(h), Ch(h), K) /\ Grove(K, H, L) /\ i \in Node
  BY GoodFacts
<1>2. to \in [T -> Node \ L] /\ \A m, k \in T : to[m] = to[k] => m = k
  BY DEF Injection, IsInjective
<1>3. Copies(h, T, to) /\ n \in Node \ L
  BY <1>2 DEF Copies
<1>6. /\ g \in Heap /\ CopyTexts(h, g, T, to)
      /\ Moved(T, to, {i}, Nx(h), Nx(g)) /\ Moved(T, to, {i}, Pv(h), Pv(g)) /\ Moved(T, to, {}, Ch(h), Ch(g))
  BY <1>1, <1>3, DuplicateIs
<1>7. Nx(h)[n] = Null /\ Pv(h)[n] = Null /\ Ch(h)[n] = Null /\ K[n] = <<>>
  BY <1>3, Unused, Views
<1>8. Ch(h)[i] \notin T
  <2>1. Ch(h)[i] = IF Len(K[i]) = 0 THEN Null ELSE K[i][1]
    BY <1>1, ListFacts
  <2>2. i # Null
    BY <1>1, NodeAssumption
  <2>3. ASSUME Len(K[i]) # 0, K[i][1] = i PROVE FALSE
    <3>1. K[i] \in Seq(Node) /\ 1 \in 1..Len(K[i])
      BY <1>1, <2>3
    <3>2. i \in ToSet(K[i])
      BY <1>1, <2>3, <3>1, Places
    <3> QED
      BY <1>1, <3>2, NotBelowItself, TreeClosed
  <2> QED
    BY <2>1, <2>2, <2>3
<1> HIDE DEF g
<1>9. Nx(g) = Nx(h) /\ Pv(g) = Pv(h) /\ Ch(g) = Ch(h)
  <2>1. \A k \in Node : Nx(g)[k] = Nx(h)[k] /\ Pv(g)[k] = Pv(h)[k] /\ Ch(g)[k] = Ch(h)[k]
    BY <1>6, <1>7, <1>8 DEF Moved
  <2> QED
    BY <1>1, <1>6, <2>1, ViewTypes
<1>10. Grove(K, H \cup {n}, L \cup {to[m] : m \in T})
  <2>1. ToSet(K[n]) = {} /\ OneRow(K, K, n)
    BY <1>1, <1>7 DEF ToSet, OneRow
  <2>2. {to[m] : m \in T} = {n}
    OBVIOUS
  <2> HIDE DEF n, L
  <2>3. Grove(K, H \cup {n}, L \cup {n} \cup ToSet(K[n]))
    BY <1>1, <1>3, <2>1, GroveNew
  <2> QED
    BY <2>1, <2>2, <2>3
<1>11. Lists(Nx(g), Pv(g), Ch(g), K)
  BY <1>1, <1>9
<1> HIDE DEF T
<1>12. Good(g, K, H \cup {n}) /\ LiveIn(g) = L \cup {to[m] : m \in T} /\ Ky(g) = CopyKeys(Ky(h), T, to)
  BY <1>3, <1>6, <1>10, <1>11, CopiesGood
<1> QED
  BY <1>12 DEF g, T, n

-----------------------------------------------------------------------------
(* Calls that find no memory on the way.                                   *)

\* What was made for a call that then finds no memory is deleted again, and
\* the heap is as before.
LEMMA UndoGood ==
    ASSUME NEW h, NEW K, NEW H, Good(h, K, H), NEW a \in Node \ LiveIn(h), NEW J, OneRow(K, J, a),
           ToSet(J[a]) \subseteq Node \ LiveIn(h), a \notin ToSet(J[a]),
           NEW g, Good(g, J, H \cup {a}), LiveIn(g) = LiveIn(h) \cup {a} \cup ToSet(J[a]), Ky(g) = Ky(h)
    PROVE  LET d == cJSON_Delete(g, a) IN
           Good(d, K, H) /\ LiveIn(d) = LiveIn(h) /\ Ky(d) = Ky(h) /\ Doomed(g, a) = {a} \cup ToSet(J[a])
<1> DEFINE d == cJSON_Delete(g, a)
           L == LiveIn(h)
           T == Tree(J, a)
           P == ToSet(J[a])
<1>0. /\ K \in [Node -> Seq(Node)] /\ J \in [Node -> Seq(Node)] /\ \A q \in Node \ {a} : J[q] = K[q]
      /\ L \subseteq Node /\ H \subseteq L /\ a \notin L /\ P \subseteq Node /\ P \cap L = {} /\ a \notin P /\ a \in Node
  <2>1. L \subseteq Node /\ H \subseteq L
    BY GoodFacts
  <2> QED
    BY <2>1 DEF OneRow
<1>1. \A n \in Node \ L : K[n] = <<>>
  BY Unused
<1>2. T = {a} \cup P
  <2>1. Closed(J, {a} \cup P)
    <3>1. ASSUME NEW q \in {a} \cup P PROVE ToSet(J[q]) \subseteq {a} \cup P
      <4>1. CASE q = a
        BY <4>1
      <4>2. CASE q # a
        <5>1. q \in Node \ L /\ q \in Node \ {a}
          BY <1>0, <4>2
        <5>2. J[q] = <<>>
          BY <1>0, <1>1, <5>1
        <5>3. ToSet(J[q]) = {}
          BY <5>2 DEF ToSet
        <5> QED
          BY <5>3
      <4> QED
        BY <4>1, <4>2
    <3> QED
      BY <3>1 DEF Closed
  <2>2. T \subseteq {a} \cup P
    <3>1. {a} \cup P \in SUBSET Node /\ a \in {a} \cup P
      BY <1>0
    <3> QED
      BY <2>1, <3>1, TreeLeast
  <2>3. a \in T /\ Closed(J, T)
    BY <1>0, TreeClosed
  <2>4. P \subseteq T
    BY <2>3 DEF Closed
  <2> QED
    BY <2>2, <2>3, <2>4
<1>3. Good(d, Emptied(J, T), (H \cup {a}) \ {a}) /\ LiveIn(d) = LiveIn(g) \ T /\ Ky(d) = Nameless(Ky(g), T) /\ Doomed(g, a) = T
  BY DeleteGood
<1> HIDE DEF d, T, P, L
<1>4. (H \cup {a}) \ {a} = H
  BY <1>0
<1>5. LiveIn(d) = L
  <2>1. LiveIn(g) = L \cup {a} \cup P
    BY DEF L, P
  <2> QED
    BY <1>0, <1>2, <1>3, <2>1
<1>6. Emptied(J, T) = K
  <2>1. ASSUME NEW n \in Node PROVE Emptied(J, T)[n] = K[n]
    <3>1. CASE n \in T
      <4>1. n \in Node \ L
        BY <1>0, <1>2, <3>1
      <4> QED
        BY <1>1, <3>1, <4>1 DEF Emptied
    <3>2. CASE n \notin T
      BY <1>0, <1>2, <3>2 DEF Emptied
    <3> QED
      BY <3>1, <3>2
  <2>2. Emptied(J, T) = [n \in Node |-> Emptied(J, T)[n]] /\ K = [n \in Node |-> K[n]]
    BY <1>0 DEF Emptied
  <2> QED
    BY <2>1, <2>2
<1>7. Nameless(Ky(g), T) = Ky(h)
  <2>1. ASSUME NEW n \in Node PROVE Nameless(Ky(g), T)[n] = Ky(h)[n]
    <3>1. CASE n \in T
      <4>1. n \in Node \ L
        BY <1>0, <1>2, <3>1
      <4>2. h.item[n].key = None
        BY <4>1 DEF Good, L
      <4> QED
        BY <3>1, <4>2, Views DEF Nameless
    <3>2. CASE n \notin T
      BY <3>2 DEF Nameless
    <3> QED
      BY <3>1, <3>2
  <2>2. Nameless(Ky(g), T) = [n \in Node |-> Nameless(Ky(g), T)[n]] /\ Ky(h) = [n \in Node |-> Ky(h)[n]]
    BY DEF Nameless, Ky
  <2> QED
    BY <2>1, <2>2
<1>8. Good(d, K, H) /\ LiveIn(d) = L /\ Ky(d) = Ky(h) /\ Doomed(g, a) = {a} \cup P
  BY <1>2, <1>3, <1>4, <1>5, <1>6, <1>7
<1> QED
  BY <1>8 DEF d, L, P

\* An item not in use is alone in its tree, and has no children.
LEMMA NewTree ==
    ASSUME NEW h, NEW K, NEW H, Good(h, K, H), NEW n \in Node \ LiveIn(h)
    PROVE  Tree(K, n) = {n} /\ OneRow(K, K, n) /\ ToSet(K[n]) = {} /\ K[n] = <<>>
<1>1. K \in [Node -> Seq(Node)] /\ K[n] = <<>>
  BY GoodFacts, Unused
<1>2. ToSet(K[n]) = {}
  BY <1>1 DEF ToSet
<1>3. n \in Tree(K, n) /\ {n} \in SUBSET Node /\ n \in {n} /\ Closed(K, {n})
  BY <1>1, <1>2, TreeClosed DEF Closed
<1>4. Tree(K, n) \subseteq {n}
  BY <1>3, TreeLeast
<1> QED
  BY <1>1, <1>2, <1>3, <1>4 DEF OneRow

\* Deleting an item just made leaves all as it was: what a call does when a
\* later allocation fails.
LEMMA UndoNew ==
    ASSUME NEW h, NEW K, NEW H, Good(h, K, H), NEW n \in Node \ LiveIn(h), NEW kind \in Kind
    PROVE  LET d == cJSON_Delete(cJSON_New_Item(h, n, kind), n) IN
           Good(d, K, H) /\ LiveIn(d) = LiveIn(h) /\ Ky(d) = Ky(h)
<1> DEFINE g == cJSON_New_Item(h, n, kind)
<1>1. Good(g, K, H \cup {n}) /\ LiveIn(g) = LiveIn(h) \cup {n} /\ Ky(g) = Ky(h)
  BY NewGood
<1> HIDE DEF g
<1>2. OneRow(K, K, n) /\ ToSet(K[n]) = {}
  BY NewTree
<1>3. /\ LiveIn(g) = LiveIn(h) \cup {n} \cup ToSet(K[n])
      /\ ToSet(K[n]) \subseteq Node \ LiveIn(h) /\ n \notin ToSet(K[n])
  BY <1>1, <1>2
<1>4. OneRow(K, K, n)
  BY <1>2
<1>5. Good(cJSON_Delete(g, n), K, H) /\ LiveIn(cJSON_Delete(g, n)) = LiveIn(h) /\ Ky(cJSON_Delete(g, n)) = Ky(h)
  <2> DEFINE J == K
  <2>1. Good(g, J, H \cup {n}) /\ OneRow(K, J, n) /\ Ky(g) = Ky(h)
        /\ LiveIn(g) = LiveIn(h) \cup {n} \cup ToSet(J[n])
        /\ ToSet(J[n]) \subseteq Node \ LiveIn(h) /\ n \notin ToSet(J[n])
    BY <1>1, <1>3, <1>4
  <2> HIDE DEF J
  <2> QED
    BY <2>1, UndoGood, SMTT(30)
<1> QED
  BY <1>5 DEF g

\* Heaps that agree in every part are equal.
LEMMA HeapSame ==
    ASSUME NEW g \in Heap, NEW h \in Heap, SameTexts(h, g), Nx(g) = Nx(h), Pv(g) = Pv(h), Ch(g) = Ch(h)
    PROVE  g = h
<1>1. ASSUME NEW n \in Node PROVE g.item[n] = h.item[n]
  <2>1. /\ g.item[n].next = h.item[n].next /\ g.item[n].prev = h.item[n].prev /\ g.item[n].child = h.item[n].child
        /\ g.item[n].kind = h.item[n].kind /\ g.item[n].key = h.item[n].key /\ g.item[n].const = h.item[n].const
    BY Views DEF SameTexts
  <2> DEFINE It(x) == [kind |-> x.kind, key |-> x.key, const |-> x.const, next |-> x.next, prev |-> x.prev, child |-> x.child]
  <2>2. g.item[n] = It(g.item[n]) /\ h.item[n] = It(h.item[n])
    BY ItemType
  <2>3. It(g.item[n]) = It(h.item[n])
    BY <2>1, Zenon
  <2> HIDE DEF It
  <2> QED
    BY <2>2, <2>3
<1>2. g.item \in [Node -> Item] /\ h.item \in [Node -> Item] /\ g.strings = h.strings
  BY DEF Heap, SameTexts
<1>3. g.item = h.item
  BY <1>1, <1>2
<1>4. g = HeapOf(g.item, g.strings) /\ h = HeapOf(h.item, h.strings)
  BY DEF Heap, HeapOf
<1> QED
  BY <1>2, <1>3, <1>4

-----------------------------------------------------------------------------
(* The chains of cJSON_CreateStringArray.                                  *)

\* One more item of a chain, as Chained makes it.
NextLink(s, a, parts, k) ==
    LET made == cJSON_New_Item(s, parts[k], "string")
    IN  IF k = 1 THEN Put(made, a, "child", parts[1])
        ELSE suffix_object(made, parts[k - 1], parts[k])
\* The heap after k items of the chain.
Link(h, a, parts, f, k) == IF k = 0 THEN h ELSE NextLink(f[k - 1], a, parts, k)

\* The chain s of k items, closed.
Ring(s, parts, k) == IF k = 0 THEN s ELSE Put(s, parts[1], "prev", parts[k])

\* The function by which Chained counts exists.
LEMMA ChainExists ==
    ASSUME NEW h, NEW a, NEW parts \in Seq(Node)
    PROVE  \E f : f = [k \in 0..Len(parts) |-> Link(h, a, parts, f, k)]
<1> DEFINE n == Len(parts)
           S == {k \in 0..n : \E f : f = [j \in 0..k |-> Link(h, a, parts, f, j)]}
<1>0. n \in Nat
  OBVIOUS
<1> HIDE DEF n
<1>1. 0 \in S
  <2> DEFINE f == [j \in 0..0 |-> h]
  <2>1. \A j \in 0..0 : Link(h, a, parts, f, j) = h
    BY DEF Link
  <2> HIDE DEF Link
  <2>2. f = [j \in 0..0 |-> Link(h, a, parts, f, j)]
    BY <2>1
  <2> HIDE DEF f
  <2>3. \E e : e = [j \in 0..0 |-> Link(h, a, parts, e, j)]
    BY <2>2
  <2> QED
    BY <1>0, <2>3
<1>2. ASSUME NEW k \in 0..n - 1, k \in S PROVE k + 1 \in S
  <2>1. PICK f : f = [j \in 0..k |-> Link(h, a, parts, f, j)]
    BY <1>2
  <2> DEFINE g == [j \in 0..k + 1 |-> IF j = k + 1 THEN NextLink(f[k], a, parts, k + 1) ELSE f[j]]
  <2>2. ASSUME NEW j \in 0..k + 1 PROVE g[j] = Link(h, a, parts, g, j)
    <3>1. CASE j = k + 1
      <4>1. j # 0 /\ j - 1 = k /\ k \in 0..k + 1 /\ k # k + 1
        BY <1>0, <3>1
      <4>2. g[j] = NextLink(f[k], a, parts, j) /\ g[k] = f[k]
        BY <3>1, <4>1
      <4> HIDE DEF g
      <4> QED
        BY <4>1, <4>2 DEF Link
    <3>2. CASE j # k + 1
      <4>1. j \in 0..k
        BY <1>0, <3>2
      <4>2. g[j] = f[j] /\ f[j] = Link(h, a, parts, f, j)
        BY <2>1, <3>2, <4>1
      <4>3. j # 0 => j - 1 \in 0..k + 1 /\ j - 1 # k + 1
        BY <1>0, <4>1
      <4>4. j # 0 => g[j - 1] = f[j - 1]
        BY <4>3
      <4> HIDE DEF g
      <4> QED
        BY <4>2, <4>4 DEF Link
    <3> QED
      BY <3>1, <3>2
  <2>3. g = [j \in 0..k + 1 |-> g[j]]
    OBVIOUS
  <2> HIDE DEF g
  <2>4. g = [j \in 0..k + 1 |-> Link(h, a, parts, g, j)]
    BY <2>2, <2>3
  <2>5. \E e : e = [j \in 0..k + 1 |-> Link(h, a, parts, e, j)]
    BY <2>4
  <2>6. k + 1 \in 0..n
    BY <1>0
  <2> QED
    BY <2>5, <2>6
<1>3. 0..n \subseteq S
  <2> HIDE DEF S
  <2>1. \A j \in 0..n - 1 : j \in S => j + 1 \in S
    BY <1>2
  <2> QED
    BY <1>0, <1>1, <2>1, AllIndexes
<1>4. n \in S
  <2> HIDE DEF S
  <2> QED
    BY <1>0, <1>3
<1> QED
  BY <1>4 DEF n

\* What Chained returns, by the function it counts with.
LEMMA ChainedIs ==
    ASSUME NEW h, NEW a, NEW parts \in Seq(Node)
    PROVE  \E f : /\ f = [k \in 0..Len(parts) |-> Link(h, a, parts, f, k)]
                  /\ Chained(h, a, parts, FALSE) = f[Len(parts)]
                  /\ Chained(h, a, parts, TRUE) = Ring(f[Len(parts)], parts, Len(parts))
<1> DEFINE f == CHOOSE f : f = [k \in 0..Len(parts) |-> Link(h, a, parts, f, k)]
<1>1. f = [k \in 0..Len(parts) |-> Link(h, a, parts, f, k)]
  BY ChainExists, Zenon
<1>2. Chained(h, a, parts, FALSE) = f[Len(parts)]
  BY Zenon DEF Chained, Link, NextLink
<1>3. Chained(h, a, parts, TRUE)
      = IF TRUE /\ parts # <<>> THEN Put(f[Len(parts)], parts[1], "prev", Last(parts)) ELSE f[Len(parts)]
  BY Zenon DEF Chained, Link, NextLink
<1> HIDE DEF f
<1>4. parts # <<>> <=> Len(parts) # 0
  OBVIOUS
<1>5. Chained(h, a, parts, TRUE) = Ring(f[Len(parts)], parts, Len(parts))
  <2> DEFINE x == Put(f[Len(parts)], parts[1], "prev", Last(parts))
             y == Chained(h, a, parts, TRUE)
             z == Ring(f[Len(parts)], parts, Len(parts))
  <2>1. y = IF TRUE /\ parts # <<>> THEN x ELSE f[Len(parts)]
    BY <1>3, Zenon
  <2>2. z = IF Len(parts) = 0 THEN f[Len(parts)] ELSE x
    BY Zenon DEF Ring, Last
  <2> HIDE DEF x, y, z
  <2>3. y = z
    BY <1>4, <2>1, <2>2
  <2> QED
    BY <2>3 DEF y, z
<1> QED
  BY <1>1, <1>2, <1>5

\* g is h with the links of a new item n, or with i linked after e.
Unlinked(h, n, g) ==
    /\ g \in Heap
    /\ \A m \in Node : Nx(g)[m] = IF m = n THEN Null ELSE Nx(h)[m]
    /\ \A m \in Node : Pv(g)[m] = IF m = n THEN Null ELSE Pv(h)[m]
    /\ \A m \in Node : Ch(g)[m] = IF m = n THEN Null ELSE Ch(h)[m]
\* g is h with i linked after e.
Suffixed(h, e, i, g) ==
    /\ g \in Heap /\ SameTexts(h, g) /\ Ch(g) = Ch(h)
    /\ \A m \in Node : Nx(g)[m] = IF m = e THEN i ELSE Nx(h)[m]
    /\ \A m \in Node : Pv(g)[m] = IF m = i THEN e ELSE Pv(h)[m]

\* A new item has no links.
LEMMA NewViews ==
    ASSUME NEW h \in Heap, NEW n \in Node, NEW kind \in Kind
    PROVE  Unlinked(h, n, cJSON_New_Item(h, n, kind))
<1> DEFINE g == cJSON_New_Item(h, n, kind)
<1>1. g \in Heap /\ \A m \in Node : g.item[m] = IF m = n THEN Born(kind) ELSE h.item[m]
  BY NewItem
<1>2. Born(kind).next = Null /\ Born(kind).prev = Null /\ Born(kind).child = Null
  BY DEF Born
<1> HIDE DEF g
<1>3. \A m \in Node : /\ g.item[m].next = IF m = n THEN Null ELSE h.item[m].next
                      /\ g.item[m].prev = IF m = n THEN Null ELSE h.item[m].prev
                      /\ g.item[m].child = IF m = n THEN Null ELSE h.item[m].child
  BY <1>1, <1>2
<1> QED
  BY <1>1, <1>3, Views DEF g, Unlinked

\* Items made in heaps with the same texts.
LEMMA NewTexts ==
    ASSUME NEW h \in Heap, NEW e \in Heap, SameTexts(h, e), NEW n \in Node, NEW kind \in Kind
    PROVE  SameTexts(cJSON_New_Item(h, n, kind), cJSON_New_Item(e, n, kind))
<1> DEFINE g == cJSON_New_Item(h, n, kind)
           d == cJSON_New_Item(e, n, kind)
<1>1. /\ \A m \in Node : g.item[m] = IF m = n THEN Born(kind) ELSE h.item[m]
      /\ g.strings = h.strings + IF Text(g, n) THEN 1 ELSE 0
  BY NewItem
<1>2. /\ \A m \in Node : d.item[m] = IF m = n THEN Born(kind) ELSE e.item[m]
      /\ d.strings = e.strings + IF Text(d, n) THEN 1 ELSE 0
  BY NewItem
<1>3. \A m \in Node : e.item[m].kind = h.item[m].kind /\ e.item[m].key = h.item[m].key /\ e.item[m].const = h.item[m].const
  BY Views DEF SameTexts
<1> HIDE DEF g, d
<1>4. \A m \in Node : d.item[m].kind = g.item[m].kind /\ d.item[m].key = g.item[m].key /\ d.item[m].const = g.item[m].const
  BY <1>1, <1>2, <1>3
<1>5. Kd(d) = Kd(g) /\ Ky(d) = Ky(g) /\ Ct(d) = Ct(g)
  BY <1>4 DEF Kd, Ky, Ct
<1>6. Text(d, n) <=> Text(g, n)
  BY <1>4, Zenon DEF Text
<1>7. e.strings = h.strings
  BY DEF SameTexts
<1>8. d.strings = g.strings
  BY <1>1, <1>2, <1>6, <1>7
<1> QED
  BY <1>5, <1>8 DEF g, d, SameTexts

\* suffix_object, by the views.
LEMMA SuffixViews ==
    ASSUME NEW h \in Heap, NEW e \in Node, NEW i \in Node
    PROVE  Suffixed(h, e, i, suffix_object(h, e, i))
<1> DEFINE g1 == Put(h, e, "next", i)
           g2 == Put(g1, i, "prev", e)
<1>0. e \in Ptr /\ i \in Ptr
  BY DEF Ptr
<1>1. suffix_object(h, e, i) = g2
  BY Zenon DEF suffix_object
<1>2. /\ g1 \in Heap /\ SameTexts(h, g1) /\ Pv(g1) = Pv(h) /\ Ch(g1) = Ch(h)
      /\ \A m \in Node : Nx(g1)[m] = IF m = e THEN i ELSE Nx(h)[m]
  BY <1>0, ToNext
<1> HIDE DEF g1
<1>3. /\ g2 \in Heap /\ SameTexts(g1, g2) /\ Nx(g2) = Nx(g1) /\ Ch(g2) = Ch(g1)
      /\ \A m \in Node : Pv(g2)[m] = IF m = i THEN e ELSE Pv(g1)[m]
  BY <1>0, <1>2, ToPrev
<1> HIDE DEF g2
<1> QED
  BY <1>1, <1>2, <1>3 DEF SameTexts, Suffixed

\* Heaps with the same links and texts are the same.
LEMMA SameViews ==
    ASSUME NEW g \in Heap, NEW h \in Heap, SameTexts(h, g),
           \A m \in Node : Nx(g)[m] = Nx(h)[m] /\ Pv(g)[m] = Pv(h)[m] /\ Ch(g)[m] = Ch(h)[m]
    PROVE  g = h
<1>1. /\ Nx(g) \in [Node -> Ptr] /\ Pv(g) \in [Node -> Ptr] /\ Ch(g) \in [Node -> Ptr]
      /\ Nx(h) \in [Node -> Ptr] /\ Pv(h) \in [Node -> Ptr] /\ Ch(h) \in [Node -> Ptr]
  BY ViewTypes
<1>2. Nx(g) = Nx(h) /\ Pv(g) = Pv(h) /\ Ch(g) = Ch(h)
  BY <1>1
<1> QED
  BY <1>2, HeapSame

\* The chain with the new item, closed, is the closed chain with the item added.
LEMMA RingFirst ==
    ASSUME NEW s \in Heap, NEW x \in Node, NEW a \in Node, a # x, s.item[a].child = Null, NEW kind \in Kind
    PROVE  Put(Put(cJSON_New_Item(s, x, kind), a, "child", x), x, "prev", x)
           = add_item_to_array(cJSON_New_Item(s, x, kind), a, x)
<1> DEFINE A == cJSON_New_Item(s, x, kind)
           b == Put(A, a, "child", x)
           c == Put(b, x, "prev", x)
           d == Put(c, x, "next", Null)
<1>0. x \in Ptr /\ Null \in Ptr
  BY DEF Ptr
<1>1. /\ A \in Heap /\ A.item[a].child = Null /\ Nx(A)[x] = Null
  <2>0. Unlinked(s, x, A)
    BY NewViews
  <2>1. A \in Heap /\ Nx(A)[x] = Null /\ Ch(A)[a] = Ch(s)[a]
    BY <2>0 DEF Unlinked
  <2> HIDE DEF A
  <2> QED
    BY <2>1, Views
<1>2. add_item_to_array(A, a, x) = d
  BY <1>1, Zenon DEF add_item_to_array
<1> HIDE DEF A
<1>3. b \in Heap /\ Nx(b) = Nx(A)
  BY <1>0, <1>1, ToChild
<1> HIDE DEF b
<1>4. c \in Heap /\ Nx(c) = Nx(b)
  BY <1>0, <1>3, ToPrev
<1> HIDE DEF c
<1>5. /\ d \in Heap /\ SameTexts(c, d) /\ Pv(d) = Pv(c) /\ Ch(d) = Ch(c)
      /\ \A m \in Node : Nx(d)[m] = IF m = x THEN Null ELSE Nx(c)[m]
  BY <1>0, <1>4, ToNext
<1> HIDE DEF d
<1>6. \A m \in Node : Nx(d)[m] = Nx(c)[m] /\ Pv(d)[m] = Pv(c)[m] /\ Ch(d)[m] = Ch(c)[m]
  BY <1>1, <1>3, <1>4, <1>5
<1>7. d = c
  BY <1>4, <1>5, <1>6, SameViews
<1> QED
  BY <1>2, <1>7 DEF b, c, A

\* h with the prev of n set to to.
Back(h, n, to) == Put(h, n, "prev", to)

\* A chain of at least one item, with a new one linked and closed, is the
\* closed chain with that item added.
LEMMA RingLater ==
    ASSUME NEW s \in Heap, NEW x \in Node, NEW a \in Node, NEW f \in Node, NEW e \in Node,
           a # x, f # x, e # x, NEW kind \in Kind, Back(s, f, e).item[a].child = f
    PROVE  Back(suffix_object(cJSON_New_Item(s, x, kind), e, x), f, x)
           = add_item_to_array(cJSON_New_Item(Back(s, f, e), x, kind), a, x)
<1> DEFINE t == Back(s, f, e)
           A == cJSON_New_Item(s, x, kind)
           B == cJSON_New_Item(t, x, kind)
           A1 == suffix_object(A, e, x)
           A2 == Back(A1, f, x)
           B1 == suffix_object(B, e, x)
           B2 == Back(B1, f, x)
<1>0. x \in Ptr /\ Null \in Ptr /\ e \in Ptr /\ Null \notin Node
  BY NodeAssumption DEF Ptr
<1>1. /\ t \in Heap /\ SameTexts(s, t) /\ Nx(t) = Nx(s) /\ Ch(t) = Ch(s) /\ t.item[a].child = f
      /\ \A m \in Node : Pv(t)[m] = IF m = f THEN e ELSE Pv(s)[m]
  <2>1. /\ t \in Heap /\ SameTexts(s, t) /\ Nx(t) = Nx(s) /\ Ch(t) = Ch(s)
        /\ \A m \in Node : Pv(t)[m] = IF m = f THEN e ELSE Pv(s)[m]
    BY <1>0, ToPrev DEF Back
  <2>2. t.item[a].child = f
    OBVIOUS
  <2> HIDE DEF t
  <2> QED
    BY <2>1, <2>2
<1> HIDE DEF t
<1>2. Unlinked(s, x, A)
  BY NewViews
<1>3. Unlinked(t, x, B)
  BY <1>1, NewViews
<1>4. SameTexts(A, B)
  BY <1>1, NewTexts
<1> HIDE DEF A, B
<1>5. B.item[a].child = f /\ B.item[f].prev = e /\ A \in Heap /\ B \in Heap
  <2>1. Ch(B)[a] = f /\ Pv(B)[f] = e
    BY <1>1, <1>3, Views DEF Unlinked
  <2> QED
    BY <1>2, <1>3, <2>1, Views DEF Unlinked
<1>6. add_item_to_array(B, a, x) = B2
  <2>1. f # Null /\ e # Null
    BY <1>0
  <2> QED
    BY <1>5, <2>1, Zenon DEF add_item_to_array, Back
<1>7. Suffixed(A, e, x, A1)
  BY <1>5, SuffixViews
<1>8. Suffixed(B, e, x, B1)
  BY <1>5, SuffixViews
<1> HIDE DEF A1, B1
<1>9. /\ A2 \in Heap /\ SameTexts(A1, A2) /\ Nx(A2) = Nx(A1) /\ Ch(A2) = Ch(A1)
      /\ \A m \in Node : Pv(A2)[m] = IF m = f THEN x ELSE Pv(A1)[m]
  BY <1>0, <1>7, ToPrev DEF Back, Suffixed
<1>10. /\ B2 \in Heap /\ SameTexts(B1, B2) /\ Nx(B2) = Nx(B1) /\ Ch(B2) = Ch(B1)
       /\ \A m \in Node : Pv(B2)[m] = IF m = f THEN x ELSE Pv(B1)[m]
  BY <1>0, <1>8, ToPrev DEF Back, Suffixed
<1> HIDE DEF A2, B2
<1>11. SameTexts(A2, B2)
  BY <1>4, <1>7, <1>8, <1>9, <1>10 DEF SameTexts, Suffixed
<1>12. \A m \in Node : Nx(B2)[m] = Nx(A2)[m] /\ Ch(B2)[m] = Ch(A2)[m]
  BY <1>1, <1>2, <1>3, <1>7, <1>8, <1>9, <1>10 DEF Unlinked, Suffixed
<1>13. \A m \in Node : Pv(B2)[m] = Pv(A2)[m]
  BY <1>1, <1>2, <1>3, <1>7, <1>8, <1>9, <1>10 DEF Unlinked, Suffixed
<1>14. B2 = A2
  BY <1>9, <1>10, <1>11, <1>12, <1>13, SameViews
<1> QED
  BY <1>6, <1>14 DEF A2, A1, A, B, t

\* The forest with the first k of parts below a.
Begun(K, a, parts, k) == Row(K, a, SubSeq(parts, 1, k))

\* The rows with s in place of the row of a.
LEMMA RowAt ==
    ASSUME NEW K \in [Node -> Seq(Node)], NEW a \in Node, NEW s \in Seq(Node)
    PROVE  /\ Row(K, a, s) \in [Node -> Seq(Node)] /\ Row(K, a, s)[a] = s
           /\ \A q \in Node \ {a} : Row(K, a, s)[q] = K[q]
           /\ \A r : Row(Row(K, a, s), a, r) = Row(K, a, r)
           /\ K[a] = s => Row(K, a, s) = K
BY DEF Row

\* The first items of a sequence.
LEMMA SubSeqPlaces ==
    ASSUME NEW parts \in Seq(Node), NEW k \in 0..Len(parts)
    PROVE  /\ SubSeq(parts, 1, k) \in Seq(Node) /\ Len(SubSeq(parts, 1, k)) = k
           /\ \A j \in 1..k : SubSeq(parts, 1, k)[j] = parts[j]
OBVIOUS

\* One more of the first items of parts at the end of the row.
LEMMA BegunLonger ==
    ASSUME NEW K \in [Node -> Seq(Node)], NEW a \in Node, NEW parts \in Seq(Node), NEW k \in 1..Len(parts)
    PROVE  /\ Longer(Begun(K, a, parts, k - 1), a, parts[k]) = Begun(K, a, parts, k)
           /\ Begun(K, a, parts, k - 1)[a] = SubSeq(parts, 1, k - 1)
<1> DEFINE s == SubSeq(parts, 1, k - 1)
           t == SubSeq(parts, 1, k)
           u == InsertAt(s, Len(s) + 1, parts[k])
<1>0. Len(parts) \in Nat /\ k \in Nat /\ k - 1 \in 0..Len(parts) /\ k \in 0..Len(parts) /\ parts[k] \in Node
  OBVIOUS
<1>1. s \in Seq(Node) /\ Len(s) = k - 1 /\ \A j \in 1..k - 1 : s[j] = parts[j]
  BY <1>0, SubSeqPlaces
<1>2. t \in Seq(Node) /\ Len(t) = k /\ \A j \in 1..k : t[j] = parts[j]
  BY <1>0, SubSeqPlaces
<1> HIDE DEF s, t
<1>3. /\ u \in Seq(Node) /\ Len(u) = Len(s) + 1
      /\ \A j \in 1..Len(s) + 1 : u[j] = IF j < Len(s) + 1 THEN s[j] ELSE IF j = Len(s) + 1 THEN parts[k] ELSE s[j - 1]
  <2>1. Len(s) + 1 \in 1..Len(s) + 1 /\ parts[k] \in Node
    BY <1>0, <1>1
  <2> QED
    BY <1>1, <2>1, InsertAtPlaces, SMTT(30)
<1> HIDE DEF u
<1>4. ASSUME NEW j \in 1..k PROVE u[j] = t[j]
  <2>1. j < Len(s) + 1 => j \in 1..k - 1
    BY <1>0, <1>1
  <2>2. j \in 1..Len(s) + 1 /\ (~(j < Len(s) + 1) => j = k /\ j = Len(s) + 1)
    BY <1>0, <1>1
  <2>3. u[j] = IF j < Len(s) + 1 THEN s[j] ELSE IF j = Len(s) + 1 THEN parts[k] ELSE s[j - 1]
    BY <1>3, <2>2
  <2>4. t[j] = parts[j]
    BY <1>2
  <2> QED
    BY <1>1, <2>1, <2>2, <2>3, <2>4
<1>5. u = t
  <2>1. Len(u) = k
    BY <1>0, <1>1, <1>3
  <2> QED
    BY <1>2, <1>3, <1>4, <2>1
<1>6. Begun(K, a, parts, k - 1) = Row(K, a, s) /\ Begun(K, a, parts, k) = Row(K, a, t)
  BY DEF Begun, s, t
<1>7. Row(K, a, s)[a] = s /\ \A r : Row(Row(K, a, s), a, r) = Row(K, a, r)
  BY <1>1, RowAt, ZenonT(30)
<1>8. Longer(Row(K, a, s), a, parts[k]) = Row(Row(K, a, s), a, InsertAt(Row(K, a, s)[a], Len(Row(K, a, s)[a]) + 1, parts[k]))
  BY DEF Longer, Grown
<1>9. Longer(Row(K, a, s), a, parts[k]) = Row(Row(K, a, s), a, u)
  BY <1>7, <1>8 DEF u
<1> QED
  BY <1>5, <1>6, <1>7, <1>9 DEF s

\* A new item added to an array of the caller's.
LEMMA AppendNew ==
    ASSUME NEW h, NEW K, NEW I, Good(h, K, I), NEW a \in I, NEW x \in Node \ LiveIn(h), NEW kind \in Kind
    PROVE  LET g == add_item_to_array(cJSON_New_Item(h, x, kind), a, x) IN
           /\ Good(g, Longer(K, a, x), I)
           /\ LiveIn(g) = LiveIn(h) \cup {x} /\ Ky(g) = Ky(h) /\ a # x
<1> DEFINE N == cJSON_New_Item(h, x, kind)
           H2 == I \cup {x}
           b == add_item_to_array(N, a, x)
<1>1. a \in LiveIn(h) /\ I \subseteq LiveIn(h) /\ LiveIn(h) \subseteq Node
  BY GoodFacts
<1>2. Good(N, K, H2) /\ LiveIn(N) = LiveIn(h) \cup {x} /\ Ky(N) = Ky(h)
  BY NewGood
<1>3. a \notin Tree(K, x) /\ a # x
  <2>1. Tree(K, x) = {x}
    BY NewTree
  <2> QED
    BY <1>1, <2>1
<1> HIDE DEF N
<1>4. a \in LiveIn(N) /\ x \in H2 /\ H2 \ {x} = I
  BY <1>1, <1>2
<1> HIDE DEF H2
<1>5. Good(b, Longer(K, a, x), H2 \ {x}) /\ LiveIn(b) = LiveIn(N) /\ Ky(b) = Ky(N)
  BY <1>2, <1>3, <1>4, AddGood
<1> HIDE DEF b
<1>6. Good(b, Longer(K, a, x), I) /\ LiveIn(b) = LiveIn(h) \cup {x} /\ Ky(b) = Ky(h) /\ a # x
  BY <1>2, <1>3, <1>4, <1>5
<1> QED
  BY <1>6 DEF b, N

\* NextLink, for items of any kind.
LinkOf(s, a, parts, k, kind) ==
    LET made == cJSON_New_Item(s, parts[k], kind)
    IN  IF k = 1 THEN Put(made, a, "child", parts[1])
        ELSE suffix_object(made, parts[k - 1], parts[k])

\* One more item closes to a chain with one more item.
LEMMA ChainStep ==
    ASSUME NEW K, NEW I, NEW a \in I, NEW parts \in Seq(Node), NEW k \in 1..Len(parts),
           NEW s \in Heap, NEW kind \in Kind, K \in [Node -> Seq(Node)], Len(K[a]) = 0,
           Good(Ring(s, parts, k - 1), Begun(K, a, parts, k - 1), I),
           parts[k] \notin LiveIn(Ring(s, parts, k - 1))
    PROVE  LET t == Ring(s, parts, k - 1)
               g == Ring(LinkOf(s, a, parts, k, kind), parts, k) IN
           /\ LinkOf(s, a, parts, k, kind) \in Heap
           /\ Good(g, Begun(K, a, parts, k), I)
           /\ LiveIn(g) = LiveIn(t) \cup {parts[k]} /\ Ky(g) = Ky(t)
<1> DEFINE t == Ring(s, parts, k - 1)
           M == Begun(K, a, parts, k - 1)
           x == parts[k]
           A == cJSON_New_Item(s, x, kind)
           N == cJSON_New_Item(t, x, kind)
           b == add_item_to_array(N, a, x)
<1>0. Len(parts) \in Nat /\ k \in Nat /\ x \in Node /\ x \in Node \ LiveIn(t)
  OBVIOUS
<1>1. Good(t, M, I)
  OBVIOUS
<1>2. Longer(M, a, x) = Begun(K, a, parts, k) /\ M[a] = SubSeq(parts, 1, k - 1) /\ a \in Node /\ a \in LiveIn(t)
  <2>1. a \in LiveIn(t) /\ a \in Node
    BY <1>1, GoodFacts
  <2> QED
    BY <2>1, BegunLonger, ZenonT(30)
<1>3. Ch(t)[a] = IF k = 1 THEN Null ELSE parts[1]
  <2>1. Lists(Nx(t), Pv(t), Ch(t), M)
    BY <1>1, GoodFacts
  <2>2. Ch(t)[a] = IF Len(M[a]) = 0 THEN Null ELSE M[a][1]
    BY <1>2, <2>1, ListFacts
  <2>3. Len(SubSeq(parts, 1, k - 1)) = k - 1 /\ \A j \in 1..k - 1 : SubSeq(parts, 1, k - 1)[j] = parts[j]
    BY <1>0, SubSeqPlaces
  <2>4. Len(M[a]) = k - 1 /\ \A j \in 1..k - 1 : M[a][j] = parts[j]
    BY <1>2, <2>3
  <2> HIDE DEF M, t
  <2>5. k # 1 => M[a][1] = parts[1] /\ Len(M[a]) # 0
    BY <1>0, <2>4
  <2>6. k = 1 => Len(M[a]) = 0
    BY <2>4
  <2> QED
    BY <2>2, <2>5, <2>6
<1>4. t.item[a].child = IF k = 1 THEN Null ELSE parts[1]
  <2> HIDE DEF t
  <2> QED
    BY <1>2, <1>3, Views
<1> HIDE DEF M
<1>6. Good(b, Longer(M, a, x), I) /\ LiveIn(b) = LiveIn(t) \cup {x} /\ Ky(b) = Ky(t) /\ a # x
  <2> HIDE DEF t, x
  <2> QED
    BY <1>0, <1>1, AppendNew
<1>9. LinkOf(s, a, parts, k, kind) \in Heap /\ Ring(LinkOf(s, a, parts, k, kind), parts, k) = b
  <2>0. Unlinked(s, x, A)
    BY <1>0, NewViews
  <2>1. A \in Heap
    BY <2>0 DEF Unlinked
  <2>2. CASE k = 1
    <3>0. k - 1 = 0 /\ parts[1] = x
      BY <2>2
    <3>1. LinkOf(s, a, parts, k, kind) = Put(A, a, "child", x) /\ t = s
      <4>1. LinkOf(s, a, parts, k, kind) = Put(A, a, "child", parts[1])
        BY <2>2, Zenon DEF LinkOf
      <4>2. t = s
        BY <3>0, Zenon DEF Ring
      <4> HIDE DEF A, x, t
      <4> QED
        BY <3>0, <4>1, <4>2
    <3>2. Put(A, a, "child", x) \in Heap
      <4> HIDE DEF A
      <4>1. x \in Ptr
        BY <1>0 DEF Ptr
      <4> QED
        BY <1>0, <1>2, <2>1, <4>1, ToChild
    <3>3. Ring(LinkOf(s, a, parts, k, kind), parts, k) = Put(Put(A, a, "child", x), x, "prev", x)
      <4> DEFINE y == LinkOf(s, a, parts, k, kind)
      <4>1. k # 0 /\ parts[1] = parts[k] /\ y = Put(A, a, "child", x)
        BY <2>2, <3>1
      <4> HIDE DEF A, y
      <4>2. Ring(y, parts, k) = Put(y, parts[1], "prev", parts[k])
        BY <4>1, Zenon DEF Ring
      <4>3. Ring(y, parts, k) = Put(Put(A, a, "child", x), x, "prev", x)
        BY <4>1, <4>2, Zenon
      <4> QED
        BY <4>3, Zenon DEF y
    <3>4. s.item[a].child = Null
      BY <1>4, <2>2, <3>1
    <3>5. Put(Put(A, a, "child", x), x, "prev", x) = add_item_to_array(A, a, x)
      <4> HIDE DEF x
      <4> QED
        BY <1>0, <1>2, <1>6, <3>4, RingFirst
    <3>6. b = add_item_to_array(A, a, x)
      BY <3>1
    <3> HIDE DEF A, b
    <3> QED
      BY <3>1, <3>2, <3>3, <3>5, <3>6
  <2>3. CASE k # 1
    <3> DEFINE f == parts[1]
               e == parts[k - 1]
    <3>0. f \in Node /\ e \in Node /\ k - 1 # 0 /\ k # 0
      BY <1>0, <2>3
    <3>1. t = Back(s, f, e)
      <4> HIDE DEF f, e
      <4> QED
        BY <3>0, Zenon DEF Ring, Back, f, e
    <3>2. LinkOf(s, a, parts, k, kind) = suffix_object(A, e, x)
      BY <2>3, Zenon DEF LinkOf
    <3>3. Suffixed(A, e, x, suffix_object(A, e, x))
      <4> HIDE DEF A, e, x
      <4> QED
        BY <1>0, <2>1, <3>0, SuffixViews
    <3>4. suffix_object(A, e, x) \in Heap
      BY <3>3 DEF Suffixed
    <3>5. Ring(LinkOf(s, a, parts, k, kind), parts, k) = Back(suffix_object(A, e, x), f, x)
      <4> HIDE DEF A
      <4> QED
        BY <3>0, <3>2, Zenon DEF Ring, Back
    <3>6. Back(s, f, e).item[a].child = f
      BY <1>4, <2>3, <3>1
    <3>7. f # x /\ e # x
      <4>1. \A j \in 1..k - 1 : parts[j] \in LiveIn(t)
        <5>1. ToSet(M[a]) \subseteq LiveIn(t)
          <6> HIDE DEF t
          <6> QED
            BY <1>1, <1>2, GoodFacts
        <5>2. k - 1 \in 0..Len(parts)
          BY <1>0
        <5>3. SubSeq(parts, 1, k - 1) \in Seq(Node) /\ Len(SubSeq(parts, 1, k - 1)) = k - 1
              /\ \A j \in 1..k - 1 : SubSeq(parts, 1, k - 1)[j] = parts[j]
          BY <5>2, SubSeqPlaces
        <5>4. \A j \in 1..k - 1 : parts[j] \in ToSet(SubSeq(parts, 1, k - 1))
          <6> DEFINE u == SubSeq(parts, 1, k - 1)
          <6>1. u \in Seq(Node) /\ Len(u) = k - 1 /\ \A j \in 1..k - 1 : u[j] = parts[j]
            BY <5>3
          <6> HIDE DEF u
          <6>2. \A j \in 1..k - 1 : parts[j] \in ToSet(u)
            BY <6>1, Rows, ZenonT(30)
          <6> QED
            BY <6>2 DEF u
        <5> HIDE DEF t
        <5> QED
          BY <1>2, <5>1, <5>4
      <4>2. 1 \in 1..k - 1 /\ k - 1 \in 1..k - 1
        BY <1>0, <2>3
      <4> HIDE DEF t
      <4> QED
        BY <1>0, <4>1, <4>2
    <3>8. Back(suffix_object(A, e, x), f, x) = add_item_to_array(cJSON_New_Item(Back(s, f, e), x, kind), a, x)
      <4> HIDE DEF e, f, x
      <4> QED
        BY <1>0, <1>2, <1>6, <3>0, <3>6, <3>7, RingLater DEF A
    <3>9. b = add_item_to_array(cJSON_New_Item(Back(s, f, e), x, kind), a, x)
      BY <3>1
    <3> HIDE DEF A, b, e, f
    <3> QED
      BY <3>2, <3>4, <3>5, <3>8, <3>9
  <2> QED
    BY <2>2, <2>3
<1> HIDE DEF b, N, t, A, x
<1>10. Good(b, Begun(K, a, parts, k), I) /\ LiveIn(b) = LiveIn(t) \cup {x} /\ Ky(b) = Ky(t)
  BY <1>2, <1>6
<1> QED
  BY <1>9, <1>10 DEF t, x

\* The chain s of k items of parts, closed, is a row of a.
Whole(s, h, K, I, a, parts, k) ==
    /\ s \in Heap /\ Good(Ring(s, parts, k), Begun(K, a, parts, k), I)
    /\ LiveIn(Ring(s, parts, k)) = LiveIn(h) \cup ToSet(SubSeq(parts, 1, k))
    /\ Ky(Ring(s, parts, k)) = Ky(h)

\* The first items of parts, as a set.
LEMMA BegunSet ==
    ASSUME NEW parts \in Seq(Node), NEW k \in 1..Len(parts)
    PROVE  /\ ToSet(SubSeq(parts, 1, k)) = ToSet(SubSeq(parts, 1, k - 1)) \cup {parts[k]}
           /\ ToSet(SubSeq(parts, 1, k - 1)) = {parts[j] : j \in 1..k - 1}
<1> DEFINE s == SubSeq(parts, 1, k - 1)
           t == SubSeq(parts, 1, k)
<1>0. Len(parts) \in Nat /\ k \in Nat /\ k - 1 \in 0..Len(parts) /\ k \in 0..Len(parts) /\ parts[k] \in Node
  OBVIOUS
<1>1. s \in Seq(Node) /\ Len(s) = k - 1 /\ \A j \in 1..k - 1 : s[j] = parts[j]
  BY <1>0, SubSeqPlaces
<1>2. t \in Seq(Node) /\ Len(t) = k /\ \A j \in 1..k : t[j] = parts[j]
  BY <1>0, SubSeqPlaces
<1> HIDE DEF s, t
<1>3. ToSet(s) = {s[j] : j \in 1..k - 1} /\ ToSet(t) = {t[j] : j \in 1..k}
  BY <1>1, <1>2, Rows
<1>4. ToSet(s) = {parts[j] : j \in 1..k - 1}
  BY <1>1, <1>3
<1>5. ToSet(t) = {parts[j] : j \in 1..k}
  BY <1>2, <1>3
<1>6. 1..k = (1..k - 1) \cup {k}
  BY <1>0
<1>7. ToSet(t) = ToSet(s) \cup {parts[k]}
  BY <1>4, <1>5, <1>6
<1> QED
  BY <1>4, <1>7 DEF s, t

\* New items, each once.
Unborn(parts, L) ==
    /\ \A j, k \in 1..Len(parts) : parts[j] = parts[k] => j = k
    /\ \A j \in 1..Len(parts) : parts[j] \notin L

\* f has the chain of the first items of parts at the end of each round.
Rounds(h, a, parts, f) == f = [k \in 0..Len(parts) |-> Link(h, a, parts, f, k)]

\* What one round of the loop leaves.
LEMMA RoundIs ==
    ASSUME NEW h, NEW a, NEW parts \in Seq(Node), NEW f, Rounds(h, a, parts, f), NEW k \in 0..Len(parts)
    PROVE  f[k] = Link(h, a, parts, f, k)
<1>1. f = [j \in 0..Len(parts) |-> Link(h, a, parts, f, j)]
  BY Zenon DEF Rounds
<1> QED
  BY <1>1, Zenon

\* After every round the chain, once closed, is the row of the array: no item
\* is lost on the way.
LEMMA RingGood ==
    ASSUME NEW h, NEW K, NEW I, Good(h, K, I), NEW a \in I, Len(K[a]) = 0,
           NEW parts \in Seq(Node), Unborn(parts, LiveIn(h)),
           NEW f, Rounds(h, a, parts, f)
    PROVE  LET n == Len(parts)
               g == Ring(f[n], parts, n) IN
           /\ f[n] \in Heap /\ Good(g, Row(K, a, parts), I)
           /\ LiveIn(g) = LiveIn(h) \cup ToSet(parts) /\ Ky(g) = Ky(h)
<1> DEFINE n == Len(parts)
           S == {k \in 0..n : Whole(f[k], h, K, I, a, parts, k)}
<1>0. n \in Nat /\ h \in Heap /\ K \in [Node -> Seq(Node)] /\ a \in Node
  BY GoodFacts
<1> HIDE DEF n
<1>1. 0 \in S
  <2>1. f[0] = h
    <3>1. 0 \in 0..n
      BY <1>0
    <3>2. f[0] = Link(h, a, parts, f, 0)
      BY <3>1, RoundIs DEF n
    <3> QED
      BY <3>2, Zenon DEF Link
  <2>2. Ring(f[0], parts, 0) = h
    BY <2>1, Zenon DEF Ring
  <2>3. SubSeq(parts, 1, 0) = <<>> /\ ToSet(SubSeq(parts, 1, 0)) = {} /\ K[a] = <<>>
    <3>1. SubSeq(parts, 1, 0) = <<>>
      OBVIOUS
    <3>2. ToSet(<<>>) = {}
      BY DEF ToSet
    <3>3. K[a] = <<>>
      <4>1. K[a] \in Seq(Node)
        BY <1>0
      <4> QED
        BY <4>1
    <3> QED
      BY <3>1, <3>2, <3>3, Zenon
  <2>4. Begun(K, a, parts, 0) = K
    <3>1. <<>> \in Seq(Node)
      OBVIOUS
    <3>2. Begun(K, a, parts, 0) = Row(K, a, <<>>)
      BY <2>3, Zenon DEF Begun
    <3>3. Row(K, a, <<>>) = K
      BY <1>0, <2>3, <3>1, RowAt, Zenon
    <3> QED
      BY <3>2, <3>3
  <2>5. Whole(f[0], h, K, I, a, parts, 0)
    BY <1>0, <2>1, <2>2, <2>3, <2>4 DEF Whole
  <2> QED
    BY <1>0, <2>5
<1>2. ASSUME NEW k \in 0..n - 1, k \in S PROVE k + 1 \in S
  <2> DEFINE s == f[k]
             m == k + 1
             r == f[m]
  <2>0. m \in 1..n /\ m - 1 = k /\ m # 0 /\ m \in 0..n /\ k \in 0..n
    BY <1>0
  <2>1. Whole(s, h, K, I, a, parts, m - 1)
    BY <1>2, <2>0
  <2>2. r = LinkOf(s, a, parts, m, "string")
    <3>1. r = Link(h, a, parts, f, m)
      <4>1. m \in 0..Len(parts)
        BY <2>0 DEF n
      <4> HIDE DEF m
      <4> QED
        BY <4>1, RoundIs
    <3>2. Link(h, a, parts, f, m) = NextLink(f[m - 1], a, parts, m)
      <4>1. m # 0
        BY <2>0
      <4> HIDE DEF m
      <4> QED
        BY <4>1, Zenon DEF Link
    <3>3. f[m - 1] = s
      BY <2>0
    <3>4. NextLink(s, a, parts, m) = LinkOf(s, a, parts, m, "string")
      BY Zenon DEF NextLink, LinkOf
    <3> HIDE DEF r, s, m
    <3> QED
      BY <3>1, <3>2, <3>3, <3>4, Zenon
  <2> HIDE DEF s, m, r
  <2>3. s \in Heap /\ Good(Ring(s, parts, m - 1), Begun(K, a, parts, m - 1), I)
    BY <2>1 DEF Whole
  <2>4. /\ LiveIn(Ring(s, parts, m - 1)) = LiveIn(h) \cup ToSet(SubSeq(parts, 1, m - 1))
        /\ Ky(Ring(s, parts, m - 1)) = Ky(h)
    BY <2>1 DEF Whole
  <2>5. ToSet(SubSeq(parts, 1, m)) = ToSet(SubSeq(parts, 1, m - 1)) \cup {parts[m]}
        /\ ToSet(SubSeq(parts, 1, m - 1)) = {parts[j] : j \in 1..m - 1}
    BY <2>0, BegunSet DEF n
  <2>6. parts[m] \notin LiveIn(Ring(s, parts, m - 1))
    <3>1. parts[m] \notin LiveIn(h)
      BY <2>0 DEF n, Unborn
    <3>2. ASSUME NEW j \in 1..m - 1 PROVE parts[j] # parts[m]
      <4>1. j \in 1..n /\ j # m
        BY <1>0, <2>0
      <4> QED
        BY <2>0, <4>1 DEF n, Unborn
    <3> QED
      BY <2>4, <2>5, <3>1, <3>2
  <2>7. "string" \in Kind
    BY DEF Kind
  <2> DEFINE kind == "string"
             R == Ring(LinkOf(s, a, parts, m, kind), parts, m)
  <2>8. kind \in Kind /\ r = LinkOf(s, a, parts, m, kind)
    BY <2>2, <2>7
  <2> HIDE DEF kind
  <2>9. /\ LinkOf(s, a, parts, m, kind) \in Heap
        /\ Good(R, Begun(K, a, parts, m), I)
        /\ LiveIn(R) = LiveIn(Ring(s, parts, m - 1)) \cup {parts[m]}
        /\ Ky(R) = Ky(Ring(s, parts, m - 1))
    <3>1. m \in 1..Len(parts)
      BY <2>0 DEF n
    <3> QED
      BY <1>0, <2>3, <2>6, <2>8, <3>1, ChainStep
  <2>10. R = Ring(r, parts, m)
    BY <2>8
  <2> HIDE DEF R
  <2>11. Whole(r, h, K, I, a, parts, m)
    BY <2>4, <2>5, <2>8, <2>9, <2>10 DEF Whole
  <2> QED
    BY <2>0, <2>11 DEF r, m
<1>3. n \in S
  <2> HIDE DEF S
  <2>1. \A j \in 0..n - 1 : j \in S => j + 1 \in S
    BY <1>2
  <2>0. n \in Nat
    BY <1>0
  <2>2. 0..n \subseteq S
    BY <1>1, <2>0, <2>1, AllIndexes
  <2> QED
    BY <1>0, <2>2
<1>4. Whole(f[n], h, K, I, a, parts, n)
  BY <1>3
<1>5. SubSeq(parts, 1, n) = parts
  BY DEF n
<1>6. /\ f[n] \in Heap /\ Good(Ring(f[n], parts, n), Row(K, a, parts), I)
      /\ LiveIn(Ring(f[n], parts, n)) = LiveIn(h) \cup ToSet(parts) /\ Ky(Ring(f[n], parts, n)) = Ky(h)
  BY <1>4, <1>5 DEF Whole, Begun
<1> QED
  BY <1>6 DEF n

\* An item's prev does not matter when the item goes.
LEMMA DeleteBack ==
    ASSUME NEW s \in Heap, NEW f \in Node, NEW e \in Node, NEW a \in Node, f \in Doomed(Back(s, f, e), a)
    PROVE  cJSON_Delete(Back(s, f, e), a) = cJSON_Delete(s, a)
<1> DEFINE t == Back(s, f, e)
           D == Doomed(t, a)
           E == Doomed(s, a)
<1>1. t \in Heap /\ SameTexts(s, t) /\ Nx(t) = Nx(s) /\ Ch(t) = Ch(s)
  <2>1. e \in Ptr
    BY DEF Ptr
  <2> QED
    BY <2>1, ToPrev DEF Back
<1>2. \A m \in Node \ {f} : t.item[m] = s.item[m]
  <2>1. s.item \in [Node -> Item]
    BY ItemType
  <2> QED
    BY <2>1 DEF Back, Put
<1> HIDE DEF t
<1>3. \A m \in Node : t.item[m].next = s.item[m].next /\ t.item[m].child = s.item[m].child
  BY <1>1, Views
<1>4. D = E
  <2> DEFINE Onto(x, S, m) == {x.item[m].next, x.item[m].child} \ {Null} \subseteq S
  <2>1. \A S \in SUBSET Node : \A m \in S : Onto(t, S, m) <=> Onto(s, S, m)
    BY <1>3
  <2>2. D = {m \in Node : \A S \in SUBSET Node : {a} \ {Null} \subseteq S /\ (\A n \in S : Onto(t, S, n)) => m \in S}
    BY Zenon DEF Doomed
  <2>3. E = {m \in Node : \A S \in SUBSET Node : {a} \ {Null} \subseteq S /\ (\A n \in S : Onto(s, S, n)) => m \in S}
    BY Zenon DEF Doomed
  <2> HIDE DEF Onto, D, E
  <2>4. \A S \in SUBSET Node : (\A n \in S : Onto(t, S, n)) <=> (\A n \in S : Onto(s, S, n))
    BY <2>1
  <2> QED
    BY <2>2, <2>3, <2>4
<1>5. D \in SUBSET Node /\ f \in D
  BY DEF Doomed, t
<1>6. Strings(t, D) = Strings(s, D) /\ t.strings = s.strings
  BY <1>1, <1>5, TextsKept DEF SameTexts
<1> HIDE DEF D, E
<1>7. [m \in Node |-> IF m \in D THEN Blank ELSE t.item[m]] = [m \in Node |-> IF m \in E THEN Blank ELSE s.item[m]]
  BY <1>2, <1>4, <1>5
<1>8. cJSON_Delete(t, a) = [item |-> [m \in Node |-> IF m \in D THEN Blank ELSE t.item[m]],
                            strings |-> t.strings - Strings(t, D)]
  BY Zenon DEF cJSON_Delete, D
<1>9. cJSON_Delete(s, a) = [item |-> [m \in Node |-> IF m \in E THEN Blank ELSE s.item[m]],
                            strings |-> s.strings - Strings(s, E)]
  BY Zenon DEF cJSON_Delete, E
<1>10. t.strings - Strings(t, D) = s.strings - Strings(s, E)
  BY <1>4, <1>6
<1> QED
  BY <1>7, <1>8, <1>9, <1>10, Zenon DEF t

\* cJSON_CreateStringArray makes an array with a row of new strings, and one
\* whose last allocation fails deletes all it made.
LEMMA StringArrayGood ==
    ASSUME NEW h, NEW K, NEW H, Good(h, K, H), NEW a \in Node \ LiveIn(h),
           NEW parts \in Seq(Node), Unborn(parts, LiveIn(h) \cup {a})
    PROVE  LET A == cJSON_New_Item(h, a, "list")
               g == Chained(A, a, parts, TRUE)
               d == cJSON_Delete(Chained(A, a, parts, FALSE), a) IN
           /\ Good(g, Row(K, a, parts), H \cup {a})
           /\ LiveIn(g) = LiveIn(h) \cup {a} \cup ToSet(parts) /\ Ky(g) = Ky(h)
           /\ Good(d, K, H) /\ LiveIn(d) = LiveIn(h) /\ Ky(d) = Ky(h)
<1> DEFINE A == cJSON_New_Item(h, a, "list")
           c == Chained(A, a, parts, FALSE)
           g == Chained(A, a, parts, TRUE)
           n == Len(parts)
           J == Row(K, a, parts)
           I == H \cup {a}
<1>0. n \in Nat /\ K \in [Node -> Seq(Node)] /\ K[a] = <<>> /\ Len(K[a]) = 0
  <2>1. K \in [Node -> Seq(Node)] /\ K[a] = <<>>
    BY GoodFacts, Unused
  <2> QED
    BY <2>1
<1>1. Good(A, K, I) /\ LiveIn(A) = LiveIn(h) \cup {a} /\ Ky(A) = Ky(h)
  <2> DEFINE kind == "list"
  <2>1. kind \in Kind
    BY DEF Kind
  <2> HIDE DEF kind
  <2>2. LET x == cJSON_New_Item(h, a, kind) IN
        Good(x, K, H \cup {a}) /\ LiveIn(x) = LiveIn(h) \cup {a} /\ Ky(x) = Ky(h)
    BY <2>1, NewGood
  <2> QED
    BY <2>2, Zenon DEF kind
<1> HIDE DEF A
<1>2. PICK f : Rounds(A, a, parts, f) /\ c = f[n] /\ g = Ring(f[n], parts, n)
  <2>1. \E f : /\ f = [k \in 0..Len(parts) |-> Link(A, a, parts, f, k)]
               /\ c = f[Len(parts)] /\ g = Ring(f[Len(parts)], parts, Len(parts))
    BY ChainedIs, ZenonT(30)
  <2> QED
    BY <2>1, Zenon DEF Rounds
<1> HIDE DEF c, g, n
<1>3. a \in I /\ Unborn(parts, LiveIn(A))
  <2>1. LiveIn(A) = LiveIn(h) \cup {a}
    BY <1>1
  <2> QED
    BY <2>1
<1> HIDE DEF I
<1>4. c \in Heap /\ Good(g, J, I) /\ LiveIn(g) = LiveIn(A) \cup ToSet(parts) /\ Ky(g) = Ky(A)
  <2>1. LET m == Len(parts)
            x == Ring(f[m], parts, m) IN
        /\ f[m] \in Heap /\ Good(x, Row(K, a, parts), I)
        /\ LiveIn(x) = LiveIn(A) \cup ToSet(parts) /\ Ky(x) = Ky(A)
    <3>1. Rounds(A, a, parts, f) /\ Good(A, K, I) /\ Len(K[a]) = 0
      BY <1>0, <1>1, <1>2 DEF I
    <3> QED
      BY <1>3, <3>1, RingGood
  <2> QED
    BY <1>2, <2>1, Zenon DEF n
<1> HIDE DEF J
<1>5. Good(g, J, I) /\ LiveIn(g) = LiveIn(h) \cup {a} \cup ToSet(parts) /\ Ky(g) = Ky(h)
  BY <1>1, <1>4
<1>6. ToSet(parts) = {parts[j] : j \in 1..n} /\ \A j \in 1..n : parts[j] \in ToSet(parts) /\ parts[j] \in Node
  BY Rows DEF n
<1>7. OneRow(K, J, a) /\ J[a] = parts
  <2>1. J \in [Node -> Seq(Node)] /\ J[a] = parts /\ \A q \in Node \ {a} : J[q] = K[q]
    <3>1. a \in Node /\ K \in [Node -> Seq(Node)]
      BY <1>0
    <3> QED
      BY <3>1 DEF J, Row
  <2> QED
    BY <1>0, <2>1 DEF OneRow
<1>8. ToSet(J[a]) \subseteq Node \ LiveIn(h) /\ a \notin ToSet(J[a])
  <2>1. \A j \in 1..n : parts[j] \notin LiveIn(h) \cup {a}
    BY DEF Unborn, n
  <2> QED
    BY <1>6, <1>7, <2>1
<1>9. Good(g, J, H \cup {a}) /\ LiveIn(g) = LiveIn(h) \cup {a} \cup ToSet(J[a]) /\ Ky(g) = Ky(h)
  BY <1>5, <1>7, Zenon DEF I
<1>10. LET d == cJSON_Delete(g, a) IN
       Good(d, K, H) /\ LiveIn(d) = LiveIn(h) /\ Ky(d) = Ky(h) /\ Doomed(g, a) = {a} \cup ToSet(J[a])
  <2>1. OneRow(K, J, a) /\ a \in Node \ LiveIn(h) /\ Good(h, K, H)
    BY <1>7
  <2> QED
    BY <1>8, <1>9, <2>1, UndoGood
<1>11. cJSON_Delete(g, a) = cJSON_Delete(c, a)
  <2>1. CASE n = 0
    <3>1. g = c
      BY <1>2, <2>1, Zenon DEF Ring
    <3> QED
      BY <3>1
  <2>2. CASE n # 0
    <3> DEFINE e == parts[n]
               b == parts[1]
    <3>1. g = Back(c, b, e)
      BY <1>2, <2>2, Zenon DEF Ring, Back
    <3>2. b \in Node /\ e \in Node /\ b \in ToSet(J[a])
      <4>1. 1 \in 1..n /\ n \in 1..n
        BY <1>0, <2>2
      <4> QED
        BY <1>6, <1>7, <4>1
    <3> HIDE DEF b, e
    <3>3. b \in Doomed(Back(c, b, e), a)
      BY <1>10, <3>1, <3>2
    <3>4. a \in Node
      OBVIOUS
    <3>5. cJSON_Delete(Back(c, b, e), a) = cJSON_Delete(c, a)
      BY <1>4, <3>2, <3>3, <3>4, DeleteBack
    <3> QED
      BY <3>1, <3>5
  <2> QED
    BY <2>1, <2>2
<1>12. LET d == cJSON_Delete(c, a) IN Good(d, K, H) /\ LiveIn(d) = LiveIn(h) /\ Ky(d) = Ky(h)
  BY <1>10, <1>11
<1> QED
  BY <1>5, <1>12, Zenon DEF A, c, g, J, I

\* The bounded sequences over a set.
LEMMA SeqOfIs ==
    ASSUME NEW S, NEW n \in Nat
    PROVE  /\ \A s \in SeqOf(S, n) : s \in Seq(S) /\ Len(s) <= n
           /\ \A s \in Seq(S) : Len(s) <= n => s \in SeqOf(S, n)
           /\ <<>> \in SeqOf(S, n)
<1>1. ASSUME NEW s \in SeqOf(S, n) PROVE s \in Seq(S) /\ Len(s) <= n
  <2>1. PICK m \in 0..n : s \in [1..m -> S]
    BY DEF SeqOf
  <2> QED
    BY <2>1
<1>2. ASSUME NEW s \in Seq(S), Len(s) <= n PROVE s \in SeqOf(S, n)
  <2>1. Len(s) \in 0..n /\ s \in [1..Len(s) -> S]
    BY <1>2
  <2> QED
    BY <2>1 DEF SeqOf
<1>3. <<>> \in Seq(S) /\ Len(<<>>) <= n
  OBVIOUS
<1> QED
  BY <1>1, <1>2, <1>3

-----------------------------------------------------------------------------
(* The invariant, and what each call comes to in the forest.               *)

\* The inductive invariant: the links of the items are those of the sequences
\* their callers see.
IInv == Good(memory, kids, held) /\ live = LiveIn(memory) /\ keys = Ky(memory)

\* The second half of a step: the history follows.
Told == live' = Live' /\ kids' = Kids' /\ keys' = Keys'

\* What the callers see of h: the children of its live items, walking by next.
Sights(h) == [n \in Node |-> IF n \in LiveIn(h) THEN Children(h, n) ELSE <<>>]

\* Walking by next finds the rows.
LEMMA SightsAre ==
    ASSUME NEW h, NEW K, NEW H, Good(h, K, H)
    PROVE  Sights(h) = K
<1>1. K \in [Node -> Seq(Node)]
  BY GoodFacts
<1>2. ASSUME NEW n \in Node PROVE Sights(h)[n] = K[n]
  <2>1. CASE n \in LiveIn(h)
    BY <2>1, GoodChildren DEF Sights
  <2>2. CASE n \notin LiveIn(h)
    <3>1. K[n] = <<>>
      BY <2>2, Unused
    <3> QED
      BY <2>2, <3>1 DEF Sights
  <2> QED
    BY <2>1, <2>2
<1>3. Sights(h) = [n \in Node |-> Sights(h)[n]] /\ K = [n \in Node |-> K[n]]
  BY <1>1 DEF Sights
<1> QED
  BY <1>2, <1>3

\* The history after a call follows from the rows the heap has then.
LEMMA Lands ==
    ASSUME Told, NEW K, Good(memory', K, held')
    PROVE  IInv' /\ live' = LiveIn(memory') /\ kids' = K /\ keys' = Ky(memory')
<1>1. Sights(memory') = K
  BY SightsAre
<1>2. live' = LiveIn(memory') /\ kids' = Sights(memory') /\ keys' = Ky(memory')
  BY Zenon DEF Told, Live, Kids, Keys, Sights, Ky
<1> QED
  BY <1>1, <1>2 DEF IInv

\* The operators on sequences and functions are the same in both modules.
LEMMA SameOperators ==
    /\ \A s : Forest!ToSet(s) = ToSet(s)
    /\ \A s : Forest!IsInjective(s) <=> IsInjective(s)
    /\ \A S, n : Forest!SeqOf(S, n) = SeqOf(S, n)
    /\ \A s, w, e : Forest!InsertAt(s, w, e) = InsertAt(s, w, e)
    /\ \A s, w : Forest!RemoveAt(s, w) = RemoveAt(s, w)
    /\ \A S, T : Forest!Injection(S, T) = Injection(S, T)
<1>1. \A s : Forest!ToSet(s) = ToSet(s)
  BY Zenon DEF Forest!ToSet, ToSet
<1>2. \A s : Forest!IsInjective(s) <=> IsInjective(s)
  BY Zenon DEF Forest!IsInjective, IsInjective
<1>3. \A S, n : Forest!SeqOf(S, n) = SeqOf(S, n)
  BY Zenon DEF Forest!SeqOf, SeqOf
<1>4. \A s, w, e : Forest!InsertAt(s, w, e) = InsertAt(s, w, e)
  BY Zenon DEF Forest!InsertAt, InsertAt
<1>5. \A s, w : Forest!RemoveAt(s, w) = RemoveAt(s, w)
  BY Zenon DEF Forest!RemoveAt, RemoveAt
<1>6. \A S, T : Forest!Injection(S, T) = Injection(S, T)
  BY Zenon DEF Forest!Injection, Injection, Forest!IsInjective, IsInjective
<1> QED
  BY <1>1, <1>2, <1>3, <1>4, <1>5, <1>6

\* What the forest is for the items.
LEMMA InForest ==
    ASSUME IInv
    PROVE  /\ live = LiveIn(memory) /\ live \subseteq Node /\ Forest!Tops = held /\ held \subseteq live
           /\ \A n : Forest!TreeOf(n) = Tree(kids, n)
           /\ kids \in [Node -> Seq(Node)] /\ keys = Ky(memory)
           /\ Live = live /\ Fresh = Node \ live
           /\ \A i \in Node : Below(i) = Tree(kids, i)
<1>1. Good(memory, kids, held) /\ live = LiveIn(memory) /\ keys = Ky(memory)
  BY DEF IInv
<1>2. /\ live \subseteq Node /\ held \subseteq live /\ kids \in [Node -> Seq(Node)]
      /\ Grove(kids, held, live) /\ \A p \in Node \ live : ToSet(kids[p]) = {}
  <2>1. /\ live \subseteq Node /\ held \subseteq live /\ kids \in [Node -> Seq(Node)]
        /\ Grove(kids, held, live)
    BY <1>1, GoodFacts
  <2>2. ASSUME NEW p \in Node \ live PROVE ToSet(kids[p]) = {}
    BY <1>1, NewTree
  <2> QED
    BY <2>1, <2>2
<1>3. Forest!Tops = held
  <2>1. held = {n \in live : \A p \in Node : n \notin ToSet(kids[p])}
    BY <1>2, GroveTops
  <2>2. \A n \in live : (\A p \in Node : n \notin ToSet(kids[p])) <=> (\A p \in live : n \notin ToSet(kids[p]))
    BY <1>2
  <2>3. Forest!Tops = {n \in live : \A p \in live : n \notin ToSet(kids[p])}
    BY SameOperators, Zenon DEF Forest!Tops
  <2> QED
    BY <2>1, <2>2, <2>3
<1>4. \A n : Forest!TreeOf(n) = Tree(kids, n)
  <2> DEFINE Up(S) == \A p \in S : Forest!ToSet(kids[p]) \subseteq S
  <2>1. \A n : Forest!TreeOf(n) = {m \in Node : \A S \in SUBSET Node : n \in S /\ Up(S) => m \in S}
    BY Zenon DEF Forest!TreeOf
  <2>2. \A S : Up(S) <=> Closed(kids, S)
    BY SameOperators, Zenon DEF Closed
  <2> HIDE DEF Up
  <2>3. ASSUME NEW n PROVE Forest!TreeOf(n) = Tree(kids, n)
    <3>1. Forest!TreeOf(n) = {m \in Node : \A S \in SUBSET Node : n \in S /\ Up(S) => m \in S}
      BY <2>1
    <3>2. Tree(kids, n) = {m \in Node : \A S \in SUBSET Node : n \in S /\ Closed(kids, S) => m \in S}
      BY Zenon DEF Tree
    <3> QED
      BY <2>2, <3>1, <3>2
  <2> QED
    BY <2>3
<1>5. \A i \in Node : Below(i) = Tree(kids, i)
  BY <1>1, BelowIs DEF Below
<1> QED
  BY <1>1, <1>2, <1>3, <1>4, <1>5 DEF Live, Fresh

\* The step of the forest, or none.
Kept == IInv' /\ (Forest!ForestNext \/ UNCHANGED <<live, kids, keys>>)

\* A call that gives up leaves the forest as it was.
LEMMA KeptSame ==
    ASSUME IInv, Told, Good(memory', kids, held'), LiveIn(memory') = LiveIn(memory), Ky(memory') = Ky(memory)
    PROVE  Kept
<1>1. IInv' /\ live' = LiveIn(memory') /\ kids' = kids /\ keys' = Ky(memory')
  BY Lands
<1> QED
  BY <1>1 DEF Kept, IInv

\* A new item, with a row of new items.
LEMMA KeptMade ==
    ASSUME IInv, Told, NEW n \in Node \ LiveIn(memory), NEW parts \in SeqOf(Node \ LiveIn(memory), MaxParts),
           IsInjective(parts), n \notin ToSet(parts), Good(memory', Row(kids, n, parts), held'),
           LiveIn(memory') = LiveIn(memory) \cup {n} \cup ToSet(parts), Ky(memory') = Ky(memory)
    PROVE  Kept
<1>1. IInv' /\ live' = LiveIn(memory') /\ kids' = Row(kids, n, parts) /\ keys' = Ky(memory')
  BY Lands
<1>2. live = LiveIn(memory) /\ keys = Ky(memory)
  BY DEF IInv
<1>3. ToSet(parts) \subseteq Node \ live
  <2>1. parts \in Seq(Node \ live)
    BY <1>2, SeqOfIs, PartsAssumption
  <2> QED
    BY <2>1 DEF ToSet
<1>4. Forest!Made(n, parts)
  <2>1. Forest!ToSet(parts) = ToSet(parts) /\ Forest!IsInjective(parts)
    BY SameOperators
  <2>2. kids' = [kids EXCEPT ![n] = parts] /\ keys' = keys
    BY <1>1, <1>2 DEF Row
  <2>3. live' = live \cup {n} \cup ToSet(parts) /\ {n} \cup ToSet(parts) \subseteq Node \ live
    BY <1>1, <1>2, <1>3
  <2> QED
    BY <2>1, <2>2, <2>3, Zenon DEF Forest!Made
<1>5. Forest!ForestNext
  <2>1. n \in Node \ live /\ parts \in Forest!SeqOf(Node \ live, MaxParts)
    BY <1>2, SameOperators
  <2> QED
    BY <1>4, <2>1, Zenon DEF Forest!ForestNext
<1> QED
  BY <1>1, <1>5 DEF Kept

\* cJSON_Create... makes an item, or nothing.
LEMMA StepCreate ==
    ASSUME IInv, Told, NEW n \in Fresh, NEW kind \in Kind, cJSON_Create(n, kind)
    PROVE  Kept
<1>0. Good(memory, kids, held) /\ n \in Node \ LiveIn(memory)
  BY DEF IInv, Fresh, Live
<1>1. CASE memory' = cJSON_New_Item(memory, n, kind) /\ held' = held \cup {n}
  <2>1. Good(memory', kids, held') /\ LiveIn(memory') = LiveIn(memory) \cup {n} /\ Ky(memory') = Ky(memory)
    BY <1>0, <1>1, NewGood
  <2>2. kids[n] = <<>> /\ kids \in [Node -> Seq(Node)]
    BY <1>0, Unused, GoodFacts
  <2>3. Row(kids, n, <<>>) = kids
    BY <1>0, <2>2 DEF Row
  <2>4. <<>> \in SeqOf(Node \ LiveIn(memory), MaxParts) /\ ToSet(<<>>) = {} /\ IsInjective(<<>>)
    <3>1. <<>> \in SeqOf(Node \ LiveIn(memory), MaxParts)
      BY SeqOfIs, PartsAssumption
    <3>2. ToSet(<<>>) = {} /\ IsInjective(<<>>)
      BY DEF ToSet, IsInjective
    <3> QED
      BY <3>1, <3>2
  <2> DEFINE parts == <<>>
  <2>5. /\ parts \in SeqOf(Node \ LiveIn(memory), MaxParts) /\ ToSet(parts) = {} /\ IsInjective(parts)
        /\ Row(kids, n, parts) = kids
    BY <2>3, <2>4
  <2> HIDE DEF parts
  <2>6. LiveIn(memory') = LiveIn(memory) \cup {n} \cup ToSet(parts) /\ n \notin ToSet(parts)
    BY <2>1, <2>5
  <2>7. Good(memory', Row(kids, n, parts), held')
    BY <2>1, <2>5
  <2> QED
    BY <1>0, <2>1, <2>5, <2>6, <2>7, KeptMade
<1>2. CASE memory' = cJSON_Delete(cJSON_New_ItemUnfilled(memory, n), n) /\ UNCHANGED held
  <2> DEFINE list == "list"
  <2>1. memory \in Heap /\ n \in Node
    BY <1>0, GoodFacts
  <2>2. cJSON_New_ItemUnfilled(memory, n) = cJSON_New_Item(memory, n, list)
    BY <2>1, UnfilledIs
  <2>3. list \in Kind
    BY DEF Kind
  <2> HIDE DEF list
  <2>4. Good(memory', kids, held) /\ LiveIn(memory') = LiveIn(memory) /\ Ky(memory') = Ky(memory)
    BY <1>0, <1>2, <2>2, <2>3, UndoNew
  <2> QED
    BY <1>2, <2>4, KeptSame
<1> QED
  BY <1>1, <1>2, Zenon DEF cJSON_Create

\* cJSON_CreateStringArray makes an array of strings, or nothing.
LEMMA StepStringArray ==
    ASSUME IInv, Told, NEW a \in Fresh, NEW parts \in SeqOf(Fresh \ {a}, MaxParts), IsInjective(parts),
           cJSON_CreateStringArray(a, parts)
    PROVE  Kept
<1> DEFINE A == cJSON_New_Item(memory, a, "list")
           g == Chained(A, a, parts, TRUE)
           d == cJSON_Delete(Chained(A, a, parts, FALSE), a)
<1>0. Good(memory, kids, held) /\ a \in Node \ LiveIn(memory) /\ Fresh = Node \ LiveIn(memory)
  BY DEF IInv, Fresh, Live
<1>1. parts \in Seq(Fresh \ {a}) /\ Len(parts) <= MaxParts
  BY SeqOfIs, PartsAssumption
<1>2. parts \in Seq(Node) /\ parts \in Seq(Node \ LiveIn(memory)) /\ Len(parts) \in Nat
  BY <1>0, <1>1
<1>3. parts \in SeqOf(Node \ LiveIn(memory), MaxParts)
  BY <1>1, <1>2, SeqOfIs, PartsAssumption
<1>4. Unborn(parts, LiveIn(memory) \cup {a}) /\ a \notin ToSet(parts)
  <2>1. \A j \in 1..Len(parts) : parts[j] \in Fresh \ {a}
    BY <1>1
  <2>2. \A j, k \in 1..Len(parts) : parts[j] = parts[k] => j = k
    BY <1>1 DEF IsInjective
  <2>3. ToSet(parts) = {parts[j] : j \in 1..Len(parts)}
    BY <1>2, Rows
  <2> QED
    BY <1>0, <2>1, <2>2, <2>3 DEF Unborn
<1>5. /\ Good(g, Row(kids, a, parts), held \cup {a})
      /\ LiveIn(g) = LiveIn(memory) \cup {a} \cup ToSet(parts) /\ Ky(g) = Ky(memory)
      /\ Good(d, kids, held) /\ LiveIn(d) = LiveIn(memory) /\ Ky(d) = Ky(memory)
  BY <1>0, <1>2, <1>4, StringArrayGood
<1>6. \/ memory' = g /\ held' = held \cup {a}
      \/ memory' = d /\ UNCHANGED held
  BY Zenon DEF cJSON_CreateStringArray
<1> HIDE DEF g, d
<1>7. CASE memory' = g /\ held' = held \cup {a}
  BY <1>0, <1>3, <1>4, <1>5, <1>7, KeptMade
<1>8. CASE memory' = d /\ UNCHANGED held
  BY <1>5, <1>8, KeptSame
<1> QED
  BY <1>6, <1>7, <1>8

\* The types of keys.
LEMMA KeyTypes ==
    ASSUME NEW h \in Heap
    PROVE  Ky(h) \in [Node -> Key \cup {None}]
<1>1. \A n \in Node : h.item[n].key \in Key \cup {None}
  BY ItemType
<1> QED
  BY <1>1 DEF Ky

\* An item goes to the place w of p: the forest's Placed.
LEMMA KeptPlaced ==
    ASSUME IInv, Told, NEW p \in LiveIn(memory), NEW i \in Node, NEW k \in Key \cup {None},
           NEW w \in 1..Len(kids[p]) + 1, p # i, i \in held \/ i \notin LiveIn(memory),
           i \in LiveIn(memory) => p \notin Tree(kids, i),
           Good(memory', Grown(kids, p, w, i), held'),
           LiveIn(memory') = LiveIn(memory) \cup {i}, Ky(memory') = At(Ky(memory), i, k)
    PROVE  Kept
<1>1. IInv' /\ live' = LiveIn(memory') /\ kids' = Grown(kids, p, w, i) /\ keys' = Ky(memory')
  BY Lands
<1>2. live = LiveIn(memory) /\ keys = Ky(memory)
  BY DEF IInv
<1>3. Forest!Tops = held /\ Forest!TreeOf(i) = Tree(kids, i)
  BY InForest
<1>4. kids' = [kids EXCEPT ![p] = Forest!InsertAt(@, w, i)]
  <2>1. Forest!InsertAt(kids[p], w, i) = InsertAt(kids[p], w, i)
    BY SameOperators
  <2> QED
    BY <1>1, <2>1, Zenon DEF Grown, Row
<1>5. keys' = [keys EXCEPT ![i] = k]
  BY <1>1, <1>2, Zenon DEF At
<1>6. live' = live \cup {i} /\ p \in live /\ (i \in Forest!Tops \/ i \notin live) /\ (i \in live => p \notin Forest!TreeOf(i))
  BY <1>1, <1>2, <1>3
<1>7. Forest!Placed(p, w, i, k)
  BY <1>4, <1>5, <1>6, Zenon DEF Forest!Placed
<1>8. Forest!ForestNext
  BY <1>6, <1>7, Zenon DEF Forest!ForestNext
<1> QED
  BY <1>1, <1>8 DEF Kept

\* What the callers' contract says of p and i.
LEMMA FitsIs ==
    ASSUME IInv, NEW p, NEW i, Fits(p, i)
    PROVE  /\ Good(memory, kids, held) /\ p \in LiveIn(memory) /\ i \in held /\ p \notin Tree(kids, i) /\ p # i
           /\ i \in Node /\ i \in LiveIn(memory) /\ p \in Node /\ kids[p] \in Seq(Node) /\ Len(kids[p]) \in Nat
           /\ memory \in Heap
<1>1. Good(memory, kids, held)
  BY DEF IInv
<1>2. p \in LiveIn(memory) /\ i \in held /\ p \notin Below(i)
  BY Zenon DEF Fits, IsList, Live
<1>3. /\ p \in Node /\ i \in Node /\ i \in LiveIn(memory) /\ kids[p] \in Seq(Node) /\ Len(kids[p]) \in Nat
  BY <1>1, <1>2, RootFacts
<1>4. Below(i) = Tree(kids, i) /\ kids \in [Node -> Seq(Node)]
  BY <1>3, InForest
<1>5. i \in Tree(kids, i)
  BY <1>3, <1>4, TreeClosed
<1>6. memory \in Heap
  BY <1>1, GoodFacts
<1> QED
  BY <1>1, <1>2, <1>3, <1>4, <1>5, <1>6

\* A key set to what it was.
LEMMA SameKey ==
    ASSUME NEW h \in Heap, NEW i \in Node
    PROVE  At(Ky(h), i, Ky(h)[i]) = Ky(h) /\ Ky(h)[i] \in Key \cup {None}
<1>1. Ky(h) \in [Node -> Key \cup {None}]
  BY KeyTypes
<1> QED
  BY <1>1 DEF At

\* cJSON_AddItemToArray places the item at the end.
LEMMA StepAdd ==
    ASSUME IInv, Told, NEW p, NEW i, cJSON_AddItemToArray(p, i)
    PROVE  Kept
<1>1. Fits(p, i) /\ memory' = add_item_to_array(memory, p, i) /\ held' = held \ {i}
  BY Zenon DEF cJSON_AddItemToArray
<1>2. /\ Good(memory, kids, held) /\ p \in LiveIn(memory) /\ i \in held /\ p \notin Tree(kids, i) /\ p # i
      /\ i \in Node /\ i \in LiveIn(memory) /\ p \in Node /\ kids[p] \in Seq(Node) /\ Len(kids[p]) \in Nat
      /\ memory \in Heap
  BY <1>1, FitsIs
<1>3. Good(memory', Longer(kids, p, i), held') /\ LiveIn(memory') = LiveIn(memory) /\ Ky(memory') = Ky(memory)
  BY <1>1, <1>2, AddGood
<1> DEFINE k == Ky(memory)[i]
           w == Len(kids[p]) + 1
<1>4. Ky(memory') = At(Ky(memory), i, k) /\ k \in Key \cup {None}
  BY <1>2, <1>3, SameKey
<1>5. Good(memory', Grown(kids, p, w, i), held') /\ LiveIn(memory') = LiveIn(memory) \cup {i}
  BY <1>2, <1>3 DEF Longer
<1>6. w \in 1..Len(kids[p]) + 1
  BY <1>2
<1> HIDE DEF k, w
<1> QED
  BY <1>2, <1>4, <1>5, <1>6, KeptPlaced

\* cJSON_AddItemToObject places the item at the end, with its key.
LEMMA StepAddMember ==
    ASSUME IInv, Told, NEW p, NEW name \in Key, NEW i, add_item_to_object(p, name, i)
    PROVE  Kept
<1> DEFINE h == SetKey(memory, i, name)
           w == Len(kids[p]) + 1
<1>1. Fits(p, i) /\ memory' = add_item_to_array(h, p, i) /\ held' = held \ {i}
  BY Zenon DEF add_item_to_object
<1>2. /\ Good(memory, kids, held) /\ p \in LiveIn(memory) /\ i \in held /\ p \notin Tree(kids, i) /\ p # i
      /\ i \in Node /\ i \in LiveIn(memory) /\ p \in Node /\ kids[p] \in Seq(Node) /\ Len(kids[p]) \in Nat
      /\ memory \in Heap
  BY <1>1, FitsIs
<1>3. Good(h, kids, held) /\ LiveIn(h) = LiveIn(memory) /\ Ky(h) = At(Ky(memory), i, name)
  <2>1. Good(h, kids, held) /\ LiveIn(h) = LiveIn(memory) /\ Ky(h) = [Ky(memory) EXCEPT ![i] = name]
    BY <1>2, KeyGood
  <2> QED
    BY <2>1, Zenon DEF At
<1> HIDE DEF h
<1>4. Good(memory', Longer(kids, p, i), held') /\ LiveIn(memory') = LiveIn(h) /\ Ky(memory') = Ky(h)
  BY <1>1, <1>2, <1>3, AddGood
<1>5. Good(memory', Grown(kids, p, w, i), held') /\ LiveIn(memory') = LiveIn(memory) \cup {i}
  BY <1>2, <1>3, <1>4 DEF Longer
<1>6. w \in 1..Len(kids[p]) + 1
  BY <1>2
<1>7. Ky(memory') = At(Ky(memory), i, name) /\ name \in Key \cup {None}
  BY <1>3, <1>4
<1> HIDE DEF w
<1> QED
  BY <1>2, <1>5, <1>6, <1>7, KeptPlaced

\* cJSON_InsertItemInArray places the item at w, or at the end.
LEMMA StepInsert ==
    ASSUME IInv, Told, NEW p, NEW w \in Nat \ {0}, NEW i, cJSON_InsertItem(p, w, i)
    PROVE  Kept
<1> DEFINE v == Spot(kids, p, w)
           k == Ky(memory)[i]
<1>1. Fits(p, i) /\ memory' = cJSON_InsertItemInArray(memory, p, w, i) /\ held' = held \ {i}
  BY Zenon DEF cJSON_InsertItem
<1>2. /\ Good(memory, kids, held) /\ p \in LiveIn(memory) /\ i \in held /\ p \notin Tree(kids, i) /\ p # i
      /\ i \in Node /\ i \in LiveIn(memory) /\ p \in Node /\ kids[p] \in Seq(Node) /\ Len(kids[p]) \in Nat
      /\ memory \in Heap
  BY <1>1, FitsIs
<1>3. /\ Good(memory', Grown(kids, p, v, i), held') /\ LiveIn(memory') = LiveIn(memory)
      /\ Ky(memory') = Ky(memory) /\ v \in 1..Len(kids[p]) + 1
  BY <1>1, <1>2, InsertGood
<1>4. Ky(memory') = At(Ky(memory), i, k) /\ k \in Key \cup {None}
  BY <1>2, <1>3, SameKey
<1>5. LiveIn(memory') = LiveIn(memory) \cup {i}
  BY <1>2, <1>3
<1> HIDE DEF k, v
<1> QED
  BY <1>2, <1>3, <1>4, <1>5, KeptPlaced

\* cJSON_Add...ToObject places a new item at the end, or leaves nothing
\* behind.
LEMMA StepAddNew ==
    ASSUME IInv, Told, NEW p \in Live, NEW name \in Name, NEW kind \in Kind, NEW n \in Fresh,
           cJSON_AddToObject(p, name, kind, n)
    PROVE  Kept
<1> DEFINE h == cJSON_New_Item(memory, n, kind)
           g == SetKey(h, n, name)
           b == add_item_to_array(g, p, n)
           d == cJSON_Delete(h, n)
           I == held \cup {n}
           w == Len(kids[p]) + 1
<1>0. /\ Good(memory, kids, held) /\ p \in LiveIn(memory) /\ n \in Node /\ n \notin LiveIn(memory)
      /\ held \subseteq LiveIn(memory) /\ p \in Node /\ Len(kids[p]) \in Nat
  <2>1. Good(memory, kids, held) /\ p \in LiveIn(memory) /\ n \in Node /\ n \notin LiveIn(memory)
    BY DEF IInv, Live, Fresh
  <2>2. held \subseteq LiveIn(memory) /\ kids \in [Node -> Seq(Node)] /\ LiveIn(memory) \subseteq Node
    BY <2>1, GoodFacts
  <2>3. p \in Node /\ Len(kids[p]) \in Nat
    BY <2>1, <2>2
  <2> QED
    BY <2>1, <2>2, <2>3
<1>1. held' = held /\ (memory' = b \/ memory' = d)
  BY Zenon DEF cJSON_AddToObject
<1>2. CASE memory' = d
  <2>1. Good(d, kids, held) /\ LiveIn(d) = LiveIn(memory) /\ Ky(d) = Ky(memory)
    BY <1>0, UndoNew
  <2> HIDE DEF d
  <2> QED
    BY <1>1, <1>2, <2>1, KeptSame
<1>3. CASE memory' = b
  <2>1. Good(h, kids, I) /\ LiveIn(h) = LiveIn(memory) \cup {n} /\ Ky(h) = Ky(memory)
    BY <1>0, NewGood
  <2>2. Tree(kids, n) = {n}
    BY <1>0, NewTree
  <2> HIDE DEF h
  <2>3. n \in LiveIn(h) /\ name \in Key \cup {None}
    BY <2>1 DEF Key
  <2>4. Good(g, kids, I) /\ LiveIn(g) = LiveIn(h) /\ Ky(g) = At(Ky(h), n, name)
    <3>1. Good(g, kids, I) /\ LiveIn(g) = LiveIn(h) /\ Ky(g) = [Ky(h) EXCEPT ![n] = name]
      BY <2>1, <2>3, KeyGood
    <3> QED
      BY <3>1, Zenon DEF At
  <2> HIDE DEF g
  <2>5. p \in LiveIn(g) /\ n \in I /\ p \notin Tree(kids, n) /\ I \ {n} = held /\ p # n
    BY <1>0, <2>1, <2>2, <2>4
  <2> HIDE DEF I
  <2>6. Good(b, Longer(kids, p, n), I \ {n}) /\ LiveIn(b) = LiveIn(g) /\ Ky(b) = Ky(g)
    BY <2>4, <2>5, AddGood
  <2> HIDE DEF b
  <2>7. Good(memory', Grown(kids, p, w, n), held') /\ LiveIn(memory') = LiveIn(memory) \cup {n}
    BY <1>1, <1>3, <2>1, <2>4, <2>5, <2>6 DEF Longer
  <2>8. w \in 1..Len(kids[p]) + 1
    BY <1>0
  <2>9. Ky(memory') = At(Ky(memory), n, name)
    BY <1>3, <2>1, <2>4, <2>6
  <2> HIDE DEF w
  <2> QED
    BY <1>0, <2>3, <2>5, <2>7, <2>8, <2>9, KeptPlaced
<1> QED
  BY <1>1, <1>2, <1>3

\* An item that is found is a child.
LEMMA GotPlace ==
    ASSUME NEW h, NEW K, NEW H, Good(h, K, H), NEW p \in Node, NEW name, NEW case_sensitive \in BOOLEAN,
           get_object_item(h, p, name, case_sensitive) # Null
    PROVE  \E w \in 1..Len(K[p]) : get_object_item(h, p, name, case_sensitive) = K[p][w]
<1> DEFINE key(n) == h.item[n].key
           hit(n) == IF case_sensitive THEN key(n) \in {None, name}
                     ELSE key(n) # None /\ Lower[key(n)] = Lower[name]
           s == Children(h, p)
           I == {j \in 1..Len(s) : hit(s[j])}
           at == IF I # {} THEN CHOOSE x \in I : \A y \in I : x <= y ELSE 0
           got == get_object_item(h, p, name, case_sensitive)
<1>1. s = K[p] /\ Len(s) \in Nat
  <2>1. K \in [Node -> Seq(Node)]
    BY GoodFacts
  <2> QED
    BY <2>1, GoodChildren
<1>2. got = IF at = 0 \/ key(s[at]) = None THEN Null ELSE s[at]
  BY Zenon DEF get_object_item, SelectInSeq, Min
<1> HIDE DEF got, hit, s
<1>3. at # 0 => at \in 1..Len(s)
  <2>1. ASSUME I # {} PROVE at \in I
    <3>1. I \subseteq Nat
      BY <1>1
    <3> HIDE DEF I
    <3>2. \E x \in I : \A y \in I : x <= y
      BY <2>1, <3>1, LeastExists
    <3> QED
      BY <2>1, <3>2
  <2> QED
    BY <2>1
<1> HIDE DEF at
<1>4. at # 0 /\ got = s[at]
  BY <1>2 DEF got
<1>5. at \in 1..Len(K[p]) /\ got = K[p][at]
  BY <1>1, <1>3, <1>4
<1> QED
  BY <1>5 DEF got

\* The item at place w of p is taken out.
LEMMA KeptDetached ==
    ASSUME IInv, Told, NEW p \in LiveIn(memory), NEW w \in 1..Len(kids[p]),
           memory' = cJSON_DetachItemViaPointer(memory, p, kids[p][w]), held' = held \cup {kids[p][w]}
    PROVE  Kept
<1>0. Good(memory, kids, held) /\ live = LiveIn(memory) /\ keys = Ky(memory) /\ p \in Node /\ kids[p] \in Seq(Node)
  <2>1. Good(memory, kids, held) /\ live = LiveIn(memory) /\ keys = Ky(memory)
    BY DEF IInv
  <2> QED
    BY <2>1, GoodFacts
<1>1. Good(memory', Shorter(kids, p, w), held') /\ LiveIn(memory') = LiveIn(memory) /\ Ky(memory') = Ky(memory)
  <2> DEFINE g == cJSON_DetachItemViaPointer(memory, p, kids[p][w])
  <2>1. Good(memory, kids, held) /\ p \in Node
    BY <1>0
  <2>2. Good(g, Shorter(kids, p, w), held \cup {kids[p][w]}) /\ LiveIn(g) = LiveIn(memory) /\ Ky(g) = Ky(memory)
    BY <2>1, DetachGood DEF TakesOut
  <2>3. memory' = g
    OBVIOUS
  <2> HIDE DEF g
  <2> QED
    BY <2>2, <2>3
<1>2. IInv' /\ live' = LiveIn(memory') /\ kids' = Shorter(kids, p, w) /\ keys' = Ky(memory')
  BY <1>1, Lands
<1>3. kids' = [kids EXCEPT ![p] = Forest!RemoveAt(@, w)]
  <2>1. Forest!RemoveAt(kids[p], w) = RemoveAt(kids[p], w)
    BY SameOperators
  <2> QED
    BY <1>2, <2>1, Zenon DEF Shorter, Row
<1>4. w \in DOMAIN kids[p] /\ p \in live /\ live' = live /\ keys' = keys
  BY <1>0, <1>1, <1>2
<1>5. Forest!Detached(p, w)
  BY <1>3, <1>4, Zenon DEF Forest!Detached
<1>6. Forest!ForestNext
  BY <1>4, <1>5, Zenon DEF Forest!ForestNext
<1> QED
  BY <1>2, <1>6 DEF Kept

\* The children a call finds are the row.
LEMMA ListIs ==
    ASSUME IInv, NEW p, IsList(p)
    PROVE  /\ Good(memory, kids, held) /\ p \in LiveIn(memory) /\ p \in Node
           /\ Children(memory, p) = kids[p] /\ kids[p] \in Seq(Node) /\ DOMAIN kids[p] = 1..Len(kids[p])
<1>1. Good(memory, kids, held) /\ p \in LiveIn(memory)
  BY Zenon DEF IInv, IsList, Live
<1>2. p \in Node /\ kids \in [Node -> Seq(Node)]
  BY <1>1, GoodFacts
<1> QED
  BY <1>1, <1>2, GoodChildren

\* cJSON_DetachItemFromArray takes one item out of its row.
LEMMA StepDetach ==
    ASSUME IInv, Told, NEW p, NEW w, cJSON_DetachItemFromArray(p, w)
    PROVE  Kept
<1>1. /\ IsList(p) /\ w \in DOMAIN Children(memory, p)
      /\ memory' = cJSON_DetachItemViaPointer(memory, p, Children(memory, p)[w])
      /\ held' = held \cup {Children(memory, p)[w]}
  BY Zenon DEF cJSON_DetachItemFromArray
<1>2. /\ p \in LiveIn(memory) /\ Children(memory, p) = kids[p] /\ DOMAIN kids[p] = 1..Len(kids[p])
  BY <1>1, ListIs
<1> QED
  BY <1>1, <1>2, KeptDetached

\* cJSON_DetachItemFromObject takes the member it finds out of its row.
LEMMA StepDetachMember ==
    ASSUME IInv, Told, NEW p, NEW name, NEW case_sensitive \in BOOLEAN,
           cJSON_DetachItemFromObject(p, name, case_sensitive)
    PROVE  Kept
<1> DEFINE i == get_object_item(memory, p, name, case_sensitive)
<1>1. IsList(p) /\ i # Null /\ memory' = cJSON_DetachItemViaPointer(memory, p, i) /\ held' = held \cup {i}
  BY Zenon DEF cJSON_DetachItemFromObject
<1>2. Good(memory, kids, held) /\ p \in LiveIn(memory) /\ p \in Node
  BY <1>1, ListIs
<1>3. PICK w \in 1..Len(kids[p]) : i = kids[p][w]
  BY <1>1, <1>2, GotPlace
<1> HIDE DEF i
<1> QED
  BY <1>1, <1>2, <1>3, KeptDetached

\* cJSON_DeleteItemFromArray frees the tree of one item.
LEMMA StepRemove ==
    ASSUME IInv, Told, NEW p, NEW w, cJSON_DeleteItemFromArray(p, w)
    PROVE  Kept
<1> DEFINE i == kids[p][w]
           h == cJSON_DetachItemViaPointer(memory, p, i)
           J == Shorter(kids, p, w)
           T == Tree(kids, i)
           I == held \cup {i}
<1>1. /\ IsList(p) /\ w \in DOMAIN Children(memory, p) /\ held' = held
      /\ memory' = cJSON_Delete(cJSON_DetachItemViaPointer(memory, p, Children(memory, p)[w]), Children(memory, p)[w])
  BY Zenon DEF cJSON_DeleteItemFromArray
<1>2. /\ Good(memory, kids, held) /\ p \in LiveIn(memory) /\ p \in Node /\ Children(memory, p) = kids[p]
      /\ DOMAIN kids[p] = 1..Len(kids[p]) /\ kids[p] \in Seq(Node)
  BY <1>1, ListIs
<1>3. w \in 1..Len(kids[p]) /\ memory' = cJSON_Delete(h, i) /\ i \in Node /\ i \in ToSet(kids[p])
  <2>1. w \in 1..Len(kids[p]) /\ memory' = cJSON_Delete(h, i)
    BY <1>1, <1>2
  <2> QED
    BY <1>2, <2>1, Rows
<1>4. Good(h, J, I) /\ LiveIn(h) = LiveIn(memory) /\ Ky(h) = Ky(memory)
  <2>1. Good(memory, kids, held) /\ p \in Node /\ w \in 1..Len(kids[p])
    BY <1>2, <1>3
  <2> QED
    BY <2>1, DetachGood DEF TakesOut
<1>5. Tree(J, i) = T /\ held = I \ {i} /\ i \in I
  <2>1. OneRow(kids, J, p)
    BY <1>2, <1>3, TakenOut
  <2>2. Grove(kids, held, LiveIn(memory)) /\ ToSet(kids[p]) \subseteq LiveIn(memory) \ held
    BY <1>2, GoodFacts
  <2>3. p \notin Tree(kids, i)
    BY <1>2, <1>3, <2>2, NotBelowItself
  <2> HIDE DEF J, i
  <2>4. Tree(J, i) = Tree(kids, i)
    BY <1>3, <2>1, <2>3, TreeKept
  <2> QED
    BY <1>3, <2>2, <2>4
<1> HIDE DEF h, J, I
<1>6. /\ Good(memory', Emptied(J, T), I \ {i})
      /\ LiveIn(memory') = LiveIn(h) \ T /\ Ky(memory') = Nameless(Ky(h), T)
  <2> HIDE DEF i
  <2>1. LET g == cJSON_Delete(h, i)
            U == Tree(J, i) IN
        /\ Good(g, Emptied(J, U), I \ {i})
        /\ LiveIn(g) = LiveIn(h) \ U /\ U \subseteq LiveIn(h) /\ Doomed(h, i) = U
        /\ Ky(g) = Nameless(Ky(h), U)
    BY <1>4, <1>5, DeleteGood
  <2> QED
    BY <1>3, <1>5, <2>1
<1>7. Good(memory', Emptied(J, T), held') /\ LiveIn(memory') = LiveIn(memory) \ T /\ Ky(memory') = Nameless(Ky(memory), T)
  BY <1>1, <1>4, <1>5, <1>6
<1>8. IInv' /\ live' = LiveIn(memory') /\ kids' = Emptied(J, T) /\ keys' = Ky(memory')
  BY <1>7, Lands
<1>9. live = LiveIn(memory) /\ keys = Ky(memory) /\ Forest!TreeOf(i) = T
  BY InForest
<1>10. J = [kids EXCEPT ![p] = Forest!RemoveAt(@, w)]
  <2>1. Forest!RemoveAt(kids[p], w) = RemoveAt(kids[p], w)
    BY SameOperators
  <2> QED
    BY <2>1, Zenon DEF J, Shorter, Row
<1>11. Forest!Freed(T, J)
  <2> HIDE DEF T
  <2>1. live' = live \ T
    BY <1>7, <1>8, <1>9
  <2>2. kids' = [n \in Node |-> IF n \in T THEN <<>> ELSE J[n]]
    BY <1>8, Zenon DEF Emptied
  <2>3. keys' = [n \in Node |-> IF n \in T THEN None ELSE keys[n]]
    BY <1>7, <1>8, <1>9, Zenon DEF Nameless
  <2> QED
    BY <2>1, <2>2, <2>3, Zenon DEF Forest!Freed
<1>12. Forest!Removed(p, w)
  <2>1. p \in live /\ w \in DOMAIN kids[p]
    BY <1>2, <1>3, <1>9
  <2> HIDE DEF T
  <2>2. Forest!Freed(Forest!TreeOf(kids[p][w]), [kids EXCEPT ![p] = Forest!RemoveAt(@, w)])
    BY <1>9, <1>10, <1>11
  <2> QED
    BY <2>1, <2>2, Zenon DEF Forest!Removed
<1>13. Forest!ForestNext
  BY <1>2, <1>3, <1>9, <1>12, Zenon DEF Forest!ForestNext
<1> QED
  BY <1>8, <1>13 DEF Kept

\* cJSON_Delete frees the tree of one root.
LEMMA StepDelete ==
    ASSUME IInv, Told, NEW i \in held, Delete(i)
    PROVE  Kept
<1> DEFINE T == Tree(kids, i)
<1>1. memory' = cJSON_Delete(memory, i) /\ held' = held \ {i}
  BY Zenon DEF Delete
<1>2. Good(memory, kids, held) /\ live = LiveIn(memory) /\ keys = Ky(memory)
  BY DEF IInv
<1>3. /\ Good(memory', Emptied(kids, T), held') /\ LiveIn(memory') = LiveIn(memory) \ T
      /\ Ky(memory') = Nameless(Ky(memory), T)
  BY <1>1, <1>2, DeleteGood
<1>4. IInv' /\ live' = LiveIn(memory') /\ kids' = Emptied(kids, T) /\ keys' = Ky(memory')
  BY <1>3, Lands
<1>5. Forest!TreeOf(i) = T /\ Forest!Tops = held /\ i \in live
  BY InForest
<1>6. Forest!Freed(T, kids)
  <2> HIDE DEF T
  <2>1. live' = live \ T
    BY <1>2, <1>3, <1>4
  <2>2. kids' = [n \in Node |-> IF n \in T THEN <<>> ELSE kids[n]]
    BY <1>4, Zenon DEF Emptied
  <2>3. keys' = [n \in Node |-> IF n \in T THEN None ELSE keys[n]]
    BY <1>2, <1>3, <1>4, Zenon DEF Nameless
  <2> QED
    BY <2>1, <2>2, <2>3, Zenon DEF Forest!Freed
<1>7. Forest!Deleted(i)
  <2> HIDE DEF T
  <2> QED
    BY <1>5, <1>6, Zenon DEF Forest!Deleted
<1>8. Forest!ForestNext
  BY <1>5, <1>7, Zenon DEF Forest!ForestNext
<1> QED
  BY <1>4, <1>8 DEF Kept

\* r takes the place w of p, with the key k.
LEMMA KeptReplaced ==
    ASSUME IInv, Told, NEW p \in LiveIn(memory), NEW r \in held, p \notin Tree(kids, r), NEW w \in 1..Len(kids[p]),
           NEW k \in Key \cup {None}, NEW h, Good(h, kids, held), LiveIn(h) = LiveIn(memory), Ky(h) = At(Ky(memory), r, k),
           NEW i, i = kids[p][w], memory' = cJSON_ReplaceItemViaPointer(h, p, i, r), held' = held \ {r}
    PROVE  Kept
<1> DEFINE T == Tree(kids, i)
           J == Changed(kids, p, w, r)
<1>0. live = LiveIn(memory) /\ keys = Ky(memory) /\ p \in Node /\ kids \in [Node -> Seq(Node)] /\ r \in Node
  <2>1. live = LiveIn(memory) /\ keys = Ky(memory) /\ Good(memory, kids, held)
    BY DEF IInv
  <2>2. p \in Node /\ r \in Node
    BY <2>1, RootFacts
  <2> QED
    BY <2>1, <2>2, GoodFacts
<1>1. PutsInstead(h, kids, held, p, w, i, r)
  <2>1. PutsInstead(h, kids, held, p, w, kids[p][w], r)
    BY <1>0, ReplaceGood
  <2> QED
    BY <2>1
<1>2. /\ Good(memory', Emptied(J, T), held') /\ LiveIn(memory') = LiveIn(h) \ T
      /\ p \notin T /\ r \notin T /\ Ky(memory') = Nameless(Ky(h), T)
  BY <1>1, Zenon DEF PutsInstead
<1>3. IInv' /\ live' = LiveIn(memory') /\ kids' = Emptied(J, T) /\ keys' = Ky(memory')
  BY <1>2, Lands
<1>4. Forest!TreeOf(i) = T /\ Forest!Tops = held /\ Forest!TreeOf(r) = Tree(kids, r)
  BY InForest
<1> HIDE DEF T
<1>5. live' = live \ T
  BY <1>0, <1>2, <1>3
<1>6. kids' = [n \in Node |-> CASE n = p -> [kids[p] EXCEPT ![w] = r]
                                [] n # p /\ n \in T -> <<>>
                                [] OTHER -> kids[n]]
  <2> DEFINE s == [kids[p] EXCEPT ![w] = r]
             row(n) == CASE n = p -> s [] n # p /\ n \in T -> <<>> [] OTHER -> kids[n]
  <2>1. J = [n \in Node |-> IF n = p THEN s ELSE kids[n]]
    <3>1. J = [kids EXCEPT ![p] = s]
      BY Zenon DEF Changed, Row, At
    <3> HIDE DEF J, s
    <3> QED
      BY <1>0, <3>1
  <2> HIDE DEF J, s
  <2>2. ASSUME NEW n \in Node PROVE row(n) = IF n \in T THEN <<>> ELSE J[n]
    BY <1>2, <2>1
  <2>3. kids' = [n \in Node |-> IF n \in T THEN <<>> ELSE J[n]]
    BY <1>3, Zenon DEF Emptied
  <2> HIDE DEF row
  <2>4. kids' = [n \in Node |-> row(n)]
    BY <2>2, <2>3
  <2> QED
    BY <2>4, Zenon DEF row, s
<1>7. keys' = [n \in Node |-> CASE n = r -> k
                                [] n # r /\ n \in T -> None
                                [] OTHER -> keys[n]]
  <2> DEFINE name(n) == CASE n = r -> k [] n # r /\ n \in T -> None [] OTHER -> keys[n]
  <2>1. keys \in [Node -> Key \cup {None}]
    <3>1. memory \in Heap
      BY GoodFacts DEF IInv
    <3> QED
      BY <1>0, <3>1, KeyTypes
  <2>2. At(keys, r, k) = [n \in Node |-> IF n = r THEN k ELSE keys[n]]
    BY <1>0, <2>1 DEF At
  <2>3. ASSUME NEW n \in Node PROVE name(n) = IF n \in T THEN None ELSE At(keys, r, k)[n]
    BY <1>2, <2>2
  <2>4. keys' = [n \in Node |-> IF n \in T THEN None ELSE At(keys, r, k)[n]]
    <3>1. keys' = Nameless(At(keys, r, k), T)
      BY <1>0, <1>2, <1>3
    <3> QED
      BY <3>1, Zenon DEF Nameless
  <2> HIDE DEF name
  <2>5. keys' = [n \in Node |-> name(n)]
    BY <2>3, <2>4
  <2> QED
    BY <2>5, Zenon DEF name
<1>8. Forest!Replaced(p, w, r, k)
  <2>1. p \in live /\ w \in DOMAIN kids[p] /\ r \in Forest!Tops /\ p \notin Forest!TreeOf(r)
    <3>1. kids[p] \in Seq(Node)
      BY <1>0
    <3> QED
      BY <1>0, <1>4, <3>1
  <2>2. Forest!TreeOf(kids[p][w]) = T
    BY <1>4
  <2> QED
    BY <1>5, <1>6, <1>7, <2>1, <2>2, Zenon DEF Forest!Replaced
<1>9. Forest!ForestNext
  <2>1. p \in live /\ w \in DOMAIN kids[p] /\ r \in Forest!Tops
    <3>1. kids[p] \in Seq(Node)
      BY <1>0
    <3> QED
      BY <1>0, <1>4, <3>1
  <2> QED
    BY <1>8, <2>1, Zenon DEF Forest!ForestNext
<1> QED
  BY <1>3, <1>9 DEF Kept

\* The root i has the key k.
LEMMA KeptRenamed ==
    ASSUME IInv, Told, NEW i \in held, NEW k \in Key \cup {None}, held' = held, memory' = SetKey(memory, i, k)
    PROVE  Kept
<1>0. live = LiveIn(memory) /\ keys = Ky(memory) /\ Good(memory, kids, held) /\ i \in live
  BY GoodFacts DEF IInv
<1> DEFINE g == SetKey(memory, i, k)
<1>1. Good(g, kids, held) /\ LiveIn(g) = LiveIn(memory) /\ Ky(g) = [Ky(memory) EXCEPT ![i] = k]
  BY <1>0, KeyGood
<1> HIDE DEF g
<1>2. memory' = g
  BY DEF g
<1>3. Good(memory', kids, held') /\ LiveIn(memory') = LiveIn(memory)
  BY <1>1, <1>2
<1>4. IInv' /\ live' = LiveIn(memory') /\ kids' = kids /\ keys' = Ky(memory')
  BY <1>3, Lands
<1>5. keys' = [keys EXCEPT ![i] = k]
  BY <1>0, <1>1, <1>2, <1>4, Zenon
<1>6. Forest!Tops = held /\ live' = live
  BY <1>0, <1>3, <1>4, InForest
<1>7. Forest!Renamed(i, k)
  BY <1>4, <1>5, <1>6, Zenon DEF Forest!Renamed
<1>8. Forest!ForestNext
  BY <1>0, <1>7, Zenon DEF Forest!ForestNext
<1> QED
  BY <1>4, <1>8 DEF Kept

\* cJSON_ReplaceItemInArray puts r in the place of an item, which is freed.
LEMMA StepReplace ==
    ASSUME IInv, Told, NEW p, NEW w, NEW r, cJSON_ReplaceItemInArray(p, w, r)
    PROVE  Kept
<1> DEFINE k == Ky(memory)[r]
           i == kids[p][w]
<1>1. /\ Fits(p, r) /\ w \in DOMAIN Children(memory, p)
      /\ memory' = cJSON_ReplaceItemViaPointer(memory, p, Children(memory, p)[w], r)
      /\ held' = held \ {r}
  BY Zenon DEF cJSON_ReplaceItemInArray
<1>2. /\ Good(memory, kids, held) /\ p \in LiveIn(memory) /\ r \in held /\ p \notin Tree(kids, r) /\ p # r
      /\ r \in Node /\ r \in LiveIn(memory) /\ p \in Node /\ kids[p] \in Seq(Node) /\ Len(kids[p]) \in Nat
      /\ memory \in Heap
  BY <1>1, FitsIs
<1>3. Children(memory, p) = kids[p] /\ w \in 1..Len(kids[p])
  <2>1. Children(memory, p) = kids[p]
    BY <1>2, GoodChildren
  <2> QED
    BY <1>1, <1>2, <2>1
<1>4. Ky(memory) = At(Ky(memory), r, k) /\ k \in Key \cup {None}
  BY <1>2, SameKey
<1>5. memory' = cJSON_ReplaceItemViaPointer(memory, p, i, r)
  BY <1>1, <1>3
<1>6. i = kids[p][w]
  OBVIOUS
<1> HIDE DEF k, i
<1> QED
  BY <1>1, <1>2, <1>3, <1>4, <1>5, <1>6, KeptReplaced

\* cJSON_ReplaceItemInObject renames r, or puts it in the place of the member,
\* or both.
LEMMA StepReplaceMember ==
    ASSUME IInv, Told, NEW p, NEW name \in Name, NEW r, NEW case_sensitive \in BOOLEAN,
           replace_item_in_object(p, name, r, case_sensitive)
    PROVE  Kept
<1> DEFINE h == SetKey(memory, r, name)
           i == get_object_item(h, p, name, case_sensitive)
<1>1. /\ Fits(p, r)
      /\ \/ memory' = SetKey(memory, r, None) /\ held' = held
         \/ i = Null /\ memory' = h /\ held' = held
         \/ /\ i # Null
            /\ memory' = cJSON_ReplaceItemViaPointer(h, p, i, r)
            /\ held' = held \ {r}
  BY Zenon DEF replace_item_in_object
<1>2. /\ Good(memory, kids, held) /\ p \in LiveIn(memory) /\ r \in held /\ p \notin Tree(kids, r) /\ p # r
      /\ r \in Node /\ r \in LiveIn(memory) /\ p \in Node /\ kids[p] \in Seq(Node) /\ Len(kids[p]) \in Nat
      /\ memory \in Heap
  BY <1>1, FitsIs
<1>3. name \in Key \cup {None} /\ None \in Key \cup {None}
  BY DEF Key
<1>4. CASE memory' = SetKey(memory, r, None) /\ held' = held
  BY <1>2, <1>3, <1>4, KeptRenamed
<1>5. CASE memory' = h /\ held' = held
  BY <1>2, <1>3, <1>5, KeptRenamed
<1>6. CASE i # Null /\ memory' = cJSON_ReplaceItemViaPointer(h, p, i, r) /\ held' = held \ {r}
  <2>1. Good(h, kids, held) /\ LiveIn(h) = LiveIn(memory) /\ Ky(h) = At(Ky(memory), r, name)
    <3>1. Good(h, kids, held) /\ LiveIn(h) = LiveIn(memory) /\ Ky(h) = [Ky(memory) EXCEPT ![r] = name]
      BY <1>2, <1>3, KeyGood
    <3> QED
      BY <3>1, Zenon DEF At
  <2> HIDE DEF h
  <2>2. \E w \in 1..Len(kids[p]) : i = kids[p][w]
    BY <1>2, <1>6, <2>1, GotPlace
  <2> HIDE DEF i
  <2>3. PICK w \in 1..Len(kids[p]) : i = kids[p][w]
    BY <2>2
  <2> QED
    BY <1>2, <1>3, <1>6, <2>1, <2>3, KeptReplaced
<1> HIDE DEF h, i
<1> QED
  BY <1>1, <1>4, <1>5, <1>6

\* What Copied says of the items T it copies.
CopiedFrom(T, deep) ==
    \E to \in Forest!Injection(T, Node \ live) :
        /\ live' = live \cup {to[m] : m \in T}
        /\ kids' = [n \in Node |-> IF \E m \in T : to[m] = n /\ deep
                     THEN LET m == CHOOSE m \in T : to[m] = n
                          IN  [j \in DOMAIN kids[m] |-> to[kids[m][j]]]
                     ELSE kids[n]]
        /\ keys' = [n \in Node |-> IF \E m \in T : to[m] = n
                     THEN keys[CHOOSE m \in T : to[m] = n] ELSE keys[n]]

\* The items of T are copied, with their rows J.
LEMMA KeptCopied ==
    ASSUME IInv, Told, NEW i \in LiveIn(memory), NEW deep \in BOOLEAN, NEW T, T = IF deep THEN Tree(kids, i) ELSE {i},
           NEW to \in Injection(T, Node \ LiveIn(memory)),
           NEW J, J = IF deep THEN CopyRows(kids, T, to) ELSE kids, Good(memory', J, held'),
           LiveIn(memory') = LiveIn(memory) \cup {to[m] : m \in T}, Ky(memory') = CopyKeys(Ky(memory), T, to)
    PROVE  Kept
<1>0. live = LiveIn(memory) /\ keys = Ky(memory) /\ kids \in [Node -> Seq(Node)]
  BY GoodFacts DEF IInv
<1>1. IInv' /\ live' = LiveIn(memory') /\ kids' = J /\ keys' = Ky(memory')
  BY Lands
<1>2. T = IF deep THEN Forest!TreeOf(i) ELSE {i}
  BY InForest
<1>3. to \in Forest!Injection(T, Node \ live) /\ live' = live \cup {to[m] : m \in T}
  BY <1>0, <1>1, SameOperators
<1>4. kids' = [n \in Node |-> IF \E m \in T : to[m] = n /\ deep
                 THEN LET m == CHOOSE m \in T : to[m] = n IN [j \in DOMAIN kids[m] |-> to[kids[m][j]]]
                 ELSE kids[n]]
  <2> DEFINE row(n) == LET m == CHOOSE m \in T : to[m] = n IN [j \in DOMAIN kids[m] |-> to[kids[m][j]]]
             new(n) == \E m \in T : to[m] = n
             both(n) == \E m \in T : to[m] = n /\ deep
  <2>1. \A n : both(n) <=> new(n) /\ deep
    BY Zenon
  <2>2. CopyRows(kids, T, to) = [n \in Node |-> IF new(n) THEN row(n) ELSE kids[n]]
    BY Zenon DEF CopyRows
  <2> HIDE DEF row, new, both
  <2>3. J = [n \in Node |-> IF both(n) THEN row(n) ELSE kids[n]]
    <3>1. CASE deep
      BY <2>1, <2>2, <3>1
    <3>2. CASE ~deep
      <4>1. J = kids
        BY <3>2
      <4>2. kids = [n \in Node |-> kids[n]]
        BY <1>0
      <4>3. \A n : ~both(n)
        BY <2>1, <3>2
      <4> QED
        BY <4>1, <4>2, <4>3
    <3> QED
      BY <3>1, <3>2
  <2>4. kids' = [n \in Node |-> IF both(n) THEN row(n) ELSE kids[n]]
    BY <1>1, <2>3
  <2> QED
    BY <2>4, Zenon DEF row, both
<1>5. keys' = [n \in Node |-> IF \E m \in T : to[m] = n THEN keys[CHOOSE m \in T : to[m] = n] ELSE keys[n]]
  <2>1. keys' = CopyKeys(keys, T, to)
    BY <1>0, <1>1
  <2> QED
    BY <2>1, Zenon DEF CopyKeys
<1>6. Forest!Copied(i, deep)
  <2> DEFINE U == IF deep THEN Forest!TreeOf(i) ELSE {i}
  <2>1. CopiedFrom(T, deep)
    BY <1>3, <1>4, <1>5, Zenon DEF CopiedFrom
  <2>2. U = T
    BY <1>2
  <2>3. CopiedFrom(U, deep)
    <3> HIDE DEF U
    <3> QED
      BY <2>1, <2>2
  <2> QED
    BY <2>3, Zenon DEF CopiedFrom, Forest!Copied
<1>7. Forest!ForestNext
  BY <1>0, <1>6, Zenon DEF Forest!ForestNext
<1> QED
  BY <1>1, <1>7 DEF Kept

\* cJSON_Duplicate copies a tree, or one item.
LEMMA StepDuplicate ==
    ASSUME IInv, Told, NEW i \in Live, NEW recurse \in BOOLEAN, cJSON_Duplicate(i, recurse)
    PROVE  Kept
<1> DEFINE T == IF recurse THEN Tree(kids, i) ELSE {i}
<1>0. Good(memory, kids, held) /\ i \in LiveIn(memory) /\ Fresh = Node \ LiveIn(memory) /\ i \in Node
  <2>1. Good(memory, kids, held) /\ i \in LiveIn(memory) /\ Fresh = Node \ LiveIn(memory)
    BY DEF IInv, Live, Fresh
  <2> QED
    BY <2>1, GoodFacts
<1>1. Below(i) = Tree(kids, i)
  BY <1>0, InForest
<1>2. \E to \in Injection(T, Node \ LiveIn(memory)) :
          memory' = cJSON_Duplicate_rec(memory, i, T, to) /\ held' = held \cup {to[i]}
  <2> DEFINE U == IF recurse THEN Below(i) ELSE {i}
  <2>1. \E to \in Injection(U, Fresh) :
            memory' = cJSON_Duplicate_rec(memory, i, U, to) /\ held' = held \cup {to[i]}
    BY Zenon DEF cJSON_Duplicate
  <2>2. U = T
    BY <1>1
  <2> HIDE DEF U, T
  <2> QED
    BY <1>0, <2>1, <2>2
<1>3. PICK to \in Injection(T, Node \ LiveIn(memory)) :
          memory' = cJSON_Duplicate_rec(memory, i, T, to) /\ held' = held \cup {to[i]}
  BY <1>2, Zenon
<1> DEFINE J == IF recurse THEN CopyRows(kids, T, to) ELSE kids
<1>4. /\ Good(memory', J, held') /\ LiveIn(memory') = LiveIn(memory) \cup {to[m] : m \in T}
      /\ Ky(memory') = CopyKeys(Ky(memory), T, to)
  <2>1. CASE recurse
    <3>1. T = Tree(kids, i)
      BY <2>1
    <3> HIDE DEF T
    <3>2. J = CopyRows(kids, T, to)
      BY <2>1
    <3>3. to \in Injection(Tree(kids, i), Node \ LiveIn(memory))
      BY <3>1
    <3>4. LET g == cJSON_Duplicate_rec(memory, i, Tree(kids, i), to)
              V == Tree(kids, i) IN
          /\ Good(g, CopyRows(kids, V, to), held \cup {to[i]})
          /\ LiveIn(g) = LiveIn(memory) \cup {to[m] : m \in V} /\ Ky(g) = CopyKeys(Ky(memory), V, to)
          /\ V \subseteq LiveIn(memory) /\ i \in V
      BY <1>0, <3>3, DeepCopyGood
    <3> HIDE DEF J
    <3> QED
      BY <1>3, <3>1, <3>2, <3>4
  <2>2. CASE ~recurse
    <3>1. T = {i}
      BY <2>2
    <3> HIDE DEF T
    <3>2. J = kids
      BY <2>2
    <3>3. to \in Injection({i}, Node \ LiveIn(memory))
      BY <3>1
    <3>4. LET g == cJSON_Duplicate_rec(memory, i, {i}, to) IN
          /\ Good(g, kids, held \cup {to[i]})
          /\ LiveIn(g) = LiveIn(memory) \cup {to[m] : m \in {i}} /\ Ky(g) = CopyKeys(Ky(memory), {i}, to)
      BY <1>0, <3>3, ShallowCopyGood
    <3> HIDE DEF J
    <3> QED
      BY <1>3, <3>1, <3>2, <3>4
  <2> QED
    BY <2>1, <2>2
<1>5. T = (IF recurse THEN Tree(kids, i) ELSE {i}) /\ J = IF recurse THEN CopyRows(kids, T, to) ELSE kids
  OBVIOUS
<1> HIDE DEF T, J
<1> QED
  BY <1>0, <1>4, <1>5, KeptCopied

\* One step: every call keeps the invariant, and is a call of the forest or none.
THEOREM TreeStep ==
    ASSUME IInv, [TreeNext]_treeVars
    PROVE  Kept
<1>1. CASE UNCHANGED treeVars
  <2>1. memory' = memory /\ held' = held /\ live' = live /\ kids' = kids /\ keys' = keys
    BY <1>1 DEF treeVars
  <2>2. IInv'
    BY <2>1 DEF IInv
  <2> QED
    BY <2>1, <2>2 DEF Kept
<1>2. CASE TreeNext
  <2>0. Told /\ Call
    BY <1>2, Zenon DEF TreeNext, Told
  <2>1. ASSUME NEW n \in Fresh, NEW kind \in Kind, cJSON_Create(n, kind) PROVE Kept
    BY <2>0, <2>1, StepCreate
  <2>2. ASSUME NEW n \in Fresh, NEW kind \in Kind, NEW p \in Live, NEW name \in Name, cJSON_AddToObject(p, name, kind, n)
        PROVE  Kept
    BY <2>0, <2>2, StepAddNew
  <2>3. ASSUME NEW a \in Fresh, NEW parts \in SeqOf(Fresh \ {a}, MaxParts), IsInjective(parts), cJSON_CreateStringArray(a, parts)
        PROVE  Kept
    BY <2>0, <2>3, StepStringArray
  <2>4. ASSUME NEW p, NEW i, cJSON_AddItemToArray(p, i) PROVE Kept
    BY <2>0, <2>4, StepAdd
  <2>5. ASSUME NEW p, NEW i, NEW name \in Key, add_item_to_object(p, name, i) PROVE Kept
    BY <2>0, <2>5, StepAddMember
  <2>6. ASSUME NEW p, NEW i, NEW name \in Name, NEW case_sensitive \in BOOLEAN, replace_item_in_object(p, name, i, case_sensitive)
        PROVE  Kept
    BY <2>0, <2>6, StepReplaceMember
  <2>7. ASSUME NEW p, NEW i, NEW w \in 1..Cardinality(Node), cJSON_InsertItem(p, w, i) PROVE Kept
    <3>1. w \in Nat \ {0}
      OBVIOUS
    <3> QED
      BY <2>0, <2>7, <3>1, StepInsert
  <2>8. ASSUME NEW p, NEW i, NEW w, cJSON_ReplaceItemInArray(p, w, i) PROVE Kept
    BY <2>0, <2>8, StepReplace
  <2>9. ASSUME NEW p, NEW name, NEW case_sensitive \in BOOLEAN, cJSON_DetachItemFromObject(p, name, case_sensitive) PROVE Kept
    BY <2>0, <2>9, StepDetachMember
  <2>10. ASSUME NEW p, NEW w, cJSON_DetachItemFromArray(p, w) PROVE Kept
    BY <2>0, <2>10, StepDetach
  <2>11. ASSUME NEW p, NEW w, cJSON_DeleteItemFromArray(p, w) PROVE Kept
    BY <2>0, <2>11, StepRemove
  <2>12. ASSUME NEW i \in Live, NEW recurse \in BOOLEAN, cJSON_Duplicate(i, recurse) PROVE Kept
    BY <2>0, <2>12, StepDuplicate
  <2>13. ASSUME NEW i \in held, Delete(i) PROVE Kept
    BY <2>0, <2>13, StepDelete
  <2> QED
    BY <2>0, <2>1, <2>2, <2>3, <2>4, <2>5, <2>6, <2>7, <2>8, <2>9, <2>10, <2>11, <2>12, <2>13, Zenon DEF Call
<1> QED
  BY <1>1, <1>2

\* No item, no string.
THEOREM TreeStart == TreeInit => IInv /\ Forest!ForestInit
<1> SUFFICES ASSUME TreeInit PROVE IInv /\ Forest!ForestInit
  OBVIOUS
<1> DEFINE K == [n \in Node |-> <<>>]
<1>0. /\ memory = [item |-> [n \in Node |-> Blank], strings |-> 0] /\ held = {}
      /\ live = Live /\ kids = Kids /\ keys = Keys
  BY Zenon DEF TreeInit, Seen
<1>1. \A n \in Node : memory.item[n] = Blank
  BY <1>0
<1>2. LiveIn(memory) = {} /\ memory.strings = 0
  <2>1. \A n \in Node : ~(memory.item[n].kind # "free")
    BY <1>1, BlankIs, Zenon
  <2>2. memory.strings = 0
    BY <1>0
  <2> QED
    BY <2>1, <2>2 DEF LiveIn
<1>3. memory \in Heap
  <2>1. Blank \in Item
    BY DEF Blank, Item, KindOf, Ptr
  <2>2. [n \in Node |-> Blank] \in [Node -> Item]
    BY <2>1
  <2> QED
    BY <1>0, <2>2 DEF Heap
<1>4. K \in [Node -> Seq(Node)] /\ \A n \in Node : K[n] = <<>> /\ Len(K[n]) = 0 /\ ToSet(K[n]) = {}
  BY DEF ToSet
<1>5. \A n \in Node : Nx(memory)[n] = Null /\ Pv(memory)[n] = Null /\ Ch(memory)[n] = Null
  BY <1>1, BlankIs, Views
<1> HIDE DEF K
<1>6. Lists(Nx(memory), Pv(memory), Ch(memory), K)
  <2>1. Nx(memory) \in [Node -> Ptr] /\ Pv(memory) \in [Node -> Ptr] /\ Ch(memory) \in [Node -> Ptr]
    BY <1>3, ViewTypes
  <2>2. Linked(Nx(memory), Pv(memory), Ch(memory), K)
    BY <1>4, <1>5 DEF Linked
  <2>3. Apart(K)
    BY <1>4 DEF Apart
  <2> QED
    BY <1>4, <1>5, <2>1, <2>2, <2>3 DEF Lists
<1>7. Grove(K, {}, {})
  BY <1>4 DEF Grove
<1>8. Strings(memory, {}) = 0
  <2>1. Texts(memory, {}) = {} /\ OwnKeys(memory, {}) = {}
    BY DEF Texts, OwnKeys
  <2>2. Cardinality({}) = 0
    BY FS_EmptySet
  <2>3. Strings(memory, {}) = Cardinality(Texts(memory, {})) + Cardinality(OwnKeys(memory, {}))
    BY StringsAre
  <2> QED
    BY <2>1, <2>2, <2>3
<1>9. \A n \in Node \ LiveIn(memory) : memory.item[n].key = None
  BY <1>1, BlankIs
<1>10. Good(memory, K, held)
  BY <1>0, <1>2, <1>3, <1>6, <1>7, <1>8, <1>9 DEF Good
<1>11. live = LiveIn(memory) /\ kids = Sights(memory) /\ keys = Ky(memory)
  BY <1>0, Zenon DEF Live, Kids, Keys, Sights, Ky
<1>12. kids = K
  BY <1>10, <1>11, SightsAre
<1>13. keys = [n \in Node |-> None]
  <2>1. \A n \in Node : memory.item[n].key = None
    BY <1>1, BlankIs
  <2> QED
    BY <1>11, <2>1 DEF Ky
<1>14. IInv
  BY <1>10, <1>11, <1>12 DEF IInv
<1>15. Forest!ForestInit
  BY <1>2, <1>11, <1>12, <1>13, Zenon DEF K, Forest!ForestInit
<1> QED
  BY <1>14, <1>15

-----------------------------------------------------------------------------
(* The theorems.                                                           *)

\* The links between items, the history that follows them and the strings
\* they own agree after every call: the invariant the others rest on.
THEOREM TreeInvariant == TreeSpec => []IInv
<1>1. TreeInit => IInv
  BY TreeStart
<1>2. IInv /\ [TreeNext]_treeVars => IInv'
  BY TreeStep DEF Kept
<1> QED
  BY <1>1, <1>2, PTL DEF TreeSpec

\* Every call of JsonTree comes to a change of one sequence or one key that a call
\* of the forest may make, also when memory runs out in the middle.
THEOREM TreeImplementsForest == TreeSpec => ImplementsForest
<1>1. TreeInit => Forest!ForestInit
  BY TreeStart
<1>2. IInv /\ [TreeNext]_treeVars => [Forest!ForestNext]_Forest!forestVars
  <2> SUFFICES ASSUME IInv, [TreeNext]_treeVars PROVE [Forest!ForestNext]_Forest!forestVars
    OBVIOUS
  <2>1. Forest!ForestNext \/ UNCHANGED <<live, kids, keys>>
    BY TreeStep DEF Kept
  <2> QED
    BY <2>1 DEF Forest!forestVars
<1> QED
  BY <1>1, <1>2, TreeInvariant, PTL DEF TreeSpec, ImplementsForest, Forest!ForestSpec

\* The links of a live item lead to live items.
LEMMA LinksLive ==
    ASSUME NEW h, NEW K, NEW H, Good(h, K, H), NEW n \in LiveIn(h)
    PROVE  {h.item[n].next, h.item[n].prev, h.item[n].child} \subseteq LiveIn(h) \cup {Null}
<1>0. /\ n \in Node /\ K \in [Node -> Seq(Node)] /\ Lists(Nx(h), Pv(h), Ch(h), K)
      /\ \A p \in Node : ToSet(K[p]) \subseteq LiveIn(h)
  BY GoodFacts
<1>1. h.item[n].next = Nx(h)[n] /\ h.item[n].prev = Pv(h)[n] /\ h.item[n].child = Ch(h)[n]
  BY <1>0, Views
<1>2. \A q \in Node : \A j \in 1..Len(K[q]) : K[q][j] \in LiveIn(h)
  BY <1>0, Places
<1>3. Ch(h)[n] \in LiveIn(h) \cup {Null}
  <2>1. Ch(h)[n] = IF Len(K[n]) = 0 THEN Null ELSE K[n][1]
    BY <1>0, ListFacts
  <2>2. Len(K[n]) \in Nat
    BY <1>0
  <2>3. Len(K[n]) # 0 => 1 \in 1..Len(K[n])
    BY <2>2
  <2> QED
    BY <1>0, <1>2, <2>1, <2>3
<1>4. Nx(h)[n] \in LiveIn(h) \cup {Null} /\ Pv(h)[n] \in LiveIn(h) \cup {Null}
  <2>1. CASE IsTop(K, n)
    <3>1. Nx(h)[n] = Null /\ Pv(h)[n] = Null
      BY <1>0, <2>1, ListFacts
    <3> QED
      BY <3>1
  <2>2. CASE ~IsTop(K, n)
    <3>1. PICK q \in Node : \E j \in 1..Len(K[q]) : K[q][j] = n
      BY <2>2 DEF IsTop
    <3>2. PICK j \in 1..Len(K[q]) : K[q][j] = n
      BY <3>1
    <3>3. /\ Nx(h)[K[q][j]] = IF j = Len(K[q]) THEN Null ELSE K[q][j + 1]
          /\ Pv(h)[K[q][j]] = IF j = 1 THEN K[q][Len(K[q])] ELSE K[q][j - 1]
      BY <1>0, <3>1, <3>2, ListFacts
    <3>4. Len(K[q]) \in Nat
      BY <1>0
    <3>5. /\ j # Len(K[q]) => j + 1 \in 1..Len(K[q])
          /\ j # 1 => j - 1 \in 1..Len(K[q])
          /\ Len(K[q]) \in 1..Len(K[q])
      BY <3>2, <3>4
    <3> QED
      BY <1>2, <3>2, <3>3, <3>5
  <2> QED
    BY <2>1, <2>2
<1> QED
  BY <1>1, <1>3, <1>4

\* No call leaves an item or a string behind, frees one twice or keeps a
\* pointer to a freed one, however many items and keys there are.
THEOREM NothingLost == TreeSpec => []MemoryBalanced
<1>1. IInv => MemoryBalanced
  <2> SUFFICES ASSUME IInv PROVE MemoryBalanced
    OBVIOUS
  <2>0. Good(memory, kids, held) /\ Live = LiveIn(memory)
    BY DEF IInv, Live
  <2>1. memory.strings = Strings(memory, Live)
    BY <2>0 DEF Good
  <2>2. /\ \A n \in Live : \E i \in held : n \in Tree(kids, i)
        /\ \A i, j \in held : i # j => Tree(kids, i) \cap Tree(kids, j) = {}
    <3>1. Grove(kids, held, Live)
      BY <2>0, GoodFacts
    <3> QED
      BY <3>1, OneRoot
  <2>3. \A i \in held : Below(i) = Tree(kids, i)
    <3>1. held \subseteq Node
      BY <2>0, GoodFacts
    <3> QED
      BY <3>1, InForest
  <2>4. ASSUME NEW n \in Live PROVE \E i \in held : n \in Below(i) /\ \A j \in held \ {i} : n \notin Below(j)
    <3>1. PICK i \in held : n \in Tree(kids, i)
      BY <2>2
    <3>2. \A j \in held \ {i} : n \notin Tree(kids, j)
      BY <2>2, <3>1
    <3> QED
      BY <2>3, <3>1, <3>2
  <2>5. \A n \in Live : {memory.item[n].next, memory.item[n].prev, memory.item[n].child} \subseteq Live \cup {Null}
    BY <2>0, LinksLive
  <2> QED
    BY <2>1, <2>4, <2>5 DEF MemoryBalanced
<1> QED
  BY <1>1, TreeInvariant, PTL
=============================================================================
