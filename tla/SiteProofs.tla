----------------------------- MODULE SiteProofs -----------------------------
(***************************************************************************)
(* What every request passes, the router and the limiter, and then the     *)
(* accounts, what the server tells of itself, the downloads, and the pages *)
(* and static files: for any number of users, connections and blocks, any  *)
(* size of the ring of log lines, any word of the CPU's counters, and any  *)
(* files and paths.                                                        *)
(*                                                                         *)
(* For any set of paths, hosts and handlers, any number of buckets and any *)
(* hash function, the dispatch through the table gives what the list of    *)
(* added routes calls for; only between wildcards of different paths does  *)
(* the hash choose.  The inductive invariant says that the table holds     *)
(* exactly the added routes, each in the bucket of its key, and that of    *)
(* any set of routes the newest comes first in its bucket.  So the routes  *)
(* that ar-ws adds at its start answer as they are meant to.               *)
(*                                                                         *)
(* For any number of slots and addresses and any quotas, the limiter's     *)
(* table keeps its type, so that every check finds a slot to work on, and  *)
(* it never lists an address twice.  The two counters of an address say    *)
(* how many requests were let through in its current window and bound      *)
(* those of the window before, so no span of a window's length lets        *)
(* through more than twice the quota, and nobody is refused for less.      *)
(***************************************************************************)
EXTENDS Endpoints, RateLimiter, Accounts, Telemetry, Serving, WebFiles, FiniteSetTheorems,
        SequenceTheorems, WellFoundedInduction, TLAPS

\* A non-empty set of naturals has a least element.
LEMMA LeastExists ==
    ASSUME NEW S, S \subseteq Nat, S # {}
    PROVE  \E i \in S : \A j \in S : i <= j
<1>1. PICK i \in S : \A j \in S : ~(<<j, i>> \in OpToRel(<, Nat))
  BY NatLessThanWellFounded, WFMin, Zenon
<1>2. \A j \in S : ~(j < i)
  BY <1>1 DEF OpToRel
<1> QED
  BY <1>2

-----------------------------------------------------------------------------
(* The router and the limiter, which every request passes.                  *)

\* The list a request, or a route, is looked up in.
BucketOf(k) == hash_route[<<k.path, k.method>>]
List(k) == route_hash[BucketOf(k)]

\* Every route in the table was added, and is where its key hashes to.
Genuine ==
    \A b \in Bucket : \A j \in DOMAIN route_hash[b] :
        /\ BucketOf(route_hash[b][j]) = b
        /\ \E i \in Added : registered[i] = route_hash[b][j]

\* Every added route is in its bucket.
InItsBucket == \A i \in Added : \E j \in DOMAIN List(registered[i]) :
              List(registered[i])[j] = registered[i]

\* Of any set of routes, the newest one that was added has none of them before
\* it in its list.
NewestFirst ==
    \A S \in SUBSET Route : \A i \in Added :
        registered[i] \in S /\ (\A k \in Added : registered[k] \in S => k <= i) =>
            \E j \in DOMAIN List(registered[i]) :
                /\ List(registered[i])[j] = registered[i]
                /\ \A k \in DOMAIN List(registered[i]) : k < j => List(registered[i])[k] \notin S

RouterIInv == TypeOK /\ Genuine /\ InItsBucket /\ NewestFirst

-----------------------------------------------------------------------------
(* The routes of the table.                                                 *)

\* A key is hashed to a bucket.
LEMMA HashesToBucket ==
    ASSUME TypeOK, NEW p \in Path, NEW m \in Method
    PROVE  hash_route[<<p, m>>] \in Bucket
<1>1. hash_route \in [Key -> Bucket]
  BY HashAssumption DEF TypeOK
<1>2. <<p, m>> \in Key
  BY DEF Key
<1> QED
  BY <1>1, <1>2

\* A route put at the head moves the others of its list one place on.
LEMMA Prepended ==
    ASSUME NEW s \in Seq(Route), NEW r \in Route
    PROVE  /\ <<r>> \o s \in Seq(Route)
           /\ DOMAIN (<<r>> \o s) = 1..(Len(s) + 1)
           /\ (<<r>> \o s)[1] = r
           /\ \A k \in DOMAIN s : k + 1 \in DOMAIN (<<r>> \o s) /\ (<<r>> \o s)[k + 1] = s[k]
           /\ \A k \in DOMAIN (<<r>> \o s) : k # 1 => k - 1 \in DOMAIN s /\ (<<r>> \o s)[k] = s[k - 1]
<1>1. Len(<<r>>) = 1 /\ <<r>> \in Seq(Route) /\ <<r>>[1] = r
  OBVIOUS
<1> QED
  BY <1>1

\* What add_route changes, for the bucket of the new route and for the rest.
LEMMA AddRouteWrites ==
    ASSUME TypeOK, NEW r \in Route, add_route(r)
    PROVE  /\ BucketOf(r) \in Bucket
           /\ route_hash' = [route_hash EXCEPT ![BucketOf(r)] = <<r>> \o List(r)]
           /\ route_hash'[BucketOf(r)] = <<r>> \o List(r)
           /\ \A b \in Bucket : b # BucketOf(r) => route_hash'[b] = route_hash[b]
           /\ List(r) \in Seq(Route)
           /\ hash_route' = hash_route
           /\ registered' = Append(registered, r)
           /\ TypeOK'
<1>1. BucketOf(r) \in Bucket
  BY HashesToBucket DEF BucketOf, Route
<1>2. List(r) \in Seq(Route)
  BY <1>1 DEF List, TypeOK
<1>3. route_hash' = [route_hash EXCEPT ![BucketOf(r)] = <<r>> \o List(r)]
  BY DEF add_route, BucketOf, List
<1>4. <<r>> \o List(r) \in Seq(Route)
  BY <1>2
<1>5. hash_route' = hash_route /\ registered' = Append(registered, r)
  BY DEF add_route
<1>6. registered' \in Seq(Route)
  BY <1>5 DEF TypeOK
<1> QED
  BY <1>1, <1>2, <1>3, <1>4, <1>5, <1>6 DEF TypeOK

-----------------------------------------------------------------------------
(* Adding a route keeps the invariant.                                      *)

LEMMA InitInv == Init => RouterIInv
<1> SUFFICES ASSUME Init PROVE RouterIInv
  OBVIOUS
<1>1. Added = {} /\ \A b \in Bucket : route_hash[b] = <<>>
  BY DEF Init, Added
<1>2. TypeOK
  BY DEF Init, TypeOK
<1> QED
  BY <1>1, <1>2 DEF RouterIInv, Genuine, InItsBucket, NewestFirst

LEMMA AddRouteInv == ASSUME RouterIInv, NEW r \in Route, add_route(r) PROVE RouterIInv'
<1> DEFINE b == BucketOf(r)
           old == List(r)
           n == Len(registered) + 1
<1>1. /\ b \in Bucket /\ old \in Seq(Route) /\ TypeOK'
      /\ route_hash'[b] = <<r>> \o old
      /\ \A c \in Bucket : c # b => route_hash'[c] = route_hash[c]
      /\ hash_route' = hash_route /\ registered' = Append(registered, r)
  BY AddRouteWrites DEF RouterIInv
<1>2. old = route_hash[b]
  BY DEF List
<1>3. /\ route_hash'[b] \in Seq(Route) /\ DOMAIN route_hash'[b] = 1..(Len(old) + 1)
      /\ route_hash'[b][1] = r
      /\ \A k \in DOMAIN old : k + 1 \in DOMAIN route_hash'[b] /\ route_hash'[b][k + 1] = old[k]
      /\ \A k \in DOMAIN route_hash'[b] :
             k # 1 => k - 1 \in DOMAIN old /\ route_hash'[b][k] = old[k - 1]
  BY <1>1, Prepended
<1>4. /\ n \in Nat /\ Added = 1..(n - 1) /\ Added' = Added \cup {n} /\ n \notin Added
      /\ registered'[n] = r
      /\ \A i \in Added : registered'[i] = registered[i] /\ registered[i] \in Route
  BY <1>1 DEF RouterIInv, TypeOK, Added
<1>5. \A c \in Bucket : DOMAIN route_hash[c] = 1..Len(route_hash[c]) /\ Len(route_hash[c]) \in Nat
  BY DEF RouterIInv, TypeOK
<1> HIDE DEF b, old, n
<1>7. Genuine'
  <2> SUFFICES ASSUME NEW c \in Bucket, NEW j \in DOMAIN route_hash'[c]
               PROVE  /\ hash_route[<<route_hash'[c][j].path, route_hash'[c][j].method>>] = c
                      /\ \E i \in Added' : registered'[i] = route_hash'[c][j]
    BY <1>1 DEF Genuine, BucketOf
  <2>1. CASE c = b /\ j = 1
    BY <2>1, <1>3, <1>4 DEF b, BucketOf
  <2>2. CASE c = b /\ j # 1
    <3>1. j - 1 \in DOMAIN route_hash[b] /\ route_hash'[c][j] = route_hash[b][j - 1]
      BY <2>2, <1>3, <1>2
    <3>2. c = BucketOf(route_hash[b][j - 1])
      BY <3>1, <2>2, <1>1 DEF RouterIInv, Genuine
    <3>3. PICK i \in Added : registered[i] = route_hash[b][j - 1]
      BY <3>1, <1>1 DEF RouterIInv, Genuine
    <3>4. i \in Added' /\ registered'[i] = route_hash'[c][j]
      BY <3>1, <3>3, <1>4
    <3> QED
      BY <3>1, <3>2, <3>4 DEF BucketOf
  <2>3. CASE c # b
    <3>1. route_hash'[c] = route_hash[c]
      BY <2>3, <1>1
    <3> QED
      BY <3>1, <1>4 DEF RouterIInv, Genuine, BucketOf
  <2> QED
    BY <2>1, <2>2, <2>3
<1>8. InItsBucket'
  <2> SUFFICES ASSUME NEW i \in Added'
               PROVE  LET c == hash_route[<<registered'[i].path, registered'[i].method>>]
                      IN  \E j \in DOMAIN route_hash'[c] : route_hash'[c][j] = registered'[i]
    BY <1>1 DEF InItsBucket, List, BucketOf
  <2>1. CASE i = n
    <3>1. registered'[i] = r /\ 1 \in DOMAIN route_hash'[b]
      BY <2>1, <1>3, <1>4, <1>1
    <3> QED
      BY <3>1, <1>3 DEF b, BucketOf
  <2>2. CASE i # n
    <3> DEFINE c == BucketOf(registered[i])
    <3>1. i \in Added /\ registered'[i] = registered[i] /\ registered[i] \in Route
      BY <2>2, <1>4
    <3>2. c \in Bucket
      BY <3>1, HashesToBucket DEF RouterIInv, BucketOf, Route
    <3>3. PICK j \in DOMAIN route_hash[c] : route_hash[c][j] = registered[i]
      BY <3>1 DEF RouterIInv, InItsBucket, List
    <3>4. CASE c = b
      <4>1. j + 1 \in DOMAIN route_hash'[c] /\ route_hash'[c][j + 1] = registered[i]
        BY <3>3, <3>4, <1>2, <1>3
      <4> QED
        BY <4>1, <3>1 DEF BucketOf
    <3>5. CASE c # b
      <4>1. route_hash'[c] = route_hash[c]
        BY <3>2, <3>5, <1>1
      <4> QED
        BY <4>1, <3>1, <3>3 DEF BucketOf
    <3> QED
      BY <3>4, <3>5
  <2> QED
    BY <2>1, <2>2
<1>9. NewestFirst'
  <2> SUFFICES ASSUME NEW S \in SUBSET Route, NEW i \in Added', registered'[i] \in S,
                      \A k \in Added' : registered'[k] \in S => k <= i
               PROVE  \E j \in DOMAIN List(registered[i])' :
                          /\ List(registered[i])'[j] = registered'[i]
                          /\ \A k \in DOMAIN List(registered[i])' :
                                 k < j => List(registered[i])'[k] \notin S
    BY Zenon DEF NewestFirst
  <2> DEFINE c == hash_route[<<registered'[i].path, registered'[i].method>>]
  <2> SUFFICES \E j \in DOMAIN route_hash'[c] :
                   /\ route_hash'[c][j] = registered'[i]
                   /\ \A k \in DOMAIN route_hash'[c] : k < j => route_hash'[c][k] \notin S
    BY <1>1 DEF List, BucketOf
  <2>1. c \in Bucket
    <3>1. registered'[i] \in Route
      OBVIOUS
    <3> QED
      BY <3>1, HashesToBucket DEF RouterIInv, Route
  <2>2. CASE i = n
    <3>1. c = b /\ registered'[i] = r
      BY <2>2, <1>4 DEF BucketOf, b
    <3>2. 1 \in DOMAIN route_hash'[c] /\ route_hash'[c][1] = registered'[i]
      BY <3>1, <1>1, <1>3
    <3>3. \A k \in DOMAIN route_hash'[c] : ~(k < 1)
      BY <3>1, <1>3
    <3> QED
      BY <3>2, <3>3
  <2>3. CASE i # n
    <3>1. i \in Added /\ registered'[i] = registered[i]
      BY <2>3, <1>4
    <3>2. r \notin S
      BY <2>3, <3>1, <1>4
    <3>3. \A k \in Added : registered[k] \in S => k <= i
      BY <1>4
    <3>4. c = BucketOf(registered[i]) /\ route_hash[c] = List(registered[i])
      BY <3>1 DEF List, BucketOf
    <3>5. PICK j \in DOMAIN route_hash[c] :
              /\ route_hash[c][j] = registered[i]
              /\ \A k \in DOMAIN route_hash[c] : k < j => route_hash[c][k] \notin S
      BY <3>1, <3>3, <3>4 DEF RouterIInv, NewestFirst
    <3>6. CASE c # b
      BY <3>1, <3>5, <3>6, <2>1, <1>1
    <3>7. CASE c = b
      <4>1. j \in DOMAIN old /\ old = route_hash[c]
        BY <3>5, <3>7, <1>2
      <4>2. j + 1 \in DOMAIN route_hash'[c] /\ route_hash'[c][j + 1] = registered'[i]
        BY <4>1, <3>1, <3>5, <3>7, <1>3
      <4>3. ASSUME NEW k \in DOMAIN route_hash'[c], k < j + 1
            PROVE  route_hash'[c][k] \notin S
        <5>1. CASE k = 1
          BY <5>1, <3>2, <3>7, <1>3
        <5>2. CASE k # 1
          <6>1. k - 1 \in DOMAIN route_hash[c] /\ route_hash'[c][k] = route_hash[c][k - 1]
            BY <5>2, <4>1, <3>7, <1>3
          <6>2. k \in Int /\ j \in Int
            BY <4>1, <1>1, <1>3, <3>7
          <6>3. k - 1 < j
            BY <4>3, <6>2
          <6> QED
            BY <6>1, <6>3, <3>5
        <5> QED
          BY <5>1, <5>2
      <4> QED
        BY <4>2, <4>3
    <3> QED
      BY <3>6, <3>7
  <2> QED
    BY <2>2, <2>3
<1> QED
  BY <1>1, <1>7, <1>8, <1>9 DEF RouterIInv

LEMMA NextInv == RouterIInv /\ [Next]_vars => RouterIInv'
<1> SUFFICES ASSUME RouterIInv, [Next]_vars PROVE RouterIInv'
  OBVIOUS
<1>1. CASE UNCHANGED vars
  <2>1. route_hash' = route_hash /\ hash_route' = hash_route /\ registered' = registered
    BY <1>1 DEF vars
  <2>2. TypeOK'
    BY <2>1 DEF RouterIInv, TypeOK
  <2>3. Genuine'
    BY <2>1 DEF RouterIInv, Genuine, BucketOf, Added
  <2>4. InItsBucket'
    BY <2>1 DEF RouterIInv, InItsBucket, List, BucketOf, Added
  <2>5. NewestFirst'
    BY <2>1 DEF RouterIInv, NewestFirst, List, BucketOf, Added
  <2> QED
    BY <2>2, <2>3, <2>4, <2>5 DEF RouterIInv
<1>2. CASE Next
  BY <1>2, AddRouteInv DEF Next
<1> QED
  BY <1>1, <1>2

\* The invariant holds in every reachable state.
LEMMA Invariant == Spec => []RouterIInv
<1>1. Init => RouterIInv
  BY InitInv
<1>2. RouterIInv /\ [Next]_vars => RouterIInv'
  BY NextInv
<1> QED
  BY <1>1, <1>2, PTL DEF Spec

\* add_route keeps the lists of the table well typed.
THEOREM TypeCorrect == Spec => []TypeOK
<1>1. RouterIInv => TypeOK
  BY DEF RouterIInv
<1> QED
  BY <1>1, Invariant, PTL

-----------------------------------------------------------------------------
(* The dispatch.                                                            *)

\* A place is a bucket and an index of its list.
LEMMA PlaceParts ==
    ASSUME TypeOK, NEW x \in Place
    PROVE  /\ x[1] \in Bucket /\ x[2] \in DOMAIN route_hash[x[1]]
           /\ x[1] \in Nat /\ x[2] \in Nat /\ x = <<x[1], x[2]>>
           /\ At(x) \in Route
<1>1. PICK b \in Bucket : x \in {b} \X DOMAIN route_hash[b]
  BY DEF Place
<1>2. x[1] = b /\ x[2] \in DOMAIN route_hash[b] /\ x = <<x[1], x[2]>>
  BY <1>1
<1>3. route_hash[b] \in Seq(Route)
  BY DEF TypeOK
<1>4. x[2] \in 1..Len(route_hash[b]) /\ Len(route_hash[b]) \in Nat
  BY <1>2, <1>3
<1>5. route_hash[b][x[2]] \in Route /\ x[2] \in Nat
  BY <1>3, <1>4
<1>6. b \in Nat
  BY HashAssumption DEF Bucket
<1> QED
  BY <1>2, <1>5, <1>6 DEF At

\* An index of a list is a place.
LEMMA PlaceOf ==
    ASSUME NEW b \in Bucket, NEW j \in DOMAIN route_hash[b]
    PROVE  <<b, j>> \in Place /\ At(<<b, j>>) = route_hash[b][j]
<1>1. <<b, j>> \in {b} \X DOMAIN route_hash[b]
  OBVIOUS
<1> QED
  BY <1>1 DEF Place, At

\* The loops of router_dispatch stop at a first match if there is one.
LEMMA FirstExists ==
    ASSUME TypeOK, NEW S, S \subseteq Place, S # {}
    PROVE  FirstOf(S) \in S /\ \A y \in S : Before(FirstOf(S), y)
<1>1. \A x \in S : x[1] \in Nat /\ x[2] \in Nat
  BY PlaceParts
<1> DEFINE B == {x[1] : x \in S}
<1>2. B \subseteq Nat /\ B # {}
  BY <1>1
<1> HIDE DEF B
<1>3. PICK b \in B : \A c \in B : b <= c
  BY <1>2, LeastExists
<1> DEFINE I == {x[2] : x \in {y \in S : y[1] = b}}
<1>4. I \subseteq Nat /\ I # {}
  BY <1>1 DEF B
<1> HIDE DEF I
<1>5. PICK i \in I : \A k \in I : i <= k
  BY <1>4, LeastExists
<1>6. PICK x \in S : x[1] = b /\ x[2] = i
  BY <1>5 DEF I
<1>7. \A y \in S : Before(x, y)
  <2> SUFFICES ASSUME NEW y \in S PROVE Before(x, y)
    OBVIOUS
  <2>1. b <= y[1] /\ b \in Nat /\ y[1] \in Nat
    BY <1>1, <1>2, <1>3 DEF B
  <2>2. CASE y[1] = b
    BY <2>2, <1>5, <1>6 DEF I, Before
  <2>3. CASE y[1] # b
    BY <2>1, <2>3, <1>6 DEF Before
  <2> QED
    BY <2>2, <2>3
<1> QED
  BY <1>6, <1>7 DEF FirstOf

\* What stands in the table was added, and stands in the bucket of its key.
LEMMA PlaceAdded ==
    ASSUME RouterIInv, NEW x \in Place
    PROVE  x[1] = BucketOf(At(x)) /\ \E i \in Added : registered[i] = At(x)
BY PlaceParts DEF RouterIInv, Genuine, At

\* What was added stands in the table.
LEMMA AddedPlaced ==
    ASSUME RouterIInv, NEW i \in Added
    PROVE  \E x \in Place : At(x) = registered[i]
<1>1. registered[i] \in Route
  BY DEF RouterIInv, TypeOK, Added
<1>2. BucketOf(registered[i]) \in Bucket
  BY <1>1, HashesToBucket DEF RouterIInv, BucketOf, Route
<1>3. PICK j \in DOMAIN List(registered[i]) : List(registered[i])[j] = registered[i]
  BY DEF RouterIInv, InItsBucket
<1> QED
  BY <1>2, <1>3, PlaceOf DEF List

\* Every kind of match in the table is a match among the added routes.
LEMMA PlacesMatchAdded ==
    ASSUME RouterIInv, NEW q \in Request
    PROVE  /\ \A x \in ExactPlaces(q) : \E i \in ExactAdded(q) : registered[i] = At(x)
           /\ \A x \in OwnWildPlaces(q) : \E i \in OwnWildAdded(q) : registered[i] = At(x)
           /\ \A x \in CatchAllPlaces(q) : \E i \in CatchAllAdded(q) : registered[i] = At(x)
BY PlaceAdded DEF ExactPlaces, OwnWildPlaces, CatchAllPlaces, ExactAdded, OwnWildAdded,
                  CatchAllAdded

\* And the other way round.
LEMMA AddedMatchPlaces ==
    ASSUME RouterIInv, NEW q \in Request
    PROVE  /\ ExactAdded(q) # {} => ExactPlaces(q) # {}
           /\ OwnWildAdded(q) # {} => OwnWildPlaces(q) # {}
           /\ CatchAllAdded(q) # {} => CatchAllPlaces(q) # {}
<1>1. ASSUME NEW i \in ExactAdded(q) PROVE ExactPlaces(q) # {}
  <2>1. i \in Added /\ IsExact(registered[i], q)
    BY <1>1 DEF ExactAdded
  <2>2. PICK x \in Place : At(x) = registered[i]
    BY <2>1, AddedPlaced
  <2>3. x[1] = BucketOf(At(x)) /\ IsExact(At(x), q)
    BY <2>1, <2>2, PlaceAdded
  <2>4. x[1] = hash_route[<<q.path, q.method>>]
    BY <2>3 DEF IsExact, BucketOf
  <2> QED
    BY <2>3, <2>4 DEF ExactPlaces
<1>2. ASSUME NEW i \in OwnWildAdded(q) PROVE OwnWildPlaces(q) # {}
  BY <1>2, AddedPlaced DEF OwnWildAdded, OwnWildPlaces
<1>3. ASSUME NEW i \in CatchAllAdded(q) PROVE CatchAllPlaces(q) # {}
  BY <1>3, AddedPlaced DEF CatchAllAdded, CatchAllPlaces
<1> QED
  BY <1>1, <1>2, <1>3

-----------------------------------------------------------------------------
(* The theorems of the router.                                              *)

\* In such a table the search of the bucket ends at the newest exact route.
LEMMA ExactFromTable == RouterIInv => NewestExactRouteServes
<1> SUFFICES ASSUME RouterIInv, NEW q \in Request, NEW i \in ExactAdded(q),
                    \A k \in ExactAdded(q) : k <= i
             PROVE  router_dispatch(q) = registered[i].handler
  BY DEF NewestExactRouteServes
<1> DEFINE b == BucketOf(q)
           P == ExactPlaces(q)
           S == {r \in Route : IsExact(r, q)}
<1>1. PICK j \in DOMAIN route_hash[b] :
          /\ route_hash[b][j] = registered[i]
          /\ \A k \in DOMAIN route_hash[b] : k < j => ~IsExact(route_hash[b][k], q)
  <2>1. i \in Added /\ IsExact(registered[i], q) /\ TypeOK
    BY DEF ExactAdded, RouterIInv
  <2>2. registered[i] \in S /\ S \in SUBSET Route
    BY <2>1 DEF TypeOK, Added
  <2>3. \A k \in Added : registered[k] \in S => k <= i
    BY DEF ExactAdded
  <2>4. List(registered[i]) = route_hash[b] /\ b \in Bucket
    BY <2>1, HashesToBucket DEF List, BucketOf, IsExact, Request
  <2>5. \A k \in DOMAIN route_hash[b] : route_hash[b][k] \in Route
    BY <2>1, <2>4 DEF TypeOK
  <2> HIDE DEF S, b
  <2>6. PICK j \in DOMAIN route_hash[b] :
            /\ route_hash[b][j] = registered[i]
            /\ \A k \in DOMAIN route_hash[b] : k < j => route_hash[b][k] \notin S
    BY <2>1, <2>2, <2>3, <2>4 DEF RouterIInv, NewestFirst
  <2> QED
    BY <2>5, <2>6 DEF S
<1>2. b \in Bucket /\ TypeOK
  BY HashesToBucket DEF RouterIInv, BucketOf, Request
<1>3. <<b, j>> \in P
  <2>1. <<b, j>> \in Place /\ At(<<b, j>>) = registered[i]
    BY <1>1, <1>2, PlaceOf
  <2>2. IsExact(registered[i], q)
    BY DEF ExactAdded
  <2> QED
    BY <2>1, <2>2 DEF ExactPlaces, BucketOf
<1>4. P \subseteq Place
  BY DEF ExactPlaces
<1> HIDE DEF P
<1>5. FirstOf(P) \in P /\ Before(FirstOf(P), <<b, j>>)
  BY <1>2, <1>3, <1>4, FirstExists
<1> DEFINE x == FirstOf(P)
<1>6. x[1] = b /\ IsExact(At(x), q)
  BY <1>5 DEF P, ExactPlaces, BucketOf
<1>7. /\ x[2] \in DOMAIN route_hash[b] /\ x = <<b, x[2]>>
      /\ x[2] \in Nat /\ b \in Nat
  BY <1>4, <1>5, <1>6, <1>2, PlaceParts
<1>8. j \in Nat
  BY <1>2, <1>3, <1>4, PlaceParts
<1>9. x[2] <= j
  BY <1>5, <1>6, <1>7 DEF Before
<1>10. ~(x[2] < j)
  BY <1>1, <1>6, <1>7 DEF At
<1>11. x[2] = j
  BY <1>7, <1>8, <1>9, <1>10
<1>12. At(x) = registered[i]
  BY <1>1, <1>6, <1>11 DEF At
<1> QED
  BY <1>3, <1>12 DEF router_dispatch, P

\* The newest route for a request's path, method and domain serves it, for
\* any hash function and any routes that share its bucket.
THEOREM ExactRouteServes == Spec => []NewestExactRouteServes
  BY ExactFromTable, Invariant, PTL

\* Some numbers of routes that were added have a greatest.
LEMMA NewestExists ==
    ASSUME TypeOK, NEW I, I \subseteq Added, I # {}
    PROVE  \E i \in I : \A k \in I : k <= i
<1> DEFINE n == Len(registered)
           D == {n - i : i \in I}
<1>1. n \in Nat /\ \A i \in I : i \in Nat /\ i <= n
  BY DEF TypeOK, Added
<1>2. D \subseteq Nat /\ D # {}
  BY <1>1
<1> HIDE DEF D
<1>3. PICK d \in D : \A e \in D : d <= e
  BY <1>2, LeastExists
<1>4. PICK i \in I : d = n - i
  BY <1>3 DEF D
<1>5. \A k \in I : n - i <= n - k
  BY <1>3, <1>4 DEF D
<1> QED
  BY <1>1, <1>4, <1>5

\* The search of the whole table for one kind of routes, the places P, ends at
\* the newest one of its path.
LEMMA FirstIsNewest ==
    ASSUME RouterIInv, NEW q \in Request, NEW S \in SUBSET Route, NEW P,
           \A r \in S : r.method = q.method,
           P = {x \in Place : At(x) \in S}, P # {}
    PROVE  \E i \in Newest({k \in Added : registered[k] \in S}) : registered[i] = At(FirstOf(P))
<1> DEFINE x == FirstOf(P)
           r == At(x)
           b == BucketOf(r)
           T == {t \in S : t.path = r.path}
           I == {k \in Added : registered[k] \in S}
           J == {k \in Added : registered[k] \in T}
<1>1. P \subseteq Place /\ TypeOK
  BY DEF RouterIInv
<1>2. x \in P /\ \A y \in P : Before(x, y)
  BY <1>1, FirstExists
<1> HIDE DEF x
<1>3. x \in Place /\ r \in S /\ r \in T
  BY <1>2
<1>4. x[1] = b /\ \E k \in Added : registered[k] = r
  BY <1>3, PlaceAdded
<1>5. /\ x[2] \in DOMAIN route_hash[b] /\ r = route_hash[b][x[2]] /\ b \in Bucket
      /\ b \in Nat /\ x[2] \in Nat
  BY <1>1, <1>3, <1>4, PlaceParts DEF At
<1>6. J # {} /\ J \subseteq Added
  BY <1>3, <1>4
<1> HIDE DEF J
<1>7. PICK i \in J : \A k \in J : k <= i
  BY <1>1, <1>6, NewestExists
<1>8. i \in Added /\ registered[i] \in T /\ \A k \in Added : registered[k] \in T => k <= i
  BY <1>7 DEF J
<1>9. List(registered[i]) = route_hash[b]
  BY <1>3, <1>8 DEF List, BucketOf
<1> HIDE DEF T, b, r
<1>10. T \in SUBSET Route
  BY DEF T
<1>11. PICK j \in DOMAIN route_hash[b] :
           /\ route_hash[b][j] = registered[i]
           /\ \A k \in DOMAIN route_hash[b] : k < j => route_hash[b][k] \notin T
  BY <1>8, <1>9, <1>10 DEF RouterIInv, NewestFirst
<1>12. <<b, j>> \in Place /\ At(<<b, j>>) = registered[i]
  BY <1>5, <1>11, PlaceOf
<1>13. <<b, j>> \in P
  BY <1>8, <1>12 DEF T
<1>14. x[2] <= j
  BY <1>2, <1>4, <1>5, <1>13 DEF Before
<1>15. ~(x[2] < j)
  BY <1>3, <1>5, <1>11
<1>16. j \in Nat
  BY <1>1, <1>12, PlaceParts
<1>17. registered[i] = r
  BY <1>5, <1>11, <1>14, <1>15, <1>16
<1>18. i \in Newest(I)
  <2>1. i \in I
    BY <1>8 DEF T
  <2>2. ASSUME NEW k \in I, registered[k].path = registered[i].path PROVE k <= i
    BY <2>2, <1>8, <1>17 DEF T
  <2> QED
    BY <2>1, <2>2 DEF Newest
<1> QED
  BY <1>17, <1>18 DEF r, x

\* In such a table a wildcard of the domain goes before one of all domains, and
\* the newest of its path serves.
LEMMA WildFromTable == RouterIInv => NewestWildServes
<1> SUFFICES ASSUME RouterIInv, NEW q \in Request, ExactAdded(q) = {}
             PROVE  /\ OwnWildAdded(q) # {} =>
                           router_dispatch(q) \in HandlersOf(Newest(OwnWildAdded(q)))
                    /\ OwnWildAdded(q) = {} /\ CatchAllAdded(q) # {} =>
                           router_dispatch(q) \in HandlersOf(Newest(CatchAllAdded(q)))
  BY DEF NewestWildServes
<1>1. TypeOK /\ ExactPlaces(q) = {} /\ \A x \in Place : At(x) \in Route
  BY PlacesMatchAdded, PlaceParts DEF RouterIInv
<1>2. \A i \in Added : registered[i] \in Route
  BY <1>1 DEF TypeOK, Added
<1>3. CASE OwnWildAdded(q) # {}
  <2> DEFINE S == {r \in Route : IsOwnWild(r, q)}
  <2>1. \A r \in S : r.method = q.method
    BY DEF IsOwnWild, IsWild
  <2>2. OwnWildPlaces(q) # {} /\ OwnWildPlaces(q) = {x \in Place : At(x) \in S}
    BY <1>1, <1>3, AddedMatchPlaces DEF OwnWildPlaces
  <2>3. OwnWildAdded(q) = {k \in Added : registered[k] \in S}
    BY <1>2 DEF OwnWildAdded
  <2> HIDE DEF S
  <2>4. S \in SUBSET Route
    BY DEF S
  <2>5. PICK i \in Newest(OwnWildAdded(q)) : registered[i] = At(FirstOf(OwnWildPlaces(q)))
    BY <2>1, <2>2, <2>3, <2>4, FirstIsNewest
  <2>6. router_dispatch(q) = registered[i].handler
    BY <1>1, <2>2, <2>5 DEF router_dispatch
  <2> QED
    BY <1>3, <2>5, <2>6 DEF HandlersOf
<1>4. CASE OwnWildAdded(q) = {} /\ CatchAllAdded(q) # {}
  <2> DEFINE S == {r \in Route : IsCatchAll(r, q)}
  <2>1. \A r \in S : r.method = q.method
    BY DEF IsCatchAll, IsWild
  <2>2. CatchAllPlaces(q) # {} /\ CatchAllPlaces(q) = {x \in Place : At(x) \in S}
    BY <1>1, <1>4, AddedMatchPlaces DEF CatchAllPlaces
  <2>3. CatchAllAdded(q) = {k \in Added : registered[k] \in S}
    BY <1>2 DEF CatchAllAdded
  <2> HIDE DEF S
  <2>4. S \in SUBSET Route
    BY DEF S
  <2>5. PICK i \in Newest(CatchAllAdded(q)) : registered[i] = At(FirstOf(CatchAllPlaces(q)))
    BY <2>1, <2>2, <2>3, <2>4, FirstIsNewest
  <2>6. OwnWildPlaces(q) = {}
    BY <1>4, PlacesMatchAdded
  <2>7. router_dispatch(q) = registered[i].handler
    BY <1>1, <2>2, <2>5, <2>6 DEF router_dispatch
  <2> QED
    BY <1>4, <2>5, <2>7 DEF HandlersOf
<1> QED
  BY <1>3, <1>4

\* A wildcard of all domains never takes a request from one of its domain, and
\* one that was added again is not reached by its old route.
THEOREM WildcardsInOrder == Spec => []NewestWildServes
  BY WildFromTable, Invariant, PTL

\* In such a table the search ends without a route only if none matches.
LEMMA NotFoundFromTable == RouterIInv => NotFoundOnlyWithoutRoute
<1> SUFFICES ASSUME RouterIInv, NEW q \in Request
             PROVE  router_dispatch(q) = NotFound
                      <=> ExactAdded(q) \cup OwnWildAdded(q) \cup CatchAllAdded(q) = {}
  BY DEF NotFoundOnlyWithoutRoute
<1>1. /\ ExactPlaces(q) = {} <=> ExactAdded(q) = {}
      /\ OwnWildPlaces(q) = {} <=> OwnWildAdded(q) = {}
      /\ CatchAllPlaces(q) = {} <=> CatchAllAdded(q) = {}
  BY PlacesMatchAdded, AddedMatchPlaces
<1>2. \A x \in Place : At(x).handler # NotFound
  BY PlaceParts, HandlerAssumption DEF RouterIInv, Route
<1>3. \A S : S \subseteq Place /\ S # {} => At(FirstOf(S)).handler # NotFound
  BY <1>2, FirstExists DEF RouterIInv
<1>4. /\ ExactPlaces(q) \subseteq Place /\ OwnWildPlaces(q) \subseteq Place
      /\ CatchAllPlaces(q) \subseteq Place
  BY DEF ExactPlaces, OwnWildPlaces, CatchAllPlaces
<1>5. CASE ExactPlaces(q) \cup OwnWildPlaces(q) \cup CatchAllPlaces(q) = {}
  BY <1>1, <1>5 DEF router_dispatch
<1>6. CASE ExactPlaces(q) # {}
  BY <1>1, <1>3, <1>4, <1>6 DEF router_dispatch
<1>7. CASE ExactPlaces(q) = {} /\ OwnWildPlaces(q) # {}
  BY <1>1, <1>3, <1>4, <1>7 DEF router_dispatch
<1>8. CASE ExactPlaces(q) \cup OwnWildPlaces(q) = {} /\ CatchAllPlaces(q) # {}
  BY <1>1, <1>3, <1>4, <1>8 DEF router_dispatch
<1> QED
  BY <1>5, <1>6, <1>7, <1>8

\* A request is answered with 404 exactly when no added route matches it.
THEOREM NotFoundIsHonest == Spec => []NotFoundOnlyWithoutRoute
  BY NotFoundFromTable, Invariant, PTL

\* router_dispatch prefers the newest exact route, then the newest wildcards of
\* the domain, then those of all domains; the hash function chooses only
\* between wildcards of different paths.
THEOREM PreferenceKept == Spec => []PreferredRouteServes
<1>1. NewestExactRouteServes /\ NewestWildServes /\ NotFoundOnlyWithoutRoute
        => PreferredRouteServes
  BY DEF PreferredRouteServes
<1> QED
  BY <1>1, ExactRouteServes, WildcardsInOrder, NotFoundIsHonest, PTL

-----------------------------------------------------------------------------
(* The routes of the site.                                                  *)

\* No other endpoint of a host has the path and domain of endpoint i.
Alone(i) == \A j \in 1..36 :
    Endpoints[j].path = Endpoints[i].path /\ Endpoints[j].domain = Endpoints[i].domain => j = i

\* No endpoint is there twice.
LEMMA EndpointsApart == \A i \in 1..36 : Alone(i)
<1> USE DEF Endpoints, On, Page, Api, main, dev, prsm, cdn, Alone
<1>1. \A i \in 1..6 : Alone(i)
  BY SMTT(60)
<1>2. \A i \in 7..12 : Alone(i)
  BY SMTT(60)
<1>3. \A i \in 13..18 : Alone(i)
  BY SMTT(60)
<1>4. \A i \in 19..24 : Alone(i)
  BY SMTT(60)
<1>5. \A i \in 25..28 : Alone(i)
  BY SMTT(60)
<1>6. \A i \in 29..36 : Alone(i)
  BY SMTT(60)
<1>7. \A i \in 1..36 : \/ i \in 1..6 \/ i \in 7..12 \/ i \in 13..18 \/ i \in 19..24
                          \/ i \in 25..28 \/ i \in 29..36
  OBVIOUS
<1> HIDE DEF Alone
<1> QED
  BY <1>1, <1>2, <1>3, <1>4, <1>5, <1>6, <1>7, Zenon

\* All but the last name a host, and the last is the static handler's.
LEMMA EndpointsNamed ==
    /\ DOMAIN Endpoints = 1..37 /\ Len(Endpoints) = 37
    /\ \A i \in 1..36 : Endpoints[i].domain \in SiteDomain
    /\ Endpoints[37].path = "/*" /\ Endpoints[37].method = "GET"
    /\ Endpoints[37].domain = NoHost /\ Endpoints[37].handler = "static_handler"
<1> USE DEF Endpoints, On, Page, Api
<1>1. DOMAIN Endpoints = 1..37 /\ Len(Endpoints) = 37
  OBVIOUS
<1>2. \A i \in 1..36 : Endpoints[i].domain \in SiteDomain
  BY DEF SiteDomain
<1>3. Endpoints[37] = On(NoHost, "GET", "/*", "static_handler")
  OBVIOUS
<1> HIDE DEF Endpoints
<1> QED
  BY <1>1, <1>2, <1>3

\* Every endpoint is a route that can be added.
LEMMA EndpointIsRoute ==
    ASSUME SiteConstants, NEW i \in 1..37
    PROVE  Endpoints[i] \in Route
<1>1. Endpoints \in Seq(Route) /\ i \in 1..Len(Endpoints)
  BY EndpointsNamed DEF SiteConstants
<1> QED
  BY <1>1, ElementOfSeq

\* A host belongs to one of the site's names only.
LEMMA OneDomain ==
    ASSUME SiteConstants, NEW d \in SiteDomain, NEW e \in SiteDomain, NEW h \in Host \cup {NoHost},
           domain_matches(d, h), domain_matches(e, h)
    PROVE  d = e
<1>1. d # NoHost /\ e # NoHost
  BY NoHostAssumption DEF SiteConstants
<1>2. h \in Host
  BY <1>1 DEF domain_matches
<1>3. h = d \/ <<h, d>> \in Www
  BY <1>1, <1>2 DEF domain_matches, SiteConstants
<1>4. h = e \/ <<h, e>> \in Www
  BY <1>1, <1>2 DEF domain_matches, SiteConstants
<1> QED
  BY <1>2, <1>3, <1>4 DEF SiteConstants

\* The routes of the site so far are in the table.
SiteInv ==
    /\ RouterIInv
    /\ Len(registered) <= 37
    /\ \A i \in 1..Len(registered) : registered[i] = Endpoints[i]

\* That holds in every state the start-up passes through.
LEMMA SiteInvariant == ASSUME SiteConstants PROVE SiteSpec => []SiteInv
<1>1. Init => SiteInv
  <2> SUFFICES ASSUME Init PROVE SiteInv
    OBVIOUS
  <2>1. RouterIInv /\ registered = <<>>
    BY InitInv DEF Init
  <2> QED
    BY <2>1 DEF SiteInv
<1>2. SiteInv /\ [register_all_endpoints]_vars => SiteInv'
  <2> SUFFICES ASSUME SiteInv, [register_all_endpoints]_vars PROVE SiteInv'
    OBVIOUS
  <2>1. CASE register_all_endpoints
    <3> DEFINE n == Len(registered)
               r == Endpoints[n + 1]
    <3>1. registered \in Seq(Route) /\ n \in Nat /\ n < 37
      BY <2>1, EndpointsNamed DEF register_all_endpoints, SiteInv, RouterIInv, TypeOK
    <3>2. r \in Route
      <4>1. \A m \in Nat : m < 37 => m + 1 \in 1..37
        OBVIOUS
      <4> QED
        BY <3>1, <4>1, EndpointIsRoute, Zenon
    <3>3. add_route(r)
      BY <2>1 DEF register_all_endpoints
    <3>4. RouterIInv'
      BY <3>2, <3>3, AddRouteInv DEF SiteInv
    <3>5. registered' = Append(registered, r)
      BY <3>3 DEF add_route
    <3>6. Len(registered') = n + 1 /\ \A i \in 1..(n + 1) : registered'[i] = Endpoints[i]
      BY <3>1, <3>2, <3>5 DEF SiteInv
    <3> QED
      BY <3>1, <3>4, <3>6 DEF SiteInv
  <2>2. CASE UNCHANGED vars
    <3>1. RouterIInv'
      BY <2>2, NextInv DEF SiteInv
    <3> QED
      BY <2>2, <3>1 DEF SiteInv, vars
  <2> QED
    BY <2>1, <2>2
<1> QED
  BY <1>1, <1>2, PTL DEF SiteSpec

\* The dispatch answers with an added route's handler, or none.
LEMMA DispatchFromAdded ==
    ASSUME RouterIInv, NEW q \in Request
    PROVE  \/ router_dispatch(q) = NotFound
           \/ \E i \in ExactAdded(q) \cup OwnWildAdded(q) \cup CatchAllAdded(q) :
                  router_dispatch(q) = registered[i].handler
<1>1. \A S : S \subseteq Place /\ S # {} => FirstOf(S) \in S
  BY FirstExists DEF RouterIInv
<1>2. /\ ExactPlaces(q) \subseteq Place /\ OwnWildPlaces(q) \subseteq Place
      /\ CatchAllPlaces(q) \subseteq Place
  BY DEF ExactPlaces, OwnWildPlaces, CatchAllPlaces
<1>3. CASE ExactPlaces(q) # {}
  BY <1>1, <1>2, <1>3, PlacesMatchAdded DEF router_dispatch
<1>4. CASE ExactPlaces(q) = {} /\ OwnWildPlaces(q) # {}
  BY <1>1, <1>2, <1>4, PlacesMatchAdded DEF router_dispatch
<1>5. CASE ExactPlaces(q) \cup OwnWildPlaces(q) = {} /\ CatchAllPlaces(q) # {}
  BY <1>1, <1>2, <1>5, PlacesMatchAdded DEF router_dispatch
<1>6. CASE ExactPlaces(q) \cup OwnWildPlaces(q) \cup CatchAllPlaces(q) = {}
  BY <1>6 DEF router_dispatch
<1> QED
  BY <1>3, <1>4, <1>5, <1>6

\* Once all are added, the routes are the endpoints.
LEMMA AllAdded ==
    ASSUME SiteInv, Serving
    PROVE  Added = 1..37 /\ \A i \in 1..37 : registered[i] = Endpoints[i]
  BY EndpointsNamed DEF SiteInv, RouterIInv, TypeOK, Serving, Added

\* An endpoint's own requests reach it.
LEMMA OwnReached ==
    ASSUME SiteConstants, SiteInv, Serving, NewestExactRouteServes,
           NEW q \in Request, NEW i \in OwnEndpoints(q),
           Endpoints[i].path = q.path, Endpoints[i].method = q.method, q.path # "/*"
    PROVE  router_dispatch(q) = Endpoints[i].handler
<1>1. /\ i \in 1..37 /\ i # 37 /\ i \in 1..36 /\ Endpoints[i].domain \in SiteDomain
      /\ domain_matches(Endpoints[i].domain, q.host)
  BY EndpointsNamed DEF OwnEndpoints
<1>2. i \in ExactAdded(q)
  BY <1>1, AllAdded DEF ExactAdded, IsExact
<1>3. \A j \in ExactAdded(q) : j = i
  <2> SUFFICES ASSUME NEW j \in ExactAdded(q) PROVE j = i
    OBVIOUS
  <2>1. /\ j \in 1..37 /\ Endpoints[j].path = q.path
        /\ domain_matches(Endpoints[j].domain, q.host)
    BY AllAdded DEF ExactAdded, IsExact
  <2>2. j \in 1..36 /\ Endpoints[j].domain \in SiteDomain
    BY <2>1, EndpointsNamed
  <2>3. Endpoints[i] \in Route /\ Endpoints[j] \in Route
    BY <1>1, <2>1, EndpointIsRoute
  <2>4. SiteDomain \subseteq Host
    BY DEF SiteConstants
  <2>5. Endpoints[j].domain = Endpoints[i].domain
    BY <1>1, <2>1, <2>2, <2>4, OneDomain DEF Request
  <2> QED
    BY <1>1, <2>1, <2>2, <2>5, EndpointsApart DEF Alone
<1>4. i \in Nat
  BY <1>1
<1>5. router_dispatch(q) = registered[i].handler
  BY <1>2, <1>3, <1>4 DEF NewestExactRouteServes
<1> QED
  BY <1>1, <1>5, AllAdded

\* What no endpoint of the host answers is a static file's or 404.
LEMMA OnlyOwnAnswer ==
    ASSUME SiteConstants, SiteInv, Serving, NotFoundOnlyWithoutRoute, NEW q \in Request
    PROVE  router_dispatch(q) \in {Endpoints[i].handler : i \in OwnEndpoints(q)}
                                  \cup {IF q.method = "GET" THEN "static_handler" ELSE NotFound}
<1>1. CASE router_dispatch(q) = NotFound
  <2>1. q.method # "GET"
    <3> SUFFICES ASSUME q.method = "GET" PROVE FALSE
      OBVIOUS
    <3>1. <<"/*", q.path>> \in Covers
      <4>1. q.path \in Path
        BY DEF Request
      <4> QED
        BY <4>1, Zenon DEF SiteConstants
    <3>2. 37 \in Added /\ registered[37] = Endpoints[37]
      BY AllAdded
    <3>3. IsCatchAll(registered[37], q)
      BY <3>1, <3>2, EndpointsNamed DEF IsCatchAll, IsWild
    <3>4. 37 \in CatchAllAdded(q)
      BY <3>2, <3>3 DEF CatchAllAdded
    <3> QED
      BY <1>1, <3>4 DEF NotFoundOnlyWithoutRoute
  <2> QED
    BY <1>1, <2>1
<1>2. ASSUME NEW i \in ExactAdded(q) \cup OwnWildAdded(q) \cup CatchAllAdded(q),
             router_dispatch(q) = registered[i].handler
      PROVE  router_dispatch(q) \in {Endpoints[j].handler : j \in OwnEndpoints(q)}
                                    \cup {IF q.method = "GET" THEN "static_handler" ELSE NotFound}
  <2>1. i \in 1..37 /\ registered[i] = Endpoints[i] /\ Endpoints[i].method = q.method
    BY AllAdded DEF ExactAdded, OwnWildAdded, CatchAllAdded, IsExact, IsOwnWild, IsCatchAll, IsWild
  <2>2. CASE i = 37
    BY <1>2, <2>1, <2>2, EndpointsNamed
  <2>3. CASE i \in 1..36
    <3>1. Endpoints[i].domain # NoHost
      BY <2>3, EndpointsNamed, NoHostAssumption DEF SiteConstants
    <3>2. domain_matches(Endpoints[i].domain, q.host)
      BY <2>1, <3>1 DEF ExactAdded, OwnWildAdded, CatchAllAdded, IsExact, IsOwnWild, IsCatchAll
    <3> QED
      BY <1>2, <2>1, <3>1, <3>2, EndpointsNamed DEF OwnEndpoints
  <2> QED
    BY <2>1, <2>2, <2>3
<1> QED
  BY <1>1, <1>2, DispatchFromAdded DEF SiteInv

\* Once register_all_endpoints is through, every endpoint answers the requests
\* of its own path and domain and no others, for any table size, any hash
\* function, and any paths and hosts requested.
THEOREM SiteRouted == ASSUME SiteConstants PROVE SiteSpec => []SiteRouting
<1>1. SiteInv => SiteRouting
  <2> SUFFICES ASSUME SiteInv, Serving, NEW q \in Request
               PROVE  /\ \A i \in OwnEndpoints(q) :
                             Endpoints[i].path = q.path /\ Endpoints[i].method = q.method /\ q.path # "/*"
                                 => router_dispatch(q) = Endpoints[i].handler
                      /\ router_dispatch(q) \in {Endpoints[i].handler : i \in OwnEndpoints(q)}
                                 \cup {IF q.method = "GET" THEN "static_handler" ELSE NotFound}
    BY DEF SiteRouting
  <2>1. NewestExactRouteServes /\ NotFoundOnlyWithoutRoute
    BY ExactFromTable, NotFoundFromTable DEF SiteInv
  <2> QED
    BY <2>1, OwnReached, OnlyOwnAnswer
<1> QED
  BY <1>1, SiteInvariant, PTL

-----------------------------------------------------------------------------
(* The limiter.                                                             *)

\* Kinds are two different strings; the proofs need no more of them.
LEMMA Kinds == "general" \in Kind /\ "login" \in Kind
BY DEF Kind

\* First picks the least element.
LEMMA FirstIsLeast ==
    ASSUME NEW S, S \subseteq Nat, S # {}
    PROVE  First(S) \in S
BY LeastExists DEF First

\* In a full table there is an oldest slot.
LEMMA OldestExists == RateTypeOK => Oldest # {}
<1> SUFFICES ASSUME RateTypeOK PROVE Oldest # {}
  OBVIOUS
<1> DEFINE w(i) == rl_table[i].window["general"]
           W == {w(i) : i \in Slot}
<1>1. \A i \in Slot : w(i) \in Nat
  BY Kinds DEF RateTypeOK, Entry
<1>2. 1 \in Slot
  BY SlotAssumption DEF Slot
<1>3. W \subseteq Nat /\ W # {}
  BY <1>1, <1>2
<1> HIDE DEF W
<1>4. PICK m \in W : \A n \in W : m <= n
  BY <1>3, LeastExists
<1>5. PICK i \in Slot : w(i) = m
  BY <1>4 DEF W
<1>6. \A j \in Slot : w(j) \in W
  BY DEF W
<1>7. i \in Oldest
  BY <1>4, <1>5, <1>6 DEF Oldest
<1> QED
  BY <1>7

\* Every check has a slot to work on: the address's own if it has one,
\* otherwise one that is free or another's.
LEMMA SlotForAddress ==
    ASSUME RateTypeOK, NEW a \in IP
    PROVE  /\ SlotFor(a) \in Slot
           /\ Holding(a) # {} => SlotFor(a) \in Holding(a)
<1>1. Slot \subseteq Nat
  BY SlotAssumption DEF Slot
<1>2. Oldest \subseteq Nat /\ Oldest # {}
  BY <1>1, OldestExists DEF Oldest
<1>3. \A b : Holding(b) \subseteq Nat
  BY <1>1 DEF Holding
<1>4. CASE Holding(a) # {}
  <2>1. SlotFor(a) = First(Holding(a))
    BY <1>4 DEF SlotFor
  <2>2. First(Holding(a)) \in Holding(a)
    BY <1>3, <1>4, FirstIsLeast
  <2> QED
    BY <2>1, <2>2 DEF Holding
<1>5. CASE Holding(a) = {} /\ Holding(NoIP) # {}
  <2>1. SlotFor(a) = First(Holding(NoIP))
    BY <1>5 DEF SlotFor
  <2>2. First(Holding(NoIP)) \in Holding(NoIP)
    BY <1>3, <1>5, FirstIsLeast
  <2> QED
    BY <1>5, <2>1, <2>2 DEF Holding
<1>6. CASE Holding(a) = {} /\ Holding(NoIP) = {}
  <2>1. SlotFor(a) = First(Oldest)
    BY <1>6 DEF SlotFor
  <2>2. First(Oldest) \in Oldest
    BY <1>2, FirstIsLeast
  <2> QED
    BY <1>6, <2>1, <2>2 DEF Oldest
<1> QED
  BY <1>4, <1>5, <1>6

-----------------------------------------------------------------------------
\* Counting a request keeps an entry an entry, of the same address.
LEMMA CountedEntry ==
    ASSUME now \in Nat, NEW e \in Entry, NEW k \in Kind
    PROVE  Counted(e, k) \in Entry /\ Counted(e, k).ip = e.ip
<1>1. e.count \in [Kind -> Nat] /\ e.window \in [Kind -> Nat]
  BY DEF Entry
<1>2. [e.count EXCEPT ![k] = 1] \in [Kind -> Nat] /\ [e.count EXCEPT ![k] = @ + 1] \in [Kind -> Nat]
  BY <1>1
<1>3. [e.window EXCEPT ![k] = now] \in [Kind -> Nat]
  BY <1>1
<1> QED
  BY <1>1, <1>2, <1>3 DEF Counted, Entry

\* So is the entry of an address, whether kept or overwritten.
LEMMA EntryForAddress ==
    ASSUME RateTypeOK, NEW a \in IP, NEW i \in Slot
    PROVE  EntryFor(a, i) \in Entry /\ EntryFor(a, i).ip = a
<1>1. now \in Nat
  BY RateBoundAssumption DEF RateTypeOK, Time
<1>2. [ip |-> a, count |-> Zero, window |-> [k \in Kind |-> now]] \in Entry
  BY <1>1 DEF Entry, Zero
<1> QED
  BY <1>2 DEF EntryFor, RateTypeOK

\* A check keeps the table's type, and writes one entry of the address.
LEMMA CheckWrites ==
    ASSUME RateTypeOK, NEW a \in IP, NEW k \in Kind, ratelimit_check(a, k)
    PROVE  \E e \in Entry : e.ip = a /\ rl_table' = [rl_table EXCEPT ![SlotFor(a)] = e]
<1> DEFINE e == Counted(EntryFor(a, SlotFor(a)), k)
<1>1. SlotFor(a) \in Slot
  BY SlotForAddress
<1>2. now \in Nat
  BY RateBoundAssumption DEF RateTypeOK, Time
<1>3. e \in Entry /\ e.ip = a
  BY <1>1, <1>2, EntryForAddress, CountedEntry
<1>4. rl_table' = [rl_table EXCEPT ![SlotFor(a)] = e]
  BY DEF ratelimit_check
<1> QED
  BY <1>3, <1>4

\* Running totals with more requests are running totals.
LEMMA TotalType ==
    ASSUME RateTypeOK, NEW g \in [Kind -> [Time -> Nat]], NEW k \in Kind, NEW n \in {0, 1}
    PROVE  Total(g, k, n) \in [Kind -> [Time -> Nat]]
<1>1. \A c \in Kind, t \in Time : g[c][t] + (IF c = k /\ t >= now THEN n ELSE 0) \in Nat
  OBVIOUS
<1> QED
  BY <1>1 DEF Total

\* The totals before a check of Watched, and how many requests it lets through.
TotalsBefore(i) == IF rl_table[i].ip = Watched THEN granted ELSE NoGrants
LetThrough(e, k) == IF e.count[k] <= Quota[k] THEN 1 ELSE 0

\* A check of Watched adds to the totals what it lets through.
LEMMA CheckGrants ==
    ASSUME NEW k \in Kind, ratelimit_check(Watched, k)
    PROVE  granted' = Total(TotalsBefore(SlotFor(Watched)), k,
                            LetThrough(Counted(EntryFor(Watched, SlotFor(Watched)), k), k))
  BY DEF ratelimit_check, TotalsBefore, LetThrough

\* The totals start at zero.
LEMMA BeforeType ==
    ASSUME RateTypeOK, NEW i \in Slot
    PROVE  TotalsBefore(i) \in [Kind -> [Time -> Nat]]
  BY DEF TotalsBefore, NoGrants, RateTypeOK

\* The history keeps its type.
LEMMA GrantedType ==
    ASSUME RateTypeOK, NEW a \in IP, NEW k \in Kind, ratelimit_check(a, k)
    PROVE  granted' \in [Kind -> [Time -> Nat]]
<1>1. CASE a # Watched
  BY <1>1 DEF ratelimit_check, RateTypeOK
<1>2. CASE a = Watched
  <2> DEFINE n == LetThrough(Counted(EntryFor(Watched, SlotFor(Watched)), k), k)
             b == TotalsBefore(SlotFor(Watched))
  <2>1. granted' = Total(b, k, n)
    BY <1>2, CheckGrants
  <2>2. b \in [Kind -> [Time -> Nat]]
    BY <1>2, SlotForAddress, BeforeType
  <2>3. n \in {0, 1}
    BY DEF LetThrough
  <2> HIDE DEF n, b
  <2> QED
    BY <2>1, <2>2, <2>3, TotalType
<1> QED
  BY <1>1, <1>2

-----------------------------------------------------------------------------
RateIInv == RateTypeOK /\ OneSlotPerIP

\* The cleared table is well typed and lists nobody.
LEMMA RateInitInv == RateInit => RateIInv
<1> SUFFICES ASSUME RateInit PROVE RateIInv
  OBVIOUS
<1>1. Zero \in [Kind -> Nat] /\ NoGrants \in [Kind -> [Time -> Nat]]
  BY DEF Zero, NoGrants
<1>2. RateTypeOK
  BY <1>1, RateBoundAssumption DEF RateInit, RateTypeOK, Time, Entry
<1>3. \A a \in IP : Holding(a) = {}
  BY IPAssumption DEF RateInit, Holding
<1> QED
  BY <1>2, <1>3 DEF RateIInv, OneSlotPerIP

\* An address gets a new slot only when it has none.
LEMMA RateNextInv == RateIInv /\ [RateNext]_rateVars => RateIInv'
<1> SUFFICES ASSUME RateIInv, [RateNext]_rateVars PROVE RateIInv'
  OBVIOUS
<1> USE DEF RateIInv
<1>1. CASE ClockTicks
  <2>1. RateTypeOK'
    BY <1>1, RateBoundAssumption DEF ClockTicks, RateTypeOK, Time
  <2> QED
    BY <1>1, <2>1 DEF ClockTicks, OneSlotPerIP, Holding
<1>2. ASSUME NEW a \in IP, NEW k \in Kind, ratelimit_check(a, k) PROVE RateIInv'
  <2>1. PICK e \in Entry : e.ip = a /\ rl_table' = [rl_table EXCEPT ![SlotFor(a)] = e]
    BY <1>2, CheckWrites
  <2>2. SlotFor(a) \in Slot /\ (Holding(a) # {} => SlotFor(a) \in Holding(a))
    BY SlotForAddress
  <2>3. RateTypeOK'
    <3>1. rl_table' \in [Slot -> Entry]
      BY <2>1 DEF RateTypeOK
    <3>2. now' = now
      BY <1>2 DEF ratelimit_check
    <3> QED
      BY <1>2, <3>1, <3>2, GrantedType DEF RateTypeOK
  <2>4. \A i \in Holding(a)' : i = SlotFor(a)
    BY <2>1, <2>2 DEF Holding, OneSlotPerIP, RateTypeOK
  <2>5. \A b \in IP \ {a} : Holding(b)' \subseteq Holding(b)
    BY <2>1, <2>2 DEF Holding, RateTypeOK
  <2>6. OneSlotPerIP'
    BY <2>4, <2>5 DEF OneSlotPerIP
  <2> QED
    BY <2>3, <2>6
<1>3. CASE UNCHANGED rateVars
  BY <1>3 DEF rateVars, RateTypeOK, OneSlotPerIP, Holding
<1> QED
  BY <1>1, <1>2, <1>3 DEF RateNext

\* The invariant holds in every reachable state.
LEMMA RateInvariant == RateSpec => []RateIInv
<1>1. RateInit => RateIInv
  BY RateInitInv
<1>2. RateIInv /\ [RateNext]_rateVars => RateIInv'
  BY RateNextInv
<1> QED
  BY <1>1, <1>2, PTL DEF RateSpec

\* ratelimit_check keeps the table well typed whatever its size.
THEOREM RateTypeCorrect == RateSpec => []RateTypeOK
<1>1. RateIInv => RateTypeOK
  BY DEF RateIInv
<1> QED
  BY <1>1, RateInvariant, PTL

\* ratelimit_check never gives an address a second slot.
THEOREM NoSecondSlot == RateSpec => []OneSlotPerIP
<1>1. RateIInv => OneSlotPerIP
  BY DEF RateIInv
<1> QED
  BY <1>1, RateInvariant, PTL

-----------------------------------------------------------------------------
(* What the history of an address says of its counters.                     *)

\* The total g at second t, nothing having been let through before the first.
Level(g, t) == IF t < 0 THEN 0 ELSE g[t]

\* What the totals g of an address say of its counter: c requests counted in
\* the window opened at w, at second n, with a quota of q.
Tally(g, c, w, n, q) ==
    /\ w <= n
    /\ \A t, u \in Time : t <= u => g[t] <= g[u]
    /\ \A t \in Time : n <= t => g[t] = g[n]
    /\ g[n] - Level(g, w - 1) = (IF c <= q THEN c ELSE q)
    /\ Level(g, w - 1) - Level(g, w - Window) <= q
    /\ \A t \in Time : t < w => g[t] - Level(g, t - Window) <= 2 * q
    /\ w + Window <= n => g[w + Window - 1] = g[n]

\* One more request of the kind at second n.
More(g, n, d) == [t \in Time |-> g[t] + (IF t >= n THEN d ELSE 0)]

LEMMA TallyLevels ==
    ASSUME NEW g \in [Time -> Nat], NEW c \in Nat, NEW w \in Nat, NEW n \in Time, NEW q \in Nat,
           Tally(g, c, w, n, q)
    PROVE  \A t, u \in Int : t <= u /\ u <= MaxTime =>
               Level(g, t) \in Nat /\ Level(g, u) \in Nat /\ Level(g, t) <= Level(g, u)
  BY RateBoundAssumption DEF Tally, Level, Time

\* Time passes.
LEMMA TallyTick ==
    ASSUME NEW g \in [Time -> Nat], NEW c \in Nat, NEW w \in Nat, NEW n \in Time, NEW q \in Nat,
           n + 1 \in Time, Tally(g, c, w, n, q)
    PROVE  Tally(g, c, w, n + 1, q)
<1>1. g[n + 1] = g[n]
  BY RateBoundAssumption DEF Tally, Time
<1>2. n + 1 >= w + Window => g[w + Window - 1] = g[n + 1]
  <2>1. CASE n >= w + Window
    BY <1>1, <2>1 DEF Tally
  <2>2. CASE n + 1 = w + Window
    BY <1>1, <2>2, WindowAssumption, RateBoundAssumption DEF Time
  <2> QED
    BY <2>1, <2>2, WindowAssumption, RateBoundAssumption DEF Time
<1>3. \A t \in Time : n + 1 <= t => g[t] = g[n + 1]
  BY <1>1, RateBoundAssumption DEF Tally, Time
<1> QED
  BY <1>1, <1>2, <1>3, WindowAssumption, RateBoundAssumption DEF Tally, Time

\* A slot just taken.
LEMMA TallyNone ==
    ASSUME NEW n \in Time, NEW q \in Nat
    PROVE  Tally([t \in Time |-> 0], 0, n, n, q)
<1>1. \A t \in Int : t <= MaxTime => Level([u \in Time |-> 0], t) = 0
  BY RateBoundAssumption DEF Level, Time
<1>2. \A t \in Time : t - Window \in Int /\ t - Window <= MaxTime /\ t \in Int /\ t \in Nat
  BY WindowAssumption, RateBoundAssumption DEF Time
<1>3. n - 1 \in Int /\ n - 1 <= MaxTime
  BY RateBoundAssumption DEF Time
<1> QED
  BY <1>1, <1>2, <1>3, WindowAssumption DEF Tally

\* A request in the current window.
LEMMA TallyMore ==
    ASSUME NEW g \in [Time -> Nat], NEW c \in Nat, NEW w \in Nat, NEW n \in Time, NEW q \in Nat,
           n < w + Window, Tally(g, c, w, n, q), NEW d \in {0, 1},
           d = IF c + 1 <= q THEN 1 ELSE 0
    PROVE  Tally(More(g, n, d), c + 1, w, n, q)
<1> DEFINE h == More(g, n, d)
<1>1. h \in [Time -> Nat] /\ \A t \in Time : h[t] = g[t] + (IF t >= n THEN d ELSE 0)
  BY RateBoundAssumption DEF More, Time
<1>2. \A t \in Int : t < n => Level(h, t) = Level(g, t)
  BY <1>1, RateBoundAssumption DEF Level, Time
<1> HIDE DEF h
<1>3. \A t, u \in Time : t <= u => h[t] <= h[u]
  <2> SUFFICES ASSUME NEW t \in Time, NEW u \in Time, t <= u PROVE h[t] <= h[u]
    OBVIOUS
  <2>1. t \in Nat /\ u \in Nat /\ n \in Nat
    BY RateBoundAssumption DEF Time
  <2>2. g[t] <= g[u] /\ g[t] \in Nat /\ g[u] \in Nat
    BY DEF Tally
  <2>3. h[t] = g[t] + (IF t >= n THEN d ELSE 0) /\ h[u] = g[u] + (IF u >= n THEN d ELSE 0)
    BY <1>1
  <2> QED
    BY <2>1, <2>2, <2>3
<1>4. \A t \in Time : n <= t => h[t] = h[n]
  BY <1>1, RateBoundAssumption DEF Tally, Time
<1>5. w <= n /\ n \in Nat
  BY RateBoundAssumption DEF Tally, Time
<1>6. h[n] - Level(h, w - 1) = (IF c + 1 <= q THEN c + 1 ELSE q)
  <2>1. Level(h, w - 1) = Level(g, w - 1)
    BY <1>2, <1>5
  <2>2. h[n] = g[n] + d
    BY <1>1, <1>5
  <2>3. g[n] - Level(g, w - 1) = (IF c <= q THEN c ELSE q)
    BY DEF Tally
  <2>4. Level(g, w - 1) \in Nat
    BY <1>5, RateBoundAssumption DEF Level, Time
  <2> QED
    BY <2>1, <2>2, <2>3, <2>4
<1>7. Level(h, w - 1) - Level(h, w - Window) <= q
  BY <1>2, <1>5, WindowAssumption DEF Tally
<1>8. \A t \in Time : t < w => h[t] - Level(h, t - Window) <= 2 * q
  <2> SUFFICES ASSUME NEW t \in Time, t < w PROVE h[t] - Level(h, t - Window) <= 2 * q
    OBVIOUS
  <2>1. t \in Nat /\ t < n /\ t - Window < n
    BY <1>5, WindowAssumption, RateBoundAssumption DEF Time
  <2>2. h[t] = g[t] /\ Level(h, t - Window) = Level(g, t - Window)
    BY <1>1, <1>2, <2>1, WindowAssumption
  <2> QED
    BY <2>2 DEF Tally
<1>9. ~(w + Window <= n)
  BY <1>5, WindowAssumption
<1>10. Tally(h, c + 1, w, n, q)
  BY <1>3, <1>4, <1>5, <1>6, <1>7, <1>8, <1>9 DEF Tally
<1> QED
  BY <1>10 DEF h

\* A request that opens a new window.
LEMMA TallyNew ==
    ASSUME NEW g \in [Time -> Nat], NEW c \in Nat, NEW w \in Nat, NEW n \in Time,
           NEW q \in Nat \ {0}, n >= w + Window, Tally(g, c, w, n, q)
    PROVE  Tally(More(g, n, 1), 1, n, n, q)
<1> DEFINE h == More(g, n, 1)
<1>1. h \in [Time -> Nat] /\ \A t \in Time : h[t] = g[t] + (IF t >= n THEN 1 ELSE 0)
  BY RateBoundAssumption DEF More, Time
<1>2. \A t \in Int : t < n => Level(h, t) = Level(g, t)
  BY <1>1, RateBoundAssumption DEF Level, Time
<1>3. \A t, u \in Int : t <= u /\ u <= MaxTime =>
          Level(g, t) \in Nat /\ Level(g, u) \in Nat /\ Level(g, t) <= Level(g, u)
  BY TallyLevels
<1> HIDE DEF h
<1>4. \A t, u \in Time : t <= u => h[t] <= h[u]
  <2> SUFFICES ASSUME NEW t \in Time, NEW u \in Time, t <= u PROVE h[t] <= h[u]
    OBVIOUS
  <2>1. t \in Nat /\ u \in Nat /\ n \in Nat
    BY RateBoundAssumption DEF Time
  <2>2. g[t] <= g[u] /\ g[t] \in Nat /\ g[u] \in Nat
    BY DEF Tally
  <2>3. h[t] = g[t] + (IF t >= n THEN 1 ELSE 0) /\ h[u] = g[u] + (IF u >= n THEN 1 ELSE 0)
    BY <1>1
  <2> QED
    BY <2>1, <2>2, <2>3
<1>5. \A t \in Time : n <= t => h[t] = h[n]
  BY <1>1, RateBoundAssumption DEF Tally, Time
<1>6. /\ w <= n /\ n \in Nat /\ n <= MaxTime /\ MaxTime \in Nat
      /\ w + Window - 1 \in Time /\ Window \in Nat /\ Window > 0
  BY WindowAssumption, RateBoundAssumption DEF Tally, Time
<1>7. Level(g, n) = g[n] /\ Level(g, w + Window - 1) = g[w + Window - 1]
  BY <1>6 DEF Level
<1>8. Level(g, n - 1) = Level(g, n)
  <2>1. Level(g, w + Window - 1) = Level(g, n)
    BY <1>7 DEF Tally
  <2>2. Level(g, w + Window - 1) <= Level(g, n - 1) /\ Level(g, n - 1) <= Level(g, n)
    BY <1>3, <1>6
  <2>3. Level(g, n - 1) \in Nat /\ Level(g, n) \in Nat
    BY <1>3, <1>6
  <2> QED
    BY <2>1, <2>2, <2>3
<1>9. h[n] - Level(h, n - 1) = (IF 1 <= q THEN 1 ELSE q)
  <2>1. Level(h, n - 1) = Level(g, n - 1)
    BY <1>2, <1>6
  <2>2. h[n] = g[n] + 1
    BY <1>1, <1>6
  <2>3. Level(g, n) \in Nat
    BY <1>3, <1>6
  <2> QED
    BY <1>7, <1>8, <2>1, <2>2, <2>3
<1>10. Level(g, n) - Level(g, w - 1) <= q /\ Level(g, w - 1) - Level(g, w - Window) <= q
  BY <1>7 DEF Tally
<1>11. Level(h, n - 1) - Level(h, n - Window) <= q
  <2>1. Level(h, n - 1) = Level(g, n - 1) /\ Level(h, n - Window) = Level(g, n - Window)
    BY <1>2, <1>6
  <2>2. Level(g, w - 1) <= Level(g, n - Window)
    BY <1>3, <1>6
  <2>3. Level(g, w - 1) \in Nat /\ Level(g, n) \in Nat /\ Level(g, n - Window) \in Nat
    BY <1>3, <1>6
  <2> QED
    BY <1>8, <1>10, <2>1, <2>2, <2>3
<1>12. \A t \in Time : t < n => h[t] - Level(h, t - Window) <= 2 * q
  <2> SUFFICES ASSUME NEW t \in Time, t < n PROVE h[t] - Level(h, t - Window) <= 2 * q
    OBVIOUS
  <2>1. t \in Nat /\ t <= MaxTime /\ t - Window < n /\ t - Window \in Int
    BY <1>6 DEF Time
  <2>2. h[t] = g[t] /\ Level(h, t - Window) = Level(g, t - Window)
    BY <1>1, <1>2, <2>1
  <2>3. CASE t < w
    BY <2>2, <2>3 DEF Tally
  <2>4. CASE t >= w
    <3>1. Level(g, t) = g[t]
      BY <2>1 DEF Level
    <3>2. Level(g, t) <= Level(g, n) /\ Level(g, w - Window) <= Level(g, t - Window)
      BY <1>3, <1>6, <2>1, <2>4
    <3>3. /\ Level(g, t) \in Nat /\ Level(g, n) \in Nat /\ Level(g, t - Window) \in Nat
          /\ Level(g, w - 1) \in Nat /\ Level(g, w - Window) \in Nat
      BY <1>3, <1>6, <2>1
    <3> QED
      BY <1>10, <2>2, <3>1, <3>2, <3>3
  <2> QED
    BY <2>1, <2>3, <2>4
<1>13. n <= n /\ ~(n + Window <= n)
  BY <1>6
<1>14. Tally(h, 1, n, n, q)
  BY <1>4, <1>5, <1>9, <1>11, <1>12, <1>13 DEF Tally
<1> QED
  BY <1>14 DEF h

-----------------------------------------------------------------------------
\* The totals of Watched account for both counters of its slot.
Tallied ==
    \A i \in Holding(Watched), k \in Kind :
        Tally(granted[k], rl_table[i].count[k], rl_table[i].window[k], now, Quota[k])

TallyIInv == RateIInv /\ Tallied

\* The entry a check of Watched starts from is accounted for, be it its own or
\* a fresh one.
LEMMA EntryTallied ==
    ASSUME TallyIInv, NEW i \in Slot, NEW c \in Kind
    PROVE  Tally(TotalsBefore(i)[c], EntryFor(Watched, i).count[c], EntryFor(Watched, i).window[c],
                 now, Quota[c])
<1>1. CASE rl_table[i].ip = Watched
  <2>1. i \in Holding(Watched)
    BY <1>1 DEF Holding
  <2>2. TotalsBefore(i) = granted /\ EntryFor(Watched, i) = rl_table[i]
    BY <1>1 DEF TotalsBefore, EntryFor
  <2> QED
    BY <2>1, <2>2 DEF TallyIInv, Tallied
<1>2. CASE rl_table[i].ip # Watched
  <2>1. TotalsBefore(i)[c] = [t \in Time |-> 0]
    BY <1>2 DEF TotalsBefore, NoGrants
  <2>2. EntryFor(Watched, i).count[c] = 0 /\ EntryFor(Watched, i).window[c] = now
    BY <1>2 DEF EntryFor, Zero
  <2>3. now \in Time /\ Quota[c] \in Nat
    BY QuotaAssumption DEF TallyIInv, RateIInv, RateTypeOK
  <2> QED
    BY <2>1, <2>2, <2>3, TallyNone
<1> QED
  BY <1>1, <1>2

\* Only the totals of the request's kind change.
LEMMA TotalParts ==
    ASSUME NEW g \in [Kind -> [Time -> Nat]], NEW k \in Kind, NEW n \in {0, 1}
    PROVE  /\ Total(g, k, n)[k] = More(g[k], now, n)
           /\ \A c \in Kind \ {k} : Total(g, k, n)[c] = g[c]
<1>1. Total(g, k, n)[k] = More(g[k], now, n)
  BY DEF Total, More
<1>2. ASSUME NEW c \in Kind \ {k} PROVE Total(g, k, n)[c] = g[c]
  <2>1. Total(g, k, n)[c] = [t \in Time |-> g[c][t] + 0]
    BY DEF Total
  <2>2. g[c] \in [Time -> Nat]
    OBVIOUS
  <2> QED
    BY <2>1, <2>2
<1> QED
  BY <1>1, <1>2

\* So is the entry a check of Watched leaves behind.
LEMMA CountedTallied ==
    ASSUME TallyIInv, NEW e \in Entry, NEW g \in [Kind -> [Time -> Nat]],
           \A c \in Kind : Tally(g[c], e.count[c], e.window[c], now, Quota[c]),
           NEW k \in Kind, NEW c \in Kind
    PROVE  Tally(Total(g, k, LetThrough(Counted(e, k), k))[c],
                 Counted(e, k).count[c], Counted(e, k).window[c], now, Quota[c])
<1> DEFINE n == LetThrough(Counted(e, k), k)
           f == Counted(e, k)
<1>1. n \in {0, 1} /\ n = (IF f.count[k] <= Quota[k] THEN 1 ELSE 0)
  BY DEF LetThrough
<1>2. /\ e.count \in [Kind -> Nat] /\ e.window \in [Kind -> Nat]
      /\ now \in Time /\ now \in Nat /\ Window \in Nat /\ Quota[k] \in Nat \ {0}
  <2>1. e.count \in [Kind -> Nat] /\ e.window \in [Kind -> Nat]
    BY RateBoundAssumption DEF Entry, Time
  <2>2. now \in Time /\ now \in Nat
    BY RateBoundAssumption DEF TallyIInv, RateIInv, RateTypeOK, Time
  <2>3. Window \in Nat /\ Quota[k] \in Nat \ {0}
    BY WindowAssumption, QuotaAssumption
  <2> QED
    BY <2>1, <2>2, <2>3
<1>3. CASE c # k
  <2>1. f.count[c] = e.count[c] /\ f.window[c] = e.window[c]
    BY <1>2, <1>3 DEF Counted, Entry
  <2>2. Total(g, k, n)[c] = g[c]
    BY <1>1, <1>3, TotalParts
  <2> QED
    BY <2>1, <2>2
<1>4. CASE c = k /\ now - e.window[k] >= Window
  <2>1. f.count[k] = 1 /\ f.window[k] = now
    BY <1>2, <1>4 DEF Counted, Entry
  <2>2. n = 1
    BY <1>1, <1>2, <2>1
  <2>3. now >= e.window[k] + Window
    BY <1>2, <1>4
  <2>4. Tally(More(g[k], now, 1), 1, now, now, Quota[k])
    BY <1>2, <2>3, TallyNew
  <2>5. Total(g, k, n)[k] = More(g[k], now, 1)
    BY <1>1, <2>2, TotalParts
  <2> QED
    BY <1>4, <2>1, <2>4, <2>5
<1>5. CASE c = k /\ ~(now - e.window[k] >= Window)
  <2>1. f.count[k] = e.count[k] + 1 /\ f.window[k] = e.window[k]
    BY <1>2, <1>5 DEF Counted, Entry
  <2>2. n = (IF e.count[k] + 1 <= Quota[k] THEN 1 ELSE 0)
    BY <1>1, <2>1
  <2>3. now < e.window[k] + Window
    BY <1>2, <1>5
  <2> HIDE DEF n
  <2>4. Tally(More(g[k], now, n), e.count[k] + 1, e.window[k], now, Quota[k])
    BY <1>1, <1>2, <2>2, <2>3, TallyMore
  <2>5. Total(g, k, n)[k] = More(g[k], now, n)
    BY <1>1, TotalParts
  <2>6. Tally(Total(g, k, n)[k], f.count[k], f.window[k], now, Quota[k])
    BY <2>1, <2>4, <2>5
  <2> QED
    BY <1>5, <2>6 DEF n
<1> QED
  BY <1>3, <1>4, <1>5

\* A check accounts for what it lets through, Watched's or another's.
LEMMA CheckTallied ==
    ASSUME TallyIInv, NEW a \in IP, NEW k \in Kind, ratelimit_check(a, k)
    PROVE  Tallied'
<1> DEFINE i == SlotFor(a)
           e == Counted(EntryFor(a, i), k)
<1>1. RateTypeOK /\ now' = now /\ rl_table' = [rl_table EXCEPT ![i] = e]
  BY DEF ratelimit_check, TallyIInv, RateIInv
<1>2. i \in Slot /\ (Holding(a) # {} => i \in Holding(a))
  BY <1>1, SlotForAddress
<1>3. EntryFor(a, i) \in Entry /\ e.ip = a /\ e \in Entry
  BY <1>1, <1>2, RateBoundAssumption, EntryForAddress, CountedEntry DEF RateTypeOK, Time
<1>4. CASE a # Watched
  <2>1. granted' = granted
    BY <1>4 DEF ratelimit_check
  <2>2. \A j \in Holding(Watched)' : j \in Holding(Watched) /\ rl_table'[j] = rl_table[j]
    BY <1>1, <1>2, <1>3, <1>4 DEF Holding, RateTypeOK
  <2> HIDE DEF i, e
  <2> QED
    BY <1>1, <2>1, <2>2 DEF Tallied, TallyIInv
<1>5. CASE a = Watched
  <2> DEFINE g == TotalsBefore(i)
  <2>1. \A j \in Holding(Watched)' : j = i
    BY <1>1, <1>2, <1>3, <1>5, IPAssumption DEF Holding, RateTypeOK, TallyIInv, RateIInv, OneSlotPerIP
  <2>2. rl_table'[i] = e
    BY <1>1, <1>2 DEF RateTypeOK
  <2>3. granted' = Total(g, k, LetThrough(e, k))
    BY <1>5, CheckGrants
  <2>4. g \in [Kind -> [Time -> Nat]]
    BY <1>1, <1>2, BeforeType
  <2>5. \A c \in Kind : Tally(g[c], EntryFor(a, i).count[c], EntryFor(a, i).window[c], now, Quota[c])
    BY <1>2, <1>5, EntryTallied
  <2> HIDE DEF g, i
  <2>6. \A c \in Kind : Tally(Total(g, k, LetThrough(e, k))[c], e.count[c], e.window[c], now, Quota[c])
    BY <1>3, <2>4, <2>5, CountedTallied
  <2>7. \A c \in Kind : Tally(granted'[c], rl_table'[i].count[c], rl_table'[i].window[c], now', Quota[c])
    BY <1>1, <2>2, <2>3, <2>6
  <2> QED
    BY <2>1, <2>7 DEF Tallied
<1> QED
  BY <1>4, <1>5

\* The inductive invariant of the limiter, history included.
LEMMA TallyInvariant == RateSpec => []TallyIInv
<1>1. RateInit => TallyIInv
  <2> SUFFICES ASSUME RateInit PROVE TallyIInv
    OBVIOUS
  <2>1. Holding(Watched) = {}
    BY IPAssumption DEF RateInit, Holding
  <2> QED
    BY <2>1, RateInitInv DEF TallyIInv, Tallied
<1>2. TallyIInv /\ [RateNext]_rateVars => TallyIInv'
  <2> SUFFICES ASSUME TallyIInv, [RateNext]_rateVars PROVE TallyIInv'
    OBVIOUS
  <2>1. RateIInv'
    BY RateNextInv DEF TallyIInv
  <2>2. CASE ClockTicks
    <3>1. /\ now' = now + 1 /\ now \in Time /\ now + 1 \in Time
          /\ rl_table' = rl_table /\ granted' = granted
      BY <2>1, <2>2 DEF ClockTicks, RateIInv, RateTypeOK, TallyIInv
    <3> SUFFICES ASSUME NEW i \in Holding(Watched), NEW k \in Kind
                 PROVE  Tally(granted[k], rl_table[i].count[k], rl_table[i].window[k], now + 1, Quota[k])
      BY <2>1, <3>1 DEF TallyIInv, Tallied, Holding
    <3>2. Tally(granted[k], rl_table[i].count[k], rl_table[i].window[k], now, Quota[k])
      BY DEF TallyIInv, Tallied
    <3>3. /\ granted[k] \in [Time -> Nat] /\ Quota[k] \in Nat
          /\ rl_table[i].count[k] \in Nat /\ rl_table[i].window[k] \in Nat
      BY QuotaAssumption DEF TallyIInv, RateIInv, RateTypeOK, Entry, Holding
    <3> QED
      BY <3>1, <3>2, <3>3, TallyTick
  <2>3. CASE UNCHANGED rateVars
    BY <2>1, <2>3 DEF rateVars, TallyIInv, Tallied, Holding
  <2>4. ASSUME NEW a \in IP, NEW k \in Kind, ratelimit_check(a, k) PROVE Tallied'
    BY <2>4, CheckTallied
  <2> QED
    BY <2>1, <2>2, <2>3, <2>4 DEF RateNext, TallyIInv
<1> QED
  BY <1>1, <1>2, PTL DEF RateSpec

\* Whatever the quotas, the window and the clients: any Window seconds let
\* through at most twice the quota of an address that keeps its slot.
THEOREM AtMostTwiceQuota == RateSpec => []TwiceQuota
<1>1. TallyIInv => TwiceQuota
  <2> SUFFICES ASSUME TallyIInv, NEW i \in Holding(Watched), NEW k \in Kind, NEW t \in Time
               PROVE  GrantedUpTo(k, t) <= 2 * Quota[k]
    BY DEF TwiceQuota
  <2> DEFINE g == granted[k]
             c == rl_table[i].count[k]
             w == rl_table[i].window[k]
             q == Quota[k]
  <2>1. /\ g \in [Time -> Nat] /\ q \in Nat /\ c \in Nat /\ w \in Nat /\ now \in Time
        /\ Window \in Nat \ {0} /\ MaxTime \in Nat
    BY QuotaAssumption, WindowAssumption, RateBoundAssumption
    DEF TallyIInv, RateIInv, RateTypeOK, Entry, Holding
  <2>2. Tally(g, c, w, now, q)
    BY DEF TallyIInv, Tallied
  <2>3. GrantedUpTo(k, t) = g[t] - Level(g, t - Window)
    BY <2>1 DEF GrantedUpTo, Level, Time
  <2> HIDE DEF g, c, w, q
  <2>4. \A s, u \in Int : s <= u /\ u <= MaxTime =>
            Level(g, s) \in Nat /\ Level(g, u) \in Nat /\ Level(g, s) <= Level(g, u)
    BY <2>1, <2>2, TallyLevels
  <2>5. CASE t < w
    BY <2>2, <2>3, <2>5 DEF Tally, q
  <2>6. CASE t >= w
    <3>1. t \in Nat /\ t <= MaxTime /\ now \in Nat /\ now <= MaxTime /\ w <= now
      BY <2>1, <2>2 DEF Time, Tally
    <3>2. g[t] <= g[now]
      BY <2>1, <2>2, <3>1 DEF Tally
    <3>3. g[now] - Level(g, w - 1) <= q /\ Level(g, w - 1) - Level(g, w - Window) <= q
      BY <2>1, <2>2 DEF Tally
    <3>4. Level(g, w - Window) <= Level(g, t - Window)
      BY <2>1, <2>4, <2>6, <3>1
    <3>5. /\ Level(g, w - 1) \in Nat /\ Level(g, w - Window) \in Nat
          /\ Level(g, t - Window) \in Nat /\ g[t] \in Nat /\ g[now] \in Nat
      BY <2>1, <2>4, <3>1
    <3>6. g[t] - Level(g, t - Window) <= 2 * q
      BY <2>1, <3>2, <3>3, <3>4, <3>5
    <3> QED
      BY <2>3, <3>6 DEF q
  <2> QED
    BY <2>1, <2>5, <2>6 DEF Time
<1> QED
  BY <1>1, TallyInvariant, PTL

\* Whatever the quotas, the window and the clients: who would be refused has
\* had its quota within the last Window seconds.
THEOREM RefusedOnlyAfterQuota == RateSpec => []NoFalseRefusal
<1>1. TallyIInv => NoFalseRefusal
  <2> SUFFICES ASSUME TallyIInv, NEW i \in Holding(Watched), NEW k \in Kind,
                      Counted(rl_table[i], k).count[k] > Quota[k]
               PROVE  GrantedUpTo(k, now) >= Quota[k]
    BY DEF NoFalseRefusal
  <2> DEFINE g == granted[k]
             c == rl_table[i].count[k]
             w == rl_table[i].window[k]
             q == Quota[k]
  <2>1. /\ g \in [Time -> Nat] /\ q \in Nat \ {0} /\ c \in Nat /\ w \in Nat /\ now \in Time
        /\ Window \in Nat \ {0} /\ MaxTime \in Nat /\ rl_table[i] \in Entry
    BY QuotaAssumption, WindowAssumption, RateBoundAssumption
    DEF TallyIInv, RateIInv, RateTypeOK, Entry, Holding
  <2>2. Tally(g, c, w, now, q)
    BY DEF TallyIInv, Tallied
  <2>3. GrantedUpTo(k, now) = g[now] - Level(g, now - Window)
    BY <2>1 DEF GrantedUpTo, Level, Time
  <2>4. now \in Nat /\ now <= MaxTime
    BY <2>1 DEF Time
  <2>5. now - w < Window /\ c >= q
    BY <2>1, <2>4 DEF Counted, Entry
  <2> HIDE DEF g, c, w, q
  <2>6. g[now] - Level(g, w - 1) = q
    BY <2>1, <2>2, <2>5 DEF Tally
  <2>7. Level(g, now - Window) <= Level(g, w - 1) /\ w <= now
    <3>1. now - Window <= w - 1 /\ w - 1 <= MaxTime /\ now - Window \in Int /\ w - 1 \in Int
      BY <2>1, <2>2, <2>4, <2>5 DEF Tally
    <3> QED
      BY <2>1, <2>2, <3>1, TallyLevels DEF Tally
  <2>8. Level(g, now - Window) \in Nat /\ Level(g, w - 1) \in Nat /\ g[now] \in Nat
    <3>1. now - Window <= MaxTime /\ w - 1 <= MaxTime /\ now - Window \in Int /\ w - 1 \in Int
      BY <2>1, <2>4, <2>7
    <3> QED
      BY <2>1, <2>2, <3>1, TallyLevels
  <2>9. g[now] - Level(g, now - Window) >= q
    BY <2>1, <2>6, <2>7, <2>8
  <2> QED
    BY <2>3, <2>9 DEF q
<1> QED
  BY <1>1, TallyInvariant, PTL

-----------------------------------------------------------------------------
(* The accounts.                                                            *)

\* Roles are numbers, and so no sentinels.
LEMMA RolesAreNumbers ==
    /\ \A r \in Role : r \in Int
    /\ \A r \in Int : r # Absent /\ r # Unsaid
  BY RoleAssumption, NoRoleNames

\* What a change of an account comes to.
LEMMA ChangeWrites ==
    ASSUME AccountsTypeOK, NEW q \in AdminReq, areq[q] # AIdle,
           NEW r \in Role \cup {Absent}, Change(q, r)
    PROVE  /\ AccountsTypeOK'
           /\ areq'[q] = [areq[q] EXCEPT !.step = "log"]
           /\ \A p \in AdminReq \ {q} :
                 \/ areq'[p] = areq[p] /\ ~Deciding(p)
                 \/ /\ Deciding(p)
                    /\ areq'[p] = [areq[p] EXCEPT !.moved = areq'[p].moved]
                    /\ areq'[p].moved = \/ areq[p].moved
                                        \/ /\ areq[q].target \in {areq[p].user, areq[p].target}
                                           /\ users[areq[q].target] # r
<1>1. areq[q] \in AdminRequest /\ areq[q].target \in User
  BY DEF AccountsTypeOK, AdminRequest
<1>2. \A p \in AdminReq : Deciding(p) => areq[p] \in AdminRequest
  BY DEF AccountsTypeOK, Deciding, Doing
<1>3. areq' = [p \in AdminReq |->
                  CASE p = q -> [areq[q] EXCEPT !.step = "log"]
                    [] p # q /\ Deciding(p) -> [areq[p] EXCEPT !.moved =
                           @ \/ (areq[q].target \in {areq[p].user, areq[p].target}
                                 /\ users[areq[q].target] # r)]
                    [] OTHER -> areq[p]]
  BY DEF Change
<1>4. areq'[q] = [areq[q] EXCEPT !.step = "log"] /\ areq'[q] \in AdminRequest
  BY <1>1, <1>3 DEF AdminRequest, Step
<1>5. ASSUME NEW p \in AdminReq \ {q}, ~Deciding(p)
      PROVE  areq'[p] = areq[p]
  BY <1>3, <1>5
<1>6. ASSUME NEW p \in AdminReq \ {q}, Deciding(p)
      PROVE  /\ areq'[p] = [areq[p] EXCEPT !.moved =
                           @ \/ (areq[q].target \in {areq[p].user, areq[p].target}
                                 /\ users[areq[q].target] # r)]
             /\ areq'[p] \in AdminRequest
             /\ areq'[p] = [areq[p] EXCEPT !.moved = areq'[p].moved]
             /\ areq'[p].moved = \/ areq[p].moved
                                 \/ /\ areq[q].target \in {areq[p].user, areq[p].target}
                                    /\ users[areq[q].target] # r
  BY <1>2, <1>3, <1>6 DEF AdminRequest
<1>7. areq' \in [AdminReq -> AdminRequest \cup {AIdle}]
  <2>1. \A p \in AdminReq : areq'[p] \in AdminRequest \cup {AIdle}
    BY <1>4, <1>5, <1>6 DEF AccountsTypeOK
  <2> QED
    BY <1>3, <2>1
<1>8. users' \in [User -> Role \cup {Absent}] /\ blurred' \subseteq User
  BY <1>1 DEF Change, AccountsTypeOK
<1> QED
  BY <1>4, <1>5, <1>6, <1>7, <1>8 DEF Change, AccountsTypeOK

LEMMA AccountsTypeInit == AccountsInit => AccountsTypeOK
<1> SUFFICES ASSUME AccountsInit PROVE AccountsTypeOK
  OBVIOUS
<1>1. users \in [User -> Role \cup {Absent}] /\ events \in [User -> Role \cup {Absent, Unsaid}]
  BY RoleAssumption DEF AccountsInit
<1>2. areq \in [AdminReq -> AdminRequest \cup {AIdle}]
  BY DEF AccountsInit
<1> QED
  BY <1>1, <1>2 DEF AccountsInit, AccountsTypeOK

LEMMA AccountsTypeStep == AccountsTypeOK /\ [AccountsNext]_accountVars => AccountsTypeOK'
<1> SUFFICES ASSUME AccountsTypeOK, [AccountsNext]_accountVars PROVE AccountsTypeOK'
  OBVIOUS
<1>1. CASE main_bootstrap
  BY <1>1, UserAssumption, RoleAssumption DEF main_bootstrap, AccountsTypeOK
<1>2. CASE Killed
  BY <1>2 DEF Killed, AccountsTypeOK
<1>3. ASSUME NEW q \in AdminReq, Administer(q) PROVE AccountsTypeOK'
  <2>1. CASE authenticate_request(q)
    <3> PICK u \in User, op \in Op, t \in User, a \in Role :
           /\ Stored(u)
           /\ areq' = [areq EXCEPT ![q] =
              [step |-> StartStep(users[u], Rank(op), op), op |-> op,
               user |-> u, role |-> users[u], target |-> t, arg |-> a, moved |-> FALSE]]
      BY <2>1 DEF authenticate_request
    <3>1. users[u] \in Role
      BY DEF Stored, AccountsTypeOK
    <3>2. StartStep(users[u], Rank(op), op) \in Step
      BY DEF StartStep, Step
    <3>3. [step |-> StartStep(users[u], Rank(op), op), op |-> op, user |-> u,
           role |-> users[u], target |-> t, arg |-> a, moved |-> FALSE] \in AdminRequest
      BY <3>1, <3>2 DEF AdminRequest
    <3> QED
      BY <2>1, <3>3 DEF authenticate_request, AccountsTypeOK
  <2>2. CASE answer(q) \/ db_clear_all_logs(q)
    BY <2>2 DEF answer, db_clear_all_logs, Reply, AccountsTypeOK
  <2>3. ASSUME areq[q] # AIdle
        PROVE  /\ areq[q] \in AdminRequest
               /\ \A s \in Step : [areq[q] EXCEPT !.step = s] \in AdminRequest
    BY <2>3 DEF AccountsTypeOK, AdminRequest
  <2>4. CASE verify_sudo(q)
    <3>1. FirstStep(areq[q].op) \in Step
      BY DEF FirstStep, Step
    <3> QED
      BY <2>3, <2>4, <3>1 DEF verify_sudo, Doing, Goto, Reply, AccountsTypeOK
  <2>5. CASE db_get_user_role(q)
    BY <2>3, <2>5 DEF db_get_user_role, Doing, Goto, Reply, AccountsTypeOK, Step
  <2>6. CASE archive_line(q) \/ log_alert(q)
    BY <2>3, <2>6 DEF archive_line, log_alert, Doing, Goto, AccountsTypeOK, Step
  <2>7. CASE db_log_event(q)
    <3>1. areq[q] # AIdle /\ areq[q].target \in User /\ Says(q) \in Role \cup {Absent, Unsaid}
      BY <2>3, <2>7 DEF db_log_event, Doing, Says, AccountsTypeOK, AdminRequest
    <3> QED
      BY <2>7, <3>1 DEF db_log_event, Reply, AccountsTypeOK
  <2>8. CASE db_add_user(q) \/ db_delete_user(q) \/ db_change_role(q) \/ db_update_password(q)
    <3>1. areq[q] # AIdle /\ areq[q].arg \in Role /\ areq[q].target \in User
      BY <2>3, <2>8 DEF db_add_user, db_delete_user, db_change_role, db_update_password, Doing,
           AdminRequest
    <3>2. CASE Change(q, areq[q].arg) \/ Change(q, Absent) \/ Change(q, users[areq[q].target])
      BY <3>1, <3>2, ChangeWrites DEF AccountsTypeOK
    <3>3. CASE Reply(q) /\ UNCHANGED <<users, events, archive, up, blurred, admitted>>
      BY <3>3 DEF Reply, AccountsTypeOK
    <3> QED
      BY <2>8, <3>2, <3>3 DEF db_add_user, db_delete_user, db_change_role, db_update_password
  <2> QED
    BY <1>3, <2>1, <2>2, <2>4, <2>5, <2>6, <2>7, <2>8 DEF Administer
<1>4. CASE UNCHANGED accountVars
  BY <1>4 DEF accountVars, AccountsTypeOK
<1> QED
  BY <1>1, <1>2, <1>3, <1>4 DEF AccountsNext

\* The table, the log and the requests at work keep their types, also when
\* the server is killed and started again between two steps of a request.
THEOREM AccountsTypeInvariant == AccountsSpec => []AccountsTypeOK
  BY AccountsTypeInit, AccountsTypeStep, PTL DEF AccountsSpec

-----------------------------------------------------------------------------
(* No request is at work before there is a ROOT account "admin", and none    *)
(* that is at work can take it away.                                        *)

\* What is known of the requests at work.
AtWork ==
    \A q \in AdminReq : areq[q] # AIdle =>
        /\ users[Master] = 0
        /\ areq[q].step = "sudo" => areq[q].op \notin {"list", "audit"}
        /\ areq[q].step = "check" => areq[q].op = "update"
        /\ areq[q].step = "act" => areq[q].op \in {"create", "delete", "role", "update"}
        /\ areq[q].step \in {"alert", "clear"} => archive # "empty"

\* An event is written by a request, so the log of a table without "admin" is
\* empty.
LoggedByAccount == (\E u \in User : events[u] # Unsaid) => users[Master] = 0

MasterInv == AccountsTypeOK /\ MasterStays /\ AtWork /\ LoggedByAccount

\* A step of one request leaves the others where they are.
LEMMA OthersStay ==
    ASSUME AccountsTypeOK, AccountsTypeOK', NEW q \in AdminReq, Administer(q),
           NEW p \in AdminReq \ {q}
    PROVE  \/ areq'[p] = areq[p]
           \/ /\ areq[p] # AIdle /\ areq'[p] # AIdle
              /\ areq'[p].step = areq[p].step /\ areq'[p].op = areq[p].op
              /\ areq'[p].user = areq[p].user /\ areq'[p].role = areq[p].role
              /\ areq'[p].target = areq[p].target /\ areq'[p].arg = areq[p].arg
              /\ areq[p].moved => areq'[p].moved
<1>1. CASE \E r \in Role \cup {Absent} : areq[q] # AIdle /\ Change(q, r)
  <2>1. \/ areq'[p] = areq[p]
        \/ /\ Deciding(p)
           /\ areq'[p] = [areq[p] EXCEPT !.moved = areq'[p].moved]
           /\ areq[p].moved => areq'[p].moved
    BY <1>1, ChangeWrites
  <2>2. Deciding(p) => areq[p] \in AdminRequest
    BY DEF Deciding, Doing, AccountsTypeOK
  <2>3. ASSUME Deciding(p), areq'[p] = [areq[p] EXCEPT !.moved = areq'[p].moved]
        PROVE  /\ areq[p] # AIdle /\ areq'[p] # AIdle
               /\ areq'[p].step = areq[p].step /\ areq'[p].op = areq[p].op
               /\ areq'[p].user = areq[p].user /\ areq'[p].role = areq[p].role
               /\ areq'[p].target = areq[p].target /\ areq'[p].arg = areq[p].arg
    BY <2>2, <2>3 DEF AdminRequest, AIdle, Deciding, Doing, Step
  <2> QED
    BY <2>1, <2>3
<1>2. CASE areq'[p] = areq[p]
  BY <1>2
<1>3. areq'[p] = areq[p] \/ \E r \in Role \cup {Absent} : areq[q] # AIdle /\ Change(q, r)
  <2>1. areq[q] # AIdle => areq[q].arg \in Role /\ users[areq[q].target] \in Role \cup {Absent}
    BY DEF AccountsTypeOK, AdminRequest
  <2>2. CASE db_add_user(q) \/ db_delete_user(q) \/ db_change_role(q) \/ db_update_password(q)
    BY <2>1, <2>2 DEF db_add_user, db_delete_user, db_change_role, db_update_password, Doing, Reply,
         AccountsTypeOK
  <2>3. CASE authenticate_request(q) \/ answer(q) \/ verify_sudo(q) \/ db_get_user_role(q)
    BY <2>3 DEF authenticate_request, answer, verify_sudo, db_get_user_role, Goto, Reply,
         AccountsTypeOK
  <2>4. CASE db_log_event(q) \/ archive_line(q) \/ log_alert(q) \/ db_clear_all_logs(q)
    BY <2>4 DEF db_log_event, archive_line, log_alert, db_clear_all_logs, Goto, Reply,
         AccountsTypeOK
  <2> QED
    BY <2>2, <2>3, <2>4 DEF Administer
<1> QED
  BY <1>1, <1>2, <1>3

\* No step of a request changes the account of the master.
LEMMA MasterKept ==
    ASSUME MasterInv, NEW q \in AdminReq, Administer(q)
    PROVE  users'[Master] = users[Master]
<1>1. users[Master] = 0 => Stored(Master)
  BY RoleAssumption, NoRoleNames DEF Stored
<1>2. CASE UNCHANGED users
  BY <1>2
<1>3. CASE db_add_user(q) \/ db_delete_user(q) \/ db_change_role(q) \/ db_update_password(q)
  <2>1. areq[q] # AIdle /\ users[Master] = 0 /\ areq[q].target \in User
    BY <1>3 DEF db_add_user, db_delete_user, db_change_role, db_update_password, Doing,
         MasterInv, AtWork, AccountsTypeOK, AdminRequest
  <2>2. \/ UNCHANGED users
        \/ \E r \in Role \cup {Absent} :
              /\ users' = [users EXCEPT ![areq[q].target] = r]
              /\ areq[q].target = Master => r = users[Master]
    BY <1>1, <1>3, <2>1 DEF db_add_user, db_delete_user, db_change_role, db_update_password, Change,
         MasterInv, AccountsTypeOK, AdminRequest
  <2> QED
    BY <2>1, <2>2, UserAssumption DEF MasterInv, AccountsTypeOK
<1> QED
  BY <1>2, <1>3 DEF Administer, authenticate_request, answer, verify_sudo, db_get_user_role,
       db_log_event, archive_line, log_alert, db_clear_all_logs

LEMMA MasterInit == AccountsInit => MasterInv
<1> SUFFICES ASSUME AccountsInit PROVE MasterInv
  OBVIOUS
<1>1. AccountsTypeOK
  BY AccountsTypeInit
<1>2. MasterStays
  BY UserAssumption, NoRoleNames DEF AccountsInit, MasterStays, Stored
<1> QED
  BY <1>1, <1>2 DEF MasterInv, AtWork, LoggedByAccount, AccountsInit

LEMMA MasterStep == MasterInv /\ [AccountsNext]_accountVars => MasterInv'
<1> SUFFICES ASSUME MasterInv, [AccountsNext]_accountVars PROVE MasterInv'
  OBVIOUS
<1>1. AccountsTypeOK /\ AccountsTypeOK'
  BY AccountsTypeStep DEF MasterInv
<1>2. CASE main_bootstrap
  <2>1. users' = users \/ (users' = [users EXCEPT ![Master] = 0])
    BY <1>2 DEF main_bootstrap
  <2> QED
    BY <1>1, <1>2, <2>1, UserAssumption
    DEF main_bootstrap, MasterInv, MasterStays, AtWork, LoggedByAccount, Stored, AccountsTypeOK
<1>3. CASE Killed
  BY <1>1, <1>3 DEF Killed, MasterInv, MasterStays, AtWork, LoggedByAccount, Stored, AccountsTypeOK
<1>4. ASSUME NEW q \in AdminReq, Administer(q) PROVE MasterInv'
  <2>1. users'[Master] = users[Master]
    BY <1>4, MasterKept
  <2>2. users[Master] = 0
    <3>1. CASE authenticate_request(q)
      BY <3>1 DEF authenticate_request, MasterInv, MasterStays
    <3>2. CASE areq[q] # AIdle
      BY <3>2 DEF MasterInv, AtWork
    <3> QED
      BY <1>4, <3>1, <3>2 DEF Administer, answer, verify_sudo, db_add_user, db_delete_user,
        db_change_role, db_get_user_role, db_update_password, db_log_event, archive_line,
        log_alert, db_clear_all_logs, Doing
  <2>3. archive # "empty" => archive' # "empty"
    BY <1>4 DEF Administer, authenticate_request, answer, verify_sudo, db_add_user,
      db_delete_user, db_change_role, db_get_user_role, db_update_password, db_log_event,
      archive_line, log_alert, db_clear_all_logs, Change
  <2>4. ASSUME areq'[q] # AIdle
        PROVE  /\ areq'[q].step = "sudo" => areq'[q].op \notin {"list", "audit"}
               /\ areq'[q].step = "check" => areq'[q].op = "update"
               /\ areq'[q].step = "act" => areq'[q].op \in {"create", "delete", "role", "update"}
               /\ areq'[q].step \in {"alert", "clear"} => archive' # "empty"
    <3>1. areq[q] # AIdle => areq[q] \in AdminRequest
      BY <1>1 DEF AccountsTypeOK
    <3>2. CASE authenticate_request(q)
      BY <1>1, <3>2, RoleAssumption DEF authenticate_request, StartStep, Rank, Stored, AccountsTypeOK, Op
    <3>3. CASE verify_sudo(q)
      BY <1>1, <2>4, <3>1, <3>3 DEF verify_sudo, Doing, Goto, Reply, FirstStep, AdminRequest, Op,
        MasterInv, AtWork, AccountsTypeOK
    <3>4. CASE db_get_user_role(q)
      BY <1>1, <2>4, <3>1, <3>4 DEF db_get_user_role, Doing, Goto, Reply, AdminRequest,
        MasterInv, AtWork, AccountsTypeOK
    <3>5. CASE db_add_user(q) \/ db_delete_user(q) \/ db_change_role(q) \/ db_update_password(q)
      <4>1. areq'[q] = [areq[q] EXCEPT !.step = "log"]
        <5>1. areq[q] # AIdle /\ areq[q].arg \in Role /\ users[areq[q].target] \in Role \cup {Absent}
          BY <1>1, <3>1, <3>5 DEF db_add_user, db_delete_user, db_change_role, db_update_password,
            Doing, AdminRequest, AccountsTypeOK
        <5>2. Change(q, areq[q].arg) \/ Change(q, Absent) \/ Change(q, users[areq[q].target])
          BY <1>1, <2>4, <3>5 DEF db_add_user, db_delete_user, db_change_role, db_update_password,
            Reply, AccountsTypeOK
        <5> QED
          BY <1>1, <5>1, <5>2, ChangeWrites
      <4> QED
        BY <3>1, <3>5, <4>1 DEF AdminRequest, db_add_user, db_delete_user, db_change_role,
          db_update_password, Doing
    <3>6. CASE archive_line(q) \/ log_alert(q)
      BY <1>1, <3>1, <3>6 DEF archive_line, log_alert, Doing, Goto, AdminRequest, MasterInv, AtWork,
        AccountsTypeOK
    <3>7. CASE answer(q) \/ db_log_event(q) \/ db_clear_all_logs(q)
      BY <1>1, <2>4, <3>7 DEF answer, db_log_event, db_clear_all_logs, Reply, AccountsTypeOK
    <3> QED
      BY <1>4, <3>2, <3>3, <3>4, <3>5, <3>6, <3>7 DEF Administer
  <2>5. AtWork'
    <3> SUFFICES ASSUME NEW p \in AdminReq, areq'[p] # AIdle, p # q
                 PROVE  /\ areq'[p].step = "sudo" => areq'[p].op \notin {"list", "audit"}
                        /\ areq'[p].step = "check" => areq'[p].op = "update"
                        /\ areq'[p].step = "act" =>
                              areq'[p].op \in {"create", "delete", "role", "update"}
                        /\ areq'[p].step \in {"alert", "clear"} => archive' # "empty"
      BY <2>1, <2>2, <2>4 DEF AtWork
    <3> QED
      BY <1>1, <1>4, <2>3, OthersStay DEF MasterInv, AtWork
  <2> QED
    BY <1>1, <2>1, <2>2, <2>5 DEF MasterInv, MasterStays, LoggedByAccount
<1>5. CASE UNCHANGED accountVars
  BY <1>1, <1>5 DEF accountVars, MasterInv, MasterStays, AtWork, LoggedByAccount, Stored
<1> QED
  BY <1>2, <1>3, <1>4, <1>5 DEF AccountsNext

\* As long as there is any account, "admin" is there as ROOT, for any number
\* of accounts and of requests at work.
THEOREM MasterRemains == AccountsSpec => []MasterStays
<1>1. MasterInv => MasterStays
  BY DEF MasterInv
<1> QED
  BY <1>1, MasterInit, MasterStep, PTL DEF AccountsSpec

\* The log is never emptied without a trace in the file.
THEOREM ClearTraced == AccountsSpec => ClearLeavesTrace
<1>1. MasterInv /\ [AccountsNext]_accountVars
      => [(\E u \in User : events[u] # Unsaid /\ events'[u] = Unsaid) => archive # "empty"]_accountVars
  <2> SUFFICES ASSUME MasterInv, [AccountsNext]_accountVars,
                      NEW u \in User, events[u] # Unsaid, events'[u] = Unsaid
               PROVE  archive # "empty"
    OBVIOUS
  <2>1. PICK q \in AdminReq : Administer(q)
    BY DEF AccountsNext, main_bootstrap, Killed, accountVars
  <2>2. CASE db_clear_all_logs(q)
    BY <2>2 DEF db_clear_all_logs, Doing, MasterInv, AtWork
  <2>3. CASE db_log_event(q)
    <3>1. areq[q] \in AdminRequest
      BY <2>3 DEF db_log_event, Doing, MasterInv, AccountsTypeOK
    <3>2. areq[q].target = u => Says(q) # Unsaid
      BY <3>1, RoleAssumption, NoRoleNames DEF Says, AdminRequest
    <3>3. events'[u] \in {events[u], Says(q)} /\ (events'[u] # events[u] => areq[q].target = u)
      BY <2>3 DEF db_log_event, MasterInv, AccountsTypeOK
    <3> QED
      BY <3>2, <3>3
  <2>4. CASE UNCHANGED events
    BY <2>4
  <2> QED
    BY <2>1, <2>2, <2>3, <2>4 DEF Administer, authenticate_request, answer, verify_sudo,
      db_add_user, db_delete_user, db_change_role, db_get_user_role, db_update_password,
      archive_line, log_alert, Change
<1> QED
  BY <1>1, MasterInit, MasterStep, PTL DEF AccountsSpec, ClearLeavesTrace

-----------------------------------------------------------------------------
(* The rank a request acts with.                                            *)

\* A request that decides goes by roles that are still those of the accounts,
\* unless it is marked as moved.
GoesByRole ==
    \A q \in AdminReq : Deciding(q) =>
        /\ areq[q].role <= Rank(areq[q].op)
        /\ ~areq[q].moved => users[areq[q].user] = areq[q].role
        /\ Doing(q, "act") /\ areq[q].op = "update" /\ ~areq[q].moved /\ areq[q].role = 1
           => users[areq[q].target] = Absent \/ users[areq[q].target] >= 2

RankInv == MasterInv /\ GoesByRole

\* A step of another request changes no account a request goes by without
\* marking it.
LEMMA OthersMarked ==
    ASSUME AccountsTypeOK, NEW q \in AdminReq, Administer(q),
           NEW p \in AdminReq \ {q}, Deciding(p)', ~areq'[p].moved
    PROVE  /\ users'[areq[p].user] = users[areq[p].user]
           /\ users'[areq[p].target] = users[areq[p].target]
<1>1. areq[q] # AIdle => areq[q].arg \in Role /\ areq[q].target \in User
                          /\ users[areq[q].target] \in Role \cup {Absent}
  BY DEF AccountsTypeOK, AdminRequest
<1>2. ASSUME NEW r \in Role \cup {Absent}, areq[q] # AIdle, Change(q, r)
      PROVE  /\ users'[areq[p].user] = users[areq[p].user]
             /\ users'[areq[p].target] = users[areq[p].target]
  <2>1. users' = [users EXCEPT ![areq[q].target] = r]
    BY <1>2 DEF Change
  <2>2. ~Deciding(p) => areq'[p] = areq[p]
    BY <1>2, ChangeWrites
  <2>3. Deciding(p)
    BY <2>2 DEF Deciding, Doing
  <2>4. areq[q].target \in {areq[p].user, areq[p].target} => users[areq[q].target] = r
    BY <1>2, <2>3, ChangeWrites
  <2> QED
    BY <1>1, <1>2, <2>1, <2>4 DEF AccountsTypeOK
<1>3. CASE UNCHANGED users
  BY <1>3
<1>4. CASE db_add_user(q) \/ db_delete_user(q) \/ db_change_role(q) \/ db_update_password(q)
  <2>1. areq[q] # AIdle
    BY <1>4 DEF db_add_user, db_delete_user, db_change_role, db_update_password, Doing
  <2>2. \/ Change(q, areq[q].arg) \/ Change(q, Absent) \/ Change(q, users[areq[q].target])
        \/ UNCHANGED users
    BY <1>4 DEF db_add_user, db_delete_user, db_change_role, db_update_password
  <2> QED
    BY <1>1, <1>2, <1>3, <2>1, <2>2
<1> QED
  BY <1>3, <1>4 DEF Administer, authenticate_request, answer, verify_sudo, db_get_user_role,
       db_log_event, archive_line, log_alert, db_clear_all_logs

LEMMA RankStep == RankInv /\ [AccountsNext]_accountVars => RankInv'
<1> SUFFICES ASSUME RankInv, [AccountsNext]_accountVars PROVE GoesByRole'
  BY MasterStep DEF RankInv
<1>1. AccountsTypeOK /\ AccountsTypeOK' /\ AtWork
  BY AccountsTypeStep DEF RankInv, MasterInv
<1>2. CASE main_bootstrap
  <2>1. (\E q \in AdminReq : areq[q] # AIdle) => users' = users
    BY <1>1, <1>2, UserAssumption, NoRoleNames DEF main_bootstrap, AtWork, Stored
  <2> QED
    BY <1>2, <2>1 DEF main_bootstrap, RankInv, GoesByRole, Deciding, Doing
<1>3. CASE Killed
  BY <1>3 DEF Killed, GoesByRole, Deciding, Doing
<1>4. ASSUME NEW q \in AdminReq, Administer(q) PROVE GoesByRole'
  <2> DEFINE Fine(p) == /\ areq[p].role <= Rank(areq[p].op)
                        /\ ~areq[p].moved => users[areq[p].user] = areq[p].role
                        /\ areq[p].step = "act" /\ areq[p].op = "update" /\ ~areq[p].moved
                              /\ areq[p].role = 1
                           => users[areq[p].target] = Absent \/ users[areq[p].target] >= 2
  <2>1. ASSUME NEW p \in AdminReq, p # q, Deciding(p)' PROVE Fine(p)'
    <3>1. Deciding(p) /\ (Fine(p) \/ areq'[p].moved)
      BY <1>1, <1>4, <2>1, OthersStay DEF RankInv, GoesByRole, Deciding, Doing
    <3>2. Fine(p)
      BY <3>1 DEF RankInv, GoesByRole, Deciding, Doing
    <3>3. ~areq'[p].moved => /\ users'[areq[p].user] = users[areq[p].user]
                             /\ users'[areq[p].target] = users[areq[p].target]
      BY <1>1, <1>4, <2>1, OthersMarked
    <3> QED
      BY <1>1, <1>4, <2>1, <3>2, <3>3, OthersStay
  <2>2. ASSUME Deciding(q)' PROVE Fine(q)'
    <3>1. areq[q] # AIdle => areq[q] \in AdminRequest
      BY <1>1 DEF AccountsTypeOK
    <3>2. areq'[q] # AIdle /\ areq'[q].step \in {"sudo", "check", "act"}
      BY <2>2 DEF Deciding, Doing
    <3>3. CASE authenticate_request(q)
      <4>1. PICK u \in User, op \in Op, t \in User, a \in Role :
               /\ Stored(u) /\ users' = users
               /\ areq' = [areq EXCEPT ![q] =
                  [step |-> StartStep(users[u], Rank(op), op), op |-> op,
                   user |-> u, role |-> users[u], target |-> t, arg |-> a, moved |-> FALSE]]
        BY <3>3 DEF authenticate_request
      <4>2. areq'[q] = [step |-> StartStep(users[u], Rank(op), op), op |-> op,
                        user |-> u, role |-> users[u], target |-> t, arg |-> a, moved |-> FALSE]
        BY <1>1, <4>1 DEF AccountsTypeOK
      <4>3. users[u] \in Int /\ Rank(op) \in Int
        <5>1. users[u] \in Role
          BY <1>1, <4>1 DEF Stored, AccountsTypeOK
        <5> QED
          BY <5>1, RolesAreNumbers DEF Rank
      <4>4. areq'[q].step = "sudo" /\ users[u] <= Rank(op)
        BY <3>2, <4>2, <4>3 DEF StartStep
      <4> QED
        BY <4>1, <4>2, <4>4
    <3>4. CASE verify_sudo(q)
      <4>1. areq'[q] = [areq[q] EXCEPT !.step = FirstStep(areq[q].op)] /\ users' = users
        BY <1>1, <3>2, <3>4 DEF verify_sudo, Goto, Reply, AccountsTypeOK
      <4>2. Deciding(q) /\ Fine(q)
        BY <3>4 DEF verify_sudo, Deciding, Doing, RankInv, GoesByRole
      <4>3. areq'[q].step = "act" => areq'[q].op # "update"
        BY <3>1, <3>4, <4>1 DEF verify_sudo, Doing, FirstStep, AdminRequest
      <4> QED
        BY <3>1, <3>4, <4>1, <4>2, <4>3 DEF verify_sudo, Doing, AdminRequest
    <3>5. CASE db_get_user_role(q)
      <4>1. areq'[q] = [areq[q] EXCEPT !.step = "act"] /\ users' = users
        BY <1>1, <3>2, <3>5 DEF db_get_user_role, Goto, Reply, AccountsTypeOK
      <4>2. Deciding(q) /\ Fine(q)
        BY <3>5 DEF db_get_user_role, Deciding, Doing, RankInv, GoesByRole
      <4>3. areq[q].role = 1 => users[areq[q].target] = Absent \/ users[areq[q].target] >= 2
        <5> SUFFICES ASSUME areq[q].role = 1, Stored(areq[q].target)
                     PROVE  users[areq[q].target] >= 2
          BY DEF Stored
        <5>1. users[areq[q].target] \in Role
          BY <1>1, <3>1, <3>5 DEF db_get_user_role, Doing, Stored, AccountsTypeOK, AdminRequest
        <5>2. ~(users[areq[q].target] <= 1)
          BY <1>1, <3>2, <3>5 DEF db_get_user_role, Reply, AccountsTypeOK
        <5> QED
          BY <5>1, <5>2, RolesAreNumbers
      <4> QED
        BY <3>1, <3>5, <4>1, <4>2, <4>3 DEF db_get_user_role, Doing, AdminRequest
    <3>6. CASE db_add_user(q) \/ db_delete_user(q) \/ db_change_role(q) \/ db_update_password(q)
      <4>1. areq[q] # AIdle /\ areq[q].arg \in Role /\ users[areq[q].target] \in Role \cup {Absent}
        BY <1>1, <3>1, <3>6 DEF db_add_user, db_delete_user, db_change_role, db_update_password,
          Doing, AdminRequest, AccountsTypeOK
      <4>2. Change(q, areq[q].arg) \/ Change(q, Absent) \/ Change(q, users[areq[q].target])
        BY <1>1, <3>2, <3>6 DEF db_add_user, db_delete_user, db_change_role, db_update_password,
          Reply, AccountsTypeOK
      <4>3. areq'[q] = [areq[q] EXCEPT !.step = "log"]
        BY <1>1, <4>1, <4>2, ChangeWrites
      <4> QED
        BY <3>1, <3>2, <4>1, <4>3 DEF AdminRequest
    <3>7. CASE archive_line(q) \/ log_alert(q)
      BY <1>1, <3>1, <3>2, <3>7 DEF archive_line, log_alert, Doing, Goto, AdminRequest, AccountsTypeOK
    <3>8. CASE answer(q) \/ db_log_event(q) \/ db_clear_all_logs(q)
      BY <1>1, <3>2, <3>8 DEF answer, db_log_event, db_clear_all_logs, Reply, AccountsTypeOK
    <3> QED
      BY <1>4, <3>3, <3>4, <3>5, <3>6, <3>7, <3>8 DEF Administer
  <2> QED
    BY <2>1, <2>2 DEF GoesByRole, Doing
<1>5. CASE UNCHANGED accountVars
  BY <1>5 DEF accountVars, RankInv, GoesByRole, Deciding, Doing
<1> QED
  BY <1>2, <1>3, <1>4, <1>5 DEF AccountsNext

LEMMA RankInit == AccountsInit => RankInv
  BY MasterInit DEF RankInv, GoesByRole, AccountsInit, Deciding, Doing

\* An account is changed by a ROOT, or its password by an ADMIN if it is below
\* that, whatever roles the requests give and however they interleave, unless
\* the accounts one goes by changed.
THEOREM ChangedWithinRank == AccountsSpec => WithinRank
<1>1. RankInv /\ [AccountsNext]_accountVars =>
      [\A q \in AdminReq : Changed(q) /\ ~areq[q].moved =>
          LET rank == users[areq[q].user] IN
          \/ rank <= 0
          \/ rank = 1 /\ areq[q].op = "update" /\ users[areq[q].target] >= 2]_accountVars
  <2> SUFFICES ASSUME RankInv, [AccountsNext]_accountVars,
                      NEW q \in AdminReq, Changed(q), ~areq[q].moved
               PROVE  \/ users[areq[q].user] <= 0
                      \/ /\ users[areq[q].user] = 1 /\ areq[q].op = "update"
                         /\ users[areq[q].target] >= 2
    OBVIOUS
  <2>1. AccountsTypeOK /\ AccountsTypeOK' /\ areq[q] \in AdminRequest /\ areq[q].step = "act"
    BY AccountsTypeStep DEF RankInv, MasterInv, AccountsTypeOK, Changed, Doing
  <2>2. areq'[q].step = "log" /\ areq'[q] # AIdle /\ areq'[q] # areq[q]
    BY <2>1 DEF Changed, AdminRequest, AIdle
  <2>3. /\ areq[q].role <= Rank(areq[q].op) /\ users[areq[q].user] = areq[q].role
        /\ areq[q].op \in {"create", "delete", "role", "update"}
        /\ areq[q].op = "update" /\ areq[q].role = 1
           => users[areq[q].target] = Absent \/ users[areq[q].target] >= 2
    BY DEF RankInv, GoesByRole, MasterInv, AtWork, Changed, Deciding, Doing
  <2> DEFINE rank == areq[q].role
  <2>6. rank \in Int
    BY <2>1, RolesAreNumbers DEF AdminRequest
  <2>4. CASE areq[q].op # "update"
    <3>1. rank <= 0
      BY <2>3, <2>4 DEF Rank
    <3> QED
      BY <2>3, <3>1
  <2>5. CASE areq[q].op = "update"
    <3>1. areq[q].role <= 0 \/ areq[q].role = 1
      <4>1. rank <= 1
        BY <2>3, <2>5 DEF Rank
      <4> QED
        BY <2>6, <4>1
    <3>2. users[areq[q].target] # Absent
      <4>1. PICK p \in AdminReq : Administer(p)
        BY <2>1, <2>2 DEF AccountsNext, main_bootstrap, Killed, accountVars, AccountsTypeOK
      <4>2. p = q
        BY <2>1, <2>2, <4>1, OthersStay
      <4> QED
        BY <2>1, <2>2, <2>5, <4>1, <4>2 DEF Administer, authenticate_request, StartStep, answer,
          verify_sudo, db_add_user, db_delete_user, db_change_role, db_get_user_role,
          db_update_password, db_log_event, archive_line, log_alert, db_clear_all_logs, Doing,
          Reply, Stored, AccountsTypeOK
    <3> QED
      BY <2>3, <2>5, <3>1, <3>2
  <2> QED
    BY <2>4, <2>5
<1> QED
  BY <1>1, RankInit, RankStep, PTL DEF AccountsSpec, WithinRank

-----------------------------------------------------------------------------
(* The log and the accounts.                                                *)

\* What the event that a request has still to write will say.
WillSay(q) == IF areq[q].op = "delete" THEN Absent ELSE areq[q].arg

\* An account that is not blurred has at most one event to come, and that one
\* tells its state.
PendingTrue ==
    \A u \in User \ blurred : \A q \in Pending(u) : Pending(u) = {q} /\ WillSay(q) = users[u]

AuditInv == MasterInv /\ AuditTellsRole /\ PendingTrue

\* The events the other requests have to write stay what they are.
LEMMA PendingOfOthers ==
    ASSUME AccountsTypeOK, AccountsTypeOK', NEW q \in AdminReq, Administer(q),
           NEW p \in AdminReq \ {q}
    PROVE  /\ \A u \in User : p \in Pending(u)' <=> p \in Pending(u)
           /\ WillSay(p)' = WillSay(p)
  BY OthersStay DEF Pending, Doing, TellsRole, WillSay

\* A step that neither changes an account nor begins or ends the writing of an
\* event keeps the two in agreement.
LEMMA QuietStep ==
    ASSUME AuditInv, AccountsTypeOK', NEW q \in AdminReq, Administer(q), UNCHANGED <<users, blurred>>,
           \A u \in User : events'[u] \in {events[u], Unsaid},
           \A u \in User : q \in Pending(u)' <=> q \in Pending(u),
           WillSay(q)' = WillSay(q) \/ \A u \in User : q \notin Pending(u)
    PROVE  AuditTellsRole' /\ PendingTrue'
<1>1. \A u \in User : Pending(u)' = Pending(u)
  <2>1. \A u \in User : \A p \in AdminReq : p \in Pending(u)' <=> p \in Pending(u)
    BY PendingOfOthers DEF AuditInv, MasterInv
  <2> QED
    BY <2>1 DEF Pending
<1>2. \A u \in User : \A p \in Pending(u) : WillSay(p)' = WillSay(p)
  BY PendingOfOthers DEF AuditInv, MasterInv, Pending
<1>3. AuditTellsRole'
  BY <1>1 DEF AuditInv, AuditTellsRole
<1>4. PendingTrue'
  BY <1>1, <1>2 DEF AuditInv, PendingTrue
<1> QED
  BY <1>3, <1>4

\* A change of an account goes with an event to come that will tell it.
LEMMA ChangeToBeTold ==
    ASSUME AuditInv, AccountsTypeOK', NEW q \in AdminReq, Administer(q), Doing(q, "act"),
           NEW r \in Role \cup {Absent}, Change(q, r), TellsRole(q), r = WillSay(q)
    PROVE  AuditTellsRole' /\ PendingTrue'
<1> PICK t \in User : t = areq[q].target
  BY DEF AuditInv, MasterInv, Doing, AccountsTypeOK, AdminRequest
<1>1. AccountsTypeOK /\ areq[q] # AIdle /\ areq[q] \in AdminRequest
  BY DEF AuditInv, MasterInv, Doing, AccountsTypeOK
<1>2. areq'[q] = [areq[q] EXCEPT !.step = "log"]
  BY <1>1, ChangeWrites
<1>3. /\ users'[t] = r /\ \A u \in User \ {t} : users'[u] = users[u]
      /\ events' = events
      /\ blurred' = IF Pending(t) # {} THEN blurred \cup {t} ELSE blurred \ {t}
  BY <1>1 DEF Change, AccountsTypeOK
<1>4. \A u \in User : q \notin Pending(u)
  BY DEF Pending, Doing
<1>5. WillSay(q)' = WillSay(q)
  BY <1>1, <1>2 DEF WillSay, AdminRequest
<1>6. \A u \in User : q \in Pending(u)' <=> u = t
  BY <1>1, <1>2 DEF Pending, Doing, TellsRole, AdminRequest, AIdle
<1>7. \A u \in User \ {t} : Pending(u)' = Pending(u)
  <2>1. \A u \in User \ {t}, p \in AdminReq : p \in Pending(u)' <=> p \in Pending(u)
    BY <1>1, <1>4, <1>6, PendingOfOthers
  <2> QED
    BY <2>1 DEF Pending
<1>8. Pending(t) = {} => Pending(t)' = {q}
  <2>1. \A p \in AdminReq \ {q} : p \in Pending(t)' <=> p \in Pending(t)
    BY <1>1, PendingOfOthers
  <2> QED
    BY <1>1, <1>6, <2>1 DEF Pending
<1>9. \A u \in User \ {t} : \A p \in Pending(u) : WillSay(p)' = WillSay(p)
  BY <1>1, <1>4, PendingOfOthers DEF Pending
<1>10. q \in Pending(t)'
  BY <1>1, <1>6
<1>11. AuditTellsRole'
  <2> SUFFICES ASSUME NEW u \in User, u \notin blurred', Pending(u)' = {}, events'[u] # Unsaid
               PROVE  events'[u] = users'[u]
    BY DEF AuditTellsRole
  <2>1. u # t
    BY <1>10
  <2> QED
    BY <1>3, <1>7, <2>1 DEF AuditInv, AuditTellsRole
<1>12. PendingTrue'
  <2> SUFFICES ASSUME NEW u \in User, u \notin blurred', NEW p \in Pending(u)'
               PROVE  Pending(u)' = {p} /\ WillSay(p)' = users'[u]
    BY DEF PendingTrue
  <2>1. CASE u = t
    BY <1>3, <1>5, <1>8, <2>1
  <2>2. CASE u # t
    BY <1>3, <1>7, <1>9, <2>2 DEF AuditInv, PendingTrue
  <2> QED
    BY <2>1, <2>2
<1> QED
  BY <1>11, <1>12

\* When the event is written the log tells the state of the account.
LEMMA EventTells ==
    ASSUME AuditInv, AccountsTypeOK', NEW q \in AdminReq, Administer(q), db_log_event(q)
    PROVE  AuditTellsRole' /\ PendingTrue'
<1> PICK t \in User : t = areq[q].target
  BY DEF AuditInv, MasterInv, db_log_event, Doing, AccountsTypeOK, AdminRequest
<1>1. AccountsTypeOK /\ areq[q] # AIdle /\ areq[q] \in AdminRequest /\ areq[q].step = "log"
  BY DEF AuditInv, MasterInv, db_log_event, Doing, AccountsTypeOK
<1>2. areq'[q] = AIdle /\ users' = users
  BY <1>1 DEF db_log_event, Reply, AccountsTypeOK
<1>3. \A u \in User : q \notin Pending(u)'
  BY <1>2 DEF Pending, Doing
<1>4. \A u \in User \ {t} : events'[u] = events[u] /\ Pending(u)' = Pending(u)
  <2>1. \A u \in User \ {t} : events'[u] = events[u] /\ q \notin Pending(u)
    BY <1>1 DEF db_log_event, AccountsTypeOK, Pending
  <2>2. \A u \in User \ {t}, p \in AdminReq : p \in Pending(u)' <=> p \in Pending(u)
    BY <1>1, <1>3, <2>1, PendingOfOthers
  <2> QED
    BY <2>1, <2>2 DEF Pending
<1>5. Pending(t)' = Pending(t) \ {q}
  <2>1. \A p \in AdminReq \ {q} : p \in Pending(t)' <=> p \in Pending(t)
    BY <1>1, PendingOfOthers
  <2> QED
    BY <1>1, <1>3, <2>1 DEF Pending
<1>6. \A u \in User : \A p \in Pending(u)' : WillSay(p)' = WillSay(p)
  BY <1>1, <1>3, PendingOfOthers DEF Pending
<1>7. blurred \subseteq blurred' /\ \A u \in blurred' \ blurred : u = t /\ TellsRole(q)
  BY DEF db_log_event
<1>8. CASE TellsRole(q)
  <2>1. q \in Pending(t)
    BY <1>1, <1>8 DEF Pending, Doing
  <2>2. t \notin blurred' => events'[t] = users[t] /\ Pending(t)' = {}
    <3> SUFFICES ASSUME t \notin blurred' PROVE events'[t] = users[t] /\ Pending(t)' = {}
      OBVIOUS
    <3>1. Pending(t) = {q} /\ WillSay(q) = users[t]
      BY <1>1, <1>7, <2>1 DEF AuditInv, PendingTrue
    <3>2. events'[t] = Says(q)
      BY <1>1, <1>8 DEF db_log_event, AccountsTypeOK
    <3>3. Says(q) = WillSay(q)
      BY <1>8 DEF Says, WillSay, TellsRole
    <3> QED
      BY <1>5, <3>1, <3>2, <3>3
  <2>3. AuditTellsRole'
    BY <1>2, <1>4, <1>7, <2>2 DEF AuditInv, AuditTellsRole
  <2>4. PendingTrue'
    BY <1>2, <1>4, <1>6, <1>7, <2>2 DEF AuditInv, PendingTrue
  <2> QED
    BY <2>3, <2>4
<1>9. CASE ~TellsRole(q)
  <2>1. blurred' = blurred /\ events'[t] = events[t] /\ Pending(t)' = Pending(t)
    BY <1>1, <1>5, <1>9 DEF db_log_event, Says, TellsRole, AccountsTypeOK, Pending
  <2>2. \A u \in User : events'[u] = events[u] /\ Pending(u)' = Pending(u)
    BY <1>4, <2>1
  <2> QED
    BY <1>2, <1>6, <2>1, <2>2 DEF AuditInv, AuditTellsRole, PendingTrue
<1> QED
  BY <1>8, <1>9

LEMMA AuditStep == AuditInv /\ [AccountsNext]_accountVars => AuditInv'
<1> SUFFICES ASSUME AuditInv, [AccountsNext]_accountVars PROVE AuditTellsRole' /\ PendingTrue'
  BY MasterStep DEF AuditInv
<1>1. AccountsTypeOK /\ AccountsTypeOK'
  BY AccountsTypeStep DEF AuditInv, MasterInv
<1>2. CASE main_bootstrap
  <2>1. CASE users' = users
    BY <1>2, <2>1 DEF main_bootstrap, AuditInv, AuditTellsRole, PendingTrue, Pending, Doing,
      TellsRole, WillSay
  <2>2. CASE users' # users
    <3>1. users[Master] # 0
      BY <1>1, <1>2, <2>2, UserAssumption, RolesAreNumbers DEF main_bootstrap, Stored, AccountsTypeOK
    <3>2. (\A u \in User : events[u] = Unsaid) /\ (\A q \in AdminReq : areq[q] = AIdle)
      BY <3>1 DEF AuditInv, MasterInv, AtWork, LoggedByAccount
    <3> QED
      BY <1>2, <3>2 DEF main_bootstrap, AuditTellsRole, PendingTrue, Pending, Doing
  <2> QED
    BY <2>1, <2>2
<1>3. CASE Killed
  <2>1. /\ users' = users /\ events' = events
        /\ \A u \in User : Pending(u)' = {} /\ (u \notin blurred' => u \notin blurred /\ Pending(u) = {})
    BY <1>3 DEF Killed, Pending, Doing
  <2> QED
    BY <2>1 DEF AuditInv, AuditTellsRole, PendingTrue
<1>4. ASSUME NEW q \in AdminReq, Administer(q) PROVE AuditTellsRole' /\ PendingTrue'
  <2>1. areq[q] # AIdle => areq[q] \in AdminRequest
    BY <1>1 DEF AccountsTypeOK
  <2>2. ASSUME UNCHANGED <<users, blurred>>, \A u \in User : events'[u] \in {events[u], Unsaid},
               ~Doing(q, "log"), ~Doing(q, "log")'
        PROVE  AuditTellsRole' /\ PendingTrue'
    BY <1>1, <1>4, <2>2, QuietStep DEF Pending
  <2>3. CASE authenticate_request(q)
    BY <1>1, <2>2, <2>3 DEF authenticate_request, StartStep, Doing, AccountsTypeOK
  <2>4. CASE verify_sudo(q) \/ db_get_user_role(q) \/ archive_line(q) \/ log_alert(q)
    <3>1. ~Doing(q, "log") /\ UNCHANGED <<users, blurred, events>>
      BY <2>4 DEF verify_sudo, db_get_user_role, archive_line, log_alert, Doing
    <3>2. areq'[q] = AIdle \/ \E s \in Step \ {"log"} : areq'[q] = [areq[q] EXCEPT !.step = s]
      BY <1>1, <2>4 DEF verify_sudo, db_get_user_role, archive_line, log_alert, Goto, Reply,
        FirstStep, Step, AccountsTypeOK
    <3>3. ~Doing(q, "log")'
      BY <2>1, <2>4, <3>2 DEF verify_sudo, db_get_user_role, archive_line, log_alert, Doing,
        AdminRequest
    <3> QED
      BY <2>2, <3>1, <3>3
  <2>5. CASE answer(q) \/ db_clear_all_logs(q)
    BY <1>1, <2>2, <2>5 DEF answer, db_clear_all_logs, Doing, Reply, AccountsTypeOK
  <2>6. CASE db_log_event(q)
    BY <1>1, <1>4, <2>6, EventTells
  <2>7. CASE db_add_user(q) \/ db_delete_user(q) \/ db_change_role(q) \/ db_update_password(q)
    <3>1. Doing(q, "act") /\ areq[q] # AIdle /\ areq[q] \in AdminRequest
      BY <2>1, <2>7 DEF db_add_user, db_delete_user, db_change_role, db_update_password, Doing
    <3>2. CASE Reply(q) /\ UNCHANGED <<users, events, archive, up, blurred, admitted>>
      BY <1>1, <2>2, <3>1, <3>2 DEF Reply, Doing, AccountsTypeOK
    <3>3. CASE Change(q, WillSay(q)) /\ TellsRole(q)
      <4>1. WillSay(q) \in Role \cup {Absent}
        BY <3>1 DEF WillSay, AdminRequest
      <4> QED
        BY <1>1, <1>4, <3>1, <3>3, <4>1, ChangeToBeTold
    <3>4. CASE Change(q, users[areq[q].target]) /\ areq[q].op = "update"
      <4>1. users' = users /\ events' = events /\ blurred' = blurred
        BY <1>1, <3>1, <3>4 DEF Change, TellsRole, AccountsTypeOK, AdminRequest
      <4>2. areq'[q] = [areq[q] EXCEPT !.step = "log"]
        BY <1>1, <3>1, <3>4, ChangeWrites DEF AccountsTypeOK, AdminRequest
      <4>3. \A u \in User : q \notin Pending(u) /\ q \notin Pending(u)'
        BY <3>1, <3>4, <4>2 DEF Pending, TellsRole, AdminRequest, Doing
      <4> QED
        BY <1>1, <1>4, <4>1, <4>3, QuietStep
    <3> QED
      BY <2>7, <3>2, <3>3, <3>4 DEF db_add_user, db_delete_user, db_change_role,
        db_update_password, WillSay, TellsRole
  <2> QED
    BY <1>4, <2>3, <2>4, <2>5, <2>6, <2>7 DEF Administer
<1>5. CASE UNCHANGED accountVars
  BY <1>5 DEF accountVars, AuditInv, AuditTellsRole, PendingTrue, Pending, Doing, TellsRole, WillSay
<1> QED
  BY <1>2, <1>3, <1>4, <1>5 DEF AccountsNext

LEMMA AuditInit == AccountsInit => AuditInv
  BY MasterInit DEF AuditInv, AuditTellsRole, PendingTrue, AccountsInit, Pending, Doing

\* The last event about an account tells its role or its absence, but for
\* overlapping changes and lost events.
THEOREM AuditTrue == AccountsSpec => []AuditTellsRole
<1>1. AuditInv => AuditTellsRole
  BY DEF AuditInv
<1> QED
  BY <1>1, AuditInit, AuditStep, PTL DEF AccountsSpec

-----------------------------------------------------------------------------
(* What the server tells of itself.                                         *)

LEMMA ModRange == ASSUME NEW a \in Int, NEW m \in Nat \ {0} PROVE a % m \in 0..(m - 1)
  OBVIOUS

LEMMA ModSmall == ASSUME NEW m \in Nat \ {0}, NEW a \in 0..(m - 1) PROVE a % m = a
  OBVIOUS

LEMMA ModOnce == ASSUME NEW m \in Nat \ {0}, NEW a \in m..(2 * m - 1) PROVE a % m = a - m
  OBVIOUS

LEMMA MinOfTwo == ASSUME NEW a \in Nat, NEW b \in Nat PROVE Min({a, b}) = IF a <= b THEN a ELSE b
  BY DEF Min

\* A ring of size M into which n lines were written.
RingHolds ==
    LET M == MAX_LOG_ENTRIES IN
    /\ server_logs \in [0..(M - 1) -> Nat] /\ log_head \in 0..(M - 1)
    /\ lines \in Nat
    /\ log_count = IF lines < M THEN lines ELSE M
    /\ log_count < M => log_head = lines
    /\ \A s \in 0..(M - 1) : s < log_head => server_logs[s] = lines - log_head + s + 1
    /\ log_count = M => \A s \in 0..(M - 1) :
                            s >= log_head => server_logs[s] = lines - M - log_head + s + 1

\* The lines of the file, some of which may be missing, are in their order.
FileRises ==
    /\ arc_server_log \in Seq(Nat)
    /\ \A i \in 2..Len(arc_server_log) : arc_server_log[i - 1] < arc_server_log[i]
    /\ \A i \in 1..Len(arc_server_log) : arc_server_log[i] <= lines

LogInv == RingHolds /\ FileRises

LEMMA LogInit == TelemetryInit => LogInv
  BY SizeAssumption DEF TelemetryInit, LogInv, RingHolds, FileRises, NoLine

LEMMA LogStep == LogInv /\ [TelemetryNext]_telemetryVars => LogInv'
<1> SUFFICES ASSUME LogInv, [TelemetryNext]_telemetryVars PROVE LogInv'
  OBVIOUS
<1>1. CASE arc_log
  <2> DEFINE M == MAX_LOG_ENTRIES
  <2>1. M \in Nat \ {0}
    BY SizeAssumption
  <2>2. /\ lines' = lines + 1 /\ server_logs' = [server_logs EXCEPT ![log_head] = lines + 1]
        /\ log_count' = IF log_count < M THEN log_count + 1 ELSE log_count
        /\ arc_server_log' \in {arc_server_log, Append(arc_server_log, lines + 1)}
    BY <1>1 DEF arc_log
  <2>3. log_head' = IF log_head + 1 < M THEN log_head + 1 ELSE 0
    <3>1. CASE log_head + 1 < M
      <4>1. log_head + 1 \in 0..(M - 1) /\ log_head' = (log_head + 1) % M
        BY <1>1, <2>1, <3>1 DEF arc_log, LogInv, RingHolds
      <4> QED
        BY <2>1, <3>1, <4>1, ModSmall
    <3>2. CASE log_head + 1 = M
      BY <1>1, <2>1, <3>2, ModOnce DEF arc_log
    <3> QED
      BY <2>1, <3>1, <3>2 DEF LogInv, RingHolds
  <2>4. /\ server_logs' \in [0..(M - 1) -> Nat] /\ log_head' \in 0..(M - 1) /\ lines' \in Nat
        /\ log_count' = IF lines' < M THEN lines' ELSE M
        /\ log_count' < M => log_head' = lines'
    BY <2>1, <2>2, <2>3 DEF LogInv, RingHolds
  <2>5. ASSUME NEW s \in 0..(M - 1)
        PROVE  server_logs'[s] = IF s = log_head THEN lines + 1 ELSE server_logs[s]
    BY <2>2 DEF LogInv, RingHolds
  <2>6. ASSUME NEW s \in 0..(M - 1), s < log_head'
        PROVE  server_logs'[s] = lines' - log_head' + s + 1
    BY <2>1, <2>2, <2>3, <2>5, <2>6 DEF LogInv, RingHolds
  <2>7. ASSUME log_count' = M, NEW s \in 0..(M - 1), s >= log_head'
        PROVE  server_logs'[s] = lines' - M - log_head' + s + 1
    <3>1. /\ log_head \in 0..(M - 1) /\ lines \in Nat
          /\ log_count = IF lines < M THEN lines ELSE M
          /\ log_count < M => log_head = lines
          /\ s < log_head => server_logs[s] = lines - log_head + s + 1
          /\ log_count = M /\ s >= log_head => server_logs[s] = lines - M - log_head + s + 1
      BY DEF LogInv, RingHolds
    <3>2. CASE log_head' = 0
      <4>1. log_head = M - 1
        BY <2>1, <2>3, <3>1, <3>2
      <4> QED
        BY <2>1, <2>2, <2>5, <3>1, <3>2, <4>1
    <3>3. CASE log_head' # 0
      BY <2>1, <2>2, <2>3, <2>5, <2>7, <3>1, <3>3
    <3> QED
      BY <3>2, <3>3
  <2>8. RingHolds'
    BY <2>4, <2>6, <2>7 DEF RingHolds
  <2>9. FileRises'
    <3>1. FileRises /\ lines \in Nat
      BY DEF LogInv, RingHolds
    <3>2. CASE arc_server_log' = arc_server_log
      BY <2>2, <3>1, <3>2 DEF FileRises
    <3>3. CASE arc_server_log' = Append(arc_server_log, lines + 1)
      <4>1. /\ arc_server_log' \in Seq(Nat) /\ Len(arc_server_log') = Len(arc_server_log) + 1
            /\ arc_server_log'[Len(arc_server_log) + 1] = lines + 1
            /\ \A i \in 1..Len(arc_server_log) : arc_server_log'[i] = arc_server_log[i]
        BY <3>1, <3>3 DEF FileRises
      <4> DEFINE n == Len(arc_server_log)
      <4>2. n \in Nat /\ lines' = lines + 1
        BY <2>2, <3>1 DEF FileRises
      <4>3. ASSUME NEW i \in 1..(n + 1) PROVE arc_server_log'[i] <= lines + 1
        <5>1. i \in 1..n => arc_server_log[i] \in Nat /\ arc_server_log[i] <= lines
          BY <3>1 DEF FileRises
        <5>2. i \in 1..n \/ i = n + 1
          BY <4>2
        <5> QED
          BY <3>1, <4>1, <5>1, <5>2
      <4>4. ASSUME NEW i \in 2..(n + 1) PROVE arc_server_log'[i - 1] < arc_server_log'[i]
        <5>1. CASE i = n + 1
          <6>1. i - 1 \in 1..n /\ arc_server_log[i - 1] <= lines /\ arc_server_log[i - 1] \in Nat
            BY <3>1, <4>2, <5>1 DEF FileRises
          <6> QED
            BY <3>1, <4>1, <4>2, <5>1, <6>1
        <5>2. CASE i # n + 1
          <6>1. i \in 2..n /\ i \in 1..n /\ i - 1 \in 1..n
            BY <4>2, <5>2
          <6> QED
            BY <3>1, <4>1, <6>1 DEF FileRises
        <5> QED
          BY <5>1, <5>2
      <4> HIDE DEF n
      <4>5. Len(arc_server_log') = n + 1
        BY <4>1 DEF n
      <4> QED
        BY <4>1, <4>2, <4>3, <4>4, <4>5 DEF FileRises
    <3> QED
      BY <2>2, <3>2, <3>3
  <2> QED
    BY <2>8, <2>9 DEF LogInv
<1>2. CASE UNCHANGED logVars
  BY <1>2 DEF logVars, LogInv, RingHolds, FileRises
<1> QED
  BY <1>1, <1>2 DEF TelemetryNext, RouteNext, CpuNext, track_route, api_system_info_handler,
    read_stat, load, store, Tick, telemetryVars

\* For a ring of any size: the panel is shown the newest lines in their order.
THEOREM NewestShown == TelemetrySpec => []NewestLinesShown
<1>1. LogInv => NewestLinesShown
  <2> SUFFICES ASSUME LogInv PROVE NewestLinesShown
    OBVIOUS
  <2> DEFINE M == MAX_LOG_ENTRIES
  <2>1. M \in Nat \ {0}
    BY SizeAssumption
  <2>2. Min({lines, M}) = log_count
    BY <2>1, MinOfTwo DEF LogInv, RingHolds
  <2>3. /\ log_head \in 0..(M - 1) /\ lines \in Nat /\ log_count \in 0..M
        /\ log_count = IF lines < M THEN lines ELSE M
        /\ log_count < M => log_head = lines
    BY <2>1 DEF LogInv, RingHolds
  <2>4. ASSUME NEW i \in 1..log_count
        PROVE  server_logs[(LogStart + i - 1) % M] = lines - log_count + i
    <3>1. CASE log_count < M
      <4>1. LogStart + i - 1 = i - 1 /\ i - 1 \in 0..(M - 1) /\ i - 1 < log_head
        BY <2>1, <2>3, <3>1 DEF LogStart
      <4>2. (LogStart + i - 1) % M = i - 1
        BY <2>1, <4>1, ModSmall
      <4>3. server_logs[i - 1] = lines - log_head + (i - 1) + 1
        BY <4>1 DEF LogInv, RingHolds
      <4> QED
        BY <2>3, <3>1, <4>2, <4>3
    <3>2. CASE log_count = M /\ log_head + i - 1 < M
      <4> DEFINE s == log_head + i - 1
      <4>1. LogStart + i - 1 = s /\ s \in 0..(M - 1) /\ s >= log_head
        BY <2>1, <2>3, <3>2 DEF LogStart
      <4>2. s % M = s
        BY <2>1, <4>1, ModSmall
      <4>3. server_logs[s] = lines - M - log_head + s + 1
        BY <3>2, <4>1 DEF LogInv, RingHolds
      <4> QED
        BY <2>3, <3>2, <4>1, <4>2, <4>3
    <3>3. CASE log_count = M /\ log_head + i - 1 >= M
      <4> DEFINE s == log_head + i - 1
      <4>1. LogStart + i - 1 = s /\ s \in M..(2 * M - 1)
        BY <2>1, <2>3, <3>3 DEF LogStart
      <4>2. s % M = s - M
        BY <2>1, <4>1, ModOnce
      <4>3. s - M \in 0..(M - 1) /\ s - M < log_head
        BY <2>1, <2>3, <3>3
      <4>4. server_logs[s - M] = lines - log_head + (s - M) + 1
        BY <4>3 DEF LogInv, RingHolds
      <4> QED
        BY <2>1, <2>3, <3>3, <4>1, <4>2, <4>4
    <3> QED
      BY <2>1, <2>3, <3>1, <3>2, <3>3
  <2>5. api_logs_handler = [i \in 1..log_count |-> lines - log_count + i]
    BY <2>4 DEF api_logs_handler
  <2> QED
    BY <2>2, <2>5 DEF NewestLinesShown, LogInv, FileRises
<1> QED
  BY <1>1, LogInit, LogStep, PTL DEF TelemetrySpec

-----------------------------------------------------------------------------
(* The CPU's counters.                                                      *)

\* Sample b may be taken after a: no counter goes back, and idle ticks are
\* ticks.
Ahead(a, b) ==
    /\ a["total"] <= b["total"] /\ a["idle"] <= b["idle"]
    /\ b["idle"] - a["idle"] <= b["total"] - a["total"]

SamplesTyped ==
    /\ clock \in Sample /\ prev \in Sample /\ last \in Sample
    /\ probe \in [Prober -> Probe \cup {PIdle}]
    /\ crowded \in BOOLEAN

\* Samples are taken in their order.
SamplesOrdered ==
    /\ Ahead(Nowhere, clock) /\ Ahead(Nowhere, last) /\ Ahead(last, clock)
    /\ \A q \in Busy : Ahead(Nowhere, probe[q].now) /\ Ahead(probe[q].now, clock)

\* A request that is alone finds, after one that was alone, that one's sample.
AlonePrevious ==
    /\ Busy = {} /\ ~crowded => prev = last
    /\ \A q \in Busy : probe[q].alone =>
          /\ Busy = {q} /\ Ahead(last, probe[q].now)
          /\ probe[q].step = "compare" /\ ~crowded =>
                prev = last /\ \A c \in Counter \ probe[q].left : probe[q].seen[c] = last[c]
          /\ probe[q].step = "store" =>
                /\ \A c \in Counter \ probe[q].left : prev[c] = probe[q].now[c]
                /\ ~crowded => /\ probe[q].used = Share(probe[q].now, last).used
                               /\ probe[q].of = Share(probe[q].now, last).of

CpuInv == SamplesTyped /\ SamplesOrdered /\ AlonePrevious

LEMMA PIdleIsNoProbe == PIdle \notin Probe
  BY DEF PIdle, Probe

LEMMA ShareTyped ==
    ASSUME NEW a \in Sample, NEW b \in Sample
    PROVE  Share(a, b).used \in 0..(Word - 1) /\ Share(a, b).of \in 0..(Word - 1)
<1> DEFINE of == (a["total"] - b["total"]) % Word
           idle == (a["idle"] - b["idle"]) % Word
<1>1. Share(a, b) = IF b["total"] > 0 /\ b["idle"] > 0
                    THEN [used |-> (of - idle) % Word, of |-> of] ELSE [used |-> 0, of |-> 0]
  BY DEF Share
<1>2. Word \in Nat \ {0} /\ 0 \in 0..(Word - 1)
  BY WordAssumption, BoundsAssumption
<1>3. /\ a["total"] - b["total"] \in Int /\ a["idle"] - b["idle"] \in Int
  BY DEF Sample, Counter
<1>4. of \in 0..(Word - 1) /\ idle \in 0..(Word - 1)
  BY <1>2, <1>3, ModRange
<1> HIDE DEF of, idle
<1>5. of - idle \in Int
  BY <1>2, <1>4
<1>6. (of - idle) % Word \in 0..(Word - 1)
  BY <1>2, <1>5, ModRange
<1> DEFINE used == (of - idle) % Word
<1>7. /\ Share(a, b) = IF b["total"] > 0 /\ b["idle"] > 0
                       THEN [used |-> used, of |-> of] ELSE [used |-> 0, of |-> 0]
      /\ used \in 0..(Word - 1)
  BY <1>1, <1>6
<1> HIDE DEF used
<1> QED
  BY <1>2, <1>4, <1>7

LEMMA CpuInit == TelemetryInit => CpuInv
<1> SUFFICES ASSUME TelemetryInit PROVE CpuInv
  OBVIOUS
<1>1. Nowhere \in Sample
  BY BoundsAssumption DEF Nowhere, Sample
<1>2. Busy = {}
  BY DEF TelemetryInit, Busy
<1>3. Ahead(Nowhere, Nowhere)
  BY DEF Ahead, Nowhere, Counter
<1> QED
  BY <1>1, <1>2, <1>3 DEF TelemetryInit, CpuInv, SamplesTyped, SamplesOrdered, AlonePrevious

LEMMA CpuTick == CpuInv /\ Tick => CpuInv'
<1> SUFFICES ASSUME CpuInv, Tick PROVE CpuInv'
  OBVIOUS
<1>1. PICK n \in 0..1 : clock' = [clock EXCEPT !["total"] = @ + 1, !["idle"] = @ + n]
  BY DEF Tick
<1>2. /\ clock["total"] \in 0..MaxClock /\ clock["idle"] \in 0..MaxClock
      /\ clock["idle"] <= clock["total"] /\ clock["total"] < MaxClock
  BY DEF CpuInv, SamplesTyped, SamplesOrdered, Sample, Counter, Ahead, Nowhere, Tick
<1>3. clock' \in Sample /\ clock'["total"] = clock["total"] + 1 /\ clock'["idle"] = clock["idle"] + n
  BY <1>1, <1>2, BoundsAssumption DEF CpuInv, SamplesTyped, Sample, Counter
<1>4. ASSUME NEW a \in Sample, Ahead(a, clock) PROVE Ahead(a, clock')
  BY <1>2, <1>3, <1>4 DEF Ahead, Sample, Counter
<1>5. \A q \in Busy : probe[q].now \in Sample
  BY DEF CpuInv, SamplesTyped, Busy, Probe
<1>6. Nowhere \in Sample
  BY BoundsAssumption DEF Nowhere, Sample, Counter
<1>7. UNCHANGED <<prev, probe, last, crowded>>
  BY DEF Tick
<1>8. SamplesTyped'
  BY <1>3, <1>7 DEF CpuInv, SamplesTyped
<1>9. SamplesOrdered'
  BY <1>4, <1>5, <1>6, <1>7 DEF CpuInv, SamplesTyped, SamplesOrdered, Busy
<1>10. AlonePrevious'
  BY <1>7 DEF CpuInv, AlonePrevious, Busy
<1> QED
  BY <1>8, <1>9, <1>10 DEF CpuInv

LEMMA CpuRead == ASSUME CpuInv, NEW q \in Prober, read_stat(q) PROVE CpuInv'
<1> DEFINE new == [step |-> "compare", now |-> clock, seen |-> Nowhere, used |-> 0, of |-> 0,
                   left |-> Counter, alone |-> Busy = {}]
<1>1. /\ UNCHANGED <<clock, prev, last, crowded>> /\ probe[q] = PIdle /\ probe'[q] = new
      /\ \A p \in Prober \ {q} : probe'[p] = IF p \in Busy THEN [probe[p] EXCEPT !.alone = FALSE]
                                             ELSE PIdle
  <2>1. probe' = [p \in Prober |-> CASE p = q -> new
                                    [] p \in Busy -> [probe[p] EXCEPT !.alone = FALSE]
                                    [] OTHER -> PIdle]
    BY DEF read_stat
  <2>2. probe[q] = PIdle /\ q \notin Busy
    BY DEF read_stat, Busy
  <2> HIDE DEF new
  <2>3. probe'[q] = new
    BY <2>1, <2>2
  <2>4. \A p \in Prober \ {q} : probe'[p] = IF p \in Busy THEN [probe[p] EXCEPT !.alone = FALSE]
                                             ELSE PIdle
    BY <2>1
  <2> QED
    BY <2>2, <2>3, <2>4 DEF read_stat
<1>2. new \in Probe
  <2>1. Nowhere \in Sample /\ clock \in Sample /\ Word > 0
    BY BoundsAssumption, WordAssumption DEF Nowhere, Sample, Counter, CpuInv, SamplesTyped
  <2> QED
    BY <2>1, WordAssumption DEF Probe
<1>3. \A p \in Busy : probe[p] \in Probe /\ p \in Prober /\ p # q
  BY <1>1 DEF Busy, CpuInv, SamplesTyped
<1>4. \A p \in Busy : /\ probe'[p] \in Probe /\ probe'[p].now = probe[p].now
                      /\ probe'[p].alone = FALSE
  BY <1>1, <1>3 DEF Probe
<1>5. SamplesTyped'
  <2>1. \A p \in Prober : probe'[p] \in Probe \cup {PIdle}
    BY <1>1, <1>2, <1>4
  <2> QED
    BY <1>1, <2>1 DEF CpuInv, SamplesTyped, read_stat
<1>6. Busy' = Busy \cup {q}
  BY <1>1, <1>2, <1>4, PIdleIsNoProbe DEF Busy
<1>7. SamplesOrdered'
  <2>1. Ahead(clock, clock)
    BY DEF Ahead, CpuInv, SamplesTyped, Sample, Counter
  <2> QED
    BY <1>1, <1>4, <1>6, <2>1 DEF CpuInv, SamplesOrdered
<1>8. AlonePrevious'
  <2>1. /\ probe'[q].alone => Busy = {}
        /\ probe'[q].step = "compare" /\ probe'[q].left = Counter /\ probe'[q].now = clock
    <3>1. new.alone => Busy = {}
      BY Zenon
    <3>2. new.step = "compare" /\ new.left = Counter /\ new.now = clock
      BY Zenon
    <3> HIDE DEF new
    <3> QED
      BY <1>1, <3>1, <3>2
  <2>2. Busy = {} /\ ~crowded => prev = last
    BY DEF CpuInv, AlonePrevious
  <2>3. Ahead(last, clock)
    BY DEF CpuInv, SamplesOrdered
  <2> QED
    BY <1>1, <1>4, <1>6, <2>1, <2>2, <2>3 DEF AlonePrevious
<1> QED
  BY <1>5, <1>7, <1>8 DEF CpuInv

LEMMA CpuLoad == ASSUME CpuInv, NEW q \in Prober, NEW c \in Counter, load(q, c) PROVE CpuInv'
<1> DEFINE seen == [probe[q].seen EXCEPT ![c] = prev[c]]
           share == Share(probe[q].now, seen)
<1>1. /\ probe[q] \in Probe /\ probe[q].step = "compare" /\ c \in probe[q].left /\ q \in Busy
  BY DEF load, Probing, Busy, CpuInv, SamplesTyped
<1>2. UNCHANGED <<clock, prev, last, crowded>> /\ \A p \in Prober \ {q} : probe'[p] = probe[p]
  BY DEF load, CpuInv, SamplesTyped
<1>3. /\ seen \in Sample /\ seen[c] = prev[c]
      /\ \A d \in Counter \ {c} : seen[d] = probe[q].seen[d]
  BY <1>1 DEF CpuInv, SamplesTyped, Probe, Sample
<1>4. share.used \in 0..(Word - 1) /\ share.of \in 0..(Word - 1)
  BY <1>1, <1>3, ShareTyped DEF Probe
<1>5. probe'[q] = IF probe[q].left = {c}
                  THEN [probe[q] EXCEPT !.step = "store", !.seen = seen, !.used = share.used,
                                        !.of = share.of, !.left = Counter]
                  ELSE [probe[q] EXCEPT !.seen = seen, !.left = @ \ {c}]
  <2> DEFINE new == IF probe[q].left = {c}
                    THEN [probe[q] EXCEPT !.step = "store", !.seen = seen, !.used = share.used,
                                          !.of = share.of, !.left = Counter]
                    ELSE [probe[q] EXCEPT !.seen = seen, !.left = @ \ {c}]
  <2>1. probe' = [probe EXCEPT ![q] = new]
    BY DEF load
  <2>2. q \in DOMAIN probe
    BY DEF CpuInv, SamplesTyped
  <2>3. probe'[q] = new
    <3> HIDE DEF new
    <3> QED
      BY <2>1, <2>2
  <2> QED
    BY <2>3
<1> HIDE DEF seen, share
<1>6. /\ probe'[q] \in Probe /\ probe'[q].now = probe[q].now /\ probe'[q].alone = probe[q].alone
  BY <1>1, <1>3, <1>4, <1>5 DEF Probe
<1>7. SamplesTyped'
  <2>1. probe' \in [Prober -> Probe \cup {PIdle}]
    BY <1>6 DEF load, CpuInv, SamplesTyped
  <2> QED
    BY <1>2, <2>1 DEF CpuInv, SamplesTyped
<1>8. Busy' = Busy
  BY <1>1, <1>2, <1>6, PIdleIsNoProbe DEF Busy
<1>9. SamplesOrdered'
  BY <1>2, <1>6, <1>8 DEF CpuInv, SamplesOrdered, Busy
<1>10. AlonePrevious'
  <2>1. ASSUME probe[q].alone
        PROVE  /\ Busy = {q} /\ Ahead(last, probe[q].now)
               /\ ~crowded => prev = last /\ \A d \in Counter \ probe[q].left : probe[q].seen[d] = last[d]
    BY <1>1, <2>1 DEF CpuInv, AlonePrevious
  <2>2. CASE probe[q].left = {c}
    <3>1. probe'[q].step = "store" /\ probe'[q].left = Counter
          /\ probe'[q].used = share.used /\ probe'[q].of = share.of
      BY <1>1, <1>5, <2>2 DEF Probe
    <3>2. probe[q].alone /\ ~crowded => seen = last
      BY <1>3, <2>1, <2>2 DEF CpuInv, SamplesTyped, Sample
    <3> QED
      BY <1>1, <1>2, <1>6, <1>8, <2>1, <3>1, <3>2 DEF AlonePrevious, CpuInv, Busy, share
  <2>3. CASE probe[q].left # {c}
    <3>1. probe'[q].step = "compare" /\ probe'[q].left = probe[q].left \ {c} /\ probe'[q].seen = seen
      BY <1>1, <1>5, <2>3 DEF Probe
    <3> QED
      BY <1>1, <1>2, <1>3, <1>6, <1>8, <2>1, <3>1 DEF AlonePrevious, CpuInv, Busy
  <2> QED
    BY <2>2, <2>3
<1> QED
  BY <1>7, <1>9, <1>10 DEF CpuInv

LEMMA CpuStore == ASSUME CpuInv, NEW q \in Prober, NEW c \in Counter, store(q, c) PROVE CpuInv'
<1>1. /\ probe[q] \in Probe /\ probe[q].step = "store" /\ c \in probe[q].left /\ q \in Busy
      /\ probe[q].now \in Sample
  BY DEF store, Probing, Busy, CpuInv, SamplesTyped, Probe
<1>2. /\ clock' = clock /\ \A p \in Prober \ {q} : probe'[p] = probe[p]
      /\ prev' = [prev EXCEPT ![c] = probe[q].now[c]]
  BY DEF store, CpuInv, SamplesTyped
<1>3. /\ prev' \in Sample /\ prev'[c] = probe[q].now[c]
      /\ \A d \in Counter \ {c} : prev'[d] = prev[d]
  BY <1>1, <1>2 DEF CpuInv, SamplesTyped, Sample
<1>4. CASE probe[q].left = {c}
  <2>1. probe'[q] = PIdle /\ last' = probe[q].now /\ crowded' = ~probe[q].alone
    BY <1>4 DEF store, CpuInv, SamplesTyped
  <2>2. Busy' = Busy \ {q}
    BY <1>1, <1>2, <2>1 DEF Busy
  <2>3. SamplesTyped'
    <3>1. probe' \in [Prober -> Probe \cup {PIdle}] /\ crowded' \in BOOLEAN
      BY <1>4, <2>1 DEF store, CpuInv, SamplesTyped
    <3> QED
      BY <1>1, <1>2, <1>3, <2>1, <3>1 DEF CpuInv, SamplesTyped
  <2>4. SamplesOrdered'
    BY <1>1, <1>2, <2>1, <2>2 DEF CpuInv, SamplesOrdered, Busy
  <2>5. probe[q].alone => Busy = {q} /\ prev' = probe[q].now
    <3>1. probe[q].alone => Busy = {q} /\ \A d \in Counter \ {c} : prev[d] = probe[q].now[d]
      BY <1>1, <1>4 DEF CpuInv, AlonePrevious
    <3> QED
      BY <1>1, <1>3, <3>1 DEF Sample
  <2>6. \A p \in Busy \ {q} : ~probe[p].alone
    BY <1>1 DEF CpuInv, AlonePrevious
  <2>7. AlonePrevious'
    BY <1>2, <2>1, <2>2, <2>5, <2>6 DEF AlonePrevious, Busy
  <2> QED
    BY <2>3, <2>4, <2>7 DEF CpuInv
<1>5. CASE probe[q].left # {c}
  <2>1. probe'[q] = [probe[q] EXCEPT !.left = @ \ {c}] /\ UNCHANGED <<last, crowded>>
    BY <1>5 DEF store, CpuInv, SamplesTyped
  <2>2. /\ probe'[q] \in Probe /\ probe'[q].now = probe[q].now /\ probe'[q].alone = probe[q].alone
        /\ probe'[q].step = "store" /\ probe'[q].left = probe[q].left \ {c}
        /\ probe'[q].used = probe[q].used /\ probe'[q].of = probe[q].of
    BY <1>1, <2>1 DEF Probe
  <2>3. SamplesTyped'
    <3>1. probe' \in [Prober -> Probe \cup {PIdle}]
      BY <1>5, <2>2 DEF store, CpuInv, SamplesTyped
    <3> QED
      BY <1>2, <1>3, <2>1, <3>1 DEF CpuInv, SamplesTyped
  <2>4. Busy' = Busy
    BY <1>1, <1>2, <2>2, PIdleIsNoProbe DEF Busy
  <2>5. SamplesOrdered'
    BY <1>1, <1>2, <2>1, <2>2, <2>4 DEF CpuInv, SamplesOrdered, Busy
  <2>6. AlonePrevious'
    <3>1. probe[q].alone =>
             /\ Busy = {q} /\ Ahead(last, probe[q].now)
             /\ \A d \in Counter \ probe[q].left : prev[d] = probe[q].now[d]
             /\ ~crowded => /\ probe[q].used = Share(probe[q].now, last).used
                            /\ probe[q].of = Share(probe[q].now, last).of
      BY <1>1 DEF CpuInv, AlonePrevious
    <3>2. \A p \in Busy \ {q} : ~probe[p].alone
      BY <1>1 DEF CpuInv, AlonePrevious
    <3>3. probe[q].alone => \A d \in Counter \ probe'[q].left : prev'[d] = probe[q].now[d]
      BY <1>3, <2>2, <3>1
    <3>4. \A p \in Busy' : probe'[p].alone => p = q
      BY <1>2, <2>4, <3>2 DEF Busy
    <3>5. ~(Busy' = {} /\ ~crowded')
      BY <1>1, <2>4
    <3>6. probe'[q].alone =>
             /\ Busy' = {q} /\ Ahead(last', probe'[q].now)
             /\ probe'[q].step = "store" /\ \A d \in Counter \ probe'[q].left : prev'[d] = probe'[q].now[d]
             /\ ~crowded' => /\ probe'[q].used = Share(probe'[q].now, last').used
                             /\ probe'[q].of = Share(probe'[q].now, last').of
      BY <2>1, <2>2, <2>4, <3>1, <3>3
    <3> QED
      BY <3>4, <3>5, <3>6 DEF AlonePrevious
  <2> QED
    BY <2>3, <2>5, <2>6 DEF CpuInv
<1> QED
  BY <1>4, <1>5

LEMMA CpuStep == CpuInv /\ [TelemetryNext]_telemetryVars => CpuInv'
<1> SUFFICES ASSUME CpuInv, [TelemetryNext]_telemetryVars PROVE CpuInv'
  OBVIOUS
<1>1. CASE UNCHANGED cpuVars
  BY <1>1 DEF cpuVars, CpuInv, SamplesTyped, SamplesOrdered, AlonePrevious, Busy
<1>2. CASE Tick
  BY <1>2, CpuTick
<1>3. ASSUME NEW q \in Prober, api_system_info_handler(q) PROVE CpuInv'
  BY <1>3, CpuRead, CpuLoad, CpuStore DEF api_system_info_handler
<1> QED
  BY <1>1, <1>2, <1>3 DEF TelemetryNext, RouteNext, CpuNext, arc_log, track_route, telemetryVars

\* A request that overlaps no other, after one that did not either, reports
\* the share of busy ticks between the two, for any number of requests.
THEOREM UsageReported == TelemetrySpec => []UsageTrue
<1>1. CpuInv => UsageTrue
  <2> SUFFICES ASSUME CpuInv, NEW q \in Prober, Probing(q, "store"), probe[q].alone, ~crowded,
                      last["idle"] > 0
               PROVE  /\ probe[q].of = probe[q].now["total"] - last["total"]
                      /\ probe[q].used = probe[q].of - (probe[q].now["idle"] - last["idle"])
    BY DEF UsageTrue
  <2> DEFINE t == probe[q].now["total"] - last["total"]
             i == probe[q].now["idle"] - last["idle"]
  <2>1. /\ Ahead(last, probe[q].now) /\ Ahead(Nowhere, last)
        /\ probe[q].used = Share(probe[q].now, last).used
        /\ probe[q].of = Share(probe[q].now, last).of
    BY DEF CpuInv, SamplesOrdered, AlonePrevious, Probing, Busy
  <2>2. /\ last["total"] \in 0..MaxClock /\ last["idle"] \in 0..MaxClock
        /\ probe[q].now["total"] \in 0..MaxClock /\ probe[q].now["idle"] \in 0..MaxClock
    BY DEF CpuInv, SamplesTyped, Probing, Probe, Sample, Counter
  <2>3. t \in 0..(Word - 1) /\ i \in 0..(Word - 1) /\ i <= t /\ last["total"] > 0
    BY <2>1, <2>2, BoundsAssumption, WordAssumption DEF Ahead, Nowhere, Counter
  <2>4. Word \in Nat \ {0}
    BY BoundsAssumption, WordAssumption
  <2>5. t % Word = t /\ i % Word = i /\ (t - i) % Word = t - i
    <3>1. t - i \in 0..(Word - 1)
      BY <2>3, <2>4
    <3> QED
      BY <2>3, <2>4, <3>1, ModSmall
  <2>6. Share(probe[q].now, last).of = t /\ Share(probe[q].now, last).used = t - i
    BY <2>3, <2>5 DEF Share
  <2> QED
    BY <2>1, <2>6
<1> QED
  BY <1>1, CpuInit, CpuStep, PTL DEF TelemetrySpec

LEMMA SeqPut ==
    ASSUME NEW E, NEW s \in Seq(E), NEW i, NEW e, i \in DOMAIN s => e \in E
    PROVE  [s EXCEPT ![i] = e] \in Seq(E)
<1>1. CASE i \in DOMAIN s
  BY <1>1
<1>2. CASE i \notin DOMAIN s
  <2>1. DOMAIN s = 1..Len(s) /\ Len(s) \in Nat /\ \A j \in 1..Len(s) : s[j] \in E
    OBVIOUS
  <2>2. DOMAIN [s EXCEPT ![i] = e] = 1..Len(s) /\ \A j \in 1..Len(s) : [s EXCEPT ![i] = e][j] = s[j]
    BY <1>2, <2>1
  <2>3. [s EXCEPT ![i] = e] = s
    BY <2>1, <2>2
  <2> QED
    BY <2>3
<1> QED
  BY <1>1, <1>2

LEMMA CountRaised ==
    ASSUME NEW P, NEW s \in Seq([path : P, count : Nat \ {0}]), NEW i
    PROVE  [s EXCEPT ![i].count = @ + 1] \in Seq([path : P, count : Nat \ {0}])
<1> DEFINE E == [path : P, count : Nat \ {0}]
           e == [s[i] EXCEPT !.count = @ + 1]
<1>1. ASSUME NEW r \in E PROVE [r EXCEPT !.count = @ + 1] \in E
  OBVIOUS
<1>2. [s EXCEPT ![i] = e] \in Seq(E)
  <2> HIDE DEF E
  <2>1. ASSUME i \in DOMAIN s PROVE s[i] \in E
    <3>1. s \in Seq(E)
      BY DEF E
    <3> QED
      BY <2>1, <3>1
  <2>2. i \in DOMAIN s => e \in E
    <3> SUFFICES ASSUME i \in DOMAIN s PROVE e \in E
      OBVIOUS
    <3>1. s[i] \in E
      BY <2>1
    <3> QED
      BY <1>1, <3>1
  <2>3. s \in Seq(E)
    BY DEF E
  <2> HIDE DEF e
  <2> QED
    BY <2>2, <2>3, SeqPut
<1>3. [s EXCEPT ![i].count = @ + 1] = [s EXCEPT ![i] = e]
  BY Zenon
<1> QED
  BY <1>2, <1>3

\* The ring, the table of the routes and the samples keep their types.
THEOREM TelemetryTypeInvariant == TelemetrySpec => []TelemetryTypeOK
<1> DEFINE Stat == [path : {Cut[p] : p \in Url}, count : Nat \ {0}]
           RoutesTyped == route_stats \in Seq(Stat) /\ hits \in Seq(Url)
<1>1. TelemetryInit => RoutesTyped
  BY DEF TelemetryInit
<1>2. RoutesTyped /\ [TelemetryNext]_telemetryVars => RoutesTyped'
  <2> SUFFICES ASSUME RoutesTyped, [TelemetryNext]_telemetryVars PROVE RoutesTyped'
    OBVIOUS
  <2>1. ASSUME NEW p \in Url, track_route(p) PROVE RoutesTyped'
    <3>1. hits' \in Seq(Url)
      BY <2>1 DEF track_route
    <3>2. CASE route_stats' = [route_stats EXCEPT ![Min(Known(p))].count = @ + 1]
      BY <3>1, <3>2, CountRaised
    <3>3. CASE route_stats' = Append(route_stats, [path |-> Cut[p], count |-> 1])
      BY <3>1, <3>3
    <3> QED
      BY <2>1, <3>1, <3>2, <3>3 DEF track_route
  <2>2. CASE UNCHANGED routeVars
    BY <2>2 DEF routeVars
  <2> QED
    BY <2>1, <2>2 DEF TelemetryNext, RouteNext, CpuNext, arc_log, Tick, api_system_info_handler,
      read_stat, load, store, telemetryVars
<1>3. RoutesTyped /\ LogInv /\ CpuInv => TelemetryTypeOK
  BY SizeAssumption DEF TelemetryTypeOK, LogInv, RingHolds, FileRises, CpuInv, SamplesTyped
<1> HIDE DEF RoutesTyped
<1> QED
  BY <1>1, <1>2, <1>3, LogInit, LogStep, CpuInit, CpuStep, PTL DEF TelemetrySpec

-----------------------------------------------------------------------------
(* Downloads while uploads replace the file and deletes take it.            *)

\* Files and uploads are numbered in their order; who writes has a file.
Dated ==
    /\ name <= version
    /\ \A u \in Uploading :
          /\ upload[u].version \in 1..version /\ upload[u].file <= version
          /\ upload[u].step \in {"write", "register"} => upload[u].file # NoFile

\* An upload that runs alone finds no row once it has opened its file, and
\* what the file has is what arrived so far.
AloneUpload ==
    \A u \in Uploading : upload[u].alone =>
        /\ Uploading = {u} /\ Removing = {}
        /\ upload[u].step \in {"open", "write", "register"} => row = NoRow
        /\ upload[u].step \notin {"write", "register"} => upload[u].pos = 0
        /\ upload[u].step \in {"write", "register"} =>
              /\ name = upload[u].file
              /\ data[name] = [i \in 1..upload[u].pos |-> upload[u].version]
        /\ upload[u].step = "register" /\ upload[u].pos < Blocks => upload[u].broken

\* The row of such an upload tells its file until somebody removes the file,
\* and that somebody will remove the row: a delete that came before it would
\* have run next to the upload, so the one in progress has this row in mind.
AloneRow ==
    row # NoRow /\ row.alone =>
        /\ \A u \in Uploading : upload[u].step \in {"lookup", "remove", "unregister"}
        /\ \A r \in Removing : removal[r].id \in {0, row.by}
        /\ \/ \E u \in Uploading : upload[u].step = "unregister"
           \/ \E r \in Removing : removal[r].step = "unregister"
           \/ /\ name # NoFile
              /\ data[name] = [i \in 1..row.size |-> row.by]
              /\ row.size < Blocks => row.broken

\* A file no upload writes any more: whoever wants its name has to take the
\* name from it first.
Safe(f) ==
    /\ f <= version
    /\ name = f => row # NoRow /\ \A u \in Uploading : upload[u].step \in {"lookup", "remove"}
    /\ \A u \in Uploading : upload[u].version # f /\ upload[u].file # f

\* A download that was sure of its file reads what it announced.  Until it
\* has the file open, the file has a row whenever no upload is in progress:
\* the last upload to end leaves a row or no file, a delete that leaves the
\* file makes the download unsure.
Sure(d) ==
    /\ DownAt(d, "stat") =>
          /\ download[d].sent = <<>> /\ download[d].promised = <<>>
          /\ ~download[d].unsure /\ Uploading = {} /\ name # NoFile => row # NoRow
    /\ DownAt(d, "open") => download[d].sent = <<>>
    /\ DownAt(d, "open") /\ ~download[d].unsure =>
          /\ Uploading = {}
          /\ name # NoFile => row # NoRow /\ download[d].promised = data[name]
    /\ DownAt(d, "send") =>
          /\ download[d].file # NoFile
          /\ ~download[d].unsure =>
                LET f == download[d].file
                    sent == download[d].sent IN
                /\ Safe(f) /\ download[d].promised = data[f]
                /\ Len(sent) <= Len(data[f])
                /\ \A j \in 1..Len(sent) : sent[j] = data[f][j]
    /\ DownAt(d, "count") /\ ~download[d].unsure => download[d].sent = download[d].promised

SureReads == \A d \in Downloader : Sure(d)

ServingInv == ServingTypeOK /\ Dated /\ AloneUpload /\ AloneRow /\ SureReads

LEMMA NoneApart == SIdle \notin Upload /\ SIdle \notin Download /\ NoRow \notin Row
  BY DEF SIdle, Upload, Download, NoRow, Row, Inode

LEMMA ContentIs ==
    /\ <<>> \in Content
    /\ \A s \in Content : Len(s) \in 0..Blocks /\ s \in [1..Len(s) -> Version] /\ s \in Seq(Version)
    /\ \A n \in 0..Blocks : [1..n -> Version] \subseteq Content
<1>1. <<>> \in [1..0 -> Version] /\ 0 \in 0..Blocks
  BY BlocksAssumption
<1>2. ASSUME NEW s \in Content
      PROVE  Len(s) \in 0..Blocks /\ s \in [1..Len(s) -> Version] /\ s \in Seq(Version)
  <2>1. PICK n \in 0..Blocks : s \in [1..n -> Version]
    BY DEF Content
  <2>2. n \in Nat /\ s \in Seq(Version) /\ DOMAIN s = 1..n
    BY <2>1, BlocksAssumption
  <2>3. Len(s) = n
    BY <2>2
  <2> QED
    BY <2>1, <2>2, <2>3
<1> QED
  BY <1>1, <1>2 DEF Content

LEMMA AppendIs ==
    ASSUME NEW V, NEW s \in Seq(V), NEW v \in V
    PROVE  /\ Len(Append(s, v)) = Len(s) + 1
           /\ Append(s, v) \in [1..(Len(s) + 1) -> V]
           /\ \A j \in 1..(Len(s) + 1) : Append(s, v)[j] = IF j = Len(s) + 1 THEN v ELSE s[j]
<1>1. /\ Append(s, v) \in Seq(V) /\ Len(Append(s, v)) = Len(s) + 1
  OBVIOUS
<1>2. \A j \in 1..(Len(s) + 1) : Append(s, v)[j] = IF j = Len(s) + 1 THEN v ELSE s[j]
  OBVIOUS
<1>3. \A t \in Seq(V) : t \in [1..Len(t) -> V]
  OBVIOUS
<1> QED
  BY <1>1, <1>2, <1>3

LEMMA PutContent ==
    ASSUME NEW s \in Content, NEW i \in 1..Blocks, NEW v \in Version
    PROVE  Put(s, i, v) \in Content
<1>1. Len(s) \in 0..Blocks /\ s \in [1..Len(s) -> Version] /\ 0 \in Version
  BY ContentIs, ServingBounds DEF Version
<1> DEFINE n == IF i > Len(s) THEN i ELSE Len(s)
<1>2. n \in 0..Blocks
  BY <1>1, BlocksAssumption
<1>3. \A j \in 1..n : (CASE j = i -> v [] j # i /\ j <= Len(s) -> s[j] [] OTHER -> 0) \in Version
  BY <1>1
<1>4. Put(s, i, v) \in [1..n -> Version]
  BY <1>3 DEF Put
<1> QED
  BY <1>2, <1>4, ContentIs

LEMMA PutNext ==
    ASSUME NEW n \in Nat, NEW v
    PROVE  Put([j \in 1..n |-> v], n + 1, v) = [j \in 1..(n + 1) |-> v]
<1> DEFINE s == [j \in 1..n |-> v]
<1>1. Len(s) = n
  OBVIOUS
<1>2. Put(s, n + 1, v) = [j \in 1..(n + 1) |->
                            CASE j = n + 1 -> v [] j # n + 1 /\ j <= n -> s[j] [] OTHER -> 0]
  BY <1>1 DEF Put
<1>3. \A j \in 1..(n + 1) : (CASE j = n + 1 -> v [] j # n + 1 /\ j <= n -> s[j] [] OTHER -> 0) = v
  OBVIOUS
<1> HIDE DEF s
<1>4. Put(s, n + 1, v) = [j \in 1..(n + 1) |-> v]
  BY <1>2, <1>3
<1> QED
  BY <1>4 DEF s

LEMMA ServingStart == ServingInit => ServingInv
<1> SUFFICES ASSUME ServingInit PROVE ServingInv
  OBVIOUS
<1>1. Uploading = {} /\ Removing = {} /\ \A d \in Downloader : download[d] = SIdle
  BY DEF ServingInit, Uploading, Removing
<1>2. ServingTypeOK
  BY ContentIs, ServingBounds DEF ServingInit, ServingTypeOK, Version
<1>3. SureReads
  BY <1>1 DEF SureReads, Sure, DownAt
<1> QED
  BY <1>1, <1>2, <1>3 DEF ServingInit, ServingInv, Dated, AloneUpload, AloneRow, NoFile

LEMMA UploadMoves ==
    ASSUME ServingTypeOK, NEW u \in Uploading, NEW r \in Upload, upload' = [upload EXCEPT ![u] = r]
    PROVE  /\ Uploading' = Uploading /\ upload'[u] = r
           /\ \A v \in Uploading \ {u} : upload'[v] = upload[v]
           /\ upload' \in [Uploader -> Upload \cup {SIdle}]
  BY NoneApart DEF ServingTypeOK, Uploading

LEMMA UploadEnds ==
    ASSUME ServingTypeOK, NEW u \in Uploading, upload' = [upload EXCEPT ![u] = SIdle]
    PROVE  /\ Uploading' = Uploading \ {u}
           /\ \A v \in Uploading \ {u} : upload'[v] = upload[v]
           /\ upload' \in [Uploader -> Upload \cup {SIdle}]
  BY DEF ServingTypeOK, Uploading

LEMMA KeepBegin == ASSUME ServingInv, NEW u \in Uploader, UploadBegin(u) PROVE ServingInv'
<1> DEFINE new == [step |-> "lookup", version |-> version + 1, file |-> NoFile, pos |-> 0,
                   broken |-> FALSE, alone |-> Uploading \cup Removing = {}]
<1>1. /\ UNCHANGED <<name, data, row, removal, downloads>> /\ version' = version + 1
      /\ Removing' = Removing
      /\ version \in Nat /\ version' \in Version /\ version + 1 \in Inode
  BY ServingBounds DEF UploadBegin, Removing, ServingInv, ServingTypeOK, Version, Inode
<1>2. /\ upload[u] = SIdle /\ upload'[u] = new
      /\ \A v \in Uploader \ {u} : upload'[v] = IF v \in Uploading
                                              THEN [upload[v] EXCEPT !.alone = FALSE] ELSE SIdle
  <2>1. /\ upload[u] = SIdle /\ u \notin Uploading
        /\ upload' = [v \in Uploader |->
                        CASE v = u -> new
                          [] v \in Uploading -> [upload[v] EXCEPT !.alone = FALSE]
                          [] OTHER -> SIdle]
    BY DEF UploadBegin, Uploading
  <2> HIDE DEF new
  <2>2. upload'[u] = new
    BY <2>1
  <2>3. \A v \in Uploader \ {u} : upload'[v] = IF v \in Uploading
                                              THEN [upload[v] EXCEPT !.alone = FALSE] ELSE SIdle
    BY <2>1
  <2> QED
    BY <2>1, <2>2, <2>3
<1>3. new \in Upload
  BY <1>1, BlocksAssumption DEF Upload, Version, Inode, NoFile
<1>4. \A v \in Uploading : upload[v] \in Upload /\ v \in Uploader \ {u}
  BY <1>2 DEF Uploading, ServingInv, ServingTypeOK
<1>5. \A v \in Uploading : /\ upload'[v] \in Upload /\ upload'[v].alone = FALSE
                          /\ upload'[v].version = upload[v].version /\ upload'[v].file = upload[v].file
                          /\ upload'[v].step = upload[v].step
  BY <1>2, <1>4 DEF Upload
<1>6. Uploading' = Uploading \cup {u} /\ upload' \in [Uploader -> Upload \cup {SIdle}]
  <2>1. \A v \in Uploader : upload'[v] \in Upload \cup {SIdle}
    BY <1>2, <1>3, <1>5
  <2>2. upload' \in [Uploader -> Upload \cup {SIdle}]
    BY <2>1 DEF UploadBegin
  <2> QED
    BY <1>2, <1>3, <1>4, <1>5, <2>2, NoneApart DEF Uploading
<1>7. \A d \in Downloader :
         /\ download'[d] \in Download \cup {SIdle}
         /\ DownAt(d, "open") => download'[d] = [download[d] EXCEPT !.unsure = TRUE]
         /\ ~DownAt(d, "open") => download'[d] = download[d]
  BY DEF UploadBegin, Unsure, DownAt, ServingInv, ServingTypeOK, Download
<1>8. /\ new.step = "lookup" /\ new.version = version + 1 /\ new.file = NoFile /\ new.pos = 0
      /\ new.alone => Uploading = {} /\ Removing = {}
  <2>1. new.alone => Uploading = {} /\ Removing = {}
    BY Zenon
  <2> QED
    BY <2>1, Zenon
<1> HIDE DEF new
<1>9. ServingTypeOK'
  <2>1. download' \in [Downloader -> Download \cup {SIdle}]
    BY <1>7 DEF UploadBegin, Unsure
  <2> QED
    BY <1>1, <1>6, <2>1 DEF ServingInv, ServingTypeOK
<1>10. Dated'
  <2>1. name \in Int /\ \A v \in Uploading : upload[v].file \in Int /\ upload[v].version \in Int
    BY <1>4 DEF ServingInv, ServingTypeOK, Upload, NoFile, Version, Inode
  <2> QED
    BY <1>1, <1>2, <1>5, <1>6, <1>8, <2>1 DEF ServingInv, Dated, NoFile
<1>11. AloneUpload'
  BY <1>1, <1>2, <1>5, <1>6, <1>8 DEF AloneUpload
<1>12. AloneRow'
  BY <1>1, <1>2, <1>5, <1>6, <1>8 DEF ServingInv, AloneRow
<1>14. SureReads'
  <2> SUFFICES ASSUME NEW d \in Downloader PROVE Sure(d)'
    BY DEF SureReads
  <2>1. Sure(d)
    BY DEF ServingInv, SureReads
  <2>2. CASE DownAt(d, "open")
    <3>1. download[d] \in Download
      BY <2>2, NoneApart DEF DownAt, ServingInv, ServingTypeOK
    <3>2. /\ download'[d].step = "open" /\ download'[d].unsure = TRUE
          /\ download'[d].sent = download[d].sent
      BY <1>7, <2>2, <3>1 DEF DownAt, Download
    <3> QED
      BY <2>1, <2>2, <3>2 DEF Sure, DownAt
  <2>3. CASE ~DownAt(d, "open")
    <3>1. download'[d] = download[d] /\ ~DownAt(d, "open")'
      BY <1>7, <2>3 DEF DownAt
    <3>2. CASE DownAt(d, "send") /\ ~download[d].unsure
      <4>1. download[d].file \in Int
        BY <3>2, NoneApart DEF DownAt, ServingInv, ServingTypeOK, Download, Inode, NoFile
      <4> QED
        BY <1>1, <1>2, <1>5, <1>6, <1>8, <2>1, <3>1, <3>2, <4>1 DEF Sure, Safe, DownAt
    <3>3. CASE ~(DownAt(d, "send") /\ ~download[d].unsure)
      BY <1>6, <2>1, <3>1, <3>3 DEF Sure, DownAt
    <3> QED
      BY <3>2, <3>3
  <2> QED
    BY <2>2, <2>3
<1> QED
  BY <1>9, <1>10, <1>11, <1>12, <1>14 DEF ServingInv

\* An upload's step that leaves the safe files alone leaves the downloads sure.
LEMMA KeepSure ==
    ASSUME ServingInv, Uploading # {}, download' = download,
           Uploading' = {} /\ name' # NoFile => row' # NoRow,
           \A f \in Inode : Safe(f) => Safe(f)' /\ data'[f] = data[f]
    PROVE  SureReads'
<1> SUFFICES ASSUME NEW d \in Downloader PROVE Sure(d)'
  BY DEF SureReads
<1>1. Sure(d)
  BY DEF ServingInv, SureReads
<1>2. CASE DownAt(d, "send") /\ ~download[d].unsure
  <2>1. download[d].file \in Inode
    BY <1>1, <1>2, NoneApart DEF Sure, DownAt, ServingInv, ServingTypeOK, Download
  <2> QED
    BY <1>1, <1>2, <2>1 DEF Sure, DownAt
<1>3. CASE ~(DownAt(d, "send") /\ ~download[d].unsure)
  BY <1>1, <1>3 DEF Sure, DownAt
<1> QED
  BY <1>2, <1>3

LEMMA KeepLookup == ASSUME ServingInv, NEW u \in Uploader, UploadLookup(u) PROVE ServingInv'
<1>1. /\ u \in Uploading /\ upload[u] \in Upload /\ upload[u].step = "lookup"
      /\ UNCHANGED <<name, data, row, removal, download, version, downloads>> /\ Removing' = Removing
  BY DEF UploadLookup, UpAt, Uploading, Removing, ServingInv, ServingTypeOK
<1>2. CASE \E s \in {"remove", "open"} : UpGo(u, s) /\ (s = "remove" <=> row # NoRow)
  <2>1. PICK s \in {"remove", "open"} : UpGo(u, s) /\ (s = "remove" <=> row # NoRow)
    BY <1>2
  <2> DEFINE new == [upload[u] EXCEPT !.step = s]
  <2>2. /\ new \in Upload /\ new.step = s /\ new.version = upload[u].version /\ new.pos = upload[u].pos
        /\ new.file = upload[u].file /\ new.alone = upload[u].alone /\ new.broken = upload[u].broken
    BY <1>1 DEF Upload
  <2>3. upload' = [upload EXCEPT ![u] = new]
    BY <2>1 DEF UpGo
  <2> HIDE DEF new
  <2>4. /\ Uploading' = Uploading /\ upload'[u] = new
        /\ \A v \in Uploading \ {u} : upload'[v] = upload[v]
        /\ upload' \in [Uploader -> Upload \cup {SIdle}]
    BY <1>1, <2>2, <2>3, UploadMoves DEF ServingInv
  <2>5. ServingTypeOK' /\ Dated'
    <3>1. ServingTypeOK'
      BY <1>1, <2>4 DEF ServingInv, ServingTypeOK
    <3>2. Dated'
      BY <1>1, <2>1, <2>2, <2>4 DEF ServingInv, Dated
    <3> QED
      BY <3>1, <3>2
  <2>6. AloneUpload'
    BY <1>1, <2>1, <2>2, <2>4 DEF ServingInv, AloneUpload
  <2>7. AloneRow'
    BY <1>1, <2>1, <2>2, <2>4 DEF ServingInv, AloneRow
  <2>8. SureReads'
    BY <1>1, <2>1, <2>2, <2>4, KeepSure DEF Safe
  <2> QED
    BY <2>5, <2>6, <2>7, <2>8 DEF ServingInv
<1>3. CASE row # NoRow /\ upload' = [upload EXCEPT ![u] = SIdle]
  <2>1. /\ Uploading' = Uploading \ {u}
        /\ \A v \in Uploading \ {u} : upload'[v] = upload[v]
        /\ upload' \in [Uploader -> Upload \cup {SIdle}]
    BY <1>1, <1>3, UploadEnds DEF ServingInv
  <2>2. ServingTypeOK' /\ Dated'
    BY <1>1, <1>3, <2>1 DEF ServingInv, ServingTypeOK, Dated
  <2>3. AloneUpload' /\ AloneRow'
    BY <1>1, <1>3, <2>1 DEF ServingInv, AloneUpload, AloneRow
  <2>4. SureReads'
    BY <1>1, <1>3, <2>1, KeepSure DEF Safe
  <2> QED
    BY <2>2, <2>3, <2>4 DEF ServingInv
<1> QED
  BY <1>2, <1>3 DEF UploadLookup

LEMMA KeepRemove == ASSUME ServingInv, NEW u \in Uploader, UploadRemove(u) PROVE ServingInv'
<1>1. /\ u \in Uploading /\ upload[u] \in Upload /\ upload[u].step = "remove"
      /\ UNCHANGED <<data, row, removal, download, version, downloads>> /\ Removing' = Removing /\ name' = NoFile
  BY DEF UploadRemove, UpAt, Uploading, Removing, ServingInv, ServingTypeOK
<1> DEFINE new == [upload[u] EXCEPT !.step = "unregister"]
<1>2. /\ new \in Upload /\ new.step = "unregister" /\ new.version = upload[u].version
      /\ new.pos = upload[u].pos /\ new.file = upload[u].file /\ new.alone = upload[u].alone
  BY <1>1 DEF Upload
<1>3. upload' = [upload EXCEPT ![u] = new]
  BY DEF UploadRemove, UpGo
<1> HIDE DEF new
<1>4. /\ Uploading' = Uploading /\ upload'[u] = new
      /\ \A v \in Uploading \ {u} : upload'[v] = upload[v]
      /\ upload' \in [Uploader -> Upload \cup {SIdle}]
  BY <1>1, <1>2, <1>3, UploadMoves DEF ServingInv
<1>5. ServingTypeOK'
  BY <1>1, <1>4 DEF ServingInv, ServingTypeOK
<1>6. Dated'
  BY <1>1, <1>2, <1>4, ServingBounds DEF ServingInv, Dated, NoFile, ServingTypeOK, Version
<1>7. AloneUpload'
  BY <1>1, <1>2, <1>4 DEF ServingInv, AloneUpload
<1>8. AloneRow'
  BY <1>1, <1>2, <1>4 DEF ServingInv, AloneRow
<1>9. SureReads'
  BY <1>1, <1>2, <1>4, KeepSure DEF Safe, Inode, NoFile
<1> QED
  BY <1>5, <1>6, <1>7, <1>8, <1>9 DEF ServingInv

LEMMA KeepUnregister == ASSUME ServingInv, NEW u \in Uploader, UploadUnregister(u) PROVE ServingInv'
<1>1. /\ u \in Uploading /\ upload[u] \in Upload /\ upload[u].step = "unregister"
      /\ UNCHANGED <<name, data, removal, download, version, downloads>> /\ Removing' = Removing /\ row' = NoRow
  BY DEF UploadUnregister, UpAt, Uploading, Removing, ServingInv, ServingTypeOK
<1> DEFINE new == [upload[u] EXCEPT !.step = "open"]
<1>2. /\ new \in Upload /\ new.step = "open" /\ new.version = upload[u].version
      /\ new.pos = upload[u].pos /\ new.file = upload[u].file /\ new.alone = upload[u].alone
  BY <1>1 DEF Upload
<1>3. upload' = [upload EXCEPT ![u] = new]
  BY DEF UploadUnregister, UpGo
<1> HIDE DEF new
<1>4. /\ Uploading' = Uploading /\ upload'[u] = new
      /\ \A v \in Uploading \ {u} : upload'[v] = upload[v]
      /\ upload' \in [Uploader -> Upload \cup {SIdle}]
  BY <1>1, <1>2, <1>3, UploadMoves DEF ServingInv
<1>5. ServingTypeOK'
  BY <1>1, <1>4 DEF ServingInv, ServingTypeOK
<1>6. Dated'
  BY <1>1, <1>2, <1>4 DEF ServingInv, Dated
<1>7. AloneUpload'
  BY <1>1, <1>2, <1>4 DEF ServingInv, AloneUpload
<1>8. AloneRow'
  BY <1>1, <1>4 DEF AloneRow
<1>9. SureReads'
  BY <1>1, <1>2, <1>4, KeepSure DEF Safe
<1> QED
  BY <1>5, <1>6, <1>7, <1>8, <1>9 DEF ServingInv

LEMMA KeepOpen == ASSUME ServingInv, NEW u \in Uploader, UploadOpen(u) PROVE ServingInv'
<1> DEFINE f == IF name = NoFile THEN upload[u].version ELSE name
           new == [upload[u] EXCEPT !.step = "write", !.file = f]
<1>1. /\ u \in Uploading /\ upload[u] \in Upload /\ upload[u].step = "open"
      /\ UNCHANGED <<row, removal, download, version, downloads>> /\ Removing' = Removing
  BY DEF UploadOpen, UpAt, Uploading, Removing, ServingInv, ServingTypeOK
<1>2. /\ name' = f /\ data' = [data EXCEPT ![f] = <<>>] /\ upload' = [upload EXCEPT ![u] = new]
  BY DEF UploadOpen
<1>3. f \in Inode /\ f <= version /\ f \in {name, upload[u].version}
  BY <1>1, ServingBounds DEF ServingInv, ServingTypeOK, Dated, Inode, Version, NoFile
<1> HIDE DEF f
<1>4. /\ new \in Upload /\ new.step = "write" /\ new.version = upload[u].version
      /\ new.pos = upload[u].pos /\ new.file = f /\ new.alone = upload[u].alone
  BY <1>1, <1>3 DEF Upload
<1> HIDE DEF new
<1>5. /\ Uploading' = Uploading /\ upload'[u] = new
      /\ \A v \in Uploading \ {u} : upload'[v] = upload[v]
      /\ upload' \in [Uploader -> Upload \cup {SIdle}]
  BY <1>1, <1>2, <1>4, UploadMoves DEF ServingInv
<1>6. data'[f] = <<>> /\ \A g \in Inode \ {f} : data'[g] = data[g]
  BY <1>2, <1>3 DEF ServingInv, ServingTypeOK
<1>7. ServingTypeOK'
  <2>1. data' \in [Inode -> Content] /\ name' \in Inode
    BY <1>2, <1>3, ContentIs DEF ServingInv, ServingTypeOK
  <2> QED
    BY <1>1, <1>5, <2>1 DEF ServingInv, ServingTypeOK
<1>8. Dated'
  BY <1>1, <1>2, <1>3, <1>4, <1>5 DEF ServingInv, Dated, NoFile, Inode
<1>9. AloneUpload'
  <2>1. \A v : <<>> = [i \in 1..0 |-> v]
    OBVIOUS
  <2> QED
    BY <1>1, <1>2, <1>4, <1>5, <1>6, <2>1 DEF ServingInv, AloneUpload
<1>10. AloneRow'
  BY <1>1, <1>5 DEF ServingInv, AloneRow
<1>11. SureReads'
  <2>1. ASSUME NEW g \in Inode, Safe(g) PROVE g # f
    BY <1>1, <1>3, <2>1 DEF Safe
  <2> QED
    BY <1>1, <1>2, <1>4, <1>5, <1>6, <2>1, KeepSure DEF Safe
<1> QED
  BY <1>7, <1>8, <1>9, <1>10, <1>11 DEF ServingInv

LEMMA KeepWrite == ASSUME ServingInv, NEW u \in Uploader, UploadWrite(u) PROVE ServingInv'
<1>1. /\ u \in Uploading /\ upload[u] \in Upload /\ upload[u].step = "write"
      /\ UNCHANGED <<row, removal, download, version, downloads>> /\ Removing' = Removing
      /\ upload[u].file \in Inode /\ upload[u].version \in Version /\ upload[u].pos \in 0..Blocks
  BY DEF UploadWrite, UpAt, Uploading, Removing, ServingInv, ServingTypeOK, Dated, Upload
<1>5. ASSUME NEW v \in Uploading \ {u} PROVE ~upload[v].alone
  <2>1. upload[v].alone => Uploading = {v}
    BY DEF ServingInv, AloneUpload
  <2> QED
    BY <1>1, <2>1
<1>2. CASE /\ upload[u].pos < Blocks /\ UNCHANGED name
           /\ data' = [data EXCEPT ![upload[u].file] = Put(@, upload[u].pos + 1, upload[u].version)]
           /\ upload' = [upload EXCEPT ![u].pos = @ + 1,
                             ![u].step = IF upload[u].pos + 1 = Blocks THEN "register" ELSE @]
  <2> DEFINE new == [upload[u] EXCEPT !.pos = @ + 1,
                                      !.step = IF upload[u].pos + 1 = Blocks THEN "register" ELSE @]
             f == upload[u].file
             n == upload[u].pos
  <2>1. upload' = [upload EXCEPT ![u] = new]
    BY <1>2
  <2>0. n < Blocks /\ name' = name /\ data' = [data EXCEPT ![f] = Put(data[f], n + 1, upload[u].version)]
    BY <1>2
  <2>2. /\ new \in Upload /\ new.step = (IF n + 1 = Blocks THEN "register" ELSE "write")
        /\ new.version = upload[u].version /\ new.pos = n + 1
        /\ new.file = f /\ new.alone = upload[u].alone
    <3> DEFINE s == IF n + 1 = Blocks THEN "register" ELSE "write"
    <3>1. new = [upload[u] EXCEPT !.pos = n + 1, !.step = s]
      BY <1>1
    <3>2. s \in {"write", "register"} /\ n + 1 \in 0..Blocks
      BY <1>1, <2>0, BlocksAssumption
    <3> HIDE DEF new, s
    <3>3. /\ new \in Upload /\ new.step = s /\ new.version = upload[u].version
          /\ new.pos = n + 1 /\ new.file = f /\ new.alone = upload[u].alone
      BY <1>1, <3>1, <3>2 DEF Upload
    <3> QED
      BY <3>3 DEF s
  <2> HIDE DEF new
  <2>3. /\ Uploading' = Uploading /\ upload'[u] = new
        /\ \A v \in Uploading \ {u} : upload'[v] = upload[v]
        /\ upload' \in [Uploader -> Upload \cup {SIdle}]
    BY <1>1, <2>1, <2>2, UploadMoves DEF ServingInv
  <2>4. /\ data'[f] = Put(data[f], n + 1, upload[u].version)
        /\ \A g \in Inode \ {f} : data'[g] = data[g]
    BY <1>1, <1>2 DEF ServingInv, ServingTypeOK
  <2>5. ServingTypeOK'
    <3>1. data[f] \in Content /\ n + 1 \in 1..Blocks
      BY <1>1, <2>0, BlocksAssumption DEF ServingInv, ServingTypeOK
    <3>2. data'[f] \in Content
      BY <1>1, <2>4, <3>1, PutContent
    <3>3. data' \in [Inode -> Content]
      BY <1>1, <2>0, <2>4, <3>2 DEF ServingInv, ServingTypeOK
    <3> QED
      BY <1>1, <2>0, <2>3, <3>3 DEF ServingInv, ServingTypeOK
  <2>6. Dated'
    BY <1>1, <2>0, <2>2, <2>3 DEF ServingInv, Dated
  <2>7. AloneUpload'
    <3>1. upload[u].alone =>
            data[name] = [i \in 1..n |-> upload[u].version] /\ name = f /\ Uploading = {u} /\ row = NoRow
            /\ Removing = {}
      BY <1>1 DEF ServingInv, AloneUpload
    <3>2. upload[u].alone => data'[name] = [i \in 1..(n + 1) |-> upload[u].version]
      <4>1. n \in Nat
        BY <1>1
      <4>2. Put([i \in 1..n |-> upload[u].version], n + 1, upload[u].version)
              = [i \in 1..(n + 1) |-> upload[u].version]
        BY <4>1, PutNext
      <4> HIDE DEF n, f
      <4> QED
        BY <2>4, <3>1, <4>2
    <3>3. new.alone => /\ Uploading' = {u} /\ row' = NoRow /\ name' = new.file /\ Removing' = {}
                       /\ data'[name'] = [i \in 1..new.pos |-> new.version]
      BY <1>1, <2>0, <2>2, <2>3, <3>1, <3>2
    <3>4. /\ new.step \in {"write", "register"}
          /\ ~(new.step = "register" /\ new.pos < Blocks)
      BY <2>2, BlocksAssumption
    <3>5. \A v \in Uploading \ {u} : ~upload'[v].alone
      BY <1>5, <2>3
    <3> QED
      BY <2>3, <3>3, <3>4, <3>5 DEF AloneUpload
  <2>8. AloneRow'
    BY <1>1 DEF ServingInv, AloneRow
  <2>9. SureReads'
    BY <1>1, <2>0, <2>2, <2>3, <2>4, KeepSure DEF Safe
  <2> QED
    BY <2>5, <2>6, <2>7, <2>8, <2>9 DEF ServingInv
<1>3. CASE /\ upload' = [upload EXCEPT ![u].step = "register", ![u].broken = TRUE]
           /\ UNCHANGED <<name, data>>
  <2> DEFINE new == [upload[u] EXCEPT !.step = "register", !.broken = TRUE]
  <2>1. upload' = [upload EXCEPT ![u] = new]
    BY <1>3
  <2>0. UNCHANGED <<name, data>>
    BY <1>3
  <2>2. /\ new \in Upload /\ new.step = "register" /\ new.version = upload[u].version
        /\ new.pos = upload[u].pos /\ new.file = upload[u].file /\ new.alone = upload[u].alone
        /\ new.broken = TRUE
    BY <1>1 DEF Upload
  <2> HIDE DEF new
  <2>3. /\ Uploading' = Uploading /\ upload'[u] = new
        /\ \A v \in Uploading \ {u} : upload'[v] = upload[v]
        /\ upload' \in [Uploader -> Upload \cup {SIdle}]
    BY <1>1, <2>1, <2>2, UploadMoves DEF ServingInv
  <2>4. ServingTypeOK'
    BY <1>1, <2>0, <2>3 DEF ServingInv, ServingTypeOK
  <2>5. Dated'
    BY <1>1, <2>0, <2>2, <2>3 DEF ServingInv, Dated
  <2>6. AloneUpload' /\ AloneRow'
    BY <1>1, <2>0, <2>2, <2>3 DEF ServingInv, AloneUpload, AloneRow
  <2>7. SureReads'
    BY <1>1, <2>0, <2>2, <2>3, KeepSure DEF Safe
  <2> QED
    BY <2>4, <2>5, <2>6, <2>7 DEF ServingInv
<1>4. CASE name' = NoFile /\ upload' = [upload EXCEPT ![u] = SIdle] /\ UNCHANGED data
  <2>1. /\ Uploading' = Uploading \ {u}
        /\ \A v \in Uploading \ {u} : upload'[v] = upload[v]
        /\ upload' \in [Uploader -> Upload \cup {SIdle}]
    BY <1>1, <1>4, UploadEnds DEF ServingInv
  <2>2. ServingTypeOK' /\ Dated'
    BY <1>1, <1>4, <2>1, ServingBounds DEF ServingInv, ServingTypeOK, Dated, Version, NoFile
  <2>3. AloneUpload' /\ AloneRow'
    BY <1>1, <1>4, <2>1 DEF ServingInv, AloneUpload, AloneRow
  <2>4. SureReads'
    BY <1>1, <1>4, <2>1, KeepSure DEF Safe, Inode, NoFile
  <2> QED
    BY <2>2, <2>3, <2>4 DEF ServingInv
<1> QED
  BY <1>2, <1>3, <1>4 DEF UploadWrite

LEMMA KeepRegister == ASSUME ServingInv, NEW u \in Uploader, UploadRegister(u) PROVE ServingInv'
<1>1. /\ u \in Uploading /\ upload[u] \in Upload /\ upload[u].step = "register"
      /\ UNCHANGED <<data, removal, download, version, downloads>> /\ Removing' = Removing /\ upload' = [upload EXCEPT ![u] = SIdle]
  BY DEF UploadRegister, UpAt, Uploading, Removing, ServingInv, ServingTypeOK
<1>2. /\ Uploading' = Uploading \ {u}
      /\ \A v \in Uploading \ {u} : upload'[v] = upload[v]
      /\ upload' \in [Uploader -> Upload \cup {SIdle}]
  BY <1>1, UploadEnds DEF ServingInv
<1>3. ~(row # NoRow /\ row.alone)
  BY <1>1 DEF ServingInv, AloneRow
<1>4. name' \in {name, NoFile} /\ row' # NoRow /\ (row' = row \/ name' = name)
      /\ (row' = row \/ row' = [size |-> SizeByName, by |-> upload[u].version,
                                broken |-> upload[u].broken, alone |-> upload[u].alone])
  <2>1. [size |-> SizeByName, by |-> upload[u].version,
         broken |-> upload[u].broken, alone |-> upload[u].alone] # NoRow
    BY DEF NoRow
  <2> QED
    BY <2>1 DEF UploadRegister
<1>5. ServingTypeOK'
  <2>1. SizeByName \in 0..Blocks
    BY ContentIs, BlocksAssumption DEF SizeByName, ServingInv, ServingTypeOK, NoFile
  <2>2. upload[u].version \in Inode
    BY <1>1, ServingBounds DEF ServingInv, ServingTypeOK, Dated, Inode, Version
  <2>3. row' \in Row \cup {NoRow}
    BY <1>1, <1>4, <2>1, <2>2 DEF ServingInv, ServingTypeOK, Row, Upload
  <2> QED
    BY <1>1, <1>2, <1>4, <2>3 DEF ServingInv, ServingTypeOK
<1>6. Dated'
  BY <1>1, <1>2, <1>4, ServingBounds DEF ServingInv, ServingTypeOK, Dated, Version, NoFile
<1>7. AloneUpload'
  BY <1>1, <1>2 DEF ServingInv, AloneUpload
<1>8. AloneRow'
  <2>1. SUFFICES ASSUME row' # NoRow, row'.alone PROVE AloneRow'
    BY DEF AloneRow
  <2>2. row' = [size |-> SizeByName, by |-> upload[u].version,
                broken |-> upload[u].broken, alone |-> upload[u].alone] /\ upload[u].alone
    BY <1>3, <1>4, <2>1
  <2>3. /\ Uploading = {u} /\ row = NoRow /\ name = upload[u].file
        /\ data[name] = [i \in 1..upload[u].pos |-> upload[u].version]
        /\ upload[u].pos < Blocks => upload[u].broken
        /\ name # NoFile /\ name' = name /\ Removing' = {}
    BY <1>1, <1>4, <2>1, <2>2 DEF ServingInv, AloneUpload, Dated
  <2>4. row'.size = upload[u].pos
    BY <1>1, <2>2, <2>3, BlocksAssumption DEF SizeByName, Upload
  <2> QED
    BY <1>1, <1>2, <2>2, <2>3, <2>4 DEF AloneRow
<1>9. SureReads'
  BY <1>1, <1>2, <1>4, KeepSure DEF Safe, Inode, NoFile
<1> QED
  BY <1>5, <1>6, <1>7, <1>8, <1>9 DEF ServingInv

\* A step of a delete that takes no row leaves the downloads sure: it writes
\* nothing, and no name is given to a file.
LEMMA SureStays ==
    ASSUME ServingInv, UNCHANGED <<data, row, download, version>>, name' \in {name, NoFile},
           Uploading' = Uploading,
           \A u \in Uploading : /\ upload'[u].step = upload[u].step /\ upload'[u].file = upload[u].file
                                /\ upload'[u].version = upload[u].version
    PROVE  SureReads'
<1> SUFFICES ASSUME NEW d \in Downloader PROVE Sure(d)'
  BY DEF SureReads
<1>1. Sure(d)
  BY DEF ServingInv, SureReads
<1>2. CASE DownAt(d, "send") /\ ~download[d].unsure
  <2>1. download[d].file # NoFile /\ Safe(download[d].file)
    BY <1>1, <1>2 DEF Sure
  <2>2. Safe(download[d].file)'
    BY <2>1 DEF Safe
  <2> QED
    BY <1>1, <1>2, <2>1, <2>2 DEF Sure, DownAt
<1>3. CASE ~(DownAt(d, "send") /\ ~download[d].unsure)
  BY <1>1, <1>3 DEF Sure, DownAt
<1> QED
  BY <1>2, <1>3

LEMMA KeepDeleteBegin == ASSUME ServingInv, NEW r \in Remover, DeleteBegin(r) PROVE ServingInv'
<1>1. /\ UNCHANGED <<name, data, row, download, version, downloads>> /\ removal[r] = SIdle
      /\ removal \in [Remover -> Removal \cup {SIdle, SOver}] /\ row.by \in Version
  BY ServingBounds DEF DeleteBegin, ServingInv, ServingTypeOK, Row, NoRow, Inode, Version
<1>2. PICK step \in {"lookup", "unregister"}, id \in {0, row.by} :
         removal' = [removal EXCEPT ![r] = [step |-> step, id |-> id]]
  BY DEF DeleteBegin
<1> DEFINE new == [step |-> step, id |-> id]
<1>3. /\ new \in Removal /\ new.id \in {0, row.by} /\ new \notin {SIdle, SOver}
      /\ removal' = [removal EXCEPT ![r] = new]
  BY <1>1, <1>2, ServingBounds DEF Removal, Version, SIdle, SOver
<1> HIDE DEF new
<1>4. /\ removal' \in [Remover -> Removal \cup {SIdle, SOver}] /\ removal'[r] = new
      /\ Removing' = Removing \cup {r}
      /\ \A q \in Removing : removal'[q] = removal[q]
  BY <1>1, <1>3 DEF Removing
<1>5. \A u \in Uploading : upload[u] \in Upload
  BY DEF Uploading, ServingInv, ServingTypeOK
<1>6. /\ Uploading' = Uploading /\ upload' \in [Uploader -> Upload \cup {SIdle}]
      /\ \A u \in Uploading : /\ upload'[u].alone = FALSE /\ upload'[u].step = upload[u].step
                              /\ upload'[u].version = upload[u].version
                              /\ upload'[u].file = upload[u].file
  <2>1. \A u \in Uploading : /\ [upload[u] EXCEPT !.alone = FALSE] \in Upload
                            /\ [upload[u] EXCEPT !.alone = FALSE].step = upload[u].step
                            /\ [upload[u] EXCEPT !.alone = FALSE].version = upload[u].version
                            /\ [upload[u] EXCEPT !.alone = FALSE].file = upload[u].file
                            /\ [upload[u] EXCEPT !.alone = FALSE].alone = FALSE
    BY <1>5 DEF Upload
  <2>2. /\ \A u \in Uploading : upload'[u] = [upload[u] EXCEPT !.alone = FALSE] /\ u \in Uploader
        /\ \A u \in Uploader \ Uploading : upload'[u] = SIdle
        /\ upload' = [u \in Uploader |-> IF u \in Uploading THEN [upload[u] EXCEPT !.alone = FALSE] ELSE SIdle]
    BY DEF DeleteBegin, Uploading
  <2>3. \A u \in Uploader : upload'[u] \in Upload \cup {SIdle}
    BY <2>1, <2>2
  <2>4. upload' \in [Uploader -> Upload \cup {SIdle}]
    BY <2>2, <2>3
  <2>5. Uploading' = Uploading
    BY <2>1, <2>2, NoneApart DEF Uploading
  <2> QED
    BY <2>1, <2>2, <2>4, <2>5
<1>7. ServingTypeOK'
  BY <1>1, <1>4, <1>6 DEF ServingInv, ServingTypeOK
<1>8. Dated'
  BY <1>1, <1>6 DEF ServingInv, Dated
<1>9. AloneUpload'
  BY <1>6 DEF AloneUpload
<1>10. AloneRow'
  BY <1>1, <1>3, <1>4, <1>6 DEF ServingInv, AloneRow
<1>11. SureReads'
  BY <1>1, <1>6, SureStays
<1> QED
  BY <1>7, <1>8, <1>9, <1>10, <1>11 DEF ServingInv

\* A delete goes on to another step; while it runs no upload is alone.
LEMMA DeleteMoves ==
    ASSUME ServingInv, NEW r \in Removing, NEW s \in {"remove", "unregister"}, DelGo(r, s),
           UNCHANGED <<upload, version>>, name' \in {name, NoFile}
    PROVE  /\ Removing' = Removing /\ removal' \in [Remover -> Removal \cup {SIdle, SOver}]
           /\ removal'[r].step = s /\ removal'[r].id = removal[r].id
           /\ \A q \in Removing \ {r} : removal'[q] = removal[q]
           /\ Uploading' = Uploading /\ AloneUpload' /\ Dated'
<1>1. removal \in [Remover -> Removal \cup {SIdle, SOver}] /\ removal[r] \in Removal /\ r \in Remover
  BY DEF Removing, ServingInv, ServingTypeOK
<1> DEFINE new == [removal[r] EXCEPT !.step = s]
<1>2. new \in Removal /\ new.step = s /\ new.id = removal[r].id /\ removal' = [removal EXCEPT ![r] = new]
  BY <1>1 DEF DelGo, Removal
<1>3. new \notin {SIdle, SOver}
  BY <1>2 DEF SIdle, SOver
<1> HIDE DEF new
<1>4. /\ Removing' = Removing /\ removal' \in [Remover -> Removal \cup {SIdle, SOver}]
      /\ removal'[r] = new /\ \A q \in Removing \ {r} : removal'[q] = removal[q]
  BY <1>1, <1>2, <1>3 DEF Removing
<1>5. Uploading' = Uploading
  BY DEF Uploading
<1>6. AloneUpload'
  BY <1>5 DEF ServingInv, AloneUpload
<1>7. Dated'
  <2>1. name' <= version
    BY ServingBounds DEF ServingInv, ServingTypeOK, Dated, Version, NoFile
  <2> QED
    BY <1>5, <2>1 DEF ServingInv, Dated
<1> QED
  BY <1>2, <1>4, <1>5, <1>6, <1>7

LEMMA KeepDeleteLookup == ASSUME ServingInv, NEW r \in Remover, DeleteLookup(r) PROVE ServingInv'
<1>1. /\ r \in Removing /\ removal[r].step = "lookup"
      /\ UNCHANGED <<name, data, row, upload, download, version, downloads>>
      /\ \E s \in {"remove", "unregister"} : DelGo(r, s)
  BY DEF DeleteLookup, DelAt
<1>2. PICK s \in {"remove", "unregister"} : DelGo(r, s)
  BY <1>1
<1>3. /\ Removing' = Removing /\ removal' \in [Remover -> Removal \cup {SIdle, SOver}]
      /\ removal'[r].step = s /\ removal'[r].id = removal[r].id
      /\ \A q \in Removing \ {r} : removal'[q] = removal[q]
      /\ Uploading' = Uploading /\ AloneUpload' /\ Dated'
  BY <1>1, <1>2, DeleteMoves
<1>4. ServingTypeOK'
  BY <1>1, <1>3 DEF ServingInv, ServingTypeOK
<1>5. AloneRow'
  BY <1>1, <1>3 DEF ServingInv, AloneRow
<1>6. SureReads'
  BY <1>1, <1>3, SureStays
<1> QED
  BY <1>3, <1>4, <1>5, <1>6 DEF ServingInv

LEMMA KeepDeleteRemove == ASSUME ServingInv, NEW r \in Remover, DeleteRemove(r) PROVE ServingInv'
<1>1. /\ r \in Removing /\ removal[r].step = "remove" /\ name' = NoFile
      /\ UNCHANGED <<data, row, upload, download, version, downloads>> /\ DelGo(r, "unregister")
  BY DEF DeleteRemove, DelAt
<1>2. /\ Removing' = Removing /\ removal' \in [Remover -> Removal \cup {SIdle, SOver}]
      /\ removal'[r].step = "unregister" /\ removal'[r].id = removal[r].id
      /\ \A q \in Removing \ {r} : removal'[q] = removal[q]
      /\ Uploading' = Uploading /\ AloneUpload' /\ Dated'
  BY <1>1, DeleteMoves
<1>3. ServingTypeOK'
  BY <1>1, <1>2 DEF ServingInv, ServingTypeOK
<1>4. AloneRow'
  BY <1>1, <1>2 DEF ServingInv, AloneRow
<1>5. SureReads'
  BY <1>1, <1>2, SureStays
<1> QED
  BY <1>2, <1>3, <1>4, <1>5 DEF ServingInv

LEMMA KeepDeleteUnregister ==
    ASSUME ServingInv, NEW r \in Remover, DeleteUnregister(r) PROVE ServingInv'
<1>1. /\ r \in Removing /\ UNCHANGED <<name, data, upload, version, downloads>>
      /\ removal' = [removal EXCEPT ![r] = SOver]
  BY DEF DeleteUnregister, DelAt
<1>2. /\ Removing' = Removing \ {r} /\ removal' \in [Remover -> Removal \cup {SIdle, SOver}]
      /\ \A q \in Removing \ {r} : removal'[q] = removal[q]
      /\ Uploading' = Uploading
  BY <1>1 DEF Removing, Uploading, ServingInv, ServingTypeOK
<1>3. AloneUpload' /\ Dated'
  BY <1>1, <1>2 DEF ServingInv, AloneUpload, Dated
<1>4. CASE Chosen(r) /\ row' = NoRow /\ download' = Forsaken
  <2>1. ASSUME NEW d \in Downloader
        PROVE  /\ download'[d] \in Download \cup {SIdle} /\ Sure(d)'
    <3>1. Sure(d) /\ download[d] \in Download \cup {SIdle}
      BY DEF ServingInv, SureReads, ServingTypeOK
    <3>2. CASE download[d] = SIdle
      BY <1>4, <3>1, <3>2 DEF Forsaken, Sure, DownAt
    <3>3. CASE download[d] # SIdle /\ name # NoFile
      <4>1. /\ download'[d] \in Download /\ download'[d].unsure /\ download'[d].step = download[d].step
            /\ download'[d].sent = download[d].sent /\ download'[d].promised = download[d].promised
            /\ download'[d].file = download[d].file
        BY <1>4, <3>1, <3>3 DEF Forsaken, Download
      <4> QED
        BY <3>1, <3>3, <4>1 DEF Sure, DownAt
    <3>4. CASE download[d] # SIdle /\ name = NoFile
      <4>1. download'[d] = download[d]
        BY <1>4, <3>4 DEF Forsaken
      <4>2. CASE DownAt(d, "send") /\ ~download[d].unsure
        <5>1. download[d].file # NoFile /\ Safe(download[d].file)
          BY <3>1, <4>2 DEF Sure
        <5>2. Safe(download[d].file)'
          BY <1>1, <1>2, <3>4, <4>1, <5>1 DEF Safe
        <5> QED
          BY <1>1, <3>1, <4>1, <4>2, <5>1, <5>2 DEF Sure, DownAt
      <4>3. CASE ~(DownAt(d, "send") /\ ~download[d].unsure)
        BY <1>1, <1>2, <3>1, <3>4, <4>1, <4>3 DEF Sure, DownAt
      <4> QED
        BY <3>1, <4>1, <4>2, <4>3
    <3> QED
      BY <3>2, <3>3, <3>4
  <2>2. download' \in [Downloader -> Download \cup {SIdle}]
    BY <1>4, <2>1 DEF Forsaken
  <2>3. ServingTypeOK'
    BY <1>1, <1>2, <1>4, <2>2 DEF ServingInv, ServingTypeOK
  <2>4. AloneRow'
    BY <1>4 DEF AloneRow
  <2> QED
    BY <1>3, <2>1, <2>3, <2>4 DEF ServingInv, SureReads
<1>5. CASE ~Chosen(r) /\ UNCHANGED <<row, download>>
  <2>1. ServingTypeOK'
    BY <1>1, <1>2, <1>5 DEF ServingInv, ServingTypeOK
  <2>2. ~(row # NoRow /\ row.alone)
    BY <1>1, <1>5 DEF ServingInv, AloneRow, Chosen
  <2>3. AloneRow'
    BY <1>5, <2>2 DEF AloneRow
  <2>4. SureReads'
    BY <1>1, <1>2, <1>5, SureStays
  <2> QED
    BY <1>3, <2>1, <2>3, <2>4 DEF ServingInv
<1> QED
  BY <1>4, <1>5 DEF DeleteUnregister

\* A download's step changes nothing an upload looks at.
LEMMA KeepDownload == ASSUME ServingInv, NEW d \in Downloader, DownloadStep(d) PROVE ServingInv'
<1>1. /\ UNCHANGED <<name, data, row, upload, removal, version>> /\ downloads' \in 0..MaxDownload
      /\ Uploading' = Uploading /\ Removing' = Removing
  BY ServingBounds DEF DownloadStep, DownloadLookup, DownloadStat, DownloadOpen, DownloadSend,
    DownloadCount, ServingInv, ServingTypeOK, Uploading, Removing
<1>2. ASSUME NEW r \in Download \cup {SIdle}, download' = [download EXCEPT ![d] = r],
             r = SIdle \/ Sure(d)'
      PROVE  ServingInv'
  <2>1. /\ download' \in [Downloader -> Download \cup {SIdle}] /\ download'[d] = r
        /\ \A e \in Downloader \ {d} : download'[e] = download[e]
    BY <1>2 DEF ServingInv, ServingTypeOK
  <2>2. ServingTypeOK' /\ Dated' /\ AloneUpload' /\ AloneRow'
    BY <1>1, <2>1 DEF ServingInv, ServingTypeOK, Dated, AloneUpload, AloneRow
  <2>3. ASSUME NEW e \in Downloader \ {d} PROVE Sure(e)'
    <3>1. Sure(e)
      BY <2>3 DEF ServingInv, SureReads
    <3> QED
      BY <1>1, <2>1, <2>3, <3>1 DEF Sure, Safe, DownAt
  <2>4. Sure(d)'
    BY <1>2, <2>1 DEF Sure, DownAt
  <2> QED
    BY <2>2, <2>3, <2>4 DEF ServingInv, SureReads
<1>3. Sure(d)
  BY DEF ServingInv, SureReads
<1>4. CASE DownloadLookup(d)
  <2> DEFINE new == [step |-> "stat", promised |-> <<>>, file |-> NoFile, sent |-> <<>>, unsure |-> FALSE]
  <2>1. new \in Download
    BY ContentIs DEF Download
  <2>2. download' = [download EXCEPT ![d] = new]
    BY <1>4 DEF DownloadLookup
  <2>3. Sure(d)'
    BY <1>1, <1>4, <2>2 DEF DownloadLookup, Sure, DownAt, ServingInv, ServingTypeOK
  <2> QED
    BY <1>2, <2>1, <2>2, <2>3
<1>5. CASE DownloadStat(d)
  <2>1. download[d] \in Download /\ DownAt(d, "stat") /\ d \in DOMAIN download
    BY <1>5 DEF DownloadStat, DownAt, ServingInv, ServingTypeOK
  <2>2. /\ download[d].sent = <<>> /\ download[d].promised = <<>>
        /\ ~download[d].unsure /\ Uploading = {} /\ name # NoFile => row # NoRow
    BY <1>3, <2>1 DEF Sure
  <2>3. CASE name = NoFile
    <3> DEFINE new == [download[d] EXCEPT !.step = "count"]
    <3>1. /\ new \in Download /\ new.step = "count" /\ new.sent = <<>> /\ new.promised = <<>>
      BY <2>1, <2>2 DEF Download
    <3>2. download' = [download EXCEPT ![d] = new]
      BY <1>5, <2>3 DEF DownloadStat
    <3> HIDE DEF new
    <3>3. Sure(d)'
      BY <2>1, <3>1, <3>2 DEF Sure, DownAt
    <3> QED
      BY <1>2, <3>1, <3>2, <3>3
  <2>4. CASE name # NoFile
    <3> DEFINE busy == download[d].unsure \/ Uploading # {}
               new == [download[d] EXCEPT !.step = "open", !.promised = data[name], !.unsure = busy]
    <3>1. download' = [download EXCEPT ![d] = new]
      BY <1>5, <2>4 DEF DownloadStat
    <3>2. data[name] \in Content /\ busy \in BOOLEAN /\ (~busy => ~download[d].unsure /\ Uploading = {})
      BY <2>1, <2>4 DEF Download, ServingInv, ServingTypeOK
    <3> HIDE DEF busy
    <3>3. /\ new \in Download /\ new.step = "open" /\ new.sent = <<>> /\ new.promised = data[name]
          /\ new.unsure = busy
      BY <2>1, <2>2, <3>2 DEF Download
    <3> HIDE DEF new
    <3>4. Sure(d)'
      BY <1>1, <2>1, <2>2, <2>4, <3>1, <3>2, <3>3 DEF Sure, DownAt
    <3> QED
      BY <1>2, <3>1, <3>3, <3>4
  <2> QED
    BY <2>3, <2>4
<1>6. CASE DownloadOpen(d)
  <2>1. download[d] \in Download /\ DownAt(d, "open") /\ d \in DOMAIN download
        /\ download[d].sent = <<>>
    BY <1>3, <1>6 DEF DownloadOpen, DownAt, ServingInv, ServingTypeOK, Sure
  <2>2. ~download[d].unsure =>
           Uploading = {} /\ (name # NoFile => row # NoRow /\ download[d].promised = data[name])
    BY <1>3, <2>1 DEF Sure
  <2>3. CASE name = NoFile
    <3> DEFINE new == [download[d] EXCEPT !.step = "count", !.promised = <<>>]
    <3>1. new \in Download /\ new.step = "count" /\ new.sent = <<>> /\ new.promised = <<>>
      BY <2>1, ContentIs DEF Download
    <3>2. download' = [download EXCEPT ![d] = new]
      BY <1>6, <2>3 DEF DownloadOpen
    <3> HIDE DEF new
    <3>3. Sure(d)'
      BY <2>1, <2>2, <2>3, <3>1, <3>2 DEF Sure, DownAt
    <3> QED
      BY <1>2, <3>1, <3>2, <3>3
  <2>4. CASE name # NoFile
    <3> DEFINE new == [download[d] EXCEPT !.step = "send", !.file = name]
    <3>1. name \in Inode /\ name <= version /\ Len(data[name]) \in Nat
      BY <2>4, ContentIs, BlocksAssumption DEF ServingInv, ServingTypeOK, Dated
    <3>2. /\ new \in Download /\ new.step = "send" /\ new.file = name /\ new.sent = <<>>
          /\ new.unsure = download[d].unsure /\ new.promised = download[d].promised
      BY <2>1, <3>1 DEF Download
    <3>3. download' = [download EXCEPT ![d] = new]
      BY <1>6, <2>4 DEF DownloadOpen
    <3> HIDE DEF new
    <3>4. ~download[d].unsure => Safe(name)'
      BY <1>1, <2>2, <2>4, <3>1 DEF Safe
    <3>5. Sure(d)'
      BY <1>1, <2>1, <2>2, <2>4, <3>1, <3>2, <3>3, <3>4 DEF Sure, DownAt
    <3> QED
      BY <1>2, <3>2, <3>3, <3>5
  <2> QED
    BY <2>3, <2>4
<1>7. CASE DownloadSend(d)
  <2>1. /\ download[d] \in Download /\ DownAt(d, "send") /\ d \in DOMAIN download
        /\ \E f \in Inode : f = download[d].file
    BY <1>3, <1>7, NoneApart DEF DownloadSend, DownAt, ServingInv, ServingTypeOK, Sure, Download
  <2>7. PICK f \in Inode : f = download[d].file
    BY <2>1
  <2> DEFINE file == data[f]
             sent == download[d].sent
             at == Len(sent) + 1
  <2>2. /\ sent \in Content /\ file \in Content
    BY <2>1, <2>7 DEF ServingInv, ServingTypeOK, Download
  <2>3. ~download[d].unsure => /\ Safe(f) /\ download[d].promised = file /\ Len(sent) <= Len(file)
                               /\ \A j \in 1..Len(sent) : sent[j] = file[j]
    BY <1>3, <2>1, <2>7 DEF Sure
  <2>4. /\ Len(sent) \in Nat /\ Len(file) \in 0..Blocks
        /\ sent \in Seq(Version) /\ file \in Seq(Version)
    BY <2>2, ContentIs, BlocksAssumption
  <2>5. CASE at <= Len(file)
    <3>6. Safe(f) => Safe(f)'
      BY <1>1 DEF Safe
    <3> DEFINE more == Append(sent, file[at])
               new == [download[d] EXCEPT !.sent = more]
    <3>1. /\ Len(more) = at /\ more \in [1..at -> Version] /\ at \in 0..Blocks
          /\ \A j \in 1..at : more[j] = IF j = at THEN file[at] ELSE sent[j]
      <4>1. at \in 1..Len(file) /\ at \in 0..Blocks
        BY <2>4, <2>5, BlocksAssumption
      <4>2. file[at] \in Version
        BY <2>4, <4>1
      <4> HIDE DEF file, sent
      <4> QED
        BY <2>4, <4>1, <4>2, AppendIs
    <3>2. more \in Content
      BY <3>1, ContentIs
    <3>3. download' = [download EXCEPT ![d] = new]
      BY <1>7, <2>5, <2>7 DEF DownloadSend
    <3>4. ~download[d].unsure => Len(more) <= Len(file) /\ \A j \in 1..Len(more) : more[j] = file[j]
      BY <2>3, <2>4, <2>5, <3>1
    <3> HIDE DEF more
    <3>5. /\ new \in Download /\ new.step = download[d].step /\ new.file = f /\ new.sent = more
          /\ new.unsure = download[d].unsure /\ new.promised = download[d].promised
      BY <2>1, <2>7, <3>2 DEF Download
    <3> HIDE DEF new
    <3>7. Sure(d)'
      BY <1>1, <1>3, <2>1, <2>3, <3>3, <3>4, <3>5, <3>6 DEF Sure, DownAt, Inode, NoFile
    <3> QED
      BY <1>2, <3>3, <3>5, <3>7
  <2>6. CASE ~(at <= Len(file))
    <3> DEFINE new == [download[d] EXCEPT !.step = "count"]
    <3>1. /\ new \in Download /\ new.step = "count" /\ new.unsure = download[d].unsure
          /\ new.sent = sent /\ new.promised = download[d].promised
      BY <2>1 DEF Download
    <3>2. download' = [download EXCEPT ![d] = new]
      BY <1>7, <2>6, <2>7 DEF DownloadSend
    <3>3. ~download[d].unsure => sent = file
      BY <2>3, <2>4, <2>6
    <3> HIDE DEF new
    <3>4. Sure(d)'
      BY <2>1, <2>3, <3>1, <3>2, <3>3 DEF Sure, DownAt
    <3> QED
      BY <1>2, <3>1, <3>2, <3>4
  <2> QED
    BY <2>5, <2>6
<1>8. CASE DownloadCount(d)
  BY <1>2, <1>8 DEF DownloadCount
<1> QED
  BY <1>4, <1>5, <1>6, <1>7, <1>8 DEF DownloadStep

LEMMA ServingKeeps == ServingInv /\ [ServingNext]_servingVars => ServingInv'
<1> SUFFICES ASSUME ServingInv, [ServingNext]_servingVars PROVE ServingInv'
  OBVIOUS
<1>1. CASE UNCHANGED servingVars
  BY <1>1 DEF servingVars, ServingInv, ServingTypeOK, Dated, AloneUpload, AloneRow,
    SureReads, Sure, Safe, Uploading, Removing, DownAt
<1>2. ASSUME NEW u \in Uploader, UploadStep(u) PROVE ServingInv'
  BY <1>2, KeepBegin, KeepLookup, KeepRemove, KeepUnregister, KeepOpen, KeepWrite, KeepRegister
    DEF UploadStep
<1>3. ASSUME NEW d \in Downloader, DownloadStep(d) PROVE ServingInv'
  BY <1>3, KeepDownload
<1>4. ASSUME NEW r \in Remover, DeleteStep(r) PROVE ServingInv'
  BY <1>4, KeepDeleteBegin, KeepDeleteLookup, KeepDeleteRemove, KeepDeleteUnregister DEF DeleteStep
<1> QED
  BY <1>1, <1>2, <1>3, <1>4 DEF ServingNext

\* Rows, files, uploads and downloads keep their types.
THEOREM ServingTypeInvariant == ServingSpec => []ServingTypeOK
<1>1. ServingInv => ServingTypeOK
  BY DEF ServingInv
<1> QED
  BY <1>1, ServingStart, ServingKeeps, PTL DEF ServingSpec

\* A download that no upload overlaps between its look at the size and its
\* open file, and from whose file no delete takes the row alone, sends what it
\* announced, whatever uploads and deletes begin later.
THEOREM DownloadsWhole == ServingSpec => []DownloadWhole
<1>1. ServingInv => DownloadWhole
  BY DEF ServingInv, SureReads, Sure, DownloadWhole
<1> QED
  BY <1>1, ServingStart, ServingKeeps, PTL DEF ServingSpec

\* Once no upload and no delete is in progress, the row of an upload that ran alone tells
\* the size of its file, for any number of blocks and of connections.
THEOREM RowTold == ServingSpec => []RowTellsFile
<1>1. ServingInv => RowTellsFile
  BY DEF ServingInv, AloneRow, RowTellsFile
<1> QED
  BY <1>1, ServingStart, ServingKeeps, PTL DEF ServingSpec

-----------------------------------------------------------------------------
(* The counters of the routes.                                              *)

\* The first entry of a path that fits, the one that is counted in, has all
\* its requests unless the table was full when it was asked first; an entry
\* nobody else shares is the only one and has no more.
CountInv ==
    /\ route_stats \in Seq([path : {Cut[p] : p \in Url}, count : Nat \ {0}]) /\ hits \in Seq(Url)
    /\ \A p \in Url : Fits(p) =>
          /\ Asked(p) # {} /\ Len(route_stats) < MAX_ROUTE_STATS =>
                /\ Known(p) # {}
                /\ route_stats[Min(Known(p))].count >= Cardinality(Asked(p))
          /\ (\A o \in Url : Cut[o] = p => o = p) =>
                \A i, j \in Known(p) : i = j /\ route_stats[i].count <= Cardinality(Asked(p))

\* Min picks it.
LEMMA MinIsLeast ==
    ASSUME NEW S, S \subseteq Nat, S # {}
    PROVE  Min(S) \in S /\ \A j \in S : Min(S) <= j
  BY LeastExists DEF Min

\* A number of the set that no other is below is its minimum.
LEMMA LeastIsMin ==
    ASSUME NEW S, S \subseteq Nat, NEW i \in S, \A j \in S : i <= j
    PROVE  Min(S) = i
<1>1. Min(S) \in S /\ Min(S) <= i
  BY MinIsLeast
<1>2. Min(S) \in Nat /\ i \in Nat /\ i <= Min(S)
  BY <1>1
<1> QED
  BY <1>1, <1>2

\* A request of q is one more of q and of no other path.
LEMMA AskedGrows ==
    ASSUME hits \in Seq(Url), NEW p \in Url, NEW q \in Url, hits' = Append(hits, q)
    PROVE  /\ IsFiniteSet(Asked(p)) /\ Cardinality(Asked(p)) \in Nat
           /\ Asked(p)' = IF p = q THEN Asked(p) \cup {Len(hits) + 1} ELSE Asked(p)
           /\ Cardinality(Asked(p)') = IF p = q THEN Cardinality(Asked(p)) + 1
                                       ELSE Cardinality(Asked(p))
<1>1. Len(hits) \in Nat /\ DOMAIN hits = 1..Len(hits) /\ DOMAIN hits' = 1..(Len(hits) + 1)
  OBVIOUS
<1>2. hits'[Len(hits) + 1] = q /\ \A i \in 1..Len(hits) : hits'[i] = hits[i]
  OBVIOUS
<1>3. Asked(p) \subseteq 1..Len(hits)
  BY <1>1 DEF Asked
<1>4. IsFiniteSet(Asked(p)) /\ Cardinality(Asked(p)) \in Nat
  <2>1. IsFiniteSet(1..Len(hits))
    BY <1>1, FS_Interval
  <2>2. IsFiniteSet(Asked(p))
    BY <1>3, <2>1, FS_Subset
  <2> QED
    BY <2>2, FS_CardinalityType
<1>5. Asked(p)' = IF p = q THEN Asked(p) \cup {Len(hits) + 1} ELSE Asked(p)
  BY <1>1, <1>2 DEF Asked
<1>6. Len(hits) + 1 \notin Asked(p)
  BY <1>1, <1>3
<1> QED
  BY <1>4, <1>5, <1>6, FS_AddElement

\* Each way through track_route keeps the counters true: the entry is
\* known, there is room for it, the table is full.
LEMMA CountStep ==
    ASSUME CountInv, NEW q \in Url, track_route(q) PROVE CountInv'
<1> DEFINE Stat == [path : {Cut[p] : p \in Url}, count : Nat \ {0}]
           n == Len(route_stats)
<1>1. route_stats \in Seq(Stat) /\ hits \in Seq(Url) /\ hits' = Append(hits, q)
  BY DEF CountInv, track_route
<1>2. /\ n \in Nat /\ DOMAIN route_stats = 1..n
      /\ \A i \in 1..n : route_stats[i] \in Stat /\ route_stats[i].count \in Nat \ {0}
  <2>1. ASSUME NEW E, NEW s \in Seq(E)
        PROVE  Len(s) \in Nat /\ DOMAIN s = 1..Len(s) /\ \A i \in 1..Len(s) : s[i] \in E
    OBVIOUS
  <2>2. \A r \in Stat : r.count \in Nat \ {0}
    OBVIOUS
  <2> HIDE DEF Stat
  <2> QED
    BY <1>1, <2>1, <2>2
<1>3. \A p : Known(p) \subseteq 1..n /\ Known(p) \subseteq Nat
  BY <1>2 DEF Known
<1>4. hits' \in Seq(Url)
  BY <1>1
<1>5. ASSUME NEW p \in Url
      PROVE  /\ Cardinality(Asked(p)) \in Nat
             /\ Cardinality(Asked(p)') = IF p = q THEN Cardinality(Asked(p)) + 1
                                         ELSE Cardinality(Asked(p))
             /\ p # q => Asked(p)' = Asked(p)
             /\ Asked(p) = {} => Cardinality(Asked(p)) = 0
  BY <1>1, AskedGrows, FS_EmptySet
<1>6. CASE Known(q) # {}
  <2> DEFINE m == Min(Known(q))
             e == [route_stats[m] EXCEPT !.count = @ + 1]
  <2>1. m \in Known(q) /\ m \in 1..n /\ route_stats[m].path = q
    BY <1>3, <1>6, MinIsLeast DEF Known
  <2>2. route_stats' = [route_stats EXCEPT ![m] = e]
    BY <1>6 DEF track_route
  <2>3. e \in Stat /\ e.path = q /\ e.count = route_stats[m].count + 1
    BY <1>2, <2>1
  <2> HIDE DEF m, e
  <2>4. /\ route_stats' \in Seq(Stat) /\ Len(route_stats') = n
        /\ DOMAIN route_stats' = 1..n /\ route_stats'[m] = e
        /\ \A i \in 1..n \ {m} : route_stats'[i] = route_stats[i]
    <3> HIDE DEF Stat
    <3> QED
      BY <1>1, <1>2, <2>1, <2>2, <2>3
  <2>5. \A p : Known(p)' = Known(p)
    BY <1>2, <2>1, <2>3, <2>4 DEF Known
  <2>6. ASSUME NEW p \in Url, Fits(p), Asked(p)' # {}, n < MAX_ROUTE_STATS
        PROVE  /\ Known(p) # {}
               /\ route_stats'[Min(Known(p))].count >= Cardinality(Asked(p)')
    <3>1. CASE p = q
      <4>1. Asked(p) # {} => route_stats[m].count >= Cardinality(Asked(p))
        BY <2>6, <3>1 DEF CountInv, m
      <4> QED
        BY <1>2, <1>5, <1>6, <2>1, <2>3, <2>4, <3>1, <4>1 DEF m
    <3>2. CASE p # q
      <4>1. /\ Known(p) # {} /\ route_stats[Min(Known(p))].count >= Cardinality(Asked(p))
            /\ Cardinality(Asked(p)') = Cardinality(Asked(p))
        BY <1>5, <2>6, <3>2 DEF CountInv
      <4>2. Min(Known(p)) \in 1..n /\ Min(Known(p)) # m
        BY <1>3, <2>1, <3>2, <4>1, MinIsLeast DEF Known
      <4> QED
        BY <2>4, <4>1, <4>2
    <3> QED
      BY <3>1, <3>2
  <2>7. ASSUME NEW p \in Url, Fits(p), \A o \in Url : Cut[o] = p => o = p,
               NEW i \in Known(p), NEW j \in Known(p)
        PROVE  i = j /\ route_stats'[i].count <= Cardinality(Asked(p)')
    <3>1. i = j /\ route_stats[i].count <= Cardinality(Asked(p)) /\ i \in 1..n
      BY <1>3, <2>7 DEF CountInv
    <3>2. i = m <=> p = q
      BY <2>1, <2>7, <3>1 DEF CountInv, Known
    <3> QED
      BY <1>2, <1>5, <2>3, <2>4, <3>1, <3>2
  <2> QED
    BY <1>4, <2>4, <2>5, <2>6, <2>7 DEF CountInv, Fits
<1>7. CASE Known(q) = {} /\ n < MAX_ROUTE_STATS
  <2> DEFINE e == [path |-> Cut[q], count |-> 1]
  <2>1. route_stats' = Append(route_stats, e) /\ e \in Stat /\ e.path = Cut[q] /\ e.count = 1
    BY <1>7 DEF track_route
  <2> HIDE DEF e
  <2>2. /\ route_stats' \in Seq(Stat) /\ Len(route_stats') = n + 1
        /\ DOMAIN route_stats' = 1..(n + 1) /\ route_stats'[n + 1] = e
        /\ \A i \in 1..n : route_stats'[i] = route_stats[i]
    <3> HIDE DEF Stat
    <3> QED
      BY <1>1, <1>2, <2>1
  <2>3. \A p : Known(p)' = Known(p) \cup (IF p = Cut[q] THEN {n + 1} ELSE {})
    BY <1>2, <2>1, <2>2 DEF Known
  <2>4. ASSUME NEW p \in Url, Fits(p), Asked(p)' # {}, n + 1 < MAX_ROUTE_STATS
        PROVE  /\ Known(p)' # {}
               /\ route_stats'[Min(Known(p)')].count >= Cardinality(Asked(p)')
    <3>1. CASE p = q
      <4>1. Asked(p) = {} /\ Cardinality(Asked(p)') = 1
        BY <1>5, <1>7, <2>4, <3>1 DEF CountInv
      <4>2. Known(p)' = {n + 1}
        BY <1>7, <2>3, <2>4, <3>1 DEF Fits
      <4>3. Min({n + 1}) = n + 1
        <5> DEFINE k == n + 1
        <5>1. k \in Nat /\ k \in {k} /\ {k} \subseteq Nat /\ \A j \in {k} : k <= j
          BY <1>2
        <5> HIDE DEF k
        <5>2. Min({k}) = k
          BY <5>1, LeastIsMin
        <5> QED
          BY <5>2 DEF k
      <4> QED
        BY <2>1, <2>2, <4>1, <4>2, <4>3
    <3>2. CASE p # q
      <4>1. /\ Known(p) # {} /\ route_stats[Min(Known(p))].count >= Cardinality(Asked(p))
            /\ Cardinality(Asked(p)') = Cardinality(Asked(p))
        BY <1>5, <1>7, <2>4, <3>2 DEF CountInv
      <4>2. /\ Min(Known(p)) \in Known(p) /\ \A j \in Known(p) : Min(Known(p)) <= j
            /\ Min(Known(p)) \in 1..n
        BY <1>3, <4>1, MinIsLeast
      <4>3. /\ Known(p)' \subseteq Nat /\ Min(Known(p)) \in Known(p)'
            /\ \A j \in Known(p)' : Min(Known(p)) <= j
        BY <1>2, <1>3, <2>3, <4>2
      <4>4. Min(Known(p)') = Min(Known(p))
        BY <4>3, LeastIsMin
      <4> QED
        BY <2>2, <4>1, <4>2, <4>3, <4>4
    <3> QED
      BY <3>1, <3>2
  <2>5. ASSUME NEW p \in Url, Fits(p), \A o \in Url : Cut[o] = p => o = p,
               NEW i \in Known(p)', NEW j \in Known(p)'
        PROVE  i = j /\ route_stats'[i].count <= Cardinality(Asked(p)')
    <3>1. CASE p = q
      <4>1. i = n + 1 /\ j = n + 1
        BY <1>7, <2>3, <2>5, <3>1
      <4> QED
        BY <1>5, <2>1, <2>2, <3>1, <4>1
    <3>2. CASE p # q
      <4>1. i \in Known(p) /\ j \in Known(p) /\ i \in 1..n
        BY <1>3, <2>3, <2>5, <3>2
      <4> QED
        BY <1>5, <2>2, <2>5, <3>2, <4>1 DEF CountInv
    <3> QED
      BY <3>1, <3>2
  <2> QED
    BY <1>4, <2>2, <2>4, <2>5 DEF CountInv, Fits
<1>8. CASE Known(q) = {} /\ ~(n < MAX_ROUTE_STATS)
  <2>1. route_stats' = route_stats
    BY <1>8 DEF track_route
  <2>2. \A p : Known(p)' = Known(p)
    BY <2>1 DEF Known
  <2>3. ASSUME NEW p \in Url, Fits(p), \A o \in Url : Cut[o] = p => o = p,
               NEW i \in Known(p), NEW j \in Known(p)
        PROVE  i = j /\ route_stats[i].count <= Cardinality(Asked(p)')
    <3>1. i = j /\ route_stats[i].count <= Cardinality(Asked(p)) /\ i \in 1..n
      BY <1>3, <2>3 DEF CountInv
    <3> QED
      BY <1>2, <1>5, <3>1
  <2> QED
    BY <1>1, <1>4, <1>8, <2>1, <2>2, <2>3 DEF CountInv, Fits
<1> QED
  BY <1>6, <1>7, <1>8

\* Every counter tells the number of requests for its path, for any number of
\* paths and requests and any size of the table.
THEOREM CountsTrue == TelemetrySpec => []CountersTrue
<1>1. TelemetryInit => CountInv
  BY DEF TelemetryInit, CountInv, Asked, Known
<1>2. CountInv /\ [TelemetryNext]_telemetryVars => CountInv'
  <2> SUFFICES ASSUME CountInv, [TelemetryNext]_telemetryVars PROVE CountInv'
    OBVIOUS
  <2>1. ASSUME NEW q \in Url, track_route(q) PROVE CountInv'
    BY <2>1, CountStep
  <2>2. CASE UNCHANGED routeVars
    <3>1. route_stats' = route_stats /\ hits' = hits
      BY <2>2 DEF routeVars
    <3>2. \A p : Known(p)' = Known(p) /\ Asked(p)' = Asked(p) /\ Fits(p)' = Fits(p)
      BY <3>1 DEF Known, Asked, Fits
    <3> QED
      BY <3>1, <3>2 DEF CountInv
  <2> QED
    BY <2>1, <2>2 DEF TelemetryNext, RouteNext, CpuNext, arc_log, Tick, api_system_info_handler,
      read_stat, load, store, telemetryVars
<1>3. CountInv => CountersTrue
  <2> SUFFICES ASSUME CountInv, NEW p \in Url, Fits(p)
               PROVE  /\ (\A o \in Url : Cut[o] = p => o = p) =>
                            /\ Cardinality(Known(p)) <= 1
                            /\ \A i \in Known(p) : route_stats[i].count <= Cardinality(Asked(p))
                      /\ Asked(p) # {} /\ Len(route_stats) < MAX_ROUTE_STATS =>
                            \E i \in Known(p) : route_stats[i].count >= Cardinality(Asked(p))
    BY DEF CountersTrue
  <2>1. Known(p) \subseteq Nat
    <3>1. DOMAIN route_stats \subseteq Nat
      BY DEF CountInv
    <3> QED
      BY <3>1 DEF Known
  <2>2. ASSUME \A i, j \in Known(p) : i = j PROVE Cardinality(Known(p)) <= 1
    <3>1. CASE Known(p) = {}
      BY <3>1, FS_EmptySet
    <3>2. CASE Known(p) # {}
      <4>1. PICK i \in Known(p) : Known(p) = {i}
        BY <2>2, <3>2
      <4>2. Cardinality({i}) = 1
        BY FS_Singleton
      <4> QED
        BY <4>1, <4>2
    <3> QED
      BY <3>1, <3>2
  <2>3. Known(p) # {} => Min(Known(p)) \in Known(p)
    BY <2>1, MinIsLeast
  <2> QED
    BY <2>2, <2>3 DEF CountInv
<1> QED
  BY <1>1, <1>2, <1>3, PTL DEF TelemetrySpec

-----------------------------------------------------------------------------
(* Pages and static files.                                                  *)

\* One step of resolving p: the parts left after part i, t having those left
\* after the one before.
Resolved(p, t, i) ==
    IF i = 0 THEN <<>>
    ELSE CASE p[i] = ".." -> (IF t[i - 1] = <<>> THEN <<>> ELSE Front(t[i - 1]))
           [] p[i] \in {"", "."} -> t[i - 1]
           [] OTHER -> Append(t[i - 1], p[i])

Resolution(p) == CHOOSE t : t = [i \in 0..Len(p) |-> Resolved(p, t, i)]

\* The check and the kernel resolve a path alike.
LEMMA SameResolution ==
    ASSUME NEW p
    PROVE  /\ canonicalize_path(p) = Resolution(p)[Len(p)]
           /\ \A f \in Names(p) : f = canonicalize_path(p)
<1>1. canonicalize_path(p) = Resolution(p)[Len(p)]
  BY DEF canonicalize_path, Resolution, Resolved
<1>2. \A f \in Names(p) : f = Resolution(p)[Len(p)]
  BY DEF Names, Resolution, Resolved
<1> QED
  BY <1>1, <1>2

\* What resolving leaves out or acts on.
Dots == {"..", "", "."}

\* A path without dots and empty parts resolves to itself.
LEMMA PlainResolves ==
    ASSUME NEW S, NEW p \in Seq(S), \A i \in DOMAIN p : p[i] \notin Dots
    PROVE  canonicalize_path(p) = p
<1> DEFINE g == [i \in 0..Len(p) |-> SubSeq(p, 1, i)]
           T == Resolution(p)
<1>1. Len(p) \in Nat /\ DOMAIN p = 1..Len(p)
  BY LenProperties
<1>2. SubSeq(p, 1, 0) = <<>> /\ SubSeq(p, 1, Len(p)) = p
  BY SubSeqEmpty, SubSeqFull
<1>3. \A i \in 1..Len(p) : SubSeq(p, 1, i) = Append(SubSeq(p, 1, i - 1), p[i])
  <2> SUFFICES ASSUME NEW i \in 1..Len(p)
               PROVE  SubSeq(p, 1, i) = Append(SubSeq(p, 1, i - 1), p[i])
    OBVIOUS
  <2>1. SubSeq(p, 1, i) = SubSeq(p, 1, i - 1) \o <<p[i]>>
    BY <1>1, SubSeqRecursiveSecond
  <2>2. \A j \in 1..(i - 1) : p[j] \in S
    BY <1>1, ElementOfSeq
  <2>3. SubSeq(p, 1, i - 1) \in Seq(S) /\ p[i] \in S
    BY <1>1, <2>2, SubSeqProperties, ElementOfSeq
  <2> QED
    BY <2>1, <2>3, AppendIsConcat
<1>4. \A t : \A i \in 1..Len(p) : Resolved(p, t, i) = Append(t[i - 1], p[i])
  <2> SUFFICES ASSUME NEW t, NEW i \in 1..Len(p)
               PROVE  Resolved(p, t, i) = Append(t[i - 1], p[i])
    OBVIOUS
  <2>1. i # 0 /\ p[i] \notin Dots
    BY <1>1
  <2> QED
    BY <2>1, Zenon DEF Resolved, Dots
<1>5. \A t : Resolved(p, t, 0) = <<>>
  BY Zenon DEF Resolved
<1>6. g = [i \in 0..Len(p) |-> Resolved(p, g, i)]
  <2>1. \A i \in 0..Len(p) : g[i] = Resolved(p, g, i)
    <3> SUFFICES ASSUME NEW i \in 0..Len(p) PROVE g[i] = Resolved(p, g, i)
      OBVIOUS
    <3>1. CASE i = 0
      BY <1>1, <1>2, <1>5, <3>1
    <3>2. CASE i \in 1..Len(p)
      <4>1. i - 1 \in 0..Len(p)
        BY <1>1, <3>2
      <4>2. g[i] = Append(SubSeq(p, 1, i - 1), p[i]) /\ g[i - 1] = SubSeq(p, 1, i - 1)
        BY <1>3, <3>2, <4>1
      <4> HIDE DEF g
      <4> QED
        BY <1>4, <3>2, <4>2
    <3> QED
      BY <1>1, <3>1, <3>2
  <2> QED
    BY <2>1
<1>7. T = [i \in 0..Len(p) |-> Resolved(p, T, i)]
  BY <1>6 DEF Resolution
<1> HIDE DEF T
<1>8. T[0] = g[0] /\ \A i \in 1..Len(p) : T[i - 1] = g[i - 1] => T[i] = g[i]
  <2>1. T[0] = g[0]
    BY <1>1, <1>2, <1>5, <1>7
  <2>2. ASSUME NEW i \in 1..Len(p), T[i - 1] = g[i - 1] PROVE T[i] = g[i]
    <3>1. i \in 0..Len(p)
      BY <1>1
    <3>2. T[i] = Resolved(p, T, i) /\ g[i] = Resolved(p, g, i)
      BY <1>6, <1>7, <3>1
    <3> HIDE DEF g
    <3> QED
      BY <1>4, <2>2, <3>2
  <2> QED
    BY <2>1, <2>2
<1> HIDE DEF g
<1>9. \A i \in 0..Len(p) : T[i] = g[i]
  <2> DEFINE B == {i \in 0..Len(p) : T[i] # g[i]}
  <2>1. SUFFICES ASSUME B # {} PROVE FALSE
    OBVIOUS
  <2>2. B \subseteq Nat
    BY <1>1
  <2>3. PICK i \in B : \A j \in B : i <= j
    BY <2>1, <2>2, LeastExists
  <2>4. i \in 1..Len(p)
    BY <1>1, <1>8, <2>3
  <2>5. i - 1 \in 0..Len(p) /\ ~(i <= i - 1)
    BY <1>1, <2>4
  <2>6. T[i - 1] = g[i - 1]
    BY <2>3, <2>5
  <2> QED
    BY <1>8, <2>3, <2>4, <2>6
<1>10. T[Len(p)] = p
  <2>1. T[Len(p)] = g[Len(p)]
    BY <1>1, <1>9
  <2>2. g[Len(p)] = p
    BY <1>1, <1>2 DEF g
  <2> QED
    BY <2>1, <2>2
<1> QED
  BY <1>10, SameResolution DEF T

\* Short tuples are sequences.
LEMMA TupleIsSeq ==
    ASSUME NEW X, NEW a \in X, NEW b \in X, NEW c \in X
    PROVE  <<a, b>> \in Seq(X) /\ <<a, b, c>> \in Seq(X)
  OBVIOUS

\* The parts of a requested path, with those the handlers put before it.
PathPart == Part \cup {"ar-ws", "web", "manager", "dashboard", "tabs"}

\* A requested path is a sequence of its parts.
LEMMA PagePathIsSeq == \A p \in PagePath : p \in Seq(PathPart)
<1>1. WEB_BASE_PATH \in Seq(PathPart) /\ Tabs \in Seq(PathPart)
  <2>1. {"ar-ws", "web", "manager", "dashboard", "tabs"} \subseteq PathPart
    BY Zenon DEF PathPart
  <2>2. WEB_BASE_PATH \in Seq(PathPart)
    BY <2>1, TupleIsSeq, Zenon DEF WEB_BASE_PATH
  <2>3. <<"manager", "dashboard", "tabs">> \in Seq(PathPart)
    BY <2>1, TupleIsSeq, Zenon
  <2> QED
    BY <2>2, <2>3, ConcatProperties, Zenon DEF Tabs
<1>2. \A p \in Requested : p \in Seq(PathPart)
  <2> SUFFICES ASSUME NEW n \in 1..MaxParts, NEW p \in [1..n -> Part]
               PROVE  p \in Seq(PathPart)
    BY Zenon DEF Requested
  <2>1. n \in Nat /\ \A i \in 1..n : p[i] \in PathPart
    BY DEF PathPart
  <2>2. p = [i \in 1..n |-> p[i]]
    OBVIOUS
  <2> QED
    BY <2>1, <2>2, IsASeq
<1> QED
  BY <1>1, <1>2, ConcatProperties, Zenon DEF PagePath

\* What the check allows is under the web directory, as the kernel sees it.
LEMMA AllowedUnderWeb ==
    ASSUME allowed_paths \subseteq File, \A f \in allowed_paths : UnderWeb(f),
           NEW p \in PagePath, is_path_allowed(p), NEW f \in Names(p)
    PROVE  UnderWeb(f)
<1>1. f = canonicalize_path(p)
  BY SameResolution, Zenon
<1>2. CASE p \in allowed_paths
  <2>1. \A i \in DOMAIN p : p[i] \notin Dots
    BY <1>2, PlainAssumption, PartAssumption, Zenon DEF Dots
  <2>2. canonicalize_path(p) = p
    BY <2>1, PagePathIsSeq, PlainResolves, Zenon
  <2> QED
    BY <1>1, <1>2, <2>2, Zenon
<1>3. CASE UnderWeb(canonicalize_path(p))
  BY <1>1, <1>3, Zenon
<1> QED
  BY <1>2, <1>3, Zenon DEF is_path_allowed

\* A path on its way to fopen passed the check, whatever was uploaded since.
WebInv ==
    /\ WebTypeOK
    /\ \A f \in allowed_paths : UnderWeb(f)
    /\ page # WIdle /\ page.step = "open" => is_path_allowed(page.path)
    /\ WebFilesServed

\* The inductive invariant holds at the start.
LEMMA WebStart == WebInit => WebInv
<1> SUFFICES ASSUME WebInit PROVE WebInv
  OBVIOUS
<1>1. WebTypeOK
  BY Zenon DEF WebInit, WebTypeOK, scan_web_directory
<1>2. \A f \in allowed_paths : UnderWeb(f)
  BY Zenon DEF WebInit, scan_web_directory
<1> QED
  BY <1>1, <1>2, Zenon DEF WebInit, WebInv, WebFilesServed

\* A request is never taken for none.
LEMMA WIdleApart == ASSUME NEW r \in PageRequest PROVE r # WIdle /\ r.step \in {"check", "open", "served", "refused"}
  BY DEF PageRequest, WIdle

\* A new request changes nothing else and is checked first.
LEMMA FetchKeeps ==
    ASSUME WebInv, NEW p \in PagePath, Fetch(p), UNCHANGED <<files, allowed_paths>>
    PROVE  WebInv'
<1>1. page' = [step |-> "check", path |-> p, steady |-> TRUE]
  BY DEF Fetch
<1>2. page' \in PageRequest /\ page'.step = "check"
  BY <1>1 DEF PageRequest
<1>3. files' = files /\ allowed_paths' = allowed_paths
  OBVIOUS
<1> QED
  BY <1>2, <1>3 DEF WebInv, WebTypeOK, WebFilesServed

\* What the check refuses is no file that is there, or none of the web's.
LEMMA CheckKeeps == WebInv /\ serve_check => WebInv'
<1> SUFFICES ASSUME WebInv, serve_check PROVE WebInv'
  OBVIOUS
<1>1. /\ page \in PageRequest /\ page.step = "check"
      /\ files' = files /\ allowed_paths' = allowed_paths
      /\ page' = [page EXCEPT !.step = IF is_path_allowed(page.path) THEN "open" ELSE "refused"]
  BY DEF serve_check, WebInv, WebTypeOK
<1>2. /\ page' \in PageRequest /\ page'.path = page.path /\ page'.path \in PagePath
      /\ page'.step = IF is_path_allowed(page.path) THEN "open" ELSE "refused"
  BY <1>1 DEF PageRequest
<1>3. page'.step = "open" => is_path_allowed(page.path)'
  BY <1>1, <1>2 DEF is_path_allowed
<1>4. ASSUME page'.step = "refused", \A i \in DOMAIN page'.path : page'.path[i] \notin Odd,
             NEW f \in Names(page'.path) \cap files
      PROVE  ~UnderWeb(f)
  <2>1. ~is_path_allowed(page.path)
    BY <1>2, <1>4
  <2>2. f \in File
    BY DEF WebInv, WebTypeOK
  <2>3. f = canonicalize_path(page.path)
    BY <1>2, SameResolution, Zenon
  <2>4. CASE Names(page.path) \cap Dir # {}
    <3>1. PICK d \in Names(page.path) : d \in Dir
      BY <2>4
    <3>2. d = f
      BY <2>3, <3>1, SameResolution, Zenon
    <3> QED
      BY <2>2, <3>1, <3>2, DirAssumption, Zenon
  <2>5. CASE ~UnderWeb(canonicalize_path(page.path))
    BY <2>3, <2>5, Zenon
  <2> QED
    BY <1>2, <1>4, <2>1, <2>4, <2>5, Zenon DEF is_path_allowed
<1>5. page'.step # "served"
  BY <1>2
<1>6. WebFilesServed'
  BY <1>1, <1>4, <1>5, Zenon DEF WebFilesServed
<1>7. WebTypeOK' /\ \A f \in allowed_paths' : UnderWeb(f)
  BY <1>1, <1>2 DEF WebInv, WebTypeOK
<1> QED
  BY <1>3, <1>6, <1>7 DEF WebInv, UnderWeb

\* What fopen opens passed the check.
LEMMA OpenKeeps == WebInv /\ serve_open => WebInv'
<1> SUFFICES ASSUME WebInv, serve_open PROVE WebInv'
  OBVIOUS
<1>1. /\ page \in PageRequest /\ page # WIdle /\ page.step = "open"
      /\ files' = files /\ allowed_paths' = allowed_paths
      /\ page' = [page EXCEPT !.step = IF Names(page.path) \cap files # {} THEN "served"
                                       ELSE "refused"]
  BY DEF serve_open, WebInv, WebTypeOK
<1>2. /\ page' \in PageRequest /\ page'.path = page.path /\ page'.path \in PagePath
      /\ page'.step = IF Names(page.path) \cap files # {} THEN "served" ELSE "refused"
  BY <1>1 DEF PageRequest
<1>3. ASSUME page'.step = "served", NEW f \in Names(page'.path)
      PROVE  f \in File /\ UnderWeb(f)
  <2>1. PICK g \in Names(page.path) : g \in files
    BY <1>2, <1>3
  <2>2. f = g
    BY <1>2, <1>3, <2>1, SameResolution, Zenon
  <2>3. f \in File
    BY <2>1, <2>2 DEF WebInv, WebTypeOK
  <2>4. is_path_allowed(page.path) /\ allowed_paths \subseteq File /\ \A h \in allowed_paths : UnderWeb(h)
    BY <1>1 DEF WebInv, WebTypeOK
  <2>5. UnderWeb(f)
    BY <1>2, <1>3, <2>4, AllowedUnderWeb, Zenon
  <2> QED
    BY <2>3, <2>5
<1>4. page'.step = "refused" => Names(page'.path) \cap files' = {}
  BY <1>1, <1>2
<1>5. WebFilesServed'
  BY <1>3, <1>4, Zenon DEF WebFilesServed
<1>6. WebTypeOK' /\ \A f \in allowed_paths' : UnderWeb(f)
  BY <1>1, <1>2 DEF WebInv, WebTypeOK
<1>7. page'.step # "open"
  BY <1>2
<1> QED
  BY <1>5, <1>6, <1>7 DEF WebInv, UnderWeb

\* An upload or deletion changes no decision.
LEMMA RewriteKeeps == WebInv /\ Rewritten => WebInv'
<1> SUFFICES ASSUME WebInv, Rewritten PROVE WebInv'
  OBVIOUS
<1>1. files' \subseteq File /\ allowed_paths' = allowed_paths /\ allowed_paths \subseteq File
  BY DEF Rewritten, WebInv, WebTypeOK
<1>2. CASE page = WIdle
  <2>1. page' = WIdle
    BY <1>2 DEF Rewritten
  <2> QED
    BY <1>1, <2>1 DEF WebInv, WebTypeOK, WebFilesServed
<1>3. CASE page # WIdle
  <2>1. /\ page' \in PageRequest /\ page'.path = page.path /\ page'.step = page.step
        /\ page'.steady = FALSE
    BY <1>3 DEF Rewritten, WebInv, WebTypeOK, PageRequest
  <2>2. page.step = "served" => \A f \in Names(page.path) : f \in File /\ UnderWeb(f)
    BY <1>3 DEF WebInv, WebFilesServed
  <2>3. WebFilesServed'
    BY <2>1, <2>2, Zenon DEF WebFilesServed
  <2>4. page'.step = "open" => is_path_allowed(page.path)'
    BY <1>1, <1>3, <2>1 DEF is_path_allowed, WebInv
  <2> QED
    BY <1>1, <2>1, <2>3, <2>4 DEF WebInv, WebTypeOK
<1> QED
  BY <1>2, <1>3

\* The invariant holds in every reachable state.
LEMMA WebInvariant == WebSpec => []WebInv
<1>1. WebInit => WebInv
  BY WebStart
<1>2. WebInv /\ [WebNext]_webVars => WebInv'
  <2> SUFFICES ASSUME WebInv, [WebNext]_webVars PROVE WebInv'
    OBVIOUS
  <2>1. CASE static_handler
    <3>1. \A p \in Requested : WEB_BASE_PATH \o p \in PagePath
      BY Zenon DEF PagePath
    <3> QED
      BY <2>1, <3>1, FetchKeeps, Zenon DEF static_handler
  <2>2. CASE api_component_handler
    <3>1. \A t \in Tab : <<t>> \in Requested
      <4>1. \A t \in Tab : <<t>> \in [1..1 -> Part]
        BY PartAssumption
      <4>2. 1 \in 1..MaxParts
        BY PartsAssumption
      <4> QED
        BY <4>1, <4>2, Zenon DEF Requested
    <3>2. PICK t \in Tab : Fetch(Tabs \o <<t>>) /\ UNCHANGED <<files, allowed_paths>>
      BY <2>2, Zenon DEF api_component_handler
    <3>3. Tabs \o <<t>> \in PagePath
      BY <3>1, Zenon DEF PagePath
    <3> QED
      BY <3>2, <3>3, FetchKeeps, Zenon
  <2>3. CASE serve_check
    BY <2>3, CheckKeeps
  <2>4. CASE serve_open
    BY <2>4, OpenKeeps
  <2>5. CASE serve_end
    <3>1. page' = WIdle /\ files' = files /\ allowed_paths' = allowed_paths
      BY <2>5 DEF serve_end
    <3> QED
      BY <3>1 DEF WebInv, WebTypeOK, WebFilesServed
  <2>6. CASE Rewritten
    BY <2>6, RewriteKeeps
  <2>7. CASE UNCHANGED webVars
    BY <2>7 DEF webVars, WebInv, WebTypeOK, WebFilesServed, is_path_allowed
  <2> QED
    BY <2>1, <2>2, <2>3, <2>4, <2>5, <2>6, <2>7, Zenon DEF WebNext
<1> QED
  BY <1>1, <1>2, PTL DEF WebSpec

\* The state of a request for a file keeps its type.
THEOREM WebTypeInvariant == WebSpec => []WebTypeOK
<1>1. WebInv => WebTypeOK
  BY DEF WebInv
<1> QED
  BY <1>1, WebInvariant, PTL

\* server_serve_file serves no file outside the web directory, and refuses
\* none inside it that was there all along, whatever the files and the paths.
THEOREM OnlyWebFiles == WebSpec => []WebFilesServed
<1>1. WebInv => WebFilesServed
  BY DEF WebInv
<1> QED
  BY <1>1, WebInvariant, PTL
=============================================================================
