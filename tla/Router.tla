------------------------------- MODULE Router -------------------------------
(***************************************************************************)
(* The router of ar-bemf/router.c: a hash table of routes, each bucket a   *)
(* list with the newest route first, filled by add_route before the server *)
(* starts, and router_dispatch, which picks the handler of a request.      *)
(*                                                                         *)
(* A path is a literal name.  What a path ending in '*' matches, and which *)
(* host name is "www." and another, are relations given as constants, and  *)
(* so is the hash.                                                         *)
(***************************************************************************)
EXTENDS Naturals, Sequences

CONSTANTS
    Path,       \* paths of routes and of requests
    Method,
    Host,       \* host names, of requests and of domains
    Www,        \* the pairs <<www, h>> of hosts where www is "www." and h
    NoHost,     \* the empty string: no Host header, or a route of all domains
    Covers,     \* the pairs <<w, p>> of paths where w ends in '*' and begins p
    Handler,
    NotFound,   \* server_send_404
    Buckets,    \* ROUTE_HASH_SIZE, 128 in the code
    Hashes,     \* hash functions to consider; the code has one of them
    MaxRoutes   \* bound: routes ever added

Bucket == 0..(Buckets - 1)
Key == Path \X Method

ASSUME WwwAssumption == Www \subseteq Host \X Host
ASSUME NoHostAssumption == NoHost \notin Host
ASSUME CoversAssumption == Covers \subseteq Path \X Path
ASSUME HandlerAssumption == NotFound \notin Handler
ASSUME HashAssumption == Buckets \in Nat \ {0} /\ Hashes \subseteq [Key -> Bucket]
ASSUME BoundAssumption == MaxRoutes \in Nat

VARIABLES
    route_hash,     \* the lists
    hash_route,     \* the hash function; it never changes
    registered      \* history: all routes in the order they were added

vars == <<route_hash, hash_route, registered>>

Route == [path : Path, method : Method, domain : Host \cup {NoHost}, handler : Handler]
Request == [path : Path, method : Method, host : Host \cup {NoHost}]

TypeOK ==
    /\ route_hash \in [Bucket -> Seq(Route)]
    /\ hash_route \in Hashes
    /\ registered \in Seq(Route)

Init ==
    /\ route_hash = [b \in Bucket |-> <<>>]
    /\ hash_route \in Hashes
    /\ registered = <<>>

add_route(r) ==
    LET b == hash_route[<<r.path, r.method>>] IN
    /\ Len(registered) < MaxRoutes
    /\ route_hash' = [route_hash EXCEPT ![b] = <<r>> \o @]
    /\ registered' = Append(registered, r)
    /\ UNCHANGED hash_route

Next == \E r \in Route : add_route(r)

Spec == Init /\ [][Next]_vars

-----------------------------------------------------------------------------
domain_matches(domain, host) ==
    \/ domain = NoHost
    \/ host # NoHost /\ (host = domain \/ <<host, domain>> \in Www \/ <<domain, host>> \in Www)

IsExact(r, q) == r.path = q.path /\ r.method = q.method /\ domain_matches(r.domain, q.host)
IsWild(r, q) == <<r.path, q.path>> \in Covers /\ r.method = q.method
IsOwnWild(r, q) == IsWild(r, q) /\ r.domain # NoHost /\ domain_matches(r.domain, q.host)
IsCatchAll(r, q) == IsWild(r, q) /\ r.domain = NoHost

\* Places in the table, in the order of the loop over all of it.
Place == UNION {{b} \X DOMAIN route_hash[b] : b \in Bucket}
At(x) == route_hash[x[1]][x[2]]
Before(x, y) == x[1] < y[1] \/ (x[1] = y[1] /\ x[2] <= y[2])
FirstOf(S) == CHOOSE x \in S : \A y \in S : Before(x, y)

\* The three kinds of places the dispatch looks for, in order of preference.
ExactPlaces(q) == {x \in Place : x[1] = hash_route[<<q.path, q.method>>] /\ IsExact(At(x), q)}
OwnWildPlaces(q) == {x \in Place : IsOwnWild(At(x), q)}
CatchAllPlaces(q) == {x \in Place : IsCatchAll(At(x), q)}

\* Wrong: the first wildcard that matches serves, of whatever domain.
router_dispatchAnyWild(q) ==
    LET wild == OwnWildPlaces(q) \cup CatchAllPlaces(q)
    IN  CASE ExactPlaces(q) # {} -> At(FirstOf(ExactPlaces(q))).handler
          [] ExactPlaces(q) = {} /\ wild # {} -> At(FirstOf(wild)).handler
          [] OTHER -> NotFound

\* The bucket of the request is searched first, then the whole table.
router_dispatch(q) ==
    CASE ExactPlaces(q) # {} -> At(FirstOf(ExactPlaces(q))).handler
      [] ExactPlaces(q) = {} /\ OwnWildPlaces(q) # {} -> At(FirstOf(OwnWildPlaces(q))).handler
      [] ExactPlaces(q) \cup OwnWildPlaces(q) = {} /\ CatchAllPlaces(q) # {} ->
             At(FirstOf(CatchAllPlaces(q))).handler
      [] OTHER -> NotFound

-----------------------------------------------------------------------------
(* What the routes that were added, in their order, say about a request.    *)

Added == DOMAIN registered
ExactAdded(q) == {i \in Added : IsExact(registered[i], q)}
OwnWildAdded(q) == {i \in Added : IsOwnWild(registered[i], q)}
CatchAllAdded(q) == {i \in Added : IsCatchAll(registered[i], q)}
HandlersOf(I) == {registered[i].handler : i \in I}

\* A route for the very path and domain is always found, whatever shares its
\* bucket, and the last one added shadows the earlier ones.
NewestExactRouteServes ==
    \A q \in Request : \A i \in ExactAdded(q) :
        (\A j \in ExactAdded(q) : j <= i) => router_dispatch(q) = registered[i].handler

\* The last one of each path among the routes numbered by I.
Newest(I) == {i \in I : \A j \in I : registered[j].path = registered[i].path => j <= i}

\* Without an exact route a wildcard of the request's domain serves before any
\* of all domains, in whatever order the two were added or hashed; and of the
\* wildcards of its path it is the one added last.
NewestWildServes ==
    \A q \in Request : ExactAdded(q) = {} =>
        /\ OwnWildAdded(q) # {} => router_dispatch(q) \in HandlersOf(Newest(OwnWildAdded(q)))
        /\ OwnWildAdded(q) = {} /\ CatchAllAdded(q) # {} =>
               router_dispatch(q) \in HandlersOf(Newest(CatchAllAdded(q)))

\* 404 is answered exactly to the requests no added route matches.
NotFoundOnlyWithoutRoute ==
    \A q \in Request :
        router_dispatch(q) = NotFound
            <=> ExactAdded(q) \cup OwnWildAdded(q) \cup CatchAllAdded(q) = {}

\* The three together.  The routes and the order they were added in decide who
\* answers, except that of wildcards of different paths that match a request
\* (and both name its domain, or both none) the one in the first bucket serves:
\* there the hash decides, not the longer path or the later route.
PreferredRouteServes ==
    NewestExactRouteServes /\ NewestWildServes /\ NotFoundOnlyWithoutRoute
=============================================================================
