----------------------------- MODULE JsonForest ------------------------------
(***************************************************************************)
(* What cJSON promises its callers of the items they build: a forest.      *)
(* Every container has a sequence of items, an item belongs to one         *)
(* container or to the caller, and each call changes just the sequences it *)
(* names.  A step does not record which call it is.                        *)
(***************************************************************************)
EXTENDS SequencesExt

CONSTANTS
    Node,       \* items there is memory for
    Key,        \* keys of members
    None,       \* no key
    MaxParts    \* bound: items made at once below a new one

VARIABLES
    live,       \* the items that exist
    kids,       \* the items of each, in order
    keys        \* the key of each, or None

forestVars == <<live, kids, keys>>

ForestInit ==
    /\ live = {}
    /\ kids = [n \in Node |-> <<>>]
    /\ keys = [n \in Node |-> None]

Tops == {n \in live : \A p \in live : n \notin ToSet(kids[p])}

\* The items of the tree below n, with n: those in every set that has n and,
\* with an item, its children.
TreeOf(n) == {m \in Node : \A S \in SUBSET Node :
                 n \in S /\ (\A p \in S : ToSet(kids[p]) \subseteq S) => m \in S}

\* A new item, or a new list of items without a key.
Made(n, parts) ==
    /\ live' = live \cup {n} \cup ToSet(parts)
    /\ {n} \cup ToSet(parts) \subseteq Node \ live /\ n \notin ToSet(parts) /\ IsInjective(parts)
    /\ kids' = [kids EXCEPT ![n] = parts]
    /\ UNCHANGED keys

\* The item i, which is the caller's or has just been made, goes to place w
\* among those of p; with a key if it is added as a member.
Placed(p, w, i, k) ==
    /\ p \in live /\ p # i /\ w \in 1..Len(kids[p]) + 1
    /\ live' = live \cup {i}
    /\ kids' = [kids EXCEPT ![p] = InsertAt(@, w, i)]
    /\ keys' = [keys EXCEPT ![i] = k]
    /\ i \in Tops \/ i \notin live
    /\ i \in live => p \notin TreeOf(i)

Detached(p, w) ==
    /\ p \in live /\ w \in DOMAIN kids[p]
    /\ kids' = [kids EXCEPT ![p] = RemoveAt(@, w)]
    /\ UNCHANGED <<live, keys>>

\* The trees of gone are freed; kept are the sequences that stay.
Freed(gone, kept) ==
    /\ live' = live \ gone
    /\ kids' = [n \in Node |-> IF n \in gone THEN <<>> ELSE kept[n]]
    /\ keys' = [n \in Node |-> IF n \in gone THEN None ELSE keys[n]]

Deleted(i) == i \in Tops /\ Freed(TreeOf(i), kids)
Removed(p, w) ==
    /\ p \in live /\ w \in DOMAIN kids[p]
    /\ Freed(TreeOf(kids[p][w]), [kids EXCEPT ![p] = RemoveAt(@, w)])

\* r takes the place w of p, with a key k if it is set on the way.
Replaced(p, w, r, k) ==
    /\ p \in live /\ w \in DOMAIN kids[p] /\ r \in Tops /\ p \notin TreeOf(r)
    /\ LET gone == TreeOf(kids[p][w])
       IN  /\ live' = live \ gone
           /\ kids' = [n \in Node |-> CASE n = p -> [kids[p] EXCEPT ![w] = r]
                                        [] n # p /\ n \in gone -> <<>>
                                        [] OTHER -> kids[n]]
           /\ keys' = [n \in Node |-> CASE n = r -> k
                                        [] n # r /\ n \in gone -> None
                                        [] OTHER -> keys[n]]

Renamed(i, k) == i \in Tops /\ keys' = [keys EXCEPT ![i] = k] /\ UNCHANGED <<live, kids>>

\* A copy of the tree of i, or of i alone, equal but for the items themselves.
Copied(i, deep) ==
    LET tree == IF deep THEN TreeOf(i) ELSE {i} IN
    \E to \in Injection(tree, Node \ live) :
        /\ live' = live \cup {to[m] : m \in tree}
        /\ kids' = [n \in Node |-> IF \E m \in tree : to[m] = n /\ deep
                     THEN LET m == CHOOSE m \in tree : to[m] = n
                          IN  [j \in DOMAIN kids[m] |-> to[kids[m][j]]]
                     ELSE kids[n]]
        /\ keys' = [n \in Node |-> IF \E m \in tree : to[m] = n
                     THEN keys[CHOOSE m \in tree : to[m] = n] ELSE keys[n]]

ForestNext ==
    \/ \E n \in Node \ live, parts \in SeqOf(Node \ live, MaxParts) : Made(n, parts)
    \/ \E i \in live : Deleted(i) \/ \E k \in Key \cup {None} : Renamed(i, k)
    \/ \E p \in live : \E w \in DOMAIN kids[p] :
           \/ Detached(p, w) \/ Removed(p, w)
           \/ \E r \in Tops, k \in Key \cup {None} : Replaced(p, w, r, k)
    \/ \E p \in live, i \in Node, k \in Key \cup {None} :
           \E w \in 1..Len(kids[p]) + 1 : Placed(p, w, i, k)
    \/ \E i \in live, deep \in BOOLEAN : Copied(i, deep)

ForestSpec == ForestInit /\ [][ForestNext]_forestVars
=============================================================================
