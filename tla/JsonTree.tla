------------------------------ MODULE JsonTree -------------------------------
(***************************************************************************)
(* The items of shared/cJSON.c: the children of an item are a list linked  *)
(* both ways, and the prev of its first one leads to its last.  Each call  *)
(* is one step, for the callers share no item between threads.  A call may *)
(* find no memory at any of its allocations.                               *)
(*                                                                         *)
(* Arrays and objects are both lists here, and every other value a string: *)
(* numbers, booleans and null are strings with nothing to free.  The       *)
(* callers keep to the contract of cJSON.h: an item is added once, not     *)
(* below itself, and a root is deleted once.  References, which no caller  *)
(* in src/ makes, are left out; so are cJSON_SetValuestring and what       *)
(* parsing and printing allocate.                                          *)
(***************************************************************************)
EXTENDS SequencesExt

CONSTANTS
    Node,       \* items there is memory for
    Null,       \* the null pointer
    Name,       \* keys that are copied
    Literal,    \* keys that are constants of the program
    Lower,      \* a key without regard to its case
    None,       \* no key: a null string
    MaxParts    \* bound: items made by one call of cJSON_CreateStringArray

Key == Name \cup Literal

ASSUME NodeAssumption == IsFiniteSet(Node) /\ Null \notin Node
ASSUME KeyAssumption == None \notin Key /\ Lower \in [Key -> Key]
ASSUME PartsAssumption == MaxParts \in Nat

VARIABLES
    memory,     \* item: the items, Blank where there is none; strings: the number of
                \* strings allocated and not freed
    held,       \* the items whose pointers the callers own
    live, kids, keys    \* history: the items, their children and keys as callers see them

treeVars == <<memory, held, live, kids, keys>>

Kind == {"string", "list"}
Blank == [kind |-> "free", key |-> None, const |-> FALSE,
          next |-> Null, prev |-> Null, child |-> Null]

LiveIn(h) == {n \in Node : h.item[n].kind # "free"}
Live == LiveIn(memory)
Fresh == Node \ Live

-----------------------------------------------------------------------------
(* What the code does to the memory h.                                      *)

Put(h, n, field, to) == [h EXCEPT !.item[n][field] = to]

\* The strings the items of S own.
Strings(h, S) == Cardinality({n \in S : h.item[n].kind = "string"})
                 + Cardinality({n \in S : h.item[n].key # None /\ ~h.item[n].const})

\* The items from i on, by next.
Walk(h, i) ==
    LET from[k \in 0..Cardinality(Node)] ==
            IF k = 0 THEN <<i>>
            ELSE LET s == from[k - 1]
                 IN  IF Last(s) = Null THEN s ELSE Append(s, h.item[Last(s)].next)
    IN  Front(from[Cardinality(Node)])

Children(h, p) == Walk(h, h.item[p].child)

\* What cJSON_Delete comes to: i, the items after it, and all below them.
Doomed(h, i) ==
    {m \in Node : \A S \in SUBSET Node :
        {i} \ {Null} \subseteq S /\ (\A n \in S : {h.item[n].next, h.item[n].child} \ {Null} \subseteq S)
            => m \in S}

cJSON_Delete(h, i) ==
    LET gone == Doomed(h, i)
    IN  [item |-> [n \in Node |-> IF n \in gone THEN Blank ELSE h.item[n]],
         strings |-> h.strings - Strings(h, gone)]

\* An item, with its valuestring if it is to have one.
cJSON_New_Item(h, n, kind) ==
    [h EXCEPT !.item[n] = [Blank EXCEPT !.kind = kind],
              !.strings = IF kind = "string" THEN @ + 1 ELSE @]

\* An item whose valuestring could not be allocated: cJSON_Delete finds none.
cJSON_New_ItemUnfilled(h, n) == [h EXCEPT !.item[n] = [Blank EXCEPT !.kind = "list"]]

suffix_object(h, before, i) == Put(Put(h, before, "next", i), i, "prev", before)

add_item_to_array(h, a, i) ==
    LET c == h.item[a].child IN
    IF c = Null THEN Put(Put(Put(h, a, "child", i), i, "prev", i), i, "next", Null)
    ELSE IF h.item[c].prev = Null THEN h
    ELSE Put(suffix_object(h, h.item[c].prev, i), c, "prev", i)

\* a with a chain of new items, as the loops of cJSON_Create...Array, of
\* parse_array and of parse_object leave it; closed when all were made.
Chained(h, a, parts, closed) ==
    LET linked[k \in 0..Len(parts)] ==
            IF k = 0 THEN h
            ELSE LET made == cJSON_New_Item(linked[k - 1], parts[k], "string")
                 IN  IF k = 1 THEN Put(made, a, "child", parts[1])
                     ELSE suffix_object(made, parts[k - 1], parts[k])
        chain == linked[Len(parts)]
    IN  IF closed /\ parts # <<>> THEN Put(chain, parts[1], "prev", Last(parts)) ELSE chain

\* Wrong: the key the item had is not freed.
SetKeyKept(h, i, name) ==
    [h EXCEPT !.item[i].key = name, !.item[i].const = name \in Literal,
              !.strings = @ + IF name \in Literal THEN 0 ELSE 1]

\* The key of i is freed if i owns it, and the new one copied unless it is
\* constant.
SetKey(h, i, name) ==
    [h EXCEPT !.item[i].key = name, !.item[i].const = name \in Literal,
              !.strings = @ - (IF h.item[i].key # None /\ ~h.item[i].const THEN 1 ELSE 0)
                            + (IF name \in Literal \cup {None} THEN 0 ELSE 1)]

\* Wrong: taking the last item out leaves the first one pointing at it.
cJSON_DetachItemViaPointerTail(h, p, i) ==
    LET this == h.item[i]
        first == h.item[p].child = i
        h1 == IF ~first THEN Put(h, this.prev, "next", this.next) ELSE h
        h2 == IF this.next # Null THEN Put(h1, this.next, "prev", this.prev) ELSE h1
        h3 == IF first THEN Put(h2, p, "child", this.next) ELSE h2
    IN  Put(Put(h3, i, "prev", Null), i, "next", Null)

cJSON_DetachItemViaPointer(h, p, i) ==
    LET this == h.item[i]
        first == h.item[p].child = i
        h1 == IF ~first THEN Put(h, this.prev, "next", this.next) ELSE h
        h2 == IF this.next # Null THEN Put(h1, this.next, "prev", this.prev) ELSE h1
        h3 == IF first THEN Put(h2, p, "child", this.next)
              ELSE IF this.next = Null THEN Put(h2, h2.item[p].child, "prev", this.prev) ELSE h2
    IN  Put(Put(h3, i, "prev", Null), i, "next", Null)

cJSON_InsertItemInArray(h, a, w, i) ==
    LET after == IF w \in DOMAIN Children(h, a) THEN Children(h, a)[w] ELSE Null
        before == h.item[after].prev
        linked == Put(Put(Put(h, i, "next", after), i, "prev", before), after, "prev", i)
    IN  IF after = Null THEN add_item_to_array(h, a, i)
        ELSE Put(linked, IF after = h.item[a].child THEN a ELSE before,
                 IF after = h.item[a].child THEN "child" ELSE "next", i)

cJSON_ReplaceItemViaPointer(h, p, i, r) ==
    LET this == h.item[i]
        first == h.item[p].child = i
        h1 == Put(Put(h, r, "next", this.next), r, "prev", this.prev)
        h2 == IF this.next # Null THEN Put(h1, this.next, "prev", r) ELSE h1
        h3 == CASE first /\ this.prev = i -> Put(Put(h2, r, "prev", r), p, "child", r)
                [] first /\ this.prev # i -> Put(h2, p, "child", r)
                [] OTHER -> Put(h2, this.prev, "next", r)
        h4 == IF ~first /\ this.next = Null THEN Put(h3, h3.item[p].child, "prev", r) ELSE h3
    IN  cJSON_Delete(Put(Put(h4, i, "next", Null), i, "prev", Null), i)

\* The first member of p with the key; an item without a key ends the search
\* only if case counts.
get_object_item(h, p, name, case_sensitive) ==
    LET key(n) == h.item[n].key
        hit(n) == IF case_sensitive THEN key(n) \in {None, name}
                  ELSE key(n) # None /\ Lower[key(n)] = Lower[name]
        at == SelectInSeq(Children(h, p), hit)
    IN  IF at = 0 \/ key(Children(h, p)[at]) = None THEN Null ELSE Children(h, p)[at]

\* A copy of the tree owns the copies of its strings; constant keys are shared.
cJSON_Duplicate_rec(h, i, tree, to) ==
    LET new(m) == IF m \in tree THEN to[m] ELSE Null
        copy(m) == [h.item[m] EXCEPT !.next = IF m = i THEN Null ELSE new(@),
                                     !.prev = IF m = i THEN Null ELSE new(@),
                                     !.child = new(@)]
    IN  [item |-> [n \in Node |-> IF \E m \in tree : to[m] = n
                     THEN copy(CHOOSE m \in tree : to[m] = n) ELSE h.item[n]],
         strings |-> h.strings + Strings(h, tree)]

-----------------------------------------------------------------------------
(* The calls.                                                               *)

IsList(p) == p \in Live /\ memory.item[p].kind = "list"
Below(i) == Doomed(Put(memory, i, "next", Null), i)

\* i may go below p.
Fits(p, i) == IsList(p) /\ i \in held /\ p \notin Below(i)

\* cJSON_Create...: without memory for the string, the item is deleted again.
cJSON_Create(n, kind) ==
    \/ memory' = cJSON_New_Item(memory, n, kind) /\ held' = held \cup {n}
    \/ /\ kind = "string"
       /\ memory' = cJSON_Delete(cJSON_New_ItemUnfilled(memory, n), n) /\ UNCHANGED held

\* Without memory for one of the items, the array and those made are deleted.
cJSON_CreateStringArray(a, parts) ==
    LET array == cJSON_New_Item(memory, a, "list") IN
    \/ memory' = Chained(array, a, parts, TRUE) /\ held' = held \cup {a}
    \/ memory' = cJSON_Delete(Chained(array, a, parts, FALSE), a) /\ UNCHANGED held

cJSON_AddItemToArray(p, i) ==
    /\ Fits(p, i)
    /\ memory' = add_item_to_array(memory, p, i)
    /\ held' = held \ {i}

\* Without memory for the key nothing is added, and the caller keeps the item.
add_item_to_object(p, name, i) ==
    /\ Fits(p, i)
    /\ memory' = add_item_to_array(SetKey(memory, i, name), p, i)
    /\ held' = held \ {i}

\* cJSON_Add...ToObject: the item made for it is deleted if it is not added.
cJSON_AddToObject(p, name, kind, n) ==
    /\ IsList(p)
    /\ LET made == cJSON_New_Item(memory, n, kind)
       IN  \/ memory' = add_item_to_array(SetKey(made, n, name), p, n)
           \/ memory' = cJSON_Delete(made, n)
    /\ UNCHANGED held

cJSON_DetachItemFromArray(p, w) ==
    /\ IsList(p) /\ w \in DOMAIN Children(memory, p)
    /\ memory' = cJSON_DetachItemViaPointer(memory, p, Children(memory, p)[w])
    /\ held' = held \cup {Children(memory, p)[w]}

cJSON_DetachItemFromObject(p, name, case_sensitive) ==
    /\ IsList(p) /\ get_object_item(memory, p, name, case_sensitive) # Null
    /\ LET i == get_object_item(memory, p, name, case_sensitive)
       IN  memory' = cJSON_DetachItemViaPointer(memory, p, i) /\ held' = held \cup {i}

cJSON_DeleteItemFromArray(p, w) ==
    /\ IsList(p) /\ w \in DOMAIN Children(memory, p)
    /\ LET i == Children(memory, p)[w]
       IN  memory' = cJSON_Delete(cJSON_DetachItemViaPointer(memory, p, i), i)
    /\ UNCHANGED held

cJSON_InsertItem(p, w, i) ==
    /\ Fits(p, i)
    /\ memory' = cJSON_InsertItemInArray(memory, p, w, i)
    /\ held' = held \ {i}

cJSON_ReplaceItemInArray(p, w, r) ==
    /\ Fits(p, r) /\ w \in DOMAIN Children(memory, p)
    /\ memory' = cJSON_ReplaceItemViaPointer(memory, p, Children(memory, p)[w], r)
    /\ held' = held \ {r}

\* The replacement gets the key first: it keeps it if no member has that key,
\* and has none if there was no memory for it.
replace_item_in_object(p, name, r, case_sensitive) ==
    LET named == SetKey(memory, r, name)
        i == get_object_item(named, p, name, case_sensitive)
    IN  /\ Fits(p, r)
        /\ \/ memory' = SetKey(memory, r, None) /\ UNCHANGED held
           \/ i = Null /\ memory' = named /\ UNCHANGED held
           \/ /\ i # Null
              /\ memory' = cJSON_ReplaceItemViaPointer(named, p, i, r)
              /\ held' = held \ {r}

\* Without memory on the way, what was copied is deleted.
cJSON_Duplicate(i, recurse) ==
    LET tree == IF recurse THEN Below(i) ELSE {i} IN
    \E to \in Injection(tree, Fresh) :
        /\ memory' = cJSON_Duplicate_rec(memory, i, tree, to)
        /\ held' = held \cup {to[i]}

Delete(i) == memory' = cJSON_Delete(memory, i) /\ held' = held \ {i}

Call ==
    \/ \E n \in Fresh, kind \in Kind :
           \/ cJSON_Create(n, kind)
           \/ \E p \in Live, name \in Name : cJSON_AddToObject(p, name, kind, n)
    \/ \E a \in Fresh : \E parts \in SeqOf(Fresh \ {a}, MaxParts) :
           IsInjective(parts) /\ cJSON_CreateStringArray(a, parts)
    \/ \E p \in Live, i \in held :
           \/ cJSON_AddItemToArray(p, i)
           \/ \E name \in Key : add_item_to_object(p, name, i)
           \/ \E name \in Name, case_sensitive \in BOOLEAN :
                  replace_item_in_object(p, name, i, case_sensitive)
           \/ \E w \in 1..Cardinality(Node) :
                  cJSON_InsertItem(p, w, i) \/ cJSON_ReplaceItemInArray(p, w, i)
    \/ \E p \in Live :
           \/ \E name \in Name, case_sensitive \in BOOLEAN :
                  cJSON_DetachItemFromObject(p, name, case_sensitive)
           \/ \E w \in 1..Cardinality(Node) :
                  cJSON_DetachItemFromArray(p, w) \/ cJSON_DeleteItemFromArray(p, w)
    \/ \E i \in Live, recurse \in BOOLEAN : cJSON_Duplicate(i, recurse)
    \/ \E i \in held : Delete(i)

\* The sequences a caller sees, walking by next, and the keys.
Kids == [n \in Node |-> IF n \in Live THEN Children(memory, n) ELSE <<>>]
Keys == [n \in Node |-> memory.item[n].key]
Seen == live = Live /\ kids = Kids /\ keys = Keys

TreeInit == memory = [item |-> [n \in Node |-> Blank], strings |-> 0] /\ held = {} /\ Seen
TreeNext == Call /\ live' = Live' /\ kids' = Kids' /\ keys' = Keys'

TreeSpec == TreeInit /\ [][TreeNext]_treeVars

-----------------------------------------------------------------------------
(* What it promises.                                                        *)

Forest == INSTANCE JsonForest

\* The items as their callers see them are a forest: each call comes to one change
\* that a call of JsonForest may make, of one sequence or one key, also at the head
\* and the tail of a list, and also when memory runs out in the middle.  That the
\* change is the one its arguments name is not said: an insertion at another
\* place would be a step of the forest too.
ImplementsForest == Forest!ForestSpec

\* No call leaves an item or a string behind, frees one twice or keeps a
\* pointer to a freed one, also when memory runs out in the middle: every item
\* is below just one item the callers own, and every string is an item's.
MemoryBalanced ==
    /\ \A n \in Live :
           /\ \E i \in held : n \in Below(i) /\ \A j \in held \ {i} : n \notin Below(j)
           /\ {memory.item[n].next, memory.item[n].prev, memory.item[n].child}
                  \subseteq Live \cup {Null}
    /\ memory.strings = Strings(memory, Live)
=============================================================================
