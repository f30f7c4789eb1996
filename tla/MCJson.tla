------------------------------- MODULE MCJson -------------------------------
(***************************************************************************)
(* The JSON of the server: what callers do to items, and what they print   *)
(* and parse.  The two share no state here: one moves in each behaviour.   *)
(*                                                                         *)
(* Four items, one copied key and one constant key that differ in case     *)
(* only.  Texts of up to four pieces, and values of up to three values     *)
(* made of strings of up to two characters, with two levels of nesting and *)
(* a buffer of 4 bytes at first and 30 at most.                            *)
(***************************************************************************)
EXTENDS JsonTree, JsonText

VARIABLE focus

MCLower == [k \in Key |-> "a"]
MCPiece == {<<c>> : c \in {"[", "]", "}", ",", "null", "-", " ", Back, "bom"}}
           \cup {<<"{", Quote, "a", Quote, ":">>, <<Quote, "a">>,  <<Back, "n">>,
                 <<Back, "u", "zzzz", Quote>>, <<Back, "u", High, Back, "u", Low>>}
MCLeaf == {Plain("null"), Plain("false"), Number(-10), Number(0)}
          \cup {String(s) : s \in SeqOf({"a", Quote, "ctl", "wide"}, 2)}
MCPart == {Plain("true"), String(<<"\n">>), Array(<<>>), Object(<<>>)}
MCKeyText == {<<>>, <<"ctl">>}
Alike == Permutations(Node)

JsonInit == TreeInit /\ TextInit /\ focus \in {"tree", "text"}

JsonNext ==
    /\ UNCHANGED focus
    /\ \/ focus = "tree" /\ TreeNext /\ UNCHANGED textVars
       \/ focus = "text" /\ TextNext /\ UNCHANGED treeVars

JsonSpec == JsonInit /\ [][JsonNext]_<<focus, treeVars, textVars>>
=============================================================================
