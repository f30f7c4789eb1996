----------------------------- MODULE JsonString ------------------------------
(***************************************************************************)
(* The strings of shared/cJSON.c: how parse_string reads one and what      *)
(* print_string_ptr writes.  A text is a sequence of characters; the words *)
(* null, true and false, the four digits of a \u and a letter of several   *)
(* bytes are one character here, with their number of bytes, and no other  *)
(* characters follow a \u.  So a \u with a quote or a backslash in the     *)
(* place of a digit is left out, the one text whose escapes the two loops  *)
(* of parse_string count differently.  Its code is 0: one byte is written  *)
(* for six, of which the first loop takes at most three off the estimate.  *)
(*                                                                         *)
(* A loop of the code is a function of the passes made, one that has ended *)
(* staying as it is.                                                       *)
(***************************************************************************)
EXTENDS Integers, SequencesExt

CONSTANT Letter     \* characters of one byte that mean nothing to JSON

Quote == "\""
Back == "\\"
Word == {"null", "true", "false"}
Code == [c \in {"0001", "zzzz"} |-> IF c = "0001" THEN "ctl" ELSE "nul"]  \* not a digit: 0
High == "d83d"
Low == "de00"
Escape == [c \in {"n", "t", "/", Quote, Back} |->
               CASE c = "n" -> "\n" [] c = "t" -> "\t" [] OTHER -> c]
NumberChar == {"0", "1", "2", "3", "4", "5", "6", "7", "8", "9", "-"}

Character == Letter \cup Word \cup DOMAIN Code \cup {High, Low} \cup DOMAIN Escape \cup NumberChar
             \cup {"u", "\n", "\t", " ", "ctl", "nul", "wide", "bom"}
             \cup {"[", "]", "{", "}", ",", ":"}

Width(c) == CASE c \in {"null", "true", "0001", "zzzz", High, Low, "wide"} -> 4
              [] c = "false" -> 5
              [] c = "bom" -> 3
              [] OTHER -> 1

Total(ns) == LET sum[k \in 0..Len(ns)] == IF k = 0 THEN 0 ELSE sum[k - 1] + ns[k]
             IN  sum[Len(ns)]
Bytes(s) == Total([i \in DOMAIN s |-> Width(s[i])])

CanRead(t, at) == at <= Len(t)

-----------------------------------------------------------------------------
(* Parsing.                                                                 *)

\* Wrong: both characters of an escape are taken off what is needed.
ScannedBoth(t, s) ==
    IF ~CanRead(t, s.end) \/ t[s.end] = Quote THEN s
    ELSE IF t[s.end] = Back THEN [end |-> s.end + 2, skipped |-> s.skipped + 2]
    ELSE [s EXCEPT !.end = @ + 1]

\* A pass of the first loop, which looks for the quote that ends the string; a
\* backslash at the end of the text takes it beyond.
Scanned(t, s) ==
    IF ~CanRead(t, s.end) \/ t[s.end] = Quote THEN s
    ELSE IF t[s.end] = Back THEN [end |-> s.end + 2, skipped |-> s.skipped + 1]
    ELSE [s EXCEPT !.end = @ + 1]

Scan(t, at) ==
    LET pass[k \in 0..Len(t)] == IF k = 0 THEN [end |-> at + 1, skipped |-> 0]
                                 ELSE Scanned(t, pass[k - 1])
    IN  pass[Len(t)]

\* What is allocated for the string at a place, with its null.
allocation_length(t, at, s) == Bytes(SubSeq(t, at, s.end - 1)) - s.skipped + 1

\* The character of a literal at i, before end, and the characters it takes.
utf16_literal_to_utf8(t, i, end) ==
    CASE i + 2 < end /\ t[i + 2] \in DOMAIN Code -> [takes |-> 3, char |-> Code[t[i + 2]]]
      [] i + 5 < end /\ t[i + 2] = High /\ t[i + 3] = Back /\ t[i + 4] = "u" /\ t[i + 5] = Low ->
             [takes |-> 6, char |-> "wide"]
      [] OTHER -> [takes |-> 0]

\* The same of any character.
Decoded(t, i, end) ==
    CASE t[i] # Back -> [takes |-> 1, char |-> t[i]]
      [] t[i] = Back /\ t[i + 1] \in DOMAIN Escape -> [takes |-> 2, char |-> Escape[t[i + 1]]]
      [] t[i] = Back /\ t[i + 1] = "u" -> utf16_literal_to_utf8(t, i, end)
      [] OTHER -> [takes |-> 0]

\* A pass of the second loop, which writes the string out.
With(r, d) == IF d.takes = 0 THEN [r EXCEPT !.ok = FALSE]
              ELSE [r EXCEPT !.at = @ + d.takes, !.out = Append(@, d.char)]
Unescaped(t, end, r) == IF r.ok /\ r.at < end THEN With(r, Decoded(t, r.at, end)) ELSE r

Unescape(t, at, end) ==
    LET pass[k \in 0..Len(t)] == IF k = 0 THEN [ok |-> TRUE, at |-> at + 1, out |-> <<>>]
                                 ELSE Unescaped(t, end, pass[k - 1])
    IN  pass[Len(t)]

\* As a C string, the result ends before its first null.
CString(s) == LET i == SelectInSeq(s, LAMBDA c : c = "nul")
              IN  IF i = 0 THEN s ELSE SubSeq(s, 1, i - 1)

-----------------------------------------------------------------------------
(* Printing.                                                                *)

Escaped(c) == CASE c = "\n" -> <<Back, "n">>
                [] c = "\t" -> <<Back, "t">>
                [] c \in {Quote, Back} -> <<Back, c>>
                [] c = "ctl" -> <<Back, "u", "0001">>
                [] OTHER -> <<c>>
Quoted(s) == <<Quote>> \o FlattenSeq([i \in DOMAIN s |-> Escaped(s[i])]) \o <<Quote>>

Extra(c) == CASE c \in {"\n", "\t", Quote, Back} -> 1 [] c = "ctl" -> 5 [] OTHER -> 0
escape_characters(s) == Total([i \in DOMAIN s |-> Extra(s[i])])
=============================================================================
