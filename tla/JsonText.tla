------------------------------ MODULE JsonText -------------------------------
(***************************************************************************)
(* Parsing and printing of shared/cJSON.c.  Every place of the text is     *)
(* read only under the condition the code reads it: reading beyond its end *)
(* would be an error of the check.  A function that calls itself, one      *)
(* level of nesting deeper, is a function of the depth.                    *)
(*                                                                         *)
(* The callers build a value, or type a text that is then parsed.  Of the  *)
(* numbers only integers of int are here.  Memory is refused only by the   *)
(* limit of the print buffer or the caller's: a failed realloc, which ends *)
(* a print as well, is left out.                                           *)
(***************************************************************************)
EXTENDS JsonString

CONSTANTS
    Piece,      \* what is typed at once, a sequence of characters
    MaxPieces,  \* bound: pieces of a text
    Leaf,       \* values to start with
    Part,       \* values to add
    KeyText,    \* names of members
    MaxSize,    \* bound: steps to build a value
    CJSON_NESTING_LIMIT,
    StartSize,  \* first size of the print buffer, 256 for cJSON_Print
    INT_MAX

VARIABLES text, pieces, value

textVars == <<text, pieces, value>>

Space == {" ", "\n", "\t", "ctl", "nul"}         \* everything up to 32, the final null too

\* Values.  The items of an array have no name.
Nothing == [type |-> "none"]
Plain(w) == [type |-> w]
Number(n) == [type |-> "number", int |-> n]
String(s) == [type |-> "string", chars |-> s]
Item(name, v) == [name |-> name, v |-> v]
NoName == <<>>
Array(of) == [type |-> "array", of |-> of]
Object(of) == [type |-> "object", of |-> of]
Container(object, of) == IF object THEN Object(of) ELSE Array(of)

CText == Seq(Character \ {"nul"})
Scalar == [type : Word] \cup [type : {"number"}, int : Int] \cup [type : {"string"}, chars : CText]

\* The values with containers nested up to n deep.
Holding(V) == Scalar \cup [type : {"array"}, of : Seq([name : {NoName}, v : V])]
                     \cup [type : {"object"}, of : Seq([name : CText, v : V])]
Nested(n) == LET level[k \in 0..n] == IF k = 0 THEN Scalar ELSE Holding(level[k - 1])
             IN  level[n]

\* The deepest that a value gets here: built, or parsed.
Deepest == IF MaxSize > CJSON_NESTING_LIMIT THEN MaxSize ELSE CJSON_NESTING_LIMIT

ASSUME TextAssumption ==
    /\ Piece \subseteq Seq(Character) /\ KeyText \subseteq CText
    /\ Leaf \subseteq Nested(0) /\ Part \subseteq Nested(1)
    /\ {MaxPieces, MaxSize, CJSON_NESTING_LIMIT, StartSize, INT_MAX} \subseteq Nat

-----------------------------------------------------------------------------
(* Parsing.  A result holds the place after what was read.                  *)

Failed == [ok |-> FALSE]
Read(at, v) == [ok |-> TRUE, at |-> at, v |-> v]

buffer_skip_whitespace(t, at) ==
    LET rest == {i \in at..Len(t) : t[i] \notin Space}
    IN  IF ~CanRead(t, at) THEN at ELSE IF rest = {} THEN Len(t) ELSE Min(rest)

Digit == [i \in 0..9 |-> <<"0", "1", "2", "3", "4", "5", "6", "7", "8", "9">>[i + 1]]
DigitOf(c) == CHOOSE i \in 0..9 : Digit[i] = c
IntOf(s) == LET int[k \in 0..Len(s)] == IF k = 0 THEN 0 ELSE 10 * int[k - 1] + DigitOf(s[k])
            IN  int[Len(s)]

\* The sign and the digits; strtod stops at what does not belong to a number.
parse_number(t, at) ==
    LET digits == IF t[at] = "-" THEN at + 1 ELSE at
        after == Min({i \in digits..Len(t) : t[i] \notin NumberChar \ {"-"}} \cup {Len(t) + 1})
        n == IntOf(SubSeq(t, digits, after - 1))
    IN  IF after = digits THEN Failed ELSE Read(after, Number(IF t[at] = "-" THEN -n ELSE n))

parse_string(t, at) ==
    LET end == Scan(t, at).end
        r == Unescape(t, at, end)
    IN  IF t[at] # Quote \/ ~CanRead(t, end) \/ ~r.ok THEN Failed
        ELSE Read(end + 1, String(CString(r.out)))

Opens(c) == c \in {"[", "{"}
Close(object) == IF object THEN "}" ELSE "]"

\* A value as an item, of a member with its name.
Named(r, name) == IF r.ok THEN Read(r.at, Item(name, r.v)) ELSE Failed

AfterColon(t, colon, name, deeper) ==
    IF ~CanRead(t, colon) \/ t[colon] # ":" THEN Failed
    ELSE Named(deeper[buffer_skip_whitespace(t, colon + 1)], name.v.chars)

AfterName(t, name, deeper) ==
    IF name.ok THEN AfterColon(t, buffer_skip_whitespace(t, name.at), name, deeper) ELSE Failed

\* One item after the bracket or comma at a place; deeper is what parse_value
\* returns for each place one level deeper.
parse_item(t, at, deeper, object) ==
    CASE ~object -> Named(deeper[buffer_skip_whitespace(t, at + 1)], NoName)
      [] object /\ CanRead(t, at + 1) ->
             AfterName(t, parse_string(t, buffer_skip_whitespace(t, at + 1)), deeper)
      [] OTHER -> Failed

\* A pass of the loops of parse_array and parse_object; what was read is
\* deleted when one of them fails.
NoMore(l) == [l EXCEPT !.more = FALSE, !.ok = FALSE]

AfterItem(t, next, m, l, object) ==
    IF ~CanRead(t, next) THEN NoMore(l)
    ELSE CASE t[next] = Close(object) -> [l EXCEPT !.at = next + 1, !.of = Append(@, m), !.more = FALSE]
           [] t[next] = "," -> [l EXCEPT !.at = next, !.of = Append(@, m)]
           [] OTHER -> NoMore(l)

FromItem(t, r, l, object) ==
    IF r.ok THEN AfterItem(t, buffer_skip_whitespace(t, r.at), r.v, l, object) ELSE NoMore(l)

Longer(t, deeper, object, l) ==
    IF l.more THEN FromItem(t, parse_item(t, l.at, deeper, object), l, object) ELSE l

Loop(t, at, deeper, object) ==
    LET pass[k \in 0..Len(t)] == IF k = 0 THEN [at |-> at, of |-> <<>>, more |-> TRUE, ok |-> TRUE]
                                 ELSE Longer(t, deeper, object, pass[k - 1])
    IN  pass[Len(t)]

Items(l, object) == IF l.ok /\ ~l.more THEN Read(l.at, Container(object, l.of)) ELSE Failed

parse_list(t, at, first, deeper, object) ==
    IF ~CanRead(t, first) THEN Failed
    ELSE IF t[first] = Close(object) THEN Read(first + 1, Container(object, <<>>))
    ELSE Items(Loop(t, at, deeper, object), object)

parse_value(t, at, depth, deeper) ==
    CASE ~CanRead(t, at) -> Failed
      [] CanRead(t, at) /\ t[at] \in Word -> Read(at + 1, Plain(t[at]))
      [] CanRead(t, at) /\ t[at] = Quote -> parse_string(t, at)
      [] CanRead(t, at) /\ t[at] \in NumberChar -> parse_number(t, at)
      [] CanRead(t, at) /\ Opens(t[at]) /\ depth < CJSON_NESTING_LIMIT ->
             parse_list(t, at, buffer_skip_whitespace(t, at + 1), deeper, t[at] = "{")
      [] OTHER -> Failed

\* What is read at each place of a text, outside of any brackets.
parse(t) ==
    LET from[d \in 0..CJSON_NESTING_LIMIT] ==
            [at \in 1..Len(t) + 1 |-> parse_value(t, at, d, from[d + 1])]
    IN  from[0]

skip_utf8_bom(t) == IF t # <<>> /\ t[1] = "bom" /\ Bytes(t) > 4 THEN 2 ELSE 1

Ended(t, r, require_null_terminated, end) ==
    IF require_null_terminated /\ (~CanRead(t, end) \/ t[end] # "nul") THEN Failed ELSE r

AsWhole(t, r, require_null_terminated) ==
    IF r.ok THEN Ended(t, r, require_null_terminated, buffer_skip_whitespace(t, r.at)) ELSE Failed

cJSON_ParseWithLengthOpts(t, require_null_terminated) ==
    IF t = <<>> THEN Failed
    ELSE AsWhole(t, parse(t)[buffer_skip_whitespace(t, skip_utf8_bom(t))],
                 require_null_terminated)

\* The length of a C string counts its null.
cJSON_ParseWithOpts(s, require_null_terminated) ==
    cJSON_ParseWithLengthOpts(Append(s, "nul"), require_null_terminated)

-----------------------------------------------------------------------------
(* Printing: what is written, as a sequence of [ask, put, size, ends]: ask  *)
(* is what ensure is asked for, put, of size bytes, is written, and a null   *)
(* if ends.                                                                  *)

Chunk(ask, put, ends) == [ask |-> ask, put |-> put, size |-> Bytes(put), ends |-> ends]
Refused == [Chunk(0, <<>>, FALSE) EXCEPT !.ask = -1]      \* too deep to be printed
Tabs(n) == [i \in 1..n |-> "\t"]

Digits(n) == LET of[m \in 0..n] == IF m < 10 THEN <<Digit[m]>>
                                   ELSE Append(of[m \div 10], Digit[m % 10])
             IN  of[n]

print_number(n) ==
    LET put == IF n < 0 THEN <<"-">> \o Digits(-n) ELSE Digits(n)
    IN  Chunk(Bytes(put) + 1, put, TRUE)

\* Wrong: a control character is taken to need one more byte, like a quote.
print_string_ptrShort(s) ==
    LET shorter == [i \in DOMAIN s |-> IF s[i] = "ctl" THEN "\n" ELSE s[i]]
    IN  Chunk(Bytes(s) + escape_characters(shorter) + 3, Quoted(s), TRUE)

print_string_ptr(s) == Chunk(Bytes(s) + escape_characters(s) + 3, Quoted(s), TRUE)

\* deeper is what print_value writes for each value one level deeper.
print_array(of, depth, format, deeper) ==
    LET comma == Chunk(IF format THEN 3 ELSE 2, IF format THEN <<",", " ">> ELSE <<",">>, TRUE)
        element(i) == deeper[of[i].v] \o IF i < Len(of) THEN <<comma>> ELSE <<>>
    IN  IF depth >= CJSON_NESTING_LIMIT THEN <<Refused>>
        ELSE <<Chunk(1, <<"[">>, FALSE)>> \o FlattenSeq([i \in DOMAIN of |-> element(i)])
             \o <<Chunk(2, <<"]">>, TRUE)>>

print_object(of, depth, format, deeper) ==
    LET open == IF format THEN <<"{", "\n">> ELSE <<"{">>
        colon == IF format THEN <<":", "\t">> ELSE <<":">>
        after(i) == (IF i < Len(of) THEN <<",">> ELSE <<>>) \o (IF format THEN <<"\n">> ELSE <<>>)
        indent == IF format THEN <<Chunk(depth + 1, Tabs(depth + 1), FALSE)>> ELSE <<>>
        member(i) == indent \o <<print_string_ptr(of[i].name), Chunk(Len(colon), colon, FALSE)>>
                     \o deeper[of[i].v] \o <<Chunk(Len(after(i)) + 1, after(i), TRUE)>>
        tabs == IF format THEN Tabs(depth) ELSE <<>>
    IN  IF depth >= CJSON_NESTING_LIMIT THEN <<Refused>>
        ELSE <<Chunk(Len(open) + 1, open, FALSE)>> \o FlattenSeq([i \in DOMAIN of |-> member(i)])
             \o <<Chunk(IF format THEN depth + 2 ELSE 2, tabs \o <<"}">>, TRUE)>>

print_value(v, depth, format, deeper) ==
    CASE v.type \in Word -> <<Chunk(Width(v.type) + 1, <<v.type>>, TRUE)>>
      [] v.type = "number" -> <<print_number(v.int)>>
      [] v.type = "string" -> <<print_string_ptr(v.chars)>>
      [] v.type = "array" -> print_array(v.of, depth, format, deeper)
      [] v.type = "object" -> print_object(v.of, depth, format, deeper)

Chunks(value_, format) ==
    LET put[d \in 0..Deepest] ==
            [v \in Nested(Deepest - d) |-> print_value(v, d, format, put[d + 1])]
    IN  put[0][value_]

\* The buffer p with room for more, or without ok.
ensure(p, needed) ==
    LET size == needed + p.offset + 1
        full == p.length > 0 /\ p.offset >= p.length
    IN  IF full \/ needed > INT_MAX \/ (size > p.length /\ (p.noalloc \/ size > INT_MAX))
        THEN [p EXCEPT !.ok = FALSE]
        ELSE IF size <= p.length THEN p
        ELSE [p EXCEPT !.length = IF size > INT_MAX \div 2 THEN INT_MAX ELSE size * 2]

Write(p, chunk) ==
    LET q == ensure(p, chunk.ask)
        offset == p.offset + chunk.size
    IN  IF chunk = Refused \/ ~p.ok \/ ~q.ok THEN [p EXCEPT !.ok = FALSE]
        ELSE [q EXCEPT !.offset = offset,
                       !.inside = @ /\ offset + (IF chunk.ends THEN 1 ELSE 0) <= q.length]

\* What is left of a buffer when the chunks were written to it.
Printed(chunks, length, noalloc) ==
    LET written[k \in 0..Len(chunks)] ==
            IF k = 0 THEN [offset |-> 0, length |-> length, noalloc |-> noalloc, ok |-> TRUE,
                           inside |-> TRUE]
            ELSE Write(written[k - 1], chunks[k])
    IN  written[Len(chunks)]

print(chunks) == Printed(chunks, StartSize, FALSE)
cJSON_PrintPreallocated(chunks, length) == Printed(chunks, length, TRUE)

-----------------------------------------------------------------------------
(* The callers.                                                             *)

TextInit == text = <<>> /\ pieces = 0 /\ value = Nothing

Grown(v) == value' = v /\ pieces < MaxSize /\ pieces' = pieces + 1 /\ UNCHANGED text

Begin == text = <<>> /\ value = Nothing /\ \E v \in Leaf : Grown(v)
Wrap == value # Nothing /\ \/ Grown(Array(<<Item(NoName, value)>>))
                           \/ \E k \in KeyText : Grown(Object(<<Item(k, value)>>))
Extend == /\ value.type \in {"array", "object"}
          /\ \E v \in Part, k \in IF value.type = "array" THEN {NoName} ELSE KeyText :
                Grown([value EXCEPT !.of = Append(@, Item(k, v))])

Type == /\ value = Nothing /\ pieces < MaxPieces
        /\ \E p \in Piece : text' = text \o p
        /\ pieces' = pieces + 1 /\ UNCHANGED value

TextNext == Begin \/ Wrap \/ Extend \/ Type

TextSpec == TextInit /\ [][TextNext]_textVars

-----------------------------------------------------------------------------
\* What the callers hold: the value built, or what the text is read as, as a C
\* string or as a buffer of its length.
Values == {value} \cup {r.v : r \in {s \in {cJSON_ParseWithOpts(text, FALSE),
                                            cJSON_ParseWithOpts(text, TRUE),
                                            cJSON_ParseWithLengthOpts(text, FALSE)} : s.ok}}

AllPut(chunks) == FlattenSeq([i \in DOMAIN chunks |-> chunks[i].put])

Gives(v, r) == r.ok /\ r.v = v
ReadsAs(v, s) == Gives(v, cJSON_ParseWithOpts(s, TRUE))

\* With a buffer that cJSON enlarges, granted or refused at last.
InGranted(v, chunks, p, size) ==
    /\ p.inside
    /\ p.ok => ReadsAs(v, AllPut(chunks))
    /\ v \in Nested(CJSON_NESTING_LIMIT) /\ size + 4 <= INT_MAX => p.ok

\* With a buffer of the caller's.
InOwn(v, chunks, size, length) ==
    \A p \in {cJSON_PrintPreallocated(chunks, length)} :
        p.inside /\ (v \in Nested(CJSON_NESTING_LIMIT) /\ length = size + 5 => p.ok)

PrintsWell(v, chunks, size) ==
    /\ InGranted(v, chunks, print(chunks), size)
    /\ \A length \in {n \in size - 5..size + 5 : n <= INT_MAX} : InOwn(v, chunks, size, length)

Faithful(v, chunks) == PrintsWell(v, chunks, Bytes(AllPut(chunks)) + 1)

\* Whatever is built or read, printing it, formatted or not, writes inside the
\* buffer it was granted, and parsing what was printed gives the same value; a
\* value is refused only if it is nested too deeply or beyond the largest
\* buffer.  A buffer of the caller's is never written beyond its length, and 5
\* bytes more than the text with its null are enough, as cJSON.h says.
PrintedIsRead ==
    \A v \in Values \ {Nothing}, format \in BOOLEAN : Faithful(v, Chunks(v, format))

\* The string at any quote of the text, well formed or not, is written out
\* within what parse_string allocated for it, with its null.
StringFits ==
    \A at \in {i \in DOMAIN text : text[i] = Quote} :
        LET s == Scan(text, at)
        IN  CanRead(text, s.end)
            => Bytes(Unescape(text, at, s.end).out) + 1 <= allocation_length(text, at, s)
=============================================================================
