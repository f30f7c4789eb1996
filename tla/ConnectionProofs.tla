-------------------------- MODULE ConnectionProofs --------------------------
(***************************************************************************)
(* For any number of connections, any requests and any sizes of the two    *)
(* buffers: the file of an upload is the body, and what came whole is      *)
(* handled whole.  The inductive invariant counts bytes: where a thread is *)
(* in its two loops tells how many it has taken from the socket and where  *)
(* each of them has gone.                                                  *)
(***************************************************************************)
EXTENDS Connection, SequenceTheorems, TLAPS

\* Before its headers a connection has read nothing.
Started(l) == l.total_read = 0 /\ l.taken = 0 /\ ~l.cut

\* In handle_client every byte taken is in the buffer.
Buffered(l) == l.taken = l.total_read /\ l.taken <= l.req.sent /\ l.file = <<>>

\* handle_client goes on with a complete request, a full buffer, or all that
\* the connection gave.
ReadOver(l) ==
    /\ HeadersParsed(l)
    /\ Complete(l) \/ l.total_read = Cap \/ l.taken = l.req.sent \/ l.cut

\* Every byte taken is of the headers or in the file; the rest remains.
Counted(l) ==
    /\ l.req.kind \in Upload
    /\ l.taken = l.req.head + Len(l.file) /\ l.taken <= l.req.sent
    /\ l.remaining = l.req.length - Len(l.file) /\ l.remaining > 0

Stored(l) == l.file = Bytes(l.req.head, Len(l.file)) /\ Len(l.file) <= l.req.length

Works(l) ==
    Whole(l) =>
        /\ l.req.kind \in Upload /\ l.answer = "200" => Len(l.file) = l.req.length
        /\ l.req.kind = "json" /\ l.req.spelled /\ l.req.head + l.req.length <= Cap
              => l.answer = "200"

Early == {"none", "waiting", "accepted", "handshake", "redirect", "lost"}

\* What the invariant says of one connection.
Fits(l) ==
    /\ l \in Local
    /\ Stored(l)
    /\ l.step \in Early => Started(l) /\ l.file = <<>>
    /\ l.step \in Early \cup {"read", "dispatch", "receive"} => l.answer = "none"
    /\ l.step \in {"read", "dispatch"} => Buffered(l)
    /\ l.step = "redirect" => l.req.kind = "redirect"
    /\ l.step = "read" => ~l.cut
    /\ l.step = "dispatch" => ReadOver(l)
    /\ l.step = "receive" => Counted(l)
    /\ l.answer # "none" \/ l.step = "respond" => Works(l)

IInv == conn \in [Conn -> Local] /\ \A c \in Conn : Fits(conn[c])

-----------------------------------------------------------------------------
(* Sequences of bytes.                                                      *)

\* Bytes(a, n) has the n bytes that follow the first a.
LEMMA BytesSeq ==
    ASSUME NEW a \in Nat, NEW n \in Nat
    PROVE  Bytes(a, n) \in Seq(Nat) /\ Len(Bytes(a, n)) = n
<1>1. \A i \in 1..n : a + i \in Nat
  OBVIOUS
<1> QED
  BY <1>1 DEF Bytes

LEMMA NoBytes == ASSUME NEW a \in Nat PROVE Bytes(a, 0) = <<>>
<1>1. Bytes(a, 0) \in Seq(Nat) /\ Len(Bytes(a, 0)) = 0
  BY BytesSeq
<1>2. <<>> \in Seq(Nat) /\ Len(<<>>) = 0
  BY EmptySeq
<1>3. \A i \in 1..Len(Bytes(a, 0)) : Bytes(a, 0)[i] = <<>>[i]
  BY <1>1
<1> QED
  BY <1>1, <1>2, <1>3, SeqEqual, Zenon

\* Bytes that follow each other are appended.
LEMMA BytesAppend ==
    ASSUME NEW a \in Nat, NEW n \in Nat, NEW k \in Nat
    PROVE  Bytes(a, n) \o Bytes(a + n, k) = Bytes(a, n + k)
<1> DEFINE s == Bytes(a, n)  t == Bytes(a + n, k)  u == Bytes(a, n + k)
<1>1. /\ s \in Seq(Nat) /\ Len(s) = n
      /\ t \in Seq(Nat) /\ Len(t) = k
      /\ u \in Seq(Nat) /\ Len(u) = n + k
  <2>1. a + n \in Nat /\ n + k \in Nat
    OBVIOUS
  <2> QED
    BY <2>1, BytesSeq, Zenon
<1>2. /\ \A i \in 1..n : s[i] = a + i
      /\ \A i \in 1..k : t[i] = a + n + i
      /\ \A i \in 1..(n + k) : u[i] = a + i
  BY DEF Bytes
<1> HIDE DEF s, t, u
<1>3. /\ s \o t \in Seq(Nat) /\ Len(s \o t) = n + k
      /\ \A i \in 1..(n + k) : (s \o t)[i] = IF i <= n THEN s[i] ELSE t[i - n]
  <2>1. /\ s \o t \in Seq(Nat) /\ Len(s \o t) = Len(s) + Len(t)
        /\ \A i \in 1..(Len(s) + Len(t)) :
              (s \o t)[i] = IF i <= Len(s) THEN s[i] ELSE t[i - Len(s)]
    BY <1>1, ConcatProperties, Zenon
  <2> QED
    BY <1>1, <2>1
<1>4. ASSUME NEW i \in 1..(n + k) PROVE (s \o t)[i] = u[i]
  BY <1>2, <1>3
<1>5. s \o t = u
  <2>1. \A i \in 1..Len(s \o t) : (s \o t)[i] = u[i]
    BY <1>3, <1>4
  <2>2. Len(s \o t) = Len(u)
    BY <1>1, <1>3
  <2> QED
    BY <1>1, <1>3, <2>1, <2>2, SeqEqual, Zenon
<1> QED
  BY <1>5 DEF s, t, u

-----------------------------------------------------------------------------
(* Steps of one connection.                                                 *)

\* One connection changes.
LEMMA OneConnection ==
    ASSUME IInv, NEW c \in Conn, NEW l, Fits(l), Becomes(c, l)
    PROVE  IInv'
<1>1. conn \in [Conn -> Local] /\ (\A d \in Conn : Fits(conn[d])) /\ l \in Local
  BY DEF IInv, Fits
<1>2. conn' = [conn EXCEPT ![c] = l]
  BY DEF Becomes
<1>3. conn' \in [Conn -> Local] /\ \A d \in Conn : Fits(conn'[d])
  BY <1>1, <1>2
<1> QED
  BY <1>3 DEF IInv

LEMMA RequestType ==
    ASSUME NEW l \in Local
    PROVE  /\ l.req \in Request /\ l.req.kind \in Kind /\ l.req.head \in Nat \ {0}
           /\ l.req.length \in Nat /\ l.req.sent \in Nat
           /\ l.req.spelled \in BOOLEAN /\ l.req.valid \in BOOLEAN
           /\ content_length(l) \in Nat
BY DEF Local, Request, content_length

\* A handler that stores nothing and ends as Works asks.
LEMMA AnsweredFits ==
    ASSUME NEW l, Fits(l), NEW a \in Answer, Works(Answered(l, a))
    PROVE  Fits(Answered(l, a))
BY DEF Fits, Answered, Stored, Local, Early, Step

\* The connection is over, or goes on before its headers.
LEMMA ClosedFits == ASSUME NEW l, Fits(l) PROVE Fits([l EXCEPT !.step = "closed"])
BY DEF Fits, Stored, Works, Whole, Local, Early, Step

LEMMA EarlyFits ==
    ASSUME NEW l, Fits(l), l.step \in Early, NEW s \in Early,
           s = "redirect" => l.req.kind = "redirect"
    PROVE  Fits([l EXCEPT !.step = s])
BY DEF Fits, Stored, Started, Local, Early, Step

\* handle_client leaves its loop with a request that is over, or closes.
LEMMA EndReadFits ==
    ASSUME NEW l, Fits([l EXCEPT !.cut = FALSE]), l \in Local, l.step = "read",
           Complete(l) \/ l.total_read = Cap \/ l.taken = l.req.sent \/ l.cut
    PROVE  Fits(EndRead(l))
<1>1. CASE HeadersParsed(l)
  <2>1. EndRead(l) = [l EXCEPT !.step = "dispatch"]
    BY <1>1 DEF EndRead
  <2>2. ReadOver(l)
    BY <1>1 DEF ReadOver
  <2>3. ReadOver([l EXCEPT !.step = "dispatch"])
    BY <2>2 DEF ReadOver, HeadersParsed, Complete, content_length, Local
  <2> QED
    BY <2>1, <2>3 DEF Fits, Stored, Buffered, Local, Early, Step
<1>2. CASE ~HeadersParsed(l)
  <2>1. EndRead(l) = [l EXCEPT !.step = "closed"]
    BY <1>2 DEF EndRead
  <2> QED
    BY <2>1 DEF Fits, Stored, Local, Early, Step
<1> QED
  BY <1>1, <1>2

\* What the first read of a body and every later one leave of it.
LEMMA ReceivingFits ==
    ASSUME NEW l \in Local, Stored(l), l.req.kind \in Upload, l.answer = "none",
           l.taken <= l.req.sent,
           l.remaining > 0 => /\ l.taken = l.req.head + Len(l.file)
                              /\ l.remaining = l.req.length - Len(l.file),
           l.remaining <= 0 => Len(l.file) = l.req.length
    PROVE  Fits(Receiving(l))
<1>1. CASE l.remaining > 0
  <2>1. Receiving(l) = [l EXCEPT !.step = "receive"]
    BY <1>1 DEF Receiving
  <2> QED
    BY <1>1, <2>1 DEF Fits, Stored, Counted, Local, Early, Step
<1>2. CASE ~(l.remaining > 0)
  <2>1. Receiving(l) = [l EXCEPT !.step = "respond", !.answer = "200"]
    BY <1>2 DEF Receiving, Answered
  <2>2. l.remaining <= 0
    BY <1>2 DEF Local
  <2> QED
    BY <2>1, <2>2 DEF Fits, Stored, Works, Upload, Local, Early, Step, Answer
<1> QED
  BY <1>1, <1>2

-----------------------------------------------------------------------------
(* The invariant.                                                           *)

LEMMA InitInv == ConnectionInit => IInv
<1> SUFFICES ASSUME ConnectionInit PROVE IInv
  OBVIOUS
<1>1. ASSUME NEW q \in Asked PROVE Fits(Fresh(q))
  <2>1. q \in Request /\ q.head \in Nat /\ q.length \in Nat
    BY AskedAssumption DEF Request
  <2>2. <<>> = Bytes(q.head, 0)
    BY <2>1, NoBytes
  <2>3. Fresh(q) \in Local
    BY <2>1, SizeAssumption, EmptySeq DEF Fresh, Local, Step, Answer
  <2>4. Len(<<>>) = 0
    OBVIOUS
  <2> QED
    BY <2>1, <2>2, <2>3, <2>4 DEF Fits, Fresh, Stored, Started, Early
<1>2. PICK ask \in [Conn -> Asked] : conn = [c \in Conn |-> Fresh(ask[c])]
  BY DEF ConnectionInit
<1>3. \A c \in Conn : Fits(conn[c])
  BY <1>1, <1>2
<1>4. \A c \in Conn : conn[c] \in Local
  BY <1>3 DEF Fits
<1> QED
  BY <1>2, <1>3, <1>4 DEF IInv

\* Reads of handle_client.
LEMMA ReadInv == ASSUME IInv, NEW c \in Conn, Read(c) \/ ReadEnds(c) PROVE IInv'
<1> DEFINE l == conn[c]
<1>1. Fits(l) /\ l \in Local /\ l.step = "read"
  BY DEF IInv, Read, ReadEnds, At
<1>2. Buffered(l) /\ l.file = <<>> /\ l.answer = "none" /\ ~l.cut /\ Stored(l)
  BY <1>1 DEF Fits, Buffered
<1>0. /\ l.req \in Request /\ l.req.sent \in Nat /\ l.taken \in Nat
      /\ l.total_read \in Nat /\ l.total_read <= Cap /\ Cap \in Nat
  <2>1. l.req \in Request /\ l.req.sent \in Nat
    BY <1>1, RequestType
  <2>2. l.taken \in Nat /\ l.total_read \in 0..Cap
    BY <1>1 DEF Local
  <2> QED
    BY <2>1, <2>2, SizeAssumption
<1> SUFFICES \E m : Fits(m) /\ Becomes(c, m)
  BY OneConnection
<1>3. CASE Read(c)
  <2>1. PICK n \in Got(l, Cap - l.total_read) :
            LET m == [l EXCEPT !.total_read = @ + n, !.taken = @ + n]
            IN  Becomes(c, IF Complete(m) \/ m.total_read = Cap THEN EndRead(m) ELSE m)
    BY <1>3 DEF Read
  <2> DEFINE m == [l EXCEPT !.total_read = @ + n, !.taken = @ + n]
  <2>2. n \in Nat /\ n <= Cap - l.total_read /\ n <= l.req.sent - l.taken
    <3>1. n \in 1..Smaller(Cap - l.total_read, l.req.sent - l.taken)
      BY <2>1 DEF Got
    <3> QED
      BY <1>0, <3>1 DEF Smaller
  <2>3. /\ m \in Local /\ m.step = "read" /\ ~m.cut /\ m.answer = "none" /\ m.file = <<>>
        /\ m.taken = m.total_read /\ m.taken <= m.req.sent
    <3>1. l.total_read + n \in 0..Cap /\ l.taken + n \in Nat
      BY <1>0, <2>2
    <3>2. l.total_read + n = l.taken + n /\ l.taken + n <= l.req.sent
      BY <1>0, <1>2, <2>2 DEF Buffered
    <3> QED
      BY <1>1, <1>2, <3>1, <3>2 DEF Local
  <2>4. Stored(m)
    BY <1>1, <1>2 DEF Stored, Local
  <2>5. Becomes(c, IF Complete(m) \/ m.total_read = Cap THEN EndRead(m) ELSE m)
    BY <2>1
  <2> HIDE DEF l, m
  <2>6. Fits(m)
    BY <2>3, <2>4 DEF Fits, Buffered, Early
  <2>7. m = [m EXCEPT !.cut = FALSE]
    BY <2>3 DEF Local
  <2>8. CASE Complete(m) \/ m.total_read = Cap
    BY <2>3, <2>5, <2>6, <2>7, <2>8, EndReadFits
  <2> QED
    BY <2>5, <2>6, <2>8
<1>4. CASE ReadEnds(c)
  <2> DEFINE m == Failed(l)
  <2>1. Becomes(c, EndRead(m))
    BY <1>4 DEF ReadEnds
  <2>2. m \in Local /\ m.step = "read" /\ (m.cut \/ m.taken = m.req.sent)
    <3>1. (l.taken < l.req.sent) \/ l.taken = l.req.sent
      BY <1>0, <1>2 DEF Buffered
    <3>2. (l.taken < l.req.sent) \in BOOLEAN
      OBVIOUS
    <3> QED
      BY <1>1, <3>1, <3>2 DEF Failed, Local
  <2>3. l = [m EXCEPT !.cut = FALSE]
    BY <1>1, <1>2 DEF Failed, Local
  <2> HIDE DEF l, m
  <2>4. Fits(EndRead(m))
    BY <1>1, <2>2, <2>3, EndReadFits
  <2> QED
    BY <2>1, <2>4
<1> QED
  BY <1>3, <1>4

\* The handlers that store nothing.
LEMMA HandleInv ==
    ASSUME IInv, NEW c \in Conn, HandlePage(c) \/ HandleJson(c) \/ OpenFails(c) \/ TooLarge(c)
    PROVE  IInv'
<1> DEFINE l == conn[c]
<1>1. /\ Fits(l) /\ l \in Local /\ l.step = "dispatch"
  BY DEF IInv, HandlePage, HandleJson, OpenFails, TooLarge, At
<1>2. /\ Buffered(l) /\ ReadOver(l) /\ l.req \in Request
  BY <1>1, RequestType DEF Fits
<1> SUFFICES \E a \in Answer : Works(Answered(l, a)) /\ Becomes(c, Answered(l, a))
  BY <1>1, OneConnection, AnsweredFits
<1>3. CASE HandlePage(c)
  <2>1. PICK a \in Answer : Becomes(c, Answered(l, a))
    BY <1>3 DEF HandlePage, Answer
  <2>2. l.req.kind = "page" \/ ~l.req.valid
    BY <1>3 DEF HandlePage
  <2>3. Works(Answered(l, a))
    BY <1>1, <2>2 DEF Works, Whole, Answered, Upload, Local
  <2> QED
    BY <2>1, <2>3
<1>4. CASE TooLarge(c)
  <2>1. Becomes(c, Answered(l, "413")) /\ l.req.kind = "cdn"
    BY <1>4 DEF TooLarge
  <2>2. Works(Answered(l, "413"))
    BY <1>1, <2>1 DEF Works, Whole, Answered, Upload, Local
  <2> QED
    BY <2>1, <2>2 DEF Answer
<1>5. CASE HandleJson(c)
  <2> DEFINE a == IF BodySeen(l) >= l.req.length THEN "200" ELSE "400"
  <2>1. Becomes(c, Answered(l, a)) /\ l.req.kind = "json"
    BY <1>5 DEF HandleJson
  <2>2. ASSUME Whole(l), l.req.spelled, l.req.head + l.req.length <= Cap PROVE a = "200"
    <3>1. /\ l.req.head \in Nat /\ l.req.length \in Nat /\ l.req.sent \in Nat
          /\ l.total_read \in Nat /\ content_length(l) = l.req.length
      BY <1>1, <2>2, RequestType, SizeAssumption DEF Local, content_length
    <3> HIDE DEF l, a
    <3>2. /\ ~l.cut /\ l.req.sent >= l.req.head + l.req.length /\ l.taken = l.total_read
          /\ l.total_read - l.req.head >= content_length(l) \/ l.total_read = Cap
                \/ l.taken = l.req.sent
      BY <1>2, <2>2 DEF ReadOver, Complete, Buffered, Whole
    <3>3. l.total_read - l.req.head >= l.req.length
      BY <2>2, <3>1, <3>2, SizeAssumption
    <3> QED
      BY <2>2, <3>1, <3>3 DEF BodySeen, Smaller, a
  <2>3. Works(Answered(l, a))
    <3> HIDE DEF a
    <3>1. /\ Answered(l, a).answer = a /\ Answered(l, a).req = l.req
          /\ Answered(l, a).cut = l.cut
      BY <1>1 DEF Answered, Local
    <3> QED
      BY <2>1, <2>2, <3>1 DEF Works, Whole, Upload
  <2> QED
    BY <2>1, <2>3 DEF Answer
<1>6. CASE OpenFails(c)
  <2>1. Becomes(c, Answered(l, "500")) /\ l.req.kind \in Upload
    BY <1>6 DEF OpenFails
  <2>2. Works(Answered(l, "500"))
    BY <1>1, <2>1 DEF Works, Whole, Answered, Upload, Local
  <2> QED
    BY <2>1, <2>2 DEF Answer
<1> QED
  BY <1>3, <1>4, <1>5, <1>6

\* The first bytes of a body come from the buffer of handle_client.
LEMMA StartUploadInv == ASSUME IInv, NEW c \in Conn, StartUpload(c) PROVE IInv'
<1> DEFINE l == conn[c]
           there == body_length_in_buffer(l)
           n == Smaller(there, l.req.length)
           m == [l EXCEPT !.file = Bytes(l.req.head, n), !.remaining = l.req.length - there]
<1>1. Fits(l) /\ l \in Local /\ l.step = "dispatch" /\ l.req.kind \in Upload
  BY DEF IInv, StartUpload, At
<1>2. Buffered(l) /\ HeadersParsed(l) /\ l.answer = "none"
  BY <1>1 DEF Fits, ReadOver
<1>3. /\ l.req.head \in Nat /\ l.req.length \in Nat /\ l.req.sent \in Nat
      /\ l.total_read \in Nat /\ there = l.total_read - l.req.head /\ there \in Nat
  <2>1. l.req.head \in Nat /\ l.req.length \in Nat /\ l.req.sent \in Nat
    BY <1>1, RequestType
  <2>2. l.total_read \in Nat
    BY <1>1, SizeAssumption DEF Local
  <2> QED
    BY <1>2, <2>1, <2>2 DEF HeadersParsed, body_length_in_buffer
<1>4. n \in Nat /\ n <= l.req.length /\ (n = there \/ n = l.req.length) /\ n <= there
  BY <1>3 DEF Smaller
<1>5. Bytes(l.req.head, n) \in Seq(Nat) /\ Len(Bytes(l.req.head, n)) = n
  BY <1>3, <1>4, BytesSeq
<1>6. Becomes(c, Receiving(m))
  BY DEF StartUpload
<1>7. l.req.length - there \in Int
  BY <1>3
<1> HIDE DEF n, there
<1>8. /\ m \in Local /\ m.req = l.req /\ m.answer = "none" /\ m.taken = l.taken
      /\ m.file = Bytes(l.req.head, n) /\ m.remaining = l.req.length - there
  BY <1>1, <1>2, <1>5, <1>7 DEF Local
<1>9. l.taken = l.req.head + there /\ l.taken <= l.req.sent
  BY <1>2, <1>3 DEF Buffered
<1> HIDE DEF l, m
<1>10. Fits(Receiving(m))
  <2>1. Stored(m)
    BY <1>4, <1>5, <1>8 DEF Stored
  <2>2. m.remaining > 0 => /\ m.taken = m.req.head + Len(m.file)
                           /\ m.remaining = m.req.length - Len(m.file)
    BY <1>3, <1>4, <1>5, <1>8, <1>9
  <2>3. m.remaining <= 0 => Len(m.file) = m.req.length
    BY <1>3, <1>4, <1>5, <1>8
  <2> QED
    BY <1>1, <1>8, <1>9, <2>1, <2>2, <2>3, ReceivingFits
<1> QED
  BY <1>6, <1>10, OneConnection

\* A later read is appended where the file ends.
LEMMA ReceiveInv == ASSUME IInv, NEW c \in Conn, Receive(c) PROVE IInv'
<1> DEFINE l == conn[c]
<1>1. Fits(l) /\ l \in Local /\ l.step = "receive"
  BY DEF IInv, Receive, At
<1>2. Counted(l) /\ Stored(l) /\ l.answer = "none"
  BY <1>1 DEF Fits
<1>3. /\ l.req.head \in Nat /\ l.req.length \in Nat /\ l.req.sent \in Nat
      /\ l.taken \in Nat /\ l.remaining \in Int /\ Len(l.file) \in Nat
      /\ Chunk \in Nat
  <2>1. l.req.head \in Nat /\ l.req.length \in Nat /\ l.req.sent \in Nat
    BY <1>1, RequestType
  <2>2. l.taken \in Nat /\ l.remaining \in Int /\ Len(l.file) \in Nat
    BY <1>1 DEF Local
  <2> QED
    BY <2>1, <2>2, SizeAssumption
<1>4. PICK n \in Got(l, Smaller(Chunk, l.remaining)) :
          Becomes(c, Receiving([l EXCEPT !.taken = @ + n, !.remaining = @ - n,
                                         !.file = @ \o Bytes(l.taken, n)]))
  BY DEF Receive
<1> DEFINE m == [l EXCEPT !.taken = @ + n, !.remaining = @ - n,
                          !.file = @ \o Bytes(l.taken, n)]
<1>5. n \in Nat /\ n <= l.remaining /\ n <= l.req.sent - l.taken
  <2>1. n \in 1..Smaller(Smaller(Chunk, l.remaining), l.req.sent - l.taken)
    BY <1>4 DEF Got
  <2> QED
    BY <1>3, <2>1 DEF Smaller
<1>6. l.file \o Bytes(l.taken, n) = Bytes(l.req.head, Len(l.file) + n)
  <2>1. l.file = Bytes(l.req.head, Len(l.file)) /\ l.taken = l.req.head + Len(l.file)
    BY <1>2 DEF Stored, Counted
  <2>2. Bytes(l.req.head, Len(l.file)) \o Bytes(l.req.head + Len(l.file), n)
          = Bytes(l.req.head, Len(l.file) + n)
    BY <1>3, <1>5, BytesAppend, Zenon
  <2> QED
    BY <2>1, <2>2, Zenon
<1>7. /\ Bytes(l.req.head, Len(l.file) + n) \in Seq(Nat)
      /\ Len(Bytes(l.req.head, Len(l.file) + n)) = Len(l.file) + n
  <2>1. Len(l.file) + n \in Nat
    BY <1>3, <1>5
  <2> QED
    BY <1>3, <2>1, BytesSeq, Zenon
<1>8. l.taken + n \in Nat /\ l.remaining - n \in Int
  BY <1>3, <1>5
<1>9. /\ m \in Local /\ m.req = l.req /\ m.answer = "none" /\ m.taken = l.taken + n
      /\ m.file = Bytes(l.req.head, Len(l.file) + n) /\ m.remaining = l.remaining - n
  BY <1>1, <1>2, <1>6, <1>7, <1>8 DEF Local
<1>10. Becomes(c, Receiving(m))
  BY <1>4
<1> HIDE DEF l, m
<1>11. /\ Len(m.file) = Len(l.file) + n
       /\ m.taken = m.req.head + Len(m.file) /\ m.taken <= m.req.sent
       /\ m.remaining = m.req.length - Len(m.file) /\ m.remaining >= 0
  <2>1. /\ l.taken = l.req.head + Len(l.file)
        /\ l.remaining = l.req.length - Len(l.file)
    BY <1>2 DEF Counted
  <2>2. /\ l.taken + n = l.req.head + (Len(l.file) + n) /\ l.taken + n <= l.req.sent
        /\ l.remaining - n = l.req.length - (Len(l.file) + n)
        /\ l.remaining - n >= 0
    <3> DEFINE taken == l.taken  head == l.req.head  length == l.req.length
               sent == l.req.sent  k == Len(l.file)  remaining == l.remaining
    <3>1. /\ taken \in Nat /\ head \in Nat /\ length \in Nat /\ sent \in Nat
          /\ k \in Nat /\ remaining \in Int /\ taken = head + k /\ remaining = length - k
          /\ n \in Nat /\ n <= remaining /\ n <= sent - taken
      BY <1>3, <1>5, <2>1, Zenon
    <3> HIDE DEF taken, head, length, sent, k, remaining
    <3>2. /\ taken + n = head + (k + n) /\ taken + n <= sent
          /\ remaining - n = length - (k + n) /\ remaining - n >= 0
      BY <3>1
    <3> QED
      BY <3>2 DEF taken, head, length, sent, k, remaining
  <2>3. Len(m.file) = Len(l.file) + n
    BY <1>7, <1>9, Zenon
  <2>4. /\ m.req.head = l.req.head /\ m.req.length = l.req.length /\ m.req.sent = l.req.sent
        /\ m.taken = l.taken + n /\ m.remaining = l.remaining - n
    BY <1>9
  <2>5. m.taken = m.req.head + Len(m.file) /\ m.taken <= m.req.sent
    BY <2>2, <2>3, <2>4
  <2>6. m.remaining = m.req.length - Len(m.file) /\ m.remaining >= 0
    BY <2>2, <2>3, <2>4
  <2> QED
    BY <2>3, <2>5, <2>6
<1>12. Fits(Receiving(m))
  <2>1. Stored(m)
    <3>1. m.file = Bytes(m.req.head, Len(m.file))
      BY <1>9, <1>11, Zenon
    <3>2. Len(m.file) <= m.req.length
      <4>1. m.req.length \in Nat /\ Len(m.file) \in Nat
        BY <1>3, <1>5, <1>9, <1>11
      <4> QED
        BY <1>11, <4>1
    <3> QED
      BY <3>1, <3>2 DEF Stored
  <2>2. m.remaining <= 0 => Len(m.file) = m.req.length
    <3>1. m.req.length \in Nat /\ Len(m.file) \in Nat
      BY <1>3, <1>5, <1>9, <1>11
    <3> QED
      BY <1>11, <3>1
  <2>3. m.req.kind \in Upload
    BY <1>2, <1>9 DEF Counted
  <2> QED
    BY <1>9, <1>11, <2>1, <2>2, <2>3, ReceivingFits
<1> QED
  BY <1>10, <1>12, OneConnection

\* The loop that gives up has not had the whole of the request.
LEMMA ReceiveEndsInv == ASSUME IInv, NEW c \in Conn, ReceiveEnds(c) PROVE IInv'
<1> DEFINE l == conn[c]
           m == Answered(Failed(l), "200")
<1>1. Fits(l) /\ l \in Local /\ l.step = "receive" /\ Becomes(c, m)
  BY DEF IInv, ReceiveEnds, At
<1>2. Counted(l) /\ Stored(l)
  BY <1>1 DEF Fits
<1>3. (l.taken < l.req.sent) \in BOOLEAN
  OBVIOUS
<1>4. /\ m \in Local /\ m.req = l.req /\ m.file = l.file /\ m.step = "respond"
      /\ m.cut = (l.taken < l.req.sent)
  BY <1>1, <1>3 DEF Failed, Answered, Local, Step, Answer
<1>5. ~Whole(m)
  <2>1. /\ l.req.head \in Nat /\ l.req.length \in Nat /\ l.req.sent \in Nat
    BY <1>1, RequestType
  <2>2. l.taken \in Nat /\ Len(l.file) \in Nat
    BY <1>1 DEF Local
  <2>3. /\ l.taken = l.req.head + Len(l.file) /\ l.taken <= l.req.sent
        /\ l.remaining = l.req.length - Len(l.file) /\ l.remaining > 0
    BY <1>2 DEF Counted
  <2>4. ~(l.taken < l.req.sent) => l.req.sent < l.req.head + l.req.length
    <3> DEFINE taken == l.taken  head == l.req.head  length == l.req.length
               sent == l.req.sent  k == Len(l.file)
    <3>1. /\ taken \in Nat /\ head \in Nat /\ length \in Nat /\ sent \in Nat
          /\ k \in Nat /\ taken = head + k /\ length - k > 0 /\ taken <= sent
      BY <2>1, <2>2, <2>3, Zenon
    <3> HIDE DEF taken, head, length, sent, k
    <3>2. ~(taken < sent) => sent < head + length
      BY <3>1
    <3> QED
      BY <3>2 DEF taken, head, length, sent
  <2>5. ~(l.req.sent < l.req.head + l.req.length) <=> l.req.sent >= l.req.head + l.req.length
    BY <2>1
  <2>6. /\ m.req = l.req /\ m.cut = (l.taken < l.req.sent)
    BY <1>4
  <2> HIDE DEF l, m
  <2> QED
    BY <2>4, <2>5, <2>6, Zenon DEF Whole
<1>6. Fits(m)
  <2> HIDE DEF l, m
  <2> QED
    BY <1>2, <1>4, <1>5 DEF Fits, Works, Stored, Early
<1> QED
  BY <1>1, <1>6, OneConnection

\* The steps around a request.
LEMMA SocketInv ==
    ASSUME IInv, NEW c \in Conn,
           \/ Connect(c) \/ Accept(c) \/ StartThread(c) \/ StartThreadFails(c)
           \/ ForgetSocket(c) \/ Handshake(c) \/ Redirect(c) \/ PageMissing(c) \/ Close(c)
    PROVE  IInv'
<1> DEFINE l == conn[c]
<1>1. Fits(l) /\ l \in Local
  BY DEF IInv
<1>2. CASE \/ Connect(c) \/ Accept(c) \/ StartThread(c) \/ ForgetSocket(c)
  <2>1. PICK s \in Early : /\ l.step \in Early /\ Becomes(c, [l EXCEPT !.step = s])
                           /\ s = "redirect" => l.req.kind = "redirect"
    <3>1. CASE Connect(c) \/ Accept(c) \/ ForgetSocket(c)
      BY <3>1 DEF Connect, Accept, ForgetSocket, At, GoTo, Early
    <3>2. CASE StartThread(c)
      BY <3>2 DEF StartThread, At, GoTo, Early, Redirected
    <3> QED
      BY <1>2, <3>1, <3>2
  <2> QED
    BY <1>1, <2>1, EarlyFits, OneConnection
<1>3. CASE Becomes(c, [l EXCEPT !.step = "closed"])
  BY <1>1, <1>3, ClosedFits, OneConnection
<1>4. CASE Handshake(c) /\ Becomes(c, [l EXCEPT !.step = "read"])
  <2>1. l.step = "handshake"
    BY <1>4 DEF Handshake, At
  <2>2. l.req.sent >= 0
    BY <1>1, RequestType
  <2>3. Fits([l EXCEPT !.step = "read"])
    BY <1>1, <2>1, <2>2 DEF Fits, Stored, Started, Buffered, Local, Early, Step
  <2> QED
    BY <1>4, <2>3, OneConnection
<1>5. CASE Redirect(c) /\ Becomes(c, [l EXCEPT !.step = "respond", !.answer = "301"])
  <2>1. l.step = "redirect" /\ l.req.kind = "redirect"
    BY <1>1, <1>5 DEF Redirect, At, Fits
  <2>2. Works(Answered(l, "301"))
    BY <1>1, <2>1 DEF Works, Answered, Upload, Local
  <2>3. Answered(l, "301") = [l EXCEPT !.step = "respond", !.answer = "301"]
    BY DEF Answered
  <2>4. Fits(Answered(l, "301"))
    BY <1>1, <2>2, AnsweredFits DEF Answer
  <2> HIDE DEF l
  <2> QED
    BY <1>5, <2>3, <2>4, OneConnection
<1> QED
  BY <1>2, <1>3, <1>4, <1>5
     DEF StartThreadFails, Handshake, Redirect, PageMissing, Close, GoTo

LEMMA NextInv == IInv /\ [ConnectionNext]_conn => IInv'
<1> SUFFICES ASSUME IInv, [ConnectionNext]_conn PROVE IInv'
  OBVIOUS
<1>1. CASE UNCHANGED conn
  BY <1>1 DEF IInv
<1>2. ASSUME NEW c \in Conn, Connect(c) \/ Accept(c) \/ Serve(c) PROVE IInv'
  BY <1>2, ReadInv, HandleInv, StartUploadInv, ReceiveInv, ReceiveEndsInv, SocketInv DEF Serve
<1> QED
  BY <1>1, <1>2 DEF ConnectionNext

\* The invariant holds in every reachable state.
LEMMA Invariant == ConnectionSpec => []IInv
<1>1. ConnectionInit => IInv
  BY InitInv
<1>2. IInv /\ [ConnectionNext]_conn => IInv'
  BY NextInv
<1> QED
  BY <1>1, <1>2, PTL DEF ConnectionSpec

-----------------------------------------------------------------------------
(* The theorems.                                                            *)

\* handle_client never reads past its buffer.
THEOREM TypeCorrect == ConnectionSpec => []ConnectionTypeOK
<1>1. IInv => ConnectionTypeOK
  BY DEF IInv, ConnectionTypeOK
<1> QED
  BY <1>1, Invariant, PTL

\* The upload handlers store the bytes of the body, in order, each once and
\* nothing else, however the network cuts the stream and whatever the sizes.
THEOREM StoresTheBody == ConnectionSpec => []FileIsBody
<1>1. IInv => FileIsBody
  BY DEF IInv, Fits, Stored, FileIsBody
<1> QED
  BY <1>1, Invariant, PTL

\* A request that came whole is stored or understood whole.
THEOREM WholeRequestsAreHandled == ConnectionSpec => []WholeRequestsWork
<1>1. IInv => WholeRequestsWork
  <2> SUFFICES ASSUME IInv, NEW c \in Conn, Done(c), Whole(conn[c])
               PROVE  LET l == conn[c] IN
                        /\ l.req.kind \in Upload /\ l.answer = "200" => Len(l.file) = l.req.length
                        /\ l.req.kind = "json" /\ l.req.spelled /\ l.req.head + l.req.length <= Cap
                              => l.answer = "200"
    BY DEF WholeRequestsWork
  <2>1. Fits(conn[c])
    BY DEF IInv
  <2>2. conn[c].answer # "none" \/ conn[c].step = "respond"
    BY DEF Done, At
  <2> QED
    BY <2>1, <2>2 DEF Fits, Works
<1> QED
  BY <1>1, Invariant, PTL
=============================================================================
