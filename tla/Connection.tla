----------------------------- MODULE Connection -----------------------------
(***************************************************************************)
(* The connections of ar-bemf/server.c: the accept loops of the server and *)
(* of the redirector on port 80, the thread of each connection, the loop   *)
(* of handle_client that collects a request from the pieces the network    *)
(* delivers, and the loops of the upload handlers that read the rest of a  *)
(* body into a file.                                                       *)
(*                                                                         *)
(* The bytes a client sends on a connection are numbered from 1.  A file   *)
(* is the sequence of the numbers of its bytes, so that a byte that is     *)
(* lost, doubled or out of order shows.  What a handler does otherwise,    *)
(* and who may call it, is left out: it answers and returns.               *)
(*                                                                         *)
(* Every socket has a receive timeout, so a read that gets nothing ends    *)
(* with an error, as it does when the client closes the connection.        *)
(***************************************************************************)
EXTENDS Integers, Sequences, FiniteSets

CONSTANTS
    Conn,       \* connections
    Asked,      \* the requests clients make
    Cap,        \* bytes handle_client reads at most, 16383 in the code
    Chunk,      \* bytes an upload handler reads at once, 8192
    MaxUpload,  \* 100 MB for the CDN; source uploads have no limit
    MaxFds,     \* sockets the process can have open
    Failures    \* subset of AllFailures

AllFailures == {"threads", "memory", "tls", "network", "files"}

ASSUME SizeAssumption == Cap \in Nat \ {0} /\ Chunk \in Nat \ {0} /\ MaxUpload \in Nat
ASSUME LimitAssumption == MaxFds \in Nat \ {0}
ASSUME FailureAssumption == Failures \subseteq AllFailures

Kind == {"page", "json", "source", "cdn", "redirect"}

\* head: bytes up to the empty line; length: Content-Length; sent: bytes the
\* client sends at all.  spelled: the header's name is written in one of the
\* two ways handle_client looks for.  valid: the request line has a method
\* and a path.
Request == [kind : Kind, head : Nat \ {0}, length : Nat, sent : Nat,
            spelled : BOOLEAN, valid : BOOLEAN]

ASSUME AskedAssumption == Asked \subseteq Request

VARIABLE conn

Step == {"none", "waiting", "accepted", "handshake", "read", "dispatch", "receive",
         "redirect", "respond", "closed", "lost"}
Answer == {"none", "200", "301", "400", "413", "500"}

\* total_read, the bytes taken from the socket in all, remaining and the file
\* are variables of the thread; cut is a history: the network failed before
\* the client had sent all.
Local == [step : Step, req : Request, total_read : 0..Cap, taken : Nat, remaining : Int,
          file : Seq(Nat), answer : Answer, cut : BOOLEAN]

ConnectionTypeOK == conn \in [Conn -> Local]

Fresh(q) == [step |-> "none", req |-> q, total_read |-> 0, taken |-> 0, remaining |-> 0,
             file |-> <<>>, answer |-> "none", cut |-> FALSE]

ConnectionInit == \E ask \in [Conn -> Asked] : conn = [c \in Conn |-> Fresh(ask[c])]

-----------------------------------------------------------------------------
(* Sockets and threads.                                                     *)

Open == {c \in Conn : conn[c].step \notin {"none", "waiting", "closed"}}

\* Connection c goes on as l.
Becomes(c, l) == conn' = [conn EXCEPT ![c] = l]
GoTo(c, step) == Becomes(c, [conn[c] EXCEPT !.step = step])
At(c, step) == conn[c].step = step
Redirected(c) == conn[c].req.kind = "redirect"

\* A client connects and is queued by the kernel.
Connect(c) == At(c, "none") /\ GoTo(c, "waiting")

\* accept fails, and the loop goes on, while there is no free descriptor.
Accept(c) ==
    /\ At(c, "waiting")
    /\ Cardinality(Open) < MaxFds
    /\ GoTo(c, "accepted")

StartThread(c) ==
    /\ At(c, "accepted")
    /\ GoTo(c, IF Redirected(c) THEN "redirect" ELSE "handshake")

StartThreadFails(c) ==
    /\ At(c, "accepted")
    /\ "threads" \in Failures
    /\ GoTo(c, "closed")

\* The redirector has no memory for the thread's argument: nobody closes the
\* socket.
ForgetSocket(c) ==
    /\ At(c, "accepted") /\ Redirected(c)
    /\ "memory" \in Failures
    /\ GoTo(c, "lost")

\* SSL_accept, then the buffer of handle_client; either may fail.
Handshake(c) ==
    /\ At(c, "handshake")
    /\ \/ GoTo(c, "read")
       \/ {"tls", "memory"} \cap Failures # {} /\ GoTo(c, "closed")

\* The redirector's thread reads once; it answers if it got anything.
Redirect(c) ==
    /\ At(c, "redirect")
    /\ \/ /\ conn[c].req.sent > 0
          /\ Becomes(c, [conn[c] EXCEPT !.step = "respond", !.answer = "301"])
       \/ /\ conn[c].req.sent = 0 \/ "network" \in Failures
          /\ GoTo(c, "closed")

-----------------------------------------------------------------------------
(* handle_client.                                                           *)

Smaller(a, b) == IF a < b THEN a ELSE b

\* A read returns what has come, up to limit bytes.
Got(l, limit) == 1 .. Smaller(limit, l.req.sent - l.taken)
\* It fails when the client has sent all or the connection breaks.
ReadFails(l) == l.taken = l.req.sent \/ "network" \in Failures
Failed(l) == [l EXCEPT !.cut = l.taken < l.req.sent]

HeadersParsed(l) == l.total_read >= l.req.head
content_length(l) == IF l.req.spelled THEN l.req.length ELSE 0

\* Wrong: the headers are taken for the whole of a request.
CompleteAtHeaders(l) == HeadersParsed(l)
\* All of the request has come, as far as the headers tell.
Complete(l) == HeadersParsed(l) /\ l.total_read - l.req.head >= content_length(l)

\* The loop is over: the request is handled if its headers are there.
EndRead(l) == [l EXCEPT !.step = IF HeadersParsed(l) THEN "dispatch" ELSE "closed"]

Read(c) ==
    /\ At(c, "read")
    /\ \E n \in Got(conn[c], Cap - conn[c].total_read) :
          LET l == [conn[c] EXCEPT !.total_read = @ + n, !.taken = @ + n]
          IN  Becomes(c, IF Complete(l) \/ l.total_read = Cap THEN EndRead(l) ELSE l)

ReadEnds(c) ==
    /\ At(c, "read")
    /\ ReadFails(conn[c])
    /\ Becomes(c, EndRead(Failed(conn[c])))

Answered(l, status) == [l EXCEPT !.step = "respond", !.answer = status]

\* The part of the body parse_json_body sees: a string that was ended after
\* content_length bytes, where that many fit into the buffer.
BodySeen(l) ==
    LET there == l.total_read - l.req.head
    IN  IF content_length(l) > 0 /\ l.req.head + content_length(l) <= Cap
        THEN Smaller(content_length(l), there) ELSE there

\* A request for a page, or one that fails before its handler.
HandlePage(c) ==
    /\ At(c, "dispatch")
    /\ conn[c].req.kind = "page" \/ ~conn[c].req.valid
    /\ Becomes(c, Answered(conn[c], IF conn[c].req.valid THEN "200" ELSE "400"))

\* sendpage ignores that the page's file could not be served: no answer.
PageMissing(c) ==
    /\ At(c, "dispatch") /\ conn[c].req.kind = "page" /\ conn[c].req.valid
    /\ "files" \in Failures
    /\ GoTo(c, "closed")

\* A JSON text that is cut short does not parse; what follows one is ignored.
HandleJson(c) ==
    /\ At(c, "dispatch") /\ conn[c].req.kind = "json" /\ conn[c].req.valid
    /\ LET l == conn[c]
       IN  Becomes(c, Answered(l, IF BodySeen(l) >= l.req.length THEN "200" ELSE "400"))

-----------------------------------------------------------------------------
(* The upload handlers.                                                     *)

Upload == {"source", "cdn"}
Bytes(from, n) == [i \in 1..n |-> from + i]
body_length_in_buffer(l) == l.total_read - l.req.head

\* The loop goes on while something remains.
Receiving(l) == IF l.remaining > 0 THEN [l EXCEPT !.step = "receive"] ELSE Answered(l, "200")

\* fopen fails; nothing more is read.
OpenFails(c) ==
    /\ At(c, "dispatch") /\ conn[c].req.kind \in Upload /\ conn[c].req.valid
    /\ "files" \in Failures
    /\ Becomes(c, Answered(conn[c], "500"))

TooLarge(c) ==
    /\ At(c, "dispatch") /\ conn[c].req.kind = "cdn" /\ conn[c].req.valid
    /\ conn[c].req.length > MaxUpload
    /\ Becomes(c, Answered(conn[c], "413"))

\* Wrong: what came with the headers is written whole.
StartUploadWhole(c) ==
    /\ At(c, "dispatch") /\ conn[c].req.kind \in Upload /\ conn[c].req.valid
    /\ conn[c].req.kind = "cdn" => conn[c].req.length <= MaxUpload
    /\ LET l == conn[c]
           there == body_length_in_buffer(l)
       IN  Becomes(c, Receiving([l EXCEPT !.file = Bytes(l.req.head, there),
                                          !.remaining = l.req.length - there]))

\* What came with the headers is written first.
StartUpload(c) ==
    /\ At(c, "dispatch") /\ conn[c].req.kind \in Upload /\ conn[c].req.valid
    /\ conn[c].req.kind = "cdn" => conn[c].req.length <= MaxUpload
    /\ LET l == conn[c]
           there == body_length_in_buffer(l)
       IN  Becomes(c, Receiving([l EXCEPT
              !.file = Bytes(l.req.head, Smaller(there, l.req.length)),
              !.remaining = l.req.length - there]))

Receive(c) ==
    /\ At(c, "receive")
    /\ LET l == conn[c]
       IN  \E n \in Got(l, Smaller(Chunk, l.remaining)) :
              Becomes(c, Receiving([l EXCEPT !.taken = @ + n, !.remaining = @ - n,
                                             !.file = @ \o Bytes(l.taken, n)]))

\* Wrong: the loop waits for the rest of a body whatever read returns.
ReceiveEndsNot(c) ==
    /\ At(c, "receive")
    /\ ReadFails(conn[c])
    /\ UNCHANGED conn

\* A short file is kept, and answered like a whole one.
ReceiveEnds(c) ==
    /\ At(c, "receive")
    /\ ReadFails(conn[c])
    /\ Becomes(c, Answered(Failed(conn[c]), "200"))

\* The answer is written, the thread ends.
Close(c) == At(c, "respond") /\ GoTo(c, "closed")

-----------------------------------------------------------------------------
Serve(c) ==
    \/ StartThread(c) \/ StartThreadFails(c) \/ ForgetSocket(c) \/ Handshake(c) \/ Redirect(c)
    \/ Read(c) \/ ReadEnds(c) \/ HandlePage(c) \/ HandleJson(c)
    \/ PageMissing(c) \/ OpenFails(c) \/ TooLarge(c) \/ StartUpload(c)
    \/ Receive(c) \/ ReceiveEnds(c) \/ Close(c)

ConnectionNext == \E c \in Conn : Connect(c) \/ Accept(c) \/ Serve(c)

(***************************************************************************)
(* A thread runs, and the socket's timeouts end every read: the steps of   *)
(* an accepted connection are weakly fair.  So is accept, which takes the  *)
(* connections from the kernel's queue.                                    *)
(***************************************************************************)
ConnectionSpec == ConnectionInit /\ [][ConnectionNext]_conn
ConnectionFairness == \A c \in Conn : WF_conn(Serve(c)) /\ WF_conn(Accept(c))

-----------------------------------------------------------------------------
\* An upload's file is the body from its first byte, without a gap and
\* without a byte of what the client sent after it, however the network cut
\* the stream and the buffer of the headers divided it.
FileIsBody ==
    \A c \in Conn : LET l == conn[c] IN
        l.file = Bytes(l.req.head, Len(l.file)) /\ Len(l.file) <= l.req.length

Whole(l) == ~l.cut /\ l.req.valid /\ l.req.sent >= l.req.head + l.req.length
Done(c) == At(c, "respond") \/ (At(c, "closed") /\ conn[c].answer # "none")

\* An upload that came whole is stored whole, and a JSON request that came
\* whole and fits into the buffer is understood, in whatever pieces it came.
WholeRequestsWork ==
    \A c \in Conn : LET l == conn[c] IN
        Done(c) /\ Whole(l) =>
            /\ l.req.kind \in Upload /\ l.answer = "200" => Len(l.file) = l.req.length
            /\ l.req.kind = "json" /\ l.req.spelled /\ l.req.head + l.req.length <= Cap
                  => l.answer = "200"

\* The sockets the redirector has lost.
Lost == {c \in Conn : At(c, "lost") /\ Redirected(c)}

\* Every client that connects is accepted and its socket closed at last,
\* whichever way its request fails, until the sockets lost by the redirector
\* have used up all descriptors.
EveryClientServed ==
    \A c \in Conn : At(c, "waiting") ~>
        (At(c, "closed") \/ c \in Lost \/ Cardinality(Lost) = MaxFds)
=============================================================================
