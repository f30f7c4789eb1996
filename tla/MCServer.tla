----------------------------- MODULE MCServer -------------------------------
(***************************************************************************)
(* The life of the server process and the life of its connections: what    *)
(* happens inside a server does not matter to core, and a connection ends  *)
(* with its server.  Only one of the two moves in each behaviour.          *)
(*                                                                         *)
(* Two process ids.  Two connections compete for one descriptor; the       *)
(* buffer has four bytes, a chunk two: headers that fit or not, bodies     *)
(* that end in the buffer, at its end, after it, or not at all, and bytes  *)
(* after the body.                                                         *)
(***************************************************************************)
EXTENDS Orchestrator, Connection

VARIABLE focus

serverVars == <<vars, conn, focus>>

Idle == CHOOSE q \in Asked : TRUE

MCInit ==
    /\ Init /\ ConnectionInit
    /\ \/ focus = "core" /\ \A c \in Conn : conn[c].req = Idle
       \/ focus = "connections" /\ runnable

MCNext ==
    /\ UNCHANGED focus
    /\ \/ focus = "core" /\ Next /\ UNCHANGED conn
       \/ focus = "connections" /\ ConnectionNext /\ UNCHANGED vars

MCSpec ==
    /\ MCInit /\ [][MCNext]_serverVars
    /\ focus = "core" => Fairness
    /\ ConnectionFairness

Ask(kind, head, length, sent) ==
    [kind |-> kind, head |-> head, length |-> length, sent |-> sent,
     spelled |-> TRUE, valid |-> TRUE]

MCAsked == {
    Ask("page", 2, 0, 2), Ask("page", 2, 0, 3), Ask("page", 5, 0, 5), Ask("page", 2, 0, 1),
    [Ask("page", 2, 0, 2) EXCEPT !.valid = FALSE],
    Ask("json", 2, 2, 4), Ask("json", 2, 2, 3), Ask("json", 2, 1, 4), Ask("json", 2, 3, 5),
    [Ask("json", 2, 2, 4) EXCEPT !.spelled = FALSE],
    Ask("source", 2, 5, 7), Ask("source", 2, 5, 8), Ask("source", 2, 1, 4), Ask("source", 4, 3, 6),
    [Ask("source", 2, 4, 6) EXCEPT !.spelled = FALSE],
    Ask("cdn", 1, 4, 6), Ask("cdn", 2, 6, 8),
    Ask("redirect", 1, 0, 1), Ask("redirect", 1, 0, 0)}
=============================================================================
