---------------------------- MODULE SingleServer ----------------------------
(***************************************************************************)
(* What the orchestrator promises about arc_server, whatever it does to    *)
(* get there: a server is started only when none is running, so there is   *)
(* never a second one beside it and never a direct change of hands.        *)
(***************************************************************************)
CONSTANT Pid
VARIABLE running    \* the running server processes

Init == running = {}

Start == running = {} /\ \E p \in Pid : running' = {p}
Stop == running # {} /\ running' = {}

Next == Start \/ Stop

Spec == Init /\ [][Next]_running
=============================================================================
