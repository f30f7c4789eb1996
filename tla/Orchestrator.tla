---------------------------- MODULE Orchestrator ----------------------------
(***************************************************************************)
(* The root process of the system, ar-core/main.c: it builds arc_server,   *)
(* forks it, and from then on polls one flag, pending_action, that two     *)
(* signal handlers set.  SIGUSR1 asks for a rebuilt server, SIGUSR2 for a  *)
(* rebuilt server and a re-execution of core itself, SIGINT ends core.     *)
(*                                                                         *)
(* Every statement between which a signal handler can run is a step of     *)
(* its own: the test of the flag and its reset, the kill, the wait, the    *)
(* fork and the store of its result.  Process ids are recycled by the      *)
(* kernel as soon as their process is waited for.                          *)
(***************************************************************************)
EXTENDS FiniteSets

CONSTANTS
    Pid,      \* process ids the kernel can hand out
    NoPid,    \* the value -1 of global_server_pid
    Faults    \* what the environment may do, a subset of AllFaults

AllFaults == {"fork", "exec", "build", "timeout", "crash", "operator", "sigint"}

ASSUME PidAssumption == NoPid \notin Pid
ASSUME FaultsAssumption == Faults \subseteq AllFaults

VARIABLES
    pc,                 \* the statement core executes next
    pending_action,     \* 0, 1 or 2
    global_server_pid,  \* what core believes is its server
    child,              \* the result of fork() not yet stored
    proc,               \* state of the process behind each pid
    runnable,           \* ./arc_server can be executed
    stray,              \* a compiler outlives the make that was killed
    owed,               \* history: the hot reload asked for and not yet done
    cause               \* history: why core ended

vars == <<pc, pending_action, global_server_pid, child, proc, runnable, stray, owed, cause>>

(***************************************************************************)
(* core is "boot" from execv of ./core until main has installed its        *)
(* handlers, and "dead" after exit.  The branches of the loop are numbered *)
(* by the value of pending_action they serve.                              *)
(***************************************************************************)
Loop == {"poll1", "poll2", "clear1", "make1", "kill1", "reap1", "fork1",
         "clear2", "make2", "gcc2", "kill2", "reap2"}
Booting == {"exec", "boot", "build", "spawn"}
PC == Loop \cup Booting \cup {"store", "dead"}

\* The pid is "free" until fork returns it and again after waitpid.
ProcState == {"free", "forked", "up", "stopping", "zombie"}
Live == {"forked", "up", "stopping"}
Servers == {p \in Pid : proc[p] \in Live}      \* running server processes
Children == {p \in Pid : proc[p] # "free"}     \* those and the unreaped ones

TypeOK ==
    /\ pc \in PC
    /\ pending_action \in {"0", "1", "2"}
    /\ global_server_pid \in Pid \cup {NoPid}
    /\ child \in Pid \cup {NoPid}
    /\ proc \in [Pid -> ProcState]
    /\ runnable \in BOOLEAN
    /\ stray \in BOOLEAN
    /\ owed \subseteq {"reload", "fork"}
    /\ cause \in {"none", "sigint", "operator", "server", "fork", "exec"}

Init ==
    /\ pc = "boot"
    /\ pending_action = "0"
    /\ global_server_pid = NoPid
    /\ child = NoPid
    /\ proc = [p \in Pid |-> "free"]
    /\ runnable \in BOOLEAN          \* left by an earlier build, or absent
    /\ stray = FALSE
    /\ owed = {}
    /\ cause = "none"

-----------------------------------------------------------------------------
(* Building.  A compile succeeds, fails with or without destroying the old  *)
(* binary, or is killed by safe_compile after 15 seconds: the kill reaches  *)
(* make only, and a compiler make had started keeps running.                *)

Built == runnable' = TRUE /\ UNCHANGED stray
BuildFailed == /\ "build" \in Faults
               /\ runnable' \in {runnable, FALSE}
               /\ UNCHANGED stray
BuildKilled == /\ "timeout" \in Faults
               /\ runnable' \in {runnable, FALSE}
               /\ stray' = TRUE

\* A build of the server started now serves the reload asked for before it.
BuildServesReload ==
    owed' = IF "reload" \in owed THEN (owed \ {"reload"}) \cup {"fork"} ELSE owed

StrayCompilerEnds ==
    /\ stray
    /\ stray' = FALSE
    /\ runnable' \in BOOLEAN
    /\ UNCHANGED <<pc, pending_action, global_server_pid, child, proc, owed, cause>>

-----------------------------------------------------------------------------
(* Start of core: main, compile_and_update and the first fork.              *)

InstallHandlers ==
    /\ pc = "boot"
    /\ pc' = "build"
    /\ UNCHANGED <<pending_action, global_server_pid, child, proc, runnable, stray, owed, cause>>

CompileAndUpdate ==
    /\ pc = "build"
    /\ pc' = "spawn"
    /\ Built \/ BuildFailed
    /\ BuildServesReload
    /\ UNCHANGED <<pending_action, global_server_pid, child, proc, cause>>

\* fork() in the parent: the child exists, its pid is not stored yet.
Fork(p) ==
    /\ proc[p] = "free"
    /\ proc' = [proc EXCEPT ![p] = "forked"]
    /\ child' = p
    /\ owed' = owed \ {"fork"}

InitialFork ==
    /\ pc = "spawn"
    /\ \E p \in Pid : Fork(p)
    /\ pc' = "store"
    /\ UNCHANGED <<pending_action, global_server_pid, runnable, stray, cause>>

InitialForkFails ==
    /\ pc = "spawn"
    /\ "fork" \in Faults
    /\ pc' = "dead"
    /\ cause' = "fork"
    /\ global_server_pid' = NoPid
    /\ UNCHANGED <<pending_action, child, proc, runnable, stray, owed>>

\* Wrong: the result of fork() is dropped.
StorePidLost ==
    /\ pc = "store"
    /\ child' = NoPid
    /\ pc' = "poll1"
    /\ UNCHANGED <<pending_action, global_server_pid, proc, runnable, stray, owed, cause>>

\* Wrong: the flag is reset when the new server runs.
StorePidThenReset ==
    /\ pc = "store"
    /\ global_server_pid' = child
    /\ child' = NoPid
    /\ pc' = "poll1"
    /\ pending_action' = "0"
    /\ UNCHANGED <<proc, runnable, stray, owed, cause>>

StorePid ==
    /\ pc = "store"
    /\ global_server_pid' = child
    /\ child' = NoPid
    /\ pc' = "poll1"
    /\ UNCHANGED <<pending_action, proc, runnable, stray, owed, cause>>

-----------------------------------------------------------------------------
(* The polling loop.                                                        *)

PollReload ==
    /\ pc = "poll1"
    /\ pc' = IF pending_action = "1" THEN "clear1" ELSE "poll2"
    /\ UNCHANGED <<pending_action, global_server_pid, child, proc, runnable, stray, owed, cause>>

PollRestart ==
    /\ pc = "poll2"
    /\ pc' = IF pending_action = "2" THEN "clear2" ELSE "poll1"
    /\ UNCHANGED <<pending_action, global_server_pid, child, proc, runnable, stray, owed, cause>>

\* The reset wipes whatever a handler stored since the test.
Clear ==
    /\ \/ pc = "clear1" /\ pc' = "make1"
       \/ pc = "clear2" /\ pc' = "make2"
    /\ pending_action' = "0"
    /\ UNCHANGED <<global_server_pid, child, proc, runnable, stray, owed, cause>>

\* safe_compile of the server: its result is only printed.
CompileServer ==
    /\ \/ pc = "make1" /\ pc' = "kill1"
       \/ pc = "make2" /\ pc' = "gcc2"
    /\ Built \/ BuildFailed \/ BuildKilled
    /\ BuildServesReload
    /\ UNCHANGED <<pending_action, global_server_pid, child, proc, cause>>

\* safe_compile of core touches ./core, which the exec fault stands for.
CompileCore ==
    /\ pc = "gcc2"
    /\ pc' = "kill2"
    /\ UNCHANGED <<pending_action, global_server_pid, child, proc, runnable, stray, owed, cause>>

Terminate(p) ==
    proc' = IF p # NoPid /\ proc[p] \in Live THEN [proc EXCEPT ![p] = "stopping"] ELSE proc

\* Wrong: the server is waited for but never told to stop.
KillServerForgotten ==
    /\ \/ pc = "kill1" /\ pc' = IF global_server_pid = NoPid THEN "fork1" ELSE "reap1"
       \/ pc = "kill2" /\ pc' = IF global_server_pid = NoPid THEN "exec" ELSE "reap2"
    /\ UNCHANGED <<pending_action, global_server_pid, child, proc, runnable, stray, owed, cause>>

\* Wrong: core re-executes itself without stopping the server.
KillServerBeforeReloadOnly ==
    /\ \/ pc = "kill1" /\ pc' = (IF global_server_pid = NoPid THEN "fork1" ELSE "reap1")
          /\ Terminate(global_server_pid)
       \/ pc = "kill2" /\ pc' = "exec" /\ UNCHANGED proc
    /\ UNCHANGED <<pending_action, global_server_pid, child, runnable, stray, owed, cause>>

KillServer ==
    /\ \/ pc = "kill1" /\ pc' = IF global_server_pid = NoPid THEN "fork1" ELSE "reap1"
       \/ pc = "kill2" /\ pc' = IF global_server_pid = NoPid THEN "exec" ELSE "reap2"
    /\ Terminate(global_server_pid)
    /\ UNCHANGED <<pending_action, global_server_pid, child, runnable, stray, owed, cause>>

\* Wrong: waitpid with WNOHANG does not wait for the server.
WaitServerNoHang ==
    /\ \/ pc = "reap1" /\ pc' = "fork1"
       \/ pc = "reap2" /\ pc' = "exec"
    /\ proc' = IF proc[global_server_pid] = "zombie"
               THEN [proc EXCEPT ![global_server_pid] = "free"] ELSE proc
    /\ UNCHANGED <<pending_action, global_server_pid, child, runnable, stray, owed, cause>>

\* waitpid blocks until the server is a zombie; the pid stays in the variable.
WaitServer ==
    /\ \/ pc = "reap1" /\ pc' = "fork1"
       \/ pc = "reap2" /\ pc' = "exec"
    /\ proc[global_server_pid] = "zombie"
    /\ proc' = [proc EXCEPT ![global_server_pid] = "free"]
    /\ UNCHANGED <<pending_action, global_server_pid, child, runnable, stray, owed, cause>>

ForkServer ==
    /\ pc = "fork1"
    /\ \E p \in Pid : Fork(p)
    /\ pc' = "store"
    /\ UNCHANGED <<pending_action, global_server_pid, runnable, stray, cause>>

\* Wrong: a failed fork leaves the pid of the server that was waited for.
ForkServerFailsKeepsPid ==
    /\ pc = "fork1"
    /\ "fork" \in Faults
    /\ pc' = "poll1"
    /\ UNCHANGED <<pending_action, global_server_pid, child, proc, runnable, stray, owed, cause>>

\* A failed fork is not retried: the loop goes on with pid -1.
ForkServerFails ==
    /\ pc = "fork1"
    /\ "fork" \in Faults
    /\ global_server_pid' = NoPid
    /\ pc' = "poll1"
    /\ UNCHANGED <<pending_action, child, proc, runnable, stray, owed, cause>>

\* execv("./core"): same process, fresh variables, default signal actions.
ReExec ==
    /\ pc = "exec"
    /\ pc' = "boot"
    /\ pending_action' = "0"
    /\ global_server_pid' = NoPid
    /\ UNCHANGED <<child, proc, runnable, stray, owed, cause>>

ReExecFails ==
    /\ pc = "exec"
    /\ "exec" \in Faults
    /\ pc' = "dead"
    /\ cause' = "exec"
    /\ UNCHANGED <<pending_action, global_server_pid, child, proc, runnable, stray, owed>>

CoreStep ==
    \/ InstallHandlers \/ CompileAndUpdate
    \/ InitialFork \/ InitialForkFails \/ StorePid
    \/ PollReload \/ PollRestart \/ Clear
    \/ CompileServer \/ CompileCore \/ KillServer \/ WaitServer
    \/ ForkServer \/ ForkServerFails \/ ReExec \/ ReExecFails

-----------------------------------------------------------------------------
(* Signals to core.  Before main has installed the handlers SIGUSR1,        *)
(* SIGUSR2 and SIGINT have their default action: they end the process.      *)

Deliver(sig, sender) ==
    /\ pc # "dead"
    /\ IF pc = "boot"
       THEN pc' = "dead" /\ cause' = sender /\ UNCHANGED <<pending_action, owed>>
       ELSE /\ pending_action' = sig
            /\ owed' = IF sig = "1" THEN owed \cup {"reload"} ELSE owed
            /\ UNCHANGED <<pc, cause>>
    /\ UNCHANGED <<global_server_pid, child, proc, runnable, stray>>

\* An administrator runs kill on core's pid.
OperatorSignal ==
    /\ "operator" \in Faults
    /\ \E sig \in {"1", "2"} : Deliver(sig, "operator")

\* A request handler of a running server: kill(getppid(), SIGUSR1 or SIGUSR2).
ServerSignal ==
    /\ \E p \in Pid : proc[p] \in {"up", "stopping"}
    /\ \E sig \in {"1", "2"} : Deliver(sig, "server")

\* cleanup(): ask the server to stop and exit, without waiting for it.
Cleanup ==
    /\ "sigint" \in Faults
    /\ pc # "dead"
    /\ pc' = "dead"
    /\ cause' = "sigint"
    /\ IF pc = "boot" THEN UNCHANGED proc ELSE Terminate(global_server_pid)
    /\ UNCHANGED <<pending_action, global_server_pid, child, runnable, stray, owed>>

-----------------------------------------------------------------------------
(* The server process, as far as core can tell.                             *)

ServerExecs(p) ==
    /\ proc[p] = "forked"
    /\ proc' = [proc EXCEPT ![p] = IF runnable THEN "up" ELSE "zombie"]
    /\ UNCHANGED <<pc, pending_action, global_server_pid, child, runnable, stray, owed, cause>>

ServerTerminates(p) ==
    /\ proc[p] = "stopping"
    /\ proc' = [proc EXCEPT ![p] = "zombie"]
    /\ UNCHANGED <<pc, pending_action, global_server_pid, child, runnable, stray, owed, cause>>

ServerCrashes(p) ==
    /\ "crash" \in Faults
    /\ proc[p] = "up"
    /\ proc' = [proc EXCEPT ![p] = "zombie"]
    /\ UNCHANGED <<pc, pending_action, global_server_pid, child, runnable, stray, owed, cause>>

Next ==
    \/ CoreStep
    \/ StrayCompilerEnds
    \/ OperatorSignal \/ ServerSignal \/ Cleanup
    \/ \E p \in Pid : ServerExecs(p) \/ ServerTerminates(p) \/ ServerCrashes(p)

(***************************************************************************)
(* core never blocks except in waitpid, and the kernel runs a process that *)
(* can run: weak fairness of core, of exec and of the death of a process   *)
(* that was sent SIGTERM (arc_server has no handler for it).  Nothing is   *)
(* promised about signals, crashes or surviving compilers.                 *)
(***************************************************************************)
Fairness ==
    /\ WF_vars(CoreStep)
    /\ \A p \in Pid : WF_vars(ServerExecs(p)) /\ WF_vars(ServerTerminates(p))

Spec == Init /\ [][Next]_vars
FairSpec == Spec /\ Fairness

-----------------------------------------------------------------------------
(* Safety.                                                                  *)

\* There is never more than one arc_server process: the old one is waited
\* for before its successor is forked, across re-executions of core too.
AtMostOneServer == \A p, q \in Servers : p = q

\* Outside the window between fork() and the store of its result, every
\* process core has not waited for is the one in global_server_pid: core
\* never loses track of a server, however signals interleave.
ChildTracked == pc \notin {"store", "dead"} => Children \subseteq {global_server_pid}

\* The loop's own kill and waitpid name an unreaped child of core, never a
\* pid the kernel may have given to another process.
KillsOwnChild ==
    pc \in {"kill1", "reap1", "kill2", "reap2"} /\ global_server_pid # NoPid
        => global_server_pid \in Children

\* Re-execution resets the signal actions, and no request of the server can
\* hit core in that window: only signals from elsewhere end core that way.
ServerNeverKillsCore == cause # "server"

\* Seen from outside, core runs one server after the other: it refines the
\* abstract slot, even after it has died and left a server behind.
Slot == INSTANCE SingleServer WITH running <- Servers
ImplementsSlot == Slot!Spec

(* Liveness. *)

CoreDead == pc = "dead"
\* Only a failed fork leaves the loop polling without a pid.
GaveUp == pc \in {"poll1", "poll2"} /\ global_server_pid = NoPid

\* Signals that alternate for ever between the two tests of the flag, each
\* seen by the test of the other, can keep the loop from serving any.
SignalsEnd == <>[][~(OperatorSignal \/ ServerSignal)]_vars

\* A hot reload asked for is followed by a build that started after it and
\* then by the fork of a server: the early reset of the flag loses none.
ReloadHonoured == SignalsEnd =>
    /\ ("reload" \in owed) ~> ("reload" \notin owed \/ CoreDead)
    /\ ("fork" \in owed) ~> ("fork" \notin owed \/ CoreDead \/ GaveUp)

\* Whenever core has told its server to stop it ends up with a successor,
\* or has died or failed to fork: it never waits for ever.
DowntimeEnds ==
    (pc \in {"reap1", "reap2"}) ~> (pc = "store" \/ CoreDead \/ GaveUp)
=============================================================================
