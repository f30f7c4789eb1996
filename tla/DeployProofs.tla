---------------------------- MODULE DeployProofs ----------------------------
(***************************************************************************)
(* For every set of pids and every set of faults: the safety properties of *)
(* Orchestrator, and that it implements SingleServer.  For every set of    *)
(* requests on top of them: Deploy implements Orchestrator, whose theorems *)
(* therefore hold of it, and what was uploaded is what runs unless the     *)
(* tree changed under a compiler.                                          *)
(***************************************************************************)
EXTENDS Deploy, TLAPS

-----------------------------------------------------------------------------
(* The orchestrator: the strengthenings of its invariants.                 *)

\* One process at most is unreaped at any time.
OneChild == \A p, q \in Children : p = q

\* While core starts, and between waitpid and fork, it has no child at all.
NoChildBetween == pc \in Booting \cup {"fork1"} => Children = {}

\* The pid fork returned is that of a child until it is stored.
ForkedIsChild == pc = "store" => child \in Children

\* The pid the loop holds is that of a child until waitpid returns.
HeldIsChild ==
    /\ pc \in Loop \ {"fork1"} /\ global_server_pid # NoPid
           => global_server_pid \in Children
    /\ pc \in {"reap1", "reap2"} => global_server_pid # NoPid

-----------------------------------------------------------------------------
(* Type correctness.                                                        *)

\* The initial values are well typed.
LEMMA InitType == Init => TypeOK
BY DEF Init, TypeOK, PC, Booting, ProcState

\* Every step of core, of its environment and of the server keeps the types.
LEMMA NextType == TypeOK /\ [Next]_vars => TypeOK'
<1> SUFFICES ASSUME TypeOK, [Next]_vars PROVE TypeOK'
  OBVIOUS
<1> USE DEF TypeOK, PC, Loop, Booting, ProcState
<1>1. CASE InstallHandlers
  BY <1>1 DEF InstallHandlers
<1>2. CASE CompileAndUpdate
  BY <1>2 DEF CompileAndUpdate, BuildServesReload, Built, BuildFailed
<1>3. CASE InitialFork
  BY <1>3 DEF InitialFork, Fork
<1>4. CASE InitialForkFails
  BY <1>4 DEF InitialForkFails
<1>5. CASE StorePid
  BY <1>5 DEF StorePid
<1>6. CASE PollReload
  BY <1>6 DEF PollReload
<1>7. CASE PollRestart
  BY <1>7 DEF PollRestart
<1>8. CASE Clear
  BY <1>8 DEF Clear
<1>9. CASE CompileServer
  BY <1>9 DEF CompileServer, BuildServesReload, Built, BuildFailed, BuildKilled
<1>10. CASE CompileCore
  BY <1>10 DEF CompileCore
<1>11. CASE KillServer
  BY <1>11 DEF KillServer, Terminate, Live
<1>12. CASE WaitServer
  BY <1>12 DEF WaitServer
<1>13. CASE ForkServer
  BY <1>13 DEF ForkServer, Fork
<1>14. CASE ForkServerFails
  BY <1>14 DEF ForkServerFails
<1>15. CASE ReExec
  BY <1>15 DEF ReExec
<1>16. CASE ReExecFails
  BY <1>16 DEF ReExecFails
<1>17. CASE StrayCompilerEnds
  BY <1>17 DEF StrayCompilerEnds
<1>18. CASE OperatorSignal
  <2>1. PICK sig \in {"1", "2"} : Deliver(sig, "operator")
    BY <1>18 DEF OperatorSignal
  <2>2. CASE pc = "boot"
    BY <2>1, <2>2 DEF Deliver
  <2>3. CASE pc # "boot"
    <3>1. owed' \subseteq {"reload", "fork"}
      BY <2>1, <2>3 DEF Deliver
    <3> QED
      BY <2>1, <2>3, <3>1 DEF Deliver
  <2> QED
    BY <2>2, <2>3
<1>19. CASE ServerSignal
  <2>1. PICK sig \in {"1", "2"} : Deliver(sig, "server")
    BY <1>19 DEF ServerSignal
  <2>2. CASE pc = "boot"
    BY <2>1, <2>2 DEF Deliver
  <2>3. CASE pc # "boot"
    <3>1. owed' \subseteq {"reload", "fork"}
      BY <2>1, <2>3 DEF Deliver
    <3> QED
      BY <2>1, <2>3, <3>1 DEF Deliver
  <2> QED
    BY <2>2, <2>3
<1>20. CASE Cleanup
  BY <1>20 DEF Cleanup, Terminate, Live
<1>21. ASSUME NEW p \in Pid, ServerExecs(p) PROVE TypeOK'
  BY <1>21 DEF ServerExecs
<1>22. ASSUME NEW p \in Pid, ServerTerminates(p) PROVE TypeOK'
  BY <1>22 DEF ServerTerminates
<1>23. ASSUME NEW p \in Pid, ServerCrashes(p) PROVE TypeOK'
  BY <1>23 DEF ServerCrashes
<1>24. CASE UNCHANGED vars
  BY <1>24 DEF vars
<1> QED
  BY <1>1, <1>2, <1>3, <1>4, <1>5, <1>6, <1>7, <1>8, <1>9, <1>10, <1>11, <1>12,
     <1>13, <1>14, <1>15, <1>16, <1>17, <1>18, <1>19, <1>20, <1>21, <1>22, <1>23, <1>24
     DEF Next, CoreStep

\* Every variable keeps its type, whatever the environment does.
THEOREM TypeCorrect == Spec => []TypeOK
<1>1. Init => TypeOK
  BY InitType
<1>2. TypeOK /\ [Next]_vars => TypeOK'
  BY NextType
<1> QED
  BY <1>1, <1>2, PTL DEF Spec

-----------------------------------------------------------------------------
(* The inductive invariant.  Its parts lean on each other: a second child   *)
(* cannot be forked because there is none between waitpid and fork, that    *)
(* holds because the pid waited for was the only child, and that is what    *)
(* ChildTracked says of the pid the loop holds.                             *)

\* The parts of the invariant about processes, without the types.
Tracking ==
    /\ OneChild
    /\ NoChildBetween
    /\ ForkedIsChild
    /\ ChildTracked
    /\ HeldIsChild
    /\ ServerNeverKillsCore

\* Before main runs there is no child.
LEMMA InitTracking == Init => Tracking
BY DEF Init, Tracking, OneChild, NoChildBetween, ForkedIsChild, ChildTracked,
       HeldIsChild, ServerNeverKillsCore, Children, Loop, Booting

\* No step makes core lose or confuse a child.
LEMMA NextTracking == TypeOK /\ Tracking /\ [Next]_vars => Tracking'
<1> SUFFICES ASSUME TypeOK, Tracking, [Next]_vars PROVE Tracking'
  OBVIOUS
<1> USE PidAssumption
    DEF TypeOK, Tracking, OneChild, NoChildBetween, ForkedIsChild, ChildTracked,
        HeldIsChild, ServerNeverKillsCore, Children, PC, Loop, Booting, ProcState
<1>1. CASE InstallHandlers
  BY <1>1 DEF InstallHandlers
<1>2. CASE CompileAndUpdate
  BY <1>2 DEF CompileAndUpdate, BuildServesReload, Built, BuildFailed
<1>3. CASE InitialFork
  BY <1>3 DEF InitialFork, Fork
<1>4. CASE InitialForkFails
  BY <1>4 DEF InitialForkFails
<1>5. CASE StorePid
  BY <1>5 DEF StorePid
<1>6. CASE PollReload
  BY <1>6 DEF PollReload
<1>7. CASE PollRestart
  BY <1>7 DEF PollRestart
<1>8. CASE Clear
  BY <1>8 DEF Clear
<1>9. CASE CompileServer
  BY <1>9 DEF CompileServer, BuildServesReload, Built, BuildFailed, BuildKilled
<1>10. CASE CompileCore
  BY <1>10 DEF CompileCore
<1>11. CASE KillServer
  BY <1>11 DEF KillServer, Terminate, Live
<1>12. CASE WaitServer
  BY <1>12 DEF WaitServer
<1>13. CASE ForkServer
  BY <1>13 DEF ForkServer, Fork
<1>14. CASE ForkServerFails
  BY <1>14 DEF ForkServerFails
<1>15. CASE ReExec
  BY <1>15 DEF ReExec
<1>16. CASE ReExecFails
  BY <1>16 DEF ReExecFails
<1>17. CASE StrayCompilerEnds
  BY <1>17 DEF StrayCompilerEnds
<1>18. CASE OperatorSignal
  BY <1>18 DEF OperatorSignal, Deliver
<1>19. CASE ServerSignal
  <2>1. PICK p \in Pid : proc[p] \in {"up", "stopping"}
    BY <1>19 DEF ServerSignal
  <2>2. p \in Children
    BY <2>1
  <2>3. pc # "boot"
    BY <2>2
  <2> QED
    BY <1>19, <2>3 DEF ServerSignal, Deliver
<1>20. CASE Cleanup
  BY <1>20 DEF Cleanup, Terminate, Live
<1>21. ASSUME NEW p \in Pid, ServerExecs(p) PROVE Tracking'
  BY <1>21 DEF ServerExecs
<1>22. ASSUME NEW p \in Pid, ServerTerminates(p) PROVE Tracking'
  BY <1>22 DEF ServerTerminates
<1>23. ASSUME NEW p \in Pid, ServerCrashes(p) PROVE Tracking'
  BY <1>23 DEF ServerCrashes
<1>24. CASE UNCHANGED vars
  BY <1>24 DEF vars
<1> QED
  BY <1>1, <1>2, <1>3, <1>4, <1>5, <1>6, <1>7, <1>8, <1>9, <1>10, <1>11, <1>12,
     <1>13, <1>14, <1>15, <1>16, <1>17, <1>18, <1>19, <1>20, <1>21, <1>22, <1>23, <1>24
     DEF Next, CoreStep

\* The invariant holds in every reachable state.
LEMMA Invariant == Spec => [](TypeOK /\ Tracking)
<1>1. Init => TypeOK /\ Tracking
  BY InitType, InitTracking
<1>2. TypeOK /\ Tracking /\ [Next]_vars => (TypeOK /\ Tracking)'
  BY NextType, NextTracking
<1> QED
  BY <1>1, <1>2, PTL DEF Spec

-----------------------------------------------------------------------------
(* What follows from it.                                                    *)

\* There is never more than one arc_server process: program() waits for the
\* old one before it forks its successor.
THEOREM OneServer == Spec => []AtMostOneServer
<1>1. Tracking => AtMostOneServer
  BY DEF Tracking, OneChild, AtMostOneServer, Servers, Children, Live
<1> QED
  BY <1>1, Invariant, PTL

\* Outside the window between fork and the store of its result core knows
\* the pid of every process it has not waited for.
THEOREM NoServerLost == Spec => []ChildTracked
<1>1. Tracking => ChildTracked
  BY DEF Tracking
<1> QED
  BY <1>1, Invariant, PTL

\* kill and waitpid in the loop of program() name a child of core.
THEOREM KillsOnlyItsChild == Spec => []KillsOwnChild
<1>1. Tracking => KillsOwnChild
  BY DEF Tracking, HeldIsChild, KillsOwnChild, Loop
<1> QED
  BY <1>1, Invariant, PTL

\* No restart request of the server ends core, not even while a re-executed
\* core has not installed its handlers yet.
THEOREM RestartRequestsAreSafe == Spec => []ServerNeverKillsCore
<1>1. Tracking => ServerNeverKillsCore
  BY DEF Tracking
<1> QED
  BY <1>1, Invariant, PTL

-----------------------------------------------------------------------------
(* Refinement of SingleServer.  A fork is Start: it happens where there is  *)
(* no child.  A server that ends is Stop: there is no other.  Every other   *)
(* step leaves the set of running servers alone.                            *)

\* Initially no server runs.
LEMMA InitRefines == Init => Slot!Init
BY DEF Init, Slot!Init, Servers, Live

\* A fork where core has no child starts the only server.
LEMMA ForkStarts ==
    ASSUME TypeOK, Children = {}, NEW p \in Pid, Fork(p)
    PROVE  Slot!Start
<1>1. Servers = {}
  BY DEF Servers, Children, Live
<1>2. Servers' = {p}
  BY <1>1 DEF TypeOK, Fork, Servers, Live
<1> QED
  BY <1>1, <1>2 DEF Slot!Start

\* When a running process becomes a zombie no server is left.
LEMMA EndStops ==
    ASSUME TypeOK, OneChild, NEW p \in Pid, proc[p] \in Live,
           proc' = [proc EXCEPT ![p] = "zombie"]
    PROVE  Slot!Stop
<1>1. Servers = {p}
  BY DEF OneChild, Servers, Children, Live
<1>2. Servers' = {}
  BY <1>1 DEF TypeOK, Servers, Live
<1> QED
  BY <1>1, <1>2 DEF Slot!Stop

\* SIGTERM does not end a process at once.
LEMMA TerminateKeeps ==
    ASSUME TypeOK, NEW p \in Pid \cup {NoPid}, Terminate(p)
    PROVE  Servers' = Servers
BY PidAssumption DEF TypeOK, Terminate, Servers, Live

\* Every step of the orchestrator is one of the slot or leaves it alone.
LEMMA NextRefines == TypeOK /\ Tracking /\ [Next]_vars => [Slot!Next]_Servers
<1> SUFFICES ASSUME TypeOK, Tracking, [Next]_vars PROVE [Slot!Next]_Servers
  OBVIOUS
<1>1. ASSUME UNCHANGED proc PROVE UNCHANGED Servers
  BY <1>1 DEF Servers
<1>2. CASE InstallHandlers \/ CompileAndUpdate \/ InitialForkFails \/ StorePid
  BY <1>1, <1>2 DEF InstallHandlers, CompileAndUpdate, InitialForkFails, StorePid
<1>3. CASE PollReload \/ PollRestart \/ Clear \/ CompileServer \/ CompileCore
  BY <1>1, <1>3 DEF PollReload, PollRestart, Clear, CompileServer, CompileCore
<1>4. CASE ForkServerFails \/ ReExec \/ ReExecFails \/ StrayCompilerEnds
  BY <1>1, <1>4 DEF ForkServerFails, ReExec, ReExecFails, StrayCompilerEnds
<1>5. CASE OperatorSignal \/ ServerSignal
  BY <1>1, <1>5 DEF OperatorSignal, ServerSignal, Deliver
<1>6. CASE InitialFork \/ ForkServer
  <2>1. Children = {}
    BY <1>6 DEF InitialFork, ForkServer, Tracking, NoChildBetween, Booting
  <2>2. PICK p \in Pid : Fork(p)
    BY <1>6 DEF InitialFork, ForkServer
  <2> QED
    BY <2>1, <2>2, ForkStarts DEF Slot!Next
<1>7. CASE KillServer
  BY <1>7, TerminateKeeps DEF KillServer, TypeOK
<1>8. CASE Cleanup
  <2>1. CASE UNCHANGED proc
    BY <1>1, <2>1
  <2>2. CASE Terminate(global_server_pid)
    BY <2>2, TerminateKeeps DEF TypeOK
  <2> QED
    BY <1>8, <2>1, <2>2 DEF Cleanup
<1>9. CASE WaitServer
  <2>1. global_server_pid \in Pid
    BY <1>9 DEF WaitServer, TypeOK, Tracking, HeldIsChild
  <2> QED
    BY <1>9, <2>1 DEF WaitServer, Servers, Live, TypeOK
<1>10. ASSUME NEW p \in Pid, ServerExecs(p) PROVE [Slot!Next]_Servers
  <2>1. CASE runnable
    BY <1>10, <2>1 DEF ServerExecs, Servers, Live, TypeOK
  <2>2. CASE ~runnable
    BY <1>10, <2>2, EndStops DEF ServerExecs, Live, Slot!Next, Tracking
  <2> QED
    BY <2>1, <2>2
<1>11. ASSUME NEW p \in Pid, ServerTerminates(p) \/ ServerCrashes(p)
       PROVE  [Slot!Next]_Servers
  BY <1>11, EndStops DEF ServerTerminates, ServerCrashes, Live, Slot!Next, Tracking
<1>12. CASE UNCHANGED vars
  BY <1>1, <1>12 DEF vars
<1> QED
  BY <1>2, <1>3, <1>4, <1>5, <1>6, <1>7, <1>8, <1>9, <1>10, <1>11, <1>12
     DEF Next, CoreStep

\* The orchestrator implements the abstract slot: one server after the other.
THEOREM Refinement == Spec => ImplementsSlot
<1>1. Init => Slot!Init
  BY InitRefines
<1>2. TypeOK /\ Tracking /\ [Next]_vars => [Slot!Next]_Servers
  BY NextRefines
<1> QED
  BY <1>1, <1>2, Invariant, PTL DEF Spec, ImplementsSlot, Slot!Spec

-----------------------------------------------------------------------------
(* The deployment.                                                          *)

\* make finds nothing to compile only where an object is.
ObjectThere == seen = UpToDate => object # None

\* The thread of a request runs in a server process.
Threads == \A r \in Request : at[r] \in Busy =>
    home[r] \in Pid /\ proc[home[r]] \in {"up", "stopping"}

DeployTyped == DeployTypeOK /\ ObjectThere /\ Threads

-----------------------------------------------------------------------------
(* Type correctness.                                                        *)

\* The initial values of the deployment are well typed.
LEMMA DeployInitType == DeployInit => DeployTyped
BY ContentsDiffer
   DEF DeployInit, Init, DeployTyped, DeployTypeOK, ObjectThere, Threads, Code, NoJob, Busy, Writing, UpToDate

\* What a compiler leaves, and what is linked from it, is code or half a file.
LEMMA CompiledType ==
    ASSUME DeployTyped, CompileWorks
    PROVE  Compiled \in Code \cup {Torn}
BY ContentsDiffer
   DEF DeployTyped, DeployTypeOK, ObjectThere, Compiled, Compiling, CompileWorks, Good, Code, UpToDate

\* core's own steps leave compilers alone, except where they end a build.
LEMMA OtherCoreStepKeepsStray == OtherCoreStep => UNCHANGED <<stray, deployVars>>
BY DEF OtherCoreStep, InstallHandlers, InitialFork, InitialForkFails, StorePid, PollReload,
   PollRestart, Clear, CompileCore, KillServer, WaitServer, ForkServer, ForkServerFails, ReExec,
   ReExecFails

\* Every step of the builds, the requests and the processes keeps the types.
LEMMA DeployNextType ==
    DeployTyped /\ [DeployNext]_allVars => DeployTypeOK' /\ ObjectThere'
<1> SUFFICES ASSUME DeployTyped, [DeployNext]_allVars PROVE DeployTypeOK' /\ ObjectThere'
  OBVIOUS
<1> USE DEF DeployTyped, DeployTypeOK, ObjectThere, tree, requests
<1>1. CASE MakeStarts
  BY <1>1, ContentsDiffer DEF MakeStarts, vars, UpToDate, Code
<1>2. CASE MakeFails
  BY <1>2, ContentsDiffer DEF MakeFails, UpToDate
<1>3. CASE MakeEnds
  <2>1. Compiled \in Code \cup {Torn}
    BY <1>3, CompiledType DEF MakeEnds
  <2> QED
    BY <1>3, <2>1, ContentsDiffer DEF MakeEnds, LinkFrom, UpToDate, Code
<1>4. CASE MakeKilled
  <2>1. Compiling => [writes |-> "object", from |-> seen] \in Job
    BY DEF Compiling, Job
  <2>2. CompileWorks => [writes |-> "program", from |-> Compiled] \in Job
    BY CompiledType DEF Job
  <2>3. left' \in Job /\ left' # NoJob
    BY <1>4, <2>1, <2>2 DEF MakeKilled, NoJob
  <2>4. object' \in Code \cup {Torn, None} /\ {fresh, linked, disturbed}' \subseteq BOOLEAN
    BY <1>4, CompiledType DEF MakeKilled
  <2>5. binary' \in Code \cup {None} /\ UNCHANGED <<file, runs, at, home, mode, promised>>
    BY <1>4 DEF MakeKilled
  <2>6. seen' = None /\ stray' = TRUE
    BY <1>4 DEF MakeKilled
  <2> QED
    BY <2>3, <2>4, <2>5, <2>6, ContentsDiffer DEF UpToDate
<1>5. CASE StrayWrites
  <2>1. left.writes \in {"object", "program"} => left.from \in Code \cup {Torn}
    BY DEF Job, NoJob
  <2> QED
    BY <1>5, <2>1, ContentsDiffer DEF StrayWrites, StrayCompilerEnds, LinkFrom, Code
<1>6. ASSUME NEW r \in Request, NEW p \in Pid, UploadOpens(r, p) PROVE DeployTypeOK' /\ ObjectThere'
  BY <1>6 DEF UploadOpens, Accept, Disturb, Busy, Writing, vars
<1>7. ASSUME NEW r \in Request, UploadEnds(r) PROVE DeployTypeOK' /\ ObjectThere'
  BY <1>7 DEF UploadEnds, Disturb, Busy, Code, vars
<1>8. ASSUME NEW r \in Request, LostUploadEnds(r) PROVE DeployTypeOK' /\ ObjectThere'
  BY <1>8 DEF LostUploadEnds, Busy, vars
<1>17. ASSUME NEW r \in Request, UploadRefused(r) PROVE DeployTypeOK' /\ ObjectThere'
  BY <1>17 DEF UploadRefused, Disturb, Busy, vars
<1>9. ASSUME NEW r \in Request, NEW p \in Pid, DeleteFile(r, p) PROVE DeployTypeOK' /\ ObjectThere'
  BY <1>9 DEF DeleteFile, Accept, Disturb, Busy, vars
<1>10. ASSUME NEW r \in Request, NEW p \in Pid, DeleteFails(r, p) \/ AnswerRestart(r, p)
       PROVE  DeployTypeOK' /\ ObjectThere'
  BY <1>10 DEF DeleteFails, AnswerRestart, Accept, Busy, vars
<1>11. ASSUME NEW r \in Request, Signal(r) PROVE DeployTypeOK' /\ ObjectThere'
  BY <1>11 DEF Signal, Over, Deliver, vars
<1>12. ASSUME NEW p \in Pid, Load(p) PROVE DeployTypeOK' /\ ObjectThere'
  BY <1>12 DEF Load, ServerExecs
<1>13. ASSUME NEW p \in Pid, Ends(p) PROVE DeployTypeOK' /\ ObjectThere'
  BY <1>13 DEF Ends, Over, ServerTerminates, ServerCrashes
<1>14. CASE OtherCoreStep
  BY <1>14, OtherCoreStepKeepsStray DEF deployVars
<1>15. CASE FromOutside
  BY <1>15 DEF FromOutside, OperatorSignal, Deliver, Cleanup, deployVars
<1>16. CASE UNCHANGED allVars
  BY <1>16 DEF allVars, deployVars, vars
<1> QED
  BY <1>1, <1>2, <1>3, <1>4, <1>5, <1>6, <1>7, <1>8, <1>9, <1>10, <1>11, <1>12, <1>13, <1>14,
     <1>15, <1>16, <1>17 DEF DeployNext, BuildStep, RequestStep

\* A server that serves requests leaves that state only by ending.
LEMMA CoreKeepsServers ==
    ASSUME TypeOK, OtherCoreStep \/ FromOutside \/ CompileServer \/ CompileAndUpdate \/ StrayCompilerEnds,
           NEW p \in Pid, proc[p] \in {"up", "stopping"}
    PROVE  proc'[p] \in {"up", "stopping"}
<1>1. CASE InstallHandlers \/ InitialForkFails \/ StorePid \/ PollReload \/ PollRestart \/ Clear
  BY <1>1 DEF InstallHandlers, InitialForkFails, StorePid, PollReload, PollRestart, Clear
<1>2. CASE CompileCore \/ ForkServerFails \/ ReExec \/ ReExecFails \/ OperatorSignal
  BY <1>2 DEF CompileCore, ForkServerFails, ReExec, ReExecFails, OperatorSignal, Deliver
<1>3. CASE CompileServer \/ CompileAndUpdate \/ StrayCompilerEnds
  BY <1>3 DEF CompileServer, CompileAndUpdate, StrayCompilerEnds
<1>4. CASE InitialFork \/ ForkServer
  BY <1>4 DEF InitialFork, ForkServer, Fork, TypeOK
<1>5. CASE KillServer \/ Cleanup
  BY <1>5 DEF KillServer, Cleanup, Terminate, TypeOK
<1>6. CASE WaitServer
  BY <1>6 DEF WaitServer, TypeOK
<1> QED
  BY <1>1, <1>2, <1>3, <1>4, <1>5, <1>6 DEF OtherCoreStep, FromOutside

\* No process ends or is replaced under a thread: threads end with it.
LEMMA NextThreads ==
    TypeOK /\ DeployTyped /\ [DeployNext]_allVars => Threads'
<1> SUFFICES ASSUME TypeOK, DeployTyped, [DeployNext]_allVars PROVE Threads'
  OBVIOUS
<1> USE DEF DeployTyped, Threads
<1>1. CASE UNCHANGED requests /\ (OtherCoreStep \/ FromOutside \/ CompileServer
                                  \/ CompileAndUpdate \/ StrayCompilerEnds)
  BY <1>1, CoreKeepsServers DEF requests
<1>2. CASE MakeStarts
  BY <1>2 DEF MakeStarts, vars, requests
<1>3. CASE MakeFails \/ MakeEnds \/ MakeKilled \/ StrayWrites
  BY <1>1, <1>3 DEF MakeFails, MakeEnds, MakeKilled, StrayWrites
<1>4. ASSUME NEW r \in Request, NEW p \in Pid,
             UploadOpens(r, p) \/ DeleteFile(r, p) \/ DeleteFails(r, p) \/ AnswerRestart(r, p)
      PROVE  Threads'
  BY <1>4 DEF UploadOpens, DeleteFile, DeleteFails, AnswerRestart, Accept, Busy, Writing, vars, DeployTypeOK
<1>5. ASSUME NEW r \in Request, UploadEnds(r) \/ UploadRefused(r) \/ LostUploadEnds(r) PROVE Threads'
  BY <1>5 DEF UploadEnds, UploadRefused, LostUploadEnds, Busy, Writing, vars, DeployTypeOK
<1>6. ASSUME NEW r \in Request, Signal(r) PROVE Threads'
  BY <1>6 DEF Signal, Over, Deliver, Busy, Writing, vars, DeployTypeOK
<1>7. ASSUME NEW p \in Pid, Load(p) PROVE Threads'
  BY <1>7 DEF Load, ServerExecs, requests, TypeOK
<1>8. ASSUME NEW p \in Pid, Ends(p) PROVE Threads'
  BY <1>8 DEF Ends, Over, ServerTerminates, ServerCrashes, Busy, Writing, TypeOK, DeployTypeOK
<1>9. CASE OtherCoreStep \/ FromOutside
  BY <1>1, <1>9 DEF OtherCoreStep, FromOutside, deployVars
<1>10. CASE UNCHANGED allVars
  BY <1>10 DEF allVars, deployVars, requests, vars
<1> QED
  BY <1>2, <1>3, <1>4, <1>5, <1>6, <1>7, <1>8, <1>9, <1>10 DEF DeployNext, BuildStep, RequestStep

-----------------------------------------------------------------------------
(* Refinement: what Deploy adds to Orchestrator decides which of its steps  *)
(* happen and never makes one up.                                           *)

\* Every step of the deployment is one of Orchestrator or changes nothing there.
LEMMA DeployNextRefines == Threads /\ [DeployNext]_allVars => [Next]_vars
<1> SUFFICES ASSUME Threads, [DeployNext]_allVars PROVE [Next]_vars
  OBVIOUS
<1>1. CASE BuildStep
  BY <1>1 DEF BuildStep, MakeStarts, MakeFails, MakeEnds, MakeKilled, Next, CoreStep
<1>2. CASE StrayWrites
  BY <1>2 DEF StrayWrites, Next
<1>3. ASSUME NEW r \in Request, NEW p \in Pid,
             UploadOpens(r, p) \/ DeleteFile(r, p) \/ DeleteFails(r, p) \/ AnswerRestart(r, p)
      PROVE  UNCHANGED vars
  BY <1>3 DEF UploadOpens, DeleteFile, DeleteFails, AnswerRestart
<1>4. ASSUME NEW r \in Request, UploadEnds(r) \/ UploadRefused(r) \/ LostUploadEnds(r)
      PROVE  UNCHANGED vars
  BY <1>4 DEF UploadEnds, UploadRefused, LostUploadEnds
<1>5. ASSUME NEW r \in Request, Signal(r) PROVE [Next]_vars
  <2>1. proc[home[r]] \in {"up", "stopping"} /\ home[r] \in Pid
    BY <1>5 DEF Signal, Threads, Busy
  <2>2. Sig(mode[r]) \in {"1", "2"}
    BY DEF Sig
  <2> QED
    BY <1>5, <2>1, <2>2 DEF Signal, ServerSignal, Next
<1>6. ASSUME NEW p \in Pid, Load(p) \/ Ends(p) PROVE [Next]_vars
  BY <1>6 DEF Load, Ends, Next
<1>7. CASE OtherCoreStep \/ FromOutside
  BY <1>7 DEF OtherCoreStep, FromOutside, Next, CoreStep
<1>8. CASE UNCHANGED allVars
  BY <1>8 DEF allVars
<1> QED
  BY <1>1, <1>2, <1>3, <1>4, <1>5, <1>6, <1>7, <1>8 DEF DeployNext, RequestStep

\* The deployment is typed in every reachable state, and implements Orchestrator.
LEMMA DeployInvariant == DeploySpec => []DeployTyped /\ Spec
<1>1. DeployInit => TypeOK /\ DeployTyped /\ Init
  BY DeployInitType, InitType DEF DeployInit
<1>2. TypeOK /\ DeployTyped /\ [DeployNext]_allVars => (TypeOK /\ DeployTyped)' /\ [Next]_vars
  BY DeployNextType, NextThreads, DeployNextRefines, NextType DEF DeployTyped
<1> QED
  BY <1>1, <1>2, PTL DEF DeploySpec, Spec

\* The state of the handlers, of make and of the source tree keeps its type,
\* and a compiler outlives its make exactly while it has something to write.
THEOREM DeployTypeCorrect == DeploySpec => []DeployTypeOK
<1>1. DeployTyped => DeployTypeOK
  BY DEF DeployTyped
<1> QED
  BY <1>1, DeployInvariant, PTL

\* The handlers and make leave core's program as Orchestrator has it.
THEOREM DeployRefinement == DeploySpec => ImplementsOrchestrator
BY DeployInvariant, PTL DEF ImplementsOrchestrator

\* So there is one server at most while code is uploaded, built and reloaded.
THEOREM DeployOneServer == DeploySpec => []AtMostOneServer
BY DeployInvariant, OneServer, PTL

-----------------------------------------------------------------------------
(* What was uploaded is what runs.  The argument follows a content on its   *)
(* way: while nothing is disturbed the time stamps mean what make takes     *)
(* them for (TreeInOrder); contents come into the tree once (NotYetThere);  *)
(* a promised content is in the program unless a build is due, and a build  *)
(* that is under way without a new request is not going to miss it          *)
(* (PromiseKept); and core starts a server after each build (Loaded).       *)

TreeInOrder ==
    /\ left = NoJob
    /\ Compiling => seen = file
    /\ fresh /\ file # Gone => object \in {file, None}
    /\ linked => binary = object
    /\ object \in Code => runnable

NotYetThere == \A r \in Upload :
    at[r] \in {"new"} \cup Writing => file # r /\ promised # r

\* Between two builds nothing is read.
NothingRead == pc \notin {"build", "make1", "make2", "dead"} => seen = None

\* Core is going to start a build.
BuildDue == \/ pending_action # "0"
            \/ pc \notin {"spawn", "store", "poll1", "poll2", "kill1", "reap1", "fork1"}

PromiseKept == Promised =>
    /\ ~BuildDue => linked /\ object = file
    /\ pending_action = "0" /\ Building /\ seen \in {UpToDate, Gone}
           => seen = UpToDate /\ fresh /\ object = file

Loaded == pc \in {"store", "poll1", "poll2"} =>
    \A p \in Pid : proc[p] = "up" => runs[p] = binary

InOrder == ~disturbed => TreeInOrder /\ PromiseKept /\ Loaded
DeployInv == NotYetThere /\ NothingRead /\ InOrder

\* The invariant holds of a tree in which nothing was uploaded yet.
LEMMA InitInv == DeployInit => DeployInv
BY ContentsDiffer
   DEF DeployInit, Init, DeployInv, NotYetThere, NothingRead, InOrder, TreeInOrder, PromiseKept,
       BuildDue, Promised, Loaded, Compiling, Code, Building, UpToDate, Writing

\* No other step of core touches the program.
LEMMA OtherStepsKeepProgram ==
    OtherCoreStep \/ FromOutside => UNCHANGED <<runnable, deployVars>>
BY DEF OtherCoreStep, FromOutside, InstallHandlers, InitialFork, InitialForkFails, StorePid,
   PollReload, PollRestart, Clear, CompileCore, KillServer, WaitServer, ForkServer, ForkServerFails,
   ReExec, ReExecFails, OperatorSignal, Deliver, Cleanup

\* The history of a disturbance never ends.
LEMMA DisturbedStays == DeployTypeOK /\ [DeployNext]_allVars /\ ~disturbed' => ~disturbed
<1> SUFFICES ASSUME DeployTypeOK, [DeployNext]_allVars, ~disturbed' PROVE ~disturbed
  OBVIOUS
<1>1. CASE BuildStep \/ StrayWrites
  BY <1>1 DEF BuildStep, MakeStarts, MakeFails, MakeEnds, MakeKilled, StrayWrites
<1>2. CASE RequestStep
  BY <1>2 DEF RequestStep, UploadOpens, DeleteFile, DeleteFails, AnswerRestart, UploadEnds,
     UploadRefused, LostUploadEnds, Signal, Disturb
<1>3. CASE OtherCoreStep \/ FromOutside
  BY <1>3, OtherStepsKeepProgram DEF deployVars
<1>4. ASSUME NEW p \in Pid, Load(p) \/ Ends(p) PROVE ~disturbed
  BY <1>4 DEF Load, Ends
<1>5. CASE UNCHANGED allVars
  BY <1>5 DEF allVars, deployVars
<1> QED
  BY <1>1, <1>2, <1>3, <1>4, <1>5 DEF DeployNext

\* A content that has not been written yet is nowhere in the tree.
LEMMA NextNotYetThere ==
    DeployTypeOK /\ NotYetThere /\ [DeployNext]_allVars => NotYetThere'
<1> SUFFICES ASSUME DeployTypeOK, NotYetThere, [DeployNext]_allVars PROVE NotYetThere'
  OBVIOUS
<1> USE DEF NotYetThere, DeployTypeOK
<1>1. CASE BuildStep \/ StrayWrites
  BY <1>1 DEF BuildStep, MakeStarts, MakeFails, MakeEnds, MakeKilled, StrayWrites, tree, requests
<1>2. ASSUME NEW r \in Request, NEW p \in Pid, UploadOpens(r, p) PROVE NotYetThere'
  BY <1>2, ContentsDiffer DEF UploadOpens, Accept, Request, Writing
<1>3. ASSUME NEW r \in Request, UploadEnds(r) PROVE NotYetThere'
  BY <1>3, ContentsDiffer DEF UploadEnds, Request, Writing
<1>4. ASSUME NEW r \in Request, NEW p \in Pid,
             DeleteFile(r, p) \/ DeleteFails(r, p) \/ AnswerRestart(r, p)
      PROVE  NotYetThere'
  BY <1>4, ContentsDiffer, KindsDisjoint
     DEF DeleteFile, DeleteFails, AnswerRestart, Accept, Request, Writing, tree
<1>5. ASSUME NEW r \in Request, LostUploadEnds(r) \/ UploadRefused(r) \/ Signal(r)
      PROVE  NotYetThere'
  BY <1>5, ContentsDiffer DEF LostUploadEnds, UploadRefused, Signal, Over, Writing, Request, tree
<1>6. ASSUME NEW p \in Pid, Load(p) \/ Ends(p) PROVE NotYetThere'
  BY <1>6 DEF Load, Ends, Over, Writing, Request, tree, requests
<1>7. CASE OtherCoreStep \/ FromOutside
  BY <1>7, OtherStepsKeepProgram DEF deployVars, tree, requests
<1>8. CASE UNCHANGED allVars
  BY <1>8 DEF allVars, deployVars, tree, requests
<1> QED
  BY <1>1, <1>2, <1>3, <1>4, <1>5, <1>6, <1>7, <1>8 DEF DeployNext, RequestStep

\* A build forgets what it read when core goes on.
LEMMA NextNothingRead ==
    DeployTypeOK /\ NothingRead /\ [DeployNext]_allVars => NothingRead'
<1> SUFFICES ASSUME DeployTypeOK, NothingRead, [DeployNext]_allVars PROVE NothingRead'
  OBVIOUS
<1> USE DEF NothingRead
<1>1. CASE MakeStarts
  BY <1>1 DEF MakeStarts, Building, vars
<1>2. CASE MakeFails \/ MakeEnds \/ MakeKilled
  BY <1>2 DEF MakeFails, MakeEnds, MakeKilled
<1>3. CASE StrayWrites
  BY <1>3 DEF StrayWrites, StrayCompilerEnds
<1>4. CASE RequestStep
  BY <1>4 DEF RequestStep, UploadOpens, DeleteFile, DeleteFails, AnswerRestart, UploadEnds,
     UploadRefused, LostUploadEnds, Signal, Deliver, vars
<1>5. ASSUME NEW p \in Pid, Load(p) \/ Ends(p) PROVE NothingRead'
  BY <1>5 DEF Load, Ends, ServerExecs, ServerTerminates, ServerCrashes
<1>6. CASE OtherCoreStep
  BY <1>6 DEF OtherCoreStep, deployVars, InstallHandlers, InitialFork, InitialForkFails, StorePid,
     PollReload, PollRestart, Clear, CompileCore, KillServer, WaitServer, ForkServer,
     ForkServerFails, ReExec, ReExecFails
<1>7. CASE FromOutside
  BY <1>7 DEF FromOutside, deployVars, OperatorSignal, Deliver, Cleanup
<1>8. CASE UNCHANGED allVars
  BY <1>8 DEF allVars, deployVars, vars
<1> QED
  BY <1>1, <1>2, <1>3, <1>4, <1>5, <1>6, <1>7, <1>8 DEF DeployNext, BuildStep

\* A build that is not disturbed compiles and links the file there is.
LEMMA BuildsKeepOrder ==
    ASSUME DeployTyped, TreeInOrder, MakeStarts \/ MakeFails \/ MakeEnds
    PROVE  TreeInOrder'
<1> USE DEF DeployTyped, DeployTypeOK, TreeInOrder, Compiling, Code, UpToDate
<1>1. CASE MakeStarts
  BY <1>1, ContentsDiffer DEF MakeStarts, vars, tree
<1>2. CASE MakeFails
  BY <1>2, ContentsDiffer DEF MakeFails, tree
<1>3. CASE MakeEnds
  <2>1. Compiled \in Code \cup {Torn}
    BY <1>3, CompiledType DEF MakeEnds
  <2>2. left' = NoJob /\ seen' = None /\ object' = Compiled
    BY <1>3 DEF MakeEnds
  <2>3. Compiling => Compiled = file
    BY DEF Compiled
  <2>4. ~Compiling => Compiled = object
    BY DEF Compiled
  <2>5. fresh' /\ file' # Gone => object' \in {file', None}
    BY <1>3, <2>2, <2>3, <2>4 DEF MakeEnds
  <2>6. CASE MustLink
    BY <1>3, <2>1, <2>2, <2>5, <2>6, ContentsDiffer DEF MakeEnds, LinkFrom
  <2>7. CASE ~MustLink
    BY <1>3, <2>1, <2>2, <2>4, <2>5, <2>7, ContentsDiffer DEF MakeEnds, MustLink
  <2> QED
    BY <2>6, <2>7
<1> QED
  BY <1>1, <1>2, <1>3

\* Nothing that TreeInOrder speaks of has changed.
LEMMA TreeUnchanged ==
    ASSUME TreeInOrder, UNCHANGED <<file, object, fresh, binary, linked, runnable, seen, left>>
    PROVE  TreeInOrder'
BY DEF TreeInOrder, Compiling

\* The time stamps keep their meaning while nothing is disturbed.
LEMMA NextTreeInOrder ==
    ASSUME DeployTyped, TreeInOrder, [DeployNext]_allVars, ~disturbed'
    PROVE  TreeInOrder'
<1>1. CASE MakeStarts \/ MakeFails \/ MakeEnds
  BY <1>1, BuildsKeepOrder
<1>2. CASE MakeKilled
  BY <1>2 DEF MakeKilled
<1>3. CASE StrayWrites
  BY <1>3 DEF StrayWrites, TreeInOrder, NoJob
<1>4. CASE RequestStep
  <2>1. UNCHANGED <<runnable, object, binary, linked, seen, left>>
    BY <1>4 DEF RequestStep, UploadOpens, DeleteFile, DeleteFails, AnswerRestart, UploadEnds,
       UploadRefused, LostUploadEnds, Signal, Deliver, vars, tree
  <2>2. UNCHANGED <<file, fresh>> \/ ~Compiling
    BY <1>4 DEF RequestStep, UploadOpens, DeleteFile, DeleteFails, AnswerRestart, UploadEnds,
       UploadRefused, LostUploadEnds, Signal, Disturb, tree
  <2>3. UNCHANGED <<file, fresh>> \/ ~fresh' \/ file' = Gone
    BY <1>4 DEF RequestStep, UploadOpens, DeleteFile, DeleteFails, AnswerRestart, UploadEnds,
       UploadRefused, LostUploadEnds, Signal, tree
  <2>4. CASE UNCHANGED <<file, fresh>>
    BY <2>1, <2>4, TreeUnchanged
  <2>5. CASE ~Compiling /\ (~fresh' \/ file' = Gone)
    BY <2>1, <2>5 DEF TreeInOrder, Compiling
  <2> QED
    BY <2>2, <2>3, <2>4, <2>5
<1>5. ASSUME NEW p \in Pid, Load(p) \/ Ends(p) PROVE TreeInOrder'
  BY <1>5, TreeUnchanged DEF Load, Ends, ServerExecs, ServerTerminates, ServerCrashes, tree
<1>6. CASE OtherCoreStep \/ FromOutside
  BY <1>6, OtherStepsKeepProgram, TreeUnchanged DEF deployVars, tree
<1>7. CASE UNCHANGED allVars
  BY <1>7, TreeUnchanged DEF allVars, deployVars, tree, vars
<1> QED
  BY <1>1, <1>2, <1>3, <1>4, <1>5, <1>6, <1>7 DEF DeployNext, BuildStep

\* core never skips a build that is due, and no signal but ends one.
LEMMA BuildStaysDue ==
    ASSUME TypeOK, OtherCoreStep \/ FromOutside, ~BuildDue'
    PROVE  ~BuildDue
<1>1. CASE InstallHandlers \/ InitialFork \/ InitialForkFails \/ StorePid \/ PollReload \/ PollRestart
  BY <1>1 DEF BuildDue, InstallHandlers, InitialFork, InitialForkFails, StorePid, PollReload, PollRestart
<1>2. CASE Clear \/ CompileCore \/ KillServer \/ WaitServer
  BY <1>2 DEF BuildDue, Clear, CompileCore, KillServer, WaitServer
<1>3. CASE ForkServer \/ ForkServerFails \/ ReExec \/ ReExecFails
  BY <1>3 DEF BuildDue, ForkServer, ForkServerFails, ReExec, ReExecFails
<1>4. CASE FromOutside
  BY <1>4 DEF BuildDue, FromOutside, OperatorSignal, Deliver, Cleanup
<1> QED
  BY <1>1, <1>2, <1>3, <1>4 DEF OtherCoreStep, FromOutside

\* core's other steps neither start nor run while a build is under way.
LEMMA OtherStepsOutsideBuilds ==
    ASSUME OtherCoreStep
    PROVE  ~Building
BY DEF Building, OtherCoreStep, InstallHandlers, InitialFork, InitialForkFails, StorePid, PollReload,
   PollRestart, Clear, CompileCore, KillServer, WaitServer, ForkServer, ForkServerFails, ReExec,
   ReExecFails

\* A request that changes the file breaks the promise, and one that renews it
\* asks for a build.
LEMMA RequestsKeepPromise ==
    ASSUME DeployTyped, NotYetThere, PromiseKept, RequestStep
    PROVE  PromiseKept'
<1> USE DEF DeployTyped, DeployTypeOK
<1>1. ASSUME NEW r \in Request, NEW p \in Pid, UploadOpens(r, p) PROVE PromiseKept'
  BY <1>1, ContentsDiffer DEF UploadOpens, PromiseKept, Promised, Good
<1>2. ASSUME NEW r \in Request, UploadEnds(r) PROVE PromiseKept'
  BY <1>2, ContentsDiffer DEF UploadEnds, NotYetThere, PromiseKept, Promised, Good
<1>3. ASSUME NEW r \in Request, NEW p \in Pid, DeleteFile(r, p) PROVE PromiseKept'
  BY <1>3, ContentsDiffer DEF DeleteFile, PromiseKept, Promised, Good
<1>4. ASSUME NEW r \in Request, NEW p \in Pid,
             DeleteFails(r, p) \/ AnswerRestart(r, p)
      PROVE  PromiseKept'
  BY <1>4 DEF DeleteFails, AnswerRestart, tree, vars, PromiseKept, Promised, BuildDue, Building
<1>5. ASSUME NEW r \in Request, Signal(r) PROVE PromiseKept'
  <2>1. CASE UNCHANGED <<vars, promised>>
    BY <1>5, <2>1 DEF Signal, tree, vars, PromiseKept, Promised, BuildDue, Building
  <2>2. CASE Deliver(Sig(mode[r]), "server")
    BY <2>2 DEF Deliver, Sig, PromiseKept, BuildDue, Building
  <2> QED
    BY <1>5, <2>1, <2>2 DEF Signal
<1>6. ASSUME NEW r \in Request, UploadRefused(r) PROVE PromiseKept'
  BY <1>6, ContentsDiffer DEF UploadRefused, PromiseKept, Promised, Good
<1>7. ASSUME NEW r \in Request, LostUploadEnds(r) PROVE PromiseKept'
  BY <1>7 DEF LostUploadEnds, tree, vars, PromiseKept, Promised, BuildDue, Building
<1> QED
  BY <1>1, <1>2, <1>3, <1>4, <1>5, <1>6, <1>7 DEF RequestStep

\* The build that starts after a promise does not miss it.
LEMMA NextPromiseKept ==
    ASSUME TypeOK, DeployTyped, TreeInOrder, NotYetThere, NothingRead, PromiseKept,
           [DeployNext]_allVars, ~disturbed'
    PROVE  PromiseKept'
<1> USE DEF DeployTyped, DeployTypeOK, Code, UpToDate
<1>1. CASE MakeStarts
  BY <1>1, ContentsDiffer
     DEF MakeStarts, tree, vars, PromiseKept, Promised, BuildDue, Building, TreeInOrder, Good
<1>2. CASE MakeFails
  <2>1. Promised => seen # Gone \/ pending_action # "0"
    BY <1>2, ContentsDiffer DEF MakeFails, PromiseKept, Building, CompileServer, CompileAndUpdate
  <2>2. seen \in Broken \cup {Torn} => ~Promised
    BY ContentsDiffer, BrokenAssumption DEF TreeInOrder, Compiling, Promised, Good
  <2> QED
    BY <1>2, <2>1, <2>2, ContentsDiffer
       DEF MakeFails, CompileFails, tree, PromiseKept, Promised, BuildDue, CompileServer,
           CompileAndUpdate
<1>3. CASE MakeEnds
  <2> SUFFICES ASSUME Promised', ~BuildDue' PROVE linked' /\ object' = file'
    BY <1>3, ContentsDiffer DEF MakeEnds, PromiseKept
  <2>1. Promised /\ UNCHANGED <<file, pending_action>> /\ pending_action = "0" /\ Building
    BY <1>3 DEF MakeEnds, Promised, BuildDue, Building, CompileServer, CompileAndUpdate
  <2>2. CASE Compiling
    BY <1>3, <2>1, <2>2, ContentsDiffer
       DEF MakeEnds, Compiled, MustLink, LinkFrom, TreeInOrder, Promised, Good
  <2>3. CASE ~Compiling
    <3>1. seen = UpToDate /\ object = file
      BY <1>3, <2>1, <2>3 DEF MakeEnds, CompileWorks, PromiseKept, Compiling, Good
    <3> QED
      BY <1>3, <2>1, <2>3, <3>1, ContentsDiffer
         DEF MakeEnds, Compiled, MustLink, LinkFrom, Promised, Good
  <2> QED
    BY <2>2, <2>3
<1>4. CASE MakeKilled
  BY <1>4 DEF MakeKilled
<1>5. CASE StrayWrites
  BY <1>5 DEF StrayWrites, TreeInOrder, NoJob
<1>6. CASE RequestStep
  BY <1>6, RequestsKeepPromise
<1>7. ASSUME NEW p \in Pid, Load(p) \/ Ends(p) PROVE PromiseKept'
  BY <1>7 DEF Load, Ends, ServerExecs, ServerTerminates, ServerCrashes, tree, PromiseKept, Promised,
     BuildDue, Building
<1>8. CASE OtherCoreStep
  <2>1. UNCHANGED <<file, object, linked, fresh, seen, promised>> /\ (~BuildDue' => ~BuildDue)
    BY <1>8, BuildStaysDue DEF OtherCoreStep, deployVars, tree
  <2>2. seen = None \/ pc' = pc \/ ~Building'
    BY <1>8, OtherStepsOutsideBuilds DEF NothingRead, Building, OtherCoreStep, InstallHandlers,
       InitialFork, InitialForkFails, StorePid, PollReload, PollRestart, Clear, CompileCore,
       KillServer, WaitServer, ForkServer, ForkServerFails, ReExec, ReExecFails
  <2>3. ~Building
    BY <1>8, OtherStepsOutsideBuilds
  <2>4. pc' = pc => ~Building'
    BY <2>3 DEF Building
  <2> QED
    BY <2>1, <2>2, <2>4, ContentsDiffer DEF PromiseKept, Promised
<1>9. CASE FromOutside
  <2>1. UNCHANGED <<file, object, linked, fresh, seen, promised>> /\ (~BuildDue' => ~BuildDue)
    BY <1>9, BuildStaysDue DEF FromOutside, deployVars, tree
  <2>2. pending_action' = "0" /\ Building' => pending_action = "0" /\ Building
    BY <1>9 DEF FromOutside, OperatorSignal, Deliver, Cleanup, Building
  <2> QED
    BY <2>1, <2>2 DEF PromiseKept, Promised
<1>10. CASE UNCHANGED allVars
  BY <1>10 DEF allVars, deployVars, tree, vars, PromiseKept, Promised, BuildDue, Building
<1> QED
  BY <1>1, <1>2, <1>3, <1>4, <1>5, <1>6, <1>7, <1>8, <1>9, <1>10 DEF DeployNext, BuildStep

\* A server that is up while core polls was started from the program that is there.
LEMMA NextLoaded ==
    ASSUME TypeOK, Tracking, DeployTyped, TreeInOrder, Loaded, [DeployNext]_allVars, ~disturbed'
    PROVE  Loaded'
<1> USE DEF Loaded
<1>1. CASE MakeStarts
  BY <1>1 DEF MakeStarts, vars, tree
<1>2. CASE MakeFails \/ MakeEnds
  BY <1>2 DEF MakeFails, MakeEnds, CompileServer, CompileAndUpdate
<1>3. CASE MakeKilled
  BY <1>3 DEF MakeKilled
<1>4. CASE StrayWrites
  BY <1>4 DEF StrayWrites, TreeInOrder, NoJob
<1>5. CASE RequestStep
  <2>1. UNCHANGED <<proc, runs, binary>> /\ (pc' = pc \/ pc' = "dead")
    BY <1>5 DEF RequestStep, UploadOpens, DeleteFile, DeleteFails, AnswerRestart, UploadEnds,
       UploadRefused, LostUploadEnds, Signal, Deliver, vars, tree
  <2> QED
    BY <2>1
<1>6. ASSUME NEW p \in Pid, Load(p) PROVE Loaded'
  <2>1. UNCHANGED <<pc, binary>> /\ runs' = [runs EXCEPT ![p] = IF runnable THEN binary ELSE None]
        /\ proc' = [proc EXCEPT ![p] = IF runnable THEN "up" ELSE "zombie"]
    BY <1>6 DEF Load, ServerExecs, tree
  <2> QED
    BY <2>1 DEF TypeOK, DeployTyped, DeployTypeOK
<1>7. ASSUME NEW p \in Pid, Ends(p) PROVE Loaded'
  BY <1>7 DEF Ends, ServerTerminates, ServerCrashes, tree, TypeOK, DeployTyped, DeployTypeOK
<1>8. CASE InitialFork \/ ForkServer \/ ForkServerFails
  <2>1. Children = {}
    BY <1>8 DEF Tracking, NoChildBetween, Booting, InitialFork, ForkServer, ForkServerFails
  <2>2. \A p \in Pid : proc'[p] # "up"
    BY <1>8, <2>1 DEF Children, InitialFork, ForkServer, ForkServerFails, Fork, TypeOK
  <2> QED
    BY <2>2
<1>9. CASE OtherCoreStep /\ ~(InitialFork \/ ForkServer \/ ForkServerFails)
  <2>1. UNCHANGED <<runs, binary>>
    BY <1>9 DEF OtherCoreStep, deployVars, tree
  <2>2. /\ pc' \in {"store", "poll1", "poll2"} => pc \in {"store", "poll1", "poll2"}
        /\ pc' \in {"store", "poll1", "poll2"} => UNCHANGED proc
    BY <1>9 DEF OtherCoreStep, InstallHandlers, InitialForkFails, StorePid, PollReload, PollRestart,
       Clear, CompileCore, KillServer, WaitServer, ReExec, ReExecFails
  <2> QED
    BY <2>1, <2>2
<1>10. CASE FromOutside
  BY <1>10 DEF FromOutside, OperatorSignal, Deliver, Cleanup, deployVars, tree
<1>11. CASE UNCHANGED allVars
  BY <1>11 DEF allVars, deployVars, tree, vars
<1> QED
  BY <1>1, <1>2, <1>3, <1>4, <1>5, <1>6, <1>7, <1>8, <1>9, <1>10, <1>11 DEF DeployNext, BuildStep

\* The invariant is inductive, given what holds of core.
LEMMA NextInv ==
    TypeOK /\ Tracking /\ DeployTyped /\ DeployInv /\ [DeployNext]_allVars => DeployInv'
<1> SUFFICES ASSUME TypeOK, Tracking, DeployTyped, DeployInv, [DeployNext]_allVars
             PROVE  DeployInv'
  OBVIOUS
<1>1. NotYetThere' /\ NothingRead'
  BY NextNotYetThere, NextNothingRead DEF DeployInv, DeployTyped
<1>2. ASSUME ~disturbed' PROVE TreeInOrder' /\ PromiseKept' /\ Loaded'
  <2>1. TreeInOrder /\ PromiseKept /\ Loaded
    BY <1>2, DisturbedStays DEF DeployInv, InOrder, DeployTyped
  <2> QED
    BY <1>2, <2>1, NextTreeInOrder, NextPromiseKept, NextLoaded DEF DeployInv
<1> QED
  BY <1>1, <1>2 DEF DeployInv, InOrder

\* The invariant holds in every reachable state.
LEMMA Deployed == DeploySpec => [](DeployTyped /\ DeployInv)
<1>1. DeployInit => DeployInv
  BY InitInv
<1>2. TypeOK /\ Tracking /\ DeployTyped /\ DeployInv /\ [DeployNext]_allVars => DeployInv'
  BY NextInv
<1> QED
  BY <1>1, <1>2, DeployInvariant, Invariant, PTL DEF DeploySpec

\* Undisturbed, the current file is in the program and in every server as
\* soon as core polls with nothing pending after a request asked for it.
THEOREM UploadsGoLive == DeploySpec => []NewCodeRuns
<1>1. DeployTyped /\ DeployInv => NewCodeRuns
  <2> SUFFICES ASSUME DeployTyped, DeployInv, Quiet, Promised, ~disturbed
               PROVE  /\ runnable /\ binary = file
                      /\ \A p \in Pid : proc[p] = "up" => runs[p] = file
    BY DEF NewCodeRuns
  <2>1. TreeInOrder /\ PromiseKept /\ Loaded
    BY DEF DeployInv, InOrder
  <2>2. linked /\ object = file /\ file \in Code
    BY <2>1 DEF PromiseKept, BuildDue, Quiet, Promised, Good, Code
  <2> QED
    BY <2>1, <2>2 DEF TreeInOrder, Loaded, Quiet
<1> QED
  BY <1>1, Deployed, PTL

\* A source that does not compile leaves the program that runs in place.
THEOREM BadSourceIsHarmless == DeploySpec => []ProgramLostOnlyTorn
<1>1. DeployTyped /\ DeployInv => ProgramLostOnlyTorn
  BY DEF DeployTyped, DeployTypeOK, DeployInv, InOrder, TreeInOrder, ProgramLostOnlyTorn
<1> QED
  BY <1>1, Deployed, PTL
=============================================================================
