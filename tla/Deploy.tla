------------------------------- MODULE Deploy -------------------------------
(***************************************************************************)
(* How new code reaches production: the upload, delete and restart         *)
(* handlers of the server (route_api_system.c) change the source tree and  *)
(* signal core, core runs make and forks what make left.  One source file  *)
(* of arc_server stands for the tree; the two time stamp comparisons of    *)
(* ar-ws/Makefile, object against source and program against object,       *)
(* decide what a build does.  Core's steps are those of Orchestrator.      *)
(***************************************************************************)
EXTENDS Orchestrator

CONSTANTS
    Upload,     \* upload requests; each is also the content it brings
    Broken,     \* those whose content does not compile
    Delete,     \* requests that delete the file
    Restart,    \* requests to restart; one in both sets is one or the other
    Original,   \* the content of the file before the first upload
    Torn,       \* a file that was written half
    Gone,       \* no file
    None        \* no object, nothing read, no program

ASSUME BrokenAssumption == Broken \subseteq Upload
ASSUME KindsDisjoint == Upload \cap (Delete \cup Restart) = {}
ASSUME ContentsDiffer ==
    {Original, Torn, Gone, None} \cap (Upload \cup Delete \cup Restart) = {}
    /\ Original \notin {Torn, Gone, None} /\ Torn \notin {Gone, None} /\ Gone # None
    /\ "up to date" \notin Upload \cup {Original, Torn, Gone, None}
ASSUME BuildsMayFail == "build" \in Faults

VARIABLES
    file,       \* the source file
    object,     \* what its object file was compiled from
    fresh,      \* the object file is not older than the source file
    binary,     \* what arc_server was linked from
    linked,     \* arc_server is there and not older than the object file
    seen,       \* what the compiler of the running build has read
    left,       \* what a compiler that outlived its make is going to write
    runs,       \* the code each server process runs
    at,         \* the statement each request executes next
    home,       \* the process of its thread
    mode,       \* its X-Restart-Mode, or the mode in its body
    promised,   \* history: the file at the last signal a request sent
    disturbed   \* history: the file changed under a compiler, or a make was killed

tree == <<file, object, fresh, binary, linked>>
requests == <<at, home, mode>>
deployVars == <<tree, seen, left, runs, requests, promised, disturbed>>
allVars == <<vars, deployVars>>

Request == Upload \cup Delete \cup Restart
Good == {Original} \cup (Upload \ Broken)       \* code that compiles and links
Code == {Original} \cup Upload
UpToDate == "up to date"

Writing == {"open", "mixed"}
Busy == Writing \cup {"lost", "changed"}
Job == [writes : {"object", "program"}, from : Code \cup {Torn}]
NoJob == [writes |-> "nothing", from |-> None]

\* Also: a compiler outlives its make exactly while it has something to write.
DeployTypeOK ==
    /\ file \in Code \cup {Torn, Gone}
    /\ object \in Code \cup {Torn, None}
    /\ binary \in Code \cup {None}
    /\ {fresh, linked, disturbed} \subseteq BOOLEAN
    /\ seen \in Code \cup {Torn, Gone, None, UpToDate}
    /\ left \in Job \cup {NoJob}
    /\ stray <=> left # NoJob
    /\ runs \in [Pid -> Code \cup {None}]
    /\ at \in [Request -> Busy \cup {"new", "over"}]
    /\ home \in [Request -> Pid \cup {NoPid}]
    /\ mode \in [Request -> {"api", "core", "none"}]
    /\ promised \in Code \cup {Torn, Gone, None}

\* Core is started in a clean tree or in one that was built before.
DeployInit ==
    /\ Init
    /\ file = Original
    /\ object \in {Original, None}
    /\ fresh = TRUE
    /\ runnable = (object = Original)
    /\ binary = object
    /\ linked = runnable
    /\ seen = None
    /\ left = NoJob
    /\ runs = [p \in Pid |-> None]
    /\ at = [r \in Request |-> "new"]
    /\ home = [r \in Request |-> NoPid]
    /\ mode = [r \in Request |-> "none"]
    /\ promised = None
    /\ disturbed = FALSE

-----------------------------------------------------------------------------
(* make -C ar-ws: `%.o: %.c' and `$(TARGET): $(OBJS)'.                      *)

Building == pc \in {"build", "make1", "make2"}
Compiling == seen \in Code \cup {Torn}

\* Wrong: the rule does not name the source, so only a missing object is made.
MakeStartsIfMissing ==
    /\ Building
    /\ seen = None
    /\ seen' = IF object # None THEN UpToDate ELSE file
    /\ UNCHANGED <<vars, tree, left, runs, requests, promised, disturbed>>

(* The rule for the object: it is made if it is missing or older than the   *)
(* source.  Without a source the rule does not apply: an object that is     *)
(* there will do, and one that is not stops make.                           *)
MakeStarts ==
    /\ Building
    /\ seen = None
    /\ seen' = IF object # None /\ (fresh \/ file = Gone) THEN UpToDate ELSE file
    /\ UNCHANGED <<vars, tree, left, runs, requests, promised, disturbed>>

(* What the compiler leaves: half a file may pass the compiler, and nothing *)
(* that fails touches the old object.                                       *)
CompileFails == seen = Gone \/ seen \in Broken \cup {Torn}
CompileWorks == seen \in Good \cup {Torn, UpToDate}
Compiled == IF Compiling THEN seen ELSE object
MustLink == Compiling \/ ~linked

(* Half a file does not link.  The linker removes its output first.         *)
LinkFrom(content) ==
    /\ runnable' = (content # Torn)
    /\ linked' = (content # Torn)
    /\ binary' = IF content # Torn THEN content ELSE None

\* Wrong: a failed build cleans up after itself.
MakeFailsClean ==
    /\ CompileFails
    /\ CompileServer \/ CompileAndUpdate
    /\ stray' = stray
    /\ runnable' = FALSE
    /\ linked' = FALSE
    /\ seen' = None
    /\ UNCHANGED <<file, object, fresh, binary, left, runs, requests, promised, disturbed>>

MakeFails ==
    /\ CompileFails
    /\ CompileServer \/ CompileAndUpdate
    /\ stray' = stray
    /\ runnable' = runnable
    /\ seen' = None
    /\ UNCHANGED <<tree, left, runs, requests, promised, disturbed>>

MakeEnds ==
    /\ CompileWorks
    /\ CompileServer \/ CompileAndUpdate
    /\ stray' = stray
    /\ object' = Compiled
    /\ fresh' = (fresh \/ Compiling)
    /\ IF MustLink THEN LinkFrom(Compiled) ELSE runnable' = runnable /\ UNCHANGED <<linked, binary>>
    /\ seen' = None
    /\ UNCHANGED <<file, left, runs, requests, promised, disturbed>>

(* safe_compile kills make after 15 seconds while the compiler or the       *)
(* linker runs.  At most one of them outlives its make at a time.           *)
MakeKilled ==
    /\ ~stray
    /\ CompileServer
    /\ stray' = TRUE
    /\ seen' = None
    /\ disturbed' = TRUE
    /\ \/ /\ Compiling
          /\ left' = [writes |-> "object", from |-> seen]
          /\ runnable' = runnable
          /\ UNCHANGED tree
       \/ /\ CompileWorks /\ MustLink
          /\ left' = [writes |-> "program", from |-> Compiled]
          /\ object' = Compiled
          /\ fresh' = (fresh \/ Compiling)
          /\ runnable' = FALSE
          /\ linked' = FALSE
          /\ binary' = None
          /\ UNCHANGED file
    /\ UNCHANGED <<runs, requests, promised>>

StrayWrites ==
    /\ StrayCompilerEnds
    /\ left' = NoJob
    /\ \/ /\ left.writes = "object"
          /\ runnable' = runnable
          /\ \/ left.from \in Good \cup {Torn} /\ object' = left.from
                /\ fresh' = TRUE /\ linked' = FALSE
             \/ left.from \in Broken \cup {Torn} /\ UNCHANGED <<object, fresh, linked>>
          /\ UNCHANGED <<file, binary>>
       \/ /\ left.writes = "program"
          /\ LinkFrom(left.from)
          /\ UNCHANGED <<file, object, fresh>>
    /\ UNCHANGED <<seen, runs, requests, promised, disturbed>>

-----------------------------------------------------------------------------
(* The handlers, one thread of a server process each.                       *)

\* The file is about to change: is a compiler at work on what it was?
Disturb == disturbed' = (disturbed \/ Compiling \/ stray)

Accept(r, p, modes) ==
    /\ at[r] = "new"
    /\ proc[p] = "up"
    /\ home' = [home EXCEPT ![r] = p]
    /\ \E m \in modes : mode' = [mode EXCEPT ![r] = m]

(* fopen(target_path, "wb") truncates the file, or creates it.  Two uploads *)
(* that have the file open write over each other.                           *)
UploadOpens(r, p) ==
    /\ r \in Upload
    /\ Accept(r, p, {"api", "core", "none"})
    /\ LET alone == \A q \in Request : at[q] \notin Writing
       IN  at' = [q \in Request |-> IF q = r THEN (IF alone THEN "open" ELSE "mixed")
                                    ELSE IF at[q] = "open" THEN "mixed" ELSE at[q]]
    /\ file' = Torn
    /\ fresh' = FALSE
    /\ Disturb
    /\ UNCHANGED <<vars, object, binary, linked, seen, left, runs, promised>>

(* The loop over server_conn_read and fclose.  A connection that breaks     *)
(* ends the loop like the end of the body does.                             *)
UploadEnds(r) ==
    /\ r \in Upload
    /\ at[r] \in Writing
    /\ \/ file' = r
       \/ file' = Torn
    /\ fresh' = FALSE
    /\ at' = [at EXCEPT ![r] = "changed"]
    /\ Disturb
    /\ UNCHANGED <<vars, object, binary, linked, seen, left, runs, home, mode, promised>>

(* A Content-Length that is no number: the file that was there is removed,  *)
(* 400, and no signal.                                                      *)
UploadRefused(r) ==
    /\ r \in Upload
    /\ at[r] \in Writing \cup {"lost"}
    /\ file' = Gone
    /\ at' = [q \in Request |-> IF q = r THEN "over" ELSE IF at[q] \in Writing THEN "lost" ELSE at[q]]
    /\ home' = [home EXCEPT ![r] = NoPid]
    /\ mode' = [mode EXCEPT ![r] = "none"]
    /\ Disturb
    /\ UNCHANGED <<vars, object, fresh, binary, linked, seen, left, runs, promised>>

\* The file was removed meanwhile: the bytes go nowhere.
LostUploadEnds(r) ==
    /\ at[r] = "lost"
    /\ at' = [at EXCEPT ![r] = "changed"]
    /\ UNCHANGED <<vars, tree, seen, left, runs, home, mode, promised, disturbed>>

DeleteFile(r, p) ==
    /\ r \in Delete
    /\ file # Gone
    /\ Accept(r, p, {"api", "core", "none"})
    /\ at' = [q \in Request |-> IF q = r THEN "changed"
                                ELSE IF at[q] \in Writing THEN "lost" ELSE at[q]]
    /\ file' = Gone
    /\ Disturb
    /\ UNCHANGED <<vars, object, fresh, binary, linked, seen, left, runs, promised>>

\* remove() fails: 500 and no signal.
DeleteFails(r, p) ==
    /\ r \in Delete
    /\ at[r] = "new"
    /\ file = Gone
    /\ proc[p] = "up"
    /\ at' = [at EXCEPT ![r] = "over"]
    /\ UNCHANGED <<vars, tree, seen, left, runs, home, mode, promised, disturbed>>

\* The restart handler answers before it signals.
AnswerRestart(r, p) ==
    /\ r \in Restart
    /\ Accept(r, p, {"api", "core"})
    /\ at' = [at EXCEPT ![r] = "changed"]
    /\ UNCHANGED <<vars, tree, seen, left, runs, promised, disturbed>>

Sig(m) == IF m = "api" THEN "1" ELSE "2"

\* A thread that has ended is on no process and has no mode.
Over(ended) ==
    /\ at' = [r \in Request |-> IF r \in ended THEN "over" ELSE at[r]]
    /\ home' = [r \in Request |-> IF r \in ended THEN NoPid ELSE home[r]]
    /\ mode' = [r \in Request |-> IF r \in ended THEN "none" ELSE mode[r]]

\* Wrong: the server ends by itself and leaves the rest to core.
SignalExits(r) ==
    /\ at[r] = "changed"
    /\ Over({r})
    /\ proc' = [proc EXCEPT ![home[r]] = "free"]
    /\ UNCHANGED <<pc, pending_action, global_server_pid, child, runnable, stray, owed, cause>>
    /\ UNCHANGED <<tree, seen, left, runs, promised, disturbed>>

(* kill(getppid(), SIGUSR1 or SIGUSR2); any other mode sends nothing, and   *)
(* the parent of a server that outlived core is init.                       *)
Signal(r) ==
    /\ at[r] = "changed"
    /\ Over({r})
    /\ IF mode[r] = "none" \/ pc = "dead"
       THEN UNCHANGED <<vars, promised>>
       ELSE Deliver(Sig(mode[r]), "server") /\ promised' = file
    /\ UNCHANGED <<tree, seen, left, runs, disturbed>>

RequestStep ==
    \/ \E r \in Request, p \in Pid :
          UploadOpens(r, p) \/ DeleteFile(r, p) \/ DeleteFails(r, p) \/ AnswerRestart(r, p)
    \/ \E r \in Request : UploadEnds(r) \/ UploadRefused(r) \/ LostUploadEnds(r) \/ Signal(r)

-----------------------------------------------------------------------------
(* The server processes, and core's other steps.                            *)

Load(p) ==
    /\ ServerExecs(p)
    /\ runs' = [runs EXCEPT ![p] = IF runnable THEN binary ELSE None]
    /\ UNCHANGED <<tree, seen, left, requests, promised, disturbed>>

\* The threads of a process end with it, wherever they are.
Ends(p) ==
    /\ ServerTerminates(p) \/ ServerCrashes(p)
    /\ Over({r \in Request : home[r] = p})
    /\ runs' = [runs EXCEPT ![p] = None]
    /\ UNCHANGED <<tree, seen, left, promised, disturbed>>

OtherCoreStep ==
    /\ \/ InstallHandlers \/ InitialFork \/ InitialForkFails \/ StorePid
       \/ PollReload \/ PollRestart \/ Clear \/ CompileCore \/ KillServer \/ WaitServer
       \/ ForkServer \/ ForkServerFails \/ ReExec \/ ReExecFails
    /\ UNCHANGED deployVars

FromOutside == (OperatorSignal \/ Cleanup) /\ UNCHANGED deployVars

BuildStep == MakeStarts \/ MakeFails \/ MakeEnds \/ MakeKilled

DeployNext ==
    \/ BuildStep \/ StrayWrites
    \/ RequestStep
    \/ OtherCoreStep \/ FromOutside
    \/ \E p \in Pid : Load(p) \/ Ends(p)

(* As for Orchestrator: core runs, exec and the death of a stopped process  *)
(* take place.  Clients and handlers promise nothing.                       *)
DeployFairness ==
    /\ WF_allVars(BuildStep \/ OtherCoreStep)
    /\ \A p \in Pid : WF_allVars(Load(p)) /\ WF_allVars(proc[p] = "stopping" /\ Ends(p))

DeploySpec == DeployInit /\ [][DeployNext]_allVars
DeployFairSpec == DeploySpec /\ DeployFairness

-----------------------------------------------------------------------------
\* Nothing is asked of core that it has not finished.
Quiet == pc \in {"poll1", "poll2"} /\ pending_action = "0"

\* A file that compiles has not changed since a request asked for a reload.
Promised == promised = file /\ file \in Good

\* Undisturbed, what was uploaded is what runs: whatever signals arrive
\* while core builds, stops, forks or re-executes itself, once core polls
\* with nothing pending the program and every server are the current file.
NewCodeRuns ==
    Quiet /\ Promised /\ ~disturbed =>
        /\ runnable /\ binary = file
        /\ \A p \in Pid : proc[p] = "up" => runs[p] = file

\* A source that does not compile never costs the program that runs: only a
\* half written file that passes the compiler, or a killed make, does.
ProgramLostOnlyTorn ==
    ~runnable /\ ~disturbed => object \in {None, Torn}

\* Every step of the deployment is a step of core and its environment, or
\* invisible to them: what holds of Orchestrator holds here.
ImplementsOrchestrator == Spec

\* Core polls and has no server, because fork failed or the server crashed.
ServerLost == pc \in {"poll1", "poll2"} /\ Servers = {}

\* What was promised goes live, unless the file changes again, a compiler
\* was disturbed, or core ended or lost its server.
NewCodeGoesLive == SignalsEnd =>
    (Promised ~> \/ \E p \in Pid : proc[p] = "up" /\ runs[p] = file
                 \/ ~Promised \/ disturbed \/ CoreDead \/ ServerLost)

(* What the documentation says and the code does not do. *)

\* README: the server auto-restarts with the new code; a restart recompiles.
UploadedCodeRuns ==
    Quiet /\ Promised => \A p \in Pid : proc[p] = "up" => runs[p] = file
=============================================================================
