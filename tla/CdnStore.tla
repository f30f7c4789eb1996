------------------------------ MODULE CdnStore ------------------------------
(***************************************************************************)
(* The administrator's side of the CDN, ar-ws/routes/route_cdn_admin.c:    *)
(* a table of entries in the database, each naming a file, and the files   *)
(* on disk.  Every connection has a thread of its own, and nothing locks   *)
(* a path, so the database calls and the file system calls of two requests *)
(* interleave freely.                                                      *)
(*                                                                         *)
(* An upload to public path p is stored in "storage/cdn" + p; the model    *)
(* identifies that file with p.  A link names any file, often an original  *)
(* outside the storage directory.  Authentication and the checks of the    *)
(* request's form come before the first step and change nothing.           *)
(*                                                                         *)
(* The database module is not part of the repository.  It is modelled from *)
(* its calls: register returns an id or fails, delete and rename return    *)
(* whether a row was changed, a lookup that fails looks like an absent     *)
(* row.  Whether registering a path that has a row fails or replaces the   *)
(* row is left open: on_conflict is either, for ever.                      *)
(***************************************************************************)
EXTENDS FiniteSets

CONSTANTS
    Path,       \* public paths, and the storage files behind them
    Original,   \* files outside the storage directory
    Req,        \* connections that serve a request at the same time
    Id,         \* bound: the ids of all rows ever registered
    None,       \* no path, no file, no id
    Faults      \* subset of AllFaults

AllFaults == {"db", "io"}

ASSUME FileAssumption == Path \cap Original = {}
ASSUME NoneAssumption == None \notin Path \cup Original \cup Id
ASSUME FaultsAssumption == Faults \subseteq AllFaults

VARIABLES
    db,          \* the rows, by id; an id is used once
    disk,        \* the files that exist
    req,         \* what each connection is doing
    on_conflict, \* what db_cdn_register does with a path that has a row
    disturbed    \* history: an entry may have lost its file

vars == <<db, disk, req, on_conflict, disturbed>>

File == Path \cup Original
Row == [path : Path, file : File, linked : BOOLEAN]
Fresh == [path |-> None]                       \* the id is not used yet
Gone == [path |-> None, file |-> None]         \* its row was deleted

Op == {"upload", "link", "delete", "delete_by_path", "rename"}
Step == {"lookup", "remove", "unregister", "open", "receive", "stat", "move", "register", "discard"}
Idle == [step |-> "idle"]

\* What a handler has in its local variables: the arguments of the request,
\* and file and linked as it read them from the row.
Request == [step : Step, op : Op, path : Path \cup {None}, id : Id \cup {None},
            file : File \cup {None}, linked : BOOLEAN, flag : BOOLEAN]

TypeOK ==
    /\ db \in [Id -> Row \cup {Fresh, Gone}]
    /\ disk \subseteq File
    /\ req \in [Req -> Request \cup {Idle}]
    /\ on_conflict \in {"reject", "replace"}
    /\ disturbed \in BOOLEAN

\* The repository ships files in the storage directory that have no row.
Init ==
    /\ db = [i \in Id |-> Fresh]
    /\ \E S \in SUBSET Path : disk = S \cup Original
    /\ req = [r \in Req |-> Idle]
    /\ on_conflict \in {"reject", "replace"}
    /\ disturbed = FALSE

-----------------------------------------------------------------------------
(* The database as the handlers use it.                                     *)

Rows == {i \in Id : db[i] \in Row}
RowsAt(p) == {i \in Rows : db[i].path = p}
DbFails == "db" \in Faults

\* What db_cdn_lookup may return: one of the rows S, or nothing when there is
\* none or the database fails.
Nothing == Gone
Found(S) == {db[i] : i \in S} \cup (IF S = {} \/ DbFails THEN {Nothing} ELSE {})

Registered(row) ==
    \/ /\ RowsAt(row.path) = {}
       /\ \E i \in Id : db[i] = Fresh /\ db' = [db EXCEPT ![i] = row]
    \/ /\ on_conflict = "replace"
       /\ \E i \in RowsAt(row.path) : db' = [db EXCEPT ![i] = row]
RegisterFails(row) ==
    /\ DbFails \/ (on_conflict = "reject" /\ RowsAt(row.path) # {})
    /\ UNCHANGED db

Deleted(S) == S # {} /\ db' = [i \in Id |-> IF i \in S THEN Gone ELSE db[i]]
DeleteFails(S) == (S = {} \/ DbFails) /\ UNCHANGED db

-----------------------------------------------------------------------------
(* Requests.  Two that work on one path or file at a time overlap.          *)

Names(q) ==
    IF q = Idle THEN {}
    ELSE ({q.path, q.file} \cup {db[i].path : i \in {q.id} \cap Rows}) \ {None}
Overlap == \E r, s \in Req : r # s /\ Names(req[r]) \cap Names(req[s]) # {}

\* Request r goes on as q; risky when it may have cost an entry its file.
Continue(r, q, risky) ==
    /\ req' = [req EXCEPT ![r] = q]
    /\ disturbed' = (disturbed \/ risky \/ Overlap)
    /\ UNCHANGED on_conflict
GoTo(r, step) == Continue(r, [req[r] EXCEPT !.step = step], FALSE)
Answer(r) == Continue(r, Idle, FALSE)
AnswerError(r) == Continue(r, Idle, TRUE)

At(r, op, step) == req[r] # Idle /\ req[r].op = op /\ req[r].step = step

Args(op, path, id, file, flag) ==
    [step |-> IF op = "link" THEN "stat" ELSE "lookup", op |-> op, path |-> path, id |-> id,
     file |-> file, linked |-> FALSE, flag |-> flag]

Arrive(r) ==
    /\ req[r] = Idle
    /\ \E p \in Path, i \in Id, f \in File, flag \in BOOLEAN :
          \E q \in {Args("upload", p, None, None, flag), Args("link", p, None, f, FALSE),
                   Args("delete", None, i, None, flag), Args("delete_by_path", p, None, None, flag),
                   Args("rename", p, i, None, FALSE)} : Continue(r, q, FALSE)
    /\ UNCHANGED <<db, disk>>

\* Upload; the flag is the header X-Overwrite.

UploadLookup(r) ==
    /\ At(r, "upload", "lookup")
    /\ \E found \in Found(RowsAt(req[r].path)) :
          \/ found = Nothing /\ GoTo(r, "open")
          \/ found # Nothing /\ ~req[r].flag /\ Answer(r)        \* 409
          \/ /\ found # Nothing /\ req[r].flag
             /\ Continue(r, [req[r] EXCEPT !.step = "remove", !.file = found.file],
                         found.linked)
    /\ UNCHANGED <<db, disk>>

\* The file of the old entry goes, whether it was uploaded or linked.
UploadRemoveOld(r) ==
    /\ At(r, "upload", "remove")
    /\ disk' = disk \ {req[r].file}
    /\ GoTo(r, "unregister")
    /\ UNCHANGED db

UploadUnregisterOld(r) ==
    /\ At(r, "upload", "unregister")
    /\ LET S == RowsAt(req[r].path) IN Deleted(S) \/ DeleteFails(S)
    /\ GoTo(r, "open")
    /\ UNCHANGED disk

\* fopen "wb" creates or truncates the file.
UploadOpen(r) ==
    /\ At(r, "upload", "open")
    /\ \/ /\ disk' = disk \cup {req[r].path}
          /\ Continue(r, [req[r] EXCEPT !.step = "receive", !.file = req[r].path], FALSE)
       \/ /\ "io" \in Faults
          /\ AnswerError(r)
          /\ UNCHANGED disk
    /\ UNCHANGED db

\* The body is received, whole or cut short, or is refused as too large.
UploadReceive(r) ==
    /\ At(r, "upload", "receive")
    /\ \/ GoTo(r, "register") /\ UNCHANGED disk
       \/ AnswerError(r) /\ disk' = disk \ {req[r].path}
    /\ UNCHANGED db

UploadRegister(r) ==
    /\ At(r, "upload", "register")
    /\ LET row == [path |-> req[r].path, file |-> req[r].path, linked |-> FALSE]
       IN  \/ Registered(row) /\ Answer(r)
           \/ RegisterFails(row) /\ GoTo(r, "discard")
    /\ UNCHANGED disk

\* "DB failed, clean up file": by name, whoever wrote it last.
UploadDiscard(r) ==
    /\ At(r, "upload", "discard")
    /\ disk' = disk \ {req[r].path}
    /\ AnswerError(r)
    /\ UNCHANGED db

\* Link.

LinkStat(r) ==
    /\ At(r, "link", "stat")
    /\ IF req[r].file \in disk THEN GoTo(r, "register") ELSE Answer(r)
    /\ UNCHANGED <<db, disk>>

LinkRegister(r) ==
    /\ At(r, "link", "register")
    /\ LET row == [path |-> req[r].path, file |-> req[r].file, linked |-> TRUE]
       IN  (Registered(row) /\ Answer(r)) \/ (RegisterFails(row) /\ AnswerError(r))
    /\ UNCHANGED disk

\* Delete, by id or by path; the flag is remove_file of the body.

Chosen(q) == IF q.op = "delete" THEN {q.id} \cap Rows ELSE RowsAt(q.path)
DeleteAt(r, step) == At(r, "delete", step) \/ At(r, "delete_by_path", step)

\* Wrong: the file goes without a look at is_linked.
DeleteLookupUnchecked(r) ==
    /\ DeleteAt(r, "lookup")
    /\ IF ~req[r].flag THEN GoTo(r, "unregister")
       ELSE \E found \in Found(Chosen(req[r])) :
                IF found = Nothing THEN GoTo(r, "unregister")
                ELSE Continue(r, [req[r] EXCEPT !.step = "remove", !.file = found.file], FALSE)
    /\ UNCHANGED <<db, disk>>

DeleteLookup(r) ==
    /\ DeleteAt(r, "lookup")
    /\ IF ~req[r].flag THEN GoTo(r, "unregister")
       ELSE \E found \in Found(Chosen(req[r])) :
                IF found = Nothing \/ found.linked THEN GoTo(r, "unregister")
                ELSE Continue(r, [req[r] EXCEPT !.step = "remove", !.file = found.file], FALSE)
    /\ UNCHANGED <<db, disk>>

DeleteRemove(r) ==
    /\ DeleteAt(r, "remove")
    /\ disk' = disk \ {req[r].file}
    /\ GoTo(r, "unregister")
    /\ UNCHANGED db

\* Wrong: a failure of the database is answered with 200.
DeleteUnregisterIgnored(r) ==
    /\ DeleteAt(r, "unregister")
    /\ Deleted(Chosen(req[r])) \/ DeleteFails(Chosen(req[r]))
    /\ Answer(r)
    /\ UNCHANGED disk

DeleteUnregister(r) ==
    /\ DeleteAt(r, "unregister")
    /\ \/ Deleted(Chosen(req[r])) /\ Answer(r)
       \/ DeleteFails(Chosen(req[r])) /\ AnswerError(r)           \* 404
    /\ UNCHANGED disk

\* Rename to req[r].path.

RenameLookup(r) ==
    /\ At(r, "rename", "lookup")
    /\ \E found \in Found({req[r].id} \cap Rows) :
          IF found = Nothing THEN Answer(r)                      \* 404
          ELSE Continue(r, [req[r] EXCEPT !.step = "move", !.file = found.file,
                                          !.linked = found.linked], FALSE)
    /\ UNCHANGED <<db, disk>>

\* An uploaded file that is there moves, over whatever has the new name.
RenameMove(r) ==
    /\ At(r, "rename", "move")
    /\ IF req[r].linked \/ req[r].file \notin disk
       THEN GoTo(r, "register") /\ UNCHANGED disk
       ELSE \/ GoTo(r, "register") /\ disk' = (disk \ {req[r].file}) \cup {req[r].path}
            \/ "io" \in Faults /\ AnswerError(r) /\ UNCHANGED disk
    /\ UNCHANGED db

\* Wrong: the row keeps the old name of the file.
RenameUpdatePathOnly(r) ==
    /\ At(r, "rename", "register")
    /\ req[r].id \in Rows /\ RowsAt(req[r].path) \subseteq {req[r].id}
    /\ db' = [db EXCEPT ![req[r].id].path = req[r].path]
    /\ Answer(r)
    /\ UNCHANGED disk

\* The row is updated unless it is gone or another has the new path.
RenameUpdate(r) ==
    /\ At(r, "rename", "register")
    /\ LET i == req[r].id
           free == RowsAt(req[r].path) \subseteq {i}
       IN  \/ /\ i \in Rows /\ free
              /\ db' = [db EXCEPT ![i].path = req[r].path,
                                  ![i].file = IF req[r].linked THEN @ ELSE req[r].path]
              /\ Answer(r)
           \/ /\ i \notin Rows \/ ~free \/ DbFails
              /\ AnswerError(r)
              /\ UNCHANGED db
    /\ UNCHANGED disk

Handle(r) ==
    \/ UploadLookup(r) \/ UploadRemoveOld(r) \/ UploadUnregisterOld(r) \/ UploadOpen(r)
    \/ UploadReceive(r) \/ UploadRegister(r) \/ UploadDiscard(r)
    \/ LinkStat(r) \/ LinkRegister(r)
    \/ DeleteLookup(r) \/ DeleteRemove(r) \/ DeleteUnregister(r)
    \/ RenameLookup(r) \/ RenameMove(r) \/ RenameUpdate(r)

Next == \E r \in Req : Arrive(r) \/ Handle(r)

Spec == Init /\ [][Next]_vars

-----------------------------------------------------------------------------
Quiet == \A r \in Req : req[r] = Idle

\* An uploaded entry whose file is gone: the CDN answers 404 for it.
Dangling == {i \in Rows : ~db[i].linked /\ db[i].file \notin disk}

\* Requests on different paths do not disturb each other, whatever their
\* interleaving: if no two requests ever overlapped, none was answered with
\* an error and no link was overwritten, every uploaded entry has its file.
NoSilentDamage == Quiet /\ ~disturbed => Dangling = {}

\* Where a path with a row cannot be registered again, an uploaded entry
\* always names the storage file of its own path, although a rename writes
\* what it decided from a row read two steps before.
UploadedEntryOwnsFile ==
    on_conflict = "reject" => \A i \in Rows : ~db[i].linked => db[i].file = db[i].path

\* An original file disappears only when an upload overwrites a link to it.
OriginalsLostToOverwrite ==
    [][\A f \in Original : f \in disk /\ f \notin disk'
          => \E r \in Req : At(r, "upload", "remove") /\ req[r].flag]_vars

\* The dashboard, about links: "The original file will NOT be deleted from
\* disk."
OriginalsKept == Original \subseteq disk
=============================================================================
