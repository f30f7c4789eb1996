---------------------------- MODULE CdnUploader -----------------------------
(***************************************************************************)
(* The upload loop of the dashboard's CDN tab, cdnUploadFiles in           *)
(* dashboard/script.js, with the administrator who answers its dialogs and *)
(* the upload handler of the server.                                       *)
(*                                                                         *)
(* A batch is one call of cdnUploadFiles.  It is suspended at every await, *)
(* and a second batch, a click on another directory or another             *)
(* administrator's upload can come in between.  The batches share the      *)
(* current directory, the remembered sudo password and the single dialog   *)
(* of modalManager, which forgets the batch that waits on it when another  *)
(* one opens it.                                                           *)
(*                                                                         *)
(* A request is served in three steps: the server looks for an entry of    *)
(* its path, opens the file, and registers the entry once the body is      *)
(* there.  Other requests are served in between, and one whose answer the  *)
(* page no longer waits for is served all the same.  How row and file may  *)
(* part is the subject of CdnStore; another administrator's change of an   *)
(* entry is one step here.                                                 *)
(***************************************************************************)
EXTENDS Naturals, FiniteSets, Sequences

CONSTANTS
    Batch,      \* calls of cdnUploadFiles
    Dir,        \* directories of the CDN
    Home,       \* the one shown first
    Name,       \* names of the chosen files
    Upload,     \* the files of every batch, a sequence of names
    Others,     \* bound: the paths other administrators put entries at
    MaxLost,    \* bound: requests served for a batch that has given them up
    Null        \* null: no directory, no batch, no entry

ASSUME HomeAssumption == Home \in Dir
ASSUME NullAssumption == Null \notin Batch \cup Dir
ASSUME BatchAssumption == "another" \notin Batch
ASSUME UploadAssumption == Upload \in Seq(Name) /\ Len(Upload) > 0
ASSUME OthersAssumption == Others \subseteq Dir \X Name
ASSUME LostAssumption == MaxLost \in Nat

VARIABLES
    cdnCurrentDir,
    cdnSudoPass,    \* "none", or whether the remembered password is "right" or "wrong"
    modal,          \* the batch modalManager will resume
    batch,          \* local variables of each batch
    requests,       \* uploads the server has not answered
    entries         \* who registered the entry of each path

uploaderVars == <<cdnCurrentDir, cdnSudoPass, modal, batch, requests, entries>>
serverVars == <<requests, entries>>

Path == Dir \X Name
Buttons == {"overwrite", "overwrite_all", "skip", "skip_all"}
Overwrites(d) == d \in {"overwrite", "overwrite_all"}
Skips(d) == d \in {"skip", "skip_all"}

\* at: the await the batch is suspended in, or "next" between two files.
\* agreed is a history: its user has agreed to overwrite something.
Local == [at : {"new", "password", "next", "upload", "conflict", "retry", "end"},
          i : DOMAIN Upload \cup {Len(Upload) + 1},
          to : Dir \cup {Null},                 \* the directory in path
          decision : Buttons \cup {"none"},     \* cdnConflictDecision
          agreed : BOOLEAN]

Fresh == [at |-> "new", i |-> 1, to |-> Null, decision |-> "none", agreed |-> FALSE]
Over == [Fresh EXCEPT !.at = "end"]

\* A request: its file and path, its headers, and what the server does next.
\* Histories: whether its user had agreed to overwrite something when it was
\* sent; whether since the server looked for it an entry of its path came up.
Request == [by : Batch, i : DOMAIN Upload, to : Dir,
            pass : {"none", "right", "wrong"}, overwrite : BOOLEAN,
            at : {"look", "open", "register"},
            asked : BOOLEAN, late : BOOLEAN]
Owner == Batch \cup {Null, "another"}

UploaderTypeOK ==
    /\ cdnCurrentDir \in Dir
    /\ cdnSudoPass \in {"none", "right", "wrong"}
    /\ modal \in Batch \cup {Null}
    /\ batch \in [Batch -> Local]
    /\ requests \subseteq Request
    /\ entries \in [Path -> Owner]

UploaderInit ==
    /\ cdnCurrentDir = Home
    /\ cdnSudoPass = "none"
    /\ modal = Null
    /\ batch = [b \in Batch |-> Fresh]
    /\ requests = {}
    /\ entries = [p \in Path |-> Null]

-----------------------------------------------------------------------------
\* cdnBrowse stores the directory before its first await.
Browse(d) ==
    /\ cdnCurrentDir' = d
    /\ UNCHANGED <<cdnSudoPass, modal, batch, serverVars>>

Target(r) == <<r.to, Upload[r.i]>>

\* The requests R when an entry of path p has come up.
Late(R, p) == {IF Target(r) = p /\ r.at # "look" THEN [r EXCEPT !.late = TRUE] ELSE r : r \in R}

\* Another administrator adds or deletes an entry and its file.
OthersChange(p) ==
    /\ \/ /\ entries[p] = Null
          /\ entries' = [entries EXCEPT ![p] = "another"]
          /\ requests' = Late(requests, p)
       \/ /\ entries[p] # Null
          /\ entries' = [entries EXCEPT ![p] = Null]
          /\ UNCHANGED requests
    /\ UNCHANGED <<cdnCurrentDir, cdnSudoPass, modal, batch>>

StartBatch(b) ==
    /\ batch[b].at = "new"
    /\ IF cdnSudoPass = "none"
       THEN /\ batch' = [batch EXCEPT ![b].at = "password"]
            /\ modal' = b
       ELSE batch' = [batch EXCEPT ![b].at = "next"] /\ UNCHANGED modal
    /\ UNCHANGED <<cdnCurrentDir, cdnSudoPass, serverVars>>

\* The dialog is answered: cancelled, or confirmed with a right or a wrong
\* password, which the dashboard keeps for later batches without knowing.
AnswerPassword(b) ==
    /\ modal = b
    /\ modal' = Null
    /\ \/ batch' = [batch EXCEPT ![b] = Over] /\ UNCHANGED cdnSudoPass
       \/ /\ cdnSudoPass' \in {"right", "wrong"}
          /\ batch' = [batch EXCEPT ![b].at = "next"]
    /\ UNCHANGED <<cdnCurrentDir, serverVars>>

Finished(l) == [l EXCEPT !.i = @ + 1, !.at = "next", !.to = Null]

\* cdnUploadSingle sends the file of l for batch b.
Sent(b, l) ==
    [by |-> b, i |-> l.i, to |-> l.to, pass |-> cdnSudoPass,
     overwrite |-> Overwrites(l.decision), at |-> "look",
     asked |-> l.agreed, late |-> FALSE]

\* b goes on as l, with a request if it waits for an answer then.
GoesOn(b, l) ==
    /\ batch' = [batch EXCEPT ![b] = l]
    /\ requests' = IF l.at \in {"upload", "retry"} THEN requests \cup {Sent(b, l)} ELSE requests

\* Wrong: a skipped file is tried again for ever.
NextFileStays(b) ==
    /\ batch[b].at = "next"
    /\ LET l == batch[b]
       IN  GoesOn(b, IF l.i > Len(Upload) THEN Over
                     ELSE IF Skips(l.decision) THEN l
                     ELSE [l EXCEPT !.at = "upload", !.to = cdnCurrentDir])
    /\ UNCHANGED <<cdnCurrentDir, cdnSudoPass, modal, entries>>

\* The next file: its path is put together from the directory shown now.
NextFile(b) ==
    /\ batch[b].at = "next"
    /\ LET l == batch[b]
       IN  GoesOn(b, IF l.i > Len(Upload) THEN Over
                     ELSE IF Skips(l.decision) THEN Finished(l)
                     ELSE [l EXCEPT !.at = "upload", !.to = cdnCurrentDir])
    /\ UNCHANGED <<cdnCurrentDir, cdnSudoPass, modal, entries>>

\* Whether the page still waits for the answer to r.
Awaits(r) == batch[r.by].at \in {"upload", "retry"} /\ batch[r.by].i = r.i

\* The fetch fails: the request never arrives, or only its answer is lost.
GivesUp(b) ==
    /\ batch[b].at \in {"upload", "retry"}
    /\ batch' = [batch EXCEPT ![b] = Finished(@)]
    /\ \/ \E r \in requests : r.by = b /\ Awaits(r) /\ r.at = "look" /\ requests' = requests \ {r}
       \/ Cardinality({r \in requests : ~Awaits(r)}) < MaxLost /\ UNCHANGED requests
    /\ UNCHANGED <<cdnCurrentDir, cdnSudoPass, modal, entries>>

\* b when its user has pressed button d.
Answered(b, d) == [batch[b] EXCEPT !.decision = d, !.agreed = @ \/ Overwrites(d)]

\* Wrong: cdnConflictDecision is a variable of the page, not of the batch.
AnswerConflictForAll(b) ==
    /\ batch[b].at = "conflict"
    /\ \E d \in Buttons :
          LET l == IF Skips(d) THEN Finished(Answered(b, d)) ELSE [Answered(b, d) EXCEPT !.at = "retry"]
          IN  /\ batch' = [c \in Batch |-> IF c = b THEN l ELSE [batch[c] EXCEPT !.decision = d]]
              /\ requests' = IF Skips(d) THEN requests ELSE requests \cup {Sent(b, l)}
    /\ UNCHANGED <<cdnCurrentDir, cdnSudoPass, modal, entries>>

\* One of the five buttons of cdnShowConflictModal.
AnswerConflict(b) ==
    /\ batch[b].at = "conflict"
    /\ \/ GoesOn(b, Over)       \* Cancel Upload
       \/ \E d \in Buttons :
             GoesOn(b, IF Skips(d) THEN Finished(Answered(b, d))
                       ELSE [Answered(b, d) EXCEPT !.at = "retry"])
    /\ UNCHANGED <<cdnCurrentDir, cdnSudoPass, modal, entries>>

-----------------------------------------------------------------------------
(* The server, and what its answer does to a batch that still waits for it. *)

Reply(r, l) ==
    batch' = IF Awaits(r) THEN [batch EXCEPT ![r.by] = l] ELSE batch

\* Refused before anything is looked at (400, 401, 403), without a file to write
\* to (500), or after the file was opened (413, or 500 when the entry cannot be
\* registered): then the file of that name is removed.
Refuse(r) ==
    /\ requests' = requests \ {r}
    /\ Reply(r, Finished(batch[r.by]))
    /\ UNCHANGED entries

\* 409.
Conflict(r) ==
    /\ r.at = "look" /\ r.pass = "right" /\ entries[Target(r)] # Null /\ ~r.overwrite
    /\ requests' = requests \ {r}
    /\ Reply(r, IF batch[r.by].at = "upload" THEN [batch[r.by] EXCEPT !.at = "conflict"]
                ELSE Finished(batch[r.by]))
    /\ UNCHANGED entries

StepTo(r, at) == requests' = (requests \ {r}) \cup {[r EXCEPT !.at = at]}

\* Wrong: an entry is taken away without X-Overwrite too.
AdmitsAll(r) ==
    /\ r.at = "look" /\ r.pass = "right"
    /\ entries' = [entries EXCEPT ![Target(r)] = Null]
    /\ StepTo(r, "open")
    /\ UNCHANGED batch

\* There is no entry, or it goes, and its file.
Admit(r) ==
    /\ r.at = "look" /\ r.pass = "right" /\ (entries[Target(r)] # Null => r.overwrite)
    /\ entries' = [entries EXCEPT ![Target(r)] = Null]
    /\ StepTo(r, "open")
    /\ UNCHANGED batch

\* fopen "wb" empties the file of that name, whoever wrote it.
Open(r) ==
    /\ r.at = "open"
    /\ StepTo(r, "register")
    /\ UNCHANGED <<batch, entries>>

\* The body is there and the entry is registered, in place of one that came up
\* meanwhile (if that is refused it is Refuse).
Register(r) ==
    /\ r.at = "register"
    /\ entries' = [entries EXCEPT ![Target(r)] = r.by]
    /\ requests' = Late(requests \ {r}, Target(r))
    /\ Reply(r, Finished(batch[r.by]))

Serve(r) ==
    /\ Refuse(r) \/ Conflict(r) \/ Admit(r) \/ Open(r) \/ Register(r)
    /\ UNCHANGED <<cdnCurrentDir, cdnSudoPass, modal>>

BatchStep(b) ==
    \/ AnswerPassword(b) \/ NextFile(b) \/ GivesUp(b) \/ AnswerConflict(b)
    \/ \E r \in requests : r.by = b /\ Serve(r)

UploaderNext ==
    \/ \E d \in Dir : Browse(d)
    \/ \E p \in Others : OthersChange(p)
    \/ \E b \in Batch : StartBatch(b) \/ BatchStep(b)

(***************************************************************************)
(* A dialog is answered some time, a fetch comes back or fails, and the    *)
(* browser resumes what can be resumed.                                    *)
(***************************************************************************)
UploaderSpec == UploaderInit /\ [][UploaderNext]_uploaderVars
UploaderFairness == \A b \in Batch : WF_uploaderVars(BatchStep(b))

-----------------------------------------------------------------------------
\* A batch whose dialog another one took over is never resumed.
Displaced(b) == batch[b].at = "password" /\ modal # b

Uploading == {b \in Batch : batch[b].at \notin {"new", "end"} /\ ~Displaced(b)}

\* Every batch that was started ends, unless its dialog was taken over: at last
\* none is under way.
BatchEnds == Uploading # {} ~> Uploading = {}

\* This step takes away an entry somebody else registered, or empties, replaces
\* or removes its file, which every step after the look does.
Harms(r) ==
    /\ entries[Target(r)] \notin {Null, r.by}
    /\ r.at # "look" \/ entries'[Target(r)] # entries[Target(r)]

\* What others had stored when the server looked for it, a batch overwrites only
\* after its own user has agreed to overwrite something: no decision leaks into
\* it from another batch.  What came up after that look is lost unasked: the
\* server does not look again when it opens the file and registers the entry.
AskedBeforeOverwriting ==
    [][\A r \in requests : Serve(r) /\ Harms(r) => r.asked \/ r.late]_uploaderVars
=============================================================================
