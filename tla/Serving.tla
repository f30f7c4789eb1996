------------------------------ MODULE Serving -------------------------------
(***************************************************************************)
(* Downloads from the CDN (ar-ws/routes/route_cdn.c) while administrators  *)
(* upload to the same public path and delete it (route_cdn_admin.c).  One  *)
(* path is modelled, with its row in the database and its file in          *)
(* storage/cdn.  Renames and links, which give a file a second name, are   *)
(* left out; CdnStore has them.                                            *)
(*                                                                         *)
(* A download asks the size of the file by name, opens the file by name,   *)
(* announces the size and then reads what the file has.  An upload unlinks *)
(* the old file, drops the old row, opens the name anew and writes block   *)
(* by block as the blocks arrive; the connection may break at any of them. *)
(* A name is not a file: what is open stays readable after an unlink.  A   *)
(* delete takes the row, and the file too only if the request says so; the *)
(* dashboard's does not.  An upload that comes next finds no row, removes  *)
(* nothing and writes into the file that was left.                         *)
(*                                                                         *)
(* The database answers; its failures are the subject of CdnStore.         *)
(***************************************************************************)
EXTENDS Naturals, Sequences, FiniteSets

CONSTANTS
    Uploader, Downloader,   \* connections that serve such requests
    Remover,    \* connections that serve a delete each
    Blocks,                 \* length of an upload's body in blocks
    MaxVersion,             \* bound: uploads ever begun
    MaxChange,              \* bound: uploads and deletes ever begun
    MaxDownload             \* bound: downloads ever counted

ASSUME BlocksAssumption == Blocks \in Nat \ {0}
ASSUME ServingBounds == MaxVersion \in Nat /\ MaxDownload \in Nat

VARIABLES
    name,       \* the file the storage path names, or NoFile
    data,       \* the blocks of each file, by the upload that wrote them; 0: a hole
    row,        \* the registered size, or NoRow
    upload,     \* what each uploading connection is doing
    removal,    \* what each deleting connection is doing
    download,   \* what each downloading connection is doing
    version,    \* history: uploads begun
    downloads   \* downloads counted in the database

servingVars == <<name, data, row, upload, removal, download, version, downloads>>

NoFile == 0
Inode == 1..MaxVersion      \* a file is named for the upload that created it
NoRow == [by |-> 0]
SIdle == [step |-> "idle"]
SOver == [step |-> "over"]
Version == 0..MaxVersion
Content == UNION {[1..n -> Version] : n \in 0..Blocks}

\* An upload has its stream and the place in it; history: whether its body
\* was received whole, and whether no other upload and no delete ran at the
\* same time.
Upload == [step : {"lookup", "remove", "unregister", "open", "write", "register"},
           version : Version, file : Inode \cup {NoFile}, pos : 0..Blocks, broken : BOOLEAN,
           alone : BOOLEAN]

\* A row has the size; history: the upload that registered it, and of that
\* upload whether its body broke off and whether it ran alone.
Row == [size : 0..Blocks, by : Inode, broken : BOOLEAN, alone : BOOLEAN]

\* A delete names the row by its id, the upload that registered it, or by
\* the path: 0.
Removal == [step : {"lookup", "remove", "unregister"}, id : Version]

\* A download has the file it reads and what it sent of it; history: what the
\* file had when its size was asked for, and whether an upload was in progress
\* at that time or until the file was open, or a delete left the file.
Download == [step : {"stat", "open", "send", "count"}, promised : Content,
             file : Inode \cup {NoFile}, sent : Content, unsure : BOOLEAN]

ServingTypeOK ==
    /\ name \in Inode \cup {NoFile}
    /\ data \in [Inode -> Content]
    /\ row \in Row \cup {NoRow}
    /\ upload \in [Uploader -> Upload \cup {SIdle}]
    /\ removal \in [Remover -> Removal \cup {SIdle, SOver}]
    /\ download \in [Downloader -> Download \cup {SIdle}]
    /\ version \in Version /\ downloads \in 0..MaxDownload

ServingInit ==
    /\ name = NoFile /\ data = [i \in Inode |-> <<>>] /\ row = NoRow
    /\ upload = [u \in Uploader |-> SIdle] /\ removal = [r \in Remover |-> SIdle]
    /\ download = [d \in Downloader |-> SIdle]
    /\ version = 0 /\ downloads = 0

-----------------------------------------------------------------------------
Uploading == {u \in Uploader : upload[u] # SIdle}
Removing == {r \in Remover : removal[r] \notin {SIdle, SOver}}
UpAt(u, step) == upload[u] # SIdle /\ upload[u].step = step
DelAt(r, step) == r \in Removing /\ removal[r].step = step
DownAt(d, step) == download[d] # SIdle /\ download[d].step = step

UpGo(u, step) == upload' = [upload EXCEPT ![u].step = step]

\* Downloads that are between their look at the size and their open file.
Unsure == [d \in Downloader |-> IF DownAt(d, "open") THEN [download[d] EXCEPT !.unsure = TRUE]
                                ELSE download[d]]

Changes == version + Cardinality({r \in Remover : removal[r] # SIdle})

\* An authenticated request with the sudo password and a legal path.
UploadBegin(u) ==
    /\ upload[u] = SIdle /\ version < MaxVersion /\ Changes < MaxChange
    /\ version' = version + 1
    /\ upload' = [v \in Uploader |->
          CASE v = u -> [step |-> "lookup", version |-> version + 1, file |-> NoFile, pos |-> 0,
                         broken |-> FALSE, alone |-> Uploading \cup Removing = {}]
            [] v \in Uploading -> [upload[v] EXCEPT !.alone = FALSE]
            [] OTHER -> SIdle]
    /\ download' = Unsure
    /\ UNCHANGED <<name, data, row, removal, downloads>>

\* Wrong: the old file is not removed but written over.
UploadLookupInPlace(u) ==
    /\ UpAt(u, "lookup")
    /\ UpGo(u, "open")
    /\ UNCHANGED <<name, data, row, removal, download, version, downloads>>

\* The request has X-Overwrite, or is refused if there is a row.
UploadLookup(u) ==
    /\ UpAt(u, "lookup")
    /\ \/ row # NoRow /\ UpGo(u, "remove")
       \/ row # NoRow /\ upload' = [upload EXCEPT ![u] = SIdle]        \* 409
       \/ row = NoRow /\ UpGo(u, "open")
    /\ UNCHANGED <<name, data, row, removal, download, version, downloads>>

UploadRemove(u) ==
    /\ UpAt(u, "remove")
    /\ name' = NoFile
    /\ UpGo(u, "unregister")
    /\ UNCHANGED <<data, row, removal, download, version, downloads>>

UploadUnregister(u) ==
    /\ UpAt(u, "unregister")
    /\ row' = NoRow
    /\ UpGo(u, "open")
    /\ UNCHANGED <<name, data, removal, download, version, downloads>>

\* fopen "wb": a new file, or the one of that name made empty.
UploadOpen(u) ==
    /\ UpAt(u, "open")
    /\ LET f == IF name = NoFile THEN upload[u].version ELSE name IN
          /\ name' = f
          /\ data' = [data EXCEPT ![f] = <<>>]
          /\ upload' = [upload EXCEPT ![u].step = "write", ![u].file = f]
    /\ UNCHANGED <<row, removal, download, version, downloads>>

\* s with v at place i, after holes if s is shorter.
Put(s, i, v) == [j \in 1..(IF i > Len(s) THEN i ELSE Len(s)) |->
                   CASE j = i -> v [] j # i /\ j <= Len(s) -> s[j] [] OTHER -> 0]

\* One more block arrives, the connection breaks, or the body is refused as
\* too large before any of it is read; what came is kept in the first two.
UploadWrite(u) ==
    /\ UpAt(u, "write")
    /\ \/ /\ upload[u].pos < Blocks
          /\ data' = [data EXCEPT ![upload[u].file] =
                         Put(@, upload[u].pos + 1, upload[u].version)]
          /\ upload' = [upload EXCEPT ![u].pos = @ + 1,
                           ![u].step = IF upload[u].pos + 1 = Blocks THEN "register" ELSE @]
          /\ UNCHANGED name
       \/ /\ upload' = [upload EXCEPT ![u].step = "register", ![u].broken = TRUE]
          /\ UNCHANGED <<name, data>>
       \/ /\ upload[u].pos = 0
          /\ name' = NoFile
          /\ upload' = [upload EXCEPT ![u] = SIdle]                   \* 413
          /\ UNCHANGED data
    /\ UNCHANGED <<row, removal, download, version, downloads>>

\* Wrong: the size that was announced is registered.
SizeAnnounced == Blocks

\* The size is asked of the name; a file that is gone has size 0.
SizeByName == IF name = NoFile THEN 0 ELSE Len(data[name])

\* Whether a second row of the path is refused or replaces the first is left
\* open; when it is refused the file is removed, by name.
UploadRegister(u) ==
    /\ UpAt(u, "register")
    /\ \/ /\ row' = [size |-> SizeByName, by |-> upload[u].version,
                     broken |-> upload[u].broken, alone |-> upload[u].alone]
          /\ UNCHANGED name
       \/ row # NoRow /\ name' = NoFile /\ UNCHANGED row              \* 500
    /\ upload' = [upload EXCEPT ![u] = SIdle]
    /\ UNCHANGED <<data, removal, download, version, downloads>>

-----------------------------------------------------------------------------
(* Deletes.                                                                 *)

\* An authenticated request with the sudo password, by path or by the id of
\* the row that is there now; it may be gone when its turn comes.
DeleteBegin(r) ==
    /\ removal[r] = SIdle /\ Changes < MaxChange
    /\ \E step \in {"lookup", "unregister"}, id \in {0, row.by} :     \* with remove_file or without
          removal' = [removal EXCEPT ![r] = [step |-> step, id |-> id]]
    /\ upload' = [u \in Uploader |-> IF u \in Uploading THEN [upload[u] EXCEPT !.alone = FALSE]
                                     ELSE SIdle]
    /\ UNCHANGED <<name, data, row, download, version, downloads>>

Chosen(r) == row # NoRow /\ removal[r].id \in {0, row.by}

DelGo(r, step) == removal' = [removal EXCEPT ![r].step = step]

DeleteLookup(r) ==
    /\ DelAt(r, "lookup")
    /\ \/ Chosen(r) /\ DelGo(r, "remove")
       \/ ~Chosen(r) /\ DelGo(r, "unregister")
    /\ UNCHANGED <<name, data, row, upload, download, version, downloads>>

DeleteRemove(r) ==
    /\ DelAt(r, "remove")
    /\ name' = NoFile
    /\ DelGo(r, "unregister")
    /\ UNCHANGED <<data, row, upload, download, version, downloads>>

\* The downloads in progress, when a row goes whose file stays.
Forsaken == [d \in Downloader |-> IF download[d] # SIdle /\ name # NoFile
                                  THEN [download[d] EXCEPT !.unsure = TRUE] ELSE download[d]]

DeleteUnregister(r) ==
    /\ DelAt(r, "unregister")
    /\ \/ Chosen(r) /\ row' = NoRow /\ download' = Forsaken
       \/ ~Chosen(r) /\ UNCHANGED <<row, download>>                  \* 404
    /\ removal' = [removal EXCEPT ![r] = SOver]
    /\ UNCHANGED <<name, data, upload, version, downloads>>

-----------------------------------------------------------------------------
\* A path without a row is answered 404 at once and not counted.
DownloadLookup(d) ==
    /\ download[d] = SIdle /\ row # NoRow /\ downloads < MaxDownload
    /\ download' = [download EXCEPT ![d] = [step |-> "stat", promised |-> <<>>, file |-> NoFile,
                                            sent |-> <<>>, unsure |-> FALSE]]
    /\ UNCHANGED <<name, data, row, upload, removal, version, downloads>>

DownloadStat(d) ==
    /\ DownAt(d, "stat")
    /\ download' = [download EXCEPT ![d] =
          IF name = NoFile THEN [@ EXCEPT !.step = "count"]             \* 404
          ELSE [@ EXCEPT !.step = "open", !.promised = data[name],
                         !.unsure = download[d].unsure \/ Uploading # {}]]
    /\ UNCHANGED <<name, data, row, upload, removal, version, downloads>>

\* The header with the size is sent once the file is open, else none is.
DownloadOpen(d) ==
    /\ DownAt(d, "open")
    /\ download' = [download EXCEPT ![d] =
          IF name = NoFile THEN [@ EXCEPT !.step = "count", !.promised = <<>>]   \* 500
          ELSE [@ EXCEPT !.step = "send", !.file = name]]
    /\ UNCHANGED <<name, data, row, upload, removal, version, downloads>>

\* Blocks are read and sent until the file has no more.
DownloadSend(d) ==
    /\ DownAt(d, "send")
    /\ LET at == Len(download[d].sent) + 1
           file == data[download[d].file]
       IN  download' = [download EXCEPT ![d] =
              IF at <= Len(file) THEN [download[d] EXCEPT !.sent = Append(@, file[at])]
              ELSE [download[d] EXCEPT !.step = "count"]]
    /\ UNCHANGED <<name, data, row, upload, removal, version, downloads>>

\* db_cdn_log_download, also of a download that was answered 404 or 500.
DownloadCount(d) ==
    /\ DownAt(d, "count") /\ downloads < MaxDownload
    /\ downloads' = downloads + 1
    /\ download' = [download EXCEPT ![d] = SIdle]
    /\ UNCHANGED <<name, data, row, upload, removal, version>>

UploadStep(u) ==
    \/ UploadBegin(u) \/ UploadLookup(u) \/ UploadRemove(u) \/ UploadUnregister(u)
    \/ UploadOpen(u) \/ UploadWrite(u) \/ UploadRegister(u)
DownloadStep(d) ==
    \/ DownloadLookup(d) \/ DownloadStat(d) \/ DownloadOpen(d) \/ DownloadSend(d)
    \/ DownloadCount(d)

DeleteStep(r) ==
    DeleteBegin(r) \/ DeleteLookup(r) \/ DeleteRemove(r) \/ DeleteUnregister(r)

ServingNext ==
    \/ \E u \in Uploader : UploadStep(u)
    \/ \E r \in Remover : DeleteStep(r)
    \/ \E d \in Downloader : DownloadStep(d)

ServingSpec == ServingInit /\ [][ServingNext]_servingVars

-----------------------------------------------------------------------------
\* A download sends exactly the bytes it announced, of one state of the file,
\* unless an upload was in progress between its look at the size and its open
\* file, or a delete took the row and left the file while it was in progress.
\* Any other upload takes the name from the file before it opens a new one.
DownloadWhole ==
    \A d \in Downloader :
        DownAt(d, "count") /\ ~download[d].unsure => download[d].sent = download[d].promised

\* Once no upload and no delete is in progress, the row an upload registered
\* alone tells the size of the file, the file has only blocks of that upload,
\* and it has them all unless the connection broke: a short file is never
\* registered as long, not even one written over what a delete left.
RowTellsFile ==
    row # NoRow /\ row.alone /\ Uploading \cup Removing = {} =>
        /\ name # NoFile
        /\ data[name] = [i \in 1..row.size |-> row.by]
        /\ row.size < Blocks => row.broken
=============================================================================
