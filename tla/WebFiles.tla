------------------------------ MODULE WebFiles ------------------------------
(***************************************************************************)
(* Pages and static files: server_serve_file of ar-bemf/server.c with the  *)
(* list of files made at start-up and the check of a path, and the         *)
(* handlers that call it.  Source uploads and deletions of the same server *)
(* change the files meanwhile, also between the check and the fopen.       *)
(*                                                                         *)
(* A path is the sequence of its parts between slashes, from the directory *)
(* the server runs in; parts that contain ".." or '%' are Odd.  Paths are  *)
(* shorter than the buffers.                                               *)
(***************************************************************************)
EXTENDS Naturals, Sequences, SequencesExt

CONSTANTS
    Part,       \* parts of requested paths
    Odd,        \* those with ".." or '%' in them
    MaxParts,   \* bound: parts of a requested path
    Dir,        \* directories of the project
    File,       \* files of the project that may exist
    Tab,        \* parts that name a dashboard tab
    RankOf      \* the lowest rank a tab is shown to

WEB_BASE_PATH == <<"ar-ws", "web">>
Tabs == WEB_BASE_PATH \o <<"manager", "dashboard", "tabs">>

ASSUME PartAssumption == Odd \subseteq Part /\ ".." \in Odd /\ Tab \subseteq Part
ASSUME PartsAssumption == MaxParts \in Nat \ {0}
ASSUME DirAssumption == <<>> \in Dir /\ File \cap Dir = {}
ASSUME PlainAssumption ==
    \A p \in File \cup Dir : \A i \in DOMAIN p : p[i] \notin Odd \cup {"", "."}
ASSUME RankAssumption == RankOf \in [Tab -> 0..2]

VARIABLES
    files,          \* the files that exist
    allowed_paths,  \* those under WEB_BASE_PATH when the server started
    page            \* the request being served

webVars == <<files, allowed_paths, page>>

WIdle == [step |-> "idle"]
Requested == UNION {[1..n -> Part] : n \in 1..MaxParts}
PagePath == {WEB_BASE_PATH \o p : p \in Requested} \cup {Tabs \o p : p \in Requested}
PageRequest == [step : {"check", "open", "served", "refused"}, path : PagePath, steady : BOOLEAN]

WebTypeOK ==
    /\ files \subseteq File /\ allowed_paths \subseteq File
    /\ page \in PageRequest \cup {WIdle}

UnderWeb(p) == IsPrefix(WEB_BASE_PATH, p)

\* scan_web_directory: all regular files under the web directory.
scan_web_directory == {f \in files : UnderWeb(f)}

WebInit ==
    /\ files \in SUBSET File
    /\ allowed_paths = scan_web_directory
    /\ page = WIdle

-----------------------------------------------------------------------------
\* The parts that are left when "", "." and ".." are resolved by name.
canonicalize_path(p) ==
    LET top[i \in 0..Len(p)] ==
            IF i = 0 THEN <<>>
            ELSE CASE p[i] = ".." -> (IF top[i - 1] = <<>> THEN <<>> ELSE Front(top[i - 1]))
                   [] p[i] \in {"", "."} -> top[i - 1]
                   [] OTHER -> Append(top[i - 1], p[i])
    IN  top[Len(p)]

\* What the kernel makes of a path: the file or directory it names, if every
\* part before the last is a directory that exists.
Names(p) ==
    LET at[i \in 0..Len(p)] ==
            IF i = 0 THEN <<>>
            ELSE CASE p[i] = ".." -> (IF at[i - 1] = <<>> THEN <<>> ELSE Front(at[i - 1]))
                   [] p[i] \in {"", "."} -> at[i - 1]
                   [] OTHER -> Append(at[i - 1], p[i])
    IN  IF \A i \in 0..(Len(p) - 1) : at[i] \in Dir THEN {at[Len(p)]} ELSE {}

\* Wrong: only files that were there at start-up.
is_path_allowedListed(p) == (\A i \in DOMAIN p : p[i] \notin Odd) /\ p \in allowed_paths

\* Refused are paths with ".." or '%', and directories; then the list decides,
\* or the place the path resolves to.
is_path_allowed(p) ==
    /\ \A i \in DOMAIN p : p[i] \notin Odd
    /\ Names(p) \cap Dir = {}
    /\ p \in allowed_paths \/ UnderWeb(canonicalize_path(p))

Fetch(p) == page' = [step |-> "check", path |-> p, steady |-> TRUE]

\* The path of the request under the web directory; sendpage asks for such a
\* path too.
static_handler ==
    /\ page = WIdle
    /\ \E p \in Requested : Fetch(WEB_BASE_PATH \o p)
    /\ UNCHANGED <<files, allowed_paths>>

\* A tab of the dashboard, to an authenticated user of sufficient rank.
api_component_handler ==
    /\ page = WIdle
    /\ \E t \in Tab, role \in 0..2 : role <= RankOf[t] /\ Fetch(Tabs \o <<t>>)
    /\ UNCHANGED <<files, allowed_paths>>

serve_check ==
    /\ page # WIdle /\ page.step = "check"
    /\ page' = [page EXCEPT !.step = IF is_path_allowed(page.path) THEN "open" ELSE "refused"]
    /\ UNCHANGED <<files, allowed_paths>>

\* fopen; without the file the handler sends the error page.
serve_open ==
    /\ page # WIdle /\ page.step = "open"
    /\ page' = [page EXCEPT !.step = IF Names(page.path) \cap files # {} THEN "served"
                                     ELSE "refused"]
    /\ UNCHANGED <<files, allowed_paths>>

serve_end ==
    /\ page # WIdle /\ page.step \in {"served", "refused"}
    /\ page' = WIdle
    /\ UNCHANGED <<files, allowed_paths>>

\* A source upload or deletion.
Rewritten ==
    /\ \E f \in File : files' = IF f \in files THEN files \ {f} ELSE files \cup {f}
    /\ page' = IF page = WIdle THEN WIdle ELSE [page EXCEPT !.steady = FALSE]
    /\ UNCHANGED allowed_paths

WebNext ==
    \/ static_handler \/ api_component_handler \/ serve_check \/ serve_open \/ serve_end
    \/ Rewritten

WebSpec == WebInit /\ [][WebNext]_webVars

-----------------------------------------------------------------------------
\* What is served is a regular file under the web directory, as the kernel
\* resolves the path, whatever dots and empty parts the path has and whatever
\* changes meanwhile; and a file that is there all along is served, also one
\* that came after the list was made, unless a part of the path is Odd.
WebFilesServed ==
    page # WIdle =>
        /\ page.step = "served" => \A f \in Names(page.path) : f \in File /\ UnderWeb(f)
        /\ page.step = "refused" /\ page.steady /\ (\A i \in DOMAIN page.path : page.path[i] \notin Odd)
           => \A f \in Names(page.path) \cap files : ~UnderWeb(f)
=============================================================================
