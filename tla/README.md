# AR-CWB in TLA+

Specifications, model-checking runs and proofs for AR-CWB: the orchestrator `ar-core`, the web framework
`ar-bemf`, the site `ar-ws` and the dashboard that administers it.  The modules are translated from the
source; where `docs.md` or a comment says something else, a run shows the difference.

- `*.tla` next to a `*.cfg`: a module and the run TLC makes of it; `MC*.tla` give constants their values.
- `*Proofs.tla`: theorems, checked by tlapm 1.4.5, that hold for every value of the constants.
- `PROJECT.json`: components, runs, hazards, findings, and for each definition the lines it translates.

Each module keeps, just before some definitions, variants of them that begin with the comment `Wrong:`.  They
are bugs someone could introduce; no specification uses them.  For every property of a run one of them is
known to break it, which shows that the property can fail.

    tlc -config Server.cfg MCServer.tla
    tlapm DeployProofs.tla

## The system

| component | source | state | operations | hard because |
|---|---|---|---|---|
| Orchestrator | `ar-core/main.c` | `pending_action`, `global_server_pid`, child processes, binaries on disk | signal handlers, build, kill, wait, fork, `execv` of itself | handlers run between any two statements; builds, forks and execs fail; its variables do not survive re-execution, its children do |
| HTTP server core | `ar-bemf/server.c` | one thread per connection, listening sockets, TLS context | accept, parse, dispatch, send a response or a file | blocking reads on a thread per client, no pool; a request comes in any pieces and may stop anywhere; part of its body is in the buffer of its headers, the rest in the socket |
| Log and statistics tables | `ar-bemf/server.c`, `routes/route_api_monitoring.c` | ring of log lines, ring of accesses, counters of routes, a mutex each | append, count, read as JSON | the ring wraps, the table of routes fills up, long paths are kept cut |
| Router | `ar-bemf/router.c` | 128 lists of routes | `add_route`, `router_dispatch` | collisions, shadowing, domains, three kinds of match in order of preference |
| Endpoint table | `ar-ws/endpoints.c` | none of its own | the `add_route` calls of the site | later routes change what earlier ones get |
| Rate limiter | `ar-bemf/ratelimit.c` | a table of addresses, two counters and two windows each | `ratelimit_check` | eviction, window boundaries.  Nothing calls it |
| CDN administration | `routes/route_cdn_admin.c` | rows in the database, files on disk | upload, link, delete, rename, mkdir, list | several calls per request, no lock on a path, no transaction |
| CDN delivery | `routes/route_cdn.c` | a count of downloads (external) | look a path up, announce a size, stream the file | the file is removed, rewritten or half received while it is sent; a delete may leave it for the next upload to write into |
| Source upload and reload | `routes/route_api_system.c` | the source tree | upload, delete, hashes, restart, signals to its parent | it rewrites in place the tree that core may be building from, and asks core to stop the process that is answering |
| Administrator accounts | `routes/route_api_admin.c`, `ar-ws/main.c` | user table, audit log (external), archive file | first account, list, create, delete, role, password, read and clear the log | a role is read, then acted on; the change and its log entry are two calls; clearing removes its own alert; the server is killed in between |
| Sessions | `routes/route_api_auth.c` | session table (external) | login, logout | all of it is in files the repository lacks |
| Monitoring | `routes/route_api_monitoring.c` | the previous CPU sample | read `/proc`, compare, store | two words shared without a lock |
| Static pages and components | `ar-bemf/server.c`, `routes/route_static.c`, `routes/route_api_component.c` | list of the web files, made at start-up | check a path, serve a file | the path is checked by name and opened by name; sources are uploaded and deleted meanwhile |
| cJSON | `shared/cJSON.c` | items linked both ways, strings | create, add, detach, insert, replace, copy, free; parse; print | `prev` of a first item is the last; memory runs out in the middle of a call; the printer writes into estimates |
| Upload dialog | `web/manager/dashboard/script.js` | current directory, sudo password, one modal dialog, a loop per drop | `cdnUploadFiles` and its dialogs | suspended at every `await` while the user does something else; the server serves an upload in steps, and serves it also for a page that gave up |
| Dialog manager | same | who waits for the answer, whether it is a prompt, what is shown, pending timers and digests | `modalManager`, and the functions that wait for it | one dialog for all; a 300 ms timer and a password that takes time to hash come back to whatever it shows then |
| Other dashboard views | same, `tabs/script.js`, `login/script.js` | timers, tables, staged files | poll and draw | presentation |
| Start-up, request helpers, TTY and legacy API files | the rest | none, or not built | - | - |

How they interact.  core forks arc_server and knows it only by its pid.  The server's handlers write sources
and send `SIGUSR1` or `SIGUSR2` to their parent.  core builds, sends `SIGTERM`, waits and forks anew.  Inside the
server the accept loop gives each connection a thread; the thread parses, asks the router for a handler and
runs it; handlers share the database connection, the disk and the log tables, nothing else.  The dashboard is
a page with one event loop that talks to the handlers by `fetch`.

What makes each part correct: one server at a time and no lost one (orchestrator); no entry without its file and no
file lost that nobody asked to lose (CDN); the user's answers govern what is overwritten (dialog); the routes that
were added decide who answers, but for wildcards of different paths, where the hash does (router); a quota that
neither doubles by slots nor refuses early (rate limiter); the requests of the site's hosts reach the handler
`endpoints.c` adds for them, and those of all others the static files (endpoints); only regular files under the web
directory are served (static pages); no account changes beyond the rank of who asks, ROOT is never lost, the audit
log tells the truth (accounts); the panel sees the newest lines, true counts and a true CPU usage (monitoring); a
download is the file it announced and a row tells its file (delivery); a call of cJSON makes one change that a
forest allows and loses no memory, and what is printed is read back (cJSON); a request is handled whole however it
was cut, and no socket is lost (connections); what was uploaded last is what runs, or the upload met a build in
progress (deployment).

## Modules

Modules without a configuration of their own are checked in a run they share with others: `MCServer` (`Orchestrator` and
`Connection`), `MCDashboard` (`Dialogs` and `CdnUploader`), `MCGate` and `MCSite`.  The parts of such a run share no
state, so a variable of it, `focus`, chooses one of them, and the others stay in their initial state: every
behaviour of each part is checked, and none twice.  Fairness is that of the parts.

### Orchestrator, SingleServer, MCServer

`pc` is the next statement of core.  Everything between which a signal handler can run is a step: the test of
`pending_action` (`PollReload`, `PollRestart`), its reset (`Clear`), the two builds (`CompileServer`, `CompileCore`),
`kill`, `waitpid`, `fork` and the assignment of its result (`StorePid`).  `proc` is the kernel's view of each
pid: free, forked, up, stopping (`SIGTERM` sent), zombie.  A pid is handed out again as soon as it was waited
for, so a stale `global_server_pid` is dangerous in the model as in reality.  `ReExec` resets the variables and
the signal actions; from then until `InstallHandlers` any signal ends core.  A build may fail with or without
destroying the binary, and a timed-out one leaves a compiler running (`stray`) because `kill` reaches only make.
`owed` and `cause` are histories: the reload asked for and not yet done, and what ended core.

`SingleServer` is what core promises to the outside: start a server only if there is none, stop it.  core
implements it with `running` the set of live server processes.

Left out: animation, output, the name of the terminal.  `sleep` and `usleep` only decide how soon.

Run `server`, core: two pids and all seven faults.  Two pids are enough because at most one process exists at
a time and the second is the one a stale pid could hit.  It checks three invariants, the refinement, and
two liveness properties under

- `WF_vars(CoreStep)`: core is a loop that blocks only in `waitpid`;
- weak fairness of `ServerExecs` and `ServerTerminates`: a forked child runs, and arc_server installs no handler
  for `SIGTERM`, so it ends.

No fairness is assumed of signals, crashes or stray compilers.  `ReloadHonoured` assumes in addition that
signals stop at some time (`SignalsEnd`): alternating signals can each be stored just when the loop tests for
the other one, and nothing in the code prevents that for ever.

### Deploy, MCDeploy, DeployProofs

How new code reaches the servers.  `Deploy` extends `Orchestrator` with one source file of arc_server, its object
and what the program was linked from; the handlers of `route_api_system.c`; and what each server process runs.
`make` compares time stamps, so the model has their two comparisons: `fresh`, the object is not older than the
file, and `linked`, the program is there and not older than the object.  `MakeStarts` decides and reads the file
(`seen`), `MakeEnds` writes the object and links, `MakeFails` stops; these are the two ends of the orchestrator's
`CompileServer` and `CompileAndUpdate`, which they refine.  Between them a request may rewrite the file.  What GNU
make, gcc and ld do with the rules of `ar-ws/Makefile` was tried out: a failed compilation leaves the old object, a
failed link removes the program, and without a source an object that is there counts as up to date.

An upload is two steps, `fopen` with truncation (`UploadOpens`) and the end of the copy (`UploadEnds`), after which
the file is the upload's content or, if the connection broke or two uploads had the file open, `Torn`.
`UploadRefused` is the malformed `Content-Length`, noticed after the truncation.  `DeleteFile` takes the file from
under an upload that has it open (`lost`).  `Signal` is the `kill(getppid(), ..)` of all three handlers; it sends
nothing in a mode other than `api` and `core`, or when core is dead.  The answer is no step of its own: nothing in
the code depends on it.  A thread ends with its process (`Ends`).

After 15 seconds core kills make, and the compiler or linker goes on (`MakeKilled`, `left`, `StrayWrites`); at most
one such survivor is modelled at a time.  Histories: `promised`, the file when a request last asked for a
reload; `disturbed`, the file changed under a compiler or a make was killed.

Left out: the other source files (each has the same two comparisons), headers, which no rule of the `Makefile`
names, sources of core, builds that fail for reasons other than the content, uploads that are refused before they
touch the file, and a build that goes on after core's death.

Run `deploy`: one pid, since core has at most one child and the pid is free again before the next fork; two
uploads, one of code that does not compile, so that an old, a new and a broken content meet; one request
that deletes or restarts.  `NewCodeRuns`: undisturbed, once core polls with nothing pending, program and
servers are the file that was last asked for.  `ProgramLostOnlyTorn`: a source that does not compile never costs
the program.  `ImplementsOrchestrator` is the refinement: every step is a step of `Orchestrator` or invisible to
it.  `NewCodeGoesLive`: the promised file comes to run.  Fairness is that of `Orchestrator`, with the build steps
in place of its builds; clients and handlers promise nothing.  Requests are finite in number, so the system comes
to rest, hence no deadlock check.

Run `deploy_stale` (expected violation): without the exception for disturbed builds `NewCodeRuns` is false, even
if every content compiles and nothing times out.

### Router, RateLimiter, MCGate

What a request meets before its handler.  The router and the limiter share no state; `MCGate` runs them in turn
(`focus`) over one pair of instances.  Their proofs are in `SiteProofs`.

In `Router` strings are names; what `*` covers and which host is `www.` of which are relations, the hash is a
function chosen in `Init` among `Hashes`.  `registered` is the history of the added routes, in order, and the
property compares the dispatch through the table with it.  `PreferredRouteServes` does not say that the hash is
never seen.  `router_dispatch` walks the buckets in their order, so of two wildcards of different paths that match a
request, both of its domain or both of none, the one in the earlier bucket serves: the property says which can (the
newest of each path) and no more.  `ratelimit_check` is one step: it holds its mutex from
end to end.  `granted` records what the code let through for one watched client since it last got a slot.
`TwiceQuota` states the bound the code really gives (fixed windows let twice the quota through in an adverse
interval), `NoFalseRefusal` that no client is refused before a full quota of its own requests.

Run `gate`: all sequences of up to three of 48 routes in two buckets: a path, a wildcard of all paths and one of
this path, so that two wildcards of different paths match the same request; three hash functions, that put
everything in one bucket, the first wildcard before the other, and the other before it.  Three routes are what it
takes to have an exact route, a wildcard of a domain and one of all domains compete.  Handlers and methods are
symmetric.  Three clients and two slots so that evictions happen, a window of two seconds and a clock that stops at
2, when every first window is over; one refused request per window (`MaxRefused`).  The run stops at these bounds,
hence no deadlock check.

### Accounts, Telemetry, Serving, WebFiles, Endpoints, MCSite, SiteProofs

Five parts of the site that share no state; `MCSite` runs one of them per behaviour (`focus`), and of `Telemetry`
the log, the counters or the CPU samples.

**Accounts.**  A request's `areq` holds what `authenticate_request` read; a user of too low a rank is forbidden it
(`forbid`, answered 403); then come the sudo password, for `update` the role of the target, the change and the
event, each a step.  `Role` is any set of ints with 0, since neither the handlers nor `schema.sql` check the number
of a body; below 0 counts as ROOT, above 2 as SUP.  `Killed` ends all threads (core stops the server),
`main_bootstrap` is the start.  `core/user_manager.c` and `core/database.c` are not in the repository; they are
modelled from their calls and `schema.sql` and marked external, and each may fail.  What `db_get_user_role` says of
an unknown name is `NoRole`.  Of the audit log only what the last event about an account says is kept: `events`.
Histories: `moved`, the requester or the target changed since it was read; `blurred`, accounts whose events may be
in the wrong order or lost.  Passwords and what the list prints are left out.  `WithinRank`, `MasterStays`,
`AuditTellsRole` and `ClearLeavesTrace` except exactly these windows; they are what the code cannot promise.
`WithinRank` states the ranks of the code; that `docs.md` gives ADMIN more is the run `site_roles`.

**Telemetry.**  The ring of `arc_log`, its file, the counters of `track_route`, and the handlers that read them, each
one step under its mutex.  A line is the number of its call.  `Cut` is what `strncpy` keeps of a path.  The handlers
read tables that `core/logs.h` declares; they are taken to be filled as `server.c` fills its own.  The CPU usage is
four steps or more: `read_stat`, a `load` of each word of the previous sample, a `store` of each.  Differences are
unsigned words of `Word` values (2^64 in the code); the assumption `MaxClock < Word` says the kernel's own counters
do not overflow, while what is computed from a mixed sample may.  `UsageTrue` is for requests that overlap no other.

**Serving.**  One public path, its row and its file.  A file is an inode with blocks, named by the upload that wrote
them; `name` is what the storage path names, so a removed file stays readable for who has it open.  An upload may
break at any block, be refused (413) before the first, and run next to another; a download asks the size, opens,
sends, counts.  A delete names the row by its id or by the path and takes the file only if it says so; the
dashboard's does not.  Then the file stays without a row, and the next upload removes nothing and truncates that very
file, which a download that began before may be reading.  `unsure` and `alone` are histories of overlap and of such a
delete.  Database failures are in `CdnStore`, and so are renames and links, which give a file a second name.

**WebFiles.**  A path is the sequence of its parts; `canonicalize_path` is what the code makes of it, `Names` what the
kernel does.  `check` and `open` are two steps between which sources come and go.

**Endpoints.**  Every `add_route` of `endpoints.c`, in its order, added to the table of `Router`.  `SiteRouting` says of
each method, path and host who answers, a host that the site does not have included: that `docs.md` refuses it is
the run `site_hosts`.

Run `site`: three users, two requests at a time and three in all, so that a request can act on what two others
changed, and five roles, the three that have a name, one above and one below; seven lines through a ring of three,
so that it wraps twice; four paths, of which two are cut to the same name, in a table of three counters; two
requests for the CPU usage and three ticks; three uploads of two blocks and deletes, three together (`MaxChange`),
two of a kind at a time, and a download; paths of up to three parts of six kinds; the site's whole table in one
bucket, where everything that can collide does.  Users, requests, uploads and deletes are symmetric.  `Focus` are
the parts that move, all of them here.  The run stops at these bounds, hence no deadlock check.

Runs `site_hosts` and `site_roles` (expected violations) let one part move each and check what the documents say of
it: hosts that are not the site's get 404; an ADMIN manages users.

### JsonTree, JsonForest, JsonProofs, JsonString, JsonText, JsonTextProofs, MCJson

`JsonForest` is what a caller of cJSON believes in: each container has a sequence of items, each item one owner, a
call changes one sequence or one key.  `JsonTree` has the lists as `cJSON.c` links them: `next`, `prev`, `child`,
and `prev` of the first item leading to the last.  Its histories `live`, `kids` and `keys` are what a caller sees
after each call, the sequence of an item being the walk by `next` (`Kids`); by them it implements `JsonForest`
(`ImplementsForest`).  A step of the forest does not record its call: that an insertion goes to the place its
arguments name, and not to another one, is in the definitions of `JsonTree` and not in the property.
`MemoryBalanced` counts items and strings.  Every allocation of every call may fail.  `held` are the items the
callers own; they keep to the contract of `cJSON.h`.  What `cJSON_Delete` reaches (`Doomed`) and the tree of an item
(`TreeOf`) are the least sets closed under the links and under the sequences, which is what its recursion and its
loop come to, and what can be reasoned about without counting steps.

`JsonText` parses and prints, with the strings in `JsonString`.  A character is a model value with its width in bytes;
keywords and the digits of `\u` are one character, a number is its sign and digits.  Every read of the text has the
guard the code has, so a read beyond the end stops the check.  Functions that call one another for what is nested are
functions of the depth, from the outermost, where the limit of nesting is; loops are functions of their passes.
`ensure` grows the buffer by the code's estimate, and each piece written is compared with what was granted.
`PrintedIsRead` says that printing stays inside the buffer, cJSON's own or the caller's, that it is refused only to
what is too deep or too large, and that parsing gives the value back.  `StringFits` compares the two loops of
`parse_string`: the first estimates what the second writes.  It is asked at every quote of a text, also at those that
no parser reaches, so that no other part of a text keeps a bad string away from it.

Run `json`: four items, one copied and one constant key that differ in case only; texts of up to four pieces of
fourteen, values of up to three values with strings of up to two characters, nesting limit 2, a first buffer of 4
bytes and `INT_MAX` 30, so that every limit is met.  Callers may stop at any time and texts are bounded, hence no
deadlock check.

Left out: references (no caller makes one), `Minify`, `Compare`, raw items, NaN, fractions, exponents and numbers
beyond `int`; of a null key whether it was constant; `cJSON_SetValuestring`; what parsing and printing allocate, so
also a `realloc` that fails and ends a print; and a `\u` with quotes or backslashes for digits.  The last is the one
text in which the two loops of `parse_string` take different characters for escapes; the bound holds for it all the
same, since `parse_hex4` gives 0 and six characters become one byte, for which at most three were taken off.

### CdnStore, MCCdnStore, CdnStoreProofs

One action per database or file-system call of a handler; `req` holds the local variables between them.
The database module is not in the repository.  It is modelled from its calls (the definitions `Found`,
`Registered`, `Deleted` and their failures are marked external), and the one thing that matters and cannot be
read off, whether registering a path that has a row fails or replaces the row, is `on_conflict`, either for
ever.  Disk files are named by public path or by an original outside the storage directory.  `disturbed` is
the history of what may cost an entry its file: overlapping requests, an error answer, an overwritten link.

Run `cdn_store`: two requests at a time over two paths, one original and two row ids, with database and disk
faults.  Two requests are what an interleaving needs; two paths give one for a rename to go to; the ids bound
how often a row is registered.  `NoSilentDamage` says that nothing else than the recorded causes leaves an
entry without its file.  `UploadedEntryOwnsFile` is claimed only for `on_conflict = "reject"`.

Run `cdn_originals` (expected violation): an upload that overwrites a link removes the linked original.

### CdnUploader, MCDashboard, CdnUploaderProofs

A batch is a call of `cdnUploadFiles`; `at` is the `await` it is suspended in.  The current directory, the sudo
password and the dialog are shared as they are in the page.  A batch whose dialog another batch opens is
never resumed: `modalManager` replaces the function that resumes it.  `entries` is the table of the server, changed by
other administrators as well.

A file that is sent is a record of `requests`, which the server serves in three steps with anything in between: it
looks for an entry of the path and refuses (`Conflict`) or takes it away (`Admit`), opens the file (`Open`), and
registers the entry when the body is there (`Register`); at each it may fail (`Refuse`).  A `fetch` may fail while the
request is served on (`GivesUp`).  Histories: `agreed`, a user has agreed to overwrite something; `asked`, that was
so when the request was sent; `late`, an entry of the path came up after the look.  `AskedBeforeOverwriting` says that
no step of the server takes an entry somebody else registered, or writes into its file, without a consent of the
batch's own user, unless it is `late`.  Late entries are lost unasked: the server does not look again.

Run `dashboard`, uploads: two batches of two files, two directories, other administrators at one path (`Others`), at
most one request served for a batch that has given it up (`MaxLost`).  A second file is what a remembered decision
is applied to; two requests are what it takes to have one register between the look and the end of the other.
Fairness: each batch's own steps and those of its requests, weakly; a dialog is answered some time, a `fetch` comes
back or fails. `BatchEnds` excepts displaced batches by name.  Browsing is always possible, so the absence of
deadlock says nothing here and `BatchEnds` is the property that does.

### Connection, MCServer, ConnectionProofs

A record per connection holds the variables of its thread: `step`, `total_read`, `remaining`, the file an upload
writes, the answer.  The bytes a client sends are numbered, and a file is the sequence of the numbers of its
bytes, so that losing, doubling or misplacing one shows.  `Read` is one pass of the loop of `handle_client`: it
takes any number of bytes, up to the room in the buffer, and leaves the loop when the headers and the announced
body are there or the buffer is full.  `StartUpload` and `Receive` are the same loop in `api_upload_handler` and
`cdn_admin_upload_handler`.  A client may send less than it announces, or more, or headers that do not fit;
it may write `Content-Length` in a way `handle_client` does not look for (`spelled`), which the upload handlers, who
ask `get_header`, still find.  `ForgetSocket` is the branch of the redirector without memory, where nobody closes the
socket (the server runs on with one descriptor less); `Lost` are the sockets lost so.

`OpenFails` is an upload whose file cannot be opened, `PageMissing` a page whose file cannot be served: `sendpage`
ignores that and the connection closes unanswered.

The file a `GET` streams is in `WebFiles` and `Serving`, the log in `Telemetry`.

Left out: what a handler does besides answering, and who may call it; a negative or malformed `Content-Length`;
the failure of `malloc` in the main accept loop, which ends the process (a crash in `Orchestrator`).  TLS is a
handshake that may fail; afterwards it moves bytes like a plain socket.

Run `server`, connections: two connections and one descriptor, so that accepting waits for a close; a buffer of four
bytes and a chunk of two, against nineteen requests whose headers and bodies end before, at and after either; a
limit of five bytes for CDN uploads.  Bytes are only compared with these limits, so larger ones add no case.
Fairness: the steps of an accepted connection and `accept`, weakly, for each connection.  Every accepted socket has
`SO_RCVTIMEO` (and `SO_SNDTIMEO`, except the redirector's), so a read ends with bytes or an error.  A handler is
assumed to return.  The run stops when every connection is closed, hence no deadlock check.

### Dialogs, MCDashboard, DialogsProofs

`modalManager` and the functions of the page that wait for it, one per call.  `call` is the `await` an action is
suspended in: its first question (`prompt`), the sudo password, or past it.  `resolve` names the action the
dialog will resume, `shown` the one whose question it shows.  `Confirm` only starts the digest of the password;
`Digested` gives it to whoever waits by then.  `close` only starts a timer; `Hide` is the timer firing.  An action
that is given a value opens its second question in the same turn of the event loop, so `GivenValue` is part of the
step that resumes it.  What an answer is worth to an action that did not ask for it depends on the fields of
the two dialogs: a prompt ends when there is no value, `actionChangeRole` always has one, `cdnLinkClick` has two
fields of its own that may be empty.

Histories: `confirmed`, actions whose password question was confirmed; `early`, those that came up while a password
was being hashed; `dropped`, those whose question was hidden or replaced.  The page behind the dialog can be
reached by keyboard, so `Start` is always possible.  Left out: the `active` class and the 10 ms and 150 ms timers,
which only fade and focus; the overlay of upload conflicts, which is a dialog of its own (`CdnUploader`); the
requests that are sent (`fetch` and what follows it).

Run `dashboard`, dialogs: one action that asks twice, one with fields, one with a choice, and at most two timers and
digests in flight, which is what the second question and a late answer take.  Fairness: timers fire, digests end,
and the user answers what can be seen, weakly each.  A question that is hidden cannot be answered: `QuestionsEnd`
excepts `dropped` by name.  `SudoConfirmed` excepts `early` by name: such an action gets another one's answer and
sends its request without its own confirmation.  The run stops when every action has ended.

Run `dialogs_hidden` (expected violation): the second question of a rename is hidden by the timer of the first.

## Findings

| run | the documents say | the code does |
|---|---|---|
| `deploy_stale` | `README.md:146`: "Server auto-restarts with the new code"; `README.md:98`: restart is "Recompile and restart" | an upload that changes the file while a build compiles it is never built: the object is newer than the file it was not made from, `Makefile:49` |
| `site_hosts` | `docs.md:161`: of hosts "(all others → 404)"; `docs.md:165` "Strict whitelist"; `README.md:35` "routes only match" the site's two names | the last route names no domain (`endpoints.c:69`): a GET for any host gets the static files |
| `site_roles` | `docs.md:74`: "**ADMIN** (role 1): User management, logs"; `README.md:83`: "Admin API (ROOT/ADMIN)" | creating, deleting and re-ranking are refused to all but ROOT (`route_api_admin.c:30`, 69, 106); an ADMIN lists, and sets the passwords of those below |
| `cdn_originals` | `script.js:591`: the original of a link "will NOT be deleted from disk" | `route_cdn_admin.c:132` removes the file of the old entry, linked or not |
| `dialogs_hidden` | `script.js:658` (also 570, 1208): the second question says "Enter Sudo password." | the timer started by the first answer, `script.js:1095`, hides it after 300 ms; the action hangs |

Differences noticed that have no run:

- A literal request for `/*` on the CDN's host gets the static route, since exact matches come first.
- `docs.md:150` has an initial user `arcwb`, `schema.sql` an `admin`; a role may be any number, and one below 0 has
  the rights of ROOT.
- Of two uploads of a path that both found no entry, the later to open empties the file of the other, and nobody is asked.
- Clearing the audit log writes a `SECURITY_ALERT` and erases it with the rest in the next call
  (`route_api_admin.c:190-198`); only the line in `audit_archive.log` remains, if that could be written.
- Two role changes of an account at the same time may be logged in the other order.
- A path of more than 255 characters is stored cut and compared in full, so each of its requests takes a new counter
  until all 256 are taken.
- A download that failed is counted as one.
- An upload whose connection broke is registered with the size it got and answered with 200.
- `send_cdn_file` announces `keep-alive` and `Accept-Ranges`, and neither is kept; component pages carry two
  `Cache-Control` headers.
- `cJSON_GetObjectItemCaseSensitive` stops at a member without a key; `cJSON_Minify`, which nothing calls, takes the
  quote after an escaped backslash for an escaped quote.
- `docs.md:30` has `cleanup` wait 3 s and send `SIGKILL`, the code only sends
  `SIGTERM`, and between `fork` and the store of its result it stops nobody; `docs.md:33` gives a build 30 s, the
  code 15 s; `docs.md:32` has `handle_sigusr2` set the full restart flag, but the flag holds one request and is reset
  after its test, so a restart that was answered with 200 can vanish (`main.c:216`); the conflict dialog offers
  "Overwrite" and "Overwrite All" (`script.js:475-476`), and both are remembered for the files that follow
  (`script.js:430`); `README.md:17` says core monitors the server, but it never notices one that ended by itself; the rate
  limiter is not called; the mkdir dialog sends `confirm_pass` where the handler does not look for it.  The
  delete dialog promises of an uploaded file that it "will be deleted from storage" (`script.js:591`) and sends only
  the id, for which the handler leaves the file (`route_cdn_admin.c:280-300`); a later upload truncates it under a
  download, hence the exception of `DownloadWhole`.

## What is proved

All theorems are of the form `Spec => []P` or `Spec => [][A]_vars`, for every value of the constants that meets the
named assumptions in the modules (sentinels differ from real values, table sizes are positive, bounds are
naturals).  Finiteness is assumed of the memory of cJSON alone (`NodeAssumption`).

- `DeployProofs`, orchestrator: the type invariant, `AtMostOneServer`, `ChildTracked`, `KillsOwnChild`,
  `ServerNeverKillsCore`, and the refinement of `SingleServer`.  None of these is inductive alone.  The invariant
  adds: at most one *child* (zombies included), no child at all while core starts or between `waitpid` and
  `fork`, the forked pid is a child until it is stored, and the pid in the variable is a child's until
  `waitpid` returns.  The second is why re-execution is safe: core has no child left when it forgets them.
- `DeployProofs`, deployment: the type invariant; that `Deploy` implements `Orchestrator`, whose theorems therefore
  hold of it (`DeployOneServer`); `NewCodeRuns` and `ProgramLostOnlyTorn`.  For the refinement a request's thread
  must be on a live process (`Threads`).  The invariant of the other two: time stamps mean what make takes them for
  while nothing is disturbed (`TreeInOrder`); a content is nowhere before its upload ends (`NotYetThere`), so that
  nothing built earlier can be mistaken for it; nothing is read between builds (`NothingRead`); what is promised is
  in the object and the program unless a build is due, and a build under way will not miss it (`PromiseKept`); while
  core polls its servers run the program that is there (`Loaded`).
- `CdnStoreProofs`: type correctness, `UploadedEntryOwnsFile`, `OriginalsLostToOverwrite`.  The invariant relates what
  a handler read some steps ago to the table as it is now: a rename remembers rightly whether its row is a
  link, since an id is never used again; what a delete or rename is about to remove lies in the storage
  directory, since every unlinked row's file does.  And `NoSilentDamage`, for any number of requests.  Its invariant
  (`Accounted`, while nothing disturbed) is that what a handler read is still so (`Memory`), and that of every
  uploaded row without a file some request is in charge, which will take the row or write the file (`InCharge`).
  A step touches only rows and files its request names (`Local`), so requests that do not overlap keep each
  other's memory and charge; an error answer is what may give up a charge, and it counts as a disturbance.
- `CdnUploaderProofs`: type correctness (which needs that a batch which is asking or uploading has a file in
  hand) and `AskedBeforeOverwriting`, for any number of batches and of requests served at the same time.  The invariant:
  a batch that may overwrite was told so by its user (`Decided`), a request carries the decision of its own batch, and
  after the look there is no entry of a request's path unless it is late (`Sound`).
- `SiteProofs`, router: for any hash function, `PreferredRouteServes`, which is three facts about the dispatch: the newest
  exact route serves; then the newest wildcards of the domain and after them the newest of all domains, the hash
  choosing between different paths; 404 only if nothing matches.  The invariant: the table holds exactly the added
  routes, each in the bucket of its key, and before the newest exact route of a request no other exact one stands
  in its list.  That the loops find a first match is the well-foundedness of places.
- `SiteProofs`, routes of the site: `SiteRouting`, from `PreferredRouteServes` and the list of the 37 endpoints: the
  table holds the first so many of them (`SiteInv`), no host's endpoints agree in path and method
  (`EndpointsApart`), and a host belongs to one of the site's names (`OneDomain`).  It assumes of the constants
  (`SiteConstants`, which TLC checks of the run's) that requested paths begin with a slash, that none of the site's
  names begins with "www.", and that a host has one name without it.
- `SiteProofs`, limiter: type correctness and `OneSlotPerIP` (the scan finds a client's own slot before any other);
  `TwiceQuota` and `NoFalseRefusal`.  The history is the running total of requests let through.  The invariant
  (`Tally`) reads it at the ends of windows: since the window of a counter opened, as many were let through as it
  counts, at most a quota; in the span of a window's length before that at most a quota too; nothing after the
  window is over; and every span that ended before it keeps the bound.
- `SiteProofs`, accounts: the type invariant, `MasterStays`, `ClearLeavesTrace`, `WithinRank` and `AuditTellsRole`,
  for any ints as roles.  The invariants tie what a request read to the table as it is: unless it was moved, the
  rank it acts by is the one stored; an event about to be written says what is stored, unless the account is
  blurred.
- `SiteProofs`, log and CPU: the type invariant, `NewestLinesShown` for any size of the ring, by which slot holds
  which line; and `UsageTrue`.  The invariant of the latter: samples are taken in their order (`SamplesOrdered`),
  and a request that is alone finds the sample of the one before it, word by word (`AlonePrevious`).  It needs
  `MaxClock < Word`. And `CountersTrue`, for any number of paths and any size of the table: the first entry of a
  path that fits its field has all its requests, an entry no other path is cut to is the only one and has no more
  (`CountInv`).
- `SiteProofs`, downloads: the type invariant, `DownloadWhole` and `RowTellsFile`, for any number of connections and
  blocks.  Files are numbered in the order of their uploads (`Dated`); an upload that runs alone finds no row once
  it has opened its file (`AloneUpload`), its row tells the file until somebody removes the file, an upload or a
  delete, who will then remove the row (`AloneRow`).  A file that a sure download is about to open has a row whenever
  no upload is in progress, and once it is open whoever wants its name takes the name from it first (`Sure`, `Safe`):
  a delete that leaves the file is the one step that breaks this, and it makes the downloads unsure.
- `SiteProofs`, pages and files: the type invariant and `WebFilesServed`.  The check and the kernel resolve a path by the
  same function, so a path has at most the one name the check saw (`SameResolution`); a path of the list resolves to
  itself, by induction over its parts (`PlainResolves`); a path on its way to `fopen` passed the check (`WebInv`).
- `ConnectionProofs`: for any number of connections, any requests and any sizes of buffer, chunk and limits, the
  type invariant (the buffer is never overrun), `FileIsBody` and `WholeRequestsWork`.  The invariant is a count of
  bytes: in `handle_client` every byte taken is in the buffer, in the upload loop it is of the headers or in the
  file, and what remains is what the file lacks.
- `JsonProofs`: `ImplementsForest` and `MemoryBalanced`, for any number of items and keys.  The invariant (`Good`) has
  three parts.  `Lists`: `next`, `prev` and `child` are those of the sequences in `kids`, the `prev` of a first item
  being the last, and no item has two places.  `Grove`: these sequences are a forest, that is, no item the callers own
  and no freed one is in a sequence, and every live item is reached from one that is owned; this is what keeps a
  freed item from still being linked and a live one from being lost, and `MemoryBalanced` does not say it of the
  sequences.  And the strings are those the live items own.  Each function of the code is shown to set the links of
  other sequences (`InsertLists`, `RemoveLists`, `SwapLists`, `FreeLists`, `CopyLists`); the new sequences are again a
  forest, where it matters that an item is not put below itself (`GroveLink`); that the walk by `next` finds them is
  `SightsAre`.  A call then is a step of the forest (`TreeStep`), or changes nothing when it gives up for lack of
  memory.  `Walk` is a function of the number of links followed: the beginnings of the row meet its equation, and
  whatever else meets it would differ from them at a least number, where it cannot (`WalkRow`).  That memory is
  finite is used to count: a row, in which no item is twice, is no longer than memory has items.
- `JsonTextProofs`: `PrintedIsRead` and `StringFits`, for every text and value, any limit of nesting and any first size
  of the print buffer.  The state says little: a text is one of characters, and a value nests no deeper than it took
  steps to build (`TextInv`); the theorems are about what the functions compute.
  - *Recursion.*  A recursive function is known by the equation its definition gives each of its values: a row of what
    each pass of a loop leaves, or of what is read or written at each depth.  A fact that each pass hands on to the next
    holds of all, since the first that lacks it would be at a least number (`LeastExists`, `AllIndexes`); facts about
    the depths go from the deepest up.
  - *Places.*  The parser is followed through a text in which what was printed stands anywhere (`At`).  A string ends
    where its quote was printed, because the first loop of `parse_string` and the printer's escapes agree on every
    character, the pair of surrogates included; a number ends where no digit follows; a word is one character.  In a
    container the blanks between (`Gap`) are skipped, and from one item the loop gets to the next (`ItemStep`), at the
    place where it was printed (`ListPlaces`), with its name and its value, to the bracket (`ItemsRead`).  So what
    is written of a value at a depth is read as that value at that depth (`Returns`); what was parsed nests no deeper
    than the limit (`WholeResult`), so nothing that was read is refused later.
  - *Bytes.*  Every piece asks `ensure` for what it takes and its null.  `escape_characters` is just what the escapes
    add, the estimates of `parse_string` are never below what is written, and the offset is the sum of the sizes, within
    the length while nothing was refused; it is refused only beyond `INT_MAX` or the caller's length, and 5 bytes
    more than the text with its null suffice, as `cJSON.h` says.
  Of numbers this says what the model does: integers, of any size.  The code keeps integers of `int` exactly and takes
  others for a `double`, and of those nothing is said.
- `DialogsProofs`: for any number of actions, timers and digests, the type invariant, `AnswersGoToShown` and
  `SudoConfirmed`.  The invariant adds that a digest in flight belongs to a confirmed question, and that who waits
  while another's password is hashed came up early.

The type invariants are proved and therefore in no run, and so is `AtMostOneServer`, which a run that implements
`SingleServer` meets in every state.

Model-checked only: all liveness (`ReloadHonoured`, `DowntimeEnds`, `NewCodeGoesLive`, `BatchEnds`,
`EveryClientServed`, `QuestionsEnd`), which tlapm does not do, and the expected violations.  Every other property of a
passing run is a theorem.

## What is not modelled, and what could come next

Not modelled, and why:

- Sessions, login and lockouts, batch synchronisation, the storage of logs: their state is in `core/user_manager.c`,
  `core/sync_engine.c` and `core/logs.c`, which the repository does not contain; the handlers only forward.
- The access log: a ring of the same form as the log's.
- `mkdir`, the listing and the statistics of the CDN; the hashes of the sources; memory, disk and network figures:
  they add a directory, or read and format.
- Headers and content types, redirects, the sitemap, the charts and tables of the dashboard: presentation.
- The TTY and legacy API files: not part of the build.
- A second source file in `Deploy`: each file has the same two comparisons of time stamps.

What could come next: an abstract store that `CdnStore` and `Serving` together implement when requests do not
overlap; two source files of which one upload changes one and another the other; numbers of JSON beyond `int`.
