----------------------------- MODULE Telemetry ------------------------------
(***************************************************************************)
(* What the server remembers of itself and what the panel is told of it:   *)
(* the log of the last MAX_LOG_ENTRIES lines and the counters of the       *)
(* routes (ar-bemf/server.c), the requests that read them, and the CPU     *)
(* usage between two requests (ar-ws/routes/route_api_monitoring.c).       *)
(*                                                                         *)
(* The handlers read tables of the same names and sizes that core/logs.h   *)
(* declares; core/logs.c is not in the repository, and the model takes its *)
(* tables to be filled the way server.c fills its own.  The access log is  *)
(* a ring like the log and is not modelled twice.  A log line is the       *)
(* number of its call of arc_log.                                          *)
(*                                                                         *)
(* Each access of the log or the counters holds their mutex from end to    *)
(* end and is one step.  The previous CPU sample has no lock: a request    *)
(* reads it, and later stores its two words one after the other.           *)
(***************************************************************************)
EXTENDS Integers, Sequences, FiniteSetsExt

CONSTANTS
    MAX_LOG_ENTRIES,    \* 500 in the code
    MaxLines,           \* bound: lines ever logged
    Url,              \* request paths of the site
    Cut,                \* Cut[p]: p as the table keeps it, its first 255 characters
    MAX_ROUTE_STATS,    \* 256 in the code
    MaxHits,            \* bound: requests ever counted
    Prober,             \* connections that serve /manager/api/system/info
    MaxClock,           \* bound: ticks of the CPU's counters
    Word                \* 2^64, the modulus of unsigned long long

ASSUME SizeAssumption == {MAX_LOG_ENTRIES, MAX_ROUTE_STATS} \subseteq Nat \ {0}
ASSUME CutAssumption == Url \subseteq DOMAIN Cut
ASSUME BoundsAssumption == {MaxLines, MaxHits, MaxClock} \subseteq Nat
\* The kernel's own counters fit a word; what is computed from them may not.
ASSUME WordAssumption == Word \in Nat /\ MaxClock < Word

VARIABLES
    server_logs,    \* the ring; a slot never used has no line
    log_head,
    log_count,
    arc_server_log, \* the log file
    lines,          \* history: calls of arc_log
    route_stats,    \* the table: a sequence of path and count
    hits,           \* history: the requests counted, in their order
    clock,          \* the kernel's counters: total and idle ticks
    prev,           \* prev_total and prev_idle
    probe,          \* what each connection is doing
    last,           \* history: the counters as the last request to end read them
    crowded         \* history: that request was not the only one at work

logVars == <<server_logs, log_head, log_count, arc_server_log, lines>>
routeVars == <<route_stats, hits>>
cpuVars == <<clock, prev, probe, last, crowded>>
telemetryVars == <<logVars, routeVars, cpuVars>>

NoLine == 0
PIdle == [step |-> "idle"]
Counter == {"total", "idle"}
Sample == [Counter -> 0..MaxClock]
Nowhere == [c \in Counter |-> 0]

\* The locals of a request: its sample, the previous one as far as it has
\* read it, the ticks in use of all ticks in between, and the words it still
\* has to read or store; history: whether it is the only one so far.
Probe == [step : {"compare", "store"}, now : Sample, seen : Sample, used : 0..(Word - 1),
          of : 0..(Word - 1), left : SUBSET Counter, alone : BOOLEAN]

TelemetryTypeOK ==
    /\ server_logs \in [0..(MAX_LOG_ENTRIES - 1) -> Nat]
    /\ log_head \in 0..(MAX_LOG_ENTRIES - 1)
    /\ log_count \in 0..MAX_LOG_ENTRIES
    /\ arc_server_log \in Seq(Nat) /\ lines \in Nat
    /\ route_stats \in Seq([path : {Cut[p] : p \in Url}, count : Nat \ {0}])
    /\ hits \in Seq(Url)
    /\ {clock, prev, last} \subseteq Sample
    /\ probe \in [Prober -> Probe \cup {PIdle}]
    /\ crowded \in BOOLEAN

TelemetryInit ==
    /\ server_logs = [i \in 0..(MAX_LOG_ENTRIES - 1) |-> NoLine]
    /\ log_head = 0 /\ log_count = 0
    /\ arc_server_log = <<>> /\ lines = 0
    /\ route_stats = <<>> /\ hits = <<>>
    /\ clock = Nowhere /\ prev = Nowhere
    /\ probe = [q \in Prober |-> PIdle]
    /\ last = Nowhere /\ crowded = FALSE

-----------------------------------------------------------------------------
(* The log.                                                                 *)

\* The line is appended to the file, unless it cannot be opened, and put into
\* the ring, under one lock.
arc_log ==
    /\ lines < MaxLines
    /\ lines' = lines + 1
    /\ arc_server_log' \in {arc_server_log, Append(arc_server_log, lines')}
    /\ server_logs' = [server_logs EXCEPT ![log_head] = lines']
    /\ log_head' = (log_head + 1) % MAX_LOG_ENTRIES
    /\ log_count' = IF log_count < MAX_LOG_ENTRIES THEN log_count + 1 ELSE log_count
    /\ UNCHANGED <<routeVars, cpuVars>>

\* Wrong: a full ring is read from slot 0.
LogStartAtZero == 0

\* The slot of the oldest line.
LogStart == IF log_count < MAX_LOG_ENTRIES THEN 0 ELSE log_head

\* The lines of the answer to /manager/api/logs.
api_logs_handler ==
    [i \in 1..log_count |-> server_logs[(LogStart + i - 1) % MAX_LOG_ENTRIES]]

-----------------------------------------------------------------------------
(* The counters of the routes.                                              *)

\* The whole path is compared with what the table keeps of the others.
Known(p) == {i \in DOMAIN route_stats : route_stats[i].path = p}

\* Wrong: a path that is known is entered again.
track_routeTwice(p) ==
    /\ Len(hits) < MaxHits
    /\ hits' = Append(hits, p)
    /\ route_stats' = IF Len(route_stats) < MAX_ROUTE_STATS
                      THEN Append(route_stats, [path |-> Cut[p], count |-> 1])
                      ELSE route_stats
    /\ UNCHANGED <<logVars, cpuVars>>

track_route(p) ==
    /\ Len(hits) < MaxHits
    /\ hits' = Append(hits, p)
    /\ route_stats' =
          CASE Known(p) # {} -> [route_stats EXCEPT ![Min(Known(p))].count = @ + 1]
            [] Known(p) = {} /\ Len(route_stats) < MAX_ROUTE_STATS ->
                   Append(route_stats, [path |-> Cut[p], count |-> 1])
            [] OTHER -> route_stats
    /\ UNCHANGED <<logVars, cpuVars>>

-----------------------------------------------------------------------------
(* The CPU usage.  A request reads the counters, compares them with the     *)
(* previous sample and stores its own in its place.  The two words of the   *)
(* sample are shared without a lock: they are read and written one by one,  *)
(* in any order.                                                            *)

Tick ==
    /\ clock["total"] < MaxClock
    /\ \E n \in 0..1 : clock' = [clock EXCEPT !["total"] = @ + 1, !["idle"] = @ + n]
    /\ UNCHANGED <<prev, probe, last, crowded, logVars, routeVars>>

Probing(q, step) == probe[q] # PIdle /\ probe[q].step = step
Busy == {q \in Prober : probe[q] # PIdle}

read_stat(q) ==
    /\ probe[q] = PIdle
    /\ probe' = [p \in Prober |->
          CASE p = q -> [step |-> "compare", now |-> clock, seen |-> Nowhere, used |-> 0,
                         of |-> 0, left |-> Counter, alone |-> Busy = {}]
            [] p \in Busy -> [probe[p] EXCEPT !.alone = FALSE]
            [] OTHER -> PIdle]
    /\ UNCHANGED <<clock, prev, last, crowded, logVars, routeVars>>

\* Wrong: the idle ticks since start-up are taken from the ticks since the
\* previous sample.
ShareOfAllIdle(now, before) ==
    LET of == (now["total"] - before["total"]) % Word IN
    IF before["total"] > 0 /\ before["idle"] > 0
    THEN [used |-> (of - now["idle"]) % Word, of |-> of]
    ELSE [used |-> 0, of |-> 0]

\* Ticks in use of all ticks between two samples, unsigned; 0 is reported
\* while there is no previous sample.
Share(now, before) ==
    LET of == (now["total"] - before["total"]) % Word
        idle == (now["idle"] - before["idle"]) % Word
    IN  IF before["total"] > 0 /\ before["idle"] > 0
        THEN [used |-> (of - idle) % Word, of |-> of]
        ELSE [used |-> 0, of |-> 0]

load(q, c) ==
    /\ Probing(q, "compare") /\ c \in probe[q].left
    /\ LET seen == [probe[q].seen EXCEPT ![c] = prev[c]]
           share == Share(probe[q].now, seen)
       IN  probe' = [probe EXCEPT ![q] =
              IF probe[q].left = {c}
              THEN [probe[q] EXCEPT !.step = "store", !.seen = seen, !.used = share.used,
                                    !.of = share.of, !.left = Counter]
              ELSE [probe[q] EXCEPT !.seen = seen, !.left = @ \ {c}]]
    /\ UNCHANGED <<clock, prev, last, crowded, logVars, routeVars>>

\* The rest of the answer reads the kernel's files and changes nothing.
store(q, c) ==
    /\ Probing(q, "store") /\ c \in probe[q].left
    /\ prev' = [prev EXCEPT ![c] = probe[q].now[c]]
    /\ IF probe[q].left = {c}
       THEN /\ probe' = [probe EXCEPT ![q] = PIdle]
            /\ last' = probe[q].now /\ crowded' = ~probe[q].alone
       ELSE /\ probe' = [probe EXCEPT ![q].left = @ \ {c}]
            /\ UNCHANGED <<last, crowded>>
    /\ UNCHANGED <<clock, logVars, routeVars>>

api_system_info_handler(q) == read_stat(q) \/ \E c \in Counter : (load(q, c) \/ store(q, c))

RouteNext == \E p \in Url : track_route(p)
CpuNext == Tick \/ \E q \in Prober : api_system_info_handler(q)
TelemetryNext == arc_log \/ RouteNext \/ CpuNext

TelemetrySpec == TelemetryInit /\ [][TelemetryNext]_telemetryVars

-----------------------------------------------------------------------------
\* The panel is shown the newest lines, as many as the ring holds, oldest
\* first and none twice, before and after the ring wraps; the file has its
\* lines in the same order.
NewestLinesShown ==
    LET n == Min({lines, MAX_LOG_ENTRIES})
        Rising(f) == \A i \in 2..Len(f) : f[i - 1] < f[i]
    IN  api_logs_handler = [i \in 1..n |-> lines - n + i] /\ Rising(arc_server_log)

Fits(p) == Cut[p] = p
Asked(p) == {i \in DOMAIN hits : hits[i] = p}

\* The counter of a path that fits its field is the number of its requests
\* since it was entered, and a path is missing only while the table is full;
\* longer paths may take several entries, but none of another path's count.
CountersTrue ==
    \A p \in Url :
        /\ Fits(p) /\ (\A o \in Url : Cut[o] = p => o = p)
           => Cardinality(Known(p)) <= 1
              /\ \A i \in Known(p) : route_stats[i].count <= Cardinality(Asked(p))
        /\ Fits(p) /\ Asked(p) # {} /\ Len(route_stats) < MAX_ROUTE_STATS
           => \E i \in Known(p) : route_stats[i].count >= Cardinality(Asked(p))

\* The usage a request reports is the share of busy ticks since the request
\* before it, if neither of the two overlapped another: overlapping requests
\* may mix two samples or compare with a later one, and the mixed sample
\* spoils the next report too.
UsageTrue ==
    \A q \in Prober :
        Probing(q, "store") /\ probe[q].alone /\ ~crowded /\ last["idle"] > 0 =>
            /\ probe[q].of = probe[q].now["total"] - last["total"]
            /\ probe[q].used = probe[q].of - (probe[q].now["idle"] - last["idle"])
=============================================================================
