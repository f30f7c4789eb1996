---------------------------- MODULE RateLimiter -----------------------------
(***************************************************************************)
(* The request limiter of ar-bemf/ratelimit.c: a table of MAX_IPS slots,   *)
(* each with two counters over fixed windows, one for login requests and   *)
(* one for the others.  ratelimit_check holds rl_mutex from its first to   *)
(* its last access of the table, so a check is one step.  The clock is     *)
(* time(NULL) and does not go back.                                        *)
(***************************************************************************)
EXTENDS Integers

CONSTANTS
    IP,         \* client addresses
    Watched,    \* the address whose history is kept; the code treats all alike
    NoIP,       \* the empty string of an unused slot
    MAX_IPS,    \* slots of the table, 1000 in the code
    Window,     \* length of a window, 60 seconds
    Quota,      \* requests per window, by kind: 5 logins, 100 others
    MaxTime,    \* bound: the clock stops there
    MaxRefused  \* bound: requests refused in one window

Kind == {"login", "general"}

ASSUME IPAssumption == NoIP \notin IP /\ Watched \in IP
ASSUME SlotAssumption == MAX_IPS \in Nat \ {0}
ASSUME WindowAssumption == Window \in Nat \ {0}
ASSUME QuotaAssumption == Quota \in [Kind -> Nat \ {0}]
ASSUME RateBoundAssumption == MaxTime \in Nat /\ MaxRefused \in Nat

VARIABLES
    now,        \* time(NULL)
    rl_table,   \* the slots
    granted     \* history: requests of Watched let through up to each second,
                \* by kind, since it last got a slot

rateVars == <<now, rl_table, granted>>

Slot == 1..MAX_IPS
Time == 0..MaxTime
Entry == [ip : IP \cup {NoIP}, count : [Kind -> Nat], window : [Kind -> Nat]]

RateTypeOK ==
    /\ now \in Time
    /\ rl_table \in [Slot -> Entry]
    /\ granted \in [Kind -> [Time -> Nat]]

Zero == [k \in Kind |-> 0]
NoGrants == [k \in Kind |-> [t \in Time |-> 0]]

\* ratelimit_init clears the table.
RateInit ==
    /\ now = 0
    /\ rl_table = [i \in Slot |-> [ip |-> NoIP, count |-> Zero, window |-> Zero]]
    /\ granted = NoGrants

-----------------------------------------------------------------------------
Holding(a) == {i \in Slot : rl_table[i].ip = a}

First(S) == CHOOSE i \in S : \A j \in S : i <= j

\* The slots whose general window is oldest; the scan keeps the first of them
\* in oldest_idx.
Oldest == {i \in Slot : \A j \in Slot :
              rl_table[i].window["general"] <= rl_table[j].window["general"]}

\* Wrong: the scan stops at the first free slot.
SlotForFreeFirst(a) ==
    CASE Holding(NoIP) # {} -> First(Holding(NoIP))
      [] Holding(NoIP) = {} /\ Holding(a) # {} -> First(Holding(a))
      [] OTHER -> First(Oldest)

\* The slot the check works on: the address's own, a free one, or the oldest.
SlotFor(a) == CASE Holding(a) # {} -> First(Holding(a))
                [] Holding(a) = {} /\ Holding(NoIP) # {} -> First(Holding(NoIP))
                [] OTHER -> First(Oldest)

\* Wrong: the counters of the evicted address stay.
EntryForInherited(a, i) == [rl_table[i] EXCEPT !.ip = a]

\* The entry the request is counted in, overwritten if it was another's.
EntryFor(a, i) == IF rl_table[i].ip = a THEN rl_table[i]
                  ELSE [ip |-> a, count |-> Zero, window |-> [k \in Kind |-> now]]

\* Wrong: the request that opens a window is not counted.
CountedFromZero(e, k) == IF now - e.window[k] >= Window
                         THEN [e EXCEPT !.window[k] = now, !.count[k] = 0]
                         ELSE [e EXCEPT !.count[k] = @ + 1]

\* One more request of kind k: a new window, or one more in the current one.
Counted(e, k) == IF now - e.window[k] >= Window
                 THEN [e EXCEPT !.window[k] = now, !.count[k] = 1]
                 ELSE [e EXCEPT !.count[k] = @ + 1]

\* The running totals g with n more requests of kind k let through now.
Total(g, k, n) ==
    [c \in Kind |-> [t \in Time |-> g[c][t] + (IF c = k /\ t >= now THEN n ELSE 0)]]

ratelimit_check(a, k) ==
    LET i == SlotFor(a)
        e == Counted(EntryFor(a, i), k)
        allowed == e.count[k] <= Quota[k]
        before == IF rl_table[i].ip = a THEN granted ELSE NoGrants
    IN  /\ e.count[k] <= Quota[k] + MaxRefused
        /\ rl_table' = [rl_table EXCEPT ![i] = e]
        /\ granted' = IF a # Watched THEN granted
                       ELSE Total(before, k, IF allowed THEN 1 ELSE 0)
        /\ UNCHANGED now

ClockTicks ==
    /\ now < MaxTime
    /\ now' = now + 1
    /\ UNCHANGED <<rl_table, granted>>

RateNext == ClockTicks \/ \E a \in IP, k \in Kind : ratelimit_check(a, k)

RateSpec == RateInit /\ [][RateNext]_rateVars

-----------------------------------------------------------------------------
\* Requests of kind k of Watched let through in the Window seconds up to t.
GrantedUpTo(k, t) ==
    granted[k][t] - (IF t < Window THEN 0 ELSE granted[k][t - Window])

\* An address never occupies two slots, which would double its quota.
OneSlotPerIP == \A a \in IP : \A i, j \in Holding(a) : i = j

\* Fixed windows allow a burst at the end of one and the start of the next:
\* while an address keeps its slot, any Window seconds let through at most
\* twice the quota.
TwiceQuota ==
    Holding(Watched) # {} => \A k \in Kind, t \in Time : GrantedUpTo(k, t) <= 2 * Quota[k]

\* No one is refused for less: while the next request of an address would be
\* refused, a full quota of its requests of that kind has been let through
\* within the last Window seconds.
NoFalseRefusal ==
    \A i \in Holding(Watched), k \in Kind :
        Counted(rl_table[i], k).count[k] > Quota[k] => GrantedUpTo(k, now) >= Quota[k]
=============================================================================
