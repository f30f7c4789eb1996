------------------------------- MODULE MCGate -------------------------------
(***************************************************************************)
(* What a request meets before its handler: the router and the limiter.    *)
(* They share no state: one of them moves in each behaviour.               *)
(*                                                                         *)
(* Up to three routes over a path, a wildcard of all paths and one of this *)
(* path, in two buckets.  Three clients share two slots, with one login    *)
(* and two other requests a window of two seconds.                         *)
(***************************************************************************)
EXTENDS Router, RateLimiter, TLC

CONSTANTS root, any, below, home, www, cdn, get, post

VARIABLES focus

GateInit ==
    /\ Init /\ RateInit
    /\ focus \in {"router", "limiter"}
    /\ focus # "router" => hash_route = [k \in Key |-> 0]

GateNext ==
    /\ UNCHANGED focus
    /\ \/ focus = "router" /\ Next /\ UNCHANGED rateVars
       \/ focus = "limiter" /\ RateNext /\ UNCHANGED vars

GateSpec == GateInit /\ [][GateNext]_<<focus, vars, rateVars>>

MCWww == {<<www, home>>}
MCCovers == {any} \X Path \cup {<<below, root>>, <<below, below>>}
\* One function that puts all keys together, and two that put one or the other
\* wildcard first.
MCHashes == {[k \in Key |-> 0],
             [k \in Key |-> IF k[1] = any THEN 0 ELSE 1],
             [k \in Key |-> IF k[1] = below THEN 0 ELSE 1]}
MCQuota == ("login" :> 1) @@ ("general" :> 2)
Alike == {f @@ g @@ h : f \in Permutations(Handler), g \in Permutations(Method),
                        h \in Permutations(IP \ {Watched})}
=============================================================================
