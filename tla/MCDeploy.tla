------------------------------ MODULE MCDeploy ------------------------------
(* One process id is enough: core has at most one child, and its pid is     *)
(* free again before the next fork.  Two uploads, one of them of code that  *)
(* does not compile, and one request that deletes the file or restarts.     *)
EXTENDS Deploy

CONSTANTS p1, u1, u2, r1
=============================================================================
