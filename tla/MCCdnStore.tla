----------------------------- MODULE MCCdnStore -----------------------------
(* Two requests at a time on two public paths and one original file.        *)
EXTENDS CdnStore, TLC

Interchangeable == Permutations(Path) \cup Permutations(Req) \cup Permutations(Id)
=============================================================================
