---------------------------- MODULE MCProxyCache ----------------------------
(***************************************************************************)
(* ProxyCache with two sessions, two URLs and, for each URL, two responses *)
(* with bodies of one unit, so that a body may be missing or whole and two *)
(* bodies of the same length may differ.  Four inodes are enough: at most  *)
(* two temporary files and two bodies have names at once.                  *)
(***************************************************************************)
EXTENDS ProxyCache, TLC

MCVersions == 1 .. 2
MCSize == [v \in MCVersions |-> 1]

(* Every point of write_cache except the one after the header was written.  *)
CrashBeforeSaved == (Steps \ {"saved"}) \cup {"loop"}
CrashAnywhere == Steps \cup {"loop"}

CacheSymmetry ==
  Permutations(Nums) \cup Permutations(Urls) \cup Permutations(Inodes)
=============================================================================
