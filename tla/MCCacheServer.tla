---------------------------- MODULE MCCacheServer ----------------------------
(***************************************************************************)
(* Instances of CacheServer for TLC: three requests, pieces every client   *)
(* needs, the pieces of two chips, and a URL that names nothing.           *)
(***************************************************************************)
EXTENDS CacheServer, TLC

CONSTANTS r1, r2, r3, crl, tcb, vcek, other

Clients == Permutations(Request)
=============================================================================
