---------------------------- MODULE MCVendorHost ----------------------------
(***************************************************************************)
(* Instances of VendorHost for TLC.                                        *)
(***************************************************************************)
EXTENDS VendorHost, TLC

CONSTANTS c1, c2, c3

Calls == Permutations(Call)
=============================================================================
