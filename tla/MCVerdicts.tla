------------------------------- MODULE MCVerdicts -------------------------------
(***************************************************************************)
(* Verifications of Intel and of AMD evidence for TLC, over the requests   *)
(* of MCIntel and MCAmd.                                                   *)
(***************************************************************************)
EXTENDS Verdicts, MCUnion

Intel == INSTANCE MCIntel
Amd == INSTANCE MCAmd

MCComponents == 2
MCRequests == Together({Intel!MCRequests, Amd!MCRequests})
===============================================================================
