------------------------------- MODULE IntelTcb -------------------------------
(***************************************************************************)
(* How a TD's TCB is graded: Intel's TCB levels are matched in two passes  *)
(* (SGX components and PCESVN of the PCK certificate, then the TDX         *)
(* components of the quote), the Quoting Enclave is graded by its ISVSVN,  *)
(* and the two statuses are combined.                                      *)
(*                                                                         *)
(* A level: [sgx, pce, tdx, status], sgx a sequence of SVNs, tdx a rule    *)
(* (absent: the level applies to every TDX TCB) holding one.               *)
(***************************************************************************)
EXTENDS Checks

CONSTANT Components     \* SGX component SVNs in a PCK certificate: 16

ASSUME ComponentsAssumption == Components \in Nat \ {0}

\* Levels as they are read: unsigned SVNs, a status of any spelling.
TcbLevel == [sgx : Seq(Nat), pce : Nat, tdx : Seq(Seq(Nat)), status : STRING]
QeLevel == [isvsvn : Nat, status : STRING]

PublishedStatuses ==
    {"UpToDate", "SWHardeningNeeded", "ConfigurationNeeded",
     "ConfigurationAndSWHardeningNeeded", "OutOfDate",
     "OutOfDateConfigurationNeeded", "Revoked"}
TdxTcbStatus == PublishedStatuses \cup {"NoMatchingLevel"}

\* What an error inside the grading looks like to the caller.
Ungraded == "CertChainError"

parse_tcb_status(s) == IF s \in PublishedStatuses THEN s ELSE Ungraded

(* The SVNs meet the floors, component by component; the shorter list ends *)
(* the comparison.                                                         *)
Meets(svns, floors) ==
    \A i \in DOMAIN floors : i \in DOMAIN svns => svns[i] >= floors[i]

SgxMeets(pck, level) ==
    /\ Len(level.sgx) >= Components
    /\ Meets(pck.svns, level.sgx)
    /\ pck.pce >= level.pce

TdxMeets(svn, level) == Asked(level.tdx) => Meets(svn, level.tdx[1])

SgxMatches(levels, pck) == {i \in DOMAIN levels : SgxMeets(pck, levels[i])}

\* Mutant: pass 2 starts at the first level.
TdxMatchesAnywhere(levels, pck, svn) == {i \in DOMAIN levels : TdxMeets(svn, levels[i])}

\* Pass 2 starts at the level pass 1 found and no longer looks at SGX SVNs.
TdxMatches(levels, pck, svn) ==
    {i \in DOMAIN levels :
        i >= FirstOf(SgxMatches(levels, pck)) /\ TdxMeets(svn, levels[i])}

AllZero(svn) == \A i \in DOMAIN svn : svn[i] = 0

evaluate_tcb_status(levels, pck, svn) ==
    IF SgxMatches(levels, pck) = {} THEN "NoMatchingLevel"
    ELSE IF AllZero(svn)
         THEN parse_tcb_status(levels[FirstOf(SgxMatches(levels, pck))].status)
    ELSE IF TdxMatches(levels, pck, svn) = {} THEN "NoMatchingLevel"
    ELSE parse_tcb_status(levels[FirstOf(TdxMatches(levels, pck, svn))].status)

(* The Quoting Enclave: qe and identity agree on everything but ISVSVN, or *)
(* the quote was not produced by Intel's QE. Masked fields are compared as *)
(* the sets of bits that are set and that the mask keeps.                  *)
MaskedEq(actual, expected, mask) == actual \cap mask = expected \cap mask

IsIntelQe(qe, identity) ==
    /\ qe.mrsigner = identity.mrsigner
    /\ qe.isvprodid = identity.isvprodid
    /\ MaskedEq(qe.attributes, identity.attributes, identity.mask)

check_qe_report(qe, identity) ==
    LET met == {i \in DOMAIN identity.levels : qe.isvsvn >= identity.levels[i].isvsvn}
    IN  IF ~IsIntelQe(qe, identity) THEN Ungraded
        ELSE IF met = {} THEN "NoMatchingLevel"
        ELSE parse_tcb_status(identity.levels[FirstOf(met)].status)

Fatal == {"Revoked", "NoMatchingLevel"}
Aged == {"OutOfDate", "OutOfDateConfigurationNeeded"}

combine_tcb_status(platform, qe) ==
    IF platform \in Fatal THEN platform
    ELSE IF qe \in Fatal THEN qe
    ELSE IF qe \in Aged /\ platform \in {"UpToDate", "SWHardeningNeeded"} THEN "OutOfDate"
    ELSE IF qe \in Aged /\ platform \in
              {"ConfigurationNeeded", "ConfigurationAndSWHardeningNeeded"}
         THEN "OutOfDateConfigurationNeeded"
    ELSE platform

-------------------------------------------------------------------------------
(* The reference: on a list whose levels never ask more than an earlier    *)
(* one, the grade is that of the first level the TCB meets in every part.  *)
(* A TCB whose TDX SVNs are all zero is graded by its SGX part alone,      *)
(* which may be better.                                                    *)

AsksNoMore(later, earlier) ==
    /\ \A i \in 1..Components : later.sgx[i] <= earlier.sgx[i]
    /\ later.pce <= earlier.pce

Descending(levels) ==
    /\ \A i \in DOMAIN levels : Len(levels[i].sgx) = Components
    /\ \A i, j \in DOMAIN levels : i <= j => AsksNoMore(levels[j], levels[i])

MetLevels(levels, pck, svn) ==
    {i \in DOMAIN levels : SgxMeets(pck, levels[i]) /\ TdxMeets(svn, levels[i])}

Grade(levels, pck, svn) ==
    IF MetLevels(levels, pck, svn) = {} THEN "NoMatchingLevel"
    ELSE parse_tcb_status(levels[FirstOf(MetLevels(levels, pck, svn))].status)

SgxGrade(levels, pck) ==
    IF SgxMatches(levels, pck) = {} THEN "NoMatchingLevel"
    ELSE parse_tcb_status(levels[FirstOf(SgxMatches(levels, pck))].status)

(* A grade no better than either part: what a caller who accepts only some *)
(* statuses may rely on.                                                   *)
Current == {"UpToDate", "SWHardeningNeeded", "ConfigurationNeeded",
            "ConfigurationAndSWHardeningNeeded"}
===============================================================================
