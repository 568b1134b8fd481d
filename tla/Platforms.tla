------------------------------- MODULE Platforms -------------------------------
(***************************************************************************)
(* What each platform does on its way to a verdict, chosen by the tag of   *)
(* the envelope: the checks of its params, the checks of its evidence that *)
(* come before any lookup, the collateral it names, the order in which     *)
(* failed lookups are reported, and the verdict.                           *)
(***************************************************************************)
EXTENDS AzureVerify, GceEndorsement

TdxPlatforms == {"tdx", "gcp-tdx", "dstack", "az-tdx"}
SnpPlatforms == {"snp", "gcp-snp", "az-snp"}
GcpPlatforms == {"gcp-tdx", "gcp-snp"}

\* Policies::all(): every platform with its default params, no GPU policy.
Default(pf) == IF pf \in TdxPlatforms THEN TdxDefault ELSE SnpDefault

Validate(pf, p) ==
    IF pf = "az-tdx" THEN AzTdxParams_validate(p)
    ELSE IF pf \in TdxPlatforms THEN TdxParams_validate(p)
    ELSE IF pf = "az-snp" THEN AzSnpParams_validate(p)
    ELSE Check(pf = "gcp-snp" => ~Asked(p.measurement_registers), "InvalidParams")
         && SnpParams_validate(p)

Quote(pf, ev) == IF pf = "dstack" THEN normalize_quote(ev.quote) ELSE ev.quote

\* The checks gather makes before it looks anything up.
GenuineError(pf, ev, now) ==
    IF pf = "az-tdx" THEN AzTdxEvidenceError(ev, TdxDefault, now)
    ELSE IF pf \in TdxPlatforms THEN genuine_quote(Quote(pf, ev), now)
    ELSE IF pf = "az-snp" THEN AzSnpEvidenceError(ev, SnpDefault, now)
    ELSE genuine_report(ev, now)

\* Why the collateral set cannot be named although the evidence is genuine.
SetError(pf, ev) ==
    IF pf \in TdxPlatforms THEN Check(PckChainOk(Quote(pf, ev)), "CertChainError")
    ELSE IF pf = "az-snp" THEN Ok
    ELSE SnpSetError(ev)

MainSet(pf, ev, now) ==
    IF SetError(pf, ev) # Ok THEN << >>
    ELSE IF pf \in TdxPlatforms THEN TdxCollateralSet(Quote(pf, ev))
    ELSE IF pf = "az-snp" THEN AzSnpCollateralSet(ev, now)
    ELSE SnpCollateralSet(ev)

EndorsementOf(pf, ev) ==
    IF pf = "gcp-tdx" THEN Endorsement("tdx", ev.quote.body.mrtd)
    ELSE Endorsement("snp", ev.report.measurement)

\* Looked up together, the endorsement whatever becomes of the main set.
Wanted(pf, ev, now) ==
    ToSet(MainSet(pf, ev, now))
    \cup (IF pf \in GcpPlatforms THEN {EndorsementOf(pf, ev)} ELSE {})

\* The errors of gather after the lookups, in the order the code looks.
LookupErrors(ids, found) == FirstError([i \in DOMAIN ids |-> found[ids[i]].error])

MainSetError(pf, ev, found, now) ==
    LET ids == MainSet(pf, ev, now)
    IN  IF pf \in SnpPlatforms \ {"az-snp"} /\ Len(ids) = 2
        THEN   found[ids[1]].error
            && check_report(ev.report, found[ids[1]].doc[1], ev.report.cpuid[1], now)
            && found[ids[2]].error
        ELSE LookupErrors(ids, found)

GatherError(pf, ev, found, now) ==
       SetError(pf, ev)
    && MainSetError(pf, ev, found, now)
    && (IF pf \in GcpPlatforms THEN found[EndorsementOf(pf, ev)].error ELSE Ok)

Gathered(pf, ev, found, now) ==
    LET ids == MainSet(pf, ev, now) IN [i \in DOMAIN ids |-> found[ids[i]].doc[1]]

VerifyError(pf, ev, p, c, now) ==
    IF pf = "az-tdx" THEN AzTdxError(ev, p, c, now)
    ELSE IF pf \in TdxPlatforms THEN TdxError(Quote(pf, ev), p, c, now)
    ELSE IF pf = "az-snp" THEN AzSnpError(ev, p, c, now)
    ELSE SnpError(ev, p, c, now)

TeeResult(pf, ev, p, c, now) ==
    IF pf = "az-tdx" THEN AzTdxResult(ev, p, c)
    ELSE IF pf \in TdxPlatforms THEN TdxResult(Quote(pf, ev), p, c)
    ELSE IF pf = "az-snp" THEN AzSnpResult(ev, p, c, now)
    ELSE SnpResult(ev, p, c)

\* The endorsement found, if any, covers what was launched.
endorsement_match(pf, ev, found) ==
    LET doc == found[EndorsementOf(pf, ev)].doc
    IN  Outcome(/\ Asked(doc)
                /\ IF pf = "gcp-tdx" THEN endorses_tdx(doc[1], ev.quote.body.mrtd)
                   ELSE endorses_snp(doc[1], ev.report.measurement, ev.report.policy))

Result(pf, ev, p, found, now) ==
    [tee |-> TeeResult(pf, ev, p, Gathered(pf, ev, found, now), now),
     pcrs_match |-> IF pf \in {"az-tdx", "az-snp"} THEN PcrsMatch(ev, p.pcrs) ELSE "unasked",
     endorsement_match |->
        IF pf \in GcpPlatforms THEN endorsement_match(pf, ev, found) ELSE "unasked"]

PlatformPassed(pf, r) ==
    /\ IF pf \in TdxPlatforms THEN TdxPassed(r.tee) ELSE SnpPassed(r.tee)
    /\ all_held({r.pcrs_match, r.endorsement_match})

\* Collateral::verify of the piece `id` names.
Verifies(id, doc) ==
    \/ IntelVerifies(id, doc)
    \/ AmdVerifies(id, doc)
    \/ id[1] = "gce-endorsement" /\ GceEndorsement_verify(doc, id[2])

\* The pieces of which a "not found" says that the evidence is at fault.
NamedByEvidence(id) == id[1] \in {"vcek", "tcb-info"}
===============================================================================
