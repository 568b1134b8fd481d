------------------------------- MODULE AmdReport -------------------------------
(***************************************************************************)
(* An SEV-SNP report, the endorsement key (VEK) that signs it, and AMD's   *)
(* collateral. A VEK is a VCEK (per chip, issued by the ASK of its         *)
(* processor generation) or a VLEK (per host, issued by the ASVK).         *)
(*                                                                         *)
(* report: [field, parsed, version, cpuid, chip, reported, committed,      *)
(*   launch, measurement, report_data, host_data, debug, migrate_ma, vmpl, *)
(*   policy, sig]; cpuid is a rule holding a generation or "unknown".      *)
(* A TCB: [bl, tee, snp, ucode, fmc], fmc a rule.                          *)
(* vek: a certificate with [hwid, spl, whole]: hwid a rule holding the     *)
(*   chip's identifier, spl its TCB, whole that nothing trails it.         *)
(* crl: [gen, sig, algorithm, next, trailing, revoked].                    *)
(***************************************************************************)
EXTENDS Checks

Generations == {"Milan", "Genoa", "Turin"}
Fallback == <<"Milan", "Genoa", "Turin">>

Ark == [Milan |-> "ARK-Milan", Genoa |-> "ARK-Genoa", Turin |-> "ARK-Turin"]
Ask == [Milan |-> "ASK-Milan", Genoa |-> "ASK-Genoa", Turin |-> "ASK-Turin"]
Asvk == [Milan |-> "ASVK-Milan", Genoa |-> "ASVK-Genoa", Turin |-> "ASVK-Turin"]

\* The kind of a VEK is read off its common name.
is_vlek_cert(vek) == vek.cn = "SEV-VLEK"
AmdKey(vek) == IF is_vlek_cert(vek) THEN "vlek" ELSE "vcek"

vek_issuer(vek, gen) == IF is_vlek_cert(vek) THEN Asvk[gen] ELSE Ask[gen]

(* The ARK and the intermediate are bundled: their own signatures hold.    *)
verify_cert_chain(vek, issuer) == SignedBy(vek, issuer)

Spls == {"bl", "tee", "snp", "ucode"}

\* A Turin HW_ID may be shorter than the report's field, which ends in zeros.
HwidNames(hwid, chip, gen) ==
    /\ hwid.v = chip.v
    /\ IF gen = "Turin" THEN hwid.len \in 8..chip.len ELSE hwid.len = chip.len

FmcNames(vek, tcb, gen) ==
    Asked(tcb.fmc) =>
        IF Asked(vek.spl.fmc) THEN vek.spl.fmc = tcb.fmc
        ELSE tcb.fmc[1] = 0 /\ gen # "Turin"

check_vek_binding(vek, chip, tcb, gen) ==
    /\ ~is_vlek_cert(vek) => Asked(vek.hwid) /\ HwidNames(vek.hwid[1], chip, gen)
    /\ \A s \in Spls : vek.spl[s] = tcb[s]
    /\ FmcNames(vek, tcb, gen)

verify_vek_endorsement(report, vek, gen, now) ==
       Check(verify_cert_chain(vek, vek_issuer(vek, gen)), "CertChainError")
    && Check(ValidAt(vek, now), "CertChainError")
    && Check(check_vek_binding(vek, report.chip, report.reported, gen), "TcbMismatch")

check_report(report, vek, gen, now) ==
       verify_vek_endorsement(report, vek, gen, now)
    && Check(SignedBy(report.sig, vek.key), "SignatureVerificationFailed")

MIN_REPORT_VERSION == 3
MAX_REPORT_VERSION == 5

parse_evidence(report) ==
       Check(report.field \notin FieldFaults, "EvidenceDeserialize")
    && Check(report.parsed, "QuoteParseFailed")
    && Check(report.version \in MIN_REPORT_VERSION..MAX_REPORT_VERSION,
             "UnsupportedReportVersion")
    && Check(Asked(report.cpuid), "QuoteParseFailed")
    && Check(report.cpuid[1] \in Generations, "QuoteParseFailed")

(* Evidence: a report with vek, a rule holding the VEK it carries (or      *)
(* "malformed"), and log (measurement registers).                          *)
Inline(ev) == Asked(ev.vek)

\* Mutant: a VEK the evidence carries is not looked at before the lookups.
genuine_without_vek(ev, now) == parse_evidence(ev.report)

genuine_report(ev, now) ==
       parse_evidence(ev.report)
    && Check(Inline(ev) => ~ev.vek[1].malformed, "CertChainError")
    && (IF Inline(ev) THEN check_report(ev.report, ev.vek[1], ev.report.cpuid[1], now) ELSE Ok)

\* What AMD publishes: <<kind, what it is for>>.
Vcek(gen, chip, tcb) == <<"vcek", [gen |-> gen, chip |-> chip, tcb |-> tcb]>>
AmdCrl(gen, key) == <<"amd-crl", [gen |-> gen, key |-> key]>>

Vcek_verify(vek, id) ==
    /\ id.gen = "Turin" => Asked(id.tcb.fmc)
    /\ verify_cert_chain(vek, Ask[id.gen])
    /\ check_vek_binding(vek, id.chip, id.tcb, id.gen)
    /\ vek.whole

AmdCrl_verify(crl, id) ==
    /\ ~crl.trailing
    /\ crl.gen = id.gen
    /\ crl.algorithm
    /\ SignedBy(crl.sig, Ark[id.gen])
    /\ crl.next

AmdVerifies(id, doc) ==
    \/ id[1] = "vcek" /\ Vcek_verify(doc, id[2])
    \/ id[1] = "amd-crl" /\ AmdCrl_verify(doc, id[2])

\* Mutant: the issuer of VLEKs is never revoked.
ask_revoked(vek, crl, gen) == Ask[gen] \in crl.revoked

\* The CRL lists intermediates: a VEK is revoked with its issuer.
vek_revoked(vek, crl, gen) == vek_issuer(vek, gen) \in crl.revoked

-------------------------------------------------------------------------------
(* Who vouches for what, read off the signatures.                          *)
VekVouches(vek, report) ==
    {<<Ark[g], Ask[g]>> : g \in Generations} \cup {<<Ark[g], Asvk[g]>> : g \in Generations}
    \cup (IF vek.intact THEN {<<vek.by, vek.key>>} ELSE {})
    \cup (IF report.sig.intact THEN {<<report.sig.by, "SNP report">>} ELSE {})
===============================================================================
