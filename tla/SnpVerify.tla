------------------------------- MODULE SnpVerify -------------------------------
(***************************************************************************)
(* Verification of AMD SEV-SNP evidence: the rules of the params, and the  *)
(* measurement registers a guest kernel commits to in REPORT_DATA.         *)
(*                                                                         *)
(* The log of a guest: [field, whole, entries], an entry naming a register *)
(* and the digest extended into it. REPORT_DATA starts with an event count *)
(* (report.count) and may be a commitment (report.commits, a rule holding  *)
(* [count, registers, caller]).                                            *)
(***************************************************************************)
EXTENDS AmdReport, SequencesExt

REGISTER_COUNT == 16
Registers == 0..(REGISTER_COUNT - 1)

SnpDefault ==
    [report_data |-> NoRule, host_data |-> NoRule, launch_digest |-> NoRule,
     allow_debug |-> FALSE, min_tcb |-> NoRule, max_vmpl |-> 0,
     measurement_registers |-> NoRule, pcrs |-> << >>]

RegisterParams(p) ==
    Asked(p.measurement_registers) =>
        /\ Len(p.measurement_registers[1]) <= REGISTER_COUNT
        /\ Asked(p.report_data) /\ p.report_data[1].len = 64
        /\ Asked(p.launch_digest)
        /\ p.max_vmpl = 0

SnpParams_validate(p) ==
       Check(AtMost(p.report_data, 64), "ReportDataTooLarge")
    && Check(AtMost(p.host_data, 32), "InvalidParams")
    && Check(RegisterParams(p), "InvalidParams")
    && Check(check_allowed_set(p.launch_digest), "InvalidParams")

min_tcb_met(tcb, min) ==
    /\ \A s \in Spls : tcb[s] >= min[s]
    /\ Asked(min.fmc) => Asked(tcb.fmc) /\ tcb.fmc[1] >= min.fmc[1]

\* Mutant: only the reported TCB is compared.
ReportedTcb(report) == {report.reported}

EveryTcb(report) == {report.reported, report.committed, report.launch}

SnpClaims(report) ==
    [launch_digest |-> report.measurement, report_data |-> report.report_data,
     signed_data |-> report.report_data.v, init_data |-> report.host_data,
     tcb |-> report.reported]

evaluate_report(report, p, crl_ok) ==
    [claims |-> SnpClaims(report),
     report_data_match |-> "unasked",
     host_data_match |-> "unasked",
     launch_digest_match |-> match_any(report.measurement, p.launch_digest),
     min_tcb_met |->
        IF Asked(p.min_tcb)
        THEN Outcome(\A tcb \in EveryTcb(report) : min_tcb_met(tcb, p.min_tcb[1]))
        ELSE "unasked",
     debug |-> report.debug, allow_debug |-> p.allow_debug,
     migrate_ma |-> report.migrate_ma,
     vmpl |-> report.vmpl, max_vmpl |-> p.max_vmpl,
     crl_ok |-> crl_ok,
     registers |-> NoRule,
     registers_match |-> "unasked"]

SnpPassed(r) ==
    /\ all_held({r.report_data_match, r.host_data_match, r.launch_digest_match,
                 r.min_tcb_met, r.crl_ok, r.registers_match})
    /\ r.debug => r.allow_debug
    /\ ~r.migrate_ma
    /\ r.vmpl <= r.max_vmpl

check_report_bindings(r, report, p) ==
    [r EXCEPT !.report_data_match = match_padded(report.report_data, p.report_data),
              !.host_data_match = match_padded(report.host_data, p.host_data)]

-------------------------------------------------------------------------------
(* Measurement registers. *)

\* SHA-384 of the old value and the digest: appending the digest.
extend(registers, entry) == [registers EXCEPT ![entry.r] = Append(@, entry.d)]

BadLog(log) == ~log.whole \/ \E i \in DOMAIN log.entries : log.entries[i].r \notin Registers

replay(log, count) ==
    IF Len(log.entries) < count THEN NoRule
    ELSE Rule(FoldLeft(extend, [r \in Registers |-> << >>], SubSeq(log.entries, 1, count)))

\* Evidence without a log has an empty one.
NoLog == [field |-> "ok", whole |-> TRUE, entries |-> << >>]
LogOf(ev) == IF Asked(ev.log) THEN ev.log[1] ELSE NoLog

LogError(ev) ==
       Check(LogOf(ev).field \notin FieldFaults, "EvidenceDeserialize")
    && Check(~BadLog(LogOf(ev)), "EvidenceDeserialize")

\* Mutant: the commitment is compared without the caller's bytes.
kmr_verify_registers(report, log, caller) ==
    LET replayed == replay(log, report.count)
    IN  IF Asked(replayed) /\ Asked(report.commits) /\ report.commits[1].registers = replayed[1]
        THEN replayed ELSE NoRule

\* The registers REPORT_DATA commits to together with the caller's bytes.
kmr_verify(report, log, caller) ==
    LET replayed == replay(log, report.count)
    IN  IF Asked(replayed) /\ report.commits =
               Rule([count |-> report.count, registers |-> replayed[1], caller |-> caller])
        THEN replayed ELSE NoRule

Expected(registers, r) ==
    IF r + 1 \in DOMAIN registers THEN registers[r + 1] ELSE << >>

check_measurement_registers(r, ev, p) ==
    LET committed == kmr_verify(ev.report, LogOf(ev), p.report_data[1].v)
        registers == IF r.launch_digest_match = "match" THEN committed ELSE NoRule
        equal == /\ Asked(registers)
                 /\ \A i \in Registers :
                        registers[1][i] = Expected(p.measurement_registers[1], i)
        checked == [r EXCEPT !.report_data_match = Outcome(Asked(registers)),
                             !.registers_match = Outcome(equal)]
    IN  [checked EXCEPT !.registers = IF SnpPassed(checked) THEN registers ELSE NoRule]

-------------------------------------------------------------------------------
(* Gathering: the VEK (unless the evidence carries it) and the CRL of its  *)
(* issuer's generation.                                                    *)
SnpSetError(ev) ==
    IF Inline(ev) THEN Ok
    ELSE    Check(ev.report.chip.v # "zero", "CertChainError")
         && Check(ev.report.cpuid[1] = "Turin" => Asked(ev.report.reported.fmc), "QuoteParseFailed")

SnpCollateralSet(ev) ==
    LET report == ev.report
        gen == report.cpuid[1]
    IN  IF Inline(ev) THEN <<AmdCrl(gen, AmdKey(ev.vek[1]))>>
        ELSE <<Vcek(gen, report.chip, report.reported), AmdCrl(gen, "vcek")>>

\* The VEK of a gathered set, and its CRL; c in the order above.
VekOf(ev, c) == IF Inline(ev) THEN ev.vek[1] ELSE c[1]
CrlOf(ev, c) == IF Inline(ev) THEN c[1] ELSE c[2]

SnpError(ev, p, c, now) ==
    LET report == ev.report
        gen == report.cpuid[1]
    IN     SnpParams_validate(p)
        && parse_evidence(report)
        && check_report(report, VekOf(ev, c), gen, now)
        && Check(CrlOf(ev, c).gen = gen, "CertChainError")
        && (IF Asked(p.measurement_registers) THEN LogError(ev) ELSE Ok)

SnpResult(ev, p, c) ==
    LET report == ev.report
        revoked == vek_revoked(VekOf(ev, c), CrlOf(ev, c), report.cpuid[1])
        bound == check_report_bindings(
                     evaluate_report(report, p, Outcome(~revoked)), report, p)
    IN  IF Asked(p.measurement_registers)
        THEN check_measurement_registers(bound, ev, p) ELSE bound
===============================================================================
