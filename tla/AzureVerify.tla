------------------------------ MODULE AzureVerify ------------------------------
(***************************************************************************)
(* Azure guests: a TEE report in an HCL report, and a vTPM quote whose key *)
(* the TEE report vouches for.  report_data is checked against the nonce   *)
(* of the vTPM quote and init data against PCR 8.                          *)
(*                                                                         *)
(* Evidence: [version, hclField, hcl, teeField, tpm] and the TEE's own:    *)
(* quote (a TDX quote), or report and vek.                                 *)
(* Params: those of the TEE, and pcrs.                                     *)
(***************************************************************************)
EXTENDS TdxVerify, SnpVerify, Vtpm

\* The fields common to both, decoded and parsed in this order.
AzEnvelope(ev, type) ==
       Check(ev.version = 1, "EvidenceDeserialize")
    && Check("too large" \notin {ev.hclField, ev.teeField, ev.tpm.field}, "EvidenceDeserialize")
    && Check(ev.hclField # "malformed", "EvidenceDeserialize")
    && Check(parse_hcl_report(ev.hcl), "QuoteParseFailed")
    && Check(ev.hcl.type = type, "QuoteParseFailed")
    && Check(ev.teeField # "malformed", "EvidenceDeserialize")
    && Check(decode_tpm_quote(ev.tpm), "EvidenceDeserialize")

AzTpm(ev, report_data) ==
       SignatureError(ev.tpm, ev.hcl)
    && ReportDataError(ev.tpm.msg, report_data)
    && Check(verify_tpm_pcrs(ev.tpm.msg, ev.tpm.pcrs), "QuoteParseFailed")

\* The rules about the vTPM quote, common to both.
PcrsMatch(ev, pcrs) == check_pcrs(ev.tpm.msg, ev.tpm.pcrs, pcrs)
NonceMatch(ev, expected) == check_report_data(ev.tpm.msg, expected)
InitDataMatch(ev, expected) == check_init_data(ev.tpm.msg, ev.tpm.pcrs, expected)

AzParams(error, init, p) ==
       error
    && Check(check_init_data_len(init), "InvalidParams")
    && Check(check_pcr_pin_indexes(p.pcrs), "InvalidParams")

AzTdxParams_validate(p) == AzParams(TdxParams_validate(p), p.init_data, p)

\* Everything but the collateral.
AzTdxEvidenceError(ev, p, now) ==
       AzTdxParams_validate(p)
    && AzEnvelope(ev, HclTypes.tdx)
    && AzTpm(ev, p.report_data)
    && genuine_quote(ev.quote, now)
    && Check(verify_hcl_var_data_binding(ev.quote.body.report_data, ev.hcl),
             "SignatureVerificationFailed")

AzTdxRules(r, ev, p) ==
    [r EXCEPT !.report_data_match = NonceMatch(ev, p.report_data),
              !.init_data_match = InitDataMatch(ev, p.init_data),
              !.claims = tpm_claims(ev.tpm, @)]

AzTdxResult(ev, p, c) ==
    check_collateral(AzTdxRules(verify_quote(ev.quote, p), ev, p), ev.quote, p, c)

AzTdxError(ev, p, c, now) ==
       AzTdxEvidenceError(ev, p, now)
    && CollateralError(ev.quote, c)

-------------------------------------------------------------------------------
AzSnpParams_validate(p) ==
    IF SnpParams_validate(p) # Ok THEN SnpParams_validate(p)
    ELSE IF Asked(p.measurement_registers) THEN "InvalidParams"
    ELSE AzParams(Ok, p.host_data, p)

AZ_MIN_REPORT_VERSION == 2

(* A v2 report does not name the processor: each known root is tried.      *)
KnownGeneration(report) == Asked(report.cpuid) /\ report.cpuid[1] \in Generations
Candidates(report) == IF KnownGeneration(report) THEN report.cpuid ELSE Fallback

Endorsed(ev, now) ==
    LET gens == Candidates(ev.report)
    IN  {i \in DOMAIN gens : verify_vek_endorsement(ev.report, ev.vek, gens[i], now) = Ok}

matched_gen(ev, now) == Candidates(ev.report)[FirstOf(Endorsed(ev, now))]

\* When no generation matches, the error of the last one tried.
GenerationError(ev, now) ==
    IF Endorsed(ev, now) # {} THEN Ok
    ELSE verify_vek_endorsement(ev.report, ev.vek, Last(Candidates(ev.report)), now)

AzSnpEvidenceError(ev, p, now) ==
       AzSnpParams_validate(p)
    && AzEnvelope(ev, HclTypes.snp)
    && Check(ev.report.parsed, "QuoteParseFailed")
    && Check(ev.report.version \in AZ_MIN_REPORT_VERSION..MAX_REPORT_VERSION,
             "UnsupportedReportVersion")
    && AzTpm(ev, p.report_data)
    && Check(verify_hcl_var_data_binding(ev.report.report_data, ev.hcl),
             "SignatureVerificationFailed")
    && GenerationError(ev, now)
    && Check(SignedBy(ev.report.sig, ev.vek.key), "SignatureVerificationFailed")

AzSnpCollateralSet(ev, now) == <<AmdCrl(matched_gen(ev, now), AmdKey(ev.vek))>>

AzSnpError(ev, p, c, now) ==
       AzSnpEvidenceError(ev, p, now)
    && Check(c[1].gen = matched_gen(ev, now), "CertChainError")

AzSnpResult(ev, p, c, now) ==
    LET r == evaluate_report(ev.report, p, "unasked")
    IN  [r EXCEPT !.report_data_match = NonceMatch(ev, p.report_data),
                  !.host_data_match = InitDataMatch(ev, p.host_data),
                  !.claims = tpm_claims(ev.tpm, @),
                  !.crl_ok = Outcome(~vek_revoked(ev.vek, c[1], matched_gen(ev, now)))]
===============================================================================
