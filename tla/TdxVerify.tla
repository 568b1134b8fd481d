------------------------------- MODULE TdxVerify -------------------------------
(***************************************************************************)
(* Verification of Intel TDX evidence: the rules of the params, the quote  *)
(* checks that need no collateral, and the evaluation of Intel's           *)
(* collateral.  dstack evidence is a quote in another encoding, verified   *)
(* the same way without an event log.                                      *)
(*                                                                         *)
(* Evidence: a quote (IntelQuote) with ccel, a rule holding an event log.  *)
(* Its body: [mrtd, rtmr, report_data, mr_config_id, debug, svn], rtmr a   *)
(* sequence of four registers.                                             *)
(* Params: [report_data, init_data, mrtd, rtmr, allow_debug, accepted], and *)
(* pcrs on Azure.                                                          *)
(***************************************************************************)
EXTENDS IntelCollateral, EventLog

TdxDefault ==
    [report_data |-> NoRule, init_data |-> NoRule, mrtd |-> NoRule,
     rtmr |-> [i \in 1..4 |-> NoRule], allow_debug |-> FALSE,
     accepted |-> TdxTcbStatus \ Fatal, pcrs |-> << >>]

TdxParams_validate(p) ==
       Check(AtMost(p.report_data, 64), "ReportDataTooLarge")
    && Check(AtMost(p.init_data, 48), "InvalidParams")
    && Check(p.accepted # {}, "InvalidParams")
    && Check(check_allowed_set(p.mrtd), "InvalidParams")
    && Check(\A i \in 1..4 : check_allowed_set(p.rtmr[i]), "InvalidParams")

\* The collateral for a quote, in the order its errors are reported.
TdxCollateralSet(q) ==
    LET pck == PckChain(q) IN <<TcbInfo(pck.fmspc), QeIdentity, PckCrl(pck.ca), RootCrl>>

\* The claims are read off the quote body.
extract_claims(q) ==
    [launch_digest |-> q.body.mrtd, report_data |-> q.body.report_data,
     signed_data |-> q.body.report_data.v, init_data |-> q.body.mr_config_id,
     tcb |-> q.body.svn, rtmr |-> q.body.rtmr]

(* The rules about the quote body. report_data and init_data live in the   *)
(* body or in a vTPM, the collateral comes last.                           *)
verify_quote(q, p) ==
    [claims |-> extract_claims(q),
     report_data_match |-> "unasked",
     init_data_match |-> "unasked",
     mrtd_match |-> match_any(q.body.mrtd, p.mrtd),
     rtmr_match |-> [i \in 1..4 |-> match_any(q.body.rtmr[i], p.rtmr[i])],
     debug |-> q.body.debug,
     allow_debug |-> p.allow_debug,
     crl_ok |-> "unasked",
     tcb_status |-> "none",
     tcb_status_accepted |-> "unasked"]

TdxPassed(r) ==
    /\ all_held({r.report_data_match, r.init_data_match, r.mrtd_match,
                 r.crl_ok, r.tcb_status_accepted}
                \cup {r.rtmr_match[i] : i \in 1..4})
    /\ r.debug => r.allow_debug

TcbStatus(q, c) ==
    evaluate_tcb_status(c[1].levels, PckChain(q), q.body.svn)
QeStatus(q, c) == check_qe_report(q.qe, c[2])

\* The errors of the collateral evaluation; c is the set, in gather's order.
CollateralError(q, c) ==
    LET pck == PckChain(q)
        signers == {c[1].chain[1][1], c[2].chain[1][1]}
    IN     Check(c[1].fmspc = pck.fmspc, "CertChainError")
        && Check(\A s \in signers : ~cert_revoked(s, c[4]), "CertChainError")
        && Check(TcbStatus(q, c) # Ungraded, Ungraded)
        && Check(QeStatus(q, c) # Ungraded, Ungraded)

check_collateral(r, q, p, c) ==
    LET status == combine_tcb_status(TcbStatus(q, c), QeStatus(q, c))
        revoked == cert_revoked(q.chain[1], c[3]) \/ cert_revoked(q.chain[2], c[4])
    IN  [r EXCEPT !.tcb_status = status,
                  !.tcb_status_accepted = Outcome(status \in p.accepted),
                  !.crl_ok = Outcome(~revoked)]

\* The rules bare-metal TDX checks against the quote body itself.
BodyRules(r, q, p) ==
    [r EXCEPT !.report_data_match = match_padded(q.body.report_data, p.report_data),
              !.init_data_match = match_padded(q.body.mr_config_id, p.init_data)]

EventLogError(q) ==
    IF ~Asked(q.ccel) THEN Ok
    ELSE    Check(q.ccel[1].field # "too large", "EvidenceDeserialize")
         && Check(q.ccel[1].field # "malformed", "EventlogIntegrityFailed")
         && Check(verify_ccel_against_rtmrs(q.ccel[1], q.body.rtmr), "EventlogIntegrityFailed")

\* Tdx::verify: the error, or the result.
TdxError(q, p, c, now) ==
       TdxParams_validate(p)
    && genuine_quote(q, now)
    && EventLogError(q)
    && CollateralError(q, c)

TdxResult(q, p, c) ==
    check_collateral(BodyRules(verify_quote(q, p), q, p), q, p, c)

(* dstack's quote field is base64 or, from older versions, hex: text that  *)
(* is hex and long enough to hold a quote is decoded as hex, any other as  *)
(* base64. Text read in the wrong encoding yields other bytes, no quote.   *)
(* dstack's event log has another format and is left out.                  *)
MIN_TDX_QUOTE_HEX_LEN == 1264

Misread(q) ==
    \/ q.encoding = "hex" /\ q.chars < MIN_TDX_QUOTE_HEX_LEN
    \/ q.encoding = "base64 of hex digits only" /\ q.chars >= MIN_TDX_QUOTE_HEX_LEN

normalize_quote(q) ==
    [q EXCEPT !.ccel = NoRule, !.kept = IF Misread(q) THEN 0 ELSE @]
===============================================================================
