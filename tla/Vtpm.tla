--------------------------------- MODULE Vtpm ---------------------------------
(***************************************************************************)
(* The vTPM evidence of Azure guests: an HCL report wraps the TEE report   *)
(* and the attestation key (AK) of the vTPM, whose quote carries the       *)
(* caller's report_data as its nonce and signs a digest of the PCRs it     *)
(* selects.                                                                *)
(*                                                                         *)
(* hcl: [sized, magic, type, content, var, jwk, tpm2b]; content is         *)
(*   "fits", "overruns" or "empty", var names the var_data (its SHA-256),  *)
(*   jwk and tpm2b are rules holding the AK in either encoding.            *)
(* tpm: [field, sig, msg, pcrs]; msg: [magic, whole, type, nonce, algs,    *)
(*   selected, digest], digest the selected values (a hash is modelled by  *)
(*   what it is taken of); pcrs a sequence of [v, len], PCR 0 first, v the *)
(*   chain of digests extended into the PCR.                               *)
(***************************************************************************)
EXTENDS Checks, FiniteSets

INIT_DATA_PCR == 8

HclTypes == [snp |-> 2, tdx |-> 4]

parse_hcl_report(hcl) ==
    /\ hcl.sized
    /\ hcl.magic
    /\ hcl.content = "fits"

verify_hcl_var_data_binding(report_data, hcl) == report_data.v = hcl.var

\* The JWK form first; TPM2B_PUBLIC only when there is none.
AkOf(hcl) == IF Asked(hcl.jwk) THEN hcl.jwk ELSE hcl.tpm2b

SignatureError(tpm, hcl) ==
       Check(Asked(AkOf(hcl)), "QuoteParseFailed")
    && Check(AkOf(hcl)[1] # "not RSA", "SignatureVerificationFailed")
    && Check(SignedBy(tpm.sig, AkOf(hcl)[1]), "SignatureVerificationFailed")

extract_tpm_nonce(msg) == IF msg.magic THEN Rule(msg.nonce) ELSE NoRule

\* Compared as it is: the nonce is not padded.
check_report_data(msg, expected) ==
    IF Asked(expected) THEN Outcome(msg.nonce = expected[1]) ELSE "unasked"

ReportDataError(msg, expected) ==
       Check(AtMost(expected, 64), "ReportDataTooLarge")
    && Check(Asked(expected) => Asked(extract_tpm_nonce(msg)), "QuoteParseFailed")

is_sha256_quote(msg) == msg.type = "quote" /\ msg.algs = <<"SHA-256">>
parse_quote_info(msg) == msg.whole /\ is_sha256_quote(msg)

Pcr(pcrs, i) == pcrs[i + 1].v
Supplied(pcrs, i) == i < Len(pcrs)

verify_tpm_pcrs(msg, pcrs) ==
    /\ pcrs # << >>
    /\ \A i \in DOMAIN pcrs : pcrs[i].len = 32
    /\ parse_quote_info(msg)
    /\ \A i \in msg.selected : Supplied(pcrs, i)
    /\ msg.digest = [i \in msg.selected |-> Pcr(pcrs, i)]

\* Mutant: a PCR is compared whether or not the quote signs it.
PcrSent(msg, pcrs, i, v) == Supplied(pcrs, i) /\ Pcr(pcrs, i) = v

(* Only a PCR of the signed selection is authentic: a pin on another one   *)
(* is a mismatch whatever value came with the quote.                       *)
PcrIs(msg, pcrs, i, v) ==
    /\ i \in msg.selected
    /\ Supplied(pcrs, i)
    /\ Pcr(pcrs, i) = v

\* pins: a function from PCR indexes to the values expected.
check_pcrs(msg, pcrs, pins) ==
    IF DOMAIN pins = {} THEN "unasked"
    ELSE Outcome(\A i \in DOMAIN pins : PcrIs(msg, pcrs, i, pins[i]))

check_pcr_pin_indexes(pins) == \A i \in DOMAIN pins : i <= 23

check_init_data_len(expected) == Asked(expected) => expected[1].len = 32

\* PCR[8] extended once from zero with the init-data hash.
check_init_data(msg, pcrs, expected) ==
    IF Asked(expected)
    THEN Outcome(PcrIs(msg, pcrs, INIT_DATA_PCR, <<expected[1].v>>)) ELSE "unasked"

decode_tpm_quote(tpm) == tpm.field \notin FieldFaults

\* The nonce and PCRs shown as claims: all PCRs sent, selected or not.
tpm_claims(tpm, claims) ==
    [claims EXCEPT !.signed_data =
        IF Asked(extract_tpm_nonce(tpm.msg)) THEN tpm.msg.nonce.v ELSE @]

-------------------------------------------------------------------------------
(* Who vouches for what: the TEE report for the var_data, which holds the  *)
(* AK, which signs the message, whose digest fixes the PCRs it selects.    *)
VtpmVouches(tee, report_data, hcl, tpm) ==
    (IF report_data.v = hcl.var /\ Asked(AkOf(hcl)) THEN {<<tee, AkOf(hcl)[1]>>} ELSE {})
    \cup (IF tpm.sig.intact THEN {<<tpm.sig.by, "TPM quote">>} ELSE {})
    \cup (IF \A i \in tpm.msg.selected :
                Supplied(tpm.pcrs, i) /\ tpm.msg.digest[i] = Pcr(tpm.pcrs, i)
          THEN {<<"TPM quote", "selected PCRs">>} ELSE {})
===============================================================================
