---------------------------- MODULE IntelCollateral ----------------------------
(***************************************************************************)
(* Intel's four pieces of collateral and what each must be before it is    *)
(* used: signed through its issuer chain by the pinned SGX root, and for   *)
(* the platform it was asked for.                                          *)
(*                                                                         *)
(* A signed document (TCB info, QE identity):                              *)
(*   whole      its body has every field, in the right form                *)
(*   id         what it says it is about                                   *)
(*   fmspc      the platform family (TCB info)                             *)
(*   levels     TCB levels; a QE identity also has the QE fields           *)
(*   from       issueDate                                                  *)
(*   chain      a rule holding the issuer chain sent with it               *)
(*   sig        [by, intact]                                               *)
(* A CRL: [issuer, sig, algorithm, next, trailing, revoked, from, chain],  *)
(* revoked a set of serials, next whether it has a nextUpdate.             *)
(*                                                                         *)
(* The identifier of a piece is <<kind, what it is for>>.                  *)
(***************************************************************************)
EXTENDS IntelQuote

TCB_SIGNING == "Intel SGX TCB Signing"

TcbInfo(fmspc) == <<"tcb-info", fmspc>>
QeIdentity == <<"qe-identity", "">>
PckCrl(ca) == <<"pck-crl", ca>>
RootCrl == <<"root-crl", "">>

\* The certificates of a document are judged at its own issueDate.
verify_signed_json(doc) ==
    /\ doc.whole
    /\ Asked(doc.chain)
    /\ verify_signing_cert_chain(doc.chain[1], doc.from, TCB_SIGNING)
    /\ SignedBy(doc.sig, doc.chain[1][1].key)

TcbInfo_verify(doc, fmspc) ==
    /\ verify_signed_json(doc)
    /\ doc.id = "TDX"
    /\ doc.fmspc = fmspc

QeIdentity_verify(doc) ==
    /\ verify_signed_json(doc)
    /\ doc.id = "TD_QE"

check_crl(crl, issuer) ==
    /\ ~crl.trailing
    /\ crl.issuer = issuer.cn
    /\ crl.algorithm
    /\ SignedBy(crl.sig, issuer.key)
    /\ crl.next

PckCrl_verify(crl, ca) ==
    /\ Asked(crl.chain)
    /\ crl.chain[1] # << >>
    /\ check_crl(crl, crl.chain[1][1])
    /\ verify_signing_cert_chain(crl.chain[1], crl.from, ca)

RootCrl_verify(crl) == check_crl(crl, BundledRoot)

\* Collateral::verify of the piece `id` names.
IntelVerifies(id, doc) ==
    \/ id[1] = "tcb-info" /\ TcbInfo_verify(doc, id[2])
    \/ id[1] = "qe-identity" /\ QeIdentity_verify(doc)
    \/ id[1] = "pck-crl" /\ PckCrl_verify(doc, id[2])
    \/ id[1] = "root-crl" /\ RootCrl_verify(doc)

-------------------------------------------------------------------------------
(* Who vouches for a document, read off its signatures alone.              *)
DocumentVouches(name, doc) ==
    Edge(doc.sig.intact, doc.sig.by, name)
    \cup (IF Asked(doc.chain) THEN ChainVouches(doc.chain[1]) ELSE {})
===============================================================================
