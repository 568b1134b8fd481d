------------------------------ MODULE IntelQuote ------------------------------
(***************************************************************************)
(* A TDX quote: its layout, the signature over header and body, and the    *)
(* DCAP chain that vouches for the signing key (quote <- attestation key   *)
(* <- QE report <- PCK leaf <- PCK CA <- the pinned SGX root).             *)
(*                                                                         *)
(* A quote q is a record:                                                  *)
(*   tee, version, bodyType, sized   header and v5 type/size fields        *)
(*   kept       how many of Sections the bytes hold completely             *)
(*   certKept   the same for CertSections inside the certification data    *)
(*   body       the report body                                            *)
(*   sigLen     the declared signature length is at least 128              *)
(*   sig        [by, intact]: the ECDSA signature over header and body     *)
(*   attKey     the attestation key                                        *)
(*   certTypes  the two certification data types                           *)
(*   qe         the QE report, binding a key and the authentication data   *)
(*   authData   the QE authentication data                                 *)
(*   qeSig      [by, intact]: the signature over the QE report             *)
(*   chain      the PCK certificates, leaf first; << >> if the PEM is bad  *)
(***************************************************************************)
EXTENDS IntelTcb

IntelRoot == "IntelRoot"

Sections == <<"header", "typeSize", "body", "key", "certHeader", "certData">>
CertSections == <<"qeReport", "qeAuth", "nestedHeader", "pem">>

Reaches(q, section) == \A i \in DOMAIN Sections : Sections[i] = section => q.kept >= i
Holds(q, section) == \A i \in DOMAIN CertSections : CertSections[i] = section => q.certKept >= i

(* v4 has a body of one size; v5 names its type and must declare the size  *)
(* of that type. Every refusal is a QuoteParseFailed.                      *)
parse_tdx_quote(q) ==
    /\ Reaches(q, "header")
    /\ q.tee = "tdx"
    /\ q.version \in {4, 5}
    /\ q.version = 5 =>
           /\ Reaches(q, "typeSize")
           /\ q.bodyType \in {2, 3}
           /\ q.sized
    /\ Reaches(q, "body")

\* The key and cert data follow the body wherever the v5 size field ends it.
verify_quote_signature(q) ==
       Check(Reaches(q, "key"), "QuoteParseFailed")
    && Check(q.sigLen, "QuoteParseFailed")
    && Check(SignedBy(q.sig, q.attKey), "SignatureVerificationFailed")

parse_auth_data(q) ==
    /\ Reaches(q, "certHeader")
    /\ q.certTypes[1] = "EcdsaSigAuxData"
    /\ Reaches(q, "certData")
    /\ Holds(q, "qeReport")
    /\ Holds(q, "qeAuth")
    /\ Holds(q, "nestedHeader")
    /\ q.certTypes[2] = "PckCertChain"
    /\ Holds(q, "pem")

\* Mutant: the attestation key is not bound to the QE report.
verify_qe_report_tail(q) == q.qe.tailZero

(* The QE report carries SHA-256(attestation key, auth data), then zeros:  *)
(* a hash is modelled by the pair it is taken of.                          *)
verify_qe_report_binding(q) ==
    /\ q.qe.hash = <<q.attKey, q.authData>>
    /\ q.qe.tailZero

\* The first three certificates: leaf, PCK CA, root.
verify_pck_cert_chain(chain, now) ==
    /\ Len(chain) >= 3
    /\ chain[3].key = IntelRoot
    /\ SignedBy(chain[3], IntelRoot)
    /\ SignedBy(chain[2], IntelRoot)
    /\ SignedBy(chain[1], chain[2].key)
    /\ \A i \in 1..3 : ValidAt(chain[i], now)

(* The signing chain of a piece of collateral: the signer and the root; a  *)
(* chain cut to the signer alone (as attached to evidence) is completed    *)
(* with the bundled root.                                                  *)
BundledRoot == Cert(IntelRoot, IntelRoot, "Intel SGX Root CA")

\* Mutant: a chain without its root is not completed.
verify_whole_cert_chain(sent, at, signer) ==
    /\ Len(sent) >= 2
    /\ sent[2].key = IntelRoot
    /\ SignedBy(sent[2], IntelRoot) /\ SignedBy(sent[1], IntelRoot)
    /\ sent[1].cn = signer
    /\ \A i \in 1..2 : ValidAt(sent[i], at)

verify_signing_cert_chain(sent, at, signer) ==
    LET chain == IF Len(sent) = 1 THEN Append(sent, BundledRoot) ELSE sent
    IN  /\ Len(chain) >= 2
        /\ chain[2].key = IntelRoot
        /\ SignedBy(chain[2], IntelRoot)
        /\ SignedBy(chain[1], IntelRoot)
        /\ chain[1].cn = signer
        /\ \A i \in 1..2 : ValidAt(chain[i], at)

verify_dcap_chain(q, now) ==
       Check(parse_auth_data(q), "QuoteParseFailed")
    && Check(verify_pck_cert_chain(q.chain, now), "CertChainError")
    && Check(SignedBy(q.qeSig, q.chain[1].key), "SignatureVerificationFailed")
    && Check(verify_qe_report_binding(q), "SignatureVerificationFailed")

(* Everything that needs no collateral.                                    *)
genuine_quote(q, now) ==
       Check(q.field \notin FieldFaults, "EvidenceDeserialize")
    && Check(parse_tdx_quote(q), "QuoteParseFailed")
    && verify_quote_signature(q)
    && verify_dcap_chain(q, now)

(* What the PCK chain says about which collateral applies. The FMSPC and   *)
(* the SVNs are in the leaf's SGX extensions, the CA in its issuer's name. *)
HasSgxExtensions(leaf) == leaf.fmspc # "none"
KnownCa == {"Intel SGX PCK Platform CA", "Intel SGX PCK Processor CA"}

PckChain(q) == [fmspc |-> q.chain[1].fmspc, ca |-> q.chain[1].issuer,
                svns |-> q.chain[1].svns, pce |-> q.chain[1].pce]
PckChainOk(q) ==
    /\ HasSgxExtensions(q.chain[1])
    /\ q.chain[1].issuer \in KnownCa

\* Listed by serial.
cert_revoked(cert, crl) == cert.serial \in crl.revoked

-------------------------------------------------------------------------------
(* The reference for genuineness: who vouches for what in a quote, read    *)
(* off the signatures and the hash that hold in it.                        *)
Edge(held, by, what) == IF held THEN {<<by, what>>} ELSE {}

ChainVouches(chain) ==
    UNION {Edge(chain[i].intact, chain[i].by, chain[i].key) : i \in DOMAIN chain}

QuoteVouches(q) ==
    ChainVouches(q.chain)
    \cup Edge(q.qeSig.intact, q.qeSig.by, "QE report")
    \cup Edge(q.qe.tailZero, "QE report", q.qe.hash[1])
    \cup Edge(q.sig.intact, q.sig.by, "TD report")
===============================================================================
