---------------------------- MODULE GceEndorsement ----------------------------
(***************************************************************************)
(* Google's launch endorsements: signed statements of the measurements a   *)
(* GCE firmware build may launch with, per TEE.                            *)
(*                                                                         *)
(* An endorsement: [whole, cert, pss, digitalSignature, ca, sig, late,     *)
(* provenance, tdx, snp]; late says that its timestamp is after            *)
(* PROVENANCE_REQUIRED_AFTER, tdx is a rule holding the MRTDs, snp a rule  *)
(* holding [measurements, svsm, policy]. A guest policy is [grants,        *)
(* restrictions, abi], the bits of either kind that are set.               *)
(***************************************************************************)
EXTENDS Checks

GceRoot == "GceRoot"
SIGNER_CN == "GCE-uefi-signer"

Endorsement(tee, measurement) == <<"gce-endorsement", <<tee, measurement>>>>

\* The role of the certificate that may sign endorsements.
check_signer_role(e) ==
    /\ e.cert.cn = SIGNER_CN
    /\ e.digitalSignature
    /\ ~e.ca

signer_key(e) ==
    /\ e.pss
    /\ SignedBy(e.cert, GceRoot)
    /\ check_signer_role(e)

check_endorsement(e) ==
    /\ e.whole
    /\ signer_key(e)
    /\ SignedBy(e.sig, e.cert.key)
    /\ e.late => e.provenance

\* An empty SVSM measurement endorses nothing.
SnpEndorses(snp, measurement) ==
    \/ measurement \in snp.measurements
    \/ snp.svsm # "" /\ snp.svsm = measurement

GceEndorsement_verify(e, id) ==
    /\ check_endorsement(e)
    /\ IF id[1] = "tdx"
       THEN Asked(e.tdx) /\ id[2] \in e.tdx[1]
       ELSE Asked(e.snp) /\ SnpEndorses(e.snp[1], id[2])

\* The report's policy grants no more than the endorsed one.
check_snp_policy(policy, endorsed) ==
    /\ policy.grants \subseteq endorsed.grants
    /\ endorsed.restrictions \subseteq policy.restrictions
    /\ policy.abi >= endorsed.abi

endorses_tdx(e, mrtd) == Asked(e.tdx) /\ mrtd \in e.tdx[1]

endorses_snp(e, measurement, policy) ==
    /\ Asked(e.snp)
    /\ check_snp_policy(policy, e.snp[1].policy)
    /\ SnpEndorses(e.snp[1], measurement)
===============================================================================
