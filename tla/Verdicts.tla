-------------------------------- MODULE Verdicts --------------------------------
(***************************************************************************)
(* What a verdict may be relied on for.  The properties read the evidence, *)
(* the collateral and the policies on their own, not through the checks of *)
(* the verifier: who vouches for what is read off the signatures that      *)
(* hold, and a rule is compared with the place that has to bear it out.    *)
(***************************************************************************)
EXTENDS Verification

Azure == {"az-tdx", "az-snp"}

Judged == stage = "idle" /\ answers # << >> /\ LastAnswer.call \in Judging
Passing == Judged /\ LastAnswer.verdict.passed

Doc(id) == found[id].doc[1]
Of(kind) == {id \in Used : id[1] = kind}
The(kind) == Doc(CHOOSE id \in Of(kind) : TRUE)

VekUsed == IF pf = "az-snp" THEN ev.vek ELSE IF Inline(ev) THEN ev.vek[1] ELSE The("vcek")

-------------------------------------------------------------------------------
(* The statements that hold, as edges from who signs to what is signed.    *)

Pinned == {IntelRoot, GceRoot} \cup PinnedKeys \cup {Ark[g] : g \in Generations}

Follow(edges, reached) == reached \cup {e[2] : e \in {x \in edges : x[1] \in reached}}

(* The longest chain of statements a verdict rests on has eight links: the *)
(* SGX root, the PCK CA, the PCK leaf, the QE report, the attestation key, *)
(* the TD report, the AK, the quote of the vTPM and its PCRs.              *)
Reachable(edges) ==
    LET Twice(reached) == Follow(edges, Follow(edges, reached))
    IN  Twice(Twice(Twice(Twice(Pinned))))

DocEdges(id) ==
    IF id[1] = "gce-endorsement"
    THEN ChainVouches(<<Doc(id).cert>>) \cup Edge(Doc(id).sig.intact, Doc(id).sig.by, id[1])
    ELSE IF id[1] = "vcek" THEN Edge(Doc(id).intact, Doc(id).by, id[1])
    ELSE IF id[1] = "amd-crl" THEN Edge(Doc(id).sig.intact, Doc(id).sig.by, id[1])
    ELSE DocumentVouches(id[1], Doc(id))

TeeEdges ==
    IF pf \in TdxPlatforms THEN QuoteVouches(Quote(pf, ev)) ELSE VekVouches(VekUsed, ev.report)

TeeReport == IF pf \in TdxPlatforms THEN "TD report" ELSE "SNP report"
ReportData == IF pf \in TdxPlatforms THEN ev.quote.body.report_data ELSE ev.report.report_data

VtpmEdges ==
    IF pf \in Azure THEN VtpmVouches(TeeReport, ReportData, ev.hcl, ev.tpm) ELSE {}

EvidenceNames == {TeeReport} \cup (IF pf \in Azure THEN {"TPM quote", "selected PCRs"} ELSE {})

\* The signing certificate of a piece of Intel's or Google's has its role.
Role(id) == IF id[1] = "pck-crl" THEN id[2] ELSE TCB_SIGNING
InRole(id) ==
    /\ id[1] \in {"tcb-info", "qe-identity", "pck-crl"} =>
           \E i \in DOMAIN Doc(id).chain[1] :
               LET cert == Doc(id).chain[1][i]
               IN  cert.key = Doc(id).sig.by /\ cert.cn = Role(id)
    /\ id[1] = "gce-endorsement" => Doc(id).cert.cn = SIGNER_CN /\ ~Doc(id).ca

\* Every certificate a verdict relies on, and the CRLs it has.
Relied ==
    IF pf \in TdxPlatforms
    THEN {ev.quote.chain[1], ev.quote.chain[2]}
         \cup {Doc(id).chain[1][1] : id \in Of("tcb-info") \cup Of("qe-identity")}
    ELSE {[by |-> Ark[g], serial |-> VekUsed.by] :
              g \in {g \in Generations : VekUsed.by \in {Ask[g], Asvk[g]}}}

Crls == {Doc(id) : id \in Of("pck-crl") \cup Of("root-crl") \cup Of("amd-crl")}

(* No verdict passes unless a pinned root vouches, signature by signature, *)
(* for the report, the vTPM's quote and PCRs, and every piece of           *)
(* collateral used, each signed by whoever has that role, and no           *)
(* certificate relied on is on the revocation list of its issuer.          *)
PassedIsVouched ==
    Passing =>
        LET trusted == Reachable(TeeEdges \cup VtpmEdges \cup UNION {DocEdges(id) : id \in Used})
        IN  /\ EvidenceNames \cup {id[1] : id \in Used} \subseteq trusted
            /\ \A id \in Used : InRole(id)
            /\ \A cert \in Relied :
                   \E crl \in Crls : crl.sig.by = cert.by /\ cert.serial \notin crl.revoked

-------------------------------------------------------------------------------
(* The rules of the policies. *)

Bears(place, rule) == Asked(rule) => place = rule[1].v

ReportDataBorne(p) ==
    IF pf \in Azure THEN Asked(p.report_data) => ev.tpm.msg.nonce = p.report_data[1]
    ELSE IF pf \in SnpPlatforms /\ Asked(p.measurement_registers)
    THEN Bears(ev.report.commits[1].caller, p.report_data)
    ELSE Bears(ReportData.v, p.report_data)

InitDataBorne(place, rule) ==
    IF pf \in Azure
    THEN Asked(rule) => 8 \in ev.tpm.msg.selected /\ ev.tpm.pcrs[9].v = <<rule[1].v>>
    ELSE Bears(place.v, rule)

PinsBorne(p) ==
    pf \in Azure => \A i \in DOMAIN p.pcrs :
        i \in ev.tpm.msg.selected /\ ev.tpm.pcrs[i + 1].v = p.pcrs[i]

TdxRulesHold(p) ==
    LET body == ev.quote.body
    IN  /\ InitDataBorne(body.mr_config_id, p.init_data)
        /\ Asked(p.mrtd) => body.mrtd \in p.mrtd[1]
        /\ \A i \in 1..4 : Asked(p.rtmr[i]) => body.rtmr[i] \in p.rtmr[i][1]
        /\ body.debug => p.allow_debug
        /\ LastAnswer.verdict.result[1].tee.tcb_status \in p.accepted

RegistersHold(p) ==
    Asked(p.measurement_registers) =>
        \A r \in Registers :
            ev.report.commits[1].registers[r] = Expected(p.measurement_registers[1], r)

SnpRulesHold(p) ==
    LET report == ev.report
        AtLeast(tcb, min) ==
            /\ \A s \in Spls : tcb[s] >= min[s]
            /\ Asked(min.fmc) => Asked(tcb.fmc) /\ tcb.fmc[1] >= min.fmc[1]
    IN  /\ InitDataBorne(report.host_data, p.host_data)
        /\ Asked(p.launch_digest) => report.measurement \in p.launch_digest[1]
        /\ Asked(p.min_tcb) =>
               \A tcb \in {report.reported, report.committed, report.launch} :
                   AtLeast(tcb, p.min_tcb[1])
        /\ report.debug => p.allow_debug
        /\ ~report.migrate_ma
        /\ report.vmpl <= p.max_vmpl
        /\ RegistersHold(p)

\* On Google's cloud, firmware Google endorses, under a policy it allows.
EndorsementHolds ==
    pf \in GcpPlatforms =>
        /\ Of("gce-endorsement") # {}
        /\ LET e == The("gce-endorsement")
           IN  IF pf = "gcp-tdx" THEN ev.quote.body.mrtd \in e.tdx[1]
               ELSE /\ ev.report.measurement \in e.snp[1].measurements \cup ({e.snp[1].svsm} \ {""})
                    /\ ev.report.policy.grants \subseteq e.snp[1].policy.grants
                    /\ e.snp[1].policy.restrictions \subseteq ev.report.policy.restrictions

(* No verdict passes with a rule of the caller's params left out: each one *)
(* given is borne out by the place in the signed evidence that is meant to *)
(* carry it (a vTPM's nonce and PCR 8 on Azure, the registers committed to *)
(* in REPORT_DATA), and so are the rules that always hold (no debugging,   *)
(* no migration, dates, Google's endorsement on Google's cloud).           *)
NoRuleLeftOut ==
    Passing =>
        LET p == request.policy[1]
        IN  /\ ReportDataBorne(p)
            /\ PinsBorne(p)
            /\ IF pf \in TdxPlatforms THEN TdxRulesHold(p) ELSE SnpRulesHold(p)
            /\ EndorsementHolds
            /\ \A id \in Used : Doc(id).acceptable

(* No verdict passes on a quote that came with a boot log of the guest,    *)
(* unless the log tells how the first three RTMRs came about: each was     *)
(* extended as often as the entries before the log's end that name it and  *)
(* hold a SHA-384 digest, in their order and with the last such digest.    *)
BootLogIsMeasured ==
    Passing /\ pf \in {"tdx", "gcp-tdx"} /\ Asked(ev.quote.ccel) =>
        LET log == ev.quote.ccel[1].log
            Extending(i) == {n \in DOMAIN log : /\ \A m \in 1..n : ~EndsLog(log[m])
                                               /\ log[n].mr = i
                                               /\ Sha384Of(log[n]) # {}}
        IN  \A i \in 1..3 :
                /\ Len(ev.quote.body.rtmr[i]) = Cardinality(Extending(i))
                /\ \A n \in Extending(i) :
                       \E last \in Sha384Of(log[n]) :
                           /\ \A d \in Sha384Of(log[n]) : d <= last
                           /\ ev.quote.body.rtmr[i][Cardinality({m \in Extending(i) : m <= n})]
                                  = log[n].digests[last].value

-------------------------------------------------------------------------------
(* How a TD's TCB is graded. *)

Severity(status) == IF status \in Fatal THEN 2 ELSE IF status \in Aged THEN 1 ELSE 0
Worse(a, b) == IF Severity(a) >= Severity(b) THEN Severity(a) ELSE Severity(b)

QeLevels == The("qe-identity").levels
QeDescending == \A i, j \in DOMAIN QeLevels : i < j => QeLevels[j].isvsvn < QeLevels[i].isvsvn
QeMet == {i \in DOMAIN QeLevels : QeLevels[i].isvsvn <= ev.quote.qe.isvsvn}
QeGrade ==
    IF QeMet = {} THEN "NoMatchingLevel"
    ELSE QeLevels[CHOOSE i \in QeMet :
                      \A j \in QeMet : QeLevels[j].isvsvn <= QeLevels[i].isvsvn].status

(* The status of a TD, reached by two passes over Intel's levels and a     *)
(* combination with the Quoting Enclave's, is as bad as the worse of two:  *)
(* the first level the TCB meets in all its parts at once, and the highest *)
(* level of the enclave; a current platform's status is reported as it is. *)
(* One TCB is graded otherwise: TDX SVNs that are all zero are not looked  *)
(* at, the TD has the status of the first level its SGX part meets         *)
(* (dcap.rs:868-883), which may be better than that of the first level met *)
(* in all parts.                                                           *)
GradedByMetLevel ==
    Judged /\ LastAnswer.verdict.error = Ok /\ pf \in TdxPlatforms =>
        LET levels == The("tcb-info").levels
            svn == ev.quote.body.svn
            pck == PckChain(ev.quote)
            grade == IF AllZero(svn) THEN SgxGrade(levels, pck) ELSE Grade(levels, pck, svn)
            status == LastAnswer.verdict.result[1].tee.tcb_status
        IN  Descending(levels) /\ QeDescending =>
                /\ Severity(status) = Worse(grade, QeGrade)
                /\ status \in Current => status = grade

-------------------------------------------------------------------------------
(* When collateral is asked for, and from whom. *)

Misuse == {"PlatformNotAllowed", "PlatformNotEnabled", "InvalidParams", "ReportDataTooLarge",
           "NvidiaGpuRequired", "NvidiaGpuReportDataRequired", "NvidiaGpuBundleEmpty",
           "NvidiaGpuTooManyDevices", "NvidiaGpuUserNonceMissing", "NvidiaGpuNonceTooShort",
           "NvidiaGpuBindingNotAllowed"}

\* An SNP report whose VEK has to be fetched can only be checked with it.
NeedsItsVek == pf \in {"snp", "gcp-snp"} /\ ~Inline(ev)

(* Collateral is asked for (of a vendor, or of the page's own fetches)     *)
(* only about evidence a pinned root vouches for by what it carries, and   *)
(* never by a verification that ends in a refusal of the caller's own      *)
(* parameters.                                                             *)
OnlyGenuineConsults ==
    answers # << >> /\ stage \in {"idle", "handing in"} /\ LastAnswer.consulted # {} =>
        /\ LastAnswer.call \in Judging => LastAnswer.verdict.error \notin Misuse
        /\ NeedsItsVek \/ EvidenceNames \subseteq Reachable(TeeEdges \cup VtpmEdges)

\* A verdict asked for at once, and again by way of an attester or of a page.
ThreeWays == {<<"verify", "attach", "offline">>, <<"verify", "collateral_needed", "evaluate">>}

(* The page holds what it was told to fetch, and refuses a piece of which  *)
(* any copy at hand does not verify; a verifier that fetches the piece     *)
(* itself falls back on the copy attached.                                 *)
FetchedInVain ==
    /\ answers[2].call = "collateral_needed"
    /\ \E id \in answers[2].consulted \cap DOMAIN request.attached :
           ~Verifies(id, request.published[id])

(* The same evidence and collateral get the same verdict whether a         *)
(* verifier fetches the pieces itself, finds them attached without network *)
(* of its own (roots cut off their chains), or is handed them by a page    *)
(* that asked which are needed. Only what a vendor does not publish, or    *)
(* cannot be reached for, may make the difference (and GPUs, which a page  *)
(* does not verify and whose answers GpuVerdict attaches).                 *)
VerdictsAgree ==
    request.calls \in ThreeWays /\ Len(answers) = 3 /\ stage = "idle" =>
        \/ Asked(request.gpu.bundle) \/ Asked(request.gpu.policy)
        \/ answers[2].verdict.error # Ok
        \/ ~(answers[1].consulted \subseteq DOMAIN request.published \ request.down)
        \/ FetchedInVain
        \/ answers[3].verdict = answers[1].verdict

-------------------------------------------------------------------------------
(* Registers and GPUs. *)

(* Measurement registers are shown only in a verdict whose platform rules  *)
(* hold, and are the ones the guest's kernel committed to in the signed    *)
(* REPORT_DATA: a log that says otherwise, one cut short, or one of a      *)
(* guest launched from something else shows none.                          *)
RegistersAreCommitted ==
    Judged /\ LastAnswer.verdict.error = Ok /\ pf \in SnpPlatforms =>
        LET tee == LastAnswer.verdict.result[1].tee
        IN  Asked(tee.registers) =>
                /\ SnpPassed(tee)
                /\ Asked(request.policy[1].launch_digest)
                /\ ev.report.measurement \in request.policy[1].launch_digest[1]
                /\ Asked(ev.report.commits)
                /\ ev.report.commits[1].registers = tee.registers[1]
                /\ ev.report.commits[1].caller = request.policy[1].report_data[1].v

WithGpuEvidence == Asked(request.gpu.bundle) /\ Asked(request.gpu.policy)

KeyEdges ==
    UNION {ChainVouches(request.gpu.keys[i].x5c) : i \in DOMAIN request.gpu.keys}

\* A chain of any length: whatever holds NVIDIA's keys and follows the signatures.
FromPinnedKeys(edges) ==
    {S \in SUBSET (PinnedKeys \cup {e[2] : e \in edges}) : PinnedKeys \subseteq S /\ Follow(edges, S) = S}

SessionNonce(arch) ==
    <<request.policy[1].report_data[1].v, IF arch = "LS10" THEN "SWITCH" ELSE "GPU">>

(* A verdict about GPUs passes only if every token NVIDIA signed about     *)
(* every group of devices answers the very challenge the CPU's evidence    *)
(* answers, through a chain from a pinned intermediate, each device of the *)
(* bundle is reported, and none fails the device policy.                   *)
GpuSharesTheChallenge ==
    Passing /\ WithGpuEvidence =>
        LET gpu == request.gpu
            groups == {gpu.bundle[1].devices[i] : i \in DOMAIN gpu.bundle[1].devices}
            reported == UNION {{<<a, i>> : i \in DOMAIN gpu.answers[a].subs} : a \in groups}
            Sub(x) == gpu.answers[x[1]].subs[x[2]]
        IN  /\ ReportDataBorne(request.policy[1])
            /\ \A a \in groups : \A t \in Tokens(gpu.answers[a]) :
                   /\ t.nonce = SessionNonce(a)
                   /\ t.intact /\ \A trusted \in FromPinnedKeys(KeyEdges) : t.by \in trusted
                   /\ now <= t.until[1]
            /\ Cardinality(reported) = Len(gpu.bundle[1].devices)
            /\ \A x \in reported : device_policy_holds(Sub(x).device, gpu.policy[1].policy)
===============================================================================
