----------------------------- MODULE Verification -----------------------------
(***************************************************************************)
(* Verifier::verify and attach_collateral: an envelope is parsed and       *)
(* admitted, its evidence is checked, the collateral it names is looked up *)
(* concurrently, and the verdict is reached.  The front ends that do it in *)
(* several calls are composed from the same handler: an attester that      *)
(* attaches the collateral for a verifier without network, and a page that *)
(* asks which collateral is needed, fetches it and hands it in (WASM).     *)
(*                                                                         *)
(* request: [platform, size, parses, decodes, evidence, policy, gpu,       *)
(*   attached, published, down, now, calls]; policy is a rule holding the  *)
(*   params of the platform, attached and published are functions from     *)
(*   identifiers to documents, down the pieces that cannot be fetched.     *)
(* A document also has edition (a later one replaces an earlier one) and   *)
(* acceptable (its dates and its floor; CollateralDates).                  *)
(* gpu: [bundle, policy, nonce, answers, up, keys, attached]; bundle and   *)
(*   policy are rules, nonce is what the bundle was made with, up says     *)
(*   that NRAS answers, attached that its answers came with the evidence.  *)
(***************************************************************************)
EXTENDS Platforms, GpuBundle

CONSTANT Requests

\* What parsing makes of documents and evidence: SVNs are numbers, chains sequences.
IsSequence(s) == Len(s) \in Nat /\ s = [i \in 1..Len(s) |-> s[i]]

\* The fields a piece of each kind is read for.
Crl == {"sig", "algorithm", "next", "trailing", "revoked"}
IntelDocument == {"whole", "id", "levels", "from", "chain", "sig"}

FieldsOf(kind) ==
    {"edition", "acceptable"}
    \cup (IF kind = "tcb-info" THEN IntelDocument \cup {"fmspc"}
          ELSE IF kind = "qe-identity"
               THEN IntelDocument \cup {"mrsigner", "isvprodid", "attributes", "mask"}
          ELSE IF kind = "pck-crl" THEN Crl \cup {"issuer", "from", "chain"}
          ELSE IF kind = "root-crl" THEN Crl \cup {"issuer"}
          ELSE IF kind = "amd-crl" THEN Crl \cup {"gen"}
          ELSE IF kind = "vcek"
               THEN {"key", "by", "intact", "cn", "from", "until", "hwid", "spl", "whole"}
          ELSE {"whole", "cert", "pss", "digitalSignature", "ca", "sig", "late", "provenance",
                "tdx", "snp"})

WellFormed(id, doc) ==
    /\ FieldsOf(id[1]) \subseteq DOMAIN doc
    /\ doc.edition \in Nat
    /\ id[1] = "tcb-info" => doc.levels \in Seq(TcbLevel)
    /\ id[1] = "qe-identity" => doc.levels \in Seq(QeLevel)
    /\ id[1] \in {"tcb-info", "qe-identity", "pck-crl"} /\ Asked(doc.chain) =>
           IsSequence(doc.chain[1])

QuoteParts == {"kept", "ccel", "body", "sig", "attKey", "qe", "qeSig", "chain"}

WellFormedQuote(q) ==
    /\ QuoteParts \subseteq DOMAIN q
    /\ q.body.svn \in Seq(Nat)
    /\ q.qe.isvsvn \in Nat
    /\ IsSequence(q.chain)
    /\ Asked(q.ccel) =>
           /\ IsSequence(q.ccel[1].log)
           /\ \A n \in DOMAIN q.ccel[1].log : IsSequence(q.ccel[1].log[n].digests)
    /\ q.chain # << >> => q.chain[1].svns \in Seq(Nat) /\ q.chain[1].pce \in Nat

ASSUME RequestsAssumption ==
    \A r \in Requests :
        /\ r.platform \in TdxPlatforms \cup SnpPlatforms
        /\ \A id \in DOMAIN r.attached : WellFormed(id, r.attached[id])
        /\ \A id \in DOMAIN r.published : WellFormed(id, r.published[id])
        /\ r.platform \in TdxPlatforms => WellFormedQuote(r.evidence.quote)
        /\ r.platform \in SnpPlatforms /\ Asked(r.evidence.report.cpuid) =>
               r.evidence.report.cpuid = Rule(r.evidence.report.cpuid[1])
        /\ Asked(r.gpu.bundle) =>
               /\ Groups(r.gpu.bundle[1]) \subseteq ToSet(ArchOrder)
               /\ \A a \in Groups(r.gpu.bundle[1]) : IsSequence(r.gpu.answers[a].subs)
               /\ IsSequence(r.gpu.keys) /\ \A i \in DOMAIN r.gpu.keys : IsSequence(r.gpu.keys[i].x5c)

VARIABLES
    request,    \* the evidence, the policies and the world they meet
    todo,       \* the calls still to be made about it
    stage,      \* where the running call is
    carried,    \* collateral attached to the evidence
    held,       \* responses handed to a context without network
    found,      \* how the lookups of the running call ended
    consulted,  \* pieces the running call asked for beyond those on hand
    answers     \* what the calls so far answered

vars == <<request, todo, stage, carried, held, found, consulted, answers>>

Stages == {"idle", "gathering", "gpu", "handing in"}

NoFcn == << >>

Init ==
    /\ request \in Requests
    /\ todo = request.calls
    /\ stage = "idle"
    /\ carried = request.attached
    /\ held = NoFcn
    /\ found = NoFcn
    /\ consulted = {}
    /\ answers = << >>

Call == Head(todo)

pf == request.platform
ev == request.evidence
now == request.now

(* attach_collateral and collateral_needed accept every platform with its  *)
(* default params; the others take the caller's policies.                  *)
ByDefault == Call \in {"attach", "collateral_needed"}
Policy == IF ByDefault THEN Rule(Default(pf)) ELSE request.policy
GpuPolicy == IF ByDefault THEN NoRule ELSE request.gpu.policy

-------------------------------------------------------------------------------
(* Before the first lookup. *)

parse_envelope ==
       Check(request.size = "fits", "EvidenceTooLarge")
    && Check(request.parses, "EvidenceDeserialize")

\* The GPU nonce is the report_data the platform's params expect.
GpuNonceError(p) ==
    IF ~Asked(p.user_nonce) THEN Ok
    ELSE    Check(Asked(Policy[1].report_data), "NvidiaGpuReportDataRequired")
         && Check(Policy[1].report_data = p.user_nonce, "InvalidParams")

\* The page is built without GPU support: its policies have no GPU rules.
InPage == Call \in {"collateral_needed", "evaluate"}

GpuRulesError ==
    LET bundle == request.gpu.bundle
    IN  IF InPage THEN Check(~Asked(bundle), "PlatformNotEnabled")
        ELSE IF Asked(GpuPolicy)
        THEN   Check(Asked(bundle) \/ ~GpuPolicy[1].required, "NvidiaGpuRequired")
            && (IF Asked(bundle) THEN check_preconditions(bundle[1], GpuPolicy[1]) ELSE Ok)
            && GpuNonceError(GpuPolicy[1])
        ELSE Check(~Asked(bundle), "PlatformNotAllowed")

\* Rules that need no verification; attaching asks for none of the caller's.
AdmitError ==
    IF Call = "attach" THEN Ok
    ELSE Check(Asked(Policy), "PlatformNotAllowed") && GpuRulesError

\* Mutant: the params are only checked with the verdict.
StartUnvalidated ==
       parse_envelope
    && AdmitError
    && Check(request.decodes, "EvidenceDeserialize")
    && GenuineError(pf, ev, now)

StartError ==
       Check(~InPage \/ ~Asked(GpuPolicy), "bad_request")
    && parse_envelope
    && AdmitError
    && Check(request.decodes, "EvidenceDeserialize")
    && Validate(pf, Policy[1])
    && GenuineError(pf, ev, now)

Verdict(error, passed, result) == [error |-> error, passed |-> passed, result |-> result]
Refusal(error) == Verdict(error, FALSE, NoRule)

Answer(verdict) ==
    /\ answers' = Append(answers, [call |-> Call, verdict |-> verdict, consulted |-> consulted'])
    /\ todo' = Tail(todo)
    /\ stage' = IF Call = "collateral_needed" THEN "handing in" ELSE "idle"

\* A call that ends, or whose lookups begin.
Begin ==
    /\ stage = "idle" /\ todo # << >>
    /\ found' = NoFcn /\ consulted' = {}
    /\ IF StartError # Ok \/ Wanted(pf, ev, now) = {}
       THEN Answer(Refusal(StartError && SetError(pf, ev)))
       ELSE stage' = "gathering" /\ UNCHANGED <<todo, answers>>
    /\ UNCHANGED <<request, carried, held>>

-------------------------------------------------------------------------------
(* One lookup: Store::get of the verdict's view. *)

OnHand(id) ==
    (IF id \in DOMAIN held THEN <<held[id]>> ELSE << >>)
    \o (IF id \in DOMAIN carried THEN <<carried[id]>> ELSE << >>)

\* The newest, on a tie the first.
Newest(copies) ==
    copies[CHOOSE i \in DOMAIN copies : \A j \in DOMAIN copies :
        IF j < i THEN copies[j].edition < copies[i].edition
        ELSE copies[j].edition <= copies[i].edition]

Failed(error) == [error |-> error, doc |-> NoRule]
Found(doc) == [error |-> Ok, doc |-> Rule(doc)]

Online == Call \in {"verify", "attach"}

Load(id) ==
    IF ~Online \/ id \in request.down THEN Failed("CollateralUnavailable")
    ELSE IF id \notin DOMAIN request.published
         THEN IF id[1] = "gce-endorsement" THEN [error |-> Ok, doc |-> NoRule]
              ELSE Failed(IF NamedByEvidence(id) THEN "CertChainError" ELSE "CollateralUnavailable")
    ELSE IF Verifies(id, request.published[id]) THEN Found(request.published[id])
    ELSE Failed("CertChainError")

GoodEnough(copies) == copies # << >> /\ Newest(copies).acceptable

Lookup(id) ==
    LET copies == OnHand(id)
    IN  IF \E i \in DOMAIN copies : ~Verifies(id, copies[i]) THEN Failed("CertChainError")
        ELSE IF GoodEnough(copies) \/ (copies # << >> /\ ~Asked(Load(id).doc))
             THEN Found(Newest(copies))
        ELSE IF copies = << >> THEN Load(id)
        ELSE Found(Newest(Append(copies, Load(id).doc[1])))

LookUp(id) ==
    /\ stage = "gathering"
    /\ id \in Wanted(pf, ev, now) \ DOMAIN found
    /\ found' = [i \in DOMAIN found \cup {id} |-> IF i = id THEN Lookup(id) ELSE found[i]]
    /\ consulted' = IF GoodEnough(OnHand(id)) THEN consulted ELSE consulted \cup {id}
    /\ UNCHANGED <<request, todo, stage, carried, held, answers>>

Complete == stage = "gathering" /\ DOMAIN found = Wanted(pf, ev, now)

-------------------------------------------------------------------------------
(* The verdict, once every lookup has ended. *)

JudgeError ==
       GatherError(pf, ev, found, now)
    && VerifyError(pf, ev, Policy[1], Gathered(pf, ev, found, now), now)

\* Every piece the verdict used was acceptable.
AllAcceptable == \A id \in DOMAIN found : Asked(found[id].doc) => found[id].doc[1].acceptable

ThisResult == Result(pf, ev, Policy[1], found, now)

Passed == PlatformPassed(pf, ThisResult) /\ AllAcceptable

(* What an attester attaches: the pieces used, without the roots of their  *)
(* chains; what it got so far if something is unavailable.                 *)
without_roots(chain) ==
    LET kept == InOrder({i \in DOMAIN chain : chain[i] # BundledRoot}, Len(chain))
    IN  [i \in 1..Len(kept) |-> chain[kept[i]]]

Strip(doc) ==
    IF "chain" \in DOMAIN doc /\ Asked(doc.chain)
    THEN [doc EXCEPT !.chain = Rule(without_roots(doc.chain[1]))] ELSE doc

Used == {id \in DOMAIN found : Asked(found[id].doc)}

(* The GPU bundle: NRAS's answers (attached ones if none has expired), the *)
(* key set, the verdict.                                                   *)
GpuHeld ==
    /\ request.gpu.attached
    /\ \A a \in Groups(request.gpu.bundle[1]) : ~expired(request.gpu.answers[a], now)

gather_bundle(p) ==
    LET gpu == request.gpu
    IN     check_preconditions(gpu.bundle[1], p)
        && Check(GpuHeld \/ (gpu.up /\ Call # "offline"), "CollateralUnavailable")
        && Check(NrasJwks_verify(gpu.keys), "CertChainError")
        && Check(KeysKnown(gpu.bundle[1], gpu.answers, gpu.keys),
                 IF gpu.attached THEN "JwsVerification" ELSE "CollateralUnavailable")

GpuError ==
    LET gpu == request.gpu
    IN  gather_bundle(GpuPolicy[1])
        && verify_bundle_error(gpu.bundle[1], GpuPolicy[1], gpu.answers, gpu.keys, now)

\* An attester uses the report_data as the GPU nonce.
AttachError ==
       JudgeError
    && (IF Asked(request.gpu.bundle)
        THEN gather_bundle([user_nonce |-> Rule(request.gpu.nonce), bindings |-> NoRule]) ELSE Ok)

-------------------------------------------------------------------------------
(* How a call ends whose lookups have. *)

\* What is unavailable is left for the verifier to fetch, or for the page.
Forgiven(error) == IF error = "CollateralUnavailable" THEN Ok ELSE error

\* Mutant: pieces that had been attached before are not attached again.
attach_fetched == [id \in Used \cap consulted |-> Strip(found[id].doc[1])]

attach == [id \in Used |-> Strip(found[id].doc[1])]

Attach ==
    /\ Complete /\ Call = "attach"
    /\ consulted' = consulted
    /\ carried' = IF Forgiven(AttachError) = Ok THEN attach ELSE carried
    /\ Answer(Refusal(Forgiven(AttachError)))
    /\ UNCHANGED <<request, held, found>>

collateral_needed ==
    /\ Complete /\ Call = "collateral_needed"
    /\ consulted' = consulted
    /\ Answer(Refusal(Forgiven(JudgeError)))
    /\ UNCHANGED <<request, carried, held, found>>

Judging == {"verify", "offline", "evaluate"}

WithGpu == Asked(request.gpu.bundle) /\ Asked(GpuPolicy) /\ ~InPage

Judge ==
    /\ Complete /\ Call \in Judging
    /\ consulted' = consulted
    /\ IF JudgeError # Ok THEN Answer(Refusal(JudgeError))
       ELSE IF WithGpu THEN stage' = "gpu" /\ UNCHANGED <<todo, answers>>
       ELSE Answer(Verdict(Ok, Passed, Rule(ThisResult)))
    /\ UNCHANGED <<request, carried, held, found>>

JudgeGpu ==
    /\ stage = "gpu"
    /\ consulted' = consulted
    /\ IF GpuError # Ok THEN Answer(Refusal(GpuError))
       ELSE LET gpu == verify_bundle(request.gpu.bundle[1], GpuPolicy[1], request.gpu.answers)
            IN  Answer(Verdict(Ok, Passed /\ GpuPassed(gpu), Rule(ThisResult)))
    /\ UNCHANGED <<request, carried, held, found>>

\* The page fetches what it was told is needed, if it was told.
LastAnswer == answers[Len(answers)]

HandIn ==
    /\ stage = "handing in"
    /\ LET needed == IF LastAnswer.verdict.error = Ok THEN LastAnswer.consulted ELSE {}
       IN  held' = [id \in (needed \cap DOMAIN request.published) \ request.down |->
                       request.published[id]]
    /\ stage' = "idle"
    /\ UNCHANGED <<request, todo, carried, found, consulted, answers>>

Next ==
    \/ Begin
    \/ \E id \in (IF stage = "gathering" THEN Wanted(pf, ev, now) ELSE {}) : LookUp(id)
    \/ Attach
    \/ collateral_needed
    \/ Judge
    \/ JudgeGpu
    \/ HandIn

Spec == Init /\ [][Next]_vars
===============================================================================
