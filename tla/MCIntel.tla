-------------------------------- MODULE MCIntel --------------------------------
(***************************************************************************)
(* Verifications of Intel evidence for TLC: a good request per platform,   *)
(* and every request that differs from it in one or two places.            *)
(***************************************************************************)
EXTENDS Platforms, MCUnion

-------------------------------------------------------------------------------
(* What is good. *)

Root == BundledRoot
PckCa == Cert("PckCaKey", IntelRoot, "Intel SGX PCK Platform CA")
TcbSigner == Cert("TcbKey", IntelRoot, TCB_SIGNING)
Leaf == Cert("PckKey", "PckCaKey", "Intel SGX PCK Certificate")
            @@ [fmspc |-> "F1", issuer |-> PckCa.cn, svns |-> <<2, 1>>, pce |-> 1]

By(key) == [by |-> key, intact |-> TRUE]
Forged(statement) == [statement EXCEPT !.intact = FALSE]

Entry(mr, digest) ==
    [mr |-> mr, type |-> 1, count |-> 1, whole |-> TRUE, empty |-> FALSE,
     digests |-> <<[alg |-> "SHA-384", value |-> digest]>>]
Ccel == [field |-> "ok", header |-> TRUE, log |-> <<Entry(1, "boot"), Entry(2, "kernel"), Entry(1, "acpi")>>]
Rtmrs == <<<<"boot", "acpi">>, <<"kernel">>, << >>, <<"app">>>>

GoodQuote(report_data) ==
    [field |-> "ok", encoding |-> "base64", chars |-> 6000,
     tee |-> "tdx", version |-> 4, bodyType |-> 2, sized |-> TRUE, kept |-> 6, certKept |-> 4,
     body |-> [mrtd |-> "M1", rtmr |-> Rtmrs, report_data |-> Bytes(report_data, 64),
               mr_config_id |-> Bytes("init", 48), debug |-> FALSE, svn |-> <<2, 1>>],
     sigLen |-> TRUE, sig |-> By("AttKey"), attKey |-> "AttKey",
     certTypes |-> <<"EcdsaSigAuxData", "PckCertChain">>,
     qe |-> [mrsigner |-> "Intel", isvprodid |-> 2, isvsvn |-> 4, attributes |-> {"64-bit"},
             hash |-> <<"AttKey", "auth">>, tailZero |-> TRUE],
     authData |-> "auth", qeSig |-> By("PckKey"), chain |-> <<Leaf, PckCa, Root>>,
     ccel |-> Rule(Ccel)]

Level(sgx, pce, tdx, status) == [sgx |-> sgx, pce |-> pce, tdx |-> tdx, status |-> status]
Levels == << Level(<<2, 1>>, 1, Rule(<<2, 1>>), "UpToDate"),
             Level(<<1, 1>>, 1, Rule(<<1, 1>>), "ConfigurationNeeded"),
             Level(<<1, 0>>, 0, Rule(<<1, 0>>), "OutOfDate"),
             Level(<<0, 0>>, 0, NoRule, "Revoked") >>

Document(doc) == doc @@ [edition |-> 1, acceptable |-> TRUE]

GoodTcbInfo ==
    Document([whole |-> TRUE, id |-> "TDX", fmspc |-> "F1", levels |-> Levels, from |-> 1,
              chain |-> Rule(<<TcbSigner, Root>>), sig |-> By("TcbKey")])
GoodQeIdentity ==
    Document([whole |-> TRUE, id |-> "TD_QE", from |-> 1, mrsigner |-> "Intel", isvprodid |-> 2,
              attributes |-> {"64-bit"}, mask |-> {"64-bit", "debug"},
              levels |-> << [isvsvn |-> 4, status |-> "UpToDate"],
                            [isvsvn |-> 2, status |-> "OutOfDate"] >>,
              chain |-> Rule(<<TcbSigner, Root>>), sig |-> By("TcbKey")])
Crl(issuer, key, chain) ==
    Document([issuer |-> issuer, sig |-> By(key), algorithm |-> TRUE, next |-> TRUE,
              trailing |-> FALSE, revoked |-> {}, from |-> 1, chain |-> chain])
GoodPckCrl == Crl(PckCa.cn, "PckCaKey", Rule(<<PckCa, Root>>))
GoodRootCrl == Crl(Root.cn, IntelRoot, NoRule)

GoodEndorsement ==
    Document([whole |-> TRUE, cert |-> Cert("GceKey", GceRoot, SIGNER_CN), pss |-> TRUE,
              digitalSignature |-> TRUE, ca |-> FALSE, sig |-> By("GceKey"), late |-> TRUE,
              provenance |-> TRUE, tdx |-> Rule({"M1", "M0"}), snp |-> NoRule])

Published ==
    (TcbInfo("F1") :> GoodTcbInfo) @@ (QeIdentity :> GoodQeIdentity)
    @@ (PckCrl(PckCa.cn) :> GoodPckCrl) @@ (RootCrl :> GoodRootCrl)
    @@ (Endorsement("tdx", "M1") :> GoodEndorsement)

\* What an Azure guest adds: the HCL report and the quote of its vTPM.
GoodHcl(type) ==
    [sized |-> TRUE, magic |-> TRUE, type |-> type, content |-> "fits", var |-> "var",
     jwk |-> Rule("AK"), tpm2b |-> NoRule]
PcrValues == [i \in 1..9 |-> [v |-> IF i = 9 THEN <<"init">> ELSE <<"pcr">>, len |-> 32]]
GoodTpm ==
    [field |-> "ok", sig |-> By("AK"), pcrs |-> PcrValues,
     msg |-> [magic |-> TRUE, whole |-> TRUE, type |-> "quote", nonce |-> Bytes("nonce", 32),
              algs |-> <<"SHA-256">>, selected |-> {4, 8},
              digest |-> [i \in {4, 8} |-> PcrValues[i + 1].v]]]
GoodAzure(type) ==
    [version |-> 1, hclField |-> "ok", teeField |-> "ok", hcl |-> GoodHcl(type), tpm |-> GoodTpm]

Evidence(platform) ==
    IF platform = "az-tdx" THEN [quote |-> GoodQuote("var")] @@ GoodAzure(HclTypes.tdx)
    ELSE [quote |-> GoodQuote("nonce")]

NoGpu == [bundle |-> NoRule, policy |-> NoRule]

GoodRequest(platform) ==
    [platform |-> platform, size |-> "fits", parses |-> TRUE, decodes |-> TRUE,
     evidence |-> Evidence(platform), policy |-> Rule(TdxDefault), gpu |-> NoGpu,
     attached |-> << >>, published |-> Published, down |-> {}, now |-> 5,
     calls |-> <<"verify">>]

-------------------------------------------------------------------------------
(* Where a request may differ. Each operator is the set of what one thing  *)
(* may be instead.                                                         *)

LeafAlts(leaf) ==
    {[leaf EXCEPT !.by = "OtherKey"], Forged(leaf), [leaf EXCEPT !.until = 3],
     [leaf EXCEPT !.fmspc = "none"], [leaf EXCEPT !.fmspc = "F2"],
     [leaf EXCEPT !.issuer = "Other CA"], [leaf EXCEPT !.svns = <<1, 1>>],
     [leaf EXCEPT !.svns = <<2, 0>>], [leaf EXCEPT !.svns = <<0, 0>>],
     [leaf EXCEPT !.pce = 0]}

ChainAlts(chain) ==
    {<< >>, SubSeq(chain, 1, 2), [chain EXCEPT ![2] = Forged(@)],
     [chain EXCEPT ![2].key = "OtherKey"], [chain EXCEPT ![3].key = "OtherKey"],
     [chain EXCEPT ![2].until = 3]}
    \cup (IF chain = << >> THEN {} ELSE {[chain EXCEPT ![1] = leaf] : leaf \in LeafAlts(chain[1])})

BodyAlts(body) ==
    {[body EXCEPT !.mrtd = "M2"], [body EXCEPT !.rtmr[1] = <<"boot">>],
     [body EXCEPT !.rtmr[4] = << >>], [body EXCEPT !.report_data = Bytes("other", 64)],
     [body EXCEPT !.mr_config_id = Zero(48)], [body EXCEPT !.debug = TRUE],
     [body EXCEPT !.svn = <<0, 0>>], [body EXCEPT !.svn = <<1, 1>>]}

QeAlts(qe) ==
    {[qe EXCEPT !.mrsigner = "Other"], [qe EXCEPT !.attributes = @ \cup {"debug"}],
     [qe EXCEPT !.isvsvn = 2], [qe EXCEPT !.isvsvn = 0],
     [qe EXCEPT !.hash = <<"OtherKey", "auth">>], [qe EXCEPT !.tailZero = FALSE]}

CcelAlts ==
    {NoRule, Rule([Ccel EXCEPT !.field = "too large"]), Rule([Ccel EXCEPT !.field = "malformed"]),
     Rule([Ccel EXCEPT !.header = FALSE]),
     Rule([Ccel EXCEPT !.log = Tail(@)]),
     Rule([Ccel EXCEPT !.log = Append(@, [Entry(1, "x") EXCEPT !.digests[1].alg = "SM3"])]),
     Rule([Ccel EXCEPT !.log = @ \o <<[Entry(1, "x") EXCEPT !.count = 17], Entry(1, "x")>>]),
     Rule([Ccel EXCEPT !.log = @ \o <<[Entry(0, "x") EXCEPT !.type = 0, !.empty = TRUE], Entry(1, "x")>>]),
     Rule([Ccel EXCEPT !.log[1].digests =
               <<[alg |-> "SHA-256", value |-> "x"], [alg |-> "SHA-384", value |-> "x"]>> \o @]),
     Rule([Ccel EXCEPT !.log = <<[Entry(1, "x") EXCEPT !.digests[1].alg = "SHA-256"]>> \o @]),
     Rule([Ccel EXCEPT !.log = Append(@, Entry(4, "shutdown"))])}

QuoteAlts(q) ==
    {[q EXCEPT !.body = body] : body \in BodyAlts(q.body)}
    \cup {[q EXCEPT !.qe = qe] : qe \in QeAlts(q.qe)}
    \cup {[q EXCEPT !.chain = chain] : chain \in ChainAlts(q.chain)}
    \cup {[q EXCEPT !.ccel = ccel] : ccel \in CcelAlts}
    \cup {[q EXCEPT !.kept = n] : n \in 0..5}
    \cup {[q EXCEPT !.certKept = n] : n \in 0..3}
    \cup {[q EXCEPT !.field = "too large"], [q EXCEPT !.field = "malformed"],
           [q EXCEPT !.tee = "sgx"], [q EXCEPT !.version = 3], [q EXCEPT !.version = 5],
           [q EXCEPT !.version = 5, !.sized = FALSE], [q EXCEPT !.version = 5, !.bodyType = 1],
           [q EXCEPT !.sigLen = FALSE], [q EXCEPT !.sig = Forged(@)],
           [q EXCEPT !.attKey = "OtherKey"],
           [q EXCEPT !.attKey = "OtherKey", !.sig = By("OtherKey")],
           [q EXCEPT !.certTypes = <<"PckCertChain", "PckCertChain">>],
           [q EXCEPT !.certTypes = <<"EcdsaSigAuxData", "EcdsaSigAuxData">>],
           [q EXCEPT !.authData = "other"], [q EXCEPT !.qeSig = Forged(@)],
           [q EXCEPT !.qeSig = By("OtherKey")],
           [q EXCEPT !.encoding = "hex", !.chars = 10000], [q EXCEPT !.encoding = "hex", !.chars = 600],
           [q EXCEPT !.encoding = "base64 of hex digits only"]}

\* The params, for what the good quote holds and for something else.
PolicyAlts(p) ==
    {NoRule}
    \cup {Rule(x) : x \in
        {[p EXCEPT !.report_data = Rule(d)] :
            d \in {Bytes("nonce", 64), Bytes("nonce", 32), Bytes("other", 64), Bytes("nonce", 65)}}
        \cup {[p EXCEPT !.init_data = Rule(d)] :
            d \in {Bytes("init", 48), Bytes("init", 32), Bytes("other", 32), Bytes("init", 49)}}
        \cup {[p EXCEPT !.mrtd = Rule(m)] : m \in {{}, {"M1"}, {"M2"}, {"M1", "M2"}}}
        \cup UNION {{[p EXCEPT !.rtmr[i] = Rule(m)] : m \in {{}, {Rtmrs[1], Rtmrs[i]}, {<<"x">>}}} : i \in 1..4}
        \cup {[p EXCEPT !.accepted = s] : s \in {{}, {"UpToDate"}, TdxTcbStatus}}
        \cup {[p EXCEPT !.allow_debug = TRUE]}
        \cup {[p EXCEPT !.pcrs = pins] : pins \in
                {(4 :> <<"pcr">>), (4 :> <<"x">>), (5 :> <<"pcr">>), (24 :> <<"pcr">>)}}}

SignerAlts(doc) ==
    {[doc EXCEPT !.chain = NoRule], [doc EXCEPT !.from = 11], [doc EXCEPT !.sig = Forged(@)],
     [doc EXCEPT !.sig = By("OtherKey")]}
    \cup (IF Asked(doc.chain)
          THEN {[doc EXCEPT !.chain[1][1].cn = "Other"], [doc EXCEPT !.chain[1][1].by = "OtherKey"],
                [doc EXCEPT !.chain[1] = <<@[1]>>], [doc EXCEPT !.chain[1][2].key = "OtherKey"]}
          ELSE {})
AnyAlts(doc) == {[doc EXCEPT !.acceptable = FALSE]}

TcbInfoAlts(doc) ==
    SignerAlts(doc) \cup AnyAlts(doc)
    \cup {[doc EXCEPT !.whole = FALSE], [doc EXCEPT !.id = "SGX"], [doc EXCEPT !.fmspc = "F2"],
          [doc EXCEPT !.levels[1].status = "Unheard"], [doc EXCEPT !.levels = SubSeq(@, 1, 3)],
          [doc EXCEPT !.levels[1].sgx = <<2>>], [doc EXCEPT !.levels[1].tdx = Rule(<<3, 1>>)]}
QeIdentityAlts(doc) ==
    SignerAlts(doc) \cup AnyAlts(doc)
    \cup {[doc EXCEPT !.whole = FALSE], [doc EXCEPT !.id = "QE"],
          [doc EXCEPT !.levels = SubSeq(@, 1, 1)], [doc EXCEPT !.levels[1].status = "Revoked"]}
CrlAlts(doc) ==
    SignerAlts(doc) \cup AnyAlts(doc)
    \cup {[doc EXCEPT !.issuer = "Other"], [doc EXCEPT !.algorithm = FALSE],
          [doc EXCEPT !.next = FALSE], [doc EXCEPT !.trailing = TRUE],
          [doc EXCEPT !.revoked = {"Intel SGX PCK Certificate"}],
          [doc EXCEPT !.revoked = {PckCa.cn}], [doc EXCEPT !.revoked = {TCB_SIGNING}]}
EndorsementAlts(doc) ==
    AnyAlts(doc)
    \cup {[doc EXCEPT !.whole = FALSE], [doc EXCEPT !.cert.cn = "Other"],
          [doc EXCEPT !.cert.by = "OtherKey"], [doc EXCEPT !.pss = FALSE],
          [doc EXCEPT !.digitalSignature = FALSE], [doc EXCEPT !.ca = TRUE],
          [doc EXCEPT !.sig = Forged(@)], [doc EXCEPT !.provenance = FALSE],
          [doc EXCEPT !.provenance = FALSE, !.late = FALSE],
          [doc EXCEPT !.tdx = NoRule], [doc EXCEPT !.tdx = Rule({"M2"})]}

DocumentAlts(id, doc) ==
    IF id[1] = "tcb-info" THEN TcbInfoAlts(doc)
    ELSE IF id[1] = "qe-identity" THEN QeIdentityAlts(doc)
    ELSE IF id[1] = "gce-endorsement" THEN EndorsementAlts(doc)
    ELSE CrlAlts(doc)

Without(f, id) == [i \in DOMAIN f \ {id} |-> f[i]]

\* A copy sent along that is older or newer than what is published.
Copy(doc, edition, acceptable) == [doc EXCEPT !.edition = edition, !.acceptable = acceptable]

WithoutRoot(doc) ==
    IF "chain" \in DOMAIN doc /\ Asked(doc.chain) THEN [doc EXCEPT !.chain[1] = <<@[1]>>] ELSE doc

WorldAlts(r) ==
    UNION {
        {[r EXCEPT !.published = (id :> doc) @@ @] : doc \in DocumentAlts(id, r.published[id])}
        \cup {[r EXCEPT !.published = Without(@, id)], [r EXCEPT !.down = @ \cup {id}]}
        \cup {[r EXCEPT !.attached = (id :> Copy(r.published[id], e, a)) @@ @] :
                  e \in {0, 2}, a \in BOOLEAN}
        \cup {[r EXCEPT !.attached = (id :> Copy(r.published[id], 0, FALSE)) @@ @,
                        !.published = (id :> doc) @@ @] : doc \in DocumentAlts(id, r.published[id])}
        \cup {[r EXCEPT !.attached = (id :> WithoutRoot(Copy(r.published[id], 1, FALSE))) @@ @,
                        !.published[id].acceptable = FALSE]}
        : id \in DOMAIN r.published}

HclAlts(hcl) ==
    {[hcl EXCEPT !.sized = FALSE], [hcl EXCEPT !.magic = FALSE], [hcl EXCEPT !.type = 1],
     [hcl EXCEPT !.content = "overruns"], [hcl EXCEPT !.content = "empty"],
     [hcl EXCEPT !.var = "x"], [hcl EXCEPT !.jwk = NoRule],
     [hcl EXCEPT !.jwk = NoRule, !.tpm2b = Rule("AK")], [hcl EXCEPT !.jwk = Rule("not RSA")],
     [hcl EXCEPT !.jwk = Rule("OtherKey")]}
TpmAlts(tpm) ==
    {[tpm EXCEPT !.field = "malformed"], [tpm EXCEPT !.field = "too large"],
     [tpm EXCEPT !.sig = Forged(@)], [tpm EXCEPT !.sig = By("OtherKey")],
     [tpm EXCEPT !.msg.magic = FALSE], [tpm EXCEPT !.msg.whole = FALSE],
     [tpm EXCEPT !.msg.type = "certify"], [tpm EXCEPT !.msg.algs = <<"SHA-1">>],
     [tpm EXCEPT !.msg.nonce = Bytes("nonce", 64)], [tpm EXCEPT !.msg.nonce = Bytes("x", 32)],
     [tpm EXCEPT !.msg.selected = {4, 20}], [tpm EXCEPT !.pcrs = << >>],
     [tpm EXCEPT !.pcrs[5].v = <<"x">>], [tpm EXCEPT !.pcrs[6].v = <<"x">>],
     [tpm EXCEPT !.pcrs[6].len = 20],
     [tpm EXCEPT !.msg.selected = {4}, !.msg.digest = (4 :> <<"pcr">>)]}

AzureAlts(e) ==
    {[e EXCEPT !.version = 2], [e EXCEPT !.hclField = "too large"],
     [e EXCEPT !.hclField = "malformed"], [e EXCEPT !.teeField = "malformed"]}
    \cup {[e EXCEPT !.hcl = hcl] : hcl \in HclAlts(e.hcl)}
    \cup {[e EXCEPT !.tpm = tpm] : tpm \in TpmAlts(e.tpm)}

EvidenceAlts(platform, e) ==
    {[e EXCEPT !.quote = q] : q \in QuoteAlts(e.quote)}
    \cup (IF platform = "az-tdx" THEN AzureAlts(e) ELSE {})

Alts(r) ==
    {[r EXCEPT !.evidence = e] : e \in EvidenceAlts(r.platform, r.evidence)}
    \cup {[r EXCEPT !.policy = p] : p \in PolicyAlts(TdxDefault)}
    \cup WorldAlts(r)
    \cup {[r EXCEPT !.size = "too large"], [r EXCEPT !.parses = FALSE],
          [r EXCEPT !.decodes = FALSE], [r EXCEPT !.now = 11]}

Scripts == {<<"verify">>, <<"verify", "attach", "offline">>,
            <<"verify", "collateral_needed", "evaluate">>}

OneOff(r) == {r} \cup Alts(r)

(* Every rule against every difference in what it is about. *)
RuleEvidence(platform, e) ==
    {[e EXCEPT !.quote.body = body] : body \in BodyAlts(e.quote.body)}
    \cup {[e EXCEPT !.quote.ccel = ccel] : ccel \in CcelAlts}
    \cup (IF platform = "az-tdx" THEN {[e EXCEPT !.tpm = tpm] : tpm \in TpmAlts(e.tpm)} ELSE {})

RulesAgainstEvidence(r) ==
    {[r EXCEPT !.evidence = x[1], !.policy = x[2]] :
        x \in RuleEvidence(r.platform, r.evidence) \X PolicyAlts(TdxDefault)}

(* Every TCB against level lists, one of which grades the SGX part, the    *)
(* PCE and the TDX part apart.                                             *)
ApartLevels == << Level(<<2, 1>>, 1, Rule(<<2, 1>>), "UpToDate"),
                  Level(<<2, 0>>, 1, Rule(<<2, 0>>), "SWHardeningNeeded"),
                  Level(<<1, 0>>, 1, Rule(<<2, 0>>), "ConfigurationNeeded"),
                  Level(<<1, 0>>, 0, Rule(<<1, 0>>), "OutOfDate"),
                  Level(<<1, 0>>, 0, NoRule, "OutOfDateConfigurationNeeded"),
                  Level(<<0, 0>>, 0, NoRule, "Revoked") >>

Tcbs == [svns : (0..2) \X (0..1), pce : 0..1, tdx : (0..2) \X (0..1), qe : {0, 2, 4}]

Graded(r, tcb, levels) ==
    [r EXCEPT !.evidence.quote.chain[1].svns = tcb.svns, !.evidence.quote.chain[1].pce = tcb.pce,
              !.evidence.quote.body.svn = tcb.tdx, !.evidence.quote.qe.isvsvn = tcb.qe,
              !.published[TcbInfo("F1")].levels = levels]

Gradings(r) == {Graded(r, x[1], x[2]) : x \in Tcbs \X {Levels, ApartLevels}}

MCRequests ==
    Together({
        {[r EXCEPT !.calls = s] : r \in Together({OneOff(GoodRequest(p)) : p \in TdxPlatforms}), s \in Scripts},
        Together({RulesAgainstEvidence(GoodRequest(p)) : p \in TdxPlatforms}),
        Gradings(GoodRequest("tdx"))})
===============================================================================
