--------------------------------- MODULE MCAmd ---------------------------------
(***************************************************************************)
(* Verifications of AMD evidence and of GPU bundles for TLC: good requests *)
(* (a VCEK fetched, carried, of a chip that masks its identifier; a VLEK;  *)
(* a v2 report on Azure; a kernel that keeps measurement registers), and   *)
(* every request that differs from one of them in one place.               *)
(***************************************************************************)
EXTENDS Platforms, MCUnion

By(key) == [by |-> key, intact |-> TRUE]
Forged(statement) == [statement EXCEPT !.intact = FALSE]

-------------------------------------------------------------------------------
(* What is good. *)

Tcb(n, fmc) == [bl |-> n, tee |-> n, snp |-> n, ucode |-> n, fmc |-> fmc]
TcbOf(gen) == IF gen = "Turin" THEN Tcb(3, Rule(3)) ELSE Tcb(3, NoRule)
Chip == Bytes("chip", 64)

Hwid(gen) == IF gen = "Turin" THEN Bytes("chip", 8) ELSE Chip
GoodVcek(gen) ==
    Cert("VekKey", Ask[gen], "SEV-VCEK")
        @@ [hwid |-> Rule(Hwid(gen)), spl |-> TcbOf(gen), whole |-> TRUE, malformed |-> FALSE,
            edition |-> 1, acceptable |-> TRUE]
GoodVlek(gen) == [GoodVcek(gen) EXCEPT !.by = Asvk[gen], !.cn = "SEV-VLEK", !.hwid = NoRule]

Log == << [r |-> 0, d |-> "initrd"], [r |-> 3, d |-> "app"], [r |-> 0, d |-> "later"] >>
Replayed == [r \in Registers |-> IF r = 0 THEN <<"initrd">> ELSE IF r = 3 THEN <<"app">> ELSE << >>]
Commitment == [count |-> 2, registers |-> Replayed, caller |-> "nonce"]

GoodReport(gen, data) ==
    [field |-> "ok", parsed |-> TRUE, version |-> 3, cpuid |-> Rule(gen), chip |-> Chip,
     reported |-> TcbOf(gen), committed |-> TcbOf(gen), launch |-> TcbOf(gen),
     measurement |-> "D1", report_data |-> Bytes(data, 64), host_data |-> Bytes("host", 32),
     debug |-> FALSE, migrate_ma |-> FALSE, vmpl |-> 0,
     policy |-> [grants |-> {"smt"}, restrictions |-> {"single socket"}, abi |-> 1],
     count |-> 2, commits |-> NoRule, sig |-> By("VekKey")]

Crl(gen) ==
    [gen |-> gen, sig |-> By(Ark[gen]), algorithm |-> TRUE, next |-> TRUE, trailing |-> FALSE,
     revoked |-> {}, edition |-> 1, acceptable |-> TRUE]
GoodEndorsement ==
    [whole |-> TRUE, cert |-> Cert("GceKey", GceRoot, SIGNER_CN), pss |-> TRUE,
     digitalSignature |-> TRUE, ca |-> FALSE, sig |-> By("GceKey"), late |-> TRUE,
     provenance |-> TRUE, tdx |-> NoRule, edition |-> 1, acceptable |-> TRUE,
     snp |-> Rule([measurements |-> {"D1", "D0"}, svsm |-> "",
                   policy |-> [grants |-> {"smt", "migration"}, restrictions |-> {}, abi |-> 0]])]

Published(gen) ==
    (Vcek(gen, Chip, TcbOf(gen)) :> GoodVcek(gen))
    @@ (AmdCrl(gen, "vcek") :> Crl(gen)) @@ (AmdCrl(gen, "vlek") :> Crl(gen))
    @@ (Endorsement("snp", "D1") :> GoodEndorsement)

PcrValues == [i \in 1..9 |-> [v |-> IF i = 9 THEN <<"host">> ELSE <<"pcr">>, len |-> 32]]
GoodAzure ==
    [version |-> 1, hclField |-> "ok", teeField |-> "ok",
     hcl |-> [sized |-> TRUE, magic |-> TRUE, type |-> HclTypes.snp, content |-> "fits",
              var |-> "var", jwk |-> NoRule, tpm2b |-> Rule("AK")],
     tpm |-> [field |-> "ok", sig |-> By("AK"), pcrs |-> PcrValues,
              msg |-> [magic |-> TRUE, whole |-> TRUE, type |-> "quote",
                       nonce |-> Bytes("nonce", 32), algs |-> <<"SHA-256">>, selected |-> {4, 8},
                       digest |-> [i \in {4, 8} |-> PcrValues[i + 1].v]]]]

NoGpu == [bundle |-> NoRule, policy |-> NoRule]

Request(platform, gen, evidence, policy) ==
    [platform |-> platform, size |-> "fits", parses |-> TRUE, decodes |-> TRUE,
     evidence |-> evidence, policy |-> Rule(policy), gpu |-> NoGpu, attached |-> << >>,
     published |-> Published(gen), down |-> {}, now |-> 5, calls |-> <<"verify">>]

Snp(gen, vek) == [report |-> GoodReport(gen, "nonce"), vek |-> vek, log |-> NoRule]

Registered ==
    [report |-> [GoodReport("Genoa", "commitment") EXCEPT !.commits = Rule(Commitment)],
     vek |-> Rule(GoodVcek("Genoa")),
     log |-> Rule([field |-> "ok", whole |-> TRUE, entries |-> Log])]
RegisterPolicy ==
    [SnpDefault EXCEPT !.report_data = Rule(Bytes("nonce", 64)), !.launch_digest = Rule({"D1"}),
                       !.measurement_registers = Rule(<< <<"initrd">>, << >>, << >>, <<"app">> >>)]

AzureEvidence(cpuid) ==
    [report |-> [GoodReport("Genoa", "var") EXCEPT !.cpuid = cpuid, !.version = IF Asked(cpuid) THEN 3 ELSE 2],
     vek |-> GoodVcek("Genoa")] @@ GoodAzure

GoodRequests ==
    {Request("snp", "Milan", Snp("Milan", NoRule), SnpDefault),
     Request("snp", "Turin", Snp("Turin", NoRule), SnpDefault),
     Request("snp", "Turin", Snp("Turin", Rule(GoodVcek("Turin"))), SnpDefault),
     Request("snp", "Genoa", Snp("Genoa", Rule(GoodVlek("Genoa"))), SnpDefault),
     Request("snp", "Genoa", Registered, RegisterPolicy),
     Request("gcp-snp", "Milan", Snp("Milan", Rule(GoodVcek("Milan"))), SnpDefault),
     Request("gcp-snp", "Milan", Snp("Milan", NoRule), SnpDefault),
     Request("az-snp", "Genoa", AzureEvidence(NoRule), SnpDefault),
     Request("az-snp", "Genoa", AzureEvidence(Rule("Genoa")), SnpDefault)}

-------------------------------------------------------------------------------
(* Where a request may differ. *)

Lower(tcb) == {[tcb EXCEPT !.bl = 2], [tcb EXCEPT !.snp = 2], [tcb EXCEPT !.ucode = 2]}

VekAlts(vek) ==
    {[vek EXCEPT !.by = key] : key \in {"OtherKey", Ask.Milan, Asvk.Milan, Ask.Genoa, Asvk.Genoa}}
    \cup {[vek EXCEPT !.key = "OtherKey"], Forged(vek), [vek EXCEPT !.until = 3],
           [vek EXCEPT !.hwid = NoRule], [vek EXCEPT !.hwid = Rule(Bytes("other", 64))],
           [vek EXCEPT !.hwid = Rule(Bytes("chip", 7))], [vek EXCEPT !.hwid = Rule(Bytes("chip", 8))],
           [vek EXCEPT !.malformed = TRUE], [vek EXCEPT !.whole = FALSE],
           [vek EXCEPT !.cn = IF is_vlek_cert(vek) THEN "SEV-VCEK" ELSE "SEV-VLEK"],
           [vek EXCEPT !.spl.fmc = Rule(3)], [vek EXCEPT !.spl.fmc = NoRule]}
    \cup {[vek EXCEPT !.spl = tcb] : tcb \in Lower(vek.spl)}

ReportAlts(report) ==
    {[report EXCEPT !.field = "too large"], [report EXCEPT !.field = "malformed"],
     [report EXCEPT !.parsed = FALSE], [report EXCEPT !.version = 1], [report EXCEPT !.version = 2],
     [report EXCEPT !.version = 5], [report EXCEPT !.version = 6],
     [report EXCEPT !.cpuid = NoRule], [report EXCEPT !.cpuid = Rule("unknown")],
     [report EXCEPT !.chip = Zero(64)], [report EXCEPT !.chip = Bytes("other", 64)],
     [report EXCEPT !.measurement = "D2"], [report EXCEPT !.report_data = Bytes("other", 64)],
     [report EXCEPT !.host_data = Bytes("other", 32)], [report EXCEPT !.debug = TRUE],
     [report EXCEPT !.migrate_ma = TRUE], [report EXCEPT !.vmpl = 1],
     [report EXCEPT !.policy.grants = {"smt", "debug"}], [report EXCEPT !.policy.abi = 0],
     [report EXCEPT !.sig = Forged(@)], [report EXCEPT !.sig = By("OtherKey")],
     [report EXCEPT !.count = 3], [report EXCEPT !.count = 4],
     [report EXCEPT !.reported.fmc = NoRule], [report EXCEPT !.reported.fmc = Rule(0)]}
    \cup {[report EXCEPT !.cpuid = Rule(g)] : g \in Generations}
    \cup {[report EXCEPT !.reported = tcb] : tcb \in Lower(report.reported)}
    \cup {[report EXCEPT !.committed = tcb] : tcb \in Lower(report.reported)}
    \cup {[report EXCEPT !.launch = tcb] : tcb \in Lower(report.reported)}
    \cup (IF Asked(report.commits)
          THEN {[report EXCEPT !.commits = NoRule], [report EXCEPT !.commits[1].caller = "other"],
                [report EXCEPT !.commits[1].count = 3],
                [report EXCEPT !.commits[1].registers[0] = <<"x">>],
                [report EXCEPT !.commits[1].registers[3] = <<"x">>]} ELSE {})

LogAlts(log) ==
    {NoRule, Rule([log EXCEPT !.field = "too large"]), Rule([log EXCEPT !.whole = FALSE]),
     Rule([log EXCEPT !.entries = SubSeq(@, 1, 1)]), Rule([log EXCEPT !.entries = SubSeq(@, 1, 2)]),
     Rule([log EXCEPT !.entries[1].d = "x"]), Rule([log EXCEPT !.entries[3].d = "x"]),
     Rule([log EXCEPT !.entries[2].r = 16]), Rule([log EXCEPT !.entries[2].r = 4])}

HclAlts(hcl) ==
    {[hcl EXCEPT !.magic = FALSE], [hcl EXCEPT !.type = 4], [hcl EXCEPT !.content = "empty"],
     [hcl EXCEPT !.var = "x"], [hcl EXCEPT !.tpm2b = NoRule], [hcl EXCEPT !.jwk = Rule("OtherKey")]}
TpmAlts(tpm) ==
    {[tpm EXCEPT !.field = "malformed"], [tpm EXCEPT !.sig = Forged(@)],
     [tpm EXCEPT !.msg.magic = FALSE], [tpm EXCEPT !.msg.nonce = Bytes("x", 32)],
     [tpm EXCEPT !.pcrs[5].v = <<"x">>], [tpm EXCEPT !.pcrs[9].v = <<"x">>],
     [tpm EXCEPT !.msg.selected = {4}, !.msg.digest = (4 :> <<"pcr">>)],
     [tpm EXCEPT !.msg.selected = {4}, !.msg.digest = (4 :> <<"pcr">>), !.pcrs[6].v = <<"x">>]}

EvidenceAlts(platform, e) ==
    {[e EXCEPT !.report = report] : report \in ReportAlts(e.report)}
    \cup (IF platform = "az-snp"
          THEN {[e EXCEPT !.vek = vek] : vek \in VekAlts(e.vek)}
               \cup {[e EXCEPT !.hcl = hcl] : hcl \in HclAlts(e.hcl)}
               \cup {[e EXCEPT !.tpm = tpm] : tpm \in TpmAlts(e.tpm)}
               \cup {[e EXCEPT !.version = 2], [e EXCEPT !.teeField = "malformed"]}
          ELSE (IF Inline(e) THEN {[e EXCEPT !.vek[1] = vek] : vek \in VekAlts(e.vek[1])} ELSE {})
               \cup (IF Asked(e.log) THEN {[e EXCEPT !.log = log] : log \in LogAlts(e.log[1])} ELSE {}))

PolicyAlts(p) ==
    {[p EXCEPT !.report_data = Rule(d)] :
        d \in {Bytes("nonce", 64), Bytes("nonce", 32), Bytes("other", 64), Bytes("nonce", 65)}}
    \cup {[p EXCEPT !.host_data = Rule(d)] :
        d \in {Bytes("host", 32), Bytes("other", 32), Bytes("host", 33), Bytes("host", 20)}}
    \cup {[p EXCEPT !.launch_digest = m] : m \in {NoRule, Rule({}), Rule({"D2"}), Rule({"D1", "D2"})}}
    \cup {[p EXCEPT !.min_tcb = Rule(t)] :
        t \in {Tcb(3, NoRule), Tcb(2, NoRule), Tcb(4, NoRule), Tcb(3, Rule(3)), Tcb(3, Rule(4))}}
    \cup {[p EXCEPT !.allow_debug = TRUE], [p EXCEPT !.max_vmpl = 1]}
    \cup {[p EXCEPT !.measurement_registers = m] :
        m \in {Rule(<< >>), Rule(<< <<"initrd">> >>), Rule([i \in 1..17 |-> << >>])}}
    \cup {[p EXCEPT !.pcrs = pins] : pins \in {(4 :> <<"pcr">>), (5 :> <<"pcr">>), (24 :> <<"pcr">>)}}

CrlAlts(crl) ==
    {[crl EXCEPT !.gen = g] : g \in Generations}
    \cup {[crl EXCEPT !.revoked = {key}] : key \in {Ask.Milan, Asvk.Milan, Ask.Genoa, Asvk.Genoa}}
    \cup {[crl EXCEPT !.sig = Forged(@)], [crl EXCEPT !.sig = By("ARK-Turin")],
          [crl EXCEPT !.algorithm = FALSE], [crl EXCEPT !.next = FALSE],
          [crl EXCEPT !.trailing = TRUE], [crl EXCEPT !.acceptable = FALSE]}
EndorsementAlts(e) ==
    {[e EXCEPT !.snp = NoRule], [e EXCEPT !.snp[1].measurements = {"D0"}],
     [e EXCEPT !.snp[1].measurements = {"D0"}, !.snp[1].svsm = "D1"],
     [e EXCEPT !.snp[1].policy.grants = {}], [e EXCEPT !.snp[1].policy.restrictions = {"ecc"}],
     [e EXCEPT !.snp[1].policy.abi = 2], [e EXCEPT !.sig = Forged(@)]}

DocumentAlts(id, doc) ==
    IF id[1] = "vcek" THEN VekAlts(doc) \cup {[doc EXCEPT !.acceptable = FALSE]}
    ELSE IF id[1] = "amd-crl" THEN CrlAlts(doc) ELSE EndorsementAlts(doc)

Without(f, id) == [i \in DOMAIN f \ {id} |-> f[i]]

WorldAlts(r) ==
    UNION {
        {[r EXCEPT !.published = (id :> doc) @@ @] : doc \in DocumentAlts(id, r.published[id])}
        \cup {[r EXCEPT !.published = Without(@, id)], [r EXCEPT !.down = @ \cup {id}]}
        \cup {[r EXCEPT !.attached = (id :> [r.published[id] EXCEPT !.edition = n, !.acceptable = a])] :
                  n \in {0, 2}, a \in BOOLEAN}
        \cup {[r EXCEPT !.attached = (id :> [r.published[id] EXCEPT !.edition = 0, !.acceptable = FALSE]),
                        !.published = (id :> doc) @@ @] : doc \in DocumentAlts(id, r.published[id])}
        : id \in DOMAIN r.published}

Alts(r) ==
    {[r EXCEPT !.evidence = e] : e \in EvidenceAlts(r.platform, r.evidence)}
    \cup {[r EXCEPT !.policy = Rule(p)] : p \in PolicyAlts(r.policy[1])}
    \cup WorldAlts(r)
    \cup {[r EXCEPT !.policy = NoRule], [r EXCEPT !.now = 11]}

\* The places a rule looks at against every rule.
RulesAgainstEvidence(r) ==
    {[r EXCEPT !.evidence = x[1], !.policy = Rule(x[2])] :
        x \in EvidenceAlts(r.platform, r.evidence) \X PolicyAlts(r.policy[1])}

-------------------------------------------------------------------------------
(* GPUs next to a CPU whose verdict is good. *)

GoodKey(kid) ==
    [kid |-> kid,
     x5c |-> << Cert(kid, "Intermediate", "NRAS") @@ [ca |-> FALSE, pathLen |-> NoRule, certSign |-> FALSE,
                                                     issuer |-> "NVIDIA CA"],
                Cert("Intermediate", "NVIDIA-GPU-004", "NVIDIA CA")
                    @@ [ca |-> TRUE, pathLen |-> Rule(0), certSign |-> TRUE, issuer |-> "NVIDIA-GPU-004"],
                Cert("NVIDIA-GPU-004", "NVIDIA-ROOT", "NVIDIA-GPU-004")
                    @@ [ca |-> TRUE, pathLen |-> Rule(1), certSign |-> TRUE, issuer |-> "NVIDIA-ROOT"] >>]

Token(nonce) ==
    [form |-> "compact", alg |-> "ES384", crit |-> FALSE, kid |-> Rule("K1"), by |-> "K1",
     intact |-> TRUE, from |-> Rule(0), until |-> Rule(10), nonce |-> nonce, result |-> TRUE,
     device |-> [model |-> "GH100 A01", nonceMatch |-> TRUE, dbgstat |-> "disabled",
                 secboot |-> "true", measres |-> "success"]]
NrasAnswer(nonce, n) ==
    [shape |-> "detached EAT", overall |-> Token(nonce), subs |-> [i \in 1..n |-> Token(nonce)]]

GoodGpu ==
    [bundle |-> Rule([devices |-> <<"HOPPER", "LS10">>, binding |-> "Concat SHA-256"]),
     policy |-> Rule([user_nonce |-> Rule(Bytes("nonce", 32)), required |-> TRUE, bindings |-> NoRule,
                      archs |-> NoRule, policy |-> [debug |-> FALSE, secboot |-> TRUE, measres |-> TRUE]]),
     nonce |-> Bytes("nonce", 32), up |-> TRUE, attached |-> FALSE, keys |-> <<GoodKey("K1"), GoodKey("K2")>>,
     answers |-> ("HOPPER" :> NrasAnswer(<<"nonce", "GPU">>, 1))
                 @@ ("LS10" :> NrasAnswer(<<"nonce", "SWITCH">>, 1))]

TokenAlts(t) ==
    {[t EXCEPT !.form = "other"], [t EXCEPT !.alg = "none"], [t EXCEPT !.crit = TRUE],
     [t EXCEPT !.kid = NoRule], [t EXCEPT !.kid = Rule("K2")], [t EXCEPT !.kid = Rule("K3")],
     Forged(t), [t EXCEPT !.by = "OtherKey"], [t EXCEPT !.until = Rule(4)], [t EXCEPT !.until = NoRule],
     [t EXCEPT !.from = Rule(7)], [t EXCEPT !.nonce = <<"old", "GPU">>],
     [t EXCEPT !.nonce = <<"nonce", "SWITCH">>], [t EXCEPT !.result = FALSE]}
SubAlts(t) ==
    TokenAlts(t)
    \cup {[t EXCEPT !.device.nonceMatch = FALSE], [t EXCEPT !.device.dbgstat = "enabled"],
           [t EXCEPT !.device.secboot = "false"], [t EXCEPT !.device.measres = "fail"],
           [t EXCEPT !.device.model = "LS10"]}

KeyAlts(k) ==
    {[k EXCEPT !.x5c = << >>], [k EXCEPT !.x5c[1].by = "OtherKey"], [k EXCEPT !.x5c[2].ca = FALSE],
     [k EXCEPT !.x5c[2].certSign = FALSE], [k EXCEPT !.x5c[2].cn = "Other CA"],
     [k EXCEPT !.x5c[3].pathLen = Rule(0)], [k EXCEPT !.x5c[3].key = "OtherKey"],
     [k EXCEPT !.x5c[1].until = 3], [k EXCEPT !.kid = "K0"]}

GpuAlts(g) ==
    {[g EXCEPT !.answers["HOPPER"].overall = t] : t \in TokenAlts(Token(<<"nonce", "GPU">>))}
    \cup {[g EXCEPT !.answers["HOPPER"].subs[1] = t] : t \in SubAlts(Token(<<"nonce", "GPU">>))}
    \cup {[g EXCEPT !.keys = <<k>>] : k \in KeyAlts(GoodKey("K1")) \cup {GoodKey("K2")}}
    \cup {[g EXCEPT !.answers["LS10"].subs = << >>], [g EXCEPT !.answers["LS10"].shape = "other"],
          [g EXCEPT !.up = FALSE], [g EXCEPT !.up = FALSE, !.attached = TRUE],
          [g EXCEPT !.bundle = NoRule], [g EXCEPT !.policy = NoRule],
          [g EXCEPT !.bundle = NoRule, !.policy[1].required = FALSE],
          [g EXCEPT !.bundle[1].devices = << >>], [g EXCEPT !.bundle[1].binding = "Raw"],
          [g EXCEPT !.bundle[1].binding = "Raw", !.policy[1].bindings = Rule({"Raw"})],
          [g EXCEPT !.policy[1].bindings = Rule({})],
          [g EXCEPT !.policy[1].user_nonce = NoRule], [g EXCEPT !.nonce = Bytes("other", 32)],
          [g EXCEPT !.policy[1].user_nonce = Rule(Bytes("nonce", 8))],
          [g EXCEPT !.policy[1].user_nonce = Rule(Bytes("other", 32))],
          [g EXCEPT !.policy[1].archs = Rule({"HOPPER"})],
          [g EXCEPT !.policy[1].archs = Rule({"BLACKWELL"})],
          [g EXCEPT !.policy[1].policy.debug = TRUE, !.answers["HOPPER"].subs[1].device.dbgstat = "x"],
          [g EXCEPT !.bundle[1].devices = <<"HOPPER", "LS10", "HOPPER">>]}

GpuHost(data) ==
    [Request("snp", "Genoa", Snp("Genoa", Rule(GoodVlek("Genoa"))), SnpDefault)
        EXCEPT !.policy[1].report_data = data, !.gpu = GoodGpu]

WithGpus ==
    LET r == GpuHost(Rule(Bytes("nonce", 32)))
    IN  {[r EXCEPT !.gpu = g] : g \in {GoodGpu} \cup GpuAlts(GoodGpu)}
        \cup {GpuHost(NoRule), GpuHost(Rule(Bytes("other", 32))),
              [r EXCEPT !.evidence.report.report_data = Bytes("other", 64)],
              [r EXCEPT !.evidence.report.report_data = Bytes("other", 64),
                        !.policy[1].report_data = Rule(Bytes("other", 32))],
              [r EXCEPT !.calls = <<"attach", "verify">>],
              [r EXCEPT !.gpu.keys = <<GoodKey("K2")>>, !.calls = <<"attach", "verify">>]}

Scripts == {<<"verify">>, <<"verify", "attach", "offline">>,
            <<"verify", "collateral_needed", "evaluate">>}

MCRequests ==
    Together({
        {[r EXCEPT !.calls = s] : r \in Together({{g} \cup Alts(g) : g \in GoodRequests}), s \in Scripts},
        Together({RulesAgainstEvidence(r) : r \in GoodRequests}),
        {[r EXCEPT !.calls = s] : r \in WithGpus, s \in Scripts} \cup WithGpus})
===============================================================================
