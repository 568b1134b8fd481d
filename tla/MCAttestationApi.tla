---------------------------- MODULE MCAttestationApi ----------------------------
(***************************************************************************)
(* An instance of AttestationApi for TLC: a dstack guest with a GPU runs   *)
(* the service; clients send evidence that falls short in one way or       *)
(* another under policies that are lax in one way or another.              *)
(***************************************************************************)
EXTENDS AttestationApi, TLC

MCKeyFiles == "key.pem" :> <<"file", 1>>
MCHost ==
    [interfaces |-> {"dstack", "tdx"}, debug |-> FALSE, status |-> "UpToDate", vmpl |-> 0,
     gpu |-> Rule([debug |-> FALSE, secboot |-> TRUE, measres |-> TRUE])]

Name(pf) == [of |-> pf, exact |-> TRUE]

Config ==
    [tls |-> FALSE, auth |-> {}, token |-> TRUE, minutes |-> 1, key_path |-> "key.pem",
     attest |-> TRUE, platforms |-> {Name("tdx"), Name("snp")}, debug |-> FALSE, tcb |-> FALSE,
     vmpl |-> FALSE]
MCConfigs ==
    {Config,
     [Config EXCEPT !.debug = TRUE, !.key_path = ""],
     [Config EXCEPT !.tcb = TRUE, !.auth = {"K"}, !.attest = FALSE],
     [Config EXCEPT !.vmpl = TRUE, !.key_path = "", !.platforms = {Name("snp")}],
     [Config EXCEPT !.debug = TRUE, !.tcb = TRUE, !.vmpl = TRUE, !.token = FALSE,
                    !.platforms = {[of |-> "tdx", exact |-> FALSE]}],
     [Config EXCEPT !.key_path = "missing.pem"],
     [Config EXCEPT !.tls = TRUE], [Config EXCEPT !.minutes = 0],
     [Config EXCEPT !.platforms = {Name("dstack")}]}

Challenge == Bytes("challenge", 32)

Attest(name, data) ==
    [to |-> "/attest", key |-> NoRule, body |-> "ok", name |-> name, base64 |-> TRUE, data |-> data,
     gpu |-> FALSE, back |-> FALSE]
AttestRequests ==
    {Attest(Name(pf), Challenge) : pf \in {"auto", "tdx", "snp", "dstack"}}
    \cup {[Attest(Name("auto"), Bytes("challenge", n)) EXCEPT !.gpu = TRUE] : n \in {15, 16, 64}}
    \cup {Attest(Name("auto"), Zero(0)), Attest(Name("auto"), Bytes("challenge", 65)),
          Attest([of |-> "tdx", exact |-> FALSE], Challenge),
          [Attest(Name("auto"), Challenge) EXCEPT !.base64 = FALSE],
          [Attest(Name("auto"), Challenge) EXCEPT !.body = "payload_too_large"],
          [Attest(Name("auto"), Challenge) EXCEPT !.key = Rule("K")]}

Evidence(pf) ==
    [kinds |-> {pf}, data |-> Bytes("challenge", 64), debug |-> FALSE, status |-> "UpToDate",
     vmpl |-> 0, edition |-> Shipped, carried |-> FALSE, gpu |-> NoRule]
Gpu == [nonce |-> Challenge, debug |-> FALSE, secboot |-> TRUE, measres |-> TRUE]
Evidences(pf) ==
    LET e == Evidence(pf)
    IN  {e, [e EXCEPT !.debug = TRUE], [e EXCEPT !.status = "Revoked"], [e EXCEPT !.vmpl = 1],
         [e EXCEPT !.edition = Shipped - 1], [e EXCEPT !.data = Bytes("old", 64)],
         [e EXCEPT !.kinds = {}], [e EXCEPT !.gpu = Rule(Gpu)],
         [e EXCEPT !.gpu = Rule([Gpu EXCEPT !.debug = TRUE])],
         [e EXCEPT !.gpu = Rule([Gpu EXCEPT !.secboot = FALSE])]}

Params ==
    [report_data |-> Rule(Challenge), debug |-> FALSE, statuses |-> ValidStatuses, max_vmpl |-> 0,
     valid |-> TRUE]
ParamsAlts ==
    {Params, [Params EXCEPT !.report_data = NoRule], [Params EXCEPT !.report_data = Rule(Zero(0))],
     [Params EXCEPT !.debug = TRUE], [Params EXCEPT !.statuses = @ \cup {"Revoked"}],
     [Params EXCEPT !.max_vmpl = 1], [Params EXCEPT !.valid = FALSE]}
GpuRules == [Gpu EXCEPT !.debug = FALSE] @@ [required |-> TRUE]
GpuAlts ==
    {Rule(GpuRules), Rule([GpuRules EXCEPT !.debug = TRUE]), Rule([GpuRules EXCEPT !.secboot = FALSE])}

Policies(platforms) == [platforms |-> platforms, floors |-> Shipped, gpu |-> NoRule]
PoliciesFor(pf) ==
    LET good == Policies(pf :> Params)
    IN  {Policies(pf :> p) : p \in ParamsAlts}
        \cup {[good EXCEPT !.gpu = g] : g \in GpuAlts}
        \cup {[good EXCEPT !.floors = Shipped - 1],
              Policies("dstack" :> Params), Policies("gcp-snp" :> Params),
              Policies((pf :> [Params EXCEPT !.report_data = NoRule]) @@ ("gcp-snp" :> Params))}

Verify(pf, e, p, issue) ==
    [to |-> "/verify", key |-> NoRule, body |-> "ok", name |-> Name(pf), evidence |-> e,
     nested |-> FALSE, policies |-> p, issue |-> issue, back |-> FALSE]
Judged(pf) == {Verify(pf, e, p, TRUE) : e \in Evidences(pf), p \in PoliciesFor(pf)}
VerifyRequests ==
    Judged("az-tdx") \cup Judged("snp")
    \cup LET r == Verify("az-tdx", Evidence("az-tdx"), Policies("az-tdx" :> Params), FALSE)
         IN  {r, [r EXCEPT !.nested = TRUE], [r EXCEPT !.body = "payload_too_large"],
              [r EXCEPT !.name = Name("sgx")], [r EXCEPT !.name.exact = FALSE],
              [r EXCEPT !.key = Rule("K"), !.evidence.status = "Revoked",
                        !.policies.platforms["az-tdx"].statuses = {"Revoked"}],
              [r EXCEPT !.key = Rule("other")]}

MCRequests == AttestRequests \cup VerifyRequests
===============================================================================
