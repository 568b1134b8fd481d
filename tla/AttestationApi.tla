----------------------------- MODULE AttestationApi -----------------------------
(***************************************************************************)
(* The attestation-api service: it is started with a configuration file,   *)
(* makes evidence about its own machine (/attest), verifies evidence under *)
(* the policies a request carries (/verify), and signs a token about a     *)
(* verdict that passed.  Requests share nothing but the configuration, the *)
(* token key and the verifier (CollateralStore has its store), so one is   *)
(* in progress at a time; what matters is the order of the checks around   *)
(* the verifier, and what survives the end of a process.                   *)
(*                                                                         *)
(* config: [tls, auth, token, minutes, key_path, attest, platforms, debug, *)
(*   tcb, vmpl]; the last three allow what a policy may ask for.           *)
(* name: [of, exact], a platform as written: exact if in lower case.       *)
(* evidence: [kinds, data, debug, status, vmpl, edition, carried, gpu];    *)
(*   kinds are the platforms it is genuine evidence of, carried says that  *)
(*   it brings its collateral, of that edition, gpu is a rule holding      *)
(*   [nonce, debug, secboot, measres].                                     *)
(* policies: [platforms, floors, gpu]: a function from platforms to        *)
(*   [report_data, debug, statuses, max_vmpl, valid], the lowest editions, *)
(*   a rule holding [nonce, required, debug, secboot, measres].            *)
(* request: [to, key, body, name, base64, data, gpu, evidence, nested,     *)
(*   policies, issue, back]; back says that an answer of /attest is sent   *)
(*   back as it is.                                                        *)
(***************************************************************************)
EXTENDS Checks, FiniteSets

CONSTANTS
    Configs,    \* files the operator may start the service with
    KeyFiles,   \* the key files there are: a function from paths to keys
    Host,       \* the machine: [interfaces, debug, status, vmpl, gpu]
    Requests,   \* what clients send of themselves
    Shipped,    \* the edition of collateral the shipped floors ask for
    GpuBuild,   \* built with nvidia-gpu-attest
    MaxStarts, MaxTime

ASSUME NumbersAssumption ==
    /\ Shipped \in Nat \ {0} /\ Host.vmpl \in Nat
    /\ \A req \in Requests : req.to # "/attest" =>
           /\ req.evidence.vmpl \in Nat /\ req.evidence.edition \in Nat
           /\ req.policies.floors \in Nat

\* The clients' own requests are no answers of /attest sent back.
ASSUME RequestsAssumption == \A req \in Requests : ~req.back

VARIABLES
    config,     \* a rule: the file of the running process
    key,        \* a rule: its token key
    starts,     \* how many processes there have been
    stage,      \* "idle", "attesting" or "verifying"
    request,    \* a rule: the last request
    reply,      \* its answer
    token,      \* a rule: the last token handed out, as its holder keeps it
    now

vars == <<config, key, starts, stage, request, reply, token, now>>

Nothing == [error |-> "none", passed |-> FALSE, platform |-> "none", evidence |-> NoRule]

\* A key nobody else has, made when the file names none.
Fresh(n) == <<"ephemeral", n>>

Init ==
    /\ config = NoRule /\ key = NoRule /\ starts = 0
    /\ stage = "idle" /\ request = NoRule /\ reply = Nothing
    /\ token = NoRule /\ now = 0

-------------------------------------------------------------------------------
(* Platforms and their names. *)

SUPPORTED_ATTESTATION_PLATFORMS == {"snp", "tdx", "az-snp", "az-tdx", "gcp-snp", "gcp-tdx"}
TdxNames == {"tdx", "az-tdx", "gcp-tdx"}
SnpNames == {"snp", "az-snp", "gcp-snp"}

\* Whatever the case it is written in.
normalize_platform(name) ==
    IF name.of \in SUPPORTED_ATTESTATION_PLATFORMS THEN Rule(name.of) ELSE NoRule

\* A cloud's interface before the bare one it is built on.
Detection == <<"az-tdx", "az-snp", "gcp-tdx", "gcp-snp", "dstack", "tdx", "snp">>
detect ==
    LET found == SelectSeq(Detection, LAMBDA p : p \in Host.interfaces)
    IN  IF found = << >> THEN NoRule ELSE Rule(Head(found))

\* The service does not answer for dstack, but for the TDX guest below it.
detect_platform ==
    IF ~Asked(detect) \/ detect[1] \in SUPPORTED_ATTESTATION_PLATFORMS THEN detect
    ELSE IF "tdx" \in Host.interfaces THEN Rule("tdx") ELSE NoRule

resolve_platform(name) ==
    IF name.of = "auto" THEN detect_platform
    ELSE IF name.exact THEN normalize_platform(name) ELSE NoRule

-------------------------------------------------------------------------------
(* A process. *)

validate(c) ==
    /\ ~c.tls
    /\ c.token => c.minutes > 0
    /\ \A name \in c.platforms : Asked(normalize_platform(name))

\* Mutant: a key file that is not there is made up for.
load_or_generate_anyway(path, n) ==
    Rule(IF path \in DOMAIN KeyFiles THEN KeyFiles[path] ELSE Fresh(n))

\* No key if the file named is not there: the service does not start.
load_or_generate(path, n) ==
    IF path = "" THEN Rule(Fresh(n))
    ELSE IF path \in DOMAIN KeyFiles THEN Rule(KeyFiles[path]) ELSE NoRule

Start(c) ==
    /\ ~Asked(config) /\ starts < MaxStarts
    /\ validate(c)
    /\ c.token => Asked(load_or_generate(c.key_path, starts))
    /\ config' = Rule(c)
    /\ key' = IF c.token THEN load_or_generate(c.key_path, starts) ELSE NoRule
    /\ starts' = starts + 1
    /\ UNCHANGED <<stage, request, reply, token, now>>

(* The process ends; the client of a request in progress hears nothing. A  *)
(* graceful shutdown is the case in which none is: it waits for it.        *)
Stop ==
    /\ Asked(config)
    /\ config' = NoRule /\ key' = NoRule /\ stage' = "idle"
    /\ UNCHANGED <<starts, request, reply, token, now>>

Tick ==
    /\ now < MaxTime /\ now' = now + 1
    /\ UNCHANGED <<config, key, starts, stage, request, reply, token>>

-------------------------------------------------------------------------------
(* A request on its way to the verifier or the machine. *)

cf == config[1]
rq == request[1]

api_key_auth(req) == cf.auth = {} \/ (Asked(req.key) /\ req.key[1] \in cf.auth)

\* Mutant: any platform's report_data will do.
TokenRequestErrorLax(req, pf) ==
    Check(req.issue =>
              \E p \in DOMAIN req.policies.platforms :
                  Asked(req.policies.platforms[p].report_data), "bad_request")

TokenRequestError(req, pf) ==
    LET platforms == req.policies.platforms
    IN  Check(req.issue =>
                  /\ pf \in DOMAIN platforms
                  /\ Asked(platforms[pf].report_data)
                  /\ platforms[pf].report_data[1].len > 0, "bad_request")

ParamsOf(policies, names) ==
    {policies.platforms[p] : p \in names \cap DOMAIN policies.platforms}

\* The statuses accepted by default: those Intel considers valid.
ValidStatuses == {"UpToDate", "OutOfDate"}

server_floors(policies, c, tdx, snp) ==
    LET gpu == policies.gpu
    IN     Check((\E p \in tdx \cup snp : p.debug) \/ (Asked(gpu) /\ gpu[1].debug) => c.debug,
                 "bad_request")
        && Check(c.tcb \/ \A p \in tdx : p.statuses \subseteq ValidStatuses, "bad_request")
        && Check(c.vmpl \/ \A p \in snp : p.max_vmpl = 0, "bad_request")
        && Check(policies.floors >= Shipped, "bad_request")
        && Check(Asked(gpu) => gpu[1].secboot /\ gpu[1].measres, "bad_request")

\* Mutant: only the params of the bare platforms are looked at.
check_server_floors_bare(policies, c) ==
    server_floors(policies, c, ParamsOf(policies, {"tdx"}), ParamsOf(policies, {"snp"}))

check_server_floors(policies, c) ==
    server_floors(policies, c, ParamsOf(policies, TdxNames), ParamsOf(policies, SnpNames))

canonical_platform(name) == normalize_platform(name)[1]

\* body: "ok", or why it is no request (too large, not JSON, of another shape).
VerifyError(req) ==
       Check(req.body = "ok", req.body)
    && Check(DOMAIN req.policies.platforms \subseteq SUPPORTED_ATTESTATION_PLATFORMS, "bad_request")
    && Check(Asked(normalize_platform(req.name)), "bad_request")
    && check_server_floors(req.policies, cf)
    && TokenRequestError(req, canonical_platform(req.name))
    && Check(~req.nested, "bad_request")

MaxReportData(pf) == IF pf = "az-snp" THEN 50 ELSE 64
MIN_GPU_USER_NONCE_LEN == 16

AttestRequestError(req) ==
    LET pf == resolve_platform(req.name)
    IN     Check(req.body = "ok", req.body)
        && Check(cf.attest, "attest_not_available")
        && Check(req.base64, "bad_request")
        && Check(Asked(pf), IF req.name.of = "auto" THEN "no_platform" ELSE "bad_request")
        && Check(pf[1] \in {normalize_platform(n)[1] : n \in cf.platforms}, "bad_request")
        && Check(req.gpu => GpuBuild /\ req.data.len >= MIN_GPU_USER_NONCE_LEN, "bad_request")
        && Check(req.data.len <= MaxReportData(pf[1]), "bad_request")
        && Check(pf[1] \in Host.interfaces /\ (req.gpu => Asked(Host.gpu)), "verification_failed")

Refused(error) == reply' = [Nothing EXCEPT !.error = error]

\* An answer of /attest as its client sends it back, with default rules.
SentBack(a) ==
    [to |-> "/verify", key |-> rq.key, body |-> "ok", name |-> [of |-> a.platform, exact |-> TRUE],
     evidence |-> a.evidence[1], nested |-> FALSE, back |-> TRUE,
     issue |-> cf.token /\ rq.data.len > 0,
     policies |->
        [platforms |-> [p \in {a.platform} |->
             [report_data |-> Rule(rq.data), debug |-> FALSE, statuses |-> ValidStatuses,
              max_vmpl |-> 0, valid |-> TRUE]],
         floors |-> Shipped,
         gpu |-> IF Asked(a.evidence[1].gpu)
                 THEN Rule([nonce |-> rq.data, required |-> TRUE, debug |-> FALSE,
                            secboot |-> TRUE, measres |-> TRUE])
                 ELSE NoRule]]

Sendable ==
    IF ~Asked(config) \/ stage # "idle" THEN {}
    ELSE Requests \cup (IF Asked(reply.evidence) THEN {SentBack(reply)} ELSE {})

Ask(req) ==
    /\ Asked(config) /\ stage = "idle"
    /\ request' = Rule(req)
    /\ LET error == Check(api_key_auth(req), "unauthorized")
                    && (IF req.to = "/attest" THEN AttestRequestError(req) ELSE VerifyError(req))
       IN  IF error # Ok THEN Refused(error) /\ stage' = stage
           ELSE /\ reply' = Nothing
                /\ stage' = IF req.to = "/attest" THEN "attesting" ELSE "verifying"
    /\ UNCHANGED <<config, key, starts, token, now>>

-------------------------------------------------------------------------------
(* Its end. *)

\* Mutant: the platform as it was asked for.
PlatformAsked == rq.name.of

\* The platform the evidence was made for.
Platform == resolve_platform(rq.name)[1]

(* The machine's evidence, with its collateral if it could be had. A cloud *)
(* guest's evidence is evidence of the bare platform as well.              *)
FinishAttest(edition, carried) ==
    /\ stage = "attesting" /\ stage' = "idle"
    /\ reply' = [error |-> Ok, passed |-> FALSE, platform |-> Platform,
                 evidence |-> Rule(
                    [kinds |-> {Platform}, data |-> rq.data, debug |-> Host.debug,
                     status |-> Host.status, vmpl |-> Host.vmpl, edition |-> edition,
                     carried |-> carried,
                     gpu |-> IF rq.gpu
                             THEN LET dev == Host.gpu[1]
                                  IN  Rule([nonce |-> rq.data, debug |-> dev.debug,
                                            secboot |-> dev.secboot, measres |-> dev.measres])
                             ELSE NoRule])]
    /\ UNCHANGED <<config, key, starts, request, token, now>>

(* The verifier (Verification has it in detail): refusals, each named as   *)
(* into_response names it, then the rules.                                 *)
VerifierError(pf, reachable) ==
    LET ev == rq.evidence
        gpu == rq.policies.gpu
        platforms == rq.policies.platforms
    IN     Check(pf \in DOMAIN platforms, "platform_not_allowed")
        && Check(Asked(ev.gpu) => Asked(gpu), "platform_not_allowed")
        && Check(Asked(gpu) /\ gpu[1].required => Asked(ev.gpu), "verification_failed")
        && Check(Asked(gpu) => platforms[pf].report_data = Rule(gpu[1].nonce), "bad_request")
        && Check(platforms[pf].valid, "bad_request")
        && Check(pf \in ev.kinds, "verification_failed")
        && Check(ev.carried \/ reachable, "collateral_unavailable")

Passed(pf) ==
    LET ev == rq.evidence
        p == rq.policies.platforms[pf]
    IN  /\ Asked(p.report_data) => p.report_data[1].v = ev.data.v
        /\ ev.debug => p.debug
        /\ IF pf \in TdxNames THEN ev.status \in p.statuses ELSE ev.vmpl <= p.max_vmpl
        /\ ev.edition >= rq.policies.floors
        /\ Asked(ev.gpu) =>
               LET dev == ev.gpu[1]
                   rules == rq.policies.gpu[1]
               IN  /\ dev.nonce = rules.nonce
                   /\ dev.debug => rules.debug
                   /\ rules.secboot => dev.secboot
                   /\ rules.measres => dev.measres

\* What the token says about itself; its claims are those of the request.
Issued ==
    [kid |-> key[1], exp |-> now + cf.minutes, path |-> cf.key_path, process |-> starts]

\* Only for a verdict that passed, and only if asked for.
HandOut(passed) ==
    token' = IF passed /\ rq.issue /\ Asked(key) THEN Rule(Issued) ELSE token

FinishVerify(reachable) ==
    LET pf == canonical_platform(rq.name)
        error == VerifierError(pf, reachable)
        passed == error = Ok /\ Passed(pf)
    IN  /\ stage = "verifying" /\ stage' = "idle"
        /\ HandOut(passed)
        /\ IF error # Ok THEN Refused(error)
           ELSE IF passed /\ rq.issue /\ ~Asked(key) THEN Refused("token_not_configured")
           ELSE reply' = [Nothing EXCEPT !.error = Ok, !.passed = passed, !.platform = pf]
        /\ UNCHANGED <<config, key, starts, request, now>>

Next ==
    \/ \E c \in Configs : Start(c)
    \/ Stop
    \/ Tick
    \/ \E req \in Sendable : Ask(req)
    \/ \E edition \in {Shipped - 1, Shipped}, carried \in BOOLEAN : FinishAttest(edition, carried)
    \/ \E reachable \in BOOLEAN : FinishVerify(reachable)

Spec == Init /\ [][Next]_vars

-------------------------------------------------------------------------------
(* Properties. *)

\* What a guest, its devices and their collateral fall short of.
ShortOf(ev, pf) ==
    (IF ev.debug \/ (Asked(ev.gpu) /\ ev.gpu[1].debug) THEN {"debug"} ELSE {})
    \cup (IF pf \in TdxNames /\ ev.status \notin ValidStatuses THEN {"tcb"} ELSE {})
    \cup (IF pf \in SnpNames /\ ev.vmpl > 0 THEN {"vmpl"} ELSE {})
    \cup (IF ev.edition < Shipped THEN {"floors"} ELSE {})
    \cup (IF Asked(ev.gpu) /\ ~(ev.gpu[1].secboot /\ ev.gpu[1].measres) THEN {"device"} ELSE {})

Tolerated(c) ==
    (IF c.debug THEN {"debug"} ELSE {}) \cup (IF c.tcb THEN {"tcb"} ELSE {})
    \cup (IF c.vmpl THEN {"vmpl"} ELSE {})

(* Whatever policies a caller sends, no guest passes that falls short of   *)
(* what the server's own configuration tolerates: not one that can be      *)
(* debugged, of a revoked TCB, at a lower privilege level, judged with     *)
(* collateral below the shipped floors, or with a GPU not booted securely. *)
NonePassesBelowTheServersFloors ==
    [][reply' # reply /\ reply'.passed =>
           ShortOf(rq.evidence, canonical_platform(rq.name)) \subseteq Tolerated(cf)]_vars

(* A token is handed out about evidence that answers a challenge: the      *)
(* policy it carries for its own platform names report data, not empty,    *)
(* and the evidence, genuine evidence of that platform, carries it. So a   *)
(* relying party that compares the two knows whose answer it holds.        *)
TokensAnswerAChallenge ==
    [][token' # token =>
           LET pf == canonical_platform(rq.name)
               asked == rq.policies.platforms[pf].report_data
           IN  /\ reply'.passed /\ reply'.platform = pf /\ pf \in rq.evidence.kinds
               /\ Asked(asked) /\ asked[1].len > 0 /\ asked[1].v = rq.evidence.data.v]_vars

(* A token verifies with the key set of the process that signed it, and of *)
(* every later one started with the same key file, until it expires; only  *)
(* a key no file names dies with its process.                              *)
TokensStayVerifiable ==
    /\ Asked(token) /\ now <= token[1].exp /\ Asked(key)
    /\ token[1].process = starts \/ (token[1].path # "" /\ token[1].path = cf.key_path)
    => token[1].kid = key[1]

(* What /attest answered verifies when it is sent back as it is: it is     *)
(* refused only for collateral that cannot be had, or by a process started *)
(* since that asks for another key, and it passes if the machine is one    *)
(* the default rules accept.                                               *)
AttestedVerifies ==
    Asked(request) /\ stage = "idle" /\ reply.error # "none" /\ rq.back =>
        \/ reply.error \in {"collateral_unavailable", "unauthorized"}
        \/ /\ reply.error = Ok
           /\ reply.passed <=> ShortOf(rq.evidence, canonical_platform(rq.name)) = {}
===============================================================================
