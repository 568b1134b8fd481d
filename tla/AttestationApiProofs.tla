--------------------------- MODULE AttestationApiProofs ---------------------------
(***************************************************************************)
(* Proofs about the service, for any configurations, key files, machine    *)
(* and requests.  The invariant says what a request in progress has been   *)
(* checked for by the process that is still running, and which key a       *)
(* process has and had when it signed the last token.                      *)
(***************************************************************************)
EXTENDS AttestationApi, TLAPS

LEMMA AndOk ==
    ASSUME NEW a, NEW b, (a && b) = Ok
    PROVE  a = Ok /\ b = Ok
  BY DEF &&

LEMMA CheckOk ==
    ASSUME NEW holds \in BOOLEAN, NEW error, error # Ok, Check(holds, error) = Ok
    PROVE  holds
  BY DEF Check

LEMMA RuleIsAsked ==
    ASSUME NEW value
    PROVE  Asked(Rule(value)) /\ Rule(value)[1] = value
  BY DEF Asked, Rule, NoRule

\* The evidence of a request and of an answer carries numbers.
Numbered(evidence) == evidence.vmpl \in Nat /\ evidence.edition \in Nat

(* A request in progress belongs to the running process, and one on its    *)
(* way to the verifier has passed every check under its configuration.     *)
InProgress ==
    /\ stage # "idle" => Asked(config) /\ Asked(request)
    /\ stage = "verifying" =>
           /\ VerifyError(rq) = Ok
           /\ Numbered(rq.evidence) /\ rq.policies.floors \in Nat
    /\ Asked(reply.evidence) => Numbered(reply.evidence[1])

(* A process has the key its file names, or one of its own; the last token *)
(* bears the key of the process that signed it.                            *)
Keys ==
    /\ starts \in Nat
    /\ Asked(key) => Asked(config) /\ key = load_or_generate(cf.key_path, starts - 1)
    /\ Asked(token) =>
           LET t == token[1]
           IN  /\ t.process \in Nat /\ t.process <= starts
               /\ Rule(t.kid) = load_or_generate(t.path, t.process - 1)
               /\ t.process = starts /\ Asked(config) => t.path = cf.key_path

IInv == InProgress /\ Keys

-------------------------------------------------------------------------------
LEMMA InitIInv == Init => IInv
  BY DEF Init, IInv, InProgress, Keys, Asked, NoRule, Nothing

\* What is sent to the verifier carries numbers, whoever made it.
LEMMA SendableNumbered ==
    ASSUME InProgress, NEW req \in Sendable, req.to # "/attest"
    PROVE  Numbered(req.evidence) /\ req.policies.floors \in Nat
  <1>1. CASE req \in Requests
    BY <1>1, NumbersAssumption DEF Numbered
  <1>2. CASE Asked(reply.evidence) /\ req = SentBack(reply)
    <2>1. req.evidence = reply.evidence[1] /\ req.policies.floors = Shipped
      BY <1>2 DEF SentBack
    <2> QED
      BY <1>2, <2>1, NumbersAssumption DEF InProgress
  <1> QED
    BY <1>1, <1>2 DEF Sendable

LEMMA InProgressKept == IInv /\ [Next]_vars => InProgress'
  <1> SUFFICES ASSUME IInv, [Next]_vars PROVE InProgress'
    OBVIOUS
  <1> USE DEF IInv
  <1>1. ASSUME NEW c \in Configs, Start(c)
        PROVE  InProgress'
    BY <1>1 DEF Start, InProgress
  <1>2. CASE Stop
    BY <1>2 DEF Stop, InProgress
  <1>3. CASE Tick
    BY <1>3 DEF Tick, InProgress, VerifyError, cf, rq
  <1>4. ASSUME NEW req \in Sendable, Ask(req)
        PROVE  InProgress'
    <2>1. Asked(config) /\ config' = config /\ request' = Rule(req) /\ stage = "idle"
      BY <1>4 DEF Ask
    <2>2. Asked(request') /\ rq' = req
      BY <2>1, RuleIsAsked DEF rq
    <2>3. ~Asked(reply'.evidence)
      BY <1>4 DEF Ask, Refused, Nothing, Asked
    <2>4. ASSUME stage' = "verifying"
          PROVE  /\ VerifyError(req) = Ok
                 /\ req.to # "/attest"
      BY <1>4, <2>1, <2>4, AndOk DEF Ask
    <2>5. stage' = "verifying" => Numbered(req.evidence) /\ req.policies.floors \in Nat
      BY <2>4, SendableNumbered
    <2>6. stage' = "verifying" => (VerifyError(rq))' = Ok
      BY <2>1, <2>2, <2>4 DEF VerifyError, cf
    <2> QED
      BY <2>1, <2>2, <2>3, <2>5, <2>6 DEF InProgress
  <1>5. ASSUME NEW edition \in {Shipped - 1, Shipped}, NEW carried \in BOOLEAN,
               FinishAttest(edition, carried)
        PROVE  InProgress'
    <2>1. reply'.evidence[1].vmpl = Host.vmpl /\ reply'.evidence[1].edition = edition
      BY <1>5 DEF FinishAttest, Rule
    <2>2. edition \in Nat
      BY NumbersAssumption
    <2> QED
      BY <1>5, <2>1, <2>2, NumbersAssumption DEF FinishAttest, InProgress, Numbered
  <1>6. ASSUME NEW reachable \in BOOLEAN, FinishVerify(reachable)
        PROVE  InProgress'
    BY <1>6 DEF FinishVerify, InProgress, Refused, Nothing, Asked
  <1>7. CASE UNCHANGED vars
    BY <1>7 DEF vars, InProgress, VerifyError, cf, rq
  <1> QED
    BY <1>1, <1>2, <1>3, <1>4, <1>5, <1>6, <1>7 DEF Next

LEMMA KeysKept == IInv /\ [Next]_vars => Keys'
  <1> SUFFICES ASSUME IInv, [Next]_vars PROVE Keys'
    OBVIOUS
  <1>0. Keys /\ InProgress
    BY DEF IInv
  <1>1. ASSUME NEW c \in Configs, Start(c)
        PROVE  Keys'
    <2>1. cf' = c /\ Asked(config')
      BY <1>1, RuleIsAsked DEF Start, cf
    <2>2. starts' = starts + 1 /\ starts \in Nat /\ token' = token
      BY <1>0, <1>1 DEF Start, Keys
    <2>3. Asked(key') => key' = load_or_generate(c.key_path, starts' - 1)
      BY <1>1, <2>2 DEF Start, Asked
    <2>4. Asked(token) => token[1].process \in Nat /\ token[1].process < starts'
      BY <1>0, <2>2 DEF Keys
    <2> QED
      BY <1>0, <2>1, <2>2, <2>3, <2>4 DEF Keys
  <1>2. CASE Stop
    BY <1>0, <1>2 DEF Stop, Keys, Asked
  <1>3. ASSUME UNCHANGED <<config, key, starts, token>>
        PROVE  Keys'
    BY <1>0, <1>3 DEF Keys, cf
  <1>4. ASSUME NEW reachable \in BOOLEAN, FinishVerify(reachable)
        PROVE  Keys'
    <2>1. UNCHANGED <<config, key, starts>> /\ Asked(config)
      BY <1>0, <1>4 DEF FinishVerify, InProgress
    <2>2. CASE token' = token
      BY <1>3, <2>1, <2>2
    <2>3. CASE token' = Rule(Issued) /\ Asked(key)
      <3>1. token'[1] = Issued /\ starts \in Nat
        BY <1>0, <2>3, RuleIsAsked DEF Keys
      <3>2. key = load_or_generate(cf.key_path, starts - 1)
        BY <1>0, <2>3 DEF Keys
      <3>3. Rule(key[1]) = key
        BY <2>3, <3>2 DEF load_or_generate, Rule, Asked
      <3> QED
        BY <1>0, <2>1, <3>1, <3>2, <3>3 DEF Keys, Issued, cf
    <2> QED
      BY <1>4, <2>2, <2>3 DEF FinishVerify, HandOut
  <1> QED
    BY <1>1, <1>2, <1>3, <1>4 DEF Next, Tick, Ask, FinishAttest, vars

LEMMA Inductive == Spec => []IInv
  <1>1. IInv /\ [Next]_vars => IInv'
    BY InProgressKept, KeysKept DEF IInv
  <1> QED
    BY InitIInv, <1>1, PTL DEF Spec

-------------------------------------------------------------------------------
(* A token verifies with the key of the process that signed it and of any  *)
(* later one with the same key file: the file is what it was, and a key of *)
(* a process's own is never another's.                                     *)
THEOREM SignedTokensVerify == Spec => []TokensStayVerifiable
  <1>1. Keys => TokensStayVerifiable
    <2> SUFFICES ASSUME Keys, Asked(token), Asked(key),
                        \/ token[1].process = starts
                        \/ token[1].path # "" /\ token[1].path = cf.key_path
                 PROVE  token[1].kid = key[1]
      BY DEF TokensStayVerifiable
    <2> DEFINE t == token[1]
    <2>1. Rule(t.kid) = load_or_generate(t.path, t.process - 1)
      BY DEF Keys
    <2>2. key = load_or_generate(cf.key_path, starts - 1) /\ Asked(config)
      BY DEF Keys
    <2>3. CASE t.process = starts
      BY <2>1, <2>2, <2>3 DEF Keys, Rule
    <2>4. CASE t.path # "" /\ t.path = cf.key_path
      <3>1. load_or_generate(t.path, t.process - 1) = load_or_generate(t.path, starts - 1)
        BY <2>4 DEF load_or_generate
      <3>2. Rule(t.kid) = key
        BY <2>1, <2>2, <2>4, <3>1
      <3> QED
        BY <3>2 DEF Rule
    <2> QED
      BY <2>3, <2>4
  <1> QED
    BY Inductive, <1>1, PTL DEF IInv

(* What a verdict that passes says of the request it is about.             *)
LEMMA PassingAnswer ==
    ASSUME IInv, Next, reply' # reply, reply'.passed
    PROVE  /\ UNCHANGED <<config, request>>
           /\ VerifyError(rq) = Ok
           /\ Numbered(rq.evidence) /\ rq.policies.floors \in Nat
           /\ \E reachable \in BOOLEAN : VerifierError(canonical_platform(rq.name), reachable) = Ok
           /\ Passed(canonical_platform(rq.name))
           /\ reply'.platform = canonical_platform(rq.name)
  <1>1. PICK reachable \in BOOLEAN : FinishVerify(reachable)
    <2>1. ASSUME NEW req \in Sendable, Ask(req)
          PROVE  ~reply'.passed
      BY <2>1 DEF Ask, Refused, Nothing
    <2>2. ASSUME NEW edition, NEW carried, FinishAttest(edition, carried)
          PROVE  ~reply'.passed
      BY <2>2 DEF FinishAttest
    <2> QED
      BY <2>1, <2>2 DEF Next, Start, Stop, Tick
  <1> DEFINE pf == canonical_platform(rq.name)
             answer == [Nothing EXCEPT !.error = Ok, !.passed = VerifierError(pf, reachable) = Ok /\ Passed(pf),
                                       !.platform = pf]
  <1>2. ASSUME NEW error PROVE ~[Nothing EXCEPT !.error = error].passed
    BY DEF Nothing
  <1>3. reply' = answer
    BY <1>1, <1>2 DEF FinishVerify, Refused
  <1>4. VerifierError(pf, reachable) = Ok /\ Passed(pf)
    BY <1>3 DEF Nothing
  <1>5. reply'.platform = pf
    BY <1>3 DEF Nothing
  <1> QED
    BY <1>1, <1>4, <1>5 DEF FinishVerify, IInv, InProgress

(* A token is handed out only with an answer that passed, about evidence   *)
(* genuine for its platform that carries the report data the policy asks   *)
(* for: the request was refused beforehand if the policy asks for none.    *)
THEOREM TokensAnswer == Spec => TokensAnswerAChallenge
  <1> DEFINE pf == canonical_platform(rq.name)
             asked == rq.policies.platforms[pf].report_data
             Answers == /\ reply'.passed /\ reply'.platform = pf /\ pf \in rq.evidence.kinds
                        /\ Asked(asked) /\ asked[1].len > 0 /\ asked[1].v = rq.evidence.data.v
  <1>1. ASSUME IInv, Next, token' # token
        PROVE  Answers
    <2>1. PICK reachable \in BOOLEAN : FinishVerify(reachable)
      BY <1>1 DEF Next, Start, Stop, Tick, Ask, FinishAttest
    <2>2. VerifierError(pf, reachable) = Ok /\ Passed(pf) /\ rq.issue /\ Asked(key)
      BY <1>1, <2>1 DEF FinishVerify, HandOut
    <2>3. reply' = [Nothing EXCEPT !.error = Ok, !.passed = TRUE, !.platform = pf]
      BY <2>1, <2>2 DEF FinishVerify
    <2>4. reply'.passed /\ reply'.platform = pf
      BY <2>3 DEF Nothing
    <2>5. TokenRequestError(rq, pf) = Ok
      BY <1>1, <2>1, AndOk DEF IInv, InProgress, FinishVerify, VerifyError
    <2>6. Asked(asked) /\ asked[1].len > 0
      BY <2>2, <2>5 DEF TokenRequestError, Check, Ok
    <2>7. pf \in rq.evidence.kinds
      BY <2>2, AndOk DEF VerifierError, Check, Ok
    <2>8. asked[1].v = rq.evidence.data.v
      BY <2>2, <2>6 DEF Passed
    <2> QED
      BY <2>4, <2>6, <2>7, <2>8
  <1>2. IInv /\ [Next]_vars => [token' # token => Answers]_vars
    BY <1>1
  <1> QED
    BY Inductive, <1>2, PTL DEF TokensAnswerAChallenge, Spec

-------------------------------------------------------------------------------
(* The floors, one at a time: p are the params of the evidence's platform, *)
(* which the floors were checked for whatever platform that is.            *)
LEMMA FloorsHold ==
    ASSUME VerifyError(rq) = Ok
    PROVE  /\ canonical_platform(rq.name) \in SUPPORTED_ATTESTATION_PLATFORMS
           /\ server_floors(rq.policies, cf, ParamsOf(rq.policies, TdxNames),
                            ParamsOf(rq.policies, SnpNames)) = Ok
  <1>1. Check(Asked(normalize_platform(rq.name)), "bad_request") = Ok
    BY AndOk DEF VerifyError
  <1>2. canonical_platform(rq.name) \in SUPPORTED_ATTESTATION_PLATFORMS
    BY <1>1 DEF Check, Ok, normalize_platform, canonical_platform, Asked, Rule
  <1>3. check_server_floors(rq.policies, cf) = Ok
    BY AndOk DEF VerifyError
  <1> QED
    BY <1>2, <1>3 DEF check_server_floors

LEMMA FloorsMean ==
    ASSUME NEW policies, NEW c, NEW tdx, NEW snp, server_floors(policies, c, tdx, snp) = Ok
    PROVE  /\ \A p \in tdx \cup snp : p.debug => c.debug
           /\ Asked(policies.gpu) =>
                  /\ policies.gpu[1].debug => c.debug
                  /\ policies.gpu[1].secboot /\ policies.gpu[1].measres
           /\ c.tcb \/ \A p \in tdx : p.statuses \subseteq ValidStatuses
           /\ c.vmpl \/ \A p \in snp : p.max_vmpl = 0
           /\ policies.floors >= Shipped
  <1> DEFINE debug == (\E p \in tdx \cup snp : p.debug) \/ (Asked(policies.gpu) /\ policies.gpu[1].debug)
  <1>1. Check(debug => c.debug, "bad_request") = Ok
    BY AndOk DEF server_floors
  <1>2. Check(c.tcb \/ \A p \in tdx : p.statuses \subseteq ValidStatuses, "bad_request") = Ok
    BY AndOk DEF server_floors
  <1>3. Check(c.vmpl \/ \A p \in snp : p.max_vmpl = 0, "bad_request") = Ok
    BY AndOk DEF server_floors
  <1>4. Check(policies.floors >= Shipped, "bad_request") = Ok
    BY AndOk DEF server_floors
  <1>5. Check(Asked(policies.gpu) => policies.gpu[1].secboot /\ policies.gpu[1].measres,
              "bad_request") = Ok
    BY AndOk DEF server_floors
  <1>6. debug => c.debug
    BY <1>1 DEF Check, Ok
  <1> QED
    BY <1>2, <1>3, <1>4, <1>5, <1>6 DEF Check, Ok

(* Whatever policies a caller sends, no answer passes that falls short of  *)
(* what the server's configuration tolerates: the check of the floors      *)
(* looks at the params of every platform, so at those of the platform the  *)
(* verifier then goes by, and under the configuration of the same process. *)
THEOREM NonePassesBelow == Spec => NonePassesBelowTheServersFloors
  <1> DEFINE pf == canonical_platform(rq.name)
             ev == rq.evidence
             p == rq.policies.platforms[pf]
             gpu == rq.policies.gpu
  <1>1. ASSUME IInv, Next, reply' # reply, reply'.passed
        PROVE  ShortOf(ev, pf) \subseteq Tolerated(cf)
    <2>1. /\ VerifyError(rq) = Ok /\ Passed(pf)
          /\ Numbered(ev) /\ rq.policies.floors \in Nat
      BY <1>1, PassingAnswer
    <2>2. PICK reachable \in BOOLEAN : VerifierError(pf, reachable) = Ok
      BY <1>1, PassingAnswer
    <2>3. /\ pf \in DOMAIN rq.policies.platforms
          /\ Asked(ev.gpu) => Asked(gpu)
      BY <2>2, AndOk DEF VerifierError, Check, Ok
    <2>4. /\ pf \in SUPPORTED_ATTESTATION_PLATFORMS
          /\ server_floors(rq.policies, cf, ParamsOf(rq.policies, TdxNames),
                           ParamsOf(rq.policies, SnpNames)) = Ok
      BY <2>1, FloorsHold
    <2>5. /\ pf \in TdxNames => p \in ParamsOf(rq.policies, TdxNames)
          /\ pf \in SnpNames => p \in ParamsOf(rq.policies, SnpNames)
          /\ pf \in TdxNames \cup SnpNames
      BY <2>3, <2>4 DEF ParamsOf, SUPPORTED_ATTESTATION_PLATFORMS, TdxNames, SnpNames
    <2>6. ev.debug \/ (Asked(ev.gpu) /\ ev.gpu[1].debug) => cf.debug
      BY <2>1, <2>3, <2>4, <2>5, FloorsMean DEF Passed
    <2>7. pf \in TdxNames /\ ev.status \notin ValidStatuses => cf.tcb
      BY <2>1, <2>4, <2>5, FloorsMean DEF Passed
    <2>8. pf \in SnpNames /\ ev.vmpl > 0 => cf.vmpl
      <3> SUFFICES ASSUME pf \in SnpNames, ev.vmpl > 0, ~cf.vmpl
                   PROVE  FALSE
        OBVIOUS
      <3>1. p.max_vmpl = 0
        BY <2>4, <2>5, FloorsMean
      <3>2. ev.vmpl <= p.max_vmpl
        BY <2>1 DEF Passed, TdxNames, SnpNames
      <3> QED
        BY <2>1, <3>1, <3>2 DEF Numbered
    <2>9. ~(ev.edition < Shipped)
      BY <2>1, <2>4, FloorsMean, NumbersAssumption DEF Passed, Numbered
    <2>10. Asked(ev.gpu) => ev.gpu[1].secboot /\ ev.gpu[1].measres
      BY <2>1, <2>3, <2>4, FloorsMean DEF Passed
    <2> QED
      BY <2>6, <2>7, <2>8, <2>9, <2>10 DEF ShortOf, Tolerated
  <1>2. IInv /\ [Next]_vars
            => [reply' # reply /\ reply'.passed => ShortOf(ev, pf) \subseteq Tolerated(cf)]_vars
    BY <1>1
  <1> QED
    BY Inductive, <1>2, PTL DEF NonePassesBelowTheServersFloors, Spec

-------------------------------------------------------------------------------
(* Evidence sent back as it was made. *)

\* Evidence the service made of its own machine, as evidence of platform pf.
Made(evidence, pf) ==
    /\ pf \in SUPPORTED_ATTESTATION_PLATFORMS
    /\ evidence.kinds = {pf}
    /\ Asked(evidence.gpu) => evidence.gpu[1].nonce = evidence.data

DefaultRules(data) ==
    [report_data |-> Rule(data), debug |-> FALSE, statuses |-> ValidStatuses,
     max_vmpl |-> 0, valid |-> TRUE]

DefaultGpuRules(data) ==
    [nonce |-> data, required |-> TRUE, debug |-> FALSE, secboot |-> TRUE, measres |-> TRUE]

\* A request that sends such evidence back, under default rules.
SendsBack(req) ==
    LET pf == req.name.of
        data == req.evidence.data
    IN  /\ Made(req.evidence, pf) /\ Numbered(req.evidence)
        /\ req.policies.platforms = [p \in {pf} |-> DefaultRules(data)]
        /\ req.policies.floors = Shipped
        /\ req.policies.gpu = IF Asked(req.evidence.gpu) THEN Rule(DefaultGpuRules(data)) ELSE NoRule

BackInv ==
    /\ Asked(config) /\ cf.token => Asked(key)
    /\ stage # "idle" => reply = Nothing
    /\ stage = "attesting" => Asked(resolve_platform(rq.name)) /\ ~rq.back
    /\ Asked(reply.evidence) =>
           /\ stage = "idle" /\ Asked(request) /\ ~rq.back
           /\ Made(reply.evidence[1], reply.platform) /\ reply.evidence[1].data = rq.data
    /\ stage = "verifying" /\ rq.back => SendsBack(rq) /\ (rq.issue => Asked(key))

\* Whatever way the platform is named, it is one the service answers for.
LEMMA ResolvedIsSupported ==
    ASSUME NEW name, Asked(resolve_platform(name))
    PROVE  resolve_platform(name)[1] \in SUPPORTED_ATTESTATION_PLATFORMS
  <1>1. ASSUME Asked(normalize_platform(name))
        PROVE  normalize_platform(name)[1] \in SUPPORTED_ATTESTATION_PLATFORMS
    BY <1>1, RuleIsAsked DEF normalize_platform, Asked
  <1>2. ASSUME Asked(detect_platform)
        PROVE  detect_platform[1] \in SUPPORTED_ATTESTATION_PLATFORMS
    BY <1>2, RuleIsAsked DEF detect_platform, Asked, SUPPORTED_ATTESTATION_PLATFORMS
  <1> QED
    BY <1>1, <1>2 DEF resolve_platform, Asked

LEMMA SentBackIs ==
    ASSUME InProgress, BackInv, Asked(reply.evidence)
    PROVE  LET req == SentBack(reply)
           IN  /\ SendsBack(req) /\ req.to = "/verify" /\ req.back /\ req.key = rq.key
               /\ req.name = [of |-> reply.platform, exact |-> TRUE]
               /\ req.body = "ok" /\ ~req.nested
               /\ req.issue => cf.token /\ req.evidence.data.len > 0
  <1> DEFINE req == SentBack(reply)
  <1>1. /\ req.to = "/verify" /\ req.back /\ req.key = rq.key /\ req.body = "ok" /\ ~req.nested
        /\ req.name = [of |-> reply.platform, exact |-> TRUE] /\ req.evidence = reply.evidence[1]
        /\ req.issue => cf.token /\ rq.data.len > 0
    BY DEF SentBack
  <1>2. /\ req.policies.platforms = [p \in {reply.platform} |-> DefaultRules(rq.data)]
        /\ req.policies.floors = Shipped
        /\ req.policies.gpu =
               IF Asked(reply.evidence[1].gpu) THEN Rule(DefaultGpuRules(rq.data)) ELSE NoRule
    BY DEF SentBack, DefaultRules, DefaultGpuRules
  <1>3. /\ Made(reply.evidence[1], reply.platform) /\ reply.evidence[1].data = rq.data
        /\ Numbered(reply.evidence[1])
    BY DEF BackInv, InProgress
  <1> HIDE DEF req
  <1>4. req.name.of = reply.platform
    BY <1>1
  <1>5. SendsBack(req)
    BY <1>1, <1>2, <1>3, <1>4 DEF SendsBack
  <1> QED
    BY <1>1, <1>3, <1>5 DEF req

\* What is sent back under default rules keeps the floors of any server.
LEMMA SentBackAccepted ==
    ASSUME NEW req, SendsBack(req), req.name = [of |-> req.name.of, exact |-> TRUE],
           req.body = "ok", ~req.nested, req.issue => req.evidence.data.len > 0
    PROVE  /\ canonical_platform(req.name) = req.name.of
           /\ VerifyError(req) = Ok
  <1> DEFINE pf == req.name.of
             p == DefaultRules(req.evidence.data)
             params == {p}
  <1>1. pf \in SUPPORTED_ATTESTATION_PLATFORMS /\ DOMAIN req.policies.platforms = {pf}
        /\ req.policies.platforms[pf] = p
    BY DEF SendsBack, Made
  <1>2. normalize_platform(req.name) = Rule(pf)
    BY <1>1 DEF normalize_platform
  <1>3. canonical_platform(req.name) = pf /\ Asked(normalize_platform(req.name))
    BY <1>2, RuleIsAsked DEF canonical_platform
  <1>4. /\ p.debug = FALSE /\ p.statuses = ValidStatuses /\ p.max_vmpl = 0
        /\ p.report_data = Rule(req.evidence.data) /\ Asked(p.report_data)
        /\ p.report_data[1] = req.evidence.data
    BY RuleIsAsked DEF DefaultRules
  <1>5. Asked(req.policies.gpu) =>
            /\ req.policies.gpu[1].debug = FALSE
            /\ req.policies.gpu[1].secboot = TRUE /\ req.policies.gpu[1].measres = TRUE
    BY RuleIsAsked DEF SendsBack, DefaultGpuRules, Asked
  <1> HIDE DEF p
  <1>6. \A names : ParamsOf(req.policies, names) \subseteq params
    BY <1>1 DEF ParamsOf
  <1>7. check_server_floors(req.policies, cf) = Ok
    <2> DEFINE tdx == ParamsOf(req.policies, TdxNames)
               snp == ParamsOf(req.policies, SnpNames)
    <2>1. \A x \in tdx \cup snp : x = p
      BY <1>6
    <2> HIDE DEF tdx, snp
    <2>2. ~((\E x \in tdx \cup snp : x.debug) \/ (Asked(req.policies.gpu) /\ req.policies.gpu[1].debug))
      BY <1>4, <1>5, <2>1
    <2>3. /\ \A x \in tdx : x.statuses \subseteq ValidStatuses
          /\ \A x \in snp : x.max_vmpl = 0
      BY <1>4, <2>1
    <2>4. req.policies.floors >= Shipped
      BY NumbersAssumption DEF SendsBack
    <2>5. Asked(req.policies.gpu) => req.policies.gpu[1].secboot /\ req.policies.gpu[1].measres
      BY <1>5
    <2>6. server_floors(req.policies, cf, tdx, snp) = Ok
      BY <2>2, <2>3, <2>4, <2>5 DEF server_floors, &&, Check, Ok
    <2> QED
      BY <2>6 DEF check_server_floors, tdx, snp
  <1>8. TokenRequestError(req, pf) = Ok
    BY <1>1, <1>4 DEF TokenRequestError, Check, Ok
  <1> QED
    BY <1>1, <1>3, <1>7, <1>8 DEF VerifyError, &&, Check, Ok

\* The verifier goes by what the evidence is, no more and no less.
LEMMA SentBackJudged ==
    ASSUME SendsBack(rq), canonical_platform(rq.name) = rq.name.of, NEW reachable \in BOOLEAN
    PROVE  LET pf == canonical_platform(rq.name)
           IN  /\ VerifierError(pf, reachable) \in {Ok, "collateral_unavailable"}
               /\ Passed(pf) <=> ShortOf(rq.evidence, pf) = {}
  <1> DEFINE pf == rq.name.of
             e == rq.evidence
             p == DefaultRules(e.data)
             g == rq.policies.gpu
  <1>1. /\ pf \in SUPPORTED_ATTESTATION_PLATFORMS /\ pf \in e.kinds
        /\ pf \in DOMAIN rq.policies.platforms /\ rq.policies.platforms[pf] = p
    BY DEF SendsBack, Made
  <1>2. /\ p.report_data = Rule(e.data) /\ p.report_data[1] = e.data
        /\ p.debug = FALSE /\ p.statuses = ValidStatuses /\ p.max_vmpl = 0 /\ p.valid = TRUE
    BY RuleIsAsked DEF DefaultRules
  <1>3. /\ Asked(g) <=> Asked(e.gpu)
        /\ Asked(g) => /\ g[1].nonce = e.data /\ g[1].debug = FALSE
                       /\ g[1].secboot = TRUE /\ g[1].measres = TRUE
    BY RuleIsAsked DEF SendsBack, DefaultGpuRules, Asked
  <1>4. Asked(e.gpu) => e.gpu[1].nonce = e.data
    BY DEF SendsBack, Made
  <1>5. e.vmpl \in Nat /\ e.edition \in Nat /\ rq.policies.floors = Shipped /\ Shipped \in Nat
    BY NumbersAssumption DEF SendsBack, Numbered
  <1> HIDE DEF p
  <1>6. VerifierError(pf, reachable) \in {Ok, "collateral_unavailable"}
    BY <1>1, <1>2, <1>3 DEF VerifierError, &&, Check, Ok
  <1>7. (pf \in SnpNames <=> pf \notin TdxNames)
    BY <1>1 DEF SUPPORTED_ATTESTATION_PLATFORMS, TdxNames, SnpNames
  <1>8. ShortOf(e, pf) = {} <=>
            /\ ~e.debug /\ ~(Asked(e.gpu) /\ e.gpu[1].debug)
            /\ ~(pf \in TdxNames /\ e.status \notin ValidStatuses)
            /\ ~(pf \in SnpNames /\ e.vmpl > 0)
            /\ ~(e.edition < Shipped)
            /\ ~(Asked(e.gpu) /\ ~(e.gpu[1].secboot /\ e.gpu[1].measres))
    BY DEF ShortOf
  <1>9. Passed(pf) <=>
            /\ e.debug => FALSE
            /\ IF pf \in TdxNames THEN e.status \in ValidStatuses ELSE e.vmpl <= 0
            /\ e.edition >= Shipped
            /\ Asked(e.gpu) => ~e.gpu[1].debug /\ e.gpu[1].secboot /\ e.gpu[1].measres
    BY <1>1, <1>2, <1>3, <1>4, <1>5 DEF Passed
  <1>10. Passed(pf) <=> ShortOf(e, pf) = {}
    BY <1>5, <1>7, <1>8, <1>9
  <1> QED
    BY <1>6, <1>10

LEMMA CanonicalIs ==
    ASSUME NEW req, SendsBack(req)
    PROVE  canonical_platform(req.name) = req.name.of
  BY RuleIsAsked DEF SendsBack, Made, canonical_platform, normalize_platform

\* A request is one of the clients' own, or sends back what the service has made.
LEMMA AskedBack ==
    ASSUME IInv, BackInv, NEW req \in Sendable, Ask(req)
    PROVE  /\ req.to = "/attest" => ~req.back
           /\ req.back =>
                  /\ SendsBack(req) /\ VerifyError(req) = Ok /\ req.to = "/verify"
                  /\ req.issue => Asked(key)
  <1>1. CASE req \in Requests
    BY <1>1, RequestsAssumption
  <1>2. CASE Asked(reply.evidence) /\ req = SentBack(reply)
    <2>1. /\ SendsBack(req) /\ req.to = "/verify"
          /\ req.name = [of |-> reply.platform, exact |-> TRUE]
          /\ req.body = "ok" /\ ~req.nested
          /\ req.issue => cf.token /\ req.evidence.data.len > 0
      BY <1>2, SentBackIs DEF IInv
    <2>2. req.name = [of |-> req.name.of, exact |-> TRUE]
      BY <2>1
    <2>3. VerifyError(req) = Ok
      BY <2>1, <2>2, SentBackAccepted
    <2>4. req.issue => Asked(key)
      BY <2>1 DEF BackInv, Ask
    <2> QED
      BY <2>1, <2>3, <2>4
  <1> QED
    BY <1>1, <1>2 DEF Sendable

LEMMA BackKept == IInv /\ BackInv /\ [Next]_vars => BackInv'
  <1> SUFFICES ASSUME IInv, BackInv, [Next]_vars PROVE BackInv'
    OBVIOUS
  <1>0. InProgress
    BY DEF IInv
  <1>1. ASSUME NEW c \in Configs, Start(c)
        PROVE  BackInv'
    <2>1. cf' = c /\ Asked(config') /\ stage = "idle"
      BY <1>0, <1>1, RuleIsAsked DEF Start, cf, InProgress
    <2>2. c.token => Asked(key')
      BY <1>1 DEF Start
    <2> QED
      BY <1>1, <2>1, <2>2 DEF BackInv, Start, rq
  <1>2. CASE Stop
    BY <1>2 DEF Stop, BackInv, Asked, rq
  <1>3. CASE Tick
    BY <1>3 DEF Tick, BackInv, cf, rq
  <1>4. ASSUME NEW req \in Sendable, Ask(req)
        PROVE  BackInv'
    <2>1. /\ UNCHANGED <<config, key>> /\ request' = Rule(req) /\ rq' = req /\ cf' = cf
          /\ stage = "idle" /\ ~Asked(reply'.evidence)
      BY <1>4, RuleIsAsked DEF Ask, Refused, Nothing, Asked, rq, cf
    <2>2. stage' # "idle" => reply' = Nothing
      BY <1>4 DEF Ask
    <2>3. stage' = "attesting" => Asked(resolve_platform(req.name)) /\ ~req.back
      <3> SUFFICES ASSUME stage' = "attesting"
                   PROVE  Asked(resolve_platform(req.name)) /\ ~req.back
        OBVIOUS
      <3>1. req.to = "/attest" /\ AttestRequestError(req) = Ok
        BY <1>4, <2>1, AndOk DEF Ask
      <3>2. Asked(resolve_platform(req.name))
        BY <3>1 DEF AttestRequestError, &&, Check, Ok
      <3> QED
        BY <1>4, <3>1, <3>2, AskedBack
    <2>4. stage' = "verifying" /\ req.back => SendsBack(req) /\ (req.issue => Asked(key))
      BY <1>4, AskedBack
    <2> QED
      BY <2>1, <2>2, <2>3, <2>4 DEF BackInv
  <1>5. ASSUME NEW edition \in {Shipped - 1, Shipped}, NEW carried \in BOOLEAN,
               FinishAttest(edition, carried)
        PROVE  BackInv'
    <2>1. /\ UNCHANGED <<config, key, request>> /\ stage = "attesting" /\ stage' = "idle"
          /\ reply'.platform = Platform
          /\ reply'.evidence[1].kinds = {Platform} /\ reply'.evidence[1].data = rq.data
      BY <1>5 DEF FinishAttest, Rule
    <2>2. Asked(reply'.evidence[1].gpu) => reply'.evidence[1].gpu[1].nonce = rq.data
      BY <1>5 DEF FinishAttest, Rule, Asked, NoRule
    <2>3. Platform \in SUPPORTED_ATTESTATION_PLATFORMS /\ ~rq.back /\ Asked(request)
      BY <1>0, <2>1, ResolvedIsSupported DEF BackInv, Platform, InProgress
    <2> QED
      BY <2>1, <2>2, <2>3 DEF BackInv, Made, rq, cf
  <1>6. ASSUME NEW reachable \in BOOLEAN, FinishVerify(reachable)
        PROVE  BackInv'
    BY <1>6 DEF FinishVerify, BackInv, Refused, Nothing, Asked, cf
  <1>7. CASE UNCHANGED vars
    BY <1>7 DEF vars, BackInv, cf, rq
  <1> QED
    BY <1>1, <1>2, <1>3, <1>4, <1>5, <1>6, <1>7 DEF Next

LEMMA VerifiesKept == IInv /\ BackInv /\ AttestedVerifies /\ [Next]_vars => AttestedVerifies'
  <1> SUFFICES ASSUME IInv, BackInv, AttestedVerifies, [Next]_vars PROVE AttestedVerifies'
    OBVIOUS
  <1>1. ASSUME UNCHANGED <<request, reply>>, stage' = "idle" => stage = "idle"
        PROVE  AttestedVerifies'
    BY <1>1 DEF AttestedVerifies, rq
  <1>2. CASE Stop
    <2>1. CASE stage = "idle"
      BY <1>1, <1>2, <2>1 DEF Stop
    <2>2. CASE stage # "idle"
      BY <1>2, <2>2 DEF Stop, BackInv, Nothing, AttestedVerifies
    <2> QED
      BY <2>1, <2>2
  <1>3. ASSUME NEW req \in Sendable, Ask(req)
        PROVE  AttestedVerifies'
    <2>1. rq' = req /\ stage = "idle"
      BY <1>3, RuleIsAsked DEF Ask, rq
    <2>2. ASSUME req.back, stage' = "idle"
          PROVE  reply'.error = "unauthorized"
      <3>1. VerifyError(req) = Ok /\ req.to = "/verify"
        BY <1>3, <2>2, AskedBack
      <3>2. reply' = [Nothing EXCEPT !.error = "unauthorized"]
        BY <1>3, <2>1, <2>2, <3>1 DEF Ask, Refused, &&, Check, Ok
      <3> QED
        BY <3>2 DEF Nothing
    <2> QED
      BY <2>1, <2>2 DEF AttestedVerifies
  <1>4. ASSUME NEW edition, NEW carried, FinishAttest(edition, carried)
        PROVE  AttestedVerifies'
    BY <1>4 DEF FinishAttest, BackInv, AttestedVerifies, rq
  <1>5. ASSUME NEW reachable \in BOOLEAN, FinishVerify(reachable)
        PROVE  AttestedVerifies'
    <2> DEFINE pf == canonical_platform(rq.name)
               error == VerifierError(pf, reachable)
               passed == error = Ok /\ Passed(pf)
    <2>1. request' = request /\ rq' = rq /\ stage = "verifying"
      BY <1>5 DEF FinishVerify, rq
    <2>2. SUFFICES ASSUME rq.back
                   PROVE  \/ reply'.error = "collateral_unavailable"
                          \/ reply'.error = Ok /\ (reply'.passed <=> ShortOf(rq.evidence, pf) = {})
      BY <2>1 DEF AttestedVerifies
    <2>3. SendsBack(rq) /\ (rq.issue => Asked(key))
      BY <2>1, <2>2 DEF BackInv
    <2>4. error \in {Ok, "collateral_unavailable"} /\ (Passed(pf) <=> ShortOf(rq.evidence, pf) = {})
      BY <2>3, CanonicalIs, SentBackJudged
    <2>5. CASE error # Ok
      <3>1. reply' = [Nothing EXCEPT !.error = error]
        BY <1>5, <2>5 DEF FinishVerify, Refused
      <3> HIDE DEF error
      <3> QED
        BY <2>4, <2>5, <3>1 DEF Nothing
    <2>6. CASE error = Ok
      <3>1. reply' = [Nothing EXCEPT !.error = Ok, !.passed = passed, !.platform = pf]
        BY <1>5, <2>3, <2>6 DEF FinishVerify
      <3> HIDE DEF passed
      <3>2. reply'.error = Ok /\ reply'.passed = passed
        BY <3>1 DEF Nothing
      <3> QED
        BY <2>4, <2>6, <3>2 DEF passed
    <2> QED
      BY <2>5, <2>6
  <1> QED
    BY <1>1, <1>2, <1>3, <1>4, <1>5 DEF Next, Start, Tick, vars

(* What /attest answered is accepted when it is sent back, by any process: *)
(* it was made for a platform the service answers for, and default rules   *)
(* keep the floors of every server. It is refused only for collateral or   *)
(* for another key, and passes if and only if the machine falls short of   *)
(* nothing.                                                                *)
THEOREM AttestedAlwaysVerifies == Spec => []AttestedVerifies
  <1>1. Init => BackInv /\ AttestedVerifies
    BY DEF Init, BackInv, AttestedVerifies, Asked, NoRule, Nothing
  <1> QED
    BY <1>1, Inductive, BackKept, VerifiesKept, PTL DEF Spec
===============================================================================
