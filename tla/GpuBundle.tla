------------------------------- MODULE GpuBundle -------------------------------
(***************************************************************************)
(* What makes an NVIDIA GPU bundle genuine, and what its rules are: the    *)
(* tokens NRAS signed about each architecture, the key they name and its   *)
(* chain to a pinned intermediate, the nonces, and the device policy.      *)
(* When keys are fetched, attached and rotated is GpuVerdict's subject.    *)
(*                                                                         *)
(* bundle: [devices, binding], devices a sequence of architectures.        *)
(* p: [user_nonce, required, bindings, archs, policy], rules but the last  *)
(*   two: required, and policy = [debug, secboot, measres].                *)
(* answer (of NRAS, per architecture): [shape, overall, subs].             *)
(* token: [form, alg, crit, kid, by, intact, from, until, nonce, result,   *)
(*   device]; until is a rule (exp may be missing), device is              *)
(*   [model, nonceMatch, dbgstat, secboot, measres].                       *)
(* key: [kid, x5c], x5c a sequence of certificates with [ca, pathLen,      *)
(*   certSign, issuer].                                                    *)
(***************************************************************************)
EXTENDS Checks, SequencesExt

MAX_GPU_DEVICES == 32
MIN_GPU_USER_NONCE_LEN == 16
DefaultBindings == {"Concat SHA-256"}

Allowed(p) == IF Asked(p.bindings) THEN p.bindings[1] ELSE DefaultBindings

check_preconditions(bundle, p) ==
       Check(bundle.devices # << >>, "NvidiaGpuBundleEmpty")
    && Check(Len(bundle.devices) <= MAX_GPU_DEVICES, "NvidiaGpuTooManyDevices")
    && Check(Asked(p.user_nonce), "NvidiaGpuUserNonceMissing")
    && Check(p.user_nonce[1].len >= MIN_GPU_USER_NONCE_LEN, "NvidiaGpuNonceTooShort")
    && Check(Allowed(p) # {}, "InvalidParams")
    && Check(bundle.binding \in Allowed(p), "NvidiaGpuBindingNotAllowed")

Groups(bundle) == {bundle.devices[i] : i \in DOMAIN bundle.devices}

(* SHA-256 of the user's nonce and a tag is modelled by the pair.          *)
arch_nonce(arch, p) ==
    <<p.user_nonce[1].v, IF arch = "LS10" THEN "SWITCH" ELSE "GPU">>

\* A detached EAT: an overall token and a token per device.
split_eat_response(answer) == answer.shape = "detached EAT"

(* x5c: leaf first; every certificate above the leaf is a CA that may sign *)
(* the one below it, and the top one's key is pinned. The windows are not  *)
(* looked at when the set is accepted, only when a token names the key.    *)
PinnedKeys == {"NVIDIA-GPU-004", "NVIDIA-GPU-005"}

check_issuer_is_ca(issuer, subject, below) ==
    /\ issuer.ca
    /\ Asked(issuer.pathLen) => below <= issuer.pathLen[1]
    /\ issuer.certSign
    /\ issuer.cn = subject.issuer

verify_x5c_chain(x5c) ==
    /\ x5c # << >>
    /\ \A i \in 1..(Len(x5c) - 1) :
           /\ SignedBy(x5c[i], x5c[i + 1].key)
           /\ check_issuer_is_ca(x5c[i + 1], x5c[i], i - 1)
    /\ Last(x5c).key \in PinnedKeys

AllValidAt(x5c, now) == \A i \in DOMAIN x5c : ValidAt(x5c[i], now)

NrasJwks_verify(set) == \E i \in DOMAIN set : verify_x5c_chain(set[i].x5c)

\* The first key of that name.
KeyNamed(set, kid) ==
    LET named == {i \in DOMAIN set : set[i].kid = kid}
    IN  IF named = {} THEN NoRule ELSE Rule(set[FirstOf(named)])

enforce_time_claims(token, now) ==
    /\ Asked(token.until) /\ now <= token.until[1]
    /\ Asked(token.from) => token.from[1] <= now

verify_jws_es384(token, set, now) ==
    LET named == KeyNamed(set, token.kid[1])
    IN     Check(token.form = "compact", "JwsVerification")
        && Check(token.alg = "ES384" /\ ~token.crit, "JwsVerification")
        && Check(Asked(token.kid), "JwsVerification")
        && Check(Asked(named), "JwksKidNotFound")
        && Check(verify_x5c_chain(named[1].x5c) /\ AllValidAt(named[1].x5c, now),
                 "JwsVerification")
        && Check(SignedBy(token, named[1].x5c[1].key), "JwsVerification")
        && Check(enforce_time_claims(token, now), "JwsVerification")

arch_from_hwmodel(model) ==
    IF model \in {"GH100 A01", "HOPPER"} THEN "HOPPER"
    ELSE IF model \in {"GB100", "BLACKWELL"} THEN "BLACKWELL"
    ELSE IF model \in {"LS10", "NVSWITCH"} THEN "LS10" ELSE "none"

\* A claim that is absent counts as failed.
device_policy_holds(device, policy) ==
    /\ ~policy.debug => device.dbgstat = "disabled"
    /\ policy.secboot => device.secboot = "true"
    /\ policy.measres => device.measres = "success"

\* Mutant: a device's token may be of another session.
SubmoduleUnbound(token, nonce, set, now) == verify_jws_es384(token, set, now)

\* One device: signed, bound to the session by both of its nonces.
SubmoduleError(token, nonce, set, now) ==
       verify_jws_es384(token, set, now)
    && Check(token.nonce = nonce, "NvidiaGpuSubmoduleNonceMismatch")
    && Check(token.device.nonceMatch, "NvidiaGpuSubmoduleNonceMismatch")

verify_arch_group(answer, nonce, set, now) ==
       Check(split_eat_response(answer), "NrasResponseParse")
    && verify_jws_es384(answer.overall, set, now)
    && Check(answer.overall.nonce = nonce, "NvidiaGpuBindingMismatch")
    && FirstError([i \in DOMAIN answer.subs |-> SubmoduleError(answer.subs[i], nonce, set, now)])

\* The groups in the order of NvidiaGpuArch; the first error stops.
ArchOrder == <<"HOPPER", "BLACKWELL", "LS10">>

verify_bundle_error(bundle, p, answers, set, now) ==
       check_preconditions(bundle, p)
    && FirstError([i \in DOMAIN ArchOrder |->
           IF ArchOrder[i] \in Groups(bundle)
           THEN verify_arch_group(answers[ArchOrder[i]], arch_nonce(ArchOrder[i], p), set, now)
           ELSE Ok])

\* The tokens about devices, and the devices they are about.
Submodules(bundle, answers) ==
    UNION {{<<a, i>> : i \in DOMAIN answers[a].subs} : a \in Groups(bundle)}

verify_bundle(bundle, p, answers) ==
    LET subs == Submodules(bundle, answers)
        all == {answers[x[1]].subs[x[2]].device : x \in subs}
    IN  [overall_ok |-> \A a \in Groups(bundle) : answers[a].overall.result,
         archs_allowed |->
            IF Asked(p.archs)
            THEN Outcome(\A d \in all : arch_from_hwmodel(d.model) \in p.archs[1])
            ELSE "unasked",
         device_count_match |-> Cardinality(subs) = Len(bundle.devices),
         device_policy_met |-> \A d \in all : device_policy_holds(d, p.policy)]

GpuPassed(r) ==
    /\ r.overall_ok
    /\ r.archs_allowed # "mismatch"
    /\ r.device_count_match
    /\ r.device_policy_met

(* Gathering: an answer per architecture (held ones only if no token is    *)
(* outside its window), then a key set that names every key of the tokens. *)
Tokens(answer) == {answer.overall} \cup ToSet(answer.subs)

expired(answer, now) ==
    split_eat_response(answer) /\ \E t \in Tokens(answer) : ~enforce_time_claims(t, now)

KeysKnown(bundle, answers, set) ==
    \A a \in Groups(bundle) :
        /\ split_eat_response(answers[a])
        /\ \A t \in Tokens(answers[a]) :
               Asked(t.kid) => Asked(KeyNamed(set, t.kid[1]))

\* The set an attester attaches: the keys its tokens name.
keys_used(set, bundle, answers) ==
    LET named == UNION {{t.kid : t \in Tokens(answers[a])} : a \in Groups(bundle)}
    IN  SelectSeq(set, LAMBDA k : Rule(k.kid) \in named)
===============================================================================
