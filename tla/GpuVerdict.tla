----------------------------- MODULE GpuVerdict -----------------------------
(***************************************************************************)
(* The GPU half of a verdict: answers of NVIDIA's NRAS about the devices   *)
(* of a bundle, and the key set its tokens are checked with, as an         *)
(* attester attaches them and a verifier uses them while NVIDIA rotates    *)
(* its keys.                                                               *)
(* Source: crates/attestation/src/platforms/nvidia_gpu/verify.rs, and      *)
(* attach_collateral of lib.rs.                                            *)
(*                                                                         *)
(* The attester, the devices and NRAS are honest: what varies is when keys *)
(* are published and retired, which services answer, and what memory and   *)
(* disk hold.  The key set has no dates, so a copy in memory or on disk is *)
(* always preferred to an attached one (CollateralStore), and a copy on    *)
(* disk is current for ever.  A key set refetched for its age (MAX_AGE) is *)
(* one of OthersFetch.                                                     *)
(***************************************************************************)
EXTENDS Integers, Sequences, FiniteSets

CONSTANTS
  Groups,       (* the architectures of the bundle, each once, in the order *)
                (* of NvidiaGpuArch: each is a request of its own          *)
  Endpoint,     (* per architecture, the NRAS endpoint that answers        *)
  Bundle,       (* per architecture, the number of devices                 *)
  Published,    (* the key sets NRAS publishes, one after the other        *)
  HasDisk,      (* Context::with_cache_dir                                 *)
  ShortLived,   (* each verification runs in a process of its own          *)
  TokenLife,    (* how long after its issue a token is valid (exp)         *)
  Backdated,    (* how long before its issue it already is (nbf)           *)
  MaxTime       (* bound: time, and the attester asks while its answers    *)
                (* still expire within it                                  *)

Arch == {Groups[i] : i \in DOMAIN Groups}

Endpoints == {Endpoint[a] : a \in Arch}

Keys == UNION {Published[e] : e \in DOMAIN Published}

ASSUME GpuAssumption ==
  /\ Groups \in Seq(Arch) /\ Groups # <<>>
  /\ \A i, j \in DOMAIN Groups : Groups[i] = Groups[j] => i = j
  /\ Bundle \in [Arch -> Nat \ {0}]
  /\ Published \in Seq(SUBSET Keys) /\ Published # <<>>
  /\ {} \notin {Published[e] : e \in DOMAIN Published}
  /\ HasDisk \in BOOLEAN /\ ShortLived \in BOOLEAN
  /\ TokenLife \in Nat /\ Backdated \in Nat /\ MaxTime \in Nat

VARIABLES
  now,
  edition,   (* which key set is published                                 *)
  memory,    (* per side, the key set in memory, {} for none               *)
  checked,   (* per side, whether memory was checked within recheck        *)
  disk,      (* per side, the key set on disk, {} for none                 *)
  pc,        (* per side, where its verdict is                             *)
  at,        (* per side, the time of its verdict                          *)
  answers,   (* per side, the answers it has, in the order of the groups   *)
  recorded,  (* what the attester's store used: first answers, first keys  *)
  attached,  (* what came attached to the evidence                         *)
  outcome    (* of the verifier's last verdict                             *)

calls == <<pc, at, answers>>
store == <<memory, checked, disk>>
vars == <<now, edition, memory, checked, disk, pc, at, answers, recorded,
          attached, outcome>>

Side == {"attester", "verifier"}

NoAnswer == [arch |-> "none", key |-> "none", until |-> -1]

Answer == [arch : Arch, key : Keys, until : Nat] \cup {NoAnswer}

Nothing == [answers |-> [e \in Endpoints |-> NoAnswer], keys |-> {}]

Init ==
  /\ now = 0 /\ edition = 1
  /\ memory = [s \in Side |-> {}]
  /\ checked = [s \in Side |-> FALSE]
  /\ disk \in [Side -> IF HasDisk THEN {{}, Published[1]} ELSE {{}}]
  /\ pc = [s \in Side |-> "idle"]
  /\ at = [s \in Side |-> 0]
  /\ answers = [s \in Side |-> <<>>]
  /\ recorded = Nothing
  /\ attached = Nothing
  /\ outcome = "none"

Group(s) == Groups[Len(answers[s]) + 1]

Held(s) == IF s = "verifier" THEN attached ELSE Nothing

(* The verdict takes the time at which it began for the time of all it     *)
(* checks, though a token may have been issued since.                      *)
Expired(answer, time) ==
  \/ time > answer.until
  \/ time < answer.until - TokenLife - Backdated

KeysNamed(s) == {answers[s][i].key : i \in DOMAIN answers[s]}

----------------------------------------------------------------------------
(* gather_bundle: answers *)

Begin(s) ==
  /\ pc[s] = "idle"
  /\ s = "verifier" => pc["attester"] = "done"
  /\ pc' = [pc EXCEPT ![s] = "asking"]
  /\ at' = [at EXCEPT ![s] = now]
  /\ answers' = [answers EXCEPT ![s] = <<>>]
  /\ IF ShortLived
     THEN /\ memory' = [memory EXCEPT ![s] = {}]
          /\ checked' = [checked EXCEPT ![s] = FALSE]
     ELSE UNCHANGED <<memory, checked>>
  /\ outcome' = IF s = "verifier" THEN "none" ELSE outcome
  /\ UNCHANGED <<now, edition, disk, recorded, attached>>

(* Mutant: the last group is not asked about. *)
TookEarly(s, answer) ==
  /\ answers' = [answers EXCEPT ![s] = Append(@, answer)]
  /\ pc' = [pc EXCEPT ![s] =
              IF Len(answers[s]) + 2 >= Len(Groups) THEN "keys" ELSE @]
  /\ recorded' = recorded

(* An answer for the next group; the store of the attester records the     *)
(* first one of each endpoint.                                             *)
Took(s, answer) ==
  LET e == Endpoint[Group(s)]
  IN
    /\ answers' = [answers EXCEPT ![s] = Append(@, answer)]
    /\ pc' = [pc EXCEPT ![s] =
                IF Len(answers[s]) + 1 = Len(Groups) THEN "keys" ELSE @]
    /\ recorded' = IF s = "attester" /\ recorded.answers[e] = NoAnswer
                   THEN [recorded EXCEPT !.answers[e] = answer]
                   ELSE recorded

(* Mutant: any attached answer will do. *)
UsableAtAnyTime(s) == Held(s).answers[Endpoint[Group(s)]] # NoAnswer

Usable(s) ==
  LET held == Held(s).answers[Endpoint[Group(s)]]
  IN  held # NoAnswer /\ ~Expired(held, at[s])

TakeHeld(s) ==
  /\ pc[s] = "asking" /\ Usable(s)
  /\ Took(s, Held(s).answers[Endpoint[Group(s)]])
  /\ UNCHANGED <<now, edition, store, at, attached, outcome>>

(* NRAS may sign with a key of the set it will publish next. *)
AskNras(s, key) ==
  /\ pc[s] = "asking" /\ ~Usable(s)
  /\ s = "attester" => now + TokenLife < MaxTime
  /\ \/ key \in Published[edition]
     \/ edition < Len(Published) /\ key \in Published[edition + 1]
  /\ Took(s, [arch |-> Group(s), key |-> key, until |-> now + TokenLife])
  /\ UNCHANGED <<now, edition, store, at, attached, outcome>>

----------------------------------------------------------------------------
(* The end of a call *)

(* attach_collateral attaches what was used so far, without the key set. *)
GiveUp(s, why) ==
  \/ /\ s = "attester"
     /\ pc' = [pc EXCEPT ![s] = "done"]
     /\ attached' = [recorded EXCEPT !.keys = {}]
     /\ UNCHANGED outcome
  \/ /\ s = "verifier"
     /\ pc' = [pc EXCEPT ![s] = "idle"]
     /\ outcome' = why
     /\ UNCHANGED attached

(* verify_bundle, with the key set `set`. *)
Genuine(s, set) ==
  \A i \in DOMAIN answers[s] :
    LET answer == answers[s][i]
    IN  /\ answer.key \in set
        /\ ~Expired(answer, at[s])
        /\ Endpoint[answer.arch] = Endpoint[Groups[i]]

(* The attester attaches what was used, its key set cut to the keys named. *)
Conclude(s, set) ==
  \/ /\ s = "attester"
     /\ pc' = [pc EXCEPT ![s] = "done"]
     /\ attached' =
          [recorded EXCEPT !.keys =
             (IF recorded.keys = {} THEN set ELSE recorded.keys) \cap KeysNamed(s)]
     /\ UNCHANGED outcome
  \/ /\ s = "verifier"
     /\ pc' = [pc EXCEPT ![s] = "idle"]
     /\ outcome' = IF Genuine(s, set) THEN "verdict" ELSE "invalid"
     /\ UNCHANGED attached

NrasFails(s) ==
  /\ pc[s] = "asking" /\ ~Usable(s)
  /\ GiveUp(s, "unavailable")
  /\ UNCHANGED <<now, edition, store, at, answers, recorded>>

----------------------------------------------------------------------------
(* gather_bundle: keys *)

(* Mutant: the key of the first answer decides. *)
KnownFirst(s, set) == answers[s][1].key \in set

Known(s, set) == KeysNamed(s) \subseteq set

(* The key set a lookup has brought, the first time or after the refetch.  *)
Judge(s, set, from) ==
  /\ \/ Known(s, set) /\ Conclude(s, set)
     \/ /\ ~Known(s, set) /\ pc[s] = "keys" /\ from = "attached"
        /\ GiveUp(s, "refused")
     \/ /\ ~Known(s, set) /\ pc[s] = "keys" /\ from # "attached"
        /\ pc' = [pc EXCEPT ![s] = "refresh"]
        /\ UNCHANGED <<attached, outcome>>
     \/ /\ ~Known(s, set) /\ pc[s] = "again"
        /\ GiveUp(s, "unpublished")
  /\ recorded' = IF s = "attester" /\ recorded.keys = {}
                 THEN [recorded EXCEPT !.keys = set] ELSE recorded
  /\ UNCHANGED <<now, edition, at, answers>>

LooksForKeys(s) == pc[s] \in {"keys", "again"}

(* In memory; with an attached set, on disk; else the attached one. *)
KeysOnHand(s) ==
  /\ LooksForKeys(s)
  /\ \/ memory[s] # {} /\ Judge(s, memory[s], "memory")
     \/ /\ memory[s] = {} /\ Held(s).keys # {} /\ disk[s] # {}
        /\ Judge(s, disk[s], "disk")
     \/ /\ memory[s] = {} /\ Held(s).keys # {} /\ disk[s] = {}
        /\ Judge(s, Held(s).keys, "attached")
  /\ UNCHANGED store

Loads(s) == LooksForKeys(s) /\ memory[s] = {} /\ Held(s).keys = {}

(* A set that comes into memory counts as checked, wherever it is from. *)
Remember(s, set) ==
  /\ memory' = [memory EXCEPT ![s] = set]
  /\ checked' = [checked EXCEPT ![s] = TRUE]

Save(s, set) ==
  disk' = IF HasDisk THEN [disk EXCEPT ![s] = set] ELSE disk

KeysFromDisk(s) ==
  /\ Loads(s) /\ disk[s] # {}
  /\ Remember(s, disk[s])
  /\ Judge(s, disk[s], "disk")
  /\ UNCHANGED disk

KeysFetched(s) ==
  /\ Loads(s) /\ disk[s] = {}
  /\ Remember(s, Published[edition]) /\ Save(s, Published[edition])
  /\ Judge(s, Published[edition], "vendor")

KeysUnavailable(s) ==
  /\ Loads(s) /\ disk[s] = {}
  /\ GiveUp(s, "unavailable")
  /\ UNCHANGED <<now, edition, store, at, answers, recorded>>

----------------------------------------------------------------------------
(* The forced refetch: Store::refresh *)

(* Mutant: the refetch is always skipped. *)
SkippedAlways(s) == TRUE

(* Not in memory, or checked a short time ago. *)
Skipped(s) == memory[s] = {} \/ checked[s]

Refresh(s) ==
  /\ pc[s] = "refresh"
  /\ pc' = [pc EXCEPT ![s] = "again"]
  /\ \/ Skipped(s) /\ UNCHANGED store
     \/ /\ ~Skipped(s)
        /\ Remember(s, Published[edition]) /\ Save(s, Published[edition])
  /\ UNCHANGED <<now, edition, at, answers, recorded, attached, outcome>>

RefreshFails(s) ==
  /\ pc[s] = "refresh" /\ ~Skipped(s)
  /\ checked' = [checked EXCEPT ![s] = TRUE]
  /\ GiveUp(s, "unavailable")
  /\ UNCHANGED <<now, edition, memory, disk, at, answers, recorded>>

----------------------------------------------------------------------------
(* What happens around the calls *)

(* Another verdict of the same process loads or refetches the key set. *)
OthersFetch(s) ==
  /\ ~ShortLived /\ ~checked[s] /\ (memory[s] # {} \/ disk[s] = {})
  /\ Remember(s, Published[edition]) /\ Save(s, Published[edition])
  /\ UNCHANGED <<now, edition, calls, recorded, attached, outcome>>

(* Native::recheck passes. *)
Ages(s) ==
  /\ ~ShortLived /\ checked[s]
  /\ checked' = [checked EXCEPT ![s] = FALSE]
  /\ UNCHANGED <<now, edition, memory, disk, calls, recorded, attached, outcome>>

Rotate ==
  /\ edition < Len(Published)
  /\ edition' = edition + 1
  /\ UNCHANGED <<now, store, calls, recorded, attached, outcome>>

Tick ==
  /\ now < MaxTime
  /\ now' = now + 1
  /\ UNCHANGED <<edition, store, calls, recorded, attached, outcome>>

Step(s) ==
  \/ TakeHeld(s) \/ NrasFails(s) \/ (\E key \in Keys : AskNras(s, key))
  \/ KeysOnHand(s) \/ KeysFromDisk(s) \/ KeysFetched(s) \/ KeysUnavailable(s)
  \/ Refresh(s) \/ RefreshFails(s)

Next ==
  \/ \E s \in Side : Begin(s) \/ Step(s) \/ OthersFetch(s) \/ Ages(s)
  \/ Rotate \/ Tick

Spec == Init /\ [][Next]_vars

AnswersGroup(i) ==
  Len(answers["verifier"]) = i - 1 /\ \E key \in Keys : AskNras("verifier", key)

(* The verifier tries again and again; NRAS, asked about the groups one by *)
(* one, and the place of its keys are not always out of reach; a key NRAS  *)
(* signs with is published in the end; time and recheck pass.              *)
Fairness ==
  /\ WF_vars(Begin("verifier")) /\ WF_vars(Step("verifier"))
  /\ \A i \in DOMAIN Groups : SF_vars(AnswersGroup(i))
  /\ SF_vars(KeysFetched("verifier"))
  /\ SF_vars(~Skipped("verifier") /\ Refresh("verifier"))
  /\ WF_vars(Ages("verifier")) /\ WF_vars(Rotate) /\ WF_vars(Tick)

FairSpec == Spec /\ Fairness

----------------------------------------------------------------------------
(* Properties *)

TypeOK ==
  /\ now \in Nat /\ edition \in DOMAIN Published
  /\ memory \in [Side -> SUBSET Keys] /\ disk \in [Side -> SUBSET Keys]
  /\ checked \in [Side -> BOOLEAN]
  /\ pc \in [Side -> {"idle", "asking", "keys", "refresh", "again", "done"}]
  /\ at \in [Side -> Nat]
  /\ answers \in [Side -> Seq(Answer \ {NoAnswer})]
  /\ \A s \in Side :
       /\ Len(answers[s]) <= Len(Groups)
       /\ pc[s] = "asking" => Len(answers[s]) < Len(Groups)
       /\ pc[s] \in {"keys", "refresh", "again"} => Len(answers[s]) = Len(Groups)
  /\ recorded \in [answers : [Endpoints -> Answer], keys : SUBSET Keys]
  /\ attached \in [answers : [Endpoints -> Answer], keys : SUBSET Keys]
  /\ outcome \in {"none", "unavailable", "unpublished", "refused", "invalid",
                  "verdict"}

(* The number of devices of architecture b in the claims of a verdict. *)
Reported(b) ==
  Bundle[b] * Cardinality({i \in DOMAIN answers["verifier"] :
                             answers["verifier"][i].arch = b})

(* Whatever is attached, a verdict reports the devices of the bundle, each *)
(* once ("NRAS returned one device claim per device in the bundle",        *)
(* types.rs:533).                                                          *)
ReportsTheBundle ==
  outcome = "verdict" => \A b \in Arch : Reported(b) = Bundle[b]

(* Evidence with what attach_collateral attached to it is never taken for  *)
(* one that is not genuine, however late it comes and whatever keys were   *)
(* published or retired meanwhile: an answer out of date is asked for anew *)
(* (verify.rs:89) and no key is given up before a refetch (verify.rs:68).  *)
(* That an attached key set lacks a key is an error of its own, "refused". *)
GenuineNeverInvalid == outcome # "invalid"

(* Evidence that brought no key set gets its verdict in the end, from a    *)
(* verifier that goes on trying: rotations, outages and answers that       *)
(* expire, or whose keys are retired, only delay it ("refetching them once *)
(* if a token names a key they lack", verify.rs:24).  An attached key set  *)
(* may be refused for good (verify.rs:64), or keep the set on disk out of  *)
(* memory, where no refetch reaches it (store.rs:412).                     *)
GenuineEndsInAVerdict ==
  pc["attester"] = "done" /\ attached.keys = {} ~> outcome = "verdict"

(* "An incomplete GPU signing key set is never attached" (lib.rs:371).     *)
AttachedSetIsComplete ==
  attached.keys # {} =>
    \A e \in Endpoints :
      attached.answers[e] # NoAnswer => attached.answers[e].key \in attached.keys

=============================================================================
