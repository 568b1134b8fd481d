-------------------------- MODULE GpuVerdictProofs --------------------------
(***************************************************************************)
(* What holds of verdicts about GPUs for any bundle, any sequence of key   *)
(* sets and any times: the types of the state, that genuine evidence is    *)
(* never found invalid, and that a verdict reports the bundle.             *)
(***************************************************************************)
EXTENDS GpuVerdict, FiniteSetTheorems, TLAPS

----------------------------------------------------------------------------
(* Type correctness *)

Record == [answers : [Endpoints -> Answer], keys : SUBSET Keys]

AnswersTyped == answers \in [Side -> Seq(Answer \ {NoAnswer})]

(* A call asks about one group after the other, and about the keys once it *)
(* has an answer for each.                                                 *)
CallsInStep ==
  \A s \in Side :
    /\ Len(answers[s]) <= Len(Groups)
    /\ pc[s] = "asking" => Len(answers[s]) < Len(Groups)
    /\ pc[s] \in {"keys", "refresh", "again"} => Len(answers[s]) = Len(Groups)

LEMMA TypesOfConstants ==
  /\ Len(Groups) \in Nat \ {0}
  /\ DOMAIN Groups = 1 .. Len(Groups)
  /\ \A i \in DOMAIN Groups : Groups[i] \in Arch
  /\ \A e \in DOMAIN Published : Published[e] \in SUBSET Keys
  /\ 1 \in DOMAIN Published
  /\ \A a \in Arch : Endpoint[a] \in Endpoints
  /\ NoAnswer \in Answer /\ Nothing \in Record
<1>1. Len(Groups) \in Nat \ {0} /\ DOMAIN Groups = 1 .. Len(Groups)
  BY GpuAssumption
<1>2. \A i \in DOMAIN Groups : Groups[i] \in Arch
  BY DEF Arch
<1>3. \A e \in DOMAIN Published : Published[e] \in SUBSET Keys
  BY DEF Keys
<1>4. 1 \in DOMAIN Published
  BY GpuAssumption
<1>5. \A a \in Arch : Endpoint[a] \in Endpoints
  BY DEF Endpoints
<1>6. NoAnswer \in Answer /\ Nothing \in Record
  BY DEF Answer, Nothing, Record
<1>. QED BY <1>1, <1>2, <1>3, <1>4, <1>5, <1>6

(* The group a call asks about next is one of the bundle's. *)
LEMMA NextGroup ==
  ASSUME TypeOK, NEW s \in Side, pc[s] = "asking"
  PROVE  /\ Len(answers[s]) + 1 \in DOMAIN Groups
         /\ Group(s) \in Arch /\ Endpoint[Group(s)] \in Endpoints
         /\ Len(answers[s]) \in Nat
         /\ answers[s] \in Seq(Answer \ {NoAnswer})
  BY TypesOfConstants DEF TypeOK, Group

LEMMA InitTypes == Init => TypeOK
<1>. SUFFICES ASSUME Init PROVE TypeOK
  OBVIOUS
<1>1. disk \in [Side -> SUBSET Keys] /\ memory \in [Side -> SUBSET Keys]
  BY TypesOfConstants DEF Init
<1>2. /\ edition \in DOMAIN Published /\ now \in Nat
      /\ checked \in [Side -> BOOLEAN] /\ at \in [Side -> Nat]
      /\ pc \in [Side -> {"idle", "asking", "keys", "refresh", "again", "done"}]
  BY TypesOfConstants DEF Init
<1>3. AnswersTyped /\ \A s \in Side : answers[s] = <<>>
  BY DEF Init, AnswersTyped
<1>4. CallsInStep
  BY <1>3, TypesOfConstants DEF CallsInStep, Init
<1>5. recorded \in Record /\ attached \in Record /\ outcome = "none"
  BY TypesOfConstants DEF Init
<1>. QED BY <1>1, <1>2, <1>3, <1>4, <1>5 DEF TypeOK, CallsInStep, AnswersTyped, Record

(* What the call s comes by: an answer for the group it asks about.        *)
LEMMA TookTypes ==
  ASSUME TypeOK, NEW s \in Side, pc[s] = "asking",
         NEW a \in Answer \ {NoAnswer}, Took(s, a)
  PROVE  /\ AnswersTyped' /\ CallsInStep'
         /\ pc' \in [Side -> {"idle", "asking", "keys", "refresh", "again", "done"}]
         /\ recorded' \in Record
<1>0. /\ AnswersTyped /\ CallsInStep /\ recorded \in Record
      /\ pc \in [Side -> {"idle", "asking", "keys", "refresh", "again", "done"}]
  BY DEF TypeOK, AnswersTyped, CallsInStep, Record
<1>1. /\ answers' = [answers EXCEPT ![s] = Append(answers[s], a)]
      /\ pc' = [pc EXCEPT ![s] =
                  IF Len(answers[s]) + 1 = Len(Groups) THEN "keys" ELSE pc[s]]
  BY DEF Took
<1>2. /\ answers'[s] \in Seq(Answer \ {NoAnswer})
      /\ Len(answers'[s]) = Len(answers[s]) + 1
  BY <1>0, <1>1, NextGroup DEF AnswersTyped
<1>3. AnswersTyped'
  BY <1>0, <1>1, <1>2 DEF AnswersTyped
<1>4. CallsInStep'
  <2>1. /\ Len(answers[s]) \in Nat /\ Len(answers[s]) < Len(Groups)
        /\ pc'[s] = IF Len(answers[s]) + 1 = Len(Groups) THEN "keys" ELSE "asking"
    BY <1>0, <1>1, NextGroup DEF CallsInStep
  <2>2. ASSUME NEW o \in Side, o # s
        PROVE  answers'[o] = answers[o] /\ pc'[o] = pc[o]
    BY <1>0, <1>1, <2>2 DEF AnswersTyped
  <2>3. /\ Len(answers'[s]) <= Len(Groups)
        /\ pc'[s] = "asking" => Len(answers'[s]) < Len(Groups)
        /\ pc'[s] \in {"keys", "refresh", "again"} => Len(answers'[s]) = Len(Groups)
    <3>1. Len(Groups) \in Nat
      BY TypesOfConstants
    <3>2. Len(answers'[s]) = Len(answers[s]) + 1
      BY <1>2
    <3>. QED BY <2>1, <3>1, <3>2
  <2>. QED BY <1>0, <2>2, <2>3 DEF CallsInStep
<1>5. recorded' \in Record
  BY <1>0, NextGroup DEF Took, Record
<1>. QED BY <1>0, <1>1, <1>3, <1>4, <1>5

(* How a call ends. *)
LEMMA EndTypes ==
  ASSUME TypeOK, NEW s \in Side,
         \/ \E why \in {"unavailable", "unpublished", "refused"} : GiveUp(s, why)
         \/ \E set \in SUBSET Keys : Conclude(s, set)
  PROVE  /\ pc' \in [Side -> {"idle", "asking", "keys", "refresh", "again", "done"}]
         /\ pc'[s] \in {"idle", "done"}
         /\ \A other \in Side \ {s} : pc'[other] = pc[other]
         /\ attached' \in Record
         /\ outcome' \in {"none", "unavailable", "unpublished", "refused", "invalid",
                          "verdict"}
<1>1. /\ recorded \in Record /\ attached \in Record
      /\ pc \in [Side -> {"idle", "asking", "keys", "refresh", "again", "done"}]
      /\ outcome \in {"none", "unavailable", "unpublished", "refused", "invalid",
                      "verdict"}
  BY DEF TypeOK, Record
<1>2. ASSUME NEW set \in SUBSET Keys
      PROVE  [recorded EXCEPT !.keys = set] \in Record
  BY <1>1 DEF Record
<1>3. ASSUME NEW why \in {"unavailable", "unpublished", "refused"}, GiveUp(s, why)
      PROVE  /\ \E end \in {"idle", "done"} : pc' = [pc EXCEPT ![s] = end]
             /\ attached' \in Record
             /\ outcome' \in {outcome, why}
  <2>1. [recorded EXCEPT !.keys = {}] \in Record
    BY <1>2
  <2>. QED BY <1>1, <1>3, <2>1 DEF GiveUp
<1>4. ASSUME NEW set \in SUBSET Keys, Conclude(s, set)
      PROVE  /\ \E end \in {"idle", "done"} : pc' = [pc EXCEPT ![s] = end]
             /\ attached' \in Record
             /\ outcome' \in {outcome, "verdict", "invalid"}
  <2>1. (IF recorded.keys = {} THEN set ELSE recorded.keys) \cap KeysNamed(s)
          \in SUBSET Keys
    BY <1>1 DEF Record
  <2>2. [recorded EXCEPT !.keys =
           (IF recorded.keys = {} THEN set ELSE recorded.keys) \cap KeysNamed(s)]
          \in Record
    BY <1>2, <2>1
  <2>. QED BY <1>1, <1>4, <2>2 DEF Conclude
<1>. QED BY <1>1, <1>3, <1>4

LEMMA JudgeTypes ==
  ASSUME TypeOK, NEW s \in Side, NEW set \in SUBSET Keys, NEW from,
         pc[s] \in {"keys", "again"}, Judge(s, set, from)
  PROVE  /\ pc' \in [Side -> {"idle", "asking", "keys", "refresh", "again", "done"}]
         /\ CallsInStep' /\ answers' = answers
         /\ attached' \in Record /\ recorded' \in Record
         /\ outcome' \in {"none", "unavailable", "unpublished", "refused",
                          "invalid", "verdict"}
<1>0. /\ CallsInStep /\ recorded \in Record /\ attached \in Record
      /\ pc \in [Side -> {"idle", "asking", "keys", "refresh", "again", "done"}]
      /\ outcome \in {"none", "unavailable", "unpublished", "refused", "invalid",
                      "verdict"}
  BY DEF TypeOK, CallsInStep, Record
<1>1. recorded' \in Record
  BY <1>0 DEF Judge, Record
<1>2. answers' = answers
  BY DEF Judge
<1>3. \/ \E why \in {"unavailable", "unpublished", "refused"} : GiveUp(s, why)
      \/ Conclude(s, set)
      \/ /\ pc' = [pc EXCEPT ![s] = "refresh"]
         /\ UNCHANGED <<attached, outcome>>
  BY DEF Judge
<1>4. /\ pc' \in [Side -> {"idle", "asking", "keys", "refresh", "again", "done"}]
      /\ pc'[s] \in {"idle", "done", "refresh"}
      /\ \A other \in Side \ {s} : pc'[other] = pc[other]
      /\ attached' \in Record
      /\ outcome' \in {"none", "unavailable", "unpublished", "refused",
                       "invalid", "verdict"}
  BY <1>0, <1>3, EndTypes
<1>5. CallsInStep'
  BY <1>0, <1>2, <1>4 DEF CallsInStep
<1>. QED BY <1>0, <1>1, <1>2, <1>4, <1>5

LEMMA StepTypes ==
  ASSUME TypeOK, NEW s \in Side, Begin(s) \/ Step(s)
  PROVE  TypeOK'
<1>0. /\ AnswersTyped /\ CallsInStep /\ recorded \in Record /\ attached \in Record
      /\ Held(s) \in Record /\ Published[edition] \in SUBSET Keys
      /\ memory \in [Side -> SUBSET Keys] /\ disk \in [Side -> SUBSET Keys]
      /\ pc \in [Side -> {"idle", "asking", "keys", "refresh", "again", "done"}]
  BY TypesOfConstants DEF TypeOK, AnswersTyped, CallsInStep, Record, Held
<1>a. ASSUME NEW a \in Answer \ {NoAnswer}, pc[s] = "asking", Took(s, a),
             UNCHANGED <<now, edition, store, at, attached, outcome>>
      PROVE  TypeOK'
  BY <1>a, TookTypes DEF TypeOK, AnswersTyped, CallsInStep, Record, store
<1>b. ASSUME NEW why \in {"unavailable", "unpublished", "refused"}, GiveUp(s, why),
             UNCHANGED <<now, edition, memory, disk, at, answers, recorded>>,
             checked' \in [Side -> BOOLEAN]
      PROVE  TypeOK'
  <2>1. /\ pc' \in [Side -> {"idle", "asking", "keys", "refresh", "again", "done"}]
        /\ pc'[s] \in {"idle", "done"}
        /\ \A other \in Side \ {s} : pc'[other] = pc[other]
        /\ attached' \in Record
        /\ outcome' \in {"none", "unavailable", "unpublished", "refused", "invalid",
                         "verdict"}
    BY <1>b, EndTypes
  <2>2. CallsInStep'
    BY <1>0, <1>b, <2>1 DEF CallsInStep
  <2>. QED BY <1>b, <2>1, <2>2 DEF TypeOK, CallsInStep, Record
<1>c. ASSUME NEW set \in SUBSET Keys, NEW from, LooksForKeys(s), Judge(s, set, from),
             memory' \in [Side -> SUBSET Keys], disk' \in [Side -> SUBSET Keys],
             checked' \in [Side -> BOOLEAN]
      PROVE  TypeOK'
  <2>1. UNCHANGED <<now, edition, at, answers>>
    BY <1>c DEF Judge
  <2>2. /\ pc' \in [Side -> {"idle", "asking", "keys", "refresh", "again", "done"}]
        /\ CallsInStep'
        /\ attached' \in Record /\ recorded' \in Record
        /\ outcome' \in {"none", "unavailable", "unpublished", "refused",
                         "invalid", "verdict"}
    BY <1>c, JudgeTypes DEF LooksForKeys
  <2>. QED BY <1>c, <2>1, <2>2 DEF TypeOK, CallsInStep, Record
<1>d. ASSUME NEW set \in SUBSET Keys, Remember(s, set)
      PROVE  memory' \in [Side -> SUBSET Keys] /\ checked' \in [Side -> BOOLEAN]
  BY <1>0, <1>d DEF TypeOK, Remember
<1>e. ASSUME NEW set \in SUBSET Keys, Save(s, set)
      PROVE  disk' \in [Side -> SUBSET Keys]
  BY <1>0, <1>e DEF TypeOK, Save
<1>1. CASE Begin(s)
  <2>1. AnswersTyped' /\ answers'[s] = <<>>
    BY <1>0, <1>1 DEF Begin, AnswersTyped
  <2>2. CallsInStep'
    BY <1>0, <1>1, <2>1, TypesOfConstants DEF Begin, CallsInStep, AnswersTyped
  <2>3. memory' \in [Side -> SUBSET Keys] /\ checked' \in [Side -> BOOLEAN]
    BY <1>0, <1>1 DEF Begin, TypeOK
  <2>. QED BY <1>0, <1>1, <2>1, <2>2, <2>3
           DEF Begin, TypeOK, AnswersTyped, CallsInStep, Record
<1>2. CASE TakeHeld(s)
  <2>1. Held(s).answers[Endpoint[Group(s)]] \in Answer \ {NoAnswer}
    BY <1>0, <1>2, NextGroup DEF TakeHeld, Usable, Record
  <2>. QED BY <1>2, <1>a, <2>1 DEF TakeHeld
<1>3. ASSUME NEW key \in Keys, AskNras(s, key) PROVE TypeOK'
  <2>1. now + TokenLife \in Nat /\ now + TokenLife # -1
    BY GpuAssumption DEF TypeOK
  <2>2. [arch |-> Group(s), key |-> key, until |-> now + TokenLife]
          \in Answer \ {NoAnswer}
    BY <1>3, <2>1, NextGroup DEF AskNras, Answer, NoAnswer
  <2>. QED BY <1>3, <1>a, <2>2 DEF AskNras
<1>4. CASE NrasFails(s)
  BY <1>4, <1>b DEF NrasFails, store, TypeOK
<1>5. CASE KeysOnHand(s)
  <2>1. /\ \E set \in SUBSET Keys : \E from : Judge(s, set, from)
        /\ LooksForKeys(s) /\ UNCHANGED store
    BY <1>0, <1>5 DEF KeysOnHand, Record
  <2>. QED BY <1>0, <1>c, <2>1 DEF store, TypeOK
<1>6. CASE KeysFromDisk(s)
  BY <1>0, <1>6, <1>c, <1>d DEF KeysFromDisk, Loads, TypeOK
<1>7. CASE KeysFetched(s)
  BY <1>0, <1>7, <1>c, <1>d, <1>e DEF KeysFetched, Loads
<1>8. CASE KeysUnavailable(s)
  BY <1>8, <1>b DEF KeysUnavailable, store, TypeOK
<1>9. CASE Refresh(s)
  <2>1. /\ memory' \in [Side -> SUBSET Keys] /\ checked' \in [Side -> BOOLEAN]
        /\ disk' \in [Side -> SUBSET Keys]
    <3>1. CASE UNCHANGED store
      BY <1>0, <3>1 DEF store, TypeOK
    <3>2. CASE Remember(s, Published[edition]) /\ Save(s, Published[edition])
      BY <1>0, <1>d, <1>e, <3>2
    <3>. QED BY <1>9, <3>1, <3>2 DEF Refresh
  <2>2. CallsInStep'
    BY <1>0, <1>9 DEF Refresh, CallsInStep
  <2>. QED BY <1>0, <1>9, <2>1, <2>2 DEF Refresh, TypeOK, CallsInStep
<1>10. CASE RefreshFails(s)
  BY <1>10, <1>b DEF RefreshFails, TypeOK
<1>. QED BY <1>1, <1>2, <1>3, <1>4, <1>5, <1>6, <1>7, <1>8, <1>9, <1>10 DEF Step

LEMMA NextTypes ==
  ASSUME TypeOK, [Next]_vars
  PROVE  TypeOK'
<1>1. ASSUME NEW s \in Side, OthersFetch(s) PROVE TypeOK'
  <2>1. memory' \in [Side -> SUBSET Keys] /\ disk' \in [Side -> SUBSET Keys]
    BY <1>1, TypesOfConstants DEF OthersFetch, Remember, Save, TypeOK
  <2>. QED BY <1>1, <2>1 DEF OthersFetch, Remember, calls, TypeOK
<1>2. ASSUME NEW s \in Side, Ages(s) PROVE TypeOK'
  BY <1>2 DEF Ages, calls, TypeOK
<1>3. CASE Rotate
  <2>1. edition' \in DOMAIN Published
    BY <1>3, GpuAssumption DEF Rotate, TypeOK
  <2>. QED BY <1>3, <2>1 DEF Rotate, calls, store, TypeOK
<1>4. CASE Tick
  BY <1>4 DEF Tick, calls, store, TypeOK
<1>5. CASE UNCHANGED vars
  BY <1>5 DEF vars, calls, store, TypeOK
<1>. QED BY <1>1, <1>2, <1>3, <1>4, <1>5, StepTypes DEF Next

(* Every variable keeps its type, and a call looks for keys exactly when it *)
(* has an answer about every group of the bundle (verify.rs:33-48).         *)
THEOREM TypeCorrect == Spec => []TypeOK
<1>1. TypeOK /\ [Next]_vars => TypeOK'
  BY NextTypes
<1>. QED BY InitTypes, <1>1, PTL DEF Spec

----------------------------------------------------------------------------
(* What a step does to the answers *)

(* The call s takes the answer a, from what came attached or from NRAS. *)
Takes(s, a) ==
  /\ pc[s] = "asking" /\ Took(s, a)
  /\ UNCHANGED <<now, at, attached, outcome>>
  /\ \/ /\ a = Held(s).answers[Endpoint[Group(s)]]
        /\ ~Expired(a, at[s])
     \/ /\ a.arch = Group(s)
        /\ a.until = now + TokenLife

(* No answer comes or goes; what the attester recorded may be attached.    *)
KeepsAnswers ==
  /\ UNCHANGED <<at, answers>> /\ now' \in {now, now + 1}
  /\ recorded'.answers = recorded.answers
  /\ attached'.answers \in {attached.answers, recorded.answers}

(* The verifier has looked at the keys its answers name, and concludes. *)
Concludes ==
  \E set \in SUBSET Keys :
    /\ LooksForKeys("verifier") /\ Known("verifier", set)
    /\ pc'["verifier"] = "idle"
    /\ outcome' = IF Genuine("verifier", set) THEN "verdict" ELSE "invalid"

(* There is no new outcome, or one that says nothing of the evidence. *)
SaysNothing ==
  \/ outcome' = outcome /\ pc'["verifier"] = pc["verifier"]
  \/ outcome' = outcome /\ outcome \notin {"verdict", "invalid"}
  \/ outcome' = outcome /\ pc["verifier"] # "idle"
  \/ outcome' \notin {"verdict", "invalid"}

LEMMA JudgeKeeps ==
  ASSUME TypeOK, NEW s \in Side, NEW set \in SUBSET Keys, NEW from,
         LooksForKeys(s), Judge(s, set, from)
  PROVE  KeepsAnswers /\ (Concludes \/ SaysNothing)
<1>1. UNCHANGED <<now, at, answers>> /\ recorded'.answers = recorded.answers
  BY DEF Judge, TypeOK
<1>2. pc["verifier"] # "idle" \/ s # "verifier"
  BY DEF LooksForKeys
<1>3. CASE Known(s, set) /\ Conclude(s, set)
  <2>1. attached'.answers \in {attached.answers, recorded.answers}
    BY <1>3 DEF Conclude, TypeOK
  <2>2. CASE s = "verifier"
    <3>. /\ pc'["verifier"] = "idle"
         /\ outcome' = IF Genuine("verifier", set) THEN "verdict" ELSE "invalid"
      BY <1>3, <2>2 DEF Conclude, TypeOK
    <3>. QED BY <1>1, <1>3, <2>1, <2>2 DEF KeepsAnswers, Concludes
  <2>3. CASE s # "verifier"
    <3>. outcome' = outcome /\ pc'["verifier"] = pc["verifier"]
      BY <1>3, <2>3 DEF Conclude, TypeOK, Side
    <3>. QED BY <1>1, <2>1 DEF KeepsAnswers, SaysNothing
  <2>. QED BY <2>2, <2>3
<1>4. ASSUME NEW why \in {"refused", "unpublished"}, GiveUp(s, why)
      PROVE  KeepsAnswers /\ SaysNothing
  <2>1. attached'.answers \in {attached.answers, recorded.answers}
    BY <1>4 DEF GiveUp, TypeOK
  <2>2. SaysNothing
    <3>1. CASE s = "attester"
      <4>. outcome' = outcome /\ pc'["verifier"] = pc["verifier"]
        BY <1>4, <3>1 DEF GiveUp, TypeOK, Side
      <4>. QED BY DEF SaysNothing
    <3>2. CASE s # "attester"
      BY <1>4, <3>2 DEF GiveUp, SaysNothing
    <3>. QED BY <3>1, <3>2
  <2>. QED BY <1>1, <2>1, <2>2 DEF KeepsAnswers
<1>5. CASE pc' = [pc EXCEPT ![s] = "refresh"] /\ UNCHANGED <<attached, outcome>>
  <2>1. SaysNothing
    BY <1>2, <1>5 DEF SaysNothing, TypeOK
  <2>. QED BY <1>1, <1>5, <2>1 DEF KeepsAnswers
<1>. QED BY <1>3, <1>4, <1>5 DEF Judge

(* Every step begins a call, brings it an answer, or keeps the answers. *)
LEMMA AnswersInSteps ==
  ASSUME TypeOK, [Next]_vars
  PROVE  \/ \E s \in Side : Begin(s)
         \/ \E s \in Side, a \in Answer \ {NoAnswer} : Takes(s, a)
         \/ KeepsAnswers /\ (Concludes \/ SaysNothing)
<1>0. /\ Published[edition] \in SUBSET Keys
      /\ memory \in [Side -> SUBSET Keys] /\ disk \in [Side -> SUBSET Keys]
  BY TypesOfConstants DEF TypeOK
<1>1. ASSUME NEW s \in Side, TakeHeld(s)
      PROVE  \E a \in Answer \ {NoAnswer} : Takes(s, a)
  <2>1. Held(s).answers[Endpoint[Group(s)]] \in Answer \ {NoAnswer}
    <3>1. Held(s) \in Record
      BY TypesOfConstants DEF TypeOK, Record, Held
    <3>. QED BY <1>1, <3>1, NextGroup DEF TakeHeld, Usable, Record
  <2>. QED BY <1>1, <2>1 DEF TakeHeld, Takes, Usable
<1>2. ASSUME NEW s \in Side, NEW key \in Keys, AskNras(s, key)
      PROVE  \E a \in Answer \ {NoAnswer} : Takes(s, a)
  <2>1. now + TokenLife \in Nat /\ now + TokenLife # -1
    BY GpuAssumption DEF TypeOK
  <2>2. [arch |-> Group(s), key |-> key, until |-> now + TokenLife]
          \in Answer \ {NoAnswer}
    BY <1>2, <2>1, NextGroup DEF AskNras, Answer, NoAnswer
  <2>. QED BY <1>2, <2>2 DEF AskNras, Takes
<1>3. ASSUME NEW s \in Side, NEW why \in {"unavailable"}, GiveUp(s, why),
             UNCHANGED <<now, at, answers, recorded>>
      PROVE  KeepsAnswers /\ SaysNothing
  <2>1. attached'.answers \in {attached.answers, recorded.answers}
    BY <1>3 DEF GiveUp, TypeOK
  <2>2. SaysNothing
    <3>1. CASE s = "attester"
      <4>. outcome' = outcome /\ pc'["verifier"] = pc["verifier"]
        BY <1>3, <3>1 DEF GiveUp, TypeOK, Side
      <4>. QED BY DEF SaysNothing
    <3>2. CASE s # "attester"
      BY <1>3, <3>2 DEF GiveUp, SaysNothing
    <3>. QED BY <3>1, <3>2
  <2>. QED BY <1>3, <2>1, <2>2 DEF KeepsAnswers
<1>4. ASSUME NEW s \in Side, NrasFails(s) \/ KeysUnavailable(s) \/ RefreshFails(s)
      PROVE  KeepsAnswers /\ SaysNothing
  BY <1>3, <1>4 DEF NrasFails, KeysUnavailable, RefreshFails
<1>5. ASSUME NEW s \in Side, KeysOnHand(s) \/ KeysFromDisk(s) \/ KeysFetched(s)
      PROVE  KeepsAnswers /\ (Concludes \/ SaysNothing)
  <2>1. Held(s).keys \in SUBSET Keys
    BY DEF TypeOK, Held, Nothing
  <2>2. LooksForKeys(s) /\ \E set \in SUBSET Keys : \E from : Judge(s, set, from)
    BY <1>0, <1>5, <2>1 DEF KeysOnHand, KeysFromDisk, KeysFetched, Loads
  <2>. QED BY <2>2, JudgeKeeps
<1>6. ASSUME NEW s \in Side, Refresh(s) PROVE KeepsAnswers /\ SaysNothing
  BY <1>6 DEF Refresh, KeepsAnswers, SaysNothing, TypeOK
<1>7. ASSUME NEW s \in Side, OthersFetch(s) \/ Ages(s)
      PROVE  KeepsAnswers /\ SaysNothing
  BY <1>7 DEF OthersFetch, Ages, calls, KeepsAnswers, SaysNothing
<1>8. CASE Rotate \/ Tick \/ UNCHANGED vars
  BY <1>8 DEF Rotate, Tick, vars, calls, KeepsAnswers, SaysNothing
<1>. QED BY <1>1, <1>2, <1>4, <1>5, <1>6, <1>7, <1>8 DEF Next, Step

----------------------------------------------------------------------------
(* Answers fit their groups *)

(* What is recorded and attached under the name of an endpoint is from it. *)
Filed(record) ==
  \A e \in Endpoints :
    record.answers[e] # NoAnswer => Endpoint[record.answers[e].arch] = e

FitsGroups(s) ==
  \A i \in DOMAIN answers[s] : Endpoint[answers[s][i].arch] = Endpoint[Groups[i]]

FitInv ==
  /\ Filed(recorded) /\ Filed(attached)
  /\ \A s \in Side : FitsGroups(s)

LEMMA InitFit == Init => FitInv
  BY DEF Init, FitInv, Filed, FitsGroups, Nothing

LEMMA NextFit ==
  ASSUME TypeOK, FitInv, [Next]_vars
  PROVE  FitInv'
<1>1. ASSUME NEW s \in Side, Begin(s) PROVE FitInv'
  <2>1. UNCHANGED <<recorded, attached>> /\ answers' = [answers EXCEPT ![s] = <<>>]
    BY <1>1 DEF Begin
  <2>2. ASSUME NEW o \in Side PROVE FitsGroups(o)'
    BY <2>1 DEF FitInv, FitsGroups, TypeOK
  <2>. QED BY <2>1, <2>2 DEF FitInv, Filed
<1>2. ASSUME NEW s \in Side, NEW a \in Answer \ {NoAnswer}, Takes(s, a)
      PROVE  FitInv'
  <2>0. /\ Endpoint[Group(s)] \in Endpoints /\ pc[s] = "asking"
        /\ Len(answers[s]) \in Nat /\ answers[s] \in Seq(Answer \ {NoAnswer})
        /\ Group(s) = Groups[Len(answers[s]) + 1]
    BY <1>2, NextGroup DEF Takes, Group
  <2>1. Endpoint[a.arch] = Endpoint[Group(s)]
    <3>1. CASE a = Held(s).answers[Endpoint[Group(s)]]
      BY <2>0, <3>1 DEF Held, Nothing, FitInv, Filed
    <3>. QED BY <1>2, <3>1 DEF Takes
  <2>2. Filed(recorded)'
    <3>1. \/ recorded' = recorded
          \/ recorded' = [recorded EXCEPT !.answers[Endpoint[Group(s)]] = a]
      BY <1>2 DEF Takes, Took
    <3>. QED BY <2>0, <2>1, <3>1 DEF FitInv, Filed, TypeOK
  <2>3. Filed(attached)'
    BY <1>2 DEF Takes, FitInv, Filed
  <2>4. answers' = [answers EXCEPT ![s] = Append(answers[s], a)]
    BY <1>2 DEF Takes, Took
  <2>5. FitsGroups(s)'
    <3>1. answers'[s] = Append(answers[s], a)
      BY <2>4 DEF TypeOK
    <3>2. ASSUME NEW i \in DOMAIN answers'[s]
          PROVE  Endpoint[answers'[s][i].arch] = Endpoint[Groups[i]]
      <4>1. CASE i = Len(answers[s]) + 1
        BY <2>0, <2>1, <3>1, <4>1
      <4>2. CASE i # Len(answers[s]) + 1
        <5>1. i \in DOMAIN answers[s] /\ answers'[s][i] = answers[s][i]
          BY <2>0, <3>1, <4>2
        <5>. QED BY <5>1 DEF FitInv, FitsGroups
      <4>. QED BY <4>1, <4>2
    <3>. QED BY <3>2 DEF FitsGroups
  <2>6. ASSUME NEW o \in Side, o # s PROVE FitsGroups(o)'
    <3>1. answers'[o] = answers[o]
      BY <2>4, <2>6 DEF TypeOK
    <3>. QED BY <3>1 DEF FitInv, FitsGroups
  <2>. QED BY <2>2, <2>3, <2>5, <2>6 DEF FitInv
<1>3. CASE KeepsAnswers
  BY <1>3 DEF KeepsAnswers, FitInv, Filed, FitsGroups
<1>. QED BY <1>1, <1>2, <1>3, AnswersInSteps

----------------------------------------------------------------------------
(* Genuine evidence is never found invalid *)

(* A call is done asking NRAS before tokens issued to it would be from the *)
(* future at the time the call takes for its own (verify.rs:33 is given    *)
(* `now` once; the HTTP client's timeouts bound the time a call takes).    *)
Prompt == \A s \in Side : pc[s] = "asking" => now - at[s] <= Backdated

Fresh(s) == \A i \in DOMAIN answers[s] : ~Expired(answers[s][i], at[s])

FreshInv ==
  /\ \A s \in Side : at[s] <= now /\ Fresh(s)
  /\ outcome # "invalid"

LEMMA InitFresh == Init => FreshInv
  BY DEF Init, FreshInv, Fresh

LEMMA NextFresh ==
  ASSUME TypeOK, FitInv, FreshInv, Prompt, [Next]_vars
  PROVE  FreshInv'
<1>0. now \in Nat /\ at \in [Side -> Nat] /\ TokenLife \in Nat /\ Backdated \in Nat
  BY GpuAssumption DEF TypeOK
<1>1. ASSUME NEW s \in Side, Begin(s) PROVE FreshInv'
  <2>1. /\ at' = [at EXCEPT ![s] = now] /\ answers' = [answers EXCEPT ![s] = <<>>]
        /\ now' = now /\ outcome' \in {outcome, "none"}
    BY <1>1 DEF Begin
  <2>2. ASSUME NEW o \in Side PROVE at'[o] <= now' /\ Fresh(o)'
    <3>1. CASE o = s
      <4>1. answers'[s] = <<>> /\ at'[s] = now
        BY <2>1 DEF TypeOK
      <4>. QED BY <1>0, <2>1, <3>1, <4>1 DEF Fresh
    <3>2. CASE o # s
      <4>1. answers'[o] = answers[o] /\ at'[o] = at[o]
        BY <2>1, <3>2 DEF TypeOK
      <4>. QED BY <2>1, <4>1 DEF Fresh, FreshInv
    <3>. QED BY <3>1, <3>2
  <2>. QED BY <2>1, <2>2 DEF FreshInv
<1>2. ASSUME NEW s \in Side, NEW a \in Answer \ {NoAnswer}, Takes(s, a)
      PROVE  FreshInv'
  <2>0. /\ Len(answers[s]) \in Nat /\ answers[s] \in Seq(Answer \ {NoAnswer})
        /\ UNCHANGED <<now, at, outcome>> /\ pc[s] = "asking"
        /\ answers' = [answers EXCEPT ![s] = Append(answers[s], a)]
    BY <1>2, NextGroup DEF Takes, Took
  <2>1. ~Expired(a, at[s])
    <3>1. CASE a.until = now + TokenLife
      <4>1. at[s] <= now /\ now - at[s] <= Backdated /\ at[s] \in Nat
        BY <1>0, <2>0 DEF FreshInv, Prompt
      <4>. QED BY <1>0, <3>1, <4>1 DEF Expired
    <3>. QED BY <1>2, <3>1 DEF Takes
  <2>2. Fresh(s)'
    <3>1. answers'[s] = Append(answers[s], a) /\ at'[s] = at[s]
      BY <2>0 DEF TypeOK
    <3>2. ASSUME NEW i \in DOMAIN answers'[s]
          PROVE  ~Expired(answers'[s][i], at[s])
      <4>1. CASE i = Len(answers[s]) + 1
        BY <2>0, <2>1, <3>1, <4>1
      <4>2. CASE i # Len(answers[s]) + 1
        <5>1. i \in DOMAIN answers[s] /\ answers'[s][i] = answers[s][i]
          BY <2>0, <3>1, <4>2
        <5>. QED BY <5>1 DEF FreshInv, Fresh
      <4>. QED BY <4>1, <4>2
    <3>. QED BY <3>1, <3>2 DEF Fresh, Expired
  <2>3. ASSUME NEW o \in Side, o # s PROVE Fresh(o)'
    <3>1. answers'[o] = answers[o] /\ at'[o] = at[o]
      BY <2>0, <2>3 DEF TypeOK
    <3>. QED BY <3>1 DEF FreshInv, Fresh, Expired
  <2>. QED BY <2>0, <2>2, <2>3 DEF FreshInv
<1>3. CASE KeepsAnswers /\ (Concludes \/ SaysNothing)
  <2>1. ASSUME NEW s \in Side PROVE at'[s] <= now' /\ Fresh(s)'
    <3>1. answers'[s] = answers[s] /\ at'[s] = at[s] /\ now' \in {now, now + 1}
      BY <1>3 DEF KeepsAnswers
    <3>2. at[s] <= now /\ Fresh(s)
      BY DEF FreshInv
    <3>3. at'[s] <= now'
      BY <1>0, <3>1, <3>2
    <3>. QED BY <3>1, <3>2, <3>3 DEF Fresh, Expired
  <2>2. outcome' # "invalid"
    <3>1. CASE SaysNothing
      BY <3>1 DEF SaysNothing, FreshInv
    <3>2. ASSUME NEW set \in SUBSET Keys, Known("verifier", set)
          PROVE  Genuine("verifier", set)
      <4>1. ASSUME NEW i \in DOMAIN answers["verifier"]
            PROVE  /\ answers["verifier"][i].key \in set
                   /\ ~Expired(answers["verifier"][i], at["verifier"])
                   /\ Endpoint[answers["verifier"][i].arch] = Endpoint[Groups[i]]
        <5>1. "verifier" \in Side
          BY DEF Side
        <5>2. answers["verifier"][i].key \in set
          BY <3>2 DEF Known, KeysNamed
        <5>. QED BY <5>1, <5>2 DEF FreshInv, Fresh, FitInv, FitsGroups
      <4>. QED BY <4>1 DEF Genuine
    <3>3. CASE Concludes
      BY <3>2, <3>3 DEF Concludes
    <3>. QED BY <1>3, <3>1, <3>3
  <2>. QED BY <2>1, <2>2 DEF FreshInv
<1>. QED BY <1>1, <1>2, <1>3, AnswersInSteps

(* Evidence with what attach_collateral attached is never found invalid,   *)
(* whatever is published, retired or held where, if no call is still       *)
(* asking NRAS when more time has passed than NRAS backdates its tokens by *)
(* (verify.rs:68, verify.rs:89).                                           *)
THEOREM GenuineIsNotInvalid == Spec /\ []Prompt => []GenuineNeverInvalid
<1>1. TypeOK /\ FitInv /\ [Next]_vars => FitInv'
  BY NextFit
<1>2. TypeOK /\ FitInv /\ FreshInv /\ Prompt /\ [Next]_vars => FreshInv'
  BY NextFresh
<1>3. FreshInv => GenuineNeverInvalid
  BY DEF FreshInv, GenuineNeverInvalid
<1>. QED BY <1>1, <1>2, <1>3, InitFit, InitFresh, TypeCorrect, PTL DEF Spec

----------------------------------------------------------------------------
(* A verdict reports the bundle *)

(* Once there is a verdict, there is an answer for each group, until the   *)
(* verifier begins anew.                                                   *)
VerdictInv ==
  outcome = "verdict" =>
    pc["verifier"] = "idle" /\ Len(answers["verifier"]) = Len(Groups)

LEMMA NextVerdict ==
  ASSUME TypeOK, VerdictInv, [Next]_vars
  PROVE  VerdictInv'
<1>0. "verifier" \in Side /\ pc \in [Side -> {"idle", "asking", "keys", "refresh",
                                            "again", "done"}]
  BY DEF TypeOK, Side
<1>1. ASSUME NEW s \in Side, Begin(s) PROVE VerdictInv'
  <2>1. CASE s = "verifier"
    BY <1>1, <2>1 DEF Begin, VerdictInv
  <2>2. CASE s # "verifier"
    BY <1>0, <1>1, <2>2 DEF Begin, VerdictInv, TypeOK
  <2>. QED BY <2>1, <2>2
<1>2. ASSUME NEW s \in Side, NEW a \in Answer \ {NoAnswer}, Takes(s, a)
      PROVE  VerdictInv'
  <2>1. CASE s = "verifier"
    BY <1>2, <2>1 DEF Takes, VerdictInv
  <2>2. CASE s # "verifier"
    <3>1. /\ answers'["verifier"] = answers["verifier"]
          /\ pc'["verifier"] = pc["verifier"] /\ outcome' = outcome
      BY <1>0, <1>2, <2>2 DEF Takes, Took, TypeOK
    <3>. QED BY <3>1 DEF VerdictInv
  <2>. QED BY <2>1, <2>2
<1>3. CASE KeepsAnswers /\ Concludes
  BY <1>0, <1>3 DEF KeepsAnswers, Concludes, LooksForKeys, VerdictInv, TypeOK
<1>4. CASE KeepsAnswers /\ SaysNothing
  BY <1>4 DEF KeepsAnswers, SaysNothing, VerdictInv
<1>. QED BY <1>1, <1>2, <1>3, <1>4, AnswersInSteps

(* Each architecture is the one of a single answer. *)
LEMMA OneAnswerEach ==
  ASSUME TypeOK, FitInv, VerdictInv,
         \A a, b \in Arch : Endpoint[a] = Endpoint[b] => a = b
  PROVE  ReportsTheBundle
<1>. SUFFICES ASSUME outcome = "verdict", NEW b \in Arch
              PROVE  Reported(b) = Bundle[b]
  BY DEF ReportsTheBundle
<1>1. /\ answers["verifier"] \in Seq(Answer \ {NoAnswer})
      /\ DOMAIN answers["verifier"] = DOMAIN Groups
  BY TypesOfConstants DEF VerdictInv, TypeOK, Side
<1>2. ASSUME NEW i \in DOMAIN Groups
      PROVE  answers["verifier"][i].arch = Groups[i]
  <2>1. answers["verifier"][i].arch \in Arch
    BY <1>1, <1>2 DEF Answer
  <2>2. Endpoint[answers["verifier"][i].arch] = Endpoint[Groups[i]]
    BY <1>1, <1>2 DEF FitInv, FitsGroups, Side
  <2>. QED BY <2>1, <2>2, TypesOfConstants
<1>3. PICK k \in DOMAIN Groups : Groups[k] = b
  BY DEF Arch
<1>4. {i \in DOMAIN answers["verifier"] : answers["verifier"][i].arch = b} = {k}
  BY <1>1, <1>2, <1>3, GpuAssumption
<1>5. Cardinality({k}) = 1
  BY FS_Singleton
<1>6. Bundle[b] \in Nat
  BY GpuAssumption
<1>7. Bundle[b] * 1 = Bundle[b]
  BY <1>6
<1>. QED BY <1>4, <1>5, <1>7 DEF Reported

(* A verdict reports each device of the bundle once, if the architectures  *)
(* of the bundle are answered for by different endpoints: a bundle of      *)
(* Hopper and Blackwell GPUs is not such a one (verify.rs:124).            *)
THEOREM VerdictReportsTheBundle ==
  ASSUME \A a, b \in Arch : Endpoint[a] = Endpoint[b] => a = b
  PROVE  Spec => []ReportsTheBundle
<1>1. TypeOK /\ FitInv /\ [Next]_vars => FitInv'
  BY NextFit
<1>2. Init => VerdictInv
  BY DEF Init, VerdictInv
<1>3. TypeOK /\ VerdictInv /\ [Next]_vars => VerdictInv'
  BY NextVerdict
<1>4. TypeOK /\ FitInv /\ VerdictInv => ReportsTheBundle
  BY OneAnswerEach
<1>. QED BY <1>1, <1>2, <1>3, <1>4, InitFit, TypeCorrect, PTL DEF Spec

=============================================================================
