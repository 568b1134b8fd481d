-------------------------- MODULE VendorHostProofs --------------------------
(***************************************************************************)
(* What holds of the fetches from a vendor host for any number of calls    *)
(* and any waits: their types, the bound on a pause, that no call turns to *)
(* the vendors once the host's cache is found, and the bound on the cold   *)
(* fetches admitted in any second.                                         *)
(***************************************************************************)
EXTENDS VendorHost, TLAPS

----------------------------------------------------------------------------
(* Durations *)

LEMMA ScaledDurations ==
  ASSUME NEW n \in Nat, NEW m \in Nat, n <= m
  PROVE  /\ n * Second \in Nat
         /\ n * Second <= m * Second
  BY HostAssumption

LEMMA AnswerWaits ==
  ASSUME NEW a \in Answers
  PROVE  a.retry_after \in Nat \cup {NoRetryAfter}
<1>1. CASE a \in [kind : {"gone", "busy", "error", "denied"},
                  retry_after : RetryAfters \cup {NoRetryAfter}]
  <2>1. a.retry_after \in RetryAfters \cup {NoRetryAfter}
    BY <1>1
  <2>. QED BY <2>1, HostAssumption
<1>2. CASE a = [kind |-> "down", retry_after |-> NoRetryAfter]
  BY <1>2
<1>. QED BY <1>1, <1>2 DEF Answers

LEMMA PauseBounds ==
  ASSUME NEW a \in Answers
  PROVE  Pause(a) \in Nat /\ Pause(a) <= Recheck * Second
<1> DEFINE pause == IF a.retry_after = NoRetryAfter THEN HostPause
                    ELSE IF a.retry_after = 0 THEN 1 ELSE a.retry_after
<1>1. pause \in Nat
  BY AnswerWaits, HostAssumption
<1>2. Pause(a) = (IF pause < Recheck THEN pause ELSE Recheck) * Second
  BY DEF Pause
<1>3. CASE pause < Recheck
  BY <1>1, <1>2, <1>3, ScaledDurations, HostAssumption
<1>4. CASE ~(pause < Recheck)
  BY <1>2, <1>4, ScaledDurations, HostAssumption
<1>. QED BY <1>3, <1>4

----------------------------------------------------------------------------
(* Type correctness *)

LEMMA InitTypes == Init => TypeOK
<1> SUFFICES ASSUME Init PROVE TypeOK
  OBVIOUS
<1>1. admitted \in [{Never} \cup Ticks -> Nat] /\ wake \in [Call -> Nat]
  BY DEF Init
<1>2. cold \in 0 .. PerSecond
  BY HostAssumption DEF Init
<1>. QED BY <1>1, <1>2 DEF Init, TypeOK

LEMMA NextTypes ==
  ASSUME TypeOK, [Next]_vars
  PROVE  TypeOK'
<1>. USE DEF hosts, discovery, Goes, Ends, Asks
<1>1. ASSUME NEW c \in Call, Begin(c) PROVE TypeOK'
  BY <1>1 DEF Begin, TypeOK
<1>2. ASSUME NEW c \in Call, AdmitCold(c) PROVE TypeOK'
  <2>1. admitted' \in [{Never} \cup Ticks -> Nat]
    BY <1>2 DEF AdmitCold, TypeOK
  <2>. QED BY <1>2, <2>1, HostAssumption DEF AdmitCold, Full, TypeOK
<1>3. ASSUME NEW c \in Call, ChooseUpstream(c) PROVE TypeOK'
  BY <1>3, HostAssumption DEF ChooseUpstream, TypeOK
<1>4. ASSUME NEW c \in Call, TakeLock(c) PROVE TypeOK'
  BY <1>4 DEF TakeLock, TypeOK
<1>5. ASSUME NEW c \in Call, Probe(c) PROVE TypeOK'
  BY <1>5 DEF Probe, TypeOK
<1>6. ASSUME NEW c \in Call, Served(c) \/ Wake(c) \/ Drop(c) PROVE TypeOK'
  BY <1>6 DEF Served, Wake, Drop, TypeOK
<1>7. ASSUME NEW c \in Call, Retry(c) PROVE TypeOK'
  <2>1. PICK a \in Answers :
          /\ pc' = [pc EXCEPT ![c] = "sleeping"]
          /\ wake' = [wake EXCEPT ![c] =
                        IF a.retry_after = NoRetryAfter
                        THEN now ELSE now + a.retry_after * Second]
          /\ UNCHANGED <<now, hosts, discovery, via, admitted>>
    BY <1>7 DEF Retry
  <2>2. a.retry_after # NoRetryAfter => a.retry_after * Second \in Nat
    BY AnswerWaits, ScaledDurations
  <2>4. wake' \in [Call -> Nat]
    BY <2>1, <2>2 DEF TypeOK
  <2>. QED BY <2>1, <2>4 DEF TypeOK
<1>8. ASSUME NEW c \in Call, Fail(c) PROVE TypeOK'
  <2>1. PICK a \in Answers :
          /\ Ends(c)
          /\ paused' = IF via[c] = "vendors" /\ a.kind = "busy"
                       THEN now + Pause(a) ELSE paused
          /\ UNCHANGED <<now, second, cold, discovery, wake, admitted>>
    BY <1>8 DEF Fail
  <2>2. paused' \in Nat \cup {Never}
    BY <2>1, PauseBounds DEF TypeOK
  <2>. QED BY <2>1, <2>2 DEF TypeOK
<1>9. CASE Tick
  BY <1>9 DEF Tick, TypeOK
<1>10. CASE UNCHANGED vars
  BY <1>10 DEF vars, TypeOK
<1>. QED
  BY <1>1, <1>2, <1>3, <1>4, <1>5, <1>6, <1>7, <1>8, <1>9, <1>10 DEF Next, Step

(* Every variable of VendorHost keeps its type: the budget is never        *)
(* exceeded within its second, and only a call holds the probe's lock.     *)
THEOREM TypeCorrect == Spec => []TypeOK
<1>1. TypeOK /\ [Next]_vars => TypeOK'
  BY NextTypes
<1>. QED BY InitTypes, <1>1, PTL DEF Spec

----------------------------------------------------------------------------
(* The pause *)

(* No answer of a vendor, whatever its Retry-After, makes the store leave  *)
(* its host alone for longer than recheck.                                 *)
THEOREM PausesAreBounded == Spec => []PauseIsBounded
<1>1. Init => PauseIsBounded
  BY DEF Init, PauseIsBounded
<1>2. TypeOK /\ PauseIsBounded /\ [Next]_vars => PauseIsBounded'
  <2> SUFFICES ASSUME TypeOK, PauseIsBounded, [Next]_vars
               PROVE  PauseIsBounded'
    OBVIOUS
  <2>0. Recheck * Second \in Nat /\ now \in Nat /\ paused \in Nat \cup {Never}
    BY ScaledDurations, HostAssumption DEF TypeOK
  <2>1. ASSUME NEW c \in Call, Fail(c) PROVE PauseIsBounded'
    <3>1. PICK a \in Answers :
            /\ paused' = IF via[c] = "vendors" /\ a.kind = "busy"
                         THEN now + Pause(a) ELSE paused
            /\ now' = now
      BY <2>1 DEF Fail
    <3>. QED BY <2>0, <3>1, PauseBounds DEF PauseIsBounded
  <2>2. CASE Tick
    BY <2>0, <2>2 DEF Tick, hosts, PauseIsBounded, Never
  <2>3. CASE paused' = paused /\ now' = now
    BY <2>3 DEF PauseIsBounded
  <2>4. ASSUME NEW c \in Call,
               \/ Begin(c) \/ Drop(c) \/ AdmitCold(c) \/ ChooseUpstream(c)
               \/ TakeLock(c) \/ Probe(c) \/ Served(c) \/ Retry(c) \/ Wake(c)
        PROVE  paused' = paused /\ now' = now
    BY <2>4 DEF Begin, Drop, AdmitCold, ChooseUpstream, TakeLock, Probe, Served,
                Retry, Wake, hosts
  <2>. QED BY <2>1, <2>2, <2>3, <2>4 DEF Next, Step, vars, hosts
<1>. QED BY TypeCorrect, <1>1, <1>2, PTL DEF Spec

----------------------------------------------------------------------------
(* The host's cache, once found *)

(* A probe is under way only while nothing is found, by the one call that  *)
(* has the lock; without discovery nothing is ever probed.                 *)
ProbeInv ==
  /\ \A c \in Call : pc[c] = "probing" => prober = c /\ ~found
  /\ \A c \in Call : pc[c] \in {"locking", "probing"} => Setting = "auto"
  /\ found => Setting = "auto"

LEMMA NextProbeInv ==
  ASSUME TypeOK, ProbeInv, [Next]_vars
  PROVE  ProbeInv'
<1>. USE DEF hosts, discovery, Goes, Ends, Asks
<1>1. ASSUME NEW c \in Call, ChooseUpstream(c) PROVE ProbeInv'
  BY <1>1 DEF ChooseUpstream, Known, TypeOK, ProbeInv
<1>2. ASSUME NEW c \in Call, TakeLock(c) PROVE ProbeInv'
  BY <1>2, HostAssumption DEF TakeLock, TypeOK, ProbeInv
<1>3. ASSUME NEW c \in Call, Probe(c) PROVE ProbeInv'
  BY <1>3 DEF Probe, TypeOK, ProbeInv
<1>4. ASSUME NEW c \in Call, Drop(c) PROVE ProbeInv'
  BY <1>4 DEF Drop, TypeOK, ProbeInv
<1>5. ASSUME NEW c \in Call,
             \/ Begin(c) \/ AdmitCold(c) \/ Served(c) \/ Retry(c) \/ Wake(c)
             \/ Fail(c)
      PROVE  ProbeInv'
  <2>1. \/ pc' = pc
        \/ \E stage \in {"idle", "upstream", "admit", "sleeping", "second"} :
             pc' = [pc EXCEPT ![c] = stage]
    BY <1>5 DEF Begin, AdmitCold, Served, Retry, Wake, Fail
  <2>2. UNCHANGED discovery
    BY <1>5 DEF Begin, AdmitCold, Served, Retry, Wake, Fail
  <2>. QED BY <2>1, <2>2 DEF TypeOK, ProbeInv
<1>6. CASE Tick \/ UNCHANGED vars
  BY <1>6 DEF Tick, vars, ProbeInv
<1>. QED BY <1>1, <1>2, <1>3, <1>4, <1>5, <1>6 DEF Next, Step

(* A call turns to the vendors only while no probe, its own or another's,  *)
(* has found the cache of the host.                                        *)
THEOREM FoundIsForGood == Spec => NeverBackToVendors
<1>1. Init => ProbeInv
  BY HostAssumption DEF Init, ProbeInv
<1>2. TypeOK /\ ProbeInv /\ [Next]_vars => ProbeInv'
  BY NextProbeInv
<1>3. TypeOK /\ ProbeInv /\ [Next]_vars
      => [\A c \in Call : via[c] = "none" /\ via'[c] = "vendors" => ~found]_vars
  <2> SUFFICES ASSUME TypeOK, ProbeInv, [Next]_vars,
                      NEW d \in Call, via[d] = "none", via'[d] = "vendors"
               PROVE  ~found
    OBVIOUS
  <2>1. ASSUME NEW c \in Call, ChooseUpstream(c) \/ TakeLock(c) \/ Probe(c)
        PROVE  ~found
    BY <2>1 DEF ChooseUpstream, Known, TakeLock, Probe, Goes, Asks, TypeOK, ProbeInv
  <2>2. ASSUME NEW c \in Call,
               \/ Begin(c) \/ Drop(c) \/ AdmitCold(c) \/ Served(c) \/ Retry(c)
               \/ Wake(c) \/ Fail(c)
        PROVE  FALSE
    <3>1. via' = via \/ via' = [via EXCEPT ![c] = "none"]
      BY <2>2 DEF Begin, Drop, AdmitCold, Served, Retry, Wake, Fail, Ends
    <3>. QED BY <3>1 DEF TypeOK
  <2>3. CASE Tick \/ UNCHANGED vars
    BY <2>3 DEF Tick, vars
  <2>. QED BY <2>1, <2>2, <2>3 DEF Next, Step
<1>. QED BY TypeCorrect, <1>1, <1>2, <1>3, PTL DEF Spec, NeverBackToVendors


----------------------------------------------------------------------------
(* The budget *)

(* Sleeps that begin by LastTick end within Ticks, and so does time. *)
LastOfTicks == LastTick + MaxRetryAfter * Second

TimeInv ==
  /\ now <= LastOfTicks
  /\ \A c \in Call : wake[c] <= LastOfTicks

Between(before, last) == admitted[last] - admitted[before]

(* The second of the budget began with a fetch and has seen `cold` of them; *)
(* no fetch was admitted after it ended, and at most PerSecond in as long a *)
(* time before it began.                                                    *)
NoneYet == second = Never => \A tick \in Ticks : admitted[tick] = 0

CountedSince ==
  second # Never =>
    /\ second <= now
    /\ Between(second - 1, now) = cold
    /\ \A tick \in Ticks : second + Second <= tick =>
         admitted[tick] = admitted[second + Second - 1]

FewBefore ==
  second # Never =>
    \A before \in {Never} \cup Ticks :
      second - Second <= before /\ before < second =>
        Between(before, second - 1) <= PerSecond

NeverFewer ==
  /\ admitted[Never] = 0
  /\ \A tick, later \in {Never} \cup Ticks :
       tick <= later => admitted[tick] <= admitted[later]
  /\ \A tick \in Ticks : now <= tick => admitted[tick] = admitted[now]

BudgetInv ==
  NoneYet /\ CountedSince /\ FewBefore /\ NeverFewer /\ FewColdInAnySecond


LEMMA TicksAreInts ==
  /\ LastOfTicks \in Nat /\ Ticks = 0 .. LastOfTicks
  /\ {Never} \cup Ticks \subseteq Int /\ Ticks \subseteq Nat /\ Never \notin Ticks
<1>1. MaxRetryAfter * Second \in Nat
  BY ScaledDurations, HostAssumption
<1>. QED BY <1>1, HostAssumption DEF LastOfTicks, Ticks, Never

LEMMA NextTimeInv ==
  ASSUME TypeOK, TimeInv, [Next]_vars
  PROVE  TimeInv'
<1>. USE DEF hosts, discovery, Goes, Ends, Asks
<1>0. /\ LastOfTicks \in Nat /\ MaxRetryAfter * Second \in Nat
      /\ LastOfTicks = LastTick + MaxRetryAfter * Second /\ LastTick \in Nat
      /\ now \in Nat /\ wake \in [Call -> Nat]
  BY TicksAreInts, ScaledDurations, HostAssumption DEF LastOfTicks, TypeOK
<1>1. ASSUME NEW c \in Call, Retry(c) PROVE TimeInv'
  <2>1. PICK a \in Answers :
          /\ Retried(a) /\ now <= LastTick /\ now' = now
          /\ wake' = [wake EXCEPT ![c] =
                        IF a.retry_after = NoRetryAfter
                        THEN now ELSE now + a.retry_after * Second]
    BY <1>1 DEF Retry
  <2>2. a.retry_after # NoRetryAfter =>
          /\ a.retry_after * Second \in Nat
          /\ a.retry_after * Second <= MaxRetryAfter * Second
    BY <2>1, AnswerWaits, ScaledDurations, HostAssumption DEF Retried
  <2>. HIDE DEF LastOfTicks
  <2>3. now <= LastOfTicks /\ now + MaxRetryAfter * Second <= LastOfTicks
    BY <1>0, <2>1
  <2>. DEFINE w == IF a.retry_after = NoRetryAfter
                   THEN now ELSE now + a.retry_after * Second
  <2>4. w <= LastOfTicks /\ wake' = [wake EXCEPT ![c] = w]
    BY <1>0, <2>1, <2>2, <2>3
  <2>. HIDE DEF w
  <2>. QED BY <1>0, <2>1, <2>4 DEF TimeInv
<1>2. CASE Tick
  BY <1>0, <1>2 DEF Tick, TimeInv
<1>3. now' = now /\ wake' = wake => TimeInv'
  BY DEF TimeInv
<1>4. ASSUME NEW c \in Call,
             \/ Begin(c) \/ Drop(c) \/ AdmitCold(c) \/ ChooseUpstream(c)
             \/ TakeLock(c) \/ Probe(c) \/ Served(c) \/ Wake(c) \/ Fail(c)
      PROVE  now' = now /\ wake' = wake
  BY <1>4 DEF Begin, Drop, AdmitCold, ChooseUpstream, TakeLock, Probe, Served,
              Wake, Fail
<1>. QED BY <1>1, <1>2, <1>3, <1>4 DEF Next, Step, vars

(* k fetches, one or none, are admitted now.                               *)
AdmittedNow(k) ==
  /\ now' = now
  /\ \A tick \in {Never} \cup Ticks :
       admitted'[tick] = IF tick < now THEN admitted[tick] ELSE admitted[tick] + k

LEMMA AdmittingKeepsOrder ==
  ASSUME TypeOK, TimeInv, NeverFewer, NEW k \in Nat, AdmittedNow(k)
  PROVE  NeverFewer'
<1>0. /\ now \in Ticks /\ \A tick \in {Never} \cup Ticks : admitted[tick] \in Nat
      /\ Never < now
  BY TicksAreInts DEF TypeOK, TimeInv, Never
<1>. QED BY <1>0, TicksAreInts DEF NeverFewer, AdmittedNow, Never

(* Within the second of the budget. *)
LEMMA CountedFetch ==
  ASSUME TypeOK, TimeInv, BudgetInv, NEW k \in Nat, AdmittedNow(k),
         second # Never, now - second < Second, second' = second,
         cold' = cold + k, cold' <= PerSecond
  PROVE  BudgetInv'
<1>0. /\ now \in Ticks /\ \A tick \in {Never} \cup Ticks : admitted[tick] \in Nat
      /\ second \in Ticks /\ second <= now /\ cold \in Nat /\ cold' \in Nat
      /\ PerSecond \in Nat /\ Second \in Nat /\ Second >= 1
      /\ second - 1 \in {Never} \cup Ticks /\ second \in Nat /\ now \in Nat
  BY TicksAreInts, HostAssumption DEF TypeOK, TimeInv, BudgetInv, CountedSince, Never
<1>1. NeverFewer'
  BY AdmittingKeepsOrder DEF BudgetInv
<1>2. NoneYet'
  BY DEF NoneYet
<1>3. CountedSince'
  <2>1. Between(second - 1, now)' = cold'
    <3>1. admitted[now] - admitted[second - 1] = cold
      BY DEF BudgetInv, CountedSince, Between
    <3>2. second - 1 < now
      BY <1>0
    <3>3. admitted'[now] - admitted'[second - 1] = cold + k
      BY <1>0, <3>1, <3>2 DEF AdmittedNow
    <3>. QED BY <3>3 DEF Between, AdmittedNow
  <2>2. ASSUME NEW tick \in Ticks, second + Second <= tick
        PROVE  admitted'[tick] = admitted'[second + Second - 1]
    <3>1. second + Second - 1 \in Ticks
      BY <1>0, <2>2, TicksAreInts
    <3>2. admitted[tick] = admitted[second + Second - 1]
      BY <2>2 DEF BudgetInv, CountedSince
    <3>. QED BY <1>0, <2>2, <3>1, <3>2, TicksAreInts DEF AdmittedNow
  <2>. QED BY <1>0, <2>1, <2>2 DEF CountedSince, AdmittedNow
<1>4. FewBefore'
  <2>1. ASSUME NEW before \in {Never} \cup Ticks,
               second - Second <= before, before < second
        PROVE  Between(before, second - 1)' <= PerSecond
    <3>1. before < now /\ second - 1 < now
      BY <1>0, <2>1, TicksAreInts
    <3>2. Between(before, second - 1) <= PerSecond
      BY <2>1 DEF BudgetInv, FewBefore
    <3>. QED BY <1>0, <3>1, <3>2 DEF Between, AdmittedNow
  <2>. QED BY <2>1 DEF FewBefore
<1>5. FewColdInAnySecond'
  <2>. SUFFICES ASSUME NEW before \in {Never} \cup Ticks, NEW last \in {Never} \cup Ticks,
                       before <= last, last - before <= Second
                PROVE  admitted'[last] - admitted'[before] <= 2 * PerSecond
    BY DEF FewColdInAnySecond
  <2>1. CASE last < now \/ now <= before
    <3>1. admitted[last] - admitted[before] <= 2 * PerSecond
      BY DEF BudgetInv, FewColdInAnySecond
    <3>2. /\ admitted'[last] - admitted'[before] = admitted[last] - admitted[before]
      BY <1>0, <2>1, TicksAreInts DEF AdmittedNow
    <3>. QED BY <3>1, <3>2
  <2>2. CASE before < now /\ now <= last
    <3>1. admitted[last] = admitted[now]
      BY <1>0, <2>2, TicksAreInts DEF BudgetInv, NeverFewer, Never
    <3>2. /\ admitted'[last] = admitted[now] + k
          /\ admitted'[before] = admitted[before]
      BY <1>0, <2>2, <3>1, TicksAreInts DEF AdmittedNow
    <3>3. admitted[now] - admitted[second - 1] = cold
      BY <1>0 DEF BudgetInv, CountedSince, Between
    <3>4. admitted[second - 1] - admitted[before] <= PerSecond
      <4>1. CASE before < second
        <5>1. second - Second <= before
          BY <1>0, <2>2, TicksAreInts
        <5>2. Between(before, second - 1) <= PerSecond
          BY <1>0, <4>1, <5>1 DEF BudgetInv, FewBefore
        <5>. QED BY <5>2 DEF Between
      <4>2. CASE second <= before
        <5>1. admitted[second - 1] <= admitted[before]
          BY <1>0, <4>2, TicksAreInts DEF BudgetInv, NeverFewer
        <5>. QED BY <1>0, <5>1
      <4>. QED BY <1>0, <4>1, <4>2, TicksAreInts
    <3>. QED BY <1>0, <3>2, <3>3, <3>4
  <2>. QED BY <1>0, <2>1, <2>2, TicksAreInts
<1>. QED BY <1>1, <1>2, <1>3, <1>4, <1>5 DEF BudgetInv

(* A new second begins: what the one before it saw is what a window that    *)
(* ends now may hold at most.                                              *)
LEMMA FirstFetch ==
  ASSUME TypeOK, TimeInv, BudgetInv, NEW k \in Nat, AdmittedNow(k),
         second = Never \/ now - second >= Second, second' = now,
         cold' = k, k <= PerSecond
  PROVE  BudgetInv'
<1>0. /\ now \in Ticks /\ \A tick \in {Never} \cup Ticks : admitted[tick] \in Nat
      /\ cold \in Nat /\ cold <= PerSecond
      /\ PerSecond \in Nat /\ Second \in Nat /\ Second >= 1 /\ now \in Nat
      /\ now - 1 \in {Never} \cup Ticks
  BY TicksAreInts, HostAssumption DEF TypeOK, TimeInv, Never
<1>1. NeverFewer'
  BY AdmittingKeepsOrder DEF BudgetInv
<1>2. NoneYet'
  BY <1>0, TicksAreInts DEF NoneYet
(* Nothing was admitted at this tick, nor in a whole second but by what the *)
(* budget counted.                                                          *)
<1>3. /\ admitted[now - 1] = admitted[now]
      /\ \A before \in {Never} \cup Ticks :
           now - Second <= before /\ before < now =>
             admitted[now] - admitted[before] <= PerSecond
  <2>1. CASE second = Never
    <3>1. \A tick \in {Never} \cup Ticks : admitted[tick] = 0
      BY <2>1 DEF BudgetInv, NoneYet, NeverFewer
    <3>. QED BY <1>0, <3>1
  <2>2. CASE second # Never
    <3>0. /\ second \in Nat /\ second + Second <= now /\ second \in Ticks
          /\ second - 1 \in {Never} \cup Ticks /\ second + Second - 1 \in Ticks
      BY <1>0, <2>2, TicksAreInts DEF TypeOK, Never
    <3>1. admitted[now] = admitted[second + Second - 1]
      BY <1>0, <2>2, <3>0 DEF BudgetInv, CountedSince
    <3>2. admitted[now - 1] = admitted[now]
      <4>1. CASE now = second + Second
        <5>1. second + Second - 1 = now - 1
          BY <1>0, <3>0, <4>1
        <5>. QED BY <3>1, <5>1
      <4>2. CASE now > second + Second
        <5>1. now - 1 \in Ticks /\ second + Second <= now - 1
          BY <1>0, <3>0, <4>2, TicksAreInts
        <5>. QED BY <2>2, <3>1, <5>1 DEF BudgetInv, CountedSince
      <4>. QED BY <1>0, <3>0, <4>1, <4>2
    <3>3. ASSUME NEW before \in {Never} \cup Ticks, now - Second <= before, before < now
          PROVE  admitted[now] - admitted[before] <= PerSecond
      <4>1. second - 1 <= before
        BY <1>0, <3>0, <3>3, TicksAreInts
      <4>2. admitted[second - 1] <= admitted[before]
        BY <3>0, <4>1 DEF BudgetInv, NeverFewer
      <4>3. admitted[now] - admitted[second - 1] = cold
        BY <2>2 DEF BudgetInv, CountedSince, Between
      <4>. QED BY <1>0, <3>0, <4>2, <4>3
    <3>. QED BY <3>2, <3>3
  <2>. QED BY <2>1, <2>2
<1>4. CountedSince'
  <2>1. Between(now - 1, now)' = k
    BY <1>0, <1>3 DEF Between, AdmittedNow
  <2>2. ASSUME NEW tick \in Ticks, now + Second <= tick
        PROVE  admitted'[tick] = admitted'[now + Second - 1]
    <3>1. now + Second - 1 \in Ticks /\ now <= now + Second - 1 /\ now <= tick
      BY <1>0, <2>2, TicksAreInts
    <3>2. admitted[tick] = admitted[now] /\ admitted[now + Second - 1] = admitted[now]
      BY <2>2, <3>1 DEF BudgetInv, NeverFewer
    <3>. QED BY <1>0, <3>1, <3>2, TicksAreInts DEF AdmittedNow
  <2>. QED BY <1>0, <2>1, <2>2 DEF CountedSince, AdmittedNow
<1>5. FewBefore'
  <2>1. ASSUME NEW before \in {Never} \cup Ticks,
               now - Second <= before, before < now
        PROVE  admitted'[now - 1] - admitted'[before] <= PerSecond
    <3>1. admitted[now - 1] - admitted[before] <= PerSecond
      BY <1>3, <2>1
    <3>2. now - 1 < now
      BY <1>0
    <3>. QED BY <1>0, <2>1, <3>1, <3>2 DEF AdmittedNow
  <2>. QED BY <2>1 DEF FewBefore, Between
<1>6. FewColdInAnySecond'
  <2>. SUFFICES ASSUME NEW before \in {Never} \cup Ticks, NEW last \in {Never} \cup Ticks,
                       before <= last, last - before <= Second
                PROVE  admitted'[last] - admitted'[before] <= 2 * PerSecond
    BY DEF FewColdInAnySecond
  <2>1. CASE last < now \/ now <= before
    <3>1. admitted[last] - admitted[before] <= 2 * PerSecond
      BY DEF BudgetInv, FewColdInAnySecond
    <3>2. /\ admitted'[last] - admitted'[before] = admitted[last] - admitted[before]
      BY <1>0, <2>1, TicksAreInts DEF AdmittedNow
    <3>. QED BY <3>1, <3>2
  <2>2. CASE before < now /\ now <= last
    <3>1. admitted[last] = admitted[now]
      BY <1>0, <2>2, TicksAreInts DEF BudgetInv, NeverFewer, Never
    <3>2. /\ admitted'[last] = admitted[now] + k
          /\ admitted'[before] = admitted[before]
      BY <1>0, <2>2, <3>1, TicksAreInts DEF AdmittedNow
    <3>3. now - Second <= before
      BY <1>0, <2>2, TicksAreInts
    <3>4. admitted[now] - admitted[before] <= PerSecond
      BY <1>3, <2>2, <3>3
    <3>. QED BY <1>0, <3>2, <3>4
  <2>. QED BY <1>0, <2>1, <2>2, TicksAreInts
<1>. QED BY <1>1, <1>2, <1>4, <1>5, <1>6 DEF BudgetInv

LEMMA NextBudgetInv ==
  ASSUME TypeOK, TimeInv, BudgetInv, [Next]_vars
  PROVE  BudgetInv'
<1>1. ASSUME NEW c \in Call, AdmitCold(c) PROVE BudgetInv'
  <2>0. /\ now \in Nat /\ PerSecond \in Nat /\ cold \in 0 .. PerSecond
        /\ now' = now
        /\ admitted \in [{Never} \cup Ticks -> Nat]
    BY <1>1, HostAssumption DEF AdmitCold, TypeOK
  <2>. DEFINE anew == second = Never \/ now - second >= Second
              used == IF anew THEN 0 ELSE cold
  <2>1. second' = IF anew THEN now ELSE second
    BY <1>1 DEF AdmitCold
  <2>2. \E k \in Nat : cold' = used + k /\ used + k <= PerSecond /\ AdmittedNow(k)
    <3>1. CASE Full(used) /\ cold' = used /\ UNCHANGED admitted
      <4>1. AdmittedNow(0)
        BY <2>0, <3>1 DEF AdmittedNow
      <4>. QED BY <2>0, <3>1, <4>1
    <3>2. CASE /\ ~Full(used) /\ cold' = used + 1
               /\ admitted' = [tick \in DOMAIN admitted |->
                                 IF tick < now THEN admitted[tick]
                                               ELSE admitted[tick] + 1]
      <4>1. AdmittedNow(1)
        BY <2>0, <3>2 DEF AdmittedNow
      <4>2. used + 1 <= PerSecond
        BY <2>0, <3>2 DEF Full
      <4>. QED BY <3>2, <4>1, <4>2
    <3>. QED BY <1>1, <3>1, <3>2 DEF AdmitCold
  <2>3. PICK k \in Nat : cold' = used + k /\ used + k <= PerSecond /\ AdmittedNow(k)
    BY <2>2
  <2>4. CASE anew
    BY <2>1, <2>3, <2>4, FirstFetch
  <2>5. CASE ~anew
    <3>1. now - second < Second
      BY <2>0, <2>5, HostAssumption DEF TypeOK, Never
    <3>. QED BY <2>1, <2>3, <2>5, <3>1, CountedFetch
  <2>. QED BY <2>4, <2>5
<1>2. CASE Tick
  <2>1. /\ now \in Nat /\ now' = now + 1 /\ second \in Nat \cup {Never}
        /\ UNCHANGED <<second, cold, admitted>>
        /\ now' <= LastOfTicks
    BY <1>2, NextTimeInv DEF Tick, hosts, TypeOK, TimeInv, Next
  <2>2. now \in Ticks /\ now + 1 \in Ticks
    BY <2>1, TicksAreInts
  <2>3. admitted[now + 1] = admitted[now]
    BY <2>1, <2>2 DEF BudgetInv, NeverFewer
  <2>4. NeverFewer'
    BY <2>1, <2>2, <2>3, TicksAreInts DEF BudgetInv, NeverFewer
  <2>5. CountedSince'
    BY <2>1, <2>2, <2>3 DEF BudgetInv, CountedSince, Between
  <2>6. NoneYet' /\ FewBefore' /\ FewColdInAnySecond'
    BY <2>1 DEF BudgetInv, NoneYet, FewBefore, Between, FewColdInAnySecond
  <2>. QED BY <2>4, <2>5, <2>6 DEF BudgetInv
<1>3. CASE UNCHANGED <<now, second, cold, admitted>>
  BY <1>3 DEF BudgetInv, NoneYet, CountedSince, FewBefore, NeverFewer, Between,
              FewColdInAnySecond
<1>4. ASSUME NEW c \in Call,
             \/ Begin(c) \/ Drop(c) \/ Retry(c) \/ ChooseUpstream(c)
             \/ TakeLock(c) \/ Probe(c) \/ Served(c) \/ Wake(c) \/ Fail(c)
      PROVE  UNCHANGED <<now, second, cold, admitted>>
  BY <1>4 DEF Begin, Drop, Retry, ChooseUpstream, TakeLock, Probe, Served,
              Wake, Fail, hosts
<1>. QED BY <1>1, <1>2, <1>3, <1>4 DEF Next, Step, vars, hosts

(* However many calls miss pieces of the host, however their seconds and    *)
(* the budget's lie against each other, and though the clock of the budget  *)
(* starts anew with the first fetch after a second has passed: no second    *)
(* sees more than twice the budget (store.rs:660-680).                      *)
THEOREM FewColdFetches == Spec => []FewColdInAnySecond
<1>1. Init => TimeInv /\ BudgetInv
  <2>. SUFFICES ASSUME Init PROVE TimeInv /\ BudgetInv
    OBVIOUS
  <2>1. \A tick \in {Never} \cup Ticks : admitted[tick] = 0
    BY DEF Init
  <2>2. 2 * PerSecond >= 0 /\ now \in Ticks
    BY TicksAreInts, HostAssumption DEF Init
  <2>. QED BY <2>1, <2>2, TicksAreInts
           DEF Init, TimeInv, BudgetInv, NoneYet, CountedSince, FewBefore,
               NeverFewer, FewColdInAnySecond
<1>2. TypeOK /\ TimeInv /\ BudgetInv /\ [Next]_vars => TimeInv' /\ BudgetInv'
  BY NextTimeInv, NextBudgetInv
<1>3. BudgetInv => FewColdInAnySecond
  BY DEF BudgetInv
<1>. QED BY TypeCorrect, <1>1, <1>2, <1>3, PTL DEF Spec

=============================================================================
