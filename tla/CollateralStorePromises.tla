----------------------- MODULE CollateralStorePromises -----------------------
(***************************************************************************)
(* What the callers of CollateralStore may rely on, proved for any number  *)
(* of processes, calls and editions, where the cache does not evict: the   *)
(* upstream is asked once per recheck; the file never goes back and keeps  *)
(* up with memory, in a directory of its own; what a process answers never *)
(* goes back; and, whoever else writes the directory, the store is a       *)
(* KeptPiece per process.                                                  *)
(***************************************************************************)
EXTENDS CollateralStoreProofs

----------------------------------------------------------------------------
(* Once per recheck *)

(* A refresh runs only over an entry that is no longer fresh.  Unless one  *)
(* has been answered and is about to end, nobody has asked the upstream    *)
(* since the entry aged.                                                   *)
RefreshesFollowAgeing ==
  \A t \in Task : pc[t] \in Refreshing => mem[Owner[t]].age # "fresh"

AnswerInHand(p) ==
  \E t \in Task : Owner[t] = p /\ pc[t] \in {"refresh_fetched", "refresh_put"}

NotAskedSinceAgeing ==
  \A p \in Process :
    Exists(mem[p]) /\ mem[p].age # "fresh" /\ ~AnswerInHand(p) =>
      answered[p] = 0

AnsweredInv ==
  /\ \A p \in Process : answered[p] <= 1
  /\ RefreshesFollowAgeing
  /\ NotAskedSinceAgeing

(* The calls a step moves are none of those that refresh. *)
RefreshersStay ==
  \A t \in Task : \/ pc'[t] = pc[t]
                  \/ pc[t] \notin Refreshing /\ pc'[t] \notin Refreshing

LEMMA AsideKeepsAnswered ==
  ASSUME AnsweredInv, mem' = mem, answered' = answered, RefreshersStay
  PROVE  AnsweredInv'
<1>1. RefreshesFollowAgeing'
  BY DEF AnsweredInv, RefreshesFollowAgeing, RefreshersStay
<1>2. NotAskedSinceAgeing'
  BY DEF AnsweredInv, NotAskedSinceAgeing, AnswerInHand, RefreshersStay, Refreshing
<1>. QED BY <1>1, <1>2 DEF AnsweredInv

(* The fetches and waits of loads, and the steps before them.              *)
LEMMA StepsAside ==
  ASSUME TypeInv, NEW t \in Task,
         \/ Lookup(t) \/ ForceRefresh(t) \/ LookOnHand(t) \/ ReadEntry(t)
         \/ BeginLoad(t) \/ JoinLoad(t) \/ FinishLoad(t)
  PROVE  /\ mem' = mem /\ answered' = answered
         /\ RefreshersStay
<1>0. pc \in [Task -> Stages]
  BY TypeParts DEF CallsInv, CallsTyped
<1>1. mem' = mem /\ answered' = answered
  BY DEF Lookup, ForceRefresh, LookOnHand, ReadEntry, BeginLoad, JoinLoad, FinishLoad
<1>2. pc[t] \notin Refreshing
  BY DEF Lookup, ForceRefresh, LookOnHand, ReadEntry, BeginLoad, JoinLoad,
         FinishLoad, Refreshing
<1>3. ASSUME NEW stage, stage \notin Refreshing, pc' = [pc EXCEPT ![t] = stage]
      PROVE  RefreshersStay
  BY <1>0, <1>2, <1>3 DEF RefreshersStay
<1>4. \A p, c : Settle({t}, p, c) => RefreshersStay
  BY <1>0, <1>2 DEF RefreshersStay, Settle, Refreshing
<1>5. \A p, f : Refuse({t} \cup Waiting(p), f) => RefreshersStay
  BY <1>0, <1>2 DEF RefreshersStay, Refuse, Waiting, Refreshing
<1>6. \A stage, r : stage \notin Refreshing /\ Continue(t, stage, r) => RefreshersStay
  BY <1>3 DEF Continue
<1>7. \A a : Return(t, a) => RefreshersStay
  BY <1>3 DEF Return, Refreshing
<1>8. \A r : Ask(t, "load_fetch", "load_fetched", r) => RefreshersStay
  BY <1>6 DEF Ask, Refreshing
<1>9. CASE Lookup(t)
  <2>1. PICK r : Continue(t, "on_hand", r)
    BY <1>9 DEF Lookup
  <2>. QED BY <1>1, <1>6, <2>1 DEF Refreshing
<1>10. CASE ForceRefresh(t)
  BY <1>1, <1>6, <1>7, <1>10 DEF ForceRefresh, Refreshing
<1>11. CASE LookOnHand(t)
  <2>1. pc' = [pc EXCEPT ![t] = "idle"] => RefreshersStay
    BY <1>3 DEF Refreshing
  <2>. QED BY <1>1, <1>6, <1>7, <1>11, <2>1 DEF LookOnHand, Refreshing
<1>12. CASE ReadEntry(t)
  <2>1. \A r : Continue(t, "load", r) \/ Continue(t, "refresh", r) =>
                 RefreshersStay
    BY <1>6 DEF Refreshing
  <2>. QED BY <1>1, <1>4, <1>12, <2>1 DEF ReadEntry
<1>13. CASE BeginLoad(t)
  BY <1>1, <1>4, <1>6, <1>8, <1>13 DEF BeginLoad, Refreshing
<1>14. CASE JoinLoad(t)
  BY <1>1, <1>6, <1>14 DEF JoinLoad, Refreshing
<1>15. CASE FinishLoad(t)
  BY <1>1, <1>5, <1>6, <1>15 DEF FinishLoad, Refreshing
<1>. QED BY <1>9, <1>10, <1>11, <1>12, <1>13, <1>14, <1>15

LEMMA InitAnsweredInv == Init => AnsweredInv
  BY DEF Init, AnsweredInv, RefreshesFollowAgeing, NotAskedSinceAgeing,
         Refreshing, NoEntry

LEMMA StepAnsweredInv ==
  ASSUME IInv, AnsweredInv, NEW t \in Task,
         Lookup(t) \/ ForceRefresh(t) \/ Step(t)
  PROVE  AnsweredInv'
<1>0. /\ TypeInv /\ LockInv
      /\ pc \in [Task -> Stages] /\ call \in [Task -> Call]
      /\ Owner \in [Task -> Process] /\ Owner[t] \in Process
      /\ mem \in [Process -> MaybeEntry]
      /\ answered \in [Process -> 0 .. 2]
  BY TypeParts, StoreAssumption DEF IInv, CallsInv, CallsTyped, StoreTyped
<1>. DEFINE Elsewhere == \A u \in Task : Owner[u] # Owner[t] => pc'[u] = pc[u]
(* The call t puts a fresh entry in memory and ends: no other call of its   *)
(* process refreshes.                                                       *)
<1>1. ASSUME NEW e, e.age = "fresh", mem' = [mem EXCEPT ![Owner[t]] = e],
             answered' = answered, Ending, pc'[t] = "idle", Elsewhere,
             pc[t] \in Loading \cup Refreshing
      PROVE  AnsweredInv'
  <2>1. \A u \in Task : pc'[u] \in Refreshing =>
                           /\ pc[u] \in Refreshing /\ pc'[u] = pc[u]
                           /\ Owner[u] # Owner[t]
    BY <1>0, <1>1
       DEF LockInv, OneRefresher, LoadsMeetNoEntry, RefreshesMeetTheirEntry,
           Ending, Loading, Refreshing
  <2>2. RefreshesFollowAgeing'
    BY <1>0, <1>1, <2>1 DEF AnsweredInv, RefreshesFollowAgeing
  <2>3. ASSUME NEW p \in Process, Exists(mem'[p]), mem'[p].age # "fresh",
               ~AnswerInHand(p)'
        PROVE  answered'[p] = 0
    <3>1. p # Owner[t] /\ mem'[p] = mem[p]
      BY <1>0, <1>1, <2>3
    <3>. QED BY <1>0, <1>1, <2>3, <3>1
             DEF AnsweredInv, NotAskedSinceAgeing, AnswerInHand, Refreshing
  <2>. QED BY <1>1, <2>2, <2>3 DEF AnsweredInv, NotAskedSinceAgeing
<1>2. CASE Lookup(t) \/ ForceRefresh(t) \/ LookOnHand(t) \/ ReadEntry(t)
           \/ BeginLoad(t) \/ JoinLoad(t) \/ FinishLoad(t)
  BY <1>0, <1>2, StepsAside, AsideKeepsAnswered
<1>3. /\ \A S, c : S \subseteq {u \in Task : Owner[u] = Owner[t]}
                   /\ Settle(S, Owner[t], c) => Elsewhere
      /\ \A a : Return(t, a) => Elsewhere
      /\ \A stage, r : Continue(t, stage, r) => Elsewhere
  BY <1>0 DEF Settle, Return, Continue
<1>. HIDE DEF Elsewhere
<1>4. CASE InsertLoaded(t)
  <2>1. PICK e \in NewEntries(call[t].got) : mem' = [mem EXCEPT ![Owner[t]] = e]
    BY <1>4 DEF InsertLoaded
  <2>2. e.age = "fresh"
    BY <2>1 DEF NewEntries
  <2>3. {t} \cup Waiting(Owner[t]) \subseteq {u \in Task : Owner[u] = Owner[t]}
    BY DEF Waiting
  <2>4. Ending /\ pc'[t] = "idle" /\ Elsewhere
    BY <1>0, <1>3, <1>4, <2>3, EndingForms DEF InsertLoaded
  <2>. QED BY <1>1, <1>4, <2>1, <2>2, <2>4 DEF InsertLoaded, Loading
<1>5. CASE PutRefreshed(t)
  <2>1. PICK e \in NewEntries(call[t].got) : mem' = [mem EXCEPT ![Owner[t]] = e]
    BY <1>5 DEF PutRefreshed
  <2>2. e.age = "fresh"
    BY <2>1 DEF NewEntries
  <2>3. Ending /\ pc'[t] = "idle" /\ Elsewhere
    BY <1>0, <1>3, <1>5, EndingForms DEF PutRefreshed
  <2>. QED BY <1>1, <1>5, <2>1, <2>2, <2>3 DEF PutRefreshed, Refreshing
(* A refresh begins over an entry that is due, which a fresh one is not.    *)
<1>6. CASE BeginRefresh(t)
  <2>1. Exists(mem[Owner[t]]) /\ mem' = mem /\ answered' = answered
    BY <1>0, <1>6 DEF BeginRefresh, LockInv, RefreshesMeetTheirEntry
  <2>2. CASE pc' = [pc EXCEPT ![t] = "idle"]
    <3>1. RefreshersStay
      BY <1>0, <1>6, <2>2 DEF BeginRefresh, RefreshersStay, Refreshing
    <3>. QED BY <2>1, <3>1, AsideKeepsAnswered
  <2>3. ASSUME mem[Owner[t]].age # "fresh",
               NEW stage \in {"refresh_fetch", "refresh_fetched"},
               pc' = [pc EXCEPT ![t] = stage]
        PROVE  AnsweredInv'
    <3>1. RefreshesFollowAgeing'
      BY <1>0, <2>1, <2>3 DEF AnsweredInv, RefreshesFollowAgeing
    <3>2. \A p \in Process : AnswerInHand(p) => AnswerInHand(p)'
      BY <1>0, <1>6, <2>3 DEF BeginRefresh, AnswerInHand
    <3>3. NotAskedSinceAgeing'
      BY <2>1, <3>2 DEF AnsweredInv, NotAskedSinceAgeing
    <3>. QED BY <2>1, <3>1, <3>3 DEF AnsweredInv
  <2>4. Due(mem[Owner[t]], call[t].at, call[t].force) =>
          mem[Owner[t]].age # "fresh"
    BY DEF Due
  <2>5. /\ \A a : Return(t, a) => pc' = [pc EXCEPT ![t] = "idle"]
        /\ \A c : Settle({t}, Owner[t], c) => pc' = [pc EXCEPT ![t] = "idle"]
        /\ \A r : Ask(t, "refresh_fetch", "refresh_fetched", r) =>
              \E stage \in {"refresh_fetch", "refresh_fetched"} :
                pc' = [pc EXCEPT ![t] = stage]
    BY <1>0 DEF Return, Settle, Ask, Continue
  <2>. QED BY <1>6, <2>1, <2>2, <2>3, <2>4, <2>5 DEF BeginRefresh
<1>7. CASE FinishRefresh(t)
  <2>1. Exists(call[t].prior) /\ Exists(call[t].seen) /\ answered' = answered
    BY <1>0, <1>7 DEF FinishRefresh, LockInv, RefreshesMeetTheirEntry, Refreshing
  <2>2. CASE mem' = mem /\ Continue(t, "refresh_put", call[t])
    <3>1. pc' = [pc EXCEPT ![t] = "refresh_put"] /\ pc[t] = "refresh_fetched"
      BY <1>7, <2>2 DEF FinishRefresh, Continue
    <3>2. RefreshesFollowAgeing'
      BY <1>0, <2>2, <3>1 DEF AnsweredInv, RefreshesFollowAgeing, Refreshing
    <3>3. \A p \in Process : AnswerInHand(p) => AnswerInHand(p)'
      BY <1>0, <3>1 DEF AnswerInHand
    <3>4. NotAskedSinceAgeing'
      BY <2>1, <2>2, <3>3 DEF AnsweredInv, NotAskedSinceAgeing
    <3>. QED BY <2>1, <3>2, <3>4 DEF AnsweredInv
  <2>3. CASE /\ mem' = [mem EXCEPT ![Owner[t]] = [call[t].seen EXCEPT !.age = "fresh"]]
             /\ Ending /\ pc'[t] = "idle" /\ Elsewhere
    <3>1. call[t].seen \in Entry
      BY <1>0, <2>1, CopyTypes DEF Call, MaybeEntry
    <3>2. [call[t].seen EXCEPT !.age = "fresh"].age = "fresh"
      BY <3>1 DEF Entry
    <3>. QED BY <1>1, <1>7, <2>1, <2>3, <3>2 DEF FinishRefresh, Refreshing
  <2>. QED BY <1>0, <1>3, <1>7, <2>1, <2>2, <2>3, EndingForms DEF FinishRefresh
(* The upstream answers a refresh: none was answered since the entry aged,  *)
(* or this refresh would not be running.                                    *)
<1>8. CASE UpstreamAnswers(t)
  <2>1. /\ mem' = mem
        /\ answered' = [answered EXCEPT ![Owner[t]] =
                          IF pc[t] = "load_fetch" \/ @ = 0 THEN 1 ELSE 2]
    BY <1>8 DEF UpstreamAnswers
  <2>2. /\ pc' = [pc EXCEPT ![t] = Fetched(pc[t])]
        /\ pc[t] \in {"load_fetch", "refresh_fetch"}
    BY <1>8 DEF UpstreamAnswers, Continue, Fetching
  <2>3. pc[t] = "refresh_fetch" => answered[Owner[t]] = 0
    <3>. SUFFICES ASSUME pc[t] = "refresh_fetch" PROVE answered[Owner[t]] = 0
      OBVIOUS
    <3>1. Exists(mem[Owner[t]]) /\ mem[Owner[t]].age # "fresh"
      BY <1>0 DEF AnsweredInv, RefreshesFollowAgeing, LockInv,
                  RefreshesMeetTheirEntry, Refreshing
    <3>2. ~AnswerInHand(Owner[t])
      BY <1>0 DEF AnswerInHand, LockInv, OneRefresher, Refreshing
    <3>. QED BY <1>0, <3>1, <3>2 DEF AnsweredInv, NotAskedSinceAgeing
  <2>4. \A p \in Process : answered'[p] <= 1
    BY <1>0, <2>1, <2>2, <2>3 DEF AnsweredInv
  <2>5. RefreshesFollowAgeing'
    BY <1>0, <2>1, <2>2
       DEF AnsweredInv, RefreshesFollowAgeing, Fetched, Refreshing
  <2>6. ASSUME NEW p \in Process, Exists(mem'[p]), mem'[p].age # "fresh",
               ~AnswerInHand(p)'
        PROVE  answered'[p] = 0
    <3>1. p # Owner[t]
      <4>1. pc[t] = "load_fetch" => ~Exists(mem[Owner[t]])
        BY <1>0 DEF LockInv, LoadsMeetNoEntry, Loading
      <4>2. pc[t] = "refresh_fetch" => AnswerInHand(Owner[t])'
        BY <1>0, <2>2 DEF AnswerInHand, Fetched
      <4>. QED BY <2>1, <2>2, <2>6, <4>1, <4>2
    <3>2. ~AnswerInHand(p)
      BY <1>0, <2>2, <2>6, <3>1 DEF AnswerInHand
    <3>. QED BY <1>0, <2>1, <2>6, <3>1, <3>2
             DEF AnsweredInv, NotAskedSinceAgeing
  <2>. QED BY <2>4, <2>5, <2>6 DEF AnsweredInv, NotAskedSinceAgeing
<1>. QED BY <1>2, <1>4, <1>5, <1>6, <1>7, <1>8 DEF Step

(* Time, dropped calls and restarts: what ages an entry, and what gives an  *)
(* answered refresh up, begins the count anew.                              *)
LEMMA OtherAnsweredInv ==
  ASSUME ~MayEvict, IInv, AnsweredInv,
         \/ \E t \in Task : DropCall(t)
         \/ \E p \in Process :
              Restart(p) \/ EntryAges(p) \/ FailureLapses(p) \/ Evict(p)
         \/ Tick \/ UNCHANGED vars
  PROVE  AnsweredInv'
<1>0. /\ TypeInv /\ LockInv
      /\ pc \in [Task -> Stages]
      /\ Owner \in [Task -> Process]
      /\ mem \in [Process -> MaybeEntry]
      /\ answered \in [Process -> 0 .. 2]
  BY TypeParts, StoreAssumption DEF IInv, CallsInv, CallsTyped, StoreTyped
<1>1. ASSUME NEW t \in Task, DropCall(t) PROVE AnsweredInv'
  <2>1. /\ mem' = mem
        /\ answered' = IF pc[t] \in Refreshing
                       THEN [answered EXCEPT ![Owner[t]] = 0] ELSE answered
        /\ pc'[t] = "idle"
        /\ \A u \in Task : pc'[u] \in {pc[u], "load", "idle"}
        /\ \A u \in Task \ {t} : pc[u] \in Refreshing => pc'[u] = pc[u]
    BY <1>0, <1>1 DEF DropCall, Abandoned, Waiting, Refreshing
  <2>2. \A p \in Process : answered'[p] <= 1
    BY <1>0, <2>1 DEF AnsweredInv
  <2>3. RefreshesFollowAgeing'
    BY <2>1 DEF AnsweredInv, RefreshesFollowAgeing, Refreshing
  <2>4. ASSUME NEW p \in Process, Exists(mem'[p]), mem'[p].age # "fresh",
               ~AnswerInHand(p)', answered'[p] # 0
        PROVE  FALSE
    <3>1. ~(pc[t] \in Refreshing /\ Owner[t] = p)
      BY <1>0, <2>1, <2>4
    <3>2. ~AnswerInHand(p)
      BY <2>1, <2>4, <3>1 DEF AnswerInHand, Refreshing
    <3>. QED BY <1>0, <2>1, <2>4, <3>2 DEF AnsweredInv, NotAskedSinceAgeing
  <2>. QED BY <2>2, <2>3, <2>4 DEF AnsweredInv, NotAskedSinceAgeing
<1>2. ASSUME NEW p \in Process, Restart(p) PROVE AnsweredInv'
  <2>1. /\ mem' = [mem EXCEPT ![p] = NoEntry]
        /\ answered' = [answered EXCEPT ![p] = 0]
        /\ \A u \in Task : IF Owner[u] = p THEN pc'[u] = "idle"
                                            ELSE pc'[u] = pc[u]
    BY <1>2 DEF Restart
  <2>2. \A q \in Process : answered'[q] <= 1
    BY <1>0, <2>1 DEF AnsweredInv
  <2>3. RefreshesFollowAgeing'
    BY <1>0, <2>1 DEF AnsweredInv, RefreshesFollowAgeing, Refreshing
  <2>4. \A q \in Process \ {p} : AnswerInHand(q) => AnswerInHand(q)'
    BY <2>1 DEF AnswerInHand
  <2>5. NotAskedSinceAgeing'
    BY <1>0, <2>1, <2>4 DEF AnsweredInv, NotAskedSinceAgeing, Exists, NoEntry
  <2>. QED BY <2>2, <2>3, <2>5 DEF AnsweredInv
<1>3. ASSUME NEW p \in Process, EntryAges(p) PROVE AnsweredInv'
  <2>1. mem[p] \in Entry
    BY <1>0, <1>3, CopyTypes DEF EntryAges
  <2>2. /\ pc' = pc
        /\ \A q \in Process \ {p} : mem'[q] = mem[q] /\ answered'[q] = answered[q]
        /\ mem'[p].age # "fresh"
        /\ \/ answered'[p] = 0
           \/ answered'[p] = answered[p] /\ mem[p].age # "fresh"
    BY <1>0, <1>3, <2>1 DEF EntryAges, Entry
  <2>3. \A q \in Process : answered'[q] <= 1
    BY <1>0, <2>2 DEF AnsweredInv
  <2>4. RefreshesFollowAgeing'
    BY <1>0, <2>2 DEF AnsweredInv, RefreshesFollowAgeing
  <2>5. \A q \in Process : AnswerInHand(q)' <=> AnswerInHand(q)
    BY <2>2 DEF AnswerInHand
  <2>6. NotAskedSinceAgeing'
    BY <1>0, <1>3, <2>2, <2>5 DEF AnsweredInv, NotAskedSinceAgeing, EntryAges
  <2>. QED BY <2>3, <2>4, <2>6 DEF AnsweredInv
<1>4. ASSUME pc' = pc, mem' = mem, answered' = answered PROVE AnsweredInv'
  BY <1>4, AsideKeepsAnswered DEF RefreshersStay
<1>. QED BY <1>1, <1>2, <1>3, <1>4 DEF FailureLapses, Evict, Tick, vars

(* While the copy in memory is within one recheck interval the upstream     *)
(* answers about it at most once, however many calls queue behind a refresh *)
(* (store.rs:750), as long as nothing is evicted: an entry must age before  *)
(* a refresh asks, and a call that waited finds the entry fresh again.      *)
THEOREM AskedOncePerRecheck ==
  ASSUME ~MayEvict
  PROVE  Spec => []AnsweredOncePerRecheck
<1>1. Init => IInv /\ AnsweredInv
  BY InitTypeInv, InitLockInv, InitAnsweredInv DEF IInv
<1>2. IInv /\ AnsweredInv /\ [Next]_vars => IInv' /\ AnsweredInv'
  <2>. SUFFICES ASSUME IInv, AnsweredInv, [Next]_vars PROVE IInv' /\ AnsweredInv'
    OBVIOUS
  <2>. QED BY NextIInv, StepAnsweredInv, OtherAnsweredInv DEF Next
<1>3. AnsweredInv => AnsweredOncePerRecheck
  BY DEF AnsweredInv, AnsweredOncePerRecheck
<1>. QED BY <1>1, <1>2, <1>3, PTL DEF Spec

----------------------------------------------------------------------------
(* The order of editions *)

LEMMA OrderOfDates ==
  /\ \A d \in Dates : NotOlder(d, d)
  /\ \A d, e \in Dates : NotOlder(d, e) \/ NotOlder(e, d)
  /\ \A d, e, f \in Dates : NotOlder(d, e) /\ NotOlder(e, f) => NotOlder(d, f)
<1>1. \A d \in Dates : d.version \in Int /\ d.this_update \in Int
  BY DEF Dates, Option, None
<1>. QED BY <1>1 DEF NotOlder

LEMMA DatesOfCopies ==
  /\ \A c \in MaybeCopy : c.dates \in Dates
  /\ \A e \in MaybeEntry : e.dates \in Dates
  /\ \A r \in Response : r.dates \in Dates
<1>1. NoDates \in Dates
  BY DEF NoDates, Dates, Option
<1>2. Published \subseteq Dates
  BY StoreAssumption
<1>3. \A c \in MaybeCopy : c.dates \in Dates
  BY <1>1, <1>2 DEF MaybeCopy, Copy, NoCopy
<1>4. \A e \in MaybeEntry : e.dates \in Dates
  BY <1>1, <1>2 DEF MaybeEntry, Entry, NoEntry
<1>5. \A r \in Response : r.dates \in Dates
  BY <1>1, <1>2 DEF Response, NoFile, BadFile, File
<1>. QED BY <1>3, <1>4, <1>5

(* The newer of two copies is not older than either. *)
LEMMA NewerIsNotOlder ==
  ASSUME NEW b \in MaybeCopy, NEW c \in MaybeCopy
  PROVE  /\ Exists(b) => Exists(Newer(b, c))
                         /\ NotOlder(Newer(b, c).dates, b.dates)
         /\ Exists(c) => Exists(Newer(b, c))
                         /\ NotOlder(Newer(b, c).dates, c.dates)
<1>1. b.dates \in Dates /\ c.dates \in Dates
  BY DatesOfCopies
<1>. QED BY <1>1, OrderOfDates DEF Newer

LEMMA FilesAsCopies ==
  ASSUME NEW r \in Response, NEW s \in Source
  PROVE  /\ Exists(CopyFrom(r, s)) <=> r.kind = "good"
         /\ r.kind = "good" => CopyFrom(r, s).dates = r.dates
                               /\ CopyFrom(r, s) \in Copy
  BY DEF CopyFrom, Exists, NoCopy, Response, NoFile, BadFile, File, Copy, Source

----------------------------------------------------------------------------
(* The disk and the memory of the only process *)

Alone == \A p, q \in Process : p = q

Saved == {"load_insert", "refresh_put"}

(* Memory is not behind the disk, except between the disk write of a       *)
(* refresh and the insertion.                                              *)
MemoryKeepsUp ==
  \A p \in Process :
    Exists(mem[p]) /\ disk.kind = "good"
    /\ (\A t \in Task : Owner[t] = p => pc[t] # "refresh_put") =>
      NotOlder(mem[p].dates, disk.dates)

(* A load compares what it fetches with the file that is there. *)
LoadsReadTheDisk ==
  \A t \in Task : pc[t] \in {"load_fetch", "load_fetched"} =>
    call[t].prior = CopyFrom(disk, "disk")

PutsKeepUp ==
  \A t \in Task : pc[t] \in Saved /\ disk.kind = "good" =>
    NotOlder(call[t].got.dates, disk.dates)

DiskInv == MemoryKeepsUp /\ LoadsReadTheDisk /\ PutsKeepUp

(* When writes do not fail, what is about to be put in memory is on disk. *)
PutsAreSaved ==
  \A t \in Task : pc[t] \in Saved =>
    disk.kind = "good" /\ NotOlder(disk.dates, call[t].got.dates)

SavedInv == DiskKeepsUp /\ PutsAreSaved

(* No call reads the disk, fills in what it read or saves. *)
DiskUntouched ==
  /\ disk' = disk
  /\ \A p \in Process : \/ ~Exists(mem'[p])
                        \/ Exists(mem[p]) /\ mem'[p].dates = mem[p].dates
  /\ \A t \in Task :
       \/ pc'[t] = pc[t] /\ call'[t] = call[t]
       \/ /\ pc'[t] \notin {"load_fetch", "load_fetched"} \cup Saved
          /\ pc[t] = "refresh_put" => ~Exists(mem'[Owner[t]])

LEMMA UntouchedKeepsDisk ==
  ASSUME DiskUntouched
  PROVE  /\ DiskInv => DiskInv'
         /\ SavedInv => SavedInv'
<1>1. MemoryKeepsUp => MemoryKeepsUp'
  BY DEF MemoryKeepsUp, DiskUntouched
<1>2. LoadsReadTheDisk => LoadsReadTheDisk'
  BY DEF LoadsReadTheDisk, DiskUntouched
<1>3. PutsKeepUp => PutsKeepUp'
  BY DEF PutsKeepUp, DiskUntouched
<1>4. PutsAreSaved => PutsAreSaved'
  BY DEF PutsAreSaved, DiskUntouched
<1>5. DiskKeepsUp => DiskKeepsUp'
  BY DEF DiskKeepsUp, DiskUntouched
<1>. QED BY <1>1, <1>2, <1>3, <1>4, <1>5 DEF DiskInv, SavedInv

LEMMA InitDiskInv == Init => DiskInv /\ SavedInv
  BY DEF Init, DiskInv, SavedInv, MemoryKeepsUp, LoadsReadTheDisk, PutsKeepUp,
         PutsAreSaved, DiskKeepsUp, Saved, NoEntry, Exists

(* One process has one call at a time that loads or refreshes. *)
LEMMA OneHolder ==
  ASSUME Alone, IInv
  PROVE  /\ \A t, u \in Task : Owner[t] = Owner[u]
         /\ \A t, u \in Task :
              pc[t] \in Loading \cup Refreshing /\ pc[u] \in Loading \cup Refreshing
                => t = u
         /\ \A t \in Task : pc[t] \in Loading =>
              \A p \in Process : ~Exists(mem[p])
         /\ \A t \in Task, p \in Process : Owner[t] = p
  BY StoreAssumption DEF Alone, IInv, LockInv, OneLoader, OneRefresher, LoadsMeetNoEntry,
                         RefreshesMeetTheirEntry

(* A disk write of the only call that holds a lock: what it saves is not   *)
(* older than the file, and so may go on to memory.                        *)
LEMMA SavingKeepsDisk ==
  ASSUME Alone, IInv, DiskInv, NEW t \in Task, NEW stage \in Saved,
         pc[t] \in {"load_fetched", "refresh_fetched"}, NEW c \in Call,
         Exists(c.got), Continue(t, stage, c),
         stage = "load_insert" <=> pc[t] = "load_fetched",
         disk.kind = "good" => NotOlder(c.got.dates, disk.dates),
         Exists(mem[Owner[t]]) => NotOlder(c.got.dates, mem[Owner[t]].dates),
         mem' = mem,
         \/ disk' = File(c.got.dates)
         \/ /\ disk' = disk
            /\ ~DiskFails => disk.kind = "good" /\ NotOlder(disk.dates, c.got.dates)
  PROVE  /\ DiskInv'
         /\ ~DiskFails /\ SavedInv => SavedInv'
         /\ disk.kind = "good" =>
              disk'.kind = "good" /\ NotOlder(disk'.dates, disk.dates)
<1>0. /\ pc \in [Task -> Stages] /\ call \in [Task -> Call]
      /\ disk \in Response /\ c.got \in Copy /\ c.got.dates \in Dates
      /\ disk.dates \in Dates /\ pc' = [pc EXCEPT ![t] = stage]
      /\ call' = [call EXCEPT ![t] = c]
      /\ \A p \in Process : mem[p] \in MaybeEntry /\ mem[p].dates \in Dates
  BY TypeParts, CopyTypes, DatesOfCopies
     DEF IInv, CallsInv, CallsTyped, StoreTyped, Continue, Call, MaybeCopy
<1>1. File(c.got.dates).kind = "good" /\ File(c.got.dates).dates = c.got.dates
  BY DEF File
<1>2. /\ disk'.kind = "good" => NotOlder(c.got.dates, disk'.dates)
      /\ ~DiskFails => disk'.kind = "good" /\ NotOlder(disk'.dates, c.got.dates)
      /\ disk.kind = "good" => disk'.kind = "good" /\ NotOlder(disk'.dates, disk.dates)
  BY <1>0, <1>1, OrderOfDates
<1>3. \A u \in Task : pc'[u] \in Loading \cup Refreshing => u = t
  BY <1>0, OneHolder DEF Loading, Refreshing
<1>4. /\ pc'[t] = stage /\ call'[t] = c
  BY <1>0
<1>5. MemoryKeepsUp'
  <2>1. CASE stage = "load_insert"
    <3>1. \A p \in Process : ~Exists(mem'[p])
      BY <2>1, OneHolder DEF Loading
    <3>. QED BY <3>1 DEF MemoryKeepsUp
  <2>2. CASE stage = "refresh_put"
    BY <1>4, <2>2, OneHolder DEF MemoryKeepsUp
  <2>. QED BY <2>1, <2>2 DEF Saved
<1>6. LoadsReadTheDisk'
  BY <1>3, <1>4 DEF LoadsReadTheDisk, Saved, Loading
<1>7. PutsKeepUp'
  BY <1>2, <1>3, <1>4 DEF PutsKeepUp, Saved, Loading, Refreshing
<1>8. ASSUME ~DiskFails, SavedInv PROVE SavedInv'
  <2>1. PutsAreSaved'
    BY <1>2, <1>3, <1>4, <1>8 DEF PutsAreSaved, Saved, Loading, Refreshing
  <2>2. \A p \in Process : Exists(mem[p]) => NotOlder(disk'.dates, mem[p].dates)
    <3>1. disk'.dates \in Dates
      BY <1>0, <1>1
    <3>. QED BY <1>0, <1>2, <1>8, <3>1, OneHolder, OrderOfDates
  <2>3. DiskKeepsUp'
    BY <1>2, <1>8, <2>2 DEF DiskKeepsUp
  <2>. QED BY <2>1, <2>3 DEF SavedInv
<1>. QED BY <1>2, <1>5, <1>6, <1>7, <1>8 DEF DiskInv
(* What the only call that holds a lock puts in memory keeps up with the   *)
(* disk as the copy did that it was about to put there.                    *)
LEMMA PutKeepsDisk ==
  ASSUME Alone, IInv, DiskInv, NEW t \in Task, NEW e \in MaybeEntry, Exists(e),
         pc[t] \in Loading \cup Refreshing, pc'[t] = "idle", Ending,
         mem' = [mem EXCEPT ![Owner[t]] = e], disk' = disk,
         disk.kind = "good" => NotOlder(e.dates, disk.dates)
  PROVE  /\ DiskInv'
         /\ /\ SavedInv
            /\ disk.kind = "good" /\ NotOlder(disk.dates, e.dates)
            => SavedInv'
<1>0. \A p \in Process : mem'[p] = e
  BY TypeParts, OneHolder DEF IInv, StoreTyped
<1>1. \A u \in Task : pc'[u] \notin Loading \cup Refreshing
  BY OneHolder DEF Ending, Loading, Refreshing
<1>2. MemoryKeepsUp' /\ LoadsReadTheDisk' /\ PutsKeepUp' /\ PutsAreSaved'
  BY <1>0, <1>1 DEF MemoryKeepsUp, LoadsReadTheDisk, PutsKeepUp, PutsAreSaved,
                    Saved, Loading, Refreshing
<1>3. ASSUME disk.kind = "good", NotOlder(disk.dates, e.dates) PROVE DiskKeepsUp'
  BY <1>0, <1>3 DEF DiskKeepsUp
<1>. QED BY <1>2, <1>3 DEF DiskInv, SavedInv

(* What every step keeps of the disk. *)
DiskStep ==
  /\ DiskInv'
  /\ ~DiskFails /\ SavedInv => SavedInv'
  /\ disk.kind = "good" =>
       disk'.kind = "good" /\ NotOlder(disk'.dates, disk.dates)

LEMMA UntouchedIsDiskStep ==
  ASSUME IInv, DiskInv, DiskUntouched
  PROVE  DiskStep
<1>1. disk.dates \in Dates
  BY TypeParts, DatesOfCopies DEF IInv, StoreTyped
<1>2. disk' = disk
  BY DEF DiskUntouched
<1>. QED BY <1>1, <1>2, UntouchedKeepsDisk, OrderOfDates DEF DiskStep

LEMMA StepDiskInv ==
  ASSUME Alone, IInv, DiskInv, NEW t \in Task,
         Lookup(t) \/ ForceRefresh(t) \/ Step(t)
  PROVE  DiskStep
<1>0. /\ TypeInv /\ LockInv /\ CallsInv /\ StoreTyped
      /\ pc \in [Task -> Stages] /\ call \in [Task -> Call]
      /\ Owner[t] \in Process /\ call[t] \in Call
      /\ mem \in [Process -> MaybeEntry] /\ mem[Owner[t]] \in MaybeEntry
      /\ disk \in Response
  BY TypeParts, StoreAssumption DEF IInv, CallsInv, CallsTyped, StoreTyped
(* Calls that end without a lock, and calls that go on without reading or   *)
(* writing the file, leave the disk as it is.                               *)
<1>1. ASSUME Ending, mem' = mem, disk' = disk, pc[t] # "refresh_put",
             \A u \in Task \ {t} : pc[u] = "refresh_put" => pc'[u] = pc[u]
      PROVE  DiskStep
  <2>1. DiskUntouched
    BY <1>1 DEF DiskUntouched, Ending, Saved
  <2>. QED BY <2>1, UntouchedIsDiskStep
<1>2. ASSUME NEW stage, NEW r, Continue(t, stage, r), mem' = mem, disk' = disk,
             stage \notin {"load_fetch", "load_fetched"} \cup Saved,
             pc[t] # "refresh_put"
      PROVE  DiskStep
  <2>1. DiskUntouched
    BY <1>0, <1>2 DEF DiskUntouched, Continue
  <2>. QED BY <2>1, UntouchedIsDiskStep
<1>3. /\ \A p, c : Settle({t}, p, c) =>
           Ending /\ \A u \in Task \ {t} : pc'[u] = pc[u]
      /\ \A a : Return(t, a) =>
           Ending /\ \A u \in Task \ {t} : pc'[u] = pc[u]
      /\ \A f : Refuse({t} \cup Waiting(Owner[t]), f) =>
           Ending /\ \A u \in Task \ {t} : pc[u] = "refresh_put" => pc'[u] = pc[u]
  <2>1. \A p, c : Settle({t}, p, c) => \A u \in Task \ {t} : pc'[u] = pc[u]
    BY DEF Settle
  <2>2. \A a : Return(t, a) => \A u \in Task \ {t} : pc'[u] = pc[u]
    BY <1>0 DEF Return
  <2>3. \A f : Refuse({t} \cup Waiting(Owner[t]), f) =>
          \A u \in Task \ {t} : pc[u] = "refresh_put" => pc'[u] = pc[u]
    BY DEF Refuse, Waiting
  <2>. QED BY <1>0, <2>1, <2>2, <2>3, EndingForms
<1>4. CASE Lookup(t)
  <2>1. PICK r : Continue(t, "on_hand", r)
    BY <1>4 DEF Lookup
  <2>. QED BY <1>2, <1>4, <2>1 DEF Lookup, Saved
<1>5. CASE ForceRefresh(t)
  <2>1. \A r : Continue(t, "refresh", r) => DiskStep
    BY <1>2, <1>5 DEF ForceRefresh, Saved
  <2>. QED BY <1>1, <1>3, <1>5, <2>1 DEF ForceRefresh
<1>6. CASE LookOnHand(t)
  <2>1. mem' = mem /\ disk' = disk /\ pc[t] = "on_hand"
    BY <1>6 DEF LookOnHand
  <2>2. ASSUME pc' = [pc EXCEPT ![t] = "idle"], call' = [call EXCEPT ![t] = Blank]
        PROVE  DiskStep
    <3>1. DiskUntouched
      BY <1>0, <2>1, <2>2 DEF DiskUntouched, Saved
    <3>. QED BY <3>1, UntouchedIsDiskStep
  <2>3. \A r : Continue(t, "entry", r) => DiskStep
    BY <1>2, <2>1 DEF Saved
  <2>4. \A a : Return(t, a) => DiskStep
    BY <2>2 DEF Return
  <2>. QED BY <1>6, <2>2, <2>3, <2>4 DEF LookOnHand
<1>7. CASE ReadEntry(t)
  <2>1. \A r : Continue(t, "load", r) \/ Continue(t, "refresh", r) => DiskStep
    BY <1>2, <1>7 DEF ReadEntry, Saved
  <2>. QED BY <1>1, <1>3, <1>7, <2>1 DEF ReadEntry
<1>8. CASE JoinLoad(t)
  BY <1>2, <1>8 DEF JoinLoad, Saved
(* A load takes the lock: it reads the file, and takes a current one as it  *)
(* is.                                                                      *)
<1>9. CASE BeginLoad(t)
  <2>. DEFINE file == CopyFrom(disk, "disk")
  <2>1. mem' = mem /\ disk' = disk /\ pc[t] = "load" /\ ~LoadRunning(Owner[t])
    BY <1>9 DEF BeginLoad
  <2>2. ASSUME ~Exists(mem[Owner[t]]), NEW r, NEW stage \in Loading,
               Continue(t, stage, r),
               stage = "load_insert" =>
                 disk.kind = "good" /\ r.got.dates = disk.dates,
               stage # "load_insert" => r.prior = file
        PROVE  DiskStep
    <3>1. \A p \in Process : ~Exists(mem'[p])
      BY <1>0, <2>1, <2>2 DEF Alone
    <3>2. \A u \in Task : pc'[u] \in Loading \cup Refreshing => u = t
      <4>1. \A u \in Task : pc[u] \notin Loading \cup Refreshing
        BY <1>0, <2>1, <2>2, OneHolder
           DEF LoadRunning, LockInv, RefreshesMeetTheirEntry
      <4>. QED BY <1>0, <2>2, <4>1 DEF Continue
    <3>3. pc'[t] = stage /\ call'[t] = r
      BY <1>0, <2>2 DEF Continue
    <3>4. disk.dates \in Dates
      BY <1>0, DatesOfCopies
    <3>5. MemoryKeepsUp' /\ DiskKeepsUp'
      BY <3>1 DEF MemoryKeepsUp, DiskKeepsUp
    <3>6. LoadsReadTheDisk'
      BY <2>1, <2>2, <3>2, <3>3 DEF LoadsReadTheDisk, Loading
    <3>7. PutsKeepUp' /\ PutsAreSaved'
      BY <2>1, <2>2, <3>2, <3>3, <3>4, OrderOfDates
         DEF PutsKeepUp, PutsAreSaved, Saved, Loading, Refreshing
    <3>. QED BY <2>1, <3>4, <3>5, <3>6, <3>7, OrderOfDates
             DEF DiskStep, DiskInv, SavedInv
  <2>. HIDE DEF file
  <2>3. CASE Settle({t}, Owner[t], CopyOf(mem[Owner[t]]))
    BY <1>1, <1>3, <2>1, <2>3
  <2>4. ASSUME ~Exists(mem[Owner[t]]), Exists(file),
               Continue(t, "load_insert", [call[t] EXCEPT !.got = file])
        PROVE  DiskStep
    <3>1. [call[t] EXCEPT !.got = file].got = file
      BY <1>0 DEF Call
    <3>2. disk.kind = "good" /\ file.dates = disk.dates
      BY <1>0, <2>4, FilesAsCopies DEF file, Source
    <3>. QED BY <2>2, <2>4, <3>1, <3>2 DEF Loading
  <2>5. ASSUME ~Exists(mem[Owner[t]]),
               Ask(t, "load_fetch", "load_fetched", [call[t] EXCEPT !.prior = file])
        PROVE  DiskStep
    <3>. DEFINE r == [call[t] EXCEPT !.prior = file]
    <3>1. /\ r.prior = file
          /\ \A f : [r EXCEPT !.why = f].prior = file
      BY <1>0 DEF Call
    <3>. HIDE DEF r
    <3>3. \/ Continue(t, "load_fetch", r)
          \/ \E f : Continue(t, "load_fetched", [r EXCEPT !.why = f])
      BY <2>5 DEF Ask, r
    <3>4. ASSUME NEW x, NEW stage \in {"load_fetch", "load_fetched"},
                 x.prior = file, Continue(t, stage, x)
          PROVE  DiskStep
      BY <2>2, <2>5, <3>4 DEF Loading
    <3>. QED BY <3>1, <3>3, <3>4
  <2>. QED BY <1>9, <2>3, <2>4, <2>5 DEF BeginLoad, file
(* The load saves what is not older than the file it read, or keeps that.   *)
<1>10. CASE FinishLoad(t)
  <2>. DEFINE c == call[t]
  <2>1. /\ mem' = mem /\ pc[t] = "load_fetched" /\ ~Exists(mem[Owner[t]])
        /\ c.prior = CopyFrom(disk, "disk")
    BY <1>0, <1>10 DEF FinishLoad, DiskInv, LoadsReadTheDisk, LockInv,
                       LoadsMeetNoEntry, Loading
  <2>2. /\ disk.kind = "good" <=> Exists(c.prior)
        /\ disk.kind = "good" => c.prior.dates = disk.dates /\ c.prior \in Copy
    BY <1>0, <2>1, FilesAsCopies DEF Source
  <2>3. CASE Taken(c) /\ Save(c.got.dates) /\ Continue(t, "load_insert", c)
    <3>1. Exists(c.got) /\ (disk.kind = "good" => NotOlder(c.got.dates, disk.dates))
      BY <1>0, <2>1, <2>2, <2>3 DEF Taken, CallsInv, FetchesBroughtACopy
    <3>. QED BY <1>0, <2>1, <2>3, <3>1, SavingKeepsDisk DEF DiskStep, Save, Saved
  <2>4. CASE /\ Exists(c.prior) /\ disk' = disk
             /\ Continue(t, "load_insert", [c EXCEPT !.got = c.prior])
    <3>1. /\ [c EXCEPT !.got = c.prior] \in Call
          /\ [c EXCEPT !.got = c.prior].got = c.prior
      BY <1>0, <2>2, <2>4 DEF Call
    <3>2. NotOlder(c.prior.dates, disk.dates) /\ NotOlder(disk.dates, c.prior.dates)
      BY <1>0, <2>2, <2>4, DatesOfCopies, OrderOfDates
    <3>. HIDE DEF c
    <3>. QED BY <1>0, <2>1, <2>2, <2>4, <3>1, <3>2, SavingKeepsDisk
             DEF DiskStep, Saved
  <2>5. CASE disk' = disk /\ Refuse({t} \cup Waiting(Owner[t]), c.why)
    BY <1>1, <1>3, <2>1, <2>5
  <2>. QED BY <1>10, <2>3, <2>4, <2>5 DEF FinishLoad
<1>11. CASE InsertLoaded(t)
  <2>1. PICK e \in NewEntries(call[t].got) : mem' = [mem EXCEPT ![Owner[t]] = e]
    BY <1>11 DEF InsertLoaded
  <2>2. call[t].got \in MaybeCopy /\ Exists(call[t].got)
    BY <1>0, <1>11 DEF InsertLoaded, LockInv, PutsAreCopies, Call, MaybeCopy
  <2>3. e \in MaybeEntry /\ Exists(e) /\ e.dates = call[t].got.dates
    BY <2>2, NewEntriesType
  <2>4. /\ Ending /\ pc'[t] = "idle" /\ disk' = disk
        /\ pc[t] \in Saved /\ pc[t] \in Loading \cup Refreshing
    BY <1>0, <1>11, EndingForms DEF InsertLoaded, Saved, Loading
  <2>5. disk.kind = "good" => NotOlder(e.dates, disk.dates)
    BY <2>3, <2>4 DEF DiskInv, PutsKeepUp
  <2>6. SavedInv => disk.kind = "good" /\ NotOlder(disk.dates, e.dates)
    BY <2>3, <2>4 DEF SavedInv, PutsAreSaved
  <2>. QED BY <1>0, <2>1, <2>3, <2>4, <2>5, <2>6, PutKeepsDisk, DatesOfCopies,
              OrderOfDates DEF DiskStep
<1>12. CASE BeginRefresh(t)
  <2>1. ASSUME NEW r, Ask(t, "refresh_fetch", "refresh_fetched", r)
        PROVE  DiskStep
    <3>1. \/ Continue(t, "refresh_fetch", r)
          \/ \E f : Continue(t, "refresh_fetched", [r EXCEPT !.why = f])
      BY <2>1 DEF Ask
    <3>2. mem' = mem /\ disk' = disk /\ pc[t] # "refresh_put"
      BY <1>12 DEF BeginRefresh
    <3>. QED BY <1>2, <3>1, <3>2 DEF Saved
  <2>. QED BY <1>1, <1>3, <1>12, <2>1 DEF BeginRefresh
(* A refresh saves what is not older than the entry, which keeps up with    *)
(* the disk.                                                                *)
<1>13. CASE FinishRefresh(t)
  <2>. DEFINE c == call[t]
              e == mem[Owner[t]]
  <2>1. /\ Exists(e) /\ Exists(c.prior) /\ Exists(c.seen)
        /\ c.prior.dates = e.dates /\ c.seen.dates = e.dates
        /\ pc[t] = "refresh_fetched" /\ c.seen \in Entry
    BY <1>0, <1>13, CopyTypes
       DEF FinishRefresh, Refreshing, LockInv, RefreshesMeetTheirEntry, Call,
           MaybeEntry
  <2>2. disk.kind = "good" => NotOlder(e.dates, disk.dates)
    <3>1. \A u \in Task : pc[u] # "refresh_put"
      BY <1>0, <2>1, OneHolder DEF Refreshing
    <3>. QED BY <1>0, <2>1, <3>1 DEF DiskInv, MemoryKeepsUp
  <2>3. CASE /\ Taken(c) /\ Save(c.got.dates) /\ mem' = mem
             /\ Continue(t, "refresh_put", c)
    <3>1. Exists(c.got) /\ NotOlder(c.got.dates, e.dates)
      BY <1>0, <2>1, <2>3 DEF Taken, CallsInv, FetchesBroughtACopy
    <3>2. disk.kind = "good" => NotOlder(c.got.dates, disk.dates)
      <4>1. c.got.dates \in Dates /\ e.dates \in Dates /\ disk.dates \in Dates
        BY <1>0, DatesOfCopies DEF Call, MaybeCopy
      <4>. QED BY <2>2, <3>1, <4>1, OrderOfDates
    <3>. QED BY <1>0, <2>1, <2>3, <3>1, <3>2, SavingKeepsDisk DEF DiskStep, Save, Saved
  <2>4. CASE /\ mem' = [mem EXCEPT ![Owner[t]] = [c.seen EXCEPT !.age = "fresh"]]
             /\ Ending /\ pc'[t] = "idle" /\ disk' = disk
    <3>1. /\ [c.seen EXCEPT !.age = "fresh"] \in MaybeEntry
          /\ Exists([c.seen EXCEPT !.age = "fresh"])
          /\ [c.seen EXCEPT !.age = "fresh"].dates = e.dates
      BY <2>1 DEF Entry, MaybeEntry, Exists
    <3>2. SavedInv => disk.kind = "good" /\ NotOlder(disk.dates, e.dates)
      BY <1>0, <2>1 DEF SavedInv, DiskKeepsUp
    <3>. HIDE DEF c, e
    <3>. QED BY <1>0, <2>1, <2>2, <2>4, <3>1, <3>2, PutKeepsDisk, DatesOfCopies,
                OrderOfDates DEF DiskStep, Refreshing, e
  <2>. QED BY <1>0, <1>13, <2>1, <2>3, <2>4, EndingForms DEF FinishRefresh
<1>14. CASE PutRefreshed(t)
  <2>1. PICK e \in NewEntries(call[t].got) : mem' = [mem EXCEPT ![Owner[t]] = e]
    BY <1>14 DEF PutRefreshed
  <2>2. call[t].got \in MaybeCopy /\ Exists(call[t].got)
    BY <1>0, <1>14 DEF PutRefreshed, LockInv, PutsAreCopies, Call, MaybeCopy
  <2>3. e \in MaybeEntry /\ Exists(e) /\ e.dates = call[t].got.dates
    BY <2>2, NewEntriesType
  <2>4. /\ Ending /\ pc'[t] = "idle" /\ disk' = disk
        /\ pc[t] \in Saved /\ pc[t] \in Loading \cup Refreshing
    BY <1>0, <1>14, EndingForms DEF PutRefreshed, Saved, Refreshing
  <2>5. disk.kind = "good" => NotOlder(e.dates, disk.dates)
    BY <2>3, <2>4 DEF DiskInv, PutsKeepUp
  <2>6. SavedInv => disk.kind = "good" /\ NotOlder(disk.dates, e.dates)
    BY <2>3, <2>4 DEF SavedInv, PutsAreSaved
  <2>. QED BY <1>0, <2>1, <2>3, <2>4, <2>5, <2>6, PutKeepsDisk, DatesOfCopies,
              OrderOfDates DEF DiskStep
<1>15. CASE UpstreamAnswers(t)
  <2>1. PICK r : Continue(t, Fetched(pc[t]), r) /\ r.prior = call[t].prior
    <3>1. /\ \A f : [call[t] EXCEPT !.why = f].prior = call[t].prior
          /\ \A d : [call[t] EXCEPT !.got = d].prior = call[t].prior
      BY <1>0 DEF Call
    <3>2. \/ \E f : Continue(t, Fetched(pc[t]), [call[t] EXCEPT !.why = f])
          \/ \E d : Continue(t, Fetched(pc[t]), [call[t] EXCEPT !.got = d])
      BY <1>15 DEF UpstreamAnswers
    <3>. QED BY <3>1, <3>2
  <2>2. mem' = mem /\ disk' = disk
    BY <1>15 DEF UpstreamAnswers
  <2>3. CASE pc[t] = "refresh_fetch"
    BY <1>2, <2>1, <2>2, <2>3 DEF Fetched, Saved
  <2>4. CASE pc[t] = "load_fetch"
    <3>1. /\ \A u \in Task \ {t} : pc'[u] = pc[u] /\ call'[u] = call[u]
          /\ pc'[t] = "load_fetched" /\ call'[t].prior = call[t].prior
      BY <1>0, <2>1, <2>4 DEF Continue, Fetched
    <3>2. MemoryKeepsUp' /\ LoadsReadTheDisk' /\ PutsKeepUp' /\ (SavedInv => SavedInv')
      BY <2>2, <2>4, <3>1
         DEF DiskInv, SavedInv, MemoryKeepsUp, LoadsReadTheDisk, PutsKeepUp,
             PutsAreSaved, DiskKeepsUp, Saved
    <3>3. disk.dates \in Dates
      BY <1>0, DatesOfCopies
    <3>. QED BY <2>2, <3>2, <3>3, OrderOfDates DEF DiskStep, DiskInv
  <2>. QED BY <1>15, <2>3, <2>4 DEF UpstreamAnswers, Fetching
<1>. QED BY <1>4, <1>5, <1>6, <1>7, <1>8, <1>9, <1>10, <1>11, <1>12, <1>13,
            <1>14, <1>15 DEF Step
LEMMA OtherDiskInv ==
  ASSUME Alone, ~MayEvict, IInv, DiskInv,
         \/ \E t \in Task : DropCall(t)
         \/ \E p \in Process :
              Restart(p) \/ EntryAges(p) \/ FailureLapses(p) \/ Evict(p)
         \/ Tick \/ UNCHANGED vars
  PROVE  DiskStep
<1>0. /\ pc \in [Task -> Stages] /\ call \in [Task -> Call]
      /\ mem \in [Process -> MaybeEntry] /\ Owner \in [Task -> Process]
  BY TypeParts, StoreAssumption DEF IInv, CallsInv, CallsTyped, StoreTyped
<1>. SUFFICES DiskUntouched
  BY UntouchedIsDiskStep
<1>1. ASSUME NEW t \in Task, DropCall(t) PROVE DiskUntouched
  BY <1>0, <1>1 DEF DropCall, Abandoned, Waiting, DiskUntouched, Saved
<1>2. ASSUME NEW p \in Process, Restart(p) PROVE DiskUntouched
  BY <1>0, <1>2 DEF Restart, DiskUntouched, Saved, Exists, NoEntry, Alone
<1>3. ASSUME NEW p \in Process, EntryAges(p) PROVE DiskUntouched
  <2>1. mem[p] \in Entry
    BY <1>0, <1>3, CopyTypes DEF EntryAges
  <2>2. \A q \in Process : mem'[q].dates = mem[q].dates
                           /\ (Exists(mem'[q]) <=> Exists(mem[q]))
    BY <1>0, <1>3, <2>1 DEF EntryAges, Entry, Exists
  <2>. QED BY <1>3, <2>2 DEF EntryAges, DiskUntouched
<1>4. ASSUME pc' = pc, call' = call, mem' = mem, disk' = disk PROVE DiskUntouched
  BY <1>4 DEF DiskUntouched
<1>. QED BY <1>1, <1>2, <1>3, <1>4 DEF FailureLapses, Evict, Tick, vars

LEMMA NextDiskInv ==
  ASSUME Alone, ~MayEvict
  PROVE  IInv /\ DiskInv /\ [Next]_vars => IInv' /\ DiskStep
<1>. SUFFICES ASSUME IInv, DiskInv, [Next]_vars PROVE IInv' /\ DiskStep
  OBVIOUS
<1>. QED BY NextIInv, StepDiskInv, OtherDiskInv DEF Next

(* A process that has the cache directory to itself never replaces the file *)
(* by an older copy, as long as nothing is evicted, whether or not writes   *)
(* fail: a load compares what it fetched with the file it read, a refresh   *)
(* with the entry in memory, and that entry is never behind the file.       *)
THEOREM FileNeverGoesBack ==
  ASSUME Alone, ~MayEvict
  PROVE  Spec => DiskNeverGoesBack
<1>. DEFINE Kept == disk.kind = "good" =>
                      disk'.kind = "good" /\ NotOlder(disk'.dates, disk.dates)
<1>1. Init => IInv /\ DiskInv
  BY InitTypeInv, InitLockInv, InitDiskInv DEF IInv
<1>2. IInv /\ DiskInv /\ [Next]_vars => IInv' /\ DiskInv' /\ [Kept]_vars
  BY NextDiskInv DEF DiskStep
<1>. QED BY <1>1, <1>2, PTL DEF Spec, DiskNeverGoesBack

(* If the writes do not fail either, what the process reads back after a    *)
(* restart is not older than what it had in memory, whenever it ends: a     *)
(* copy is on disk before it is in memory (store.rs:724, 759).              *)
THEOREM FileKeepsUp ==
  ASSUME Alone, ~MayEvict, ~DiskFails
  PROVE  Spec => []DiskKeepsUp
<1>1. Init => IInv /\ DiskInv /\ SavedInv
  BY InitTypeInv, InitLockInv, InitDiskInv DEF IInv
<1>2. IInv /\ DiskInv /\ SavedInv /\ [Next]_vars => IInv' /\ DiskInv' /\ SavedInv'
  BY NextDiskInv DEF DiskStep
<1>3. SavedInv => DiskKeepsUp
  BY DEF SavedInv
<1>. QED BY <1>1, <1>2, <1>3, PTL DEF Spec

----------------------------------------------------------------------------
(* Answers *)

(* What a process told a call it still has, or else finds in its directory. *)
StillKept(p) ==
  Exists(told[p]) =>
    IF Exists(mem[p])
    THEN NotOlder(mem[p].dates, told[p].dates)
    ELSE Alone /\ disk.kind = "good" /\ NotOlder(disk.dates, told[p].dates)

ToldIsKept == \A p \in Process : StillKept(p)

BarsWereTold ==
  \A t \in Task : Exists(call[t].bar) =>
    /\ Exists(told[Owner[t]])
    /\ NotOlder(told[Owner[t]].dates, call[t].bar.dates)

CarriesAttached ==
  \A t \in Task : pc[t] = "on_hand" => call[t].attached \in Attached

ReadsInv == ToldIsKept /\ BarsWereTold /\ CarriesAttached

ReadsForward ==
  \A t \in Task :
    /\ pc[t] # "idle" /\ pc'[t] = "idle"
    /\ answer'[t].from # "none"
    /\ ~(pc[t] = "on_hand" /\ call[t].attached = NoFile)
    /\ Exists(call[t].bar)
    => NotOlder(answer'[t].dates, call[t].bar.dates)

ReadsStep == ReadsForward /\ ReadsInv'

LEMMA InitReadsInv == Init => ReadsInv
  BY DEF Init, ReadsInv, ToldIsKept, StillKept, BarsWereTold, CarriesAttached,
         Exists, NoCopy,
         Blank

(* The calls S of p are given a copy that is not older than what the       *)
(* process told before.                                                    *)
LEMMA SettleReads ==
  ASSUME TypeInv, BarsWereTold, CarriesAttached, NEW p \in Process,
         NEW S \in SUBSET Task, \A u \in S : Owner[u] = p,
         NEW c \in Copy, Settle(S, p, c),
         Exists(told[p]) => NotOlder(c.dates, told[p].dates)
  PROVE  /\ ReadsForward /\ BarsWereTold' /\ CarriesAttached'
         /\ NotOlder(c.dates, told'[p].dates)
         /\ \A q \in Process \ {p} : told'[q] = told[q]
<1>0. /\ pc \in [Task -> Stages] /\ call \in [Task -> Call]
      /\ told \in [Process -> MaybeCopy] /\ Owner \in [Task -> Process]
      /\ c \in MaybeCopy /\ Exists(c) /\ c.dates \in Dates
  BY TypeParts, StoreAssumption, CopyTypes, DatesOfCopies
     DEF CallsInv, CallsTyped, MaybeCopy
<1>1. /\ pc' = [u \in Task |-> IF u \in S THEN "idle" ELSE pc[u]]
      /\ call' = [u \in Task |-> IF u \in S THEN Blank ELSE call[u]]
      /\ answer' = [u \in Task |->
                      IF u \in S THEN Ok(Newer(call[u].best, c)) ELSE NoAnswer]
      /\ told' = [told EXCEPT ![p] = Newer(told[p], c)]
  BY DEF Settle
<1>2. /\ told[p] \in MaybeCopy /\ told'[p] = Newer(told[p], c)
      /\ told'[p] \in MaybeCopy
  BY <1>0, <1>1, NewerIsOneOfTwo
<1>3. NotOlder(c.dates, told'[p].dates)
  BY <1>0, <1>2, OrderOfDates DEF Newer
<1>4. \A q \in Process : Exists(told[q]) =>
        Exists(told'[q]) /\ NotOlder(told'[q].dates, told[q].dates)
  <2>1. \A q \in Process : NotOlder(told[q].dates, told[q].dates)
    BY <1>0, DatesOfCopies, OrderOfDates
  <2>. QED BY <1>0, <1>1, <1>2, <2>1, NewerIsNotOlder
<1>5. \A u \in Task : /\ call[u].bar \in MaybeCopy /\ call[u].bar.dates \in Dates
                      /\ call[u].best \in MaybeCopy
  <2>1. \A u \in Task : call[u].bar \in MaybeCopy /\ call[u].best \in MaybeCopy
    BY <1>0 DEF Call, MaybeCopy
  <2>. QED BY <2>1, DatesOfCopies
<1>6. BarsWereTold'
  <2>1. \A q \in Process : told[q].dates \in Dates /\ told'[q].dates \in Dates
    BY <1>0, <1>1, <1>2, DatesOfCopies
  <2>2. \A u \in Task : call'[u].bar = call[u].bar \/ ~Exists(call'[u].bar)
    BY <1>1 DEF Blank, NoCopy, Exists
  <2>. QED BY <1>0, <1>4, <1>5, <2>1, <2>2, OrderOfDates DEF BarsWereTold
<1>7. CarriesAttached'
  BY <1>1 DEF CarriesAttached
<1>8. ReadsForward
  <2>. SUFFICES ASSUME NEW u \in Task, pc[u] # "idle", pc'[u] = "idle",
                       Exists(call[u].bar)
                PROVE  NotOlder(answer'[u].dates, call[u].bar.dates)
    BY DEF ReadsForward
  <2>1. u \in S
    BY <1>1
  <2>. DEFINE a == Newer(call[u].best, c)
  <2>2. NotOlder(a.dates, c.dates) /\ a \in MaybeCopy
    BY <1>0, <1>5, NewerIsNotOlder, NewerIsOneOfTwo
  <2>3. answer'[u].dates = a.dates
    BY <1>1, <2>1 DEF Ok
  <2>4. Exists(told[p]) /\ NotOlder(told[p].dates, call[u].bar.dates)
    BY <2>1 DEF BarsWereTold
  <2>5. a.dates \in Dates /\ told[p].dates \in Dates
    BY <1>2, <2>2, DatesOfCopies
  <2>. HIDE DEF a
  <2>. QED BY <1>0, <1>5, <2>2, <2>3, <2>4, <2>5, OrderOfDates
<1>. QED BY <1>0, <1>1, <1>3, <1>6, <1>7, <1>8

(* A step in which the store tells nothing: the calls that end return      *)
(* nothing, or were told nothing before.                                   *)
SilentStep ==
  /\ told' = told
  /\ \A t \in Task :
       \/ pc[t] = "idle" \/ pc'[t] # "idle" \/ answer'[t].from = "none"
       \/ pc[t] = "on_hand" /\ call[t].attached = NoFile
       \/ ~Exists(told[Owner[t]])
  /\ \A t \in Task :
       call'[t].bar = call[t].bar \/ call'[t].bar \in {NoCopy, told[Owner[t]]}
  /\ \A t \in Task : pc'[t] = "on_hand" =>
       \/ pc[t] = "on_hand" /\ call'[t] = call[t]
       \/ call'[t].attached \in Attached

LEMMA SilenceReads ==
  ASSUME TypeInv, BarsWereTold, CarriesAttached, SilentStep
  PROVE  ReadsForward /\ BarsWereTold' /\ CarriesAttached'
<1>0. Owner \in [Task -> Process] /\ told \in [Process -> MaybeCopy]
  BY TypeParts, StoreAssumption DEF CallsInv, CallsTyped
<1>1. ReadsForward
  BY DEF ReadsForward, SilentStep, BarsWereTold
<1>2. CarriesAttached'
  BY DEF CarriesAttached, SilentStep
<1>3. BarsWereTold'
  <2>1. \A p \in Process : NotOlder(told[p].dates, told[p].dates)
    BY <1>0, DatesOfCopies, OrderOfDates
  <2>2. ~Exists(NoCopy)
    BY DEF Exists, NoCopy
  <2>. QED BY <1>0, <2>1, <2>2 DEF BarsWereTold, SilentStep
<1>. QED BY <1>1, <1>2, <1>3

(* What was told is still kept when memory and disk do not go back.        *)
LEMMA KeepingReads ==
  ASSUME TypeInv, TypeInv', ToldIsKept, NEW p \in Process, told'[p] = told[p],
         Exists(mem[p]) => Exists(mem'[p]) /\ NotOlder(mem'[p].dates, mem[p].dates),
         ~Exists(mem[p]) => ~Exists(mem'[p]),
         Alone /\ disk.kind = "good" =>
           disk'.kind = "good" /\ NotOlder(disk'.dates, disk.dates)
  PROVE  StillKept(p)'
<1>1. /\ mem[p].dates \in Dates /\ told[p].dates \in Dates /\ disk.dates \in Dates
      /\ mem'[p].dates \in Dates /\ disk'.dates \in Dates
  <2>1. StoreTyped /\ CallsTyped /\ StoreTyped'
    BY TypeParts, PTL DEF CallsInv
  <2>. QED BY <2>1, DatesOfCopies DEF StoreTyped, CallsTyped
<1>. QED BY <1>1, OrderOfDates DEF ToldIsKept, StillKept

(* What a process has cached is the entry in memory, else the file.        *)
LEMMA CachedIs ==
  ASSUME TypeInv, NEW p \in Process
  PROVE  /\ Cached(p) \in MaybeCopy
         /\ Exists(mem[p]) => /\ Exists(Cached(p)) /\ Cached(p).dates = mem[p].dates
                              /\ Cached(p).from = "memory"
         /\ ~Exists(mem[p]) =>
              /\ Exists(Cached(p)) <=> disk.kind = "good"
              /\ disk.kind = "good" => Cached(p).dates = disk.dates
<1>0. mem[p] \in MaybeEntry /\ disk \in Response
  BY TypeParts DEF StoreTyped
<1>1. CASE Exists(mem[p])
  <2>1. Cached(p) = InMemory(mem[p])
    BY <1>1 DEF Cached
  <2>2. InMemory(mem[p]) \in Copy
    BY <1>0, <1>1, CopyTypes
  <2>. QED BY <1>1, <2>1, <2>2 DEF MaybeCopy, InMemory, Exists
<1>2. CASE ~Exists(mem[p])
  <2>1. Cached(p) = CopyFrom(disk, "disk")
    BY <1>2 DEF Cached
  <2>. QED BY <1>0, <1>2, <2>1, FilesAsCopies, CopyTypes DEF Source
<1>. QED BY <1>1, <1>2

(* The copy on hand is the context's own when nothing is attached, and     *)
(* otherwise not older than what the process has cached.                   *)
LEMMA OnHandIs ==
  ASSUME TypeInv, NEW p \in Process, NEW held \in Response,
         NEW attached \in Response, NEW best, best = OnHand(p, held, attached)
  PROVE  /\ best \in MaybeCopy
         /\ attached = NoFile => best = CopyFrom(held, "held")
         /\ attached # NoFile /\ Exists(Cached(p)) =>
              Exists(best) /\ NotOlder(best.dates, Cached(p).dates)
         /\ best.from \in {"memory", "disk"} =>
              attached # NoFile /\ best = Cached(p) /\ Exists(Cached(p))
<1>. DEFINE h == CopyFrom(held, "held")
            k == IF attached.kind = "none" THEN NoCopy ELSE Cached(p)
            a == CopyFrom(attached, "attached")
<1>1. attached.kind = "none" <=> attached = NoFile
  BY DEF Response, NoFile, BadFile, File
<1>2. /\ h \in MaybeCopy /\ a \in MaybeCopy /\ k \in MaybeCopy
      /\ h.from \in {"held", "none"} /\ a.from \in {"attached", "none"}
      /\ attached = NoFile => ~Exists(a)
  BY CachedIs, CopyTypes DEF CopyFrom, NoCopy, NoFile, Source
<1>3. best = Newer(Newer(h, k), a)
  BY DEF OnHand
<1>4. attached = NoFile => k = NoCopy
  BY <1>1
<1>5. attached # NoFile => k = Cached(p)
  BY <1>1
<1>. HIDE DEF h, k, a
<1>6. /\ Newer(h, k) \in MaybeCopy /\ best \in MaybeCopy
      /\ Newer(h, k) \in {h, k} /\ best \in {h, k, a}
  BY <1>2, <1>3, NewerIsOneOfTwo
<1>7. attached = NoFile => best = h
  BY <1>2, <1>3, <1>4, CopyTypes DEF Newer, Exists, MaybeCopy, NoCopy
<1>8. Exists(k) => Exists(best) /\ NotOlder(best.dates, k.dates)
  <2>1. Exists(k) => Exists(Newer(h, k)) /\ NotOlder(Newer(h, k).dates, k.dates)
    BY <1>2, NewerIsNotOlder
  <2>2. Exists(Newer(h, k)) =>
          Exists(best) /\ NotOlder(best.dates, Newer(h, k).dates)
    BY <1>2, <1>3, <1>6, NewerIsNotOlder
  <2>3. k.dates \in Dates /\ best.dates \in Dates /\ Newer(h, k).dates \in Dates
    BY <1>2, <1>6, DatesOfCopies
  <2>. QED BY <2>1, <2>2, <2>3, OrderOfDates
<1>9. best.from \in {"memory", "disk"} => best = k /\ Exists(k)
  BY <1>2, <1>6 DEF Exists
<1>10. best.from \in {"memory", "disk"} => attached # NoFile
  BY <1>4, <1>9, CopyTypes
<1>. QED BY <1>5, <1>6, <1>7, <1>8, <1>9, <1>10 DEF h

LEMMA StepReads ==
  ASSUME Alone \/ Attached \subseteq {NoFile}, IInv, Alone => DiskInv, ReadsInv,
         NEW t \in Task, Lookup(t) \/ ForceRefresh(t) \/ Step(t)
  PROVE  ReadsStep
<1>. DEFINE p == Owner[t]
<1>0. /\ TypeInv /\ LockInv /\ CallsInv /\ StoreTyped /\ TypeInv'
      /\ pc \in [Task -> Stages] /\ call \in [Task -> Call]
      /\ Owner \in [Task -> Process] /\ p \in Process /\ call[t] \in Call
      /\ mem \in [Process -> MaybeEntry] /\ mem[p] \in MaybeEntry
      /\ disk \in Response /\ told \in [Process -> MaybeCopy]
      /\ ToldIsKept /\ BarsWereTold /\ CarriesAttached
  BY TypeParts, StepTypeInv, StoreAssumption
     DEF IInv, CallsInv, CallsTyped, StoreTyped, ReadsInv
<1>a. Alone /\ disk.kind = "good" =>
        disk'.kind = "good" /\ NotOlder(disk'.dates, disk.dates)
  BY StepDiskInv DEF DiskStep
<1>b. ASSUME NEW q \in Process, told'[q] = told[q],
             ~Exists(mem[q]) => ~Exists(mem'[q])
      PROVE  StillKept(q)'
  BY <1>0, <1>a, <1>b, KeepingReads, StepKeepsMemory
(* The store tells nothing, and fills no memory that was empty.            *)
<1>c. ASSUME SilentStep, \A q \in Process : ~Exists(mem[q]) => ~Exists(mem'[q])
      PROVE  ReadsStep
  <2>1. ToldIsKept'
    BY <1>0, <1>b, <1>c DEF SilentStep, ToldIsKept
  <2>. QED BY <1>0, <1>c, <2>1, SilenceReads DEF ReadsStep, ReadsInv
(* The store tells calls of p what is now in memory.                       *)
<1>d. ASSUME NEW S, S \subseteq {u \in Task : Owner[u] = p}, NEW c \in Copy,
             Settle(S, p, c), Exists(told[p]) => NotOlder(c.dates, told[p].dates),
             Exists(mem'[p]), mem'[p].dates = c.dates,
             \A q \in Process \ {p} : mem'[q] = mem[q]
      PROVE  ReadsStep
  <2>1. /\ ReadsForward /\ BarsWereTold' /\ CarriesAttached'
        /\ NotOlder(c.dates, told'[p].dates)
        /\ \A q \in Process \ {p} : told'[q] = told[q]
    BY <1>0, <1>d, SettleReads
  <2>2. ToldIsKept'
    <3>1. StillKept(p)'
      BY <1>d, <2>1 DEF StillKept
    <3>2. \A q \in Process \ {p} : StillKept(q)'
      BY <1>b, <1>d, <2>1
    <3>. QED BY <3>1, <3>2 DEF ToldIsKept
  <2>. QED BY <2>1, <2>2 DEF ReadsStep, ReadsInv
<1>e. ASSUME NEW c, c.dates = mem[p].dates, Exists(mem[p]), Exists(told[p])
      PROVE  NotOlder(c.dates, told[p].dates)
  BY <1>0, <1>e DEF ToldIsKept, StillKept
<1>f. ASSUME mem' = mem, NEW stage, stage \notin {"idle", "on_hand"},
             pc' = [pc EXCEPT ![t] = stage], told' = told,
             \A u \in Task \ {t} : call'[u] = call[u],
             call'[t].bar \in {call[t].bar, NoCopy}
      PROVE  ReadsStep
  <2>1. SilentStep
    BY <1>0, <1>f DEF SilentStep
  <2>. QED BY <1>c, <1>f, <2>1
<1>g. ASSUME NEW a, a.from = "none", Return(t, a), Exists(mem[p]) \/ mem' = mem,
             \A q \in Process \ {p} : mem'[q] = mem[q]
      PROVE  ReadsStep
  <2>1. Blank.bar = NoCopy
    BY DEF Blank
  <2>2. SilentStep
    BY <1>0, <1>g, <2>1 DEF SilentStep, Return, NoAnswers
  <2>. QED BY <1>c, <1>g, <2>2
<1>h. /\ Ok(NoCopy).from = "none" /\ \A f : Error(f).from = "none"
      /\ {t} \subseteq {u \in Task : Owner[u] = p}
      /\ {t} \cup Waiting(p) \subseteq {u \in Task : Owner[u] = p}
  BY DEF Ok, NoCopy, Error, Waiting
<1>i. ASSUME mem' = mem, NEW stage, stage \notin {"idle", "on_hand"},
             NEW r \in Call, r.bar = call[t].bar, Continue(t, stage, r)
      PROVE  ReadsStep
  <2>1. call' = [call EXCEPT ![t] = r] /\ pc' = [pc EXCEPT ![t] = stage] /\ told' = told
    BY <1>i DEF Continue
  <2>. QED BY <1>0, <1>f, <1>i, <2>1
<1>j. ASSUME mem' = mem, NEW fetching, NEW fetched, NEW r \in Call,
             {fetching, fetched} \cap {"idle", "on_hand"} = {},
             r.bar = call[t].bar, Ask(t, fetching, fetched, r)
      PROVE  ReadsStep
  <2>1. CASE Continue(t, fetching, r)
    BY <1>i, <1>j, <2>1
  <2>2. ASSUME NEW f \in Failure, Continue(t, fetched, [r EXCEPT !.why = f])
        PROVE  ReadsStep
    <3>1. /\ call' = [call EXCEPT ![t] = [r EXCEPT !.why = f]]
          /\ pc' = [pc EXCEPT ![t] = fetched] /\ told' = told
      BY <2>2 DEF Continue
    <3>2. call'[t].bar = r.bar
      BY <1>0, <3>1 DEF Call
    <3>. QED BY <1>0, <1>f, <1>j, <3>1, <3>2
  <2>3. failed[p] # "none" => failed[p] \in Failure
    BY <1>0 DEF StoreTyped, Failure
  <2>. QED BY <1>j, <2>1, <2>2, <2>3 DEF Ask, Failure
<1>k. ASSUME mem' = mem, NEW stage, stage \notin {"idle", "on_hand"}, NEW d,
             Continue(t, stage, [call[t] EXCEPT !.got = d])
      PROVE  ReadsStep
  <2>1. /\ call' = [call EXCEPT ![t] = [call[t] EXCEPT !.got = d]]
        /\ pc' = [pc EXCEPT ![t] = stage] /\ told' = told
    BY <1>k DEF Continue
  <2>2. call'[t].bar = call[t].bar
    BY <1>0, <2>1 DEF Call
  <2>. QED BY <1>0, <1>f, <1>k, <2>1, <2>2
<1>. HIDE DEF p
<1>1. CASE Lookup(t)
  <2>1. PICK held \in Held, attached \in Attached :
          Continue(t, "on_hand",
            [Blank EXCEPT !.at = now, !.held = held, !.attached = attached,
                          !.bar = told[Owner[t]]])
    BY <1>1 DEF Lookup
  <2>2. mem' = mem
    BY <1>1 DEF Lookup
  <2>3. SilentStep
    BY <1>0, <2>1 DEF SilentStep, Continue, Blank
  <2>. QED BY <1>c, <2>2, <2>3
<1>2. CASE ForceRefresh(t)
  <2>1. mem' = mem
    BY <1>2 DEF ForceRefresh
  <2>2. \A e : Continue(t, "refresh", [Blank EXCEPT !.at = now, !.force = TRUE,
                                                  !.seen = e]) => ReadsStep
    BY <1>0, <1>f, <2>1 DEF Blank, Continue
  <2>3. Return(t, Ok(NoCopy)) => ReadsStep
    BY <1>g, <1>h, <2>1
  <2>. QED BY <1>2, <2>2, <2>3 DEF ForceRefresh
<1>3. CASE ReadEntry(t)
  <2>1. mem' = mem
    BY <1>3 DEF ReadEntry
  <2>2. CASE Exists(mem[p]) /\ Settle({t}, p, InMemory(mem[p]))
    BY <1>0, <1>d, <1>e, <1>h, <2>1, <2>2, CopyTypes DEF InMemory
  <2>3. Continue(t, "load", call[t]) => ReadsStep
    BY <1>0, <1>i, <2>1
  <2>4. ASSUME NEW e, Continue(t, "refresh", [call[t] EXCEPT !.seen = e])
        PROVE  ReadsStep
    <3>1. /\ call' = [call EXCEPT ![t] = [call[t] EXCEPT !.seen = e]]
          /\ pc' = [pc EXCEPT ![t] = "refresh"] /\ told' = told
      BY <2>4 DEF Continue
    <3>2. call'[t].bar = call[t].bar
      BY <1>0, <3>1 DEF Call
    <3>. QED BY <1>0, <1>f, <2>1, <3>1, <3>2
  <2>. QED BY <1>3, <2>2, <2>3, <2>4 DEF ReadEntry, p
<1>4. CASE BeginLoad(t)
  <2>1. mem' = mem
    BY <1>4 DEF BeginLoad
  <2>2. CASE Exists(mem[p]) /\ Settle({t}, p, CopyOf(mem[p]))
    BY <1>0, <1>d, <1>e, <1>h, <2>1, <2>2, CopyTypes DEF CopyOf
  <2>3. \A d : Continue(t, "load_insert", [call[t] EXCEPT !.got = d]) => ReadsStep
    BY <1>k, <2>1
  <2>4. \A d \in MaybeCopy :
          Ask(t, "load_fetch", "load_fetched", [call[t] EXCEPT !.prior = d]) =>
            ReadsStep
    <3>1. \A d \in MaybeCopy : [call[t] EXCEPT !.prior = d].bar = call[t].bar
      BY <1>0 DEF Call
    <3>2. \A d \in MaybeCopy : [call[t] EXCEPT !.prior = d] \in Call
      BY <1>0, NotesType
    <3>. QED BY <1>0, <1>j, <2>1, <3>1, <3>2 DEF Call
  <2>5. CopyFrom(disk, "disk") \in MaybeCopy
    BY <1>0, CopyTypes DEF Source
  <2>. QED BY <1>4, <2>2, <2>3, <2>4, <2>5 DEF BeginLoad, p
<1>5. CASE JoinLoad(t)
  BY <1>0, <1>i, <1>5 DEF JoinLoad
(* Nothing on hand and nothing told: a load that fails has found no file   *)
(* it could have told of.                                                  *)
<1>6. CASE FinishLoad(t)
  <2>1. /\ mem' = mem /\ pc[t] = "load_fetched"
    BY <1>6 DEF FinishLoad
  <2>2. Continue(t, "load_insert", call[t]) => ReadsStep
    BY <1>0, <1>i, <2>1
  <2>3. ASSUME NEW d, Continue(t, "load_insert", [call[t] EXCEPT !.got = d])
        PROVE  ReadsStep
    <3>. QED BY <1>k, <2>1, <2>3
  <2>4. ASSUME ~Exists(call[t].prior), Refuse({t} \cup Waiting(p), call[t].why)
        PROVE  ReadsStep
    <3>1. ~Exists(mem[p])
      BY <1>0, <2>1 DEF LockInv, LoadsMeetNoEntry, Loading, p
    <3>2. Alone => disk.kind # "good"
      <4>1. Alone => call[t].prior = CopyFrom(disk, "disk")
        BY <2>1 DEF DiskInv, LoadsReadTheDisk
      <4>. QED BY <1>0, <2>4, <4>1, FilesAsCopies DEF Source
    <3>3. ~Exists(told[p])
      BY <1>0, <3>1, <3>2 DEF ToldIsKept, StillKept
    <3>4. /\ told' = told
          /\ \A u \in Task : \/ pc'[u] = pc[u] /\ call'[u] = call[u]
                             \/ /\ Owner[u] = p /\ pc'[u] = "idle"
                                /\ call'[u].bar = NoCopy
      BY <1>0, <1>h, <2>4 DEF Refuse, Blank
    <3>5. SilentStep
      BY <3>3, <3>4 DEF SilentStep
    <3>. QED BY <1>c, <2>1, <3>5
  <2>. QED BY <1>6, <2>2, <2>3, <2>4 DEF FinishLoad, p
<1>7. CASE InsertLoaded(t)
  <2>1. PICK e \in NewEntries(call[t].got) : mem' = [mem EXCEPT ![p] = e]
    BY <1>7 DEF InsertLoaded, p
  <2>2. /\ call[t].got \in Copy /\ Exists(call[t].got) /\ call[t].got \in MaybeCopy
        /\ ~Exists(mem[p]) /\ pc[t] = "load_insert"
    BY <1>0, <1>7, CopyTypes
       DEF InsertLoaded, LockInv, PutsAreCopies, LoadsMeetNoEntry, Loading, Call,
           MaybeCopy, p
  <2>3. Exists(mem'[p]) /\ mem'[p].dates = call[t].got.dates
    BY <1>0, <2>1, <2>2, NewEntriesType
  <2>4. ASSUME Exists(told[p]) PROVE NotOlder(call[t].got.dates, told[p].dates)
    <3>1. Alone /\ disk.kind = "good" /\ NotOlder(disk.dates, told[p].dates)
      BY <1>0, <2>2, <2>4 DEF ToldIsKept, StillKept
    <3>2. NotOlder(call[t].got.dates, disk.dates)
      BY <2>2, <3>1 DEF DiskInv, PutsKeepUp, Saved
    <3>3. /\ call[t].got.dates \in Dates /\ disk.dates \in Dates
          /\ told[p].dates \in Dates
      BY <1>0, <2>2, DatesOfCopies
    <3>. QED BY <3>1, <3>2, <3>3, OrderOfDates
  <2>5. Settle({t} \cup Waiting(p), p, call[t].got)
    BY <1>7 DEF InsertLoaded, p
  <2>. QED BY <1>0, <1>d, <1>h, <2>1, <2>2, <2>3, <2>4, <2>5
<1>8. CASE BeginRefresh(t)
  <2>1. mem' = mem /\ Exists(mem[p])
    BY <1>0, <1>8 DEF BeginRefresh, LockInv, RefreshesMeetTheirEntry, p
  <2>2. CASE Settle({t}, p, InMemory(mem[p]))
    BY <1>0, <1>d, <1>e, <1>h, <2>1, <2>2, CopyTypes DEF InMemory
  <2>3. CASE Return(t, Ok(NoCopy))
    BY <1>g, <1>h, <2>1, <2>3
  <2>4. CASE Ask(t, "refresh_fetch", "refresh_fetched",
                 [call[t] EXCEPT !.seen = mem[p], !.prior = CopyOf(mem[p])])
    <3>1. CopyOf(mem[p]) \in MaybeCopy
      BY <1>0, <2>1, CopyTypes DEF MaybeCopy
    <3>2. [call[t] EXCEPT !.seen = mem[p], !.prior = CopyOf(mem[p])] \in Call
      BY <1>0, <3>1, NotesType
    <3>. DEFINE r == [call[t] EXCEPT !.seen = mem[p], !.prior = CopyOf(mem[p])]
    <3>3. r.bar = call[t].bar
      BY <1>0 DEF Call
    <3>4. r \in Call /\ Ask(t, "refresh_fetch", "refresh_fetched", r)
      BY <2>4, <3>2
    <3>. HIDE DEF r
    <3>. QED BY <1>j, <2>1, <3>3, <3>4
  <2>. QED BY <1>8, <2>1, <2>2, <2>3, <2>4 DEF BeginRefresh, p
<1>9. CASE FinishRefresh(t)
  <2>1. /\ Exists(mem[p]) /\ Exists(call[t].prior) /\ call[t].seen \in Entry
        /\ call[t].seen.dates = mem[p].dates
    BY <1>0, <1>9, CopyTypes
       DEF FinishRefresh, Refreshing, LockInv, RefreshesMeetTheirEntry, Call,
           MaybeEntry, p
  <2>2. CASE mem' = mem /\ Continue(t, "refresh_put", call[t])
    BY <1>0, <1>i, <2>2
  <2>3. CASE mem' = [mem EXCEPT ![p] = [call[t].seen EXCEPT !.age = "fresh"]]
    <3>1. /\ Exists(mem'[p]) /\ mem'[p].dates = call[t].seen.dates
          /\ \A q \in Process \ {p} : mem'[q] = mem[q]
      BY <1>0, <2>1, <2>3, CopyTypes DEF Entry, Exists, MaybeEntry
    <3>2. CASE Settle({t}, p, InMemory(call[t].seen))
      <4>1. /\ InMemory(call[t].seen) \in Copy
            /\ InMemory(call[t].seen).dates = mem[p].dates
        BY <2>1, CopyTypes DEF InMemory
      <4>. QED BY <1>d, <1>e, <1>h, <2>1, <3>1, <3>2, <4>1
    <3>3. CASE Return(t, IF call[t].why = "none" THEN Ok(NoCopy)
                                                 ELSE Error(call[t].why))
      BY <1>g, <1>h, <2>1, <3>1, <3>3
    <3>4. Continue(t, "refresh_put", call[t]) /\ mem' = mem => ReadsStep
      BY <2>2
    <3>. QED BY <1>9, <3>2, <3>3, <3>4 DEF FinishRefresh, p
  <2>. QED BY <1>9, <2>1, <2>2, <2>3 DEF FinishRefresh, p
<1>10. CASE PutRefreshed(t)
  <2>1. PICK e \in NewEntries(call[t].got) : mem' = [mem EXCEPT ![p] = e]
    BY <1>10 DEF PutRefreshed, p
  <2>2. /\ call[t].got \in Copy /\ call[t].got \in MaybeCopy
        /\ Exists(call[t].got) /\ Exists(mem[p])
        /\ NotOlder(call[t].got.dates, mem[p].dates)
    BY <1>0, <1>10, CopyTypes
       DEF PutRefreshed, LockInv, PutsAreCopies, RefreshesMeetTheirEntry,
           Refreshing, Call, MaybeCopy, p
  <2>3. /\ Exists(mem'[p]) /\ mem'[p].dates = call[t].got.dates
        /\ \A q \in Process \ {p} : mem'[q] = mem[q]
    BY <1>0, <2>1, <2>2, NewEntriesType
  <2>4. ASSUME Exists(told[p]) PROVE NotOlder(call[t].got.dates, told[p].dates)
    <3>1. NotOlder(mem[p].dates, told[p].dates)
      BY <1>e, <2>2, <2>4
    <3>2. /\ call[t].got.dates \in Dates /\ mem[p].dates \in Dates
          /\ told[p].dates \in Dates
      BY <1>0, <2>2, DatesOfCopies
    <3>. QED BY <2>2, <3>1, <3>2, OrderOfDates
  <2>. QED BY <1>10, <1>d, <1>g, <1>h, <2>2, <2>3, <2>4 DEF PutRefreshed, p
<1>11. CASE UpstreamAnswers(t)
  <2>1. mem' = mem /\ Fetched(pc[t]) \notin {"idle", "on_hand"}
    BY <1>11 DEF UpstreamAnswers, Fetched
  <2>2. \/ \E f : Continue(t, Fetched(pc[t]), [call[t] EXCEPT !.why = f])
        \/ \E d : Continue(t, Fetched(pc[t]), [call[t] EXCEPT !.got = d])
    BY <1>11 DEF UpstreamAnswers
  <2>. QED BY <1>0, <1>f, <1>k, <2>1, <2>2 DEF Call, Continue
(* The newest of the copies on hand is not older than what was told: an     *)
(* attached piece is compared with the entry in memory, or with the file.   *)
<1>12. CASE LookOnHand(t)
  <2>. DEFINE c == call[t]
              best == OnHand(p, c.held, c.attached)
              k == Cached(p)
  <2>1. /\ mem' = mem /\ disk' = disk /\ pc[t] = "on_hand"
        /\ c.held \in Response /\ c.attached \in Attached /\ c.attached \in Response
        /\ told[p] \in MaybeCopy /\ told[p].dates \in Dates
    BY <1>0, <1>12, StoreAssumption, DatesOfCopies
       DEF LookOnHand, CarriesAttached, Call
  <2>2. /\ best \in MaybeCopy
        /\ c.attached # NoFile /\ Exists(k) =>
             Exists(best) /\ NotOlder(best.dates, k.dates)
        /\ best.from \in {"memory", "disk"} =>
             c.attached # NoFile /\ best = k /\ Exists(k)
    BY <1>0, <2>1, OnHandIs
  <2>3. CASE Return(t, Error("refused"))
    BY <1>g, <1>h, <2>1, <2>3
  <2>4. CASE Continue(t, "entry", [c EXCEPT !.held = NoFile, !.attached = NoFile,
                                            !.best = best])
    <3>1. /\ call' = [call EXCEPT ![t] = [c EXCEPT !.held = NoFile,
                                                   !.attached = NoFile, !.best = best]]
          /\ pc' = [pc EXCEPT ![t] = "entry"] /\ told' = told
      BY <2>4 DEF Continue
    <3>2. call'[t].bar = call[t].bar
      BY <1>0, <3>1 DEF Call
    <3>. QED BY <1>0, <1>f, <2>1, <3>1, <3>2
  <2>5. CASE /\ pc' = [pc EXCEPT ![t] = "idle"]
             /\ call' = [call EXCEPT ![t] = Blank]
             /\ answer' = [NoAnswers EXCEPT ![t] = Ok(best)]
             /\ told' = IF best.from \in {"memory", "disk"}
                        THEN [told EXCEPT ![p] = Newer(told[p], best)] ELSE told
    <3>1. CASE c.attached = NoFile
      <4>1. told' = told
        BY <2>2, <2>5, <3>1
      <4>2. Blank.bar = NoCopy
        BY DEF Blank
      <4>3. SilentStep
        BY <1>0, <2>1, <2>5, <3>1, <4>1, <4>2 DEF SilentStep
      <4>. QED BY <1>c, <2>1, <4>3
    <3>2. CASE c.attached # NoFile
      <4>1. Alone
        BY <2>1, <3>2
      <4>2. Exists(told[p]) => Exists(k) /\ NotOlder(k.dates, told[p].dates)
        BY <1>0, CachedIs DEF ToldIsKept, StillKept
      <4>3. /\ k \in MaybeCopy /\ k.dates \in Dates /\ best.dates \in Dates
        BY <1>0, <2>2, CachedIs, DatesOfCopies
      <4>. HIDE DEF c, best, k
      <4>4. /\ \A q \in Process \ {p} : told'[q] = told[q]
            /\ told'[p] \in {told[p], k}
            /\ told'[p] # told[p] => Exists(k)
            /\ Exists(told[p]) =>
                 Exists(told'[p]) /\ NotOlder(told'[p].dates, told[p].dates)
            /\ Exists(told'[p]) => Exists(k) /\ NotOlder(k.dates, told'[p].dates)
        <5>1. CASE best.from \in {"memory", "disk"}
          <6>1. best = k /\ told' = [told EXCEPT ![p] = Newer(told[p], k)]
            BY <2>2, <2>5, <5>1
          <6>. QED BY <1>0, <2>1, <2>2, <4>2, <4>3, <5>1, <6>1, NewerIsOneOfTwo,
                      NewerIsNotOlder, OrderOfDates
        <5>2. CASE best.from \notin {"memory", "disk"}
          BY <2>1, <2>5, <4>2, <5>2, OrderOfDates
        <5>. QED BY <5>1, <5>2
      <4>5. ToldIsKept'
        <5>1. \A q \in Process : q = p
          BY <1>0, <4>1 DEF Alone
        <5>2. StillKept(p)'
          BY <1>0, <2>1, <4>1, <4>4, CachedIs DEF StillKept, k
        <5>. QED BY <5>1, <5>2 DEF ToldIsKept
      <4>6. CarriesAttached'
        BY <1>0, <2>5 DEF CarriesAttached
      <4>7. BarsWereTold'
        <5>1. \A u \in Task : Owner[u] = p
          BY <1>0, <4>1 DEF Alone
        <5>2. \A u \in Task : Exists(call'[u].bar) => call'[u] = call[u]
          BY <1>0, <2>5 DEF Blank, NoCopy, Exists
        <5>3. \A u \in Task : call[u].bar.dates \in Dates
          <6>1. \A u \in Task : call[u].bar \in MaybeCopy
            BY <1>0 DEF Call, MaybeCopy
          <6>. QED BY <6>1, DatesOfCopies
        <5>4. told'[p].dates \in Dates
          BY <2>1, <4>3, <4>4
        <5>. QED BY <1>0, <2>1, <4>4, <5>1, <5>2, <5>3, <5>4, OrderOfDates
                 DEF BarsWereTold
      <4>8. ReadsForward
        <5>. SUFFICES ASSUME Exists(c.bar)
                      PROVE  NotOlder(answer'[t].dates, c.bar.dates)
          BY <1>0, <2>5 DEF ReadsForward, c
        <5>1. answer'[t].dates = best.dates
          BY <2>5 DEF NoAnswers, Ok
        <5>2. Exists(told[p]) /\ NotOlder(told[p].dates, c.bar.dates)
          BY <1>0 DEF BarsWereTold, c, p
        <5>3. c.bar.dates \in Dates
          <6>1. c.bar \in MaybeCopy
            BY <1>0 DEF Call, MaybeCopy, c
          <6>. QED BY <6>1, DatesOfCopies
        <5>. QED BY <2>1, <2>2, <3>2, <4>2, <4>3, <5>1, <5>2, <5>3, OrderOfDates
      <4>. QED BY <4>5, <4>6, <4>7, <4>8 DEF ReadsStep, ReadsInv
    <3>. QED BY <3>1, <3>2
  <2>. QED BY <1>12, <2>3, <2>4, <2>5 DEF LookOnHand, p
<1>. QED BY <1>1, <1>2, <1>3, <1>4, <1>5, <1>6, <1>7, <1>8, <1>9, <1>10, <1>11,
            <1>12 DEF Step

LEMMA OtherReads ==
  ASSUME ~MayEvict, IInv, Alone => DiskInv, ReadsInv,
         \/ \E t \in Task : DropCall(t)
         \/ \E p \in Process :
              Restart(p) \/ EntryAges(p) \/ FailureLapses(p) \/ Evict(p)
         \/ Tick \/ UNCHANGED vars,
         TypeInv'
  PROVE  ReadsStep
<1>0. /\ TypeInv /\ pc \in [Task -> Stages] /\ call \in [Task -> Call]
      /\ mem \in [Process -> MaybeEntry] /\ Owner \in [Task -> Process]
      /\ told \in [Process -> MaybeCopy]
      /\ ToldIsKept /\ BarsWereTold /\ CarriesAttached
      /\ Blank.bar = NoCopy /\ Error("dropped").from = "none"
  BY TypeParts, StoreAssumption
     DEF IInv, CallsInv, CallsTyped, StoreTyped, ReadsInv, Blank, Error
<1>1. /\ disk' = disk
      /\ NotOlder(disk.dates, disk.dates)
      /\ \A p \in Process : NotOlder(mem[p].dates, mem[p].dates)
  BY <1>0, TypeParts, DatesOfCopies, OrderOfDates
     DEF StoreTyped, DropCall, Restart, EntryAges, FailureLapses, Evict, Tick, vars
<1>2. ASSUME SilentStep,
             \A p \in Process : mem'[p].dates = mem[p].dates
                                /\ (Exists(mem'[p]) <=> Exists(mem[p]))
      PROVE  ReadsStep
  <2>1. ToldIsKept'
    BY <1>0, <1>1, <1>2, KeepingReads DEF SilentStep, ToldIsKept
  <2>. QED BY <1>0, <1>2, <2>1, SilenceReads DEF ReadsStep, ReadsInv
<1>3. ASSUME NEW t \in Task, DropCall(t) PROVE ReadsStep
  <2>1. SilentStep
    BY <1>0, <1>3 DEF SilentStep, DropCall, Abandoned, Waiting, NoAnswers
  <2>. QED BY <1>2, <1>3, <2>1 DEF DropCall
<1>4. ASSUME NEW p \in Process, EntryAges(p) PROVE ReadsStep
  <2>1. mem[p] \in Entry
    BY <1>0, <1>4, CopyTypes DEF EntryAges
  <2>2. \A q \in Process : mem'[q].dates = mem[q].dates
                           /\ (Exists(mem'[q]) <=> Exists(mem[q]))
    BY <1>0, <1>4, <2>1 DEF EntryAges, Entry, Exists
  <2>3. SilentStep
    BY <1>4 DEF SilentStep, EntryAges
  <2>. QED BY <1>2, <2>2, <2>3
<1>5. ASSUME mem' = mem, pc' = pc, call' = call, told' = told PROVE ReadsStep
  <2>1. SilentStep
    BY <1>5 DEF SilentStep
  <2>. QED BY <1>2, <1>5, <2>1
(* A process that starts anew has told nothing yet.                        *)
<1>6. ASSUME NEW p \in Process, Restart(p) PROVE ReadsStep
  <2>1. /\ told' = [told EXCEPT ![p] = NoCopy] /\ mem' = [mem EXCEPT ![p] = NoEntry]
        /\ \A u \in Task :
             IF Owner[u] = p
             THEN /\ pc'[u] = "idle" /\ call'[u].bar = NoCopy
                  /\ answer'[u].from = "none"
             ELSE pc'[u] = pc[u] /\ call'[u] = call[u]
    BY <1>0, <1>6 DEF Restart
  <2>2. ~Exists(NoCopy)
    BY DEF Exists, NoCopy
  <2>3. ReadsForward
    BY <2>1 DEF ReadsForward
  <2>4. BarsWereTold' /\ CarriesAttached'
    BY <1>0, <2>1, <2>2 DEF BarsWereTold, CarriesAttached
  <2>5. ToldIsKept'
    BY <1>0, <1>1, <2>1, <2>2 DEF ToldIsKept, StillKept
  <2>. QED BY <2>3, <2>4, <2>5 DEF ReadsStep, ReadsInv
<1>. QED BY <1>3, <1>4, <1>5, <1>6 DEF FailureLapses, Evict, Tick, vars

(* A call never returns a copy older than one an earlier call of the same   *)
(* process was told, whatever is attached to the evidence and whatever      *)
(* other calls do meanwhile (store.rs:302-340, 359), as long as nothing is  *)
(* evicted and the process has the cache directory to itself, or no         *)
(* evidence carries a copy of its own: what was told is still in memory, or *)
(* was read from the file and nobody made that older.                       *)
THEOREM ReadsNeverGoBack ==
  ASSUME ~MayEvict, Alone \/ Attached \subseteq {NoFile}
  PROVE  Spec => MonotonicReads
<1>. DEFINE Inv == IInv /\ (Alone => DiskInv) /\ ReadsInv
<1>1. Init => Inv
  BY InitTypeInv, InitLockInv, InitDiskInv, InitReadsInv DEF IInv
<1>2. Inv /\ [Next]_vars => Inv' /\ [ReadsForward]_vars
  <2>. SUFFICES ASSUME Inv, [Next]_vars PROVE Inv' /\ ReadsForward
    OBVIOUS
  <2>1. IInv'
    BY NextIInv
  <2>2. Alone => DiskInv'
    BY NextDiskInv DEF DiskStep
  <2>3. ReadsStep
    BY <2>1, StepReads, OtherReads DEF IInv, Next
  <2>. QED BY <2>1, <2>2, <2>3 DEF ReadsStep
<1>. QED BY <1>1, <1>2, PTL DEF Spec, MonotonicReads, ReadsForward

----------------------------------------------------------------------------
(* The store keeps the promise of KeptPiece *)

(* The state of KeptPiece, as CollateralStore's Promise maps it.           *)
Keeps(p) == IF Exists(mem[p]) THEN mem[p].dates ELSE BadFile

Asks(p) == \E t \in Task : Owner[t] = p /\ pc[t] \in Fetching

Serves(t) ==
  IF answer[t].from \in {"none", "held"} THEN BadFile ELSE answer[t].dates

KeepsAll == \A p \in Process : Keeps(p)' = Keeps(p)

AsksAlike == \A p \in Process : Asks(p)' = Asks(p)

ServesNothing == \A t \in Task : Serves(t)' = BadFile

(* The calls answered are p's, with nothing older than what p now keeps.   *)
ServesWell(p) ==
  \A t \in Task : Serves(t)' # BadFile =>
    /\ Owner[t] = p
    /\ Serves(t)' \in Published
    /\ Keeps(p)' # BadFile => NotOlder(Serves(t)', Keeps(p)')

LEMMA MapsToAnswer ==
  ASSUME NEW p \in Process, KeepsAll, AsksAlike, ServesWell(p)
  PROVE  Promise!Next
<1>1. [t \in Task |-> Serves(t)'] \in [Task -> Published \cup {BadFile}]
  BY DEF ServesWell
<1>2. [q \in Process |-> Keeps(q)'] = [q \in Process |-> Keeps(q)]
  BY DEF KeepsAll
<1>3. [q \in Process |-> Asks(q)'] = [q \in Process |-> Asks(q)]
  BY DEF AsksAlike
<1>4. Promise!Serve(p)
  BY <1>1 DEF Promise!Serve, ServesWell, Serves, Keeps
<1>5. Promise!Answer(p)
  BY <1>2, <1>3, <1>4 DEF Promise!Answer, Keeps, Asks
<1>. QED BY <1>5 DEF Promise!Next

LEMMA MapsToKeep ==
  ASSUME NEW p \in Process, NEW d \in Published, Keeps(p)' = d,
         Keeps(p) # BadFile => NotOlder(d, Keeps(p)),
         \A q \in Process \ {p} : Keeps(q)' = Keeps(q), AsksAlike, ServesWell(p)
  PROVE  Promise!Next
<1>1. [t \in Task |-> Serves(t)'] \in [Task -> Published \cup {BadFile}]
  BY DEF ServesWell
<1>2. [q \in Process |-> Keeps(q)'] = [[q \in Process |-> Keeps(q)] EXCEPT ![p] = d]
  OBVIOUS
<1>3. [q \in Process |-> Asks(q)'] = [q \in Process |-> Asks(q)]
  BY DEF AsksAlike
<1>4. Promise!Serve(p)
  BY <1>1 DEF Promise!Serve, ServesWell, Serves, Keeps
<1>5. Promise!Keep(p)
  BY <1>2, <1>3, <1>4 DEF Promise!Keep, Keeps, Asks
<1>. QED BY <1>5 DEF Promise!Next

(* The asking of p alone changes, to a, and nobody is answered.            *)
AsksNow(p, a) ==
  [q \in Process |-> Asks(q)'] = [[q \in Process |-> Asks(q)] EXCEPT ![p] = a]

LEMMA MapsToAsking ==
  ASSUME NEW p \in Process, KeepsAll, ServesNothing,
         \/ ~Asks(p) /\ AsksNow(p, TRUE)
         \/ Asks(p) /\ AsksNow(p, FALSE)
  PROVE  Promise!Next
<1>1. [q \in Process |-> Keeps(q)'] = [q \in Process |-> Keeps(q)]
  BY DEF KeepsAll
<1>2. [t \in Task |-> Serves(t)'] = [t \in Task |-> BadFile]
  BY DEF ServesNothing
<1>3. CASE ~Asks(p) /\ AsksNow(p, TRUE)
  <2>1. Promise!Ask(p)
    BY <1>1, <1>2, <1>3
       DEF Promise!Ask, Promise!NothingServed, AsksNow, Keeps, Asks, Serves
  <2>. QED BY <2>1 DEF Promise!Next
<1>4. CASE Asks(p) /\ AsksNow(p, FALSE)
  <2>1. Promise!EndAsking(p)
    BY <1>1, <1>2, <1>4
       DEF Promise!EndAsking, Promise!NothingServed, AsksNow, Keeps, Asks, Serves
  <2>. QED BY <2>1 DEF Promise!Next
<1>. QED BY <1>3, <1>4

LEMMA MapsToEnd ==
  ASSUME NEW p \in Process, ServesNothing, AsksNow(p, FALSE), Keeps(p)' = BadFile,
         \A q \in Process \ {p} : Keeps(q)' = Keeps(q)
  PROVE  Promise!Next
<1>1. [q \in Process |-> Keeps(q)'] =
        [[q \in Process |-> Keeps(q)] EXCEPT ![p] = BadFile]
  OBVIOUS
<1>2. [t \in Task |-> Serves(t)'] = [t \in Task |-> BadFile]
  BY DEF ServesNothing
<1>3. Promise!End(p)
  BY <1>1, <1>2
     DEF Promise!End, Promise!NothingServed, AsksNow, Keeps, Asks, Serves
<1>. QED BY <1>3 DEF Promise!Next


----------------------------------------------------------------------------
(* Every step of the store is a step of the promise *)

LEMMA EditionsAreDates ==
  /\ BadFile \notin Published
  /\ \A c \in MaybeCopy : Exists(c) => c.dates \in Published
  /\ \A e \in MaybeEntry : Exists(e) => e.dates \in Published
<1>1. BadFile \notin Dates
  BY DEF BadFile, Dates
<1>2. Published \subseteq Dates
  BY StoreAssumption
<1>3. \A c \in Copy : c.dates \in Published
  BY DEF Copy
<1>4. \A e \in Entry : e.dates \in Published
  BY DEF Entry
<1>. QED BY <1>1, <1>2, <1>3, <1>4, CopyTypes

LEMMA OneIsFetching == LockInv => SingleFlight
  BY DEF LockInv, OneLoader, OneRefresher, LoadsMeetNoEntry,
         RefreshesMeetTheirEntry, SingleFlight, Fetching, Loading, Refreshing

LEMMA FetchingAlike ==
  ASSUME \A u \in Task : pc'[u] \in Fetching <=> pc[u] \in Fetching
  PROVE  AsksAlike
  BY DEF AsksAlike, Asks

(* An answer of the store's own is not older than the copy it gave.        *)
LEMMA SettleServes ==
  ASSUME TypeInv, NEW p \in Process, NEW S \in SUBSET Task,
         \A u \in S : Owner[u] = p, NEW c \in Copy, Settle(S, p, c),
         Keeps(p)' = c.dates
  PROVE  ServesWell(p)
<1>0. call \in [Task -> Call] /\ c \in MaybeCopy /\ Exists(c)
  BY TypeParts, CopyTypes DEF CallsInv, CallsTyped, MaybeCopy
<1>1. answer' = [u \in Task |->
                   IF u \in S THEN Ok(Newer(call[u].best, c)) ELSE NoAnswer]
  BY DEF Settle
<1>. SUFFICES ASSUME NEW u \in Task, Serves(u)' # BadFile
              PROVE  /\ Owner[u] = p
                     /\ Serves(u)' \in Published
                     /\ NotOlder(Serves(u)', c.dates)
  BY DEF ServesWell
<1>2. u \in S
  BY <1>1 DEF Serves, NoAnswer
<1>. DEFINE a == Newer(call[u].best, c)
<1>3. a \in MaybeCopy /\ Exists(a) /\ NotOlder(a.dates, c.dates)
  <2>1. call[u].best \in MaybeCopy
    BY <1>0 DEF Call, MaybeCopy
  <2>. QED BY <1>0, <2>1, NewerIsNotOlder, NewerIsOneOfTwo
<1>4. answer'[u] = Ok(a)
  BY <1>1, <1>2
<1>. HIDE DEF a
<1>5. Serves(u)' = a.dates
  BY <1>4 DEF Serves, Ok
<1>. QED BY <1>2, <1>3, <1>5, EditionsAreDates

LEMMA SilentServes ==
  ASSUME \A u \in Task : answer'[u].from = "none"
  PROVE  ServesNothing
  BY DEF ServesNothing, Serves

LEMMA NothingServesWell ==
  ASSUME ServesNothing, NEW p
  PROVE  ServesWell(p)
  BY DEF ServesNothing, ServesWell


LEMMA StepKeepsPromise ==
  ASSUME IInv, NEW t \in Task, Lookup(t) \/ ForceRefresh(t) \/ Step(t)
  PROVE  Promise!Next
<1>. DEFINE p == Owner[t]
<1>0. /\ TypeInv /\ LockInv /\ CallsInv /\ StoreTyped
      /\ pc \in [Task -> Stages] /\ call \in [Task -> Call]
      /\ Owner \in [Task -> Process] /\ p \in Process /\ call[t] \in Call
      /\ mem \in [Process -> MaybeEntry] /\ mem[p] \in MaybeEntry
      /\ disk \in Response
  BY TypeParts, StoreAssumption DEF IInv, CallsInv, CallsTyped, StoreTyped
<1>a. mem' = mem => KeepsAll
  BY DEF KeepsAll, Keeps
<1>b. {t} \subseteq {u \in Task : Owner[u] = p}
      /\ {t} \cup Waiting(p) \subseteq {u \in Task : Owner[u] = p}
  BY DEF Waiting
<1>c. Ok(NoCopy).from = "none" /\ (\A f : Error(f).from = "none")
      /\ NoAnswer.from = "none"
  BY DEF Ok, NoCopy, Error, NoAnswer
(* Nobody is answered, and nobody begins or ends a request.                *)
<1>d. ASSUME KeepsAll, AsksAlike, ServesNothing PROVE Promise!Next
  BY <1>0, <1>d, NothingServesWell, MapsToAnswer
<1>e. ASSUME NEW stage, NEW r, Continue(t, stage, r)
      PROVE  /\ ServesNothing
             /\ pc' = [pc EXCEPT ![t] = stage]
  BY <1>c, <1>e, SilentServes DEF Continue, NoAnswers
<1>f. ASSUME mem' = mem, NEW stage, NEW r, Continue(t, stage, r),
             stage \notin Fetching, pc[t] \notin Fetching
      PROVE  Promise!Next
  <2>1. AsksAlike
    BY <1>0, <1>e, <1>f, FetchingAlike
  <2>. QED BY <1>a, <1>d, <1>e, <1>f, <2>1
<1>g. ASSUME KeepsAll, NEW a, a.from = "none", Return(t, a), pc[t] \notin Fetching
      PROVE  Promise!Next
  <2>1. AsksAlike
    BY <1>0, <1>g, FetchingAlike DEF Return, Fetching
  <2>2. ServesNothing
    BY <1>c, <1>g, SilentServes DEF Return, NoAnswers
  <2>. QED BY <1>d, <1>g, <2>1, <2>2
<1>h. ASSUME NEW S, S \subseteq {u \in Task : Owner[u] = p}, NEW c,
             \A u \in S : pc[u] \notin Fetching, Settle(S, p, c)
      PROVE  AsksAlike
  BY <1>0, <1>h, FetchingAlike DEF Settle, Fetching
(* Calls of p are given what is, and stays, in memory.                     *)
<1>i. ASSUME NEW S, S \subseteq {u \in Task : Owner[u] = p}, NEW c \in Copy,
             \A u \in S : pc[u] \notin Fetching, Settle(S, p, c),
             KeepsAll, Keeps(p) = c.dates
      PROVE  Promise!Next
  <2>1. AsksAlike /\ ServesWell(p)
    <3>1. Keeps(p)' = c.dates
      BY <1>0, <1>i DEF KeepsAll
    <3>. QED BY <1>0, <1>h, <1>i, <3>1, SettleServes
  <2>. QED BY <1>0, <1>i, <2>1, MapsToAnswer
<1>j. ASSUME NEW c, c.dates = mem[p].dates, Exists(mem[p])
      PROVE  Keeps(p) = c.dates
  BY <1>j DEF Keeps
(* A request about p goes out: none was with the upstream.                 *)
<1>k. ASSUME mem' = mem, NEW stage \in Fetching, NEW r, Continue(t, stage, r), ~Asks(p)
      PROVE  Promise!Next
  <2>1. pc' = [pc EXCEPT ![t] = stage] /\ ServesNothing
    BY <1>e, <1>k
  <2>2. AsksNow(p, TRUE)
    BY <1>0, <1>k, <2>1 DEF AsksNow, Asks
  <2>. QED BY <1>0, <1>a, <1>k, <2>1, <2>2, MapsToAsking
<1>l. ASSUME mem' = mem, NEW stage \in Fetching, NEW other, other \notin Fetching,
             NEW r, Ask(t, stage, other, r), pc[t] \notin Fetching, ~Asks(p)
      PROVE  Promise!Next
  <2>1. \/ Continue(t, stage, r)
        \/ \E f : Continue(t, other, [r EXCEPT !.why = f])
    BY <1>l DEF Ask
  <2>. QED BY <1>f, <1>k, <1>l, <2>1
<1>1. CASE Lookup(t)
  <2>1. PICK held \in Held, attached \in Attached :
          Continue(t, "on_hand",
                   [Blank EXCEPT !.at = now, !.held = held, !.attached = attached,
                                 !.bar = told[Owner[t]]])
    BY <1>1 DEF Lookup
  <2>2. mem' = mem /\ pc[t] \notin Fetching /\ "on_hand" \notin Fetching
    BY <1>1 DEF Lookup, Fetching
  <2>. QED BY <1>f, <2>1, <2>2
<1>2. CASE ForceRefresh(t)
  <2>1. mem' = mem /\ pc[t] \notin Fetching
    BY <1>2 DEF ForceRefresh, Fetching
  <2>. QED BY <1>2, <1>a, <1>c, <1>f, <1>g, <2>1 DEF ForceRefresh, Fetching
<1>3. CASE ReadEntry(t)
  <2>1. mem' = mem /\ pc[t] \notin Fetching
    BY <1>3 DEF ReadEntry, Fetching
  <2>2. ASSUME Exists(mem[p]), Settle({t}, p, InMemory(mem[p])) PROVE Promise!Next
    BY <1>0, <1>a, <1>b, <1>i, <1>j, <2>1, <2>2, CopyTypes DEF InMemory
  <2>3. \/ \E stage \in {"load", "refresh"} : \E r : Continue(t, stage, r)
        \/ Exists(mem[p]) /\ Settle({t}, p, InMemory(mem[p]))
    BY <1>3 DEF ReadEntry, p
  <2>. QED BY <1>f, <2>1, <2>2, <2>3 DEF Fetching
<1>4. CASE BeginLoad(t)
  <2>1. mem' = mem /\ pc[t] \notin Fetching
    BY <1>4 DEF BeginLoad, Fetching
  <2>2. ASSUME Exists(mem[p]), Settle({t}, p, CopyOf(mem[p])) PROVE Promise!Next
    BY <1>0, <1>a, <1>b, <1>i, <1>j, <2>1, <2>2, CopyTypes DEF CopyOf
  <2>3. ASSUME ~Exists(mem[p]) PROVE ~Asks(p)
    BY <1>0, <1>4, <2>3 DEF BeginLoad, LoadRunning, Asks, Fetching, Loading, LockInv,
         RefreshesMeetTheirEntry, Refreshing
  <2>4. \/ Exists(mem[p]) /\ Settle({t}, p, CopyOf(mem[p]))
        \/ \E r : Continue(t, "load_insert", r)
        \/ ~Exists(mem[p]) /\ \E r : Ask(t, "load_fetch", "load_fetched", r)
    BY <1>4 DEF BeginLoad, p
  <2>5. "load_insert" \notin Fetching /\ "load_fetch" \in Fetching
        /\ "load_fetched" \notin Fetching
    BY DEF Fetching
  <2>. QED BY <1>f, <1>l, <2>1, <2>2, <2>3, <2>4, <2>5
<1>5. CASE JoinLoad(t)
  BY <1>5, <1>f DEF JoinLoad, Fetching
<1>6. CASE FinishLoad(t)
  <2>1. mem' = mem /\ pc[t] = "load_fetched"
    BY <1>6 DEF FinishLoad
  <2>2. (\E r : Continue(t, "load_insert", r)) => Promise!Next
    BY <1>f, <2>1 DEF Fetching
  <2>3. ASSUME Refuse({t} \cup Waiting(p), call[t].why) PROVE Promise!Next
    <3>1. AsksAlike
      BY <1>0, <2>1, <2>3, FetchingAlike DEF Refuse, Fetching, Waiting
    <3>2. Keeps(p)' = BadFile
      BY <1>0, <2>1 DEF LockInv, LoadsMeetNoEntry, Loading, Keeps, p
    <3>3. \A u \in Task : /\ Owner[u] # p => answer'[u] = NoAnswer
                          /\ \/ answer'[u].from = "none"
                             \/ Exists(call[u].best) /\ answer'[u] = Ok(call[u].best)
      BY <1>b, <1>c, <2>3 DEF Refuse
    <3>4. \A u \in Task : call[u].best \in MaybeCopy
      BY <1>0 DEF Call, MaybeCopy
    <3>5. ASSUME NEW u \in Task, Serves(u)' # BadFile
          PROVE  Owner[u] = p /\ Serves(u)' \in Published
      <4>1. answer'[u].from # "none"
        BY <3>5 DEF Serves
      <4>2. Serves(u)' = call[u].best.dates /\ Exists(call[u].best)
        <5>1. Exists(call[u].best) /\ answer'[u] = Ok(call[u].best)
          BY <3>3, <4>1
        <5>2. Serves(u)' = answer'[u].dates
          BY <3>5 DEF Serves
        <5>. QED BY <5>1, <5>2 DEF Ok
      <4>. QED BY <1>c, <3>3, <3>4, <4>1, <4>2, EditionsAreDates
    <3>6. ServesWell(p)
      BY <3>2, <3>5 DEF ServesWell
    <3>. QED BY <1>0, <1>a, <2>1, <3>1, <3>6, MapsToAnswer
  <2>. QED BY <1>6, <2>2, <2>3 DEF FinishLoad, p
<1>7. CASE InsertLoaded(t)
  <2>1. PICK e \in NewEntries(call[t].got) : mem' = [mem EXCEPT ![p] = e]
    BY <1>7 DEF InsertLoaded, p
  <2>2. /\ call[t].got \in Copy /\ call[t].got \in MaybeCopy /\ Exists(call[t].got)
        /\ ~Exists(mem[p]) /\ pc[t] = "load_insert"
        /\ Settle({t} \cup Waiting(p), p, call[t].got)
    BY <1>0, <1>7, CopyTypes
       DEF InsertLoaded, LockInv, PutsAreCopies, LoadsMeetNoEntry, Loading, Call,
           MaybeCopy, p
  <2>3. /\ Exists(mem'[p]) /\ mem'[p].dates = call[t].got.dates
        /\ \A q \in Process \ {p} : mem'[q] = mem[q]
    BY <1>0, <2>1, <2>2, NewEntriesType
  <2>4. /\ Keeps(p)' = call[t].got.dates /\ Keeps(p) = BadFile
        /\ \A q \in Process \ {p} : Keeps(q)' = Keeps(q)
    BY <2>2, <2>3 DEF Keeps
  <2>5. AsksAlike
    BY <1>b, <1>h, <2>2 DEF Waiting, Fetching
  <2>6. ServesWell(p)
    BY <1>0, <1>b, <2>2, <2>4, SettleServes
  <2>7. call[t].got.dates \in Published
    BY <2>2, EditionsAreDates
  <2>. QED BY <1>0, <2>4, <2>5, <2>6, <2>7, MapsToKeep
<1>8. CASE BeginRefresh(t)
  <2>1. mem' = mem /\ Exists(mem[p]) /\ pc[t] \notin Fetching
    BY <1>0, <1>8 DEF BeginRefresh, LockInv, RefreshesMeetTheirEntry, p, Fetching
  <2>2. CASE Settle({t}, p, InMemory(mem[p]))
    BY <1>0, <1>a, <1>b, <1>i, <1>j, <2>1, <2>2, CopyTypes DEF InMemory
  <2>3. CASE Return(t, Ok(NoCopy))
    BY <1>a, <1>c, <1>g, <2>1, <2>3
  <2>4. CASE \E r : Ask(t, "refresh_fetch", "refresh_fetched", r)
    <3>1. ~Asks(p)
      BY <1>0, <1>8, <2>1 DEF BeginRefresh, RefreshRunning, Asks, Fetching, Loading,
           LockInv, LoadsMeetNoEntry, Refreshing
    <3>2. "refresh_fetch" \in Fetching /\ "refresh_fetched" \notin Fetching
      BY DEF Fetching
    <3>. QED BY <1>l, <2>1, <2>4, <3>1, <3>2
  <2>. QED BY <1>8, <2>2, <2>3, <2>4 DEF BeginRefresh, p
<1>9. CASE FinishRefresh(t)
  <2>1. /\ Exists(mem[p]) /\ Exists(call[t].prior) /\ call[t].seen \in Entry
        /\ call[t].seen.dates = mem[p].dates /\ pc[t] \notin Fetching
    BY <1>0, <1>9, CopyTypes
       DEF FinishRefresh, Refreshing, LockInv, RefreshesMeetTheirEntry, Call,
           MaybeEntry, p, Fetching
  <2>2. ASSUME mem' = mem, Continue(t, "refresh_put", call[t]) PROVE Promise!Next
    BY <1>f, <2>1, <2>2 DEF Fetching
  <2>3. CASE mem' = [mem EXCEPT ![p] = [call[t].seen EXCEPT !.age = "fresh"]]
    <3>1. /\ Exists(mem'[p]) /\ mem'[p].dates = mem[p].dates
          /\ \A q \in Process \ {p} : mem'[q] = mem[q]
      BY <1>0, <2>1, <2>3, CopyTypes DEF Entry, Exists, MaybeEntry
    <3>2. KeepsAll
      BY <2>1, <3>1 DEF KeepsAll, Keeps
    <3>3. CASE Settle({t}, p, InMemory(call[t].seen))
      <4>1. /\ InMemory(call[t].seen) \in Copy
            /\ InMemory(call[t].seen).dates = mem[p].dates
        BY <2>1, CopyTypes DEF InMemory
      <4>. QED BY <1>b, <1>i, <1>j, <2>1, <3>2, <3>3, <4>1
    <3>4. CASE Return(t, IF call[t].why = "none" THEN Ok(NoCopy)
                                                 ELSE Error(call[t].why))
      BY <1>c, <1>g, <2>1, <3>2, <3>4
    <3>. QED BY <1>9, <2>2, <3>3, <3>4 DEF FinishRefresh, p
  <2>. QED BY <1>9, <2>1, <2>2, <2>3 DEF FinishRefresh, p
<1>10. CASE PutRefreshed(t)
  <2>1. PICK e \in NewEntries(call[t].got) : mem' = [mem EXCEPT ![p] = e]
    BY <1>10 DEF PutRefreshed, p
  <2>2. /\ call[t].got \in Copy /\ call[t].got \in MaybeCopy
        /\ Exists(call[t].got) /\ Exists(mem[p]) /\ pc[t] = "refresh_put"
        /\ NotOlder(call[t].got.dates, mem[p].dates)
    BY <1>0, <1>10, CopyTypes
       DEF PutRefreshed, LockInv, PutsAreCopies, RefreshesMeetTheirEntry,
           Refreshing, Call, MaybeCopy, p
  <2>3. /\ Exists(mem'[p]) /\ mem'[p].dates = call[t].got.dates
        /\ \A q \in Process \ {p} : mem'[q] = mem[q]
    BY <1>0, <2>1, <2>2, NewEntriesType
  <2>4. /\ Keeps(p)' = call[t].got.dates /\ Keeps(p) = mem[p].dates
        /\ \A q \in Process \ {p} : Keeps(q)' = Keeps(q)
    BY <2>2, <2>3 DEF Keeps
  <2>5. AsksAlike /\ ServesWell(p)
    <3>1. CASE Return(t, Ok(NoCopy))
      <4>1. AsksAlike
        BY <1>0, <2>2, <3>1, FetchingAlike DEF Return, Fetching
      <4>2. ServesNothing
        BY <1>c, <3>1, SilentServes DEF Return, NoAnswers
      <4>. QED BY <4>1, <4>2, NothingServesWell
    <3>2. CASE Settle({t}, p, call[t].got)
      <4>1. AsksAlike
        BY <1>b, <1>h, <2>2, <3>2 DEF Fetching
      <4>. QED BY <1>0, <1>b, <2>2, <2>4, <3>2, <4>1, SettleServes
    <3>. QED BY <1>10, <3>1, <3>2 DEF PutRefreshed, p
  <2>6. call[t].got.dates \in Published
    BY <2>2, EditionsAreDates
  <2>. QED BY <1>0, <2>2, <2>4, <2>5, <2>6, MapsToKeep
<1>11. CASE UpstreamAnswers(t)
  <2>1. mem' = mem /\ pc[t] \in Fetching /\ Fetched(pc[t]) \notin Fetching
    BY <1>11 DEF UpstreamAnswers, Fetched, Fetching
  <2>2. \E r : Continue(t, Fetched(pc[t]), r)
    BY <1>11 DEF UpstreamAnswers
  <2>3. pc' = [pc EXCEPT ![t] = Fetched(pc[t])] /\ ServesNothing
    BY <1>e, <2>2
  <2>4. \A u \in Task \ {t} : Owner[u] = p => pc[u] \notin Fetching
    BY <1>0, <2>1, OneIsFetching DEF SingleFlight
  <2>5. Asks(p) /\ AsksNow(p, FALSE)
    BY <1>0, <2>1, <2>3, <2>4 DEF AsksNow, Asks
  <2>. QED BY <1>0, <1>a, <2>1, <2>3, <2>5, MapsToAsking
(* With nothing attached only the context's own copy is on hand; with a     *)
(* copy attached, what is in memory is compared with it.                    *)
<1>12. CASE LookOnHand(t)
  <2>. DEFINE c == call[t]
              best == OnHand(p, c.held, c.attached)
  <2>1. /\ mem' = mem /\ pc[t] = "on_hand" /\ pc[t] \notin Fetching
        /\ c.held \in Response /\ c.attached \in Response
    BY <1>0, <1>12 DEF LookOnHand, Call, Fetching
  <2>2. /\ best \in MaybeCopy
        /\ c.attached = NoFile => best = CopyFrom(c.held, "held")
        /\ c.attached # NoFile /\ Exists(Cached(p)) => NotOlder(best.dates, Cached(p).dates)
    BY <1>0, <2>1, OnHandIs
  <2>3. CASE Return(t, Error("refused"))
    BY <1>a, <1>c, <1>g, <2>1, <2>3
  <2>4. CASE \E r : Continue(t, "entry", r)
    BY <1>f, <2>1, <2>4 DEF Fetching
  <2>5. CASE /\ pc' = [pc EXCEPT ![t] = "idle"]
             /\ answer' = [NoAnswers EXCEPT ![t] = Ok(best)]
             /\ Exists(best)
    <3>1. AsksAlike
      BY <1>0, <2>1, <2>5, FetchingAlike DEF Fetching
    <3>2. /\ \A u \in Task \ {t} : answer'[u] = NoAnswer
          /\ answer'[t].dates = best.dates /\ answer'[t].from = best.from
      BY <2>5 DEF NoAnswers, Ok
    <3>3. best.dates \in Published
      BY <2>2, <2>5, EditionsAreDates
    <3>4. CopyFrom(c.held, "held").from \in {"held", "none"}
      BY DEF CopyFrom, NoCopy
    <3>. HIDE DEF best
    <3>5. Keeps(p)' # BadFile => Exists(mem[p]) /\ Keeps(p)' = mem[p].dates
      BY <2>1 DEF Keeps
    <3>6. ServesWell(p)
      <4>1. \A u \in Task \ {t} : Serves(u)' = BadFile
        BY <1>c, <3>2 DEF Serves
      <4>2. Serves(t)' # BadFile => Serves(t)' = best.dates /\ c.attached # NoFile
        BY <2>2, <3>2, <3>4 DEF Serves
      <4>3. Exists(mem[p]) /\ c.attached # NoFile => NotOlder(best.dates, mem[p].dates)
        BY <1>0, <2>2, CachedIs
      <4>. HIDE DEF c
      <4>. QED BY <3>3, <3>5, <4>1, <4>2, <4>3 DEF ServesWell
    <3>. QED BY <1>0, <1>a, <2>1, <3>1, <3>6, MapsToAnswer
  <2>. QED BY <1>12, <2>3, <2>4, <2>5 DEF LookOnHand, p
<1>. QED BY <1>1, <1>2, <1>3, <1>4, <1>5, <1>6, <1>7, <1>8, <1>9, <1>10, <1>11,
            <1>12 DEF Step


LEMMA OtherKeepsPromise ==
  ASSUME ~MayEvict, IInv,
         \/ \E t \in Task : DropCall(t)
         \/ \E p \in Process :
              Restart(p) \/ EntryAges(p) \/ FailureLapses(p) \/ Evict(p)
         \/ Tick \/ UNCHANGED vars
  PROVE  Promise!Next \/ UNCHANGED Promise!vars
<1>0. /\ TypeInv /\ LockInv /\ pc \in [Task -> Stages]
      /\ mem \in [Process -> MaybeEntry] /\ Owner \in [Task -> Process]
  BY TypeParts, StoreAssumption DEF IInv, CallsInv, CallsTyped, StoreTyped
<1>1. NoAnswer.from = "none" /\ Error("dropped").from = "none"
  BY DEF NoAnswer, Error
<1>2. ASSUME KeepsAll, AsksAlike, ServesNothing, NEW p \in Process
      PROVE  Promise!Next
  BY <1>2, NothingServesWell, MapsToAnswer
<1>3. ASSUME NEW t \in Task, DropCall(t) PROVE Promise!Next
  <2>. DEFINE p == Owner[t]
  <2>1. /\ p \in Process /\ mem' = mem
        /\ \A u \in Task : answer'[u].from = "none"
    BY <1>0, <1>1, <1>3 DEF DropCall, NoAnswers
  <2>2. KeepsAll /\ ServesNothing
    BY <2>1, SilentServes DEF KeepsAll, Keeps
  <2>3. \A u \in Task : /\ u = t => pc'[u] \notin Fetching
                        /\ u # t => (pc'[u] \in Fetching <=> pc[u] \in Fetching)
    BY <1>0, <1>3 DEF DropCall, Abandoned, Waiting, Fetching
  <2>4. CASE pc[t] \in Fetching
    <3>1. \A u \in Task \ {t} : Owner[u] = p => pc[u] \notin Fetching
      BY <1>0, <2>4, OneIsFetching DEF SingleFlight
    <3>2. Asks(p) /\ AsksNow(p, FALSE)
      BY <1>0, <2>3, <2>4, <3>1 DEF AsksNow, Asks
    <3>. QED BY <2>1, <2>2, <3>2, MapsToAsking
  <2>5. CASE pc[t] \notin Fetching
    BY <1>2, <2>1, <2>2, <2>3, <2>5, FetchingAlike
  <2>. QED BY <2>4, <2>5
<1>4. ASSUME NEW p \in Process, Restart(p) PROVE Promise!Next
  <2>1. ServesNothing
    BY <1>1, <1>4, SilentServes DEF Restart
  <2>2. \A u \in Task : pc'[u] \in Fetching <=> Owner[u] # p /\ pc[u] \in Fetching
    BY <1>0, <1>4 DEF Restart, Fetching
  <2>3. AsksNow(p, FALSE)
    BY <1>0, <2>2 DEF AsksNow, Asks
  <2>4. Keeps(p)' = BadFile /\ \A q \in Process \ {p} : Keeps(q)' = Keeps(q)
    BY <1>0, <1>4 DEF Restart, Keeps, NoEntry, Exists
  <2>. QED BY <2>1, <2>3, <2>4, MapsToEnd
<1>5. ASSUME NEW p \in Process, EntryAges(p) PROVE Promise!Next
  <2>1. mem[p] \in Entry
    BY <1>0, <1>5, CopyTypes DEF EntryAges
  <2>2. \A q \in Process : mem'[q].dates = mem[q].dates
                           /\ (Exists(mem'[q]) <=> Exists(mem[q]))
    BY <1>0, <1>5, <2>1 DEF EntryAges, Entry, Exists
  <2>3. KeepsAll
    BY <2>2 DEF KeepsAll, Keeps
  <2>4. AsksAlike /\ ServesNothing
    BY <1>1, <1>5, FetchingAlike, SilentServes DEF EntryAges, NoAnswers
  <2>. QED BY <1>2, <1>5, <2>3, <2>4
<1>6. ASSUME mem' = mem, pc' = pc, answer' = NoAnswers
      PROVE  Promise!Next \/ UNCHANGED Promise!vars
  <2>1. KeepsAll /\ AsksAlike /\ ServesNothing
    BY <1>1, <1>6, FetchingAlike, SilentServes DEF KeepsAll, Keeps, NoAnswers
  <2>2. CASE Process # {}
    BY <1>2, <2>1, <2>2
  <2>3. CASE Process = {}
    <3>1. Task = {}
      BY <1>0, <2>3
    <3>. QED BY <2>3, <3>1 DEF Promise!vars
  <2>. QED BY <2>2, <2>3
<1>7. ASSUME UNCHANGED vars PROVE UNCHANGED Promise!vars
  BY <1>7 DEF vars, Promise!vars
<1>. QED BY <1>3, <1>4, <1>5, <1>6, <1>7 DEF FailureLapses, Evict, Tick

LEMMA InitKeepsPromise == Init => Promise!Init
  BY DEF Init, Promise!Init, NoEntry, Exists, Fetching, NoAnswers, NoAnswer

(* Seen from outside, each of any number of processes keeps                 *)
(* one edition and moves forward, asks the upstream one question at a time  *)
(* and answers with nothing older than what it keeps, as long as nothing is *)
(* evicted: each step of the store is one of KeptPiece (store.rs:302-340,   *)
(* 555-570, 700-770).                                                       *)
THEOREM StoreKeepsItsPromise ==
  ASSUME ~MayEvict
  PROVE  Spec => KeepsItsPromise
<1>1. Init => IInv /\ Promise!Init
  BY InitTypeInv, InitLockInv, InitKeepsPromise DEF IInv
<1>2. IInv /\ [Next]_vars => IInv'
  BY NextIInv
<1>3. IInv /\ [Next]_vars => [Promise!Next]_(Promise!vars)
  BY StepKeepsPromise, OtherKeepsPromise DEF Next
<1>. QED BY <1>1, <1>2, <1>3, PTL DEF Spec, KeepsItsPromise, Promise!Spec

=============================================================================
