------------------------ MODULE CollateralStoreProofs ------------------------
(***************************************************************************)
(* What CollateralStore does, proved for every number of processes, calls  *)
(* and editions: that it is type correct, that a process has at most one   *)
(* request about the piece with the upstream, and that what it keeps in    *)
(* memory never goes back.                                                 *)
(***************************************************************************)
EXTENDS CollateralStore, TLAPS

(* The key-level locks of moka: one loader and one computation per process. *)
OneLoader ==
  \A t, u \in Task :
    Owner[t] = Owner[u] /\ pc[t] \in Loading /\ pc[u] \in Loading => t = u

OneRefresher ==
  \A t, u \in Task :
    Owner[t] = Owner[u] /\ pc[t] \in Refreshing /\ pc[u] \in Refreshing => t = u

(* A load runs while memory is empty.  A refresh runs over an entry, and    *)
(* what it brings is compared with that entry: nothing changes memory       *)
(* meanwhile.                                                               *)
LoadsMeetNoEntry ==
  \A t \in Task : pc[t] \in Loading => ~Exists(mem[Owner[t]])

RefreshesMeetTheirEntry ==
  \A t \in Task :
    /\ pc[t] \in Refreshing \cup {"refresh"} => Exists(mem[Owner[t]])
    /\ pc[t] \in Refreshing =>
         /\ Exists(call[t].prior) /\ Exists(call[t].seen)
         /\ call[t].prior.dates = mem[Owner[t]].dates
         /\ call[t].seen.dates = mem[Owner[t]].dates

(* What is about to be put in memory is a copy, in a refresh one that is    *)
(* not older than the entry it replaces.                                    *)
PutsAreCopies ==
  \A t \in Task :
    /\ pc[t] \in {"load_insert", "refresh_put"} => Exists(call[t].got)
    /\ pc[t] = "refresh_put" =>
         NotOlder(call[t].got.dates, mem[Owner[t]].dates)

(* A refresh began with the entry it saw, and a forced one answers nothing. *)
RefreshesSawAnEntry ==
  \A t \in Task :
    pc[t] \in Refreshing \cup {"refresh"} => Exists(call[t].seen)

(* A fetch that did not fail brought a copy. *)
FetchesBroughtACopy ==
  \A t \in Task :
    pc[t] \in {"load_fetched", "refresh_fetched"} /\ call[t].why = "none" =>
      Exists(call[t].got)

TypeInv == TypeOK /\ RefreshesSawAnEntry /\ FetchesBroughtACopy

LockInv ==
  /\ OneLoader
  /\ OneRefresher
  /\ LoadsMeetNoEntry
  /\ RefreshesMeetTheirEntry
  /\ PutsAreCopies

IInv == TypeInv /\ LockInv

----------------------------------------------------------------------------
(* Types of the operators *)

MaybeCopy == Copy \cup {NoCopy}

MaybeEntry == Entry \cup {NoEntry}

Stages == {"idle", "on_hand", "entry", "load", "waiting", "refresh"}
            \cup Loading \cup Refreshing

CallsTyped ==
  /\ pc \in [Task -> Stages]
  /\ call \in [Task -> Call]
  /\ answer \in [Task -> Answer]
  /\ told \in [Process -> MaybeCopy]

StoreTyped ==
  /\ now \in Clock
  /\ mem \in [Process -> MaybeEntry]
  /\ disk \in Response
  /\ failed \in [Process -> {"none", "unavailable", "not_published"}]
  /\ answered \in [Process -> 0 .. 2]

CallsInv == CallsTyped /\ RefreshesSawAnEntry /\ FetchesBroughtACopy

LEMMA TypeParts == TypeInv <=> CallsInv /\ StoreTyped
  BY DEF TypeInv, TypeOK, CallsInv, CallsTyped, StoreTyped, Stages, MaybeCopy,
         MaybeEntry

(* The newer of two copies is one of the two. *)
LEMMA NewerIsOneOfTwo ==
  ASSUME NEW b \in MaybeCopy, NEW c \in MaybeCopy
  PROVE  Newer(b, c) \in {b, c} /\ Newer(b, c) \in MaybeCopy
  BY DEF Newer

(* An entry made of a copy is that copy: missing only if the copy is. *)
LEMMA NewEntriesType ==
  ASSUME NEW c \in MaybeCopy, NEW e \in NewEntries(c)
  PROVE  /\ e \in MaybeEntry
         /\ e.dates = c.dates
         /\ Exists(e) <=> Exists(c)
<1>1. e.dates = c.dates /\ e.from = c.from /\ e.age = "fresh"
      /\ e.refresh_at \in RefreshAt(c.dates)
  BY DEF NewEntries
<1>2. CASE c = NoCopy
  <2>1. RefreshAt(c.dates) = {None}
    BY <1>2 DEF NoCopy, NoDates, RefreshAt
  <2>2. e = NoEntry
    BY <1>2, <2>1 DEF NewEntries, NoEntry, NoCopy
  <2>. QED BY <1>1, <2>2 DEF MaybeEntry, Exists
<1>3. CASE c \in Copy
  <2>1. c.dates \in Dates
    BY <1>3, StoreAssumption DEF Copy
  <2>2. RefreshAt(c.dates) \subseteq Int
    BY <2>1, DayAssumption DEF RefreshAt, Dates, Option, None
  <2>3. e \in Entry
    BY <1>1, <1>3, <2>2 DEF NewEntries, Entry, Copy
  <2>. QED BY <1>1, <2>3 DEF MaybeEntry, Exists
<1>. QED BY <1>2, <1>3 DEF MaybeCopy

LEMMA CopyTypes ==
  /\ NoCopy \in MaybeCopy
  /\ ~Exists(NoCopy)
  /\ \A c \in MaybeCopy : Exists(c) <=> c \in Copy
  /\ \A r \in Response, s \in Source : CopyFrom(r, s) \in MaybeCopy
  /\ \A e \in MaybeEntry : Exists(e) <=> e \in Entry
  /\ \A e \in Entry : CopyOf(e) \in Copy /\ InMemory(e) \in Copy
  BY DEF MaybeCopy, MaybeEntry, NoCopy, NoEntry, Exists, Copy, Entry, Source,
         CopyFrom, Response, NoFile, BadFile, File, CopyOf, InMemory

LEMMA BlankType == Blank \in Call
  BY DEF Blank, Call, NoFile, NoCopy, NoEntry, Response

(* What the actions note in a call's record. *)
LEMMA NotesType ==
  ASSUME NEW c \in Call
  PROVE  /\ \A f \in Failure : [c EXCEPT !.why = f] \in Call
         /\ \A d \in MaybeCopy : [c EXCEPT !.got = d] \in Call
         /\ \A d \in MaybeCopy : [c EXCEPT !.prior = d] \in Call
         /\ \A e \in MaybeEntry : [c EXCEPT !.seen = e] \in Call
         /\ \A e \in MaybeEntry, d \in MaybeCopy :
              [c EXCEPT !.seen = e, !.prior = d] \in Call
         /\ \A d \in MaybeCopy :
              [c EXCEPT !.held = NoFile, !.attached = NoFile, !.best = d] \in Call
         /\ \A f \in Failure : [c EXCEPT !.why = f].seen = c.seen
         /\ \A d \in MaybeCopy : [c EXCEPT !.got = d].seen = c.seen
         /\ \A e \in MaybeEntry : [c EXCEPT !.seen = e].seen = e
         /\ \A e \in MaybeEntry, d \in MaybeCopy :
              [c EXCEPT !.seen = e, !.prior = d].seen = e
<1>1. NoFile \in Response
  BY DEF Response
<1>2. \A f \in Failure : [c EXCEPT !.why = f] \in Call
  BY DEF Call
<1>3. \A d \in MaybeCopy : [c EXCEPT !.got = d] \in Call
  BY DEF Call, MaybeCopy
<1>4. \A d \in MaybeCopy : [c EXCEPT !.prior = d] \in Call
  BY DEF Call, MaybeCopy
<1>5. \A e \in MaybeEntry : [c EXCEPT !.seen = e] \in Call
  BY DEF Call, MaybeEntry
<1>6. \A e \in MaybeEntry, d \in MaybeCopy :
        [c EXCEPT !.seen = e, !.prior = d] \in Call
  BY DEF Call, MaybeEntry, MaybeCopy
<1>7. \A d \in MaybeCopy :
        [c EXCEPT !.held = NoFile, !.attached = NoFile, !.best = d] \in Call
  BY <1>1 DEF Call, MaybeCopy
<1>8. /\ \A f : [c EXCEPT !.why = f].seen = c.seen
      /\ \A d : [c EXCEPT !.got = d].seen = c.seen
  BY DEF Call
<1>9. /\ \A e : [c EXCEPT !.seen = e].seen = e
      /\ \A e, d : [c EXCEPT !.seen = e, !.prior = d].seen = e
  BY DEF Call
<1>. QED BY <1>2, <1>3, <1>4, <1>5, <1>6, <1>7, <1>8, <1>9

LEMMA AnswerTypes ==
  /\ \A c \in MaybeCopy : Ok(c) \in Answer
  /\ \A f \in Failure \cup {"none", "dropped"} : Error(f) \in Answer
  /\ NoAnswer \in Answer
  /\ NoAnswers \in [Task -> Answer]
  BY DEF MaybeCopy, Copy, NoCopy, Ok, Error, NoAnswer, NoAnswers, Answer

(* The four ways a call ends or goes on keep what is known of calls. *)
LEMMA SettleType ==
  ASSUME CallsInv, NEW S \in SUBSET Task, NEW p \in Process,
         NEW c \in MaybeCopy, Settle(S, p, c)
  PROVE  CallsInv'
<1>1. pc' \in [Task -> Stages]
  BY DEF CallsInv, CallsTyped, Settle, Stages
<1>2. call' \in [Task -> Call]
  BY BlankType DEF CallsInv, CallsTyped, Settle
<1>3. answer' \in [Task -> Answer]
  <2>1. \A t \in Task : call[t].best \in MaybeCopy
    BY DEF CallsInv, CallsTyped, Call, MaybeCopy
  <2>2. \A t \in Task : Ok(Newer(call[t].best, c)) \in Answer
    BY <2>1, NewerIsOneOfTwo, AnswerTypes
  <2>. QED BY <2>2, AnswerTypes DEF Settle
<1>4. told' \in [Process -> MaybeCopy]
  <2>1. Newer(told[p], c) \in MaybeCopy
    BY NewerIsOneOfTwo DEF CallsInv, CallsTyped
  <2>. QED BY <2>1 DEF CallsInv, CallsTyped, Settle
<1>5. RefreshesSawAnEntry' /\ FetchesBroughtACopy'
  BY DEF CallsInv, CallsTyped, RefreshesSawAnEntry, FetchesBroughtACopy, Settle,
         Refreshing
<1>. QED BY <1>1, <1>2, <1>3, <1>4, <1>5 DEF CallsInv, CallsTyped

LEMMA RefuseType ==
  ASSUME CallsInv, NEW S \in SUBSET Task, NEW f \in Failure \cup {"none"},
         Refuse(S, f)
  PROVE  CallsInv'
<1>1. pc' \in [Task -> Stages]
  BY DEF CallsInv, CallsTyped, Refuse, Stages
<1>2. call' \in [Task -> Call]
  BY BlankType DEF CallsInv, CallsTyped, Refuse
<1>3. answer' \in [Task -> Answer]
  <2>1. \A t \in Task : call[t].best \in MaybeCopy
    BY DEF CallsInv, CallsTyped, Call, MaybeCopy
  <2>2. Error(f) \in Answer
    BY AnswerTypes
  <2>. QED BY <2>1, <2>2, AnswerTypes DEF Refuse
<1>4. RefreshesSawAnEntry' /\ FetchesBroughtACopy'
  BY DEF CallsInv, CallsTyped, RefreshesSawAnEntry, FetchesBroughtACopy, Refuse,
         Refreshing
<1>. QED BY <1>1, <1>2, <1>3, <1>4 DEF CallsInv, CallsTyped, Refuse

LEMMA ReturnType ==
  ASSUME CallsInv, NEW t \in Task, NEW a \in Answer, Return(t, a)
  PROVE  CallsInv'
<1>1. CallsTyped'
  BY BlankType, AnswerTypes DEF CallsInv, CallsTyped, Return, Stages
<1>2. RefreshesSawAnEntry' /\ FetchesBroughtACopy'
  BY DEF CallsInv, CallsTyped, RefreshesSawAnEntry, FetchesBroughtACopy, Return,
         Refreshing
<1>. QED BY <1>1, <1>2 DEF CallsInv

LEMMA ContinueType ==
  ASSUME CallsInv, NEW t \in Task, NEW stage \in Stages, NEW r \in Call,
         stage \in Refreshing \cup {"refresh"} => Exists(r.seen),
         stage \in {"load_fetched", "refresh_fetched"} /\ r.why = "none" =>
           Exists(r.got),
         Continue(t, stage, r)
  PROVE  CallsInv'
<1>1. CallsTyped'
  BY AnswerTypes DEF CallsInv, CallsTyped, Continue
<1>2. RefreshesSawAnEntry' /\ FetchesBroughtACopy'
  BY DEF CallsInv, CallsTyped, RefreshesSawAnEntry, FetchesBroughtACopy, Continue
<1>. QED BY <1>1, <1>2 DEF CallsInv

LEMMA AskType ==
  ASSUME CallsInv, StoreTyped, NEW t \in Task, NEW r \in Call,
         NEW fetching \in Fetching, NEW fetched \in Stages,
         {fetching, fetched} \cap (Refreshing \cup {"refresh"}) # {} =>
           Exists(r.seen),
         Ask(t, fetching, fetched, r)
  PROVE  CallsInv'
<1>1. CASE Continue(t, fetching, r)
  BY <1>1, ContinueType DEF Fetching, Stages, Loading, Refreshing
<1>2. ASSUME NEW f \in Failure, Continue(t, fetched, [r EXCEPT !.why = f])
      PROVE  CallsInv'
  <2>1. [r EXCEPT !.why = f].why # "none"
    BY DEF Call, Failure
  <2>. QED BY <1>2, <2>1, NotesType, ContinueType
<1>3. failed[Owner[t]] # "none" => failed[Owner[t]] \in Failure
  BY StoreAssumption DEF StoreTyped, Failure
<1>. QED BY <1>1, <1>2, <1>3 DEF Ask, Failure

----------------------------------------------------------------------------
(* Every step keeps the types *)

LEMMA InitTypeInv == Init => TypeInv
<1>. SUFFICES ASSUME Init PROVE CallsInv /\ StoreTyped
  BY TypeParts
<1>1. CallsInv
  BY BlankType, AnswerTypes, CopyTypes
     DEF Init, CallsInv, CallsTyped, Stages, RefreshesSawAnEntry,
         FetchesBroughtACopy, Refreshing
<1>2. StoreTyped
  BY DEF Init, StoreTyped, MaybeEntry
<1>. QED BY <1>1, <1>2

LEMMA StepTypeInv ==
  ASSUME TypeInv, NEW t \in Task, Lookup(t) \/ ForceRefresh(t) \/ Step(t)
  PROVE  TypeInv'
<1>. SUFFICES CallsInv' /\ StoreTyped'
  BY TypeParts, PTL
<1>0. /\ CallsInv /\ StoreTyped
      /\ Owner[t] \in Process /\ call[t] \in Call /\ now \in Nat
      /\ told[Owner[t]] \in MaybeCopy /\ mem[Owner[t]] \in MaybeEntry
  BY TypeParts, StoreAssumption DEF CallsInv, CallsTyped, StoreTyped
<1>1. CASE Lookup(t)
  <2>1. PICK held \in Held, attached \in Attached :
          Continue(t, "on_hand",
            [Blank EXCEPT !.at = now, !.held = held, !.attached = attached,
                          !.bar = told[Owner[t]]])
    BY <1>1 DEF Lookup
  <2>2. [Blank EXCEPT !.at = now, !.held = held, !.attached = attached,
                      !.bar = told[Owner[t]]] \in Call
    BY <1>0, BlankType, StoreAssumption DEF Blank, Call, MaybeCopy
  <2>3. CallsInv'
    BY <1>0, <2>1, <2>2, ContinueType DEF Stages, Refreshing
  <2>4. StoreTyped'
    BY <1>0, <1>1 DEF Lookup, StoreTyped
  <2>. QED BY <2>3, <2>4
<1>2. CASE ForceRefresh(t)
  <2>1. CASE Exists(mem[Owner[t]])
    <3>1. [Blank EXCEPT !.at = now, !.force = TRUE, !.seen = mem[Owner[t]]]
             \in Call
      BY <1>0, BlankType DEF Blank, Call, MaybeEntry
    <3>2. [Blank EXCEPT !.at = now, !.force = TRUE, !.seen = mem[Owner[t]]].seen
             = mem[Owner[t]]
      BY DEF Blank
    <3>. QED BY <1>0, <1>2, <2>1, <3>1, <3>2, ContinueType
             DEF ForceRefresh, Stages, StoreTyped
  <2>2. CASE ~Exists(mem[Owner[t]])
    BY <1>0, <1>2, <2>2, ReturnType, CopyTypes, AnswerTypes
       DEF ForceRefresh, StoreTyped
  <2>. QED BY <2>1, <2>2
<1>3. CASE LookOnHand(t)
  <2>. DEFINE best == OnHand(Owner[t], call[t].held, call[t].attached)
  <2>1. best \in MaybeCopy
    <3>1. /\ CopyFrom(call[t].held, "held") \in MaybeCopy
          /\ CopyFrom(call[t].attached, "attached") \in MaybeCopy
      BY <1>0, CopyTypes DEF Call, Source
    <3>2. Cached(Owner[t]) \in MaybeCopy
      BY <1>0, CopyTypes DEF Cached, StoreTyped, Source, MaybeCopy
    <3>. QED BY <3>1, <3>2, NewerIsOneOfTwo, CopyTypes DEF OnHand
  <2>. HIDE DEF best
  <2>2. StoreTyped'
    BY <1>0, <1>3 DEF LookOnHand, StoreTyped
  <2>3. CASE Return(t, Error("refused"))
    BY <1>0, <2>2, <2>3, ReturnType, AnswerTypes DEF Failure
  <2>4. CASE Continue(t, "entry", [call[t] EXCEPT !.held = NoFile,
                                                  !.attached = NoFile,
                                                  !.best = best])
    BY <1>0, <2>1, <2>2, <2>4, NotesType, ContinueType DEF Stages, Refreshing
  <2>5. CASE /\ pc' = [pc EXCEPT ![t] = "idle"]
             /\ call' = [call EXCEPT ![t] = Blank]
             /\ answer' = [NoAnswers EXCEPT ![t] = Ok(best)]
             /\ told' \in {told, [told EXCEPT ![Owner[t]] =
                                           Newer(told[Owner[t]], best)]}
    <3>1. told' \in [Process -> MaybeCopy]
      BY <1>0, <2>1, <2>5, NewerIsOneOfTwo DEF CallsInv, CallsTyped
    <3>2. CallsTyped'
      BY <1>0, <2>1, <2>5, <3>1, BlankType, AnswerTypes
         DEF CallsInv, CallsTyped, Stages
    <3>3. RefreshesSawAnEntry' /\ FetchesBroughtACopy'
      BY <1>0, <2>5 DEF CallsInv, CallsTyped, RefreshesSawAnEntry,
                        FetchesBroughtACopy, Refreshing
    <3>. QED BY <2>2, <3>2, <3>3 DEF CallsInv
  <2>. QED BY <1>3, <2>3, <2>4, <2>5 DEF LookOnHand, best
<1>4. CASE ReadEntry(t)
  <2>1. StoreTyped'
    BY <1>0, <1>4 DEF ReadEntry, StoreTyped
  <2>2. CASE Continue(t, "load", call[t])
    BY <1>0, <2>1, <2>2, ContinueType DEF Stages, Refreshing
  <2>3. CASE /\ Exists(mem[Owner[t]])
             /\ Continue(t, "refresh", [call[t] EXCEPT !.seen = mem[Owner[t]]])
    BY <1>0, <2>1, <2>3, NotesType, ContinueType DEF Stages
  <2>4. CASE /\ Exists(mem[Owner[t]])
             /\ Settle({t}, Owner[t], InMemory(mem[Owner[t]]))
    BY <1>0, <2>1, <2>4, CopyTypes, SettleType DEF MaybeCopy
  <2>. QED BY <1>4, <2>2, <2>3, <2>4 DEF ReadEntry
<1>5. CASE BeginLoad(t)
  <2>. DEFINE file == CopyFrom(disk, "disk")
  <2>1. StoreTyped'
    BY <1>0, <1>5 DEF BeginLoad, StoreTyped
  <2>2. file \in MaybeCopy
    BY <1>0, CopyTypes DEF StoreTyped, Source
  <2>. HIDE DEF file
  <2>3. CASE Exists(mem[Owner[t]]) /\ Settle({t}, Owner[t], CopyOf(mem[Owner[t]]))
    BY <1>0, <2>1, <2>3, CopyTypes, SettleType DEF MaybeCopy
  <2>4. CASE Continue(t, "load_insert", [call[t] EXCEPT !.got = file])
    BY <1>0, <2>1, <2>2, <2>4, NotesType, ContinueType
       DEF Stages, Loading, Refreshing
  <2>5. CASE Ask(t, "load_fetch", "load_fetched", [call[t] EXCEPT !.prior = file])
    <3>1. [call[t] EXCEPT !.prior = file] \in Call
      BY <1>0, <2>2, NotesType
    <3>2. "load_fetch" \in Fetching /\ "load_fetched" \in Stages
          /\ {"load_fetch", "load_fetched"} \cap (Refreshing \cup {"refresh"}) = {}
      BY DEF Fetching, Stages, Loading, Refreshing
    <3>. QED BY <1>0, <2>1, <2>5, <3>1, <3>2, AskType
  <2>. QED BY <1>5, <2>3, <2>4, <2>5 DEF BeginLoad, file
<1>6. CASE JoinLoad(t)
  BY <1>0, <1>6, ContinueType DEF JoinLoad, StoreTyped, Stages, Refreshing
<1>7. CASE FinishLoad(t)
  <2>1. /\ call[t].got \in MaybeCopy /\ call[t].prior \in MaybeCopy
        /\ call[t].why \in Failure \cup {"none"}
    BY <1>0 DEF Call, MaybeCopy
  <2>2. ASSUME Continue(t, "load_insert", call[t])
        PROVE  CallsInv'
    BY <1>0, <2>2, ContinueType DEF Stages, Loading, Refreshing
  <2>3. ASSUME Continue(t, "load_insert", [call[t] EXCEPT !.got = call[t].prior])
        PROVE  CallsInv'
    BY <1>0, <2>1, <2>3, NotesType, ContinueType DEF Stages, Loading, Refreshing
  <2>4. ASSUME Refuse({t} \cup Waiting(Owner[t]), call[t].why)
        PROVE  CallsInv'
    <3>1. {t} \cup Waiting(Owner[t]) \in SUBSET Task
      BY DEF Waiting
    <3>. QED BY <1>0, <2>1, <2>4, <3>1, RefuseType
  <2>5. CallsInv'
    BY <1>7, <2>2, <2>3, <2>4 DEF FinishLoad
  <2>6. disk' \in Response
    <3>1. Taken(call[t]) => File(call[t].got.dates) \in Response
      BY <1>0, <1>7, <2>1, CopyTypes
         DEF FinishLoad, Taken, CallsInv, FetchesBroughtACopy, Copy, Response
    <3>. QED BY <1>0, <1>7, <3>1 DEF FinishLoad, Save, StoreTyped
  <2>7. StoreTyped'
    BY <1>0, <1>7, <2>6 DEF FinishLoad, StoreTyped
  <2>. QED BY <2>5, <2>7
<1>8. CASE InsertLoaded(t)
  <2>1. call[t].got \in MaybeCopy
    BY <1>0 DEF Call, MaybeCopy
  <2>2. PICK e \in NewEntries(call[t].got) : mem' = [mem EXCEPT ![Owner[t]] = e]
    BY <1>8 DEF InsertLoaded
  <2>3. StoreTyped'
    BY <1>0, <1>8, <2>1, <2>2, NewEntriesType DEF InsertLoaded, StoreTyped
  <2>4. {t} \cup Waiting(Owner[t]) \in SUBSET Task
    BY DEF Waiting
  <2>. QED BY <1>0, <1>8, <2>1, <2>3, <2>4, SettleType DEF InsertLoaded
<1>9. CASE BeginRefresh(t)
  <2>. DEFINE e == mem[Owner[t]]
              c == call[t]
  <2>1. StoreTyped'
    BY <1>0, <1>9 DEF BeginRefresh, StoreTyped
  <2>2. Exists(c.seen)
    BY <1>0, <1>9 DEF BeginRefresh, CallsInv, RefreshesSawAnEntry
  <2>3. ASSUME Return(t, Ok(NoCopy)) PROVE CallsInv'
    BY <1>0, <2>3, ReturnType, CopyTypes, AnswerTypes
  <2>4. ASSUME Exists(e), Settle({t}, Owner[t], InMemory(e)) PROVE CallsInv'
    BY <1>0, <2>4, CopyTypes, SettleType DEF MaybeCopy
  <2>5. "refresh_fetch" \in Fetching /\ "refresh_fetched" \in Stages
    BY DEF Fetching, Stages, Refreshing
  <2>6. ASSUME Exists(e),
               Ask(t, "refresh_fetch", "refresh_fetched",
                   [c EXCEPT !.seen = e, !.prior = CopyOf(e)])
        PROVE  CallsInv'
    <3>1. CopyOf(e) \in MaybeCopy
      BY <1>0, <2>6, CopyTypes DEF MaybeCopy
    <3>2. [c EXCEPT !.seen = e, !.prior = CopyOf(e)] \in Call
      BY <1>0, <3>1, NotesType
    <3>3. [c EXCEPT !.seen = e, !.prior = CopyOf(e)].seen = e
      BY <1>0 DEF Call
    <3>. QED BY <1>0, <2>5, <2>6, <3>2, <3>3, AskType
  <2>7. ASSUME Ask(t, "refresh_fetch", "refresh_fetched", c) PROVE CallsInv'
    BY <1>0, <2>2, <2>5, <2>7, AskType
  <2>. QED BY <1>9, <2>1, <2>3, <2>4, <2>6, <2>7 DEF BeginRefresh
<1>10. CASE FinishRefresh(t)
  <2>. DEFINE c == call[t]
  <2>1. /\ c.got \in MaybeCopy /\ c.prior \in MaybeCopy
        /\ c.why \in Failure \cup {"none"} /\ c.seen \in Entry
    BY <1>0, <1>10, CopyTypes
       DEF FinishRefresh, Refreshing, CallsInv, RefreshesSawAnEntry, Call,
           MaybeCopy, MaybeEntry
  <2>2. ASSUME Continue(t, "refresh_put", c) PROVE CallsInv'
    BY <1>0, <2>1, <2>2, ContinueType, CopyTypes
       DEF Stages, Refreshing, MaybeEntry
  <2>3. ASSUME Return(t, IF c.why = "none" THEN Ok(NoCopy) ELSE Error(c.why))
        PROVE  CallsInv'
    BY <1>0, <2>1, <2>3, ReturnType, CopyTypes, AnswerTypes
  <2>4. ASSUME Settle({t}, Owner[t], InMemory(c.seen)) PROVE CallsInv'
    BY <1>0, <2>1, <2>4, CopyTypes, SettleType DEF MaybeCopy
  <2>5. CallsInv'
    BY <1>10, <2>2, <2>3, <2>4 DEF FinishRefresh
  <2>6. disk' \in Response
    <3>1. Taken(c) => File(c.got.dates) \in Response
      BY <1>0, <1>10, <2>1, CopyTypes
         DEF FinishRefresh, Taken, CallsInv, FetchesBroughtACopy, Copy, Response
    <3>. QED BY <1>0, <1>10, <3>1 DEF FinishRefresh, Save, StoreTyped
  <2>7. mem' \in [Process -> MaybeEntry]
    <3>1. [c.seen EXCEPT !.age = "fresh"] \in MaybeEntry
      BY <2>1 DEF Entry, MaybeEntry
    <3>. QED BY <1>0, <1>10, <3>1 DEF FinishRefresh, StoreTyped
  <2>8. StoreTyped'
    BY <1>0, <1>10, <2>6, <2>7 DEF FinishRefresh, StoreTyped
  <2>. QED BY <2>5, <2>8
<1>11. CASE PutRefreshed(t)
  <2>1. call[t].got \in MaybeCopy
    BY <1>0 DEF Call, MaybeCopy
  <2>2. PICK e \in NewEntries(call[t].got) : mem' = [mem EXCEPT ![Owner[t]] = e]
    BY <1>11 DEF PutRefreshed
  <2>3. StoreTyped'
    BY <1>0, <1>11, <2>1, <2>2, NewEntriesType DEF PutRefreshed, StoreTyped
  <2>4. CallsInv'
    BY <1>0, <1>11, <2>1, ReturnType, SettleType, CopyTypes, AnswerTypes
       DEF PutRefreshed
  <2>. QED BY <2>3, <2>4
<1>12. CASE UpstreamAnswers(t)
  <2>. DEFINE next == Fetched(pc[t])
  <2>1. next \in {"load_fetched", "refresh_fetched"} /\ next \in Stages
    BY DEF Fetched, Stages, Loading, Refreshing
  <2>2. next = "refresh_fetched" => Exists(call[t].seen)
    BY <1>0, <1>12
       DEF UpstreamAnswers, Fetched, Fetching, CallsInv, RefreshesSawAnEntry,
           Refreshing
  <2>3. ASSUME NEW f \in Failure, Continue(t, next, [call[t] EXCEPT !.why = f])
        PROVE  CallsInv'
    <3>1. [call[t] EXCEPT !.why = f].why # "none"
      BY <1>0 DEF Call, Failure
    <3>. QED BY <1>0, <2>1, <2>2, <2>3, <3>1, NotesType, ContinueType
             DEF Refreshing
  <2>4. ASSUME NEW u \in Upstreams, NEW d \in Published,
               Continue(t, next, [call[t] EXCEPT !.got = [dates |-> d, from |-> u]])
        PROVE  CallsInv'
    <3>1. [dates |-> d, from |-> u] \in Copy
      BY StoreAssumption DEF Copy, Source
    <3>2. [call[t] EXCEPT !.got = [dates |-> d, from |-> u]].got
             = [dates |-> d, from |-> u]
      BY <1>0 DEF Call
    <3>3. Exists([dates |-> d, from |-> u])
      BY <3>1, CopyTypes DEF MaybeCopy
    <3>4. [call[t] EXCEPT !.got = [dates |-> d, from |-> u]] \in Call
      BY <1>0, <3>1, NotesType DEF MaybeCopy
    <3>5. [call[t] EXCEPT !.got = [dates |-> d, from |-> u]].seen = call[t].seen
      BY <1>0 DEF Call
    <3>. QED BY <1>0, <2>1, <2>2, <2>4, <3>2, <3>3, <3>4, <3>5, ContinueType
             DEF Refreshing
  <2>5. CallsInv'
    BY <1>12, <2>3, <2>4 DEF UpstreamAnswers, Failure
  <2>6. StoreTyped'
    BY <1>0, <1>12 DEF UpstreamAnswers, StoreTyped
  <2>. QED BY <2>5, <2>6
<1>. QED
  BY <1>1, <1>2, <1>3, <1>4, <1>5, <1>6, <1>7, <1>8, <1>9, <1>10, <1>11, <1>12
     DEF Step

LEMMA DropTypeInv ==
  ASSUME TypeInv, NEW t \in Task, DropCall(t)
  PROVE  TypeInv'
<1>0. CallsInv /\ StoreTyped
  BY TypeParts
<1>1. CallsTyped'
  BY <1>0, BlankType, AnswerTypes DEF DropCall, CallsInv, CallsTyped, Stages
<1>2. RefreshesSawAnEntry' /\ FetchesBroughtACopy'
  BY <1>0 DEF DropCall, CallsInv, CallsTyped, RefreshesSawAnEntry,
              FetchesBroughtACopy, Refreshing
<1>3. StoreTyped'
  BY <1>0, StoreAssumption DEF DropCall, StoreTyped
<1>. QED BY <1>1, <1>2, <1>3, TypeParts, PTL DEF CallsInv

LEMMA ProcessTypeInv ==
  ASSUME TypeInv, NEW p \in Process,
         Restart(p) \/ EntryAges(p) \/ FailureLapses(p) \/ Evict(p)
  PROVE  TypeInv'
<1>0. CallsInv /\ StoreTyped
  BY TypeParts
<1>. SUFFICES CallsInv' /\ StoreTyped'
  BY TypeParts, PTL
<1>1. CASE Restart(p)
  <2>1. CallsTyped'
    BY <1>0, <1>1, BlankType, AnswerTypes, CopyTypes
       DEF Restart, CallsInv, CallsTyped, Stages
  <2>2. RefreshesSawAnEntry' /\ FetchesBroughtACopy'
    BY <1>0, <1>1 DEF Restart, CallsInv, CallsTyped, RefreshesSawAnEntry,
                      FetchesBroughtACopy, Refreshing
  <2>3. StoreTyped'
    BY <1>0, <1>1 DEF Restart, StoreTyped, MaybeEntry
  <2>. QED BY <2>1, <2>2, <2>3 DEF CallsInv
<1>2. CASE EntryAges(p)
  <2>1. mem[p] \in Entry
    BY <1>0, <1>2, CopyTypes DEF EntryAges, StoreTyped
  <2>2. \A a \in {"ripe", "old"} : [mem[p] EXCEPT !.age = a] \in MaybeEntry
    BY <2>1 DEF Entry, MaybeEntry
  <2>3. mem' \in [Process -> MaybeEntry]
    BY <1>0, <1>2, <2>2 DEF EntryAges, StoreTyped
  <2>4. StoreTyped'
    BY <1>0, <1>2, <2>3 DEF EntryAges, StoreTyped
  <2>5. CallsInv'
    BY <1>0, <1>2, AnswerTypes
       DEF EntryAges, CallsInv, CallsTyped, RefreshesSawAnEntry, FetchesBroughtACopy
  <2>. QED BY <2>4, <2>5
<1>3. CASE FailureLapses(p)
  BY <1>0, <1>3, AnswerTypes
     DEF FailureLapses, CallsInv, CallsTyped, RefreshesSawAnEntry,
         FetchesBroughtACopy, StoreTyped
<1>4. CASE Evict(p)
  BY <1>0, <1>4, AnswerTypes
     DEF Evict, CallsInv, CallsTyped, RefreshesSawAnEntry,
         FetchesBroughtACopy, StoreTyped, MaybeEntry
<1>. QED BY <1>1, <1>2, <1>3, <1>4

LEMMA IdleTypeInv ==
  ASSUME TypeInv, Tick \/ UNCHANGED vars
  PROVE  TypeInv'
<1>0. CallsInv /\ StoreTyped
  BY TypeParts
<1>. SUFFICES CallsInv' /\ StoreTyped'
  BY TypeParts, PTL
<1>1. CASE Tick
  BY <1>0, <1>1, AnswerTypes
     DEF Tick, CallsInv, CallsTyped, RefreshesSawAnEntry,
         FetchesBroughtACopy, StoreTyped
<1>2. CASE UNCHANGED vars
  BY <1>0, <1>2
     DEF vars, CallsInv, CallsTyped, RefreshesSawAnEntry,
         FetchesBroughtACopy, StoreTyped
<1>. QED BY <1>1, <1>2

LEMMA NextTypeInv == TypeInv /\ [Next]_vars => TypeInv'
<1>. SUFFICES ASSUME TypeInv, [Next]_vars PROVE TypeInv'
  OBVIOUS
<1>. QED BY StepTypeInv, DropTypeInv, ProcessTypeInv, IdleTypeInv DEF Next

(* Every variable keeps its type, whatever may be evicted or fail: no call  *)
(* answers, and no entry or file holds, what the vendor has not signed      *)
(* (store.rs:3-5).                                                          *)
THEOREM TypeCorrect == Spec => []TypeOK
<1>1. TypeInv => TypeOK
  BY DEF TypeInv
<1>. QED BY <1>1, InitTypeInv, NextTypeInv, PTL DEF Spec

----------------------------------------------------------------------------
(* Every step keeps the locks, as long as nothing is evicted *)

(* Every call ends or stays where it is. *)
Ending ==
  \A t \in Task : \/ pc'[t] = "idle"
                  \/ pc'[t] = pc[t] /\ call'[t] = call[t]

LEMMA EndingForms ==
  ASSUME TypeInv
  PROVE  /\ \A S, p, c : Settle(S, p, c) =>
                            Ending /\ \A t \in Task \cap S : pc'[t] = "idle"
         /\ \A S, f : Refuse(S, f) => Ending
         /\ \A t \in Task : \A a : Return(t, a) => Ending /\ pc'[t] = "idle"
<1>0. pc \in [Task -> Stages] /\ call \in [Task -> Call]
  BY TypeParts DEF CallsInv, CallsTyped
<1>1. ASSUME NEW S, NEW p, NEW c, Settle(S, p, c)
      PROVE  Ending /\ \A t \in Task \cap S : pc'[t] = "idle"
  <2>1. /\ pc' = [t \in Task |-> IF t \in S THEN "idle" ELSE pc[t]]
        /\ call' = [t \in Task |-> IF t \in S THEN Blank ELSE call[t]]
    BY <1>1 DEF Settle
  <2>. QED BY <2>1 DEF Ending
<1>2. ASSUME NEW S, NEW f, Refuse(S, f) PROVE Ending
  <2>1. /\ pc' = [t \in Task |-> IF t \in S THEN "idle" ELSE pc[t]]
        /\ call' = [t \in Task |-> IF t \in S THEN Blank ELSE call[t]]
    BY <1>2 DEF Refuse
  <2>. QED BY <2>1 DEF Ending
<1>3. ASSUME NEW t \in Task, NEW a, Return(t, a)
      PROVE  Ending /\ pc'[t] = "idle"
  <2>1. pc' = [pc EXCEPT ![t] = "idle"] /\ call' = [call EXCEPT ![t] = Blank]
    BY <1>3 DEF Return
  <2>. QED BY <1>0, <2>1 DEF Ending
<1>. QED BY <1>1, <1>2, <1>3

LEMMA EndingKeepsLocks ==
  ASSUME TypeInv, LockInv, mem' = mem, Ending
  PROVE  LockInv'
<1>1. OneLoader' /\ OneRefresher'
  BY DEF Ending, LockInv, OneLoader, OneRefresher, Loading, Refreshing
<1>2. LoadsMeetNoEntry' /\ RefreshesMeetTheirEntry' /\ PutsAreCopies'
  BY DEF Ending, LockInv, LoadsMeetNoEntry, RefreshesMeetTheirEntry, PutsAreCopies,
         Loading, Refreshing
<1>. QED BY <1>1, <1>2 DEF LockInv

(* The call t goes on to a stage without a lock, but to "refresh" only over *)
(* an entry; memory stays as it is.                                         *)
LEMMA UnlockedKeepsLocks ==
  ASSUME TypeInv, LockInv, mem' = mem, NEW t \in Task,
         NEW stage \in {"on_hand", "entry", "load", "waiting", "refresh"},
         NEW r \in Call, stage = "refresh" => Exists(mem[Owner[t]]),
         Continue(t, stage, r)
  PROVE  LockInv'
<1>0. /\ pc \in [Task -> Stages] /\ call \in [Task -> Call]
      /\ pc' = [pc EXCEPT ![t] = stage] /\ call' = [call EXCEPT ![t] = r]
  BY TypeParts DEF CallsInv, CallsTyped, Continue
<1>1. OneLoader' /\ OneRefresher'
  BY <1>0 DEF LockInv, OneLoader, OneRefresher, Loading, Refreshing
<1>2. LoadsMeetNoEntry' /\ RefreshesMeetTheirEntry' /\ PutsAreCopies'
  BY <1>0 DEF LockInv, LoadsMeetNoEntry, RefreshesMeetTheirEntry, PutsAreCopies,
              Loading, Refreshing
<1>. QED BY <1>1, <1>2 DEF LockInv

(* The call t takes the loader's lock, or goes on with it. *)
LEMMA LoaderKeepsLocks ==
  ASSUME TypeInv, LockInv, mem' = mem, NEW t \in Task,
         NEW stage \in Loading, NEW r \in Call, Continue(t, stage, r),
         ~Exists(mem[Owner[t]]),
         pc[t] \in Loading \/ ~LoadRunning(Owner[t]),
         stage = "load_insert" => Exists(r.got)
  PROVE  LockInv'
<1>0. /\ pc \in [Task -> Stages] /\ call \in [Task -> Call]
      /\ pc' = [pc EXCEPT ![t] = stage] /\ call' = [call EXCEPT ![t] = r]
  BY TypeParts DEF CallsInv, CallsTyped, Continue
<1>1. OneLoader'
  BY <1>0 DEF LockInv, OneLoader, LoadRunning
<1>2. OneRefresher'
  BY <1>0 DEF LockInv, OneRefresher, Loading, Refreshing
<1>3. LoadsMeetNoEntry' /\ RefreshesMeetTheirEntry' /\ PutsAreCopies'
  BY <1>0 DEF LockInv, LoadsMeetNoEntry, RefreshesMeetTheirEntry, PutsAreCopies,
              Loading, Refreshing
<1>. QED BY <1>1, <1>2, <1>3 DEF LockInv

(* The call t takes the refresher's lock, or goes on with it. *)
LEMMA RefresherKeepsLocks ==
  ASSUME TypeInv, LockInv, mem' = mem, NEW t \in Task,
         NEW stage \in Refreshing, NEW r \in Call, Continue(t, stage, r),
         Exists(mem[Owner[t]]), Exists(r.prior), Exists(r.seen),
         r.prior.dates = mem[Owner[t]].dates,
         r.seen.dates = mem[Owner[t]].dates,
         pc[t] \in Refreshing \/ ~RefreshRunning(Owner[t]),
         stage = "refresh_put" =>
           Exists(r.got) /\ NotOlder(r.got.dates, mem[Owner[t]].dates)
  PROVE  LockInv'
<1>0. /\ pc \in [Task -> Stages] /\ call \in [Task -> Call]
      /\ pc' = [pc EXCEPT ![t] = stage] /\ call' = [call EXCEPT ![t] = r]
  BY TypeParts DEF CallsInv, CallsTyped, Continue
<1>1. OneRefresher'
  BY <1>0 DEF LockInv, OneRefresher, RefreshRunning
<1>2. OneLoader'
  BY <1>0 DEF LockInv, OneLoader, Loading, Refreshing
<1>3. LoadsMeetNoEntry' /\ RefreshesMeetTheirEntry' /\ PutsAreCopies'
  BY <1>0 DEF LockInv, LoadsMeetNoEntry, RefreshesMeetTheirEntry, PutsAreCopies,
              Loading, Refreshing
<1>. QED BY <1>1, <1>2, <1>3 DEF LockInv

(* The call t, which holds a lock, puts an entry in memory and ends.  No    *)
(* other call of the process holds a lock.                                  *)
LEMMA PutKeepsLocks ==
  ASSUME TypeInv, LockInv, NEW t \in Task, NEW e \in MaybeEntry, Exists(e),
         pc[t] \in Loading \cup Refreshing, pc'[t] = "idle", Ending,
         mem' = [mem EXCEPT ![Owner[t]] = e]
  PROVE  LockInv'
<1>0. mem \in [Process -> MaybeEntry] /\ Owner \in [Task -> Process]
  BY TypeParts, StoreAssumption DEF StoreTyped
<1>1. \A u \in Task : u # t /\ Owner[u] = Owner[t] =>
                        pc[u] \notin Loading \cup Refreshing
  BY DEF LockInv, OneLoader, OneRefresher, LoadsMeetNoEntry,
         RefreshesMeetTheirEntry
<1>2. OneLoader' /\ OneRefresher'
  BY DEF Ending, LockInv, OneLoader, OneRefresher, Loading, Refreshing
<1>3. LoadsMeetNoEntry'
  BY <1>0, <1>1 DEF Ending, LockInv, LoadsMeetNoEntry, Loading
<1>4. RefreshesMeetTheirEntry'
  BY <1>0, <1>1 DEF Ending, LockInv, RefreshesMeetTheirEntry, Refreshing
<1>5. PutsAreCopies'
  BY <1>0, <1>1 DEF Ending, LockInv, PutsAreCopies, Loading, Refreshing
<1>. QED BY <1>2, <1>3, <1>4, <1>5 DEF LockInv

LEMMA InitLockInv == Init => LockInv
  BY DEF Init, LockInv, OneLoader, OneRefresher, LoadsMeetNoEntry,
         RefreshesMeetTheirEntry, PutsAreCopies, Loading, Refreshing

LEMMA StepLockInv ==
  ASSUME TypeInv, LockInv, NEW t \in Task,
         Lookup(t) \/ ForceRefresh(t) \/ Step(t)
  PROVE  LockInv'
<1>0. /\ CallsInv /\ StoreTyped
      /\ pc \in [Task -> Stages] /\ call \in [Task -> Call]
      /\ Owner[t] \in Process /\ call[t] \in Call
      /\ mem \in [Process -> MaybeEntry] /\ mem[Owner[t]] \in MaybeEntry
  BY TypeParts, StoreAssumption DEF CallsInv, CallsTyped, StoreTyped
<1>a. \A stage, r : Continue(t, stage, r) => r \in Call
  <2>1. CallsInv'
    BY StepTypeInv, TypeParts, PTL
  <2>. QED BY <1>0, <2>1 DEF CallsInv, CallsTyped, Continue
<1>1. CASE Lookup(t)
  BY <1>1, <1>a, UnlockedKeepsLocks DEF Lookup
<1>2. CASE ForceRefresh(t)
  BY <1>2, <1>a, UnlockedKeepsLocks, EndingForms, EndingKeepsLocks
     DEF ForceRefresh
<1>3. CASE LookOnHand(t)
  <2>1. ASSUME pc' = [pc EXCEPT ![t] = "idle"], call' = [call EXCEPT ![t] = Blank]
        PROVE  Ending
    BY <1>0, <2>1 DEF Ending
  <2>. QED BY <1>3, <1>a, <2>1, UnlockedKeepsLocks, EndingForms, EndingKeepsLocks
           DEF LookOnHand
<1>4. CASE ReadEntry(t)
  BY <1>4, <1>a, UnlockedKeepsLocks, EndingForms, EndingKeepsLocks DEF ReadEntry
<1>5. CASE BeginLoad(t)
  <2>1. ASSUME NEW r, NEW stage \in Loading, Continue(t, stage, r),
               ~Exists(mem[Owner[t]]), stage = "load_insert" => Exists(r.got)
        PROVE  LockInv'
    BY <1>5, <1>a, <2>1, LoaderKeepsLocks DEF BeginLoad
  <2>2. ASSUME NEW r, Ask(t, "load_fetch", "load_fetched", r),
               ~Exists(mem[Owner[t]])
        PROVE  LockInv'
    BY <2>1, <2>2 DEF Ask, Loading
  <2>3. ASSUME Exists(CopyFrom(disk, "disk"))
        PROVE  Exists([call[t] EXCEPT !.got = CopyFrom(disk, "disk")].got)
    BY <1>0, <2>3 DEF Call
  <2>. QED BY <1>5, <2>1, <2>2, <2>3, EndingForms, EndingKeepsLocks
           DEF BeginLoad, Loading
<1>6. CASE JoinLoad(t)
  BY <1>6, <1>a, UnlockedKeepsLocks DEF JoinLoad
<1>7. CASE FinishLoad(t)
  <2>1. ASSUME NEW r, Continue(t, "load_insert", r), Exists(r.got)
        PROVE  LockInv'
    BY <1>7, <1>a, <2>1, LoaderKeepsLocks
       DEF FinishLoad, Loading, LockInv, LoadsMeetNoEntry
  <2>2. Taken(call[t]) => Exists(call[t].got)
    BY <1>0, <1>7 DEF FinishLoad, Taken, CallsInv, FetchesBroughtACopy
  <2>3. Exists(call[t].prior) =>
          Exists([call[t] EXCEPT !.got = call[t].prior].got)
    BY <1>0 DEF Call
  <2>. QED BY <1>7, <2>1, <2>2, <2>3, EndingForms, EndingKeepsLocks DEF FinishLoad
<1>8. CASE InsertLoaded(t)
  <2>1. PICK e \in NewEntries(call[t].got) : mem' = [mem EXCEPT ![Owner[t]] = e]
    BY <1>8 DEF InsertLoaded
  <2>2. call[t].got \in MaybeCopy /\ Exists(call[t].got)
    BY <1>0, <1>8 DEF InsertLoaded, LockInv, PutsAreCopies, Call, MaybeCopy
  <2>3. e \in MaybeEntry /\ Exists(e)
    BY <2>2, NewEntriesType
  <2>4. Ending /\ pc'[t] = "idle"
    BY <1>8, EndingForms DEF InsertLoaded
  <2>. QED BY <1>8, <2>1, <2>3, <2>4, PutKeepsLocks DEF InsertLoaded, Loading
<1>9. CASE BeginRefresh(t)
  <2>. DEFINE e == mem[Owner[t]]
              c == [call[t] EXCEPT !.seen = e, !.prior = CopyOf(e)]
  <2>1. Exists(e)
    BY <1>9 DEF BeginRefresh, LockInv, RefreshesMeetTheirEntry
  <2>2. /\ c.seen = e /\ c.prior = CopyOf(e)
        /\ \A f : /\ [c EXCEPT !.why = f].seen = e
                  /\ [c EXCEPT !.why = f].prior = CopyOf(e)
    BY <1>0 DEF Call
  <2>3. Exists(CopyOf(e)) /\ CopyOf(e).dates = e.dates
    BY <2>1 DEF CopyOf, Exists
  <2>4. ASSUME NEW r, NEW stage \in {"refresh_fetch", "refresh_fetched"},
               Continue(t, stage, r), r.seen = e, r.prior = CopyOf(e)
        PROVE  LockInv'
    BY <1>9, <1>a, <2>1, <2>3, <2>4, RefresherKeepsLocks
       DEF BeginRefresh, Refreshing
  <2>5. ASSUME Ask(t, "refresh_fetch", "refresh_fetched", c) PROVE LockInv'
    <3>. HIDE DEF c
    <3>. QED BY <2>2, <2>4, <2>5 DEF Ask
  <2>. QED BY <1>9, <2>1, <2>5, EndingForms, EndingKeepsLocks DEF BeginRefresh
<1>10. CASE FinishRefresh(t)
  <2>. DEFINE c == call[t]
              e == mem[Owner[t]]
  <2>1. /\ Exists(e) /\ Exists(c.prior) /\ Exists(c.seen)
        /\ c.prior.dates = e.dates /\ c.seen.dates = e.dates
    BY <1>10 DEF FinishRefresh, Refreshing, LockInv, RefreshesMeetTheirEntry
  <2>2. CASE /\ Taken(c) /\ Continue(t, "refresh_put", c)
             /\ UNCHANGED mem
    <3>1. Exists(c.got) /\ NotOlder(c.got.dates, e.dates)
      BY <1>0, <1>10, <2>1, <2>2
         DEF FinishRefresh, Taken, CallsInv, FetchesBroughtACopy
    <3>. QED BY <1>0, <1>10, <2>1, <2>2, <3>1, RefresherKeepsLocks
             DEF FinishRefresh, Refreshing
  <2>3. CASE /\ mem' = [mem EXCEPT ![Owner[t]] = [c.seen EXCEPT !.age = "fresh"]]
             /\ Ending /\ pc'[t] = "idle"
    <3>1. c.seen \in Entry
      BY <1>0, <2>1, CopyTypes DEF Call, MaybeEntry
    <3>2. /\ [c.seen EXCEPT !.age = "fresh"] \in MaybeEntry
          /\ Exists([c.seen EXCEPT !.age = "fresh"])
      BY <2>1, <3>1 DEF Entry, MaybeEntry, Exists
    <3>. QED BY <1>10, <2>3, <3>2, PutKeepsLocks DEF FinishRefresh, Refreshing
  <2>. QED BY <1>10, <2>1, <2>2, <2>3, EndingForms DEF FinishRefresh
<1>11. CASE PutRefreshed(t)
  <2>1. PICK e \in NewEntries(call[t].got) : mem' = [mem EXCEPT ![Owner[t]] = e]
    BY <1>11 DEF PutRefreshed
  <2>2. call[t].got \in MaybeCopy /\ Exists(call[t].got)
    BY <1>0, <1>11 DEF PutRefreshed, LockInv, PutsAreCopies, Call, MaybeCopy
  <2>3. e \in MaybeEntry /\ Exists(e)
    BY <2>2, NewEntriesType
  <2>4. Ending /\ pc'[t] = "idle"
    BY <1>11, EndingForms DEF PutRefreshed
  <2>. QED BY <1>11, <2>1, <2>3, <2>4, PutKeepsLocks DEF PutRefreshed, Refreshing
<1>12. CASE UpstreamAnswers(t)
  <2>1. PICK r : /\ Continue(t, Fetched(pc[t]), r)
                 /\ r.seen = call[t].seen /\ r.prior = call[t].prior
    <3>1. /\ \A f : /\ [call[t] EXCEPT !.why = f].seen = call[t].seen
                    /\ [call[t] EXCEPT !.why = f].prior = call[t].prior
          /\ \A d : /\ [call[t] EXCEPT !.got = d].seen = call[t].seen
                    /\ [call[t] EXCEPT !.got = d].prior = call[t].prior
      BY <1>0 DEF Call
    <3>2. \/ \E f : Continue(t, Fetched(pc[t]), [call[t] EXCEPT !.why = f])
          \/ \E d : Continue(t, Fetched(pc[t]), [call[t] EXCEPT !.got = d])
      BY <1>12 DEF UpstreamAnswers
    <3>. QED BY <3>1, <3>2
  <2>2. CASE pc[t] = "load_fetch"
    BY <1>12, <1>a, <2>1, <2>2, LoaderKeepsLocks
       DEF UpstreamAnswers, Fetched, Loading, LockInv, LoadsMeetNoEntry
  <2>3. CASE pc[t] = "refresh_fetch"
    BY <1>12, <1>a, <2>1, <2>3, RefresherKeepsLocks
       DEF UpstreamAnswers, Fetched, Refreshing, LockInv, RefreshesMeetTheirEntry
  <2>. QED BY <1>12, <2>2, <2>3 DEF UpstreamAnswers, Fetching
<1>. QED
  BY <1>1, <1>2, <1>3, <1>4, <1>5, <1>6, <1>7, <1>8, <1>9, <1>10, <1>11, <1>12
     DEF Step

(* Calls that are dropped free their locks, and those that waited for them  *)
(* hold none; a restart ends every call of the process; an entry that ages  *)
(* keeps its dates.                                                         *)
LEMMA OtherLockInv ==
  ASSUME TypeInv, LockInv, ~MayEvict,
         \/ \E t \in Task : DropCall(t)
         \/ \E p \in Process :
              Restart(p) \/ EntryAges(p) \/ FailureLapses(p) \/ Evict(p)
         \/ Tick \/ UNCHANGED vars
  PROVE  LockInv'
<1>0. /\ pc \in [Task -> Stages] /\ call \in [Task -> Call]
      /\ mem \in [Process -> MaybeEntry] /\ Owner \in [Task -> Process]
  BY TypeParts, StoreAssumption DEF CallsInv, CallsTyped, StoreTyped
<1>1. ASSUME NEW t \in Task, DropCall(t) PROVE LockInv'
  <2>1. \A u \in Task : \/ pc'[u] \in {"idle", "load"}
                        \/ pc'[u] = pc[u] /\ call'[u] = call[u]
    BY <1>0, <1>1 DEF DropCall
  <2>2. mem' = mem
    BY <1>1 DEF DropCall
  <2>3. OneLoader' /\ OneRefresher'
    BY <2>1 DEF LockInv, OneLoader, OneRefresher, Loading, Refreshing
  <2>4. LoadsMeetNoEntry' /\ RefreshesMeetTheirEntry' /\ PutsAreCopies'
    BY <2>1, <2>2 DEF LockInv, LoadsMeetNoEntry, RefreshesMeetTheirEntry,
                      PutsAreCopies, Loading, Refreshing
  <2>. QED BY <2>3, <2>4 DEF LockInv
<1>2. ASSUME NEW p \in Process, Restart(p) PROVE LockInv'
  <2>1. /\ \A u \in Task : Owner[u] = p => pc'[u] = "idle"
        /\ \A u \in Task : Owner[u] # p =>
             /\ pc'[u] = pc[u] /\ call'[u] = call[u]
             /\ mem'[Owner[u]] = mem[Owner[u]]
    BY <1>0, <1>2 DEF Restart
  <2>2. OneLoader' /\ OneRefresher'
    BY <2>1 DEF LockInv, OneLoader, OneRefresher, Loading, Refreshing
  <2>3. LoadsMeetNoEntry' /\ RefreshesMeetTheirEntry' /\ PutsAreCopies'
    BY <2>1 DEF LockInv, LoadsMeetNoEntry, RefreshesMeetTheirEntry,
                PutsAreCopies, Loading, Refreshing
  <2>. QED BY <2>2, <2>3 DEF LockInv
<1>3. ASSUME NEW p \in Process, EntryAges(p) PROVE LockInv'
  <2>1. mem[p] \in Entry
    BY <1>0, <1>3, CopyTypes DEF EntryAges
  <2>2. \A q \in Process : mem'[q].dates = mem[q].dates
                           /\ (Exists(mem'[q]) <=> Exists(mem[q]))
    BY <1>0, <1>3, <2>1 DEF EntryAges, Entry, Exists
  <2>3. pc' = pc /\ call' = call
    BY <1>3 DEF EntryAges
  <2>4. OneLoader' /\ OneRefresher'
    BY <2>3 DEF LockInv, OneLoader, OneRefresher
  <2>5. LoadsMeetNoEntry' /\ RefreshesMeetTheirEntry' /\ PutsAreCopies'
    BY <1>0, <2>2, <2>3 DEF LockInv, LoadsMeetNoEntry, RefreshesMeetTheirEntry,
                            PutsAreCopies
  <2>. QED BY <2>4, <2>5 DEF LockInv
<1>4. ASSUME pc' = pc, call' = call, mem' = mem PROVE LockInv'
  BY <1>4, EndingKeepsLocks DEF Ending
<1>. QED BY <1>1, <1>2, <1>3, <1>4 DEF FailureLapses, Evict, Tick, vars

LEMMA NextIInv == ~MayEvict /\ IInv /\ [Next]_vars => IInv'
<1>. SUFFICES ASSUME ~MayEvict, TypeInv, LockInv, [Next]_vars
              PROVE  TypeInv' /\ LockInv'
  BY DEF IInv
<1>. QED BY NextTypeInv, StepLockInv, OtherLockInv DEF Next

----------------------------------------------------------------------------
(* What follows *)

(* At most one request of a process about the piece is with the upstream,   *)
(* whatever calls come, end and are dropped, as long as nothing is evicted: *)
(* a load asks only while memory is empty, a refresh only over an entry.    *)
THEOREM OneRequestAtATime ==
  ASSUME ~MayEvict
  PROVE  Spec => []SingleFlight
<1>1. Init => IInv
  BY InitTypeInv, InitLockInv DEF IInv
<1>2. IInv /\ [Next]_vars => IInv'
  BY NextIInv
<1>3. IInv => SingleFlight
  BY DEF IInv, LockInv, OneLoader, OneRefresher, LoadsMeetNoEntry,
         RefreshesMeetTheirEntry, SingleFlight, Fetching, Loading, Refreshing
<1>. QED BY <1>1, <1>2, <1>3, PTL DEF Spec

(* A step that changes the entry of a process puts a copy there that is not *)
(* older.                                                                   *)
LEMMA StepKeepsMemory ==
  ASSUME TypeInv, LockInv, NEW t \in Task,
         Lookup(t) \/ ForceRefresh(t) \/ Step(t),
         NEW p \in Process, Exists(mem[p])
  PROVE  Exists(mem'[p]) /\ NotOlder(mem'[p].dates, mem[p].dates)
<1>0. /\ mem \in [Process -> MaybeEntry] /\ Owner[t] \in Process
      /\ mem[p] \in Entry /\ call[t] \in Call
  BY TypeParts, CopyTypes, StoreAssumption DEF CallsInv, CallsTyped, StoreTyped
<1>1. NotOlder(mem[p].dates, mem[p].dates)
  BY <1>0, StoreAssumption DEF Entry, Dates, Option, None, NotOlder
<1>2. CASE mem' = mem
  BY <1>1, <1>2
<1>3. CASE FinishRefresh(t)
  <2>1. /\ Exists(call[t].seen)
        /\ call[t].seen.dates = mem[Owner[t]].dates
    BY <1>3 DEF FinishRefresh, Refreshing, LockInv, RefreshesMeetTheirEntry
  <2>2. call[t].seen \in Entry
    BY <1>0, <2>1, CopyTypes DEF Call, MaybeEntry
  <2>3. /\ Exists([call[t].seen EXCEPT !.age = "fresh"])
        /\ [call[t].seen EXCEPT !.age = "fresh"].dates = mem[Owner[t]].dates
    BY <2>1, <2>2 DEF Entry, Exists
  <2>4. mem' \in {mem, [mem EXCEPT ![Owner[t]] =
                                [call[t].seen EXCEPT !.age = "fresh"]]}
    BY <1>3 DEF FinishRefresh
  <2>. QED BY <1>0, <1>1, <2>3, <2>4
<1>4. CASE PutRefreshed(t)
  <2>1. PICK e \in NewEntries(call[t].got) : mem' = [mem EXCEPT ![Owner[t]] = e]
    BY <1>4 DEF PutRefreshed
  <2>2. /\ call[t].got \in MaybeCopy /\ Exists(call[t].got)
        /\ NotOlder(call[t].got.dates, mem[Owner[t]].dates)
    BY <1>0, <1>4 DEF PutRefreshed, LockInv, PutsAreCopies, Call, MaybeCopy
  <2>. QED BY <1>0, <1>1, <2>1, <2>2, NewEntriesType
<1>5. CASE InsertLoaded(t)
  <2>1. Owner[t] # p
    BY <1>5 DEF InsertLoaded, Loading, LockInv, LoadsMeetNoEntry
  <2>. QED BY <1>0, <1>1, <1>5, <2>1 DEF InsertLoaded
<1>. QED
  BY <1>2, <1>3, <1>4, <1>5
     DEF Step, Lookup, ForceRefresh, LookOnHand, ReadEntry, BeginLoad, JoinLoad,
         FinishLoad, BeginRefresh, UpstreamAnswers

(* In memory a piece is kept until a copy that is not older replaces it, or *)
(* the process ends, as long as nothing is evicted: a refresh compares what *)
(* it brings with the entry it replaces, since nothing changes that entry   *)
(* while the refresh holds the lock of the key (store.rs:6-7, 732-784).     *)
THEOREM KeptUntilReplaced ==
  ASSUME ~MayEvict
  PROVE  Spec => MemoryNeverGoesBack
<1>. DEFINE Kept == \A p \in Process :
                      Exists(mem[p]) /\ ~Restart(p) /\ ~Evict(p) =>
                        Exists(mem'[p]) /\ NotOlder(mem'[p].dates, mem[p].dates)
<1>1. Init => IInv
  BY InitTypeInv, InitLockInv DEF IInv
<1>2. IInv /\ [Next]_vars => IInv'
  BY NextIInv
<1>3. IInv /\ [Next]_vars => [Kept]_vars
  <2>. SUFFICES ASSUME TypeInv, LockInv, Next,
                       NEW p \in Process, Exists(mem[p]), ~Restart(p), ~Evict(p)
                PROVE  Exists(mem'[p]) /\ NotOlder(mem'[p].dates, mem[p].dates)
    BY DEF IInv
  <2>0. mem \in [Process -> MaybeEntry] /\ mem[p] \in Entry
    BY TypeParts, CopyTypes DEF StoreTyped
  <2>1. NotOlder(mem[p].dates, mem[p].dates)
    BY <2>0, StoreAssumption DEF Entry, Dates, Option, None, NotOlder
  <2>2. CASE mem'[p] = mem[p]
    BY <2>1, <2>2
  <2>3. ASSUME NEW t \in Task, Lookup(t) \/ ForceRefresh(t) \/ Step(t)
        PROVE  Exists(mem'[p]) /\ NotOlder(mem'[p].dates, mem[p].dates)
    BY <2>3, StepKeepsMemory
  <2>4. CASE EntryAges(p)
    <3>1. mem'[p].dates = mem[p].dates /\ Exists(mem'[p])
      BY <2>0, <2>4 DEF EntryAges, Entry, Exists
    <3>. QED BY <2>1, <3>1
  <2>5. ASSUME NEW q \in Process, q # p, Restart(q) \/ EntryAges(q) \/ Evict(q)
        PROVE  mem'[p] = mem[p]
    BY <2>0, <2>5 DEF Restart, EntryAges, Evict
  <2>. QED BY <2>2, <2>3, <2>4, <2>5
           DEF Next, DropCall, FailureLapses, Tick
<1>. QED BY <1>1, <1>2, <1>3, PTL DEF Spec, MemoryNeverGoesBack

=============================================================================
