-------------------------- MODULE CollateralStore --------------------------
(***************************************************************************)
(* The native collateral store: the copies of one piece of collateral in   *)
(* the memory of each process and in the cache directory the processes     *)
(* share, and the calls that read, load and refresh them concurrently.     *)
(* Source: crates/attestation/src/collateral/store.rs, disk.rs.            *)
(*                                                                         *)
(* The store is keyed by vendor URL and copies of different pieces never   *)
(* meet, so one piece is modelled.  What pieces of one vendor host share,  *)
(* the pause the host asked for and its budget of new pieces, appears here *)
(* as a refusal that may come at any time.                                 *)
(*                                                                         *)
(* A call is a task of one process.  It is split where the code awaits:    *)
(* on the key-level locks of the in-memory map, on the upstream, and after *)
(* the disk write.  moka runs at most one loader (try_get_with) and at     *)
(* most one computation (and_compute_with) per key, and does not order the *)
(* one against the other.                                                  *)
(*                                                                         *)
(* A response kept on disk or carried by a caller is "good" when it        *)
(* verifies as the piece, and a good one is known by its dates.            *)
(***************************************************************************)
EXTENDS CollateralDates

CONSTANTS
  Process,          (* processes that share the cache directory          *)
  Task,             (* calls in progress, at most one per task           *)
  Owner,            (* the process a task belongs to                     *)
  Published,        (* the dates of the copies the vendor has signed     *)
  Held, Attached,   (* the responses a call may carry: the context's own, *)
                    (* and those attached to the evidence                *)
  Upstreams,        (* who may answer: {"vendor"}, {"cache"} or both     *)
  Floor,            (* the version floor of the piece, or None           *)
  NamedByEvidence,  (* Collateral::NAMED_BY_EVIDENCE of the piece        *)
  Clock,            (* the evaluation times considered                   *)
  DiskFails,        (* whether a disk write may fail                     *)
  MayEvict          (* whether the memory may exceed its 4096 entries    *)

Source == {"held", "attached", "memory", "disk", "vendor", "cache"}

NoFile  == [kind |-> "none", dates |-> NoDates]
BadFile == [kind |-> "bad", dates |-> NoDates]
File(d) == [kind |-> "good", dates |-> d]

Response == {NoFile, BadFile} \cup {File(d) : d \in Published}

ASSUME StoreAssumption ==
  /\ Owner \in [Task -> Process]
  /\ Published \subseteq Dates
  /\ Held \subseteq Response /\ Attached \subseteq Response
  /\ Upstreams \subseteq {"vendor", "cache"}
  /\ Floor \in Option
  /\ NamedByEvidence \in BOOLEAN
  /\ Clock \subseteq Nat
  /\ DiskFails \in BOOLEAN /\ MayEvict \in BOOLEAN

VARIABLES
  now,      (* the evaluation time                                       *)
  mem,      (* per process, the entry in memory                          *)
  disk,     (* the file in the cache directory                           *)
  failed,   (* per process, the failure that stands, or "none"           *)
  pc,       (* per task, where its call is                               *)
  call,     (* per task, what its call has learnt so far                 *)
  answer,   (* per task, what its call returned in the last step, if     *)
            (* that step ended it                                        *)
  told,     (* history: newest copy a process's store gave a call        *)
  answered  (* history: upstream answers about the piece that a call     *)
            (* took up (2: more than one) since the entry in memory was  *)
            (* last fresh                                                *)

vars == <<now, mem, disk, failed, pc, call, answer, told, answered>>

----------------------------------------------------------------------------
(* Copies, entries and failures *)

Failure == {"unavailable", "refused", "not_published"}

NoCopy == [dates |-> NoDates, from |-> "none"]

Copy == [dates : Published, from : Source]

(* age: "fresh" within recheck of checked_at, then "ripe", then "old" when *)
(* past MAX_AGE.                                                           *)
Entry == [dates : Published, from : Source, refresh_at : Int,
          age : {"fresh", "ripe", "old"}]

NoEntry == [dates |-> NoDates, from |-> "none", refresh_at |-> None,
            age |-> "fresh"]

Exists(c) == c.from # "none"

CopyOf(e) == [dates |-> e.dates, from |-> e.from]

InMemory(e) == [dates |-> e.dates, from |-> "memory"]

(* Mutant: a response is believed unverified. *)
CopyFromUnverified(response, from) ==
  IF response.kind # "none" THEN [dates |-> response.dates, from |-> from]
                            ELSE NoCopy

CopyFrom(response, from) ==
  IF response.kind = "good" THEN [dates |-> response.dates, from |-> from]
                            ELSE NoCopy

(* Entries that check may make of a copy: refresh_at is drawn at random. *)
NewEntries(c) ==
  {[dates |-> c.dates, from |-> c.from, refresh_at |-> r, age |-> "fresh"] :
     r \in RefreshAt(c.dates)}

(* The newer of two copies, the first on a tie; either may be missing. *)
Newer(b, c) ==
  IF Exists(b) /\ (~Exists(c) \/ NotOlder(b.dates, c.dates)) THEN b ELSE c

(* What a process has without asking anyone: memory, else a valid file. *)
Cached(p) ==
  IF Exists(mem[p]) THEN InMemory(mem[p]) ELSE CopyFrom(disk, "disk")

(* Mutant: attached pieces are not compared with the cached copy. *)
OnHandUncached(p, held, attached) ==
  Newer(CopyFrom(held, "held"), CopyFrom(attached, "attached"))

(* The newest of the copies on hand.  The cache is looked at only for a    *)
(* piece that is also attached; load looks there anyway.                   *)
OnHand(p, held, attached) ==
  LET cached == IF attached.kind = "none" THEN NoCopy ELSE Cached(p)
  IN  Newer(Newer(CopyFrom(held, "held"), cached),
            CopyFrom(attached, "attached"))

(* A call: its evaluation time, whether it forces a refresh, the responses *)
(* it carries, the newest copy on hand, the entry it found in memory, the  *)
(* copy its fetch is compared with, what the fetch brought or why it       *)
(* failed, and (history) what the store had told before the call began.    *)
Blank == [at |-> 0, force |-> FALSE, held |-> NoFile, attached |-> NoFile,
          best |-> NoCopy, seen |-> NoEntry, prior |-> NoCopy,
          got |-> NoCopy, why |-> "none", bar |-> NoCopy]

Call == [at : Nat, force : BOOLEAN, held : Response, attached : Response,
         best : Copy \cup {NoCopy}, seen : Entry \cup {NoEntry},
         prior : Copy \cup {NoCopy}, got : Copy \cup {NoCopy},
         why : Failure \cup {"none"}, bar : Copy \cup {NoCopy}]

Ok(c) == [dates |-> c.dates, from |-> c.from, failure |-> "none"]

NoAnswer == [dates |-> NoDates, from |-> "none", failure |-> "pending"]

Error(f) == [dates |-> NoDates, from |-> "none", failure |-> f]

Answer == [dates : Published \cup {NoDates}, from : Source \cup {"none"},
           failure : Failure \cup {"none", "dropped", "pending"}]

(* Mutant: recheck does not hold a refresh back. *)
DueAtOnce(e, t, forced) ==
  \/ forced
  \/ e.dates.next_update # None /\ t >= e.refresh_at

Due(e, t, forced) ==
  /\ e.age # "fresh"
  /\ \/ forced
     \/ e.dates.next_update # None /\ t >= e.refresh_at
     \/ e.dates.next_update = None /\ e.age = "old"

(* The stages in which a task holds a key-level lock of its process. *)
Loading    == {"load_fetch", "load_fetched", "load_insert"}
Refreshing == {"refresh_fetch", "refresh_fetched", "refresh_put"}
Fetching   == {"load_fetch", "refresh_fetch"}

LoadRunning(p)    == \E t \in Task : Owner[t] = p /\ pc[t] \in Loading

(* Mutant: refreshes do not wait for each other. *)
RefreshNeverRuns(p) == FALSE

RefreshRunning(p) == \E t \in Task : Owner[t] = p /\ pc[t] \in Refreshing
Waiting(p)        == {t \in Task : Owner[t] = p /\ pc[t] = "waiting"}

NoAnswers == [t \in Task |-> NoAnswer]

Init ==
  /\ now \in Clock
  /\ mem = [p \in Process |-> NoEntry]
  /\ disk \in Response
  /\ failed = [p \in Process |-> "none"]
  /\ pc = [t \in Task |-> "idle"]
  /\ call = [t \in Task |-> Blank]
  /\ answer = NoAnswers
  /\ told = [p \in Process |-> NoCopy]
  /\ answered = [p \in Process |-> 0]

----------------------------------------------------------------------------
(* How calls end *)

(* The calls S of process p get the store's copy c; each returns it unless *)
(* it already has one that is not older.                                   *)
Settle(S, p, c) ==
  /\ pc' = [t \in Task |-> IF t \in S THEN "idle" ELSE pc[t]]
  /\ call' = [t \in Task |-> IF t \in S THEN Blank ELSE call[t]]
  /\ answer' = [t \in Task |->
                  IF t \in S THEN Ok(Newer(call[t].best, c)) ELSE NoAnswer]
  /\ told' = [told EXCEPT ![p] = Newer(@, c)]

(* The calls S get no copy from the store: each returns the one it has on  *)
(* hand, though it does not pass, or the failure.                          *)
Refuse(S, failure) ==
  /\ pc' = [t \in Task |-> IF t \in S THEN "idle" ELSE pc[t]]
  /\ call' = [t \in Task |-> IF t \in S THEN Blank ELSE call[t]]
  /\ answer' = [t \in Task |->
                  IF t \in S
                  THEN IF Exists(call[t].best) THEN Ok(call[t].best)
                                               ELSE Error(failure)
                  ELSE NoAnswer]
  /\ UNCHANGED told

(* Call t returns a, which is not a copy the store gave. *)
Return(t, a) ==
  /\ pc' = [pc EXCEPT ![t] = "idle"]
  /\ call' = [call EXCEPT ![t] = Blank]
  /\ answer' = [NoAnswers EXCEPT ![t] = a]
  /\ UNCHANGED told

(* Call t goes on to a stage, with its record now r. *)
Continue(t, stage, r) ==
  /\ pc' = [pc EXCEPT ![t] = stage]
  /\ call' = [call EXCEPT ![t] = r]
  /\ answer' = NoAnswers
  /\ UNCHANGED told

----------------------------------------------------------------------------
(* Store::lookup *)

(* A call arrives with the responses it carries. *)
Lookup(t) ==
  \E held \in Held, attached \in Attached :
    /\ pc[t] = "idle"
    /\ Continue(t, "on_hand",
                [Blank EXCEPT !.at = now, !.held = held, !.attached = attached,
                              !.bar = told[Owner[t]]])
    /\ UNCHANGED <<now, mem, disk, failed, answered>>

(* A carried copy that does not verify refuses the piece, even when another *)
(* copy is good.  Otherwise the newest copy on hand answers if it passes,   *)
(* and the store looks further if it does not.                              *)
LookOnHand(t) ==
  LET c    == call[t]
      p    == Owner[t]
      bad  == BadFile \in {c.held, c.attached}
      best == OnHand(p, c.held, c.attached)
  IN
    /\ pc[t] = "on_hand"
    /\ \/ bad /\ Return(t, Error("refused"))
       \/ /\ ~bad
          /\ Exists(best) /\ Acceptable(best.dates, Floor, c.at)
          /\ pc' = [pc EXCEPT ![t] = "idle"]
          /\ call' = [call EXCEPT ![t] = Blank]
          /\ answer' = [NoAnswers EXCEPT ![t] = Ok(best)]
          /\ told' = IF best.from \in {"memory", "disk"}
                     THEN [told EXCEPT ![p] = Newer(@, best)] ELSE told
       \/ /\ ~bad
          /\ ~(Exists(best) /\ Acceptable(best.dates, Floor, c.at))
          /\ Continue(t, "entry", [c EXCEPT !.held = NoFile,
                                            !.attached = NoFile,
                                            !.best = best])
    /\ UNCHANGED <<now, mem, disk, failed, answered>>

(* Native::entry: memory serves unless it is due for a refresh. *)
ReadEntry(t) ==
  LET e == mem[Owner[t]]
      c == call[t]
  IN
    /\ pc[t] = "entry"
    /\ \/ /\ ~Exists(e)
          /\ Continue(t, "load", c)
       \/ /\ Exists(e) /\ Due(e, c.at, FALSE)
          /\ Continue(t, "refresh", [c EXCEPT !.seen = e])
       \/ /\ Exists(e) /\ ~Due(e, c.at, FALSE)
          /\ Settle({t}, Owner[t], InMemory(e))
    /\ UNCHANGED <<now, mem, disk, failed, answered>>

(* Store::refresh: only a piece in memory is refetched. *)
ForceRefresh(t) ==
  LET e == mem[Owner[t]]
  IN
    /\ pc[t] = "idle"
    /\ IF Exists(e)
       THEN Continue(t, "refresh", [Blank EXCEPT !.at = now, !.force = TRUE,
                                                 !.seen = e])
       ELSE Return(t, Ok(NoCopy))
    /\ UNCHANGED <<now, mem, disk, failed, answered>>

----------------------------------------------------------------------------
(* Native::fetch *)

(* Ask the upstream, unless a failure still stands for the piece; the host *)
(* may be paused, its budget of new pieces spent, or the store offline.    *)
Ask(t, fetching, fetched, r) ==
  \/ /\ failed[Owner[t]] = "none"
     /\ Continue(t, fetching, r)
  \/ /\ failed[Owner[t]] = "none"
     /\ Continue(t, fetched, [r EXCEPT !.why = "unavailable"])
  \/ /\ failed[Owner[t]] # "none"
     /\ Continue(t, fetched, [r EXCEPT !.why = failed[Owner[t]]])

Fetched(stage) == IF stage = "load_fetch" THEN "load_fetched"
                                          ELSE "refresh_fetched"

(* The upstream answers, or does not within REQUEST_TIMEOUT: with a copy,  *)
(* with a body that does not verify, that it knows no such piece, that it  *)
(* is down, or that it will not serve it.  Only the vendor's own "no such  *)
(* piece" about a piece the evidence names, and an outage, are kept.       *)
UpstreamAnswers(t) ==
  LET p == Owner[t]
      c == call[t]
      Failed(f) == Continue(t, Fetched(pc[t]), [c EXCEPT !.why = f])
  IN
    /\ pc[t] \in Fetching
    /\ \E u \in Upstreams :
         \/ /\ \E d \in Published :
                 Continue(t, Fetched(pc[t]),
                          [c EXCEPT !.got = [dates |-> d, from |-> u]])
            /\ UNCHANGED failed
         \/ Failed("refused") /\ UNCHANGED failed
         \/ /\ NamedByEvidence /\ u = "vendor"
            /\ Failed("not_published")
            /\ failed' = [failed EXCEPT ![p] = "not_published"]
         \/ /\ Failed("unavailable")
            /\ failed' = [failed EXCEPT ![p] = "unavailable"]
         \/ Failed("unavailable") /\ UNCHANGED failed
    /\ answered' = [answered EXCEPT ![p] =
                      IF pc[t] = "load_fetch" \/ @ = 0 THEN 1 ELSE 2]
    /\ UNCHANGED <<now, mem, disk>>

(* Mutant: the dates are not compared. *)
TakenWhateverItsAge(c) == c.why = "none"

(* What a fetch brought is taken if it is not older than the copy at hand. *)
Taken(c) ==
  /\ c.why = "none"
  /\ ~Exists(c.prior) \/ NotOlder(c.got.dates, c.prior.dates)

(* Mutant: a copy is kept in memory alone. *)
SaveNothing(d) == UNCHANGED disk

(* The disk write is best effort. *)
Save(d) ==
  \/ disk' = File(d)
  \/ DiskFails /\ UNCHANGED disk

----------------------------------------------------------------------------
(* A miss: mem.try_get_with(url, Native::load) *)

(* Take the loader's place, unless memory was filled meanwhile: a current  *)
(* disk copy is taken as it is, else the upstream is asked.                *)
BeginLoad(t) ==
  LET p    == Owner[t]
      c    == call[t]
      file == CopyFrom(disk, "disk")
  IN
    /\ pc[t] = "load" /\ ~LoadRunning(p)
    /\ \/ /\ Exists(mem[p])
          /\ Settle({t}, p, CopyOf(mem[p]))
       \/ /\ ~Exists(mem[p])
          /\ Exists(file) /\ Current(file.dates, c.at)
          /\ Continue(t, "load_insert", [c EXCEPT !.got = file])
       \/ /\ ~Exists(mem[p])
          /\ ~(Exists(file) /\ Current(file.dates, c.at))
          /\ Ask(t, "load_fetch", "load_fetched", [c EXCEPT !.prior = file])
    /\ UNCHANGED <<now, mem, disk, failed, answered>>

(* A second miss waits for the load that is running. *)
JoinLoad(t) ==
  /\ pc[t] = "load" /\ LoadRunning(Owner[t])
  /\ Continue(t, "waiting", call[t])
  /\ UNCHANGED <<now, mem, disk, failed, answered>>

(* The fetched copy unless the disk copy is newer; without one, the disk   *)
(* copy; without either, every call that waits gets the failure.           *)
FinishLoad(t) ==
  LET p    == Owner[t]
      c    == call[t]
  IN
    /\ pc[t] = "load_fetched"
    /\ \/ Taken(c) /\ Save(c.got.dates) /\ Continue(t, "load_insert", c)
       \/ /\ ~Taken(c) /\ Exists(c.prior)
          /\ Continue(t, "load_insert", [c EXCEPT !.got = c.prior])
          /\ UNCHANGED disk
       \/ /\ ~Taken(c) /\ ~Exists(c.prior)
          /\ Refuse({t} \cup Waiting(p), c.why)
          /\ UNCHANGED disk
    /\ UNCHANGED <<now, mem, failed, answered>>

(* moka keeps what the loader returned and hands it to those that wait. *)
InsertLoaded(t) ==
  LET p == Owner[t]
  IN
    /\ pc[t] = "load_insert"
    /\ \E e \in NewEntries(call[t].got) : mem' = [mem EXCEPT ![p] = e]
    /\ Settle({t} \cup Waiting(p), p, call[t].got)
    /\ UNCHANGED <<now, disk, failed, answered>>

----------------------------------------------------------------------------
(* Native::refresh: mem.entry(url).and_compute_with(..) *)

(* Once the refreshes before it are done: nothing to do unless the copy    *)
(* now in memory is still due.                                             *)
BeginRefresh(t) ==
  LET p == Owner[t]
      c == call[t]
      e == mem[p]
  IN
    /\ pc[t] = "refresh" /\ ~RefreshRunning(p)
    /\ \/ /\ Exists(e) /\ ~Due(e, c.at, c.force)
          /\ IF c.force THEN Return(t, Ok(NoCopy))
                        ELSE Settle({t}, p, InMemory(e))
       \/ /\ Exists(e) /\ Due(e, c.at, c.force)
          /\ Ask(t, "refresh_fetch", "refresh_fetched",
                 [c EXCEPT !.seen = e, !.prior = CopyOf(e)])
       \/ /\ ~Exists(e)
          /\ Ask(t, "refresh_fetch", "refresh_fetched", c)
    /\ UNCHANGED <<now, mem, disk, failed, answered>>

(* Mutant: a failed refetch takes the entry out of memory. *)
FinishRefreshForgetting(t) ==
  LET p == Owner[t]
      c == call[t]
  IN
    /\ pc[t] = "refresh_fetched"
    /\ \/ Taken(c) /\ Save(c.got.dates) /\ Continue(t, "refresh_put", c)
          /\ UNCHANGED mem
       \/ /\ ~Taken(c)
          /\ mem' = [mem EXCEPT ![p] = NoEntry]
          /\ Settle({t}, p, InMemory(c.seen))
          /\ UNCHANGED disk
    /\ UNCHANGED <<now, failed, answered>>

(* A copy that is not older is written to disk and put in memory; otherwise *)
(* the copy seen before the fetch is put back, as checked just now.         *)
FinishRefresh(t) ==
  LET p    == Owner[t]
      c    == call[t]
  IN
    /\ pc[t] = "refresh_fetched"
    /\ \/ Taken(c) /\ Save(c.got.dates) /\ Continue(t, "refresh_put", c)
          /\ UNCHANGED mem
       \/ /\ ~Taken(c)
          /\ mem' = IF Exists(c.prior)
                    THEN [mem EXCEPT ![p] = [c.seen EXCEPT !.age = "fresh"]]
                    ELSE mem
          /\ IF c.force
             THEN Return(t, IF c.why = "none" THEN Ok(NoCopy) ELSE Error(c.why))
             ELSE Settle({t}, p, InMemory(c.seen))
          /\ UNCHANGED disk
    /\ UNCHANGED <<now, failed, answered>>

PutRefreshed(t) ==
  LET p == Owner[t]
      c == call[t]
  IN
    /\ pc[t] = "refresh_put"
    /\ \E e \in NewEntries(c.got) : mem' = [mem EXCEPT ![p] = e]
    /\ IF c.force THEN Return(t, Ok(NoCopy)) ELSE Settle({t}, p, c.got)
    /\ UNCHANGED <<now, disk, failed, answered>>

----------------------------------------------------------------------------
(* What happens to calls, processes and time *)

(* Mutant: calls that wait for a load are not woken when it is dropped. *)
NobodyAbandoned(t) == {}

(* The calls that waited for the load t runs, when t is dropped. *)
Abandoned(t) == IF pc[t] \in Loading THEN Waiting(Owner[t]) ELSE {}

(* The caller drops the call (a client that hung up, a timeout around it): *)
(* the lock it held is free again, and calls that waited for its load try  *)
(* again.  Nothing is awaited from the disk write to the insertion.        *)
DropCall(t) ==
  /\ pc[t] \notin {"idle", "load_insert", "refresh_put"}
  /\ pc' = [s \in Task |-> IF s = t THEN "idle"
                           ELSE IF s \in Abandoned(t) THEN "load" ELSE pc[s]]
  /\ call' = [call EXCEPT ![t] = Blank]
  /\ answer' = [NoAnswers EXCEPT ![t] = Error("dropped")]
  /\ answered' = IF pc[t] \in Refreshing
                 THEN [answered EXCEPT ![Owner[t]] = 0] ELSE answered
  /\ UNCHANGED <<now, mem, disk, failed, told>>

(* A process ends and starts anew with the files it kept. *)
Restart(p) ==
  LET mine == {t \in Task : Owner[t] = p}
  IN
    /\ mem' = [mem EXCEPT ![p] = NoEntry]
    /\ failed' = [failed EXCEPT ![p] = "none"]
    /\ pc' = [t \in Task |-> IF t \in mine THEN "idle" ELSE pc[t]]
    /\ call' = [t \in Task |-> IF t \in mine THEN Blank ELSE call[t]]
    /\ answer' = [t \in Task |->
                    IF t \in mine THEN Error("dropped") ELSE NoAnswer]
    /\ told' = [told EXCEPT ![p] = NoCopy]
    /\ answered' = [answered EXCEPT ![p] = 0]
    /\ UNCHANGED <<now, disk>>

(* Time passes for the entry in memory: first past recheck, then (which    *)
(* matters to a piece without a nextUpdate only) past MAX_AGE.             *)
EntryAges(p) ==
  /\ Exists(mem[p])
  /\ \/ /\ mem[p].age = "fresh"
        /\ mem' = [mem EXCEPT ![p].age = "ripe"]
        /\ answered' = [answered EXCEPT ![p] = 0]
     \/ /\ mem[p].age = "ripe" /\ mem[p].dates.next_update = None
        /\ mem' = [mem EXCEPT ![p].age = "old"]
        /\ UNCHANGED answered
  /\ answer' = NoAnswers
  /\ UNCHANGED <<now, disk, failed, pc, call, told>>

(* A failure stands for OUTAGE, a Retry-After or recheck. *)
FailureLapses(p) ==
  /\ failed[p] # "none"
  /\ failed' = [failed EXCEPT ![p] = "none"]
  /\ answer' = NoAnswers
  /\ UNCHANGED <<now, mem, disk, pc, call, told, answered>>

(* moka makes room, when it holds more than its capacity. *)
Evict(p) ==
  /\ MayEvict /\ Exists(mem[p])
  /\ mem' = [mem EXCEPT ![p] = NoEntry]
  /\ answer' = NoAnswers
  /\ UNCHANGED <<now, disk, failed, pc, call, told, answered>>

Tick ==
  /\ \E later \in Clock : now < later /\ now' = later
  /\ answer' = NoAnswers
  /\ UNCHANGED <<mem, disk, failed, pc, call, told, answered>>

----------------------------------------------------------------------------

Step(t) ==
  \/ LookOnHand(t) \/ ReadEntry(t)
  \/ BeginLoad(t) \/ JoinLoad(t) \/ FinishLoad(t) \/ InsertLoaded(t)
  \/ BeginRefresh(t) \/ FinishRefresh(t) \/ PutRefreshed(t)
  \/ UpstreamAnswers(t)

Next ==
  \/ \E t \in Task : Lookup(t) \/ ForceRefresh(t) \/ Step(t) \/ DropCall(t)
  \/ \E p \in Process :
       Restart(p) \/ EntryAges(p) \/ FailureLapses(p) \/ Evict(p)
  \/ Tick

Spec == Init /\ [][Next]_vars

(* Every call that can go on does: REQUEST_TIMEOUT ends an upstream that   *)
(* is silent (vendor.rs:266).  Those that wait for a key-level lock of     *)
(* moka race for it when it is free; one that finds it free again and      *)
(* again wins some time.                                                   *)
Fairness ==
  \A t \in Task :
    WF_vars(Step(t)) /\ SF_vars(BeginLoad(t)) /\ SF_vars(BeginRefresh(t))

FairSpec == Spec /\ Fairness

----------------------------------------------------------------------------
(* Properties *)

TypeOK ==
  /\ now \in Clock
  /\ mem \in [Process -> Entry \cup {NoEntry}]
  /\ disk \in Response
  /\ failed \in [Process -> {"none", "unavailable", "not_published"}]
  /\ pc \in [Task -> {"idle", "on_hand", "entry", "load", "waiting", "refresh"}
                    \cup Loading \cup Refreshing]
  /\ call \in [Task -> Call]
  /\ answer \in [Task -> Answer]
  /\ told \in [Process -> Copy \cup {NoCopy}]
  /\ answered \in [Process -> 0 .. 2]

(* However many calls of a process miss the piece or find it due at the    *)
(* same time, and whichever of them are dropped on the way, at most one    *)
(* request about it is with the upstream (store.rs:555, 748).              *)
SingleFlight ==
  \A t, u \in Task :
    Owner[t] = Owner[u] /\ pc[t] \in Fetching /\ pc[u] \in Fetching => t = u

(* Calls that queue behind a refresh do not each ask again: between two    *)
(* recheck intervals of the copy in memory the upstream answers about it   *)
(* at most once (store.rs:750).                                            *)
AnsweredOncePerRecheck ==
  \A p \in Process : Exists(mem[p]) => answered[p] <= 1

(* In memory a piece is kept until a copy that is not older replaces it;   *)
(* a failed refetch, an older answer, or an end of the calls that asked    *)
(* for it never takes it away (store.rs:6-7), short of a restart or of     *)
(* moka making room.                                                       *)
MemoryNeverGoesBack ==
  [][\A p \in Process :
       Exists(mem[p]) /\ ~Restart(p) /\ ~Evict(p) =>
         Exists(mem'[p]) /\ NotOlder(mem'[p].dates, mem[p].dates)]_vars

(* The file in the cache directory is never replaced by an older copy.     *)
DiskNeverGoesBack ==
  [][disk.kind = "good" =>
       disk'.kind = "good" /\ NotOlder(disk'.dates, disk.dates)]_vars

(* What a process reads back after a restart is not older than what it had *)
(* in memory: a copy reaches memory only after the disk has it             *)
(* (store.rs:724, 759).                                                    *)
DiskKeepsUp ==
  \A p \in Process :
    Exists(mem[p]) => disk.kind = "good" /\ NotOlder(disk.dates, mem[p].dates)

(* Every call ends, whatever is dropped, fails or is held up around it:    *)
(* none waits forever for a load or a refresh another call took over.      *)
EveryCallEnds == \A t \in Task : pc[t] # "idle" ~> pc[t] = "idle"

(* A call never returns a copy older than one the store had given an       *)
(* earlier call of the same process, whatever is attached to the evidence  *)
(* and whatever other calls do meanwhile.  Only a response held by the     *)
(* context itself, with none attached, answers without a look at the       *)
(* memory (store.rs:302-340, 359).                                         *)
MonotonicReads ==
  [][\A t \in Task :
       /\ pc[t] # "idle" /\ pc'[t] = "idle"
       /\ answer'[t].from # "none"
       /\ ~(pc[t] = "on_hand" /\ call[t].attached = NoFile)
       /\ Exists(call[t].bar)
       => NotOlder(answer'[t].dates, call[t].bar.dates)]_vars

(* Seen from outside, a process keeps one edition and moves forward, asks  *)
(* the upstream one question at a time, and answers with nothing older     *)
(* than what it keeps.  A response the context itself holds is not the     *)
(* store's to keep up to date (store.rs:302-340).                          *)
Promise ==
  INSTANCE KeptPiece WITH
    Edition <- Published,
    Missing <- BadFile,
    kept    <- [p \in Process |-> IF Exists(mem[p]) THEN mem[p].dates
                                                  ELSE BadFile],
    asking  <- [p \in Process |-> \E t \in Task :
                                     Owner[t] = p /\ pc[t] \in Fetching],
    served  <- [t \in Task |-> IF answer[t].from \in {"none", "held"}
                              THEN BadFile ELSE answer[t].dates]

KeepsItsPromise == Promise!Spec

=============================================================================
