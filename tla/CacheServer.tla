----------------------------- MODULE CacheServer -----------------------------
(***************************************************************************)
(* The attestation-cache: requests for pieces of collateral, the bound on  *)
(* the pieces fetched at once, and the sweep that keeps pieces fresh.      *)
(* Source: crates/attestation-cache/src/lib.rs.                            *)
(*                                                                         *)
(* The store below it (CollateralStore, for one piece) appears here as a   *)
(* set of pieces in memory and, per piece, one call that loads it and      *)
(* those that wait for it.  The refresh of a piece in memory is inside the *)
(* answer.  /health, OPTIONS and the bearer keys touch none of this state. *)
(***************************************************************************)
EXTENDS Naturals, FiniteSets

CONSTANTS
  Request,      (* requests in progress, at most one per name      *)
  Sweeper,      (* the task that runs keep_fresh                   *)
  Url,          (* URLs                                            *)
  ClientUrl,    (* those that clients ask for                      *)
  NoUrl,        (* no URL: the caller has no call                  *)
  Shared,       (* pieces every client of a kind needs             *)
  Unknown,      (* URLs that name no piece                         *)
  Warm,         (* Config::warm                                    *)
  MaxCold,      (* MAX_COLD  *)
  MaxKnown,     (* MAX_KNOWN *)
  MayEvict      (* whether the store may make room *)

ASSUME ServerAssumption ==
  /\ Sweeper \notin Request /\ NoUrl \notin Url
  /\ ClientUrl \subseteq Url
  /\ Shared \subseteq Url /\ Warm \subseteq Url
  /\ Unknown \subseteq Url \ Shared
  /\ IsFiniteSet(Warm)
  /\ MaxCold \in Nat /\ MaxKnown \in Nat
  /\ MayEvict \in BOOLEAN

Caller == Request \cup {Sweeper}

VARIABLES
  pc,       (* per caller, where its call is                       *)
  url,      (* per caller, the URL it is about                     *)
  guard,    (* the requests that hold a Fetching guard             *)
  cold,     (* Cache::cold: URLs not in memory being fetched now   *)
  known,    (* Cache::known: URLs looked at on each sweep          *)
  ready,    (* Cache::ready                                        *)
  memory,   (* the pieces the store has in memory                  *)
  todo,     (* the URLs left in this sweep                         *)
  any,      (* keep_fresh's `any`                                  *)
  reply,    (* per request, how it was answered in the last step   *)
  fetched   (* history: a piece was served or fetched by the sweep *)

server == <<cold, known, ready, guard>>
sweep  == <<todo, any>>
vars == <<pc, url, guard, cold, known, ready, memory, todo, any, reply, fetched>>

Stages == {"idle", "asked", "admit", "serve", "waiting", "fetching",
           "found", "failed"}

NoReplies == [r \in Request |-> "none"]

Init ==
  /\ pc = [c \in Caller |-> "idle"]
  /\ url = [c \in Caller |-> NoUrl]
  /\ guard = {} /\ cold = {}
  /\ known = Warm
  /\ ready = FALSE
  /\ memory = {}
  /\ todo = Warm /\ any = (Warm = {})
  /\ reply = NoReplies
  /\ fetched = FALSE

(* Callers that wait for the load of u. *)
Waiting(u) == {c \in Caller : pc[c] = "waiting" /\ url[c] = u}

(* Mutant: a call does not see the load of another. *)
LoadNeverRuns(u) == FALSE

LoadRunning(u) == \E c \in Caller : pc[c] = "fetching" /\ url[c] = u

Goes(c, stage) == pc' = [pc EXCEPT ![c] = stage]

----------------------------------------------------------------------------
(* answer *)

Ask(r) ==
  /\ pc[r] = "idle"
  /\ \E u \in ClientUrl : url' = [url EXCEPT ![r] = u]
  /\ Goes(r, "asked")
  /\ reply' = NoReplies
  /\ UNCHANGED <<server, memory, sweep, fetched>>

(* store.holds(&url): a piece in memory needs no guard. *)
LookHeld(r) ==
  /\ pc[r] = "asked"
  /\ Goes(r, IF url[r] \in memory THEN "serve" ELSE "admit")
  /\ reply' = NoReplies
  /\ UNCHANGED <<url, server, memory, sweep, fetched>>

(* Under the lock of `cold`: busy, or on with a guard, or without one if   *)
(* another request has the guard of this URL.                              *)
Admit(r) ==
  /\ pc[r] = "admit"
  /\ \/ /\ Cardinality(cold) >= MaxCold /\ url[r] \notin cold
        /\ Goes(r, "idle")
        /\ url' = [url EXCEPT ![r] = NoUrl]
        /\ reply' = [NoReplies EXCEPT ![r] = "busy"]
        /\ UNCHANGED <<guard, cold>>
     \/ /\ Cardinality(cold) < MaxCold \/ url[r] \in cold
        /\ Goes(r, "serve")
        /\ cold' = cold \cup {url[r]}
        /\ guard' = IF url[r] \in cold THEN guard ELSE guard \cup {r}
        /\ reply' = NoReplies
        /\ UNCHANGED url
  /\ UNCHANGED <<known, ready, memory, sweep, fetched>>

(* Mutant: every request gives a place back, whoever holds the guard. *)
DropGuardOfAnyone(r) ==
  /\ guard' = guard \ {r}
  /\ cold' = cold \ {url[r]}

(* The guard of r, if it has one, is dropped with its request. *)
DropGuard(r) ==
  /\ guard' = guard \ {r}
  /\ cold' = IF r \in guard THEN cold \ {url[r]} ELSE cold

(* Mutant: pieces of one chip are remembered as well. *)
RememberChips(u) ==
  known' = IF Cardinality(known) < MaxKnown THEN known \cup {u} ELSE known

(* Only pieces every client needs, and only so many of them. *)
Remember(u) ==
  known' = IF u \in Shared /\ Cardinality(known) < MaxKnown
           THEN known \cup {u} ELSE known

(* The rest of answer: ready and known are set before the guard is dropped. *)
Answer(r) ==
  LET found == pc[r] = "found"
  IN
    /\ pc[r] \in {"found", "failed"}
    /\ Goes(r, "idle")
    /\ url' = [url EXCEPT ![r] = NoUrl]
    /\ ready' = (ready \/ found)
    /\ IF found THEN Remember(url[r]) ELSE UNCHANGED known
    /\ DropGuard(r)
    /\ reply' = [NoReplies EXCEPT ![r] = IF found THEN "piece" ELSE "error"]
    /\ fetched' = (fetched \/ found)
    /\ UNCHANGED <<memory, sweep>>

(* Mutant: callers that wait for a load are not woken when it is dropped. *)
NobodyAbandoned(r) == {}

(* The callers that waited for the load r runs, when r is dropped. *)
Abandoned(r) == IF pc[r] = "fetching" THEN Waiting(url[r]) ELSE {}

(* Mutant: the request is dropped, its URL is not. *)
HangUpStillNamed(r) ==
  /\ pc[r] \notin {"idle", "found", "failed"}
  /\ pc' = [c \in Caller |-> IF c = r THEN "idle"
                             ELSE IF c \in Abandoned(r) THEN "serve" ELSE pc[c]]
  /\ DropGuard(r)
  /\ reply' = NoReplies
  /\ UNCHANGED <<url, known, ready, memory, sweep, fetched>>

(* The client hangs up, or its connection is past CONNECTION_TIMEOUT: the  *)
(* request is dropped where it stands.  A load it ran is free, and those   *)
(* that waited for the load try again.                                     *)
HangUp(r) ==
  /\ pc[r] \notin {"idle", "found", "failed"}
  /\ pc' = [c \in Caller |-> IF c = r THEN "idle"
                             ELSE IF c \in Abandoned(r) THEN "serve" ELSE pc[c]]
  /\ url' = [url EXCEPT ![r] = NoUrl]
  /\ DropGuard(r)
  /\ reply' = NoReplies
  /\ UNCHANGED <<known, ready, memory, sweep, fetched>>

----------------------------------------------------------------------------
(* Store::serve *)

(* A piece in memory is served; a call for another one waits while the     *)
(* piece is loaded.                                                        *)
Serve(c) ==
  /\ pc[c] = "serve"
  /\ \/ url[c] \in Unknown /\ Goes(c, "failed")
     \/ url[c] \in memory  /\ Goes(c, "found")
     \/ /\ url[c] \notin memory \cup Unknown /\ LoadRunning(url[c])
        /\ Goes(c, "waiting")
  /\ reply' = NoReplies
  /\ UNCHANGED <<url, memory, server, sweep, fetched>>

(* The first call loads it: from a current disk copy, or by asking the     *)
(* upstream.                                                               *)
Load(c) ==
  /\ pc[c] = "serve"
  /\ url[c] \notin memory \cup Unknown /\ ~LoadRunning(url[c])
  /\ \/ Goes(c, "fetching") /\ UNCHANGED memory
     \/ Goes(c, "found") /\ memory' = memory \cup {url[c]}
  /\ reply' = NoReplies
  /\ UNCHANGED <<url, server, sweep, fetched>>

(* The upstream answers, or does not within REQUEST_TIMEOUT. *)
UpstreamAnswers(c) ==
  /\ pc[c] = "fetching"
  /\ \E outcome \in {"found", "failed"} :
       /\ pc' = [d \in Caller |-> IF d \in {c} \cup Waiting(url[c])
                                  THEN outcome ELSE pc[d]]
       /\ memory' = IF outcome = "found" THEN memory \cup {url[c]} ELSE memory
  /\ reply' = NoReplies
  /\ UNCHANGED <<url, server, sweep, fetched>>

Evict(u) ==
  /\ MayEvict /\ u \in memory
  /\ memory' = memory \ {u}
  /\ reply' = NoReplies
  /\ UNCHANGED <<pc, url, server, sweep, fetched>>

----------------------------------------------------------------------------
(* keep_fresh *)

(* The next piece of the sweep: straight to the store, without a guard. *)
SweepNext ==
  /\ pc[Sweeper] = "idle" /\ todo # {}
  /\ \E u \in todo :
       /\ todo' = todo \ {u}
       /\ url' = [url EXCEPT ![Sweeper] = u]
  /\ Goes(Sweeper, "serve")
  /\ reply' = NoReplies
  /\ UNCHANGED <<server, memory, any, fetched>>

SweepServed ==
  LET found == pc[Sweeper] = "found"
  IN
    /\ pc[Sweeper] \in {"found", "failed"}
    /\ Goes(Sweeper, "idle")
    /\ url' = [url EXCEPT ![Sweeper] = NoUrl]
    /\ any' = (any \/ found)
    /\ fetched' = (fetched \/ found)
    /\ reply' = NoReplies
    /\ UNCHANGED <<server, memory, todo>>

(* Mutant: the next sweep looks at the warm pieces alone. *)
SweepWarmAgain ==
  /\ pc[Sweeper] = "idle" /\ todo = {}
  /\ ready' = (ready \/ any)
  /\ todo' = Warm /\ any' = (Warm = {})
  /\ reply' = NoReplies
  /\ UNCHANGED <<pc, url, guard, cold, known, memory, fetched>>

(* Mutant: the end of any sweep makes the server ready. *)
SweepReadyAgain ==
  /\ pc[Sweeper] = "idle" /\ todo = {}
  /\ ready' = TRUE
  /\ todo' = known /\ any' = (known = {})
  /\ reply' = NoReplies
  /\ UNCHANGED <<pc, url, guard, cold, known, memory, fetched>>

(* The end of a sweep; SWEEP later the next one looks at what is known     *)
(* then.                                                                   *)
SweepAgain ==
  /\ pc[Sweeper] = "idle" /\ todo = {}
  /\ ready' = (ready \/ any)
  /\ todo' = known /\ any' = (known = {})
  /\ reply' = NoReplies
  /\ UNCHANGED <<pc, url, guard, cold, known, memory, fetched>>

----------------------------------------------------------------------------

RequestStep(r) == LookHeld(r) \/ Admit(r) \/ Answer(r)

Next ==
  \/ \E r \in Request : Ask(r) \/ RequestStep(r) \/ HangUp(r)
  \/ \E c \in Caller : Serve(c) \/ Load(c) \/ UpstreamAnswers(c)
  \/ \E u \in Url : Evict(u)
  \/ SweepNext \/ SweepServed \/ SweepAgain

Spec == Init /\ [][Next]_vars

(* Callers run, a fetch ends by REQUEST_TIMEOUT at the latest, the sleep of *)
(* the sweep ends, and a call that finds the load of its piece given up by  *)
(* one caller after the other takes it over at some time: moka lets those   *)
(* that wait race for it.                                                   *)
Fairness ==
  /\ \A r \in Request : WF_vars(RequestStep(r))
  /\ \A c \in Caller : WF_vars(Serve(c)) /\ SF_vars(Load(c))
                       /\ WF_vars(UpstreamAnswers(c))
  /\ WF_vars(SweepNext) /\ WF_vars(SweepServed) /\ WF_vars(SweepAgain)

FairSpec == Spec /\ Fairness

----------------------------------------------------------------------------
(* Properties *)

TypeOK ==
  /\ pc \in [Caller -> Stages]
  /\ url \in [Caller -> Url \cup {NoUrl}]
  /\ \A c \in Caller : url[c] = NoUrl <=> pc[c] = "idle"
  /\ guard \subseteq Request
  /\ cold \subseteq Url /\ known \subseteq Url
  /\ memory \subseteq Url /\ todo \subseteq Url
  /\ ready \in BOOLEAN /\ any \in BOOLEAN /\ fetched \in BOOLEAN
  /\ reply \in [Request -> {"none", "piece", "error", "busy"}]

(* Every URL in `cold` has one request that will take it out, and there are *)
(* never more than MaxCold of them: requests that end early or share a URL  *)
(* neither leak a place nor give back one they do not have                  *)
(* (lib.rs:231-243, 299-306).                                               *)
PlacesAreOwned ==
  /\ Cardinality(cold) <= MaxCold
  /\ \A u \in cold : \E r \in guard : url[r] = u
  /\ \A r, s \in guard : url[r] = url[s] => r = s

(* A piece being fetched is in one fetch only, whoever asks for it and      *)
(* whoever hangs up ("fetches each piece once", tests/cache.rs:195).        *)
OneFetchPerPiece ==
  \A c, d \in Caller :
    pc[c] = "fetching" /\ pc[d] = "fetching" /\ url[c] = url[d] => c = d

(* "At most this many pieces not in memory are fetched at once"             *)
(* (lib.rs:81).                                                             *)
FewPiecesFetched ==
  Cardinality({url[c] : c \in {d \in Caller : pc[d] = "fetching"}}) <= MaxCold

(* /ready answers 200 "once a piece was fetched (a warm one or any served), *)
(* or at once when warm is empty; 503 before" (README.md:112, lib.rs:131).  *)
(* The comment of the field (lib.rs:98) has it that warm pieces which were  *)
(* looked at once, even in vain, are enough; the code asks for one found.   *)
ReadyOnceServed == ready => fetched \/ Warm = {}

(* The pieces this sweep still has to look at, and the one it looks at. *)
InSweep == todo \cup {u \in Url : url[Sweeper] = u}

(* However many pieces are served, pieces of one chip or image are known    *)
(* only if they are warm, and the sweep looks at no others; the warm ones   *)
(* stay known; at most MaxKnown are, short of a longer warm list            *)
(* (lib.rs:79, 153-159).                                                    *)
KnownAreFew ==
  /\ Warm \subseteq known /\ known \subseteq Warm \cup Shared
  /\ known = Warm \/ Cardinality(known) <= MaxKnown
  /\ InSweep \subseteq known

(* The sweep looks at every known piece again and again, whatever clients   *)
(* ask for, load and give up meanwhile (lib.rs:133-151).  What can be known *)
(* is warm or shared, by KnownAreFew.                                       *)
KnownLookedAt ==
  \A u \in Warm \cup Shared : [](u \in known => <>(pc[Sweeper] = "serve" /\ url[Sweeper] = u))

(* Every request is answered or hung up on, and its place given back.       *)
RequestsEnd == \A r \in Request : pc[r] # "idle" ~> pc[r] = "idle"

=============================================================================
