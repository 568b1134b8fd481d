-------------------------- MODULE CacheServerProofs --------------------------
(***************************************************************************)
(* What CacheServer does, proved for any number of requests, URLs and      *)
(* places: its type correctness, that the places of the pieces fetched at  *)
(* once are owned and given back, that a piece is in one fetch only, that  *)
(* the list of known pieces stays short, and that a server calls itself    *)
(* ready only once it has fetched a piece, if it has any to warm.          *)
(***************************************************************************)
EXTENDS CacheServer, FiniteSetTheorems, TLAPS

LEMMA InitTypes == Init => TypeOK
  BY ServerAssumption DEF Init, TypeOK, Caller, Stages, NoReplies

LEMMA NextTypes ==
  ASSUME TypeOK, [Next]_vars
  PROVE  TypeOK'
<1>0. /\ NoReplies \in [Request -> {"none", "piece", "error", "busy"}]
      /\ Request \subseteq Caller /\ Sweeper \in Caller
      /\ Shared \subseteq Url /\ Warm \subseteq Url
      /\ ClientUrl \subseteq Url
  BY ServerAssumption DEF NoReplies, Caller
<1>1. ASSUME NEW r \in Request, Ask(r) PROVE TypeOK'
  BY <1>0, <1>1, ServerAssumption DEF Ask, Goes, TypeOK, Stages, server, sweep
<1>2. ASSUME NEW r \in Request, LookHeld(r) PROVE TypeOK'
  BY <1>0, <1>2 DEF LookHeld, Goes, TypeOK, Stages, server, sweep
<1>3. ASSUME NEW r \in Request, Admit(r) PROVE TypeOK'
  <2>1. CASE /\ Goes(r, "idle") /\ url' = [url EXCEPT ![r] = NoUrl]
             /\ reply' = [NoReplies EXCEPT ![r] = "busy"]
             /\ UNCHANGED <<guard, cold>>
    BY <1>0, <1>3, <2>1 DEF Admit, Goes, TypeOK, Stages, sweep
  <2>2. CASE /\ Goes(r, "serve") /\ cold' = cold \cup {url[r]}
             /\ guard' = IF url[r] \in cold THEN guard ELSE guard \cup {r}
             /\ reply' = NoReplies /\ UNCHANGED url
    BY <1>0, <1>3, <2>2 DEF Admit, Goes, TypeOK, Stages, sweep
  <2>. QED BY <1>3, <2>1, <2>2 DEF Admit
<1>4. ASSUME NEW r \in Request, Answer(r) PROVE TypeOK'
  BY <1>0, <1>4 DEF Answer, Remember, DropGuard, Goes, TypeOK, Stages, sweep
<1>5. ASSUME NEW r \in Request, HangUp(r) PROVE TypeOK'
  BY <1>0, <1>5 DEF HangUp, Abandoned, DropGuard, Waiting, TypeOK, Stages, sweep
<1>6. ASSUME NEW c \in Caller, Serve(c) PROVE TypeOK'
  BY <1>0, <1>6 DEF Serve, Goes, TypeOK, Stages, server, sweep
<1>7. ASSUME NEW c \in Caller, Load(c) PROVE TypeOK'
  BY <1>0, <1>7 DEF Load, Goes, TypeOK, Stages, server, sweep
<1>8. ASSUME NEW c \in Caller, UpstreamAnswers(c) PROVE TypeOK'
  BY <1>0, <1>8 DEF UpstreamAnswers, Waiting, TypeOK, Stages, server, sweep
<1>9. ASSUME NEW u \in Url, Evict(u) PROVE TypeOK'
  BY <1>0, <1>9 DEF Evict, TypeOK, server, sweep
<1>10. CASE SweepNext
  BY <1>0, <1>10, ServerAssumption DEF SweepNext, Goes, TypeOK, Stages, server
<1>11. CASE SweepServed
  BY <1>0, <1>11, ServerAssumption DEF SweepServed, Goes, TypeOK, Stages, server
<1>12. CASE SweepAgain
  BY <1>0, <1>12 DEF SweepAgain, TypeOK
<1>13. CASE UNCHANGED vars
  BY <1>13 DEF vars, TypeOK
<1>. QED
  BY <1>1, <1>2, <1>3, <1>4, <1>5, <1>6, <1>7, <1>8, <1>9, <1>10, <1>11, <1>12,
     <1>13 DEF Next, RequestStep

(* Every variable keeps its type, and a caller is about a URL exactly while *)
(* its call lasts.                                                          *)
THEOREM TypeCorrect == Spec => []TypeOK
  BY InitTypes, NextTypes, PTL DEF Spec

----------------------------------------------------------------------------
(* Places *)

(* `cold` is what the guards are about, one guard for each URL of it; a     *)
(* request holds its guard from when it is admitted until it ends.          *)
Places ==
  /\ cold = {url[r] : r \in guard}
  /\ \A r, s \in guard : url[r] = url[s] => r = s
  /\ \A r \in guard : pc[r] \notin {"idle", "asked", "admit"}
  /\ IsFiniteSet(cold) /\ Cardinality(cold) <= MaxCold

LEMMA InitPlaces == Init => Places
  BY FS_EmptySet, ServerAssumption DEF Init, Places

(* The request r drops its guard, if it has one. *)
LEMMA DropKeepsPlaces ==
  ASSUME TypeOK, Places, NEW r \in Request, DropGuard(r),
         url' = [url EXCEPT ![r] = NoUrl],
         \A s \in Request \ {r} :
           pc[s] \notin {"idle", "asked", "admit"} =>
             pc'[s] \notin {"idle", "asked", "admit"}
  PROVE  Places'
<1>0. url \in [Caller -> Url \cup {NoUrl}] /\ guard \subseteq Request
      /\ Request \subseteq Caller
  BY DEF TypeOK, Caller
<1>1. \A s \in guard' : s \in guard /\ s # r /\ url'[s] = url[s]
  BY <1>0 DEF DropGuard
<1>2. cold' = {url'[s] : s \in guard'}
  BY <1>0, <1>1 DEF DropGuard, Places
<1>3. IsFiniteSet(cold') /\ Cardinality(cold') <= MaxCold
  <2>1. cold' \subseteq cold
    BY DEF DropGuard
  <2>2. IsFiniteSet(cold') /\ Cardinality(cold') <= Cardinality(cold)
    BY <2>1, FS_Subset DEF Places
  <2>3. Cardinality(cold') \in Nat /\ Cardinality(cold) \in Nat
    BY <2>2, FS_CardinalityType DEF Places
  <2>. QED BY <2>2, <2>3, ServerAssumption DEF Places
<1>4. \A s \in guard' : pc'[s] \notin {"idle", "asked", "admit"}
  BY <1>0, <1>1 DEF Places
<1>. QED BY <1>1, <1>2, <1>3, <1>4 DEF Places

(* No guard, and no URL of a guard, changes. *)
LEMMA OthersKeepPlaces ==
  ASSUME TypeOK, Places, UNCHANGED <<guard, cold>>,
         \A r \in guard : /\ url'[r] = url[r]
                          /\ pc'[r] \notin {"idle", "asked", "admit"}
  PROVE  Places'
<1>1. cold' = {url'[r] : r \in guard'}
  BY DEF Places
<1>. QED BY <1>1 DEF Places

LEMMA NextPlaces ==
  ASSUME TypeOK, Places, [Next]_vars
  PROVE  Places'
<1>0. /\ pc \in [Caller -> Stages] /\ url \in [Caller -> Url \cup {NoUrl}]
      /\ guard \subseteq Request /\ Request \subseteq Caller
      /\ Sweeper \in Caller \ Request
      /\ \A r \in guard : pc[r] \notin {"idle", "asked", "admit"}
  BY ServerAssumption DEF TypeOK, Caller, Places
<1>1. ASSUME NEW r \in Request, Ask(r) \/ LookHeld(r) PROVE Places'
  BY <1>0, <1>1, OthersKeepPlaces DEF Ask, LookHeld, Goes, server
<1>2. ASSUME NEW r \in Request, Admit(r) PROVE Places'
  <2>1. CASE UNCHANGED <<guard, cold>>
    BY <1>0, <1>2, <2>1, OthersKeepPlaces DEF Admit, Goes
  <2>2. CASE /\ url[r] \notin cold /\ Cardinality(cold) < MaxCold
             /\ Goes(r, "serve") /\ UNCHANGED url
             /\ cold' = cold \cup {url[r]} /\ guard' = guard \cup {r}
    <3>1. cold' = {url'[s] : s \in guard'}
      BY <2>2 DEF Places
    <3>2. \A s, q \in guard' : url'[s] = url'[q] => s = q
      BY <2>2 DEF Places
    <3>3. \A s \in guard' : pc'[s] \notin {"idle", "asked", "admit"}
      BY <1>0, <2>2 DEF Goes
    <3>4. IsFiniteSet(cold') /\ Cardinality(cold') = Cardinality(cold) + 1
      BY <2>2, FS_AddElement DEF Places
    <3>5. Cardinality(cold) \in Nat
      BY FS_CardinalityType DEF Places
    <3>6. Cardinality(cold') <= MaxCold
      BY <2>2, <3>4, <3>5, ServerAssumption
    <3>. QED BY <3>1, <3>2, <3>3, <3>4, <3>6 DEF Places
  <2>3. CASE /\ url[r] \in cold /\ Goes(r, "serve") /\ UNCHANGED url
             /\ cold' = cold \cup {url[r]} /\ guard' = guard
    <3>1. cold' = cold
      BY <2>3
    <3>. QED BY <1>0, <2>3, <3>1, OthersKeepPlaces DEF Goes
  <2>. QED BY <1>2, <2>1, <2>2, <2>3 DEF Admit
<1>3. ASSUME NEW r \in Request, Answer(r) PROVE Places'
  BY <1>0, <1>3, DropKeepsPlaces DEF Answer, Remember, Goes
<1>4. ASSUME NEW r \in Request, HangUp(r) PROVE Places'
  BY <1>0, <1>4, DropKeepsPlaces DEF HangUp, Abandoned, Waiting
<1>5. ASSUME NEW c \in Caller, Serve(c) \/ Load(c) PROVE Places'
  BY <1>0, <1>5, OthersKeepPlaces DEF Serve, Load, Goes, server
<1>6. ASSUME NEW c \in Caller, UpstreamAnswers(c) PROVE Places'
  BY <1>0, <1>6, OthersKeepPlaces DEF UpstreamAnswers, server
<1>7. CASE SweepNext \/ SweepServed
  BY <1>0, <1>7, OthersKeepPlaces DEF SweepNext, SweepServed, Goes, server
<1>8. CASE SweepAgain
  BY <1>0, <1>8, OthersKeepPlaces DEF SweepAgain
<1>9. ASSUME NEW u \in Url, Evict(u) PROVE Places'
  BY <1>0, <1>9, OthersKeepPlaces DEF Evict, server
<1>10. CASE UNCHANGED vars
  BY <1>0, <1>10, OthersKeepPlaces DEF vars
<1>. QED
  BY <1>1, <1>2, <1>3, <1>4, <1>5, <1>6, <1>7, <1>8, <1>9, <1>10
     DEF Next, RequestStep

(* Every URL in `cold` is there for one request that will take it out, and  *)
(* there are at most MaxCold, whichever requests share a piece, end early   *)
(* or are hung up on (lib.rs:231-243, 299-306).                             *)
THEOREM PlacesOwned == Spec => []PlacesAreOwned
<1>1. Places => PlacesAreOwned
  BY DEF Places, PlacesAreOwned
<1>. QED BY <1>1, InitTypes, NextTypes, InitPlaces, NextPlaces, PTL DEF Spec

----------------------------------------------------------------------------
(* Fetches *)

LEMMA NextOneFetch ==
  ASSUME TypeOK, OneFetchPerPiece, [Next]_vars
  PROVE  OneFetchPerPiece'
<1>0. /\ pc \in [Caller -> Stages] /\ url \in [Caller -> Url \cup {NoUrl}]
      /\ Request \subseteq Caller /\ Sweeper \in Caller
  BY DEF TypeOK, Caller
<1>1. ASSUME \A c \in Caller : pc'[c] = "fetching" =>
                                pc[c] = "fetching" /\ url'[c] = url[c]
      PROVE  OneFetchPerPiece'
  BY <1>1 DEF OneFetchPerPiece
<1>2. ASSUME NEW r \in Request, Ask(r) \/ RequestStep(r) \/ HangUp(r)
      PROVE  OneFetchPerPiece'
  BY <1>0, <1>1, <1>2
     DEF Ask, RequestStep, LookHeld, Admit, Answer, HangUp, Goes
<1>3. ASSUME NEW c \in Caller, Load(c) PROVE OneFetchPerPiece'
  BY <1>0, <1>3 DEF Load, Goes, LoadRunning, OneFetchPerPiece
<1>4. ASSUME NEW c \in Caller, Serve(c) \/ UpstreamAnswers(c)
      PROVE  OneFetchPerPiece'
  BY <1>0, <1>1, <1>4 DEF Serve, UpstreamAnswers, Goes
<1>5. CASE SweepNext \/ SweepServed \/ SweepAgain
  BY <1>0, <1>1, <1>5 DEF SweepNext, SweepServed, SweepAgain, Goes
<1>6. CASE UNCHANGED vars \/ \E u \in Url : Evict(u)
  BY <1>1, <1>6 DEF vars, Evict
<1>. QED BY <1>2, <1>3, <1>4, <1>5, <1>6 DEF Next

(* A piece is in one fetch only, whoever asks for it, hangs up, or takes a  *)
(* fetch over (moka's try_get_with under Native::entry).                    *)
THEOREM OneFetch == Spec => []OneFetchPerPiece
<1>1. Init => OneFetchPerPiece
  BY DEF Init, OneFetchPerPiece
<1>. QED BY <1>1, InitTypes, NextTypes, NextOneFetch, PTL DEF Spec


----------------------------------------------------------------------------
(* What is known, and when the server is ready *)

(* The warm pieces are known from the start, so that a sweep with nothing   *)
(* to look at, which makes the server ready, is a sweep without warm        *)
(* pieces.                                                                  *)
KnownInv ==
  /\ KnownAreFew
  /\ IsFiniteSet(known)

ReadyInv ==
  /\ ReadyOnceServed
  /\ any => fetched \/ Warm = {}

(* A known piece is added when there is room for one more. *)
LEMMA RememberKeepsKnown ==
  ASSUME TypeOK, KnownInv, NEW u \in Url, Remember(u), InSweep' \subseteq InSweep
  PROVE  KnownInv'
<1>0. InSweep' \subseteq known'
  BY DEF Remember, KnownInv, KnownAreFew
<1>1. CASE u \in Shared /\ Cardinality(known) < MaxKnown /\ u \notin known
  <2>1. known' = known \cup {u}
    BY <1>1 DEF Remember
  <2>2. IsFiniteSet(known') /\ Cardinality(known') = Cardinality(known) + 1
    BY <1>1, <2>1, FS_AddElement DEF KnownInv
  <2>3. Cardinality(known') <= MaxKnown
    BY <1>1, <2>2, FS_CardinalityType, ServerAssumption DEF KnownInv
  <2>. QED BY <1>0, <1>1, <2>1, <2>2, <2>3 DEF KnownInv, KnownAreFew
<1>2. CASE known' = known
  BY <1>0, <1>2 DEF KnownInv, KnownAreFew
<1>3. known' = known \/ (/\ u \in Shared /\ u \notin known
                         /\ Cardinality(known) < MaxKnown)
  BY DEF Remember
<1>. QED BY <1>1, <1>2, <1>3

(* Only the beginning of a sweep adds to what it looks at. *)
LEMMA SweepOnlyShrinks ==
  ASSUME TypeOK, [Next]_vars, ~SweepAgain
  PROVE  InSweep' \subseteq InSweep
<1>0. /\ url \in [Caller -> Url \cup {NoUrl}] /\ NoUrl \notin Url
      /\ Sweeper \in Caller \ Request /\ Request \subseteq Caller
  BY ServerAssumption DEF TypeOK, Caller
<1>1. CASE todo' = todo /\ url'[Sweeper] = url[Sweeper]
  BY <1>1 DEF InSweep
<1>2. ASSUME NEW r \in Request, Ask(r) \/ RequestStep(r) \/ HangUp(r)
      PROVE  todo' = todo /\ url'[Sweeper] = url[Sweeper]
  BY <1>0, <1>2 DEF Ask, RequestStep, LookHeld, Admit, Answer, HangUp, sweep
<1>3. CASE SweepNext
  BY <1>0, <1>3 DEF SweepNext, InSweep
<1>4. CASE SweepServed
  BY <1>0, <1>4 DEF SweepServed, InSweep
<1>5. \/ UNCHANGED <<todo, url>> \/ SweepNext \/ SweepServed
      \/ \E r \in Request : Ask(r) \/ RequestStep(r) \/ HangUp(r)
  BY DEF Next, Serve, Load, UpstreamAnswers, Evict, vars, sweep
<1>. QED BY <1>1, <1>2, <1>3, <1>4, <1>5

LEMMA NextKnown ==
  ASSUME TypeOK, KnownInv, [Next]_vars
  PROVE  KnownInv'
<1>1. CASE known' = known /\ ~SweepAgain
  BY <1>1, SweepOnlyShrinks DEF KnownInv, KnownAreFew
<1>2. ASSUME NEW r \in Request, Answer(r), ~SweepAgain PROVE KnownInv'
  <2>1. url[r] \in Url
    BY <1>2 DEF TypeOK, Answer, Caller
  <2>. QED BY <1>1, <1>2, <2>1, RememberKeepsKnown, SweepOnlyShrinks DEF Answer
<1>3. CASE SweepAgain
  BY <1>3 DEF SweepAgain, KnownInv, KnownAreFew, InSweep
<1>4. known' = known \/ \E r \in Request : Answer(r)
  BY DEF Next, RequestStep, Ask, LookHeld, Admit, HangUp, Serve, Load,
         UpstreamAnswers, Evict, SweepNext, SweepServed, SweepAgain, vars, server
<1>. QED BY <1>1, <1>2, <1>3, <1>4

LEMMA NextReady ==
  ASSUME TypeOK, KnownInv, ReadyInv, [Next]_vars
  PROVE  ReadyInv'
<1>1. CASE UNCHANGED <<ready, any, fetched>>
  BY <1>1 DEF ReadyInv, ReadyOnceServed
<1>2. ASSUME NEW r \in Request, Answer(r) PROVE ReadyInv'
  BY <1>2 DEF Answer, sweep, ReadyInv, ReadyOnceServed
<1>3. CASE SweepServed
  BY <1>3 DEF SweepServed, server, ReadyInv, ReadyOnceServed
<1>4. CASE SweepAgain
  <2>1. known = {} => Warm = {}
    BY DEF KnownInv, KnownAreFew
  <2>. QED BY <1>4, <2>1 DEF SweepAgain, ReadyInv, ReadyOnceServed
<1>5. \/ UNCHANGED <<ready, any, fetched>> \/ SweepServed \/ SweepAgain
      \/ \E r \in Request : Answer(r)
  BY DEF Next, RequestStep, Ask, LookHeld, Admit, HangUp, Serve, Load,
         UpstreamAnswers, Evict, SweepNext, vars, server, sweep
<1>. QED BY <1>1, <1>2, <1>3, <1>4, <1>5

LEMMA InitKnown == Init => KnownInv /\ ReadyInv
  BY ServerAssumption
     DEF Init, KnownInv, KnownAreFew, InSweep, Caller, ReadyInv, ReadyOnceServed

(* The list keeps the warm pieces, at most MaxKnown, and adds only what     *)
(* every client needs, however many pieces of single chips are served at    *)
(* the same time; the sweep looks at pieces of the list only                *)
(* (lib.rs:153-159).                                                        *)
THEOREM FewAreKnown == Spec => []KnownAreFew
<1>1. KnownInv => KnownAreFew
  BY DEF KnownInv
<1>. QED BY <1>1, InitTypes, NextTypes, InitKnown, NextKnown, PTL DEF Spec

(* Nothing makes the server ready before it served or fetched a piece, the  *)
(* end of a sweep that found nothing included (lib.rs:133-151,              *)
(* README.md:112, against the comment at lib.rs:98).                        *)
THEOREM ReadyWhenServed == Spec => []ReadyOnceServed
<1>1. ReadyInv => ReadyOnceServed
  BY DEF ReadyInv
<1>. QED BY <1>1, InitTypes, NextTypes, InitKnown, NextKnown, NextReady, PTL
         DEF Spec

=============================================================================
