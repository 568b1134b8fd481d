----------------------------- MODULE VendorHost -----------------------------
(***************************************************************************)
(* Fetches of pieces that one vendor host publishes: the pause the host    *)
(* asked for, its budget of pieces held nowhere, the choice of an          *)
(* upstream, and the one retry.                                            *)
(* Source: crates/attestation/src/collateral/vendor.rs (Discovery, fetch), *)
(* store.rs (Native::fetch, admit_cold).                                   *)
(*                                                                         *)
(* This is what CollateralStore sees as a refusal that may come at any     *)
(* time, and as the time between its Ask and UpstreamAnswers.  Time is     *)
(* counted in ticks, Second of them a second; a retry delay is less than a *)
(* tick.  A fetch that is refused (paused, or over the budget) ends.       *)
(***************************************************************************)
EXTENDS Integers

CONSTANTS
  Call,           (* fetches in progress, at most one per name             *)
  NoCall,
  Setting,        (* Vendor::upstream: "vendors", a "cache", or "auto" in  *)
                  (* a confidential VM (elsewhere that means "vendors")    *)
  Second,
  RetryAfters,    (* the Retry-After values, in seconds, upstreams send    *)
  MaxRetryAfter,  (* MAX_RETRY_AFTER, HOST_PAUSE and Native::recheck, in   *)
  HostPause,      (* seconds                                               *)
  Recheck,
  PerSecond,      (* COLD_PER_SECOND                                       *)
  Reprobe,        (* Discovery::reprobe, in seconds                        *)
  LastTick        (* bound: time goes on after this for those only that    *)
                  (* sleep, and no sleep begins                            *)

ASSUME HostAssumption ==
  /\ NoCall \notin Call
  /\ Setting \in {"vendors", "cache", "auto"}
  /\ RetryAfters \subseteq Nat
  /\ Second \in Nat \ {0} /\ Recheck \in Nat \ {0} /\ HostPause \in Nat
  /\ MaxRetryAfter \in Nat /\ PerSecond \in Nat /\ Reprobe \in Nat
  /\ LastTick \in Nat

VARIABLES
  now,
  paused,   (* Host::paused_until, or Never                                *)
  second,   (* Host::second, or Never                                      *)
  cold,     (* Host::cold                                                  *)
  found,    (* Discovery::host is set                                      *)
  probed,   (* Discovery::last_probe, or Never                             *)
  prober,   (* the call that holds the lock of last_probe, or NoCall       *)
  pc,       (* per call, where its fetch is                                *)
  via,      (* per call, whom it asks: "vendors", "cache", or "none" yet   *)
  wake,     (* per call, when its sleep before the retry ends              *)
  admitted  (* history: the cold fetches admitted by the end of each tick  *)

hosts     == <<paused, second, cold>>
discovery == <<found, probed, prober>>
vars == <<now, hosts, discovery, pc, via, wake, admitted>>

Ticks == 0 .. (LastTick + MaxRetryAfter * Second)

Never == -1

NoRetryAfter == -1

Paused == paused # Never /\ paused >= now

Init ==
  /\ now = 0
  /\ paused = Never /\ second = Never /\ cold = 0
  /\ found = FALSE /\ probed = Never /\ prober = NoCall
  /\ pc = [c \in Call |-> "idle"]
  /\ via = [c \in Call |-> "none"]
  /\ wake = [c \in Call |-> 0]
  /\ admitted = [tick \in {Never} \cup Ticks |-> 0]

Goes(c, stage) == pc' = [pc EXCEPT ![c] = stage]

Ends(c) == Goes(c, "idle") /\ via' = [via EXCEPT ![c] = "none"]

Asks(c, upstream) == Goes(c, "first") /\ via' = [via EXCEPT ![c] = upstream]

----------------------------------------------------------------------------
(* Native::fetch *)

(* A fetch is refused while the host is paused; one of a piece held        *)
(* nowhere needs a place in the budget.                                    *)
Begin(c) ==
  /\ pc[c] = "idle"
  /\ \/ Paused /\ UNCHANGED pc
     \/ ~Paused /\ Goes(c, "upstream")
     \/ ~Paused /\ Goes(c, "admit")
  /\ UNCHANGED <<now, hosts, discovery, via, wake, admitted>>

(* Mutant: one place too many. *)
FullLate(used) == used > PerSecond

Full(used) == used >= PerSecond

(* The budget of the second that began with the first fetch after the last. *)
AdmitCold(c) ==
  /\ pc[c] = "admit"
  /\ LET anew == second = Never \/ now - second >= Second
         used == IF anew THEN 0 ELSE cold
     IN  /\ second' = IF anew THEN now ELSE second
         /\ \/ /\ Full(used) /\ Ends(c)
               /\ cold' = used
               /\ UNCHANGED admitted
            \/ /\ ~Full(used) /\ Goes(c, "upstream")
               /\ cold' = used + 1
               /\ admitted' = [tick \in DOMAIN admitted |->
                                 IF tick < now THEN admitted[tick]
                                               ELSE admitted[tick] + 1]
               /\ UNCHANGED via
  /\ UNCHANGED <<now, paused, discovery, wake>>

----------------------------------------------------------------------------
(* Vendor::upstream, Discovery::upstream *)

Known == Setting # "auto" \/ found

(* The vendors or the cache that are set, or the host's cache once found;  *)
(* before that, whoever discovers waits for the lock of last_probe.        *)
ChooseUpstream(c) ==
  /\ pc[c] = "upstream"
  /\ \/ Known /\ Asks(c, IF Setting = "vendors" THEN "vendors" ELSE "cache")
     \/ ~Known /\ Goes(c, "locking") /\ UNCHANGED via
  /\ UNCHANGED <<now, hosts, discovery, wake, admitted>>

(* Mutant: what the probe before found is not looked at again. *)
TakeLockBlindly(c) ==
  /\ pc[c] = "locking" /\ prober = NoCall
  /\ IF probed # Never /\ now - probed < Reprobe * Second
     THEN Asks(c, "vendors") /\ UNCHANGED <<probed, prober>>
     ELSE /\ Goes(c, "probing") /\ probed' = now /\ prober' = c
          /\ UNCHANGED via
  /\ UNCHANGED <<now, hosts, found, wake, admitted>>

(* Once the lock is free: another probe may have found the host's cache, or *)
(* have failed a short time ago.                                            *)
TakeLock(c) ==
  LET recent == probed # Never /\ now - probed < Reprobe * Second
  IN
    /\ pc[c] = "locking" /\ prober = NoCall
    /\ \/ found /\ Asks(c, "cache") /\ UNCHANGED <<probed, prober>>
       \/ ~found /\ recent /\ Asks(c, "vendors") /\ UNCHANGED <<probed, prober>>
       \/ /\ ~found /\ ~recent /\ Goes(c, "probing")
          /\ probed' = now /\ prober' = c
          /\ UNCHANGED via
    /\ UNCHANGED <<now, hosts, found, wake, admitted>>

(* The host's cache answers /health, or does not within REQUEST_TIMEOUT. *)
Probe(c) ==
  /\ pc[c] = "probing"
  /\ \/ found' = TRUE /\ Asks(c, "cache")
     \/ Asks(c, "vendors") /\ UNCHANGED found
  /\ prober' = NoCall
  /\ UNCHANGED <<now, hosts, probed, wake, admitted>>

----------------------------------------------------------------------------
(* Vendor::fetch_from, and what Native::fetch makes of its error *)

(* An answer that is not a body: "gone" is 404 and 410, "busy" 429 and 503, *)
(* "error" 408 and the other 5xx, "denied" any other status, and "down" a   *)
(* network error, which has no Retry-After.                                 *)
Answers ==
  [kind : {"gone", "busy", "error", "denied"},
   retry_after : RetryAfters \cup {NoRetryAfter}]
  \cup {[kind |-> "down", retry_after |-> NoRetryAfter]}

Retried(a) ==
  /\ a.kind # "gone"
  /\ IF a.retry_after # NoRetryAfter THEN a.retry_after <= MaxRetryAfter
                                     ELSE a.kind # "denied"

(* Mutant: the pause is as long as the host likes. *)
PauseUncapped(a) ==
  IF a.retry_after = NoRetryAfter THEN HostPause * Second
  ELSE IF a.retry_after = 0 THEN Second ELSE a.retry_after * Second

(* How long a busy host is left alone, in ticks. *)
Pause(a) ==
  LET pause == IF a.retry_after = NoRetryAfter THEN HostPause
               ELSE IF a.retry_after = 0 THEN 1 ELSE a.retry_after
  IN  (IF pause < Recheck THEN pause ELSE Recheck) * Second

Served(c) ==
  /\ pc[c] \in {"first", "second"}
  /\ Ends(c)
  /\ UNCHANGED <<now, hosts, discovery, wake, admitted>>

Retry(c) ==
  \E a \in Answers :
    /\ pc[c] = "first" /\ Retried(a) /\ now <= LastTick
    /\ Goes(c, "sleeping")
    /\ wake' = [wake EXCEPT ![c] =
                  IF a.retry_after = NoRetryAfter
                  THEN now ELSE now + a.retry_after * Second]
    /\ UNCHANGED <<now, hosts, discovery, via, admitted>>

Wake(c) ==
  /\ pc[c] = "sleeping" /\ now >= wake[c]
  /\ Goes(c, "second")
  /\ UNCHANGED <<now, hosts, discovery, via, wake, admitted>>

(* The fetch fails; a busy vendor pauses its host. *)
Fail(c) ==
  \E a \in Answers :
    /\ pc[c] = "second" \/ (pc[c] = "first" /\ ~Retried(a))
    /\ Ends(c)
    /\ paused' = IF via[c] = "vendors" /\ a.kind = "busy"
                 THEN now + Pause(a) ELSE paused
    /\ UNCHANGED <<now, second, cold, discovery, wake, admitted>>

----------------------------------------------------------------------------

(* Mutant: the lock of a probe that is dropped stays taken. *)
DropKeepingLock(c) ==
  /\ pc[c] # "idle"
  /\ Ends(c)
  /\ UNCHANGED <<now, hosts, discovery, wake, admitted>>

(* The fetch is dropped with the call that runs it. *)
Drop(c) ==
  /\ pc[c] # "idle"
  /\ Ends(c)
  /\ prober' = IF prober = c THEN NoCall ELSE prober
  /\ UNCHANGED <<now, hosts, found, probed, wake, admitted>>

Tick ==
  /\ now < LastTick \/ \E c \in Call : pc[c] = "sleeping" /\ now < wake[c]
  /\ now' = now + 1
  /\ UNCHANGED <<hosts, discovery, pc, via, wake, admitted>>

Step(c) ==
  \/ AdmitCold(c) \/ ChooseUpstream(c) \/ TakeLock(c) \/ Probe(c)
  \/ Served(c) \/ Retry(c) \/ Wake(c) \/ Fail(c)

Next == (\E c \in Call : Begin(c) \/ Step(c) \/ Drop(c)) \/ Tick

Spec == Init /\ [][Next]_vars

(* Time passes, an upstream that is silent is given up by REQUEST_TIMEOUT, *)
(* and the lock of last_probe is handed to those that wait for it in turn. *)
Fairness ==
  /\ \A c \in Call : WF_vars(Step(c)) /\ SF_vars(TakeLock(c))
  /\ WF_vars(Tick)

FairSpec == Spec /\ Fairness

----------------------------------------------------------------------------
(* Properties *)

TypeOK ==
  /\ now \in Nat
  /\ paused \in Nat \cup {Never} /\ second \in Nat \cup {Never}
  /\ cold \in 0 .. PerSecond
  /\ found \in BOOLEAN
  /\ probed \in Nat \cup {Never} /\ prober \in Call \cup {NoCall}
  /\ pc \in [Call -> {"idle", "admit", "upstream", "locking", "probing",
                      "first", "sleeping", "second"}]
  /\ via \in [Call -> {"none", "vendors", "cache"}]
  /\ wake \in [Call -> Nat]
  /\ admitted \in [{Never} \cup Ticks -> Nat]

(* However many calls miss pieces of the host, and however their seconds   *)
(* and the budget's lie against each other: no second sees more than twice *)
(* the budget (the end of one and the start of the next; store.rs:667).    *)
FewColdInAnySecond ==
  \A before, last \in {Never} \cup Ticks :
    before <= last /\ last - before <= Second =>
      admitted[last] - admitted[before] <= 2 * PerSecond

(* A fetch that turns to the vendors does so only as long as no probe has  *)
(* found the host's cache, and a call that waited for the probe of another *)
(* goes by its outcome ("Found: kept, never back to the vendors",          *)
(* vendor.rs:567).                                                         *)
NeverBackToVendors ==
  [][\A c \in Call : via[c] = "none" /\ via'[c] = "vendors" => ~found]_vars

(* Whatever Retry-After a vendor sends, and however answers follow on each *)
(* other, no host is left alone longer than recheck (store.rs:467).        *)
PauseIsBounded == paused # Never => paused <= now + Recheck * Second

(* Every fetch ends, though the call that probes for all may be dropped.   *)
FetchesEnd == \A c \in Call : pc[c] # "idle" ~> pc[c] = "idle"

=============================================================================
