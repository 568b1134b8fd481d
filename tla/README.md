# A TLA+ model of attestation-rs

attestation-rs verifies evidence of confidential VMs and GPUs. Two things make
that hard to get right. One is the *collateral*: CRLs, TCB info, identities and
certificates that vendors sign, that age, that are fetched by many calls at once,
kept in memory and on disk, carried along with evidence, and served on by caches.
The other is the *verdict*: some dozens of checks per platform, spread over
several signed structures that must vouch for each other, under rules of which
none may be forgotten on any of the ways a verifier can be called. The modules
below have one group for each, and a third for the service around the verifier.

## Inventory of the system

| Part | State it keeps | Operations | Interacts with |
| --- | --- | --- | --- |
| Dates and acceptability (`collateral/mod.rs`, head of `store.rs`) | none | `current`, `acceptable`, `not_older_than`, `refresh_at` | every user of a piece |
| Native store (`collateral/store.rs`) | `mem` and `failed` (moka caches shared by all views of a context), `hosts` | `lookup`, `on_hand`, `entry`, `cached`, `fetch`, `load`, `refresh` | disk, vendor client, callers that carry responses |
| Disk cache (`collateral/disk.rs`) | one file per URL | `read`, `write` (atomic rename) | other processes with the same directory |
| Vendor client (`collateral/vendor.rs`) | the host cache found, the last probe | `fetch`, one retry, discovery, status mapping | vendors, a host or site cache |
| Vendor formats (`amd.rs`, `intel.rs`, `gce.rs`, `nvidia.rs`) | none | parse, verify, dates | store |
| Cache server (`attestation-cache/src/lib.rs`) | `cold`, `known`, `ready` | `handle`/`answer`, `keep_fresh`, connection timeout | store through `serve.rs` |
| Verifier dispatch (`lib.rs`, `types.rs`, `platform.rs`, `context.rs`) | the context | `verify`, `attach_collateral`, `Verified::passed` | all verifiers |
| SNP, TDX, Azure vTPM, GCP, NVIDIA, dstack verifiers (`platforms/`) | none (pure over evidence and pieces; NVIDIA forces one refresh) | `verify`, `gather` | store |
| Detection and evidence generation (`lib.rs`, `platforms/*/attest.rs`) | device files, one-time SDK flag | `detect`, `attest` | kernel, hypervisor, IMDS |
| API service (`attestation-api`) | configuration, token key | start, `/attest`, `/verify`, token keys | verifier, machine |
| WASM (`attestation-wasm`) | none | `collateral_needed`, `evaluate` | verifier, the page's fetches |
| Command line (`attestation-cli`) | none | `detect`, `attest`, `verify` | verifier |

What makes each correct, and what is hard about it:

* **Store.** A piece never goes back to an older issue, in memory or for a
  reader; at most one request per piece is with the upstream; nobody who waits
  is left waiting. Hard: moka's two key-level locks (`try_get_with` and
  `and_compute_with`) are not ordered against each other; any call may be
  dropped at any `await`; the entry a refresh saw may be gone when it ends; the
  disk is shared.
* **Cache server.** The bound on simultaneous cold fetches is kept by a guard
  whose owner may hang up at any time; readiness and the list of known pieces
  are set by requests and the sweep concurrently.
* **Vendor client.** Retries, pauses and budgets of several calls to one host
  interleave; discovery happens once for all calls.
* **Verdicts.** A verdict passes only if a pinned root vouches, signature by
  signature, for everything it rests on, and every rule given is borne out by the
  place that is signed for it. Hard: the place differs per platform (the nonce of
  a vTPM and PCR 8 on Azure, a commitment in `REPORT_DATA` with measurement
  registers); revocation looks at different lists per kind of key; TCB levels are
  matched in two passes; parameters must be refused before anything is fetched;
  a verifier with a network, one with attached collateral and a page that fetches
  must agree.
* **Service.** Evidence and policies both come from the caller, so the server's
  own floors and what it says in a token are all a relying party has; the
  platform a name stands for differs between `/attest` and `/verify`; tokens
  outlive the process that signed them.

## Modules

* `CollateralDates`: the dates of a piece as pure operators. `None` is -1, which
  gives Rust's order of `Option`.
* `CollateralStore`: one piece, any number of processes sharing a cache
  directory, any number of calls in each. `mem[p]` is the moka entry, `disk` the
  file, `failed[p]` the failure that stands, `pc[t]`/`call[t]` a call between two
  awaits. Its actions are the stretches of code between awaits:
  `Lookup`/`LookOnHand`/`ReadEntry` (`Store::lookup`, `Native::entry`),
  `BeginLoad`/`JoinLoad`/`FinishLoad`/`InsertLoaded` (`try_get_with` and
  `Native::load`), `BeginRefresh`/`FinishRefresh`/`PutRefreshed`
  (`and_compute_with` and `Native::refresh`), `ForceRefresh` (`Store::refresh`),
  `UpstreamAnswers` (`Native::fetch` after its await). `DropCall`, `Restart`,
  `Evict`, `EntryAges`, `FailureLapses` and `Tick` are the environment.
  `answer[t]` is what a call returned in the last step, `told` and `answered`
  are history variables.
* `KeptPiece`: what a process promises of a piece, without memory, disk or
  locks: it keeps one edition, moves forward, asks one question at a time and
  answers with nothing older than what it keeps.
  `CollateralStore!KeepsItsPromise` states that the store implements it.
* `VendorHost`: fetches of pieces that one vendor host publishes.
  `Begin`/`AdmitCold` are the head of `Native::fetch` (the pause of the host, the
  budget of pieces held nowhere), `ChooseUpstream`/`TakeLock`/`Probe` are
  `Vendor::upstream` and `Discovery::upstream` (`prober` is the holder of the
  tokio mutex around `last_probe`), `Retry`/`Wake`/`Served`/`Fail` are
  `fetch_from`, `check_status` and what `Native::fetch` makes of the error.
  Time is in ticks; the budget's second may begin at any tick.
* `CacheServer`: requests (`Ask`, `LookHeld`, `Admit`, `Serve`, `Load`,
  `UpstreamAnswers`, `Answer`, `HangUp`) and the sweep (`SweepNext`, `Serve`,
  `Load`, `SweepServed`, `SweepAgain`) over a store reduced to the set of pieces
  in memory and one load per piece, which is what `CollateralStore` shows of it.
* `GpuVerdict`: an attester that asks NRAS about its devices and attaches what
  it used (`Verifier::attach_collateral`), and a verifier that verifies the
  evidence with it, possibly much later and again and again. `Begin` to
  `Conclude` follow `gather_bundle` for both sides: the groups of the bundle one
  by one (`TakeHeld`, `AskNras`, `NrasFails`), the key set (`KeysOnHand` for
  memory or with an attached set, `KeysFromDisk`, `KeysFetched`,
  `KeysUnavailable`), `Judge` when it is there, and the forced refetch
  (`Refresh`, `RefreshFails`). `recorded` is the list of used responses of the
  attester's store. The store is reduced to the one piece it is asked for: a set
  of keys in memory, one on disk, and whether memory was checked within
  `recheck`; other verdicts of the same process change them (`OthersFetch`,
  `Ages`). `Rotate` publishes the next key set.
* `Checks`: the vocabulary of the verifiers. `first && second` is the `?` of a
  verify function: the first error, or `Ok`. A rule of the params is `<< >>` or
  the one value it holds; byte values are compared up to trailing zeros and by
  length; a certificate is its key, its signer, its name, serial and window.
* `IntelTcb`, `IntelQuote`, `IntelCollateral`, `EventLog`, `TdxVerify`: TDX. The
  two passes of `evaluate_tcb_status` and `combine_tcb_status`; the layout of a
  quote (how far its bytes go), the DCAP chain and the PCK extensions; the four
  pieces of collateral with their signer chains and CRLs; the replay of the CC
  event log; the rules of `TdxParams` and the order of all checks. dstack is
  `normalize_quote` before the same checks.
* `AmdReport`, `SnpVerify`: SEV-SNP. The report, the VEK and which generation and
  intermediate it belongs to (with the fallback over generations when the report
  does not say), TCBs, revocation; the rules of `SnpParams` and the measurement
  registers a kernel commits to.
* `Vtpm`, `AzureVerify`: the HCL report, the AK, the quote of the vTPM and its
  PCRs; both Azure platforms in the order of their `verify`.
* `GceEndorsement`: Google's launch endorsements.
* `GpuBundle`: preconditions, tokens, key chain, nonces and device policy of an
  NVIDIA bundle. `GpuVerdict` has the same verdict over time.
* `Platforms`: per platform, the checks of params, the checks of evidence before
  any lookup, the pieces named, the order in which failed lookups are reported,
  and the verdict (`platform.rs` and the `gather` functions).
* `Verification`: the state machine of a call. `Begin` parses and admits an
  envelope; `LookUp` is one lookup, in any order with the others; `Attach`,
  `collateral_needed`, `Judge` and `JudgeGpu` end a call; `HandIn` is the page.
  A request carries the calls to make about it: `verify`; `attach` then a
  verifier without network; `collateral_needed`, the fetches, `evaluate`.
  `found` is what the lookups brought, `consulted` whom the call had to ask,
  `answers` what the calls said.
* `Verdicts`: the properties of `Verification`. They do not go through the checks
  of the verifier: who vouches for what is read off the signatures as a graph and
  followed from the pinned roots, and a rule is compared with the place that must
  bear it out.
* `AttestationApi`: the service. `Start` (configuration, token key), `Stop`,
  `Ask` (authentication, body, checks before the verifier or the machine is
  called), `FinishAttest`, `FinishVerify` (which hands out the token), `Tick`.
  The verifier is reduced to its refusals and rules. A client may send back what
  `/attest` answered (`SentBack`).
* `MC*`: instances for TLC. `*Proofs`: theorems with proofs for TLAPS.

Operators with a comment that begins with *Mutant* are wrong variants of the
operator they precede. They are not part of the model: each shows that a
property notices the bug they stand for.

How the modules fit: `CollateralStore` sees the vendor client as one step
(`UpstreamAnswers`) that takes any time and may bring any edition, refuse, or
fail; `VendorHost` is the inside of that step for all pieces of a host.
`CacheServer` sees the store as a set of pieces in memory and one load per piece,
which is what `SingleFlight` and `KeptPiece` say of the store. `GpuVerdict` sees
it as the memory and the file of one undated piece of two processes.
`Verification` sees a lookup as the newest of what is held, carried and
published, as `CollateralStore` says a fresh process reads; `acceptable` of a
piece is `CollateralDates!Acceptable`. `AttestationApi` sees a verification as a
refusal or the conjunction of the rules, as `Verdicts` says of it.

## Runs

`MC*.tla` hold the values. Times are days with a grace of 2; the editions are
issued at days 0, 4 and 5 and end at 8, 12 and 10, so that the third is issued
last and ends before the second; the clock takes days 5 (all current), 9 (the
first one stale, within grace) and 15 (beyond grace).

| Run | Instance | What it shows |
| --- | --- | --- |
| `StoreCalls` | 1 process, 3 calls (symmetric), 2 editions, days 5 and 9, a vendor, a disk that may fail | `SingleFlight`, `AnsweredOncePerRecheck`, `MemoryNeverGoesBack`, `DiskNeverGoesBack` |
| `StoreCarried` | 1 process, 2 calls, 3 editions, all times, an upstream cache (which may be behind), any response held or attached, a disk that takes every write | `MonotonicReads`, `DiskKeepsUp`, and `KeepsItsPromise`: the store implements `KeptPiece` |
| `StoreShared` | 2 processes with one call each and one directory | each process for itself still never goes back, though the file may |
| `StoreEnds` | 2 calls, a piece without dates and without a name of its own (the NRAS key set), eviction, fairness | every call ends |
| `CacheServes` | 2 requests, 2 shared pieces, a piece of one chip, a warm URL that names no piece, 1 place, 2 known, fairness | places are neither leaked nor given back twice, one fetch per piece, readiness, which pieces get known and looked at; the sweep starves no known piece and every request ends |
| `CacheColdBound` | 3 requests, 2 pieces, 1 place | violated: more pieces than places are fetched (finding) |
| `HostFetches` | 2 fetches, half seconds, discovery, Retry-After none, 0 or too long, fairness | pauses and the budget are bounded, discovery is for good, every fetch ends |
| `GpuVerdicts` | 2 GPUs and a switch, key sets {k1, k2} then {k2, k3}, times 0 to 2, answers valid for 1, disks, fairness | genuine evidence is never found invalid, a verdict reports each device once, evidence without an attached key set gets a verdict in the end |
| `GpuAttachedKeys` | the same | violated: an incomplete key set is attached (finding) |
| `GpuCommandLine` | as `GpuVerdicts`, each verification a process of its own | violated: after a rotation there is no verdict any more (finding) |
| `Verdicts` | for each of the seven platforms a good request and every one that differs from it in one place, by three ways of calling; every rule against every difference in what it is about; every TCB of two components against two lists of levels; bundles of GPUs and a switch | no verdict passes unvouched or with a rule left out, TCBs are graded by the level met (all-zero TDX SVNs by the SGX part, see findings), registers are those committed to, a boot log replays the quoted RTMRs, GPUs share the CPU's challenge, only genuine evidence makes anyone fetch, and the three ways of calling agree |
| `ApiAnswers` | 9 configurations, 2 processes, clock 0 to 1 with tokens of 1, evidence that falls short in each way under policies lax in each way, two platforms | the server's floors hold, tokens answer a challenge and stay verifiable, what `/attest` answers verifies |

Why the bounds are enough. Two calls make every pair of steps of the store race;
the third one of `StoreCalls` is the one that waits while the first two exchange a
lock. Two editions tell "older" from "newer"; the third one of `StoreCarried` is
there for the rule that needs it (issued later, ends earlier, `not_older_than`).
Three times reach each answer of `acceptable`. A load and a refresh may each be
under way in each process at once, which needs two calls. In the cache, a request that owns a
place and one that shares its URL, of which either then asks for something
else, are the smallest configuration in which a place is leaked or given back
twice; the sweep competes with both outside the count. The warm URL that names
nothing makes a sweep in which nothing is fetched (only the sweep asks for it:
`ClientUrl`; clients ask for pieces, whose fetches may fail as well), and with the
limit of 2 known pieces the second shared one is turned away. The piece of one chip
is served while there is room in the list, and must not take it. In the vendor client a second is
two ticks so that a fetch may fall in the middle of the budget's second, and two
ticks are as long as a host's pause is checked against; a window of a
second in which more than twice the budget is admitted would show within it.
`LastTick` bounds the clock for new sleeps only: a call that sleeps then still
wakes. Two key sets of which one key is retired, one stays and one is new
give every relation between a token and a set; one verification may then fall
before, across or after the rotation, and before or after its answers expire.

`Verdicts` has no cycles: it is wide, not deep. A check that is missing shows
when the one thing it looks at is wrong and all others are right, which is what
a request that differs in one place from a good one has; a rule that is compared
with the wrong place shows when rule and place differ, hence rules against
evidence. Each good request has another way through the code: a VEK inline or
fetched, VCEK or VLEK, each generation, with and without CPUID in the report,
registers, either encoding of the AK. Two SGX components of which the first takes
three values and the second two, as many TDX SVNs, PCESVN and three ISVSVNs of
the enclave are enough for levels that are met in one part and not in the other, in either
order. Signatures hold or do not; keys are names, so a forged chain is an edge
that is not there. Lookups in any order make the order in which errors are
reported a question TLC answers, too. The run has 23,789 initial states, one per
request, and 285,918 in all. `MCUnion` joins the requests of `MCIntel` and `MCAmd`
without comparing the two sets member by member.

In `ApiAnswers` a second process may have another configuration, another key
file, or none, while a token of the first is still out. Clients send evidence of
one cloud platform and one bare one, which take the two branches of every check
on a name, under policies for their own, another or both platforms; the machine
is a dstack guest, for which `auto` and the names differ most. Times are in units
of a token's life.

A store with `MayEvict` runs under one capacity assumption: moka evicts any entry
at any time. `StoreCalls`, `StoreCarried` and `StoreShared` assume it does not
evict (the capacity is 4096 pieces, store.rs:513); `StoreEnds` assumes it may.

### Fairness

Only runs of liveness use it. Every step a call can take by itself is taken: the
runtime polls woken futures, and the client's request timeout (`vendor.rs:266`)
ends an upstream that is silent. Waiting for a lock needs more. moka's
`try_get_with` and `and_compute_with` let waiters race for the key when it is
free; they are under strong fairness (`BeginLoad`, `BeginRefresh`, `Load` of the
cache). The mutex of `last_probe` is tokio's, which is a queue: strong fairness
again follows from it. Nothing is assumed of clients (they may never ask, and may
hang up always), of vendors beyond the timeout, or of eviction. The sweep sleeps
a fixed time and runs again. In `GpuVerdict` the verifier tries again when it got
no verdict, as a retryable error invites to; each group is answered, and the key
set served, infinitely often if asked for infinitely often, though any single
request may fail; a key NRAS signs with is published in the end.

## Findings

* `CacheColdBound`: a request let in without a guard because its piece is being
  fetched goes on fetching after the owner of the guard hung up, and is then not
  counted; the sweep never is.
* `GpuAttachedKeys`: `record` keeps the first response per URL. After the forced
  refetch the attester has the new key set, but what it recorded, cuts and
  attaches is the old one, which lacks the very key.
* `GpuCommandLine`: a load from disk sets `checked_at` as an answer of the vendor
  does, and a key set on disk is always current. A process that verifies once
  never refetches it, so its cache directory keeps the retired keys for ever.

Seven more disagreements are visible in the models, without a run of their own:

* A TD whose TDX SVNs are all zero is graded by the first TCB level its SGX part
  meets, without a look at the level's TDX components (dcap.rs:868-883), and
  nothing refuses such a quote. The comment above it (dcap.rs:846-852) describes
  the second pass as matching every `tee_tcb_svn`; the one at dcap.rs:871 gives
  as the reason for leaving it out that the quote then carries no TDX module TCB
  information. With the `Levels` of `Verdicts`, a PCK certificate with SVNs
  `<<2, 1>>` and TDX SVNs `<<0, 0>>` give `UpToDate`, while the first level met in
  all parts is `Revoked`. `GradedByMetLevel` states what the code does in this case
  (`SgxGrade`); with `Grade` in its place TLC finds it violated.
* The comment of `Cache::ready` (attestation-cache/src/lib.rs:98) says "The warm
  pieces were looked at once, or a piece was served". When every warm piece
  fails in the first sweep they were looked at, and `keep_fresh` does not set
  it (lib.rs:146); lib.rs:131 and the cache's README.md:112 say what the code does,
  which is `ReadyOnceServed`.

* Two processes that fetch at once write the shared file without reading it
  again, so the older answer may be the one that stays (docs/collateral.md:44
  says an older one does not replace a newer one): `DiskNeverGoesBack` fails in
  the instance of `StoreShared`. A process that runs is not affected; one that
  starts is.
* The answers about Hopper and Blackwell GPUs of one bundle are attached under
  one name (verify.rs:124), so the second is lost and the first is used for both:
  `ReportsTheBundle` fails for a bundle with one of each.
* A refresh whose entry is evicted and loaded anew meanwhile puts the copy it
  fetched, or the one it saw before, over a newer one (store.rs:748, against
  store.rs:6). `KeptUntilReplaced` is proved short of eviction for that reason.
* The pause of a host is set when a fetch has failed for good and looked at
  when one begins (vendor.rs:276, store.rs:598, against
  attestation-cache/README.md:32). Retries and fetches in discovery go on in
  between, and a shorter pause replaces a longer one.
* An attached answer that has expired is asked for anew, but the attached key set
  was cut for the old one: a verifier without a copy of its own refuses the
  evidence for good, though the comment at verify.rs:62 rests on the set being
  cut for the answers in use. And with an attached set a copy on disk is used
  without coming into memory, where the forced refetch would reach it
  (store.rs:412).

One assumption about NRAS is needed: `GpuVerdicts` sets `Backdated` (how long
before its issue a token is already valid, `nbf`) as long as a verdict may take.
The verifier compares tokens with the time at which the verdict began
(lib.rs:491); with tokens dated by the second of their issue, `GenuineNeverInvalid`
would fail.

## Proofs

`*Proofs.tla` and `CollateralStorePromises` prove for every value of the
constants what TLC shows for the instances above. They assume the `ASSUME`s of
the modules and nothing else but what a theorem states. What a theorem states
beyond `Spec` is named here with its reason.

* **Store: state.** `TypeCorrect` needs more than `TypeOK`: `CallsTyped` says what
  the record of a call may hold at each stage (a fetched copy after a fetch, an
  existing entry in memory after a hit). `OneRequestAtATime` and
  `KeptUntilReplaced` assume `~MayEvict`; the second is false without it. Their
  inductive invariant is `LockInv`: at most one load
  (`OneLoader`) and one refresh (`OneRefresher`) hold the key of a process; a load
  under way meets no entry (`LoadsMeetNoEntry`) and a refresh under way meets the
  very entry it saw (`RefreshesMeetTheirEntry`), so that a load and a refresh
  never fetch at once although their locks are not ordered. The other
  parts are what makes these inductive: what is about to be put was verified
  (`PutsAreCopies`), a refresh that fetches saw an entry
  (`RefreshesSawAnEntry`), and one that takes a result has one
  (`FetchesBroughtACopy`). Each lemma `...KeepsLocks` is about one kind of step.
* **Store: promises.** All assume `~MayEvict`. `AskedOncePerRecheck` adds
  `AnsweredInv` to `LockInv`: a refresh runs only over an entry that has aged, and
  nobody has asked the upstream since it did, unless an answer is in hand that
  has not been put. `FileNeverGoesBack` and `FileKeepsUp` are about a process that
  has its directory to itself (`Alone`; with two, the first is false, see the
  findings). `DiskInv`: memory is not behind the file except between the write and
  the insertion of a refresh, a load compares with the file that is there, and
  what is about to be put is not older than it. Keeping up also needs writes that
  succeed (`~DiskFails`, `SavedInv`). `ReadsNeverGoBack` needs `Alone` only if
  evidence carries copies: what a process told a caller is still in its memory or
  its file (`ToldIsKept`), which is no older than what any call must not go
  below (`BarsWereTold`). `StoreKeepsItsPromise` is the refinement of
  `KeptPiece`, without `Alone`: each kind of step is a promise's step of one
  process (`Keeps`, `Asks`, `Serves` are the mapped variables) or a stutter. It
  needs `LockInv` for the steps that take an answer: the promise's process is
  asking then, and keeps the entry the refresh saw.
* **Cache server.** `PlacesOwned` and `OneFetch`. The invariant `Places` adds to
  the property that a guard belongs to a request that is past admission, and
  that the URLs of guards and `cold` are in bijection; dropping a guard keeps it
  (`DropKeepsPlaces`). `FewAreKnown` needs only that the
  list is finite (`KnownInv`), and that between its beginnings a sweep only
  gets shorter (`SweepOnlyShrinks`); `ReadyWhenServed` that a sweep which has found
  anything has fetched it, unless there is nothing to warm (`ReadyInv`).
* **Vendor client.** `PausesAreBounded` follows from the arithmetic of `Pause`
  (`PauseBounds`) and the monotony of time. `FoundIsForGood` needs `ProbeInv`: who
  probes holds the lock and nothing is found yet, and only `auto` locks.
  `FewColdFetches` counts with the history `admitted` (cold fetches admitted by
  the end of each tick) over any ticks to a second. `BudgetInv`: since the
  budget's second began, what was admitted is what it has counted, and none was
  admitted in its place once it was over; in as long a time before it, at most
  `PerSecond`. A window of a second falls into at most two such parts.
* **GPU verdicts.** `TypeCorrect` carries `CallsInStep`: as many answers as groups
  asked about, all of them when the keys are looked for. `GenuineIsNotInvalid`
  has the hypothesis `Prompt`, that a call is done asking NRAS within the time by
  which NRAS backdates its tokens; without it the property is false, since tokens
  are compared with the time at which the call began (lib.rs:491). `FitInv` says
  that answers are filed and used under the endpoint they are from, `FreshInv`
  that none in use has expired at the call's own time.
  `VerdictReportsTheBundle` assumes that different architectures of the bundle
  have different endpoints: with Hopper and Blackwell GPUs in one bundle it is
  false (findings).
* **Service.** `SignedTokensVerify`, `TokensAnswer` and `NonePassesBelow`. The
  properties are about one step or one state, but true only because of what
  happened before: the invariant is `InProgress` (a request on its way to the
  verifier belongs to the process that still runs and has passed every check
  under its configuration; configuration and key change only when nothing is
  under way) and `Keys` (a process has the key its file names or one made for
  its number; the last token bears the key of the process that signed it).
  `PassingAnswer` says which step can answer that something passed, `FloorsHold`
  and `FloorsMean` what passing the server's check says about every platform's
  params. `NumbersAssumption` says that SVN-like fields of requests are numbers,
  and that the shipped floor is above 0. Key files do not change while
  tokens are out (`KeyFiles` is a constant). `AttestedAlwaysVerifies` adds
  `BackInv`: what is sent back was made for a platform that the service answers
  for, under the default rules, which are within every server's floors
  (`SentBackIs`). `RequestsAssumption` says that the requests clients make up are
  told from those they were handed.
* **TCB grading.** `GradedByFirstMet`: `evaluate_tcb_status`, in two passes, finds
  the first level met in all parts. It is true only of lists sorted as Intel sorts
  them (`Descending`): the second pass begins at the first level whose SGX part is
  met and goes by the TDX part, so `SgxMeetsLater` has to carry the SGX part
  on to every later level. `FirstIsLeast` (from the well-foundedness of the subset
  order on finite sets) is what "the first" means. It leaves out TDX SVNs that are
  all zero, which the code grades by the SGX part alone (findings).
  `EnclaveOnlyLowers` is the table of `combine_tcb_status`.
* **Verdicts.** `VerdictsProofs` is about any evidence, params, collateral and
  sequence of calls; `RequestsAssumption` of `Verification` only says what parsing
  makes of them (SVNs are numbers, chains and lists are sequences, a platform is
  one of the seven). The inductive invariant `IInv` (theorem `Invariant`) joins what
  happens at different times: what a lookup found verifies by itself, whether it
  was fetched, held or attached without its root (`FoundInv`, `CopiesInv`); a call
  that looks collateral up and will judge has been admitted with valid params on
  genuine evidence (`AdmittedInv`); and a verdict is all the checks, of all
  pieces, with nothing looked up left out (`VerdictInv`, `GpuInv`).
  On it rest:
  * `NoRuleForgotten`, by platform: `TdxRulesBorne` and `SnpRulesBorne` follow each
    rule through the result's outcome to the place that bears it out, Azure's PCR
    pins to the quoted PCRs, Google's endorsement to what it endorses.
  * `RegistersCommitted`, over the order in which bindings and registers are
    checked.
  * `GradeIsEarned`, from `GradedByFirstMet` and the same for the enclave, whose
    levels are sorted as well (`QeDescending`); for TDX SVNs that are all zero it
    says that the SGX part alone is graded.
  * `PassedVouched`: the edges of the graph of signatures are found among what the
    checks of quote, report, AK and documents require, one lemma per kind of
    hop. For TDX it assumes `OneKeyPerName(key)`: Intel certifies one key per name
    of a CA, and its CAs issue under their own name. The CRL for a PCK leaf is
    looked up by the name of its issuer (`determine_ca_type_from_der`) and nothing
    compares the key that signed the list with the key that signed the leaf, so
    that a second CA of the same name would have the leaf looked up in the other
    one's list. `CertifiedInv` carries the assumption through what is found.
  * `GenuineConsults`: `ConsultInv` says that a call which has looked anything up
    has passed every check about its caller (`StartedInv`), and that no error after
    that is one of misuse; the lemmas `...Blameless` go through the checks that are
    left.
  * `BootLogMeasured`: a log that is accepted is read up to where it ends
    (`ReadToTheEnd`), of an entry the last SHA-384 digest counts (`LastDigest`), and
    the events of a register are the entries that name it, in their order
    (`ReplayedIs`). The order comes from the recursive function `InOrder`, which lists
    a set of numbers: that there is such a function, and that the member with
    `k - 1` smaller ones is listed at place `k`, is shown by a least counterexample
    (`OrderExists`, `InOrderLists`).
  * `WaysAgree`: `LookupsInv` and `WaysInv` write what each of the three calls
    found, asked for and answered as a function of the request and of the copies
    at hand (`LookupOf`, `NeededOf`, `JudgedWith`), whatever the order of the
    lookups was. `SameVerdict` says which fields of a piece a verdict reads
    (`Alike`: all but the chain, and of that the first certificate). A page that
    hands in what is needed (`PageFinds`), and a verifier that finds attached what
    an attester fetched (`AttachedFinds`), then look up pieces that are alike
    those fetched; the attester has found each of them, since it would have told
    of any error that is not one of availability (`GatherTells`).
    Two hypotheses are about the collateral. `OneEdition`: two copies of one
    edition do not differ, but for the root; otherwise the three ways may each
    take another one of them, as a tie goes to the copy held, then to the one
    attached, then to the one fetched (store.rs:302, 323). `TwoCertificates`:
    signing chains have at most two certificates; of a longer one dcap.rs:320
    reads the first two, and a root that `attach` cuts out from between others
    changes which these are. Intel sends two (dcap.rs:288).
  * `GpusShare`: `DevicesInv` says that a verdict which passes has gone through
    `verify_bundle` with the request's bundle. A chain of any length ends at a
    pinned key (`ChainFromPinned`).

The library's induction theorems cannot be instantiated by the provers at hand;
where a fact about a list needs induction (the first error, a chain without its
root, a chain down from a pinned key), the proof takes a least counterexample
with `FirstIsLeast`.

Every invariant and action property the passing runs check is proved. Only
model-checked are the temporal properties under fairness (`EveryCallEnds`,
`KnownLookedAt`, `RequestsEnd`, `FetchesEnd`, `GenuineEndsInAVerdict`): proofs of
liveness are beyond the provers at hand. So are the runs that look for a
violation, which are about one instance each.

## Not modelled

* **Bytes.** ASN.1, JSON, protobuf, TPM and quote layouts are modelled by which of
  their parts are there and what they hold; hashes by what they are taken of;
  signatures by who made them over something intact. A response that does not
  verify is `BadFile` in the store.
* **Transport.** HTTP, vsock, TLS and logging keep no state that a property is
  about; neither do `/health`, `/platform` and the key set of the service, which
  only read. The body axum itself answers when a request of `/attest` is no JSON
  is taken for the service's own.
* **Evidence generation.** ConfigFS-TSM and its generation counter, vsock and QGS,
  the vTPM commands, IMDS, NVML and NSCQ are devices; detection order and the
  checks around them are in `AttestationApi`.
* **Command line.** Arguments, printing and exit codes around `Verification`.
* **Store.** The list of used responses (`Store::used`) as a list; what it
  comes to is `attach` in `Verification` and `recorded` in `GpuVerdict`. The store
  without a network (WASM, `offline`) is in `Verification`.
* **URL routing of the cache** (`serve.rs`) beyond known and unknown URLs.

Choices a reader may trip over. An endorsement Google does not publish is
`endorsement_match: false` for a verifier with a network and
`CollateralUnavailable` for one without, which is why `VerdictsAgree` asks that
what was consulted is published. When a piece is attached but no longer
acceptable and the copy published does not verify, a verifier that fetches falls
back on the attached copy (store.rs:333), while a page that hands both in gets a
refusal, since any copy on hand that does not verify refuses the piece
(store.rs:271): `VerdictsAgree` leaves this out as `FetchedInVain`.
`attach_collateral` reports a misused GPU nonce
only after the lookups of the platform. The page is built without GPU support and
refuses bundles and GPU rules. The clock does not move during one call of
`Verification`: the code reads it once per call (lib.rs:491).

## Plan

What is left, in this order:

1. `serve.rs`: which piece a URL names and which of them any caller may ask for.
2. Evidence generation with measurement registers: a report requested while the
   kernel extends its log.
