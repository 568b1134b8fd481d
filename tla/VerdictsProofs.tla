---------------------------- MODULE VerdictsProofs ----------------------------
(***************************************************************************)
(* What a verdict may be relied on for, proved for any evidence, any       *)
(* params, any collateral and any calls about them.                        *)
(***************************************************************************)
EXTENDS Verdicts, IntelTcbProofs

LEMMA AndOk ==
    ASSUME NEW a, NEW b, (a && b) = Ok
    PROVE  a = Ok /\ b = Ok
  BY DEF &&

LEMMA CheckOk ==
    ASSUME NEW holds \in BOOLEAN, NEW error, error # Ok, Check(holds, error) = Ok
    PROVE  holds
  BY DEF Check

LEMMA RuleIsAsked ==
    ASSUME NEW value
    PROVE  Asked(Rule(value)) /\ Rule(value)[1] = value
  BY DEF Asked, Rule, NoRule

-------------------------------------------------------------------------------
(* The calls *)

\* The answers are a sequence.
AnswersInv == \E S : answers \in Seq(S)

(* What a call has been checked for that looks its collateral up.          *)
Admitted(p) ==
    /\ Asked(request.policy)
    /\ Validate(pf, p) = Ok
    /\ GenuineError(pf, ev, now) = Ok

(* The copies at hand are well-formed. *)
CopiesInv ==
    /\ request \in Requests
    /\ \A id \in DOMAIN carried : WellFormed(id, carried[id])
    /\ \A id \in DOMAIN held : WellFormed(id, held[id])

(* What a lookup may end with: a document that verifies. Only endorsements *)
(* may be absent without an error.                                         *)
LookedUp(id, piece) ==
    /\ Asked(piece.doc) =>
           piece.error = Ok /\ Verifies(id, piece.doc[1]) /\ WellFormed(id, piece.doc[1])
    /\ piece.error = Ok /\ id[1] # "gce-endorsement" => Asked(piece.doc)

FoundInv ==
    /\ DOMAIN found \subseteq Wanted(pf, ev, now)
    /\ \A id \in DOMAIN found : LookedUp(id, found[id])

AdmittedInv ==
    stage \in {"gathering", "gpu"} /\ Call \in Judging => Admitted(request.policy[1])

\* The checks of a verdict went well, with params p.
WentWell(p) ==
    /\ Admitted(p)
    /\ DOMAIN found = Wanted(pf, ev, now)
    /\ GatherError(pf, ev, found, now) = Ok
    /\ VerifyError(pf, ev, p, Gathered(pf, ev, found, now), now) = Ok

GpuInv ==
    stage = "gpu" =>
        /\ Call \in Judging /\ Asked(request.gpu.bundle) /\ Asked(request.gpu.policy)
        /\ WentWell(request.policy[1])

(* A verdict that is no refusal was reached by all checks of the evidence, *)
(* and passes if platform and collateral do.                               *)
VerdictInv ==
    Judged /\ LastAnswer.verdict.error = Ok =>
        LET p == request.policy[1]
            verdict == LastAnswer.verdict
        IN  /\ WentWell(p)
            /\ verdict.result = Rule(Result(pf, ev, p, found, now))
            /\ verdict.passed => PlatformPassed(pf, verdict.result[1]) /\ AllAcceptable

HandingIn == stage = "handing in" => answers # << >> /\ LastAnswer.call = "collateral_needed"

PassedInv == Judged /\ LastAnswer.verdict.passed => LastAnswer.verdict.error = Ok

IInv ==
    /\ AnswersInv /\ CopiesInv /\ FoundInv /\ AdmittedInv /\ GpuInv /\ VerdictInv /\ HandingIn /\ PassedInv

LEMMA InitIInv == Init => IInv
  <1> SUFFICES ASSUME Init PROVE IInv
    OBVIOUS
  <1>1. answers = << >> /\ stage = "idle" /\ DOMAIN found = {} /\ DOMAIN held = {}
    BY DEF Init, NoFcn
  <1>2. answers \in Seq({})
    BY <1>1
  <1>3. CopiesInv
    BY <1>1, RequestsAssumption DEF CopiesInv, Init
  <1> QED
    BY <1>1, <1>2, <1>3 DEF IInv, AnswersInv, FoundInv, AdmittedInv, GpuInv, VerdictInv, HandingIn,
           Judged, PassedInv

LEMMA Single ==
    ASSUME NEW T, NEW c \in T
    PROVE  <<c>> \in Seq(T) /\ Len(<<c>>) = 1 /\ \A i \in DOMAIN <<c>> : <<c>>[i] = c
  OBVIOUS

LEMMA Appended ==
    ASSUME NEW s, NEW S, s \in Seq(S), NEW x
    PROVE  /\ Append(s, x) \in Seq(S \cup {x})
           /\ Append(s, x) # << >>
           /\ Append(s, x)[Len(Append(s, x))] = x
  <1>1. s \in Seq(S \cup {x}) /\ x \in S \cup {x}
    OBVIOUS

  <1> QED
    BY <1>1

LEMMA NewestIsOne ==
    ASSUME NEW copies, NEW S, copies \in Seq(S), Len(copies) \in 1..3,
           \A i \in DOMAIN copies : copies[i].edition \in Nat
    PROVE  \E i \in DOMAIN copies : Newest(copies) = copies[i]
  <1> DEFINE Best(i) == \A j \in DOMAIN copies :
                 IF j < i THEN copies[j].edition < copies[i].edition
                 ELSE copies[j].edition <= copies[i].edition
  <1>1. \E i \in DOMAIN copies : Best(i)
    <2>1. CASE Len(copies) = 1
      <3>1. DOMAIN copies = {1}
        BY <2>1
      <3> QED
        BY <3>1
    <2>2. CASE Len(copies) = 2
      <3>1. DOMAIN copies = {1, 2}
        BY <2>2
      <3>2. Best(1) \/ Best(2)
        BY <3>1
      <3> QED
        BY <3>1, <3>2
    <2>3. CASE Len(copies) = 3
      <3>1. DOMAIN copies = {1, 2, 3}
        BY <2>3
      <3>2. Best(1) \/ Best(2) \/ Best(3)
        BY <3>1
      <3> QED
        BY <3>1, <3>2
    <2> QED
      BY <2>1, <2>2, <2>3
  <1> QED
    BY <1>1 DEF Newest

(* A copy of a piece: one handed in, one carried, or what is published.    *)
Copied(id, doc) ==
    /\ WellFormed(id, doc)
    /\ \/ id \in DOMAIN held /\ doc = held[id]
       \/ id \in DOMAIN carried /\ doc = carried[id]
       \/ id \in DOMAIN request.published /\ doc = request.published[id]

Finds(id, piece) == LookedUp(id, piece) /\ (Asked(piece.doc) => Copied(id, piece.doc[1]))

LEMMA FoundIs ==
    ASSUME NEW id, NEW doc, Verifies(id, doc), Copied(id, doc)
    PROVE  Finds(id, Found(doc))
  <1>1. Found(doc).error = Ok /\ Found(doc).doc[1] = doc /\ Asked(Found(doc).doc)
    BY RuleIsAsked DEF Found
  <1>2. WellFormed(id, doc)
    BY DEF Copied
  <1> QED
    BY <1>1, <1>2 DEF Finds, LookedUp

LEMMA LoadFinds ==
    ASSUME CopiesInv, NEW id
    PROVE  Finds(id, Load(id))
  <1>1. \A i \in DOMAIN request.published : WellFormed(i, request.published[i])
    BY RequestsAssumption DEF CopiesInv
  <1> QED
    BY <1>1 DEF Load, Finds, Copied, LookedUp, Failed, Found, Asked, Rule, NoRule, Ok

LEMMA CopiesOnHand ==
    ASSUME CopiesInv, NEW id
    PROVE  /\ OnHand(id) \in Seq({held[id], carried[id]})
           /\ Len(OnHand(id)) \in 0..2
           /\ \A i \in DOMAIN OnHand(id) : Copied(id, OnHand(id)[i])
  <1> DEFINE S == {held[id], carried[id]}
             some == IF id \in DOMAIN held THEN <<held[id]>> ELSE << >>
             more == IF id \in DOMAIN carried THEN <<carried[id]>> ELSE << >>
  <1>1. /\ some \in Seq(S) /\ Len(some) \in 0..1
        /\ more \in Seq(S) /\ Len(more) \in 0..1
        /\ \A i \in DOMAIN some : Copied(id, some[i])
        /\ \A i \in DOMAIN more : Copied(id, more[i])
    <2>2. << >> \in Seq(S) /\ Len(<< >>) = 0 /\ DOMAIN << >> = {}
      OBVIOUS
    <2> HIDE DEF S
    <2>3. held[id] \in S /\ carried[id] \in S
      BY DEF S
    <2> QED
      BY <2>2, <2>3, Single DEF CopiesInv, Copied
  <1>2. OnHand(id) = some \o more
    BY DEF OnHand
  <1> HIDE DEF some, more
  <1>3. /\ some \o more \in Seq(S)
        /\ Len(some \o more) = Len(some) + Len(more)
        /\ \A i \in 1..(Len(some) + Len(more)) :
               (some \o more)[i] = IF i <= Len(some) THEN some[i] ELSE more[i - Len(some)]
    <2> HIDE DEF S
    <2> QED
      BY <1>1
  <1>4. \A i \in DOMAIN (some \o more) : Copied(id, (some \o more)[i])
    <2> TAKE i \in DOMAIN (some \o more)
    <2>1. i \in 1..(Len(some) + Len(more))
      BY <1>3
    <2>2. CASE i <= Len(some)
      <3>1. i \in DOMAIN some
        BY <1>1, <2>1, <2>2
      <3> QED
        BY <1>1, <1>3, <2>1, <2>2, <3>1
    <2>3. CASE ~(i <= Len(some))
      <3>1. i - Len(some) \in DOMAIN more
        BY <1>1, <2>1, <2>3
      <3> QED
        BY <1>1, <1>3, <2>1, <2>3, <3>1
    <2> QED
      BY <2>2, <2>3
  <1> QED
    BY <1>1, <1>2, <1>3, <1>4

(* Whatever copies there are, what a lookup finds verifies.                *)
LEMMA LookupFinds ==
    ASSUME CopiesInv, NEW id
    PROVE  Finds(id, Lookup(id))
  <1> DEFINE copies == OnHand(id)
             loaded == Load(id).doc[1]
             S == {held[id], carried[id]}
  <1>1. copies \in Seq(S) /\ Len(copies) \in 0..2 /\ \A i \in DOMAIN copies : Copied(id, copies[i])
    BY CopiesOnHand
  <1>2. Finds(id, Load(id))
    BY LoadFinds
  <1> HIDE DEF copies, loaded, S
  <1>3. CASE \E i \in DOMAIN copies : ~Verifies(id, copies[i])
    <2>1. Lookup(id) = Failed("CertChainError")
      BY <1>3 DEF Lookup, copies
    <2> QED
      BY <2>1 DEF Finds, LookedUp, Failed, Asked, Ok
  <1>4. ASSUME \A i \in DOMAIN copies : Verifies(id, copies[i]), copies # << >>
        PROVE  Finds(id, Found(Newest(copies)))
    <2>1. Len(copies) \in 1..3
      BY <1>1, <1>4
    <2>2. PICK i \in DOMAIN copies : Newest(copies) = copies[i]
      BY <1>1, <2>1, NewestIsOne DEF Copied, WellFormed
    <2> QED
      BY <1>1, <1>4, <2>2, FoundIs
  <1>5. ASSUME \A i \in DOMAIN copies : Verifies(id, copies[i]), copies # << >>, Asked(Load(id).doc)
        PROVE  Finds(id, Found(Newest(Append(copies, loaded))))
    <2> DEFINE all == Append(copies, loaded)
    <2>1. Verifies(id, loaded) /\ Copied(id, loaded)
      BY <1>2, <1>5 DEF Finds, LookedUp, loaded
    <2>2. /\ all \in Seq(S \cup {loaded}) /\ Len(all) = Len(copies) + 1
          /\ \A i \in 1..(Len(copies) + 1) :
                 all[i] = IF i <= Len(copies) THEN copies[i] ELSE loaded
      <3>1. copies \in Seq(S \cup {loaded}) /\ loaded \in S \cup {loaded}
        BY <1>1
      <3> QED
        BY <3>1
    <2> HIDE DEF all
    <2>3. \A i \in DOMAIN all : Verifies(id, all[i]) /\ Copied(id, all[i])
      <3> TAKE i \in DOMAIN all
      <3>1. i \in 1..(Len(copies) + 1)
        BY <2>2
      <3>2. i <= Len(copies) => i \in DOMAIN copies
        BY <1>1, <3>1
      <3> QED
        BY <1>1, <1>5, <2>1, <2>2, <3>1, <3>2
    <2>4. Len(all) \in 1..3
      BY <1>1, <2>2
    <2>5. PICK i \in DOMAIN all : Newest(all) = all[i]
      BY <2>2, <2>3, <2>4, NewestIsOne DEF Copied, WellFormed
    <2> QED
      BY <2>3, <2>5, FoundIs DEF all
  <1> QED
    BY <1>2, <1>3, <1>4, <1>5 DEF Lookup, GoodEnough, copies, loaded

\* Evidence whose collateral can be named names some.
LEMMA WantedAreSome ==
    ASSUME SetError(pf, ev) = Ok
    PROVE  Wanted(pf, ev, now) # {}
  <1>1. MainSet(pf, ev, now)[1] \in ToSet(MainSet(pf, ev, now))
    <2>1. 1 \in DOMAIN MainSet(pf, ev, now)
      BY DEF MainSet, TdxCollateralSet, AzSnpCollateralSet, SnpCollateralSet
    <2> QED
      BY <2>1 DEF ToSet
  <1> QED
    BY <1>1 DEF Wanted

(* An answer is the last one; a call that is no verdict leaves none.       *)
LEMMA AnswerIsLast ==
    ASSUME AnswersInv, NEW verdict, Answer(verdict)
    PROVE  /\ AnswersInv'
           /\ answers' # << >>
           /\ LastAnswer'.call = Call /\ LastAnswer'.verdict = verdict
           /\ LastAnswer'.consulted = consulted'
           /\ stage' = IF Call = "collateral_needed" THEN "handing in" ELSE "idle"
  <1> DEFINE x == [call |-> Call, verdict |-> verdict, consulted |-> consulted']
  <1>1. answers' = Append(answers, x)
    BY DEF Answer
  <1>2. PICK S : answers \in Seq(S)
    BY DEF AnswersInv
  <1> HIDE DEF x
  <1>3. /\ answers' \in Seq(S \cup {x})
        /\ answers' # << >>
        /\ answers'[Len(answers')] = x
    BY <1>1, <1>2, Appended
  <1>4. LastAnswer' = x
    BY <1>3 DEF LastAnswer
  <1>5. x.call = Call /\ x.verdict = verdict /\ x.consulted = consulted'
    BY DEF x
  <1>6. AnswersInv'
    BY <1>3 DEF AnswersInv
  <1>7. stage' = IF Call = "collateral_needed" THEN "handing in" ELSE "idle"
    BY DEF Answer
  <1> QED
    BY <1>3, <1>4, <1>5, <1>6, <1>7

LEMMA AnswerIInv ==
    ASSUME IInv, NEW verdict, Answer(verdict), request' = request,
           CopiesInv', FoundInv',
           Call \in Judging /\ verdict.error = Ok =>
               LET p == request.policy[1]
               IN  /\ WentWell(p)' /\ verdict.result = Rule(Result(pf, ev, p, found', now))
                   /\ verdict.passed => PlatformPassed(pf, verdict.result[1]) /\ AllAcceptable',
           Call \in Judging /\ verdict.passed => verdict.error = Ok
    PROVE  IInv'
  <1>1. /\ AnswersInv'
        /\ answers' # << >>
        /\ LastAnswer'.call = Call /\ LastAnswer'.verdict = verdict
        /\ stage' = IF Call = "collateral_needed" THEN "handing in" ELSE "idle"
    BY AnswerIsLast DEF IInv
  <1>2. pf' = pf /\ ev' = ev /\ now' = now
    BY DEF pf, ev, now
  <1>3. AdmittedInv' /\ GpuInv'
    BY <1>1 DEF AdmittedInv, GpuInv
  <1>4. HandingIn'
    BY <1>1 DEF HandingIn
  <1>5. Judged' => Call \in Judging
    BY <1>1 DEF Judged
  <1>6. PassedInv'
    BY <1>1, <1>5 DEF PassedInv
  <1>7. VerdictInv'
    BY <1>1, <1>2, <1>5 DEF VerdictInv
  <1> QED
    BY <1>1, <1>3, <1>4, <1>6, <1>7 DEF IInv

LEMMA BeginIInv == IInv /\ Begin => IInv'
  <1> SUFFICES ASSUME IInv, Begin PROVE IInv'
    OBVIOUS
  <1>1. /\ request' = request /\ carried' = carried /\ held' = held
        /\ found' = NoFcn /\ stage = "idle"
    BY DEF Begin
  <1>2. pf' = pf /\ ev' = ev /\ now' = now
    BY <1>1 DEF pf, ev, now
  <1>3. CopiesInv' /\ FoundInv'
    BY <1>1 DEF IInv, CopiesInv, FoundInv, NoFcn
  <1>4. CASE StartError # Ok \/ Wanted(pf, ev, now) = {}
    <2> DEFINE verdict == Refusal(StartError && SetError(pf, ev))
    <2>1. Answer(verdict)
      BY <1>4 DEF Begin
    <2>2. verdict.error # Ok /\ ~verdict.passed
      BY <1>4, WantedAreSome DEF Refusal, Verdict, &&
    <2> HIDE DEF verdict
    <2> QED
      BY <1>1, <1>3, <2>1, <2>2, AnswerIInv
  <1>5. CASE ~(StartError # Ok \/ Wanted(pf, ev, now) = {})
    <2>1. stage' = "gathering" /\ todo' = todo /\ answers' = answers /\ Call' = Call
      BY <1>5 DEF Begin, Call
    <2>2. Call \in Judging => Admitted(request.policy[1])
      <3> SUFFICES ASSUME Call \in Judging PROVE Admitted(request.policy[1])
        OBVIOUS
      <3>1. Policy = request.policy /\ Call # "attach"
        BY DEF Policy, ByDefault, Judging
      <3>2. /\ AdmitError = Ok /\ Validate(pf, Policy[1]) = Ok /\ GenuineError(pf, ev, now) = Ok
        BY <1>5, AndOk DEF StartError
      <3>3. Check(Asked(Policy), "PlatformNotAllowed") = Ok
        BY <3>1, <3>2, AndOk DEF AdmitError
      <3>4. Asked(Policy)
        BY <3>3, CheckOk DEF Ok, Asked
      <3> QED
        BY <3>1, <3>2, <3>4 DEF Admitted
    <2>3. AdmittedInv'
      BY <1>1, <1>2, <2>1, <2>2 DEF AdmittedInv, Admitted
    <2>4. AnswersInv' /\ GpuInv' /\ VerdictInv' /\ HandingIn' /\ PassedInv'
      BY <2>1 DEF IInv, AnswersInv, GpuInv, VerdictInv, HandingIn, PassedInv, Judged
    <2> QED
      BY <1>3, <2>3, <2>4 DEF IInv
  <1> QED
    BY <1>4, <1>5

LEMMA LookUpIInv == ASSUME IInv, NEW id, LookUp(id) PROVE IInv'
  <1>1. /\ UNCHANGED <<request, todo, stage, carried, held, answers>>
        /\ found' = [i \in DOMAIN found \cup {id} |-> IF i = id THEN Lookup(id) ELSE found[i]]
        /\ stage = "gathering"
        /\ id \in Wanted(pf, ev, now) \ DOMAIN found
    BY DEF LookUp
  <1>2. pf' = pf /\ ev' = ev /\ now' = now /\ Call' = Call
    BY <1>1 DEF pf, ev, now, Call
  <1>3. /\ DOMAIN found' = DOMAIN found \cup {id}
        /\ found'[id] = Lookup(id)
        /\ \A i \in DOMAIN found : found'[i] = found[i]
    BY <1>1
  <1>4. LookedUp(id, Lookup(id))
    BY LookupFinds DEF IInv, Finds
  <1>5. FoundInv'
    BY <1>1, <1>2, <1>3, <1>4 DEF IInv, FoundInv
  <1>6. CopiesInv' /\ AdmittedInv'
    BY <1>1, <1>2 DEF IInv, CopiesInv, AdmittedInv, Admitted
  <1>7. AnswersInv' /\ GpuInv' /\ VerdictInv' /\ HandingIn' /\ PassedInv'
    BY <1>1 DEF IInv, AnswersInv, GpuInv, VerdictInv, HandingIn, PassedInv, Judged
  <1> QED
    BY <1>5, <1>6, <1>7 DEF IInv

\* A refusal is an answer that settles nothing else.
LEMMA RefusalIInv ==
    ASSUME IInv, NEW error, Answer(Refusal(error)), request' = request, CopiesInv', FoundInv',
           Call \in Judging => error # Ok
    PROVE  IInv'
  <1>1. Refusal(error).error = error /\ ~Refusal(error).passed
    BY DEF Refusal, Verdict
  <1> QED
    BY <1>1, AnswerIInv

(* A sequence is one of its members. *)
LEMMA SequenceOfMembers ==
    ASSUME NEW s, IsSequence(s)
    PROVE  s \in Seq({s[i] : i \in 1..Len(s)}) /\ DOMAIN s = 1..Len(s)
  BY DEF IsSequence

LEMMA MembersSequence ==
    ASSUME NEW S, NEW s \in Seq(S)
    PROVE  IsSequence(s)
  BY DEF IsSequence

\* f is the recursive function of InOrder, up to n.
OrderedUpTo(indexes, f, n) ==
    f = [m \in 0..n |-> IF m = 0 THEN << >>
                        ELSE IF m \in indexes THEN Append(f[m - 1], m) ELSE f[m - 1]]

(* There is one, whatever n is: a least n without one would extend the one *)
(* below it.                                                               *)
LEMMA OrderExists ==
    ASSUME NEW I, NEW n \in Nat
    PROVE  \E f : OrderedUpTo(I, f, n)
  <1> DEFINE bad == {m \in Nat : ~\E f : OrderedUpTo(I, f, m)}
             low == FirstOf(bad)
  <1>1. SUFFICES ASSUME bad # {} PROVE FALSE
    OBVIOUS
  <1>2. low \in bad /\ \A j \in bad : low <= j
    <2>1. bad \in SUBSET Nat
      OBVIOUS
    <2> HIDE DEF bad
    <2> QED
      BY <1>1, <2>1, FirstIsLeast
  <1> HIDE DEF low
  <1>3. CASE low = 0
    <2> DEFINE f == [m \in 0..0 |-> << >>]
    <2>1. OrderedUpTo(I, f, 0)
      BY DEF OrderedUpTo
    <2> QED
      BY <1>2, <1>3, <2>1
  <1>4. CASE low # 0
    <2>1. low - 1 \in Nat /\ low \in Nat /\ low - 1 \notin bad
      BY <1>2, <1>4
    <2>2. PICK g : OrderedUpTo(I, g, low - 1)
      BY <2>1
    <2> DEFINE f == [m \in 0..low |-> IF m < low THEN g[m]
                        ELSE IF m \in I THEN Append(g[m - 1], m) ELSE g[m - 1]]
    <2>3. \A m \in 0..(low - 1) : f[m] = g[m]
      BY <2>1
    <2>4. ASSUME NEW m \in 0..low
          PROVE  f[m] = IF m = 0 THEN << >>
                        ELSE IF m \in I THEN Append(f[m - 1], m) ELSE f[m - 1]
      <3>1. CASE m < low
        <4>1. m \in 0..(low - 1) /\ m \in Nat
          BY <3>1, <2>1
        <4>2. g[m] = IF m = 0 THEN << >> ELSE IF m \in I THEN Append(g[m - 1], m) ELSE g[m - 1]
          BY <4>1, <2>2 DEF OrderedUpTo
        <4>3. m # 0 => m - 1 \in 0..(low - 1)
          BY <4>1, <2>1
        <4> HIDE DEF f
        <4> QED
          BY <4>1, <4>2, <4>3, <2>3
      <3>2. CASE ~(m < low)
        <4>1. m = low /\ m # 0 /\ m - 1 \in 0..(low - 1)
          BY <3>2, <2>1, <1>4
        <4>2. f[m] = IF m \in I THEN Append(g[m - 1], m) ELSE g[m - 1]
          BY <4>1
        <4> HIDE DEF f
        <4> QED
          BY <4>1, <4>2, <2>3
      <3> QED
        BY <3>1, <3>2
    <2>5. OrderedUpTo(I, f, low)
      <3> DEFINE h == [m \in 0..low |-> IF m = 0 THEN << >>
                        ELSE IF m \in I THEN Append(f[m - 1], m) ELSE f[m - 1]]
      <3>1. \A m \in 0..low : f[m] = h[m]
        BY <2>4
      <3>2. f = h
        BY <3>1
      <3> QED
        BY <3>2 DEF OrderedUpTo
    <2> QED
      BY <1>2, <2>5
  <1> QED
    BY <1>3, <1>4

\* The members of a set of indexes up to n.
UpTo(indexes, n) == {m \in 1..n : m \in indexes}

LEMMA UpToGrows ==
    ASSUME NEW I, NEW n \in Nat
    PROVE  /\ IsFiniteSet(UpTo(I, n)) /\ Cardinality(UpTo(I, n)) \in Nat
           /\ UpTo(I, n) = {} => Cardinality(UpTo(I, n)) = 0
           /\ \A m \in 0..n : Cardinality(UpTo(I, m)) <= Cardinality(UpTo(I, n))
           /\ n \in UpTo(I, n) =>
                  Cardinality(UpTo(I, n)) \in Nat \ {0}
           /\ n # 0 => Cardinality(UpTo(I, n)) =
                  Cardinality(UpTo(I, n - 1)) + (IF n \in I THEN 1 ELSE 0)
  <1>1. \A m \in Nat : IsFiniteSet(UpTo(I, m)) /\ Cardinality(UpTo(I, m)) \in Nat
    <2> TAKE m \in Nat
    <2>1. IsFiniteSet(1..m)
      BY FS_Interval
    <2>2. UpTo(I, m) \subseteq 1..m
      BY DEF UpTo
    <2> QED
      BY <2>1, <2>2, FS_Subset, FS_CardinalityType
  <1>2. \A m \in 0..n : Cardinality(UpTo(I, m)) <= Cardinality(UpTo(I, n))
    <2> TAKE m \in 0..n
    <2>1. UpTo(I, m) \subseteq UpTo(I, n)
      BY DEF UpTo
    <2> QED
      BY <1>1, <2>1, FS_Subset
  <1>3. UpTo(I, n) # {} => Cardinality(UpTo(I, n)) # 0
    BY <1>1, FS_EmptySet
  <1>4. ASSUME n # 0
        PROVE  Cardinality(UpTo(I, n)) = Cardinality(UpTo(I, n - 1)) + (IF n \in I THEN 1 ELSE 0)
    <2>1. n - 1 \in Nat
      BY <1>4
    <2>2. CASE n \in I
      <3>1. UpTo(I, n) = UpTo(I, n - 1) \cup {n} /\ n \notin UpTo(I, n - 1)
        BY <1>4, <2>2 DEF UpTo
      <3> QED
        BY <1>1, <2>1, <2>2, <3>1, FS_AddElement
    <2>3. CASE n \notin I
      <3>1. UpTo(I, n) = UpTo(I, n - 1)
        BY <1>4, <2>3 DEF UpTo
      <3> QED
        BY <1>1, <2>1, <2>3, <3>1
    <2> QED
      BY <2>2, <2>3
  <1> QED
    BY <1>1, <1>2, <1>3, <1>4, FS_EmptySet

(* InOrder lists each member of the set once, in ascending order: as the   *)
(* one its place in the order says.                                        *)
Lists(order, indexes, n) ==
    /\ order \in Seq(UpTo(indexes, n))
    /\ Len(order) = Cardinality(UpTo(indexes, n))
    /\ \A m \in UpTo(indexes, n) : order[Cardinality(UpTo(indexes, m))] = m

LEMMA InOrderLists ==
    ASSUME NEW I, NEW N \in Nat
    PROVE  Lists(InOrder(I, N), I, N)
  <1> DEFINE f == CHOOSE f : OrderedUpTo(I, f, N)
  <1>1. OrderedUpTo(I, f, N)
    BY OrderExists
  <1>2. InOrder(I, N) = f[N]
    BY DEF InOrder, OrderedUpTo
  <1> HIDE DEF f
  <1> DEFINE bad == {m \in 0..N : ~Lists(f[m], I, m)}
             low == FirstOf(bad)
  <1>3. SUFFICES ASSUME bad # {} PROVE FALSE
    BY <1>2
  <1>4. low \in bad /\ \A j \in bad : low <= j
    <2>1. bad \in SUBSET Nat
      OBVIOUS
    <2> HIDE DEF bad
    <2> QED
      BY <1>3, <2>1, FirstIsLeast
  <1> HIDE DEF low
  <1>5. low \in 0..N /\ ~Lists(f[low], I, low)
    BY <1>4
  <1>6. f[low] = IF low = 0 THEN << >> ELSE IF low \in I THEN Append(f[low - 1], low) ELSE f[low - 1]
    BY <1>1, <1>5 DEF OrderedUpTo
  <1>7. CASE low = 0
    <2>1. UpTo(I, low) = {} /\ f[low] = << >>
      BY <1>6, <1>7 DEF UpTo
    <2>2. Cardinality(UpTo(I, low)) = 0
      BY <2>1, FS_EmptySet
    <2> QED
      BY <1>5, <2>1, <2>2 DEF Lists
  <1>8. CASE low # 0
    <2> DEFINE below == UpTo(I, low - 1)
    <2>1. low - 1 \in 0..N /\ low - 1 \in Nat /\ low \in Nat /\ ~(low <= low - 1)
      BY <1>5, <1>8
    <2>2. Lists(f[low - 1], I, low - 1)
      BY <1>4, <2>1
    <2>3. /\ below \subseteq UpTo(I, low)
          /\ UpTo(I, low) = below \cup (IF low \in I THEN {low} ELSE {})
      BY <2>1 DEF UpTo
    <2>4. /\ Cardinality(below) \in Nat
          /\ Cardinality(UpTo(I, low)) = Cardinality(below) + (IF low \in I THEN 1 ELSE 0)
      BY <1>8, <2>1, UpToGrows
    <2>5. CASE low \notin I
      BY <1>5, <1>6, <1>8, <2>2, <2>3, <2>4, <2>5 DEF Lists
    <2>6. CASE low \in I
      <3> DEFINE s == f[low - 1]
      <3>1. /\ s \in Seq(UpTo(I, low)) /\ low \in UpTo(I, low) /\ Len(s) = Cardinality(below)
            /\ f[low] = Append(s, low)
        BY <1>6, <1>8, <2>2, <2>3, <2>6 DEF Lists
      <3>2. /\ f[low] \in Seq(UpTo(I, low))
            /\ Len(f[low]) = Cardinality(UpTo(I, low))
            /\ f[low][Len(s) + 1] = low
            /\ \A i \in 1..Len(s) : f[low][i] = s[i]
        <4> HIDE DEF s, below
        <4> QED
          BY <2>4, <2>6, <3>1
      <3>3. ASSUME NEW m \in below
            PROVE  f[low][Cardinality(UpTo(I, m))] = m
        <4>1. m \in Nat /\ m \in 0..(low - 1) /\ m \in UpTo(I, m)
          BY <2>1 DEF UpTo
        <4>2. Cardinality(UpTo(I, m)) \in 1..Len(s)
          BY <4>1, <2>1, <3>1, <2>4, UpToGrows
        <4>3. s[Cardinality(UpTo(I, m))] = m
          BY <2>2 DEF Lists
        <4> QED
          BY <3>2, <4>2, <4>3
      <3>4. f[low][Cardinality(UpTo(I, low))] = low
        BY <2>4, <2>6, <3>1, <3>2
      <3> QED
        BY <1>5, <2>3, <2>6, <3>2, <3>3, <3>4 DEF Lists
    <2> QED
      BY <2>5, <2>6
  <1> QED
    BY <1>5, <1>7, <1>8

\* What is left of a sequence of certificates is one.
LEMMA WithoutRootsSeq ==
    ASSUME NEW S, NEW chain \in Seq(S)
    PROVE  without_roots(chain) \in Seq(S)
  <1> DEFINE own == {i \in DOMAIN chain : chain[i] # BundledRoot}
             kept == InOrder(own, Len(chain))
  <1>1. Lists(kept, own, Len(chain))
    BY InOrderLists
  <1>2. kept \in Seq(1..Len(chain))
    BY <1>1 DEF Lists, UpTo
  <1> HIDE DEF kept
  <1>3. [i \in 1..Len(kept) |-> chain[kept[i]]] \in Seq(S)
    BY <1>2
  <1> QED
    BY <1>3 DEF without_roots, kept

LEMMA PartsOf ==
    ASSUME NEW id, NEW doc, WellFormed(id, doc)
    PROVE  /\ "edition" \in DOMAIN doc
           /\ id[1] \in {"tcb-info", "qe-identity"} => "levels" \in DOMAIN doc
           /\ id[1] \in {"tcb-info", "qe-identity", "pck-crl"} => "chain" \in DOMAIN doc
  <1>1. FieldsOf(id[1]) \subseteq DOMAIN doc
    BY DEF WellFormed
  <1> QED
    BY <1>1 DEF FieldsOf, IntelDocument

LEMMA StripKeeps ==
    ASSUME NEW id, NEW doc, WellFormed(id, doc)
    PROVE  WellFormed(id, Strip(doc))
  <1>1. CASE "chain" \in DOMAIN doc /\ Asked(doc.chain)
    <2> DEFINE left == without_roots(doc.chain[1])
    <2>1. /\ DOMAIN Strip(doc) = DOMAIN doc
          /\ Strip(doc).chain = Rule(left)
          /\ \A f \in DOMAIN doc \ {"chain"} : Strip(doc)[f] = doc[f]
      BY <1>1 DEF Strip
    <2>2. Strip(doc).chain[1] = left
      BY <2>1, RuleIsAsked
    <2>3. IsSequence(doc.chain[1]) => IsSequence(left)
      BY SequenceOfMembers, MembersSequence, WithoutRootsSeq
    <2> HIDE DEF left
    <2>4. Strip(doc).edition = doc.edition
      BY <2>1, PartsOf
    <2>5. id[1] \in {"tcb-info", "qe-identity"} => Strip(doc).levels = doc.levels
      BY <2>1, PartsOf
    <2> QED
      BY <1>1, <2>1, <2>2, <2>3, <2>4, <2>5 DEF WellFormed
  <1>2. CASE ~("chain" \in DOMAIN doc /\ Asked(doc.chain))
    BY <1>2 DEF Strip
  <1> QED
    BY <1>1, <1>2

LEMMA AttachIInv == IInv /\ Attach => IInv'
  <1> SUFFICES ASSUME IInv, Attach PROVE IInv'
    OBVIOUS
  <1>1. /\ request' = request /\ held' = held /\ found' = found /\ Call = "attach"
        /\ carried' = IF Forgiven(AttachError) = Ok THEN attach ELSE carried
        /\ Answer(Refusal(Forgiven(AttachError)))
    BY DEF Attach
  <1>2. pf' = pf /\ ev' = ev /\ now' = now
    BY <1>1 DEF pf, ev, now
  <1>3. FoundInv'
    BY <1>1, <1>2 DEF IInv, FoundInv
  <1>5. \A id \in DOMAIN attach : WellFormed(id, attach[id])
    <2> TAKE id \in DOMAIN attach
    <2>1. id \in Used /\ attach[id] = Strip(found[id].doc[1])
      BY DEF attach
    <2>2. WellFormed(id, found[id].doc[1])
      BY <2>1 DEF Used, IInv, FoundInv, LookedUp
    <2> QED
      BY <2>1, <2>2, StripKeeps
  <1>6. CopiesInv'
    BY <1>1, <1>5 DEF IInv, CopiesInv
  <1>7. Call \notin Judging
    BY <1>1 DEF Judging
  <1> QED
    BY <1>1, <1>3, <1>6, <1>7, RefusalIInv

LEMMA CollateralNeededIInv == IInv /\ collateral_needed => IInv'
  <1> SUFFICES ASSUME IInv, collateral_needed PROVE IInv'
    OBVIOUS
  <1>1. /\ UNCHANGED <<request, carried, held, found>> /\ Call = "collateral_needed"
        /\ Answer(Refusal(Forgiven(JudgeError)))
    BY DEF collateral_needed
  <1>2. pf' = pf /\ ev' = ev /\ now' = now
    BY <1>1 DEF pf, ev, now
  <1>3. FoundInv' /\ CopiesInv'
    BY <1>1, <1>2 DEF IInv, FoundInv, CopiesInv
  <1>4. Call \notin Judging
    BY <1>1 DEF Judging
  <1> QED
    BY <1>1, <1>3, <1>4, RefusalIInv

\* A judging call works with the caller's policies.
LEMMA JudgingPolicy ==
    ASSUME Call \in Judging
    PROVE  Policy = request.policy /\ GpuPolicy = request.gpu.policy
  BY DEF Policy, GpuPolicy, ByDefault, Judging

\* The checks made at the end of the lookups, with those made before them.
LEMMA WellJudged ==
    ASSUME IInv, Complete, Call \in Judging, JudgeError = Ok
    PROVE  WentWell(request.policy[1])
  <1>1. Admitted(request.policy[1])
    BY DEF IInv, AdmittedInv, Complete
  <1>2. /\ GatherError(pf, ev, found, now) = Ok
        /\ VerifyError(pf, ev, Policy[1], Gathered(pf, ev, found, now), now) = Ok
    BY AndOk DEF JudgeError
  <1> QED
    BY <1>1, <1>2, JudgingPolicy DEF WentWell, Complete

LEMMA JudgeIInv == IInv /\ Judge => IInv'
  <1> SUFFICES ASSUME IInv, Judge PROVE IInv'
    OBVIOUS
  <1>1. UNCHANGED <<request, carried, held, found>> /\ Call \in Judging /\ Complete
    BY DEF Judge
  <1>2. pf' = pf /\ ev' = ev /\ now' = now
    BY <1>1 DEF pf, ev, now
  <1>3. FoundInv' /\ CopiesInv'
    BY <1>1, <1>2 DEF IInv, FoundInv, CopiesInv
  <1>4. CASE JudgeError # Ok
    <2>1. Answer(Refusal(JudgeError))
      BY <1>4 DEF Judge
    <2> QED
      BY <1>1, <1>3, <1>4, <2>1, RefusalIInv
  <1>5. ASSUME JudgeError = Ok
        PROVE  WentWell(request.policy[1]) /\ WentWell(request.policy[1])'
    <2>1. WentWell(request.policy[1])
      BY <1>1, <1>5, WellJudged
    <2> QED
      BY <1>1, <1>2, <2>1 DEF WentWell, Admitted
  <1>6. CASE JudgeError = Ok /\ WithGpu
    <2>1. stage' = "gpu" /\ UNCHANGED <<todo, answers>> /\ Call' = Call
      BY <1>6 DEF Judge, Call
    <2>2. Asked(request.gpu.bundle) /\ Asked(request.gpu.policy)
      BY <1>1, <1>6, JudgingPolicy DEF WithGpu
    <2>3. GpuInv'
      BY <1>1, <1>5, <1>6, <2>1, <2>2 DEF GpuInv
    <2>4. AdmittedInv'
      BY <1>5, <1>6, <1>1 DEF AdmittedInv, WentWell
    <2>5. AnswersInv' /\ VerdictInv' /\ HandingIn' /\ PassedInv'
      BY <2>1 DEF IInv, AnswersInv, VerdictInv, HandingIn, PassedInv, Judged
    <2> QED
      BY <1>3, <2>3, <2>4, <2>5 DEF IInv
  <1>7. CASE JudgeError = Ok /\ ~WithGpu
    <2> DEFINE verdict == Verdict(Ok, Passed, Rule(ThisResult))
    <2>1. Answer(verdict)
      BY <1>7 DEF Judge
    <2>2. /\ verdict.error = Ok /\ verdict.passed = Passed
          /\ verdict.result = Rule(ThisResult) /\ verdict.result[1] = ThisResult
      BY DEF Verdict, Rule
    <2>3. ThisResult = Result(pf, ev, request.policy[1], found, now)
      BY <1>1, JudgingPolicy DEF ThisResult
    <2>4. AllAcceptable' = AllAcceptable
      BY <1>1 DEF AllAcceptable
    <2> HIDE DEF verdict
    <2>5. verdict.passed => PlatformPassed(pf, verdict.result[1]) /\ AllAcceptable'
      BY <2>2, <2>4 DEF Passed
    <2>6. WentWell(request.policy[1])'
      BY <1>5, <1>7
    <2> QED
      BY <1>1, <1>3, <2>1, <2>2, <2>3, <2>5, <2>6, AnswerIInv DEF WentWell
  <1> QED
    BY <1>4, <1>6, <1>7

LEMMA JudgeGpuIInv == IInv /\ JudgeGpu => IInv'
  <1> SUFFICES ASSUME IInv, JudgeGpu PROVE IInv'
    OBVIOUS
  <1>1. UNCHANGED <<request, carried, held, found>> /\ stage = "gpu"
    BY DEF JudgeGpu
  <1>2. pf' = pf /\ ev' = ev /\ now' = now
    BY <1>1 DEF pf, ev, now
  <1>3. FoundInv' /\ CopiesInv'
    BY <1>1, <1>2 DEF IInv, FoundInv, CopiesInv
  <1>4. Call \in Judging /\ WentWell(request.policy[1])
    BY <1>1 DEF IInv, GpuInv
  <1>5. CASE GpuError # Ok
    <2>1. Answer(Refusal(GpuError))
      BY <1>5 DEF JudgeGpu
    <2> QED
      BY <1>1, <1>3, <1>5, <2>1, RefusalIInv
  <1>6. CASE GpuError = Ok
    <2> DEFINE gpu == verify_bundle(request.gpu.bundle[1], GpuPolicy[1], request.gpu.answers)
               verdict == Verdict(Ok, Passed /\ GpuPassed(gpu), Rule(ThisResult))
    <2>1. Answer(verdict)
      BY <1>6 DEF JudgeGpu
    <2>2. /\ verdict.error = Ok /\ (verdict.passed => Passed)
          /\ verdict.result = Rule(ThisResult) /\ verdict.result[1] = ThisResult
      BY DEF Verdict, Rule
    <2>3. ThisResult = Result(pf, ev, request.policy[1], found, now)
      BY <1>4, JudgingPolicy DEF ThisResult
    <2>4. AllAcceptable' = AllAcceptable
      BY <1>1 DEF AllAcceptable
    <2> HIDE DEF verdict, gpu
    <2>5. verdict.passed => PlatformPassed(pf, verdict.result[1]) /\ AllAcceptable'
      BY <2>2, <2>4 DEF Passed
    <2>6. WentWell(request.policy[1])'
      BY <1>1, <1>2, <1>4 DEF WentWell, Admitted
    <2> QED
      BY <1>1, <1>3, <2>1, <2>2, <2>3, <2>5, <2>6, AnswerIInv DEF WentWell
  <1> QED
    BY <1>5, <1>6

LEMMA HandInIInv == IInv /\ HandIn => IInv'
  <1> SUFFICES ASSUME IInv, HandIn PROVE IInv'
    OBVIOUS
  <1>1. /\ UNCHANGED <<request, todo, carried, found, consulted, answers>>
        /\ stage = "handing in" /\ stage' = "idle"
    BY DEF HandIn
  <1>2. pf' = pf /\ ev' = ev /\ now' = now /\ LastAnswer' = LastAnswer
    BY <1>1 DEF pf, ev, now, LastAnswer
  <1>3. FoundInv'
    BY <1>1, <1>2 DEF IInv, FoundInv
  <1>4. \A id \in DOMAIN held' : WellFormed(id, held'[id])
    <2>1. PICK S : /\ held' = [id \in S |-> request.published[id]]
                   /\ S \subseteq DOMAIN request.published
      BY DEF HandIn
    <2> QED
      BY <2>1, RequestsAssumption DEF IInv, CopiesInv
  <1>5. CopiesInv'
    BY <1>1, <1>4 DEF IInv, CopiesInv
  <1>6. ~Judged'
    BY <1>1, <1>2 DEF IInv, HandingIn, Judged, Judging
  <1> QED
    BY <1>1, <1>3, <1>5, <1>6
       DEF IInv, AnswersInv, AdmittedInv, GpuInv, VerdictInv, HandingIn, PassedInv

LEMMA NextIInv == IInv /\ [Next]_vars => IInv'
  <1> SUFFICES ASSUME IInv, [Next]_vars PROVE IInv'
    OBVIOUS
  <1>1. CASE Begin
    BY <1>1, BeginIInv
  <1>2. ASSUME NEW id, LookUp(id) PROVE IInv'
    BY <1>2, LookUpIInv
  <1>3. CASE Attach
    BY <1>3, AttachIInv
  <1>4. CASE collateral_needed
    BY <1>4, CollateralNeededIInv
  <1>5. CASE Judge
    BY <1>5, JudgeIInv
  <1>6. CASE JudgeGpu
    BY <1>6, JudgeGpuIInv
  <1>7. CASE HandIn
    BY <1>7, HandInIInv
  <1>8. CASE UNCHANGED vars
    <2>1. /\ pf' = pf /\ ev' = ev /\ now' = now /\ Call' = Call /\ LastAnswer' = LastAnswer
          /\ UNCHANGED <<request, todo, stage, carried, held, found, consulted, answers>>
      BY <1>8 DEF vars, pf, ev, now, Call, LastAnswer
    <2>2. AnswersInv' /\ CopiesInv' /\ FoundInv' /\ AdmittedInv' /\ HandingIn'
      BY <2>1 DEF IInv, AnswersInv, CopiesInv, FoundInv, AdmittedInv, Admitted, HandingIn
    <2>3. GpuInv'
      BY <2>1 DEF IInv, GpuInv, WentWell, Admitted
    <2>4. VerdictInv' /\ PassedInv'
      BY <2>1 DEF IInv, VerdictInv, WentWell, Admitted, Judged, PassedInv, AllAcceptable
    <2> QED
      BY <2>2, <2>3, <2>4 DEF IInv
  <1> QED
    BY <1>1, <1>2, <1>3, <1>4, <1>5, <1>6, <1>7, <1>8 DEF Next

(* Whatever lookups bring and in whatever order, what a call goes by has   *)
(* been checked: its request before the lookups, each document by itself   *)
(* (store.rs:295-342), and all of it together in a verdict that passes.    *)
THEOREM Invariant == Spec => []IInv
  BY InitIInv, NextIInv, PTL DEF Spec

-------------------------------------------------------------------------------
(* What an SNP verdict says. *)

SnpFields ==
    {"claims", "report_data_match", "host_data_match", "launch_digest_match", "min_tcb_met",
     "debug", "allow_debug", "migrate_ma", "vmpl", "max_vmpl", "crl_ok", "registers",
     "registers_match"}

MinTcbMet(report, p) ==
    IF Asked(p.min_tcb)
    THEN Outcome(\A tcb \in EveryTcb(report) : min_tcb_met(tcb, p.min_tcb[1])) ELSE "unasked"

\* A passing result has no mismatch.
LEMMA NoMismatch ==
    ASSUME NEW holds \in BOOLEAN, Outcome(holds) # "mismatch"
    PROVE  holds
  BY DEF Outcome

LEMMA SnpPassedMeans ==
    ASSUME NEW r, SnpPassed(r)
    PROVE  /\ r.report_data_match # "mismatch" /\ r.host_data_match # "mismatch"
           /\ r.launch_digest_match # "mismatch" /\ r.min_tcb_met # "mismatch"
           /\ r.crl_ok # "mismatch" /\ r.registers_match # "mismatch"
           /\ r.debug => r.allow_debug
           /\ ~r.migrate_ma
           /\ r.vmpl <= r.max_vmpl
  BY DEF SnpPassed, all_held

\* The bound report: every rule that is no rule about registers.
LEMMA BoundReport ==
    ASSUME NEW report, NEW p, NEW crl_ok
    PROVE  LET r == check_report_bindings(evaluate_report(report, p, crl_ok), report, p)
           IN  /\ DOMAIN r = SnpFields
               /\ r.report_data_match = match_padded(report.report_data, p.report_data)
               /\ r.host_data_match = match_padded(report.host_data, p.host_data)
               /\ r.launch_digest_match = match_any(report.measurement, p.launch_digest)
               /\ r.min_tcb_met = MinTcbMet(report, p)
               /\ r.debug = report.debug /\ r.allow_debug = p.allow_debug
               /\ r.migrate_ma = report.migrate_ma
               /\ r.vmpl = report.vmpl /\ r.max_vmpl = p.max_vmpl
               /\ r.crl_ok = crl_ok /\ r.registers = NoRule
  <1> DEFINE e == evaluate_report(report, p, crl_ok)
             r == check_report_bindings(e, report, p)
  <1>1. /\ DOMAIN e = SnpFields
        /\ e.launch_digest_match = match_any(report.measurement, p.launch_digest)
        /\ e.min_tcb_met = MinTcbMet(report, p)
        /\ e.debug = report.debug /\ e.allow_debug = p.allow_debug
        /\ e.migrate_ma = report.migrate_ma
        /\ e.vmpl = report.vmpl /\ e.max_vmpl = p.max_vmpl
        /\ e.crl_ok = crl_ok /\ e.registers = NoRule
    BY DEF evaluate_report, MinTcbMet, SnpFields
  <1> HIDE DEF e
  <1>2. /\ DOMAIN r = DOMAIN e
        /\ r.report_data_match = match_padded(report.report_data, p.report_data)
        /\ r.host_data_match = match_padded(report.host_data, p.host_data)
        /\ \A f \in SnpFields \ {"report_data_match", "host_data_match"} : r[f] = e[f]
    BY <1>1 DEF check_report_bindings, SnpFields
  <1> HIDE DEF r
  <1> QED
    BY <1>1, <1>2 DEF SnpFields, e, r

(* The checks of the registers change three fields, and show registers     *)
(* only when everything else holds.                                        *)
LEMMA CheckedRegisters ==
    ASSUME NEW r, DOMAIN r = SnpFields, NEW e, NEW p
    PROVE  LET x == check_measurement_registers(r, e, p)
               committed == kmr_verify(e.report, LogOf(e), p.report_data[1].v)
           IN  /\ DOMAIN x = SnpFields
               /\ \A f \in SnpFields \ {"report_data_match", "registers", "registers_match"} :
                      x[f] = r[f]
               /\ Asked(x.registers) =>
                      /\ SnpPassed(x) /\ r.launch_digest_match = "match" /\ x.registers = committed
               /\ SnpPassed(x) =>
                      /\ r.launch_digest_match = "match" /\ Asked(committed)
                      /\ \A i \in Registers :
                             committed[1][i] = Expected(p.measurement_registers[1], i)
  <1> DEFINE committed == kmr_verify(e.report, LogOf(e), p.report_data[1].v)
             registers == IF r.launch_digest_match = "match" THEN committed ELSE NoRule
             equal == /\ Asked(registers)
                      /\ \A i \in Registers :
                             registers[1][i] = Expected(p.measurement_registers[1], i)
             y == [r EXCEPT !.report_data_match = Outcome(Asked(registers)),
                            !.registers_match = Outcome(equal)]
             x == [y EXCEPT !.registers = IF SnpPassed(y) THEN registers ELSE NoRule]
  <1>1. x = check_measurement_registers(r, e, p)
    BY DEF check_measurement_registers
  <1> HIDE DEF committed
  <1>2. registers # NoRule => r.launch_digest_match = "match" /\ registers = committed
    OBVIOUS
  <1>3. equal \in BOOLEAN
    BY DEF Asked
  <1> HIDE DEF registers, equal
  <1>4. /\ DOMAIN y = SnpFields
        /\ y.report_data_match = Outcome(Asked(registers))
        /\ y.registers_match = Outcome(equal)
        /\ \A f \in SnpFields \ {"report_data_match", "registers_match"} : y[f] = r[f]
    BY DEF SnpFields
  <1> HIDE DEF y
  <1>5. /\ DOMAIN x = SnpFields
        /\ x.registers = IF SnpPassed(y) THEN registers ELSE NoRule
        /\ \A f \in SnpFields \ {"registers"} : x[f] = y[f]
    BY <1>4 DEF SnpFields
  <1> HIDE DEF x
  <1>6. SnpPassed(x) <=> SnpPassed(y)
    BY <1>5 DEF SnpPassed, SnpFields
  <1>7. SnpPassed(y) => equal
    BY <1>3, <1>4, SnpPassedMeans, NoMismatch
  <1>8. equal => Asked(committed) /\ r.launch_digest_match = "match"
                 /\ \A i \in Registers : committed[1][i] = Expected(p.measurement_registers[1], i)
    BY <1>2 DEF equal, Asked
  <1>9. \A f \in SnpFields \ {"report_data_match", "registers", "registers_match"} : x[f] = r[f]
    BY <1>4, <1>5
  <1>10. Asked(x.registers) => SnpPassed(y) /\ registers # NoRule /\ x.registers = registers
    BY <1>5 DEF Asked
  <1>11. Asked(x.registers) =>
            SnpPassed(x) /\ r.launch_digest_match = "match" /\ x.registers = committed
    BY <1>2, <1>6, <1>10
  <1> HIDE DEF committed
  <1>12. /\ DOMAIN x = SnpFields
         /\ SnpPassed(x) => /\ r.launch_digest_match = "match" /\ Asked(committed)
                            /\ \A i \in Registers :
                                   committed[1][i] = Expected(p.measurement_registers[1], i)
    BY <1>5, <1>6, <1>7, <1>8
  <1> QED
    BY <1>1, <1>9, <1>11, <1>12 DEF committed

\* The registers a report commits to.
LEMMA CommittedTo ==
    ASSUME NEW report, NEW log, NEW caller, Asked(kmr_verify(report, log, caller))
    PROVE  /\ Asked(report.commits)
           /\ report.commits[1].registers = kmr_verify(report, log, caller)[1]
           /\ report.commits[1].caller = caller
  <1> DEFINE replayed == replay(log, report.count)
             told == [count |-> report.count, registers |-> replayed[1], caller |-> caller]
  <1>1. report.commits = Rule(told) /\ kmr_verify(report, log, caller) = replayed
    BY DEF kmr_verify, Asked
  <1>2. told.registers = replayed[1] /\ told.caller = caller
    OBVIOUS
  <1> HIDE DEF told, replayed
  <1> QED
    BY <1>1, <1>2, RuleIsAsked

\* What the last verdict was reached from.
LEMMA VerdictIs ==
    ASSUME IInv, Judged, LastAnswer.verdict.error = Ok
    PROVE  /\ WentWell(request.policy[1])
           /\ LastAnswer.verdict.result[1] = Result(pf, ev, request.policy[1], found, now)
           /\ LastAnswer.verdict.passed =>
                  PlatformPassed(pf, LastAnswer.verdict.result[1]) /\ AllAcceptable
  BY RuleIsAsked DEF IInv, VerdictInv

\* On Azure nothing is said about registers.
LEMMA AzureReport ==
    ASSUME NEW e, NEW p, NEW c, NEW t
    PROVE  LET r == AzSnpResult(e, p, c, t)
           IN  /\ DOMAIN r = SnpFields
               /\ r.report_data_match = NonceMatch(e, p.report_data)
               /\ r.host_data_match = InitDataMatch(e, p.host_data)
               /\ r.launch_digest_match = match_any(e.report.measurement, p.launch_digest)
               /\ r.min_tcb_met = MinTcbMet(e.report, p)
               /\ r.debug = e.report.debug /\ r.allow_debug = p.allow_debug
               /\ r.migrate_ma = e.report.migrate_ma
               /\ r.vmpl = e.report.vmpl /\ r.max_vmpl = p.max_vmpl
               /\ r.crl_ok = Outcome(~vek_revoked(e.vek, c[1], matched_gen(e, t)))
               /\ r.registers = NoRule
  <1> DEFINE v == evaluate_report(e.report, p, "unasked")
             claims == tpm_claims(e.tpm, v.claims)
             crl_ok == Outcome(~vek_revoked(e.vek, c[1], matched_gen(e, t)))
             r == [v EXCEPT !.report_data_match = NonceMatch(e, p.report_data),
                            !.host_data_match = InitDataMatch(e, p.host_data),
                            !.claims = claims, !.crl_ok = crl_ok]
  <1>1. /\ DOMAIN v = SnpFields
        /\ v.launch_digest_match = match_any(e.report.measurement, p.launch_digest)
        /\ v.min_tcb_met = MinTcbMet(e.report, p)
        /\ v.debug = e.report.debug /\ v.allow_debug = p.allow_debug
        /\ v.migrate_ma = e.report.migrate_ma
        /\ v.vmpl = e.report.vmpl /\ v.max_vmpl = p.max_vmpl
        /\ v.registers = NoRule
    BY DEF evaluate_report, MinTcbMet, SnpFields
  <1>2. r = AzSnpResult(e, p, c, t)
    <2> HIDE DEF v
    <2>1. AzSnpResult(e, p, c, t) =
              [v EXCEPT !.report_data_match = NonceMatch(e, p.report_data),
                        !.host_data_match = InitDataMatch(e, p.host_data),
                        !.claims = tpm_claims(e.tpm, @), !.crl_ok = crl_ok]
      BY DEF AzSnpResult, v
    <2> QED
      BY <2>1, <1>1
  <1> HIDE DEF v, claims, crl_ok
  <1>3. /\ DOMAIN r = SnpFields
        /\ r.report_data_match = NonceMatch(e, p.report_data)
        /\ r.host_data_match = InitDataMatch(e, p.host_data)
        /\ r.crl_ok = crl_ok
        /\ \A f \in SnpFields \ {"report_data_match", "host_data_match", "claims", "crl_ok"} :
               r[f] = v[f]
    BY <1>1 DEF SnpFields
  <1> HIDE DEF r
  <1> QED
    BY <1>1, <1>2, <1>3 DEF SnpFields, crl_ok

\* The bound report of a verdict, before the registers.
Bound(e, p, c) ==
    check_report_bindings(
        evaluate_report(e.report, p,
            Outcome(~vek_revoked(VekOf(e, c), CrlOf(e, c), e.report.cpuid[1]))), e.report, p)

LEMMA BoundIs ==
    ASSUME NEW e, NEW p, NEW c
    PROVE  LET r == Bound(e, p, c)
               report == e.report
           IN  /\ DOMAIN r = SnpFields
               /\ r.report_data_match = match_padded(report.report_data, p.report_data)
               /\ r.host_data_match = match_padded(report.host_data, p.host_data)
               /\ r.launch_digest_match = match_any(report.measurement, p.launch_digest)
               /\ r.min_tcb_met = MinTcbMet(report, p)
               /\ r.debug = report.debug /\ r.allow_debug = p.allow_debug
               /\ r.migrate_ma = report.migrate_ma
               /\ r.vmpl = report.vmpl /\ r.max_vmpl = p.max_vmpl
               /\ r.crl_ok = Outcome(~vek_revoked(VekOf(e, c), CrlOf(e, c), e.report.cpuid[1]))
               /\ r.registers = NoRule
  <1> DEFINE crl_ok == Outcome(~vek_revoked(VekOf(e, c), CrlOf(e, c), e.report.cpuid[1]))
             report == e.report
  <1>1. Bound(e, p, c) = check_report_bindings(evaluate_report(report, p, crl_ok), report, p)
    BY DEF Bound
  <1>2. crl_ok = Outcome(~vek_revoked(VekOf(e, c), CrlOf(e, c), e.report.cpuid[1])) /\ report = e.report
    OBVIOUS
  <1> HIDE DEF crl_ok, report
  <1> QED
    BY <1>1, <1>2, BoundReport

LEMMA SnpResultIs ==
    ASSUME NEW e, NEW p, NEW c
    PROVE  SnpResult(e, p, c) =
               IF Asked(p.measurement_registers) THEN check_measurement_registers(Bound(e, p, c), e, p)
               ELSE Bound(e, p, c)
  BY DEF SnpResult, Bound

\* What the result of an SNP verdict is, on the bare platform and on Google's.
LEMMA TeeIs ==
    ASSUME NEW p
    PROVE  LET tee == Result(pf, ev, p, found, now).tee
               c == Gathered(pf, ev, found, now)
           IN  /\ pf \in {"snp", "gcp-snp"} => tee = SnpResult(ev, p, c)
               /\ pf = "az-snp" => tee = AzSnpResult(ev, p, c, now)
               /\ pf = "az-tdx" => tee = AzTdxResult(ev, p, c)
               /\ pf \in {"tdx", "gcp-tdx", "dstack"} => tee = TdxResult(Quote(pf, ev), p, c)
  BY DEF Result, TeeResult, TdxPlatforms

(* The registers of an SNP verdict are shown only if the report's pinned   *)
(* measurement is asked for and the guest committed to them and to the     *)
(* caller's challenge (measurement_registers.rs:104).                      *)
THEOREM RegistersCommitted == Spec => []RegistersAreCommitted
  <1>1. ASSUME IInv
        PROVE  RegistersAreCommitted
    <2> SUFFICES ASSUME Judged, LastAnswer.verdict.error = Ok, pf \in SnpPlatforms,
                        Asked(LastAnswer.verdict.result[1].tee.registers)
                 PROVE  LET tee == LastAnswer.verdict.result[1].tee
                        IN  /\ SnpPassed(tee)
                            /\ Asked(request.policy[1].launch_digest)
                            /\ ev.report.measurement \in request.policy[1].launch_digest[1]
                            /\ Asked(ev.report.commits)
                            /\ ev.report.commits[1].registers = tee.registers[1]
                            /\ ev.report.commits[1].caller = request.policy[1].report_data[1].v
      BY DEF RegistersAreCommitted
    <2> DEFINE p == request.policy[1]
               c == Gathered(pf, ev, found, now)
               tee == Result(pf, ev, p, found, now).tee
               committed == kmr_verify(ev.report, LogOf(ev), p.report_data[1].v)
    <2>1. LastAnswer.verdict.result[1].tee = tee
      BY <1>1, VerdictIs
    <2>2. /\ pf = "az-snp" => tee = AzSnpResult(ev, p, c, now)
          /\ pf \in {"snp", "gcp-snp"} => tee = SnpResult(ev, p, c)
      BY TeeIs
    <2> HIDE DEF c, p, tee
    <2>3. tee = SnpResult(ev, p, c)
      <3>1. AzSnpResult(ev, p, c, now).registers = NoRule
        BY AzureReport
      <3> QED
        BY <2>1, <2>2, <3>1 DEF Asked, SnpPlatforms
    <2>4. /\ DOMAIN Bound(ev, p, c) = SnpFields
          /\ Bound(ev, p, c).registers = NoRule
          /\ Bound(ev, p, c).launch_digest_match = match_any(ev.report.measurement, p.launch_digest)
      BY BoundIs
    <2>5. tee = check_measurement_registers(Bound(ev, p, c), ev, p)
      BY <2>1, <2>3, <2>4, SnpResultIs DEF Asked
    <2>6. /\ SnpPassed(tee)
          /\ Bound(ev, p, c).launch_digest_match = "match"
          /\ tee.registers = committed
      BY <2>1, <2>4, <2>5, CheckedRegisters
    <2>7. Asked(p.launch_digest) /\ ev.report.measurement \in p.launch_digest[1]
      BY <2>4, <2>6 DEF match_any, Outcome
    <2>8. /\ Asked(ev.report.commits)
          /\ ev.report.commits[1].registers = committed[1]
          /\ ev.report.commits[1].caller = p.report_data[1].v
      BY <2>1, <2>6, CommittedTo
    <2> QED
      BY <2>1, <2>6, <2>7, <2>8 DEF p
  <1> QED
    BY <1>1, Invariant, PTL

-------------------------------------------------------------------------------
(* What a TDX verdict says. *)

TdxFields ==
    {"claims", "report_data_match", "init_data_match", "mrtd_match", "rtmr_match", "debug",
     "allow_debug", "crl_ok", "tcb_status", "tcb_status_accepted"}

TdStatus(q, c) == combine_tcb_status(TcbStatus(q, c), QeStatus(q, c))
PckRevoked(q, c) == cert_revoked(q.chain[1], c[3]) \/ cert_revoked(q.chain[2], c[4])
PckStanding(q, c) == Outcome(~PckRevoked(q, c))
Accepts(q, p, c) == Outcome(TdStatus(q, c) \in p.accepted)

LEMMA TdxPassedMeans ==
    ASSUME NEW r, TdxPassed(r)
    PROVE  /\ r.report_data_match # "mismatch" /\ r.init_data_match # "mismatch"
           /\ r.mrtd_match # "mismatch" /\ r.crl_ok # "mismatch"
           /\ r.tcb_status_accepted # "mismatch"
           /\ \A i \in 1..4 : r.rtmr_match[i] # "mismatch"
           /\ r.debug => r.allow_debug
  BY DEF TdxPassed, all_held

\* The rules about the body of a quote.
LEMMA QuoteRules ==
    ASSUME NEW q, NEW p
    PROVE  LET r == verify_quote(q, p)
           IN  /\ DOMAIN r = TdxFields
               /\ r.mrtd_match = match_any(q.body.mrtd, p.mrtd)
               /\ \A i \in 1..4 : r.rtmr_match[i] = match_any(q.body.rtmr[i], p.rtmr[i])
               /\ r.debug = q.body.debug /\ r.allow_debug = p.allow_debug
  BY DEF verify_quote, TdxFields

LEMMA CheckedCollateral ==
    ASSUME NEW r, DOMAIN r = TdxFields, NEW q, NEW p, NEW c
    PROVE  LET x == check_collateral(r, q, p, c)
           IN  /\ DOMAIN x = TdxFields
               /\ x.tcb_status = TdStatus(q, c)
               /\ x.tcb_status_accepted = Accepts(q, p, c)
               /\ x.crl_ok = PckStanding(q, c)
               /\ \A f \in TdxFields \ {"tcb_status", "tcb_status_accepted", "crl_ok"} : x[f] = r[f]
  <1> DEFINE status == TdStatus(q, c)
             x == [r EXCEPT !.tcb_status = status,
                            !.tcb_status_accepted = Accepts(q, p, c),
                            !.crl_ok = PckStanding(q, c)]
  <1>1. x = check_collateral(r, q, p, c)
    BY DEF check_collateral, TdStatus, Accepts, PckStanding, PckRevoked
  <1>2. /\ DOMAIN x = TdxFields
        /\ x.tcb_status = TdStatus(q, c)
        /\ x.tcb_status_accepted = Accepts(q, p, c)
        /\ x.crl_ok = PckStanding(q, c)
        /\ \A f \in TdxFields \ {"tcb_status", "tcb_status_accepted", "crl_ok"} : x[f] = r[f]
    BY DEF TdxFields
  <1> QED
    BY <1>1, <1>2

LEMMA TdxResultIs ==
    ASSUME NEW q, NEW p, NEW c
    PROVE  LET r == TdxResult(q, p, c)
           IN  /\ DOMAIN r = TdxFields
               /\ r.report_data_match = match_padded(q.body.report_data, p.report_data)
               /\ r.init_data_match = match_padded(q.body.mr_config_id, p.init_data)
               /\ r.mrtd_match = match_any(q.body.mrtd, p.mrtd)
               /\ \A i \in 1..4 : r.rtmr_match[i] = match_any(q.body.rtmr[i], p.rtmr[i])
               /\ r.debug = q.body.debug /\ r.allow_debug = p.allow_debug
               /\ r.tcb_status = TdStatus(q, c)
               /\ r.tcb_status_accepted = Accepts(q, p, c)
               /\ r.crl_ok = PckStanding(q, c)
  <1> DEFINE v == verify_quote(q, p)
             b == BodyRules(v, q, p)
             r == check_collateral(b, q, p, c)
  <1>1. r = TdxResult(q, p, c)
    BY DEF TdxResult
  <1>2. /\ DOMAIN v = TdxFields
        /\ v.mrtd_match = match_any(q.body.mrtd, p.mrtd)
        /\ \A i \in 1..4 : v.rtmr_match[i] = match_any(q.body.rtmr[i], p.rtmr[i])
        /\ v.debug = q.body.debug /\ v.allow_debug = p.allow_debug
    BY QuoteRules
  <1> HIDE DEF v
  <1>3. /\ DOMAIN b = TdxFields
        /\ b.report_data_match = match_padded(q.body.report_data, p.report_data)
        /\ b.init_data_match = match_padded(q.body.mr_config_id, p.init_data)
        /\ \A f \in TdxFields \ {"report_data_match", "init_data_match"} : b[f] = v[f]
    BY <1>2 DEF BodyRules, TdxFields
  <1> HIDE DEF b
  <1>4. /\ DOMAIN r = TdxFields
        /\ r.tcb_status = TdStatus(q, c)
        /\ r.tcb_status_accepted = Accepts(q, p, c)
        /\ r.crl_ok = PckStanding(q, c)
        /\ \A f \in TdxFields \ {"tcb_status", "tcb_status_accepted", "crl_ok"} : r[f] = b[f]
    BY <1>3, CheckedCollateral
  <1> HIDE DEF r
  <1>5. /\ r.report_data_match = b.report_data_match /\ r.init_data_match = b.init_data_match
        /\ r.mrtd_match = v.mrtd_match /\ r.rtmr_match = v.rtmr_match
        /\ r.debug = v.debug /\ r.allow_debug = v.allow_debug
    BY <1>3, <1>4 DEF TdxFields
  <1> QED
    BY <1>1, <1>2, <1>3, <1>4, <1>5

LEMMA AzTdxResultIs ==
    ASSUME NEW e, NEW p, NEW c
    PROVE  LET r == AzTdxResult(e, p, c)
               q == e.quote
           IN  /\ DOMAIN r = TdxFields
               /\ r.report_data_match = NonceMatch(e, p.report_data)
               /\ r.init_data_match = InitDataMatch(e, p.init_data)
               /\ r.mrtd_match = match_any(q.body.mrtd, p.mrtd)
               /\ \A i \in 1..4 : r.rtmr_match[i] = match_any(q.body.rtmr[i], p.rtmr[i])
               /\ r.debug = q.body.debug /\ r.allow_debug = p.allow_debug
               /\ r.tcb_status = TdStatus(q, c)
               /\ r.tcb_status_accepted = Accepts(q, p, c)
               /\ r.crl_ok = PckStanding(q, c)
  <1> DEFINE q == e.quote
             v == verify_quote(q, p)
             b == AzTdxRules(v, e, p)
             r == check_collateral(b, q, p, c)
  <1>1. r = AzTdxResult(e, p, c) /\ q = e.quote
    BY DEF AzTdxResult
  <1> HIDE DEF q
  <1>2. /\ DOMAIN v = TdxFields
        /\ v.mrtd_match = match_any(q.body.mrtd, p.mrtd)
        /\ \A i \in 1..4 : v.rtmr_match[i] = match_any(q.body.rtmr[i], p.rtmr[i])
        /\ v.debug = q.body.debug /\ v.allow_debug = p.allow_debug
    BY QuoteRules
  <1> HIDE DEF v
  <1>3. /\ DOMAIN b = TdxFields
        /\ b.report_data_match = NonceMatch(e, p.report_data)
        /\ b.init_data_match = InitDataMatch(e, p.init_data)
        /\ \A f \in TdxFields \ {"report_data_match", "init_data_match", "claims"} : b[f] = v[f]
    BY <1>2 DEF AzTdxRules, TdxFields
  <1> HIDE DEF b
  <1>4. /\ DOMAIN r = TdxFields
        /\ r.tcb_status = TdStatus(q, c)
        /\ r.tcb_status_accepted = Accepts(q, p, c)
        /\ r.crl_ok = PckStanding(q, c)
        /\ \A f \in TdxFields \ {"tcb_status", "tcb_status_accepted", "crl_ok"} : r[f] = b[f]
    BY <1>3, CheckedCollateral
  <1> HIDE DEF r
  <1>5. /\ r.report_data_match = b.report_data_match /\ r.init_data_match = b.init_data_match
        /\ r.mrtd_match = v.mrtd_match /\ r.rtmr_match = v.rtmr_match
        /\ r.debug = v.debug /\ r.allow_debug = v.allow_debug
    BY <1>3, <1>4 DEF TdxFields
  <1> QED
    BY <1>1, <1>2, <1>3, <1>4, <1>5

-------------------------------------------------------------------------------
(* The rules of a verdict that passes, place by place. *)

LEMMA PaddedBorne ==
    ASSUME NEW actual, NEW expected, match_padded(actual, expected) # "mismatch"
    PROVE  Bears(actual.v, expected)
  <1>1. Asked(expected) => actual = Bytes(expected[1].v, actual.len)
    BY DEF match_padded, Outcome, pad_report_data
  <1>2. \A v, len : Bytes(v, len).v = v
    BY DEF Bytes
  <1> QED
    BY <1>1, <1>2 DEF Bears

LEMMA AllowedBorne ==
    ASSUME NEW actual, NEW allowed, match_any(actual, allowed) # "mismatch", Asked(allowed)
    PROVE  actual \in allowed[1]
  BY DEF match_any, Outcome

LEMMA NonceBorne ==
    ASSUME NEW e, NEW expected, NonceMatch(e, expected) # "mismatch", Asked(expected)
    PROVE  e.tpm.msg.nonce = expected[1]
  BY DEF NonceMatch, check_report_data, Outcome

LEMMA Pcr8Borne ==
    ASSUME NEW e, NEW expected, InitDataMatch(e, expected) # "mismatch", Asked(expected)
    PROVE  8 \in e.tpm.msg.selected /\ e.tpm.pcrs[9].v = <<expected[1].v>>
  <1>1. PcrIs(e.tpm.msg, e.tpm.pcrs, 8, <<expected[1].v>>)
    BY DEF InitDataMatch, check_init_data, INIT_DATA_PCR, Outcome
  <1>2. 8 + 1 = 9
    OBVIOUS
  <1> QED
    BY <1>1, <1>2 DEF PcrIs, Pcr

LEMMA PcrsBorne ==
    ASSUME NEW e, NEW pins, PcrsMatch(e, pins) # "mismatch"
    PROVE  \A i \in DOMAIN pins : i \in e.tpm.msg.selected /\ e.tpm.pcrs[i + 1].v = pins[i]
  <1>1. \A i \in DOMAIN pins : PcrIs(e.tpm.msg, e.tpm.pcrs, i, pins[i])
    BY DEF PcrsMatch, check_pcrs, Outcome
  <1> QED
    BY <1>1 DEF PcrIs, Pcr

\* Google's cloud does not take registers, Azure has none.
LEMMA NoRegistersElsewhere ==
    ASSUME NEW p, Validate(pf, p) = Ok, pf \in {"gcp-snp", "az-snp"}
    PROVE  ~Asked(p.measurement_registers)
  <1>1. CASE pf = "gcp-snp"
    <2>1. Check(pf = "gcp-snp" => ~Asked(p.measurement_registers), "InvalidParams") = Ok
      BY <1>1, AndOk DEF Validate, TdxPlatforms
    <2> QED
      BY <1>1, <2>1 DEF Check, Ok
  <1>2. CASE pf = "az-snp"
    <2>1. AzSnpParams_validate(p) = Ok
      BY <1>2 DEF Validate, TdxPlatforms
    <2> QED
      BY <2>1 DEF AzSnpParams_validate, Ok
  <1> QED
    BY <1>1, <1>2

MainKinds == {"tcb-info", "qe-identity", "pck-crl", "root-crl", "vcek", "amd-crl"}

(* The pieces a platform's evidence names. *)
LEMMA MainSetIs ==
    ASSUME NEW platform, NEW e, NEW t
    PROVE  LET ids == MainSet(platform, e, t)
               q == Quote(platform, e)
           IN  /\ SetError(platform, e) # Ok => ids = << >>
               /\ SetError(platform, e) = Ok =>
                      /\ platform \in TdxPlatforms =>
                             ids = <<TcbInfo(PckChain(q).fmspc), QeIdentity, PckCrl(PckChain(q).ca),
                                     RootCrl>>
                      /\ platform \notin TdxPlatforms /\ platform = "az-snp" =>
                             ids = <<AmdCrl(matched_gen(e, t), AmdKey(e.vek))>>
                      /\ platform \notin TdxPlatforms /\ platform # "az-snp" /\ Inline(e) =>
                             ids = <<AmdCrl(e.report.cpuid[1], AmdKey(e.vek[1]))>>
                      /\ platform \notin TdxPlatforms /\ platform # "az-snp" /\ ~Inline(e) =>
                             ids = <<Vcek(e.report.cpuid[1], e.report.chip, e.report.reported),
                                     AmdCrl(e.report.cpuid[1], "vcek")>>
               /\ \A i \in DOMAIN ids : ids[i][1] \in MainKinds
  <1> DEFINE ids == MainSet(platform, e, t)
             q == Quote(platform, e)
  <1>1. SetError(platform, e) # Ok => ids = << >>
    BY DEF MainSet
  <1>2. SetError(platform, e) = Ok /\ platform \in TdxPlatforms =>
            ids = <<TcbInfo(PckChain(q).fmspc), QeIdentity, PckCrl(PckChain(q).ca), RootCrl>>
    BY DEF MainSet, TdxCollateralSet
  <1>3. SetError(platform, e) = Ok /\ platform \notin TdxPlatforms /\ platform = "az-snp" =>
            ids = <<AmdCrl(matched_gen(e, t), AmdKey(e.vek))>>
    BY DEF MainSet, AzSnpCollateralSet
  <1>4. SetError(platform, e) = Ok /\ platform \notin TdxPlatforms /\ platform # "az-snp" /\ Inline(e) =>
            ids = <<AmdCrl(e.report.cpuid[1], AmdKey(e.vek[1]))>>
    BY DEF MainSet, SnpCollateralSet
  <1>5. SetError(platform, e) = Ok /\ platform \notin TdxPlatforms /\ platform # "az-snp" /\ ~Inline(e) =>
            ids = <<Vcek(e.report.cpuid[1], e.report.chip, e.report.reported),
                    AmdCrl(e.report.cpuid[1], "vcek")>>
    BY DEF MainSet, SnpCollateralSet
  <1> HIDE DEF ids, q
  <1>6. \A i \in DOMAIN ids : ids[i][1] \in MainKinds
    <2>1. \A x : /\ TcbInfo(x)[1] = "tcb-info" /\ PckCrl(x)[1] = "pck-crl"
                 /\ \A y : AmdCrl(x, y)[1] = "amd-crl"
                 /\ \A y, z : Vcek(x, y, z)[1] = "vcek"
      BY DEF TcbInfo, PckCrl, AmdCrl, Vcek
    <2>2. QeIdentity[1] = "qe-identity" /\ RootCrl[1] = "root-crl"
      BY DEF QeIdentity, RootCrl
    <2>3. CASE SetError(platform, e) # Ok
      BY <1>1, <2>3
    <2>4. CASE SetError(platform, e) = Ok /\ platform \in TdxPlatforms
      <3>1. /\ DOMAIN ids = 1..4
            /\ ids[1] = TcbInfo(PckChain(q).fmspc) /\ ids[2] = QeIdentity
            /\ ids[3] = PckCrl(PckChain(q).ca) /\ ids[4] = RootCrl
        BY <1>2, <2>4
      <3>2. 1..4 = {1, 2, 3, 4}
        OBVIOUS
      <3> QED
        BY <2>1, <2>2, <3>1, <3>2 DEF MainKinds
    <2>5. CASE /\ SetError(platform, e) = Ok /\ platform \notin TdxPlatforms
               /\ \/ platform = "az-snp"
                  \/ Inline(e)
      <3>1. \E x, y : ids = <<AmdCrl(x, y)>>
        BY <1>3, <1>4, <2>5
      <3> QED
        BY <2>1, <3>1 DEF MainKinds
    <2>6. CASE /\ SetError(platform, e) = Ok /\ platform \notin TdxPlatforms
               /\ platform # "az-snp" /\ ~Inline(e)
      <3>1. \E w, x, y, z : ids = <<Vcek(x, y, z), AmdCrl(x, w)>>
        BY <1>5, <2>6
      <3> QED
        BY <2>1, <3>1 DEF MainKinds
    <2> QED
      BY <2>3, <2>4, <2>5, <2>6
  <1> QED
    BY <1>1, <1>2, <1>3, <1>4, <1>5, <1>6 DEF ids, q

\* The documents of a verdict's endorsement: one, and of what was launched.
LEMMA TheEndorsement ==
    ASSUME pf \in GcpPlatforms, DOMAIN found = Wanted(pf, ev, now),
           Asked(found[EndorsementOf(pf, ev)].doc)
    PROVE  Of("gce-endorsement") = {EndorsementOf(pf, ev)}
  <1>1. EndorsementOf(pf, ev)[1] = "gce-endorsement"
    BY DEF EndorsementOf, Endorsement
  <1>2. \A id \in ToSet(MainSet(pf, ev, now)) : id[1] # "gce-endorsement"
    <2>1. \A i \in DOMAIN MainSet(pf, ev, now) : MainSet(pf, ev, now)[i][1] # "gce-endorsement"
      BY MainSetIs DEF MainKinds
    <2> QED
      BY <2>1 DEF ToSet
  <1>3. DOMAIN found = ToSet(MainSet(pf, ev, now)) \cup {EndorsementOf(pf, ev)}
    BY DEF Wanted
  <1> QED
    BY <1>1, <1>2, <1>3 DEF Of, Used

\* What is known of a verdict that passes.
LEMMA PassingIs ==
    ASSUME IInv, Passing
    PROVE  LET p == request.policy[1]
               r == Result(pf, ev, p, found, now)
           IN  /\ WentWell(p)
               /\ LastAnswer.verdict.result[1] = r
               /\ IF pf \in TdxPlatforms THEN TdxPassed(r.tee) ELSE SnpPassed(r.tee)
               /\ r.pcrs_match # "mismatch" /\ r.endorsement_match # "mismatch"
               /\ AllAcceptable
  <1> DEFINE p == request.policy[1]
             r == Result(pf, ev, p, found, now)
  <1>1. LastAnswer.verdict.error = Ok
    BY DEF IInv, PassedInv, Passing
  <1>2. /\ WentWell(p) /\ LastAnswer.verdict.result[1] = r
        /\ PlatformPassed(pf, r) /\ AllAcceptable
    BY <1>1, VerdictIs DEF Passing
  <1> HIDE DEF p, r
  <1> QED
    BY <1>2 DEF PlatformPassed, all_held, p, r

LEMMA PlatformsAre ==
    ASSUME IInv
    PROVE  /\ pf \in TdxPlatforms \cup SnpPlatforms
           /\ pf \in TdxPlatforms => WellFormedQuote(ev.quote)
           /\ pf \in SnpPlatforms /\ Asked(ev.report.cpuid) =>
                  ev.report.cpuid = Rule(ev.report.cpuid[1])
  BY RequestsAssumption DEF IInv, CopiesInv, pf, ev

\* dstack's quote in another encoding is the same quote, whatever is read of it.
LEMMA SameQuote ==
    ASSUME IInv, pf \in TdxPlatforms
    PROVE  \A part \in QuoteParts \ {"kept", "ccel"} : Quote(pf, ev)[part] = ev.quote[part]
  <1>1. QuoteParts \subseteq DOMAIN ev.quote
    BY PlatformsAre DEF WellFormedQuote
  <1> QED
    BY <1>1 DEF Quote, normalize_quote, QuoteParts

LEMMA SnpRulesBorne ==
    ASSUME IInv, Passing, pf \notin TdxPlatforms
    PROVE  ReportDataBorne(request.policy[1]) /\ SnpRulesHold(request.policy[1])
  <1> DEFINE p == request.policy[1]
             c == Gathered(pf, ev, found, now)
             tee == Result(pf, ev, p, found, now).tee
             report == ev.report
  <1>1. pf \in SnpPlatforms
    BY PlatformsAre
  <1>2. SnpPassed(tee) /\ Validate(pf, p) = Ok
    BY PassingIs DEF WentWell, Admitted
  <1>3. /\ pf \in {"snp", "gcp-snp"} => tee = SnpResult(ev, p, c)
        /\ pf = "az-snp" => tee = AzSnpResult(ev, p, c, now)
    BY TeeIs
  <1>4. request.policy[1] = p /\ ev.report = report
    OBVIOUS
  <1> HIDE DEF p, c, tee, report
  <1>5. /\ tee.launch_digest_match = match_any(report.measurement, p.launch_digest)
        /\ tee.min_tcb_met = MinTcbMet(report, p)
        /\ tee.debug = report.debug /\ tee.allow_debug = p.allow_debug
        /\ tee.migrate_ma = report.migrate_ma
        /\ tee.vmpl = report.vmpl /\ tee.max_vmpl = p.max_vmpl
    <2>1. CASE pf = "az-snp"
      BY <1>3, <1>4, <2>1, AzureReport
    <2>2. CASE pf # "az-snp"
      <3>1. tee = SnpResult(ev, p, c)
        BY <1>1, <1>3, <2>2 DEF SnpPlatforms
      <3> DEFINE b == Bound(ev, p, c)
      <3>2. /\ DOMAIN b = SnpFields
            /\ b.launch_digest_match = match_any(report.measurement, p.launch_digest)
            /\ b.min_tcb_met = MinTcbMet(report, p)
            /\ b.debug = report.debug /\ b.allow_debug = p.allow_debug
            /\ b.migrate_ma = report.migrate_ma
            /\ b.vmpl = report.vmpl /\ b.max_vmpl = p.max_vmpl
        BY <1>4, BoundIs
      <3> HIDE DEF b
      <3>3. \A f \in SnpFields \ {"report_data_match", "registers", "registers_match"} : tee[f] = b[f]
        <4>1. CASE Asked(p.measurement_registers)
          <5>1. tee = check_measurement_registers(b, ev, p)
            BY <3>1, <4>1, SnpResultIs DEF b
          <5> QED
            BY <3>2, <5>1, CheckedRegisters
        <4>2. CASE ~Asked(p.measurement_registers)
          BY <3>1, <4>2, SnpResultIs DEF b
        <4> QED
          BY <4>1, <4>2
      <3> QED
        BY <3>2, <3>3 DEF SnpFields
    <2> QED
      BY <2>1, <2>2
  <1>6. /\ Asked(p.measurement_registers) =>
               /\ pf = "snp"
               /\ Bears(report.commits[1].caller, p.report_data)
               /\ RegistersHold(p)
        /\ ~Asked(p.measurement_registers) /\ pf # "az-snp" =>
               tee.report_data_match = match_padded(report.report_data, p.report_data)
        /\ pf # "az-snp" => tee.host_data_match = match_padded(report.host_data, p.host_data)
    <2>1. CASE pf = "az-snp"
      BY <1>2, <2>1, NoRegistersElsewhere
    <2>2. CASE pf # "az-snp"
      <3>1. tee = SnpResult(ev, p, c)
        BY <1>1, <1>3, <2>2 DEF SnpPlatforms
      <3> DEFINE b == Bound(ev, p, c)
                 committed == kmr_verify(report, LogOf(ev), p.report_data[1].v)
      <3>2. /\ DOMAIN b = SnpFields
            /\ b.report_data_match = match_padded(report.report_data, p.report_data)
            /\ b.host_data_match = match_padded(report.host_data, p.host_data)
        BY <1>4, BoundIs
      <3> HIDE DEF b
      <3>3. CASE Asked(p.measurement_registers)
        <4>1. tee = check_measurement_registers(b, ev, p)
          BY <3>1, <3>3, SnpResultIs DEF b
        <4>2. /\ Asked(committed)
              /\ \A i \in Registers : committed[1][i] = Expected(p.measurement_registers[1], i)
              /\ tee.host_data_match = b.host_data_match
          BY <1>2, <1>4, <3>2, <4>1, CheckedRegisters DEF SnpFields
        <4>3. /\ report.commits[1].registers = committed[1]
              /\ report.commits[1].caller = p.report_data[1].v
          BY <4>2, CommittedTo
        <4>4. pf = "snp"
          BY <1>1, <1>2, <2>2, <3>3, NoRegistersElsewhere DEF SnpPlatforms
        <4>5. Bears(report.commits[1].caller, p.report_data)
          BY <4>3 DEF Bears
        <4>6. RegistersHold(p)
          BY <1>4, <4>2, <4>3 DEF RegistersHold
        <4> QED
          BY <3>2, <3>3, <4>2, <4>4, <4>5, <4>6
      <3>4. CASE ~Asked(p.measurement_registers)
        BY <3>1, <3>2, <3>4, SnpResultIs DEF b
      <3> QED
        BY <3>3, <3>4
    <2> QED
      BY <2>1, <2>2
  <1>7. /\ tee.report_data_match # "mismatch" /\ tee.host_data_match # "mismatch"
        /\ tee.launch_digest_match # "mismatch" /\ tee.min_tcb_met # "mismatch"
        /\ tee.debug => tee.allow_debug
        /\ ~tee.migrate_ma
        /\ tee.vmpl <= tee.max_vmpl
    BY <1>2, SnpPassedMeans
  <1>8. pf = "az-snp" => /\ tee.report_data_match = NonceMatch(ev, p.report_data)
                         /\ tee.host_data_match = InitDataMatch(ev, p.host_data)
    BY <1>3, AzureReport
  <1>9. ReportDataBorne(p)
    <2>1. CASE pf = "az-snp"
      BY <1>7, <1>8, <2>1, NonceBorne DEF ReportDataBorne, Azure
    <2>2. CASE pf # "az-snp" /\ Asked(p.measurement_registers)
      BY <1>1, <1>4, <1>6, <2>2 DEF ReportDataBorne, Azure
    <2>3. CASE pf # "az-snp" /\ ~Asked(p.measurement_registers)
      <3>1. Bears(report.report_data.v, p.report_data)
        BY <1>6, <1>7, <2>3, PaddedBorne
      <3>2. pf \notin Azure /\ ReportData = report.report_data
        BY <1>1, <1>4, <2>3 DEF Azure, SnpPlatforms, ReportData, TdxPlatforms
      <3> QED
        BY <2>3, <3>1, <3>2 DEF ReportDataBorne
    <2> QED
      BY <2>1, <2>2, <2>3
  <1>10. InitDataBorne(report.host_data, p.host_data)
    <2>1. CASE pf = "az-snp"
      BY <1>7, <1>8, <2>1, Pcr8Borne DEF InitDataBorne, Azure
    <2>2. CASE pf # "az-snp"
      <3>1. Bears(report.host_data.v, p.host_data)
        BY <1>6, <1>7, <2>2, PaddedBorne
      <3>2. pf \notin Azure
        BY <1>1, <2>2 DEF Azure, SnpPlatforms
      <3> QED
        BY <3>1, <3>2 DEF InitDataBorne
    <2> QED
      BY <2>1, <2>2
  <1>11. Asked(p.launch_digest) => report.measurement \in p.launch_digest[1]
    BY <1>5, <1>7, AllowedBorne
  <1>12. Asked(p.min_tcb) => \A tcb \in EveryTcb(report) : min_tcb_met(tcb, p.min_tcb[1])
    BY <1>5, <1>7 DEF MinTcbMet, Outcome
  <1>13. RegistersHold(p)
    BY <1>6 DEF RegistersHold
  <1>14. (report.debug => p.allow_debug) /\ ~report.migrate_ma /\ report.vmpl <= p.max_vmpl
    BY <1>5, <1>7
  <1>15. SnpRulesHold(p)
    <2>1. EveryTcb(report) = {report.reported, report.committed, report.launch}
      BY DEF EveryTcb
    <2> QED
      BY <1>4, <1>10, <1>11, <1>12, <1>13, <1>14, <2>1 DEF SnpRulesHold, min_tcb_met
  <1> QED
    BY <1>4, <1>9, <1>15

LEMMA TdxRulesBorne ==
    ASSUME IInv, Passing, pf \in TdxPlatforms
    PROVE  ReportDataBorne(request.policy[1]) /\ TdxRulesHold(request.policy[1])
  <1> DEFINE p == request.policy[1]
             c == Gathered(pf, ev, found, now)
             tee == Result(pf, ev, p, found, now).tee
             q == Quote(pf, ev)
             body == ev.quote.body
  <1>1. /\ TdxPassed(tee)
        /\ LastAnswer.verdict.result[1].tee = tee
    BY PassingIs
  <1>2. /\ pf = "az-tdx" => tee = AzTdxResult(ev, p, c)
        /\ pf # "az-tdx" => tee = TdxResult(q, p, c)
    BY TeeIs DEF TdxPlatforms
  <1>3. /\ q.body = body
        /\ pf = "az-tdx" => q = ev.quote
        /\ ReportData = body.report_data
        /\ pf \notin SnpPlatforms
    BY SameQuote DEF Quote, QuoteParts, ReportData, SnpPlatforms, TdxPlatforms
  <1>4. request.policy[1] = p /\ ev.quote.body = body
    OBVIOUS
  <1> HIDE DEF p, c, tee, q, body
  <1>5. /\ tee.mrtd_match = match_any(body.mrtd, p.mrtd)
        /\ \A i \in 1..4 : tee.rtmr_match[i] = match_any(body.rtmr[i], p.rtmr[i])
        /\ tee.debug = body.debug /\ tee.allow_debug = p.allow_debug
        /\ tee.tcb_status = TdStatus(q, c)
        /\ tee.tcb_status_accepted = Accepts(q, p, c)
        /\ pf = "az-tdx" => /\ tee.report_data_match = NonceMatch(ev, p.report_data)
                            /\ tee.init_data_match = InitDataMatch(ev, p.init_data)
        /\ pf # "az-tdx" => /\ tee.report_data_match = match_padded(body.report_data, p.report_data)
                            /\ tee.init_data_match = match_padded(body.mr_config_id, p.init_data)
    <2>1. CASE pf = "az-tdx"
      <3>1. tee = AzTdxResult(ev, p, c) /\ ev.quote = q
        BY <1>2, <1>3, <2>1
      <3> QED
        BY <1>3, <2>1, <3>1, AzTdxResultIs
    <2>2. CASE pf # "az-tdx"
      <3>1. tee = TdxResult(q, p, c)
        BY <1>2, <2>2
      <3> QED
        BY <1>3, <2>2, <3>1, TdxResultIs
    <2> QED
      BY <2>1, <2>2
  <1>6. /\ tee.report_data_match # "mismatch" /\ tee.init_data_match # "mismatch"
        /\ tee.mrtd_match # "mismatch" /\ tee.tcb_status_accepted # "mismatch"
        /\ \A i \in 1..4 : tee.rtmr_match[i] # "mismatch"
        /\ tee.debug => tee.allow_debug
    BY <1>1, TdxPassedMeans
  <1>7. pf = "az-tdx" <=> pf \in Azure
    BY PlatformsAre, <1>3 DEF Azure, SnpPlatforms
  <1>8. ReportDataBorne(p)
    <2>1. CASE pf = "az-tdx"
      BY <1>5, <1>6, <1>7, <2>1, NonceBorne DEF ReportDataBorne
    <2>2. CASE pf # "az-tdx"
      <3>1. Bears(body.report_data.v, p.report_data)
        BY <1>5, <1>6, <2>2, PaddedBorne
      <3> QED
        BY <1>3, <1>7, <2>2, <3>1 DEF ReportDataBorne
    <2> QED
      BY <2>1, <2>2
  <1>9. InitDataBorne(body.mr_config_id, p.init_data)
    <2>1. CASE pf = "az-tdx"
      BY <1>5, <1>6, <1>7, <2>1, Pcr8Borne DEF InitDataBorne
    <2>2. CASE pf # "az-tdx"
      <3>1. Bears(body.mr_config_id.v, p.init_data)
        BY <1>5, <1>6, <2>2, PaddedBorne
      <3> QED
        BY <1>7, <2>2, <3>1 DEF InitDataBorne
    <2> QED
      BY <2>1, <2>2
  <1>10. Asked(p.mrtd) => body.mrtd \in p.mrtd[1]
    BY <1>5, <1>6, AllowedBorne
  <1>11. \A i \in 1..4 : Asked(p.rtmr[i]) => body.rtmr[i] \in p.rtmr[i][1]
    BY <1>5, <1>6, AllowedBorne
  <1>12. tee.tcb_status \in p.accepted
    BY <1>5, <1>6 DEF Accepts, Outcome
  <1>13. body.debug => p.allow_debug
    BY <1>5, <1>6
  <1>14. TdxRulesHold(p)
    BY <1>1, <1>4, <1>9, <1>10, <1>11, <1>12, <1>13 DEF TdxRulesHold
  <1> QED
    BY <1>4, <1>8, <1>14

\* A verdict's pieces are those found, each verified.
LEMMA EndorsementBorne ==
    ASSUME IInv, Passing
    PROVE  EndorsementHolds
  <1> SUFFICES ASSUME pf \in GcpPlatforms
               PROVE  EndorsementHolds
    BY DEF EndorsementHolds
  <1> DEFINE id == EndorsementOf(pf, ev)
             doc == found[id].doc
             e == doc[1]
  <1>1. /\ DOMAIN found = Wanted(pf, ev, now)
        /\ Result(pf, ev, request.policy[1], found, now).endorsement_match # "mismatch"
    BY PassingIs DEF WentWell
  <1>2. endorsement_match(pf, ev, found) # "mismatch"
    BY <1>1 DEF Result
  <1>3. /\ Asked(doc)
        /\ IF pf = "gcp-tdx" THEN endorses_tdx(e, ev.quote.body.mrtd)
           ELSE endorses_snp(e, ev.report.measurement, ev.report.policy)
    BY <1>2 DEF endorsement_match, Outcome
  <1>4. Of("gce-endorsement") = {id}
    BY <1>1, <1>3, TheEndorsement
  <1>5. The("gce-endorsement") = e
    <2>1. (CHOOSE x \in {id} : TRUE) = id
      OBVIOUS
    <2> QED
      BY <1>4, <2>1 DEF The, Doc
  <1> HIDE DEF e, id, doc
  <1>6. CASE pf = "gcp-tdx"
    BY <1>3, <1>4, <1>5, <1>6 DEF EndorsementHolds, endorses_tdx
  <1>7. CASE pf # "gcp-tdx"
    <2>1. /\ ev.report.measurement \in e.snp[1].measurements \cup ({e.snp[1].svsm} \ {""})
          /\ ev.report.policy.grants \subseteq e.snp[1].policy.grants
          /\ e.snp[1].policy.restrictions \subseteq ev.report.policy.restrictions
      BY <1>3, <1>7 DEF endorses_snp, SnpEndorses, check_snp_policy
    <2> QED
      BY <1>4, <1>5, <1>7, <2>1 DEF EndorsementHolds
  <1> QED
    BY <1>6, <1>7

(* No verdict passes with a rule of the params that the evidence, its      *)
(* endorsement or its collateral does not bear out, on any platform        *)
(* (platform.rs:257-376).                                                  *)
THEOREM NoRuleForgotten == Spec => []NoRuleLeftOut
  <1>1. ASSUME IInv, Passing
        PROVE  LET p == request.policy[1]
               IN  /\ ReportDataBorne(p)
                   /\ PinsBorne(p)
                   /\ IF pf \in TdxPlatforms THEN TdxRulesHold(p) ELSE SnpRulesHold(p)
                   /\ EndorsementHolds
                   /\ \A id \in Used : Doc(id).acceptable
    <2> DEFINE p == request.policy[1]
    <2>1. ReportDataBorne(p) /\ IF pf \in TdxPlatforms THEN TdxRulesHold(p) ELSE SnpRulesHold(p)
      BY <1>1, TdxRulesBorne, SnpRulesBorne
    <2>2. PinsBorne(p)
      <3> SUFFICES ASSUME pf \in Azure PROVE PinsBorne(p)
        BY DEF PinsBorne
      <3>1. Result(pf, ev, p, found, now).pcrs_match = PcrsMatch(ev, p.pcrs)
        BY DEF Result, Azure
      <3>2. PcrsMatch(ev, p.pcrs) # "mismatch"
        BY <1>1, <3>1, PassingIs
      <3> HIDE DEF p
      <3> QED
        BY <3>2, PcrsBorne DEF PinsBorne
    <2>3. \A id \in Used : Doc(id).acceptable
      BY <1>1, PassingIs DEF AllAcceptable, Used, Doc
    <2> QED
      BY <1>1, <2>1, <2>2, <2>3, EndorsementBorne
  <1>2. IInv => NoRuleLeftOut
    BY <1>1 DEF NoRuleLeftOut
  <1> QED
    BY <1>2, Invariant, PTL

-------------------------------------------------------------------------------
(* The pieces a verdict was reached with. *)

LEMMA NoErrorLeft ==
    ASSUME NEW errors, DOMAIN errors \in SUBSET Nat, FirstError(errors) = Ok
    PROVE  \A i \in DOMAIN errors : errors[i] = Ok
  <1> DEFINE failed == {i \in DOMAIN errors : errors[i] # Ok}
  <1>1. SUFFICES ASSUME failed # {} PROVE FALSE
    OBVIOUS
  <1>2. FirstOf(failed) \in failed
    <2>1. failed \in SUBSET Nat
      OBVIOUS
    <2> HIDE DEF failed
    <2> QED
      BY <1>1, <2>1, FirstIsLeast
  <1>3. FirstError(errors) = errors[FirstOf(failed)]
    BY <1>1 DEF FirstError
  <1> QED
    BY <1>2, <1>3

\* No lookup of the pieces a platform names has failed.
LEMMA NoneFailed ==
    ASSUME NEW p, WentWell(p)
    PROVE  LET ids == MainSet(pf, ev, now)
           IN  /\ SetError(pf, ev) = Ok
               /\ \A i \in DOMAIN ids : found[ids[i]].error = Ok
  <1> DEFINE ids == MainSet(pf, ev, now)
             errors == [i \in DOMAIN ids |-> found[ids[i]].error]
  <1>1. SetError(pf, ev) = Ok /\ MainSetError(pf, ev, found, now) = Ok
    BY AndOk DEF WentWell, GatherError
  <1>2. DOMAIN ids \in SUBSET Nat
    BY <1>1 DEF MainSet, TdxCollateralSet, AzSnpCollateralSet, SnpCollateralSet
  <1>3. CASE pf \in SnpPlatforms \ {"az-snp"} /\ Len(ids) = 2
    <2>1. found[ids[1]].error = Ok /\ found[ids[2]].error = Ok
      BY <1>1, <1>3, AndOk DEF MainSetError
    <2>2. DOMAIN ids \subseteq {1, 2}
      <3>1. pf \notin TdxPlatforms
        BY <1>3 DEF SnpPlatforms, TdxPlatforms
      <3>2. (\E x : ids = <<x>>) \/ (\E x, y : ids = <<x, y>>)
        BY <1>1, <3>1, MainSetIs
      <3> QED
        BY <3>2
    <2> QED
      BY <1>1, <2>1, <2>2
  <1>4. CASE ~(pf \in SnpPlatforms \ {"az-snp"} /\ Len(ids) = 2)
    <2>1. FirstError(errors) = Ok
      BY <1>1, <1>4 DEF MainSetError, LookupErrors
    <2>2. DOMAIN errors \in SUBSET Nat /\ \A i \in DOMAIN ids : errors[i] = found[ids[i]].error
      BY <1>2
    <2>3. DOMAIN errors = DOMAIN ids
      OBVIOUS
    <2> HIDE DEF errors
    <2>4. \A i \in DOMAIN errors : errors[i] = Ok
      BY <2>1, <2>2, NoErrorLeft
    <2> QED
      BY <1>1, <2>2, <2>3, <2>4
  <1> QED
    BY <1>3, <1>4

\* A piece whose lookup did not fail verifies and is well-formed.
LEMMA PieceVerifies ==
    ASSUME IInv, NEW id \in DOMAIN found, found[id].error = Ok, id[1] # "gce-endorsement"
    PROVE  id \in Used /\ Verifies(id, Doc(id)) /\ WellFormed(id, Doc(id))
  <1>1. LookedUp(id, found[id])
    BY DEF IInv, FoundInv
  <1> QED
    BY <1>1 DEF LookedUp, Used, Doc

\* Each piece of a platform was found, verifies and is well-formed.
LEMMA PiecesVerify ==
    ASSUME IInv, NEW p, WentWell(p), NEW i \in DOMAIN MainSet(pf, ev, now)
    PROVE  LET id == MainSet(pf, ev, now)[i]
               doc == Gathered(pf, ev, found, now)[i]
           IN  id \in Used /\ doc = Doc(id) /\ Verifies(id, doc) /\ WellFormed(id, doc)
  <1>1. PICK id : id = MainSet(pf, ev, now)[i]
    OBVIOUS
  <1>2. Gathered(pf, ev, found, now)[i] = Doc(id)
    BY <1>1 DEF Gathered, Doc
  <1>3. found[id].error = Ok /\ id[1] # "gce-endorsement"
    <2>1. found[id].error = Ok
      BY <1>1, NoneFailed
    <2>2. SetError(pf, ev) = Ok
      BY NoneFailed
    <2> QED
      BY <1>1, <2>1, <2>2, MainSetIs DEF MainKinds
  <1>4. id \in DOMAIN found
    <2>1. id \in ToSet(MainSet(pf, ev, now))
      BY <1>1 DEF ToSet
    <2> QED
      BY <2>1 DEF Wanted, WentWell
  <1>5. id \in Used /\ Verifies(id, Doc(id)) /\ WellFormed(id, Doc(id))
    BY <1>3, <1>4, PieceVerifies
  <1> QED
    BY <1>1, <1>2, <1>5

\* Used pieces are those of the platform, and Google's endorsement.
LEMMA UsedAre ==
    ASSUME IInv, NEW p, WentWell(p), NEW id \in Used
    PROVE  \/ \E i \in DOMAIN MainSet(pf, ev, now) : id = MainSet(pf, ev, now)[i]
           \/ pf \in GcpPlatforms /\ id = EndorsementOf(pf, ev)
  BY DEF Used, WentWell, Wanted, ToSet

(* The four pieces of a TD, each the only one of its kind.                 *)
LEMMA TdxPieces ==
    ASSUME IInv, NEW p, WentWell(p), pf \in TdxPlatforms
    PROVE  LET q == Quote(pf, ev)
               c == Gathered(pf, ev, found, now)
           IN  /\ Of("tcb-info") = {TcbInfo(PckChain(q).fmspc)} /\ The("tcb-info") = c[1]
               /\ Of("qe-identity") = {QeIdentity} /\ The("qe-identity") = c[2]
               /\ Of("pck-crl") = {PckCrl(PckChain(q).ca)} /\ The("pck-crl") = c[3]
               /\ Of("root-crl") = {RootCrl} /\ The("root-crl") = c[4]
               /\ Of("amd-crl") = {} /\ Of("vcek") = {}
               /\ TcbInfo_verify(c[1], PckChain(q).fmspc)
               /\ QeIdentity_verify(c[2])
               /\ PckCrl_verify(c[3], PckChain(q).ca)
               /\ RootCrl_verify(c[4])
               /\ WellFormed(TcbInfo(PckChain(q).fmspc), c[1]) /\ WellFormed(QeIdentity, c[2])
  <1> DEFINE q == Quote(pf, ev)
             c == Gathered(pf, ev, found, now)
             ids == MainSet(pf, ev, now)
             one == TcbInfo(PckChain(q).fmspc)
             two == QeIdentity
             three == PckCrl(PckChain(q).ca)
             four == RootCrl
  <1>1. ids = <<one, two, three, four>>
    BY NoneFailed, MainSetIs
  <1>2. /\ one[1] = "tcb-info" /\ one[2] = PckChain(q).fmspc
        /\ two[1] = "qe-identity"
        /\ three[1] = "pck-crl" /\ three[2] = PckChain(q).ca
        /\ four[1] = "root-crl"
        /\ EndorsementOf(pf, ev)[1] = "gce-endorsement"
    BY DEF TcbInfo, QeIdentity, PckCrl, RootCrl, EndorsementOf, Endorsement
  <1>3. \A i \in DOMAIN ids : /\ ids[i] \in Used /\ c[i] = Doc(ids[i])
                              /\ Verifies(ids[i], c[i]) /\ WellFormed(ids[i], c[i])
    BY PiecesVerify
  <1>4. /\ 1 \in DOMAIN ids /\ 2 \in DOMAIN ids /\ 3 \in DOMAIN ids /\ 4 \in DOMAIN ids
        /\ ids[1] = one /\ ids[2] = two /\ ids[3] = three /\ ids[4] = four
        /\ \A i \in DOMAIN ids : ids[i] \in {one, two, three, four}
    <2> HIDE DEF one, two, three, four, ids
    <2>1. DOMAIN ids = 1..4
      BY <1>1
    <2>2. 1..4 = {1, 2, 3, 4}
      OBVIOUS
    <2> QED
      BY <1>1, <2>1, <2>2
  <1>5. \A id \in Used : id \in {one, two, three, four, EndorsementOf(pf, ev)}
    <2> HIDE DEF one, two, three, four
    <2> QED
      BY <1>4, UsedAre
  <1> HIDE DEF one, two, three, four, ids, c, q
  <1>6. /\ Of("tcb-info") = {one} /\ Of("qe-identity") = {two}
        /\ Of("pck-crl") = {three} /\ Of("root-crl") = {four}
        /\ Of("amd-crl") = {} /\ Of("vcek") = {}
    BY <1>2, <1>3, <1>4, <1>5 DEF Of
  <1>7. /\ The("tcb-info") = Doc(one) /\ The("qe-identity") = Doc(two)
        /\ The("pck-crl") = Doc(three) /\ The("root-crl") = Doc(four)
    <2>1. \A x : (CHOOSE y \in {x} : TRUE) = x
      OBVIOUS
    <2> QED
      BY <1>6, <2>1 DEF The
  <1>8. /\ c[1] = Doc(one) /\ Verifies(one, c[1]) /\ WellFormed(one, c[1])
        /\ c[2] = Doc(two) /\ Verifies(two, c[2]) /\ WellFormed(two, c[2])
        /\ c[3] = Doc(three) /\ Verifies(three, c[3])
        /\ c[4] = Doc(four) /\ Verifies(four, c[4])
    BY <1>3, <1>4
  <1>9. /\ TcbInfo_verify(c[1], PckChain(q).fmspc) /\ QeIdentity_verify(c[2])
        /\ PckCrl_verify(c[3], PckChain(q).ca) /\ RootCrl_verify(c[4])
    BY <1>2, <1>8 DEF Verifies, IntelVerifies, AmdVerifies
  <1>10. /\ one = TcbInfo(PckChain(q).fmspc) /\ two = QeIdentity
         /\ three = PckCrl(PckChain(q).ca) /\ four = RootCrl
    BY DEF one, two, three, four
  <1> QED
    BY <1>6, <1>7, <1>8, <1>9, <1>10 DEF q, c

-------------------------------------------------------------------------------
(* How a verdict grades a TD. *)

\* What the checks of a quote that need no collateral have shown.
LEMMA GenuineQuoteMeans ==
    ASSUME NEW q, NEW t, genuine_quote(q, t) = Ok
    PROVE  /\ SignedBy(q.sig, q.attKey)
           /\ verify_pck_cert_chain(q.chain, t)
           /\ SignedBy(q.qeSig, q.chain[1].key)
           /\ verify_qe_report_binding(q)
  <1>1. verify_quote_signature(q) = Ok /\ verify_dcap_chain(q, t) = Ok
    BY DEF genuine_quote, &&
  <1>2. SignedBy(q.sig, q.attKey)
    BY <1>1 DEF verify_quote_signature, &&, Check, Ok
  <1>3. /\ verify_pck_cert_chain(q.chain, t)
        /\ SignedBy(q.qeSig, q.chain[1].key)
        /\ verify_qe_report_binding(q)
    BY <1>1 DEF verify_dcap_chain, &&, Check, Ok
  <1> QED
    BY <1>2, <1>3

LEMMA TdChecksHold ==
    ASSUME IInv, NEW p, WentWell(p), pf \in TdxPlatforms
    PROVE  LET q == Quote(pf, ev)
               c == Gathered(pf, ev, found, now)
           IN  /\ genuine_quote(q, now) = Ok
               /\ CollateralError(q, c) = Ok
  <1>1. CASE pf = "az-tdx"
    <2>1. AzTdxEvidenceError(ev, TdxDefault, now) = Ok
      BY <1>1 DEF WentWell, Admitted, GenuineError
    <2>2. AzTdxError(ev, p, Gathered(pf, ev, found, now), now) = Ok
      BY <1>1 DEF WentWell, VerifyError
    <2>3. Quote(pf, ev) = ev.quote
      BY <1>1 DEF Quote
    <2> QED
      BY <2>1, <2>2, <2>3 DEF AzTdxEvidenceError, AzTdxError, &&
  <1>2. CASE pf # "az-tdx"
    <2>1. TdxError(Quote(pf, ev), p, Gathered(pf, ev, found, now), now) = Ok
      BY <1>2 DEF WentWell, VerifyError
    <2> QED
      BY <2>1 DEF TdxError, &&
  <1> QED
    BY <1>1, <1>2

(* The combined status is as bad as the worse of the two, and a current    *)
(* one is the platform's.                                                  *)
LEMMA CombinedIsWorse ==
    ASSUME NEW platform \in TdxTcbStatus, NEW qe \in TdxTcbStatus
    PROVE  LET status == combine_tcb_status(platform, qe)
           IN  /\ Severity(status) = Worse(platform, qe)
               /\ status \in Current => status = platform
  BY DEF combine_tcb_status, Severity, Worse, TdxTcbStatus, PublishedStatuses, Fatal, Aged, Current

LEMMA ParsedStatus ==
    ASSUME NEW s, parse_tcb_status(s) # Ungraded
    PROVE  parse_tcb_status(s) = s /\ s \in TdxTcbStatus
  BY DEF parse_tcb_status, TdxTcbStatus

\* The status of the highest level an enclave meets.
HighestMet(levels, isvsvn) ==
    LET met == {i \in DOMAIN levels : levels[i].isvsvn <= isvsvn}
    IN  IF met = {} THEN "NoMatchingLevel"
        ELSE levels[CHOOSE i \in met : \A j \in met : levels[j].isvsvn <= levels[i].isvsvn].status

\* The enclave's grade is that of the highest level it meets.
LEMMA EnclaveGrade ==
    ASSUME NEW qe, NEW identity, identity.levels \in Seq(QeLevel), qe.isvsvn \in Nat,
           \A i, j \in DOMAIN identity.levels :
               i < j => identity.levels[j].isvsvn < identity.levels[i].isvsvn,
           check_qe_report(qe, identity) # Ungraded
    PROVE  LET grade == HighestMet(identity.levels, qe.isvsvn)
           IN  check_qe_report(qe, identity) = grade /\ grade \in TdxTcbStatus
  <1> DEFINE levels == identity.levels
             met == {i \in DOMAIN levels : levels[i].isvsvn <= qe.isvsvn}
             Highest(i) == \A j \in met : levels[j].isvsvn <= levels[i].isvsvn
             other == {i \in DOMAIN levels : qe.isvsvn >= levels[i].isvsvn}
  <1>1. \A i \in DOMAIN levels : levels[i].isvsvn \in Nat /\ i \in Nat
    <2> SUFFICES ASSUME NEW i \in DOMAIN identity.levels
                 PROVE  identity.levels[i].isvsvn \in Nat /\ i \in Nat
      OBVIOUS
    <2>1. identity.levels[i] \in QeLevel /\ i \in Nat
      OBVIOUS
    <2> QED
      BY <2>1 DEF QeLevel
  <1>2. other = met
    BY <1>1
  <1>3. check_qe_report(qe, identity) =
            IF met = {} THEN "NoMatchingLevel" ELSE parse_tcb_status(levels[FirstOf(met)].status)
    BY <1>2 DEF check_qe_report
  <1>4. CASE met = {}
    BY <1>3, <1>4 DEF TdxTcbStatus, HighestMet
  <1>5. CASE met # {}
    <2>1. met \in SUBSET Nat
      BY <1>1
    <2>2. FirstOf(met) \in met /\ \A j \in met : FirstOf(met) <= j
      <3> HIDE DEF met
      <3> QED
        BY <1>5, <2>1, FirstIsLeast
    <2>3. \A i, j \in met : i < j => levels[j].isvsvn < levels[i].isvsvn
      OBVIOUS
    <2>4. \A i \in met : i \in Nat /\ levels[i].isvsvn \in Nat
      BY <1>1
    <2>5. PICK h \in met : h = CHOOSE i \in met : Highest(i)
      <3>1. Highest(FirstOf(met))
        <4> HIDE DEF levels, met
        <4> QED
          BY <2>2, <2>3, <2>4
      <3> QED
        BY <2>2, <3>1
    <2>6. Highest(h)
      <3>1. Highest(FirstOf(met))
        <4> HIDE DEF levels, met
        <4> QED
          BY <2>2, <2>3, <2>4
      <3> QED
        BY <2>2, <2>5, <3>1
    <2>7. h = FirstOf(met)
      <3> HIDE DEF levels, met
      <3> QED
        BY <2>2, <2>3, <2>4, <2>5, <2>6
    <2>8. check_qe_report(qe, identity) = parse_tcb_status(levels[h].status)
      BY <1>3, <1>5, <2>7
    <2>9. levels[h].status \in TdxTcbStatus /\ check_qe_report(qe, identity) = levels[h].status
      BY <2>8, ParsedStatus
    <2> QED
      BY <1>5, <2>5, <2>9 DEF HighestMet
  <1> QED
    BY <1>4, <1>5

(* A TD's status is the worse of two: that of the first level its TCB      *)
(* meets in all parts at once, and that of the highest level of the        *)
(* Quoting Enclave.  With TDX SVNs that are all zero the first of them is  *)
(* that of the first level the SGX part meets, whatever that level asks of *)
(* the TDX part: a TD may then be graded better than by all its parts.     *)
THEOREM GradeIsEarned == Spec => []GradedByMetLevel
  <1>1. ASSUME IInv
        PROVE  GradedByMetLevel
    <2> DEFINE p == request.policy[1]
               q == Quote(pf, ev)
               c == Gathered(pf, ev, found, now)
               levels == The("tcb-info").levels
               pck == PckChain(ev.quote)
               svn == ev.quote.body.svn
               grade == IF AllZero(svn) THEN SgxGrade(levels, pck)
                        ELSE Grade(levels, pck, svn)
               status == LastAnswer.verdict.result[1].tee.tcb_status
    <2> SUFFICES ASSUME Judged, LastAnswer.verdict.error = Ok, pf \in TdxPlatforms,
                        Descending(levels), QeDescending
                 PROVE  /\ Severity(status) = Worse(grade, QeGrade)
                        /\ status \in Current => status = grade
      BY DEF GradedByMetLevel
    <2>1. WentWell(p) /\ LastAnswer.verdict.result[1] = Result(pf, ev, p, found, now)
      BY <1>1, VerdictIs
    <2>2. /\ q.body = ev.quote.body /\ q.qe = ev.quote.qe /\ q.chain = ev.quote.chain
          /\ PckChain(q) = pck
      <3>1. q.body = ev.quote.body /\ q.qe = ev.quote.qe /\ q.chain = ev.quote.chain
        BY <1>1, SameQuote DEF QuoteParts
      <3> QED
        BY <3>1 DEF PckChain
    <2>3. status = TdStatus(q, c)
      <3>1. Result(pf, ev, p, found, now).tee.tcb_status = TdStatus(q, c)
        <4>1. CASE pf = "az-tdx"
          BY <4>1, TeeIs, AzTdxResultIs DEF Quote
        <4>2. CASE pf # "az-tdx"
          BY <4>2, TeeIs, TdxResultIs DEF TdxPlatforms
        <4> QED
          BY <4>1, <4>2
      <3> QED
        BY <2>1, <3>1
    <2>4. /\ The("tcb-info") = c[1] /\ The("qe-identity") = c[2]
          /\ WellFormed(TcbInfo(PckChain(q).fmspc), c[1]) /\ WellFormed(QeIdentity, c[2])
      BY <1>1, <2>1, TdxPieces
    <2>5. genuine_quote(q, now) = Ok /\ CollateralError(q, c) = Ok
      BY <1>1, <2>1, TdChecksHold
    <2>6. IsPck(pck) /\ svn \in Seq(Nat) /\ ev.quote.qe.isvsvn \in Nat
      <3>1. Len(ev.quote.chain) >= 3
        BY <2>2, <2>5, GenuineQuoteMeans DEF verify_pck_cert_chain
      <3>2. ev.quote.chain # << >>
        BY <3>1
      <3>3. WellFormedQuote(ev.quote)
        BY <1>1, PlatformsAre
      <3> QED
        BY <3>2, <3>3 DEF WellFormedQuote, IsPck, PckChain
    <2>7. levels \in Seq(TcbLevel) /\ c[2].levels \in Seq(QeLevel)
      BY <2>4 DEF WellFormed, TcbInfo, QeIdentity
    <2>8. TcbStatus(q, c) = grade /\ grade # Ungraded
      <3>1. TcbStatus(q, c) = evaluate_tcb_status(levels, pck, svn)
        BY <2>2, <2>4 DEF TcbStatus
      <3>2. TcbStatus(q, c) # Ungraded
        BY <2>5 DEF CollateralError, &&, Check, Ok, Ungraded
      <3> HIDE DEF levels, pck, svn
      <3>3. CASE AllZero(svn)
        <4>1. evaluate_tcb_status(levels, pck, svn) = SgxGrade(levels, pck)
          BY <3>3 DEF evaluate_tcb_status, SgxGrade
        <4> QED
          BY <3>1, <3>2, <3>3, <4>1 DEF grade
      <3>4. CASE ~AllZero(svn)
        <4>1. evaluate_tcb_status(levels, pck, svn) = Grade(levels, pck, svn)
          BY <2>6, <2>7, <3>4, GradedByFirstMet
        <4> QED
          BY <3>1, <3>2, <3>4, <4>1 DEF grade
      <3> QED
        BY <3>3, <3>4
    <2>9. grade \in TdxTcbStatus
      <3> HIDE DEF levels, pck, svn
      <3> QED
        BY <2>8, ParsedStatus DEF Grade, SgxGrade, TdxTcbStatus
    <2>10. QeStatus(q, c) = QeGrade /\ QeGrade \in TdxTcbStatus
      <3>1. QeStatus(q, c) = check_qe_report(ev.quote.qe, c[2])
        BY <2>2 DEF QeStatus
      <3>2. QeStatus(q, c) # Ungraded
        BY <2>5 DEF CollateralError, &&, Check, Ok, Ungraded
      <3>3. QeLevels = c[2].levels
        BY <2>4 DEF QeLevels
      <3>4. \A i, j \in DOMAIN c[2].levels :
                i < j => c[2].levels[j].isvsvn < c[2].levels[i].isvsvn
        BY <3>3 DEF QeDescending
      <3>5. QeGrade = HighestMet(QeLevels, ev.quote.qe.isvsvn)
        BY DEF QeGrade, QeMet, HighestMet
      <3> HIDE DEF c
      <3>6. LET met == HighestMet(c[2].levels, ev.quote.qe.isvsvn)
            IN  check_qe_report(ev.quote.qe, c[2]) = met /\ met \in TdxTcbStatus
        BY <2>6, <2>7, <3>1, <3>2, <3>4, EnclaveGrade
      <3> QED
        BY <3>1, <3>3, <3>5, <3>6
    <2> HIDE DEF q, c, levels, pck, svn, grade, status
    <2> QED
      BY <2>3, <2>8, <2>9, <2>10, CombinedIsWorse DEF TdStatus
  <1> QED
    BY <1>1, Invariant, PTL

-------------------------------------------------------------------------------
(* Who vouches for what: what is reached from the pinned roots, one signed *)
(* statement after the other.                                              *)

Hop1(edges) == Follow(edges, Pinned)
Hop2(edges) == Follow(edges, Hop1(edges))
Hop3(edges) == Follow(edges, Hop2(edges))
Hop4(edges) == Follow(edges, Hop3(edges))
Hop5(edges) == Follow(edges, Hop4(edges))
Hop6(edges) == Follow(edges, Hop5(edges))
Hop7(edges) == Follow(edges, Hop6(edges))

LEMMA Followed ==
    ASSUME NEW edges, NEW reached
    PROVE  /\ reached \subseteq Follow(edges, reached)
           /\ \A x \in reached : \A y : <<x, y>> \in edges => y \in Follow(edges, reached)
  <1> SUFFICES ASSUME NEW x \in reached, NEW y, <<x, y>> \in edges
               PROVE  y \in Follow(edges, reached)
    BY DEF Follow
  <1>1. <<x, y>>[1] = x /\ <<x, y>>[2] = y
    OBVIOUS
  <1> QED
    BY <1>1 DEF Follow

\* Whatever the statements, each hop keeps what the one before has reached.
LEMMA HopsReach ==
    ASSUME NEW edges
    PROVE  /\ Pinned \subseteq Hop1(edges) /\ Hop1(edges) \subseteq Hop2(edges)
           /\ Hop2(edges) \subseteq Hop3(edges) /\ Hop3(edges) \subseteq Hop4(edges)
           /\ Hop4(edges) \subseteq Hop5(edges) /\ Hop5(edges) \subseteq Hop6(edges)
           /\ Hop6(edges) \subseteq Hop7(edges) /\ Hop7(edges) \subseteq Reachable(edges)
           /\ \A x, y : <<x, y>> \in edges =>
                  /\ x \in Pinned => y \in Hop1(edges)
                  /\ x \in Hop1(edges) => y \in Hop2(edges)
                  /\ x \in Hop2(edges) => y \in Hop3(edges)
                  /\ x \in Hop3(edges) => y \in Hop4(edges)
                  /\ x \in Hop4(edges) => y \in Hop5(edges)
                  /\ x \in Hop5(edges) => y \in Hop6(edges)
                  /\ x \in Hop6(edges) => y \in Hop7(edges)
                  /\ x \in Hop7(edges) => y \in Reachable(edges)
  <1>1. Reachable(edges) = Follow(edges, Hop7(edges))
    BY DEF Reachable, Hop1, Hop2, Hop3, Hop4, Hop5, Hop6, Hop7
  <1> QED
    BY <1>1, Followed DEF Hop1, Hop2, Hop3, Hop4, Hop5, Hop6, Hop7

LEMMA EdgeOf ==
    ASSUME NEW statement, NEW key, NEW what, SignedBy(statement, key)
    PROVE  <<key, what>> \in Edge(statement.intact, statement.by, what)
  BY DEF SignedBy, Edge

\* A certificate of a chain is one of its statements.
LEMMA ChainEdge ==
    ASSUME NEW chain, NEW i \in DOMAIN chain, NEW key, SignedBy(chain[i], key)
    PROVE  <<key, chain[i].key>> \in ChainVouches(chain)
  <1>1. <<key, chain[i].key>> \in Edge(chain[i].intact, chain[i].by, chain[i].key)
    BY EdgeOf
  <1> QED
    BY <1>1 DEF ChainVouches

\* A genuine quote is vouched for by the SGX root.
LEMMA QuoteVouched ==
    ASSUME NEW q, NEW t, genuine_quote(q, t) = Ok, IsSequence(q.chain),
           NEW edges, QuoteVouches(q) \subseteq edges
    PROVE  "TD report" \in Hop5(edges)
  <1>1. /\ SignedBy(q.sig, q.attKey)
        /\ verify_pck_cert_chain(q.chain, t)
        /\ SignedBy(q.qeSig, q.chain[1].key)
        /\ verify_qe_report_binding(q)
    BY GenuineQuoteMeans
  <1>2. 1 \in DOMAIN q.chain /\ 2 \in DOMAIN q.chain
    <2>1. Len(q.chain) >= 3 /\ Len(q.chain) \in Nat /\ DOMAIN q.chain = 1..Len(q.chain)
      BY <1>1, SequenceOfMembers DEF verify_pck_cert_chain, IsSequence
    <2> QED
      BY <2>1
  <1>3. <<IntelRoot, q.chain[2].key>> \in edges /\ <<q.chain[2].key, q.chain[1].key>> \in edges
    BY <1>1, <1>2, ChainEdge DEF verify_pck_cert_chain, QuoteVouches
  <1>4. <<q.chain[1].key, "QE report">> \in edges
    BY <1>1, EdgeOf DEF QuoteVouches
  <1>5. <<"QE report", q.attKey>> \in edges
    <2>1. q.qe.hash[1] = q.attKey /\ q.qe.tailZero
      BY <1>1 DEF verify_qe_report_binding
    <2>2. <<"QE report", q.attKey>> \in Edge(q.qe.tailZero, "QE report", q.qe.hash[1])
      BY <2>1 DEF Edge
    <2> QED
      BY <2>2 DEF QuoteVouches
  <1>6. <<q.attKey, "TD report">> \in edges
    BY <1>1, EdgeOf DEF QuoteVouches
  <1>7. IntelRoot \in Pinned
    BY DEF Pinned
  <1>8. q.chain[2].key \in Hop1(edges)
    BY <1>3, <1>7, HopsReach
  <1>9. q.chain[1].key \in Hop2(edges)
    BY <1>3, <1>8, HopsReach
  <1>10. "QE report" \in Hop3(edges)
    BY <1>4, <1>9, HopsReach
  <1>11. q.attKey \in Hop4(edges)
    BY <1>5, <1>10, HopsReach
  <1> QED
    BY <1>6, <1>11, HopsReach

\* A report signed by a key AMD endorses is vouched for by an ARK.
LEMMA ReportVouched ==
    ASSUME NEW vek, NEW report, NEW gen \in Generations, NEW t,
           verify_vek_endorsement(report, vek, gen, t) = Ok, SignedBy(report.sig, vek.key),
           NEW edges, VekVouches(vek, report) \subseteq edges
    PROVE  "SNP report" \in Hop3(edges) /\ vek.by = vek_issuer(vek, gen)
  <1>1. SignedBy(vek, vek_issuer(vek, gen))
    BY DEF verify_vek_endorsement, &&, Check, Ok, verify_cert_chain
  <1>2. <<Ark[gen], vek_issuer(vek, gen)>> \in edges
    BY DEF VekVouches, vek_issuer
  <1>3. <<vek_issuer(vek, gen), vek.key>> \in edges
    BY <1>1 DEF VekVouches, SignedBy
  <1>4. <<vek.key, "SNP report">> \in edges
    BY DEF VekVouches, SignedBy
  <1>5. Ark[gen] \in Pinned
    BY DEF Pinned
  <1> QED
    BY <1>1, <1>2, <1>3, <1>4, <1>5, HopsReach DEF SignedBy

\* The vTPM whose key the TEE report binds is vouched for with it.
LEMMA VtpmVouched ==
    ASSUME NEW tee, NEW report_data, NEW hcl, NEW tpm, NEW edges, tee \in Hop5(edges),
           VtpmVouches(tee, report_data, hcl, tpm) \subseteq edges,
           SignatureError(tpm, hcl) = Ok,
           verify_hcl_var_data_binding(report_data, hcl),
           verify_tpm_pcrs(tpm.msg, tpm.pcrs)
    PROVE  "TPM quote" \in Hop7(edges) /\ "selected PCRs" \in Reachable(edges)
  <1> DEFINE ak == AkOf(hcl)[1]
  <1>1. Asked(AkOf(hcl)) /\ SignedBy(tpm.sig, ak)
    BY DEF SignatureError, &&, Check, Ok
  <1>2. <<tee, ak>> \in edges
    BY <1>1 DEF VtpmVouches, verify_hcl_var_data_binding
  <1>3. <<ak, "TPM quote">> \in edges
    BY <1>1 DEF VtpmVouches, SignedBy
  <1>4. \A i \in tpm.msg.selected :
            Supplied(tpm.pcrs, i) /\ tpm.msg.digest[i] = Pcr(tpm.pcrs, i)
    <2>1. /\ \A i \in tpm.msg.selected : Supplied(tpm.pcrs, i)
          /\ tpm.msg.digest = [i \in tpm.msg.selected |-> Pcr(tpm.pcrs, i)]
      BY DEF verify_tpm_pcrs
    <2> QED
      BY <2>1
  <1>5. <<"TPM quote", "selected PCRs">> \in edges
    BY <1>4 DEF VtpmVouches
  <1> HIDE DEF ak
  <1> QED
    BY <1>2, <1>3, <1>5, HopsReach

\* The generation whose keys have signed a VEK is one of AMD's.
LEMMA MatchedGeneration ==
    ASSUME NEW e, NEW t, GenerationError(e, t) = Ok,
           Asked(e.report.cpuid) => e.report.cpuid = Rule(e.report.cpuid[1])
    PROVE  /\ matched_gen(e, t) \in Generations
           /\ verify_vek_endorsement(e.report, e.vek, matched_gen(e, t), t) = Ok
  <1> DEFINE gens == Candidates(e.report)
  <1>1. /\ DOMAIN gens \in SUBSET Nat
        /\ \A i \in DOMAIN gens : gens[i] \in Generations
        /\ Len(gens) \in DOMAIN gens
    <2>1. CASE KnownGeneration(e.report)
      <3>1. PICK g \in Generations : gens = <<g>>
        BY <2>1 DEF Candidates, KnownGeneration, Rule
      <3>2. <<g>> \in Seq(Generations) /\ Len(<<g>>) = 1
        BY Single
      <3> QED
        BY <3>1, <3>2
    <2>2. CASE ~KnownGeneration(e.report)
      <3>1. gens = <<"Milan", "Genoa", "Turin">>
        BY <2>2 DEF Candidates, Fallback
      <3> QED
        BY <3>1 DEF Generations
    <2> QED
      BY <2>1, <2>2
  <1> HIDE DEF gens
  <1>2. Endorsed(e, t) # {}
    <2>1. SUFFICES ASSUME Endorsed(e, t) = {} PROVE FALSE
      OBVIOUS
    <2>2. verify_vek_endorsement(e.report, e.vek, gens[Len(gens)], t) = Ok
      BY <2>1 DEF GenerationError, Last, gens
    <2> QED
      BY <1>1, <2>1, <2>2 DEF Endorsed, gens
  <1>3. FirstOf(Endorsed(e, t)) \in Endorsed(e, t)
    <2>1. Endorsed(e, t) \in SUBSET Nat
      BY <1>1 DEF Endorsed, gens
    <2> QED
      BY <1>2, <2>1, FirstIsLeast
  <1> QED
    BY <1>1, <1>3 DEF matched_gen, Endorsed, gens

\* What the evidence of an Azure guest has been checked for.
LEMMA AzureChecked ==
    ASSUME IInv, pf \in Azure, GenuineError(pf, ev, now) = Ok
    PROVE  /\ SignatureError(ev.tpm, ev.hcl) = Ok
           /\ verify_hcl_var_data_binding(ReportData, ev.hcl)
           /\ verify_tpm_pcrs(ev.tpm.msg, ev.tpm.pcrs)
           /\ pf = "az-tdx" => genuine_quote(ev.quote, now) = Ok
           /\ pf = "az-snp" =>
                  /\ matched_gen(ev, now) \in Generations
                  /\ verify_vek_endorsement(ev.report, ev.vek, matched_gen(ev, now), now) = Ok
                  /\ SignedBy(ev.report.sig, ev.vek.key)
  <1>1. CASE pf = "az-tdx"
    <2>1. AzTdxEvidenceError(ev, TdxDefault, now) = Ok
      BY <1>1 DEF GenuineError
    <2>2. /\ AzTpm(ev, TdxDefault.report_data) = Ok
          /\ genuine_quote(ev.quote, now) = Ok
          /\ Check(verify_hcl_var_data_binding(ev.quote.body.report_data, ev.hcl),
                   "SignatureVerificationFailed") = Ok
      BY <2>1 DEF AzTdxEvidenceError, &&
    <2>3. ReportData = ev.quote.body.report_data
      BY <1>1 DEF ReportData, TdxPlatforms
    <2> QED
      BY <1>1, <2>2, <2>3 DEF AzTpm, &&, Check, Ok
  <1>2. CASE pf = "az-snp"
    <2>1. AzSnpEvidenceError(ev, SnpDefault, now) = Ok
      BY <1>2 DEF GenuineError, TdxPlatforms
    <2>2. /\ AzTpm(ev, SnpDefault.report_data) = Ok
          /\ Check(verify_hcl_var_data_binding(ev.report.report_data, ev.hcl),
                   "SignatureVerificationFailed") = Ok
          /\ GenerationError(ev, now) = Ok
          /\ Check(SignedBy(ev.report.sig, ev.vek.key), "SignatureVerificationFailed") = Ok
      BY <2>1 DEF AzSnpEvidenceError, &&
    <2>3. ReportData = ev.report.report_data
      BY <1>2 DEF ReportData, TdxPlatforms
    <2>4. /\ matched_gen(ev, now) \in Generations
          /\ verify_vek_endorsement(ev.report, ev.vek, matched_gen(ev, now), now) = Ok
      BY <1>2, <2>2, PlatformsAre, MatchedGeneration DEF SnpPlatforms
    <2> QED
      BY <1>2, <2>2, <2>3, <2>4 DEF AzTpm, &&, Check, Ok
  <1> QED
    BY <1>1, <1>2 DEF Azure

LEMMA ReportChecked ==
    ASSUME NEW report, NEW vek, NEW gen, NEW t, check_report(report, vek, gen, t) = Ok
    PROVE  verify_vek_endorsement(report, vek, gen, t) = Ok /\ SignedBy(report.sig, vek.key)
  BY DEF check_report, &&, Check, Ok

\* A report that is parsed names a generation of AMD's.
LEMMA ParsedReport ==
    ASSUME NEW report, parse_evidence(report) = Ok
    PROVE  Asked(report.cpuid) /\ report.cpuid[1] \in Generations
  BY DEF parse_evidence, &&, Check, Ok

(* Genuine evidence is vouched for by what it carries, unless its VEK has  *)
(* to be fetched.                                                          *)
LEMMA GenuineVouched ==
    ASSUME IInv, GenuineError(pf, ev, now) = Ok, ~NeedsItsVek,
           NEW edges, TeeEdges \subseteq edges, VtpmEdges \subseteq edges
    PROVE  EvidenceNames \subseteq Reachable(edges)
  <1>1. TeeReport \in Hop5(edges)
    <2>1. CASE pf \in TdxPlatforms
      <3>1. genuine_quote(Quote(pf, ev), now) = Ok
        <4>1. CASE pf = "az-tdx"
          BY <4>1, AzureChecked DEF Azure, Quote
        <4>2. CASE pf # "az-tdx"
          BY <2>1, <4>2 DEF GenuineError
        <4> QED
          BY <4>1, <4>2
      <3>2. IsSequence(Quote(pf, ev).chain)
        BY <2>1, SameQuote, PlatformsAre DEF QuoteParts, WellFormedQuote
      <3> QED
        BY <2>1, <3>1, <3>2, QuoteVouched DEF TeeEdges, TeeReport
    <2>2. CASE pf = "az-snp"
      <3>1. VekUsed = ev.vek /\ TeeEdges = VekVouches(ev.vek, ev.report) /\ TeeReport = "SNP report"
        BY <2>2 DEF VekUsed, TeeEdges, TeeReport, TdxPlatforms
      <3>2. "SNP report" \in Hop3(edges)
        BY <2>2, <3>1, AzureChecked, ReportVouched DEF Azure
      <3> QED
        BY <3>1, <3>2, HopsReach
    <2>3. CASE pf \in {"snp", "gcp-snp"}
      <3>1. Inline(ev)
        BY <2>3 DEF NeedsItsVek
      <3>2. VekUsed = ev.vek[1] /\ TeeEdges = VekVouches(ev.vek[1], ev.report) /\ TeeReport = "SNP report"
        BY <2>3, <3>1 DEF VekUsed, TeeEdges, TeeReport, TdxPlatforms
      <3>3. genuine_report(ev, now) = Ok
        BY <2>3 DEF GenuineError, TdxPlatforms
      <3>4. /\ parse_evidence(ev.report) = Ok
            /\ check_report(ev.report, ev.vek[1], ev.report.cpuid[1], now) = Ok
        BY <3>1, <3>3 DEF genuine_report, &&
      <3>5. "SNP report" \in Hop3(edges)
        <4>1. ev.report.cpuid[1] \in Generations
          BY <3>4, ParsedReport
        <4>2. /\ verify_vek_endorsement(ev.report, ev.vek[1], ev.report.cpuid[1], now) = Ok
              /\ SignedBy(ev.report.sig, ev.vek[1].key)
          BY <3>4, ReportChecked
        <4>3. VekVouches(ev.vek[1], ev.report) \subseteq edges
          BY <3>2
        <4> QED
          BY <4>1, <4>2, <4>3, ReportVouched
      <3> QED
        BY <3>2, <3>5, HopsReach
    <2> QED
      BY <2>1, <2>2, <2>3, PlatformsAre DEF SnpPlatforms
  <1>2. pf \in Azure => {"TPM quote", "selected PCRs"} \subseteq Reachable(edges)
    <2> SUFFICES ASSUME pf \in Azure
                 PROVE  "TPM quote" \in Reachable(edges) /\ "selected PCRs" \in Reachable(edges)
      OBVIOUS
    <2>1. VtpmVouches(TeeReport, ReportData, ev.hcl, ev.tpm) \subseteq edges
      BY DEF VtpmEdges
    <2>2. /\ SignatureError(ev.tpm, ev.hcl) = Ok
          /\ verify_hcl_var_data_binding(ReportData, ev.hcl)
          /\ verify_tpm_pcrs(ev.tpm.msg, ev.tpm.pcrs)
      BY AzureChecked
    <2>3. "TPM quote" \in Hop7(edges) /\ "selected PCRs" \in Reachable(edges)
      BY <1>1, <2>1, <2>2, VtpmVouched
    <2> QED
      BY <2>3, HopsReach
  <1>3. TeeReport \in Reachable(edges)
    BY <1>1, HopsReach
  <1>4. EvidenceNames \subseteq {TeeReport, "TPM quote", "selected PCRs"}
        /\ (pf \notin Azure => EvidenceNames \subseteq {TeeReport})
    BY DEF EvidenceNames
  <1> QED
    BY <1>2, <1>3, <1>4

\* Intel's and AMD's keys: the platforms whose pieces are looked up.
LEMMA MainPieces ==
    ASSUME IInv, NEW p, WentWell(p), NEW id \in Used, id[1] # "gce-endorsement"
    PROVE  /\ Verifies(id, Doc(id)) /\ WellFormed(id, Doc(id))
           /\ id[1] \in {"vcek", "amd-crl"} => pf \notin TdxPlatforms /\ id[2].gen \in Generations
  <1>1. id \in DOMAIN found /\ Asked(found[id].doc)
    BY DEF Used
  <1>2. Verifies(id, Doc(id)) /\ WellFormed(id, Doc(id))
    BY <1>1 DEF IInv, FoundInv, LookedUp, Doc
  <1>3. ASSUME id[1] \in {"vcek", "amd-crl"}
        PROVE  pf \notin TdxPlatforms /\ id[2].gen \in Generations
    <2>1. EndorsementOf(pf, ev)[1] = "gce-endorsement"
      BY DEF EndorsementOf, Endorsement
    <2>2. PICK i \in DOMAIN MainSet(pf, ev, now) : id = MainSet(pf, ev, now)[i]
      BY <2>1, UsedAre
    <2>3. SetError(pf, ev) = Ok
      BY NoneFailed
    <2>4. GenuineError(pf, ev, now) = Ok
      BY DEF WentWell, Admitted
    <2>5. CASE pf \in TdxPlatforms
      <3>1. MainSet(pf, ev, now) = <<TcbInfo(PckChain(Quote(pf, ev)).fmspc), QeIdentity,
                                     PckCrl(PckChain(Quote(pf, ev)).ca), RootCrl>>
        BY <2>3, <2>5, MainSetIs
      <3>2. id \in {TcbInfo(PckChain(Quote(pf, ev)).fmspc), QeIdentity,
                    PckCrl(PckChain(Quote(pf, ev)).ca), RootCrl}
        BY <2>2, <3>1
      <3>3. /\ TcbInfo(PckChain(Quote(pf, ev)).fmspc)[1] = "tcb-info" /\ QeIdentity[1] = "qe-identity"
            /\ PckCrl(PckChain(Quote(pf, ev)).ca)[1] = "pck-crl" /\ RootCrl[1] = "root-crl"
        BY DEF TcbInfo, QeIdentity, PckCrl, RootCrl
      <3> QED
        BY <1>3, <3>2, <3>3
    <2>6. CASE pf = "az-snp"
      <3>1. MainSet(pf, ev, now) = <<AmdCrl(matched_gen(ev, now), AmdKey(ev.vek))>>
        BY <2>3, <2>6, MainSetIs DEF TdxPlatforms
      <3>2. id = AmdCrl(matched_gen(ev, now), AmdKey(ev.vek))
        BY <2>2, <3>1
      <3>3. matched_gen(ev, now) \in Generations
        BY <2>4, <2>6, AzureChecked DEF Azure
      <3> QED
        BY <2>6, <3>2, <3>3 DEF AmdCrl, TdxPlatforms
    <2>7. CASE pf \in {"snp", "gcp-snp"}
      <3>1. pf \notin TdxPlatforms /\ pf # "az-snp"
        BY <2>7 DEF TdxPlatforms
      <3>2. genuine_report(ev, now) = Ok
        BY <2>4, <2>7, <3>1 DEF GenuineError
      <3>3. ev.report.cpuid[1] \in Generations
        BY <3>2, ParsedReport DEF genuine_report, &&
      <3> DEFINE gen == ev.report.cpuid[1]
      <3>4. \/ MainSet(pf, ev, now) = <<AmdCrl(gen, AmdKey(ev.vek[1]))>>
            \/ MainSet(pf, ev, now) = <<Vcek(gen, ev.report.chip, ev.report.reported),
                                        AmdCrl(gen, "vcek")>>
        BY <2>3, <3>1, MainSetIs
      <3>5. id \in {AmdCrl(gen, AmdKey(ev.vek[1])), AmdCrl(gen, "vcek"),
                    Vcek(gen, ev.report.chip, ev.report.reported)}
        <4> HIDE DEF gen
        <4>1. \A x, y : <<x>>[1] = x /\ DOMAIN <<x>> = {1} /\ DOMAIN <<x, y>> = {1, 2}
                        /\ <<x, y>>[1] = x /\ <<x, y>>[2] = y
          OBVIOUS
        <4> QED
          BY <2>2, <3>4, <4>1
      <3>6. id[2].gen = gen
        BY <3>5 DEF AmdCrl, Vcek
      <3> QED
        BY <3>1, <3>3, <3>6
    <2> QED
      BY <2>5, <2>6, <2>7, PlatformsAre DEF SnpPlatforms
  <1> QED
    BY <1>2, <1>3

\* The first certificate of a signing chain is the root's, and signs in its role.
LEMMA SigningChain ==
    ASSUME NEW sent, IsSequence(sent), NEW at, NEW signer,
           verify_signing_cert_chain(sent, at, signer)
    PROVE  1 \in DOMAIN sent /\ SignedBy(sent[1], IntelRoot) /\ sent[1].cn = signer
  <1>1. sent \in Seq({sent[i] : i \in 1..Len(sent)}) /\ DOMAIN sent = 1..Len(sent) /\ Len(sent) \in Nat
    BY SequenceOfMembers DEF IsSequence
  <1>2. CASE Len(sent) = 1
    <2> DEFINE chain == Append(sent, BundledRoot)
    <2>1. chain[1] = sent[1]
      BY <1>1, <1>2
    <2> HIDE DEF chain
    <2>2. SignedBy(chain[1], IntelRoot) /\ chain[1].cn = signer
      BY <1>2 DEF verify_signing_cert_chain, chain
    <2> QED
      BY <1>1, <1>2, <2>1, <2>2
  <1>3. CASE Len(sent) # 1
    BY <1>1, <1>3 DEF verify_signing_cert_chain
  <1> QED
    BY <1>2, <1>3

\* Every piece used is vouched for, by who has the role.
LEMMA PieceVouched ==
    ASSUME IInv, NEW p, WentWell(p), NEW id \in Used,
           NEW edges, TeeEdges \subseteq edges, DocEdges(id) \subseteq edges
    PROVE  id[1] \in Hop2(edges) /\ InRole(id)
  <1> DEFINE doc == Doc(id)
  <1>1. IntelRoot \in Pinned /\ GceRoot \in Pinned /\ \A g \in Generations : Ark[g] \in Pinned
    BY DEF Pinned
  <1>2. CASE id[1] = "gce-endorsement"
    <2>1. GceEndorsement_verify(doc, id[2])
      <3>1. Verifies(id, doc)
        BY DEF Used, IInv, FoundInv, LookedUp, Doc
      <3> QED
        BY <1>2, <3>1 DEF Verifies, IntelVerifies, AmdVerifies
    <2>2. /\ SignedBy(doc.cert, GceRoot) /\ SignedBy(doc.sig, doc.cert.key)
          /\ doc.cert.cn = SIGNER_CN /\ ~doc.ca
      BY <2>1 DEF GceEndorsement_verify, check_endorsement, signer_key, check_signer_role
    <2>3. <<GceRoot, doc.cert.key>> \in edges
      <3> DEFINE one == <<doc.cert>>
      <3>1. 1 \in DOMAIN one /\ one[1] = doc.cert
        OBVIOUS
      <3>2. ChainVouches(one) \subseteq DocEdges(id)
        BY <1>2 DEF DocEdges
      <3> HIDE DEF one
      <3>3. <<GceRoot, one[1].key>> \in ChainVouches(one)
        BY <2>2, <3>1, ChainEdge
      <3> QED
        BY <3>1, <3>2, <3>3
    <2>4. <<doc.cert.key, id[1]>> \in edges
      <3>1. <<doc.cert.key, id[1]>> \in Edge(doc.sig.intact, doc.sig.by, id[1])
        BY <2>2, EdgeOf
      <3> QED
        BY <1>2, <3>1 DEF DocEdges
    <2>5. id[1] \in Hop2(edges)
      BY <1>1, <2>3, <2>4, HopsReach
    <2> QED
      BY <1>2, <2>2, <2>5 DEF InRole
  <1>3. CASE id[1] # "gce-endorsement"
    <2>1. /\ Verifies(id, doc) /\ WellFormed(id, doc)
          /\ id[1] \in {"vcek", "amd-crl"} => pf \notin TdxPlatforms /\ id[2].gen \in Generations
      BY <1>3, MainPieces
    <2>2. CASE id[1] \in {"tcb-info", "qe-identity", "pck-crl"}
      <3> DEFINE chain == doc.chain[1]
                 signer == Role(id)
      <3>1. /\ Asked(doc.chain)
            /\ verify_signing_cert_chain(chain, doc.from, signer)
            /\ SignedBy(doc.sig, chain[1].key)
        BY <2>1, <2>2 DEF Verifies, IntelVerifies, AmdVerifies, TcbInfo_verify, QeIdentity_verify,
               verify_signed_json, PckCrl_verify, check_crl, Role
      <3>2. IsSequence(chain)
        BY <2>1, <2>2, <3>1 DEF WellFormed
      <3>3. /\ ChainVouches(chain) \subseteq edges
            /\ Edge(doc.sig.intact, doc.sig.by, id[1]) \subseteq edges
        BY <1>3, <2>2, <3>1 DEF DocEdges, DocumentVouches
      <3>4. InRole(id) <=> \E i \in DOMAIN chain : chain[i].key = doc.sig.by /\ chain[i].cn = signer
        BY <1>3, <2>2 DEF InRole
      <3> HIDE DEF chain, signer
      <3>5. 1 \in DOMAIN chain /\ SignedBy(chain[1], IntelRoot) /\ chain[1].cn = signer
        BY <3>1, <3>2, SigningChain
      <3>6. <<IntelRoot, chain[1].key>> \in edges
        BY <3>3, <3>5, ChainEdge
      <3>7. <<chain[1].key, id[1]>> \in edges
        BY <3>1, <3>3, EdgeOf
      <3>8. doc.sig.by = chain[1].key
        BY <3>1 DEF SignedBy
      <3> QED
        BY <1>1, <3>4, <3>5, <3>6, <3>7, <3>8, HopsReach
    <2>3. CASE id[1] \notin {"tcb-info", "qe-identity", "pck-crl"}
      <3>1. InRole(id)
        BY <1>3, <2>3 DEF InRole
      <3>2. CASE id[1] = "root-crl"
        <4>1. SignedBy(doc.sig, IntelRoot)
          BY <2>1, <3>2 DEF Verifies, IntelVerifies, AmdVerifies, RootCrl_verify, check_crl, BundledRoot, Cert
        <4>2. <<IntelRoot, id[1]>> \in edges
          BY <1>3, <3>2, <4>1, EdgeOf DEF DocEdges, DocumentVouches
        <4> QED
          BY <1>1, <3>1, <4>2, HopsReach
      <3>3. CASE id[1] = "amd-crl"
        <4>1. SignedBy(doc.sig, Ark[id[2].gen])
          BY <2>1, <3>3 DEF Verifies, IntelVerifies, AmdVerifies, AmdCrl_verify
        <4>2. <<Ark[id[2].gen], id[1]>> \in edges
          BY <1>3, <3>3, <4>1, EdgeOf DEF DocEdges
        <4> QED
          BY <1>1, <2>1, <3>1, <3>3, <4>2, HopsReach
      <3>4. CASE id[1] = "vcek"
        <4>1. SignedBy(doc, Ask[id[2].gen])
          BY <2>1, <3>4 DEF Verifies, IntelVerifies, AmdVerifies, Vcek_verify, verify_cert_chain
        <4>2. <<Ask[id[2].gen], id[1]>> \in edges
          BY <1>3, <3>4, <4>1, EdgeOf DEF DocEdges
        <4>3. <<Ark[id[2].gen], Ask[id[2].gen]>> \in edges
          BY <2>1, <3>4 DEF TeeEdges, VekVouches
        <4> QED
          BY <1>1, <2>1, <3>1, <3>4, <4>2, <4>3, HopsReach
      <3> QED
        BY <2>1, <2>3, <3>2, <3>3, <3>4, <1>3 DEF Verifies, IntelVerifies, AmdVerifies
    <2> QED
      BY <2>2, <2>3
  <1> QED
    BY <1>2, <1>3

-------------------------------------------------------------------------------
(* Revocation. A PCK leaf names its issuer, and the CRL of the CA of that  *)
(* name is looked up: it is that of the key which has signed the leaf if   *)
(* Intel certifies one key per name, key[name], and its CAs issue under    *)
(* their own names.                                                        *)

Certified(key, chain) ==
    \A i \in DOMAIN chain : SignedBy(chain[i], IntelRoot) => chain[i].key = key[chain[i].cn]

CertifiedDoc(key, id, doc) ==
    id[1] = "pck-crl" /\ Asked(doc.chain) => Certified(key, doc.chain[1])

OneKeyPerName(key) ==
    /\ \A id \in DOMAIN request.attached : CertifiedDoc(key, id, request.attached[id])
    /\ \A id \in DOMAIN request.published : CertifiedDoc(key, id, request.published[id])
    /\ LET chain == ev.quote.chain
       IN  SignedBy(chain[2], IntelRoot) /\ SignedBy(chain[1], chain[2].key) =>
               chain[2].key = key[chain[1].issuer]

CertifiedInv(key) ==
    OneKeyPerName(key) =>
        /\ \A id \in DOMAIN carried : CertifiedDoc(key, id, carried[id])
        /\ \A id \in DOMAIN held : CertifiedDoc(key, id, held[id])
        /\ \A id \in Used : CertifiedDoc(key, id, Doc(id))

\* A chain without its root is certified like the whole one.
LEMMA StripCertified ==
    ASSUME NEW key, NEW id, NEW doc, WellFormed(id, doc), CertifiedDoc(key, id, doc)
    PROVE  CertifiedDoc(key, id, Strip(doc))
  <1> SUFFICES ASSUME id[1] = "pck-crl", Asked(Strip(doc).chain)
               PROVE  Certified(key, Strip(doc).chain[1])
    BY DEF CertifiedDoc
  <1>1. "chain" \in DOMAIN doc
    BY PartsOf
  <1>2. Asked(doc.chain)
    BY DEF Strip
  <1> DEFINE chain == doc.chain[1]
             left == without_roots(chain)
             S == {chain[i] : i \in 1..Len(chain)}
  <1>3. Strip(doc).chain = Rule(left)
    BY <1>1, <1>2 DEF Strip
  <1>4. chain \in Seq(S) /\ DOMAIN chain = 1..Len(chain) /\ Certified(key, chain)
    BY <1>2, SequenceOfMembers DEF WellFormed, CertifiedDoc
  <1>5. left \in Seq(S)
    <2> HIDE DEF S
    <2> QED
      BY <1>4, WithoutRootsSeq
  <1>6. \A x \in S : SignedBy(x, IntelRoot) => x.key = key[x.cn]
    <2> HIDE DEF chain
    <2> QED
      BY <1>4 DEF Certified
  <1> HIDE DEF S, left
  <1>7. Certified(key, left)
    BY <1>5, <1>6 DEF Certified
  <1> QED
    BY <1>3, <1>7, RuleIsAsked

LEMMA CertifiedStep ==
    ASSUME NEW key, IInv, CertifiedInv(key), [Next]_vars
    PROVE  CertifiedInv(key)'
  <1>1. request' = request
    BY DEF Next, Begin, LookUp, Attach, collateral_needed, Judge, JudgeGpu, HandIn, vars
  <1>2. SUFFICES ASSUME OneKeyPerName(key)
                 PROVE  /\ \A id \in DOMAIN carried' : CertifiedDoc(key, id, carried'[id])
                        /\ \A id \in DOMAIN held' : CertifiedDoc(key, id, held'[id])
                        /\ \A id \in Used' : CertifiedDoc(key, id, Doc(id)')
    BY <1>1 DEF CertifiedInv, OneKeyPerName, ev
  <1>3. /\ \A id \in DOMAIN carried : CertifiedDoc(key, id, carried[id])
        /\ \A id \in DOMAIN held : CertifiedDoc(key, id, held[id])
        /\ \A id \in Used : CertifiedDoc(key, id, Doc(id))
    BY <1>2 DEF CertifiedInv
  <1>4. CASE UNCHANGED <<carried, held, found>>
    BY <1>3, <1>4 DEF Used, Doc
  <1>5. CASE Begin
    <2>1. carried' = carried /\ held' = held /\ DOMAIN found' = {}
      BY <1>5 DEF Begin, NoFcn
    <2>2. Used' = {}
      BY <2>1 DEF Used
    <2> QED
      BY <1>3, <2>1, <2>2
  <1>6. ASSUME NEW id, LookUp(id)
        PROVE  /\ \A i \in DOMAIN carried' : CertifiedDoc(key, i, carried'[i])
               /\ \A i \in DOMAIN held' : CertifiedDoc(key, i, held'[i])
               /\ \A i \in Used' : CertifiedDoc(key, i, Doc(i)')
    <2>1. /\ carried' = carried /\ held' = held
          /\ found' = [i \in DOMAIN found \cup {id} |-> IF i = id THEN Lookup(id) ELSE found[i]]
      BY <1>6 DEF LookUp
    <2>2. ASSUME Asked(Lookup(id).doc)
          PROVE  CertifiedDoc(key, id, Lookup(id).doc[1])
      <3>1. Copied(id, Lookup(id).doc[1])
        BY <2>2, LookupFinds DEF IInv, Finds
      <3> QED
        BY <1>2, <1>3, <3>1 DEF Copied, OneKeyPerName
    <2>3. ASSUME NEW i \in Used'
          PROVE  CertifiedDoc(key, i, Doc(i)')
      <3>1. i \in DOMAIN found \cup {id} /\ Asked(found'[i].doc) /\ Doc(i)' = found'[i].doc[1]
        BY <2>1, <2>3 DEF Used, Doc
      <3>2. CASE i = id
        BY <2>1, <2>2, <3>1, <3>2
      <3>3. CASE i # id
        <4>1. i \in Used /\ Doc(i)' = Doc(i)
          BY <2>1, <3>1, <3>3 DEF Used, Doc
        <4> QED
          BY <1>3, <4>1
      <3> QED
        BY <3>2, <3>3
    <2> QED
      BY <1>3, <2>1, <2>3
  <1>7. CASE Attach
    <2>1. /\ held' = held /\ found' = found
          /\ carried' = IF Forgiven(AttachError) = Ok THEN attach ELSE carried
      BY <1>7 DEF Attach
    <2>2. \A id \in DOMAIN attach : CertifiedDoc(key, id, attach[id])
      <3> TAKE id \in DOMAIN attach
      <3>1. id \in Used /\ attach[id] = Strip(Doc(id))
        BY DEF attach, Doc
      <3>2. WellFormed(id, Doc(id))
        BY <3>1 DEF Used, Doc, IInv, FoundInv, LookedUp
      <3> QED
        BY <1>3, <3>1, <3>2, StripCertified
    <2>3. \A id \in Used' : CertifiedDoc(key, id, Doc(id)')
      BY <1>3, <2>1 DEF Used, Doc
    <2> QED
      BY <1>3, <2>1, <2>2, <2>3
  <1>8. CASE HandIn
    <2>1. carried' = carried /\ found' = found
      BY <1>8 DEF HandIn
    <2>2. PICK S : /\ held' = [id \in S |-> request.published[id]]
                   /\ S \subseteq DOMAIN request.published
      BY <1>8 DEF HandIn
    <2>3. \A id \in DOMAIN held' : CertifiedDoc(key, id, held'[id])
      BY <1>2, <2>2 DEF OneKeyPerName
    <2>4. \A id \in Used' : CertifiedDoc(key, id, Doc(id)')
      BY <1>3, <2>1 DEF Used, Doc
    <2> QED
      BY <1>3, <2>1, <2>3, <2>4
  <1> QED
    BY <1>4, <1>5, <1>6, <1>7, <1>8 DEF Next, collateral_needed, Judge, JudgeGpu, vars

\* Intel's keys are what Intel certifies in every document that is used.
LEMMA CertifiedAlways ==
    ASSUME NEW key
    PROVE  Spec => []CertifiedInv(key)
  <1>1. Init => CertifiedInv(key)
    <2> SUFFICES ASSUME Init PROVE CertifiedInv(key)
      OBVIOUS
    <2>1. DOMAIN found = {} /\ DOMAIN held = {} /\ carried = request.attached
      BY DEF Init, NoFcn
    <2> QED
      BY <2>1 DEF CertifiedInv, OneKeyPerName, Used
  <1> QED
    BY <1>1, CertifiedStep, Invariant, PTL DEF Spec

\* A piece that is the only one of its kind is the one a verdict reads.
LEMMA OnlyOne ==
    ASSUME NEW kind, NEW id, Of(kind) = {id}
    PROVE  The(kind) = Doc(id)
  <1>1. \A x : (CHOOSE y \in {x} : TRUE) = x
    OBVIOUS
  <1> QED
    BY <1>1 DEF The

(* The pieces of an SNP guest: the CRL of its generation, and a VCEK if    *)
(* the evidence brings no VEK.                                             *)
LEMMA SnpPieces ==
    ASSUME IInv, NEW p, WentWell(p), pf \in {"snp", "gcp-snp"}
    PROVE  LET gen == ev.report.cpuid[1]
               c == Gathered(pf, ev, found, now)
           IN  /\ gen \in Generations
               /\ VekUsed = VekOf(ev, c)
               /\ CrlOf(ev, c) \in Crls /\ SignedBy(CrlOf(ev, c).sig, Ark[gen])
               /\ verify_vek_endorsement(ev.report, VekUsed, gen, now) = Ok
               /\ SignedBy(ev.report.sig, VekUsed.key)
  <1> DEFINE gen == ev.report.cpuid[1]
             c == Gathered(pf, ev, found, now)
             ids == MainSet(pf, ev, now)
             vcek == Vcek(gen, ev.report.chip, ev.report.reported)
             crl == AmdCrl(gen, IF Inline(ev) THEN AmdKey(ev.vek[1]) ELSE "vcek")
  <1>1. pf \notin TdxPlatforms /\ pf # "az-snp" /\ pf # "az-tdx"
    BY DEF TdxPlatforms
  <1>2. gen \in Generations
    <2>1. genuine_report(ev, now) = Ok
      BY <1>1 DEF WentWell, Admitted, GenuineError
    <2> QED
      BY <2>1, ParsedReport DEF genuine_report, &&
  <1>3. check_report(ev.report, VekOf(ev, c), gen, now) = Ok
    <2>1. SnpError(ev, p, c, now) = Ok
      BY <1>1 DEF WentWell, VerifyError
    <2> QED
      BY <2>1 DEF SnpError, &&
  <1>4. IF Inline(ev) THEN ids = <<crl>> ELSE ids = <<vcek, crl>>
    BY <1>1, NoneFailed, MainSetIs
  <1>5. vcek[1] = "vcek" /\ crl[1] = "amd-crl" /\ crl[2].gen = gen
    BY DEF Vcek, AmdCrl
  <1>6. \A i \in DOMAIN ids : ids[i] \in Used /\ c[i] = Doc(ids[i]) /\ Verifies(ids[i], c[i])
    BY PiecesVerify
  <1>7. /\ crl \in Used /\ Doc(crl) = CrlOf(ev, c)
        /\ ~Inline(ev) => vcek \in Used /\ Doc(vcek) = VekOf(ev, c)
        /\ \A i \in DOMAIN ids : ids[i] \in {vcek, crl}
    <2> HIDE DEF crl, vcek, ids, c
    <2>1. CASE Inline(ev)
      <3>1. DOMAIN ids = {1} /\ ids[1] = crl
        BY <1>4, <2>1
      <3> QED
        BY <1>6, <2>1, <3>1 DEF CrlOf
    <2>2. CASE ~Inline(ev)
      <3>1. DOMAIN ids = {1, 2} /\ ids[1] = vcek /\ ids[2] = crl
        BY <1>4, <2>2
      <3> QED
        BY <1>6, <2>2, <3>1 DEF CrlOf, VekOf
    <2> QED
      BY <2>1, <2>2
  <1>8. AmdCrl_verify(Doc(crl), crl[2])
    <2>1. crl[1] # "gce-endorsement"
      BY <1>5
    <2> HIDE DEF crl
    <2>2. Verifies(crl, Doc(crl))
      BY <1>7, <2>1, MainPieces
    <2> QED
      BY <1>5, <2>2 DEF Verifies, IntelVerifies, AmdVerifies
  <1>9. VekUsed = VekOf(ev, c)
    <2>1. CASE Inline(ev)
      BY <1>1, <2>1 DEF VekUsed, VekOf
    <2>2. CASE ~Inline(ev)
      <3>1. EndorsementOf(pf, ev)[1] = "gce-endorsement"
        BY DEF EndorsementOf, Endorsement
      <3> HIDE DEF crl, vcek
      <3>2. \A id \in Used : id \in {vcek, crl, EndorsementOf(pf, ev)}
        BY <1>7, UsedAre
      <3>3. Of("vcek") = {vcek}
        BY <1>5, <1>7, <2>2, <3>1, <3>2 DEF Of
      <3>4. The("vcek") = Doc(vcek)
        BY <3>3, OnlyOne
      <3> QED
        BY <1>1, <1>7, <2>2, <3>4 DEF VekUsed
    <2> QED
      BY <2>1, <2>2
  <1>10. CrlOf(ev, c) \in Crls
    BY <1>5, <1>7 DEF Crls, Of
  <1> HIDE DEF crl, vcek, ids, c
  <1>11. SignedBy(CrlOf(ev, c).sig, Ark[gen])
    BY <1>5, <1>7, <1>8 DEF AmdCrl_verify
  <1> QED
    BY <1>2, <1>3, <1>9, <1>10, <1>11, ReportChecked DEF c

(* The standing of the VEK's issuer, in the CRL of its generation.         *)
LEMMA VekStanding ==
    ASSUME NEW vek, NEW gen \in Generations, vek.by = vek_issuer(vek, gen),
           NEW crl \in Crls, SignedBy(crl.sig, Ark[gen]), ~vek_revoked(vek, crl, gen)
    PROVE  \A cert \in {[by |-> Ark[g], serial |-> vek.by] :
                            g \in {g \in Generations : vek.by \in {Ask[g], Asvk[g]}}} :
               \E other \in Crls : other.sig.by = cert.by /\ cert.serial \notin other.revoked
  <1> TAKE cert \in {[by |-> Ark[g], serial |-> vek.by] :
                         g \in {g \in Generations : vek.by \in {Ask[g], Asvk[g]}}}
  <1>1. PICK g \in Generations : vek.by \in {Ask[g], Asvk[g]} /\ cert = [by |-> Ark[g], serial |-> vek.by]
    OBVIOUS
  <1>2. g = gen
    BY <1>1 DEF vek_issuer, Generations, Ask, Asvk
  <1>3. cert.by = Ark[gen] /\ cert.serial = vek_issuer(vek, gen)
    BY <1>1, <1>2
  <1>4. crl.sig.by = cert.by /\ cert.serial \notin crl.revoked
    BY <1>3 DEF vek_revoked, SignedBy
  <1> QED
    BY <1>4

\* What a passing SNP verdict says of the VEK.
LEMMA VekNotRevoked ==
    ASSUME IInv, Passing, pf \notin TdxPlatforms
    PROVE  LET p == request.policy[1]
               c == Gathered(pf, ev, found, now)
           IN  /\ pf = "az-snp" => ~vek_revoked(ev.vek, c[1], matched_gen(ev, now))
               /\ pf # "az-snp" => ~vek_revoked(VekOf(ev, c), CrlOf(ev, c), ev.report.cpuid[1])
  <1> DEFINE p == request.policy[1]
             c == Gathered(pf, ev, found, now)
             tee == Result(pf, ev, p, found, now).tee
             b == Bound(ev, p, c)
  <1>1. tee.crl_ok # "mismatch"
    BY PassingIs, SnpPassedMeans
  <1>2. /\ pf = "az-snp" => tee = AzSnpResult(ev, p, c, now)
        /\ pf \in {"snp", "gcp-snp"} => tee = SnpResult(ev, p, c)
    BY TeeIs
  <1> HIDE DEF p, c, tee
  <1>3. CASE pf = "az-snp"
    <2>1. tee.crl_ok = Outcome(~vek_revoked(ev.vek, c[1], matched_gen(ev, now)))
      BY <1>2, <1>3, AzureReport
    <2> QED
      BY <1>1, <1>3, <2>1 DEF Outcome, c
  <1>4. CASE pf # "az-snp"
    <2>1. tee = SnpResult(ev, p, c)
      BY <1>2, <1>4, PlatformsAre DEF SnpPlatforms
    <2>2. /\ DOMAIN b = SnpFields
          /\ b.crl_ok = Outcome(~vek_revoked(VekOf(ev, c), CrlOf(ev, c), ev.report.cpuid[1]))
      BY BoundIs
    <2> HIDE DEF b
    <2>3. tee.crl_ok = b.crl_ok
      <3>1. CASE Asked(p.measurement_registers)
        <4>1. tee = check_measurement_registers(b, ev, p)
          BY <2>1, <3>1, SnpResultIs DEF b
        <4> QED
          BY <2>2, <4>1, CheckedRegisters DEF SnpFields
      <3>2. CASE ~Asked(p.measurement_registers)
        BY <2>1, <3>2, SnpResultIs DEF b
      <3> QED
        BY <3>1, <3>2
    <2> QED
      BY <1>1, <1>4, <2>2, <2>3 DEF Outcome, c
  <1> QED
    BY <1>3, <1>4

\* No certificate relied on for an SNP verdict is revoked.
LEMMA SnpStanding ==
    ASSUME IInv, Passing, pf \notin TdxPlatforms
    PROVE  \A cert \in Relied : \E crl \in Crls : crl.sig.by = cert.by /\ cert.serial \notin crl.revoked
  <1> DEFINE p == request.policy[1]
             c == Gathered(pf, ev, found, now)
  <1>1. WentWell(p)
    BY PassingIs
  <1>2. Relied = {[by |-> Ark[g], serial |-> VekUsed.by] :
                      g \in {g \in Generations : VekUsed.by \in {Ask[g], Asvk[g]}}}
    BY DEF Relied
  <1>3. CASE pf = "az-snp"
    <2> DEFINE gen == matched_gen(ev, now)
               id == AmdCrl(gen, AmdKey(ev.vek))
    <2>1. GenuineError(pf, ev, now) = Ok
      BY <1>1 DEF WentWell, Admitted
    <2>2. gen \in Generations /\ verify_vek_endorsement(ev.report, ev.vek, gen, now) = Ok
      BY <1>3, <2>1, AzureChecked DEF Azure
    <2>3. ev.vek.by = vek_issuer(ev.vek, gen)
      BY <2>2 DEF verify_vek_endorsement, &&, Check, Ok, verify_cert_chain, SignedBy
    <2>4. MainSet(pf, ev, now) = <<id>>
      BY <1>1, <1>3, NoneFailed, MainSetIs DEF TdxPlatforms
    <2>5. 1 \in DOMAIN MainSet(pf, ev, now) /\ MainSet(pf, ev, now)[1] = id
      <3> HIDE DEF id
      <3> QED
        BY <2>4
    <2>6. id \in Used /\ c[1] = Doc(id)
      BY <1>1, <2>5, PiecesVerify
    <2>7. id[1] = "amd-crl" /\ id[2].gen = gen
      BY DEF AmdCrl
    <2> HIDE DEF id, gen, c
    <2>8. AmdCrl_verify(c[1], id[2])
      <3>1. id[1] # "gce-endorsement"
        BY <2>7
      <3>2. Verifies(id, Doc(id))
        BY <1>1, <2>6, <3>1, MainPieces
      <3> QED
        BY <2>6, <2>7, <3>2 DEF Verifies, IntelVerifies, AmdVerifies
    <2>9. c[1] \in Crls /\ SignedBy(c[1].sig, Ark[gen])
      BY <2>6, <2>7, <2>8 DEF Crls, Of, AmdCrl_verify
    <2>10. ~vek_revoked(ev.vek, c[1], gen)
      BY <1>3, VekNotRevoked DEF gen, c
    <2>11. VekUsed = ev.vek
      BY <1>3 DEF VekUsed
    <2> QED
      BY <1>2, <2>2, <2>3, <2>9, <2>10, <2>11, VekStanding
  <1>4. CASE pf # "az-snp"
    <2>1. pf \in {"snp", "gcp-snp"}
      BY <1>4, PlatformsAre DEF SnpPlatforms
    <2> DEFINE gen == ev.report.cpuid[1]
    <2>2. /\ gen \in Generations
          /\ VekUsed = VekOf(ev, c)
          /\ CrlOf(ev, c) \in Crls /\ SignedBy(CrlOf(ev, c).sig, Ark[gen])
          /\ verify_vek_endorsement(ev.report, VekUsed, gen, now) = Ok
      BY <1>1, <2>1, SnpPieces
    <2>3. VekUsed.by = vek_issuer(VekUsed, gen)
      BY <2>2 DEF verify_vek_endorsement, &&, Check, Ok, verify_cert_chain, SignedBy
    <2>4. ~vek_revoked(VekOf(ev, c), CrlOf(ev, c), gen)
      BY <1>4, VekNotRevoked
    <2> HIDE DEF c, gen
    <2> QED
      BY <1>2, <2>2, <2>3, <2>4, VekStanding
  <1> QED
    BY <1>3, <1>4

\* No certificate relied on for a TDX verdict is revoked.
LEMMA TdxStanding ==
    ASSUME IInv, Passing, pf \in TdxPlatforms, NEW key, CertifiedInv(key), OneKeyPerName(key)
    PROVE  \A cert \in Relied : \E crl \in Crls : crl.sig.by = cert.by /\ cert.serial \notin crl.revoked
  <1> DEFINE p == request.policy[1]
             c == Gathered(pf, ev, found, now)
             q == Quote(pf, ev)
             ca == PckChain(q).ca
             leaf == ev.quote.chain[1]
             inter == ev.quote.chain[2]
  <1>1. WentWell(p)
    BY PassingIs
  <1>2. /\ Of("tcb-info") = {TcbInfo(PckChain(q).fmspc)} /\ The("tcb-info") = c[1]
        /\ Of("qe-identity") = {QeIdentity} /\ The("qe-identity") = c[2]
        /\ Of("pck-crl") = {PckCrl(ca)} /\ The("pck-crl") = c[3]
        /\ Of("root-crl") = {RootCrl} /\ The("root-crl") = c[4]
        /\ TcbInfo_verify(c[1], PckChain(q).fmspc)
        /\ QeIdentity_verify(c[2])
        /\ PckCrl_verify(c[3], ca)
        /\ RootCrl_verify(c[4])
    BY <1>1, TdxPieces
  <1>3. q.chain = ev.quote.chain /\ ca = leaf.issuer
    <2>1. q.chain = ev.quote.chain
      BY SameQuote DEF QuoteParts
    <2> QED
      BY <2>1 DEF PckChain
  <1>4. genuine_quote(q, now) = Ok /\ CollateralError(q, c) = Ok
    BY <1>1, TdChecksHold
  <1>5. verify_pck_cert_chain(ev.quote.chain, now)
    BY <1>3, <1>4, GenuineQuoteMeans
  <1>6. /\ SignedBy(inter, IntelRoot) /\ SignedBy(leaf, inter.key)
    BY <1>5 DEF verify_pck_cert_chain
  <1>7. ~cert_revoked(leaf, c[3]) /\ ~cert_revoked(inter, c[4])
    <2>1. Result(pf, ev, p, found, now).tee.crl_ok # "mismatch"
      BY PassingIs, TdxPassedMeans
    <2>2. Result(pf, ev, p, found, now).tee.crl_ok = PckStanding(q, c)
      <3>1. CASE pf = "az-tdx"
        BY <3>1, TeeIs, AzTdxResultIs DEF Quote
      <3>2. CASE pf # "az-tdx"
        BY <3>2, TeeIs, TdxResultIs DEF TdxPlatforms
      <3> QED
        BY <3>1, <3>2
    <2>3. ~PckRevoked(q, c)
      BY <2>1, <2>2 DEF PckStanding, Outcome
    <2> QED
      BY <1>3, <2>3 DEF PckRevoked
  <1>8. ~cert_revoked(c[1].chain[1][1], c[4]) /\ ~cert_revoked(c[2].chain[1][1], c[4])
    BY <1>4 DEF CollateralError, &&, Check, Ok
  <1>9. \A kind \in {"pck-crl", "root-crl"} : Of(kind) # {} => The(kind) \in Crls
    <2> SUFFICES ASSUME NEW kind \in {"pck-crl", "root-crl"}, Of(kind) # {}
                 PROVE  The(kind) \in Crls
      OBVIOUS
    <2>1. PICK id \in Of(kind) : The(kind) = Doc(id)
      BY DEF The
    <2> QED
      BY <2>1 DEF Crls
  <1>10. c[3] \in Crls /\ c[4] \in Crls
    BY <1>2, <1>9
  <1>11. c[4].sig.by = IntelRoot
    BY <1>2 DEF RootCrl_verify, check_crl, SignedBy, BundledRoot, Cert
  <1> HIDE DEF c, q, ca
  <1>12. c[3].sig.by = inter.key
    <2> DEFINE id == PckCrl(ca)
               chain == c[3].chain[1]
    <2>1. id \in Used /\ id[1] = "pck-crl" /\ Doc(id) = c[3]
      <3>1. id \in Of("pck-crl") /\ The("pck-crl") = Doc(id)
        BY <1>2, OnlyOne
      <3> QED
        BY <1>2, <3>1 DEF Of
    <2> HIDE DEF id
    <2>2. /\ Asked(c[3].chain) /\ SignedBy(c[3].sig, chain[1].key)
          /\ verify_signing_cert_chain(chain, c[3].from, ca)
      BY <1>2 DEF PckCrl_verify, check_crl
    <2>3. Certified(key, chain)
      BY <2>1, <2>2 DEF CertifiedInv, CertifiedDoc
    <2>4. IsSequence(chain)
      <3>1. WellFormed(id, c[3])
        BY <1>1, <2>1, MainPieces
      <3> QED
        BY <2>1, <2>2, <3>1 DEF WellFormed
    <2> HIDE DEF chain
    <2>5. 1 \in DOMAIN chain /\ SignedBy(chain[1], IntelRoot) /\ chain[1].cn = ca
      BY <2>2, <2>4, SigningChain
    <2>6. chain[1].key = key[ca]
      BY <2>3, <2>5 DEF Certified
    <2>7. inter.key = key[ca]
      BY <1>3, <1>6 DEF OneKeyPerName
    <2> QED
      BY <2>2, <2>6, <2>7 DEF SignedBy
  <1>13. SignedBy(c[1].chain[1][1], IntelRoot) /\ SignedBy(c[2].chain[1][1], IntelRoot)
    <2>1. ASSUME NEW kind \in {"tcb-info", "qe-identity"}, NEW id, Of(kind) = {id},
                 verify_signed_json(Doc(id))
          PROVE  SignedBy(Doc(id).chain[1][1], IntelRoot)
      <3>1. id \in Used /\ id[1] = kind
        BY <2>1 DEF Of
      <3>2. WellFormed(id, Doc(id))
        BY <1>1, <3>1, MainPieces
      <3>3. /\ Asked(Doc(id).chain) /\ IsSequence(Doc(id).chain[1])
            /\ verify_signing_cert_chain(Doc(id).chain[1], Doc(id).from, TCB_SIGNING)
        BY <2>1, <3>1, <3>2 DEF WellFormed, verify_signed_json
      <3> QED
        BY <3>3, SigningChain
    <2>2. Doc(TcbInfo(PckChain(q).fmspc)) = c[1] /\ Doc(QeIdentity) = c[2]
      BY <1>2, OnlyOne
    <2> QED
      BY <1>2, <2>1, <2>2 DEF TcbInfo_verify, QeIdentity_verify
  <1>14. Relied = {leaf, inter, c[1].chain[1][1], c[2].chain[1][1]}
    <2>1. Doc(TcbInfo(PckChain(q).fmspc)) = c[1] /\ Doc(QeIdentity) = c[2]
      BY <1>2, OnlyOne
    <2> QED
      BY <1>2, <2>1 DEF Relied
  <1> HIDE DEF leaf, inter
  <1>15. leaf.by = c[3].sig.by /\ leaf.serial \notin c[3].revoked
    BY <1>6, <1>7, <1>12 DEF SignedBy, cert_revoked
  <1>16. \A cert \in {inter, c[1].chain[1][1], c[2].chain[1][1]} :
             cert.by = c[4].sig.by /\ cert.serial \notin c[4].revoked
    BY <1>6, <1>7, <1>8, <1>11, <1>13 DEF SignedBy, cert_revoked
  <1> QED
    BY <1>10, <1>14, <1>15, <1>16

(* A passing verdict is vouched for by the pinned roots, signature by      *)
(* signature, each piece of collateral by who has that role, and no        *)
(* certificate relied on is revoked (the leaf of a TD as far as the CRL of *)
(* the CA it names is that of the CA which signed it).                     *)
THEOREM PassedVouched ==
    ASSUME NEW key
    PROVE  Spec => []((pf \in TdxPlatforms => OneKeyPerName(key)) => PassedIsVouched)
  <1>1. ASSUME IInv, CertifiedInv(key), pf \in TdxPlatforms => OneKeyPerName(key)
        PROVE  PassedIsVouched
    <2> SUFFICES ASSUME Passing PROVE PassedIsVouched
      BY DEF PassedIsVouched
    <2> DEFINE p == request.policy[1]
               docs == UNION {DocEdges(id) : id \in Used}
               edges == TeeEdges \cup VtpmEdges \cup docs
    <2>1. WentWell(p)
      BY <1>1, PassingIs
    <2>2. TeeEdges \subseteq edges /\ VtpmEdges \subseteq edges /\ \A id \in Used : DocEdges(id) \subseteq edges
      OBVIOUS
    <2>3. EvidenceNames \subseteq Reachable(edges)
      <3>1. GenuineError(pf, ev, now) = Ok
        BY <2>1 DEF WentWell, Admitted
      <3>2. CASE ~NeedsItsVek
        <4> HIDE DEF edges
        <4> QED
          BY <1>1, <2>2, <3>1, <3>2, GenuineVouched
      <3>3. CASE NeedsItsVek
        <4>1. pf \in {"snp", "gcp-snp"} /\ pf \notin TdxPlatforms /\ pf \notin Azure
          BY <3>3 DEF NeedsItsVek, TdxPlatforms, Azure
        <4>2. /\ ev.report.cpuid[1] \in Generations
              /\ verify_vek_endorsement(ev.report, VekUsed, ev.report.cpuid[1], now) = Ok
              /\ SignedBy(ev.report.sig, VekUsed.key)
          BY <1>1, <2>1, <4>1, SnpPieces
        <4>3. VekVouches(VekUsed, ev.report) \subseteq edges
          BY <2>2, <4>1 DEF TeeEdges
        <4> HIDE DEF edges
        <4>4. "SNP report" \in Hop3(edges)
          BY <4>2, <4>3, ReportVouched
        <4>5. EvidenceNames = {"SNP report"}
          BY <4>1 DEF EvidenceNames, TeeReport
        <4>6. "SNP report" \in Hop5(edges)
          BY <4>4, HopsReach
        <4>7. "SNP report" \in Reachable(edges)
          BY <4>6, HopsReach
        <4> QED
          BY <4>5, <4>7
      <3> QED
        BY <3>2, <3>3
    <2>4. \A id \in Used : id[1] \in Reachable(edges) /\ InRole(id)
      <3> HIDE DEF edges
      <3> SUFFICES ASSUME NEW id \in Used
                   PROVE  id[1] \in Reachable(edges) /\ InRole(id)
        OBVIOUS
      <3>1. id[1] \in Hop2(edges) /\ InRole(id)
        BY <1>1, <2>1, <2>2, PieceVouched
      <3> QED
        BY <3>1, HopsReach
    <2>5. \A cert \in Relied : \E crl \in Crls : crl.sig.by = cert.by /\ cert.serial \notin crl.revoked
      BY <1>1, TdxStanding, SnpStanding
    <2>6. EvidenceNames \cup {id[1] : id \in Used} \subseteq Reachable(edges)
      BY <2>3, <2>4
    <2> QED
      BY <2>4, <2>5, <2>6 DEF PassedIsVouched
  <1> QED
    BY <1>1, Invariant, CertifiedAlways, PTL

-------------------------------------------------------------------------------
(* What a call refuses after its lookups is never the caller's params.     *)

LEMMA AndBlameless ==
    ASSUME NEW a, NEW b, a \notin Misuse, a = Ok => b \notin Misuse
    PROVE  (a && b) \notin Misuse
  BY DEF &&

LEMMA CheckBlameless ==
    ASSUME NEW holds, NEW error, error \notin Misuse
    PROVE  Check(holds, error) \notin Misuse
  BY DEF Check, Misuse, Ok

LEMMA OkBlameless == Ok \notin Misuse
  BY DEF Ok, Misuse

\* The first of several errors is one of them.
LEMMA FirstErrorBlameless ==
    ASSUME NEW errors, DOMAIN errors \in SUBSET Nat, \A i \in DOMAIN errors : errors[i] \notin Misuse
    PROVE  FirstError(errors) \notin Misuse
  <1> DEFINE failed == {i \in DOMAIN errors : errors[i] # Ok}
  <1>1. CASE failed = {}
    BY <1>1, OkBlameless DEF FirstError
  <1>2. CASE failed # {}
    <2>1. FirstError(errors) = errors[FirstOf(failed)]
      BY <1>2 DEF FirstError
    <2>2. failed \in SUBSET Nat /\ failed \subseteq DOMAIN errors
      OBVIOUS
    <2> HIDE DEF failed
    <2>3. FirstOf(failed) \in failed
      BY <1>2, <2>2, FirstIsLeast
    <2> QED
      BY <2>1, <2>2, <2>3
  <1> QED
    BY <1>1, <1>2

LEMMA ReportBlameless ==
    ASSUME NEW report, NEW vek, NEW gen, NEW t
    PROVE  /\ verify_vek_endorsement(report, vek, gen, t) \notin Misuse
           /\ check_report(report, vek, gen, t) \notin Misuse
           /\ parse_evidence(report) \notin Misuse
  <1>1. verify_vek_endorsement(report, vek, gen, t) \notin Misuse
    BY DEF verify_vek_endorsement, &&, Check, Ok, Misuse
  <1>2. check_report(report, vek, gen, t) \notin Misuse
    BY <1>1 DEF check_report, &&, Check, Ok, Misuse
  <1>3. parse_evidence(report) \notin Misuse
    BY DEF parse_evidence, &&, Check, Ok, Misuse
  <1> QED
    BY <1>1, <1>2, <1>3

LEMMA QuoteBlameless ==
    ASSUME NEW q, NEW c, NEW t
    PROVE  /\ genuine_quote(q, t) \notin Misuse
           /\ EventLogError(q) \notin Misuse
           /\ CollateralError(q, c) \notin Misuse
  <1>1. verify_quote_signature(q) \notin Misuse /\ verify_dcap_chain(q, t) \notin Misuse
    BY DEF verify_quote_signature, verify_dcap_chain, &&, Check, Ok, Misuse
  <1>2. genuine_quote(q, t) \notin Misuse
    BY <1>1 DEF genuine_quote, &&, Check, Ok, Misuse
  <1>3. EventLogError(q) \notin Misuse
    BY DEF EventLogError, &&, Check, Ok, Misuse
  <1>4. CollateralError(q, c) \notin Misuse
    BY DEF CollateralError, &&, Check, Ok, Misuse, Ungraded
  <1> QED
    BY <1>2, <1>3, <1>4

LEMMA EnvelopeBlameless ==
    ASSUME NEW e, NEW type
    PROVE  AzEnvelope(e, type) \notin Misuse
  BY DEF AzEnvelope, &&, Check, Ok, Misuse

LEMMA TpmBlameless ==
    ASSUME NEW e, NEW report_data, Check(AtMost(report_data, 64), "ReportDataTooLarge") = Ok
    PROVE  AzTpm(e, report_data) \notin Misuse
  <1>1. SignatureError(e.tpm, e.hcl) \notin Misuse
    BY DEF SignatureError, &&, Check, Ok, Misuse
  <1>2. "QuoteParseFailed" \notin Misuse
    BY DEF Misuse
  <1>3. ReportDataError(e.tpm.msg, report_data) \notin Misuse
    BY <1>2, CheckBlameless, OkBlameless DEF ReportDataError, &&
  <1> QED
    BY <1>1, <1>2, <1>3, CheckBlameless, AndBlameless DEF AzTpm

\* The params a call is admitted with are still in order at its verdict.
LEMMA VerifyBlameless ==
    ASSUME NEW p, NEW c, NEW t, pf \in TdxPlatforms \cup SnpPlatforms, Validate(pf, p) = Ok
    PROVE  VerifyError(pf, ev, p, c, t) \notin Misuse
  <1>1. CASE pf = "az-tdx"
    <2>1. AzTdxParams_validate(p) = Ok
      BY <1>1 DEF Validate
    <2>2. Check(AtMost(p.report_data, 64), "ReportDataTooLarge") = Ok
      <3>1. TdxParams_validate(p) = Ok
        BY <2>1, AndOk DEF AzTdxParams_validate, AzParams
      <3> QED
        BY <3>1 DEF TdxParams_validate, &&
    <2>3. AzTpm(ev, p.report_data) \notin Misuse
      BY <2>2, TpmBlameless
    <2>4. AzTdxEvidenceError(ev, p, t) \notin Misuse
      <3>1. AzEnvelope(ev, HclTypes.tdx) \notin Misuse
        BY EnvelopeBlameless
      <3>2. genuine_quote(ev.quote, t) \notin Misuse
        BY QuoteBlameless
      <3>3. "SignatureVerificationFailed" \notin Misuse
        BY DEF Misuse
      <3>4. Check(verify_hcl_var_data_binding(ev.quote.body.report_data, ev.hcl),
                  "SignatureVerificationFailed") \notin Misuse
        BY <3>3, CheckBlameless
      <3> QED
        BY <2>1, <2>3, <3>1, <3>2, <3>4 DEF AzTdxEvidenceError, &&
    <2>5. CollateralError(ev.quote, c) \notin Misuse
      BY QuoteBlameless
    <2>6. AzTdxError(ev, p, c, t) \notin Misuse
      BY <2>4, <2>5, AndBlameless DEF AzTdxError
    <2> QED
      BY <1>1, <2>6 DEF VerifyError
  <1>2. CASE pf \in TdxPlatforms /\ pf # "az-tdx"
    <2>1. TdxParams_validate(p) = Ok
      BY <1>2 DEF Validate
    <2> DEFINE q == Quote(pf, ev)
    <2>2. genuine_quote(q, t) \notin Misuse /\ EventLogError(q) \notin Misuse /\ CollateralError(q, c) \notin Misuse
      BY QuoteBlameless
    <2>3. TdxError(q, p, c, t) \notin Misuse
      BY <2>1, <2>2 DEF TdxError, &&
    <2> QED
      BY <1>2, <2>3 DEF VerifyError
  <1>3. CASE pf = "az-snp"
    <2>0. pf # "az-tdx" /\ pf \notin TdxPlatforms
      BY <1>3 DEF TdxPlatforms
    <2>1. AzSnpParams_validate(p) = Ok
      BY <1>3, <2>0 DEF Validate
    <2>2. Check(AtMost(p.report_data, 64), "ReportDataTooLarge") = Ok
      <3>1. SnpParams_validate(p) = Ok
        BY <2>1 DEF AzSnpParams_validate
      <3> QED
        BY <3>1, AndOk DEF SnpParams_validate
    <2>3. AzTpm(ev, p.report_data) \notin Misuse
      BY <2>2, TpmBlameless
    <2>4. AzSnpEvidenceError(ev, p, t) \notin Misuse
      <3>1. AzEnvelope(ev, HclTypes.snp) \notin Misuse
        BY EnvelopeBlameless
      <3>2. GenerationError(ev, t) \notin Misuse
        BY ReportBlameless, OkBlameless DEF GenerationError
      <3>3. "SignatureVerificationFailed" \notin Misuse /\ "QuoteParseFailed" \notin Misuse
            /\ "UnsupportedReportVersion" \notin Misuse
        BY DEF Misuse
      <3> QED
        BY <2>1, <2>3, <3>1, <3>2, <3>3 DEF AzSnpEvidenceError, &&, Check
    <2>5. Check(c[1].gen = matched_gen(ev, t), "CertChainError") \notin Misuse
      <3>1. "CertChainError" \notin Misuse
        BY DEF Misuse
      <3> QED
        BY <3>1, CheckBlameless
    <2>6. AzSnpError(ev, p, c, t) \notin Misuse
      BY <2>4, <2>5, AndBlameless DEF AzSnpError
    <2> QED
      BY <1>3, <2>0, <2>6 DEF VerifyError
  <1>4. CASE pf \in SnpPlatforms /\ pf # "az-snp"
    <2>0. pf # "az-tdx" /\ pf \notin TdxPlatforms
      BY <1>4 DEF TdxPlatforms, SnpPlatforms
    <2>1. SnpParams_validate(p) = Ok
      BY <1>4, <2>0, AndOk DEF Validate
    <2>2. /\ parse_evidence(ev.report) \notin Misuse
          /\ check_report(ev.report, VekOf(ev, c), ev.report.cpuid[1], t) \notin Misuse
      BY ReportBlameless
    <2>3. LogError(ev) \notin Misuse
      BY DEF LogError, &&, Check, Ok, Misuse
    <2>4. "CertChainError" \notin Misuse
      BY DEF Misuse
    <2>5. SnpError(ev, p, c, t) \notin Misuse
      BY <2>1, <2>2, <2>3, <2>4, OkBlameless DEF SnpError, &&, Check
    <2> QED
      BY <1>4, <2>0, <2>5 DEF VerifyError
  <1> QED
    BY <1>1, <1>2, <1>3, <1>4

FaultsInv == \A id \in DOMAIN found : found[id].error \notin Misuse

LEMMA LookupBlameless ==
    ASSUME NEW id
    PROVE  Lookup(id).error \notin Misuse
  <1>1. \A doc : Found(doc).error \notin Misuse
    BY OkBlameless DEF Found
  <1>2. Failed("CertChainError").error \notin Misuse /\ Failed("CollateralUnavailable").error \notin Misuse
    BY DEF Failed, Misuse
  <1>3. Load(id).error \notin Misuse
    BY <1>1, <1>2, OkBlameless DEF Load
  <1> QED
    BY <1>1, <1>2, <1>3 DEF Lookup

LEMMA GatherBlameless ==
    ASSUME pf \in TdxPlatforms \cup SnpPlatforms, FaultsInv, DOMAIN found = Wanted(pf, ev, now)
    PROVE  GatherError(pf, ev, found, now) \notin Misuse
  <1> DEFINE ids == MainSet(pf, ev, now)
             errors == [i \in DOMAIN ids |-> found[ids[i]].error]
  <1>1. SetError(pf, ev) \notin Misuse
    <2>1. SnpSetError(ev) \notin Misuse
      BY DEF SnpSetError, &&, Check, Ok, Misuse
    <2>2. Check(PckChainOk(Quote(pf, ev)), "CertChainError") \notin Misuse
      BY DEF Check, Ok, Misuse
    <2> QED
      BY <2>1, <2>2, OkBlameless DEF SetError
  <1>2. ASSUME SetError(pf, ev) = Ok
        PROVE  MainSetError(pf, ev, found, now) \notin Misuse
    <2>1. DOMAIN ids \in SUBSET Nat
      BY <1>2 DEF MainSet, TdxCollateralSet, AzSnpCollateralSet, SnpCollateralSet
    <2>2. \A i \in DOMAIN ids : found[ids[i]].error \notin Misuse
      <3> TAKE i \in DOMAIN ids
      <3>1. ids[i] \in DOMAIN found
        BY DEF Wanted, ToSet
      <3> QED
        BY <3>1 DEF FaultsInv
    <2>3. CASE pf \in SnpPlatforms \ {"az-snp"} /\ Len(ids) = 2
      <3>1. {1, 2} \subseteq DOMAIN ids
        <4>1. pf \notin TdxPlatforms
          BY <2>3 DEF SnpPlatforms, TdxPlatforms
        <4>2. (\E x : ids = <<x>>) \/ (\E x, y : ids = <<x, y>>)
          BY <1>2, <4>1, MainSetIs
        <4> QED
          BY <2>3, <4>2
      <3>2. found[ids[1]].error \notin Misuse /\ found[ids[2]].error \notin Misuse
        BY <2>2, <3>1
      <3> HIDE DEF ids
      <3>3. check_report(ev.report, found[ids[1]].doc[1], ev.report.cpuid[1], now) \notin Misuse
        BY ReportBlameless
      <3> QED
        BY <2>3, <3>2, <3>3, AndBlameless DEF MainSetError, ids
    <2>4. CASE ~(pf \in SnpPlatforms \ {"az-snp"} /\ Len(ids) = 2)
      <3>1. MainSetError(pf, ev, found, now) = FirstError(errors)
        BY <2>4 DEF MainSetError, LookupErrors
      <3>2. DOMAIN errors \in SUBSET Nat /\ \A i \in DOMAIN errors : errors[i] \notin Misuse
        BY <2>1, <2>2
      <3> HIDE DEF errors
      <3>3. FirstError(errors) \notin Misuse
        BY <3>2, FirstErrorBlameless
      <3> QED
        BY <3>1, <3>3
    <2> QED
      BY <2>3, <2>4
  <1>3. (IF pf \in GcpPlatforms THEN found[EndorsementOf(pf, ev)].error ELSE Ok) \notin Misuse
    BY OkBlameless DEF FaultsInv, Wanted
  <1> QED
    BY <1>1, <1>2, <1>3, AndBlameless DEF GatherError, &&

\* What the preconditions of a GPU bundle are is checked when a call begins.
LEMMA PreconditionsHold ==
    ASSUME StartError = Ok, Call \in Judging, Asked(request.gpu.bundle), Asked(GpuPolicy)
    PROVE  /\ ~InPage
           /\ check_preconditions(request.gpu.bundle[1], GpuPolicy[1]) = Ok
           /\ GpuNonceError(GpuPolicy[1]) = Ok
  <1>1. GpuRulesError = Ok
    <2>1. AdmitError = Ok
      BY DEF StartError, &&
    <2> QED
      BY <2>1 DEF AdmitError, &&, Judging
  <1>2. ~InPage
    BY <1>1 DEF GpuRulesError, Check, Ok
  <1> QED
    BY <1>1, <1>2 DEF GpuRulesError, &&

LEMMA JwsBlameless ==
    ASSUME NEW token, NEW set, NEW t
    PROVE  verify_jws_es384(token, set, t) \notin Misuse
  BY DEF verify_jws_es384, &&, Check, Ok, Misuse

LEMMA GroupBlameless ==
    ASSUME NEW answer, NEW nonce, NEW set, NEW t, IsSequence(answer.subs)
    PROVE  verify_arch_group(answer, nonce, set, t) \notin Misuse
  <1> DEFINE errors == [i \in DOMAIN answer.subs |-> SubmoduleError(answer.subs[i], nonce, set, t)]
  <1>1. DOMAIN errors \in SUBSET Nat
    BY DEF IsSequence
  <1>2. \A i \in DOMAIN errors : errors[i] \notin Misuse
    <2> TAKE i \in DOMAIN errors
    <2>1. SubmoduleError(answer.subs[i], nonce, set, t) \notin Misuse
      <3>1. verify_jws_es384(answer.subs[i], set, t) \notin Misuse
        BY JwsBlameless
      <3>2. "NvidiaGpuSubmoduleNonceMismatch" \notin Misuse
        BY DEF Misuse
      <3> QED
        BY <3>1, <3>2, CheckBlameless, AndBlameless DEF SubmoduleError
    <2> QED
      BY <2>1
  <1> HIDE DEF errors
  <1>3. FirstError(errors) \notin Misuse
    BY <1>1, <1>2, FirstErrorBlameless
  <1>4. verify_jws_es384(answer.overall, set, t) \notin Misuse
    BY JwsBlameless
  <1>5. "NrasResponseParse" \notin Misuse /\ "NvidiaGpuBindingMismatch" \notin Misuse
    BY DEF Misuse
  <1> QED
    BY <1>3, <1>4, <1>5, CheckBlameless, AndBlameless DEF verify_arch_group, errors

\* Nor is what is refused about the GPUs, whose preconditions are checked anew.
LEMMA GpuBlameless ==
    ASSUME request \in Requests, StartError = Ok, Call \in Judging,
           Asked(request.gpu.bundle), Asked(GpuPolicy)
    PROVE  GpuError \notin Misuse
  <1> DEFINE gpu == request.gpu
             p == GpuPolicy[1]
             errors == [i \in DOMAIN ArchOrder |->
                IF ArchOrder[i] \in Groups(gpu.bundle[1])
                THEN verify_arch_group(gpu.answers[ArchOrder[i]], arch_nonce(ArchOrder[i], p), gpu.keys, now)
                ELSE Ok]
  <1>1. check_preconditions(gpu.bundle[1], p) = Ok
    BY PreconditionsHold
  <1>2. \A a \in Groups(gpu.bundle[1]) : IsSequence(gpu.answers[a].subs)
    BY RequestsAssumption
  <1>3. DOMAIN errors \in SUBSET Nat
    BY DEF ArchOrder
  <1>4. \A i \in DOMAIN errors : errors[i] \notin Misuse
    <2> TAKE i \in DOMAIN errors
    <2>1. ASSUME ArchOrder[i] \in Groups(gpu.bundle[1])
          PROVE  verify_arch_group(gpu.answers[ArchOrder[i]], arch_nonce(ArchOrder[i], p), gpu.keys, now) \notin Misuse
      BY <1>2, <2>1, GroupBlameless
    <2> QED
      BY <2>1, OkBlameless
  <1>5. verify_bundle_error(gpu.bundle[1], p, gpu.answers, gpu.keys, now)
            = (check_preconditions(gpu.bundle[1], p) && FirstError(errors))
    BY DEF verify_bundle_error
  <1> HIDE DEF errors
  <1>6. FirstError(errors) \notin Misuse
    BY <1>3, <1>4, FirstErrorBlameless
  <1>7. verify_bundle_error(gpu.bundle[1], p, gpu.answers, gpu.keys, now) \notin Misuse
    BY <1>1, <1>5, <1>6 DEF &&
  <1>8. gather_bundle(p) \notin Misuse
    <2>1. "CollateralUnavailable" \notin Misuse /\ "CertChainError" \notin Misuse /\ "JwsVerification" \notin Misuse
      BY DEF Misuse
    <2> QED
      BY <1>1, <2>1, OkBlameless DEF gather_bundle, &&, Check
  <1> QED
    BY <1>7, <1>8, AndBlameless DEF GpuError

-------------------------------------------------------------------------------
(* When collateral is asked for                                            *)

\* A call that looks collateral up has passed every check before.
StartedInv == stage \in {"gathering", "gpu"} => StartError = Ok

ConsultedInv ==
    answers # << >> /\ LastAnswer.consulted # {} =>
        /\ GenuineError(pf, ev, now) = Ok
        /\ LastAnswer.call \in Judging => LastAnswer.verdict.error \notin Misuse

ConsultInv == StartedInv /\ FaultsInv /\ ConsultedInv

LEMMA StartGenuine ==
    ASSUME StartError = Ok
    PROVE  GenuineError(pf, ev, now) = Ok /\ Validate(pf, Policy[1]) = Ok
  BY DEF StartError, &&

LEMMA SameStart ==
    ASSUME request' = request, todo' = todo
    PROVE  StartError' = StartError
  BY DEF StartError, parse_envelope, AdmitError, GpuRulesError, GpuNonceError, Policy, GpuPolicy,
         ByDefault, InPage, Call, pf, ev, now

LEMMA AnswerConsults ==
    ASSUME IInv, NEW verdict, Answer(verdict), request' = request, FaultsInv',
           consulted' # {} =>
               /\ GenuineError(pf, ev, now) = Ok
               /\ Call \in Judging => verdict.error \notin Misuse
    PROVE  ConsultInv'
  <1>1. /\ LastAnswer'.call = Call /\ LastAnswer'.verdict = verdict
        /\ LastAnswer'.consulted = consulted'
        /\ stage' = IF Call = "collateral_needed" THEN "handing in" ELSE "idle"
    BY AnswerIsLast DEF IInv
  <1>2. pf' = pf /\ ev' = ev /\ now' = now
    BY DEF pf, ev, now
  <1>3. StartedInv'
    BY <1>1 DEF StartedInv
  <1>4. ConsultedInv'
    BY <1>1, <1>2 DEF ConsultedInv
  <1> QED
    BY <1>3, <1>4 DEF ConsultInv

LEMMA NextConsults == IInv /\ ConsultInv /\ [Next]_vars => ConsultInv'
  <1> SUFFICES ASSUME IInv, ConsultInv, [Next]_vars PROVE ConsultInv'
    OBVIOUS
  <1>0. request \in Requests /\ pf \in TdxPlatforms \cup SnpPlatforms
    BY RequestsAssumption DEF IInv, CopiesInv, pf
  <1>1. CASE Begin
    <2>1. request' = request /\ consulted' = {} /\ DOMAIN found' = {}
      BY <1>1 DEF Begin, NoFcn
    <2>2. FaultsInv'
      BY <2>1 DEF FaultsInv
    <2>3. CASE StartError # Ok \/ Wanted(pf, ev, now) = {}
      <3>1. Answer(Refusal(StartError && SetError(pf, ev)))
        BY <1>1, <2>3 DEF Begin
      <3> QED
        BY <2>1, <2>2, <3>1, AnswerConsults
    <2>4. CASE ~(StartError # Ok \/ Wanted(pf, ev, now) = {})
      <3>1. todo' = todo /\ answers' = answers
        BY <1>1, <2>4 DEF Begin
      <3>2. StartedInv'
        BY <2>1, <2>4, <3>1, SameStart DEF StartedInv
      <3>3. ConsultedInv'
        BY <2>1, <3>1 DEF ConsultInv, ConsultedInv, LastAnswer, pf, ev, now
      <3> QED
        BY <2>2, <3>2, <3>3 DEF ConsultInv
    <2> QED
      BY <2>3, <2>4
  <1>2. ASSUME NEW id, LookUp(id) PROVE ConsultInv'
    <2>1. /\ UNCHANGED <<request, todo, stage, answers>>
          /\ found' = [i \in DOMAIN found \cup {id} |-> IF i = id THEN Lookup(id) ELSE found[i]]
      BY <1>2 DEF LookUp
    <2>2. FaultsInv'
      BY <2>1, LookupBlameless DEF ConsultInv, FaultsInv
    <2>3. StartedInv' /\ ConsultedInv'
      BY <2>1, SameStart DEF ConsultInv, StartedInv, ConsultedInv, LastAnswer, pf, ev, now
    <2> QED
      BY <2>2, <2>3 DEF ConsultInv
  <1>3. ASSUME Complete, UNCHANGED <<request, found, consulted>>
        PROVE  FaultsInv' /\ GenuineError(pf, ev, now) = Ok
    <2>1. StartError = Ok
      BY <1>3 DEF Complete, ConsultInv, StartedInv
    <2> QED
      BY <1>3, <2>1, StartGenuine DEF ConsultInv, FaultsInv
  <1>4. CASE Attach
    <2>1. /\ UNCHANGED <<request, found, consulted>> /\ Call = "attach" /\ Complete
          /\ Answer(Refusal(Forgiven(AttachError)))
      BY <1>4 DEF Attach
    <2>2. Call \notin Judging
      BY <2>1 DEF Judging
    <2> QED
      BY <1>3, <2>1, <2>2, AnswerConsults
  <1>5. CASE collateral_needed
    <2>1. /\ UNCHANGED <<request, found, consulted>> /\ Call = "collateral_needed" /\ Complete
          /\ Answer(Refusal(Forgiven(JudgeError)))
      BY <1>5 DEF collateral_needed
    <2>2. Call \notin Judging
      BY <2>1 DEF Judging
    <2> QED
      BY <1>3, <2>1, <2>2, AnswerConsults
  <1>6. CASE Judge
    <2>1. UNCHANGED <<request, found, consulted>> /\ Call \in Judging /\ Complete
      BY <1>6 DEF Judge
    <2>2. CASE JudgeError # Ok
      <3>1. Answer(Refusal(JudgeError))
        BY <1>6, <2>2 DEF Judge
      <3>2. JudgeError \notin Misuse
        <4>1. GatherError(pf, ev, found, now) \notin Misuse
          BY <1>0, <2>1, GatherBlameless DEF ConsultInv, Complete
        <4>2. Validate(pf, Policy[1]) = Ok
          BY <2>1, StartGenuine DEF ConsultInv, StartedInv, Complete
        <4>3. VerifyError(pf, ev, Policy[1], Gathered(pf, ev, found, now), now) \notin Misuse
          BY <1>0, <4>2, VerifyBlameless
        <4> QED
          BY <4>1, <4>3, AndBlameless DEF JudgeError
      <3>3. Refusal(JudgeError).error = JudgeError
        BY DEF Refusal, Verdict
      <3> QED
        BY <1>3, <2>1, <3>1, <3>2, <3>3, AnswerConsults
    <2>3. CASE JudgeError = Ok /\ WithGpu
      <3>1. stage' = "gpu" /\ UNCHANGED <<todo, answers>>
        BY <1>6, <2>3 DEF Judge
      <3>2. StartedInv' /\ ConsultedInv'
        BY <2>1, <3>1, SameStart
           DEF ConsultInv, StartedInv, ConsultedInv, LastAnswer, pf, ev, now, Complete
      <3> QED
        BY <1>3, <2>1, <3>2 DEF ConsultInv
    <2>4. CASE JudgeError = Ok /\ ~WithGpu
      <3>1. Answer(Verdict(Ok, Passed, Rule(ThisResult)))
        BY <1>6, <2>4 DEF Judge
      <3>2. Verdict(Ok, Passed, Rule(ThisResult)).error \notin Misuse
        BY OkBlameless DEF Verdict
      <3> QED
        BY <1>3, <2>1, <3>1, <3>2, AnswerConsults
    <2> QED
      BY <2>2, <2>3, <2>4
  <1>7. CASE JudgeGpu
    <2>1. UNCHANGED <<request, found, consulted>> /\ stage = "gpu"
      BY <1>7 DEF JudgeGpu
    <2>2. StartError = Ok /\ FaultsInv'
      BY <2>1 DEF ConsultInv, StartedInv, FaultsInv
    <2>3. GenuineError(pf, ev, now) = Ok
      BY <2>2, StartGenuine
    <2>4. Call \in Judging /\ Asked(request.gpu.bundle) /\ Asked(GpuPolicy)
      BY <2>1, JudgingPolicy DEF IInv, GpuInv
    <2>5. PICK verdict : Answer(verdict) /\ verdict.error \notin Misuse
      <3>1. GpuError \notin Misuse
        BY <1>0, <2>2, <2>4, GpuBlameless
      <3>2. /\ Refusal(GpuError).error = GpuError
            /\ \A passed, result : Verdict(Ok, passed, result).error = Ok
        BY DEF Refusal, Verdict
      <3> QED
        BY <1>7, <3>1, <3>2, OkBlameless DEF JudgeGpu
    <2> QED
      BY <2>1, <2>2, <2>3, <2>5, AnswerConsults
  <1>8. CASE HandIn
    <2>1. UNCHANGED <<request, todo, found, answers>> /\ stage' = "idle"
      BY <1>8 DEF HandIn
    <2> QED
      BY <2>1 DEF ConsultInv, StartedInv, FaultsInv, ConsultedInv, LastAnswer, pf, ev, now
  <1>9. CASE UNCHANGED vars
    <2>1. UNCHANGED <<request, todo, stage, found, answers>>
      BY <1>9 DEF vars
    <2> QED
      BY <2>1, SameStart DEF ConsultInv, StartedInv, FaultsInv, ConsultedInv, LastAnswer, pf, ev, now
  <1> QED
    BY <1>1, <1>2, <1>4, <1>5, <1>6, <1>7, <1>8, <1>9 DEF Next

LEMMA ConsultAlways == Spec => []ConsultInv
  <1>1. Init => ConsultInv
    BY DEF Init, NoFcn, ConsultInv, StartedInv, FaultsInv, ConsultedInv
  <1> QED
    BY <1>1, Invariant, NextConsults, PTL DEF Spec

(* Whatever is sent, collateral is asked for only about evidence a pinned  *)
(* root vouches for by what it carries, and never by a verification that   *)
(* ends in a refusal of the caller's own params: these are all checked     *)
(* before the first lookup, and what is checked after one blames others.   *)
THEOREM GenuineConsults == Spec => []OnlyGenuineConsults
  <1>1. IInv /\ ConsultInv => OnlyGenuineConsults
    <2> SUFFICES ASSUME IInv, ConsultInv, answers # << >>, LastAnswer.consulted # {}
                 PROVE  /\ LastAnswer.call \in Judging => LastAnswer.verdict.error \notin Misuse
                        /\ NeedsItsVek \/ EvidenceNames \subseteq Reachable(TeeEdges \cup VtpmEdges)
      BY DEF OnlyGenuineConsults
    <2>1. GenuineError(pf, ev, now) = Ok
      BY DEF ConsultInv, ConsultedInv
    <2> DEFINE edges == TeeEdges \cup VtpmEdges
    <2>2. TeeEdges \subseteq edges /\ VtpmEdges \subseteq edges
      OBVIOUS
    <2> HIDE DEF edges
    <2>3. ASSUME ~NeedsItsVek PROVE EvidenceNames \subseteq Reachable(edges)
      BY <2>1, <2>2, <2>3, GenuineVouched
    <2> QED
      BY <2>3 DEF ConsultInv, ConsultedInv, edges
  <1> QED
    BY <1>1, Invariant, ConsultAlways, PTL

-------------------------------------------------------------------------------
(* GPUs *)

(* A verdict that passes with GPUs has checked NVIDIA's answers about all  *)
(* of them, against the challenge the platform's evidence is bound to.     *)
GpuJudged ==
    LET gpu == request.gpu
        p == gpu.policy[1]
    IN  /\ verify_bundle_error(gpu.bundle[1], p, gpu.answers, gpu.keys, now) = Ok
        /\ GpuPassed(verify_bundle(gpu.bundle[1], p, gpu.answers))
        /\ request.policy[1].report_data = p.user_nonce

DevicesInv == Passing /\ WithGpuEvidence => GpuJudged

LEMMA AnswerJudges ==
    ASSUME IInv, NEW verdict, Answer(verdict), request' = request,
           Call \in Judging /\ verdict.passed /\ WithGpuEvidence => GpuJudged
    PROVE  DevicesInv'
  <1>1. LastAnswer'.call = Call /\ LastAnswer'.verdict = verdict
    BY AnswerIsLast DEF IInv
  <1>2. WithGpuEvidence' = WithGpuEvidence /\ GpuJudged' = GpuJudged
    BY DEF WithGpuEvidence, GpuJudged, now
  <1> QED
    BY <1>1, <1>2 DEF DevicesInv, Passing, Judged

LEMMA RefusalJudges ==
    ASSUME IInv, NEW error, Answer(Refusal(error)), request' = request
    PROVE  DevicesInv'
  <1>1. ~Refusal(error).passed
    BY DEF Refusal, Verdict
  <1> QED
    BY <1>1, AnswerJudges

LEMMA NextJudges == IInv /\ ConsultInv /\ DevicesInv /\ [Next]_vars => DevicesInv'
  <1> SUFFICES ASSUME IInv, ConsultInv, DevicesInv, [Next]_vars PROVE DevicesInv'
    OBVIOUS
  <1>0. ASSUME UNCHANGED <<request, answers>>, stage' = "idle" => stage = "idle"
        PROVE  DevicesInv'
    BY <1>0 DEF DevicesInv, Passing, Judged, LastAnswer, WithGpuEvidence, GpuJudged, now
  <1>1. CASE Begin
    <2>1. request' = request
      BY <1>1 DEF Begin
    <2>2. CASE StartError # Ok \/ Wanted(pf, ev, now) = {}
      BY <1>1, <2>1, <2>2, RefusalJudges DEF Begin
    <2>3. CASE ~(StartError # Ok \/ Wanted(pf, ev, now) = {})
      BY <1>0, <1>1, <2>1, <2>3 DEF Begin
    <2> QED
      BY <2>2, <2>3
  <1>2. ASSUME NEW id, LookUp(id) PROVE DevicesInv'
    BY <1>0, <1>2 DEF LookUp
  <1>3. CASE Attach
    BY <1>3, RefusalJudges DEF Attach
  <1>4. CASE collateral_needed
    BY <1>4, RefusalJudges DEF collateral_needed
  <1>5. ASSUME StartError = Ok, Call \in Judging, WithGpuEvidence
        PROVE  /\ ~InPage /\ GpuPolicy = request.gpu.policy
               /\ request.policy[1].report_data = request.gpu.policy[1].user_nonce
    <2>1. GpuPolicy = request.gpu.policy /\ Policy = request.policy
      BY <1>5, JudgingPolicy
    <2>2. /\ ~InPage
          /\ check_preconditions(request.gpu.bundle[1], GpuPolicy[1]) = Ok
          /\ GpuNonceError(GpuPolicy[1]) = Ok
      BY <1>5, <2>1, PreconditionsHold DEF WithGpuEvidence
    <2>3. Asked(GpuPolicy[1].user_nonce)
      BY <2>2 DEF check_preconditions, &&, Check, Ok
    <2>4. Policy[1].report_data = GpuPolicy[1].user_nonce
      BY <2>2, <2>3 DEF GpuNonceError, &&, Check, Ok
    <2> QED
      BY <2>1, <2>2, <2>4
  <1>6. CASE Judge
    <2>1. request' = request /\ Call \in Judging /\ StartError = Ok
      BY <1>6 DEF Judge, Complete, ConsultInv, StartedInv
    <2>2. CASE JudgeError # Ok
      BY <1>6, <2>1, <2>2, RefusalJudges DEF Judge
    <2>3. CASE JudgeError = Ok /\ WithGpu
      BY <1>0, <1>6, <2>1, <2>3 DEF Judge
    <2>4. CASE JudgeError = Ok /\ ~WithGpu
      <3>1. Answer(Verdict(Ok, Passed, Rule(ThisResult)))
        BY <1>6, <2>4 DEF Judge
      <3>2. ~WithGpuEvidence
        BY <1>5, <2>1, <2>4 DEF WithGpu, WithGpuEvidence
      <3> QED
        BY <2>1, <3>1, <3>2, AnswerJudges
    <2> QED
      BY <2>2, <2>3, <2>4
  <1>7. CASE JudgeGpu
    <2>1. request' = request /\ stage = "gpu"
      BY <1>7 DEF JudgeGpu
    <2>2. StartError = Ok /\ Call \in Judging
      BY <2>1 DEF ConsultInv, StartedInv, IInv, GpuInv
    <2>3. CASE GpuError # Ok
      BY <1>7, <2>1, <2>3, RefusalJudges DEF JudgeGpu
    <2>4. CASE GpuError = Ok
      <3> DEFINE gpu == verify_bundle(request.gpu.bundle[1], GpuPolicy[1], request.gpu.answers)
                 verdict == Verdict(Ok, Passed /\ GpuPassed(gpu), Rule(ThisResult))
      <3>1. Answer(verdict)
        BY <1>7, <2>4 DEF JudgeGpu
      <3>2. verdict.passed => GpuPassed(gpu)
        BY DEF Verdict
      <3> HIDE DEF verdict
      <3>3. ASSUME WithGpuEvidence, verdict.passed PROVE GpuJudged
        <4>1. verify_bundle_error(request.gpu.bundle[1], GpuPolicy[1], request.gpu.answers,
                                  request.gpu.keys, now) = Ok
          BY <2>4, AndOk DEF GpuError
        <4> QED
          BY <1>5, <2>2, <3>2, <3>3, <4>1 DEF GpuJudged
      <3> QED
        BY <2>1, <3>1, <3>3, AnswerJudges
    <2> QED
      BY <2>3, <2>4
  <1>8. CASE HandIn
    <2>1. request' = request /\ answers' = answers /\ stage = "handing in"
      BY <1>8 DEF HandIn
    <2>2. ~Judged'
      BY <2>1 DEF IInv, HandingIn, Judged, LastAnswer, Judging
    <2> QED
      BY <2>2 DEF DevicesInv, Passing
  <1>9. CASE UNCHANGED vars
    BY <1>0, <1>9 DEF vars
  <1> QED
    BY <1>1, <1>2, <1>3, <1>4, <1>6, <1>7, <1>8, <1>9 DEF Next

LEMMA DevicesAlways == Spec => []DevicesInv
  <1>1. Init => DevicesInv
    BY DEF Init, DevicesInv, Passing, Judged
  <1> QED
    BY <1>1, Invariant, ConsultAlways, NextJudges, PTL DEF Spec

(* Whatever holds the pinned keys and follows the signatures holds the key *)
(* of every certificate of a chain that verifies, however long.            *)
LEMMA ChainFromPinned ==
    ASSUME NEW chain, IsSequence(chain), verify_x5c_chain(chain),
           NEW edges, ChainVouches(chain) \subseteq edges,
           NEW S, PinnedKeys \subseteq S, Follow(edges, S) = S
    PROVE  chain[1].key \in S
  <1> DEFINE n == Len(chain)
             bad == {i \in 1..n : chain[i].key \notin S}
             D == {n - i : i \in bad}
  <1>1. n \in Nat /\ DOMAIN chain = 1..n /\ n # 0
    <2>1. n \in Nat /\ DOMAIN chain = 1..n
      BY DEF IsSequence
    <2>2. ASSUME n = 0 PROVE FALSE
      <3>1. chain = [i \in 1..0 |-> chain[i]]
        BY <2>2 DEF IsSequence
      <3>2. chain = << >>
        BY <3>1
      <3> QED
        BY <3>2 DEF verify_x5c_chain
    <2> QED
      BY <2>1, <2>2
  <1>2. chain[n].key \in S
    BY DEF verify_x5c_chain, Last
  <1>3. \A i \in 1..(n - 1) : chain[i + 1].key \in S => chain[i].key \in S
    <2> TAKE i \in 1..(n - 1)
    <2>1. SignedBy(chain[i], chain[i + 1].key) /\ i \in DOMAIN chain
      BY <1>1 DEF verify_x5c_chain
    <2>2. chain[i].intact /\ chain[i].by = chain[i + 1].key
      BY <2>1 DEF SignedBy
    <2>3. <<chain[i].by, chain[i].key>> \in edges
      BY <2>1, <2>2, ChainEdge
    <2> QED
      BY <2>2, <2>3, Followed
  <1>4. bad = {}
    <2> SUFFICES ASSUME bad # {} PROVE FALSE
      OBVIOUS
    <2>1. D \in SUBSET Nat /\ D # {}
      BY <1>1
    <2> HIDE DEF D
    <2>2. FirstOf(D) \in D /\ \A j \in D : FirstOf(D) <= j
      BY <2>1, FirstIsLeast
    <2>3. PICK i \in bad : FirstOf(D) = n - i
      BY <2>2 DEF D
    <2>4. i \in 1..(n - 1)
      BY <1>1, <1>2, <2>3
    <2>5. chain[i + 1].key \notin S
      BY <1>3, <2>3, <2>4
    <2>6. n - (i + 1) \in D
      BY <1>1, <2>4, <2>5 DEF D
    <2> QED
      BY <1>1, <2>2, <2>3, <2>4, <2>6
  <1> QED
    BY <1>1, <1>4

LEMMA KeyNamedIs ==
    ASSUME NEW set, IsSequence(set), NEW kid, Asked(KeyNamed(set, kid))
    PROVE  \E i \in DOMAIN set : KeyNamed(set, kid)[1] = set[i]
  <1> DEFINE named == {i \in DOMAIN set : set[i].kid = kid}
  <1>1. named \in SUBSET Nat /\ named \subseteq DOMAIN set
    BY DEF IsSequence
  <1>2. named # {} /\ KeyNamed(set, kid) = Rule(set[FirstOf(named)])
    BY DEF KeyNamed, Asked
  <1> HIDE DEF named
  <1>3. FirstOf(named) \in named
    BY <1>1, <1>2, FirstIsLeast
  <1> QED
    BY <1>1, <1>2, <1>3, RuleIsAsked

LEMMA TokenVouched ==
    ASSUME NEW token, NEW t, IsSequence(request.gpu.keys),
           \A i \in DOMAIN request.gpu.keys : IsSequence(request.gpu.keys[i].x5c),
           verify_jws_es384(token, request.gpu.keys, t) = Ok
    PROVE  /\ token.intact /\ t <= token.until[1]
           /\ \A trusted \in FromPinnedKeys(KeyEdges) : token.by \in trusted
  <1> DEFINE named == KeyNamed(request.gpu.keys, token.kid[1])
  <1>1. /\ Asked(named) /\ verify_x5c_chain(named[1].x5c)
        /\ SignedBy(token, named[1].x5c[1].key) /\ enforce_time_claims(token, t)
    <2> HIDE DEF named
    <2> QED
      BY DEF verify_jws_es384, &&, Check, Ok, named
  <1>2. PICK i \in DOMAIN request.gpu.keys : named[1] = request.gpu.keys[i]
    BY <1>1, KeyNamedIs
  <1> HIDE DEF named
  <1>3. ChainVouches(named[1].x5c) \subseteq KeyEdges
    BY <1>2 DEF KeyEdges
  <1>4. ASSUME NEW trusted \in FromPinnedKeys(KeyEdges)
        PROVE  token.by \in trusted
    <2>1. PinnedKeys \subseteq trusted /\ Follow(KeyEdges, trusted) = trusted
      BY DEF FromPinnedKeys
    <2>2. IsSequence(named[1].x5c)
      BY <1>2
    <2>3. named[1].x5c[1].key \in trusted
      BY <1>1, <1>3, <2>1, <2>2, ChainFromPinned
    <2> QED
      BY <1>1, <2>3 DEF SignedBy
  <1> QED
    BY <1>1, <1>4 DEF SignedBy, enforce_time_claims

\* What an answer whose group verified says, token by token.
LEMMA GroupVouched ==
    ASSUME NEW answer, NEW nonce, NEW t, IsSequence(answer.subs),
           IsSequence(request.gpu.keys),
           \A i \in DOMAIN request.gpu.keys : IsSequence(request.gpu.keys[i].x5c),
           verify_arch_group(answer, nonce, request.gpu.keys, t) = Ok
    PROVE  \A token \in Tokens(answer) :
               /\ token.nonce = nonce /\ token.intact /\ t <= token.until[1]
               /\ \A trusted \in FromPinnedKeys(KeyEdges) : token.by \in trusted
  <1> DEFINE errors == [i \in DOMAIN answer.subs |->
                            SubmoduleError(answer.subs[i], nonce, request.gpu.keys, t)]
  <1>1. /\ verify_jws_es384(answer.overall, request.gpu.keys, t) = Ok
        /\ answer.overall.nonce = nonce /\ FirstError(errors) = Ok
    <2> HIDE DEF errors
    <2>1. /\ verify_jws_es384(answer.overall, request.gpu.keys, t) = Ok
          /\ Check(answer.overall.nonce = nonce, "NvidiaGpuBindingMismatch") = Ok
          /\ FirstError(errors) = Ok
      BY AndOk DEF verify_arch_group, errors
    <2> QED
      BY <2>1 DEF Check, Ok
  <1>2. \A i \in DOMAIN answer.subs :
            /\ verify_jws_es384(answer.subs[i], request.gpu.keys, t) = Ok
            /\ answer.subs[i].nonce = nonce
    <2>1. DOMAIN errors \in SUBSET Nat /\ DOMAIN errors = DOMAIN answer.subs
      BY DEF IsSequence
    <2>2. \A i \in DOMAIN answer.subs :
              errors[i] = SubmoduleError(answer.subs[i], nonce, request.gpu.keys, t)
      OBVIOUS
    <2> HIDE DEF errors
    <2>3. \A i \in DOMAIN errors : errors[i] = Ok
      BY <1>1, <2>1, NoErrorLeft
    <2> TAKE i \in DOMAIN answer.subs
    <2>4. SubmoduleError(answer.subs[i], nonce, request.gpu.keys, t) = Ok
      BY <2>1, <2>2, <2>3
    <2> QED
      BY <2>4 DEF SubmoduleError, &&, Check, Ok
  <1> TAKE token \in Tokens(answer)
  <1>3. verify_jws_es384(token, request.gpu.keys, t) = Ok /\ token.nonce = nonce
    <2>1. token = answer.overall \/ \E i \in DOMAIN answer.subs : token = answer.subs[i]
      BY DEF Tokens, ToSet
    <2> QED
      BY <1>1, <1>2, <2>1
  <1> QED
    BY <1>3, TokenVouched

(* Whatever devices, answers and keys come, a verdict about GPUs passes    *)
(* only if every token about every group of them answers the challenge the *)
(* CPU's evidence answers and is signed through a chain, of any length,    *)
(* from a pinned key, each device is reported and none fails the policy.   *)
THEOREM GpusShare == Spec => []GpuSharesTheChallenge
  <1>1. IInv /\ DevicesInv /\ NoRuleLeftOut => GpuSharesTheChallenge
    <2> SUFFICES ASSUME IInv, DevicesInv, NoRuleLeftOut, Passing, WithGpuEvidence
                 PROVE  GpuSharesTheChallenge
      BY DEF GpuSharesTheChallenge
    <2> DEFINE gpu == request.gpu
               bundle == gpu.bundle[1]
               p == gpu.policy[1]
               groups == {bundle.devices[i] : i \in DOMAIN bundle.devices}
               reported == UNION {{<<a, i>> : i \in DOMAIN gpu.answers[a].subs} : a \in groups}
               gpuResult == verify_bundle(bundle, p, gpu.answers)
    <2>1. /\ verify_bundle_error(bundle, p, gpu.answers, gpu.keys, now) = Ok
          /\ GpuPassed(gpuResult)
          /\ request.policy[1].report_data = p.user_nonce
      BY DEF DevicesInv, GpuJudged
    <2>2. ReportDataBorne(request.policy[1])
      BY DEF NoRuleLeftOut
    <2>3. groups = Groups(bundle) /\ reported = Submodules(bundle, gpu.answers)
      BY DEF Groups, Submodules
    <2>4. /\ groups \subseteq ToSet(ArchOrder)
          /\ \A a \in groups : IsSequence(gpu.answers[a].subs)
          /\ IsSequence(gpu.keys) /\ \A i \in DOMAIN gpu.keys : IsSequence(gpu.keys[i].x5c)
      BY <2>3, RequestsAssumption DEF IInv, CopiesInv, WithGpuEvidence
    <2>5. \A a \in groups : verify_arch_group(gpu.answers[a], arch_nonce(a, p), gpu.keys, now) = Ok
      <3> DEFINE errors == [i \in DOMAIN ArchOrder |->
                    IF ArchOrder[i] \in Groups(bundle)
                    THEN verify_arch_group(gpu.answers[ArchOrder[i]], arch_nonce(ArchOrder[i], p), gpu.keys, now)
                    ELSE Ok]
      <3>1. DOMAIN errors \in SUBSET Nat /\ DOMAIN errors = DOMAIN ArchOrder
        BY DEF ArchOrder
      <3>2. \A i \in DOMAIN ArchOrder : ArchOrder[i] \in Groups(bundle) =>
                errors[i] = verify_arch_group(gpu.answers[ArchOrder[i]], arch_nonce(ArchOrder[i], p),
                                              gpu.keys, now)
        OBVIOUS
      <3>3. FirstError(errors) = Ok
        BY <2>1, AndOk DEF verify_bundle_error
      <3> HIDE DEF errors
      <3>4. \A i \in DOMAIN errors : errors[i] = Ok
        BY <3>1, <3>3, NoErrorLeft
      <3> TAKE a \in groups
      <3>5. PICK i \in DOMAIN ArchOrder : a = ArchOrder[i]
        BY <2>4 DEF ToSet
      <3> QED
        BY <2>3, <3>1, <3>2, <3>4, <3>5
    <2>6. \A a \in groups : arch_nonce(a, p) = SessionNonce(a)
      BY <2>1 DEF arch_nonce, SessionNonce
    <2>7. \A a \in groups : \A t \in Tokens(gpu.answers[a]) :
              /\ t.nonce = SessionNonce(a) /\ t.intact /\ now <= t.until[1]
              /\ \A trusted \in FromPinnedKeys(KeyEdges) : t.by \in trusted
      <3> TAKE a \in groups
      <3>1. IsSequence(gpu.answers[a].subs)
        BY <2>4
      <3> QED
        BY <2>4, <2>5, <2>6, <3>1, GroupVouched
    <2>8. Cardinality(reported) = Len(bundle.devices)
      BY <2>1, <2>3 DEF GpuPassed, verify_bundle
    <2>9. \A x \in reported : device_policy_holds(gpu.answers[x[1]].subs[x[2]].device, p.policy)
      BY <2>1, <2>3 DEF GpuPassed, verify_bundle
    <2> QED
      BY <2>2, <2>7, <2>8, <2>9 DEF GpuSharesTheChallenge
  <1> QED
    BY <1>1, Invariant, DevicesAlways, NoRuleForgotten, PTL

-------------------------------------------------------------------------------
(* The boot log. *)

\* A verdict on a TD's quote was reached with the log compared.
LEMMA LogCompared ==
    ASSUME IInv, NEW p, WentWell(p), pf \in {"tdx", "gcp-tdx"}, Asked(ev.quote.ccel)
    PROVE  verify_ccel_against_rtmrs(ev.quote.ccel[1], ev.quote.body.rtmr)
  <1>1. Quote(pf, ev) = ev.quote /\ pf \in TdxPlatforms /\ pf # "az-tdx"
    BY DEF Quote, TdxPlatforms
  <1>2. TdxError(ev.quote, p, Gathered(pf, ev, found, now), now) = Ok
    BY <1>1 DEF WentWell, VerifyError
  <1>3. EventLogError(ev.quote) = Ok
    BY <1>2 DEF TdxError, &&
  <1> QED
    BY <1>3 DEF EventLogError, &&, Check, Ok

(* The reading of a log that is accepted stops where the log ends: nothing *)
(* before that is of an unknown algorithm.                                 *)
LEMMA ReadToTheEnd ==
    ASSUME NEW ccel, IsSequence(ccel.log), parse_ccel_ok(ccel)
    PROVE  /\ ReadCount(ccel.log) \in 0..Len(ccel.log)
           /\ \A n \in DOMAIN ccel.log :
                  n <= ReadCount(ccel.log) <=> \A m \in 1..n : ~EndsLog(ccel.log[m])
  <1> DEFINE log == ccel.log
             stops == Stops(log)
             last == FirstOf(stops)
  <1>1. Len(log) \in Nat /\ DOMAIN log = 1..Len(log)
    BY DEF IsSequence
  <1>2. CASE stops = {}
    <2>1. ReadCount(log) = Len(log)
      BY <1>2 DEF ReadCount
    <2>2. \A m \in 1..Len(log) : ~EndsLog(log[m])
      BY <1>1, <1>2 DEF Stops
    <2> QED
      BY <1>1, <2>1, <2>2
  <1>3. CASE stops # {}
    <2>1. stops \in SUBSET Nat /\ stops \subseteq 1..Len(log)
      BY <1>1 DEF Stops
    <2>2. last \in stops /\ \A j \in stops : last <= j
      <3> HIDE DEF stops
      <3> QED
        BY <1>3, <2>1, FirstIsLeast
    <2>3. ReadCount(log) = last - 1
      BY <1>3 DEF ReadCount
    <2> HIDE DEF last
    <2>4. last \in 1..Len(log) /\ ReadCount(log) + 1 = last /\ ReadCount(log) \in 0..Len(log)
      BY <1>1, <2>1, <2>2, <2>3
    <2>5. EndsLog(log[last])
      <3>1. ~BadAlgorithm(log[last])
        BY <1>1, <2>4 DEF parse_ccel_ok
      <3> QED
        BY <2>2, <3>1 DEF Stops
    <2>6. \A m \in 1..(last - 1) : ~EndsLog(log[m])
      <3> TAKE m \in 1..(last - 1)
      <3>1. m \in 1..Len(log) /\ ~(last <= m)
        BY <1>1, <2>4
      <3>2. m \notin stops
        BY <2>2, <3>1
      <3> QED
        BY <1>1, <3>1, <3>2 DEF Stops
    <2>7. ASSUME NEW n \in 1..Len(log)
          PROVE  n <= last - 1 <=> \A m \in 1..n : ~EndsLog(log[m])
      <3>1. CASE n <= last - 1
        <4>1. \A m \in 1..n : m \in 1..(last - 1)
          BY <1>1, <2>4, <3>1
        <4> QED
          BY <2>6, <3>1, <4>1
      <3>2. CASE ~(n <= last - 1)
        <4>1. last \in 1..n
          BY <1>1, <2>4, <3>2
        <4> QED
          BY <2>5, <3>2, <4>1
      <3> QED
        BY <3>1, <3>2
    <2> HIDE DEF stops
    <2> QED
      BY <1>1, <2>3, <2>4, <2>7
  <1> QED
    BY <1>2, <1>3

\* The digest of an event is the last SHA-384 digest of its entry.
LEMMA LastDigest ==
    ASSUME NEW e, IsSequence(e.digests), Sha384Of(e) # {}
    PROVE  \E last \in Sha384Of(e) :
               /\ \A d \in Sha384Of(e) : d <= last
               /\ sha384_digest(e) = e.digests[last].value
  <1> DEFINE S == Sha384Of(e)
             N == Len(e.digests)
             mirror == {N - i : i \in S}
             low == FirstOf(mirror)
  <1>1. N \in Nat /\ S \subseteq 1..N
    BY DEF IsSequence, Sha384Of
  <1>2. low \in mirror /\ \A j \in mirror : low <= j
    <2>1. mirror \in SUBSET Nat /\ mirror # {}
      BY <1>1
    <2> HIDE DEF mirror
    <2> QED
      BY <2>1, FirstIsLeast
  <1> HIDE DEF low, S, N
  <1>3. PICK i \in S : low = N - i
    BY <1>2
  <1>4. \A d \in S : d <= i
    BY <1>1, <1>2, <1>3
  <1> DEFINE last == CHOOSE l \in S : \A d \in S : d <= l
  <1>5. last \in S /\ \A d \in S : d <= last
    BY <1>4
  <1> QED
    BY <1>5 DEF sha384_digest, S

(* A register replayed holds the digest of each of its events, at the      *)
(* place the event has among them.                                         *)
LEMMA ReplayedIs ==
    ASSUME NEW ccel, NEW i \in 1..4, ReadCount(ccel.log) \in Nat
    PROVE  LET N == ReadCount(ccel.log)
               own == {n \in parse_ccel(ccel) : ccel.log[n].mr = i}
           IN  /\ Len(replay_rtmrs(ccel)[i]) = Cardinality(own)
               /\ \A n \in own : replay_rtmrs(ccel)[i][Cardinality({m \in own : m <= n})]
                                     = sha384_digest(ccel.log[n])
  <1> DEFINE N == ReadCount(ccel.log)
             own == {n \in parse_ccel(ccel) : ccel.log[n].mr = i}
             events == InOrder(own, N)
             rtmr == [j \in 1..Len(events) |-> sha384_digest(ccel.log[events[j]])]
  <1>1. replay_rtmrs(ccel)[i] = rtmr
    BY DEF replay_rtmrs
  <1>2. Lists(events, own, N)
    BY InOrderLists
  <1>3. UpTo(own, N) = own
    BY DEF UpTo, parse_ccel
  <1>4. own \subseteq 1..N
    BY DEF parse_ccel
  <1> HIDE DEF own, events
  <1>5. events \in Seq(own) /\ Len(events) = Cardinality(own) /\ Len(events) \in Nat
    BY <1>2, <1>3 DEF Lists
  <1>6. Len(rtmr) = Cardinality(own)
    BY <1>5
  <1>7. ASSUME NEW n \in own
        PROVE  rtmr[Cardinality({m \in own : m <= n})] = sha384_digest(ccel.log[n])
    <2>0. n \in 1..N /\ N \in Nat
      BY <1>4
    <2>1. {m \in own : m <= n} = UpTo(own, n) /\ n \in UpTo(own, n) /\ n \in 0..N /\ n \in Nat
      <3> HIDE DEF N
      <3>1. \A m \in own : m \in 1..N
        BY <1>4
      <3>2. n \in Nat /\ n \in 0..N /\ n \in 1..n
        BY <2>0
      <3>3. ASSUME NEW m \in own PROVE m <= n <=> m \in 1..n
        <4>1. m \in Nat /\ m >= 1
          BY <2>0, <3>1
        <4> QED
          BY <3>2, <4>1
      <3> QED
        BY <3>2, <3>3 DEF UpTo
    <2>2. events[Cardinality(UpTo(own, n))] = n
      BY <1>2, <1>3 DEF Lists
    <2>3. Cardinality(UpTo(own, n)) \in 1..Len(events)
      <3>1. Cardinality(UpTo(own, n)) <= Cardinality(UpTo(own, N))
        BY <2>1, UpToGrows
      <3>2. Cardinality(UpTo(own, n)) \in Nat \ {0}
        BY <2>1, UpToGrows
      <3> QED
        BY <1>3, <1>5, <3>1, <3>2
    <2> QED
      BY <2>1, <2>2, <2>3
  <1> QED
    BY <1>1, <1>6, <1>7 DEF own

(* A passing verdict on a quote with a boot log says that the log tells    *)
(* how the first three RTMRs came about.                                   *)
THEOREM BootLogMeasured == Spec => []BootLogIsMeasured
  <1>1. ASSUME IInv, Passing, pf \in {"tdx", "gcp-tdx"}, Asked(ev.quote.ccel)
        PROVE  LET log == ev.quote.ccel[1].log
                   Extending(i) == {n \in DOMAIN log : /\ \A m \in 1..n : ~EndsLog(log[m])
                                                      /\ log[n].mr = i
                                                      /\ Sha384Of(log[n]) # {}}
               IN  \A i \in 1..3 :
                       /\ Len(ev.quote.body.rtmr[i]) = Cardinality(Extending(i))
                       /\ \A n \in Extending(i) :
                              \E last \in Sha384Of(log[n]) :
                                  /\ \A d \in Sha384Of(log[n]) : d <= last
                                  /\ ev.quote.body.rtmr[i][Cardinality({m \in Extending(i) : m <= n})]
                                         = log[n].digests[last].value
    <2> DEFINE ccel == ev.quote.ccel[1]
               log == ccel.log
               N == ReadCount(log)
               Extending(i) == {n \in DOMAIN log : /\ \A m \in 1..n : ~EndsLog(log[m])
                                                  /\ log[n].mr = i
                                                  /\ Sha384Of(log[n]) # {}}
               Own(i) == {n \in parse_ccel(ccel) : log[n].mr = i}
    <2>1. IsSequence(log) /\ \A n \in DOMAIN log : IsSequence(log[n].digests)
      BY <1>1, PlatformsAre DEF TdxPlatforms, WellFormedQuote
    <2>2. verify_ccel_against_rtmrs(ccel, ev.quote.body.rtmr)
      BY <1>1, PassingIs, LogCompared
    <2> HIDE DEF ccel
    <2>3. parse_ccel_ok(ccel) /\ \A i \in 1..3 : replay_rtmrs(ccel)[i] = ev.quote.body.rtmr[i]
      BY <2>2 DEF verify_ccel_against_rtmrs
    <2>4. /\ N \in 0..Len(log) /\ Len(log) \in Nat /\ DOMAIN log = 1..Len(log)
          /\ \A n \in DOMAIN log : n <= N <=> \A m \in 1..n : ~EndsLog(log[m])
      BY <2>1, <2>3, ReadToTheEnd DEF IsSequence
    <2>5. \A i \in 1..3 : Extending(i) = Own(i)
      <3> HIDE DEF log, N
      <3> QED
        BY <2>4 DEF parse_ccel, log, N
    <2> SUFFICES ASSUME NEW i \in 1..3
                 PROVE  /\ Len(ev.quote.body.rtmr[i]) = Cardinality(Extending(i))
                        /\ \A n \in Extending(i) :
                               \E last \in Sha384Of(log[n]) :
                                   /\ \A d \in Sha384Of(log[n]) : d <= last
                                   /\ ev.quote.body.rtmr[i][Cardinality({m \in Extending(i) : m <= n})]
                                          = log[n].digests[last].value
      BY DEF ccel
    <2>6. /\ Len(replay_rtmrs(ccel)[i]) = Cardinality(Own(i))
          /\ \A n \in Own(i) : replay_rtmrs(ccel)[i][Cardinality({m \in Own(i) : m <= n})]
                                   = sha384_digest(log[n])
      <3>1. i \in 1..4 /\ N \in Nat
        BY <2>4
      <3> QED
        BY <3>1, ReplayedIs
    <2>7. \A n \in Own(i) : n \in DOMAIN log /\ Sha384Of(log[n]) # {}
      BY <2>5
    <2> HIDE DEF Own, Extending, log
    <2>8. \A n \in Own(i) :
              \E last \in Sha384Of(log[n]) :
                  /\ \A d \in Sha384Of(log[n]) : d <= last
                  /\ sha384_digest(log[n]) = log[n].digests[last].value
      BY <2>1, <2>7, LastDigest
    <2>9. Extending(i) = Own(i) /\ replay_rtmrs(ccel)[i] = ev.quote.body.rtmr[i]
      BY <2>3, <2>5
    <2>10. \A n \in Own(i) :
              \E last \in Sha384Of(log[n]) :
                  /\ \A d \in Sha384Of(log[n]) : d <= last
                  /\ replay_rtmrs(ccel)[i][Cardinality({m \in Own(i) : m <= n})]
                         = log[n].digests[last].value
      BY <2>6, <2>8
    <2>11. ASSUME NEW n \in Extending(i)
           PROVE  \E last \in Sha384Of(log[n]) :
                      /\ \A d \in Sha384Of(log[n]) : d <= last
                      /\ ev.quote.body.rtmr[i][Cardinality({m \in Extending(i) : m <= n})]
                             = log[n].digests[last].value
      <3>1. n \in Own(i) /\ {m \in Extending(i) : m <= n} = {m \in Own(i) : m <= n}
        BY <2>9
      <3> QED
        BY <2>9, <2>10, <3>1
    <2> QED
      BY <2>6, <2>9, <2>11
  <1>2. IInv => BootLogIsMeasured
    BY <1>1 DEF BootLogIsMeasured
  <1> QED
    BY <1>2, Invariant, PTL

-------------------------------------------------------------------------------
(* The three ways to a verdict.  What a call finds, asks for and answers   *)
(* is restated as a function of the request r and of the copies handed in, *)
(* h, and carried, c.                                                      *)

CopiesOf(h, c, id) ==
    (IF id \in DOMAIN h THEN <<h[id]>> ELSE << >>)
    \o (IF id \in DOMAIN c THEN <<c[id]>> ELSE << >>)

LoadOf(r, online, id) ==
    IF ~online \/ id \in r.down THEN Failed("CollateralUnavailable")
    ELSE IF id \notin DOMAIN r.published
         THEN IF id[1] = "gce-endorsement" THEN [error |-> Ok, doc |-> NoRule]
              ELSE Failed(IF NamedByEvidence(id) THEN "CertChainError" ELSE "CollateralUnavailable")
    ELSE IF Verifies(id, r.published[id]) THEN Found(r.published[id])
    ELSE Failed("CertChainError")

LookupOf(r, online, h, c, id) ==
    LET copies == CopiesOf(h, c, id)
        load == LoadOf(r, online, id)
    IN  IF \E i \in DOMAIN copies : ~Verifies(id, copies[i]) THEN Failed("CertChainError")
        ELSE IF GoodEnough(copies) \/ (copies # << >> /\ ~Asked(load.doc))
             THEN Found(Newest(copies))
        ELSE IF copies = << >> THEN load
        ELSE Found(Newest(Append(copies, load.doc[1])))

WantedBy(r) == Wanted(r.platform, r.evidence, r.now)
FoundOf(r, online, h, c) == [id \in WantedBy(r) |-> LookupOf(r, online, h, c, id)]
NeededOf(r, h, c) == {id \in WantedBy(r) : ~GoodEnough(CopiesOf(h, c, id))}

JudgeErrorOf(r, p, f) ==
       GatherError(r.platform, r.evidence, f, r.now)
    && VerifyError(r.platform, r.evidence, p, Gathered(r.platform, r.evidence, f, r.now), r.now)

ResultOf(r, p, f) == Result(r.platform, r.evidence, p, f, r.now)

AcceptableIn(r, f) == \A id \in WantedBy(r) : Asked(f[id].doc) => f[id].doc[1].acceptable

VerdictOf(r, p, f) ==
    IF JudgeErrorOf(r, p, f) # Ok THEN Refusal(JudgeErrorOf(r, p, f))
    ELSE Verdict(Ok, PlatformPassed(r.platform, ResultOf(r, p, f)) /\ AcceptableIn(r, f),
                 Rule(ResultOf(r, p, f)))

AdmissionOf(r) ==
       Check(r.size = "fits", "EvidenceTooLarge")
    && Check(r.parses, "EvidenceDeserialize")
    && Check(Asked(r.policy), "PlatformNotAllowed")
    && Check(r.decodes, "EvidenceDeserialize")
    && Validate(r.platform, r.policy[1])
    && GenuineError(r.platform, r.evidence, r.now)

RefusedAtOnce(r) == AdmissionOf(r) # Ok \/ WantedBy(r) = {}

JudgedWith(r, online, h, c) ==
    IF RefusedAtOnce(r) THEN Refusal(AdmissionOf(r) && SetError(r.platform, r.evidence))
    ELSE VerdictOf(r, r.policy[1], FoundOf(r, online, h, c))

\* What an attester leaves attached, and a page hands in.
FetchedBy(r) == FoundOf(r, TRUE, NoFcn, r.attached)
AttachedBy(r) ==
    [id \in {i \in WantedBy(r) : Asked(FetchedBy(r)[i].doc)} |-> Strip(FetchedBy(r)[id].doc[1])]
HandedIn(r) ==
    [id \in (NeededOf(r, NoFcn, r.attached) \cap DOMAIN r.published) \ r.down |-> r.published[id]]

\* The calls after the first k.
CallsLeft(calls, k) ==
    IF k = 0 THEN <<calls[1], calls[2], calls[3]>>
    ELSE IF k = 1 THEN <<calls[2], calls[3]>>
    ELSE IF k = 2 THEN <<calls[3]>>
    ELSE << >>

WithoutGpu == ~Asked(request.gpu.bundle) /\ ~Asked(request.gpu.policy)

LookupsInv ==
    stage = "gathering" =>
        /\ WantedBy(request) # {}
        /\ \A id \in DOMAIN found : found[id] = LookupOf(request, Online, held, carried, id)
        /\ consulted = {id \in DOMAIN found : ~GoodEnough(CopiesOf(held, carried, id))}

\* How far the calls are, and which copies are at hand.
ProgressInv ==
    /\ Len(answers) \in 0..3
    /\ todo = CallsLeft(request.calls, Len(answers))
    /\ stage # "gpu"
    /\ stage = "gathering" => Len(answers) < 3
    /\ stage = "handing in" => Len(answers) = 2 /\ request.calls[2] = "collateral_needed"
    /\ Len(answers) >= 2 => answers[2].call = request.calls[2]
    /\ Len(answers) < 2 \/ request.calls[2] = "attach" => held = NoFcn
    /\ Len(answers) < 2 \/ request.calls[2] = "collateral_needed" => carried = request.attached

FirstInv ==
    Len(answers) >= 1 =>
        /\ answers[1].verdict = JudgedWith(request, TRUE, NoFcn, request.attached)
        /\ answers[1].consulted =
               IF RefusedAtOnce(request) THEN {} ELSE NeededOf(request, NoFcn, request.attached)

SecondInv ==
    Len(answers) >= 2 /\ answers[2].verdict.error = Ok =>
        /\ request.calls[2] = "attach" =>
               /\ carried = AttachedBy(request)
               /\ JudgeErrorOf(request, Default(pf), FetchedBy(request))
                      \in {Ok, "CollateralUnavailable"}
        /\ request.calls[2] = "collateral_needed" =>
               /\ answers[2].consulted = NeededOf(request, NoFcn, request.attached)
               /\ stage # "handing in" => held = HandedIn(request)

ThirdInv ==
    Len(answers) = 3 => answers[3].verdict = JudgedWith(request, FALSE, held, carried)

WaysInv ==
    request.calls \in ThreeWays /\ WithoutGpu =>
        ProgressInv /\ FirstInv /\ SecondInv /\ ThirdInv

LEMMA LookupIs ==
    ASSUME NEW id
    PROVE  /\ OnHand(id) = CopiesOf(held, carried, id)
           /\ Load(id) = LoadOf(request, Online, id)
           /\ Lookup(id) = LookupOf(request, Online, held, carried, id)
  <1>1. OnHand(id) = CopiesOf(held, carried, id)
    BY DEF OnHand, CopiesOf
  <1>2. Load(id) = LoadOf(request, Online, id)
    BY DEF Load, LoadOf
  <1> QED
    BY <1>1, <1>2 DEF Lookup, LookupOf

LEMMA CheckTrue ==
    ASSUME NEW error, NEW rest
    PROVE  (Ok && rest) = rest /\ (rest && Ok) = rest /\ Check(TRUE, error) = Ok
  BY DEF &&, Check

\* A call that judges, without GPUs, refuses at once for the same reasons.
LEMMA StartIsAdmission ==
    ASSUME Call \in Judging, WithoutGpu
    PROVE  StartError = AdmissionOf(request)
  <1>1. Policy = request.policy /\ GpuPolicy = request.gpu.policy /\ Call # "attach"
    BY JudgingPolicy DEF Judging
  <1>2. GpuRulesError = Ok
    BY <1>1, CheckTrue DEF GpuRulesError, WithoutGpu, Check
  <1>3. AdmitError = Check(Asked(request.policy), "PlatformNotAllowed")
    BY <1>1, <1>2, CheckTrue DEF AdmitError
  <1>4. Check(~InPage \/ ~Asked(GpuPolicy), "bad_request") = Ok
    BY <1>1 DEF WithoutGpu, Check
  <1> QED
    BY <1>1, <1>3, <1>4 DEF StartError, AdmissionOf, parse_envelope, &&, pf, ev, now

\* The calls of the three ways, one after another.
LEMMA NextCall ==
    ASSUME NEW calls \in ThreeWays
    PROVE  /\ CallsLeft(calls, 0) = calls
           /\ Head(CallsLeft(calls, 0)) = calls[1] /\ Tail(CallsLeft(calls, 0)) = CallsLeft(calls, 1)
           /\ Head(CallsLeft(calls, 1)) = calls[2] /\ Tail(CallsLeft(calls, 1)) = CallsLeft(calls, 2)
           /\ Head(CallsLeft(calls, 2)) = calls[3] /\ Tail(CallsLeft(calls, 2)) = CallsLeft(calls, 3)
           /\ CallsLeft(calls, 3) = << >>
           /\ calls[1] = "verify"
           /\ \/ calls[2] = "attach" /\ calls[3] = "offline"
              \/ calls[2] = "collateral_needed" /\ calls[3] = "evaluate"
  <1>1. PICK a, b, c : /\ calls = <<a, b, c>> /\ a = "verify"
                       /\ \/ b = "attach" /\ c = "offline"
                          \/ b = "collateral_needed" /\ c = "evaluate"
    BY DEF ThreeWays
  <1>2. calls[1] = a /\ calls[2] = b /\ calls[3] = c
    BY <1>1
  <1>3. /\ CallsLeft(calls, 0) = <<a, b, c>>
        /\ CallsLeft(calls, 1) = <<b, c>>
        /\ CallsLeft(calls, 2) = <<c>>
        /\ CallsLeft(calls, 3) = << >>
    BY <1>2 DEF CallsLeft
  <1>4. /\ Head(<<a, b, c>>) = a /\ Tail(<<a, b, c>>) = <<b, c>>
        /\ Head(<<b, c>>) = b /\ Tail(<<b, c>>) = <<c>>
        /\ Head(<<c>>) = c /\ Tail(<<c>>) = << >>
    OBVIOUS
  <1> QED
    BY <1>1, <1>2, <1>3, <1>4

LEMMA Lengthened ==
    ASSUME NEW S, NEW s \in Seq(S), NEW x
    PROVE  /\ Len(Append(s, x)) = Len(s) + 1
           /\ Append(s, x)[Len(s) + 1] = x
           /\ \A i \in 1..Len(s) : Append(s, x)[i] = s[i]
  <1>1. s \in Seq(S \cup {x}) /\ x \in S \cup {x}
    OBVIOUS
  <1> QED
    BY <1>1

\* Where an answer leaves the calls.
LEMMA Progress ==
    ASSUME AnswersInv, request.calls \in ThreeWays, ProgressInv, NEW verdict, Answer(verdict),
           UNCHANGED <<request, held>>, stage \in {"idle", "gathering"}, todo # << >>,
           Call # "attach" => carried' = carried
    PROVE  LET k == Len(answers)
           IN  /\ k \in 0..2
               /\ k = 0 => Call = "verify"
               /\ k = 1 => Call = request.calls[2] /\ Call \in {"attach", "collateral_needed"}
               /\ k = 2 => Call = request.calls[3] /\ Call \in {"offline", "evaluate"}
               /\ Len(answers') = k + 1
               /\ answers'[k + 1] = [call |-> Call, verdict |-> verdict, consulted |-> consulted']
               /\ \A i \in 1..k : answers'[i] = answers[i]
               /\ ProgressInv'
  <1> DEFINE k == Len(answers)
             calls == request.calls
             x == [call |-> Call, verdict |-> verdict, consulted |-> consulted']
  <1>1. /\ answers' = Append(answers, x) /\ todo' = Tail(todo)
        /\ stage' = IF Call = "collateral_needed" THEN "handing in" ELSE "idle"
    BY DEF Answer
  <1>2. k \in 0..3 /\ todo = CallsLeft(calls, k)
    BY DEF ProgressInv
  <1>3. /\ calls[1] = "verify"
        /\ \/ calls[2] = "attach" /\ calls[3] = "offline"
           \/ calls[2] = "collateral_needed" /\ calls[3] = "evaluate"
    BY NextCall
  <1>4. /\ Len(answers') = k + 1
        /\ answers'[k + 1] = x
        /\ \A i \in 1..k : answers'[i] = answers[i]
    <2>1. PICK S : answers \in Seq(S)
      BY DEF AnswersInv
    <2> HIDE DEF x
    <2> QED
      BY <1>1, <2>1, Lengthened
  <1>5. x.call = Call
    OBVIOUS
  <1>6. /\ k >= 2 => answers[2].call = calls[2]
        /\ k < 2 \/ calls[2] = "attach" => held = NoFcn
        /\ k < 2 \/ calls[2] = "collateral_needed" => carried = request.attached
    BY DEF ProgressInv
  <1>7. k \in 0..2 /\ (k = 0 \/ k = 1 \/ k = 2)
    <2>1. k # 3
      BY <1>2, NextCall
    <2> QED
      BY <1>2, <2>1
  <1> HIDE DEF x, k, calls
  <1>8. /\ k = 0 => Call = calls[1] /\ todo' = CallsLeft(calls, 1)
        /\ k = 1 => Call = calls[2] /\ todo' = CallsLeft(calls, 2)
        /\ k = 2 => Call = calls[3] /\ todo' = CallsLeft(calls, 3)
    <2>1. /\ Call = Head(CallsLeft(calls, k)) /\ todo' = Tail(CallsLeft(calls, k))
          /\ calls \in ThreeWays
      BY <1>1, <1>2 DEF Call, calls
    <2>2. CASE k = 0
      BY <2>1, <2>2, NextCall
    <2>3. CASE k = 1
      BY <2>1, <2>3, NextCall
    <2>4. CASE k = 2
      BY <2>1, <2>4, NextCall
    <2> QED
      BY <1>7, <2>2, <2>3, <2>4
  <1>9. k + 1 >= 2 => answers'[2].call = calls[2]
    <2>1. CASE k = 1
      <3>1. answers'[2] = x /\ Call = calls[2]
        BY <1>4, <1>8, <2>1
      <3> QED
        BY <1>5, <3>1
    <2>2. CASE k = 2
      <3>1. answers'[2] = answers[2]
        BY <1>4, <2>2
      <3> QED
        BY <1>6, <2>2, <3>1
    <2> QED
      BY <1>7, <2>1, <2>2
  <1>10. stage' = "handing in" => k = 1 /\ calls[2] = "collateral_needed"
    <2>1. CASE k = 0
      BY <1>1, <1>3, <1>8, <2>1
    <2>2. CASE k = 1
      BY <1>1, <1>8, <2>2
    <2>3. CASE k = 2
      BY <1>1, <1>3, <1>8, <2>3
    <2> QED
      BY <1>7, <2>1, <2>2, <2>3
  <1>11. k + 1 < 2 \/ calls[2] = "attach" => held' = NoFcn
    BY <1>3, <1>6, <1>7
  <1>12. k + 1 < 2 \/ calls[2] = "collateral_needed" => carried' = request.attached
    BY <1>3, <1>6, <1>7, <1>8
  <1>13. stage' \notin {"gpu", "gathering"}
    BY <1>1
  <1>14. request' = request /\ k + 1 \in 0..3
    BY <1>7
  <1>15. todo' = CallsLeft(calls, k + 1)
    BY <1>7, <1>8
  <1>16. ProgressInv'
    <2>1. Len(answers') \in 0..3 /\ todo' = CallsLeft(request'.calls, Len(answers'))
      BY <1>4, <1>14, <1>15 DEF calls
    <2>2. /\ stage' # "gpu"
          /\ stage' = "gathering" => Len(answers') < 3
          /\ stage' = "handing in" => Len(answers') = 2 /\ request'.calls[2] = "collateral_needed"
      <3>1. k = 1 => Len(answers') = 2
        BY <1>4
      <3> QED
        BY <1>10, <1>13, <1>14, <3>1 DEF calls
    <2>3. /\ Len(answers') >= 2 => answers'[2].call = request'.calls[2]
          /\ Len(answers') < 2 \/ request'.calls[2] = "attach" => held' = NoFcn
          /\ Len(answers') < 2 \/ request'.calls[2] = "collateral_needed" =>
                 carried' = request'.attached
      BY <1>4, <1>9, <1>11, <1>12, <1>14 DEF calls
    <2> QED
      BY <2>1, <2>2, <2>3 DEF ProgressInv
  <1> QED
    BY <1>3, <1>4, <1>7, <1>8, <1>16 DEF x, k, calls

LEMMA NextLookups ==
    ASSUME LookupsInv, [Next]_vars
    PROVE  LookupsInv'
  <1> SUFFICES ASSUME stage' = "gathering" PROVE LookupsInv'
    BY DEF LookupsInv
  <1>1. CASE Begin
    <2>1. /\ UNCHANGED request /\ found' = NoFcn /\ consulted' = {}
          /\ Wanted(pf, ev, now) # {}
      BY <1>1 DEF Begin, Answer
    <2>2. DOMAIN found' = {}
      BY <2>1 DEF NoFcn
    <2> QED
      BY <2>1, <2>2 DEF LookupsInv, WantedBy, pf, ev, now
  <1>2. ASSUME NEW id, LookUp(id) PROVE LookupsInv'
    <2>1. /\ UNCHANGED <<request, todo, carried, held>> /\ stage = "gathering"
          /\ found' = [i \in DOMAIN found \cup {id} |-> IF i = id THEN Lookup(id) ELSE found[i]]
          /\ consulted' = IF GoodEnough(OnHand(id)) THEN consulted ELSE consulted \cup {id}
          /\ id \notin DOMAIN found
      BY <1>2 DEF LookUp
    <2>2. Online' = Online
      BY <2>1 DEF Online, Call
    <2>3. DOMAIN found' = DOMAIN found \cup {id}
      BY <2>1
    <2>4. \A i \in DOMAIN found' : found'[i] = LookupOf(request, Online, held, carried, i)
      BY <2>1, <2>3, LookupIs DEF LookupsInv
    <2>5. consulted' = {i \in DOMAIN found' : ~GoodEnough(CopiesOf(held, carried, i))}
      <3>1. \A i : i \in consulted' <=>
                i \in DOMAIN found' /\ ~GoodEnough(CopiesOf(held, carried, i))
        BY <2>1, <2>3, LookupIs DEF LookupsInv
      <3> QED
        BY <3>1
    <2> QED
      BY <2>1, <2>2, <2>4, <2>5 DEF LookupsInv
  <1>3. ASSUME NEW verdict, Answer(verdict) PROVE FALSE
    BY <1>3 DEF Answer
  <1>4. CASE Attach \/ collateral_needed
    BY <1>3, <1>4 DEF Attach, collateral_needed
  <1>5. CASE Judge
    BY <1>3, <1>5 DEF Judge
  <1>6. CASE JudgeGpu
    BY <1>3, <1>6 DEF JudgeGpu
  <1>7. CASE HandIn
    BY <1>7 DEF HandIn
  <1>8. CASE UNCHANGED vars
    BY <1>8 DEF vars, LookupsInv, Online, Call
  <1> QED
    BY <1>1, <1>2, <1>4, <1>5, <1>6, <1>7, <1>8 DEF Next

\* A call of the three ways that is not the last has what came with the evidence.
LEMMA CopiesThen ==
    ASSUME request.calls \in ThreeWays, ProgressInv, todo # << >>
    PROVE  /\ Call \in {"verify", "attach", "collateral_needed", "offline", "evaluate"}
           /\ Call \in {"verify", "attach", "collateral_needed"} =>
                  held = NoFcn /\ carried = request.attached
           /\ Online <=> Call \in {"verify", "attach"}
           /\ Call \in {"verify", "offline", "evaluate"} <=> Call \in Judging
  <1> DEFINE k == Len(answers)
             calls == request.calls
  <1>1. k \in 0..3 /\ todo = CallsLeft(calls, k)
    BY DEF ProgressInv
  <1>2. /\ calls[1] = "verify"
        /\ \/ calls[2] = "attach" /\ calls[3] = "offline"
           \/ calls[2] = "collateral_needed" /\ calls[3] = "evaluate"
    BY NextCall
  <1>3. k = 0 \/ k = 1 \/ k = 2
    <2>1. k # 3
      BY <1>1, NextCall
    <2> QED
      BY <1>1, <2>1
  <1>4. k < 2 => held = NoFcn /\ carried = request.attached
    BY DEF ProgressInv
  <1> HIDE DEF k, calls
  <1>5. /\ k = 0 => Call = calls[1]
        /\ k = 1 => Call = calls[2]
        /\ k = 2 => Call = calls[3]
    <2>1. Call = Head(CallsLeft(calls, k)) /\ calls \in ThreeWays
      BY <1>1 DEF Call, calls
    <2>2. CASE k = 0
      BY <2>1, <2>2, NextCall
    <2>3. CASE k = 1
      BY <2>1, <2>3, NextCall
    <2>4. CASE k = 2
      BY <2>1, <2>4, NextCall
    <2> QED
      BY <1>3, <2>2, <2>3, <2>4
  <1>6. /\ k = 0 => Call = "verify" /\ held = NoFcn /\ carried = request.attached
        /\ k = 1 => /\ Call \in {"attach", "collateral_needed"}
                    /\ held = NoFcn /\ carried = request.attached
        /\ k = 2 => Call \in {"offline", "evaluate"}
    BY <1>2, <1>4, <1>5
  <1> QED
    BY <1>3, <1>6 DEF Online, Judging

\* What an answer has to say for the three ways to agree.
LEMMA AnswerWays ==
    ASSUME AnswersInv, request.calls \in ThreeWays, ProgressInv, FirstInv, SecondInv,
           NEW verdict, Answer(verdict),
           UNCHANGED <<request, held>>, stage \in {"idle", "gathering"}, todo # << >>,
           Call # "attach" => carried' = carried,
           Call \in Judging => verdict = JudgedWith(request, Online, held, carried),
           Call = "verify" => consulted' = IF RefusedAtOnce(request) THEN {}
                                           ELSE NeededOf(request, held, carried),
           Call = "attach" /\ verdict.error = Ok =>
               /\ carried' = AttachedBy(request)
               /\ JudgeErrorOf(request, Default(pf), FetchedBy(request))
                      \in {Ok, "CollateralUnavailable"},
           Call = "collateral_needed" /\ verdict.error = Ok =>
               consulted' = NeededOf(request, held, carried)
    PROVE  ProgressInv' /\ FirstInv' /\ SecondInv' /\ ThirdInv'
  <1> DEFINE k == Len(answers)
             x == [call |-> Call, verdict |-> verdict, consulted |-> consulted']
  <1>1. /\ k \in 0..2
        /\ k = 0 => Call = "verify"
        /\ k = 1 => Call = request.calls[2] /\ Call \in {"attach", "collateral_needed"}
        /\ k = 2 => Call = request.calls[3] /\ Call \in {"offline", "evaluate"}
        /\ Len(answers') = k + 1
        /\ answers'[k + 1] = x
        /\ \A i \in 1..k : answers'[i] = answers[i]
        /\ ProgressInv'
    BY Progress
  <1>2. x.verdict = verdict /\ x.consulted = consulted'
    OBVIOUS
  <1>3. /\ Call \in {"verify", "attach", "collateral_needed"} =>
               held = NoFcn /\ carried = request.attached
        /\ Online <=> Call \in {"verify", "attach"}
        /\ Call \in {"verify", "offline", "evaluate"} <=> Call \in Judging
    BY CopiesThen
  <1>4. stage' = IF Call = "collateral_needed" THEN "handing in" ELSE "idle"
    BY DEF Answer
  <1>5. k = 0 \/ k = 1 \/ k = 2
    BY <1>1
  <1>6. pf' = pf /\ request' = request /\ held' = held
    BY DEF pf
  <1> HIDE DEF x
  <1>7. FirstInv'
    <2>1. CASE k = 0
      <3>1. answers'[1] = x
        BY <1>1, <2>1
      <3> QED
        BY <1>1, <1>2, <1>3, <1>6, <2>1, <3>1 DEF FirstInv
    <2>2. CASE k # 0
      <3>1. answers'[1] = answers[1] /\ Len(answers) >= 1
        BY <1>1, <2>2
      <3> QED
        BY <1>6, <3>1 DEF FirstInv
    <2> QED
      BY <2>1, <2>2
  <1>8. SecondInv'
    <2>1. CASE k = 0
      <3>1. ~(Len(answers') >= 2)
        BY <1>1, <2>1
      <3> QED
        BY <3>1 DEF SecondInv
    <2>2. CASE k = 1
      <3>1. answers'[2] = x
        BY <1>1, <2>2
      <3>2. request.calls[2] = Call
        BY <1>1, <2>2
      <3> QED
        BY <1>2, <1>3, <1>4, <1>6, <3>1, <3>2 DEF SecondInv
    <2>3. CASE k = 2
      <3>1. answers'[2] = answers[2] /\ Len(answers) >= 2
        BY <1>1, <2>3
      <3>2. carried' = carried /\ stage # "handing in"
        BY <1>1, <2>3
      <3> QED
        BY <1>6, <3>1, <3>2 DEF SecondInv
    <2> QED
      BY <1>5, <2>1, <2>2, <2>3
  <1>9. ThirdInv'
    <2>1. CASE k = 2
      <3>1. answers'[3] = x
        BY <1>1, <2>1
      <3>2. carried' = carried /\ Online = FALSE /\ Call \in Judging
        BY <1>1, <1>3, <2>1
      <3> QED
        BY <1>2, <1>6, <3>1, <3>2 DEF ThirdInv
    <2>2. CASE k # 2
      <3>1. Len(answers') # 3
        BY <1>1, <2>2
      <3> QED
        BY <3>1 DEF ThirdInv
    <2> QED
      BY <2>1, <2>2
  <1> QED
    BY <1>1, <1>7, <1>8, <1>9

-------------------------------------------------------------------------------
(* What a verdict reads of a piece: all but the chain that came with it,   *)
(* and of the chain of a signed document its first certificate.            *)

Alike(kind, d, e) ==
    /\ \A field \in FieldsOf(kind) \ {"chain"} : d[field] = e[field]
    /\ kind \in {"tcb-info", "qe-identity"} => d.chain[1][1] = e.chain[1][1]

AlikePiece(id, x, y) ==
    /\ x.error = y.error
    /\ Asked(x.doc) <=> Asked(y.doc)
    /\ Asked(x.doc) => Alike(id[1], x.doc[1], y.doc[1])

AllAlike(r, f, g) == \A id \in WantedBy(r) : AlikePiece(id, f[id], g[id])

LEMMA DocsAlike ==
    ASSUME NEW id, NEW x, NEW y, AlikePiece(id, x, y)
    PROVE  Alike(id[1], x.doc[1], y.doc[1])
  <1>1. CASE Asked(x.doc)
    BY <1>1 DEF AlikePiece
  <1>2. CASE ~Asked(x.doc)
    <2>1. x.doc = y.doc
      BY <1>2 DEF AlikePiece, Asked
    <2> QED
      BY <2>1 DEF Alike
  <1> QED
    BY <1>1, <1>2

LEMMA FieldsAlike ==
    ASSUME NEW kind, NEW d, NEW e, Alike(kind, d, e)
    PROVE  /\ d.acceptable = e.acceptable
           /\ kind = "tcb-info" => d.levels = e.levels /\ d.fmspc = e.fmspc
           /\ kind = "qe-identity" =>
                  /\ d.levels = e.levels /\ d.mrsigner = e.mrsigner /\ d.isvprodid = e.isvprodid
                  /\ d.attributes = e.attributes /\ d.mask = e.mask
           /\ kind \in {"tcb-info", "qe-identity"} => d.chain[1][1] = e.chain[1][1]
           /\ kind \in {"pck-crl", "root-crl", "amd-crl"} => d.revoked = e.revoked
           /\ kind = "amd-crl" => d.gen = e.gen
           /\ kind = "vcek" =>
                  /\ d.key = e.key /\ d.by = e.by /\ d.intact = e.intact /\ d.cn = e.cn
                  /\ d.from = e.from /\ d.until = e.until /\ d.hwid = e.hwid /\ d.spl = e.spl
           /\ kind = "gce-endorsement" => d.tdx = e.tdx /\ d.snp = e.snp
  <1>1. \A field \in FieldsOf(kind) \ {"chain"} : d[field] = e[field]
    BY DEF Alike
  <1>2. "acceptable" \in FieldsOf(kind)
    BY DEF FieldsOf
  <1>3. CASE kind \in {"tcb-info", "qe-identity"}
    <2>1. /\ "levels" \in FieldsOf(kind)
          /\ kind = "tcb-info" => "fmspc" \in FieldsOf(kind)
          /\ kind = "qe-identity" => {"mrsigner", "isvprodid", "attributes", "mask"} \subseteq FieldsOf(kind)
      BY <1>3 DEF FieldsOf, IntelDocument
    <2> QED
      BY <1>1, <1>2, <1>3, <2>1 DEF Alike
  <1>4. CASE kind \in {"pck-crl", "root-crl", "amd-crl"}
    <2>1. "revoked" \in FieldsOf(kind) /\ (kind = "amd-crl" => "gen" \in FieldsOf(kind))
      BY <1>4 DEF FieldsOf, Crl
    <2> QED
      BY <1>1, <1>2, <1>4, <2>1
  <1>5. CASE kind = "vcek"
    <2>1. {"key", "by", "intact", "cn", "from", "until", "hwid", "spl"} \subseteq FieldsOf(kind)
      BY <1>5 DEF FieldsOf
    <2> QED
      BY <1>1, <1>2, <1>5, <2>1
  <1>6. CASE kind = "gce-endorsement"
    <2>1. {"tdx", "snp"} \subseteq FieldsOf(kind)
      BY <1>6 DEF FieldsOf
    <2> QED
      BY <1>1, <1>2, <1>6, <2>1
  <1>7. CASE kind \notin {"tcb-info", "qe-identity", "pck-crl", "root-crl", "amd-crl", "vcek",
                          "gce-endorsement"}
    BY <1>1, <1>2, <1>7
  <1> QED
    BY <1>3, <1>4, <1>5, <1>6, <1>7

\* The pieces a platform's evidence names, and Google's endorsement, are looked up.
LEMMA PiecesAlike ==
    ASSUME NEW r, NEW f, NEW g, AllAlike(r, f, g)
    PROVE  LET ids == MainSet(r.platform, r.evidence, r.now)
               c == Gathered(r.platform, r.evidence, f, r.now)
               d == Gathered(r.platform, r.evidence, g, r.now)
               endorsement == EndorsementOf(r.platform, r.evidence)
           IN  /\ \A i \in DOMAIN ids : /\ f[ids[i]].error = g[ids[i]].error
                                        /\ Alike(ids[i][1], c[i], d[i])
                                        /\ c[i] = f[ids[i]].doc[1] /\ d[i] = g[ids[i]].doc[1]
               /\ r.platform \in GcpPlatforms =>
                      AlikePiece(endorsement, f[endorsement], g[endorsement])
  <1> DEFINE ids == MainSet(r.platform, r.evidence, r.now)
  <1>1. ASSUME NEW i \in DOMAIN ids
        PROVE  AlikePiece(ids[i], f[ids[i]], g[ids[i]])
    <2>1. ids[i] \in WantedBy(r)
      BY DEF WantedBy, Wanted, ToSet
    <2> QED
      BY <2>1 DEF AllAlike
  <1>2. r.platform \in GcpPlatforms => EndorsementOf(r.platform, r.evidence) \in WantedBy(r)
    BY DEF WantedBy, Wanted
  <1>3. ASSUME NEW i \in DOMAIN ids
        PROVE  /\ f[ids[i]].error = g[ids[i]].error
               /\ Alike(ids[i][1], f[ids[i]].doc[1], g[ids[i]].doc[1])
    BY <1>1, DocsAlike DEF AlikePiece
  <1> HIDE DEF ids
  <1>4. ASSUME NEW i \in DOMAIN ids
        PROVE  /\ Gathered(r.platform, r.evidence, f, r.now)[i] = f[ids[i]].doc[1]
               /\ Gathered(r.platform, r.evidence, g, r.now)[i] = g[ids[i]].doc[1]
    BY DEF Gathered, ids
  <1>5. r.platform \in GcpPlatforms =>
            AlikePiece(EndorsementOf(r.platform, r.evidence),
                       f[EndorsementOf(r.platform, r.evidence)],
                       g[EndorsementOf(r.platform, r.evidence)])
    BY <1>2 DEF AllAlike
  <1> QED
    BY <1>3, <1>4, <1>5 DEF ids

\* The evaluation of Intel's collateral reads no more than what is alike.
LEMMA TdxAlike ==
    ASSUME NEW q, NEW c, NEW d,
           Alike("tcb-info", c[1], d[1]), Alike("qe-identity", c[2], d[2]),
           Alike("pck-crl", c[3], d[3]), Alike("root-crl", c[4], d[4])
    PROVE  /\ CollateralError(q, c) = CollateralError(q, d)
           /\ \A p, r : check_collateral(r, q, p, c) = check_collateral(r, q, p, d)
  <1>1. /\ c[1].levels = d[1].levels /\ c[1].fmspc = d[1].fmspc
        /\ c[1].chain[1][1] = d[1].chain[1][1] /\ c[2].chain[1][1] = d[2].chain[1][1]
        /\ c[3].revoked = d[3].revoked /\ c[4].revoked = d[4].revoked
    BY FieldsAlike
  <1>2. TcbStatus(q, c) = TcbStatus(q, d)
    BY <1>1 DEF TcbStatus
  <1>3. QeStatus(q, c) = QeStatus(q, d)
    <2>1. /\ c[2].levels = d[2].levels /\ c[2].mrsigner = d[2].mrsigner
          /\ c[2].isvprodid = d[2].isvprodid /\ c[2].attributes = d[2].attributes
          /\ c[2].mask = d[2].mask
      BY FieldsAlike
    <2> QED
      BY <2>1 DEF QeStatus, check_qe_report, IsIntelQe
  <1>4. CollateralError(q, c) = CollateralError(q, d)
    BY <1>1, <1>2, <1>3 DEF CollateralError, cert_revoked
  <1>5. ASSUME NEW p, NEW r
        PROVE  check_collateral(r, q, p, c) = check_collateral(r, q, p, d)
    BY <1>1, <1>2, <1>3 DEF check_collateral, cert_revoked
  <1> QED
    BY <1>4, <1>5

\* The checks of a VEK read no more than what is alike.
LEMMA VekAlike ==
    ASSUME NEW report, NEW gen, NEW t, NEW c, NEW d, Alike("vcek", c, d)
    PROVE  /\ check_report(report, c, gen, t) = check_report(report, d, gen, t)
           /\ \A crl : vek_revoked(c, crl, gen) = vek_revoked(d, crl, gen)
  <1>1. /\ c.key = d.key /\ c.by = d.by /\ c.intact = d.intact /\ c.cn = d.cn
        /\ c.from = d.from /\ c.until = d.until /\ c.hwid = d.hwid /\ c.spl = d.spl
    BY FieldsAlike
  <1>2. vek_issuer(c, gen) = vek_issuer(d, gen) /\ is_vlek_cert(c) = is_vlek_cert(d)
    BY <1>1 DEF vek_issuer, is_vlek_cert
  <1>3. check_vek_binding(c, report.chip, report.reported, gen)
            = check_vek_binding(d, report.chip, report.reported, gen)
    BY <1>1, <1>2 DEF check_vek_binding, FmcNames
  <1>4. verify_vek_endorsement(report, c, gen, t) = verify_vek_endorsement(report, d, gen, t)
    BY <1>1, <1>2, <1>3 DEF verify_vek_endorsement, verify_cert_chain, SignedBy, ValidAt
  <1> QED
    BY <1>1, <1>2, <1>4 DEF check_report, vek_revoked

LEMMA SnpAlike ==
    ASSUME NEW e, NEW p, NEW t, NEW c, NEW d,
           Inline(e) => Alike("amd-crl", c[1], d[1]),
           ~Inline(e) => Alike("vcek", c[1], d[1]) /\ Alike("amd-crl", c[2], d[2])
    PROVE  SnpError(e, p, c, t) = SnpError(e, p, d, t) /\ SnpResult(e, p, c) = SnpResult(e, p, d)
  <1> DEFINE gen == e.report.cpuid[1]
  <1>1. Alike("amd-crl", CrlOf(e, c), CrlOf(e, d))
    BY DEF CrlOf
  <1>2. CrlOf(e, c).gen = CrlOf(e, d).gen /\ CrlOf(e, c).revoked = CrlOf(e, d).revoked
    BY <1>1, FieldsAlike
  <1>3. /\ check_report(e.report, VekOf(e, c), gen, t) = check_report(e.report, VekOf(e, d), gen, t)
        /\ \A crl : vek_revoked(VekOf(e, c), crl, gen) = vek_revoked(VekOf(e, d), crl, gen)
    BY VekAlike DEF VekOf
  <1>4. SnpError(e, p, c, t) = SnpError(e, p, d, t)
    BY <1>2, <1>3 DEF SnpError
  <1>5. vek_revoked(VekOf(e, c), CrlOf(e, c), gen) = vek_revoked(VekOf(e, d), CrlOf(e, d), gen)
    <2>1. vek_revoked(VekOf(e, d), CrlOf(e, c), gen) = vek_revoked(VekOf(e, d), CrlOf(e, d), gen)
      BY <1>2 DEF vek_revoked
    <2> QED
      BY <1>3, <2>1
  <1>6. SnpResult(e, p, c) = SnpResult(e, p, d)
    BY <1>5 DEF SnpResult
  <1> QED
    BY <1>4, <1>6

\* The verdict proper: what is checked and shown once all pieces are there.
LEMMA SameChecks ==
    ASSUME NEW r, r.platform \in TdxPlatforms \cup SnpPlatforms, NEW p, NEW f, NEW g,
           AllAlike(r, f, g), SetError(r.platform, r.evidence) = Ok
    PROVE  LET platform == r.platform
               e == r.evidence
               t == r.now
               c == Gathered(platform, e, f, t)
               d == Gathered(platform, e, g, t)
           IN  /\ MainSetError(platform, e, f, t) = MainSetError(platform, e, g, t)
               /\ VerifyError(platform, e, p, c, t) = VerifyError(platform, e, p, d, t)
               /\ TeeResult(platform, e, p, c, t) = TeeResult(platform, e, p, d, t)
  <1> DEFINE platform == r.platform
             e == r.evidence
             t == r.now
             ids == MainSet(platform, e, t)
             c == Gathered(platform, e, f, t)
             d == Gathered(platform, e, g, t)
  <1>1. \A i \in DOMAIN ids : /\ f[ids[i]].error = g[ids[i]].error
                              /\ Alike(ids[i][1], c[i], d[i])
                              /\ c[i] = f[ids[i]].doc[1] /\ d[i] = g[ids[i]].doc[1]
    BY PiecesAlike
  <1>2. LookupErrors(ids, f) = LookupErrors(ids, g)
    <2> HIDE DEF ids
    <2>1. [i \in DOMAIN ids |-> f[ids[i]].error] = [i \in DOMAIN ids |-> g[ids[i]].error]
      BY <1>1
    <2> QED
      BY <2>1 DEF LookupErrors
  <1>3. CASE platform \in TdxPlatforms
    <2> DEFINE q == Quote(platform, e)
               tcbInfo == TcbInfo(PckChain(q).fmspc)
               pckCrl == PckCrl(PckChain(q).ca)
    <2>1. ids = <<tcbInfo, QeIdentity, pckCrl, RootCrl>>
      BY <1>3, MainSetIs
    <2>2. /\ tcbInfo[1] = "tcb-info" /\ QeIdentity[1] = "qe-identity"
          /\ pckCrl[1] = "pck-crl" /\ RootCrl[1] = "root-crl"
      BY DEF TcbInfo, QeIdentity, PckCrl, RootCrl
    <2> HIDE DEF ids, c, d, tcbInfo, pckCrl
    <2>3. /\ 1 \in DOMAIN ids /\ 2 \in DOMAIN ids /\ 3 \in DOMAIN ids /\ 4 \in DOMAIN ids
          /\ ids[1] = tcbInfo /\ ids[2] = QeIdentity /\ ids[3] = pckCrl /\ ids[4] = RootCrl
      BY <2>1
    <2>4. /\ Alike("tcb-info", c[1], d[1]) /\ Alike("qe-identity", c[2], d[2])
          /\ Alike("pck-crl", c[3], d[3]) /\ Alike("root-crl", c[4], d[4])
      BY <1>1, <2>2, <2>3
    <2>5. /\ \A x : CollateralError(x, c) = CollateralError(x, d)
          /\ \A x, rules, y : check_collateral(y, x, rules, c) = check_collateral(y, x, rules, d)
      BY <2>4, TdxAlike
    <2>6. VerifyError(platform, e, p, c, t) = VerifyError(platform, e, p, d, t)
      BY <1>3, <2>5 DEF VerifyError, AzTdxError, TdxError
    <2>7. TeeResult(platform, e, p, c, t) = TeeResult(platform, e, p, d, t)
      BY <1>3, <2>5 DEF TeeResult, AzTdxResult, TdxResult
    <2>8. platform \notin SnpPlatforms
      BY <1>3 DEF TdxPlatforms, SnpPlatforms
    <2>9. MainSetError(platform, e, f, t) = MainSetError(platform, e, g, t)
      BY <1>2, <2>8 DEF MainSetError, ids
    <2> QED
      BY <2>6, <2>7, <2>9 DEF c, d
  <1>4. CASE platform \notin TdxPlatforms /\ platform = "az-snp"
    <2>1. ids = <<AmdCrl(matched_gen(e, t), AmdKey(e.vek))>>
      BY <1>4, MainSetIs
    <2>2. AmdCrl(matched_gen(e, t), AmdKey(e.vek))[1] = "amd-crl"
      BY DEF AmdCrl
    <2> HIDE DEF ids, c, d
    <2>3. 1 \in DOMAIN ids /\ ids[1][1] = "amd-crl"
      BY <2>1, <2>2
    <2>4. Alike("amd-crl", c[1], d[1])
      BY <1>1, <2>3
    <2>5. c[1].gen = d[1].gen /\ c[1].revoked = d[1].revoked
      BY <2>4, FieldsAlike
    <2>6. VerifyError(platform, e, p, c, t) = VerifyError(platform, e, p, d, t)
      BY <1>4, <2>5 DEF VerifyError, AzSnpError
    <2>7. TeeResult(platform, e, p, c, t) = TeeResult(platform, e, p, d, t)
      BY <1>4, <2>5 DEF TeeResult, AzSnpResult, vek_revoked
    <2>8. MainSetError(platform, e, f, t) = MainSetError(platform, e, g, t)
      BY <1>2, <1>4 DEF MainSetError, ids
    <2> QED
      BY <2>6, <2>7, <2>8 DEF c, d
  <1>5. CASE platform \notin TdxPlatforms /\ platform # "az-snp"
    <2> DEFINE gen == e.report.cpuid[1]
               key == IF Inline(e) THEN AmdKey(e.vek[1]) ELSE "vcek"
               vcek == Vcek(gen, e.report.chip, e.report.reported)
               crl == AmdCrl(gen, key)
    <2>1. ids = IF Inline(e) THEN <<crl>> ELSE <<vcek, crl>>
      BY <1>5, MainSetIs
    <2>2. crl[1] = "amd-crl" /\ vcek[1] = "vcek"
      BY DEF AmdCrl, Vcek
    <2> HIDE DEF ids, c, d, crl, vcek
    <2>3. Inline(e) => 1 \in DOMAIN ids /\ Len(ids) # 2 /\ ids[1] = crl
      BY <2>1
    <2>4. ~Inline(e) => 1 \in DOMAIN ids /\ 2 \in DOMAIN ids /\ ids[1] = vcek /\ ids[2] = crl
      BY <2>1
    <2>5. /\ Inline(e) => Alike("amd-crl", c[1], d[1])
          /\ ~Inline(e) => Alike("vcek", c[1], d[1]) /\ Alike("amd-crl", c[2], d[2])
      BY <1>1, <2>2, <2>3, <2>4
    <2>6. SnpError(e, p, c, t) = SnpError(e, p, d, t) /\ SnpResult(e, p, c) = SnpResult(e, p, d)
      BY <2>5, SnpAlike
    <2>7. platform # "az-tdx"
      BY <1>5 DEF TdxPlatforms
    <2>8. VerifyError(platform, e, p, c, t) = VerifyError(platform, e, p, d, t)
      BY <1>5, <2>6, <2>7 DEF VerifyError
    <2>9. TeeResult(platform, e, p, c, t) = TeeResult(platform, e, p, d, t)
      BY <1>5, <2>6, <2>7 DEF TeeResult
    <2>10. MainSetError(platform, e, f, t) = MainSetError(platform, e, g, t)
      <3>1. CASE Len(ids) # 2
        BY <1>2, <3>1 DEF MainSetError, ids
      <3>2. CASE Len(ids) = 2
        <4>1. /\ f[ids[1]].error = g[ids[1]].error /\ f[ids[2]].error = g[ids[2]].error
              /\ Alike("vcek", f[ids[1]].doc[1], g[ids[1]].doc[1])
          BY <1>1, <2>2, <2>3, <2>4, <3>2
        <4>2. check_report(e.report, f[ids[1]].doc[1], gen, t)
                  = check_report(e.report, g[ids[1]].doc[1], gen, t)
          BY <4>1, VekAlike
        <4>3. platform \in SnpPlatforms \ {"az-snp"}
          BY <1>5
        <4> QED
          BY <3>2, <4>1, <4>2, <4>3 DEF MainSetError, ids
      <3> QED
        BY <3>1, <3>2
    <2> QED
      BY <2>8, <2>9, <2>10 DEF c, d
  <1> QED
    BY <1>3, <1>4, <1>5

\* Pieces that are alike get the same verdict.
LEMMA SameVerdict ==
    ASSUME NEW r, r.platform \in TdxPlatforms \cup SnpPlatforms, NEW p, NEW f, NEW g,
           AllAlike(r, f, g)
    PROVE  JudgeErrorOf(r, p, f) = JudgeErrorOf(r, p, g) /\ VerdictOf(r, p, f) = VerdictOf(r, p, g)
  <1> DEFINE platform == r.platform
             e == r.evidence
             t == r.now
             endorsement == EndorsementOf(platform, e)
  <1>1. CASE SetError(platform, e) # Ok
    <2>1. /\ GatherError(platform, e, f, t) # Ok
          /\ GatherError(platform, e, f, t) = GatherError(platform, e, g, t)
      BY <1>1 DEF GatherError, &&
    <2>2. JudgeErrorOf(r, p, f) = JudgeErrorOf(r, p, g) /\ JudgeErrorOf(r, p, f) # Ok
      BY <2>1 DEF JudgeErrorOf, &&
    <2> QED
      BY <2>2 DEF VerdictOf
  <1>2. CASE SetError(platform, e) = Ok
    <2> DEFINE c == Gathered(platform, e, f, t)
               d == Gathered(platform, e, g, t)
    <2>1. /\ MainSetError(platform, e, f, t) = MainSetError(platform, e, g, t)
          /\ VerifyError(platform, e, p, c, t) = VerifyError(platform, e, p, d, t)
          /\ TeeResult(platform, e, p, c, t) = TeeResult(platform, e, p, d, t)
      BY <1>2, SameChecks
    <2>2. platform \in GcpPlatforms => AlikePiece(endorsement, f[endorsement], g[endorsement])
      BY PiecesAlike
    <2>3. platform \in GcpPlatforms =>
              /\ f[endorsement].error = g[endorsement].error
              /\ endorsement_match(platform, e, f) = endorsement_match(platform, e, g)
      <3> SUFFICES ASSUME platform \in GcpPlatforms
                   PROVE  /\ f[endorsement].error = g[endorsement].error
                          /\ endorsement_match(platform, e, f) = endorsement_match(platform, e, g)
        OBVIOUS
      <3>1. endorsement[1] = "gce-endorsement"
        BY DEF EndorsementOf, Endorsement
      <3>2. /\ Asked(f[endorsement].doc) <=> Asked(g[endorsement].doc)
            /\ Alike("gce-endorsement", f[endorsement].doc[1], g[endorsement].doc[1])
        BY <2>2, <3>1, DocsAlike DEF AlikePiece
      <3>3. /\ f[endorsement].doc[1].tdx = g[endorsement].doc[1].tdx
            /\ f[endorsement].doc[1].snp = g[endorsement].doc[1].snp
        BY <3>2, FieldsAlike
      <3> QED
        BY <2>2, <3>2, <3>3
           DEF AlikePiece, endorsement_match, endorses_tdx, endorses_snp
    <2> HIDE DEF c, d
    <2>4. GatherError(platform, e, f, t) = GatherError(platform, e, g, t)
      BY <2>1, <2>3 DEF GatherError
    <2>5. JudgeErrorOf(r, p, f) = JudgeErrorOf(r, p, g)
      BY <2>1, <2>4 DEF JudgeErrorOf, c, d
    <2>6. ResultOf(r, p, f) = ResultOf(r, p, g)
      BY <2>1, <2>3 DEF ResultOf, Result, c, d
    <2>7. AcceptableIn(r, f) <=> AcceptableIn(r, g)
      <3>1. \A id \in WantedBy(r) : /\ Asked(f[id].doc) <=> Asked(g[id].doc)
                                    /\ f[id].doc[1].acceptable = g[id].doc[1].acceptable
        <4> TAKE id \in WantedBy(r)
        <4>1. AlikePiece(id, f[id], g[id])
          BY DEF AllAlike
        <4>2. Alike(id[1], f[id].doc[1], g[id].doc[1])
          BY <4>1, DocsAlike
        <4>3. f[id].doc[1].acceptable = g[id].doc[1].acceptable
          BY <4>2, FieldsAlike
        <4> QED
          BY <4>1, <4>3 DEF AlikePiece
      <3> QED
        BY <3>1 DEF AcceptableIn
    <2>8. VerdictOf(r, p, f) = VerdictOf(r, p, g)
      <3>1. (PlatformPassed(platform, ResultOf(r, p, f)) /\ AcceptableIn(r, f))
                = (PlatformPassed(platform, ResultOf(r, p, g)) /\ AcceptableIn(r, g))
        BY <2>6, <2>7
      <3> QED
        BY <2>5, <2>6, <3>1 DEF VerdictOf
    <2> QED
      BY <2>5, <2>8
  <1> QED
    BY <1>1, <1>2

\* Once every lookup has ended, they have found what the copies at hand make of them.
LEMMA FoundAll ==
    ASSUME LookupsInv, Complete
    PROVE  LET g == FoundOf(request, Online, held, carried)
           IN  /\ DOMAIN found = WantedBy(request)
               /\ WantedBy(request) # {}
               /\ \A id \in WantedBy(request) : found[id] = g[id]
               /\ \A p : JudgeErrorOf(request, p, found) = JudgeErrorOf(request, p, g)
                         \/ request.platform \notin TdxPlatforms \cup SnpPlatforms
               /\ \A p : VerdictOf(request, p, found) = VerdictOf(request, p, g)
                         \/ request.platform \notin TdxPlatforms \cup SnpPlatforms
               /\ consulted = NeededOf(request, held, carried)
  <1> DEFINE g == FoundOf(request, Online, held, carried)
  <1>1. DOMAIN found = WantedBy(request)
    BY DEF Complete, WantedBy, pf, ev, now
  <1>2. /\ WantedBy(request) # {}
        /\ \A id \in DOMAIN found : found[id] = LookupOf(request, Online, held, carried, id)
        /\ consulted = {id \in DOMAIN found : ~GoodEnough(CopiesOf(held, carried, id))}
    BY DEF LookupsInv, Complete
  <1>3. \A id \in WantedBy(request) : found[id] = g[id]
    BY <1>1, <1>2 DEF FoundOf
  <1>4. AllAlike(request, found, g)
    <2> HIDE DEF g
    <2> QED
      BY <1>3 DEF AllAlike, AlikePiece, Alike
  <1>5. consulted = NeededOf(request, held, carried)
    BY <1>1, <1>2 DEF NeededOf
  <1> HIDE DEF g
  <1>6. ASSUME request.platform \in TdxPlatforms \cup SnpPlatforms, NEW p
        PROVE  /\ JudgeErrorOf(request, p, found) = JudgeErrorOf(request, p, g)
               /\ VerdictOf(request, p, found) = VerdictOf(request, p, g)
    BY <1>4, <1>6, SameVerdict
  <1> QED
    BY <1>1, <1>2, <1>3, <1>5, <1>6 DEF g

LEMMA BeginWays ==
    ASSUME IInv, request.calls \in ThreeWays, WithoutGpu, WaysInv, Begin
    PROVE  ProgressInv' /\ FirstInv' /\ SecondInv' /\ ThirdInv'
  <1>1. /\ UNCHANGED <<request, carried, held>> /\ stage = "idle" /\ todo # << >>
        /\ consulted' = {}
    BY DEF Begin
  <1>2. ProgressInv /\ FirstInv /\ SecondInv /\ ThirdInv
    BY DEF WaysInv
  <1>3. CASE StartError # Ok \/ Wanted(pf, ev, now) = {}
    <2> DEFINE verdict == Refusal(StartError && SetError(pf, ev))
    <2>1. Answer(verdict)
      BY <1>3 DEF Begin
    <2>2. verdict.error # Ok
      BY <1>3, WantedAreSome DEF Refusal, Verdict, &&
    <2>3. Call \in Judging =>
              /\ RefusedAtOnce(request)
              /\ verdict = JudgedWith(request, Online, held, carried)
      <3> SUFFICES ASSUME Call \in Judging
                   PROVE  /\ RefusedAtOnce(request)
                          /\ verdict = JudgedWith(request, Online, held, carried)
        OBVIOUS
      <3>1. StartError = AdmissionOf(request)
        BY StartIsAdmission
      <3>2. RefusedAtOnce(request)
        BY <1>3, <3>1 DEF RefusedAtOnce, WantedBy, pf, ev, now
      <3> QED
        BY <3>1, <3>2 DEF JudgedWith, pf, ev
    <2> HIDE DEF verdict
    <2>4. Call = "verify" => consulted' = IF RefusedAtOnce(request) THEN {}
                                          ELSE NeededOf(request, held, carried)
      BY <1>1, <2>3 DEF Judging
    <2> QED
      BY <1>1, <1>2, <2>1, <2>2, <2>3, <2>4, AnswerWays DEF IInv
  <1>4. CASE ~(StartError # Ok \/ Wanted(pf, ev, now) = {})
    <2>1. stage' = "gathering" /\ UNCHANGED <<todo, answers>>
      BY <1>4 DEF Begin
    <2>2. Len(answers) < 3
      <3> DEFINE k == Len(answers)
      <3>1. k \in 0..3 /\ todo = CallsLeft(request.calls, k)
        BY <1>2 DEF ProgressInv
      <3>2. k # 3
        BY <1>1, <3>1, NextCall
      <3> HIDE DEF k
      <3>3. k < 3
        BY <3>1, <3>2
      <3> QED
        BY <3>3 DEF k
    <2>3. pf' = pf
      BY <1>1 DEF pf
    <2>4. ProgressInv'
      BY <1>1, <1>2, <2>1, <2>2 DEF ProgressInv
    <2>5. FirstInv' /\ ThirdInv'
      BY <1>1, <1>2, <2>1 DEF FirstInv, ThirdInv
    <2>6. SecondInv'
      BY <1>1, <1>2, <2>1, <2>3 DEF SecondInv
    <2> QED
      BY <2>4, <2>5, <2>6
  <1> QED
    BY <1>3, <1>4

\* A call that looks its collateral up is one of the three ways' still to be made.
LEMMA StillToDo ==
    ASSUME request.calls \in ThreeWays, ProgressInv, stage = "gathering"
    PROVE  todo # << >>
  <1> DEFINE k == Len(answers)
  <1>1. k \in 0..3 /\ k < 3 /\ todo = CallsLeft(request.calls, k)
    BY DEF ProgressInv
  <1> HIDE DEF k
  <1>2. k = 0 \/ k = 1 \/ k = 2
    BY <1>1
  <1>3. \A a, b, c : <<a, b, c>> # << >> /\ <<b, c>> # << >> /\ <<c>> # << >>
    OBVIOUS
  <1> QED
    BY <1>1, <1>2, <1>3 DEF CallsLeft

LEMMA AttachWays ==
    ASSUME IInv, request.calls \in ThreeWays, WithoutGpu, LookupsInv, WaysInv, Attach
    PROVE  ProgressInv' /\ FirstInv' /\ SecondInv' /\ ThirdInv'
  <1> DEFINE verdict == Refusal(Forgiven(AttachError))
  <1>1. /\ UNCHANGED <<request, held, found>> /\ Call = "attach" /\ Complete /\ stage = "gathering"
        /\ carried' = IF Forgiven(AttachError) = Ok THEN attach ELSE carried
        /\ Answer(verdict)
    BY DEF Attach, Complete
  <1>2. ProgressInv /\ FirstInv /\ SecondInv
    BY DEF WaysInv
  <1>3. todo # << >>
    BY <1>1, <1>2, StillToDo
  <1>4. held = NoFcn /\ carried = request.attached /\ Online
    BY <1>1, <1>2, <1>3, CopiesThen
  <1>5. FoundOf(request, Online, held, carried) = FetchedBy(request)
    BY <1>4 DEF FetchedBy, FoundOf
  <1>6. pf \in TdxPlatforms \cup SnpPlatforms
    BY PlatformsAre
  <1>7. /\ DOMAIN found = WantedBy(request)
        /\ \A id \in WantedBy(request) : found[id] = FetchedBy(request)[id]
        /\ \A p : JudgeErrorOf(request, p, found) = JudgeErrorOf(request, p, FetchedBy(request))
    BY <1>1, <1>5, <1>6, FoundAll DEF pf
  <1>8. AttachError = JudgeErrorOf(request, Default(pf), found)
    <2>1. Policy = Rule(Default(pf))
      BY <1>1 DEF Policy, ByDefault
    <2>2. Policy[1] = Default(pf)
      BY <2>1, RuleIsAsked
    <2>3. AttachError = JudgeError
      BY CheckTrue DEF AttachError, WithoutGpu
    <2> QED
      BY <2>2, <2>3 DEF JudgeError, JudgeErrorOf, pf, ev, now
  <1>9. verdict.error = Forgiven(AttachError)
    BY DEF Refusal, Verdict
  <1>10. attach = AttachedBy(request)
    <2>1. Used = {i \in WantedBy(request) : Asked(FetchedBy(request)[i].doc)}
      BY <1>7 DEF Used
    <2>2. \A id \in Used : Strip(found[id].doc[1]) = Strip(FetchedBy(request)[id].doc[1])
      BY <1>7 DEF Used
    <2> QED
      BY <2>1, <2>2 DEF attach, AttachedBy
  <1>11. verdict.error = Ok =>
            /\ carried' = AttachedBy(request)
            /\ JudgeErrorOf(request, Default(pf), FetchedBy(request)) \in {Ok, "CollateralUnavailable"}
    BY <1>1, <1>7, <1>8, <1>9, <1>10 DEF Forgiven
  <1>12. Call \notin Judging /\ Call # "verify" /\ Call # "collateral_needed"
    BY <1>1 DEF Judging
  <1> HIDE DEF verdict
  <1> QED
    BY <1>1, <1>2, <1>3, <1>11, <1>12, AnswerWays DEF IInv

LEMMA NeededWays ==
    ASSUME IInv, request.calls \in ThreeWays, WithoutGpu, LookupsInv, WaysInv, collateral_needed
    PROVE  ProgressInv' /\ FirstInv' /\ SecondInv' /\ ThirdInv'
  <1> DEFINE verdict == Refusal(Forgiven(JudgeError))
  <1>1. /\ UNCHANGED <<request, carried, held, found>> /\ Call = "collateral_needed"
        /\ Complete /\ stage = "gathering" /\ consulted' = consulted
        /\ Answer(verdict)
    BY DEF collateral_needed, Complete
  <1>2. ProgressInv /\ FirstInv /\ SecondInv
    BY DEF WaysInv
  <1>3. todo # << >>
    BY <1>1, <1>2, StillToDo
  <1>4. consulted' = NeededOf(request, held, carried)
    BY <1>1, FoundAll
  <1>5. Call \notin Judging /\ Call # "verify" /\ Call # "attach"
    BY <1>1 DEF Judging
  <1> HIDE DEF verdict
  <1> QED
    BY <1>1, <1>2, <1>3, <1>4, <1>5, AnswerWays DEF IInv

LEMMA JudgeWays ==
    ASSUME IInv, ConsultInv, request.calls \in ThreeWays, WithoutGpu, LookupsInv, WaysInv, Judge
    PROVE  ProgressInv' /\ FirstInv' /\ SecondInv' /\ ThirdInv'
  <1> DEFINE p == request.policy[1]
             verdict == VerdictOf(request, p, found)
  <1>1. /\ UNCHANGED <<request, carried, held, found>> /\ Call \in Judging
        /\ Complete /\ stage = "gathering" /\ consulted' = consulted
    BY DEF Judge, Complete
  <1>2. ProgressInv /\ FirstInv /\ SecondInv
    BY DEF WaysInv
  <1>3. todo # << >>
    BY <1>1, <1>2, StillToDo
  <1>4. pf \in TdxPlatforms \cup SnpPlatforms
    BY PlatformsAre
  <1>5. /\ DOMAIN found = WantedBy(request) /\ WantedBy(request) # {}
        /\ verdict = VerdictOf(request, p, FoundOf(request, Online, held, carried))
        /\ consulted = NeededOf(request, held, carried)
    BY <1>1, <1>4, FoundAll DEF pf
  <1>6. ~RefusedAtOnce(request)
    <2>1. StartError = Ok
      BY <1>1 DEF ConsultInv, StartedInv
    <2> QED
      BY <1>1, <1>5, <2>1, StartIsAdmission DEF RefusedAtOnce
  <1>7. Policy = request.policy /\ ~WithGpu
    BY <1>1, JudgingPolicy DEF WithGpu, WithoutGpu
  <1>8. /\ JudgeError = JudgeErrorOf(request, p, found)
        /\ ThisResult = ResultOf(request, p, found)
        /\ Passed <=> PlatformPassed(pf, ThisResult) /\ AcceptableIn(request, found)
    BY <1>5, <1>7 DEF JudgeError, JudgeErrorOf, ThisResult, ResultOf, Passed, AllAcceptable,
           AcceptableIn, pf, ev, now
  <1>9. Answer(verdict)
    <2>1. CASE JudgeError # Ok
      BY <1>8, <2>1 DEF Judge, VerdictOf
    <2>2. CASE JudgeError = Ok
      <3>1. Answer(Verdict(Ok, Passed, Rule(ThisResult)))
        BY <1>7, <2>2 DEF Judge
      <3>2. Passed = (PlatformPassed(pf, ThisResult) /\ AcceptableIn(request, found))
        BY <1>8 DEF Passed
      <3>3. verdict = Verdict(Ok, Passed, Rule(ThisResult))
        BY <1>8, <2>2, <3>2 DEF VerdictOf, pf
      <3> QED
        BY <3>1, <3>3
    <2> QED
      BY <2>1, <2>2
  <1>10. verdict = JudgedWith(request, Online, held, carried)
    BY <1>5, <1>6 DEF JudgedWith
  <1>11. Call # "attach" /\ Call # "collateral_needed"
    BY <1>1 DEF Judging
  <1> HIDE DEF verdict
  <1> QED
    BY <1>1, <1>2, <1>3, <1>5, <1>6, <1>9, <1>10, <1>11, AnswerWays DEF IInv

LEMMA HandInWays ==
    ASSUME request.calls \in ThreeWays, WithoutGpu, WaysInv, HandIn
    PROVE  ProgressInv' /\ FirstInv' /\ SecondInv' /\ ThirdInv'
  <1>1. /\ UNCHANGED <<request, todo, carried, found, consulted, answers>>
        /\ stage = "handing in" /\ stage' = "idle"
    BY DEF HandIn
  <1>2. ProgressInv /\ FirstInv /\ SecondInv /\ ThirdInv
    BY DEF WaysInv
  <1> DEFINE k == Len(answers)
  <1>3. k = 2 /\ request.calls[2] = "collateral_needed"
    BY <1>1, <1>2 DEF ProgressInv
  <1>0. ~(k < 2) /\ k >= 2 /\ k # 3
    <2> HIDE DEF k
    <2> QED
      BY <1>3
  <1>4. request.calls[2] # "attach" /\ pf' = pf
    BY <1>1, <1>3 DEF pf
  <1>5. ProgressInv'
    <2>1. /\ answers' = answers /\ Len(answers') = k
      BY <1>1
    <2>2. /\ todo = CallsLeft(request.calls, k) /\ k \in 0..3
          /\ answers[2].call = request.calls[2] /\ carried = request.attached
      BY <1>0, <1>2, <1>3 DEF ProgressInv
    <2> HIDE DEF k
    <2>3. /\ Len(answers') \in 0..3 /\ todo' = CallsLeft(request'.calls, Len(answers'))
          /\ ~(Len(answers') < 2) /\ request'.calls[2] # "attach"
      BY <1>0, <1>1, <1>4, <2>1, <2>2
    <2>4. /\ stage' \notin {"gpu", "gathering", "handing in"}
          /\ answers'[2].call = request'.calls[2] /\ carried' = request'.attached
      BY <1>1, <2>1, <2>2
    <2>5. Len(answers') < 2 \/ request'.calls[2] = "attach" => held' = NoFcn
      BY <2>3
    <2>6. /\ stage' # "gpu"
          /\ stage' = "gathering" => Len(answers') < 3
          /\ stage' = "handing in" => Len(answers') = 2 /\ request'.calls[2] = "collateral_needed"
      BY <2>4
    <2>7. Len(answers') >= 2 => answers'[2].call = request'.calls[2]
      BY <2>4
    <2>8. Len(answers') < 2 \/ request'.calls[2] = "collateral_needed" => carried' = request'.attached
      BY <2>4
    <2> QED
      BY <2>3, <2>5, <2>6, <2>7, <2>8 DEF ProgressInv
  <1>6. FirstInv' /\ ThirdInv'
    BY <1>0, <1>1, <1>2 DEF FirstInv, ThirdInv
  <1>7. answers[2].verdict.error = Ok => held' = HandedIn(request)
    <2> SUFFICES ASSUME answers[2].verdict.error = Ok PROVE held' = HandedIn(request)
      OBVIOUS
    <2>1. LastAnswer = answers[2]
      BY <1>3 DEF LastAnswer
    <2>2. answers[2].consulted = NeededOf(request, NoFcn, request.attached)
      BY <1>0, <1>2, <1>3 DEF SecondInv
    <2>3. held' = [id \in (LastAnswer.consulted \cap DOMAIN request.published) \ request.down |->
                      request.published[id]]
      BY <2>1 DEF HandIn
    <2> QED
      BY <2>1, <2>2, <2>3 DEF HandedIn
  <1>8. SecondInv'
    BY <1>1, <1>2, <1>3, <1>4, <1>7 DEF SecondInv
  <1> QED
    BY <1>5, <1>6, <1>8

LEMMA NextWays == IInv /\ ConsultInv /\ LookupsInv /\ WaysInv /\ [Next]_vars => WaysInv'
  <1> SUFFICES ASSUME IInv, ConsultInv, LookupsInv, WaysInv, [Next]_vars,
                      request'.calls \in ThreeWays, WithoutGpu'
               PROVE  ProgressInv' /\ FirstInv' /\ SecondInv' /\ ThirdInv'
    BY DEF WaysInv
  <1>1. request' = request
    BY DEF Next, Begin, LookUp, Attach, collateral_needed, Judge, JudgeGpu, HandIn, vars
  <1>2. request.calls \in ThreeWays /\ WithoutGpu /\ pf' = pf
    BY <1>1 DEF WithoutGpu, pf
  <1>3. ProgressInv /\ FirstInv /\ SecondInv /\ ThirdInv
    BY <1>2 DEF WaysInv
  <1>4. CASE Begin
    BY <1>2, <1>4, BeginWays
  <1>5. ASSUME UNCHANGED <<request, todo, stage, carried, held, answers>>
        PROVE  ProgressInv' /\ FirstInv' /\ SecondInv' /\ ThirdInv'
    <2>1. ProgressInv'
      BY <1>3, <1>5 DEF ProgressInv
    <2>2. FirstInv' /\ ThirdInv'
      BY <1>3, <1>5 DEF FirstInv, ThirdInv
    <2>3. SecondInv'
      BY <1>2, <1>3, <1>5 DEF SecondInv
    <2> QED
      BY <2>1, <2>2, <2>3
  <1>6. ASSUME NEW id, LookUp(id) PROVE ProgressInv' /\ FirstInv' /\ SecondInv' /\ ThirdInv'
    BY <1>5, <1>6 DEF LookUp
  <1>7. CASE Attach
    BY <1>2, <1>7, AttachWays
  <1>8. CASE collateral_needed
    BY <1>2, <1>8, NeededWays
  <1>9. CASE Judge
    BY <1>2, <1>9, JudgeWays
  <1>10. CASE JudgeGpu
    BY <1>3, <1>10 DEF JudgeGpu, ProgressInv
  <1>11. CASE HandIn
    BY <1>2, <1>11, HandInWays
  <1>12. CASE UNCHANGED vars
    BY <1>5, <1>12 DEF vars
  <1> QED
    BY <1>4, <1>6, <1>7, <1>8, <1>9, <1>10, <1>11, <1>12 DEF Next

LEMMA WaysAlways == Spec => [](IInv /\ LookupsInv /\ WaysInv)
  <1>1. Init => LookupsInv /\ WaysInv
    <2> SUFFICES ASSUME Init PROVE LookupsInv /\ WaysInv
      OBVIOUS
    <2>1. /\ Len(answers) = 0 /\ stage = "idle" /\ todo = request.calls
          /\ held = NoFcn /\ carried = request.attached
      BY DEF Init
    <2>2. request.calls \in ThreeWays => todo = CallsLeft(request.calls, 0)
      BY <2>1, NextCall
    <2>3. request.calls \in ThreeWays => ProgressInv
      BY <2>1, <2>2 DEF ProgressInv
    <2> QED
      BY <2>1, <2>3 DEF LookupsInv, WaysInv, FirstInv, SecondInv, ThirdInv
  <1> QED
    BY <1>1, Invariant, ConsultAlways, NextLookups, NextWays, PTL DEF Spec

-------------------------------------------------------------------------------
(* The copy a chain is cut off is read like the whole one.                 *)

LEMMA AlikeSame ==
    ASSUME NEW kind, NEW d, NEW e
    PROVE  /\ Alike(kind, d, d)
           /\ Alike(kind, d, e) => Alike(kind, e, d)
           /\ \A c : Alike(kind, c, d) /\ Alike(kind, d, e) => Alike(kind, c, e)
  BY DEF Alike

LEMMA OneOrTwo ==
    1..1 = {1} /\ 1..2 = {1, 2}
  OBVIOUS

\* A root is cut off the end of a chain of one or two certificates.
LEMMA CutChain ==
    ASSUME NEW chain, IsSequence(chain), Len(chain) \in {1, 2}, chain[1] # BundledRoot
    PROVE  LET left == without_roots(chain)
           IN  /\ Len(left) \in {1, 2} /\ left[1] = chain[1] /\ left # << >>
               /\ Len(left) = 2 => Len(chain) = 2 /\ left[2] = chain[2]
               /\ Len(left) = 1 /\ Len(chain) = 2 => chain[2] = BundledRoot
               /\ left = [i \in 1..Len(left) |-> left[i]]
  <1> DEFINE own == {i \in DOMAIN chain : chain[i] # BundledRoot}
             n == Len(chain)
             kept == InOrder(own, n)
             left == without_roots(chain)
  <1>1. DOMAIN chain = 1..n /\ n \in {1, 2} /\ 1 \in own
    BY SequenceOfMembers
  <1>2. /\ kept \in Seq(UpTo(own, n)) /\ Len(kept) = Cardinality(UpTo(own, n))
        /\ \A m \in UpTo(own, n) : kept[Cardinality(UpTo(own, m))] = m
    BY <1>1, InOrderLists DEF Lists
  <1>3. left = [i \in 1..Len(kept) |-> chain[kept[i]]]
    BY DEF without_roots
  <1>4. UpTo(own, 1) = {1} /\ Cardinality({1}) = 1
    <2>1. 1 \in own
      BY <1>1
    <2> HIDE DEF own
    <2>2. UpTo(own, 1) = {1}
      BY <2>1, OneOrTwo DEF UpTo
    <2> QED
      BY <2>2, FS_Singleton
  <1>5. CASE n = 1 \/ (n = 2 /\ chain[2] = BundledRoot)
    <2>1. UpTo(own, n) = {1}
      <3>1. CASE n = 1
        BY <1>4, <3>1
      <3>2. CASE n = 2 /\ chain[2] = BundledRoot
        <4>1. 2 \notin own /\ 1..2 = {1, 2}
          BY <3>2
        <4> HIDE DEF own
        <4> QED
          BY <1>1, <3>2, <4>1 DEF UpTo
      <3> QED
        BY <1>5, <3>1, <3>2
    <2>2. Len(kept) = 1 /\ kept[1] = 1
      BY <1>2, <1>4, <2>1
    <2> HIDE DEF kept, left, own, n
    <2>3. left = [i \in 1..1 |-> chain[1]]
      BY <1>3, <2>2
    <2>4. Len(left) = 1 /\ left[1] = chain[1] /\ left # << >>
      BY <2>3
    <2>5. left = [i \in 1..Len(left) |-> left[i]]
      BY <2>3, <2>4
    <2>6. n = 2 => chain[2] = BundledRoot
      BY <1>5
    <2> QED
      BY <2>4, <2>5, <2>6 DEF left, n
  <1>6. CASE n = 2 /\ chain[2] # BundledRoot
    <2>1. UpTo(own, 2) = {1, 2} /\ Cardinality({1, 2}) = 2
      <3>1. 2 \in own /\ 1..2 = {1, 2}
        BY <1>1, <1>6
      <3>2. UpTo(own, 2) = {1, 2}
        <4> HIDE DEF own
        <4> QED
          BY <1>1, <3>1 DEF UpTo
      <3>3. Cardinality(UpTo(own, 2)) = Cardinality(UpTo(own, 2 - 1)) + 1
        <4> HIDE DEF own
        <4> QED
          BY <3>1, UpToGrows
      <3> QED
        BY <1>4, <3>2, <3>3
    <2>2. Len(kept) = 2 /\ kept[1] = 1 /\ kept[2] = 2
      BY <1>2, <1>4, <1>6, <2>1
    <2> HIDE DEF kept, left, own, n
    <2>3. left = [i \in 1..2 |-> chain[i]]
      BY <1>3, <2>2
    <2>4. Len(left) = 2 /\ left[1] = chain[1] /\ left[2] = chain[2] /\ left # << >>
      BY <2>3
    <2>5. left = [i \in 1..Len(left) |-> left[i]]
      BY <2>3, <2>4
    <2> QED
      BY <1>6, <2>4, <2>5 DEF left, n
  <1> QED
    BY <1>1, <1>5, <1>6

\* A signing chain of no more than two certificates holds without its root.
LEMMA CutChainHolds ==
    ASSUME NEW chain, IsSequence(chain), Len(chain) \in 0..2, NEW at, NEW signer,
           signer # BundledRoot.cn,
           verify_signing_cert_chain(chain, at, signer)
    PROVE  LET left == without_roots(chain)
           IN  /\ verify_signing_cert_chain(left, at, signer)
               /\ left[1] = chain[1] /\ left # << >>
  <1> DEFINE left == without_roots(chain)
             whole(sent) == IF Len(sent) = 1 THEN Append(sent, BundledRoot) ELSE sent
  <1>1. 1 \in DOMAIN chain /\ chain[1].cn = signer
    BY SigningChain
  <1>3. DOMAIN chain = 1..Len(chain) /\ Len(chain) \in Nat
    BY SequenceOfMembers DEF IsSequence
  <1>4. Len(chain) \in {1, 2} /\ chain[1] # BundledRoot
    <2> DEFINE n == Len(chain)
    <2>1. n \in 0..2 /\ 1 \in 1..n
      BY <1>1, <1>3
    <2> HIDE DEF n
    <2>2. n \in {1, 2}
      BY <2>1
    <2> QED
      BY <1>1, <2>2 DEF n
  <1>5. /\ Len(left) \in {1, 2} /\ left[1] = chain[1] /\ left # << >>
        /\ Len(left) = 2 => Len(chain) = 2 /\ left[2] = chain[2]
        /\ Len(left) = 1 /\ Len(chain) = 2 => chain[2] = BundledRoot
        /\ left = [i \in 1..Len(left) |-> left[i]]
    BY <1>4, CutChain
  <1> HIDE DEF left, whole
  <1>6. ASSUME NEW sent, IsSequence(sent), Len(sent) \in {1, 2}
        PROVE  /\ Len(whole(sent)) = 2 /\ whole(sent)[1] = sent[1]
               /\ whole(sent)[2] = IF Len(sent) = 1 THEN BundledRoot ELSE sent[2]
    <2>1. sent \in Seq({sent[i] : i \in 1..Len(sent)})
      BY <1>6, SequenceOfMembers
    <2>2. CASE Len(sent) = 1
      <3> DEFINE T == {sent[i] : i \in 1..Len(sent)}
                 n == Len(sent)
      <3>1. sent \in Seq(T) /\ n = 1
        BY <2>1, <2>2
      <3> HIDE DEF T
      <3>2. /\ Len(Append(sent, BundledRoot)) = n + 1
            /\ Append(sent, BundledRoot)[n + 1] = BundledRoot
            /\ \A i \in 1..n : Append(sent, BundledRoot)[i] = sent[i]
        BY <3>1, Lengthened
      <3> HIDE DEF n
      <3>3. n + 1 = 2 /\ 1 \in 1..n
        BY <3>1
      <3>4. /\ Len(Append(sent, BundledRoot)) = 2 /\ Append(sent, BundledRoot)[1] = sent[1]
            /\ Append(sent, BundledRoot)[2] = BundledRoot
        BY <3>2, <3>3
      <3> QED
        BY <2>2, <3>4 DEF whole
    <2>3. CASE Len(sent) = 2
      <3> DEFINE n == Len(sent)
      <3>1. n # 1
        <4>1. n = 2
          BY <2>3
        <4> HIDE DEF n
        <4> QED
          BY <4>1
      <3> QED
        BY <2>3, <3>1 DEF whole
    <2> QED
      BY <1>6, <2>2, <2>3
  <1>7. /\ Len(whole(chain)) = 2 /\ whole(chain)[1] = chain[1]
        /\ whole(chain)[2] = IF Len(chain) = 1 THEN BundledRoot ELSE chain[2]
    BY <1>4, <1>6
  <1>8. /\ Len(whole(left)) = 2 /\ whole(left)[1] = chain[1]
        /\ whole(left)[2] = IF Len(left) = 1 THEN BundledRoot ELSE left[2]
    <2>1. IsSequence(left)
      <3> DEFINE n == Len(left)
      <3>1. n \in Nat
        <4>1. n \in {1, 2}
          BY <1>5
        <4> HIDE DEF n
        <4> QED
          BY <4>1
      <3> QED
        BY <1>5, <3>1 DEF IsSequence
    <2> QED
      BY <1>5, <1>6, <2>1
  <1>9. whole(left)[2] = whole(chain)[2]
    BY <1>4, <1>5, <1>7, <1>8
  <1>10. \A sent : verify_signing_cert_chain(sent, at, signer) <=>
             /\ Len(whole(sent)) >= 2
             /\ whole(sent)[2].key = IntelRoot
             /\ SignedBy(whole(sent)[2], IntelRoot)
             /\ SignedBy(whole(sent)[1], IntelRoot)
             /\ whole(sent)[1].cn = signer
             /\ \A i \in 1..2 : ValidAt(whole(sent)[i], at)
    BY DEF verify_signing_cert_chain, whole
  <1>12. verify_signing_cert_chain(left, at, signer)
    BY <1>7, <1>8, <1>9, <1>10, OneOrTwo
  <1> QED
    BY <1>5, <1>12 DEF left

\* A document cut as an attester cuts it verifies, and is read alike.
LEMMA StripVerifies ==
    ASSUME NEW id, NEW doc, WellFormed(id, doc), Verifies(id, doc),
           "chain" \in DOMAIN doc /\ Asked(doc.chain) => Len(doc.chain[1]) \in 0..2,
           id[1] = "pck-crl" => id[2] \in KnownCa
    PROVE  Verifies(id, Strip(doc)) /\ Alike(id[1], doc, Strip(doc))
  <1> DEFINE cut == Strip(doc)
  <1>1. CASE ~("chain" \in DOMAIN doc /\ Asked(doc.chain))
    BY <1>1, AlikeSame DEF Strip
  <1>2. CASE "chain" \in DOMAIN doc /\ Asked(doc.chain)
    <2> DEFINE chain == doc.chain[1]
               left == without_roots(chain)
    <2>1. /\ cut.chain = Rule(left)
          /\ \A f \in DOMAIN doc \ {"chain"} : cut[f] = doc[f]
      BY <1>2 DEF Strip
    <2>2. Asked(cut.chain) /\ cut.chain[1] = left
      BY <2>1, RuleIsAsked
    <2> HIDE DEF cut, left
    <2>3. \A f \in FieldsOf(id[1]) \ {"chain"} : cut[f] = doc[f]
      BY <2>1 DEF WellFormed
    <2>4. CASE id[1] \in {"tcb-info", "qe-identity", "pck-crl"}
      <3> DEFINE signer == IF id[1] = "pck-crl" THEN id[2] ELSE TCB_SIGNING
      <3>1. /\ verify_signing_cert_chain(chain, doc.from, signer)
            /\ id[1] = "pck-crl" => chain # << >> /\ check_crl(doc, chain[1])
            /\ id[1] # "pck-crl" => doc.whole /\ SignedBy(doc.sig, chain[1].key)
            /\ id[1] = "tcb-info" => doc.id = "TDX" /\ doc.fmspc = id[2]
            /\ id[1] = "qe-identity" => doc.id = "TD_QE"
        BY <2>4 DEF Verifies, IntelVerifies, AmdVerifies, TcbInfo_verify, QeIdentity_verify,
               verify_signed_json, PckCrl_verify
      <3>2. signer # BundledRoot.cn
        BY DEF KnownCa, TCB_SIGNING, BundledRoot, Cert
      <3>3. IsSequence(chain) /\ Len(chain) \in 0..2
        BY <1>2, <2>4 DEF WellFormed
      <3> HIDE DEF chain, signer
      <3>4. /\ verify_signing_cert_chain(left, doc.from, signer)
            /\ left[1] = chain[1] /\ left # << >>
        BY <3>1, <3>2, <3>3, CutChainHolds DEF left
      <3>5. CASE id[1] = "pck-crl"
        <4>1. {"trailing", "issuer", "algorithm", "sig", "next", "from"} \subseteq FieldsOf(id[1])
          BY <3>5 DEF FieldsOf, Crl
        <4>2. /\ cut.trailing = doc.trailing /\ cut.issuer = doc.issuer
              /\ cut.algorithm = doc.algorithm /\ cut.sig = doc.sig /\ cut.next = doc.next
              /\ cut.from = doc.from
          BY <2>3, <4>1
        <4>3. check_crl(cut, left[1])
          BY <3>1, <3>4, <3>5, <4>2 DEF check_crl
        <4>4. PckCrl_verify(cut, id[2])
          BY <2>2, <3>4, <3>5, <4>2, <4>3 DEF PckCrl_verify, signer
        <4> QED
          BY <2>3, <3>5, <4>4 DEF Verifies, IntelVerifies, Alike, cut
      <3>6. CASE id[1] \in {"tcb-info", "qe-identity"}
        <4>1. /\ {"whole", "id", "from", "sig"} \subseteq FieldsOf(id[1])
              /\ id[1] = "tcb-info" => "fmspc" \in FieldsOf(id[1])
          BY <3>6 DEF FieldsOf, IntelDocument
        <4>2. /\ cut.whole = doc.whole /\ cut.id = doc.id /\ cut.from = doc.from /\ cut.sig = doc.sig
              /\ id[1] = "tcb-info" => cut.fmspc = doc.fmspc
          BY <2>3, <4>1
        <4>3. verify_signed_json(cut)
          BY <2>2, <3>1, <3>4, <3>6, <4>2 DEF verify_signed_json, signer
        <4>4. Verifies(id, cut)
          BY <3>1, <3>6, <4>2, <4>3 DEF Verifies, IntelVerifies, TcbInfo_verify, QeIdentity_verify
        <4>5. doc.chain[1][1] = cut.chain[1][1]
          BY <2>2, <3>4 DEF chain
        <4>6. Alike(id[1], doc, cut)
          BY <2>3, <4>5 DEF Alike
        <4> QED
          BY <4>4, <4>6 DEF cut
      <3> QED
        BY <2>4, <3>5, <3>6
    <2>5. CASE id[1] \notin {"tcb-info", "qe-identity", "pck-crl"}
      <3>1. Alike(id[1], doc, cut)
        BY <2>3, <2>5 DEF Alike
      <3>2. CASE id[1] = "root-crl"
        <4>1. {"trailing", "issuer", "algorithm", "sig", "next"} \subseteq FieldsOf(id[1]) \ {"chain"}
          BY <3>2 DEF FieldsOf, Crl
        <4>2. /\ cut.trailing = doc.trailing /\ cut.issuer = doc.issuer
              /\ cut.algorithm = doc.algorithm /\ cut.sig = doc.sig /\ cut.next = doc.next
          BY <2>3, <4>1
        <4>3. Verifies(id, cut)
          BY <3>2, <4>2 DEF Verifies, IntelVerifies, AmdVerifies, RootCrl_verify, check_crl
        <4> QED
          BY <3>1, <4>3 DEF cut
      <3>3. CASE id[1] = "amd-crl"
        <4>1. {"trailing", "gen", "algorithm", "sig", "next"} \subseteq FieldsOf(id[1]) \ {"chain"}
          BY <3>3 DEF FieldsOf, Crl
        <4>2. /\ cut.trailing = doc.trailing /\ cut.gen = doc.gen
              /\ cut.algorithm = doc.algorithm /\ cut.sig = doc.sig /\ cut.next = doc.next
          BY <2>3, <4>1
        <4>3. Verifies(id, cut)
          BY <3>3, <4>2 DEF Verifies, IntelVerifies, AmdVerifies, AmdCrl_verify
        <4> QED
          BY <3>1, <4>3 DEF cut
      <3>4. CASE id[1] = "vcek"
        <4>1. {"key", "by", "intact", "cn", "from", "until", "hwid", "spl", "whole"}
                  \subseteq FieldsOf(id[1]) \ {"chain"}
          BY <3>4 DEF FieldsOf
        <4>2. /\ cut.key = doc.key /\ cut.by = doc.by /\ cut.intact = doc.intact /\ cut.cn = doc.cn
              /\ cut.from = doc.from /\ cut.until = doc.until /\ cut.hwid = doc.hwid
              /\ cut.spl = doc.spl /\ cut.whole = doc.whole
          BY <2>3, <4>1
        <4>3. Vcek_verify(doc, id[2])
          BY <3>4 DEF Verifies, IntelVerifies, AmdVerifies
        <4>4. Vcek_verify(cut, id[2])
          BY <4>2, <4>3 DEF Vcek_verify, verify_cert_chain, check_vek_binding, SignedBy,
                 is_vlek_cert, FmcNames
        <4> QED
          BY <3>1, <3>4, <4>4 DEF cut, Verifies, AmdVerifies
      <3>5. CASE id[1] = "gce-endorsement"
        <4>1. {"whole", "cert", "pss", "digitalSignature", "ca", "sig", "late", "provenance",
               "tdx", "snp"} \subseteq FieldsOf(id[1]) \ {"chain"}
          BY <3>5 DEF FieldsOf
        <4>2. /\ cut.whole = doc.whole /\ cut.cert = doc.cert /\ cut.pss = doc.pss
              /\ cut.digitalSignature = doc.digitalSignature /\ cut.ca = doc.ca /\ cut.sig = doc.sig
              /\ cut.late = doc.late /\ cut.provenance = doc.provenance
              /\ cut.tdx = doc.tdx /\ cut.snp = doc.snp
          BY <2>3, <4>1
        <4>3. GceEndorsement_verify(doc, id[2])
          BY <3>5 DEF Verifies, IntelVerifies, AmdVerifies
        <4>4. GceEndorsement_verify(cut, id[2])
          BY <4>2, <4>3 DEF GceEndorsement_verify, check_endorsement, signer_key, check_signer_role
        <4> QED
          BY <3>1, <3>5, <4>4 DEF cut, Verifies
      <3> QED
        BY <2>5, <3>2, <3>3, <3>4, <3>5 DEF Verifies, IntelVerifies, AmdVerifies
    <2> QED
      BY <2>4, <2>5
  <1> QED
    BY <1>1, <1>2

-------------------------------------------------------------------------------
(* What the lookups of the three ways find.                                *)

LEMMA Two ==
    ASSUME NEW x, NEW y
    PROVE  <<x>> \o <<y>> = <<x, y>> /\ Append(<<x>>, y) = <<x, y>>
  <1>1. ASSUME NEW s, s \in Seq({x, y}), Len(s) = 2, s[1] = x, s[2] = y
        PROVE  s = <<x, y>>
    BY <1>1
  <1>2. <<x>> \in Seq({x, y}) /\ <<y>> \in Seq({x, y}) /\ Len(<<x>>) = 1 /\ Len(<<y>>) = 1
    OBVIOUS
  <1>3. <<x>>[1] = x /\ <<y>>[1] = y
    OBVIOUS
  <1>4. <<x>> \o <<y>> = <<x, y>>
    <2> DEFINE s == <<x>> \o <<y>>
    <2>1. s \in Seq({x, y})
      BY <1>2
    <2>2. Len(s) = 2
      BY <1>2
    <2>3. s[1] = x
      BY <1>2, <1>3
    <2>4. s[2] = y
      BY <1>2, <1>3
    <2> HIDE DEF s
    <2>5. s = <<x, y>>
      BY <1>1, <2>1, <2>2, <2>3, <2>4
    <2> QED
      BY <2>5 DEF s
  <1>5. Append(<<x>>, y) = <<x, y>>
    <2> DEFINE s == Append(<<x>>, y)
    <2>1. s \in Seq({x, y})
      BY <1>2
    <2>2. Len(s) = 2 /\ s[1] = x /\ s[2] = y
      BY <1>2, <1>3
    <2> HIDE DEF s
    <2>3. s = <<x, y>>
      BY <1>1, <2>1, <2>2
    <2> QED
      BY <2>3 DEF s
  <1> QED
    BY <1>4, <1>5

LEMMA Concatenated ==
    ASSUME NEW x, NEW y
    PROVE  /\ << >> \o << >> = << >> /\ <<x>> \o << >> = <<x>> /\ << >> \o <<y>> = <<y>>
           /\ <<x>> \o <<y>> = <<x, y>>
           /\ <<x>> # << >> /\ <<x, y>> # << >>
           /\ DOMAIN <<x>> = {1} /\ <<x>>[1] = x
           /\ DOMAIN <<x, y>> = {1, 2} /\ <<x, y>>[1] = x /\ <<x, y>>[2] = y
  <1>1. /\ DOMAIN <<x>> = {1} /\ <<x>>[1] = x
        /\ DOMAIN <<x, y>> = {1, 2} /\ <<x, y>>[1] = x /\ <<x, y>>[2] = y
    OBVIOUS
  <1>2. <<x>> # << >> /\ <<x, y>> # << >>
    OBVIOUS
  <1>3. << >> \o << >> = << >>
    OBVIOUS
  <1>4. <<x>> \o << >> = <<x>>
    OBVIOUS
  <1>5. << >> \o <<y>> = <<y>>
    OBVIOUS
  <1>6. <<x>> \o <<y>> = <<x, y>>
    BY Two
  <1> QED
    BY <1>1, <1>2, <1>3, <1>4, <1>5, <1>6

LEMMA NewestOf ==
    ASSUME NEW a, NEW b, a.edition \in Nat, b.edition \in Nat
    PROVE  /\ Newest(<<a>>) = a
           /\ Newest(<<a, b>>) = IF b.edition > a.edition THEN b ELSE a
  <1> DEFINE Best(copies, i) == \A j \in DOMAIN copies :
                 IF j < i THEN copies[j].edition < copies[i].edition
                 ELSE copies[j].edition <= copies[i].edition
  <1>1. Newest(<<a>>) = a
    <2>1. DOMAIN <<a>> = {1} /\ <<a>>[1] = a
      OBVIOUS
    <2>2. Newest(<<a>>) = <<a>>[CHOOSE i \in DOMAIN <<a>> : Best(<<a>>, i)]
      BY DEF Newest
    <2>3. Best(<<a>>, 1)
      BY <2>1
    <2> HIDE DEF Best
    <2>4. (CHOOSE i \in DOMAIN <<a>> : Best(<<a>>, i)) \in DOMAIN <<a>>
      BY <2>1, <2>3
    <2> QED
      BY <2>1, <2>2, <2>4
  <1>2. Newest(<<a, b>>) = IF b.edition > a.edition THEN b ELSE a
    <2> DEFINE s == <<a, b>>
               chosen == CHOOSE i \in DOMAIN s : Best(s, i)
    <2>1. DOMAIN s = {1, 2} /\ s[1] = a /\ s[2] = b
      OBVIOUS
    <2>2. Newest(s) = s[chosen]
      BY DEF Newest
    <2> HIDE DEF s
    <2>3. (Best(s, 1) <=> ~(b.edition > a.edition)) /\ (Best(s, 2) <=> b.edition > a.edition)
      BY <2>1
    <2> HIDE DEF Best
    <2>4. chosen \in DOMAIN s /\ Best(s, chosen)
      BY <2>1, <2>3
    <2> HIDE DEF chosen
    <2>5. chosen = IF b.edition > a.edition THEN 2 ELSE 1
      BY <2>1, <2>3, <2>4
    <2> QED
      BY <2>1, <2>2, <2>5 DEF s
  <1> QED
    BY <1>1, <1>2

LEMMA CopiesAre ==
    ASSUME NEW h, NEW c, NEW id
    PROVE  CopiesOf(h, c, id) =
               IF id \in DOMAIN h THEN IF id \in DOMAIN c THEN <<h[id], c[id]>> ELSE <<h[id]>>
               ELSE IF id \in DOMAIN c THEN <<c[id]>> ELSE << >>
  <1>1. \A x, y : /\ << >> \o << >> = << >> /\ <<x>> \o << >> = <<x>> /\ << >> \o <<y>> = <<y>>
                   /\ <<x>> \o <<y>> = <<x, y>>
    BY Concatenated
  <1>2. CASE id \in DOMAIN h /\ id \in DOMAIN c
    BY <1>1, <1>2, Zenon DEF CopiesOf
  <1>3. CASE id \in DOMAIN h /\ id \notin DOMAIN c
    BY <1>1, <1>3, Zenon DEF CopiesOf
  <1>4. CASE id \notin DOMAIN h /\ id \in DOMAIN c
    BY <1>1, <1>4, Zenon DEF CopiesOf
  <1>5. CASE id \notin DOMAIN h /\ id \notin DOMAIN c
    BY <1>1, <1>5, Zenon DEF CopiesOf
  <1> QED
    BY <1>2, <1>3, <1>4, <1>5

LEMMA FoundHas ==
    ASSUME NEW doc
    PROVE  /\ Found(doc).error = Ok /\ Found(doc).doc[1] = doc /\ Asked(Found(doc).doc)
           /\ Failed("CertChainError").error = "CertChainError"
           /\ ~Asked(Failed("CertChainError").doc) /\ ~Asked(Failed("CollateralUnavailable").doc)
  BY RuleIsAsked DEF Found, Failed, Asked

\* Without network, what counts is the copies at hand.
LEMMA Offline ==
    ASSUME NEW r, NEW h, NEW c, NEW id, CopiesOf(h, c, id) # << >>
    PROVE  LET copies == CopiesOf(h, c, id)
           IN  LookupOf(r, FALSE, h, c, id) =
                   IF \E i \in DOMAIN copies : ~Verifies(id, copies[i]) THEN Failed("CertChainError")
                   ELSE Found(Newest(copies))
  <1>1. ~Asked(LoadOf(r, FALSE, id).doc)
    BY FoundHas DEF LoadOf
  <1> QED
    BY <1>1 DEF LookupOf

\* Whatever is attached, a piece that needs none can be fetched.
Fetchable(r, id) == id \in DOMAIN r.published /\ id \notin r.down

LEMMA FetchedIs ==
    ASSUME NEW r \in Requests, NEW id, NEW a, NEW p,
           id \in DOMAIN r.attached => a = r.attached[id],
           Fetchable(r, id) => p = r.published[id]
    PROVE  LET piece == LookupOf(r, TRUE, NoFcn, r.attached, id)
           IN  /\ GoodEnough(CopiesOf(NoFcn, r.attached, id)) <=>
                      id \in DOMAIN r.attached /\ a.acceptable
               /\ id \in DOMAIN r.attached =>
                      /\ ~Verifies(id, a) => piece = Failed("CertChainError")
                      /\ Verifies(id, a) /\ a.acceptable => piece = Found(a)
                      /\ Verifies(id, a) /\ ~a.acceptable /\ Fetchable(r, id) =>
                             /\ ~Verifies(id, p) => piece = Found(a)
                             /\ Verifies(id, p) =>
                                    piece = Found(IF p.edition > a.edition THEN p ELSE a)
               /\ id \notin DOMAIN r.attached /\ Fetchable(r, id) =>
                      piece = IF Verifies(id, p) THEN Found(p) ELSE Failed("CertChainError")
  <1> DEFINE copies == CopiesOf(NoFcn, r.attached, id)
             load == LoadOf(r, TRUE, id)
  <1>1. copies = IF id \in DOMAIN r.attached THEN <<a>> ELSE << >>
    BY CopiesAre DEF NoFcn
  <1>2. Fetchable(r, id) => load = IF Verifies(id, p) THEN Found(p) ELSE Failed("CertChainError")
    BY DEF LoadOf, Fetchable
  <1>3. /\ id \in DOMAIN r.attached => a.edition \in Nat
        /\ Fetchable(r, id) => p.edition \in Nat
    BY RequestsAssumption DEF WellFormed, Fetchable
  <1>4. /\ Found(p).doc[1] = p /\ Asked(Found(p).doc)
        /\ ~Asked(Failed("CertChainError").doc)
    BY FoundHas
  <1>5. LookupOf(r, TRUE, NoFcn, r.attached, id) =
            IF \E i \in DOMAIN copies : ~Verifies(id, copies[i]) THEN Failed("CertChainError")
            ELSE IF GoodEnough(copies) \/ (copies # << >> /\ ~Asked(load.doc))
                 THEN Found(Newest(copies))
            ELSE IF copies = << >> THEN load
            ELSE Found(Newest(Append(copies, load.doc[1])))
    BY DEF LookupOf
  <1> HIDE DEF copies, load
  <1>6. CASE id \in DOMAIN r.attached
    <2>1. /\ copies = <<a>> /\ copies # << >> /\ DOMAIN copies = {1} /\ copies[1] = a
          /\ Newest(copies) = a
      BY <1>1, <1>3, <1>6, Concatenated, NewestOf
    <2>2. GoodEnough(copies) <=> a.acceptable
      BY <2>1 DEF GoodEnough
    <2>3. /\ ~Verifies(id, a) => LookupOf(r, TRUE, NoFcn, r.attached, id) = Failed("CertChainError")
          /\ Verifies(id, a) /\ a.acceptable =>
                 LookupOf(r, TRUE, NoFcn, r.attached, id) = Found(a)
      BY <1>5, <2>1, <2>2
    <2>4. Verifies(id, a) /\ ~a.acceptable /\ Fetchable(r, id) =>
              /\ ~Verifies(id, p) => LookupOf(r, TRUE, NoFcn, r.attached, id) = Found(a)
              /\ Verifies(id, p) => LookupOf(r, TRUE, NoFcn, r.attached, id) =
                                        Found(IF p.edition > a.edition THEN p ELSE a)
      <3> SUFFICES ASSUME Verifies(id, a), ~a.acceptable, Fetchable(r, id)
                   PROVE  /\ ~Verifies(id, p) => LookupOf(r, TRUE, NoFcn, r.attached, id) = Found(a)
                          /\ Verifies(id, p) => LookupOf(r, TRUE, NoFcn, r.attached, id) =
                                                    Found(IF p.edition > a.edition THEN p ELSE a)
        OBVIOUS
      <3>1. CASE ~Verifies(id, p)
        BY <1>2, <1>4, <1>5, <2>1, <2>2, <3>1
      <3>2. CASE Verifies(id, p)
        <4>1. load.doc[1] = p /\ Asked(load.doc)
          BY <1>2, <1>4, <3>2
        <4>2. Append(copies, load.doc[1]) = <<a, p>>
          <5>1. Append(<<a>>, p) = <<a, p>>
            BY Two, Zenon
          <5> QED
            BY <2>1, <4>1, <5>1, Zenon
        <4>3. Newest(<<a, p>>) = IF p.edition > a.edition THEN p ELSE a
          BY <1>3, <1>6, NewestOf
        <4>4. LookupOf(r, TRUE, NoFcn, r.attached, id) = Found(Newest(Append(copies, load.doc[1])))
          BY <1>5, <2>1, <2>2, <4>1
        <4> QED
          BY <3>2, <4>2, <4>3, <4>4
      <3> QED
        BY <3>1, <3>2
    <2> QED
      BY <1>6, <2>2, <2>3, <2>4 DEF copies
  <1>7. CASE id \notin DOMAIN r.attached
    <2>1. copies = << >> /\ DOMAIN copies = {} /\ ~GoodEnough(copies)
      BY <1>1, <1>7 DEF GoodEnough
    <2>2. LookupOf(r, TRUE, NoFcn, r.attached, id) = load
      BY <1>5, <2>1
    <2> QED
      BY <1>2, <1>7, <2>1, <2>2 DEF copies
  <1> QED
    BY <1>6, <1>7

(* A piece has one content per edition (the root, which is cut off when a  *)
(* piece is attached, aside), and comes with its signer and at most one    *)
(* more certificate.                                                       *)
OneEdition(r) ==
    \A id \in DOMAIN r.attached \cap DOMAIN r.published :
        LET a == r.attached[id]
            p == r.published[id]
        IN  Verifies(id, a) /\ Verifies(id, p) /\ a.edition = p.edition => Strip(a) = Strip(p)

OfTwo(doc) == "chain" \in DOMAIN doc /\ Asked(doc.chain) => Len(doc.chain[1]) \in 0..2

TwoCertificates(r) ==
    /\ \A id \in DOMAIN r.attached : OfTwo(r.attached[id])
    /\ \A id \in DOMAIN r.published : OfTwo(r.published[id])

\* Only a CA of Intel's has its CRL looked up.
LEMMA CrlOfKnown ==
    ASSUME NEW r, NEW id \in WantedBy(r), id[1] = "pck-crl"
    PROVE  id[2] \in KnownCa
  <1> DEFINE ids == MainSet(r.platform, r.evidence, r.now)
             q == Quote(r.platform, r.evidence)
  <1>1. EndorsementOf(r.platform, r.evidence)[1] = "gce-endorsement"
    BY DEF EndorsementOf, Endorsement
  <1>2. PICK i \in DOMAIN ids : id = ids[i]
    BY <1>1 DEF WantedBy, Wanted, ToSet
  <1>3. /\ \A x, y : AmdCrl(x, y)[1] = "amd-crl"
        /\ \A x, y, z : Vcek(x, y, z)[1] = "vcek"
        /\ \A x : TcbInfo(x)[1] = "tcb-info" /\ PckCrl(x)[2] = x
        /\ QeIdentity[1] = "qe-identity" /\ RootCrl[1] = "root-crl"
    BY DEF AmdCrl, Vcek, TcbInfo, PckCrl, QeIdentity, RootCrl
  <1>4. SetError(r.platform, r.evidence) = Ok
    <2>1. SUFFICES ASSUME SetError(r.platform, r.evidence) # Ok PROVE FALSE
      OBVIOUS
    <2>2. ids = << >>
      BY <2>1, MainSetIs
    <2> HIDE DEF ids
    <2> QED
      BY <1>2, <2>2
  <1>5. CASE r.platform \in TdxPlatforms
    <2>1. ids = <<TcbInfo(PckChain(q).fmspc), QeIdentity, PckCrl(PckChain(q).ca), RootCrl>>
      BY <1>4, <1>5, MainSetIs
    <2> HIDE DEF ids, q
    <2>2. id \in {TcbInfo(PckChain(q).fmspc), QeIdentity, PckCrl(PckChain(q).ca), RootCrl}
      BY <1>2, <2>1
    <2>3. id[2] = PckChain(q).ca
      BY <1>3, <2>2
    <2>4. PckChainOk(q)
      BY <1>4, <1>5 DEF SetError, Check, Ok, q
    <2> QED
      BY <2>3, <2>4 DEF PckChain, PckChainOk
  <1>6. CASE r.platform \notin TdxPlatforms
    <2>1. (\E x, y : ids = <<AmdCrl(x, y)>>) \/ (\E w, x, y, z : ids = <<Vcek(x, y, z), AmdCrl(x, w)>>)
      BY <1>4, <1>6, MainSetIs
    <2> HIDE DEF ids
    <2>2. (\E x, y : id = AmdCrl(x, y)) \/ (\E x, y, z : id = Vcek(x, y, z))
      <3>1. CASE \E x, y : ids = <<AmdCrl(x, y)>>
        BY <1>2, <3>1
      <3>2. CASE \E w, x, y, z : ids = <<Vcek(x, y, z), AmdCrl(x, w)>>
        <4>1. PICK w, x, y, z : ids = <<Vcek(x, y, z), AmdCrl(x, w)>>
          BY <3>2
        <4>2. id \in {Vcek(x, y, z), AmdCrl(x, w)}
          BY <1>2, <4>1
        <4> QED
          BY <4>2
      <3> QED
        BY <2>1, <3>1, <3>2
    <2> QED
      BY <1>3, <2>2
  <1> QED
    BY <1>5, <1>6

\* A page that hands in what is needed finds what a verifier would have fetched.
LEMMA PageFinds ==
    ASSUME NEW r \in Requests, OneEdition(r), TwoCertificates(r), NEW id \in WantedBy(r),
           id \in NeededOf(r, NoFcn, r.attached) =>
               /\ Fetchable(r, id)
               /\ id \in DOMAIN r.attached => Verifies(id, r.published[id])
    PROVE  AlikePiece(id, LookupOf(r, TRUE, NoFcn, r.attached, id),
                          LookupOf(r, FALSE, HandedIn(r), r.attached, id))
  <1> DEFINE a == r.attached[id]
             p == r.published[id]
             h == HandedIn(r)
             needed == id \in NeededOf(r, NoFcn, r.attached)
             attached == id \in DOMAIN r.attached
             copies == CopiesOf(h, r.attached, id)
             piece == LookupOf(r, TRUE, NoFcn, r.attached, id)
             other == LookupOf(r, FALSE, h, r.attached, id)
  <1>1. /\ needed <=> ~(attached /\ a.acceptable)
        /\ attached =>
               /\ ~Verifies(id, a) => piece = Failed("CertChainError")
               /\ Verifies(id, a) /\ a.acceptable => piece = Found(a)
               /\ Verifies(id, a) /\ ~a.acceptable /\ Fetchable(r, id) /\ Verifies(id, p) =>
                      piece = Found(IF p.edition > a.edition THEN p ELSE a)
        /\ ~attached /\ Fetchable(r, id) =>
               piece = IF Verifies(id, p) THEN Found(p) ELSE Failed("CertChainError")
    BY FetchedIs DEF NeededOf
  <1>2. /\ id \in DOMAIN h <=> needed /\ Fetchable(r, id)
        /\ id \in DOMAIN h => h[id] = p
    BY DEF HandedIn, Fetchable
  <1>3. /\ attached => a.edition \in Nat /\ WellFormed(id, a) /\ OfTwo(a)
        /\ needed => p.edition \in Nat /\ WellFormed(id, p) /\ OfTwo(p)
    BY RequestsAssumption DEF WellFormed, Fetchable, TwoCertificates
  <1>4. needed => Fetchable(r, id) /\ (attached => Verifies(id, p))
    OBVIOUS
  <1>5. \A x : AlikePiece(id, x, x)
    BY DEF AlikePiece, Alike
  <1>6. copies # << >> =>
            other = IF \E i \in DOMAIN copies : ~Verifies(id, copies[i])
                    THEN Failed("CertChainError") ELSE Found(Newest(copies))
    BY Offline
  <1>7. copies = IF id \in DOMAIN h THEN IF attached THEN <<p, a>> ELSE <<p>>
                 ELSE IF attached THEN <<a>> ELSE << >>
    BY <1>2, CopiesAre
  <1>8. attached /\ needed /\ Verifies(id, a) /\ a.edition = p.edition =>
            AlikePiece(id, Found(a), Found(p))
    <2> SUFFICES ASSUME attached, needed, Verifies(id, a), a.edition = p.edition
                 PROVE  AlikePiece(id, Found(a), Found(p))
      OBVIOUS
    <2>1. Strip(a) = Strip(p) /\ Verifies(id, p)
      BY <1>4 DEF OneEdition, Fetchable
    <2>2. id[1] = "pck-crl" => id[2] \in KnownCa
      BY CrlOfKnown
    <2>3. Alike(id[1], a, Strip(a))
      BY <1>3, <2>2, StripVerifies DEF OfTwo
    <2>4. Alike(id[1], p, Strip(p))
      BY <1>3, <2>1, <2>2, StripVerifies DEF OfTwo
    <2>5. Alike(id[1], a, p)
      BY <2>1, <2>3, <2>4, AlikeSame
    <2> QED
      BY <2>5, FoundHas DEF AlikePiece
  <1> HIDE DEF a, p, h, needed, attached, copies, piece, other
  <1>9. CASE ~needed
    <2>1. /\ copies = <<a>> /\ copies # << >> /\ DOMAIN copies = {1} /\ copies[1] = a
          /\ Newest(copies) = a
      BY <1>1, <1>2, <1>3, <1>7, <1>9, Concatenated, NewestOf
    <2>2. other = piece
      BY <1>1, <1>6, <1>9, <2>1
    <2> QED
      BY <1>5, <2>2 DEF other, piece, h
  <1>10. CASE needed /\ ~attached
    <2>1. /\ copies = <<p>> /\ copies # << >> /\ DOMAIN copies = {1} /\ copies[1] = p
          /\ Newest(copies) = p
      BY <1>2, <1>3, <1>4, <1>7, <1>10, Concatenated, NewestOf
    <2>2. other = piece
      BY <1>1, <1>4, <1>6, <1>10, <2>1
    <2> QED
      BY <1>5, <2>2 DEF other, piece, h
  <1>11. CASE needed /\ attached
    <2>1. /\ copies = <<p, a>> /\ copies # << >> /\ DOMAIN copies = {1, 2}
          /\ copies[1] = p /\ copies[2] = a
      BY <1>2, <1>4, <1>7, <1>11, Concatenated
    <2>2. Newest(copies) = IF a.edition > p.edition THEN a ELSE p
      <3>1. Newest(<<p, a>>) = IF a.edition > p.edition THEN a ELSE p
        BY <1>3, <1>11, NewestOf
      <3> QED
        BY <2>1, <3>1
    <2>3. CASE ~Verifies(id, a)
      <3>1. other = piece
        BY <1>1, <1>6, <1>11, <2>1, <2>3
      <3> QED
        BY <1>5, <3>1 DEF other, piece, h
    <2>4. CASE Verifies(id, a)
      <3>1. /\ piece = Found(IF p.edition > a.edition THEN p ELSE a)
            /\ other = Found(IF a.edition > p.edition THEN a ELSE p)
        BY <1>1, <1>4, <1>6, <1>11, <2>1, <2>2, <2>4
      <3>2. CASE a.edition = p.edition
        <4>1. piece = Found(a) /\ other = Found(p)
          <5>1. ~(p.edition > a.edition) /\ ~(a.edition > p.edition)
            BY <1>3, <1>11, <3>2
          <5> QED
            BY <3>1, <5>1
        <4> QED
          BY <1>8, <1>11, <2>4, <3>2, <4>1 DEF other, piece, h
      <3>3. CASE a.edition # p.edition
        <4>1. p.edition > a.edition <=> ~(a.edition > p.edition)
          BY <1>3, <1>11, <3>3
        <4>2. piece = other
          BY <3>1, <4>1
        <4> QED
          BY <1>5, <4>2 DEF other, piece, h
      <3> QED
        BY <3>2, <3>3
    <2> QED
      BY <2>3, <2>4
  <1> QED
    BY <1>9, <1>10, <1>11

\* What a verifier fetches, where nothing is missing: each piece, or a bad one.
LEMMA FetchedWhole ==
    ASSUME NEW r \in Requests, TwoCertificates(r), NEW id \in WantedBy(r),
           id \in NeededOf(r, NoFcn, r.attached) => Fetchable(r, id)
    PROVE  LET piece == LookupOf(r, TRUE, NoFcn, r.attached, id)
           IN  \/ piece = Failed("CertChainError")
               \/ \E doc : /\ piece = Found(doc)
                           /\ Verifies(id, doc) /\ WellFormed(id, doc) /\ OfTwo(doc)
  <1> DEFINE a == r.attached[id]
             p == r.published[id]
             needed == id \in NeededOf(r, NoFcn, r.attached)
             attached == id \in DOMAIN r.attached
             piece == LookupOf(r, TRUE, NoFcn, r.attached, id)
             Good(doc) == Verifies(id, doc) /\ WellFormed(id, doc) /\ OfTwo(doc)
  <1>1. /\ needed <=> ~(attached /\ a.acceptable)
        /\ attached =>
               /\ ~Verifies(id, a) => piece = Failed("CertChainError")
               /\ Verifies(id, a) /\ a.acceptable => piece = Found(a)
               /\ Verifies(id, a) /\ ~a.acceptable /\ Fetchable(r, id) =>
                      /\ ~Verifies(id, p) => piece = Found(a)
                      /\ Verifies(id, p) => piece = Found(IF p.edition > a.edition THEN p ELSE a)
        /\ ~attached /\ Fetchable(r, id) =>
               piece = IF Verifies(id, p) THEN Found(p) ELSE Failed("CertChainError")
    BY FetchedIs DEF NeededOf
  <1>2. /\ attached => WellFormed(id, a) /\ OfTwo(a)
        /\ needed => Fetchable(r, id) /\ WellFormed(id, p) /\ OfTwo(p)
    BY RequestsAssumption DEF Fetchable, TwoCertificates
  <1>3. piece = Failed("CertChainError") \/ \E doc : piece = Found(doc) /\ Good(doc)
    <2> HIDE DEF a, p, needed, attached, piece
    <2>1. CASE attached /\ ~needed
      BY <1>1, <1>2, <2>1
    <2>2. CASE attached /\ needed
      <3>1. piece \in {Failed("CertChainError"), Found(a)} \/ (Verifies(id, p) /\ piece = Found(p))
        BY <1>1, <1>2, <2>2
      <3> QED
        BY <1>1, <1>2, <2>2, <3>1
    <2>3. CASE ~attached
      BY <1>1, <1>2, <2>3
    <2> QED
      BY <2>1, <2>2, <2>3
  <1> QED
    BY <1>3

\* A verifier without network finds attached what the attester has fetched.
LEMMA AttachedFinds ==
    ASSUME NEW r \in Requests, TwoCertificates(r), NEW id \in WantedBy(r),
           id \in NeededOf(r, NoFcn, r.attached) => Fetchable(r, id),
           FetchedBy(r)[id].error = Ok
    PROVE  AlikePiece(id, LookupOf(r, TRUE, NoFcn, r.attached, id),
                          LookupOf(r, FALSE, NoFcn, AttachedBy(r), id))
  <1> DEFINE piece == LookupOf(r, TRUE, NoFcn, r.attached, id)
             c == AttachedBy(r)
             copies == CopiesOf(NoFcn, c, id)
  <1>1. FetchedBy(r)[id] = piece
    BY DEF FetchedBy, FoundOf
  <1>2. piece # Failed("CertChainError")
    BY <1>1, FoundHas DEF Ok
  <1>3. PICK doc : /\ piece = Found(doc)
                   /\ Verifies(id, doc) /\ WellFormed(id, doc) /\ OfTwo(doc)
    BY <1>2, FetchedWhole
  <1>4. Asked(piece.doc) /\ piece.doc[1] = doc
    BY <1>3, FoundHas
  <1>5. id \in DOMAIN c /\ c[id] = Strip(doc)
    BY <1>1, <1>4 DEF AttachedBy
  <1>6. Verifies(id, Strip(doc)) /\ Alike(id[1], doc, Strip(doc))
    BY <1>3, CrlOfKnown, StripVerifies DEF OfTwo
  <1>7. Strip(doc).edition \in Nat
    BY <1>3, StripKeeps DEF WellFormed
  <1>8. /\ copies = <<Strip(doc)>> /\ copies # << >> /\ DOMAIN copies = {1}
        /\ copies[1] = Strip(doc) /\ Newest(copies) = Strip(doc)
    <2>1. copies = <<Strip(doc)>>
      BY <1>5, CopiesAre DEF NoFcn
    <2> QED
      BY <1>7, <2>1, Concatenated, NewestOf
  <1>9. LookupOf(r, FALSE, NoFcn, c, id) = Found(Strip(doc))
    <2>1. LookupOf(r, FALSE, NoFcn, c, id) =
              IF \E i \in DOMAIN copies : ~Verifies(id, copies[i])
              THEN Failed("CertChainError") ELSE Found(Newest(copies))
      BY <1>8, Offline
    <2> HIDE DEF copies, c
    <2> QED
      BY <1>6, <1>8, <2>1
  <1> QED
    BY <1>3, <1>6, <1>9, FoundHas DEF AlikePiece

-------------------------------------------------------------------------------
(* What is not unavailable is told apart: an attester that attaches what   *)
(* it has fetched has judged the evidence with it.                         *)

Missing == {"CollateralUnavailable"}

LEMMA MissingTells ==
    /\ Ok \notin Missing
    /\ \A a, b : a \notin Missing /\ (a = Ok => b \notin Missing) => (a && b) \notin Missing
  BY DEF Missing, Ok, &&

LEMMA ReportTells ==
    ASSUME NEW report, NEW vek, NEW gen, NEW t
    PROVE  check_report(report, vek, gen, t) \notin Missing
  <1>1. verify_vek_endorsement(report, vek, gen, t) \notin Missing
    BY DEF verify_vek_endorsement, &&, Check, Ok, Missing
  <1> QED
    BY <1>1 DEF check_report, &&, Check, Ok, Missing

LEMMA FirstErrorTells ==
    ASSUME NEW errors, DOMAIN errors \in SUBSET Nat, \A i \in DOMAIN errors : errors[i] \notin Missing
    PROVE  FirstError(errors) \notin Missing
  <1> DEFINE failed == {i \in DOMAIN errors : errors[i] # Ok}
  <1>1. CASE failed = {}
    BY <1>1, MissingTells DEF FirstError
  <1>2. CASE failed # {}
    <2>1. FirstError(errors) = errors[FirstOf(failed)]
      BY <1>2 DEF FirstError
    <2>2. failed \in SUBSET Nat /\ failed \subseteq DOMAIN errors
      OBVIOUS
    <2> HIDE DEF failed
    <2>3. FirstOf(failed) \in failed
      BY <1>2, <2>2, FirstIsLeast
    <2> QED
      BY <2>1, <2>2, <2>3
  <1> QED
    BY <1>1, <1>2

\* Gathering says that a piece is unavailable only if a lookup has said so.
LEMMA GatherTells ==
    ASSUME NEW r, r.platform \in TdxPlatforms \cup SnpPlatforms, NEW f,
           \A id \in WantedBy(r) : f[id].error \notin Missing
    PROVE  GatherError(r.platform, r.evidence, f, r.now) \notin Missing
  <1> DEFINE platform == r.platform
             e == r.evidence
             t == r.now
             ids == MainSet(platform, e, t)
             errors == [i \in DOMAIN ids |-> f[ids[i]].error]
  <1>1. SetError(platform, e) \notin Missing
    <2>1. SnpSetError(e) \notin Missing
      BY DEF SnpSetError, &&, Check, Ok, Missing
    <2>2. Check(PckChainOk(Quote(platform, e)), "CertChainError") \notin Missing
      BY DEF Check, Ok, Missing
    <2> QED
      BY <2>1, <2>2, MissingTells DEF SetError
  <1>2. ASSUME SetError(platform, e) = Ok
        PROVE  MainSetError(platform, e, f, t) \notin Missing
    <2>1. DOMAIN ids \in SUBSET Nat
      BY <1>2 DEF MainSet, TdxCollateralSet, AzSnpCollateralSet, SnpCollateralSet
    <2>2. \A i \in DOMAIN ids : f[ids[i]].error \notin Missing
      BY DEF WantedBy, Wanted, ToSet
    <2>3. CASE platform \in SnpPlatforms \ {"az-snp"} /\ Len(ids) = 2
      <3>1. {1, 2} \subseteq DOMAIN ids
        <4>1. platform \notin TdxPlatforms
          BY <2>3 DEF SnpPlatforms, TdxPlatforms
        <4>2. (\E x : ids = <<x>>) \/ (\E x, y : ids = <<x, y>>)
          BY <1>2, <4>1, MainSetIs
        <4> QED
          BY <2>3, <4>2
      <3>2. f[ids[1]].error \notin Missing /\ f[ids[2]].error \notin Missing
        BY <2>2, <3>1
      <3> HIDE DEF ids
      <3>3. check_report(e.report, f[ids[1]].doc[1], e.report.cpuid[1], t) \notin Missing
        BY ReportTells
      <3>4. (check_report(e.report, f[ids[1]].doc[1], e.report.cpuid[1], t)
                && f[ids[2]].error) \notin Missing
        BY <3>2, <3>3, MissingTells
      <3> QED
        BY <2>3, <3>2, <3>3, <3>4, MissingTells DEF MainSetError, ids, &&
    <2>4. CASE ~(platform \in SnpPlatforms \ {"az-snp"} /\ Len(ids) = 2)
      <3>1. MainSetError(platform, e, f, t) = FirstError(errors)
        BY <2>4 DEF MainSetError, LookupErrors
      <3>2. DOMAIN errors \in SUBSET Nat /\ \A i \in DOMAIN errors : errors[i] \notin Missing
        BY <2>1, <2>2
      <3> HIDE DEF errors
      <3>3. FirstError(errors) \notin Missing
        BY <3>2, FirstErrorTells
      <3> QED
        BY <3>1, <3>3
    <2> QED
      BY <2>3, <2>4
  <1>3. (IF platform \in GcpPlatforms THEN f[EndorsementOf(platform, e)].error ELSE Ok) \notin Missing
    BY MissingTells DEF WantedBy, Wanted
  <1> QED
    BY <1>1, <1>2, <1>3 DEF GatherError, &&

\* Where gathering has no error, no lookup has.
LEMMA AllGathered ==
    ASSUME NEW r, r.platform \in TdxPlatforms \cup SnpPlatforms, NEW f,
           GatherError(r.platform, r.evidence, f, r.now) = Ok
    PROVE  \A id \in WantedBy(r) : f[id].error = Ok
  <1> DEFINE platform == r.platform
             e == r.evidence
             t == r.now
             ids == MainSet(platform, e, t)
             errors == [i \in DOMAIN ids |-> f[ids[i]].error]
  <1>1. /\ SetError(platform, e) = Ok /\ MainSetError(platform, e, f, t) = Ok
        /\ platform \in GcpPlatforms => f[EndorsementOf(platform, e)].error = Ok
    BY AndOk DEF GatherError
  <1>2. DOMAIN ids \in SUBSET Nat
    BY <1>1 DEF MainSet, TdxCollateralSet, AzSnpCollateralSet, SnpCollateralSet
  <1>3. CASE platform \in SnpPlatforms \ {"az-snp"} /\ Len(ids) = 2
    <2>1. f[ids[1]].error = Ok /\ f[ids[2]].error = Ok
      BY <1>1, <1>3, AndOk DEF MainSetError
    <2>2. DOMAIN ids \subseteq {1, 2}
      <3>1. platform \notin TdxPlatforms
        BY <1>3 DEF SnpPlatforms, TdxPlatforms
      <3>2. (\E x : ids = <<x>>) \/ (\E x, y : ids = <<x, y>>)
        BY <1>1, <3>1, MainSetIs
      <3> QED
        BY <3>2
    <2> QED
      BY <1>1, <2>1, <2>2 DEF WantedBy, Wanted, ToSet
  <1>4. CASE ~(platform \in SnpPlatforms \ {"az-snp"} /\ Len(ids) = 2)
    <2>1. FirstError(errors) = Ok
      BY <1>1, <1>4 DEF MainSetError, LookupErrors
    <2>2. DOMAIN errors \in SUBSET Nat /\ \A i \in DOMAIN ids : errors[i] = f[ids[i]].error
      BY <1>2
    <2>3. DOMAIN errors = DOMAIN ids
      OBVIOUS
    <2> HIDE DEF errors
    <2>4. \A i \in DOMAIN errors : errors[i] = Ok
      BY <2>1, <2>2, NoErrorLeft
    <2> QED
      BY <1>1, <2>2, <2>3, <2>4 DEF WantedBy, Wanted, ToSet
  <1> QED
    BY <1>3, <1>4

\* The first call asks for what is needed, and the page for the same.
LEMMA AskedFor ==
    ASSUME WaysInv, request.calls \in ThreeWays, WithoutGpu, Len(answers) = 3,
           answers[1].consulted \subseteq DOMAIN request.published \ request.down,
           ~RefusedAtOnce(request)
    PROVE  \A id \in NeededOf(request, NoFcn, request.attached) : Fetchable(request, id)
  <1>1. FirstInv /\ Len(answers) >= 1
    BY DEF WaysInv
  <1> QED
    BY <1>1 DEF FirstInv, Fetchable

LEMMA AttachAgrees ==
    ASSUME IInv, WaysInv, request.calls \in ThreeWays, WithoutGpu, Len(answers) = 3,
           TwoCertificates(request), request.calls[2] = "attach", answers[2].verdict.error = Ok,
           answers[1].consulted \subseteq DOMAIN request.published \ request.down,
           ~RefusedAtOnce(request)
    PROVE  AllAlike(request, FetchedBy(request), FoundOf(request, FALSE, held, carried))
  <1> DEFINE r == request
  <1>1. r \in Requests /\ r.platform \in TdxPlatforms \cup SnpPlatforms
    BY PlatformsAre DEF IInv, CopiesInv, pf
  <1>2. /\ held = NoFcn /\ carried = AttachedBy(r)
        /\ JudgeErrorOf(r, Default(pf), FetchedBy(r)) \in {Ok, "CollateralUnavailable"}
    <2>1. ProgressInv /\ SecondInv /\ Len(answers) >= 2
      BY DEF WaysInv
    <2> QED
      BY <2>1 DEF ProgressInv, SecondInv
  <1>3. \A id \in NeededOf(r, NoFcn, r.attached) : Fetchable(r, id)
    BY AskedFor
  <1>4. \A id \in WantedBy(r) : FetchedBy(r)[id].error \notin Missing
    <2> TAKE id \in WantedBy(r)
    <2> DEFINE piece == LookupOf(r, TRUE, NoFcn, r.attached, id)
    <2>1. FetchedBy(r)[id] = piece
      BY DEF FetchedBy, FoundOf
    <2>2. piece = Failed("CertChainError") \/ \E doc : piece = Found(doc)
      BY <1>1, <1>3, FetchedWhole
    <2> HIDE DEF piece
    <2> QED
      BY <2>1, <2>2, FoundHas, MissingTells DEF Missing
  <1>5. GatherError(r.platform, r.evidence, FetchedBy(r), r.now) = Ok
    <2>1. GatherError(r.platform, r.evidence, FetchedBy(r), r.now) \notin Missing
      BY <1>1, <1>4, GatherTells
    <2> QED
      BY <1>2, <2>1 DEF JudgeErrorOf, &&, Missing
  <1>6. \A id \in WantedBy(r) : FetchedBy(r)[id].error = Ok
    BY <1>1, <1>5, AllGathered
  <1>7. \A id \in WantedBy(r) :
            AlikePiece(id, LookupOf(r, TRUE, NoFcn, r.attached, id),
                           LookupOf(r, FALSE, NoFcn, AttachedBy(r), id))
    BY <1>1, <1>3, <1>6, AttachedFinds
  <1> QED
    BY <1>2, <1>7 DEF AllAlike, FetchedBy, FoundOf

LEMMA PageAgrees ==
    ASSUME IInv, WaysInv, request.calls \in ThreeWays, WithoutGpu, Len(answers) = 3, stage = "idle",
           OneEdition(request), TwoCertificates(request), request.calls[2] = "collateral_needed",
           answers[2].verdict.error = Ok, ~FetchedInVain,
           answers[1].consulted \subseteq DOMAIN request.published \ request.down,
           ~RefusedAtOnce(request)
    PROVE  AllAlike(request, FetchedBy(request), FoundOf(request, FALSE, held, carried))
  <1> DEFINE r == request
  <1>1. r \in Requests
    BY DEF IInv, CopiesInv
  <1>2. /\ answers[2].call = "collateral_needed" /\ carried = r.attached /\ held = HandedIn(r)
        /\ answers[2].consulted = NeededOf(r, NoFcn, r.attached)
    <2>1. ProgressInv /\ SecondInv /\ Len(answers) >= 2
      BY DEF WaysInv
    <2>2. stage # "handing in"
      OBVIOUS
    <2> QED
      BY <2>1, <2>2 DEF ProgressInv, SecondInv
  <1>3. \A id \in NeededOf(r, NoFcn, r.attached) :
            Fetchable(r, id) /\ (id \in DOMAIN r.attached => Verifies(id, r.published[id]))
    BY <1>2, AskedFor DEF FetchedInVain
  <1>4. \A id \in WantedBy(r) :
            AlikePiece(id, LookupOf(r, TRUE, NoFcn, r.attached, id),
                           LookupOf(r, FALSE, HandedIn(r), r.attached, id))
    BY <1>1, <1>3, PageFinds
  <1> QED
    BY <1>2, <1>4 DEF AllAlike, FetchedBy, FoundOf

LEMMA WaysAgreeNow ==
    ASSUME IInv, WaysInv, OneEdition(request), TwoCertificates(request)
    PROVE  VerdictsAgree
  <1> SUFFICES ASSUME request.calls \in ThreeWays, Len(answers) = 3, stage = "idle", WithoutGpu,
                      answers[2].verdict.error = Ok, ~FetchedInVain,
                      answers[1].consulted \subseteq DOMAIN request.published \ request.down
               PROVE  answers[3].verdict = answers[1].verdict
    BY DEF VerdictsAgree, WithoutGpu
  <1> DEFINE r == request
             p == r.policy[1]
             f == FetchedBy(r)
             g == FoundOf(r, FALSE, held, carried)
  <1>1. /\ answers[1].verdict = JudgedWith(r, TRUE, NoFcn, r.attached)
        /\ answers[3].verdict = JudgedWith(r, FALSE, held, carried)
    <2>1. FirstInv /\ ThirdInv /\ Len(answers) >= 1
      BY DEF WaysInv
    <2> QED
      BY <2>1 DEF FirstInv, ThirdInv
  <1>2. CASE RefusedAtOnce(r)
    BY <1>1, <1>2 DEF JudgedWith
  <1>3. CASE ~RefusedAtOnce(r)
    <2>1. r.calls[2] \in {"attach", "collateral_needed"}
      BY DEF ThreeWays
    <2>2. AllAlike(r, f, g)
      BY <1>3, <2>1, AttachAgrees, PageAgrees
    <2>3. r.platform \in TdxPlatforms \cup SnpPlatforms
      BY PlatformsAre DEF pf
    <2>4. VerdictOf(r, p, f) = VerdictOf(r, p, g)
      BY <2>2, <2>3, SameVerdict
    <2>5. /\ answers[1].verdict = VerdictOf(r, p, f)
          /\ answers[3].verdict = VerdictOf(r, p, g)
      BY <1>1, <1>3 DEF JudgedWith, FetchedBy
    <2> QED
      BY <2>4, <2>5
  <1> QED
    BY <1>2, <1>3

(* Asked for at once, by way of an attester that attaches what it fetches, *)
(* or by way of a page that hands in what it is told is needed: the same   *)
(* evidence and collateral get the same verdict, in every run of the       *)
(* verifier. Left out is only collateral of which two copies of one        *)
(* edition differ in more than the root their chain ends in (on a tie the  *)
(* copy handed in comes before the one attached, and that before the one   *)
(* fetched: the store's lookup), and signing chains of more than two       *)
(* certificates (dcap reads the first two, and which these are changes     *)
(* when a root among them is cut out).                                     *)
THEOREM WaysAgree ==
    Spec => [](OneEdition(request) /\ TwoCertificates(request) => VerdictsAgree)
  <1>1. IInv /\ WaysInv => (OneEdition(request) /\ TwoCertificates(request) => VerdictsAgree)
    BY WaysAgreeNow
  <1> QED
    BY <1>1, WaysAlways, PTL
===============================================================================
