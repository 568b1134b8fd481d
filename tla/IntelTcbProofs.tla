----------------------------- MODULE IntelTcbProofs -----------------------------
(***************************************************************************)
(* The grading of a TD's TCB, for any number of components, any levels and *)
(* any SVNs: the two passes over Intel's levels find the first level the   *)
(* TCB meets in all its parts, and the Quoting Enclave can only make the   *)
(* status worse.                                                           *)
(***************************************************************************)
EXTENDS IntelTcb, FiniteSetTheorems, WellFoundedInduction, TLAPS

\* A PCK certificate's SVNs.
IsPck(pck) == pck.svns \in Seq(Nat) /\ pck.pce \in Nat

(* FirstOf is what its name says: every set of indexes that is not empty   *)
(* has a least one (the intervals up to its members are finite sets, among *)
(* which one is contained in every other).                                 *)
LEMMA FirstIsLeast ==
    ASSUME NEW S \in SUBSET Nat, S # {}
    PROVE  FirstOf(S) \in S /\ \A j \in S : FirstOf(S) <= j
  <1> DEFINE UpTo == {1..n : n \in S}
             R == StrictSubsetOrdering(Nat)
  <1>1. UpTo \subseteq FiniteSubsetsOf(Nat) /\ UpTo # {}
    <2>1. ASSUME NEW n \in S
          PROVE  1..n \in FiniteSubsetsOf(Nat)
      <3>1. IsFiniteSet(1..n)
        BY FS_Interval
      <3> QED
        BY <3>1 DEF FiniteSubsetsOf
    <2> QED
      BY <2>1
  <1>2. IsWellFoundedOn(R, FiniteSubsetsOf(Nat))
    BY FS_StrictSubsetOrderingWellFounded
  <1>3. PICK x \in UpTo : \A y \in UpTo : ~(<<y, x>> \in R)
    <2> HIDE DEF UpTo, R
    <2> QED
      BY <1>1, <1>2, WFMin
  <1>4. PICK m \in S : x = 1..m
    OBVIOUS
  <1>5. ASSUME NEW j \in S
        PROVE  m <= j
    <2>1. SUFFICES ASSUME j < m
                   PROVE  FALSE
      OBVIOUS
    <2>2. 1..j \subseteq 1..m /\ 1..j # 1..m
      BY <2>1
    <2>3. <<1..j, x>> \in R
      BY <1>4, <2>2 DEF StrictSubsetOrdering
    <2> QED
      BY <1>3, <2>3
  <1> QED
    BY <1>5 DEF FirstOf

-------------------------------------------------------------------------------
(* The levels of a list descend: whoever meets an earlier one in its SGX   *)
(* components and PCESVN meets a later one.                                *)
LEMMA SgxMeetsLater ==
    ASSUME NEW levels \in Seq(TcbLevel), NEW pck, IsPck(pck), Descending(levels),
           NEW i \in DOMAIN levels, NEW j \in DOMAIN levels, i <= j,
           SgxMeets(pck, levels[i])
    PROVE  SgxMeets(pck, levels[j])
  <1>1. levels[i] \in TcbLevel /\ levels[j] \in TcbLevel
    OBVIOUS
  <1>2. /\ DOMAIN levels[i].sgx = 1..Components
        /\ DOMAIN levels[j].sgx = 1..Components
        /\ Len(levels[j].sgx) >= Components
    BY <1>1, ComponentsAssumption DEF Descending, TcbLevel
  <1>3. AsksNoMore(levels[j], levels[i])
    BY DEF Descending
  <1>4. ASSUME NEW k \in 1..Components, k \in DOMAIN pck.svns
        PROVE  pck.svns[k] >= levels[j].sgx[k]
    <2>1. pck.svns[k] \in Nat /\ levels[i].sgx[k] \in Nat /\ levels[j].sgx[k] \in Nat
      <3>1. pck.svns \in Seq(Nat) /\ levels[i].sgx \in Seq(Nat) /\ levels[j].sgx \in Seq(Nat)
        BY <1>1 DEF TcbLevel, IsPck
      <3>2. \A s \in Seq(Nat) : \A n \in DOMAIN s : s[n] \in Nat
        OBVIOUS
      <3> QED
        BY <1>2, <1>4, <3>1, <3>2
    <2>2. pck.svns[k] >= levels[i].sgx[k]
      BY <1>2, <1>4 DEF SgxMeets, Meets
    <2>3. levels[j].sgx[k] <= levels[i].sgx[k]
      BY <1>3 DEF AsksNoMore
    <2> QED
      BY <2>1, <2>2, <2>3
  <1>5. pck.pce >= levels[j].pce
    <2>1. pck.pce \in Nat /\ levels[i].pce \in Nat /\ levels[j].pce \in Nat
      BY <1>1 DEF TcbLevel, IsPck
    <2> QED
      BY <1>3, <2>1 DEF AsksNoMore, SgxMeets
  <1> QED
    BY <1>2, <1>4, <1>5 DEF SgxMeets, Meets

(* The second pass finds the levels that are met in every part: it starts  *)
(* at the first level whose SGX part is met, and all after it are met.     *)
LEMMA SecondPassFindsMet ==
    ASSUME NEW levels \in Seq(TcbLevel), NEW pck, IsPck(pck), NEW svn, Descending(levels),
           SgxMatches(levels, pck) # {}
    PROVE  TdxMatches(levels, pck, svn) = MetLevels(levels, pck, svn)
  <1> DEFINE sgx == SgxMatches(levels, pck)
             first == FirstOf(sgx)
  <1>1. sgx \in SUBSET Nat /\ sgx \subseteq DOMAIN levels /\ sgx # {}
    BY DEF SgxMatches
  <1>2. first \in sgx /\ \A j \in sgx : first <= j
    <2> HIDE DEF sgx
    <2> QED
      BY <1>1, FirstIsLeast
  <1>3. SgxMeets(pck, levels[first])
    BY <1>2 DEF SgxMatches
  <1>4. ASSUME NEW i \in DOMAIN levels
        PROVE  i >= first <=> SgxMeets(pck, levels[i])
    <2>1. CASE i >= first
      <3>1. first \in DOMAIN levels /\ first <= i
        BY <1>1, <1>2, <2>1
      <3> HIDE DEF first
      <3>2. SgxMeets(pck, levels[i])
        BY <1>3, <3>1, SgxMeetsLater
      <3> QED
        BY <2>1, <3>2
    <2>2. CASE SgxMeets(pck, levels[i])
      <3>1. i \in sgx
        BY <2>2 DEF SgxMatches
      <3> QED
        BY <1>1, <1>2, <2>2, <3>1
    <2> QED
      BY <2>1, <2>2
  <1> HIDE DEF first
  <1> QED
    BY <1>4 DEF TdxMatches, MetLevels, first

(* The two passes of the code grade a TD by the first level its TCB meets  *)
(* in all its parts, for any list of levels that never asks for more later *)
(* and any TCB of which some TDX SVN is not zero.  The others are graded   *)
(* without a look at the TDX part (dcap.rs:868-883, SgxGrade).             *)
THEOREM GradedByFirstMet ==
    ASSUME NEW levels \in Seq(TcbLevel), NEW pck, IsPck(pck), NEW svn \in Seq(Nat),
           Descending(levels), ~AllZero(svn)
    PROVE  evaluate_tcb_status(levels, pck, svn) = Grade(levels, pck, svn)
  <1>1. CASE SgxMatches(levels, pck) = {}
    <2>1. MetLevels(levels, pck, svn) = {}
      BY <1>1 DEF SgxMatches, MetLevels
    <2> QED
      BY <1>1, <2>1 DEF evaluate_tcb_status, Grade
  <1>2. CASE SgxMatches(levels, pck) # {}
    <2>1. TdxMatches(levels, pck, svn) = MetLevels(levels, pck, svn)
      BY <1>2, SecondPassFindsMet
    <2> QED
      BY <1>2, <2>1 DEF evaluate_tcb_status, Grade
  <1> QED
    BY <1>1, <1>2

(* The Quoting Enclave's status never improves the platform's: a combined  *)
(* status that is current is the platform's own, with a current enclave,   *)
(* and one of the two that is revoked or matches no level decides.         *)
THEOREM EnclaveOnlyLowers ==
    ASSUME NEW platform \in TdxTcbStatus, NEW qe \in TdxTcbStatus
    PROVE  LET status == combine_tcb_status(platform, qe)
           IN  /\ status \in TdxTcbStatus
               /\ status \in Current => status = platform /\ qe \in Current
               /\ status \in Fatal <=> (platform \in Fatal \/ qe \in Fatal)
  BY DEF combine_tcb_status, TdxTcbStatus, PublishedStatuses, Current, Fatal, Aged
===============================================================================
