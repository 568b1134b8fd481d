------------------------------- MODULE EventLog -------------------------------
(***************************************************************************)
(* The CC event log (CCEL): a firmware table of events, usually followed   *)
(* by padding, whose replay must reproduce RTMR[0-2] of the quote.         *)
(*                                                                         *)
(* An entry of the table: [mr, type, digests, whole, empty], digests a     *)
(* sequence of [alg, value], whole saying that the bytes hold it           *)
(* completely; an entry with TooManyDigests is uninitialised memory.       *)
(***************************************************************************)
EXTENDS Checks

MAX_DIGEST_ALGORITHMS == 16
KnownAlgorithms == {"SHA-1", "SHA-256", "SHA-384", "SHA-512"}

IsTerminator(e) == e.type = 0 /\ e.mr = 0 /\ e.empty

\* Where the log ends: padding, an entry cut short, or the terminator.
EndsLog(e) == e.count > MAX_DIGEST_ALGORITHMS \/ ~e.whole \/ IsTerminator(e)

\* An unknown algorithm is read before the entry's end is looked at.
BadAlgorithm(e) ==
    /\ e.count <= MAX_DIGEST_ALGORITHMS
    /\ \E i \in DOMAIN e.digests : e.digests[i].alg \notin KnownAlgorithms

\* The digests of an entry that are read, of which the last one counts.
Sha384Of(e) == {i \in DOMAIN e.digests : e.digests[i].alg = "SHA-384"}
sha384_digest(e) ==
    LET last == CHOOSE i \in Sha384Of(e) : \A j \in Sha384Of(e) : j <= i
    IN  e.digests[last].value

\* The entries read: those before the first that stops the reading.
Stops(log) == {i \in DOMAIN log : EndsLog(log[i]) \/ BadAlgorithm(log[i])}
ReadCount(log) ==
    IF Stops(log) = {} THEN Len(log) ELSE FirstOf(Stops(log)) - 1

parse_ccel_ok(ccel) ==
    /\ ccel.header
    /\ LET next == ReadCount(ccel.log) + 1
       IN  next \in DOMAIN ccel.log => ~BadAlgorithm(ccel.log[next])

\* The events: the entries read that carry a SHA-384 digest.
parse_ccel(ccel) == {n \in 1..ReadCount(ccel.log) : Sha384Of(ccel.log[n]) # {}}

(* A register is the chain of digests extended into it: SHA-384 of the old *)
(* value and the digest is modelled as appending the digest.               *)
replay_rtmrs(ccel) ==
    [i \in 1..4 |->
        LET events == InOrder({n \in parse_ccel(ccel) : ccel.log[n].mr = i}, ReadCount(ccel.log))
        IN  [j \in 1..Len(events) |-> sha384_digest(ccel.log[events[j]])]]

\* Mutant: the first register is left out of the comparison.
verify_ccel_from_rtmr1(ccel, rtmrs) ==
    /\ parse_ccel_ok(ccel)
    /\ \A i \in 2..3 : replay_rtmrs(ccel)[i] = rtmrs[i]

\* RTMR[3] is extended at run time without an event: it is not compared.
verify_ccel_against_rtmrs(ccel, rtmrs) ==
    /\ parse_ccel_ok(ccel)
    /\ \A i \in 1..3 : replay_rtmrs(ccel)[i] = rtmrs[i]
===============================================================================
