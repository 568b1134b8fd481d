-------------------------------- MODULE Checks --------------------------------
(***************************************************************************)
(* The vocabulary of the verifiers: a sequence of checks that stops at the *)
(* first one that fails (the `?` of every verify function), rules a caller *)
(* may leave out, and byte values of which only the content up to trailing *)
(* zeros and the length are told apart.                                    *)
(***************************************************************************)
EXTENDS Naturals, Sequences

Ok == "ok"

Check(holds, error) == IF holds THEN Ok ELSE error

\* The error of the first check that fails, or Ok.
first && second == IF first = Ok THEN second ELSE first

\* The least of a set of indexes.
FirstOf(indexes) == CHOOSE i \in indexes : \A j \in indexes : i <= j

\* A set of indexes up to n, in ascending order.
InOrder(indexes, n) ==
    LET upTo[m \in 0..n] ==
            IF m = 0 THEN << >>
            ELSE IF m \in indexes THEN Append(upTo[m - 1], m) ELSE upTo[m - 1]
    IN  upTo[n]

\* The error of the first of a sequence of checks that fails, or Ok.
FirstError(errors) ==
    LET failed == {i \in DOMAIN errors : errors[i] # Ok}
    IN  IF failed = {} THEN Ok ELSE errors[FirstOf(failed)]

(* A rule of the params: absent, or the one value it holds. *)
NoRule == << >>
Rule(value) == <<value>>
Asked(rule) == rule # NoRule

(* Option<bool>: what became of a rule. *)
Outcomes == {"unasked", "match", "mismatch"}
Outcome(held) == IF held THEN "match" ELSE "mismatch"

all_held(outcomes) == "mismatch" \notin outcomes

match_any(actual, allowed) ==
    IF Asked(allowed) THEN Outcome(actual \in allowed[1]) ELSE "unasked"

check_allowed_set(allowed) == Asked(allowed) => allowed[1] # {}

(* Byte values: [v, len], v naming the content up to trailing zeros. *)
Bytes(v, len) == [v |-> v, len |-> len]
Zero(len) == Bytes("zero", len)

pad_report_data(data, len) == Bytes(data.v, len)

\* Whether the (padded) expectation equals the value in the evidence.
match_padded(actual, expected) ==
    IF Asked(expected)
    THEN Outcome(actual = pad_report_data(expected[1], actual.len)) ELSE "unasked"

AtMost(rule, len) == Asked(rule) => rule[1].len <= len

\* An encoded field of the evidence is a value, or too large, or malformed.
FieldFaults == {"too large", "malformed"}

\* A certificate: its key, the key that signed it, its name, serial and window.
Cert(key, by, cn) ==
    [key |-> key, by |-> by, intact |-> TRUE, cn |-> cn, serial |-> cn, from |-> 0, until |-> 10]

SignedBy(statement, key) == statement.intact /\ statement.by = key
ValidAt(cert, now) == cert.from <= now /\ now <= cert.until
===============================================================================
