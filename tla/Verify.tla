-------------------------------- MODULE Verify --------------------------------
(***************************************************************************)
(* The verification page of the user app (ui/nats-kv-user/src/lib.rs, the  *)
(* script of VERIFY_HTML): runVerify runs ten tests, one after the other,  *)
(* against a live bucket.  A test is a sequence of calls on keys of its    *)
(* own, each with the answers that let it go on.  Calls go through the app *)
(* (CallNats) to an adapter, reads may be answered by a replica that lags, *)
(* and calls fail, with or without their effect, which may also come late. *)
(* Values do not expire during a run.                                      *)
(***************************************************************************)
EXTENDS UserApp, Integers, FiniteSets

CONSTANTS
    Attempts,   \* attempts of the adapter's increment loop (5 in the code)
    Depths      \* history depths of the buckets that can be picked

ASSUME VerifyAssumption ==
    /\ Attempts \in Nat \ {0}
    /\ Depths \subseteq Nat \ {0} /\ Depths # {}

VARIABLES
    test,       \* i + 1, the test being run; 0 when no run is under way
    step,       \* the call it is at, 0 when it has its verdict
    depth,      \* messages the bucket picked keeps of a key, its "history"
    stored,     \* history: the messages of the test's keys, in stream order
    late,       \* writes the adapter gave up on that may still be stored
    kept,       \* the revision that the test's first call was answered with
    verdict,    \* "none", "pass" or "fail"
    blame,      \* history: what went wrong in this test: "call", "lag", "slow"
    passed, failed

verifyVars == <<test, step, depth, stored, late, kept, verdict, blame, passed, failed>>

\* Statuses with bodies; a body is a number: the value read, or how many were listed.
Answers == {200, 204, 404, 409, 412, 500} \X Nat
Accepted == {<<200, 0>>}                        \* a PUT that worked
Valued(v) == {<<200, v>>}
Deleted == {<<200, 0>>, <<204, 0>>}
Missing == {<<404, 0>>}
Refused == {<<412, 0>>}
Counted == {200} \X Nat
ThreeOrMore == {200} \X {v \in Nat : v >= 3}

Step(op, key, val, cas, good) == [op |-> op, key |-> key, val |-> val, cas |-> cas, good |-> good]
Put(v, good) == Step("PUT", 1, v, FALSE, good)
PutIfMatch(v, good) == Step("PUT", 1, v, TRUE, good)
PutKey(k) == Step("PUT", k, 1, FALSE, Accepted)
Incr == Step("INCR", 1, 0, FALSE, Counted)
Ask(op, good) == Step(op, 1, 0, FALSE, good)

\* TESTS.  Where a test does not look at an answer, any answer is good.
Tests ==
    << <<Put(1, Accepted), Ask("GET", Valued(1))>>,
       <<Put(1, Answers), Ask("DELETE", Deleted), Ask("GET", Missing)>>,
       <<Put(1, Answers), Put(2, Answers), Put(3, Answers), Ask("HISTORY", ThreeOrMore)>>,
       <<Put(1, Accepted), Put(2, Answers), Ask("REVISION", Valued(1))>>,
       <<Put(1, Accepted), PutIfMatch(2, Accepted)>>,
       <<Put(1, Accepted), Put(2, Answers), PutIfMatch(3, Refused)>>,
       [i \in 1 .. 6 |-> IF i < 6 THEN Incr ELSE Ask("GET", Valued(5))],
       <<PutKey(1), PutKey(2), PutKey(3), Ask("KEYS", ThreeOrMore)>>,
       <<Put(1, Answers), Ask("TIMED", Valued(1))>>,
       <<Ask("LIST", Valued(1))>> >>

Current == Tests[test][step]

\* call: what the app passes on to the adapter.
Upstream(s) ==
    CallNats([key |-> None, method |-> s.op, item |-> s.key, body |-> s.val, ttlQuery |-> FALSE,
              ifMatch |-> IF s.cas THEN kept ELSE 0, ifNone |-> FALSE])
-----------------------------------------------------------------------------
\* The adapter, seen from the keys of one test; a revision is a place in stored.
AnyRev == -1
Entry(up) == [key |-> up.item, val |-> up.body, del |-> up.method = "DELETE",
              if |-> IF up.ifMatch = 0 THEN AnyRev ELSE up.ifMatch]
Fits(e) == e.if \in {AnyRev, Len(stored)}

\* What the i-th attempt of an increment stores when those before it were stored too.
Count == IF stored = << >> THEN 0 ELSE stored[Len(stored)].val
Bump(i) == [key |-> 1, val |-> Count + i, del |-> FALSE, if |-> Len(stored) + i - 1]
Bumps(k) == [i \in 1 .. k |-> Bump(i)]

Writes == {"PUT", "DELETE", "INCR"}
ReplicaReads == {"GET", "TIMED", "REVISION", "INCR"}

KeysStored == {stored[i].key : i \in DOMAIN stored}

\* The answer to a read of a replica that got the first n messages: it keeps the last
\* ones of a key, as many as depth says, or all of them, as a mirror's stream does.
Read(op, n, all) ==
    CASE op = "REVISION" -> IF kept <= n /\ (all \/ n < kept + depth)
                            THEN <<200, stored[kept].val>> ELSE <<404, 0>>
      [] op = "HISTORY"  -> <<200, IF Len(stored) < depth THEN Len(stored) ELSE depth>>
      [] op = "KEYS"     -> <<200, Cardinality(KeysStored)>>
      [] op = "LIST"     -> <<200, 1>>
      [] OTHER           -> IF n = 0 \/ (n > 0 /\ stored[n].del) THEN <<404, 0>>
                            ELSE <<200, stored[n].val>>

\* The answer of the current call lets the test go on, to its end if it was the last.
Judge(answer) ==
    /\ step' = IF answer \in Current.good /\ step < Len(Tests[test]) THEN step + 1 ELSE 0
    /\ verdict' = CASE answer \notin Current.good -> "fail"
                    [] answer \in Current.good /\ step = Len(Tests[test]) -> "pass"
                    [] OTHER -> "none"

Written(up, log, answer) ==
    /\ stored' = log
    /\ kept' = IF step = 1 THEN Len(log) ELSE kept
    /\ Judge(answer)
    /\ UNCHANGED <<test, depth, late, blame, passed, failed>>

PutWorks(up) ==
    /\ up.method = "PUT"
    /\ IF Fits(Entry(up))
       THEN Written(up, Append(stored, Entry(up)), <<200, 0>>)
       ELSE Written(up, stored, <<412, 0>>)

DeleteWorks(up) ==
    /\ up.method = "DELETE"
    /\ Written(up, Append(stored, Entry(up)), <<204, 0>>)

\* kvIncr adds one, and another one each time an ack is lost; if every one of its reads
\* lags it gives up.
IncrWorks(up) ==
    /\ up.method = "INCR"
    /\ \E k \in 1 .. Attempts :
        /\ stored' = stored \o Bumps(k)
        /\ blame' = blame \cup {b \in {"call"} : k > 1}
        /\ Judge(<<200, Count + k>>)
    /\ UNCHANGED <<test, depth, late, kept, passed, failed>>

IncrGivesUp(up) ==
    /\ up.method = "INCR" /\ stored # << >>
    /\ blame' = blame \cup {"lag"}
    /\ Judge(<<409, 0>>)
    /\ UNCHANGED <<test, depth, stored, late, kept, passed, failed>>

\* A read is answered, by a replica that may lag; test 9 wants it fast.
ReadWorks(up) ==
    /\ up.method \notin Writes
    /\ \E n \in 0 .. Len(stored), fast, all \in BOOLEAN :
        /\ up.method \notin ReplicaReads => n = Len(stored)
        /\ up.method # "TIMED" => fast
        /\ blame' = blame \cup {b \in {"lag"} : n < Len(stored)} \cup {b \in {"slow"} : ~fast}
        /\ Judge(IF fast THEN Read(up.method, n, all) ELSE <<200, 0>>)
    /\ UNCHANGED <<test, depth, stored, late, kept, passed, failed>>

\* The status of a failure; a failing kv.Keys is answered with no keys.
FailureOf(op) ==
    CASE op = "PUT" -> {<<412, 0>>, <<500, 0>>}
      [] op = "KEYS" -> {<<200, 0>>, <<500, 0>>}
      [] op \in {"HISTORY", "REVISION"} -> {<<404, 0>>, <<500, 0>>}
      [] op = "INCR" -> {<<409, 0>>, <<500, 0>>}
      [] OTHER -> {<<500, 0>>}

\* A write that fails is stored, is not, or is later; of an increment, every attempt.
Effect(up) ==
    \/ UNCHANGED <<stored, late>>
    \/ /\ up.method \in {"PUT", "DELETE"}
       /\ \/ Fits(Entry(up)) /\ stored' = Append(stored, Entry(up)) /\ UNCHANGED late
          \/ late' = late \cup {Entry(up)} /\ UNCHANGED stored
    \/ /\ up.method = "INCR"
       /\ \E k \in 1 .. Attempts :
            \/ stored' = stored \o Bumps(k) /\ UNCHANGED late
            \/ stored' = stored \o Bumps(k - 1) /\ late' = late \cup {Bump(k)}

CallFails(up) ==
    /\ Effect(up)
    /\ blame' = blame \cup {"call"}
    /\ \E answer \in FailureOf(up.method) : Judge(answer)
    /\ UNCHANGED <<test, depth, kept, passed, failed>>

\* The network fails, or the answer is no JSON: the test fails.
CallThrows(up) ==
    /\ Effect(up)
    /\ step' = 0 /\ verdict' = "fail"
    /\ blame' = blame \cup {"call"}
    /\ UNCHANGED <<test, depth, kept, passed, failed>>

LateWrite ==
    \E e \in late :
        /\ late' = late \ {e}
        /\ stored' = IF Fits(e) THEN Append(stored, e) ELSE stored
        /\ UNCHANGED <<test, step, depth, kept, verdict, blame, passed, failed>>

-----------------------------------------------------------------------------
VerifyInit ==
    /\ test = 0 /\ step = 0 /\ verdict = "none" /\ passed = 0 /\ failed = 0
    /\ depth \in Depths /\ stored = << >> /\ late = {} /\ kept = 0 /\ blame = {}

Fresh == stored' = << >> /\ late' = {} /\ kept' = 0 /\ verdict' = "none" /\ blame' = {}

\* runVerify disables its button and runs against the bucket that is picked.
RunVerify ==
    /\ test = 0 /\ depth' \in Depths
    /\ test' = 1 /\ step' = 1 /\ passed' = 0 /\ failed' = 0
    /\ Fresh

Calls ==
    LET up == Upstream(Current)
    IN  /\ test # 0 /\ step # 0
        /\ \/ PutWorks(up) \/ DeleteWorks(up) \/ IncrWorks(up) \/ IncrGivesUp(up)
           \/ ReadWorks(up) \/ CallFails(up) \/ CallThrows(up)

\* Mutant: off by one.
NextTestPast ==
    /\ verdict # "none"
    /\ passed' = IF verdict = "pass" THEN passed + 1 ELSE passed
    /\ failed' = IF verdict = "fail" THEN failed + 1 ELSE failed
    /\ test' = test + 1 /\ step' = 1
    /\ Fresh /\ UNCHANGED depth

\* The verdict counts, the next test runs on other keys; after the last one the button
\* is back.
NextTest ==
    /\ verdict # "none"
    /\ passed' = IF verdict = "pass" THEN passed + 1 ELSE passed
    /\ failed' = IF verdict = "fail" THEN failed + 1 ELSE failed
    /\ IF test < Len(Tests) THEN test' = test + 1 /\ step' = 1 ELSE test' = 0 /\ step' = 0
    /\ Fresh /\ UNCHANGED depth

VerifyNext == RunVerify \/ Calls \/ NextTest \/ LateWrite
-----------------------------------------------------------------------------
EntryType == [key : 1 .. 3, val : Nat, del : BOOLEAN, if : Nat \cup {AnyRev}]

(* The script's variables keep their types, and every test run so far has been counted,
   as passed or as failed. *)
VerifyTypeOK ==
    /\ test \in 0 .. Len(Tests) /\ step \in 0 .. 6 /\ depth \in Depths
    /\ stored \in Seq(EntryType) /\ late \subseteq EntryType /\ kept \in 0 .. Len(stored)
    /\ verdict \in {"none", "pass", "fail"} /\ blame \subseteq {"call", "lag", "slow"}
    /\ passed \in Nat /\ failed \in Nat
    /\ test = 0 \/ passed + failed = test - 1

\* Tests 3 and 4 read older messages than a bucket with so little history keeps.
TooShallow(t) == (t = 3 /\ depth < 3) \/ (t = 4 /\ depth < 2)

(* A FAIL means something: a call failed, a replica lagged or was slow, or the bucket
   keeps too little history for the test.  Against a healthy bucket with three messages
   of history no test fails, whatever the app does to the calls on their way. *)
FailureHasACause == verdict = "fail" => blame # {} \/ TooShallow(test)

Holds(v) == \E i \in DOMAIN stored : stored[i].val = v

\* What the name of a test says about the bucket after it.
Claim(t) ==
    CASE t = 1 -> Holds(1)
      [] t = 2 -> (\E i \in DOMAIN stored : ~stored[i].del) /\ stored[Len(stored)].del
      [] t = 3 -> Len(stored) >= 3
      [] t = 4 -> kept # 0 /\ stored[kept].val = 1
      [] t = 5 -> Len(stored) = 2 /\ stored[2].if = 1
      [] t = 6 -> ~Holds(3)
      [] t = 7 -> Holds(5)
      [] t = 8 -> Cardinality(KeysStored) = 3
      [] t = 9 -> stored # << >>
      [] t = 10 -> TRUE

(* A PASS is earned, also when calls fail or take effect late: the bucket is left as
   the test's name says.  Tests 2 and 6 can be passed by a failed call: 2 does not look
   whether there was something to delete, and 6 takes every 412 for a conflict. *)
PassIsEarned ==
    verdict = "pass" /\ (test \in {2, 6} => "call" \notin blame) => Claim(test)

(* A verdict is earned: no test fails by itself, but for the two that want more history
   than the bucket has, and none passes without what it is named for. *)
VerdictIsEarned == FailureHasACause /\ PassIsEarned

(* A run ends: no failure leaves the button disabled. *)
VerifyEnds == test # 0 ~> test = 0
=============================================================================
