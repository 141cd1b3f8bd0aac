--------------------------- MODULE AdapterKV_proofs ---------------------------
(***************************************************************************)
(* Proofs about AdapterKV, for any clients, keys, mirrors, history depth,   *)
(* word size and failures: conditional writes hold at commit, increments   *)
(* add, what is answered is committed, and no request is stored twice.     *)
(*                                                                         *)
(* The inductive invariant follows a publish: the handler that computes it *)
(* (HandlerInv), the message on the wire, which may outlive its handler    *)
(* (WireInv), the ack that is on its way back (ReplyInv) and the log.      *)
(* Two more say how often a request is sent: OnceInv, of a world without   *)
(* failures, and ShotInv, of any.  HeldInv says which messages the source  *)
(* still holds; with it, ServiceInv shows that each step is one of the     *)
(* abstract service KVService, or none.                                    *)
(***************************************************************************)
EXTENDS AdapterKV, TLAPS

\* v with expected revision x is a publish that request w may cause.
Serves(w, v, x) ==
    /\ w.op \in Writes
    /\ w.op # "incr" => v = w.val
    /\ w.op = "update" => x = w.rev
    /\ w.op = "create" => x = 0 \/ (x \in DOMAIN log /\ IsTombstone(x))
    /\ w.op = "incr" => /\ w.val \in Counter
                        /\ x \in 0 .. Len(log)
                        /\ v = Wrap(w.val + Base(x))

HandlerInv ==
    \A p \in Client :
        /\ pc[p] = "load" => req[p].op = "incr"
        /\ pc[p] \in {"create", "recheck"} =>
              \/ req[p].op = "create" /\ body[p] = req[p].val
              \/ req[p].op = "incr" /\ body[p] = Wrap(req[p].val)
        /\ pc[p] = "publish" => req[p].op \in Writes
        /\ req[p].op = "incr" => req[p].val \in Counter

WireInv ==
    \A m \in wire :
        /\ Serves(m.want, m.val, m.exp)
        /\ m.tag <= tag[m.by]
        /\ m.tag = tag[m.by] /\ Waiting(m.by) =>
              m.n = n[m.by] /\ m.want = req[m.by] /\ m.val = body[m.by]

ReplyInv ==
    \A p \in Client :
        Waiting(p) /\ reply[p].status = "ok" =>
            /\ reply[p].rev \in DOMAIN log
            /\ LET e == log[reply[p].rev] IN
                 e.by = p /\ e.n = n[p] /\ e.want = req[p] /\ e.val = body[p]

\* The message stored as revision i replaced what its request asked to replace.
EntryOK(i) ==
    LET e == log[i] w == log[i].want IN
    /\ e.prev \in 0 .. i - 1
    /\ w.op = "update" => e.prev = w.rev
    /\ w.op = "create" => Absent(e.prev)
    /\ w.op # "incr" => e.val = w.val
    /\ w.op = "incr" => e.val = Wrap(w.val + Base(e.prev))

LogInv == \A i \in 1 .. Len(log) : EntryOK(i)

IInv == TypeOK /\ HandlerInv /\ WireInv /\ ReplyInv /\ LogInv /\ AnswersAreCommitted
-----------------------------------------------------------------------------
(* int64 arithmetic stays in int64. *)
LEMMA WrapIsCounter == \A x \in Int : Wrap(x) \in Counter
  BY AdapterAssumption DEF Wrap, Counter

(* Whatever the stored body is, strconv.ParseInt yields an int64. *)
LEMMA ReadCounterIsCounter == \A v : ReadCounter(v) \in Counter
  BY AdapterAssumption DEF ReadCounter, Counter

(* The sums that kvIncr computes are values, whichever operand comes first. *)
LEMMA CounterArithmetic ==
  /\ \A a \in Counter : a + 0 = a /\ Wrap(a) \in Value
  /\ \A a, b \in Counter : a + b = b + a /\ Wrap(a + b) \in Value
  BY WrapIsCounter, AdapterAssumption DEF Counter, Value

(* What a step may do to the log: nothing, or store one more message. *)
LogGrows == /\ Len(log) <= Len(log')
            /\ \A i \in 1 .. Len(log) : log'[i] = log[i]

(* Storing one message leaves the stored ones as they are. *)
LEMMA Appending ==
  ASSUME log \in Seq(Entry), NEW e \in Entry, log' = Append(log, e)
  PROVE  /\ log' \in Seq(Entry)
         /\ Len(log') = Len(log) + 1
         /\ log'[Len(log) + 1] = e
         /\ LogGrows
  BY DEF LogGrows

(* What a publish was computed from stays true of it: stored messages do not change. *)
LEMMA ServesIsStable ==
  ASSUME log \in Seq(Entry), log' \in Seq(Entry), LogGrows,
         NEW w \in Request, NEW v, NEW x, Serves(w, v, x)
  PROVE  Serves(w, v, x)'
<1>1. \A i \in 1 .. Len(log) : i \in 1 .. Len(log') /\ IsTombstone(i)' = IsTombstone(i)
  BY DEF LogGrows, IsTombstone
<1>2. \A i \in 0 .. Len(log) : Base(i)' = Base(i) /\ i \in 0 .. Len(log')
  BY <1>1 DEF LogGrows, Base, Absent
<1>3. DOMAIN log = 1 .. Len(log) /\ DOMAIN log' = 1 .. Len(log')
  OBVIOUS
<1> QED BY <1>1, <1>2, <1>3 DEF Serves

-----------------------------------------------------------------------------
\* The part of the invariant about publishes and their handlers.
PublishInv == HandlerInv /\ WireInv /\ ReplyInv

\* What a handler that waits in call "at" for a publish of v for r must satisfy.
SentBy(r, v, at) ==
    /\ at = "create" => \/ r.op = "create" /\ v = r.val
                        \/ r.op = "incr" /\ v = Wrap(r.val)
    /\ r.op = "incr" => r.val \in Counter

(* Putting a publish on the wire preserves PublishInv: its tag is new, so no older
   message of the client can be taken for it. *)
LEMMA SendPreserves ==
  ASSUME TypeOK, PublishInv, UNCHANGED log,
         NEW p \in Client, NEW r \in Request, NEW k \in Nat, NEW v, NEW x,
         NEW at \in {"create", "publish"},
         req' = [req EXCEPT ![p] = r], n' = [n EXCEPT ![p] = k],
         Send(p, r, k, v, x, at), Serves(r, v, x), SentBy(r, v, at)
  PROVE  PublishInv'
<1> USE DEF PublishInv, TypeOK, Send
<1>1. Serves(r, v, x)' /\ \A m \in wire : Serves(m.want, m.val, m.exp)'
  BY DEF WireInv, Serves, Base, Absent, IsTombstone
<1>2. HandlerInv'
  BY DEF HandlerInv, Serves, SentBy
<1>3. WireInv'
  <2> SUFFICES ASSUME NEW m \in wire'
               PROVE  /\ Serves(m.want, m.val, m.exp)'
                      /\ m.tag <= tag'[m.by]
                      /\ m.tag = tag'[m.by] /\ Waiting(m.by)' =>
                           m.n = n'[m.by] /\ m.want = req'[m.by] /\ m.val = body'[m.by]
    BY DEF WireInv
  <2>1. CASE m \in wire
    <3>1. m.by \in Client /\ m.tag \in Nat /\ m.tag <= tag[m.by]
      BY <2>1 DEF WireInv, Publish
    <3>2. CASE m.by = p
      BY <1>1, <2>1, <3>1, <3>2
    <3>3. CASE m.by # p
      BY <1>1, <2>1, <3>1, <3>3 DEF WireInv, Waiting
    <3> QED BY <3>2, <3>3
  <2>2. CASE m \notin wire
    BY <1>1, <2>2
  <2> QED BY <2>1, <2>2
<1>4. ReplyInv'
  BY DEF ReplyInv, Waiting, NoReply
<1> QED BY <1>2, <1>3, <1>4

(* A handler that ends, or goes back to kvIncr's read, waits for nothing. *)
LEMMA LeavePreserves ==
  ASSUME TypeOK, PublishInv, UNCHANGED <<log, wire, tag>>,
         NEW p \in Client, NEW at \in {"idle", "load", "recheck"},
         pc' = [pc EXCEPT ![p] = at],
         \A q \in Client \ {p} : /\ req'[q] = req[q] /\ n'[q] = n[q]
                                  /\ body'[q] = body[q] /\ reply'[q] = reply[q],
         req'[p].op = "incr" => req'[p].val \in Counter,
         at = "load" => req'[p].op = "incr",
         at = "recheck" => \/ req'[p].op = "create" /\ body'[p] = req'[p].val
                           \/ req'[p].op = "incr" /\ body'[p] = Wrap(req'[p].val)
  PROVE  PublishInv'
<1> USE DEF PublishInv, TypeOK
<1>1. \A m \in wire : Serves(m.want, m.val, m.exp)'
  BY DEF WireInv, Serves, Base, Absent, IsTombstone
<1>2. HandlerInv'
  BY DEF HandlerInv
<1>3. WireInv'
  BY <1>1 DEF WireInv, Waiting, Publish
<1>4. ReplyInv'
  BY DEF ReplyInv, Waiting
<1> QED BY <1>2, <1>3, <1>4

(* An answer stays committed while the log grows and its client asks nothing new. *)
LEMMA AnswersPreserved ==
  ASSUME TypeOK, TypeOK', AnswersAreCommitted, LogGrows, NEW p \in Client,
         \A q \in Client \ {p} : ans'[q] = ans[q] /\ req'[q] = req[q] /\ n'[q] = n[q],
         AnswerIsCommitted(p)'
  PROVE  AnswersAreCommitted'
<1> SUFFICES ASSUME NEW q \in Client \ {p} PROVE AnswerIsCommitted(q)'
  BY DEF AnswersAreCommitted
<1>1. AnswerIsCommitted(q)
  BY DEF AnswersAreCommitted
<1>2. log \in Seq(Entry) /\ log' \in Seq(Entry)
  BY DEF TypeOK
<1> QED BY <1>1, <1>2, SMTT(30) DEF AnswerIsCommitted, LogGrows, KeyOf, IsTombstone

(* A step that stores nothing keeps what the log promises. *)
LEMMA StoredStepPreservesLog ==
  ASSUME UNCHANGED log PROVE LogGrows /\ (LogInv => LogInv')
  BY DEF LogGrows, LogInv, EntryOK, Base, Absent, IsTombstone

(* The empty reply and the empty answer have their types. *)
LEMMA ConstantsTyped == NoReply \in ReplyType /\ NoAnswer \in AnswerType
  BY DEF NoReply, ReplyType, NoAnswer, Answer, AnswerType

(* A handler's step that answers a and leaves the stream alone. *)
LEMMA RespondStep ==
  ASSUME IInv, UNCHANGED <<streamVars, mirrorFor, tag, wire>>,
         NEW p \in Client, NEW a \in AnswerType, Respond(p, a),
         req' \in [Client -> Request], n' \in [Client -> Nat],
         \A q \in Client \ {p} : req'[q] = req[q] /\ n'[q] = n[q],
         req'[p].op = "incr" => req'[p].val \in Counter,
         AnswerIsCommitted(p)'
  PROVE  IInv'
<1> USE DEF IInv
<1>1. TypeOK'
  BY ConstantsTyped DEF TypeOK, Respond, streamVars
<1>2. pc' = [pc EXCEPT ![p] = "idle"]
  BY DEF Respond
<1>3. \A q \in Client \ {p} : /\ req'[q] = req[q] /\ n'[q] = n[q] /\ ans'[q] = ans[q]
                              /\ body'[q] = body[q] /\ reply'[q] = reply[q]
  BY DEF TypeOK, Respond
<1>4. UNCHANGED <<log, wire, tag>>
  BY DEF streamVars
<1>5. PublishInv'
  BY <1>2, <1>3, <1>4, LeavePreserves DEF PublishInv
<1>6. AnswersAreCommitted'
  BY <1>1, <1>3, <1>4, AnswersPreserved, StoredStepPreservesLog
<1> QED BY <1>1, <1>4, <1>5, <1>6, StoredStepPreservesLog DEF PublishInv

(* A handler's step that sends a publish. *)
LEMMA SendStep ==
  ASSUME IInv, UNCHANGED <<streamVars, mirrorFor, attempt>>,
         NEW p \in Client, NEW r \in Request, NEW k \in Nat,
         NEW v \in Value \cup {NoVal}, NEW x \in Nat \cup {AnyRev},
         NEW at \in {"create", "publish"},
         req' = [req EXCEPT ![p] = r], n' = [n EXCEPT ![p] = k],
         Send(p, r, k, v, x, at), Serves(r, v, x), SentBy(r, v, at),
         \/ UNCHANGED <<req, n, ans>>
         \/ ans' = [ans EXCEPT ![p] = NoAnswer]
  PROVE  IInv'
<1> USE DEF IInv
<1>1. TypeOK'
  <2>1. ans' \in [Client -> AnswerType]
    BY ConstantsTyped DEF TypeOK
  <2>2. wire' \subseteq Publish
    BY DEF TypeOK, Send, Publish
  <2>3. /\ pc' \in [Client -> {"idle", "load", "create", "recheck", "publish"}]
        /\ req' \in [Client -> Request] /\ n' \in [Client -> Nat] /\ tag' \in [Client -> Nat]
        /\ body' \in [Client -> Value \cup {NoVal}] /\ reply' \in [Client -> ReplyType]
    BY ConstantsTyped DEF TypeOK, Send
  <2>4. UNCHANGED <<log, held, applied, mirrorFor, attempt>>
    BY DEF streamVars
  <2> QED BY <2>1, <2>2, <2>3, <2>4 DEF TypeOK
<1>2. UNCHANGED log
  BY DEF streamVars
<1>3. PublishInv'
  BY <1>2, SendPreserves DEF PublishInv
<1>4. AnswerIsCommitted(p)'
  <2>1. CASE UNCHANGED <<req, n, ans>>
    BY <1>2, <2>1 DEF AnswersAreCommitted, AnswerIsCommitted, KeyOf, IsTombstone
  <2>2. CASE ans' = [ans EXCEPT ![p] = NoAnswer]
    BY <2>2 DEF AnswerIsCommitted, NoAnswer, Answer, TypeOK
  <2> QED BY <2>1, <2>2
<1>5. \A q \in Client \ {p} : ans'[q] = ans[q] /\ req'[q] = req[q] /\ n'[q] = n[q]
  BY DEF TypeOK
<1>6. AnswersAreCommitted'
  BY <1>1, <1>2, <1>4, <1>5, AnswersPreserved, StoredStepPreservesLog
<1> QED BY <1>1, <1>2, <1>3, <1>6, StoredStepPreservesLog DEF PublishInv

-----------------------------------------------------------------------------
\* a is an answer that a read q may get: nothing, an error, or a live message of its key.
ReadAnswer(q, a) ==
    \/ a.status = 404
    \/ a.status = 500 /\ MayFail
    \/ /\ a = Answer(200, a.rev, log[a.rev].val)
       /\ a.rev \in DOMAIN log /\ KeyOf(a.rev) = q.key /\ ~IsTombstone(a.rev)
       /\ q.op = "getrev" => q.rev \in {0, a.rev}

\* What a read finds in a replica is such an answer.
LEMMA FoundAnswers ==
  ASSUME TypeOK, NEW i \in 0 .. Len(log), NEW q,
         i # 0 => KeyOf(i) = q.key /\ (q.op = "getrev" => q.rev \in {0, i})
  PROVE  Found(i) \in AnswerType /\ ReadAnswer(q, Found(i))
<1>1. log \in Seq(Entry) /\ (i # 0 => i \in DOMAIN log /\ log[i] \in Entry)
  BY DEF TypeOK
<1>2. CASE Absent(i)
  BY <1>2 DEF Found, Answer, AnswerType, ReadAnswer
<1>3. CASE ~Absent(i)
  <2>1. i # 0 /\ ~IsTombstone(i) /\ i \in DOMAIN log /\ i \in Nat
    BY <1>1, <1>3 DEF Absent
  <2>2. Found(i) = Answer(200, i, log[i].val) /\ Found(i).rev = i
    BY <1>3 DEF Found, Answer
  <2>3. log[i].val \in Value \cup {NoVal}
    BY <1>1, <2>1 DEF Entry
  <2>4. Answer(200, i, log[i].val) \in AnswerType
    BY <2>1, <2>3 DEF Answer, AnswerType
  <2> QED BY <2>1, <2>2, <2>4 DEF ReadAnswer
<1> QED BY <1>2, <1>3

\* Every read gets one, in one step.
LEMMA ReadsAnswer ==
  ASSUME TypeOK, NEW p \in Client, KvGet(p) \/ KvGetRevision(p) \/ ReadFails(p)
  PROVE  \E q \in Request, a \in AnswerType :
            q.op \in {"get", "getrev"} /\ Reads(p, q, a) /\ ReadAnswer(q, a)
<1>1. ASSUME NEW op \in {"get", "getrev"}, NEW k \in Key, NEW x \in Nat
      PROVE  /\ ReadOf(op, k, x) \in Request /\ ReadOf(op, k, x).op = op
             /\ ReadOf(op, k, x).key = k /\ ReadOf(op, k, x).rev = x
  BY DEF ReadOf, Request, Operation
<1>2. Len(log) \in Nat /\ log \in Seq(Entry)
  BY DEF TypeOK
<1>3. CASE KvGet(p)
  <2>1. PICK k \in Key, l \in ReadLanes, i \in 0 .. Len(log) :
          Latest(l, k, i) /\ Reads(p, ReadOf("get", k, 0), Found(i))
    BY <1>3 DEF KvGet
  <2> DEFINE q == ReadOf("get", k, 0)
  <2>2. q \in Request /\ q.op = "get" /\ q.key = k
    BY <1>1
  <2>3. i # 0 => KeyOf(i) = k
    BY <2>1 DEF Latest
  <2> HIDE DEF q
  <2>4. Found(i) \in AnswerType /\ ReadAnswer(q, Found(i))
    BY <2>2, <2>3, FoundAnswers
  <2> QED BY <2>1, <2>2, <2>4 DEF q
<1>4. CASE KvGetRevision(p)
  <2>1. PICK k \in Key, l \in Replica, x \in 0 .. Len(log) + 1, i \in 0 .. Len(log) :
          /\ x = 0 => Latest(l, k, i)
          /\ x # 0 => i = IF x \in held[l] /\ KeyOf(x) = k THEN x ELSE 0
          /\ Reads(p, ReadOf("getrev", k, x), Found(i))
    BY <1>4 DEF KvGetRevision
  <2> DEFINE q == ReadOf("getrev", k, x)
  <2>2. q \in Request /\ q.op = "getrev" /\ q.key = k /\ q.rev = x
    BY <1>1, <1>2
  <2>3. i # 0 => KeyOf(i) = k /\ x \in {0, i}
    BY <2>1 DEF Latest
  <2> HIDE DEF q
  <2>4. Found(i) \in AnswerType /\ ReadAnswer(q, Found(i))
    BY <2>2, <2>3, FoundAnswers
  <2> QED BY <2>1, <2>2, <2>4 DEF q
<1>5. CASE ReadFails(p)
  <2>1. PICK k \in Key, x \in 0 .. Len(log) + 1, s \in {404, 500} :
          \/ Reads(p, ReadOf("get", k, 0), Answer(s, 0, NoVal))
          \/ Reads(p, ReadOf("getrev", k, x), Answer(s, 0, NoVal))
    BY <1>5 DEF ReadFails
  <2>2. /\ Answer(s, 0, NoVal) \in AnswerType
        /\ \A q : ReadAnswer(q, Answer(s, 0, NoVal))
    BY <1>5 DEF ReadFails, Answer, AnswerType, ReadAnswer
  <2>3. /\ ReadOf("get", k, 0) \in Request /\ ReadOf("get", k, 0).op = "get"
        /\ ReadOf("getrev", k, x) \in Request /\ ReadOf("getrev", k, x).op = "getrev"
    BY <1>1, <1>2
  <2> QED BY <2>1, <2>2, <2>3
<1> QED BY <1>3, <1>4, <1>5

(* Handlers that only read: an answer taken from what one replica holds. *)
LEMMA ReadStep ==
  ASSUME IInv, NEW p \in Client, KvGet(p) \/ KvGetRevision(p) \/ ReadFails(p)
  PROVE  IInv'
<1>1. PICK q \in Request, a \in AnswerType :
        q.op \in {"get", "getrev"} /\ Reads(p, q, a) /\ ReadAnswer(q, a)
  BY ReadsAnswer DEF IInv
<1>2. /\ req' = [req EXCEPT ![p] = q] /\ n' = [n EXCEPT ![p] = n[p] + 1] /\ Respond(p, a)
      /\ UNCHANGED <<streamVars, mirrorFor, tag, wire>>
  BY <1>1 DEF Reads, Ask
<1>3. /\ req' \in [Client -> Request] /\ n' \in [Client -> Nat] /\ req'[p] = q
      /\ \A c \in Client \ {p} : req'[c] = req[c] /\ n'[c] = n[c]
  BY <1>2 DEF IInv, TypeOK
<1>4. ans'[p] = a /\ log' = log
  BY <1>2 DEF Respond, streamVars, IInv, TypeOK
<1>5. AnswerIsCommitted(p)'
  <2>1. a.status \in {200, 204} =>
          /\ a.rev \in DOMAIN log /\ log[a.rev].val = a.val
          /\ KeyOf(a.rev) = q.key /\ ~IsTombstone(a.rev)
    BY <1>1 DEF ReadAnswer, Answer
  <2>2. q.op \notin Writes
    BY <1>1 DEF Writes
  <2> QED BY <1>3, <1>4, <2>1, <2>2 DEF AnswerIsCommitted, KeyOf, IsTombstone
<1>6. req'[p].op \in {"get", "getrev"}
  BY <1>1, <1>3
<1> QED BY <1>2, <1>3, <1>5, <1>6, RespondStep

-----------------------------------------------------------------------------
(* Handlers whose first call is a publish. *)
LEMMA AskAndSendStep ==
  ASSUME IInv, NEW p \in Client, NEW r \in Request, NEW x \in Nat \cup {AnyRev},
         NEW at \in {"create", "publish"}, AskAndSend(p, r, x, at),
         r.op \in {"put", "create", "update", "delete"},
         r.op = "update" => x = r.rev,
         r.op = "create" => x = 0,
         at = "create" => r.op = "create"
  PROVE  IInv'
<1>1. Serves(r, r.val, x) /\ SentBy(r, r.val, at)
  BY DEF Serves, SentBy, Writes
<1>2. r.val \in Value \cup {NoVal} /\ n[p] + 1 \in Nat
  BY DEF Request, IInv, TypeOK
<1>3. /\ req' = [req EXCEPT ![p] = r] /\ n' = [n EXCEPT ![p] = n[p] + 1]
      /\ Send(p, r, n[p] + 1, r.val, x, at)
      /\ ans' = [ans EXCEPT ![p] = NoAnswer]
      /\ UNCHANGED <<streamVars, mirrorFor, attempt>>
  BY DEF AskAndSend, Ask
<1> QED BY <1>1, <1>2, <1>3, SendStep

(* PUT, with or without a condition, and DELETE. *)
LEMMA WriteStep ==
  ASSUME IInv, NEW p \in Client, KvPut(p) \/ KvCreate(p) \/ KvUpdate(p) \/ KvDelete(p)
  PROVE  IInv'
<1> USE AdapterAssumption DEF Request, Operation
<1>1. CASE KvPut(p)
  <2>1. PICK k \in Key, v \in Bodies, t \in Ttl :
          AskAndSend(p, [op |-> "put", key |-> k, val |-> v, rev |-> 0, ttl |-> t], AnyRev, "publish")
    BY <1>1 DEF KvPut
  <2> DEFINE r == [op |-> "put", key |-> k, val |-> v, rev |-> 0, ttl |-> t]
  <2>2. r \in Request /\ r.op = "put" /\ AnyRev \in Nat \cup {AnyRev}
    OBVIOUS
  <2>3. AskAndSend(p, r, AnyRev, "publish")
    BY <2>1
  <2> HIDE DEF r
  <2> QED BY <2>2, <2>3, AskAndSendStep
<1>2. CASE KvCreate(p)
  <2>1. PICK k \in Key, v \in Bodies, t \in Ttl :
          AskAndSend(p, [op |-> "create", key |-> k, val |-> v, rev |-> 0, ttl |-> t],
                     0, IF t THEN "publish" ELSE "create")
    BY <1>2 DEF KvCreate
  <2> DEFINE r == [op |-> "create", key |-> k, val |-> v, rev |-> 0, ttl |-> t]
             at == IF t THEN "publish" ELSE "create"
  <2>2. r \in Request /\ r.op = "create" /\ at \in {"create", "publish"} /\ 0 \in Nat
    OBVIOUS
  <2>3. AskAndSend(p, r, 0, at)
    BY <2>1
  <2> HIDE DEF r, at
  <2> QED BY <2>2, <2>3, AskAndSendStep
<1>3. CASE KvUpdate(p)
  <2>1. PICK k \in Key, v \in Bodies, t \in Ttl, i \in 0 .. Len(log) :
          AskAndSend(p, [op |-> "update", key |-> k, val |-> v, rev |-> i, ttl |-> t], i, "publish")
    BY <1>3 DEF KvUpdate
  <2> DEFINE r == [op |-> "update", key |-> k, val |-> v, rev |-> i, ttl |-> t]
  <2>2. r \in Request /\ r.op = "update" /\ r.rev = i /\ i \in Nat
    OBVIOUS
  <2>3. AskAndSend(p, r, i, "publish")
    BY <2>1
  <2> HIDE DEF r
  <2> QED BY <2>2, <2>3, AskAndSendStep
<1>4. CASE KvDelete(p)
  <2>1. PICK k \in Key :
          AskAndSend(p, [op |-> "delete", key |-> k, val |-> NoVal, rev |-> 0, ttl |-> FALSE],
                     AnyRev, "publish")
    BY <1>4 DEF KvDelete
  <2> DEFINE r == [op |-> "delete", key |-> k, val |-> NoVal, rev |-> 0, ttl |-> FALSE]
  <2>2. r \in Request /\ r.op = "delete" /\ AnyRev \in Nat \cup {AnyRev}
    OBVIOUS
  <2>3. AskAndSend(p, r, AnyRev, "publish")
    BY <2>1
  <2> HIDE DEF r
  <2> QED BY <2>2, <2>3, AskAndSendStep
<1> QED BY <1>1, <1>2, <1>3, <1>4

-----------------------------------------------------------------------------
(* kvIncr starts: its delta is an int64. *)
LEMMA KvIncrStep == ASSUME IInv, NEW p \in Client, KvIncr(p) PROVE IInv'
<1>1. PICK k \in Key, d \in Deltas :
        /\ Ask(p, [op |-> "incr", key |-> k, val |-> d, rev |-> 0, ttl |-> FALSE])
        /\ pc' = [pc EXCEPT ![p] = "load"]
        /\ ans' = [ans EXCEPT ![p] = NoAnswer]
        /\ UNCHANGED <<streamVars, mirrorFor, tag, body, attempt, reply, wire>>
  BY DEF KvIncr
<1> DEFINE q == [op |-> "incr", key |-> k, val |-> d, rev |-> 0, ttl |-> FALSE]
<1>2. q \in Request /\ q.op = "incr" /\ q.val \in Counter
  BY AdapterAssumption DEF Request, Operation, Value
<1>3. req' = [req EXCEPT ![p] = q] /\ n' = [n EXCEPT ![p] = n[p] + 1]
  BY <1>1 DEF Ask
<1> HIDE DEF q
<1>4. UNCHANGED <<log, held, applied, mirrorFor, tag, body, attempt, reply, wire>>
  BY <1>1 DEF streamVars
<1>5. TypeOK'
  BY <1>1, <1>2, <1>3, <1>4, ConstantsTyped DEF IInv, TypeOK
<1>6. req'[p] = q /\ \A c \in Client \ {p} : ans'[c] = ans[c] /\ req'[c] = req[c] /\ n'[c] = n[c]
  BY <1>1, <1>3 DEF IInv, TypeOK
<1>7. PublishInv'
  BY <1>1, <1>2, <1>4, <1>6, LeavePreserves DEF IInv, PublishInv
<1>8. AnswerIsCommitted(p)'
  BY <1>1 DEF IInv, TypeOK, AnswerIsCommitted, NoAnswer, Answer
<1>9. AnswersAreCommitted'
  BY <1>4, <1>5, <1>6, <1>8, AnswersPreserved, StoredStepPreservesLog DEF IInv
<1> QED BY <1>4, <1>5, <1>7, <1>9, StoredStepPreservesLog DEF IInv, PublishInv

(* The sum goes out with the revision it was computed from as its condition. *)
LEMMA IncrLoadStep == ASSUME IInv, NEW p \in Client, IncrLoad(p) PROVE IInv'
<1>1. PICK l \in Replica, i \in 0 .. Len(log) :
        /\ Latest(l, req[p].key, i)
        /\ IF Absent(i)
           THEN Send(p, req[p], n[p], Wrap(req[p].val), 0, "create")
           ELSE Send(p, req[p], n[p], Wrap(ReadCounter(log[i].val) + req[p].val), i, "publish")
  BY DEF IncrLoad
<1>2. /\ req[p] \in Request /\ n[p] \in Nat
      /\ req' = [req EXCEPT ![p] = req[p]] /\ n' = [n EXCEPT ![p] = n[p]]
      /\ UNCHANGED <<streamVars, mirrorFor, attempt>> /\ UNCHANGED <<req, n, ans>>
  BY DEF IInv, TypeOK, IncrLoad
<1>3. req[p].op = "incr" /\ req[p].val \in Counter
  BY DEF IInv, HandlerInv, IncrLoad
<1>4. CASE Absent(i)
  <2> DEFINE v == Wrap(req[p].val)
  <2>1. v \in Value \cup {NoVal} /\ v = Wrap(req[p].val + 0)
    <3>1. req[p].val + 0 = req[p].val /\ Wrap(req[p].val) \in Value
      BY <1>3, CounterArithmetic
    <3> QED BY <3>1
  <2>2. Serves(req[p], v, 0) /\ SentBy(req[p], v, "create")
    BY <1>3, <2>1 DEF Serves, SentBy, Writes, Base, Absent, IInv, TypeOK
  <2>3. Send(p, req[p], n[p], v, 0, "create")
    BY <1>1, <1>4
  <2> HIDE DEF v
  <2> QED BY <1>2, <2>1, <2>2, <2>3, SendStep
<1>5. CASE ~Absent(i)
  <2> DEFINE v == Wrap(ReadCounter(log[i].val) + req[p].val)
  <2>1. v \in Value \cup {NoVal} /\ v = Wrap(req[p].val + ReadCounter(log[i].val))
    <3>1. ReadCounter(log[i].val) \in Counter
      BY ReadCounterIsCounter
    <3>2. ReadCounter(log[i].val) + req[p].val = req[p].val + ReadCounter(log[i].val)
      BY <1>3, <3>1, CounterArithmetic
    <3>3. Wrap(ReadCounter(log[i].val) + req[p].val) \in Value
      BY <1>3, <3>1, CounterArithmetic
    <3> QED BY <3>2, <3>3
  <2>2. Serves(req[p], v, i) /\ SentBy(req[p], v, "publish")
    BY <1>3, <1>5, <2>1 DEF Serves, SentBy, Writes, Base
  <2>3. Send(p, req[p], n[p], v, i, "publish")
    BY <1>1, <1>5
  <2>4. i \in Nat \cup {AnyRev}
    OBVIOUS
  <2> HIDE DEF v
  <2> QED BY <1>2, <2>1, <2>2, <2>3, <2>4, SendStep
<1> QED BY <1>4, <1>5

(* A failed read of the counter ends in a 500. *)
LEMMA IncrLoadFailsStep == ASSUME IInv, NEW p \in Client, IncrLoadFails(p) PROVE IInv'
<1>1. /\ req' \in [Client -> Request] /\ n' \in [Client -> Nat]
      /\ \A c \in Client : req'[c] = req[c] /\ n'[c] = n[c]
      /\ req'[p].op = "incr" => req'[p].val \in Counter
  BY DEF IInv, TypeOK, HandlerInv, IncrLoadFails
<1>2. Answer(500, 0, NoVal) \in AnswerType
  BY DEF Answer, AnswerType
<1>3. Respond(p, Answer(500, 0, NoVal)) /\ UNCHANGED <<streamVars, mirrorFor, tag, wire>>
  BY DEF IncrLoadFails
<1>4. AnswerIsCommitted(p)'
  BY <1>3 DEF Respond, Answer, AnswerIsCommitted, IInv, TypeOK
<1> QED BY <1>1, <1>2, <1>3, <1>4, RespondStep

-----------------------------------------------------------------------------
(* A failed write: kvIncr reads again, any other handler answers an error. *)
LEMMA WriteFailsStep ==
  ASSUME IInv, NEW p \in Client, NEW i \in Nat, WriteFails(p, i),
         UNCHANGED <<streamVars, mirrorFor, req, n, tag, wire>>
  PROVE  IInv'
<1>1. /\ req' \in [Client -> Request] /\ n' \in [Client -> Nat]
      /\ \A c \in Client : req'[c] = req[c] /\ n'[c] = n[c]
      /\ req'[p].op = "incr" => req'[p].val \in Counter
  BY DEF IInv, TypeOK, HandlerInv
<1>2. CASE /\ req[p].op = "incr"
           /\ attempt' = [attempt EXCEPT ![p] = @ + 1]
           /\ pc' = [pc EXCEPT ![p] = "load"]
           /\ UNCHANGED <<ans, body, reply>>
  <2>1. UNCHANGED <<log, held, applied, mirrorFor, req, n, tag, wire, ans, body, reply>>
    BY <1>2 DEF streamVars
  <2>2. TypeOK'
    BY <1>2, <2>1 DEF IInv, TypeOK
  <2>3. PublishInv'
    BY <1>1, <1>2, <2>1, LeavePreserves DEF IInv, PublishInv
  <2>4. AnswersAreCommitted'
    BY <2>1 DEF IInv, AnswersAreCommitted, AnswerIsCommitted, KeyOf, IsTombstone
  <2> QED BY <2>1, <2>2, <2>3, <2>4, StoredStepPreservesLog DEF IInv, PublishInv
<1>3. ASSUME NEW s \in {409, 412, 500}, Respond(p, Answer(s, i, NoVal)) PROVE IInv'
  <2> DEFINE a == Answer(s, i, NoVal)
  <2>1. a \in AnswerType
    BY <1>3 DEF Answer, AnswerType
  <2>2. AnswerIsCommitted(p)'
    BY <1>3 DEF Respond, Answer, AnswerIsCommitted, IInv, TypeOK
  <2>3. Respond(p, a) /\ UNCHANGED <<streamVars, mirrorFor, tag, wire>>
    BY <1>3
  <2> HIDE DEF a
  <2> QED BY <1>1, <2>1, <2>2, <2>3, RespondStep
<1> QED BY <1>2, <1>3 DEF WriteFails

(* kv.Create looks again after its first publish failed. *)
LEMMA CreateRecheckStep == ASSUME IInv, NEW p \in Client, CreateRecheck(p) PROVE IInv'
<1>1. PICK l \in Replica, i \in 0 .. Len(log) :
        /\ Latest(l, req[p].key, i)
        /\ IF i # 0 /\ IsTombstone(i)
           THEN /\ Send(p, req[p], n[p], body[p], i, "publish")
                /\ UNCHANGED <<attempt, ans>>
           ELSE WriteFails(p, i) /\ UNCHANGED <<tag, wire>>
  BY DEF CreateRecheck
<1>2. /\ UNCHANGED <<streamVars, mirrorFor, req, n>> /\ pc[p] = "recheck" /\ i \in Nat
      /\ req[p] \in Request /\ n[p] \in Nat /\ body[p] \in Value \cup {NoVal}
      /\ req' = [req EXCEPT ![p] = req[p]] /\ n' = [n EXCEPT ![p] = n[p]]
  BY DEF IInv, TypeOK, CreateRecheck
<1>3. CASE i # 0 /\ IsTombstone(i)
  <2>1. Absent(i) /\ i \in DOMAIN log /\ i \in Nat \cup {AnyRev}
    BY <1>3 DEF Absent, IInv, TypeOK
  <2>2. \/ req[p].op = "create" /\ body[p] = req[p].val
        \/ req[p].op = "incr" /\ body[p] = Wrap(req[p].val) /\ req[p].val \in Counter
    BY <1>2 DEF IInv, HandlerInv
  <2>3. req[p].op = "incr" => req[p].val + 0 = req[p].val
    BY <2>2, CounterArithmetic
  <2>4. Serves(req[p], body[p], i) /\ SentBy(req[p], body[p], "publish")
    BY <1>3, <2>1, <2>2, <2>3 DEF Serves, SentBy, Writes, Base
  <2>5. Send(p, req[p], n[p], body[p], i, "publish") /\ UNCHANGED <<attempt, ans>>
    BY <1>1, <1>3
  <2> QED BY <1>2, <2>1, <2>4, <2>5, SendStep
<1>4. CASE ~(i # 0 /\ IsTombstone(i))
  BY <1>1, <1>2, <1>4, WriteFailsStep
<1> QED BY <1>3, <1>4

(* Its second look may fail, like the first publish. *)
LEMMA CreateRecheckFailsStep == ASSUME IInv, NEW p \in Client, CreateRecheckFails(p) PROVE IInv'
  BY WriteFailsStep DEF CreateRecheckFails

(* The other publishes fail the same way. *)
LEMMA PublishFailsStep == ASSUME IInv, NEW p \in Client, PublishFails(p) PROVE IInv'
<1>1. reply[p].rev \in Nat
  BY DEF IInv, TypeOK, ReplyType
<1> QED BY <1>1, WriteFailsStep DEF PublishFails

(* The first publish of kv.Create fails: the handler goes on to look again. *)
LEMMA CreateFailsStep == ASSUME IInv, NEW p \in Client, CreateFails(p) PROVE IInv'
<1>1. UNCHANGED <<log, held, applied, mirrorFor, req, n, tag, body, attempt, reply, wire, ans>>
  BY DEF CreateFails, streamVars
<1>2. pc[p] = "create" /\ pc' = [pc EXCEPT ![p] = "recheck"]
  BY DEF CreateFails
<1>3. TypeOK'
  BY <1>1, <1>2 DEF IInv, TypeOK
<1>4. /\ \/ req[p].op = "create" /\ body[p] = req[p].val
         \/ req[p].op = "incr" /\ body[p] = Wrap(req[p].val)
      /\ req[p].op = "incr" => req[p].val \in Counter
  BY <1>2 DEF IInv, HandlerInv
<1>5. PublishInv'
  BY <1>1, <1>2, <1>4, LeavePreserves DEF IInv, PublishInv
<1>6. AnswersAreCommitted'
  BY <1>1 DEF IInv, AnswersAreCommitted, AnswerIsCommitted, KeyOf, IsTombstone
<1> QED BY <1>1, <1>3, <1>5, <1>6, StoredStepPreservesLog DEF IInv, PublishInv

(* The ack of a publish whose handler still waits: ReplyInv says what it names. *)
LEMMA AckedStep == ASSUME IInv, NEW p \in Client, Acked(p) PROVE IInv'
<1> DEFINE a == Answer(IF req[p].op = "delete" THEN 204 ELSE 200, reply[p].rev, body[p])
<1>1. /\ Waiting(p) /\ reply[p].status = "ok" /\ Respond(p, a)
      /\ UNCHANGED <<streamVars, mirrorFor, req, n, tag, wire>>
  BY DEF Acked
<1>2. /\ req' \in [Client -> Request] /\ n' \in [Client -> Nat]
      /\ \A c \in Client : req'[c] = req[c] /\ n'[c] = n[c]
      /\ req'[p].op = "incr" => req'[p].val \in Counter
      /\ req[p].op \in Writes
  BY <1>1 DEF IInv, TypeOK, HandlerInv, Waiting, Writes
<1>3. a \in AnswerType
  BY DEF IInv, TypeOK, Answer, AnswerType, ReplyType
<1>4. /\ reply[p].rev \in DOMAIN log
      /\ log[reply[p].rev].by = p /\ log[reply[p].rev].n = n[p]
      /\ log[reply[p].rev].want = req[p] /\ log[reply[p].rev].val = body[p]
  BY <1>1 DEF IInv, ReplyInv
<1>5. ans'[p] = a /\ a.rev = reply[p].rev /\ a.val = body[p]
  BY <1>1 DEF Respond, Answer, IInv, TypeOK
<1>6. AnswerIsCommitted(p)'
  BY <1>1, <1>2, <1>4, <1>5 DEF AnswerIsCommitted, streamVars
<1> HIDE DEF a
<1> QED BY <1>1, <1>2, <1>3, <1>6, RespondStep

-----------------------------------------------------------------------------
\* The message that the source stores for publish m over revision i.
Stored(m, i) == [by |-> m.by, n |-> m.n, want |-> m.want, val |-> m.val, prev |-> i]

(* Storing an accepted publish keeps what the log promises. *)
LEMMA StorePreservesLog ==
  ASSUME TypeOK, WireInv, LogInv, NEW m \in wire, NEW i \in 0 .. Len(log),
         Latest(Source, m.want.key, i), Expected(m, i), log' = Append(log, Stored(m, i))
  PROVE  log' \in Seq(Entry) /\ LogGrows /\ LogInv'
<1>1. m \in Publish /\ Stored(m, i) \in Entry
  BY DEF TypeOK, Stored, Publish, Entry
<1>2. /\ log \in Seq(Entry) /\ log' \in Seq(Entry)
      /\ Len(log') = Len(log) + 1 /\ Len(log) \in Nat
      /\ log'[Len(log) + 1] = Stored(m, i)
      /\ LogGrows
  BY <1>1, Appending DEF TypeOK
<1>3. Serves(m.want, m.val, m.exp)
  BY DEF WireInv
<1>4. /\ m.want.op \in {"update", "create", "incr"} => m.exp = i
      /\ i # 0 => i \in DOMAIN log
  BY <1>2, <1>3 DEF Expected, Serves, AnyRev, TypeOK, Publish, Request
<1>5. \A j \in 1 .. Len(log) : log'[j] = log[j]
  BY <1>2 DEF LogGrows
<1>6. \A j \in 0 .. Len(log) : Absent(j)' = Absent(j) /\ Base(j)' = Base(j)
  BY <1>5 DEF Absent, IsTombstone, Base
<1>7. ASSUME NEW j \in 1 .. Len(log) PROVE EntryOK(j)'
  <2>1. EntryOK(j) /\ log'[j] = log[j] /\ log[j].prev \in 0 .. Len(log)
    BY <1>2, <1>5 DEF LogInv, EntryOK
  <2> QED BY <1>6, <2>1 DEF EntryOK
<1>8. ASSUME NEW j \in Nat, j = Len(log) + 1 PROVE EntryOK(j)'
  <2>1. m.want.op = "create" => Absent(i)
    BY <1>3, <1>4 DEF Serves, Absent
  <2>2. m.want.op = "incr" => m.val = Wrap(m.want.val + Base(i))
    BY <1>3, <1>4 DEF Serves
  <2>3. m.want.op = "update" => i = m.want.rev
    BY <1>3, <1>4 DEF Serves
  <2>4. m.want.op # "incr" => m.val = m.want.val
    BY <1>3 DEF Serves
  <2>5. log'[j].prev = i /\ log'[j].want = m.want /\ log'[j].val = m.val
    BY <1>2, <1>8 DEF Stored
  <2>6. i \in 0 .. j - 1
    BY <1>2, <1>8
  <2> QED BY <1>6, <2>1, <2>2, <2>3, <2>4, <2>5, <2>6 DEF EntryOK
<1>9. 1 .. Len(log') = 1 .. Len(log) \cup {Len(log) + 1} /\ Len(log) + 1 \in Nat
  BY <1>2
<1> QED BY <1>2, <1>7, <1>8, <1>9 DEF LogInv

(* The stream takes a message off the wire; a reply in this form goes to the
   handler that still waits for it. *)
LEMMA ReplyTyped ==
  ASSUME TypeOK, NEW m \in wire, NEW s \in {"ok", "wrong"}, NEW i \in Nat, Reply(m, s, i)
  PROVE  /\ m \in Publish /\ m.by \in Client
         /\ reply' \in [Client -> ReplyType]
         /\ \A p \in Client : reply'[p] = IF p = m.by /\ Waiting(p) /\ tag[p] = m.tag
                                          THEN [status |-> s, rev |-> i] ELSE reply[p]
<1>1. m \in Publish /\ m.by \in Client
  BY DEF TypeOK, Publish
<1> QED BY <1>1 DEF TypeOK, Reply, ReplyType

(* Storing message m over revision i, its latest, preserves every invariant. *)
LEMMA StreamAcceptsStep == ASSUME IInv, NEW m \in wire, StreamAccepts(m) PROVE IInv'
<1> USE DEF IInv
<1>1. PICK i \in 0 .. Len(log) :
        /\ Latest(Source, m.want.key, i)
        /\ Expected(m, i)
        /\ Store([by |-> m.by, n |-> m.n, want |-> m.want, val |-> m.val, prev |-> i])
  BY DEF StreamAccepts
<1>2. /\ wire' = wire \ {m}
      /\ Reply(m, "ok", Len(log) + 1)
      /\ UNCHANGED <<mirrorFor, pc, req, n, tag, body, attempt, ans>>
  BY DEF StreamAccepts
<1>3. log' = Append(log, Stored(m, i)) /\ UNCHANGED applied
  BY <1>1 DEF Store, Stored
<1>4. log' \in Seq(Entry) /\ LogGrows /\ LogInv'
  BY <1>1, <1>3, StorePreservesLog
<1>5. /\ log \in Seq(Entry) /\ Len(log) \in Nat /\ Len(log') = Len(log) + 1
      /\ log'[Len(log) + 1] = Stored(m, i)
      /\ \A j \in 1 .. Len(log) : log'[j] = log[j]
  BY <1>3, <1>4 DEF TypeOK, LogGrows
<1>6. held' \in [Replica -> SUBSET (1 .. Len(log'))]
  <2>1. \A r \in Replica : held[r] \subseteq 1 .. Len(log')
    BY <1>5 DEF TypeOK
  <2>2. KeptWith(Source, m.want.key, Len(log) + 1) \subseteq 1 .. Len(log')
    BY <2>1, <1>5 DEF KeptWith, Replica
  <2>3. held' = [held EXCEPT ![Source] = KeptWith(Source, m.want.key, Len(log) + 1)]
    BY <1>1 DEF Store
  <2> QED BY <2>1, <2>2, <2>3 DEF TypeOK
<1>7. /\ m \in Publish /\ m.by \in Client /\ reply' \in [Client -> ReplyType]
      /\ \A p \in Client : reply'[p] = IF p = m.by /\ Waiting(p) /\ tag[p] = m.tag
                                       THEN [status |-> "ok", rev |-> Len(log) + 1] ELSE reply[p]
  <2>1. Len(log) + 1 \in Nat
    BY <1>5
  <2> QED BY <1>2, <2>1, ReplyTyped
<1>8. TypeOK'
  BY <1>2, <1>3, <1>4, <1>5, <1>6, <1>7 DEF TypeOK
<1>9. HandlerInv'
  BY <1>2 DEF HandlerInv
<1>10. WireInv'
  <2> SUFFICES ASSUME NEW w \in wire \ {m} PROVE Serves(w.want, w.val, w.exp)'
    BY <1>2 DEF WireInv, Waiting
  <2>1. w.want \in Request
    BY DEF TypeOK, Publish
  <2>2. Serves(w.want, w.val, w.exp)
    BY DEF WireInv
  <2> DEFINE q == w.want v == w.val x == w.exp
  <2>3. q \in Request /\ Serves(q, v, x)
    BY <2>1, <2>2
  <2> HIDE DEF q, v, x
  <2>4. Serves(q, v, x)'
    BY <1>4, <1>5, <2>3, ServesIsStable
  <2> QED BY <2>4 DEF q, v, x
<1>11. ReplyInv'
  <2> SUFFICES ASSUME NEW p \in Client, Waiting(p), reply'[p].status = "ok"
               PROVE  /\ reply'[p].rev \in DOMAIN log'
                      /\ log'[reply'[p].rev].by = p /\ log'[reply'[p].rev].n = n[p]
                      /\ log'[reply'[p].rev].want = req[p] /\ log'[reply'[p].rev].val = body[p]
    BY <1>2 DEF ReplyInv, Waiting
  <2>1. CASE p = m.by /\ tag[p] = m.tag
    <3>1. m.n = n[p] /\ m.want = req[p] /\ m.val = body[p]
      BY <2>1 DEF WireInv
    <3>2. reply'[p].rev = Len(log) + 1
      BY <1>7, <2>1
    <3> QED BY <1>4, <1>5, <2>1, <3>1, <3>2 DEF Stored
  <2>2. CASE ~(p = m.by /\ tag[p] = m.tag)
    <3>1. reply'[p] = reply[p]
      BY <1>7, <2>2
    <3> QED BY <1>4, <1>5, <3>1 DEF ReplyInv
  <2> QED BY <2>1, <2>2
<1>12. AnswersAreCommitted'
  <2>1. AnswerIsCommitted(m.by)'
    BY <1>2, <1>4, <1>5, <1>7 DEF AnswersAreCommitted, AnswerIsCommitted, KeyOf, IsTombstone
  <2>2. \A q \in Client \ {m.by} : ans'[q] = ans[q] /\ req'[q] = req[q] /\ n'[q] = n[q]
    BY <1>2
  <2> DEFINE c == m.by
  <2>3. c \in Client /\ AnswerIsCommitted(c)'
        /\ \A q \in Client \ {c} : ans'[q] = ans[q] /\ req'[q] = req[q] /\ n'[q] = n[q]
    BY <1>7, <2>1, <2>2
  <2> HIDE DEF c
  <2> QED BY <1>4, <1>8, <2>3, AnswersPreserved
<1> QED BY <1>4, <1>8, <1>9, <1>10, <1>11, <1>12

(* A refused message: only its handler, if it still waits, notices. *)
LEMMA StreamRefusesStep == ASSUME IInv, NEW m \in wire, StreamRefuses(m) PROVE IInv'
<1> USE DEF IInv
<1>1. PICK i \in 0 .. Len(log) : Reply(m, "wrong", i)
  BY DEF StreamRefuses
<1>2. /\ wire' = wire \ {m}
      /\ UNCHANGED <<log, held, applied, mirrorFor, pc, req, n, tag, body, attempt, ans>>
  BY DEF StreamRefuses, streamVars
<1>3. /\ m \in Publish /\ m.by \in Client /\ reply' \in [Client -> ReplyType]
      /\ \A p \in Client : reply'[p] = IF p = m.by /\ Waiting(p) /\ tag[p] = m.tag
                                       THEN [status |-> "wrong", rev |-> i] ELSE reply[p]
  BY <1>1, ReplyTyped
<1>4. TypeOK'
  BY <1>2, <1>3 DEF TypeOK
<1>5. HandlerInv'
  BY <1>2 DEF HandlerInv
<1>6. WireInv'
  BY <1>2 DEF WireInv, Waiting, Serves, Base, Absent, IsTombstone
<1>7. ReplyInv'
  BY <1>2, <1>3 DEF ReplyInv, Waiting
<1>8. AnswersAreCommitted'
  BY <1>2 DEF AnswersAreCommitted, AnswerIsCommitted, KeyOf, IsTombstone
<1> QED BY <1>2, <1>4, <1>5, <1>6, <1>7, <1>8, StoredStepPreservesLog

(* Steps that leave the handlers and the log alone: a message is lost, a replica
   copies or drops one, the adapter lists the mirrors again. *)
LEMMA QuietStep ==
  ASSUME IInv, UNCHANGED <<log, pc, req, n, tag, body, attempt, reply, ans>>,
         held' \in [Replica -> SUBSET (1 .. Len(log))],
         applied' \in [Mirror -> 0 .. Len(log)], mirrorFor' \in BOOLEAN,
         wire' \subseteq wire
  PROVE  IInv'
<1> USE DEF IInv
<1>1. TypeOK'
  BY DEF TypeOK
<1>2. HandlerInv' /\ ReplyInv'
  BY DEF HandlerInv, ReplyInv, Waiting
<1>3. WireInv'
  BY DEF WireInv, Waiting, Serves, Base, Absent, IsTombstone
<1>4. AnswersAreCommitted'
  BY DEF AnswersAreCommitted, AnswerIsCommitted, KeyOf, IsTombstone
<1> QED BY <1>1, <1>2, <1>3, <1>4, StoredStepPreservesLog

(* Replication and expiry keep what a replica holds within the log. *)
LEMMA StreamStepStep == ASSUME IInv, StreamStep PROVE IInv'
<1> USE DEF IInv
<1>1. ASSUME NEW m \in Mirror, Replicate(m), UNCHANGED <<mirrorFor, handlerVars, wire>>
      PROVE  IInv'
  <2>1. applied' \in [Mirror -> 0 .. Len(log)]
    BY <1>1 DEF Replicate, TypeOK
  <2>2. held' \in [Replica -> SUBSET (1 .. Len(log))]
    <3> DEFINE i == applied[m] + 1
    <3>1. i \in 1 .. Len(log)
      BY <1>1 DEF Replicate, TypeOK
    <3>2. KeptWith(m, KeyOf(i), i) \subseteq 1 .. Len(log)
      BY <3>1 DEF KeptWith, TypeOK, Replica
    <3>3. held' = held \/ held' = [held EXCEPT ![m] = KeptWith(m, KeyOf(i), i)]
      BY <1>1 DEF Replicate
    <3> QED BY <3>2, <3>3 DEF TypeOK
  <2> QED BY <1>1, <2>1, <2>2, QuietStep DEF Replicate, handlerVars, TypeOK
<1>2. ASSUME NEW r \in Replica, Expire(r), UNCHANGED <<mirrorFor, handlerVars, wire>>
      PROVE  IInv'
  <2>1. held' \in [Replica -> SUBSET (1 .. Len(log))]
    BY <1>2 DEF Expire, TypeOK
  <2> QED BY <1>2, <2>1, QuietStep DEF Expire, handlerVars, TypeOK
<1> QED BY <1>1, <1>2 DEF StreamStep

-----------------------------------------------------------------------------
(* The invariant holds initially. *)
LEMMA InitIInv == Init => IInv
<1> SUFFICES ASSUME Init PROVE IInv
  OBVIOUS
<1>1. /\ log = << >> /\ held = [r \in Replica |-> {}] /\ applied = [m \in Mirror |-> 0]
      /\ mirrorFor = FALSE /\ wire = {}
  BY DEF Init, StreamInit
<1>2. log \in Seq(Entry) /\ Len(log) = 0 /\ DOMAIN log = {}
  BY <1>1
<1>3. /\ pc = [p \in Client |-> "idle"] /\ n = [p \in Client |-> 0] /\ tag = [p \in Client |-> 0]
      /\ body = [p \in Client |-> NoVal] /\ attempt = [p \in Client |-> 0]
      /\ reply = [p \in Client |-> NoReply] /\ ans = [p \in Client |-> NoAnswer]
  BY DEF Init
<1>4. req \in [Client -> Request] /\ \A p \in Client : req[p].op = "get"
  <2>1. (CHOOSE k \in Key : TRUE) \in Key
    BY AdapterAssumption
  <2>2. req = [p \in Client |-> [op |-> "get", key |-> CHOOSE k \in Key : TRUE,
                                 val |-> NoVal, rev |-> 0, ttl |-> FALSE]]
    BY DEF Init
  <2> QED BY <2>1, <2>2 DEF Request, Operation
<1>5. TypeOK
  <2>1. /\ held \in [Replica -> SUBSET (1 .. Len(log))]
        /\ applied \in [Mirror -> 0 .. Len(log)]
    BY <1>1, <1>2
  <2>2. /\ pc \in [Client -> {"idle", "load", "create", "recheck", "publish"}]
        /\ n \in [Client -> Nat] /\ tag \in [Client -> Nat] /\ attempt \in [Client -> Nat]
        /\ body \in [Client -> Value \cup {NoVal}]
    BY <1>3
  <2>3. reply \in [Client -> ReplyType] /\ ans \in [Client -> AnswerType]
    BY <1>3, ConstantsTyped
  <2> QED BY <1>1, <1>2, <1>4, <2>1, <2>2, <2>3 DEF TypeOK
<1>6. HandlerInv /\ WireInv /\ ReplyInv
  BY <1>1, <1>3, <1>4 DEF HandlerInv, WireInv, ReplyInv, Waiting
<1>7. LogInv
  BY <1>2 DEF LogInv
<1>8. AnswersAreCommitted
  BY <1>3 DEF AnswersAreCommitted, AnswerIsCommitted, NoAnswer, Answer
<1> QED BY <1>5, <1>6, <1>7, <1>8 DEF IInv

(* Every step preserves the invariant. *)
LEMMA NextIInv == IInv /\ [Next]_vars => IInv'
<1> SUFFICES ASSUME IInv, [Next]_vars PROVE IInv'
  OBVIOUS
<1>1. ASSUME NEW p \in Client, Start(p) PROVE IInv'
  BY <1>1, ReadStep, WriteStep, KvIncrStep DEF Start
<1>2. ASSUME NEW p \in Client, Handler(p) PROVE IInv'
  BY <1>2, IncrLoadStep, IncrLoadFailsStep, CreateRecheckStep, CreateRecheckFailsStep,
     AckedStep, CreateFailsStep, PublishFailsStep DEF Handler
<1>3. ASSUME NEW m \in wire, Lose(m) PROVE IInv'
  BY <1>3, QuietStep DEF Lose, handlerVars, streamVars, IInv, TypeOK
<1>4. CASE Server
  BY <1>3, <1>4, StreamAcceptsStep, StreamRefusesStep DEF Server
<1>5. CASE StreamStep
  BY <1>5, StreamStepStep
<1>6. CASE RefreshMirrors
  BY <1>6, QuietStep DEF RefreshMirrors, handlerVars, streamVars, IInv, TypeOK
<1>7. CASE UNCHANGED vars
  BY <1>7, QuietStep DEF vars, handlerVars, streamVars, IInv, TypeOK
<1> QED BY <1>1, <1>2, <1>4, <1>5, <1>6, <1>7 DEF Next

(* The invariant holds in every reachable state. *)
THEOREM Invariance == Spec => []IInv
  BY InitIInv, NextIInv, PTL DEF Spec

(* Every variable keeps its type, whatever the clients, keys and mirrors are. *)
THEOREM TypeCorrect == Spec => []TypeOK
<1>1. IInv => TypeOK
  BY DEF IInv
<1> QED BY <1>1, Invariance, PTL

(* A conditional write is stored only over the state it asked for: kvPut's
   compare-and-set holds at the moment the stream stores the message, with
   failures, lost acks, lagging mirrors and messages that outlive their handler. *)
THEOREM ConditionalWrites == Spec => []ConditionsHeldAtCommit
<1>1. IInv => ConditionsHeldAtCommit
  <2> SUFFICES ASSUME IInv PROVE ConditionsHeldAtCommit
    OBVIOUS
  <2>1. DOMAIN log = 1 .. Len(log)
    BY DEF IInv, TypeOK
  <2>2. \A i \in DOMAIN log : EntryOK(i)
    BY <2>1 DEF IInv, LogInv
  <2> QED BY <2>2 DEF EntryOK, ConditionsHeldAtCommit
<1> QED BY <1>1, Invariance, PTL

(* No stored increment loses another write: each one adds its delta to the value
   it replaced, for any word size and any number of retries in kvIncr. *)
THEOREM IncrementsAreAtomic == Spec => []IncrementsAdd
<1>1. IInv => IncrementsAdd
  <2> SUFFICES ASSUME IInv PROVE IncrementsAdd
    OBVIOUS
  <2>1. DOMAIN log = 1 .. Len(log)
    BY DEF IInv, TypeOK
  <2>2. \A i \in DOMAIN log : EntryOK(i)
    BY <2>1 DEF IInv, LogInv
  <2> QED BY <2>2 DEF EntryOK, IncrementsAdd
<1> QED BY <1>1, Invariance, PTL

(* An answer with a revision names a stored message: the very request for a write,
   a live value of the asked key for a read. *)
THEOREM AnswersHold == Spec => []AnswersAreCommitted
<1>1. IInv => AnswersAreCommitted
  BY DEF IInv
<1> QED BY <1>1, Invariance, PTL

-----------------------------------------------------------------------------
(* Without failures.  A message on the wire is then the one its handler waits for, and a
   handler that leaves knows what became of it. *)

\* Client p has, or is about to have, the answer of a request that was stored.
Landed(p) ==
    \/ Waiting(p) /\ reply[p].status = "ok"
    \/ pc[p] = "idle" /\ ans[p].status \in {200, 204}

\* Stored message i is of an earlier request of its client, or of one that was told.
LogFits(i) ==
    /\ log[i].n <= n[log[i].by]
    /\ log[i].n = n[log[i].by] => Landed(log[i].by)

\* No request is stored twice.
NothingTwice ==
    \A i, j \in DOMAIN log : log[i].by = log[j].by /\ log[i].n = log[j].n => i = j

OnceInv ==
    /\ \A m \in wire : /\ Waiting(m.by) /\ reply[m.by].status = "none"
                       /\ m.tag = tag[m.by] /\ m.n = n[m.by]
    /\ \A m, o \in wire : m.by = o.by => m = o
    /\ \A i \in DOMAIN log : LogFits(i)
    /\ \A p \in Client : pc[p] # "idle" => ans[p].status = 0
    /\ NothingTwice

\* The others' handlers stay as they are.
Alone(p) ==
    \A q \in Client \ {p} : /\ pc'[q] = pc[q] /\ n'[q] = n[q] /\ tag'[q] = tag[q]
                            /\ reply'[q] = reply[q] /\ ans'[q] = ans[q]

\* A handler's step that waits for nothing before it, whatever it sends.
LEMMA OnceHandler ==
  ASSUME OnceInv, TypeOK, TypeOK', NEW p \in Client, Alone(p), log' = log,
         \A m \in wire : m.by # p,
         \A m \in wire' : m \in wire \/ (/\ m.by = p /\ m.tag = tag'[p] /\ m.n = n'[p]
                                         /\ Waiting(p)' /\ reply'[p].status = "none"),
         \A m, o \in wire' \ wire : m = o,
         \/ n'[p] = n[p] + 1
         \/ n'[p] = n[p] /\ (Landed(p) => Landed(p)'),
         pc'[p] # "idle" => ans'[p].status = 0
  PROVE  OnceInv'
<1>1. \A m \in wire : m.by \in Client \ {p} /\ m.by \in Client
  BY DEF TypeOK, Publish
<1>2. ASSUME NEW m \in wire'
      PROVE  /\ Waiting(m.by)' /\ reply'[m.by].status = "none"
             /\ m.tag = tag'[m.by] /\ m.n = n'[m.by]
  <2>1. CASE m \in wire
    <3>1. m.by \in Client \ {p}
      BY <1>1, <2>1
    <3>2. /\ Waiting(m.by) /\ reply[m.by].status = "none"
          /\ m.tag = tag[m.by] /\ m.n = n[m.by]
      BY <2>1 DEF OnceInv
    <3> QED BY <3>1, <3>2 DEF Alone, Waiting
  <2>2. CASE m \notin wire
    BY <1>2, <2>2
  <2> QED BY <2>1, <2>2
<1>3. ASSUME NEW m \in wire', NEW o \in wire', m.by = o.by PROVE m = o
  <2>1. CASE m \in wire /\ o \in wire
    BY <1>3, <2>1 DEF OnceInv
  <2>2. CASE m \notin wire /\ o \notin wire
    BY <2>2
  <2>3. CASE m \in wire /\ o \notin wire
    BY <1>1, <1>3, <2>3
  <2>4. CASE m \notin wire /\ o \in wire
    BY <1>1, <1>3, <2>4
  <2> QED BY <2>1, <2>2, <2>3, <2>4
<1>4. ASSUME NEW i \in DOMAIN log'
      PROVE  LogFits(i)'
  <2> DEFINE q == log[i].by
  <2>1. i \in DOMAIN log /\ log'[i] = log[i] /\ log[i] \in Entry
    BY <1>4 DEF TypeOK
  <2>2. q \in Client /\ log[i].n \in Nat /\ n[q] \in Nat
    BY <2>1 DEF Entry, TypeOK
  <2>3. log[i].n <= n[q] /\ (log[i].n = n[q] => Landed(q))
    BY <2>1 DEF OnceInv, LogFits
  <2>4. CASE q # p
    <3>1. n'[q] = n[q] /\ (Landed(q) => Landed(q)')
      BY <2>2, <2>4 DEF Alone, Landed, Waiting
    <3> QED BY <2>1, <2>3, <3>1 DEF LogFits
  <2>5. CASE q = p /\ n'[p] = n[p] + 1
    <3>1. log[i].n < n'[q]
      BY <2>2, <2>3, <2>5
    <3> QED BY <2>1, <2>2, <2>5, <3>1 DEF LogFits, TypeOK
  <2>6. CASE q = p /\ n'[p] = n[p] /\ (Landed(p) => Landed(p)')
    BY <2>1, <2>3, <2>6 DEF LogFits
  <2> QED BY <2>4, <2>5, <2>6
<1>5. ASSUME NEW q \in Client, pc'[q] # "idle" PROVE ans'[q].status = 0
  <2>1. CASE q = p
    BY <1>5, <2>1
  <2>2. CASE q # p
    BY <1>5, <2>2 DEF Alone, OnceInv
  <2> QED BY <2>1, <2>2
<1>6. NothingTwice'
  BY DEF OnceInv, NothingTwice
<1> QED BY <1>2, <1>3, <1>4, <1>5, <1>6 DEF OnceInv

\* A handler that waits for nothing has nothing on the wire.
LEMMA NothingOut ==
  ASSUME OnceInv, NEW p \in Client, ~Waiting(p) \/ reply[p].status # "none"
  PROVE  \A m \in wire : m.by # p
BY DEF OnceInv

\* A request that begins, with a read, a publish or the loop of kvIncr.
LEMMA OnceStart ==
  ASSUME OnceInv, TypeOK, TypeOK', NEW p \in Client, Start(p)
  PROVE  OnceInv'
<1>1. pc[p] = "idle" /\ n' = [n EXCEPT ![p] = @ + 1] /\ log' = log
  BY DEF Start, KvGet, KvGetRevision, ReadFails, Reads, KvPut, KvCreate, KvUpdate, KvDelete, KvIncr, AskAndSend,
         Ask, streamVars
<1>2. \A m \in wire : m.by # p
  BY <1>1, NothingOut DEF Waiting
<1>3. n'[p] = n[p] + 1
  BY <1>1 DEF TypeOK
<1>4. ASSUME NEW a, Respond(p, a), UNCHANGED <<tag, wire>> PROVE OnceInv'
  <2>1. Alone(p)
    BY <1>1, <1>4 DEF Respond, Alone, TypeOK
  <2>2. pc'[p] = "idle"
    BY <1>4 DEF Respond, TypeOK
  <2> QED BY <1>1, <1>2, <1>3, <1>4, <2>1, <2>2, OnceHandler
<1>5. ASSUME NEW r, NEW v, NEW x, NEW at \in {"create", "publish"},
             Send(p, r, n[p] + 1, v, x, at), ans' = [ans EXCEPT ![p] = NoAnswer]
      PROVE  OnceInv'
  <2> DEFINE new == [by |-> p, n |-> n[p] + 1, tag |-> tag[p] + 1, want |-> r, val |-> v, exp |-> x]
  <2>1. Alone(p)
    BY <1>1, <1>5 DEF Send, Alone, TypeOK
  <2>2. /\ pc'[p] = at /\ tag'[p] = tag[p] + 1 /\ reply'[p].status = "none" /\ ans'[p].status = 0
        /\ Waiting(p)' /\ wire' = wire \cup {new}
    BY <1>5 DEF Send, TypeOK, NoReply, NoAnswer, Answer, Waiting
  <2>3. new.by = p /\ new.tag = tag'[p] /\ new.n = n'[p]
    BY <1>3, <2>2
  <2> HIDE DEF new
  <2>4. \A m \in wire' : m \in wire \/ m = new
    BY <2>2
  <2> QED BY <1>1, <1>2, <1>3, <2>1, <2>2, <2>3, <2>4, OnceHandler
<1>6. CASE KvIncr(p)
  <2>1. Alone(p) /\ pc'[p] = "load" /\ ans'[p].status = 0 /\ wire' = wire
    BY <1>1, <1>6 DEF KvIncr, Alone, TypeOK, NoAnswer, Answer
  <2> QED BY <1>1, <1>2, <1>3, <2>1, OnceHandler
<1>7. CASE KvGet(p) \/ KvGetRevision(p) \/ ReadFails(p)
  BY <1>4, <1>7 DEF KvGet, KvGetRevision, ReadFails, Reads
<1>8. ASSUME NEW r, NEW x, NEW at \in {"create", "publish"}, AskAndSend(p, r, x, at)
      PROVE  OnceInv'
  BY <1>5, <1>8 DEF AskAndSend
<1>9. CASE KvPut(p) \/ KvUpdate(p) \/ KvDelete(p)
  BY <1>8, <1>9 DEF KvPut, KvUpdate, KvDelete
<1>10. CASE KvCreate(p)
  <2>1. PICK k \in Key, v \in Bodies, t \in Ttl :
          AskAndSend(p, [op |-> "create", key |-> k, val |-> v, rev |-> 0, ttl |-> t],
                     0, IF t THEN "publish" ELSE "create")
    BY <1>10 DEF KvCreate
  <2>2. (IF t THEN "publish" ELSE "create") \in {"create", "publish"}
    OBVIOUS
  <2> QED BY <1>8, <2>1, <2>2
<1> QED BY <1>6, <1>7, <1>9, <1>10 DEF Start

\* A write that failed was not stored, and kvIncr's loop or the answer follows.
LEMMA OnceWriteFails ==
  ASSUME OnceInv, TypeOK, TypeOK', NEW p \in Client, NEW i, WriteFails(p, i), pc[p] # "idle",
         ~Landed(p), \A m \in wire : m.by # p, UNCHANGED <<streamVars, n, tag, wire>>
  PROVE  OnceInv'
<1>1. log' = log /\ n'[p] = n[p]
  BY DEF streamVars
<1>2. CASE ans' = ans /\ reply' = reply /\ pc' = [pc EXCEPT ![p] = "load"]
  <2>1. Alone(p) /\ ans'[p].status = 0
    BY <1>2 DEF Alone, TypeOK, OnceInv
  <2> QED BY <1>1, <2>1, OnceHandler
<1>3. ASSUME NEW a, Respond(p, a) PROVE OnceInv'
  <2>1. Alone(p) /\ pc'[p] = "idle"
    BY <1>3 DEF Respond, Alone, TypeOK
  <2> QED BY <1>1, <2>1, OnceHandler
<1> QED BY <1>2, <1>3 DEF WriteFails

\* A handler's next publish.
LEMMA OnceSend ==
  ASSUME OnceInv, TypeOK, TypeOK', NEW p \in Client, NEW r, NEW v, NEW x,
         NEW at \in {"create", "publish"}, Send(p, r, n[p], v, x, at), pc[p] # "idle",
         ~Landed(p), \A m \in wire : m.by # p, UNCHANGED <<streamVars, n, ans>>
  PROVE  OnceInv'
<1> DEFINE new == [by |-> p, n |-> n[p], tag |-> tag[p] + 1, want |-> r, val |-> v, exp |-> x]
<1>1. Alone(p) /\ log' = log /\ n'[p] = n[p]
  BY DEF Send, Alone, TypeOK, streamVars
<1>2. /\ tag'[p] = tag[p] + 1 /\ reply'[p].status = "none" /\ ans'[p].status = 0
      /\ Waiting(p)' /\ wire' = wire \cup {new}
  BY DEF Send, TypeOK, NoReply, Waiting, OnceInv
<1>3. new.by = p /\ new.tag = tag'[p] /\ new.n = n'[p]
  BY <1>1, <1>2
<1> HIDE DEF new
<1>4. \A m \in wire' : m \in wire \/ m = new
  BY <1>2
<1> QED BY <1>1, <1>2, <1>3, <1>4, OnceHandler

\* A handler leaves a publish only when it knows what the stream did with it.
LEMMA OnceHandles ==
  ASSUME ~MayFail, OnceInv, TypeOK, TypeOK', NEW p \in Client, Handler(p)
  PROVE  OnceInv'
<1>1. CASE IncrLoad(p)
  <2>1. pc[p] = "load" /\ UNCHANGED <<streamVars, n, ans>>
    BY <1>1 DEF IncrLoad
  <2>2. ~Landed(p) /\ \A m \in wire : m.by # p
    BY <2>1, NothingOut DEF Landed, Waiting
  <2>3. ASSUME NEW v, NEW x, NEW at \in {"create", "publish"}, Send(p, req[p], n[p], v, x, at)
        PROVE  OnceInv'
    BY <2>1, <2>2, <2>3, OnceSend
  <2> QED BY <1>1, <2>3 DEF IncrLoad
<1>2. CASE CreateRecheck(p)
  <2>1. pc[p] = "recheck" /\ UNCHANGED <<streamVars, n>>
    BY <1>2 DEF CreateRecheck
  <2>2. ~Landed(p) /\ \A m \in wire : m.by # p
    BY <2>1, NothingOut DEF Landed, Waiting
  <2>3. PICK i \in 0 .. Len(log) :
          \/ Send(p, req[p], n[p], body[p], i, "publish") /\ UNCHANGED ans
          \/ WriteFails(p, i) /\ UNCHANGED <<tag, wire>>
    BY <1>2 DEF CreateRecheck
  <2>4. CASE Send(p, req[p], n[p], body[p], i, "publish") /\ UNCHANGED ans
    BY <2>1, <2>2, <2>4, OnceSend
  <2>5. CASE WriteFails(p, i) /\ UNCHANGED <<tag, wire>>
    BY <2>1, <2>2, <2>5, OnceWriteFails
  <2> QED BY <2>3, <2>4, <2>5
<1>3. CASE Acked(p)
  <2>1. Waiting(p) /\ reply[p].status = "ok" /\ log' = log /\ UNCHANGED <<n, tag, wire>>
    BY <1>3 DEF Acked, streamVars
  <2>2. PICK s \in {200, 204} : Respond(p, Answer(s, reply[p].rev, body[p]))
    BY <1>3 DEF Acked
  <2>3. Alone(p) /\ pc'[p] = "idle" /\ ans'[p].status = s
    BY <2>1, <2>2 DEF Respond, Alone, TypeOK, Answer
  <2>4. Landed(p)'
    BY <2>3 DEF Landed
  <2>5. \A m \in wire : m.by # p
    BY <2>1, NothingOut
  <2> QED BY <2>1, <2>3, <2>4, <2>5, OnceHandler
<1>4. CASE CreateFails(p)
  <2>1. /\ Waiting(p) /\ reply[p].status = "wrong" /\ log' = log /\ pc' = [pc EXCEPT ![p] = "recheck"]
        /\ UNCHANGED <<n, tag, reply, wire, ans>>
    BY <1>4 DEF CreateFails, PublishFailed, Waiting, streamVars
  <2>2. ~Landed(p) /\ \A m \in wire : m.by # p
    BY <2>1, NothingOut DEF Landed, Waiting
  <2>3. Alone(p) /\ ans'[p].status = 0
    BY <2>1 DEF Alone, TypeOK, OnceInv, Waiting
  <2> QED BY <2>1, <2>2, <2>3, OnceHandler
<1>5. CASE PublishFails(p)
  <2>1. /\ pc[p] = "publish" /\ reply[p].status = "wrong" /\ WriteFails(p, reply[p].rev)
        /\ UNCHANGED <<streamVars, n, tag, wire>>
    BY <1>5 DEF PublishFails, PublishFailed
  <2>2. ~Landed(p) /\ \A m \in wire : m.by # p
    BY <2>1, NothingOut DEF Landed, Waiting
  <2> QED BY <2>1, <2>2, OnceWriteFails
<1>6. ~IncrLoadFails(p) /\ ~CreateRecheckFails(p)
  BY DEF IncrLoadFails, CreateRecheckFails
<1> QED BY <1>1, <1>2, <1>3, <1>4, <1>5, <1>6 DEF Handler

\* The reply to the message that the stream takes off the wire reaches its handler.
LEMMA OnceServed ==
  ASSUME OnceInv, TypeOK, TypeOK', NEW m \in wire, NEW s \in {"ok", "wrong"}, NEW i,
         Reply(m, s, i), wire' = wire \ {m}, UNCHANGED <<pc, n, tag, ans>>,
         \/ log' = log /\ s = "wrong"
         \/ s = "ok" /\ \E e \in Entry : log' = Append(log, e) /\ e.by = m.by /\ e.n = m.n
  PROVE  OnceInv'
<1>1. m.by \in Client /\ Waiting(m.by) /\ reply[m.by].status = "none" /\ m.tag = tag[m.by]
      /\ m.n = n[m.by] /\ ~Landed(m.by)
  BY DEF OnceInv, TypeOK, Publish, Landed, Waiting
<1>2. reply' = [reply EXCEPT ![m.by] = [status |-> s, rev |-> i]]
  BY <1>1 DEF Reply
<1>3. reply'[m.by].status = s /\ \A q \in Client : q # m.by => reply'[q] = reply[q]
  BY <1>1, <1>2 DEF TypeOK
<1>4. \A p \in Client : Landed(p) => p # m.by /\ Landed(p)'
  BY <1>1, <1>3 DEF Landed, Waiting
<1>5. ASSUME NEW o \in wire' PROVE /\ Waiting(o.by)' /\ reply'[o.by].status = "none"
                                   /\ o.tag = tag'[o.by] /\ o.n = n'[o.by]
  <2>1. o \in wire /\ o # m /\ o.by \in Client
    BY <1>5 DEF TypeOK, Publish
  <2>2. o.by # m.by
    BY <2>1 DEF OnceInv
  <2>3. /\ Waiting(o.by) /\ reply[o.by].status = "none" /\ o.tag = tag[o.by] /\ o.n = n[o.by]
    BY <2>1 DEF OnceInv
  <2> QED BY <1>3, <2>1, <2>2, <2>3 DEF Waiting
<1>6. ASSUME NEW x \in DOMAIN log
      PROVE  /\ log[x].by \in Client /\ log[x].n <= n[log[x].by]
             /\ log[x].n = n[log[x].by] => Landed(log[x].by)
             /\ ~(log[x].by = m.by /\ log[x].n = m.n)
  <2>1. log[x] \in Entry
    BY <1>6 DEF TypeOK
  <2>2. log[x].by \in Client
    BY <2>1 DEF Entry
  <2>3. LogFits(x)
    BY <1>6 DEF OnceInv
  <2> QED BY <1>1, <2>2, <2>3 DEF LogFits
<1>7. (\A x \in DOMAIN log' : LogFits(x)') /\ NothingTwice'
  <2>1. CASE log' = log
    BY <1>4, <1>6, <2>1 DEF OnceInv, NothingTwice, LogFits
  <2>2. CASE s = "ok" /\ \E e \in Entry : log' = Append(log, e) /\ e.by = m.by /\ e.n = m.n
    <3>1. PICK e \in Entry : log' = Append(log, e) /\ e.by = m.by /\ e.n = m.n
      BY <2>2
    <3> DEFINE l == Len(log)
    <3>2. log \in Seq(Entry) /\ l \in Nat /\ DOMAIN log = 1 .. l
      BY DEF TypeOK
    <3>3. DOMAIN log' = 1 .. l + 1 /\ log'[l + 1] = e /\ \A x \in 1 .. l : log'[x] = log[x]
      <4>1. log' = Append(log, e)
        BY <3>1
      <4>2. log' \in Seq(Entry) /\ Len(log') = l + 1 /\ log'[l + 1] = e /\ LogGrows
        BY <3>2, <4>1, Appending
      <4> QED BY <3>2, <4>2 DEF LogGrows
    <3>4. Landed(m.by)'
      BY <1>1, <1>3, <2>2 DEF Landed, Waiting
    <3>5. n[m.by] \in Nat
      BY <1>1 DEF TypeOK
    <3>6. ASSUME NEW x \in DOMAIN log'
          PROVE  LogFits(x)'
      <4>1. CASE x = l + 1
        <5>1. log'[x].by = m.by /\ log'[x].n = n'[m.by]
          BY <1>1, <3>1, <3>3, <4>1
        <5>2. log'[x].n <= n'[m.by]
          BY <3>5, <5>1
        <5>3. LogFits(x)' <=> /\ log'[x].n <= n'[log'[x].by]
                              /\ log'[x].n = n'[log'[x].by] => (Landed(log[x].by))'
          BY DEF LogFits
        <5> QED BY <3>4, <5>1, <5>2, <5>3
      <4>2. CASE x \in DOMAIN log
        <5>1. log'[x] = log[x]
          BY <3>2, <3>3, <4>2
        <5>2. log[x].by \in Client /\ LogFits(x)
          BY <1>6, <4>2 DEF OnceInv
        <5> QED BY <1>4, <5>1, <5>2 DEF LogFits
      <4> QED BY <3>2, <3>3, <4>1, <4>2
    <3>7. ASSUME NEW x \in DOMAIN log', NEW y \in DOMAIN log',
                 log'[x].by = log'[y].by, log'[x].n = log'[y].n
          PROVE  x = y
      <4>1. CASE x \in DOMAIN log /\ y \in DOMAIN log
        <5>1. log'[x] = log[x] /\ log'[y] = log[y]
          BY <3>2, <3>3, <4>1
        <5> QED BY <3>7, <4>1, <5>1 DEF OnceInv, NothingTwice
      <4>2. CASE x = l + 1 /\ y = l + 1
        BY <4>2
      <4>3. ~(x \in DOMAIN log /\ y = l + 1)
        <5> SUFFICES ASSUME x \in DOMAIN log, y = l + 1 PROVE FALSE
          OBVIOUS
        <5>1. log[x].by = m.by /\ log[x].n = m.n
          BY <3>1, <3>2, <3>3, <3>7
        <5> QED BY <1>6, <5>1
      <4>4. ~(y \in DOMAIN log /\ x = l + 1)
        <5> SUFFICES ASSUME y \in DOMAIN log, x = l + 1 PROVE FALSE
          OBVIOUS
        <5>1. log[y].by = m.by /\ log[y].n = m.n
          BY <3>1, <3>2, <3>3, <3>7
        <5> QED BY <1>6, <5>1
      <4>5. \A z \in DOMAIN log' : z \in DOMAIN log \/ z = l + 1
        BY <3>2, <3>3
      <4> QED BY <4>1, <4>2, <4>3, <4>4, <4>5
    <3> QED BY <3>6, <3>7 DEF NothingTwice
  <2> QED BY <2>1, <2>2
<1>8. (\A p \in Client : pc'[p] # "idle" => ans'[p].status = 0)
      /\ \A o \in wire', q \in wire' : o.by = q.by => o = q
  BY DEF OnceInv
<1> QED BY <1>5, <1>7, <1>8 DEF OnceInv

\* Every step keeps it.
LEMMA OnceStep ==
  ASSUME ~MayFail PROVE IInv /\ OnceInv /\ [Next]_vars => OnceInv'
<1> SUFFICES ASSUME IInv, OnceInv, [Next]_vars PROVE OnceInv'
  OBVIOUS
<1>1. TypeOK /\ TypeOK'
  BY NextIInv DEF IInv
<1>2. ASSUME NEW p \in Client, Start(p) \/ Handler(p) PROVE OnceInv'
  BY <1>1, <1>2, OnceStart, OnceHandles
<1>3. ASSUME NEW m \in wire, StreamAccepts(m) PROVE OnceInv'
  <2>1. PICK i \in 0 .. Len(log) :
          Store([by |-> m.by, n |-> m.n, want |-> m.want, val |-> m.val, prev |-> i])
    BY <1>3 DEF StreamAccepts
  <2> DEFINE e == [by |-> m.by, n |-> m.n, want |-> m.want, val |-> m.val, prev |-> i]
  <2>2. m \in Publish /\ i \in Nat
    BY <1>1 DEF TypeOK
  <2>3. e \in Entry /\ e.by = m.by /\ e.n = m.n /\ log' = Append(log, e)
    BY <2>1, <2>2 DEF Publish, Entry, Store
  <2> HIDE DEF e
  <2>4. Reply(m, "ok", Len(log) + 1) /\ wire' = wire \ {m} /\ UNCHANGED <<pc, n, tag, ans>>
    BY <1>3 DEF StreamAccepts
  <2> QED BY <1>1, <2>3, <2>4, OnceServed
<1>4. ASSUME NEW m \in wire, StreamRefuses(m) PROVE OnceInv'
  <2>1. PICK i \in 0 .. Len(log) : Reply(m, "wrong", i)
    BY <1>4 DEF StreamRefuses
  <2>2. wire' = wire \ {m} /\ log' = log /\ UNCHANGED <<pc, n, tag, ans>>
    BY <1>4 DEF StreamRefuses, streamVars
  <2> QED BY <1>1, <2>1, <2>2, OnceServed
<1>5. \A m \in wire : ~Lose(m)
  BY DEF Lose
<1>6. CASE log' = log /\ UNCHANGED <<handlerVars, wire>>
  BY <1>6 DEF handlerVars, OnceInv, NothingTwice, LogFits, Landed, Waiting
<1>7. StreamStep \/ RefreshMirrors \/ UNCHANGED vars => log' = log /\ UNCHANGED <<handlerVars, wire>>
  BY DEF StreamStep, RefreshMirrors, Replicate, Expire, vars, streamVars
<1> QED BY <1>2, <1>3, <1>4, <1>5, <1>6, <1>7 DEF Next, Server

\* So it is an invariant of a world without failures.
LEMMA OnceAlways ==
  ASSUME ~MayFail PROVE Spec => []OnceInv
<1>1. Init => OnceInv
  BY DEF Init, StreamInit, OnceInv, NothingTwice
<1> QED BY <1>1, OnceStep, Invariance, PTL DEF Spec

(* Without failures a write that was refused left nothing behind, neither stored nor on
   its way. *)
THEOREM RefusalsLeaveNothing ==
  ASSUME ~MayFail PROVE Spec => []RefusalHasNoEffect
<1>1. OnceInv => RefusalHasNoEffect
  <2> SUFFICES ASSUME OnceInv, NEW p \in Client, ans[p].status \in {409, 412, 500}
               PROVE  /\ \A i \in DOMAIN log : ~(log[i].by = p /\ log[i].n = n[p])
                      /\ \A m \in wire : ~(m.by = p /\ m.n = n[p])
    BY DEF RefusalHasNoEffect
  <2>1. pc[p] = "idle" /\ ans[p].status \notin {200, 204}
    BY DEF OnceInv
  <2>2. ~Landed(p) /\ ~Waiting(p)
    BY <2>1 DEF Landed, Waiting
  <2> QED BY <2>2 DEF OnceInv, LogFits
<1> QED BY <1>1, OnceAlways, PTL

-----------------------------------------------------------------------------
(* With failures.  A message may outlive its handler and its answer, but a handler sends
   again under the same number only for what kvIncr or kv.Create repeats. *)

\* Messages x and y are of one request, and its handler publishes only once.
SameShot(x, y) == x.by = y.by /\ x.n = y.n /\ (OneShot(x.want) \/ OneShot(y.want))

\* Message x is of its client's present request or of an earlier one.
Current(x) == x.n <= n[x.by] /\ (x.n = n[x.by] => x.want = req[x.by])

\* The same of stored message i.
LogCurrent(i) ==
    log[i].n <= n[log[i].by] /\ (log[i].n = n[log[i].by] => log[i].want = req[log[i].by])

\* Where a handler is that publishes under a number it may have published under before.
Repeats(p) == pc[p] \in {"load", "create", "recheck"}

ShotInv ==
    /\ \A m \in wire : Current(m)
    /\ \A i \in DOMAIN log : LogCurrent(i)
    /\ \A p \in Client : Repeats(p) => ~OneShot(req[p])
    /\ \A m, o \in wire : SameShot(m, o) => m = o
    /\ \A m \in wire, i \in DOMAIN log : ~SameShot(m, log[i])
    /\ \A i, j \in DOMAIN log : SameShot(log[i], log[j]) => i = j

\* The others' requests stay as they are.
Steady(p) ==
    \A q \in Client \ {p} : pc'[q] = pc[q] /\ n'[q] = n[q] /\ req'[q] = req[q]

\* A handler's step, whatever it sends.
LEMMA ShotHandler ==
  ASSUME ShotInv, TypeOK, TypeOK', NEW p \in Client, Steady(p), log' = log,
         \A m \in wire' : m \in wire \/ (/\ m.by = p /\ m.n = n'[p] /\ m.want = req'[p]
                                         /\ n'[p] = n[p] => ~OneShot(m.want)),
         \A m, o \in wire' \ wire : m = o,
         n'[p] = n[p] + 1 \/ (n'[p] = n[p] /\ req'[p] = req[p]),
         Repeats(p)' => ~OneShot(req'[p])
  PROVE  ShotInv'
<1>1. n[p] \in Nat /\ n'[p] \in Nat /\ (\A m \in wire : m.by \in Client /\ m.n \in Nat)
  BY DEF TypeOK, Publish
<1>2. \A i \in DOMAIN log : log[i].by \in Client /\ log[i].n \in Nat
  <2> SUFFICES ASSUME NEW i \in DOMAIN log PROVE log[i].by \in Client /\ log[i].n \in Nat
    OBVIOUS
  <2>1. log[i] \in Entry
    BY DEF TypeOK
  <2> QED BY <2>1 DEF Entry
<1>3. ASSUME NEW m \in wire' PROVE Current(m)'
  <2>1. CASE m \in wire /\ m.by # p
    BY <1>1, <2>1 DEF ShotInv, Steady, Current
  <2>2. CASE m \in wire /\ m.by = p
    BY <1>1, <2>2 DEF ShotInv, Current
  <2>3. CASE m \notin wire
    BY <1>1, <2>3 DEF Current
  <2> QED BY <2>1, <2>2, <2>3
<1>4. ASSUME NEW i \in DOMAIN log' PROVE LogCurrent(i)'
  <2>1. i \in DOMAIN log /\ log'[i] = log[i] /\ LogCurrent(i)
    BY DEF ShotInv
  <2>2. CASE log[i].by # p
    BY <1>2, <2>1, <2>2 DEF Steady, LogCurrent
  <2>3. CASE log[i].by = p
    BY <1>1, <1>2, <2>1, <2>3 DEF LogCurrent
  <2> QED BY <2>2, <2>3
<1>5. ASSUME NEW q \in Client, Repeats(q)' PROVE ~OneShot(req'[q])
  <2>1. CASE q = p
    BY <1>5, <2>1
  <2>2. CASE q # p
    BY <1>5, <2>2 DEF ShotInv, Steady, Repeats
  <2> QED BY <2>1, <2>2
<1>6. ASSUME NEW m \in wire', m \notin wire,
             NEW x, x.by = p => x.n \in Nat /\ x.n <= n[p] /\ (x.n = n[p] => x.want = req[p])
      PROVE  ~SameShot(m, x) /\ ~SameShot(x, m)
  <2>1. m.by = p /\ m.n = n'[p] /\ m.want = req'[p] /\ (n'[p] = n[p] => ~OneShot(m.want))
    BY <1>6
  <2>2. CASE n'[p] = n[p] + 1
    BY <1>1, <1>6, <2>1, <2>2 DEF SameShot
  <2>3. CASE n'[p] = n[p] /\ req'[p] = req[p]
    BY <1>6, <2>1, <2>3 DEF SameShot
  <2> QED BY <2>2, <2>3
<1>7. ASSUME NEW m \in wire', NEW o \in wire', SameShot(m, o) PROVE m = o
  <2>1. CASE m \in wire /\ o \in wire
    BY <1>7, <2>1 DEF ShotInv
  <2>2. CASE m \notin wire /\ o \notin wire
    BY <2>2
  <2>3. \A x \in wire : x.by = p => x.n \in Nat /\ x.n <= n[p] /\ (x.n = n[p] => x.want = req[p])
    BY <1>1 DEF ShotInv, Current
  <2>4. CASE m \in wire /\ o \notin wire
    BY <1>6, <1>7, <2>3, <2>4
  <2>5. CASE m \notin wire /\ o \in wire
    BY <1>6, <1>7, <2>3, <2>5
  <2> QED BY <2>1, <2>2, <2>4, <2>5
<1>8. ASSUME NEW m \in wire', NEW i \in DOMAIN log' PROVE ~SameShot(m, log'[i])
  <2>1. i \in DOMAIN log /\ log'[i] = log[i] /\ LogCurrent(i)
    BY DEF ShotInv
  <2>2. CASE m \in wire
    BY <2>1, <2>2 DEF ShotInv
  <2>3. CASE m \notin wire
    <3>1. log[i].by = p => /\ log[i].n \in Nat /\ log[i].n <= n[p]
                           /\ log[i].n = n[p] => log[i].want = req[p]
      BY <1>2, <2>1 DEF LogCurrent
    <3>2. ~SameShot(m, log[i])
      BY <1>6, <2>3, <3>1
    <3> QED BY <2>1, <3>2
  <2> QED BY <2>2, <2>3
<1>9. \A i, j \in DOMAIN log' : SameShot(log'[i], log'[j]) => i = j
  BY DEF ShotInv
<1> QED BY <1>3, <1>4, <1>5, <1>7, <1>8, <1>9 DEF ShotInv

\* A request that begins counts as a new one.
LEMMA ShotStart ==
  ASSUME ShotInv, TypeOK, TypeOK', NEW p \in Client, Start(p)
  PROVE  ShotInv'
<1>1. n' = [n EXCEPT ![p] = @ + 1] /\ log' = log /\ \E r : req' = [req EXCEPT ![p] = r]
  BY ZenonT(30) DEF Start, KvGet, KvGetRevision, ReadFails, Reads, KvPut, KvCreate, KvUpdate, KvDelete, KvIncr,
                    AskAndSend, Ask, streamVars
<1>2. n'[p] = n[p] + 1 /\ n'[p] # n[p]
  BY <1>1 DEF TypeOK
<1>3. ASSUME NEW at, pc' = [pc EXCEPT ![p] = at] PROVE Steady(p) /\ pc'[p] = at
  BY <1>1, <1>3 DEF Steady, TypeOK
<1>4. ASSUME NEW a, Respond(p, a), UNCHANGED wire PROVE ShotInv'
  <2>1. pc' = [pc EXCEPT ![p] = "idle"]
    BY <1>4 DEF Respond
  <2>2. Steady(p) /\ pc'[p] = "idle"
    BY <1>3, <2>1
  <2>3. Steady(p) /\ ~Repeats(p)'
    BY <2>2 DEF Repeats
  <2> QED BY <1>1, <1>2, <1>4, <2>3, ShotHandler
<1>5. ASSUME NEW r, NEW x, NEW at \in {"create", "publish"}, AskAndSend(p, r, x, at),
             at = "create" => ~OneShot(r)
      PROVE  ShotInv'
  <2> DEFINE new == [by |-> p, n |-> n[p] + 1, tag |-> tag[p] + 1, want |-> r, val |-> r.val,
                     exp |-> x]
  <2>1. pc' = [pc EXCEPT ![p] = at] /\ wire' = wire \cup {new} /\ req' = [req EXCEPT ![p] = r]
    BY <1>5 DEF AskAndSend, Send, Ask
  <2>2. Steady(p) /\ (Repeats(p)' => at = "create") /\ req'[p] = r
    BY <1>3, <2>1 DEF Repeats, TypeOK
  <2>3. new.by = p /\ new.n = n'[p] /\ new.want = req'[p]
    BY <1>2, <2>2
  <2> HIDE DEF new
  <2>4. \A m \in wire' : m \in wire \/ m = new
    BY <2>1
  <2> QED BY <1>1, <1>2, <1>5, <2>2, <2>3, <2>4, ShotHandler
<1>6. CASE KvIncr(p)
  <2>1. PICK k \in Key, d \in Deltas :
          Ask(p, [op |-> "incr", key |-> k, val |-> d, rev |-> 0, ttl |-> FALSE])
    BY <1>6 DEF KvIncr
  <2>2. req'[p].op = "incr"
    BY <2>1 DEF Ask, TypeOK
  <2>3. ~OneShot(req'[p]) /\ Steady(p) /\ wire' = wire
    BY <1>3, <1>6, <2>2 DEF KvIncr, OneShot
  <2> QED BY <1>1, <1>2, <2>3, ShotHandler
<1>7. CASE KvGet(p) \/ KvGetRevision(p) \/ ReadFails(p)
  BY <1>4, <1>7 DEF KvGet, KvGetRevision, ReadFails, Reads
<1>8. CASE KvPut(p) \/ KvUpdate(p) \/ KvDelete(p)
  BY <1>5, <1>8 DEF KvPut, KvUpdate, KvDelete
<1>9. CASE KvCreate(p)
  <2>1. PICK k \in Key, v \in Bodies, t \in Ttl :
          AskAndSend(p, [op |-> "create", key |-> k, val |-> v, rev |-> 0, ttl |-> t],
                     0, IF t THEN "publish" ELSE "create")
    BY <1>9 DEF KvCreate
  <2>2. (IF t THEN "publish" ELSE "create") = "create" =>
          ~OneShot([op |-> "create", key |-> k, val |-> v, rev |-> 0, ttl |-> t])
    BY DEF OneShot
  <2>3. (IF t THEN "publish" ELSE "create") \in {"create", "publish"}
    OBVIOUS
  <2> QED BY <1>5, <2>1, <2>2, <2>3
<1> QED BY <1>6, <1>7, <1>8, <1>9 DEF Start

\* A handler that sends again does so for kvIncr or kv.Create.
LEMMA ShotHandles ==
  ASSUME HandlerInv, ShotInv, TypeOK, TypeOK', NEW p \in Client, Handler(p)
  PROVE  ShotInv'
<1>1. log' = log /\ UNCHANGED <<n, req>>
  BY DEF Handler, IncrLoad, IncrLoadFails, CreateRecheck, CreateRecheckFails, Acked, CreateFails,
         PublishFails, streamVars
<1>2. ASSUME NEW at, pc' = [pc EXCEPT ![p] = at] PROVE Steady(p) /\ pc'[p] = at
  BY <1>1, <1>2 DEF Steady, TypeOK
<1>3. ASSUME NEW at, pc' = [pc EXCEPT ![p] = at], UNCHANGED wire,
             at \in {"idle"} \/ ~OneShot(req[p])
      PROVE  ShotInv'
  <2>1. Steady(p) /\ (Repeats(p)' => ~OneShot(req'[p]))
    BY <1>1, <1>2, <1>3 DEF Repeats
  <2> QED BY <1>1, <1>3, <2>1, ShotHandler
<1>4. ASSUME NEW v, NEW x, NEW at, Send(p, req[p], n[p], v, x, at), ~OneShot(req[p])
      PROVE  ShotInv'
  <2> DEFINE new == [by |-> p, n |-> n[p], tag |-> tag[p] + 1, want |-> req[p], val |-> v,
                     exp |-> x]
  <2>1. Steady(p) /\ wire' = wire \cup {new}
    BY <1>2, <1>4 DEF Send
  <2>2. new.by = p /\ new.n = n'[p] /\ new.want = req'[p]
    BY <1>1
  <2> HIDE DEF new
  <2>3. \A m \in wire' : m \in wire \/ m = new
    BY <2>1
  <2> QED BY <1>1, <1>4, <2>1, <2>2, <2>3, ShotHandler
<1>5. ASSUME NEW i, WriteFails(p, i), UNCHANGED wire PROVE ShotInv'
  <2>1. CASE req[p].op = "incr" /\ pc' = [pc EXCEPT ![p] = "load"]
    <3>1. ~OneShot(req[p])
      BY <2>1 DEF OneShot
    <3> QED BY <1>3, <1>5, <2>1, <3>1
  <2>2. CASE pc' = [pc EXCEPT ![p] = "idle"]
    BY <1>3, <1>5, <2>2
  <2> QED BY <1>5, <2>1, <2>2 DEF WriteFails, Respond
<1>6. pc[p] \in {"load", "create", "recheck"} => ~OneShot(req[p])
  BY DEF ShotInv, Repeats
<1>7. CASE IncrLoad(p)
  BY <1>4, <1>6, <1>7 DEF IncrLoad
<1>8. CASE CreateRecheck(p)
  <2>1. PICK i \in 0 .. Len(log) :
          \/ Send(p, req[p], n[p], body[p], i, "publish")
          \/ WriteFails(p, i) /\ UNCHANGED wire
    BY <1>8 DEF CreateRecheck
  <2>2. ~OneShot(req[p])
    BY <1>6, <1>8 DEF CreateRecheck
  <2> QED BY <1>4, <1>5, <2>1, <2>2
<1>9. CASE CreateFails(p)
  <2>1. pc' = [pc EXCEPT ![p] = "recheck"] /\ UNCHANGED wire /\ ~OneShot(req[p])
    BY <1>6, <1>9 DEF CreateFails
  <2> QED BY <1>3, <2>1
<1>10. CASE IncrLoadFails(p) \/ Acked(p)
  <2>1. pc' = [pc EXCEPT ![p] = "idle"] /\ UNCHANGED wire
    BY <1>10 DEF IncrLoadFails, Acked, Respond
  <2> QED BY <1>3, <2>1
<1>11. CASE CreateRecheckFails(p) \/ PublishFails(p)
  BY <1>5, <1>11 DEF CreateRecheckFails, PublishFails
<1> QED BY <1>7, <1>8, <1>9, <1>10, <1>11 DEF Handler

\* Taking messages off the wire leaves the others as they were.
LEMMA ShotShrinks ==
  ASSUME ShotInv, log' = log, wire' \subseteq wire, UNCHANGED <<pc, n, req>>
  PROVE  ShotInv'
BY DEF ShotInv, Current, LogCurrent, Repeats

\* The stream stores a message that it takes off the wire.
LEMMA ShotStored ==
  ASSUME ShotInv, TypeOK, NEW m \in wire, NEW e \in Entry, log' = Append(log, e),
         wire' = wire \ {m}, UNCHANGED <<pc, n, req>>,
         e.by = m.by, e.n = m.n, e.want = m.want
  PROVE  ShotInv'
<1> DEFINE l == Len(log)
<1>1. log \in Seq(Entry) /\ l \in Nat /\ DOMAIN log = 1 .. l
  BY DEF TypeOK
<1>2. DOMAIN log' = 1 .. l + 1 /\ log'[l + 1] = e /\ \A i \in 1 .. l : log'[i] = log[i]
  <2>1. log' = Append(log, e)
    OBVIOUS
  <2>2. log' \in Seq(Entry) /\ Len(log') = l + 1 /\ log'[l + 1] = e /\ LogGrows
    BY <1>1, <2>1, Appending
  <2> QED BY <1>1, <2>2 DEF LogGrows
<1>3. \A i \in DOMAIN log' : \/ i \in DOMAIN log /\ log'[i] = log[i]
                             \/ i = l + 1 /\ log'[i] = e
  BY <1>1, <1>2
<1> HIDE DEF l
<1>4. ASSUME NEW x PROVE /\ SameShot(e, x) => SameShot(m, x)
                         /\ SameShot(x, e) => SameShot(m, x)
  BY DEF SameShot
<1>5. \A o \in wire' : Current(o)'
  BY DEF ShotInv, Current
<1>6. ASSUME NEW i \in DOMAIN log' PROVE LogCurrent(i)'
  <2>1. CASE i \in DOMAIN log /\ log'[i] = log[i]
    BY <2>1 DEF ShotInv, LogCurrent
  <2>2. CASE log'[i] = e
    BY <2>2 DEF ShotInv, LogCurrent, Current
  <2> QED BY <1>3, <2>1, <2>2
<1>7. ASSUME NEW o \in wire', NEW i \in DOMAIN log' PROVE ~SameShot(o, log'[i])
  <2>1. CASE i \in DOMAIN log /\ log'[i] = log[i]
    BY <2>1 DEF ShotInv
  <2>2. CASE log'[i] = e
    BY <1>4, <2>2 DEF ShotInv
  <2> QED BY <1>3, <2>1, <2>2
<1>8. ASSUME NEW i \in DOMAIN log', NEW j \in DOMAIN log', SameShot(log'[i], log'[j])
      PROVE  i = j
  <2>1. CASE i \in DOMAIN log /\ log'[i] = log[i] /\ j \in DOMAIN log /\ log'[j] = log[j]
    BY <1>8, <2>1 DEF ShotInv
  <2>2. \A k \in DOMAIN log : ~SameShot(m, log[k])
    BY DEF ShotInv
  <2>3. ~(i \in DOMAIN log /\ log'[i] = log[i] /\ j = l + 1 /\ log'[j] = e)
    BY <1>4, <1>8, <2>2
  <2>4. ~(j \in DOMAIN log /\ log'[j] = log[j] /\ i = l + 1 /\ log'[i] = e)
    BY <1>4, <1>8, <2>2
  <2> QED BY <1>3, <2>1, <2>3, <2>4
<1>9. \A p \in Client : Repeats(p)' => ~OneShot(req'[p])
  BY DEF ShotInv, Repeats
<1>10. \A o, q \in wire' : SameShot(o, q) => o = q
  BY DEF ShotInv
<1> QED BY <1>5, <1>6, <1>7, <1>8, <1>9, <1>10 DEF ShotInv

\* Every step keeps it.
LEMMA ShotStep == IInv /\ ShotInv /\ [Next]_vars => ShotInv'
<1> SUFFICES ASSUME IInv, ShotInv, [Next]_vars PROVE ShotInv'
  OBVIOUS
<1>1. TypeOK /\ TypeOK' /\ HandlerInv
  BY NextIInv DEF IInv
<1>2. ASSUME NEW p \in Client, Start(p) \/ Handler(p) PROVE ShotInv'
  BY <1>1, <1>2, ShotStart, ShotHandles
<1>3. ASSUME NEW m \in wire, StreamAccepts(m) PROVE ShotInv'
  <2>1. PICK i \in 0 .. Len(log) :
          Store([by |-> m.by, n |-> m.n, want |-> m.want, val |-> m.val, prev |-> i])
    BY <1>3 DEF StreamAccepts
  <2> DEFINE e == [by |-> m.by, n |-> m.n, want |-> m.want, val |-> m.val, prev |-> i]
  <2>2. m \in Publish /\ i \in Nat
    BY <1>1 DEF TypeOK
  <2>3. e \in Entry /\ e.by = m.by /\ e.n = m.n /\ e.want = m.want /\ log' = Append(log, e)
    BY <2>1, <2>2 DEF Publish, Entry, Store
  <2> HIDE DEF e
  <2>4. wire' = wire \ {m} /\ UNCHANGED <<pc, n, req>>
    BY <1>3 DEF StreamAccepts
  <2> QED BY <1>1, <2>3, <2>4, ShotStored
<1>4. ASSUME NEW m \in wire, StreamRefuses(m) \/ Lose(m) PROVE ShotInv'
  <2>1. wire' \subseteq wire /\ log' = log /\ UNCHANGED <<pc, n, req>>
    BY <1>4 DEF StreamRefuses, Lose, streamVars, handlerVars
  <2> QED BY <2>1, ShotShrinks
<1>5. CASE StreamStep \/ RefreshMirrors \/ UNCHANGED vars
  <2>1. wire' = wire /\ log' = log /\ UNCHANGED <<pc, n, req>>
    BY <1>5 DEF StreamStep, RefreshMirrors, Replicate, Expire, vars, streamVars, handlerVars
  <2> QED BY <2>1, ShotShrinks
<1> QED BY <1>2, <1>3, <1>4, <1>5 DEF Next, Server

\* So it is an invariant, with failures or without.
LEMMA ShotAlways == Spec => []ShotInv
<1>1. Init => ShotInv
  BY DEF Init, StreamInit, ShotInv, Repeats
<1> QED BY <1>1, ShotStep, Invariance, PTL DEF Spec

(* No request is stored twice, whatever the fates of its messages and its answers:
   without failures none at all, with them none that its handler publishes once. *)
THEOREM NothingAppliedTwice == Spec => []AppliedOnce
<1>1. MayFail /\ ShotInv => AppliedOnce
  BY DEF ShotInv, SameShot, AppliedOnce
<1>2. ~MayFail /\ OnceInv => AppliedOnce
  BY DEF OnceInv, NothingTwice, AppliedOnce
<1>3. CASE MayFail
  <2>1. ShotInv => AppliedOnce
    BY <1>1, <1>3
  <2> QED BY <2>1, ShotAlways, PTL
<1>4. CASE ~MayFail
  <2>1. OnceInv => AppliedOnce
    BY <1>2, <1>4
  <2>2. Spec => []OnceInv
    BY <1>4, OnceAlways
  <2> QED BY <2>1, <2>2, PTL
<1> QED BY <1>3, <1>4
-----------------------------------------------------------------------------
(* The service.  A client cannot tell the handlers, their messages on the wire and the
   mirrors from one store that applies its requests one at a time. *)

\* Message j is the newest of its key that was ever stored.
IsNewest(j) == \A h \in DOMAIN log : h > j => KeyOf(h) # KeyOf(j)

\* The source still has the newest message of every key, unless its time was up.
HeldInv ==
    \A j \in DOMAIN log : IsNewest(j) /\ ~log[j].want.ttl => j \in held[Source]

\* Storing a message evicts none of another key, and the one it evicts is not the newest.
LEMMA HeldStored ==
  ASSUME HeldInv, TypeOK, NEW e \in Entry, Store(e)
  PROVE  HeldInv'
<1> DEFINE l == Len(log)
<1>1. log \in Seq(Entry) /\ l \in Nat /\ DOMAIN log = 1 .. l /\ Source \in Replica
  BY DEF TypeOK, Replica
<1>2. DOMAIN log' = 1 .. l + 1 /\ log'[l + 1] = e /\ \A i \in 1 .. l : log'[i] = log[i]
  <2>1. log' = Append(log, e)
    BY DEF Store
  <2>2. log' \in Seq(Entry) /\ Len(log') = l + 1 /\ log'[l + 1] = e /\ LogGrows
    BY <1>1, <2>1, Appending
  <2> QED BY <1>1, <2>2 DEF LogGrows
<1>3. held'[Source] = KeptWith(Source, e.want.key, l + 1)
  BY <1>1 DEF Store, TypeOK
<1> HIDE DEF l
<1> SUFFICES ASSUME NEW j \in DOMAIN log', IsNewest(j)', ~log'[j].want.ttl
             PROVE  j \in held'[Source]
  BY DEF HeldInv
<1>4. CASE j = l + 1
  BY <1>3, <1>4 DEF KeptWith
<1>5. CASE j \in 1 .. l
  <2>1. log'[j] = log[j] /\ l + 1 > j /\ l + 1 \in DOMAIN log'
    BY <1>1, <1>2, <1>5
  <2>2. KeyOf(j) # e.want.key
    BY <1>2, <2>1 DEF IsNewest, KeyOf
  <2>3. IsNewest(j)
    BY <1>1, <1>2, <2>1 DEF IsNewest, KeyOf
  <2>4. j \in held[Source]
    BY <1>1, <1>5, <2>1, <2>3 DEF HeldInv
  <2> QED BY <1>3, <2>2, <2>4 DEF KeptWith
<1> QED BY <1>1, <1>2, <1>4, <1>5

\* Every step keeps it.
LEMMA HeldStep == IInv /\ HeldInv /\ [Next]_vars => HeldInv'
<1> SUFFICES ASSUME IInv, HeldInv, [Next]_vars PROVE HeldInv'
  OBVIOUS
<1>1. TypeOK
  BY DEF IInv
<1>2. ASSUME log' = log, held[Source] \subseteq held'[Source] PROVE HeldInv'
  BY <1>2 DEF HeldInv, IsNewest, KeyOf
<1>3. ASSUME UNCHANGED streamVars PROVE HeldInv'
  BY <1>2, <1>3 DEF streamVars
<1>4. ASSUME NEW m \in wire, StreamAccepts(m) PROVE HeldInv'
  <2>1. PICK i \in 0 .. Len(log) : Store(Stored(m, i))
    BY <1>4 DEF StreamAccepts, Stored
  <2>2. m \in Publish /\ Stored(m, i) \in Entry
    BY <1>1 DEF TypeOK, Stored, Publish, Entry
  <2> QED BY <1>1, <2>1, <2>2, HeldStored
<1>5. ASSUME NEW m \in Mirror, Replicate(m) PROVE HeldInv'
  <2>1. held'[Source] = held[Source] /\ log' = log
    BY <1>1, <1>5, StreamAssumption DEF Replicate, TypeOK, Replica
  <2> QED BY <1>2, <2>1
<1>6. ASSUME NEW r \in Replica, Expire(r) PROVE HeldInv'
  <2>1. PICK i \in held[r] : log[i].want.ttl /\ held' = [held EXCEPT ![r] = @ \ {i}]
    BY <1>6 DEF Expire
  <2>2. log' = log
    BY <1>6 DEF Expire
  <2>3. \A j \in held[Source] : j \in held'[Source] \/ log[j].want.ttl
    BY <1>1, <2>1 DEF TypeOK, Replica
  <2> QED BY <2>2, <2>3 DEF HeldInv, IsNewest, KeyOf
<1>7. ASSUME NEW p \in Client, Start(p) \/ Handler(p) PROVE UNCHANGED streamVars
  <2>1. CASE Start(p)
    BY <2>1 DEF Start, KvGet, KvGetRevision, ReadFails, Reads, KvPut, KvCreate, KvUpdate, KvDelete, KvIncr, AskAndSend
  <2>2. CASE Handler(p)
    BY <2>2 DEF Handler, IncrLoad, IncrLoadFails, CreateRecheck, CreateRecheckFails, Acked,
                CreateFails, PublishFails
  <2> QED BY <1>7, <2>1, <2>2
<1>8. ASSUME NEW m \in wire, StreamRefuses(m) \/ Lose(m) PROVE UNCHANGED streamVars
  BY <1>8 DEF StreamRefuses, Lose
<1>9. CASE RefreshMirrors \/ UNCHANGED vars
  BY <1>3, <1>9 DEF RefreshMirrors, vars
<1> QED BY <1>3, <1>4, <1>5, <1>6, <1>7, <1>8, <1>9 DEF Next, Server, StreamStep

\* What the refinement rests on.
ServiceInv == IInv /\ HeldInv /\ ShotInv /\ (~MayFail => OnceInv)

\* One client is told something.
LEMMA ToldChanges ==
  ASSUME TypeOK, NEW p \in Client, NEW a, ans' = [ans EXCEPT ![p] = a]
  PROVE  Told' = [Told EXCEPT ![p] = Seen(a)]
<1>1. \A q \in Client : ans'[q] = IF q = p THEN a ELSE ans[q]
  BY DEF TypeOK
<1> QED BY <1>1 DEF Told, Seen, TypeOK

\* A handler goes on, or sends another publish: its client sees nothing of it.
LEMMA GoesOn ==
  ASSUME TypeOK, NEW p \in Client, pc[p] # "idle",
         NEW at, at # "idle", pc' = [pc EXCEPT ![p] = at], UNCHANGED <<log, n, req, ans>>,
         wire' = wire \/ \E m : wire' = wire \cup {m} /\ CallOf(m) = CallBy(p)
  PROVE  UNCHANGED Service!serviceVars
<1>1. Active' = Active /\ p \in Active
  BY DEF Active, TypeOK
<1>2. \A q \in Active : CallBy(q)' = CallBy(q)
  BY DEF CallBy
<1>3. Told' = Told
  BY DEF Told
<1>4. CASE wire' = wire
  BY <1>1, <1>2, <1>3, <1>4 DEF Pending, Service!serviceVars
<1>5. ASSUME NEW m, wire' = wire \cup {m}, CallOf(m) = CallBy(p)
      PROVE  UNCHANGED Service!serviceVars
  <2>1. Pending' = Pending
    BY <1>1, <1>2, <1>5 DEF Pending
  <2> QED BY <1>1, <1>3, <2>1 DEF Service!serviceVars
<1> QED BY <1>4, <1>5

\* A handler answers: nothing of its call is left unless calls may fail.
LEMMA Ends ==
  ASSUME TypeOK, NEW p \in Client, pc[p] # "idle", NEW a, Respond(p, a),
         UNCHANGED <<log, n, req, wire>>, ~MayFail => \A m \in wire : m.by # p
  PROVE  /\ Service!Done(p)
         /\ Told' = [Told EXCEPT ![p] = Seen(a)]
<1>1. p \in Active /\ Active' = Active \ {p}
  BY DEF Active, Respond, TypeOK
<1>2. \A q \in Active : CallBy(q)' = CallBy(q) /\ (q # p => CallBy(q) # CallBy(p))
  BY DEF CallBy
<1>3. ASSUME \E m \in wire : CallOf(m) = CallBy(p) PROVE Service!Done(p)
  <2>1. MayFail
    BY <1>3 DEF CallOf, CallBy
  <2>2. Pending' = Pending
    BY <1>1, <1>2, <1>3 DEF Pending
  <2> QED BY <1>1, <2>1, <2>2 DEF Service!Done
<1>4. ASSUME ~ \E m \in wire : CallOf(m) = CallBy(p) PROVE Service!Done(p)
  <2>1. Pending' = Pending \ {CallBy(p)}
    BY <1>1, <1>2, <1>4 DEF Pending
  <2> QED BY <1>1, <2>1 DEF Service!Done, Service!Call, CallBy
<1>5. Told' = [Told EXCEPT ![p] = Seen(a)]
  BY ToldChanges DEF Respond
<1> QED BY <1>3, <1>4, <1>5

\* A refusal, and without failures one that left nothing behind.
LEMMA Refuses ==
  ASSUME ServiceInv, NEW p \in Client, pc[p] # "idle", NEW s \in {409, 412, 500}, NEW i,
         Respond(p, Answer(s, i, NoVal)), UNCHANGED <<log, n, req, wire>>,
         ~MayFail => ~Landed(p) /\ \A m \in wire : m.by # p
  PROVE  Service!Refuse(p)
<1>1. /\ Service!Done(p)
      /\ Told' = [Told EXCEPT ![p] = Answer(s, 0, NoVal)]
  <2> DEFINE a == Answer(s, i, NoVal)
  <2>1. Seen(a) = Answer(s, 0, NoVal) /\ Respond(p, a)
    BY DEF Answer, Seen
  <2> HIDE DEF a
  <2> QED BY <2>1, Ends DEF ServiceInv, IInv
<1>2. ~MayFail => ~Service!Stored(Service!Call(p))
  BY DEF ServiceInv, OnceInv, LogFits, Service!Stored, Service!Call
<1>3. s \in Service!Refusals /\ Told' = [Told EXCEPT ![p] = Service!Answer(s, 0, NoVal)]
  BY <1>1 DEF Service!Refusals, Service!Answer, Answer
<1>4. \E c \in Service!Refusals : Told' = [Told EXCEPT ![p] = Service!Answer(c, 0, NoVal)]
  BY ONLY <1>3
<1> QED BY <1>1, <1>2, <1>4 DEF Service!Refuse

\* A failed write: kvIncr goes on, the others refuse.
LEMMA WriteFailsServes ==
  ASSUME ServiceInv, NEW p \in Client, pc[p] # "idle", NEW i, WriteFails(p, i),
         UNCHANGED <<log, n, req, wire>>,
         ~MayFail => ~Landed(p) /\ \A m \in wire : m.by # p
  PROVE  Service!Refuse(p) \/ UNCHANGED Service!serviceVars
<1>1. CASE pc' = [pc EXCEPT ![p] = "load"] /\ ans' = ans
  BY <1>1, GoesOn DEF ServiceInv, IInv
<1>2. ASSUME NEW s \in {409, 412, 500}, Respond(p, Answer(s, i, NoVal)) PROVE Service!Refuse(p)
  BY <1>2, Refuses
<1> QED BY <1>1, <1>2 DEF WriteFails

\* The steps of a handler that is at work.
LEMMA HandlerServes ==
  ASSUME ServiceInv, NEW p \in Client, Handler(p)
  PROVE  Service!Succeed(p) \/ Service!Refuse(p) \/ UNCHANGED Service!serviceVars
<1>1. TypeOK /\ ReplyInv /\ HandlerInv /\ ShotInv
  BY DEF ServiceInv, IInv
<1>2. pc[p] # "idle" /\ log' = log /\ UNCHANGED <<n, req>>
  BY DEF Handler, IncrLoad, IncrLoadFails, CreateRecheck, CreateRecheckFails, Acked, CreateFails,
         PublishFails, streamVars, Waiting
<1>3. ASSUME NEW v, NEW x, NEW at \in {"create", "publish"}, Send(p, req[p], n[p], v, x, at),
             ans' = ans
      PROVE  UNCHANGED Service!serviceVars
  <2> DEFINE new == [by |-> p, n |-> n[p], tag |-> tag[p] + 1, want |-> req[p], val |-> v,
                     exp |-> x]
  <2>1. wire' = wire \cup {new} /\ CallOf(new) = CallBy(p) /\ pc' = [pc EXCEPT ![p] = at]
    BY <1>3 DEF Send, CallOf, CallBy
  <2> HIDE DEF new
  <2> QED BY <1>1, <1>2, <1>3, <2>1, GoesOn
<1>4. ~MayFail /\ (~Waiting(p) \/ reply[p].status = "wrong") =>
         ~Landed(p) /\ \A m \in wire : m.by # p
  <2>1. ~MayFail /\ (~Waiting(p) \/ reply[p].status = "wrong") => \A m \in wire : m.by # p
    BY NothingOut DEF ServiceInv
  <2> QED BY <1>2, <2>1 DEF Landed
<1>5. CASE IncrLoad(p)
  BY <1>3, <1>5 DEF IncrLoad
<1>6. CASE IncrLoadFails(p)
  <2>1. Respond(p, Answer(500, 0, NoVal)) /\ MayFail /\ UNCHANGED wire
    BY <1>6 DEF IncrLoadFails
  <2> QED BY <1>2, <2>1, Refuses
<1>7. CASE CreateRecheck(p)
  <2>1. PICK i \in 0 .. Len(log) :
          \/ Send(p, req[p], n[p], body[p], i, "publish") /\ ans' = ans
          \/ WriteFails(p, i) /\ UNCHANGED wire
    BY <1>7 DEF CreateRecheck
  <2>2. ~Waiting(p)
    BY <1>7 DEF CreateRecheck, Waiting
  <2> QED BY <1>2, <1>3, <1>4, <2>1, <2>2, WriteFailsServes
<1>8. CASE CreateRecheckFails(p)
  <2>1. MayFail /\ WriteFails(p, 0) /\ UNCHANGED wire
    BY <1>8 DEF CreateRecheckFails
  <2> QED BY <1>2, <2>1, WriteFailsServes
<1>9. CASE PublishFails(p)
  <2>1. /\ WriteFails(p, reply[p].rev) /\ UNCHANGED wire
        /\ MayFail \/ reply[p].status = "wrong"
    BY <1>9 DEF PublishFails, PublishFailed
  <2> QED BY <1>2, <1>4, <2>1, WriteFailsServes
<1>10. CASE CreateFails(p)
  <2>1. pc' = [pc EXCEPT ![p] = "recheck"] /\ UNCHANGED <<wire, ans>>
    BY <1>10 DEF CreateFails
  <2> QED BY <1>1, <1>2, <2>1, GoesOn
<1>11. CASE Acked(p)
  <2> DEFINE a == Answer(IF req[p].op = "delete" THEN 204 ELSE 200, reply[p].rev, body[p])
  <2>1. Waiting(p) /\ reply[p].status = "ok" /\ Respond(p, a) /\ UNCHANGED wire
    BY <1>11 DEF Acked
  <2>2. ~MayFail => \A m \in wire : m.by # p
    BY <2>1, NothingOut DEF ServiceInv
  <2>3. Seen(a) = a
    BY DEF Answer, Seen
  <2>4. /\ reply[p].rev \in DOMAIN log
        /\ log[reply[p].rev].by = p /\ log[reply[p].rev].n = n[p]
        /\ log[reply[p].rev].want = req[p] /\ log[reply[p].rev].val = body[p]
    BY <1>1, <2>1 DEF ReplyInv
  <2>5. a = Service!Answer(IF req[p].op = "delete" THEN 204 ELSE 200, reply[p].rev,
                           log[reply[p].rev].val)
    BY <2>4 DEF Answer, Service!Answer
  <2> HIDE DEF a
  <2>6. Service!Done(p) /\ Told' = [Told EXCEPT ![p] = a]
    BY <1>1, <1>2, <2>1, <2>2, <2>3, Ends
  <2> QED BY <2>4, <2>5, <2>6 DEF Service!Succeed
<1> QED BY <1>5, <1>6, <1>7, <1>8, <1>9, <1>10, <1>11 DEF Handler

-----------------------------------------------------------------------------
\* What a request that begins changes: its client's number, request and state.
Begins(p, at) ==
    /\ pc[p] = "idle"
    /\ pc' = [pc EXCEPT ![p] = at]
    /\ n' = [n EXCEPT ![p] = @ + 1]
    /\ req' \in [Client -> Request]
    /\ \A q \in Client \ {p} : req'[q] = req[q]
    /\ log' = log

\* A read begins and ends in one step.
LEMMA ReadServes ==
  ASSUME TypeOK, NEW p \in Client, Begins(p, "idle"), req'[p].op \in {"get", "getrev"}, wire' = wire,
         NEW a, ans' = [ans EXCEPT ![p] = a],
         ReadAnswer(req'[p], a)
  PROVE  Service!Read(p)
<1>1. p \notin Active /\ Active' = Active
  BY DEF Active, Begins, TypeOK
<1>2. \A q \in Active : CallBy(q)' = CallBy(q)
  BY <1>1 DEF CallBy, Begins, TypeOK, Active
<1>3. Pending' = Pending
  BY <1>1, <1>2 DEF Pending
<1>4. Service!Requests(p, {"get", "getrev"})
  BY <1>1 DEF Service!Requests, Begins
<1>5. CASE a.status = 404
  <2>1. Told' = [Told EXCEPT ![p] = Service!Answer(404, 0, NoVal)]
    <3>1. Seen(a) = Service!Answer(404, 0, NoVal)
      BY <1>5 DEF Seen, Answer, Service!Answer
    <3> QED BY <3>1, ToldChanges
  <2> QED BY <1>1, <1>3, <1>4, <2>1 DEF Service!Read, Begins
<1>6. CASE a.status = 500 /\ MayFail
  <2>1. Told' = [Told EXCEPT ![p] = Service!Answer(500, 0, NoVal)]
    <3>1. Seen(a) = Service!Answer(500, 0, NoVal)
      BY <1>6 DEF Seen, Answer, Service!Answer
    <3> QED BY <3>1, ToldChanges
  <2> QED BY <1>1, <1>3, <1>4, <1>6, <2>1 DEF Service!Read, Begins
<1>7. CASE /\ a = Answer(200, a.rev, log[a.rev].val)
           /\ a.rev \in DOMAIN log /\ KeyOf(a.rev) = req'[p].key /\ ~IsTombstone(a.rev)
           /\ req'[p].op = "getrev" => req'[p].rev \in {0, a.rev}
  <2> DEFINE i == a.rev
  <2>1. a.status = 200 /\ a = Service!Answer(200, i, log[i].val)
    BY <1>7 DEF Answer, Service!Answer
  <2>2. Told' = [Told EXCEPT ![p] = Service!Answer(200, i, log[i].val)]
    <3>1. Seen(a) = Service!Answer(200, i, log[i].val)
      BY <2>1 DEF Seen
    <3> QED BY <3>1, ToldChanges
  <2>3. /\ i \in DOMAIN log /\ log[i].want.key = req'[p].key
        /\ req'[p].op = "getrev" => req'[p].rev \in {0, i}
        /\ ~Service!Absent(i)
    <3>1. i # 0
      <4>1. log \in Seq(Entry)
        BY DEF TypeOK
      <4> QED BY <1>7, <4>1
    <3> QED BY <1>7, <3>1 DEF Service!Absent, KeyOf, IsTombstone
  <2> HIDE DEF i
  <2> QED BY <1>1, <1>3, <1>4, <2>2, <2>3 DEF Service!Read, Begins
<1> QED BY <1>5, <1>6, <1>7 DEF ReadAnswer

\* A write begins: its call is pending from now on.
LEMMA AskServes ==
  ASSUME TypeOK, NEW p \in Client, NEW at, at # "idle", Begins(p, at), req'[p].op \in Writes,
         ans' = [ans EXCEPT ![p] = NoAnswer],
         wire' = wire \/ \E m : wire' = wire \cup {m} /\ CallOf(m) = CallBy(p)'
  PROVE  Service!Ask(p)
<1>1. p \notin Active /\ Active' = Active \cup {p}
  BY DEF Active, Begins, TypeOK
<1>2. \A q \in Active : CallBy(q)' = CallBy(q)
  BY <1>1 DEF CallBy, Begins, TypeOK, Active
<1>3. Pending' = Pending \cup {CallBy(p)'}
  <2>1. CASE wire' = wire
    BY <1>1, <1>2, <2>1 DEF Pending
  <2>2. ASSUME NEW m, wire' = wire \cup {m}, CallOf(m) = CallBy(p)'
        PROVE  Pending' = Pending \cup {CallBy(p)'}
    BY <1>1, <1>2, <2>2 DEF Pending
  <2> QED BY <2>1, <2>2
<1>4. Service!Requests(p, Service!Writes)
  BY <1>1 DEF Service!Requests, Begins, Service!Writes, Writes
<1>5. Told' = [Told EXCEPT ![p] = Service!NoAnswer]
  <2>1. Seen(NoAnswer) = Service!NoAnswer
    BY DEF Seen, NoAnswer, Answer, Service!NoAnswer, Service!Answer
  <2> QED BY <2>1, ToldChanges
<1> QED BY <1>1, <1>3, <1>4, <1>5 DEF Service!Ask, Begins, CallBy

\* The first step of every request.
LEMMA StartServes ==
  ASSUME TypeOK, TypeOK', NEW p \in Client, Start(p)
  PROVE  Service!Read(p) \/ Service!Ask(p)
<1>1. ASSUME NEW r, NEW at, Ask(p, r), pc' = [pc EXCEPT ![p] = at], log' = log
      PROVE  Begins(p, at) /\ req'[p] = r
  BY <1>1 DEF Begins, Ask, TypeOK
<1>2. ASSUME NEW r, NEW x, NEW at \in {"create", "publish"}, AskAndSend(p, r, x, at), r.op \in Writes
      PROVE  Service!Ask(p)
  <2> DEFINE new == [by |-> p, n |-> n[p] + 1, tag |-> tag[p] + 1, want |-> r, val |-> r.val,
                     exp |-> x]
  <2>1. /\ Ask(p, r) /\ pc' = [pc EXCEPT ![p] = at] /\ log' = log
        /\ ans' = [ans EXCEPT ![p] = NoAnswer] /\ wire' = wire \cup {new}
    BY <1>2 DEF AskAndSend, Send, streamVars
  <2>2. Begins(p, at) /\ req'[p] = r
    BY <1>1, <2>1
  <2>3. CallOf(new) = CallBy(p)'
    BY <2>2 DEF CallOf, CallBy, Begins, TypeOK
  <2> HIDE DEF new
  <2> QED BY <1>2, <2>1, <2>2, <2>3, AskServes
<1>3. CASE KvPut(p) \/ KvUpdate(p) \/ KvDelete(p)
  BY <1>2, <1>3 DEF KvPut, KvUpdate, KvDelete, Writes
<1>4. CASE KvCreate(p)
  <2>1. PICK k \in Key, v \in Bodies, t \in Ttl :
          AskAndSend(p, [op |-> "create", key |-> k, val |-> v, rev |-> 0, ttl |-> t],
                     0, IF t THEN "publish" ELSE "create")
    BY <1>4 DEF KvCreate
  <2>2. (IF t THEN "publish" ELSE "create") \in {"create", "publish"}
    OBVIOUS
  <2>3. [op |-> "create", key |-> k, val |-> v, rev |-> 0, ttl |-> t].op \in Writes
    BY DEF Writes
  <2> QED BY <1>2, <2>1, <2>2, <2>3
<1>5. CASE KvIncr(p)
  <2>1. PICK k \in Key, d \in Deltas :
          Ask(p, [op |-> "incr", key |-> k, val |-> d, rev |-> 0, ttl |-> FALSE])
    BY <1>5 DEF KvIncr
  <2>2. /\ pc' = [pc EXCEPT ![p] = "load"] /\ log' = log /\ wire' = wire
        /\ ans' = [ans EXCEPT ![p] = NoAnswer]
    BY <1>5 DEF KvIncr, streamVars
  <2>3. Begins(p, "load") /\ req'[p].op = "incr"
    <3> DEFINE r == [op |-> "incr", key |-> k, val |-> d, rev |-> 0, ttl |-> FALSE]
    <3>1. r.op = "incr" /\ Ask(p, r)
      BY <2>1
    <3> HIDE DEF r
    <3> QED BY <1>1, <2>2, <3>1
  <2>4. req'[p].op \in Writes
    BY <2>3 DEF Writes
  <2> QED BY <2>2, <2>3, <2>4, AskServes
<1>6. CASE KvGet(p) \/ KvGetRevision(p) \/ ReadFails(p)
  <2>1. PICK q \in Request, a \in AnswerType :
          q.op \in {"get", "getrev"} /\ Reads(p, q, a) /\ ReadAnswer(q, a)
    BY <1>6, ReadsAnswer
  <2>2. /\ Ask(p, q) /\ pc' = [pc EXCEPT ![p] = "idle"] /\ log' = log /\ wire' = wire
        /\ ans' = [ans EXCEPT ![p] = a]
    BY <2>1 DEF Reads, Respond, streamVars
  <2>3. Begins(p, "idle") /\ req'[p] = q
    BY <1>1, <2>2
  <2> QED BY <2>1, <2>2, <2>3, ReadServes
<1> QED BY <1>3, <1>4, <1>5, <1>6 DEF Start

-----------------------------------------------------------------------------
\* A message leaves the wire: its call may or may not be pending for another reason.
LEMMA LeavesWire ==
  ASSUME TypeOK, NEW m \in wire, wire' = wire \ {m}, UNCHANGED <<pc, n, req>>
  PROVE  /\ Active' = Active /\ CallOf(m) \in Pending
         /\ Pending' = Pending \/ Pending' = Pending \ {CallOf(m)}
         /\ m.by \in Active /\ CallOf(m) = CallBy(m.by) => Pending' = Pending
<1>1. Active' = Active /\ \A q \in Active : CallBy(q)' = CallBy(q)
  BY DEF Active, CallBy
<1>2. Pending' = {CallBy(q) : q \in Active} \cup {CallOf(o) : o \in wire \ {m}}
  BY <1>1 DEF Pending
<1>3. CallOf(m) \in Pending
  BY DEF Pending
<1>4. Pending' = Pending \/ Pending' = Pending \ {CallOf(m)}
  <2>1. CASE CallOf(m) \in Pending'
    <3>1. Pending' = Pending
      BY <1>2, <2>1 DEF Pending
    <3> QED BY <3>1
  <2>2. CASE CallOf(m) \notin Pending'
    <3>1. Pending' = Pending \ {CallOf(m)}
      BY <1>2, <2>2 DEF Pending
    <3> QED BY <3>1
  <2> QED BY <2>1, <2>2
<1>5. ASSUME m.by \in Active, CallOf(m) = CallBy(m.by) PROVE Pending' = Pending
  <2>1. CallOf(m) \in Pending'
    BY <1>2, <1>5
  <2> QED BY <1>4, <2>1
<1> QED BY <1>1, <1>3, <1>4, <1>5

\* A message that comes to nothing: its handler is still at work, or calls may fail.
LEMMA NothingComes ==
  ASSUME ServiceInv, NEW m \in wire, wire' = wire \ {m}, UNCHANGED <<log, pc, n, req, ans>>
  PROVE  \/ Service!Forget(CallOf(m)) /\ CallOf(m) \in Pending
         \/ UNCHANGED Service!serviceVars
<1>1. TypeOK /\ ShotInv
  BY DEF ServiceInv, IInv
<1>2. /\ Active' = Active /\ CallOf(m) \in Pending
      /\ Pending' = Pending \/ Pending' = Pending \ {CallOf(m)}
      /\ m.by \in Active /\ CallOf(m) = CallBy(m.by) => Pending' = Pending
  BY <1>1, LeavesWire
<1>3. Told' = Told
  BY DEF Told
<1>4. CASE Pending' = Pending
  BY <1>2, <1>3, <1>4 DEF Service!serviceVars
<1>5. CASE Pending' # Pending
  <2>1. MayFail
    <3> SUFFICES ASSUME ~MayFail PROVE FALSE
      OBVIOUS
    <3>1. Waiting(m.by) /\ m.n = n[m.by] /\ m.by \in Client
      BY <1>1 DEF ServiceInv, OnceInv, TypeOK, Publish
    <3>2. m.want = req[m.by]
      BY <1>1, <3>1 DEF ShotInv, Current
    <3>3. m.by \in Active /\ CallOf(m) = CallBy(m.by)
      BY <3>1, <3>2 DEF Active, Waiting, CallOf, CallBy
    <3> QED BY <1>2, <1>5, <3>3
  <2>2. CallOf(m).by \in Active => CallOf(m) # Service!Call(CallOf(m).by)
    BY <1>2, <1>5 DEF CallOf, CallBy, Service!Call
  <2> QED BY <1>2, <1>3, <1>5, <2>1, <2>2 DEF Service!Forget
<1> QED BY <1>4, <1>5

\* What the stream checks at the source is what the service promises of the newest message.
LEMMA ReplacesNewest ==
  ASSUME TypeOK, HeldInv, NEW k, NEW i \in 0 .. Len(log), Latest(Source, k, i)
  PROVE  Service!Newest(k, i)
<1>1. /\ log \in Seq(Entry) /\ DOMAIN log = 1 .. Len(log) /\ Len(log) \in Nat
      /\ held[Source] \subseteq 1 .. Len(log)
  BY DEF TypeOK, Replica
<1>2. i # 0 => i \in DOMAIN log /\ log[i].want.key = k
  BY <1>1 DEF Latest, KeyOf
<1>3. ASSUME NEW j \in DOMAIN log, j > i, log[j].want.key = k,
             \A h \in DOMAIN log : h > j => log[h].want.key # k
      PROVE  log[j].want.ttl
  <2>1. IsNewest(j) /\ KeyOf(j) = k
    BY <1>3 DEF IsNewest, KeyOf
  <2>2. j \notin held[Source]
    BY <1>1, <1>3, <2>1 DEF Latest
  <2> QED BY <2>1, <2>2 DEF HeldInv
<1> QED BY <1>2, <1>3 DEF Service!Newest

\* A publish that the stream accepts does over message i what its request asks for.
LEMMA ServesExpected ==
  ASSUME TypeOK, NEW m \in wire, NEW i \in 0 .. Len(log),
         Serves(m.want, m.val, m.exp), Expected(m, i)
  PROVE  Service!Allowed(m.want, i) /\ m.val = Service!Effect(m.want, i)
<1> DEFINE w == m.want
<1>1. w \in Request /\ log \in Seq(Entry) /\ DOMAIN log = 1 .. Len(log)
  BY DEF TypeOK, Publish
<1>2. w.op \in {"update", "create", "incr"} => m.exp = i
  BY <1>1 DEF Serves, Expected, AnyRev, Request
<1>3. Service!Absent(i) = Absent(i)
  BY DEF Service!Absent, Absent, IsTombstone
<1>4. Service!Allowed(w, i)
  BY <1>2, <1>3 DEF Serves, Service!Allowed, Absent
<1>5. CASE w.op # "incr"
  BY <1>4, <1>5 DEF Serves, Service!Effect
<1>6. CASE w.op = "incr"
  <2>1. w.val \in Counter /\ m.val = Wrap(w.val + Base(i))
    BY <1>2, <1>6 DEF Serves
  <2>2. Service!Body(i) \in Value \cup {NoVal} /\ ReadCounter(Service!Body(i)) = Base(i)
    <3>1. CASE Absent(i)
      BY <1>3, <3>1, AdapterAssumption DEF Service!Body, Base, ReadCounter, Value
    <3>2. CASE ~Absent(i)
      <4>1. log[i] \in Entry
        BY <1>1, <3>2 DEF Absent
      <4> QED BY <1>3, <3>2, <4>1 DEF Service!Body, Base, Entry
    <3> QED BY <3>1, <3>2
  <2> DEFINE b == Service!Body(i)
  <2>3. Service!Effect(w, i) = Wrap(ReadCounter(b) + w.val)
    <3> DEFINE x == <<b, w.val>>
               Sum == [y \in (Value \cup {NoVal}) \X Counter |-> Wrap(ReadCounter(y[1]) + y[2])]
    <3>1. x \in (Value \cup {NoVal}) \X Counter /\ x[1] = b /\ x[2] = w.val
      BY <2>1, <2>2
    <3>2. Service!Effect(w, i) = Sum[x]
      BY <1>6, Zenon DEF Service!Effect
    <3> HIDE DEF x
    <3>3. Sum[x] = Wrap(ReadCounter(x[1]) + x[2])
      BY <3>1
    <3> QED BY <3>1, <3>2, <3>3
  <2>4. ReadCounter(b) + w.val = w.val + ReadCounter(b)
    BY <2>1, ReadCounterIsCounter, CounterArithmetic
  <2> QED BY <1>4, <2>1, <2>2, <2>3, <2>4
<1> QED BY <1>5, <1>6

\* The stream stores a message: the service applies its call.
LEMMA CommitServes ==
  ASSUME ServiceInv, NEW m \in wire, StreamAccepts(m)
  PROVE  Service!Commit(CallOf(m)) /\ CallOf(m) \in Pending
<1>1. TypeOK /\ WireInv /\ ShotInv /\ HeldInv
  BY DEF ServiceInv, IInv
<1>2. PICK i \in 0 .. Len(log) :
        /\ Latest(Source, m.want.key, i)
        /\ Expected(m, i)
        /\ Store([by |-> m.by, n |-> m.n, want |-> m.want, val |-> m.val, prev |-> i])
  BY DEF StreamAccepts
<1>3. wire' = wire \ {m} /\ UNCHANGED <<pc, n, req, ans>>
  BY DEF StreamAccepts
<1> DEFINE c == CallOf(m)
<1>4. c.by = m.by /\ c.n = m.n /\ c.want = m.want
  BY DEF CallOf
<1>5. Active' = Active /\ c \in Pending /\ (Pending' = Pending \/ Pending' = Pending \ {c})
  BY <1>1, <1>3, LeavesWire
<1>6. Told' = Told
  BY <1>3 DEF Told
<1>7. Service!AtMostOnce(c.want) => ~Service!Stored(c)
  <2>1. CASE ~MayFail
    <3>1. Waiting(m.by) /\ reply[m.by].status = "none" /\ m.n = n[m.by]
          /\ \A j \in DOMAIN log : LogFits(j)
      BY <2>1 DEF ServiceInv, OnceInv
    <3>2. ~Landed(m.by)
      BY <3>1 DEF Landed, Waiting
    <3> QED BY <1>4, <3>1, <3>2 DEF LogFits, Service!Stored
  <2>2. CASE OneShot(m.want)
    BY <1>1, <1>4, <2>2 DEF ShotInv, SameShot, Service!Stored
  <2>3. CASE MayFail /\ ~OneShot(m.want)
    BY <1>4, <2>3 DEF Service!AtMostOnce, OneShot
  <2> QED BY <2>1, <2>2, <2>3
<1>8. Service!Newest(c.want.key, i)
  BY <1>1, <1>2, <1>4, ReplacesNewest
<1>9. Service!Allowed(c.want, i) /\ m.val = Service!Effect(c.want, i)
  <2>1. Serves(m.want, m.val, m.exp)
    BY <1>1 DEF WireInv
  <2> QED BY <1>1, <1>2, <1>4, <2>1, ServesExpected
<1>10. log' = Append(log, [by |-> c.by, n |-> c.n, want |-> c.want,
                           val |-> Service!Effect(c.want, i), prev |-> i])
  BY <1>2, <1>4, <1>9 DEF Store
<1> HIDE DEF c
<1>11. Service!Commit(c)
  BY <1>3, <1>5, <1>6, <1>7, <1>8, <1>9, <1>10 DEF Service!Commit
<1> QED BY <1>5, <1>11 DEF c

-----------------------------------------------------------------------------
\* The handlers begin as the service does.
LEMMA ServiceBegins == Init => Service!ServiceInit
<1> SUFFICES ASSUME Init PROVE Service!ServiceInit
  OBVIOUS
<1>1. TypeOK
  BY InitIInv DEF IInv
<1>2. log = << >> /\ wire = {} /\ n = [p \in Client |-> 0] /\ req \in [Client -> Request]
  BY <1>1 DEF Init, StreamInit, TypeOK
<1>3. Active = {} /\ Pending = {}
  BY <1>2 DEF Init, Active, Pending
<1>4. Told = [p \in Client |-> Service!NoAnswer]
  BY DEF Init, Told, Seen, NoAnswer, Answer, Service!NoAnswer, Service!Answer
<1> QED BY <1>2, <1>3, <1>4 DEF Service!ServiceInit

\* Every step is a step of the service, or none.
LEMMA ServiceStep ==
  ServiceInv /\ [Next]_vars => [Service!ServiceNext]_(Service!serviceVars)
<1> SUFFICES ASSUME ServiceInv, [Next]_vars
             PROVE  Service!ServiceNext \/ UNCHANGED Service!serviceVars
  OBVIOUS
<1>1. TypeOK /\ TypeOK'
  BY NextIInv DEF ServiceInv, IInv
<1>2. ASSUME NEW p \in Client, Start(p) PROVE Service!ServiceNext
  BY <1>1, <1>2, StartServes DEF Service!ServiceNext
<1>3. ASSUME NEW p \in Client, Handler(p)
      PROVE  Service!ServiceNext \/ UNCHANGED Service!serviceVars
  BY <1>3, HandlerServes DEF Service!ServiceNext
<1>4. ASSUME NEW m \in wire, StreamAccepts(m) PROVE Service!ServiceNext
  BY <1>4, CommitServes DEF Service!ServiceNext
<1>5. ASSUME NEW m \in wire, StreamRefuses(m) \/ Lose(m)
      PROVE  Service!ServiceNext \/ UNCHANGED Service!serviceVars
  <2>1. wire' = wire \ {m} /\ UNCHANGED <<log, pc, n, req, ans>>
    BY <1>5 DEF StreamRefuses, Lose, streamVars, handlerVars
  <2> QED BY <2>1, NothingComes DEF Service!ServiceNext
<1>6. CASE StreamStep \/ RefreshMirrors \/ UNCHANGED vars
  <2>1. UNCHANGED <<log, pc, n, req, ans, wire>>
    BY <1>6 DEF StreamStep, RefreshMirrors, Replicate, Expire, vars, streamVars, handlerVars
  <2>2. UNCHANGED <<Active, Told>> /\ \A q \in Active : CallBy(q)' = CallBy(q)
    BY <2>1 DEF Active, Told, CallBy
  <2>3. Pending' = Pending
    BY <2>1, <2>2 DEF Pending
  <2> QED BY <2>1, <2>2, <2>3 DEF Service!serviceVars
<1> QED BY <1>2, <1>3, <1>4, <1>5, <1>6 DEF Next, Server

\* What the argument rests on holds always.
LEMMA ServiceInvAlways == Spec => []ServiceInv
<1>1. Init => HeldInv
  BY DEF Init, StreamInit, HeldInv
<1>2. Spec => []HeldInv
  BY <1>1, HeldStep, Invariance, PTL DEF Spec
<1>3. CASE MayFail
  <2>1. IInv /\ HeldInv /\ ShotInv => ServiceInv
    BY <1>3 DEF ServiceInv
  <2> QED BY <1>2, <2>1, Invariance, ShotAlways, PTL
<1>4. CASE ~MayFail
  <2>1. IInv /\ HeldInv /\ ShotInv /\ OnceInv => ServiceInv
    BY DEF ServiceInv
  <2>2. Spec => []OnceInv
    BY <1>4, OnceAlways
  <2> QED BY <1>2, <2>1, <2>2, Invariance, ShotAlways, PTL
<1> QED BY <1>3, <1>4

(* The handlers, the client library, the mirrors and the messages on the wire together are
   one store that applies the requests of its clients one at a time. *)
THEOREM AdapterIsService == Spec => ImplementsService
  BY ServiceBegins, ServiceStep, ServiceInvAlways, PTL
  DEF Spec, ImplementsService, Service!ServiceSpec
=============================================================================
