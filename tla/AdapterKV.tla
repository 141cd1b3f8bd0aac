------------------------------ MODULE AdapterKV ------------------------------
(***************************************************************************)
(* The KV handlers of one adapter (src/internal/adapter/server.go): GET    *)
(* (latest, through the local mirror, or by revision), PUT (plain, If-     *)
(* Match, If-None-Match, TTL), DELETE and POST .../incr, run concurrently  *)
(* by the clients of one bucket.  The bucket exists: a write whose         *)
(* ensureBucket fails answers 500 before it has done anything.             *)
(*                                                                         *)
(* A publish is two steps: the handler puts the message on the wire, the   *)
(* stream accepts or refuses it later.  A handler may give up waiting (JS  *)
(* API timeout, connection error) while its message is still on the wire,  *)
(* so a write can land after it was answered with an error.                *)
(*                                                                         *)
(* Merged steps: a handler's local work between two calls to JetStream is  *)
(* part of the step that ends the first one.  A handler that only reads is *)
(* one step, its read being one call.                                      *)
(***************************************************************************)
EXTENDS KVStream

LOCAL INSTANCE FiniteSetsExt

CONSTANTS
    Client,       \* concurrent HTTP clients, one request in flight each
    Key,          \* keys of the bucket
    Payload,      \* bodies that are not a number in the int64 range
    TooBig,       \* the payload whose text is a number beyond int64
    NoVal,        \* no body: DELETE, or an answer without a value
    Half,         \* int64 is -Half .. Half-1 (2^63 in the code)
    Bodies,       \* bodies clients PUT
    Deltas,       \* ?delta= of the increments
    Ttl,          \* which PUTs carry a TTL: a subset of BOOLEAN
    Local,        \* the replica in this adapter's region
    MaxAttempts,  \* attempts of the increment loop (5 in the code)
    MayFail,      \* may calls time out and messages get lost
    Ops,          \* the operations clients use
    MaxRequests   \* bound: requests per client

Counter == -Half .. Half - 1
Value == Counter \cup Payload
Operation == {"get", "getrev", "put", "create", "update", "delete", "incr"}

ASSUME AdapterAssumption ==
    /\ Key # {}
    /\ Half \in Nat \ {0}
    /\ TooBig \in Payload /\ NoVal \notin Value
    /\ Bodies \subseteq Value /\ Deltas \subseteq Counter
    /\ Ttl \subseteq BOOLEAN /\ MayFail \in BOOLEAN
    /\ Local \in Replica
    /\ MaxAttempts \in Nat \ {0} /\ MaxRequests \in Nat
    /\ Ops \subseteq Operation

VARIABLES
    mirrorFor,  \* is the local mirror in localMirrorFor[bucket]
    pc,         \* per client: where its handler is
    req,        \* per client: the request being handled, or the last one
    n,          \* per client: how many requests it has made
    tag,        \* per client: how many publishes its handlers have sent
    body,       \* per client: the payload of the handler's publishes
    attempt,    \* per client: kvIncr's attempt
    reply,      \* per client: what came back for its publish number tag
    wire,       \* publishes that the stream has not processed
    ans         \* per client: its last answer

handlerVars == <<pc, req, n, tag, body, attempt, reply, ans>>
vars == <<streamVars, mirrorFor, handlerVars, wire>>

\* A request.  rev is If-Match / ?revision=, val the body or the delta.
Request == [op : Operation, key : Key, val : Value \cup {NoVal}, rev : Nat, ttl : BOOLEAN]

\* A message: want is the request it serves, number n of client by; prev, of a
\* stored one, is what the stream's latest message of the key was.
Publish == [by : Client, n : Nat, tag : Nat, want : Request,
            val : Value \cup {NoVal}, exp : Nat \cup {AnyRev}]
Entry == [by : Client, n : Nat, want : Request, val : Value \cup {NoVal}, prev : Nat]

NoReply == [status |-> "none", rev |-> 0]
Answer(s, i, v) == [status |-> s, rev |-> i, val |-> v]
NoAnswer == Answer(0, 0, NoVal)

Waiting(p) == pc[p] \in {"create", "publish"}

-----------------------------------------------------------------------------
(* int64 arithmetic and strconv.ParseInt with its error ignored. *)
Wrap(x) == ((x + Half) % (2 * Half)) - Half

ReadCounter(v) == IF v \in Counter THEN v
                  ELSE IF v = TooBig THEN Half - 1
                  ELSE 0

-----------------------------------------------------------------------------
\* Client p asks r: its handler starts.
Ask(p, r) ==
    /\ pc[p] = "idle"
    /\ n[p] < MaxRequests
    /\ r.op \in Ops
    /\ req' = [req EXCEPT ![p] = r]
    /\ n' = [n EXCEPT ![p] = @ + 1]

\* The handler of client p answers a and ends, and its local state with it.
Respond(p, a) ==
    /\ pc' = [pc EXCEPT ![p] = "idle"]
    /\ ans' = [ans EXCEPT ![p] = a]
    /\ body' = [body EXCEPT ![p] = NoVal]
    /\ attempt' = [attempt EXCEPT ![p] = 0]
    /\ reply' = [reply EXCEPT ![p] = NoReply]

\* js.PublishMsg by p's handler for request r (number k of p) of value v with
\* expected last subject sequence x; at says which call it is waiting in.
Send(p, r, k, v, x, at) ==
    /\ tag' = [tag EXCEPT ![p] = @ + 1]
    /\ wire' = wire \cup {[by |-> p, n |-> k, tag |-> tag[p] + 1, want |-> r, val |-> v, exp |-> x]}
    /\ body' = [body EXCEPT ![p] = v]
    /\ reply' = [reply EXCEPT ![p] = NoReply]
    /\ pc' = [pc EXCEPT ![p] = at]

\* A request whose first call is a publish.
AskAndSend(p, r, x, at) ==
    /\ Ask(p, r)
    /\ Send(p, r, n[p] + 1, r.val, x, at)
    /\ ans' = [ans EXCEPT ![p] = NoAnswer]
    /\ UNCHANGED <<streamVars, mirrorFor, attempt>>

-----------------------------------------------------------------------------
\* Latest read.  With a local mirror the read goes there, and to the source only
\* when the mirror call fails; a direct get on the source is answered by any
\* replica that serves the stream.
ReadLanes ==
    IF mirrorFor
    THEN {Local} \cup (IF MayFail THEN Replica ELSE {})
    ELSE Replica

\* Client p asks q and is answered a, in one step.
Reads(p, q, a) ==
    /\ Ask(p, q)
    /\ Respond(p, a)
    /\ UNCHANGED <<streamVars, mirrorFor, tag, wire>>

ReadOf(op, k, x) == [op |-> op, key |-> k, val |-> NoVal, rev |-> x, ttl |-> FALSE]

\* The answer to a read that finds message i (0: none).
Found(i) == IF Absent(i) THEN Answer(404, i, NoVal) ELSE Answer(200, i, log[i].val)

KvGet(p) ==
    \E k \in Key, r \in ReadLanes, i \in 0 .. Len(log) :
        /\ Latest(r, k, i)
        /\ Reads(p, ReadOf("get", k, 0), Found(i))

\* GET ?revision=: a direct get by sequence, then the key and marker checks.  The error
\* of ParseUint is ignored, so what is no number is 0, and kv.GetRevision of 0 is the
\* latest message of the key.
KvGetRevision(p) ==
    \E k \in Key, r \in Replica, x \in 0 .. Len(log) + 1, i \in 0 .. Len(log) :
        /\ x = 0 => Latest(r, k, i)
        /\ x # 0 => i = IF x \in held[r] /\ KeyOf(x) = k THEN x ELSE 0
        /\ Reads(p, ReadOf("getrev", k, x), Found(i))

\* A read whose call fails with something else than not-found: 500; by revision 404,
\* and 500 only when ensureBucket fails.
ReadFails(p) ==
    /\ MayFail
    /\ \E k \in Key, x \in 0 .. Len(log) + 1, s \in {404, 500} :
        \/ x = 0 /\ s = 500 /\ Reads(p, ReadOf("get", k, 0), Answer(s, 0, NoVal))
        \/ Reads(p, ReadOf("getrev", k, x), Answer(s, 0, NoVal))

\* kvPut without CAS headers; the TTL path publishes the same message itself.
KvPut(p) ==
    \E k \in Key, v \in Bodies, t \in Ttl :
        AskAndSend(p, [op |-> "put", key |-> k, val |-> v, rev |-> 0, ttl |-> t],
                   AnyRev, "publish")

\* If-None-Match: *.  Without a TTL the client library's Create, which looks
\* again when its first publish fails; with a TTL one publish that expects 0.
KvCreate(p) ==
    \E k \in Key, v \in Bodies, t \in Ttl :
        AskAndSend(p, [op |-> "create", key |-> k, val |-> v, rev |-> 0, ttl |-> t],
                   0, IF t THEN "publish" ELSE "create")

\* Mutant of KvUpdate: If-Match is ignored when there is a TTL.
KvUpdateBlindTtl(p) ==
    \E k \in Key, v \in Bodies, t \in Ttl, i \in 0 .. Len(log) :
        AskAndSend(p, [op |-> "update", key |-> k, val |-> v, rev |-> i, ttl |-> t],
                   IF t THEN AnyRev ELSE i, "publish")

\* If-Match: i, any revision the client may hold.
KvUpdate(p) ==
    \E k \in Key, v \in Bodies, t \in Ttl, i \in 0 .. Len(log) :
        AskAndSend(p, [op |-> "update", key |-> k, val |-> v, rev |-> i, ttl |-> t],
                   i, "publish")

\* DELETE, which never looks at If-Match.
KvDelete(p) ==
    \E k \in Key :
        AskAndSend(p, [op |-> "delete", key |-> k, val |-> NoVal, rev |-> 0, ttl |-> FALSE],
                   AnyRev, "publish")

KvIncr(p) ==
    \E k \in Key, d \in Deltas :
        /\ Ask(p, [op |-> "incr", key |-> k, val |-> d, rev |-> 0, ttl |-> FALSE])
        /\ pc' = [pc EXCEPT ![p] = "load"]
        /\ ans' = [ans EXCEPT ![p] = NoAnswer]
        /\ UNCHANGED <<streamVars, mirrorFor, tag, body, attempt, reply, wire>>

\* Mutant of IncrLoad: the sum is computed once and only its revision is read again.
IncrLoadStale(p) ==
    /\ pc[p] = "load"
    /\ \E r \in Replica, i \in 0 .. Len(log) :
        /\ Latest(r, req[p].key, i)
        /\ LET v == IF attempt[p] > 0 THEN body[p]
                    ELSE IF Absent(i) THEN Wrap(req[p].val)
                    ELSE Wrap(ReadCounter(log[i].val) + req[p].val) IN
           IF Absent(i) THEN Send(p, req[p], n[p], v, 0, "create")
                        ELSE Send(p, req[p], n[p], v, i, "publish")
    /\ UNCHANGED <<streamVars, mirrorFor, req, n, attempt, ans>>

\* One round of kvIncr: kv.Get, then Create or Update of the sum.
IncrLoad(p) ==
    /\ pc[p] = "load"
    /\ \E r \in Replica, i \in 0 .. Len(log) :
        /\ Latest(r, req[p].key, i)
        /\ IF Absent(i)
           THEN Send(p, req[p], n[p], Wrap(req[p].val), 0, "create")
           ELSE Send(p, req[p], n[p], Wrap(ReadCounter(log[i].val) + req[p].val), i, "publish")
    /\ UNCHANGED <<streamVars, mirrorFor, req, n, attempt, ans>>

\* kv.Get in kvIncr fails with something else than not-found.
IncrLoadFails(p) ==
    /\ MayFail
    /\ pc[p] = "load"
    /\ Respond(p, Answer(500, 0, NoVal))
    /\ UNCHANGED <<streamVars, mirrorFor, req, n, tag, wire>>

\* The handler's write has failed against revision i: kvIncr starts over while it
\* has attempts left, everything else answers.
WriteFails(p, i) ==
    \/ /\ req[p].op = "incr"
       /\ attempt[p] + 1 < MaxAttempts
       /\ attempt' = [attempt EXCEPT ![p] = @ + 1]
       /\ pc' = [pc EXCEPT ![p] = "load"]
       /\ UNCHANGED <<ans, body, reply>>
    \/ /\ req[p].op = "incr" => attempt[p] + 1 >= MaxAttempts
       /\ Respond(p, Answer(CASE req[p].op = "incr"   -> 409
                              [] req[p].op = "delete" -> 500
                              [] OTHER                -> 412, i, NoVal))

\* The second half of kv.Create: when the first publish fails and the key's
\* latest message is a delete marker, update over the marker.
CreateRecheck(p) ==
    /\ pc[p] = "recheck"
    /\ \E r \in Replica, i \in 0 .. Len(log) :
        /\ Latest(r, req[p].key, i)
        /\ IF i # 0 /\ IsTombstone(i)
           THEN /\ Send(p, req[p], n[p], body[p], i, "publish")
                /\ UNCHANGED <<attempt, ans>>
           ELSE /\ WriteFails(p, i)
                /\ UNCHANGED <<tag, wire>>
    /\ UNCHANGED <<streamVars, mirrorFor, req, n>>

\* ... and its read may fail: Create returns the first error.
CreateRecheckFails(p) ==
    /\ MayFail
    /\ pc[p] = "recheck"
    /\ WriteFails(p, 0)
    /\ UNCHANGED <<streamVars, mirrorFor, req, n, tag, wire>>

\* Mutant of Acked: the revision is the stream's last sequence, not the ack's.
AckedLast(p) ==
    /\ Waiting(p)
    /\ reply[p].status = "ok"
    /\ Respond(p, Answer(IF req[p].op = "delete" THEN 204 ELSE 200, Len(log), body[p]))
    /\ UNCHANGED <<streamVars, mirrorFor, req, n, tag, wire>>

\* The ack: 200 (204 for DELETE) with the message's sequence as X-Revision.
Acked(p) ==
    /\ Waiting(p)
    /\ reply[p].status = "ok"
    /\ Respond(p, Answer(IF req[p].op = "delete" THEN 204 ELSE 200, reply[p].rev, body[p]))
    /\ UNCHANGED <<streamVars, mirrorFor, req, n, tag, wire>>

\* Mutants of PublishFailed: a wait that is too short, and one without a timeout.
PublishFailedEarly(p) == reply[p].status # "ok"
PublishFailedNever(p) == reply[p].status = "wrong"

\* The publish failed: the stream refused it, or nobody answered in time.
PublishFailed(p) ==
    \/ reply[p].status = "wrong"
    \/ MayFail /\ reply[p].status = "none"

CreateFails(p) ==
    /\ pc[p] = "create"
    /\ PublishFailed(p)
    /\ pc' = [pc EXCEPT ![p] = "recheck"]
    /\ UNCHANGED <<streamVars, mirrorFor, req, n, tag, body, attempt, reply, wire, ans>>

\* Mutant of PublishFails: what was not acknowledged is published again, once.
PublishFailsResend(p) ==
    /\ pc[p] = "publish"
    /\ PublishFailed(p)
    /\ \/ /\ attempt[p] = 0
          /\ attempt' = [attempt EXCEPT ![p] = 1]
          /\ Send(p, req[p], n[p], body[p], AnyRev, "publish")
          /\ UNCHANGED ans
       \/ attempt[p] # 0 /\ WriteFails(p, reply[p].rev) /\ UNCHANGED <<tag, wire>>
    /\ UNCHANGED <<streamVars, mirrorFor, req, n>>

\* It is answered, or kvIncr starts over: nothing is published again as it was.
PublishFails(p) ==
    /\ pc[p] = "publish"
    /\ PublishFailed(p)
    /\ WriteFails(p, reply[p].rev)
    /\ UNCHANGED <<streamVars, mirrorFor, req, n, tag, wire>>

\* refreshLocalMirrors: a listing may miss a mirror, or fail and list nothing.
RefreshMirrors ==
    /\ Local # Source
    /\ mirrorFor' \in BOOLEAN \ {mirrorFor}
    /\ UNCHANGED <<streamVars, handlerVars, wire>>

-----------------------------------------------------------------------------
\* The reply to message m reaches the handler that still waits for it.
Reply(m, s, i) ==
    reply' = IF Waiting(m.by) /\ tag[m.by] = m.tag
             THEN [reply EXCEPT ![m.by] = [status |-> s, rev |-> i]]
             ELSE reply

Expected(m, i) == m.exp \in {AnyRev, i}

StreamAccepts(m) ==
    /\ wire' = wire \ {m}
    /\ \E i \in 0 .. Len(log) :
        /\ Latest(Source, m.want.key, i)
        /\ Expected(m, i)
        /\ Store([by |-> m.by, n |-> m.n, want |-> m.want, val |-> m.val, prev |-> i])
    /\ Reply(m, "ok", Len(log) + 1)
    /\ UNCHANGED <<mirrorFor, pc, req, n, tag, body, attempt, ans>>

StreamRefuses(m) ==
    /\ wire' = wire \ {m}
    /\ \E i \in 0 .. Len(log) :
        /\ Latest(Source, m.want.key, i)
        /\ ~Expected(m, i)
        /\ Reply(m, "wrong", i)
    /\ UNCHANGED <<streamVars, mirrorFor, pc, req, n, tag, body, attempt, ans>>

Lose(m) ==
    /\ MayFail
    /\ wire' = wire \ {m}
    /\ UNCHANGED <<streamVars, mirrorFor, handlerVars>>

StreamStep ==
    /\ \/ \E m \in Mirror : Replicate(m)
       \/ \E r \in Replica : Expire(r)
    /\ UNCHANGED <<mirrorFor, handlerVars, wire>>

-----------------------------------------------------------------------------
Init ==
    /\ StreamInit
    /\ mirrorFor = FALSE
    /\ pc = [p \in Client |-> "idle"]
    /\ req = [p \in Client |-> [op |-> "get", key |-> CHOOSE k \in Key : TRUE,
                                val |-> NoVal, rev |-> 0, ttl |-> FALSE]]
    /\ n = [p \in Client |-> 0]
    /\ tag = [p \in Client |-> 0]
    /\ body = [p \in Client |-> NoVal]
    /\ attempt = [p \in Client |-> 0]
    /\ reply = [p \in Client |-> NoReply]
    /\ wire = {}
    /\ ans = [p \in Client |-> NoAnswer]

Start(p) == KvGet(p) \/ KvGetRevision(p) \/ ReadFails(p) \/ KvPut(p) \/ KvCreate(p) \/ KvUpdate(p)
            \/ KvDelete(p) \/ KvIncr(p)

Handler(p) == IncrLoad(p) \/ IncrLoadFails(p) \/ CreateRecheck(p) \/ CreateRecheckFails(p)
              \/ Acked(p) \/ CreateFails(p) \/ PublishFails(p)

Server == \E m \in wire : StreamAccepts(m) \/ StreamRefuses(m) \/ Lose(m)

Next ==
    \/ \E p \in Client : Start(p) \/ Handler(p)
    \/ Server
    \/ StreamStep
    \/ RefreshMirrors

Spec == Init /\ [][Next]_vars

(* Handlers run to completion (net/http gives each its own goroutine) and the
   stream gets to every message that reaches it. *)
FairSpec == Spec /\ (\A p \in Client : WF_vars(Handler(p))) /\ WF_vars(Server)

-----------------------------------------------------------------------------
ReplyType == [status : {"none", "ok", "wrong"}, rev : Nat]
AnswerType == [status : {0, 200, 204, 404, 409, 412, 500}, rev : Nat, val : Value \cup {NoVal}]

(* The stream, the handlers, what they were told and what is on the wire keep their types. *)
TypeOK ==
    /\ log \in Seq(Entry)
    /\ held \in [Replica -> SUBSET (1 .. Len(log))]
    /\ applied \in [Mirror -> 0 .. Len(log)]
    /\ mirrorFor \in BOOLEAN
    /\ pc \in [Client -> {"idle", "load", "create", "recheck", "publish"}]
    /\ req \in [Client -> Request]
    /\ n \in [Client -> Nat] /\ tag \in [Client -> Nat] /\ attempt \in [Client -> Nat]
    /\ body \in [Client -> Value \cup {NoVal}]
    /\ reply \in [Client -> ReplyType]
    /\ wire \subseteq Publish
    /\ ans \in [Client -> AnswerType]

Writes == {"put", "create", "update", "delete", "incr"}

(* A stored If-Match write replaced exactly the revision it named and a stored
   If-None-Match write replaced nothing (no message, or a delete marker), with the
   body asked for: no write slipped in between, whichever replica the client or
   the client library had read, and however late the message arrived. *)
ConditionsHeldAtCommit ==
    \A i \in DOMAIN log :
        LET w == log[i].want IN
        /\ w.op = "update" => log[i].prev = w.rev
        /\ w.op = "create" => Absent(log[i].prev)
        /\ w.op # "incr" => log[i].val = w.val

\* What an increment that replaces revision i adds to.
Base(i) == IF Absent(i) THEN 0 ELSE ReadCounter(log[i].val)

(* Every stored increment added its delta, in int64 arithmetic, to the value it
   replaced: no increment is lost to a concurrent writer or to a stale read. *)
IncrementsAdd ==
    \A i \in DOMAIN log :
        log[i].want.op = "incr" => log[i].val = Wrap(log[i].want.val + Base(log[i].prev))

AnswerIsCommitted(p) ==
    LET a == ans[p] e == log[a.rev] IN
    a.status \in {200, 204} =>
        /\ a.rev \in DOMAIN log
        /\ e.val = a.val
        /\ IF req[p].op \in Writes
           THEN e.by = p /\ e.n = n[p] /\ e.want = req[p]
           ELSE KeyOf(a.rev) = req[p].key /\ ~IsTombstone(a.rev)

(* A 200 or 204 to a write names the revision that holds this very request, and
   a 200 to a read names a revision that stores the returned value for that key
   and is not a delete marker. *)
AnswersAreCommitted == \A p \in Client : AnswerIsCommitted(p)

(* Without failures a refused write (409, 412, 500) left nothing behind, neither
   in the stream nor on its way there. *)
RefusalHasNoEffect ==
    \A p \in Client :
        ans[p].status \in {409, 412, 500} =>
            /\ \A i \in DOMAIN log : ~(log[i].by = p /\ log[i].n = n[p])
            /\ \A m \in wire : ~(m.by = p /\ m.n = n[p])

\* The handler publishes w once, whatever happens; kvIncr and kv.Create may do so again.
OneShot(w) == w.op \in {"put", "update", "delete"} \/ (w.op = "create" /\ w.ttl)

(* No request is applied twice; with failures, none that the adapter publishes once,
   however late its message arrives and whatever the client was told. *)
AppliedOnce ==
    \A i, j \in DOMAIN log :
        /\ log[i].by = log[j].by /\ log[i].n = log[j].n
        /\ MayFail => OneShot(log[i].want)
        => i = j

(* If-None-Match: * is refused only while the key holds a value: a released lock
   can be taken again. *)
CreateRefusedOnlyIfHeld ==
    \A p \in Client :
        req[p].op = "create" /\ ans[p].status = 412 => ~Absent(ans[p].rev)

(* Every request is answered: the increment loop gives up, and no handler waits
   for a message that was lost or refused. *)
EveryRequestAnswered == \A p \in Client : pc[p] # "idle" ~> pc[p] = "idle"

-----------------------------------------------------------------------------
\* What clients see: a refusal carries no revision.
Seen(a) == IF a.status \in {200, 204} THEN a ELSE Answer(a.status, 0, NoVal)
Told == [p \in Client |-> Seen(ans[p])]

Active == {p \in Client : pc[p] # "idle"}

\* The calls that may still store something: those being handled and those on the wire.
CallBy(p) == [by |-> p, n |-> n[p], want |-> req[p]]
CallOf(m) == [by |-> m.by, n |-> m.n, want |-> m.want]
Pending == {CallBy(p) : p \in Active} \cup {CallOf(m) : m \in wire}

Service == INSTANCE KVService WITH
    Sum <- [x \in (Value \cup {NoVal}) \X Counter |-> Wrap(ReadCounter(x[1]) + x[2])],
    Reliable <- ~MayFail, open <- Pending, busy <- Active, ans <- Told

(* The handlers, the client library, the mirrors and the messages on the wire are one
   atomic store to their clients: the service of KVService. *)
ImplementsService == Service!ServiceSpec
=============================================================================
