----------------------------- MODULE KVService -----------------------------
(***************************************************************************)
(* What the KV API of the adapter (src/internal/adapter/server.go)         *)
(* promises the clients of one bucket, whatever goes on inside.  A write   *)
(* takes effect in one step, over the newest message of its key, if what   *)
(* the request asks of that message holds; an increment adds to it.  A     *)
(* success names the revision that holds the request.  When calls fail, a  *)
(* write may still take effect after its client was told of an error; a    *)
(* reliable service applies no request twice and none that it refused.     *)
(***************************************************************************)
EXTENDS Naturals, Sequences

CONSTANTS
    Client,     \* the clients, one request in flight each
    Request,    \* [op, key, val, rev, ttl]: what a client may ask
    NoVal,      \* no body
    Sum,        \* Sum[v, d]: what an increment by d makes of body v
    Reliable    \* no call fails

VARIABLES
    log,        \* the bucket: every message ever stored, prev being what it replaced
    open,       \* the calls that may still take effect
    busy,       \* the clients whose request is being handled
    n,          \* per client: how many requests it has made
    req,        \* per client: the last of them
    ans         \* per client: the answer to it

serviceVars == <<log, open, busy, n, req, ans>>

Writes == {"put", "create", "update", "delete", "incr"}

Answer(s, i, v) == [status |-> s, rev |-> i, val |-> v]
NoAnswer == Answer(0, 0, NoVal)
Refusals == {409, 412, 500}

Call(p) == [by |-> p, n |-> n[p], want |-> req[p]]
Stored(c) == \E i \in DOMAIN log : log[i].by = c.by /\ log[i].n = c.n

\* Applied at most once, whatever fails; an increment or a create may be repeated.
AtMostOnce(w) ==
    Reliable \/ w.op \in {"put", "update", "delete"} \/ (w.op = "create" /\ w.ttl)

Absent(i) == i = 0 \/ log[i].want.op = "delete"
Body(i) == IF Absent(i) THEN NoVal ELSE log[i].val

\* i is the newest message of key k (0: none), unless the newest one had a TTL.
Newest(k, i) ==
    /\ i # 0 => i \in DOMAIN log /\ log[i].want.key = k
    /\ \A j \in DOMAIN log :
        /\ j > i /\ log[j].want.key = k
        /\ \A h \in DOMAIN log : h > j => log[h].want.key # k
        => log[j].want.ttl

\* Request w may replace message i, and what it stores then.
Allowed(w, i) ==
    /\ w.op = "update" => i = w.rev
    /\ w.op = "create" => Absent(i)
Effect(w, i) == IF w.op = "incr" THEN Sum[Body(i), w.val] ELSE w.val

-----------------------------------------------------------------------------
\* Client p makes a request, of one of the kinds in ops.
Requests(p, ops) ==
    /\ p \notin busy
    /\ n' = [n EXCEPT ![p] = @ + 1]
    /\ req' \in [Client -> Request]
    /\ req'[p].op \in ops
    /\ \A q \in Client \ {p} : req'[q] = req[q]

\* A read is answered with a live message of its key, possibly an old one; by revision
\* with that one, where 0 names no revision in particular.
Read(p) ==
    /\ Requests(p, {"get", "getrev"})
    /\ \/ \E i \in DOMAIN log :
            /\ log[i].want.key = req'[p].key
            /\ req'[p].op = "getrev" => req'[p].rev \in {0, i}
            /\ ~Absent(i)
            /\ ans' = [ans EXCEPT ![p] = Answer(200, i, log[i].val)]
       \/ ans' = [ans EXCEPT ![p] = Answer(404, 0, NoVal)]
       \/ ~Reliable /\ ans' = [ans EXCEPT ![p] = Answer(500, 0, NoVal)]
    /\ UNCHANGED <<log, open, busy>>

Ask(p) ==
    /\ Requests(p, Writes)
    /\ busy' = busy \cup {p}
    /\ open' = open \cup {[by |-> p, n |-> n'[p], want |-> req'[p]]}
    /\ ans' = [ans EXCEPT ![p] = NoAnswer]
    /\ UNCHANGED log

Commit(c) ==
    /\ AtMostOnce(c.want) => ~Stored(c)
    /\ \E i \in 0 .. Len(log) :
        /\ Newest(c.want.key, i)
        /\ Allowed(c.want, i)
        /\ log' = Append(log, [by |-> c.by, n |-> c.n, want |-> c.want,
                               val |-> Effect(c.want, i), prev |-> i])
    /\ open' = open \/ open' = open \ {c}
    /\ UNCHANGED <<busy, n, req, ans>>

\* The handler of p ends; what it left behind can take effect if calls may fail.
Done(p) ==
    /\ p \in busy
    /\ busy' = busy \ {p}
    /\ open' = open \ {Call(p)} \/ (~Reliable /\ open' = open)
    /\ UNCHANGED <<log, n, req>>

Succeed(p) ==
    /\ Done(p)
    /\ \E i \in DOMAIN log :
        /\ log[i].by = p /\ log[i].n = n[p] /\ log[i].want = req[p]
        /\ ans' = [ans EXCEPT ![p] =
                     Answer(IF req[p].op = "delete" THEN 204 ELSE 200, i, log[i].val)]

Refuse(p) ==
    /\ Done(p)
    /\ Reliable => ~Stored(Call(p))
    /\ \E s \in Refusals : ans' = [ans EXCEPT ![p] = Answer(s, 0, NoVal)]

\* What an earlier request left behind comes to nothing.
Forget(c) ==
    /\ ~Reliable
    /\ c.by \in busy => c # Call(c.by)
    /\ open' = open \ {c}
    /\ UNCHANGED <<log, busy, n, req, ans>>

ServiceInit ==
    /\ log = << >>
    /\ open = {}
    /\ busy = {}
    /\ n = [p \in Client |-> 0]
    /\ req \in [Client -> Request]
    /\ ans = [p \in Client |-> NoAnswer]

ServiceNext ==
    \/ \E p \in Client : Read(p) \/ Ask(p) \/ Succeed(p) \/ Refuse(p)
    \/ \E c \in open : Commit(c) \/ Forget(c)

ServiceSpec == ServiceInit /\ [][ServiceNext]_serviceVars
=============================================================================
