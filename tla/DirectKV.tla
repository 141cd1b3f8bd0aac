------------------------------ MODULE DirectKV ------------------------------
(***************************************************************************)
(* What a caller of the HTTP API is promised when it talks to an adapter   *)
(* itself (internal/adapter/server.go): a call takes effect at most once,  *)
(* as it was asked, and a success that it is told is what happened.  A     *)
(* call that fails promises nothing: it may have had its effect, have none *)
(* or have it later, in the middle of the caller's next ones.  AdapterKV   *)
(* models the inside of the adapter; here a call is one step on the cell   *)
(* of its key, and reads are current.                                      *)
(***************************************************************************)
EXTENDS Naturals, Sequences

CONSTANTS
    Client,     \* callers, one call at a time
    Orphan,     \* calls that go on after their callers were told of a failure
    Item,       \* keys of the bucket
    Nobody,     \* no API key
    Request,    \* the calls made
    MaxRev      \* bound: writes stored

VARIABLES
    cells,      \* [Item -> the newest message of the key]
    last,       \* the stream's last sequence number
    cosmos,     \* [Item -> bytes], the other backend
    calls,      \* [Client -> its call]
    orphans     \* [Orphan -> a request, or Silence]

directVars == <<cells, last, cosmos, calls, orphans>>

NoCell == [rev |-> 0, by |-> Nobody, body |-> << >>, ttl |-> FALSE, del |-> FALSE]
Silence == [status |-> 0, rev |-> 0, body |-> << >>]     \* nothing a client can read
Idle == [at |-> "idle", req |-> Silence, told |-> Silence]

Message(r, body, del) ==
    [rev |-> last + 1, by |-> r.key, body |-> body, del |-> del,
     ttl |-> ~del /\ (r.ttlHeader \/ r.ttlQuery)]

\* The precondition of a PUT; with a TTL, If-None-Match is an expected sequence of 0.
Holds(r, cell) ==
    IF r.ifNone
    THEN cell.rev = 0 \/ (cell.del /\ ~(r.ttlHeader \/ r.ttlQuery))
    ELSE r.ifMatch = 0 \/ r.ifMatch = cell.rev

Stored(r, cell) ==
    CASE r.method = "PUT" /\ Holds(r, cell) -> Message(r, r.body, FALSE)
      [] r.method = "DELETE"                -> Message(r, << >>, TRUE)
      [] OTHER                              -> cell

Told(r, cell) ==
    CASE r.method = "GET" /\ (cell.rev = 0 \/ cell.del) -> [Silence EXCEPT !.status = 404]
      [] r.method = "GET" /\ cell.rev # 0 /\ ~cell.del ->
            [status |-> 200, rev |-> cell.rev, body |-> cell.body]
      [] r.method = "PUT" /\ ~Holds(r, cell) -> [Silence EXCEPT !.status = 412]
      [] r.method = "PUT" /\ Holds(r, cell) -> [Silence EXCEPT !.status = 200, !.rev = last + 1]
      [] OTHER -> [Silence EXCEPT !.status = 204]

\* Call r takes effect on the cell of its key.
Takes(r) ==
    /\ Stored(r, cells[r.item]) # cells[r.item] => last < MaxRev
    /\ cells' = [cells EXCEPT ![r.item] = Stored(r, @)]
    /\ last' = IF Stored(r, cells[r.item]) # cells[r.item] THEN last + 1 ELSE last
    /\ UNCHANGED cosmos

CosmosTakes(r) ==
    /\ cosmos' = [cosmos EXCEPT ![r.item] = CASE r.method = "PUT" -> r.body
                                              [] r.method = "DELETE" -> << >>
                                              [] OTHER -> @]
    /\ UNCHANGED <<cells, last>>

CosmosTold(r) ==
    [Silence EXCEPT !.status = 200, !.body = IF r.method = "GET" THEN cosmos[r.item] ELSE << >>]

\* What a call is told that fails; a PUT is told 412 whatever the error was.
Failures(r) == IF r.path = "/api/nats" /\ r.method = "PUT" THEN {412, 500} ELSE {500}
-----------------------------------------------------------------------------
DirectInit ==
    /\ cells = [k \in Item |-> NoCell]
    /\ last = 0
    /\ cosmos = [k \in Item |-> << >>]
    /\ calls = [c \in Client |-> Idle]
    /\ orphans = [o \in Orphan |-> Silence]

Call(c, r) ==
    /\ calls[c].at \in {"idle", "done"}
    /\ calls' = [calls EXCEPT ![c] = [at |-> "open", req |-> r, told |-> Silence]]
    /\ UNCHANGED <<cells, last, cosmos, orphans>>

Effect(r) == IF r.path = "/api/nats" THEN Takes(r) ELSE CosmosTakes(r)

Serve(c) ==
    LET r == calls[c].req IN
    /\ calls[c].at = "open"
    /\ Effect(r)
    /\ calls' = [calls EXCEPT ![c] =
            [@ EXCEPT !.at = "served",
                      !.told = IF r.path = "/api/nats" THEN Told(r, cells[r.item])
                               ELSE CosmosTold(r)]]
    /\ UNCHANGED orphans

Return(c) ==
    /\ calls[c].at \in {"open", "served"}
    /\ \E told \in {Silence, calls[c].told} :
        calls' = [calls EXCEPT ![c] = [Idle EXCEPT !.at = "done", !.told = told]]
    /\ UNCHANGED <<cells, last, cosmos, orphans>>

\* What call k becomes when its caller hears nothing, or is told of a failure.
Endings(k) ==
    {[Idle EXCEPT !.at = "done"]}
    \cup {[k EXCEPT !.at = "served", !.told = [Silence EXCEPT !.status = s]] : s \in Failures(k.req)}

\* The call fails, and has no effect any more ...
Fail(c) ==
    /\ calls[c].at = "open"
    /\ \E k \in Endings(calls[c]) : calls' = [calls EXCEPT ![c] = k]
    /\ UNCHANGED <<cells, last, cosmos, orphans>>

\* ... or it fails for its caller and goes on.
Abandon(c, o) ==
    /\ calls[c].at = "open" /\ orphans[o] = Silence
    /\ \E k \in Endings(calls[c]) : calls' = [calls EXCEPT ![c] = k]
    /\ orphans' = [orphans EXCEPT ![o] = calls[c].req]
    /\ UNCHANGED <<cells, last, cosmos>>

\* A call whose caller has given up takes effect after all, or never does.
Late(o) ==
    /\ orphans[o] # Silence
    /\ Effect(orphans[o])
    /\ orphans' = [orphans EXCEPT ![o] = Silence]
    /\ UNCHANGED calls

Never(o) ==
    /\ orphans' = [orphans EXCEPT ![o] = Silence]
    /\ UNCHANGED <<cells, last, cosmos, calls>>

\* Nothing happens, or a call goes on (in this order for TLC's sake).
DirectNext ==
    \/ UNCHANGED directVars
    \/ \E c \in Client :
        \/ Serve(c) \/ Return(c) \/ Fail(c)
        \/ \E o \in Orphan : Abandon(c, o)
        \/ \E r \in Request : Call(c, r)
    \/ \E o \in Orphan : Late(o) \/ Never(o)

DirectSpec == DirectInit /\ [][DirectNext]_directVars
=============================================================================
