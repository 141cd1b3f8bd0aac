-------------------------------- MODULE Proxy --------------------------------
(***************************************************************************)
(* API calls through the user app (ui/nats-kv-user/src/lib.rs, /api/nats   *)
(* and /api/cosmos): the gate, the call to the backend, and the JSON       *)
(* envelope that the caller unwraps.  The gate token may be rotated, the   *)
(* backends may fail, and calls may be lost on either side of their effect *)
(* or go on after their caller was told of a failure.  DirectKV is what    *)
(* the same caller would be promised without the app in between.           *)
(***************************************************************************)
EXTENDS UserApp

CONSTANTS
    Client, Item, Request, MaxRev,
    Orphan,     \* calls that go on after their callers were told of a failure
    MayFail     \* may backends fail and calls get lost

ASSUME ProxyAssumption ==
    /\ MayFail \in BOOLEAN /\ MaxRev \in Nat
    /\ Request \subseteq
        [path : {"/api/nats", "/api/cosmos"}, access : Token \cup {None},
         key : {r.key : r \in Request}, method : {"GET", "PUT", "DELETE"}, item : Item,
         body : Seq(0 .. 255), ifMatch : Nat, ifNone : BOOLEAN, ttlQuery : BOOLEAN,
         ttlHeader : BOOLEAN]

\* No call, no answer.
Nothing == [status |-> 0, rev |-> 0, body |-> << >>]

VARIABLES
    cells, last, cosmos,    \* the backends
    calls,      \* [Client -> its call: at is "idle", "app", "nats" or "store" (past the
                \* gate), "served" or "done"; cookie is the one it brings to the gate]
    orphans,    \* [Orphan -> a request, or Nothing]
    uiGate,     \* ui_gate_token
    jars        \* [Client -> the gate cookie it sends, or None]

proxyVars == <<cells, last, cosmos, calls, orphans, uiGate, jars>>

\* The call as a direct caller makes it: without a key of its own, with the demo key.
AsKeyed(r) == IF r = Nothing THEN r ELSE [r EXCEPT !.key = CallerBearer(r)]

\* What a direct caller sees of call k.
AsDirect(k) ==
    [at |-> IF k.at \in {"app", "nats", "store"} THEN "open" ELSE k.at,
     req |-> AsKeyed(k.req),
     told |-> IF k.at = "served" THEN k.env ELSE k.told]

Direct == INSTANCE DirectKV WITH Nobody <- None, Request <- {AsKeyed(r) : r \in Request},
                                 calls <- [c \in Client |-> AsDirect(calls[c])],
                                 orphans <- [o \in Orphan |-> AsKeyed(orphans[o])]

NoCall == [at |-> "idle", req |-> Nothing, cookie |-> None, up |-> Nothing, env |-> Nothing,
           told |-> Nothing]
Done(told) == [NoCall EXCEPT !.at = "done", !.told = told]

\* What a client reads from an envelope.
Unwrap(env) == [env EXCEPT !.body = Atob(env.body)]
-----------------------------------------------------------------------------
ProxyInit ==
    /\ cells = [k \in Item |-> Direct!NoCell]
    /\ last = 0
    /\ cosmos = [k \in Item |-> << >>]
    /\ calls = [c \in Client |-> NoCall]
    /\ orphans = [o \in Orphan |-> Nothing]
    /\ uiGate \in Token
    /\ jars = [c \in Client |-> None]

AskApp(c, r) ==
    /\ calls[c].at \in {"idle", "done"}
    /\ calls' = [calls EXCEPT ![c] = [NoCall EXCEPT !.at = "app", !.req = r, !.cookie = jars[c]]]
    /\ UNCHANGED <<cells, last, cosmos, orphans, uiGate, jars>>

\* Call k as the gate sees it.
AtGate(k) == [path |-> k.req.path, cookie |-> k.cookie, access |-> k.req.access]

\* A call that does not reach its backend is answered with HTML, which is no JSON; one
\* with ?access= gets the cookie as well.
Turned(c) ==
    /\ calls[c].at = "app"
    /\ ~Reaches(AtGate(calls[c]), uiGate)
    /\ \E jar \in Jar(jars[c], Handle(AtGate(calls[c]), uiGate)) :
        jars' = [jars EXCEPT ![c] = jar]
    /\ calls' = [calls EXCEPT ![c] = Done(Nothing)]
    /\ UNCHANGED <<cells, last, cosmos, orphans, uiGate>>

\* /api/nats: the adapter takes the call that CallNats makes of it; /api/cosmos: the
\* managed store is called.
Forward(c) ==
    LET r == calls[c].req
        up == IF r.path = "/api/nats" THEN CallNats(r) ELSE Nothing
        to == IF r.path = "/api/nats" THEN "nats" ELSE "store" IN
    /\ calls[c].at = "app"
    /\ Reaches(AtGate(calls[c]), uiGate)
    /\ calls' = [calls EXCEPT ![c] = [@ EXCEPT !.at = to, !.cookie = None, !.up = up]]
    /\ UNCHANGED <<cells, last, cosmos, orphans, uiGate, jars>>

\* The status, revision and body of the adapter's answer go into the envelope ...
Adapter(c) ==
    LET up == calls[c].up
        a == Direct!Told(up, cells[up.item]) IN
    /\ calls[c].at = "nats"
    /\ Direct!Takes(up)
    /\ calls' = [calls EXCEPT ![c] = [@ EXCEPT !.at = "served", !.env = a]]
    /\ UNCHANGED <<orphans, uiGate, jars>>

\* ... as do the status and the body of the store's.
Managed(c) ==
    LET s == CallCosmos(cosmos, calls[c].req) IN
    /\ calls[c].at = "store"
    /\ cosmos' = s.store
    /\ calls' = [calls EXCEPT ![c] =
            [@ EXCEPT !.at = "served",
                      !.env = [status |-> s.status, rev |-> 0, body |-> s.body]]]
    /\ UNCHANGED <<cells, last, orphans, uiGate, jars>>

\* The envelope arrives; its body is base64.
Receive(c) ==
    LET env == calls[c].env IN
    /\ calls[c].at = "served"
    /\ calls' = [calls EXCEPT ![c] = Done(Unwrap([env EXCEPT !.body = B64Encode(env.body)]))]
    /\ UNCHANGED <<cells, last, cosmos, orphans, uiGate, jars>>

\* A backend that fails says so in the envelope: the adapter 412 for a PUT that it could
\* not publish and 500 else, the managed store 500.
Errors(k) ==
    {[k EXCEPT !.at = "served", !.env = [Nothing EXCEPT !.status = s]] :
        s \in CASE k.at = "nats" -> Direct!Failures(k.req)
                [] k.at = "store" -> {CosmosError(cosmos).status}
                [] OTHER -> {}}

\* What call k becomes when it fails for its caller: the backend refuses it, or it is
\* lost on the way, and the app (or nobody) answers 500 without an envelope.
Endings(k) == {Done(Nothing)} \cup Errors(k)

\* The call fails, and has no effect any more ...
Lose(c) ==
    /\ MayFail
    /\ calls[c].at \in {"app", "nats", "store", "served"}
    /\ \E k \in Endings(calls[c]) : calls' = [calls EXCEPT ![c] = k]
    /\ UNCHANGED <<cells, last, cosmos, orphans, uiGate, jars>>

\* ... or, past the gate, it fails for its caller and goes on.  (Of a GET nothing can come
\* late, and a PUT told 500 found no bucket.)
Abandon(c, o) ==
    /\ MayFail
    /\ calls[c].at \in {"nats", "store"} /\ orphans[o] = Nothing
    /\ calls[c].req.method # "GET"
    /\ orphans' = [orphans EXCEPT ![o] = calls[c].req]
    /\ \E k \in Endings(calls[c]) :
        /\ calls[c].at = "nats" /\ k.env.status = 500 => calls[c].up.method # "PUT"
        /\ calls' = [calls EXCEPT ![c] = k]
    /\ UNCHANGED <<cells, last, cosmos, uiGate, jars>>

\* A call whose caller has given up takes effect after all, or never does.
Late(o) ==
    LET r == orphans[o] IN
    /\ r # Nothing
    /\ IF r.path = "/api/nats"
       THEN Direct!Takes(CallNats(r))
       ELSE cosmos' = CallCosmos(cosmos, r).store /\ UNCHANGED <<cells, last>>
    /\ orphans' = [orphans EXCEPT ![o] = Nothing]
    /\ UNCHANGED <<calls, uiGate, jars>>

Never(o) ==
    /\ orphans[o] # Nothing
    /\ orphans' = [orphans EXCEPT ![o] = Nothing]
    /\ UNCHANGED <<cells, last, cosmos, calls, uiGate, jars>>

RotateUi(g) ==
    /\ uiGate # g
    /\ uiGate' = g
    /\ UNCHANGED <<cells, last, cosmos, calls, orphans, jars>>

ProxyNext ==
    \/ \E c \in Client :
        \/ \E r \in Request : AskApp(c, r)
        \/ Turned(c) \/ Forward(c) \/ Adapter(c) \/ Managed(c) \/ Receive(c) \/ Lose(c)
        \/ \E o \in Orphan : Abandon(c, o)
    \/ \E o \in Orphan : Late(o) \/ Never(o)
    \/ \E g \in Token : RotateUi(g)
-----------------------------------------------------------------------------
(* The backends, calls and gate cookies keep their types. *)
ProxyTypeOK ==
    /\ last \in 0 .. MaxRev
    /\ \A k \in Item : cells[k].rev \in 0 .. last
    /\ \A c \in Client : /\ calls[c].at \in {"idle", "app", "nats", "store", "served", "done"}
                         /\ calls[c].told.rev \in 0 .. last
    /\ orphans \in [Orphan -> Request \cup {Nothing}]
    /\ uiGate \in Token /\ jars \in [Client -> Token \cup {None}]

(* The app adds nothing and hides nothing: whatever is rotated, fails or is lost, a
   caller of /api/nats and /api/cosmos gets what a direct caller of the backend is
   promised, preconditions and bytes included.  (For calls without X-TTL-Seconds.) *)
ImplementsDirect == Direct!DirectSpec
=============================================================================
