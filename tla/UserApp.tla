------------------------------- MODULE UserApp -------------------------------
(***************************************************************************)
(* The server side of the user app, ui/nats-kv-user/src/lib.rs.  It is    *)
(* stateless: an answer depends on the request and on the gate token of    *)
(* the moment (a Spin variable that the operator rotates), so it is made   *)
(* of operators here.  (Of the admin app's gate, AdminPage keeps whether   *)
(* it lets the administrator in.)                                          *)
(*                                                                         *)
(* A request is a record: path (a class of paths), cookie and access (the  *)
(* gate token in the cookie jar and after "access=" in the query, None if  *)
(* there is none), and for API calls the call itself.                      *)
(***************************************************************************)
EXTENDS Naturals, Sequences, FiniteSets

CONSTANTS
    None,       \* no token, no cookie, no key
    Demo,       \* FALLBACK_TOKEN, the public key of the demo tenant
    Token       \* gate tokens

ASSUME UserAppAssumption == Token # {} /\ None \notin Token

\* An answer to a navigation; set holds the cookie it sets, if it sets one.
Answer(status, page, set) == [status |-> status, page |-> page, set |-> set]
-----------------------------------------------------------------------------
\* The cookie, or any ?access= parameter.
IsUiAuthed(req, gate) == req.cookie = gate \/ req.access = gate

IsPublicPath(path) ==
    path \in {"/health", "/api/request-invite", "/logout", "/docs", "/api-explorer",
              "/openapi.yaml", "/claim/", "/static/"}

\* Nobody without the token gets past the gate ...
Gated(req, gate) == ~IsPublicPath(req.path) /\ ~IsUiAuthed(req, gate)

\* ... and whoever brought it in the query is sent to the bare path with a cookie.
Redirected(req, gate) ==
    ~IsPublicPath(req.path) /\ IsUiAuthed(req, gate) /\ req.access # None

\* Mutants: the claim page leaves the cookie alone, logging out keeps it.
HandleNoClaimCookie(req, gate) ==
    CASE Gated(req, gate)         -> Answer(200, "gate", {})
      [] Redirected(req, gate)    -> Answer(302, req.path, {gate})
      [] req.path = "/logout"     -> Answer(200, "/logout", {None})
      [] OTHER                    -> Answer(200, req.path, {})

HandleNoLogout(req, gate) ==
    CASE Gated(req, gate)         -> Answer(200, "gate", {})
      [] Redirected(req, gate)    -> Answer(302, req.path, {gate})
      [] req.path = "/claim/"     -> Answer(200, "/claim/", {gate})
      [] OTHER                    -> Answer(200, req.path, {})

\* A navigation.  The gate page is an HTML page with status 200.
Handle(req, gate) ==
    CASE Gated(req, gate)         -> Answer(200, "gate", {})
      [] Redirected(req, gate)    -> Answer(302, req.path, {gate})
      [] req.path = "/claim/"     -> Answer(200, "/claim/", {gate})
      [] req.path = "/logout"     -> Answer(200, "/logout", {None})
      [] OTHER                    -> Answer(200, req.path, {})

\* What an answer leaves in a cookie jar.
Jar(jar, answer) == IF answer.set = {} THEN {jar} ELSE answer.set

\* An API call that reaches its backend; any other gets HTML or a redirect to HTML.
Reaches(req, gate) == ~Gated(req, gate) /\ ~Redirected(req, gate)

-----------------------------------------------------------------------------
CallerBearer(req) == IF req.key = None THEN Demo ELSE req.key

\* Mutant: the preconditions are not passed on.
CallNatsPlain(req) ==
    [key |-> CallerBearer(req), method |-> req.method, item |-> req.item, body |-> req.body,
     ttlQuery |-> req.ttlQuery, ttlHeader |-> FALSE, ifMatch |-> 0, ifNone |-> FALSE]

\* The call the adapter gets: method, path, query, body, the caller's key or the demo
\* key, and of the headers If-Match, If-None-Match and Content-Type.
CallNats(req) ==
    [key |-> CallerBearer(req), method |-> req.method, item |-> req.item, body |-> req.body,
     ttlQuery |-> req.ttlQuery, ttlHeader |-> FALSE,
     ifMatch |-> req.ifMatch, ifNone |-> req.ifNone]

\* The managed store has keys only: the store afterwards, the status, the bytes.  When
\* it cannot be opened, or refuses, that is told with status 500.
CosmosError(store) == [store |-> store, status |-> 500, body |-> << >>]

CallCosmos(store, req) ==
    CASE req.method = "PUT"    -> [store |-> [store EXCEPT ![req.item] = req.body],
                                   status |-> 200, body |-> << >>]
      [] req.method = "DELETE" -> [store |-> [store EXCEPT ![req.item] = << >>],
                                   status |-> 200, body |-> << >>]
      [] req.method = "GET"    -> [store |-> store, status |-> 200, body |-> store[req.item]]
      [] OTHER                 -> CosmosError(store)

-----------------------------------------------------------------------------
Pad == 64   \* the character "="

\* What a digit, and a byte, of a group of 24 bits counts.
DigitWeight == <<262144, 4096, 64, 1>>
ByteWeight == <<65536, 256, 1>>

\* The q-th group of three bytes, zeros after the end.
ByteGroup(data, q) ==
    LET At(i) == IF i <= Len(data) THEN data[i] ELSE 0
    IN  65536 * At(3 * q + 1) + 256 * At(3 * q + 2) + At(3 * q + 3)

\* Mutant: a tail of two bytes is padded like a tail of one.
B64EncodeShort(data) ==
    [p \in 1 .. 4 * ((Len(data) + 2) \div 3) |->
        LET q == (p - 1) \div 4
            d == (p - 1) % 4
        IN  IF d >= 2 /\ 3 * q + 3 > Len(data) THEN Pad
            ELSE (ByteGroup(data, q) \div DigitWeight[d + 1]) % 64]

\* b64encode: groups of three bytes as four digits; a short tail is padded.
B64Encode(data) ==
    [p \in 1 .. 4 * ((Len(data) + 2) \div 3) |->
        LET q == (p - 1) \div 4
            d == (p - 1) % 4
        IN  IF 3 * q + d > Len(data) THEN Pad
            ELSE (ByteGroup(data, q) \div DigitWeight[d + 1]) % 64]

\* atob of the browser.
DigitGroup(code, q) ==
    LET Digit(i) == IF code[i] = Pad THEN 0 ELSE code[i]
    IN  262144 * Digit(4 * q + 1) + 4096 * Digit(4 * q + 2) + 64 * Digit(4 * q + 3)
        + Digit(4 * q + 4)

Atob(code) ==
    [i \in 1 .. 3 * (Len(code) \div 4) - Cardinality({p \in DOMAIN code : code[p] = Pad}) |->
        (DigitGroup(code, (i - 1) \div 3) \div ByteWeight[((i - 1) % 3) + 1]) % 256]

=============================================================================
