------------------------------- MODULE Session -------------------------------
(***************************************************************************)
(* One browser at the user app (ui/nats-kv-user/src/lib.rs): its tabs      *)
(* share a cookie jar (the gate cookie) and localStorage (the API key and  *)
(* its tenant).  Tabs load pages, claim an invite, save or clear a key and *)
(* log out, while the operator rotates the gate token.  A request, its     *)
(* handling and the arrival of its answer are separate steps; the script   *)
(* of a page runs its handlers one at a time, each to its end.  A handler  *)
(* that stores the key and then the tenant makes two calls, and what the   *)
(* handlers of other tabs store may come in between.                       *)
(*                                                                         *)
(* The control plane is seen from the page: a claim is refused, or it is   *)
(* granted with a fresh pair of a key and a tenant (Tenancy has the rest). *)
(***************************************************************************)
EXTENDS UserApp

CONSTANTS
    Tab,
    Pair,       \* the pairs of key and tenant that claims are granted
    Path        \* what is visited

ASSUME SessionAssumption == None \notin Pair

VARIABLES
    gate,       \* ui_gate_token
    jar,        \* the gate cookie, or None
    store,      \* localStorage: whose key, and whose tenant
    issued,     \* the pairs granted so far
    tabs,       \* [Tab -> its state]
    out         \* history: logged out, and no cookie has come since

sessionVars == <<gate, jar, store, issued, tabs, out>>

NoReq == [path |-> None, cookie |-> None, access |-> None]
NoStore == [key |-> None, tenant |-> None]

\* A tab: at is "shown", "writing" (a handler has stored its key and not yet its
\* tenant), "sent" or "served"; the tenant still to store (None: to remove; {}: to
\* leave) and the page loaded after it, if any; req and ans are the navigation under
\* way; claim button and the claims granted to the page whose answer is on its way; the
\* logout dialog with the key it shows; as history, was the request sent after logging
\* out, and has nothing since it was handled undone the cookie it set.
Blank == [at |-> "shown", page |-> "blank", req |-> NoReq, ans |-> Answer(0, None, {}),
          tenant |-> {}, next |-> None, button |-> FALSE, got |-> {}, modal |-> FALSE, modalKey |-> None,
          sentOut |-> FALSE, quiet |-> FALSE]

\* The page that is open, also while a handler of it runs.
Open(t) == tabs[t].at \in {"shown", "writing"}

\* Pages behind the gate.
Needs(page) == page # "gate" /\ ~IsPublicPath(page)

Sends(t, path, access, cookie, o) ==
    [Blank EXCEPT !.at = "sent", !.sentOut = o,
                  !.req = [path |-> path, cookie |-> cookie, access |-> access]]
-----------------------------------------------------------------------------
SessionInit ==
    /\ gate \in Token
    /\ jar = None
    /\ store = NoStore
    /\ issued = {}
    /\ tabs = [t \in Tab |-> Blank]
    /\ out = FALSE

\* A link, the address bar, or a token pasted into the gate page: the old page and what
\* it was waiting for are gone.
Navigate(t, path, access) ==
    /\ tabs[t].at = "shown"
    /\ access # None => ~IsPublicPath(path)     \* a public path ignores it
    /\ tabs' = [tabs EXCEPT ![t] = Sends(t, path, access, jar, out)]
    /\ UNCHANGED <<gate, jar, store, issued, out>>

Serve(t) ==
    /\ tabs[t].at = "sent"
    /\ tabs' = [tabs EXCEPT ![t].at = "served", ![t].ans = Handle(tabs[t].req, gate),
                           ![t].req = [NoReq EXCEPT !.access = tabs[t].req.access],
                           ![t].quiet = ~Needs(tabs[t].req.path)]
    /\ UNCHANGED <<gate, jar, store, issued, out>>

\* The answer arrives: its cookie goes into the jar, a redirect is followed to the bare
\* path, anything else is shown.
Arrive(t) ==
    LET ans == tabs[t].ans IN
    /\ tabs[t].at = "served"
    /\ jar' \in Jar(jar, ans)
    /\ out' = (ans.page = "/logout" \/ (out /\ ans.set = {}))
    /\ LET others == [s \in Tab |-> [tabs[s] EXCEPT
                           !.quiet = @ /\ (~Open(s) \/ ans.set \subseteq {gate})]]
       IN tabs' = [others EXCEPT ![t] =
                IF ans.status = 302 THEN Sends(t, ans.page, None, jar', out')
                ELSE [Blank EXCEPT !.page = ans.page, !.button = ans.page = "/claim/",
                                   !.sentOut = tabs[t].sentOut /\ Needs(ans.page),
                                   !.quiet = tabs[t].quiet /\ ans.page = "/claim/"]]
    /\ UNCHANGED <<gate, store, issued>>

RotateGate(g) ==
    /\ gate # g
    /\ gate' = g
    /\ tabs' = [t \in Tab |-> [tabs[t] EXCEPT !.quiet = FALSE]]
    /\ UNCHANGED <<jar, store, issued, out>>

-----------------------------------------------------------------------------
Shows(t, page) == tabs[t].at = "shown" /\ tabs[t].page = page /\ ~tabs[t].modal

\* A call of the claim page to the control plane gets through the gate.
Through == Reaches([path |-> "/api/control", cookie |-> jar, access |-> None], gate)

\* check: an invite that is not valid disables the button; without the gate cookie the
\* answer is no JSON and nothing changes.
CheckInvite(t) ==
    /\ Shows(t, "/claim/") /\ Through
    /\ tabs' = [tabs EXCEPT ![t].button = FALSE]
    /\ UNCHANGED <<gate, jar, store, issued, out>>

\* doClaim, when it is granted; otherwise nothing changes.  Nothing keeps the button
\* from being pressed again while an answer is out ...
DoClaim(t) ==
    /\ Shows(t, "/claim/") /\ tabs[t].button
    /\ Through
    /\ \E p \in Pair \ issued :
        /\ issued' = issued \cup {p}
        /\ tabs' = [tabs EXCEPT ![t].got = @ \cup {p}]
    /\ UNCHANGED <<gate, jar, store, out>>

\* A handler stores or removes key k and goes on to the tenant; then the page next is
\* loaded.
WriteKey(t, k, tenant, next) ==
    /\ store' = [store EXCEPT !.key = k]
    /\ tabs' = [tabs EXCEPT ![t].at = "writing", ![t].tenant = tenant, ![t].next = next]

WriteTenant(t) ==
    /\ tabs[t].at = "writing"
    /\ \E n \in IF tabs[t].tenant = {} THEN {store.tenant} ELSE tabs[t].tenant :
          store' = [store EXCEPT !.tenant = n]
    /\ tabs' = [tabs EXCEPT ![t] =
           IF tabs[t].next = None THEN [tabs[t] EXCEPT !.at = "shown", !.tenant = {}]
           ELSE Sends(t, tabs[t].next, None, jar, out)]
    /\ UNCHANGED <<gate, jar, issued, out>>

\* ... and the answer, in whatever order two of them arrive, goes into localStorage.
ClaimAnswered(t, p) ==
    /\ tabs[t].at = "shown" /\ p \in tabs[t].got
    /\ store' = [store EXCEPT !.key = p]
    /\ tabs' = [tabs EXCEPT ![t].at = "writing", ![t].tenant = {p}, ![t].got = @ \ {p}]
    /\ UNCHANGED <<gate, jar, issued, out>>

-----------------------------------------------------------------------------
\* saveKey on the home page: a field left empty keeps what is stored.  Then reload.
SaveKey(t, k, n) ==
    /\ Shows(t, "/")
    /\ WriteKey(t, IF k = None THEN store.key ELSE k, {n} \ {None}, "/")
    /\ UNCHANGED <<gate, jar, issued, out>>

ClearKey(t) ==
    /\ Shows(t, "/")
    /\ WriteKey(t, None, {None}, "/")
    /\ UNCHANGED <<gate, jar, issued, out>>

HasNav(page) == page \notin {"blank", "gate", "/logout"}

\* confirmLogout: a dialog that shows the key stored now.
ConfirmLogout(t) ==
    /\ tabs[t].at = "shown" /\ HasNav(tabs[t].page) /\ ~tabs[t].modal
    /\ tabs' = [tabs EXCEPT ![t].modal = TRUE, ![t].modalKey = store.key]
    /\ UNCHANGED <<gate, jar, store, issued, out>>

CancelLogout(t) ==
    /\ tabs[t].at = "shown" /\ tabs[t].modal
    /\ tabs' = [tabs EXCEPT ![t].modal = FALSE, ![t].modalKey = None]
    /\ UNCHANGED <<gate, jar, store, issued, out>>

\* Log out: if the dialog showed a key and the box is ticked, what is stored by now is
\* wiped; then /logout is loaded, which clears the cookie.
LogOut(t, wipe) ==
    /\ tabs[t].at = "shown" /\ tabs[t].modal
    /\ \/ /\ wipe /\ tabs[t].modalKey # None
          /\ WriteKey(t, None, {None}, "/logout")
       \/ /\ ~(wipe /\ tabs[t].modalKey # None)
          /\ tabs' = [tabs EXCEPT ![t] = Sends(t, "/logout", None, jar, out)]
          /\ UNCHANGED store
    /\ UNCHANGED <<gate, jar, issued, out>>

-----------------------------------------------------------------------------
Browser(t) == Serve(t) \/ Arrive(t) \/ WriteTenant(t)

User(t) ==
    \/ \E path \in Path, access \in Token \cup {None} : Navigate(t, path, access)
    \/ CheckInvite(t) \/ DoClaim(t) \/ (\E p \in Pair : ClaimAnswered(t, p))
    \/ (\E k, n \in issued \cup {None} : SaveKey(t, k, n)) \/ ClearKey(t)
    \/ ConfirmLogout(t) \/ CancelLogout(t) \/ (\E wipe \in BOOLEAN : LogOut(t, wipe))

SessionNext == (\E t \in Tab : Browser(t) \/ User(t)) \/ (\E g \in Token : RotateGate(g))

SessionSpec == SessionInit /\ [][SessionNext]_sessionVars
-----------------------------------------------------------------------------
(* The browser keeps what the app gave it: cookies are tokens, and nothing is stored or shown
   that was not issued. *)
SessionTypeOK ==
    /\ gate \in Token /\ jar \in Token \cup {None}
    /\ store \in [key : Pair \cup {None}, tenant : Pair \cup {None}]
    /\ issued \subseteq Pair /\ {store.key, store.tenant} \subseteq issued \cup {None}
    /\ \A t \in Tab :
        /\ tabs[t].at \in {"shown", "writing", "sent", "served"}
        /\ tabs[t].tenant \subseteq issued \cup {None}
        /\ tabs[t].page \in {"blank", "gate"} \cup Path \cup {"/logout", "/"}
        /\ tabs[t].got \subseteq issued
        /\ tabs[t].modalKey \in issued \cup {None}

(* The claim page can claim: it is open to anybody, the calls it makes are not.  Unless
   the token was rotated or another answer replaced the cookie since it was served,
   they get through, whatever other tabs do. *)
ClaimPageWorks == \A t \in Tab : Shows(t, "/claim/") /\ tabs[t].quiet => Through

(* Logged out is out: a request sent after the logout page came, and before any answer
   brought a cookie again, shows nothing that is gated. *)
LoggedOutIsOut ==
    \A t \in Tab : Open(t) /\ tabs[t].sentOut => ~Needs(tabs[t].page)

(* Every navigation ends with a page, also when it is redirected and when the token is
   rotated on the way: no redirect leads back to itself. *)
NavigationEnds == \A t \in Tab : tabs[t].at # "shown" ~> tabs[t].at = "shown"
=============================================================================
