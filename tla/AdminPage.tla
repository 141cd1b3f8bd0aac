------------------------------ MODULE AdminPage ------------------------------
(***************************************************************************)
(* The page of the admin app (ui/nats-kv-admin/src/lib.rs, the script of   *)
(* INDEX_HTML): tables of invites and tenants, with buttons that call the  *)
(* control plane through the app and then load the table again.  Nothing   *)
(* disables a button; calls overlap, fail with or without their effect, or *)
(* are turned away by the gate.  Tenancy has what the control plane does;  *)
(* here an operation is one step, except that its reads of the tenants may *)
(* be answered by a replica that lags.  One administrator has the page     *)
(* open.  Requests for an invite are in InviteRequests.                    *)
(***************************************************************************)
EXTENDS UserApp, FiniteSets

CONSTANTS
    Invite, Tenant,
    MaxCalls    \* bound: calls under way, also those that the page has given up

ASSUME AdminPageAssumption == MaxCalls \in Nat \ {0, 1}

VARIABLES
    admitted,   \* is the gate cookie the admin_gate_token of the moment
    invites,    \* control plane: "new", "open", "claimed" or "revoked"
    tenants,    \* control plane: "new", "active", "suspended" or "gone"
    past,       \* history: what a tenant has been, any of which a replica may answer
    joined,     \* history: tenants that came since the tenants were last listed
    inCalls,    \* calls under way; at is "sent", "done", or "adrift" when the page has
                \* been told of a failure and the control plane still has it
    inviteRows, \* the table of invites: those that were open
    tenantRows, \* the table of tenants: pairs of a tenant and its status
    stale       \* history: tables whose last calls failed, overlapped or read old records

adminServer == <<invites, tenants, past>>
adminTables == <<inviteRows, tenantRows>>
adminVars == <<admitted, adminServer, joined, inCalls, adminTables, stale>>

Tables == {"invites", "tenants"}
TableOf(op) == IF op \in {"invites", "create", "revoke"} THEN "invites" ELSE "tenants"
Is(status) == {i \in Invite : invites[i] = status}

\* The tenants that have a record, of those that are as seen says.
Known == {"active", "suspended"}
ListOf(seen) == {<<t, seen[t]>> : t \in {u \in Tenant : seen[u] \in Known}}
TenantList == ListOf(tenants)

\* What reads of the tenants may be answered with.
Views == {seen \in [Tenant -> {"new", "active", "suspended", "gone"}] :
            \A t \in Tenant : seen[t] \in past[t]}

\* A call, and the list it is answered with.
Call(id, op, arg) == [id |-> id, op |-> op, arg |-> arg, at |-> "sent", ok |-> TRUE, list |-> {}]
PageLoad(i, j) == {Call(i, "tenants", None), Call(j, "invites", None)}
Mine(cs) == {c \in cs : c.at # "adrift"}

\* The first id that is free among cs, if any is.
Free(cs) ==
    {i \in 1 .. MaxCalls : /\ \A c \in cs : c.id # i
                          /\ \A j \in 1 .. i - 1 : \E c \in cs : c.id = j}
-----------------------------------------------------------------------------
\* authFetch, next to the calls in others.  A table is stale while it has several calls
\* under way, until it is loaded by a call of its own.
AuthFetch(op, arg, others) ==
    LET t == TableOf(op)
        alone == \A c \in Mine(others) : TableOf(c.op) # t IN
    /\ \E i \in Free(others) : inCalls' = others \cup {Call(i, op, arg)}
    /\ stale' = CASE ~alone -> stale \cup {t}
                  [] alone /\ op \in Tables -> stale \ {t}
                  [] OTHER -> stale

\* The buttons above the tables, and those of their rows; confirm() blocks the page.
Click ==
    /\ \/ \E op \in Tables : AuthFetch(op, None, inCalls)
       \/ \E i \in Is("new") : AuthFetch("create", i, inCalls)
       \/ \E i \in inviteRows : AuthFetch("revoke", i, inCalls)
       \/ \E r \in tenantRows : \E op \in {"regen", "delete",
                                           IF r[2] = "active" THEN "suspend" ELSE "unsuspend"} :
            AuthFetch(op, r[1], inCalls)
    /\ UNCHANGED <<admitted, adminServer, joined, adminTables>>

\* getTenant, then the write: a tenant that was seen comes back when it is gone.
Mended(op, seen, status) ==
    CASE seen \notin Known -> status
      [] seen \in Known /\ op = "delete" -> "gone"
      [] seen \in Known /\ op = "suspend" -> "suspended"
      [] seen \in Known /\ op = "unsuspend" -> "active"
      [] OTHER -> status

\* What a call does to the invites and, when the tenants are seen so, to them.
Does(op, arg, seen) ==
    /\ invites' = CASE op = "create" -> [invites EXCEPT ![arg] = IF @ = "new" THEN "open" ELSE @]
                    [] op = "revoke" -> [invites EXCEPT ![arg] = IF @ = "open" THEN "revoked" ELSE @]
                    [] OTHER -> invites
    /\ tenants' = IF arg \in Tenant THEN [tenants EXCEPT ![arg] = Mended(op, seen[arg], @)] ELSE tenants
    /\ past' = [t \in Tenant |-> past[t] \cup {tenants'[t]}]

Returns(c, ok, list) ==
    inCalls' = (inCalls \ {c}) \cup {[c EXCEPT !.at = "done", !.ok = ok, !.list = list]}

\* handle and proxy pass the call on and the control plane answers.  proxy drops the
\* query, so every list of invites is that of the open ones, also when the button asked
\* for the claimed ones too.  A tenant without a record is not found.
Handled(c) ==
    /\ c.at = "sent" /\ admitted
    /\ \E seen \in Views :
        /\ Does(c.op, c.arg, seen)
        /\ Returns(c, c.arg \in Tenant => seen[c.arg] \in Known,
                    CASE c.op = "tenants" -> ListOf(seen)
                      [] c.op = "invites" -> Is("open")
                      [] OTHER -> {})
        /\ stale' = IF c.op = "tenants" /\ ListOf(seen) # TenantList
                    THEN stale \cup {"tenants"} ELSE stale
    /\ joined' = IF c.op = "tenants" THEN {} ELSE joined
    /\ UNCHANGED <<admitted, adminTables>>

\* A call that is past the gate may go on when the page is told of a failure.
GoesOn(c) == c.at = "sent" /\ admitted /\ c.op \notin Tables

Parted(c, i) == {[c EXCEPT !.at = "done", !.ok = FALSE], [c EXCEPT !.at = "adrift", !.id = i]}

\* The gate turns the call away, or something behind it fails: before its effect, after
\* it, or with the effect still to come.
Failed(c) ==
    /\ c.at = "sent"
    /\ \/ UNCHANGED adminServer /\ Returns(c, FALSE, {})
       \/ /\ admitted /\ \E seen \in Views : Does(c.op, c.arg, seen)
          /\ Returns(c, FALSE, {})
       \/ /\ GoesOn(c)
          /\ \E i \in Free(inCalls) :
                inCalls' = (inCalls \ {c}) \cup Parted(c, i)
          /\ UNCHANGED adminServer
    /\ UNCHANGED <<admitted, joined, adminTables, stale>>

\* The effect of a call that the page was told had failed.
DoneLate(c) ==
    /\ c.at = "adrift"
    /\ \E seen \in Views : Does(c.op, c.arg, seen)
    /\ inCalls' = inCalls \ {c}
    /\ stale' = stale \cup {TableOf(c.op)}
    /\ UNCHANGED <<admitted, joined, adminTables>>

TableShows(op, list) ==
    /\ inviteRows' = IF op = "invites" THEN list ELSE inviteRows
    /\ tenantRows' = IF op = "tenants" THEN list ELSE tenantRows

\* loadInvites and loadTenants: the list replaces the table, and so does an error; the
\* gate's answer is no JSON and leaves the table.
TableArrives(c) ==
    /\ c.at = "done" /\ c.op \in Tables
    /\ inCalls' = inCalls \ {c}
    /\ \/ TableShows(c.op, c.list)
       \/ ~c.ok /\ UNCHANGED adminTables
    /\ stale' = IF c.ok THEN stale ELSE stale \cup {c.op}
    /\ UNCHANGED <<admitted, adminServer, joined>>

\* Mutant of Acted: the table is loaded again only for invites.
ActedOnly(c) ==
    /\ c.at = "done" /\ c.op \notin Tables
    /\ IF TableOf(c.op) = "invites"
       THEN AuthFetch(TableOf(c.op), None, inCalls \ {c})
       ELSE inCalls' = inCalls \ {c} /\ UNCHANGED stale
    /\ UNCHANGED <<admitted, adminServer, joined, adminTables>>

\* The answer to a button: the table is loaded again, except by createInvite and
\* regenKey when they are told of a failure.
Acted(c) ==
    /\ c.at = "done" /\ c.op \notin Tables
    /\ IF c.ok \/ c.op \notin {"create", "regen"}
       THEN AuthFetch(TableOf(c.op), None, inCalls \ {c})
       ELSE inCalls' = inCalls \ {c} /\ stale' = stale \cup {TableOf(c.op)}
    /\ UNCHANGED <<admitted, adminServer, joined, adminTables>>

\* The call gets lost on either side of its effect, or the page is closed: its handler
\* ends here, and the table is not loaded.
CallDropped(c) ==
    /\ c.at # "adrift"
    /\ \/ inCalls' = inCalls \ {c}
       \/ GoesOn(c) /\ inCalls' = (inCalls \ {c}) \cup {[c EXCEPT !.at = "adrift"]}
    /\ stale' = stale \cup {TableOf(c.op)}
    /\ UNCHANGED <<admitted, adminServer, joined, adminTables>>

\* Somebody claims an invite: a tenant comes, and then the invite is taken, unless that
\* fails or it has been taken or revoked meanwhile.
Claimed ==
    /\ \/ /\ Invite # Is("new")
          /\ \E t \in Tenant :
                /\ tenants[t] = "new"
                /\ tenants' = [tenants EXCEPT ![t] = "active"]
                /\ past' = [past EXCEPT ![t] = @ \cup {"active"}]
                /\ joined' = joined \cup {t}
          /\ UNCHANGED invites
       \/ /\ \E t \in Tenant : tenants[t] # "new"
          /\ \E i \in Is("open") : invites' = [invites EXCEPT ![i] = "claimed"]
          /\ UNCHANGED <<tenants, past, joined>>
    /\ UNCHANGED <<admitted, inCalls, adminTables, stale>>

RotateAdmin ==
    /\ admitted /\ admitted' = FALSE
    /\ UNCHANGED <<adminServer, joined, inCalls, adminTables, stale>>

\* The page, which was closed, is opened with the token in its address, gets the cookie
\* and loads both tables.
OpenAdmin ==
    /\ ~admitted /\ admitted' = TRUE
    /\ Mine(inCalls) = {} /\ stale' = {}
    /\ \E i, j \in 1 .. MaxCalls :
        /\ i < j /\ \A c \in inCalls : c.id \notin {i, j}
        /\ inCalls' = inCalls \cup PageLoad(i, j)
    /\ inviteRows' = {} /\ tenantRows' = {}
    /\ UNCHANGED <<adminServer, joined>>
-----------------------------------------------------------------------------
AdminInit ==
    /\ admitted = TRUE
    /\ invites = [i \in Invite |-> "new"] /\ tenants = [t \in Tenant |-> "new"]
    /\ past = [t \in Tenant |-> {"new"}] /\ joined = {}
    /\ inCalls = PageLoad(1, 2) /\ stale = {}
    /\ inviteRows = {} /\ tenantRows = {}

AdminNext ==
    \/ Click \/ Claimed \/ RotateAdmin \/ OpenAdmin
    \/ \E c \in inCalls : \/ Handled(c) \/ Failed(c) \/ DoneLate(c)
                         \/ TableArrives(c) \/ Acted(c) \/ CallDropped(c)
-----------------------------------------------------------------------------
(* Calls, tables and records keep their types. *)
AdminTypeOK ==
    /\ admitted \in BOOLEAN
    /\ invites \in [Invite -> {"new", "open", "claimed", "revoked"}]
    /\ tenants \in [Tenant -> {"new", "active", "suspended", "gone"}]
    /\ \A t \in Tenant : tenants[t] \in past[t]
    /\ joined \subseteq Tenant
    /\ Cardinality(inCalls) <= MaxCalls /\ \A c, d \in inCalls : c.id = d.id => c = d
    /\ inviteRows \subseteq Invite
    /\ tenantRows \subseteq Tenant \X {"active", "suspended"} /\ stale \subseteq Tables

Settled(t) == t \notin stale /\ \A c \in Mine(inCalls) : TableOf(c.op) # t

(* The tables show what the control plane has once they have settled, whatever was
   clicked meanwhile: every button loads its table after its effect, not before.  A call
   that failed, and an old record that was listed, excuse a table until it is loaded by
   a call of its own.  Only claims, which are not the page's doing, may have happened
   since: they bring a tenant and take an invite. *)
TablesSettle ==
    /\ Settled("tenants") => tenantRows = {r \in TenantList : r[1] \notin joined}
    /\ Settled("invites") => /\ Is("open") \subseteq inviteRows
                             /\ inviteRows \subseteq Is("open") \cup Is("claimed")
=============================================================================
