------------------------------- MODULE Tenancy -------------------------------
(***************************************************************************)
(* Tenants, API keys and invites in the control plane                      *)
(* (src/internal/control/handlers.go over src/internal/control/store.go):  *)
(* the invite and claim flow, key regeneration, suspension and deletion.   *)
(*                                                                         *)
(* Requests run concurrently, each in a goroutine (a job) that makes one   *)
(* store call per step.  Tenants and keys live in NATS KV, invites in      *)
(* SQLite; none of the handlers uses a revision or a transaction.  A store *)
(* call may fail, before or after it took effect, and the process may      *)
(* restart; what is stored survives.  A read of an invite sees its row as  *)
(* it is.  A read of the KV buckets goes to one of five replicas, which    *)
(* may lag: it sees a record as it is or as it once was, or none.          *)
(***************************************************************************)
EXTENDS Naturals, FiniteSets

CONSTANTS
    Tenant,     \* tenant ids (random in the code: a new one is never reused)
    Key,        \* API key hashes, likewise
    Invite,     \* invite tokens, likewise
    Job,        \* concurrent requests, one each
    Ops,        \* which requests are made
    MayFail,    \* may store calls fail and the process restart
    Nobody      \* no tenant, no key, no invite

ASSUME TenancyAssumption ==
    /\ Nobody \notin Tenant \cup Key \cup Invite
    /\ MayFail \in BOOLEAN

VARIABLES
    tenants,    \* [Tenant -> "new", "active", "suspended" or "deleted"]
    keys,       \* [Key -> its record; state "new", "active" or "revoked"]
    invites,    \* [Invite -> its row; state "new", "open", "expired", "claimed" or "gone"]
    job,        \* [Job -> the request a handler is working on]
    granted     \* history: pairs <<invite, tenant>> answered 200 to a claim

vars == <<tenants, keys, invites, job, granted>>

\* A request: what it is about, what its handler has still to revoke, the status it
\* answered (0: none yet), and, as history, the tenant's keys that were active
\* when it started and whether it missed a key: an ignored call has failed, or the
\* list it got was not complete.
NoJob == [op |-> "none", at |-> "idle", invite |-> Nobody, tenant |-> Nobody,
          todo |-> {}, status |-> 0, before |-> {}, failed |-> FALSE]

\* GetTenant finds a record: a replica that lags still has one that was deleted.
Found(t) == tenants[t] # "new"
KeysOf(t) == {k \in Key : keys[k].state # "new" /\ keys[k].tenant = t}
ActiveKeys(t) == {k \in KeysOf(t) : keys[k].state = "active"}

\* A store write: did it take effect, did the handler hear so.
Outcomes == [done : {TRUE}, ok : {TRUE}]
            \cup (IF MayFail THEN [done : BOOLEAN, ok : {FALSE}] ELSE {})

Goes(j, at) == job' = [job EXCEPT ![j].at = at]
Answers(j, s) == job' = [job EXCEPT ![j].at = "end", ![j].status = s]
-----------------------------------------------------------------------------
\* POST /v1/admin/invites
CreateInvite(i) ==
    /\ "invite" \in Ops
    /\ invites[i].state = "new"
    /\ invites' = [invites EXCEPT ![i].state = "open"]
    /\ UNCHANGED <<tenants, keys, job, granted>>

InviteExpires(i) ==
    /\ "withdraw" \in Ops
    /\ invites[i].state = "open"
    /\ invites' = [invites EXCEPT ![i].state = "expired"]
    /\ UNCHANGED <<tenants, keys, job, granted>>

\* DELETE /v1/admin/invites/<token>: only an unclaimed row is deleted.
RevokeInvite(i) ==
    /\ "withdraw" \in Ops
    /\ invites[i].state \in {"open", "expired"}
    /\ invites' = [invites EXCEPT ![i].state = "gone"]
    /\ UNCHANGED <<tenants, keys, job, granted>>

-----------------------------------------------------------------------------
\* POST /v1/claim/<token>: the invite is looked up and valid ...
Claim(j, i) ==
    /\ job[j].at = "idle" /\ "claim" \in Ops
    /\ invites[i].state = "open"
    /\ job' = [job EXCEPT ![j] = [NoJob EXCEPT !.op = "claim", !.at = "tenant", !.invite = i]]
    /\ UNCHANGED <<tenants, keys, invites, granted>>

\* Mutant of ClaimTenant: the invite is marked first.
ClaimTenantMarked(j) ==
    /\ job[j].op = "claim" /\ job[j].at = "tenant"
    /\ \E t \in Tenant, o \in Outcomes :
        /\ tenants[t] = "new"
        /\ tenants' = IF o.done THEN [tenants EXCEPT ![t] = "active"] ELSE tenants
        /\ invites' = [invites EXCEPT ![job[j].invite] = [state |-> "claimed", by |-> t]]
        /\ job' = [job EXCEPT ![j].tenant = t, ![j].at = IF o.ok THEN "key" ELSE "end",
                              ![j].status = IF o.ok THEN 0 ELSE 500]
    /\ UNCHANGED <<keys, granted>>

\* ... a tenant is written ...
ClaimTenant(j) ==
    /\ job[j].op = "claim" /\ job[j].at = "tenant"
    /\ \E t \in Tenant, o \in Outcomes :
        /\ tenants[t] = "new"
        /\ tenants' = IF o.done THEN [tenants EXCEPT ![t] = "active"] ELSE tenants
        /\ job' = [job EXCEPT ![j].tenant = t, ![j].at = IF o.ok THEN "key" ELSE "end",
                              ![j].status = IF o.ok THEN 0 ELSE 500]
    /\ UNCHANGED <<keys, invites, granted>>

\* PutKey of a new key for tenant t; at is where the handler goes when it is told.
IssueKey(j, t, at, s) ==
    \E k \in Key, o \in Outcomes :
        /\ keys[k].state = "new"
        /\ keys' = IF o.done THEN [keys EXCEPT ![k] = [state |-> "active", tenant |-> t]] ELSE keys
        /\ job' = [job EXCEPT ![j].at = IF o.ok THEN at ELSE "end",
                              ![j].status = IF o.ok THEN s ELSE 500]

\* ... then its key ...
ClaimKey(j) ==
    /\ job[j].op = "claim" /\ job[j].at = "key"
    /\ IssueKey(j, job[j].tenant, "record", 0)
    /\ UNCHANGED <<tenants, invites, granted>>

\* Mutants of ClaimRecord: AND claimed_at IS NULL is missing, a claim that lost the
\* race is undone and still answered 200.
ClaimRecordAgain(j) ==
    /\ job[j].op = "claim" /\ job[j].at = "record"
    /\ LET i == job[j].invite IN
       /\ \E o \in Outcomes :
            invites' = IF o.done /\ invites[i].state \in {"open", "expired", "claimed"}
                       THEN [invites EXCEPT ![i] = [state |-> "claimed", by |-> job[j].tenant]]
                       ELSE invites
       /\ granted' = granted \cup {<<i, job[j].tenant>>}
    /\ Answers(j, 200)
    /\ UNCHANGED <<tenants, keys>>

ClaimRecordUndone(j) ==
    /\ job[j].op = "claim" /\ job[j].at = "record"
    /\ LET i == job[j].invite IN
       /\ \E o \in Outcomes :
            IF invites[i].state \in {"open", "expired"}
            THEN /\ invites' = IF o.done THEN [invites EXCEPT ![i] = [state |-> "claimed",
                                                                     by |-> job[j].tenant]]
                               ELSE invites
                 /\ UNCHANGED tenants
            ELSE tenants' = [tenants EXCEPT ![job[j].tenant] = "deleted"] /\ UNCHANGED invites
       /\ granted' = granted \cup {<<i, job[j].tenant>>}
    /\ Answers(j, 200)
    /\ UNCHANGED keys

\* ... and then the invite is marked, if it is still unclaimed.  That this fails
\* goes to the audit log only: the claim is answered 200 all the same.
ClaimRecord(j) ==
    /\ job[j].op = "claim" /\ job[j].at = "record"
    /\ LET i == job[j].invite IN
       /\ \E o \in Outcomes :
            invites' = IF o.done /\ invites[i].state \in {"open", "expired"}
                       THEN [invites EXCEPT ![i] = [state |-> "claimed", by |-> job[j].tenant]]
                       ELSE invites
       /\ granted' = granted \cup {<<i, job[j].tenant>>}
    /\ Answers(j, 200)
    /\ UNCHANGED <<tenants, keys>>

-----------------------------------------------------------------------------
\* POST .../regen-key, DELETE /v1/admin/tenants/<id>: the tenant must exist ...
Open(j, op, t) ==
    /\ job[j].at = "idle" /\ op \in Ops
    /\ Found(t)
    /\ job' = [job EXCEPT ![j] = [NoJob EXCEPT !.op = op, !.at = "list", !.tenant = t,
                                               !.before = ActiveKeys(t)]]
    /\ UNCHANGED <<tenants, keys, invites, granted>>

RegenKey(j, t) == Open(j, "regen", t)
DeleteTenant(j, t) == Open(j, "delete", t)

\* ... its keys are listed, the error ignored and keys whose record cannot be read, or
\* has not reached the replica that is asked, left out ...
ListKeys(j) ==
    /\ job[j].at = "list"
    /\ \E found \in SUBSET KeysOf(job[j].tenant) :
        job' = [job EXCEPT ![j].todo = found, ![j].at = "revoke",
                           ![j].failed = found # KeysOf(job[j].tenant)]
    /\ UNCHANGED <<tenants, keys, invites, granted>>

\* ... and revoked one after the other, errors ignored, also that of a replica which
\* has no record of the key yet.
RevokeKey(j, k) ==
    /\ job[j].at = "revoke"
    /\ k \in job[j].todo
    /\ \E o \in Outcomes \cup {[done |-> FALSE, ok |-> FALSE]} :
        /\ keys' = IF o.done THEN [keys EXCEPT ![k].state = "revoked"] ELSE keys
        /\ job' = [job EXCEPT ![j].todo = @ \ {k}, ![j].failed = @ \/ ~o.ok]
    /\ UNCHANGED <<tenants, invites, granted>>

\* Mutant of RegenIssue: the revocations go on in the background.
RegenIssueEarly(j) ==
    /\ job[j].op = "regen" /\ job[j].at = "revoke"
    /\ IssueKey(j, job[j].tenant, "end", 200)
    /\ UNCHANGED <<tenants, invites, granted>>

\* regenKey issues the new key.
RegenIssue(j) ==
    /\ job[j].op = "regen" /\ job[j].at = "revoke" /\ job[j].todo = {}
    /\ IssueKey(j, job[j].tenant, "end", 200)
    /\ UNCHANGED <<tenants, invites, granted>>

\* deleteTenant deletes the record.
DeleteRecord(j) ==
    /\ job[j].op = "delete" /\ job[j].at = "revoke" /\ job[j].todo = {}
    /\ \E o \in Outcomes :
        /\ tenants' = IF o.done THEN [tenants EXCEPT ![job[j].tenant] = "deleted"] ELSE tenants
        /\ Answers(j, IF o.ok THEN 204 ELSE 500)
    /\ UNCHANGED <<keys, invites, granted>>

-----------------------------------------------------------------------------
\* POST .../suspend, .../unsuspend: the record is read ...
SetSuspend(j, t) ==
    /\ job[j].at = "idle"
    /\ \E op \in {"suspend", "unsuspend"} \cap Ops :
        job' = [job EXCEPT ![j] = [NoJob EXCEPT !.op = op, !.at = "write", !.tenant = t]]
    /\ Found(t)
    /\ UNCHANGED <<tenants, keys, invites, granted>>

\* ... and written back with the flag changed, whatever happened in between.
SuspendWrite(j) ==
    /\ job[j].at = "write"
    /\ \E o \in Outcomes :
        /\ tenants' = IF o.done
                      THEN [tenants EXCEPT ![job[j].tenant] =
                                IF job[j].op = "suspend" THEN "suspended" ELSE "active"]
                      ELSE tenants
        /\ Answers(j, IF o.ok THEN 200 ELSE 500)
    /\ UNCHANGED <<keys, invites, granted>>

\* The process restarts: every request it was working on is gone, unanswered.
Restart ==
    /\ MayFail
    /\ \E j \in Job : job[j].at \notin {"idle", "end"}
    /\ job' = [j \in Job |-> IF job[j].at = "idle" THEN job[j] ELSE [job[j] EXCEPT !.at = "end"]]
    /\ UNCHANGED <<tenants, keys, invites, granted>>

-----------------------------------------------------------------------------
\* The stores are empty, as NewStore creates them.
Init ==
    /\ tenants = [t \in Tenant |-> "new"]
    /\ keys = [k \in Key |-> [state |-> "new", tenant |-> Nobody]]
    /\ invites = [i \in Invite |-> [state |-> "new", by |-> Nobody]]
    /\ job = [j \in Job |-> NoJob]
    /\ granted = {}

Admin == \E i \in Invite : CreateInvite(i) \/ InviteExpires(i) \/ RevokeInvite(i)

Handler(j) ==
    \/ \E i \in Invite : Claim(j, i)
    \/ ClaimTenant(j) \/ ClaimKey(j) \/ ClaimRecord(j)
    \/ \E t \in Tenant : RegenKey(j, t) \/ DeleteTenant(j, t) \/ SetSuspend(j, t)
    \/ ListKeys(j) \/ (\E k \in Key : RevokeKey(j, k))
    \/ RegenIssue(j) \/ DeleteRecord(j) \/ SuspendWrite(j)

Next == Admin \/ (\E j \in Job : Handler(j)) \/ Restart

Spec == Init /\ [][Next]_vars

-----------------------------------------------------------------------------
Places == {"idle", "tenant", "key", "record", "list", "revoke", "write", "end"}
Statuses == {0, 200, 204, 500}
JobType ==
    [op : {"none", "claim", "regen", "delete", "suspend", "unsuspend"}, at : Places,
     invite : Invite \cup {Nobody}, tenant : Tenant \cup {Nobody},
     todo : SUBSET Key, status : Statuses, before : SUBSET Key, failed : BOOLEAN]

(* The records of tenants, keys and invites, and every request under way, keep their types. *)
TypeOK ==
    /\ tenants \in [Tenant -> {"new", "active", "suspended", "deleted"}]
    /\ keys \in [Key -> [state : {"new", "active", "revoked"}, tenant : Tenant \cup {Nobody}]]
    /\ invites \in [Invite -> [state : {"new", "open", "expired", "claimed", "gone"},
                               by : Tenant \cup {Nobody}]]
    /\ job \in [Job -> JobType]
    /\ granted \subseteq Invite \X Tenant

(* An invite is used up only for somebody: the tenant it is marked with was written
   and given a key before, also when a handler fails or dies halfway. *)
InviteNotBurned ==
    \A i \in Invite :
        invites[i].state = "claimed" =>
            tenants[invites[i].by] # "new" /\ KeysOf(invites[i].by) # {}

(* The tenant an invite is marked with is never replaced by a later claim, and a
   claimed invite stays on record. *)
ClaimRecordIsFinal ==
    [][\A i \in Invite : invites[i].state = "claimed" => invites'[i] = invites[i]]_vars

\* The requests that promise to revoke the keys of their tenant.
Revoking == {"regen", "delete"}

(* When regen-key, or the deletion of a tenant, is answered with success, its list was
   complete and none of the calls whose errors it ignores has failed, every key that
   the tenant had when the request came is revoked, for good, whatever other requests
   about the tenant do. *)
OldKeysRevoked ==
    \A j \in Job : job[j].op \in Revoking /\ job[j].status \in {200, 204} /\ ~job[j].failed =>
        \A k \in job[j].before : keys[k].state = "revoked"

(* A claim answered 200 left a tenant with a key behind, under any interleaving of
   claims, until somebody regenerates, suspends or deletes the tenant. *)
ClaimIsUsable ==
    \A g \in granted :
        (\A j \in Job : job[j].tenant = g[2] => job[j].op = "claim") =>
            tenants[g[2]] = "active" /\ ActiveKeys(g[2]) # {}

(* One invite makes one tenant. *)
OneUseInvite == \A g, h \in granted : g[1] = h[1] => g[2] = h[2]
=============================================================================
