---------------------------- MODULE Tenancy_proofs ----------------------------
(***************************************************************************)
(* Theorems about Tenancy, for any number of requests, tenants, keys and   *)
(* invites, with any store call failing and the process restarting at any  *)
(* moment.                                                                 *)
(*                                                                         *)
(* The properties are not inductive: that a claimed invite names a tenant  *)
(* with a key depends on what its handler had done when it marked it, and  *)
(* what a handler had done holds later only because no other one undoes    *)
(* it.  JobInv says what a request has achieved by the call it is at, and  *)
(* Steady what no step of anybody ever undoes.                             *)
(***************************************************************************)
EXTENDS Tenancy, TLAPS

\* Nobody but claims has dealt with tenant t.
Untouched(t) == \A j \in Job : job[j].tenant = t => job[j].op = "claim"

Usable(t) == tenants[t] = "active" /\ ActiveKeys(t) # {}

\* A request to come has no tenant, one about a tenant has it, and one that is not
\* answered has no status.
PlaceInv(j) ==
    /\ job[j].at = "idle" => job[j].tenant = Nobody
    /\ job[j].at \in {"tenant", "key", "record"} =>
          job[j].op = "claim" /\ job[j].invite \in Invite
    /\ job[j].at \in {"key", "record"} => job[j].tenant \in Tenant
    /\ job[j].at \in {"list", "revoke", "write"} => job[j].op # "claim" /\ job[j].tenant \in Tenant
    /\ job[j].at = "write" => job[j].op \notin Revoking
    /\ job[j].at # "end" => job[j].status = 0
    /\ job[j].at \in {"idle", "tenant"} => job[j].todo = {} /\ job[j].before = {}

\* What a claim has made so far: the tenant, then a key of it.
ClaimInv(j) ==
    /\ job[j].at \in {"key", "record"} =>
          /\ tenants[job[j].tenant] # "new"
          /\ Untouched(job[j].tenant) => tenants[job[j].tenant] = "active"
    /\ job[j].at = "record" =>
          /\ KeysOf(job[j].tenant) # {}
          /\ Untouched(job[j].tenant) => ActiveKeys(job[j].tenant) # {}

\* What a request still has to revoke is all that is left of what there was.
RevokeInv(j) ==
    /\ job[j].todo \subseteq KeysOf(job[j].tenant)
    /\ job[j].before \subseteq KeysOf(job[j].tenant)
    /\ job[j].op \in Revoking /\ job[j].at = "revoke" /\ ~job[j].failed =>
          \A k \in job[j].before : k \in job[j].todo \/ keys[k].state = "revoked"
    /\ job[j].op \in Revoking /\ job[j].status \in {200, 204} /\ ~job[j].failed =>
          \A k \in job[j].before : keys[k].state = "revoked"

JobInv(j) == PlaceInv(j) /\ ClaimInv(j) /\ RevokeInv(j)

MarkInv ==
    \A i \in Invite :
        invites[i].state = "claimed" =>
            /\ invites[i].by \in Tenant
            /\ tenants[invites[i].by] # "new" /\ KeysOf(invites[i].by) # {}

GrantInv == \A g \in granted : Untouched(g[2]) => Usable(g[2])

TInv == TypeOK /\ (\A j \in Job : JobInv(j)) /\ MarkInv /\ GrantInv

\* What no step undoes: tenants and keys do not become new again, a key keeps its
\* tenant, a revoked key stays so, and only a request about a tenant takes its
\* status or its keys away.
Steady ==
    /\ \A t \in Tenant : tenants[t] # "new" => tenants'[t] # "new"
    /\ \A k \in Key : keys[k].state # "new" =>
           keys'[k].state # "new" /\ keys'[k].tenant = keys[k].tenant
    /\ \A k \in Key : keys[k].state = "revoked" => keys'[k].state = "revoked"
    /\ \A t \in Tenant : Untouched(t)' =>
           /\ Untouched(t)
           /\ tenants[t] = "active" => tenants'[t] = "active"
           /\ \A k \in Key : keys[k].tenant = t /\ keys[k].state = "active" =>
                  keys'[k].state = "active"
-----------------------------------------------------------------------------
\* What a step makes of its request is a request again.
LEMMA Retyped ==
    ASSUME job \in [Job -> JobType], NEW j \in Job, NEW a \in Places, NEW s \in Statuses,
           job' = [job EXCEPT ![j].at = a, ![j].status = s]
    PROVE  job' \in [Job -> JobType]
<1>1. [job[j] EXCEPT !.at = a, !.status = s] \in JobType
  BY DEF JobType
<1>2. job'[j] = [job[j] EXCEPT !.at = a, !.status = s]
  OBVIOUS
<1>3. \A h \in Job : h # j => job'[h] = job[h]
  OBVIOUS
<1>4. job' = [h \in Job |-> job'[h]]
  OBVIOUS
<1> QED
  BY <1>1, <1>2, <1>3, <1>4

\* The invariant holds when the control plane starts for the first time.
LEMMA InitInv == Init => TInv
BY TenancyAssumption DEF Init, NoJob, TInv, TypeOK, JobType, Places, Statuses, JobInv, PlaceInv, ClaimInv, RevokeInv, MarkInv, GrantInv, KeysOf

\* Whatever a steady step does to the others, a request it leaves alone keeps what it had.
LEMMA Kept ==
    ASSUME TypeOK, TypeOK', Steady, NEW h \in Job, JobInv(h), job'[h] = job[h]
    PROVE  JobInv(h)'
<1>1. PlaceInv(h)'
  BY DEF JobInv, PlaceInv
<1>2. /\ job[h].todo \subseteq Key /\ job[h].before \subseteq Key
      /\ job[h].tenant \in Tenant \cup {Nobody}
  BY DEF TypeOK, JobType, Places, Statuses
<1>3. /\ KeysOf(job[h].tenant) \subseteq KeysOf(job[h].tenant)'
      /\ job[h].tenant \in Tenant /\ Untouched(job[h].tenant)' =>
            ActiveKeys(job[h].tenant) \subseteq ActiveKeys(job[h].tenant)'
  BY <1>2 DEF Steady, KeysOf, ActiveKeys
<1>4. ClaimInv(h)'
  BY <1>2, <1>3 DEF JobInv, PlaceInv, ClaimInv, Steady, KeysOf, ActiveKeys
<1>5. RevokeInv(h)'
  BY <1>2, <1>3 DEF JobInv, RevokeInv, Steady, KeysOf
<1> QED
  BY <1>1, <1>4, <1>5 DEF JobInv

\* Likewise for what invites are marked with and what claims were granted.
LEMMA MarksKept ==
    ASSUME TInv, TypeOK', Steady, NEW i \in Invite, invites'[i] = invites[i],
           invites[i].state = "claimed"
    PROVE  invites[i].by \in Tenant /\ tenants'[invites[i].by] # "new"
           /\ KeysOf(invites[i].by)' # {}
<1>1. invites[i].by \in Tenant /\ tenants[invites[i].by] # "new" /\ KeysOf(invites[i].by) # {}
  BY DEF TInv, MarkInv
<1>2. KeysOf(invites[i].by) \subseteq KeysOf(invites[i].by)'
  BY <1>1 DEF Steady, KeysOf
<1> QED
  BY <1>1, <1>2 DEF Steady, KeysOf

\* A claim that was answered stays usable while nobody touches its tenant.
LEMMA GrantsKept ==
    ASSUME TInv, TypeOK', Steady, NEW g \in granted, Untouched(g[2])'
    PROVE  Usable(g[2])'
<1>1. g[2] \in Tenant
  BY DEF TInv, TypeOK, JobType, Places, Statuses
<1>2. Usable(g[2])
  BY <1>1 DEF TInv, GrantInv, Steady
<1>3. ActiveKeys(g[2]) \subseteq ActiveKeys(g[2])'
  BY <1>1 DEF Steady, KeysOf, ActiveKeys
<1> QED
  BY <1>1, <1>2, <1>3 DEF Steady, Usable, KeysOf, ActiveKeys

\* A step of one request that leaves invites and grants alone keeps the invariant, if
\* it is steady and leaves its own request in order.
LEMMA OneJob ==
    ASSUME TInv, TypeOK', Steady, NEW j \in Job, JobInv(j)',
           \A h \in Job : h # j => job'[h] = job[h],
           UNCHANGED <<invites, granted>>
    PROVE  TInv'
<1>1. \A h \in Job : JobInv(h)'
  <2> SUFFICES ASSUME NEW h \in Job, h # j PROVE JobInv(h)'
    OBVIOUS
  <2> QED
    BY Kept DEF TInv
<1>2. MarkInv'
  BY MarksKept DEF MarkInv, KeysOf
<1>3. GrantInv'
  BY GrantsKept DEF GrantInv, Untouched, Usable, ActiveKeys, KeysOf
<1> QED
  BY <1>1, <1>2, <1>3 DEF TInv
-----------------------------------------------------------------------------
\* What is done to an unclaimed invite leaves the marked ones alone.
LEMMA InviteStep ==
    ASSUME TInv, NEW i \in Invite, invites[i].state # "claimed",
           NEW s \in {"open", "expired", "gone"},
           invites' \in {invites, [invites EXCEPT ![i].state = s]},
           UNCHANGED <<tenants, keys, job, granted>>
    PROVE  TInv'
<1>2. /\ UNCHANGED <<tenants, keys, job, granted>>
      /\ invites[i].state # "claimed"
      /\ invites' \in {invites, [invites EXCEPT ![i].state = s]}
  OBVIOUS
<1>3. TypeOK'
  BY <1>2 DEF TInv, TypeOK, JobType, Places, Statuses
<1>4. Steady
  BY <1>2, <1>3 DEF Steady, Untouched
<1>5. \A h \in Job : JobInv(h)'
  BY <1>2, <1>3, <1>4, Kept DEF TInv
<1>6. MarkInv'
  <2> SUFFICES ASSUME NEW h \in Invite, invites'[h].state = "claimed"
               PROVE  /\ invites'[h].by \in Tenant
                      /\ tenants'[invites'[h].by] # "new" /\ KeysOf(invites[h].by)' # {}
    BY DEF MarkInv, KeysOf
  <2>1. invites'[h] = invites[h]
    BY <1>2 DEF TInv, TypeOK, JobType, Places, Statuses
  <2> QED
    BY <2>1, <1>3, <1>4, MarksKept DEF KeysOf
<1>7. GrantInv'
  BY <1>2, <1>3, <1>4, GrantsKept DEF GrantInv, Untouched, Usable, ActiveKeys, KeysOf
<1> QED
  BY <1>3, <1>5, <1>6, <1>7 DEF TInv

\* Creating, expiring and revoking invites keeps the invariant.
LEMMA AdminSteps ==
    ASSUME TInv, Admin
    PROVE  TInv'
<1>1. PICK i \in Invite : CreateInvite(i) \/ InviteExpires(i) \/ RevokeInvite(i)
  BY DEF Admin
<1>2. PICK s \in {"open", "expired", "gone"} :
        /\ UNCHANGED <<tenants, keys, job, granted>>
        /\ invites[i].state # "claimed" /\ invites' = [invites EXCEPT ![i].state = s]
  BY <1>1 DEF CreateInvite, InviteExpires, RevokeInvite
<1> QED
  BY <1>2, InviteStep

\* A request that begins has nothing to its name but, maybe, a tenant.
LEMMA Begins ==
    ASSUME TInv, NEW j \in Job, job[j].at = "idle", UNCHANGED <<tenants, keys, invites, granted>>,
           NEW r, job' = [job EXCEPT ![j] = r],
           r.op \in {"claim", "regen", "delete", "suspend", "unsuspend"}, r.status = 0,
           r.todo = {}, r.before \subseteq KeysOf(r.tenant), r.failed = FALSE,
           \/ r.op = "claim" /\ r.at = "tenant" /\ r.invite \in Invite /\ r.tenant = Nobody /\ r.before = {}
           \/ /\ r.op # "claim" /\ r.at \in {"list", "write"} /\ r.tenant \in Tenant
              /\ r.at = "write" => r.op \notin Revoking,
           TypeOK'
    PROVE  TInv'
<1>1. job'[j] = r /\ job[j].tenant = Nobody /\ \A h \in Job : h # j => job'[h] = job[h]
  BY DEF TInv, TypeOK, JobType, Places, Statuses, JobInv, PlaceInv
<1>2. Steady
  BY <1>1, TenancyAssumption DEF Steady, Untouched
<1>3. PlaceInv(j)' /\ ClaimInv(j)' /\ RevokeInv(j)'
  BY <1>1 DEF PlaceInv, ClaimInv, RevokeInv, KeysOf
<1> QED
  BY <1>1, <1>2, <1>3, OneJob DEF JobInv

\* So does a claim that passes the check of its invite,
LEMMA ClaimStep ==
    ASSUME TInv, NEW j \in Job, NEW i \in Invite, Claim(j, i)
    PROVE  TInv'
<1> DEFINE r == [NoJob EXCEPT !.op = "claim", !.at = "tenant", !.invite = i]
<1>1. /\ job' = [job EXCEPT ![j] = r] /\ UNCHANGED <<tenants, keys, invites, granted>>
      /\ job[j].at = "idle"
  BY DEF Claim
<1>2. /\ r.op = "claim" /\ r.at = "tenant" /\ r.invite = i /\ r.tenant = Nobody /\ r.before = {}
      /\ r.todo = {} /\ r.status = 0 /\ r.failed = FALSE
  BY DEF NoJob
<1>3. TypeOK'
  BY <1>1 DEF TInv, TypeOK, JobType, Places, Statuses, NoJob
<1> HIDE DEF r
<1> QED
  BY <1>1, <1>2, <1>3, Begins

\* a regen-key or a delete that finds its tenant,
LEMMA OpenStep ==
    ASSUME TInv, NEW j \in Job, NEW t \in Tenant, RegenKey(j, t) \/ DeleteTenant(j, t)
    PROVE  TInv'
<1>1. PICK op \in {"regen", "delete"} : Open(j, op, t)
  BY DEF RegenKey, DeleteTenant
<1> DEFINE r == [NoJob EXCEPT !.op = op, !.at = "list", !.tenant = t, !.before = ActiveKeys(t)]
<1>2. /\ job' = [job EXCEPT ![j] = r] /\ UNCHANGED <<tenants, keys, invites, granted>>
      /\ job[j].at = "idle"
  BY <1>1 DEF Open
<1>3. /\ r.op = op /\ r.at = "list" /\ r.tenant = t /\ r.before \subseteq KeysOf(r.tenant)
      /\ r.todo = {} /\ r.status = 0 /\ r.failed = FALSE
  BY DEF NoJob, ActiveKeys
<1>4. TypeOK'
  BY <1>2, ZenonT(30) DEF TInv, TypeOK, JobType, Places, Statuses, NoJob, ActiveKeys, KeysOf
<1> HIDE DEF r
<1> QED
  BY <1>2, <1>3, <1>4, Begins

\* a suspend that reads its tenant,
LEMMA SetSuspendStep ==
    ASSUME TInv, NEW j \in Job, NEW t \in Tenant, SetSuspend(j, t)
    PROVE  TInv'
<1>1. PICK op \in {"suspend", "unsuspend"} :
          job' = [job EXCEPT ![j] = [NoJob EXCEPT !.op = op, !.at = "write", !.tenant = t]]
  BY DEF SetSuspend
<1> DEFINE r == [NoJob EXCEPT !.op = op, !.at = "write", !.tenant = t]
<1>2. /\ UNCHANGED <<tenants, keys, invites, granted>> /\ job[j].at = "idle"
  BY DEF SetSuspend
<1>3. /\ r.op = op /\ r.at = "write" /\ r.tenant = t /\ r.before = {}
      /\ r.todo = {} /\ r.status = 0 /\ r.failed = FALSE
  BY DEF NoJob
<1>4. TypeOK'
  BY <1>1, <1>2, ZenonT(30) DEF TInv, TypeOK, JobType, Places, Statuses, NoJob
<1>5. job' = [job EXCEPT ![j] = r]
  BY <1>1
<1> HIDE DEF r
<1> QED
  BY <1>2, <1>3, <1>4, <1>5, Begins DEF Revoking
-----------------------------------------------------------------------------
\* A new tenant: nobody could have touched it before, and it is there for its claim.
LEMMA ClaimTenantStep ==
    ASSUME TInv, NEW j \in Job, ClaimTenant(j)
    PROVE  TInv'
<1>1. PICK t \in Tenant, o \in Outcomes :
        /\ job[j].op = "claim" /\ job[j].at = "tenant" /\ tenants[t] = "new"
        /\ tenants' = IF o.done THEN [tenants EXCEPT ![t] = "active"] ELSE tenants
        /\ job' = [job EXCEPT ![j].tenant = t, ![j].at = IF o.ok THEN "key" ELSE "end",
                              ![j].status = IF o.ok THEN 0 ELSE 500]
        /\ UNCHANGED <<keys, invites, granted>>
  BY DEF ClaimTenant
<1>2. o.ok => o.done
  BY DEF Outcomes
<1>3. /\ job'[j].op = "claim" /\ job'[j].tenant = t /\ job'[j].invite = job[j].invite
      /\ job'[j].todo = {} /\ job'[j].before = {}
      /\ \/ job'[j].at = "key" /\ job'[j].status = 0 /\ o.done
         \/ job'[j].at = "end" /\ job'[j].status = 500
      /\ \A h \in Job : h # j => job'[h] = job[h]
  BY <1>1, <1>2 DEF TInv, TypeOK, JobType, Places, Statuses, JobInv, PlaceInv
<1>4. TypeOK'
  BY <1>1 DEF TInv, TypeOK, JobType, Places, Statuses
<1>5. Steady
  <2>1. ASSUME NEW u \in Tenant, Untouched(u)', NEW h \in Job, job[h].tenant = u
        PROVE  job[h].op = "claim"
    <3>1. CASE h = j
      BY <1>1, <3>1
    <3>2. CASE h # j
      BY <1>3, <2>1, <3>2 DEF Untouched
    <3> QED
      BY <3>1, <3>2
  <2> QED
    BY <1>1, <2>1 DEF Steady, Untouched, TInv, TypeOK, JobType, Places, Statuses
<1>6. JobInv(j)'
  <2>1. PlaceInv(j)'
    BY <1>1, <1>3 DEF TInv, JobInv, PlaceInv
  <2>2. ClaimInv(j)'
    BY <1>1, <1>3 DEF TInv, TypeOK, JobType, Places, Statuses, ClaimInv
  <2>3. RevokeInv(j)'
    BY <1>3 DEF RevokeInv
  <2> QED
    BY <2>1, <2>2, <2>3 DEF JobInv
<1> QED
  BY <1>1, <1>3, <1>4, <1>5, <1>6, OneJob

\* A key that is issued was new, and is active when the handler hears of it.
LEMMA Issued ==
    ASSUME TInv, NEW j \in Job, NEW t \in Tenant, NEW at, NEW s, IssueKey(j, t, at, s),
           UNCHANGED <<tenants, invites, granted>>
    PROVE  /\ \A h \in Job : h # j => job'[h] = job[h]
           /\ Steady
           /\ \/ job'[j].at = "end" /\ job'[j].status = 500
              \/ job'[j].at = at /\ job'[j].status = s /\ ActiveKeys(t)' # {}
           /\ job'[j].op = job[j].op /\ job'[j].tenant = job[j].tenant
           /\ job'[j].invite = job[j].invite /\ job'[j].todo = job[j].todo
           /\ job'[j].before = job[j].before /\ job'[j].failed = job[j].failed
           /\ at \in {"record", "end"} /\ s \in {0, 200} => TypeOK'
<1>1. PICK k \in Key, o \in Outcomes :
        /\ keys[k].state = "new"
        /\ keys' = IF o.done THEN [keys EXCEPT ![k] = [state |-> "active", tenant |-> t]] ELSE keys
        /\ job' = [job EXCEPT ![j].at = IF o.ok THEN at ELSE "end",
                              ![j].status = IF o.ok THEN s ELSE 500]
  BY DEF IssueKey
<1>2. o.ok => o.done
  BY DEF Outcomes
<1>3. /\ job'[j].op = job[j].op /\ job'[j].tenant = job[j].tenant
      /\ job'[j].invite = job[j].invite /\ job'[j].todo = job[j].todo
      /\ job'[j].before = job[j].before /\ job'[j].failed = job[j].failed
      /\ job'[j].at = (IF o.ok THEN at ELSE "end") /\ job'[j].status = (IF o.ok THEN s ELSE 500)
      /\ \A h \in Job : h # j => job'[h] = job[h]
  BY <1>1 DEF TInv, TypeOK, JobType, Places, Statuses
<1>4. Steady
  <2>1. \A u \in Tenant : Untouched(u)' => Untouched(u)
    BY <1>3 DEF Untouched
  <2> QED
    BY <1>1, <2>1 DEF Steady, TInv, TypeOK, JobType, Places, Statuses
<1>5. o.ok => ActiveKeys(t)' # {}
  BY <1>1, <1>2 DEF TInv, TypeOK, JobType, Places, Statuses, ActiveKeys, KeysOf
<1>6. ASSUME at \in {"record", "end"}, s \in {0, 200} PROVE TypeOK'
  <2>1. keys' \in [Key -> [state : {"new", "active", "revoked"}, tenant : Tenant \cup {Nobody}]]
    BY <1>1 DEF TInv, TypeOK, JobType, Places, Statuses
  <2>2. job \in [Job -> JobType]
    BY DEF TInv, TypeOK
  <2>3. at \in Places /\ s \in Statuses /\ "end" \in Places /\ 500 \in Statuses
    BY <1>6 DEF Places, Statuses
  <2>4. ASSUME o.ok PROVE job' \in [Job -> JobType]
    <3>1. job' = [job EXCEPT ![j].at = at, ![j].status = s]
      BY <1>1, <2>4
    <3>2. job' \in [Job -> JobType]
      BY <2>2, <2>3, <3>1, Retyped
    <3> QED
      BY <3>2
  <2>5. ASSUME ~o.ok PROVE job' \in [Job -> JobType]
    <3>1. job' = [job EXCEPT ![j].at = "end", ![j].status = 500]
      BY <1>1, <2>5
    <3>2. job' \in [Job -> JobType]
      BY <2>2, <2>3, <3>1, Retyped
    <3> QED
      BY <3>2
  <2>6. TypeOK /\ tenants' = tenants /\ invites' = invites /\ granted' = granted
    BY DEF TInv
  <2> QED
    BY <2>1, <2>4, <2>5, <2>6 DEF TypeOK
<1> QED
  BY <1>3, <1>4, <1>5, <1>6

\* the key of a claim,
LEMMA ClaimKeyStep ==
    ASSUME TInv, NEW j \in Job, ClaimKey(j)
    PROVE  TInv'
<1> DEFINE t == job[j].tenant
<1>1. /\ job[j].op = "claim" /\ job[j].at = "key" /\ IssueKey(j, t, "record", 0)
      /\ UNCHANGED <<tenants, invites, granted>>
  BY DEF ClaimKey
<1>2. t \in Tenant /\ JobInv(j)
  BY <1>1 DEF TInv, JobInv, PlaceInv
<1>3. /\ \A h \in Job : h # j => job'[h] = job[h]
      /\ Steady /\ TypeOK'
      /\ \/ job'[j].at = "end" /\ job'[j].status = 500
         \/ job'[j].at = "record" /\ job'[j].status = 0 /\ ActiveKeys(t)' # {}
      /\ job'[j].op = job[j].op /\ job'[j].tenant = job[j].tenant
      /\ job'[j].invite = job[j].invite /\ job'[j].todo = job[j].todo
      /\ job'[j].before = job[j].before /\ job'[j].failed = job[j].failed
  BY <1>1, <1>2, Issued
<1>4. PlaceInv(j)'
  BY <1>1, <1>2, <1>3 DEF JobInv, PlaceInv
<1>5. ClaimInv(j)'
  BY <1>1, <1>2, <1>3 DEF JobInv, ClaimInv, Steady, ActiveKeys
<1>6. RevokeInv(j)'
  <2>1. job[j].todo \subseteq Key /\ job[j].before \subseteq Key
    BY DEF TInv, TypeOK, JobType, Places, Statuses
  <2> QED
    BY <1>1, <1>2, <1>3, <2>1 DEF JobInv, RevokeInv, Steady, KeysOf
<1> QED
  BY <1>1, <1>3, <1>4, <1>5, <1>6, OneJob DEF JobInv

\* The invite is marked with, and the visitor told of, a tenant that has a key.
LEMMA ClaimRecordStep ==
    ASSUME TInv, NEW j \in Job, ClaimRecord(j)
    PROVE  TInv'
<1> DEFINE t == job[j].tenant i == job[j].invite
<1>1. /\ job[j].op = "claim" /\ job[j].at = "record"
      /\ granted' = granted \cup {<<i, t>>}
      /\ job' = [job EXCEPT ![j].at = "end", ![j].status = 200]
      /\ UNCHANGED <<tenants, keys>>
      /\ \/ invites' = invites
         \/ invites' = [invites EXCEPT ![i] = [state |-> "claimed", by |-> t]]
  BY DEF ClaimRecord, Answers
<1>2. /\ t \in Tenant /\ i \in Invite /\ tenants[t] # "new" /\ KeysOf(t) # {}
      /\ Untouched(t) => tenants[t] = "active" /\ ActiveKeys(t) # {}
  BY <1>1 DEF TInv, JobInv, PlaceInv, ClaimInv
<1>3. /\ job'[j].op = job[j].op /\ job'[j].tenant = t /\ job'[j].at = "end"
      /\ job'[j].todo = job[j].todo /\ job'[j].before = job[j].before
      /\ \A h \in Job : h # j => job'[h] = job[h]
  BY <1>1 DEF TInv, TypeOK, JobType, Places, Statuses
<1>4. TypeOK'
  <2>1. invites' \in [Invite -> [state : {"new", "open", "expired", "claimed", "gone"},
                                 by : Tenant \cup {Nobody}]]
    BY <1>1, <1>2 DEF TInv, TypeOK, JobType, Places, Statuses
  <2>2. granted' \subseteq Invite \X Tenant
    BY <1>1, <1>2 DEF TInv, TypeOK, JobType, Places, Statuses
  <2>3. job' \in [Job -> JobType]
    <3>1. job \in [Job -> JobType]
      BY DEF TInv, TypeOK
    <3>2. job' = [job EXCEPT ![j].at = "end", ![j].status = 200]
      BY <1>1
    <3>3. "end" \in Places /\ 200 \in Statuses
      BY DEF Places, Statuses
    <3> QED
      BY <3>1, <3>2, <3>3, Retyped
  <2>4. tenants' = tenants /\ keys' = keys
    BY <1>1
  <2> QED
    BY <2>1, <2>2, <2>3, <2>4 DEF TInv, TypeOK
<1>5. Untouched(t)' => Untouched(t)
  BY <1>1, <1>3 DEF Untouched
<1>6. Steady
  BY <1>1, <1>3 DEF Steady, Untouched
<1>7. JobInv(j)'
  BY <1>1, <1>3 DEF TInv, TypeOK, JobType, Places, Statuses, JobInv, PlaceInv, ClaimInv, RevokeInv, KeysOf
<1>8. \A h \in Job : JobInv(h)'
  <2> SUFFICES ASSUME NEW h \in Job, h # j PROVE JobInv(h)'
    BY <1>7
  <2> QED
    BY <1>3, <1>4, <1>6, Kept DEF TInv
<1>9. MarkInv'
  <2> SUFFICES ASSUME NEW h \in Invite, invites'[h].state = "claimed"
               PROVE  /\ invites'[h].by \in Tenant
                      /\ tenants'[invites'[h].by] # "new" /\ KeysOf(invites'[h].by) # {}
    BY <1>1 DEF MarkInv, KeysOf
  <2>1. CASE invites'[h] = invites[h]
    BY <2>1, <1>1 DEF TInv, MarkInv
  <2>2. CASE invites'[h] = [state |-> "claimed", by |-> t]
    BY <2>2, <1>1, <1>2
  <2> QED
    BY <1>1, <2>1, <2>2 DEF TInv, TypeOK, JobType, Places, Statuses
<1>10. GrantInv'
  <2> SUFFICES ASSUME NEW g \in granted', Untouched(g[2])' PROVE Usable(g[2])'
    BY DEF GrantInv, Usable, Untouched, ActiveKeys, KeysOf
  <2>1. CASE g \in granted
    BY <2>1, <1>4, <1>6, GrantsKept
  <2>2. CASE g = <<i, t>>
    <3>1. g[2] = t
      BY <2>2
    <3>2. Untouched(t)
      BY <3>1, <1>3 DEF Untouched, TInv
    <3> QED
      BY <3>1, <3>2, <1>1, <1>2 DEF Usable, ActiveKeys, KeysOf
  <2> QED
    BY <1>1, <2>1, <2>2
<1> QED
  BY <1>4, <1>8, <1>9, <1>10 DEF TInv

\* regen-key answers 200 when there is nothing left to revoke of what there was.
LEMMA RegenIssueStep ==
    ASSUME TInv, NEW j \in Job, RegenIssue(j)
    PROVE  TInv'
<1> DEFINE t == job[j].tenant
<1>1. /\ job[j].op = "regen" /\ job[j].at = "revoke" /\ job[j].todo = {}
      /\ IssueKey(j, t, "end", 200) /\ UNCHANGED <<tenants, invites, granted>>
  BY DEF RegenIssue
<1>2. t \in Tenant /\ JobInv(j)
  BY <1>1 DEF TInv, JobInv, PlaceInv
<1>3. /\ \A h \in Job : h # j => job'[h] = job[h]
      /\ Steady /\ TypeOK' /\ job'[j].at = "end"
      /\ job'[j].op = job[j].op /\ job'[j].tenant = job[j].tenant
      /\ job'[j].todo = job[j].todo /\ job'[j].before = job[j].before
      /\ job'[j].failed = job[j].failed
  BY <1>1, <1>2, Issued
<1>4. PlaceInv(j)' /\ ClaimInv(j)'
  BY <1>3 DEF PlaceInv, ClaimInv
<1>5. RevokeInv(j)'
  <2>1. job[j].todo = {} /\ job[j].before \subseteq Key
    BY <1>1 DEF TInv, TypeOK, JobType
  <2>2. ~job[j].failed => \A k \in job[j].before : keys[k].state = "revoked"
    BY <1>1, <1>2 DEF JobInv, RevokeInv, Revoking
  <2>3. job'[j].before \subseteq KeysOf(job[j].tenant)'
    BY <1>2, <1>3, <2>1 DEF JobInv, RevokeInv, Steady, KeysOf
  <2> QED
    BY <1>3, <2>1, <2>2, <2>3 DEF RevokeInv, Steady, KeysOf
<1> QED
  BY <1>1, <1>3, <1>4, <1>5, OneJob DEF JobInv

\* The list has every key that there was, unless the request counts as having missed one.
LEMMA ListKeysStep ==
    ASSUME TInv, NEW j \in Job, ListKeys(j)
    PROVE  TInv'
<1> DEFINE all == KeysOf(job[j].tenant)
<1>1. PICK found \in SUBSET all :
        /\ job[j].at = "list"
        /\ job' = [job EXCEPT ![j].todo = found, ![j].at = "revoke", ![j].failed = found # all]
        /\ UNCHANGED <<tenants, keys, invites, granted>>
  BY DEF ListKeys
<1> DEFINE missed == found # all
<1>2. missed \in BOOLEAN /\ all \subseteq Key
  BY DEF KeysOf
<1>3. job' = [job EXCEPT ![j].todo = found, ![j].at = "revoke", ![j].failed = missed]
  BY <1>1
<1>4. TypeOK /\ job \in [Job -> JobType] /\ JobInv(j)
  BY DEF TInv, TypeOK
<1>5. /\ job'[j].op = job[j].op /\ job'[j].tenant = job[j].tenant /\ job'[j].at = "revoke"
      /\ job'[j].todo = found /\ job'[j].before = job[j].before
      /\ job'[j].status = job[j].status
      /\ job'[j].failed = missed
      /\ \A h \in Job : h # j => job'[h] = job[h]
  <2> HIDE DEF missed, all
  <2> QED
    BY <1>3, <1>4 DEF JobType
<1>6. job' \in [Job -> JobType]
  <2> HIDE DEF missed, all
  <2>1. found \subseteq Key
    BY <1>2
  <2>2. job'[j] = [job[j] EXCEPT !.todo = found, !.at = "revoke", !.failed = missed]
    BY <1>3, <1>4
  <2>3. "revoke" \in Places
    BY DEF Places
  <2>4. job[j] \in JobType
    BY <1>4
  <2>5. [job[j] EXCEPT !.todo = found, !.at = "revoke", !.failed = missed] \in JobType
    BY <1>2, <2>1, <2>3, <2>4 DEF JobType
  <2>6. job' = [h \in Job |-> job'[h]]
    BY <1>3, <1>4
  <2> QED
    BY <1>4, <1>5, <2>2, <2>5, <2>6
<1>7. TypeOK'
  BY <1>1, <1>4, <1>6 DEF TypeOK
<1>8. Steady
  BY <1>1, <1>5, ZenonT(30) DEF Steady, Untouched
<1>9. PlaceInv(j)' /\ ClaimInv(j)'
  BY <1>1, <1>4, <1>5 DEF JobInv, PlaceInv, ClaimInv
<1>10. RevokeInv(j)'
  <2>1. job'[j].todo \subseteq all /\ job'[j].before \subseteq all /\ KeysOf(job[j].tenant)' = all
    BY <1>1, <1>4, <1>5 DEF JobInv, RevokeInv, KeysOf
  <2>2. ~job'[j].failed => job'[j].todo = all
    BY <1>5
  <2>3. job'[j].status = 0
    BY <1>1, <1>4, <1>5 DEF JobInv, PlaceInv
  <2> HIDE DEF all, missed
  <2> QED
    BY <2>1, <2>2, <2>3 DEF RevokeInv
<1> QED
  BY <1>1, <1>5, <1>7, <1>8, <1>9, <1>10, OneJob DEF JobInv

\* A key is revoked for its own tenant, by a request that is no claim.
LEMMA RevokeKeyStep ==
    ASSUME TInv, NEW j \in Job, NEW k \in Key, RevokeKey(j, k)
    PROVE  TInv'
<1>1. PICK o \in Outcomes \cup {[done |-> FALSE, ok |-> FALSE]} :
        /\ job[j].at = "revoke" /\ k \in job[j].todo
        /\ keys' = IF o.done THEN [keys EXCEPT ![k].state = "revoked"] ELSE keys
        /\ job' = [job EXCEPT ![j].todo = @ \ {k}, ![j].failed = @ \/ ~o.ok]
        /\ UNCHANGED <<tenants, invites, granted>>
  BY DEF RevokeKey
<1>2. TypeOK /\ job \in [Job -> JobType] /\ JobInv(j)
  BY DEF TInv, TypeOK
<1>3. /\ job[j].op # "claim" /\ job[j].tenant \in Tenant /\ job[j].todo \subseteq KeysOf(job[j].tenant)
      /\ keys[k].state # "new" /\ keys[k].tenant = job[j].tenant
  BY <1>1, <1>2 DEF JobInv, PlaceInv, RevokeInv, KeysOf
<1> DEFINE rest == job[j].todo \ {k} bad == job[j].failed \/ ~o.ok
<1>4. /\ rest \subseteq Key /\ bad \in BOOLEAN /\ (~bad => ~job[j].failed /\ o.done)
  <2>1. o.ok \in BOOLEAN /\ (o.ok => o.done)
    <3>1. ASSUME NEW p \in Outcomes PROVE p.ok \in BOOLEAN /\ (p.ok => p.done)
      BY <3>1 DEF Outcomes
    <3>2. CASE o \in Outcomes
      BY <3>1, <3>2
    <3>3. CASE o = [done |-> FALSE, ok |-> FALSE]
      BY <3>3
    <3> QED
      BY <3>2, <3>3
  <2> QED
    BY <1>2, <2>1 DEF JobType
<1>5. job' = [job EXCEPT ![j].todo = rest, ![j].failed = bad]
  BY <1>1
<1>6. /\ job'[j].op = job[j].op /\ job'[j].tenant = job[j].tenant /\ job'[j].at = job[j].at
      /\ job'[j].todo = rest /\ job'[j].before = job[j].before
      /\ job'[j].status = job[j].status
      /\ job'[j].failed = bad
      /\ \A h \in Job : h # j => job'[h] = job[h]
  <2> HIDE DEF rest, bad
  <2> QED
    BY <1>5, <1>2 DEF JobType
<1>7. job' \in [Job -> JobType]
  <2> HIDE DEF rest, bad
  <2>1. job'[j] = [job[j] EXCEPT !.todo = rest, !.failed = bad]
    BY <1>5, <1>2
  <2>2. job[j] \in JobType
    BY <1>2
  <2>3. [job[j] EXCEPT !.todo = rest, !.failed = bad] \in JobType
    BY <1>4, <2>2 DEF JobType
  <2>4. job' = [h \in Job |-> job'[h]]
    BY <1>5, <1>2
  <2> QED
    BY <1>2, <1>6, <2>1, <2>3, <2>4
<1>8. keys' \in [Key -> [state : {"new", "active", "revoked"}, tenant : Tenant \cup {Nobody}]]
  BY <1>1, <1>2 DEF TypeOK
<1>9. TypeOK'
  BY <1>1, <1>2, <1>7, <1>8 DEF TypeOK
<1>10. /\ keys'[k].state \in {keys[k].state, "revoked"} /\ keys'[k].tenant = keys[k].tenant
       /\ o.done => keys'[k].state = "revoked"
       /\ \A l \in Key : l # k => keys'[l] = keys[l]
  BY <1>1, <1>2 DEF TypeOK
<1>11. Steady
  <2>1. \A u \in Tenant : Untouched(u)' => Untouched(u) /\ u # job[j].tenant
    BY <1>3, <1>6 DEF Untouched
  <2> QED
    BY <1>1, <1>3, <1>10, <2>1 DEF Steady
<1>12. PlaceInv(j)' /\ ClaimInv(j)'
  BY <1>1, <1>2, <1>6 DEF JobInv, PlaceInv, ClaimInv
<1>13. RevokeInv(j)'
  <2> DEFINE all == KeysOf(job[j].tenant)
  <2>1. all \subseteq KeysOf(job[j].tenant)' /\ job'[j].tenant = job[j].tenant
    BY <1>6, <1>11 DEF Steady, KeysOf
  <2>2. job'[j].todo \subseteq all /\ job'[j].before \subseteq all /\ all \subseteq Key
    BY <1>2, <1>3, <1>6 DEF JobInv, RevokeInv, KeysOf
  <2>3. job'[j].status = 0
    BY <1>1, <1>2, <1>6 DEF JobInv, PlaceInv
  <2>4. ASSUME job'[j].op \in Revoking, ~bad, NEW l \in job[j].before
        PROVE  l \in rest \/ keys'[l].state = "revoked"
    <3>1. ~job[j].failed /\ o.done
      BY <1>4, <2>4
    <3>2. l \in job[j].todo \/ keys[l].state = "revoked"
      BY <1>1, <1>2, <1>6, <2>4, <3>1 DEF JobInv, RevokeInv
    <3>3. l \in Key
      BY <2>2, <1>6
    <3> QED
      BY <1>10, <1>11, <3>1, <3>2, <3>3 DEF Steady
  <2> HIDE DEF all, bad, rest
  <2> QED
    BY <1>6, <2>1, <2>2, <2>3, <2>4 DEF RevokeInv
<1> QED
  BY <1>1, <1>6, <1>9, <1>11, <1>12, <1>13, OneJob DEF JobInv

\* deleteTenant and setSuspend write the record of their own tenant, and are no claims.
LEMMA TenantWritten ==
    ASSUME TInv, NEW j \in Job, job[j].at \in {"revoke", "write"}, NEW c \in Statuses,
           c = 500 \/ job[j].todo = {} \/ job[j].at = "write",
           tenants' \in [Tenant -> {"new", "active", "suspended", "deleted"}],
           \A t \in Tenant : /\ t # job[j].tenant => tenants'[t] = tenants[t]
                             /\ tenants[t] # "new" => tenants'[t] # "new",
           Answers(j, c), UNCHANGED <<keys, invites, granted>>
    PROVE  TInv'
<1>1. TypeOK /\ job \in [Job -> JobType] /\ JobInv(j)
  BY DEF TInv, TypeOK
<1>2. job[j].op # "claim" /\ job[j].tenant \in Tenant
  BY <1>1 DEF JobInv, PlaceInv
<1>3. job' = [job EXCEPT ![j].at = "end", ![j].status = c]
  BY DEF Answers
<1>4. job' \in [Job -> JobType]
  <2>1. "end" \in Places
    BY DEF Places
  <2> QED
    BY <1>1, <1>3, <2>1, Retyped
<1>5. /\ job'[j].op = job[j].op /\ job'[j].tenant = job[j].tenant /\ job'[j].at = "end"
      /\ job'[j].todo = job[j].todo /\ job'[j].before = job[j].before
      /\ job'[j].status = c /\ job'[j].failed = job[j].failed
      /\ \A h \in Job : h # j => job'[h] = job[h]
  BY <1>1, <1>3 DEF JobType
<1>6. TypeOK'
  BY <1>1, <1>2, <1>4 DEF TypeOK
<1>7. Steady
  <2>1. \A u \in Tenant : Untouched(u)' => Untouched(u) /\ u # job[j].tenant
    BY <1>2, <1>5 DEF Untouched
  <2> QED
    BY <1>1, <1>2, <2>1 DEF Steady, TypeOK
<1>8. PlaceInv(j)' /\ ClaimInv(j)'
  BY <1>5 DEF PlaceInv, ClaimInv
<1>9. RevokeInv(j)'
  <2>1. c = 500 \/ job[j].todo = {} \/ job[j].op \notin Revoking
    BY <1>1 DEF JobInv, PlaceInv
  <2> QED
    BY <1>1, <1>5, <2>1 DEF JobInv, PlaceInv, RevokeInv, KeysOf
<1> QED
  BY <1>5, <1>6, <1>7, <1>8, <1>9, OneJob DEF JobInv

\* the delete of a record,
LEMMA DeleteRecordStep ==
    ASSUME TInv, NEW j \in Job, DeleteRecord(j)
    PROVE  TInv'
<1>1. PICK o \in Outcomes :
        /\ job[j].op = "delete" /\ job[j].at = "revoke" /\ job[j].todo = {}
        /\ tenants' = IF o.done THEN [tenants EXCEPT ![job[j].tenant] = "deleted"] ELSE tenants
        /\ Answers(j, IF o.ok THEN 204 ELSE 500)
        /\ UNCHANGED <<keys, invites, granted>>
  BY DEF DeleteRecord
<1>2. /\ tenants' \in [Tenant -> {"new", "active", "suspended", "deleted"}]
      /\ \A t \in Tenant : /\ t # job[j].tenant => tenants'[t] = tenants[t]
                           /\ tenants[t] # "new" => tenants'[t] # "new"
  BY <1>1 DEF TInv, TypeOK
<1>3. ASSUME NEW c \in {204, 500}, Answers(j, c) PROVE TInv'
  <2>1. c \in Statuses
    BY DEF Statuses
  <2> QED
    BY <1>1, <1>2, <1>3, <2>1, TenantWritten
<1>4. Answers(j, 204) \/ Answers(j, 500)
  BY <1>1
<1> QED
  BY <1>3, <1>4

\* the write of a suspend,
LEMMA SuspendWriteStep ==
    ASSUME TInv, NEW j \in Job, SuspendWrite(j)
    PROVE  TInv'
<1>1. PICK o \in Outcomes, s \in {"suspended", "active"} :
        /\ job[j].at = "write"
        /\ tenants' = IF o.done THEN [tenants EXCEPT ![job[j].tenant] = s] ELSE tenants
        /\ Answers(j, IF o.ok THEN 200 ELSE 500)
        /\ UNCHANGED <<keys, invites, granted>>
  BY DEF SuspendWrite
<1>3. /\ tenants' \in [Tenant -> {"new", "active", "suspended", "deleted"}]
      /\ \A t \in Tenant : /\ t # job[j].tenant => tenants'[t] = tenants[t]
                           /\ tenants[t] # "new" => tenants'[t] # "new"
  BY <1>1 DEF TInv, TypeOK
<1>4. ASSUME NEW c \in {200, 500}, Answers(j, c) PROVE TInv'
  <2>1. c \in Statuses
    BY DEF Statuses
  <2> QED
    BY <1>1, <1>3, <1>4, <2>1, TenantWritten
<1>5. Answers(j, 200) \/ Answers(j, 500)
  BY <1>1
<1> QED
  BY <1>4, <1>5

\* A restart ends what is under way, and takes nothing back.
LEMMA RestartStep ==
    ASSUME TInv, UNCHANGED <<tenants, keys, invites, granted>>,
           job' = [j \in Job |-> IF job[j].at = "idle" THEN job[j] ELSE [job[j] EXCEPT !.at = "end"]]
    PROVE  TInv'
<1>1. TypeOK /\ job \in [Job -> JobType] /\ \A j \in Job : JobInv(j)
  BY DEF TInv, TypeOK
<1>2. \A j \in Job : \/ job'[j] = job[j]
                     \/ job'[j] = [job[j] EXCEPT !.at = "end"]
  OBVIOUS
<1>3. job' \in [Job -> JobType]
  <2>1. ASSUME NEW r \in JobType PROVE [r EXCEPT !.at = "end"] \in JobType
    BY DEF JobType, Places
  <2> QED
    BY <1>1, <2>1
<1>4. TypeOK'
  BY <1>1, <1>3 DEF TypeOK
<1>5. \A j \in Job : /\ job'[j].op = job[j].op /\ job'[j].tenant = job[j].tenant
                     /\ job'[j].todo = job[j].todo /\ job'[j].before = job[j].before
                     /\ job'[j].status = job[j].status /\ job'[j].failed = job[j].failed
                     /\ job'[j].at = "end" \/ job'[j] = job[j]
  BY <1>1, <1>2 DEF JobType
<1>6. Steady
  BY <1>5 DEF Steady, Untouched
<1>7. ASSUME NEW j \in Job PROVE JobInv(j)'
  <2>1. CASE job'[j] = job[j]
    BY <1>1, <1>4, <1>6, <2>1, Kept
  <2>2. CASE job'[j].at = "end"
    <3>1. PlaceInv(j)' /\ ClaimInv(j)'
      BY <2>2 DEF PlaceInv, ClaimInv
    <3>2. RevokeInv(j)'
      BY <1>1, <1>5, <2>2 DEF JobInv, RevokeInv, KeysOf
    <3> QED
      BY <3>1, <3>2 DEF JobInv
  <2> QED
    BY <1>5, <2>1, <2>2
<1>8. MarkInv'
  BY DEF TInv, MarkInv, KeysOf
<1>9. GrantInv'
  BY <1>4, <1>6, GrantsKept DEF GrantInv, Untouched, Usable, ActiveKeys, KeysOf
<1> QED
  BY <1>4, <1>7, <1>8, <1>9 DEF TInv
-----------------------------------------------------------------------------
\* every step of a handler,
LEMMA HandlerSteps ==
    ASSUME TInv, NEW j \in Job, Handler(j)
    PROVE  TInv'
<1>1. ASSUME NEW i \in Invite, Claim(j, i) PROVE TInv'
  BY <1>1, ClaimStep
<1>2. ASSUME NEW t \in Tenant, RegenKey(j, t) \/ DeleteTenant(j, t) PROVE TInv'
  BY <1>2, OpenStep
<1>3. ASSUME NEW t \in Tenant, SetSuspend(j, t) PROVE TInv'
  BY <1>3, SetSuspendStep
<1>4. ASSUME NEW k \in Key, RevokeKey(j, k) PROVE TInv'
  BY <1>4, RevokeKeyStep
<1> QED
  BY <1>1, <1>2, <1>3, <1>4, ClaimTenantStep, ClaimKeyStep, ClaimRecordStep, ListKeysStep,
     RegenIssueStep, DeleteRecordStep, SuspendWriteStep DEF Handler

\* and no step at all.
LEMMA StutterStep == TInv /\ UNCHANGED vars => TInv'
BY DEF TInv, vars, TypeOK, JobInv, PlaceInv, ClaimInv, RevokeInv, MarkInv, GrantInv, Untouched,
       Usable, ActiveKeys, KeysOf

\* Every step keeps the invariant.
LEMMA NextInv == TInv /\ [Next]_vars => TInv'
<1> SUFFICES ASSUME TInv, [Next]_vars PROVE TInv'
  OBVIOUS
<1>1. CASE Restart
  BY <1>1, RestartStep DEF Restart
<1> QED
  BY <1>1, AdminSteps, HandlerSteps, StutterStep DEF Next

(* The inductive invariant of the control plane holds in every reachable state. *)
THEOREM TenancyInvariant == Spec => []TInv
BY InitInv, NextInv, PTL DEF Spec

(* Types: tenants, keys, invites and requests keep the values the stores know. *)
THEOREM TenancyTypeCorrect == Spec => []TypeOK
<1>1. TInv => TypeOK
  BY DEF TInv
<1> QED
  BY <1>1, TenancyInvariant, PTL

(* An invite is used up only for a tenant that was written and given a key. *)
THEOREM InvitesBuyTenants == Spec => []InviteNotBurned
<1>1. TInv => InviteNotBurned
  BY DEF TInv, MarkInv, InviteNotBurned
<1> QED
  BY <1>1, TenancyInvariant, PTL

(* What a claim was granted works until somebody else deals with the tenant. *)
THEOREM ClaimsAreUsable == Spec => []ClaimIsUsable
<1>1. TInv => ClaimIsUsable
  BY DEF TInv, GrantInv, ClaimIsUsable, Untouched, Usable
<1> QED
  BY <1>1, TenancyInvariant, PTL

(* A regen-key or a deletion that succeeds and met no error leaves no old key active. *)
THEOREM RevokingIsThorough == Spec => []OldKeysRevoked
<1>1. TInv => OldKeysRevoked
  BY DEF TInv, JobInv, RevokeInv, OldKeysRevoked
<1> QED
  BY <1>1, TenancyInvariant, PTL

(* The record of a claimed invite is never written again. *)
THEOREM RecordsAreFinal == Spec => ClaimRecordIsFinal
<1> DEFINE Final == \A i \in Invite : invites[i].state = "claimed" => invites'[i] = invites[i]
<1>1. TInv /\ [Next]_vars => [Final]_vars
  <2> SUFFICES ASSUME TInv, Next, NEW i \in Invite, invites[i].state = "claimed"
               PROVE  invites'[i] = invites[i]
    OBVIOUS
  <2>1. CASE Admin
    BY <2>1 DEF Admin, CreateInvite, InviteExpires, RevokeInvite, TInv, TypeOK
  <2>2. CASE Restart
    BY <2>2 DEF Restart
  <2>3. ASSUME NEW j \in Job, ClaimRecord(j) PROVE invites'[i] = invites[i]
    BY <2>3 DEF ClaimRecord, TInv, TypeOK
  <2>4. ASSUME NEW j \in Job, Handler(j), ~ClaimRecord(j) PROVE invites' = invites
    BY <2>4 DEF Handler, Claim, ClaimTenant, ClaimKey, RegenKey, DeleteTenant, Open, SetSuspend,
                ListKeys, RevokeKey, RegenIssue, DeleteRecord, SuspendWrite
  <2> QED
    BY <2>1, <2>2, <2>3, <2>4 DEF Next
<1> QED
  BY <1>1, TenancyInvariant, PTL DEF Spec, ClaimRecordIsFinal
=============================================================================
