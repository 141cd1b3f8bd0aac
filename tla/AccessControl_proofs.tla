------------------------- MODULE AccessControl_proofs -------------------------
(***************************************************************************)
(* Theorems about AccessControl, for any number of adapters, keys and      *)
(* requests, with lagging replicas, failing polls, unreadable records and  *)
(* restarts.                                                               *)
(*                                                                         *)
(* A poll reads the records one by one while they change, so what it got   *)
(* is the state of no single moment.  The invariant says what is true of   *)
(* it all the same: it has no key that was revoked, on every replica, when *)
(* it began, and it has, or has still to read, every key that was active   *)
(* on every replica then and still is.  A record that does not change is   *)
(* not behind again; that is what makes both last through the poll.        *)
(***************************************************************************)
EXTENDS AccessControl, Tenancy_proofs

\* No key that was ever issued is new, and a revoked one stays so and is not written
\* into a record that differs.
KeyMoves ==
    /\ \A k \in Key : keys[k].state # "new" => keys'[k].state # "new"
    /\ \A k \in Key : keys[k].state = "revoked" => keys'[k] = keys[k]
    /\ \A k \in Key : keys'[k].state = "active" =>
          keys[k].state = "new" \/ keys'[k] = keys[k]

PollInv(a) ==
    /\ \A k \in knew[a] : k \notin cache[a]
    /\ \A k \in knew[a] \cup poll[a].revoked : keys[k].state = "revoked" /\ k \notin behind
    /\ \A k \in poll[a].revoked : k \notin poll[a].got
    /\ \A k \in poll[a].active :
          keys[k].state # "new" /\ (keys[k].state = "active" => k \notin behind)
    /\ errors[a] = 0 /\ poll[a].on =>
          \A k \in poll[a].active : keys[k].state = "active" => k \in poll[a].todo \cup poll[a].got

CInv == TInv /\ CacheTypeOK /\ \A a \in Adapter : PollInv(a)

\* The invariant holds at the start.
LEMMA CInvInit == AccessInit => CInv
<1> SUFFICES ASSUME AccessInit PROVE CInv
  OBVIOUS
<1>1. TInv
  BY InitInv DEF AccessInit
<1>2. CacheTypeOK
  BY ErrorsAssumption DEF AccessInit, CacheTypeOK, Cache!CacheInit, Cache!NoPoll
<1>3. ASSUME NEW a \in Adapter PROVE PollInv(a)
  BY DEF AccessInit, Cache!CacheInit, Cache!NoPoll, PollInv
<1> QED
  BY <1>1, <1>2, <1>3 DEF CInv

\* Issuing a key is one of the moves a key may make.
LEMMA IssueMoves ==
    ASSUME TInv, NEW j \in Job, NEW t, NEW at, NEW s, IssueKey(j, t, at, s)
    PROVE  KeyMoves
BY DEF IssueKey, TInv, TypeOK, KeyMoves

\* Whatever the control plane does, keys only move on: issued once, revoked for good.
LEMMA Moves == TInv /\ [Next]_vars => KeyMoves
<1> SUFFICES ASSUME TInv, [Next]_vars PROVE KeyMoves
  OBVIOUS
<1>1. CASE UNCHANGED keys
  BY <1>1 DEF KeyMoves, TInv, TypeOK
<1>2. ASSUME NEW j \in Job, NEW k \in Key, RevokeKey(j, k) PROVE KeyMoves
  <2>1. k \in KeysOf(job[j].tenant)
    BY <1>2 DEF RevokeKey, TInv, JobInv, RevokeInv
  <2> QED
    BY <1>2, <2>1 DEF RevokeKey, KeysOf, TInv, TypeOK, KeyMoves
<1>3. ASSUME NEW j \in Job, ClaimKey(j) \/ RegenIssue(j) PROVE KeyMoves
  BY <1>3, IssueMoves DEF ClaimKey, RegenIssue
<1> QED
  BY <1>1, <1>2, <1>3
     DEF Next, vars, Admin, CreateInvite, InviteExpires, RevokeInvite, Handler, Claim, ClaimTenant,
         ClaimRecord, RegenKey, DeleteTenant, Open, SetSuspend, ListKeys, DeleteRecord,
         SuspendWrite, Restart

\* What the control plane does leaves the polls what they rely on.
LEMMA ServeStep ==
    ASSUME CInv, Serve
    PROVE  CInv'
<1> DEFINE changed == {k \in Key : keys'[k] # keys[k]}
<1>0. Next /\ behind' = behind \cup changed /\ UNCHANGED cacheVars
  BY DEF Serve
<1>1. TInv' /\ KeyMoves
  BY <1>0, NextInv, Moves DEF CInv
<1>2. CacheTypeOK'
  BY <1>0 DEF CInv, CacheTypeOK, cacheVars
<1>3. ASSUME NEW a \in Adapter PROVE PollInv(a)'
  <2>1. CacheTypeOK /\ PollInv(a)
    BY DEF CInv
  <2>2. \A k \in Key : k \notin behind /\ keys'[k] = keys[k] => k \notin behind'
    BY <1>0
  <2>3. knew[a] \subseteq Key /\ poll[a].revoked \subseteq Key /\ poll[a].active \subseteq Key
    BY <2>1 DEF CacheTypeOK
  <2> QED
    BY <1>0, <1>1, <2>1, <2>2, <2>3 DEF PollInv, KeyMoves, cacheVars
<1> QED
  BY <1>1, <1>2, <1>3 DEF CInv

\* A record that reaches the last replica is behind no more; nothing else changes.
LEMMA CatchUpStep ==
    ASSUME CInv, NEW k \in Key, CatchUp(k)
    PROVE  CInv'
<1>1. UNCHANGED vars /\ UNCHANGED cacheVars /\ behind' \subseteq behind
  BY DEF CatchUp
<1>2. TInv'
  BY <1>1, StutterStep DEF CInv
<1>3. CacheTypeOK'
  BY <1>1 DEF CInv, CacheTypeOK, cacheVars
<1>4. ASSUME NEW a \in Adapter PROVE PollInv(a)'
  BY <1>1 DEF CInv, PollInv, cacheVars, vars
<1> QED
  BY <1>2, <1>3, <1>4 DEF CInv

\* A poll of one adapter changes nothing of another one.
LEMMA OnePoll ==
    ASSUME CInv, NEW a \in Adapter, UNCHANGED <<vars, behind>>, CacheTypeOK', PollInv(a)',
           \A b \in Adapter : b # a =>
               /\ cache'[b] = cache[b] /\ poll'[b] = poll[b]
               /\ knew'[b] = knew[b] /\ errors'[b] = errors[b]
    PROVE  CInv'
<1>1. TInv'
  BY StutterStep DEF CInv
<1>2. ASSUME NEW b \in Adapter, b # a PROVE PollInv(b)'
  BY <1>2 DEF CInv, PollInv, vars
<1> QED
  BY <1>1, <1>2 DEF CInv

\* Failures stay within their bound.
LEMMA FailsCounted ==
    ASSUME CacheTypeOK, NEW a \in Adapter, Cache!Fails(a)
    PROVE  errors' \in [Adapter -> 0 .. MaxErrors]
BY ErrorsAssumption DEF CacheTypeOK, Cache!Fails

\* A step of one adapter keeps the invariant of all.
LEMMA PollStep ==
    ASSUME CInv, NEW a \in Adapter, Cache!Polls(a), UNCHANGED <<tenants, invites, job, granted>>
    PROVE  CInv'
<1>1. CacheTypeOK /\ PollInv(a)
  BY DEF CInv
<1>2. CASE Cache!PollStart(a)
  <2>1. CacheTypeOK'
    BY <1>1, <1>2 DEF Cache!PollStart, Cache!InState, Cache!Settled, CacheTypeOK
  <2>2. PollInv(a)'
    BY <1>1, <1>2 DEF Cache!PollStart, Cache!InState, Cache!Settled, CacheTypeOK, PollInv
  <2> QED
    BY <1>1, <1>2, <2>1, <2>2, OnePoll DEF Cache!PollStart, CacheTypeOK, vars
<1>3. ASSUME NEW k \in Key, Cache!PollRead(a, k) PROVE CInv'
  <2>0. errors' \in [Adapter -> 0 .. MaxErrors]
    BY <1>1, <1>3, FailsCounted DEF Cache!PollRead, CacheTypeOK
  <2>1. CacheTypeOK'
    <3> DEFINE PollType == [on : BOOLEAN, todo : SUBSET Key, got : SUBSET Key,
                            revoked : SUBSET Key, active : SUBSET Key]
               rest == poll[a].todo \ {k}
               more == poll[a].got \cup {k}
    <3>1. poll \in [Adapter -> PollType] /\ rest \in SUBSET Key /\ more \in SUBSET Key
      BY <1>1 DEF CacheTypeOK
    <3>2. \/ poll' = [poll EXCEPT ![a].todo = rest, ![a].got = more]
          \/ poll' = [poll EXCEPT ![a].todo = rest, ![a].got = poll[a].got]
          \/ poll' = [poll EXCEPT ![a].todo = rest]
      BY <1>3 DEF Cache!PollRead
    <3> HIDE DEF rest, more
    <3>3. poll' \in [Adapter -> PollType] /\ poll'[a].on = poll[a].on
          /\ \A b \in Adapter : b # a => poll'[b] = poll[b]
      BY <3>1, <3>2
    <3>4. \A b \in Adapter : poll'[b].on \/ poll'[b] = Cache!NoPoll
      BY <1>1, <1>3, <3>3 DEF CacheTypeOK, Cache!PollRead
    <3> QED
      BY <1>1, <1>3, <2>0, <3>3, <3>4 DEF Cache!PollRead, CacheTypeOK
  <2>2. PollInv(a)'
    <3> DEFINE rest == poll[a].todo \ {k}
               more == poll[a].got \cup {k}
    <3>1. /\ UNCHANGED <<keys, behind, cache, knew>> /\ poll[a].on
          /\ errors'[a] = 0 => errors[a] = 0 /\ errors' = errors
      BY <1>1, <1>3, ErrorsAssumption DEF Cache!PollRead, Cache!Fails, CacheTypeOK
    <3>2. CASE /\ poll' = [poll EXCEPT ![a].todo = rest] /\ errors'[a] # 0
      BY <1>1, <3>1, <3>2 DEF CacheTypeOK, PollInv
    <3>3. CASE /\ poll' = [poll EXCEPT ![a].todo = rest, ![a].got = poll[a].got]
               /\ keys[k].state # "active" \/ k \in behind
      BY <1>1, <3>1, <3>3 DEF CacheTypeOK, PollInv
    <3>4. CASE /\ poll' = [poll EXCEPT ![a].todo = rest, ![a].got = more]
               /\ keys[k].state = "active" \/ k \in behind
      BY <1>1, <3>1, <3>4 DEF CacheTypeOK, PollInv
    <3>5. Cache!Fails(a) => errors'[a] # 0
      BY <1>1, ErrorsAssumption DEF Cache!Fails, CacheTypeOK
    <3> HIDE DEF rest, more
    <3> QED
      BY <1>3, <3>2, <3>3, <3>4, <3>5 DEF Cache!PollRead, rest, more
  <2> QED
    BY <1>1, <1>3, <2>1, <2>2, OnePoll DEF Cache!PollRead, Cache!Fails, CacheTypeOK, vars
<1>4. CASE Cache!PollEnd(a)
  <2>1. CacheTypeOK'
    BY <1>1, <1>4 DEF Cache!PollEnd, Cache!NoPoll, CacheTypeOK
  <2>2. PollInv(a)'
    BY <1>1, <1>4 DEF Cache!PollEnd, Cache!NoPoll, CacheTypeOK, PollInv
  <2> QED
    BY <1>1, <1>4, <2>1, <2>2, OnePoll DEF Cache!PollEnd, CacheTypeOK, vars
<1>5. CASE Cache!PollFails(a)
  <2>0. errors' \in [Adapter -> 0 .. MaxErrors]
    BY <1>1, <1>5, FailsCounted DEF Cache!PollFails
  <2>1. CacheTypeOK'
    BY <1>1, <1>5, <2>0 DEF Cache!PollFails, Cache!NoPoll, CacheTypeOK
  <2>2. PollInv(a)'
    BY <1>1, <1>5 DEF Cache!PollFails, Cache!Fails, Cache!NoPoll, CacheTypeOK, PollInv
  <2> QED
    BY <1>1, <1>5, <2>1, <2>2, OnePoll DEF Cache!PollFails, Cache!Fails, CacheTypeOK, vars
<1>6. CASE Cache!AdapterRestarts(a)
  <2>0. errors' \in [Adapter -> 0 .. MaxErrors]
    BY <1>1, <1>6, FailsCounted DEF Cache!AdapterRestarts
  <2>1. CacheTypeOK'
    BY <1>1, <1>6, <2>0 DEF Cache!AdapterRestarts, Cache!NoPoll, CacheTypeOK
  <2>2. PollInv(a)'
    BY <1>1, <1>6 DEF Cache!AdapterRestarts, Cache!Fails, Cache!NoPoll, CacheTypeOK, PollInv
  <2> QED
    BY <1>1, <1>6, <2>1, <2>2, OnePoll DEF Cache!AdapterRestarts, Cache!Fails, CacheTypeOK, vars
<1> QED
  BY <1>2, <1>3, <1>4, <1>5, <1>6 DEF Cache!Polls

\* Every step of the control plane and of the adapters keeps the invariant.
LEMMA CInvStep == CInv /\ [AccessNext]_accessVars => CInv'
<1> SUFFICES ASSUME CInv, [AccessNext]_accessVars PROVE CInv'
  OBVIOUS
<1>1. CASE Serve
  BY <1>1, ServeStep
<1>3. ASSUME NEW k \in Key, CatchUp(k) PROVE CInv'
  BY <1>3, CatchUpStep
<1>4. CASE UNCHANGED accessVars
  <2>1. TInv'
    BY <1>4, StutterStep DEF CInv, accessVars
  <2> QED
    BY <1>4, <2>1 DEF CInv, CacheTypeOK, PollInv, accessVars, vars, cacheVars
<1>2. ASSUME NEW a \in Adapter, Cache!Polls(a), UNCHANGED <<tenants, invites, job, granted>>
      PROVE  CInv'
  BY <1>2, PollStep
<1> QED
  BY <1>1, <1>2, <1>3, <1>4 DEF AccessNext
-----------------------------------------------------------------------------
(* The inductive invariant of control plane and key caches holds in every reachable state. *)
THEOREM AccessInvariant == AccessSpec => []CInv
BY CInvInit, CInvStep, PTL DEF AccessSpec

(* Types: an adapter's map and its polls hold keys of the control plane. *)
THEOREM CacheTypeCorrect == AccessSpec => []CacheTypeOK
<1>1. CInv => CacheTypeOK
  BY DEF CInv
<1> QED
  BY <1>1, AccessInvariant, PTL

(* A key outlives its revocation, once every replica has it, by one successful poll at
   most, at every adapter. *)
THEOREM RevocationsCount == AccessSpec => []OnePollOfGrace
<1>1. CInv => OnePollOfGrace
  BY DEF CInv, PollInv, OnePollOfGrace, Cache!Accepts
<1> QED
  BY <1>1, AccessInvariant, PTL

(* A poll that could read every record locks no key out that was active, on every
   replica, when it began. *)
THEOREM PollsKeepKeys == AccessSpec => []PollKeepsActiveKeys
<1>1. CInv => PollKeepsActiveKeys
  BY DEF CInv, PollInv, PollKeepsActiveKeys
<1> QED
  BY <1>1, AccessInvariant, PTL
=============================================================================
