---------------------------- MODULE AccessControl ----------------------------
(***************************************************************************)
(* Tenancy and the key caches of the adapters together: how long a key     *)
(* outlives its revocation.  The records of the keys are in a bucket with  *)
(* five replicas; a poll may be answered by one that lags.                 *)
(***************************************************************************)
EXTENDS Tenancy

CONSTANTS Adapter, MaxErrors
ASSUME ErrorsAssumption == MaxErrors \in Nat

VARIABLES behind, cache, poll, knew, errors

Cache == INSTANCE KeyCache

cacheVars == <<cache, poll, knew, errors>>
accessVars == <<vars, behind, cacheVars>>

AccessInit == Init /\ behind = {} /\ Cache!CacheInit

\* A record that changes is behind on some replica ...
Serve ==
    /\ Next
    /\ behind' = behind \cup {k \in Key : keys'[k] # keys[k]}
    /\ UNCHANGED cacheVars

\* ... until every replica has the change.
CatchUp(k) ==
    /\ k \in behind
    /\ behind' = behind \ {k}
    /\ UNCHANGED <<vars, cacheVars>>

AccessNext ==
    \/ Serve
    \/ \E k \in Key : CatchUp(k)
    \/ (\E a \in Adapter : Cache!Polls(a)) /\ UNCHANGED <<tenants, invites, job, granted>>

AccessSpec == AccessInit /\ [][AccessNext]_accessVars

OnlyPoll(A) == A /\ UNCHANGED <<tenants, invites, job, granted>>

(* The ticker keeps polling, a poll under way goes on, and what is stored reaches every
   replica in the end.  MaxErrors makes errors end some day: while every poll fails an
   adapter keeps its map, by design. *)
FairAccessSpec ==
    /\ AccessSpec
    /\ \A a \in Adapter :
        /\ WF_accessVars(OnlyPoll(Cache!PollStart(a)))
        /\ WF_accessVars(OnlyPoll(\E k \in Key : Cache!PollRead(a, k)))
        /\ WF_accessVars(OnlyPoll(Cache!PollEnd(a)))
    /\ \A k \in Key : WF_accessVars(CatchUp(k))

-----------------------------------------------------------------------------
(* Caches and polls hold keys, and an adapter has no more errors than MaxErrors. *)
CacheTypeOK ==
    /\ cache \in [Adapter -> SUBSET Key]
    /\ behind \subseteq Key
    /\ poll \in [Adapter -> [on : BOOLEAN, todo : SUBSET Key, got : SUBSET Key,
                             revoked : SUBSET Key, active : SUBSET Key]]
    /\ knew \in [Adapter -> SUBSET Key]
    /\ errors \in [Adapter -> 0 .. MaxErrors]
    /\ \A a \in Adapter : poll[a].on \/ poll[a] = Cache!NoPoll

(* A key outlives its revocation, once that has reached every replica, by one poll at
   most: no adapter accepts a key that was revoked there before its last successful poll
   began, whatever raced with the poll.  A poll answered by a replica that lags may keep
   the key for one more round. *)
OnePollOfGrace == \A a \in Adapter : \A k \in knew[a] : ~Cache!Accepts(a, k)

(* A revoked key is rejected everywhere in the end, and for good. *)
RevocationArrives ==
    \A a \in Adapter, k \in Key :
        keys[k].state = "revoked" ~> [](~Cache!Accepts(a, k))

(* While no record was unreadable, a poll that is about to replace the map has every
   key that every replica had as active when it began and that is still active: a
   refresh that races with claims, regenerations and deletions locks nobody out. *)
PollKeepsActiveKeys ==
    \A a \in Adapter, k \in Key :
        /\ errors[a] = 0
        /\ poll[a].on /\ poll[a].todo = {}
        /\ k \in poll[a].active /\ keys[k].state = "active"
        => k \in poll[a].got
=============================================================================
