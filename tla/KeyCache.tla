------------------------------ MODULE KeyCache ------------------------------
(***************************************************************************)
(* The key cache of each adapter (src/internal/adapter/keys.go): it polls  *)
(* the control plane for all key records and accepts the active ones until *)
(* the next successful poll.  The control plane answers a poll by listing  *)
(* the keys and reading them one by one (Store.AllKeys), each from one of  *)
(* the replicas of its bucket, which may lag.                              *)
(***************************************************************************)
EXTENDS Naturals, FiniteSets

CONSTANTS
    Key,        \* API key hashes
    Adapter,    \* adapters, one per region
    MaxErrors   \* bound, per adapter: failed polls, unreadable records and restarts

VARIABLES
    keys,       \* the control plane's key records (not changed here)
    behind,     \* keys whose latest record has not reached every replica
    cache,      \* [Adapter -> keys accepted]
    poll,       \* [Adapter -> the poll under way]
    knew,       \* history: [Adapter -> keys revoked, on every replica, before the
                \*   last successful poll]
    errors      \* [Adapter -> errors so far]

cacheVars == <<cache, poll, knew, errors>>

\* A poll: the keys listed and still to read, those kept so far, and, as history, the
\* keys that every replica had as revoked, and as active, when it began.
NoPoll == [on |-> FALSE, todo |-> {}, got |-> {}, revoked |-> {}, active |-> {}]

InState(s) == {k \in Key : keys[k].state = s}
Settled(s) == InState(s) \ behind

\* authOK: a request with key k passes at adapter a.
Accepts(a, k) == k \in cache[a]

\* One more error of adapter a.
Fails(a) ==
    /\ errors[a] < MaxErrors
    /\ errors' = [errors EXCEPT ![a] = @ + 1]

\* Mutant of PollStart: only keys the adapter does not have yet are asked for.
PollStartNew(a) ==
    /\ ~poll[a].on
    /\ poll' = [poll EXCEPT ![a] = [on |-> TRUE, todo |-> (Key \ InState("new")) \ cache[a],
                                    got |-> {}, revoked |-> Settled("revoked"),
                                    active |-> Settled("active")]]
    /\ UNCHANGED <<keys, behind, cache, knew, errors>>

\* refresh asks, and AllKeys lists the keys there are ...
PollStart(a) ==
    /\ ~poll[a].on
    /\ poll' = [poll EXCEPT ![a] = [on |-> TRUE, todo |-> Key \ InState("new"), got |-> {},
                                    revoked |-> Settled("revoked"),
                                    active |-> Settled("active")]]
    /\ UNCHANGED <<keys, behind, cache, knew, errors>>

\* ... reads the records one after the other, leaving out what cannot be read; the
\* adapter keeps those that are not revoked.  A replica that lags has a record that is
\* not revoked yet, or none ...
PollRead(a, k) ==
    /\ poll[a].on /\ k \in poll[a].todo
    /\ \/ \E kept \in IF k \in behind THEN BOOLEAN ELSE {keys[k].state = "active"} :
              /\ poll' = [poll EXCEPT ![a].todo = @ \ {k},
                                      ![a].got = IF kept THEN @ \cup {k} ELSE @]
              /\ UNCHANGED errors
       \/ /\ poll' = [poll EXCEPT ![a].todo = @ \ {k}]
          /\ Fails(a)
    /\ UNCHANGED <<keys, behind, cache, knew>>

\* Mutants of PollEnd: the new keys are added to the old ones; an empty answer is
\* taken for an error.
PollEndMerges(a) ==
    /\ poll[a].on /\ poll[a].todo = {}
    /\ cache' = [cache EXCEPT ![a] = @ \cup poll[a].got]
    /\ knew' = [knew EXCEPT ![a] = poll[a].revoked]
    /\ poll' = [poll EXCEPT ![a] = NoPoll]
    /\ UNCHANGED <<keys, behind, errors>>

PollEndNotEmpty(a) ==
    /\ poll[a].on /\ poll[a].todo = {}
    /\ cache' = [cache EXCEPT ![a] = IF poll[a].got = {} THEN @ ELSE poll[a].got]
    /\ knew' = [knew EXCEPT ![a] = poll[a].revoked]
    /\ poll' = [poll EXCEPT ![a] = NoPoll]
    /\ UNCHANGED <<keys, behind, errors>>

\* ... and the new map replaces the old one.
PollEnd(a) ==
    /\ poll[a].on /\ poll[a].todo = {}
    /\ cache' = [cache EXCEPT ![a] = poll[a].got]
    /\ knew' = [knew EXCEPT ![a] = poll[a].revoked]
    /\ poll' = [poll EXCEPT ![a] = NoPoll]
    /\ UNCHANGED <<keys, behind, errors>>

\* Any error or status other than 200 keeps the old map.
PollFails(a) ==
    /\ poll[a].on /\ Fails(a)
    /\ poll' = [poll EXCEPT ![a] = NoPoll]
    /\ UNCHANGED <<keys, behind, cache, knew>>

\* A restarted adapter knows no key until its first poll.
AdapterRestarts(a) ==
    /\ cache[a] # {} \/ poll[a].on
    /\ Fails(a)
    /\ cache' = [cache EXCEPT ![a] = {}]
    /\ poll' = [poll EXCEPT ![a] = NoPoll]
    /\ knew' = [knew EXCEPT ![a] = {}]
    /\ UNCHANGED <<keys, behind>>

CacheInit ==
    /\ cache = [a \in Adapter |-> {}]
    /\ poll = [a \in Adapter |-> NoPoll]
    /\ knew = [a \in Adapter |-> {}]
    /\ errors = [a \in Adapter |-> 0]

Polls(a) == PollStart(a) \/ (\E k \in Key : PollRead(a, k)) \/ PollEnd(a) \/ PollFails(a)
            \/ AdapterRestarts(a)
=============================================================================
