------------------------------ MODULE KVStream ------------------------------
(***************************************************************************)
(* The JetStream stream KV_<bucket> behind one bucket, as the adapter sees *)
(* it.  The NATS server is not part of the repository: everything here is  *)
(* modelled from the way src/internal/adapter/server.go uses it (expected  *)
(* last subject sequence, per-message TTL, DirectGet, per-region mirrors). *)
(*                                                                         *)
(* The stream numbers messages from 1.  log keeps every message ever       *)
(* stored, as a history; held[r] is the set of sequence numbers that       *)
(* replica r (the source, or a per-region mirror) still stores: a replica  *)
(* keeps the newest History messages of a key, and a message with a TTL    *)
(* disappears from it on its own.                                          *)
(***************************************************************************)
EXTENDS Integers, Sequences, FiniteSets

CONSTANTS
    Source,     \* the source stream
    Mirror,     \* its mirrors, one per region
    History     \* messages kept per key (the bucket's history)

ASSUME StreamAssumption ==
    /\ History \in Nat \ {0}
    /\ Source \notin Mirror

VARIABLES
    log,        \* sequence of messages, in stream order
    held,       \* [Replica -> set of sequence numbers]
    applied     \* [Mirror -> how far the mirror has copied the source]

streamVars == <<log, held, applied>>

Replica == {Source} \cup Mirror

(* No expected-sequence header on a publish. *)
AnyRev == -1

KeyOf(i) == log[i].want.key
IsTombstone(i) == log[i].want.op = "delete"

(* i is the newest message of key k that replica r stores, 0 if it has none. *)
Latest(r, k, i) ==
    /\ i # 0 => i \in held[r] /\ KeyOf(i) = k
    /\ \A j \in held[r] : KeyOf(j) = k => j <= i

(* What kv.Get reports as ErrKeyNotFound: no message, or a DEL marker. *)
Absent(i) == i = 0 \/ IsTombstone(i)

(* The messages replica r keeps when it stores message i of key k. *)
KeptWith(r, k, i) ==
    {j \in held[r] :
        KeyOf(j) = k => 1 + Cardinality({h \in held[r] : KeyOf(h) = k /\ h > j}) < History}
    \cup {i}

StreamInit ==
    /\ log = << >>
    /\ held = [r \in Replica |-> {}]
    /\ applied = [m \in Mirror |-> 0]

(* The source stores message e. *)
Store(e) ==
    /\ log' = Append(log, e)
    /\ held' = [held EXCEPT ![Source] = KeptWith(Source, e.want.key, Len(log) + 1)]
    /\ UNCHANGED applied

(* A mirror copies the next message; one the source no longer has is skipped. *)
Replicate(m) ==
    /\ applied[m] < Len(log)
    /\ applied' = [applied EXCEPT ![m] = @ + 1]
    /\ LET i == applied[m] + 1 IN
         held' = IF i \in held[Source]
                 THEN [held EXCEPT ![m] = KeptWith(m, KeyOf(i), i)]
                 ELSE held
    /\ UNCHANGED log

(* Nats-TTL: replica r drops a message whose time is up. *)
Expire(r) ==
    \E i \in held[r] :
        /\ log[i].want.ttl
        /\ held' = [held EXCEPT ![r] = @ \ {i}]
        /\ UNCHANGED <<log, applied>>
=============================================================================
