------------------------------- MODULE Batcher -------------------------------
(***************************************************************************)
(* The batcher of src/internal/adapter/batch.go, for one bucket: puts are  *)
(* queued on a channel, one flusher goroutine coalesces them, and each     *)
(* batch is written by a flush goroutine of its own, at most Inflight of   *)
(* them at a time.  All goroutines publish on one NATS connection, which   *)
(* is first-in first-out.                                                  *)
(*                                                                         *)
(* The stream's side of a batch (ADR-50: stage, commit, abandon on a gap)  *)
(* is external and modelled from what the code relies on.                  *)
(***************************************************************************)
EXTENDS Integers, Sequences, FiniteSets

CONSTANTS
    Put,        \* the puts, each one call with its own value
    Other,      \* what another writer of the bucket leaves in the stream
    Max,        \* BATCH_MAX
    Inflight,   \* BATCH_INFLIGHT
    QueueCap,   \* capacity of a queue (4096 in the code)
    AllowAtomic,\* which streams there are: with allow_atomic (TRUE), without it
    MayFail,    \* may calls fail, time out and messages get lost
    MaxOther    \* bound: writes of others

ASSUME BatcherAssumption ==
    /\ Other \notin Put
    /\ Max \in Nat \ {0, 1} /\ Inflight \in Nat \ {0} /\ QueueCap \in Nat \ {0}
    /\ AllowAtomic \subseteq BOOLEAN /\ AllowAtomic # {} /\ MayFail \in BOOLEAN /\ MaxOther \in Nat

VARIABLES
    pc,         \* per put: "idle", "send" (to the queue), "wait" (for resp), "done"
    answers,    \* per put: what was sent on its resp channel
    queue,      \* the bucket's channel
    flusher,    \* the flusher: "none", "recv", "fill" or "sem"
    batch,      \* the batch it assembles
    flights,    \* every flush goroutine started, in order
    wire,       \* the connection
    staged,     \* server: per batch id, the puts staged so far
    log,        \* the stream
    atomic,     \* has it allow_atomic
    failed,     \* history: has a call failed or timed out, or a message got lost
    earlier     \* history: per put, the puts that had returned when it was called

vars == <<pc, answers, queue, flusher, batch, flights, wire, staged, log, atomic, failed, earlier>>

Ok(i) == [ok |-> TRUE, rev |-> i]
Error == [ok |-> FALSE, rev |-> 0]
NoAck == [status |-> "none", rev |-> 0]

\* A flush goroutine: its batch, how many messages it has published, where it is,
\* its ack, and how many callers it has answered.
Flight(b) == [puts |-> b, sent |-> 0, at |-> "publish", ack |-> NoAck, told |-> 0]

\* A message of flight f; id 0 is a message without batch headers.
Message(f, p, id, seq, commit) == [from |-> f, put |-> p, id |-> id, seq |-> seq, commit |-> commit]

Running == {f \in DOMAIN flights : flights[f].at # "done"}
-----------------------------------------------------------------------------
\* put: under the mutex, the first put of the bucket makes queue and flusher.
Enter(p) ==
    /\ pc[p] = "idle"
    /\ pc' = [pc EXCEPT ![p] = "send"]
    /\ flusher' = IF flusher = "none" THEN "recv" ELSE flusher
    /\ earlier' = [earlier EXCEPT ![p] = {q \in Put : pc[q] = "done"}]
    /\ UNCHANGED <<answers, queue, batch, flights, wire, staged, log, atomic, failed>>

\* q <- batchPut{...} blocks while the queue is full.
Enqueue(p) ==
    /\ pc[p] = "send"
    /\ Len(queue) < QueueCap
    /\ queue' = Append(queue, p)
    /\ pc' = [pc EXCEPT ![p] = "wait"]
    /\ UNCHANGED <<answers, flusher, batch, flights, wire, staged, log, atomic, failed, earlier>>

\* Mutant of Receive: put gives up waiting after a while.
ReceiveOrGiveUp(p) ==
    /\ pc[p] = "wait"
    /\ pc' = [pc EXCEPT ![p] = "done"]
    /\ UNCHANGED <<answers, queue, flusher, batch, flights, wire, staged, log, atomic, failed, earlier>>

\* r := <-resp
Receive(p) ==
    /\ pc[p] = "wait"
    /\ answers[p] # << >>
    /\ pc' = [pc EXCEPT ![p] = "done"]
    /\ UNCHANGED <<answers, queue, flusher, batch, flights, wire, staged, log, atomic, failed, earlier>>

-----------------------------------------------------------------------------
\* flushLoop takes the first put, or a further one while the batch has room.
Take ==
    /\ flusher \in {"recv", "fill"}
    /\ queue # << >>
    /\ batch' = Append(batch, Head(queue))
    /\ queue' = Tail(queue)
    /\ flusher' = IF Len(batch') < Max THEN "fill" ELSE "sem"
    /\ UNCHANGED <<pc, answers, flights, wire, staged, log, atomic, failed, earlier>>

\* The window's timer fires.
WindowEnds ==
    /\ flusher = "fill"
    /\ flusher' = "sem"
    /\ UNCHANGED <<pc, answers, queue, batch, flights, wire, staged, log, atomic, failed, earlier>>

\* sem <- struct{}{}; go flush(batch)
Launch ==
    /\ flusher = "sem"
    /\ Cardinality(Running) < Inflight
    /\ flights' = Append(flights, Flight(batch))
    /\ staged' = Append(staged, << >>)
    /\ batch' = << >>
    /\ flusher' = "recv"
    /\ UNCHANGED <<pc, answers, queue, wire, log, atomic, failed, earlier>>

-----------------------------------------------------------------------------
\* Mutants of Publish: one batch id for all batches, and no batch headers.
PublishSameId(f) ==
    LET b == flights[f].puts
        k == flights[f].sent + 1 IN
    /\ flights[f].at = "publish"
    /\ wire' = Append(wire, IF Len(b) = 1 THEN Message(f, b[1], 0, 0, FALSE)
                            ELSE Message(f, b[k], 1, k, k = Len(b)))
    /\ flights' = [flights EXCEPT ![f] =
           [@ EXCEPT !.sent = k, !.at = IF k = Len(b) THEN "ack" ELSE "publish"]]
    /\ UNCHANGED <<pc, answers, queue, flusher, batch, staged, log, atomic, failed, earlier>>

PublishPlain(f) ==
    LET b == flights[f].puts
        k == flights[f].sent + 1 IN
    /\ flights[f].at = "publish"
    /\ wire' = Append(wire, Message(f, b[k], 0, 0, FALSE))
    /\ flights' = [flights EXCEPT ![f] =
           [@ EXCEPT !.sent = k, !.at = IF k = Len(b) THEN "ack" ELSE "publish"]]
    /\ UNCHANGED <<pc, answers, queue, flusher, batch, staged, log, atomic, failed, earlier>>

\* flush publishes the next message: alone without batch headers, staged, or the
\* commit; after the last one it waits for the ack.
Publish(f) ==
    LET b == flights[f].puts
        k == flights[f].sent + 1 IN
    /\ flights[f].at = "publish"
    /\ wire' = Append(wire, IF Len(b) = 1 THEN Message(f, b[1], 0, 0, FALSE)
                            ELSE Message(f, b[k], f, k, k = Len(b)))
    /\ flights' = [flights EXCEPT ![f] =
           [@ EXCEPT !.sent = k, !.at = IF k = Len(b) THEN "ack" ELSE "publish"]]
    /\ UNCHANGED <<pc, answers, queue, flusher, batch, staged, log, atomic, failed, earlier>>

\* Mutant of FlushFails: the batch is published again.
FlushRetries(f) ==
    /\ MayFail /\ flights[f].at = "ack" /\ flights[f].ack.status = "none"
    /\ flights' = [flights EXCEPT ![f].at = "publish", ![f].sent = 0]
    /\ UNCHANGED <<pc, answers, queue, flusher, batch, wire, staged, log, atomic, failed, earlier>>

\* A publish returns an error, or the ack says so, or it does not come in time.
FlushFails(f) ==
    /\ \/ /\ flights[f].at = "ack" /\ flights[f].ack.status = "error"
          /\ UNCHANGED failed
       \/ /\ MayFail
          /\ flights[f].at \in {"publish", "ack"} /\ flights[f].ack.status = "none"
          /\ failed' = TRUE
    /\ flights' = [flights EXCEPT ![f].at = "fail"]
    /\ UNCHANGED <<pc, answers, queue, flusher, batch, wire, staged, log, atomic, earlier>>

FlushAcked(f) ==
    /\ flights[f].at = "ack" /\ flights[f].ack.status = "ok"
    /\ flights' = [flights EXCEPT ![f].at = "reply"]
    /\ UNCHANGED <<pc, answers, queue, flusher, batch, wire, staged, log, atomic, failed, earlier>>

\* The revision of the i-th put of a batch of n whose commit is stored as seq.
RevisionOf(seq, n, i) == seq - (n - 1) + (i - 1)

\* Mutant of Respond: the slot is not freed after a failure.
RespondLeaks(f) ==
    LET b == flights[f].puts
        i == flights[f].told + 1
        r == IF flights[f].at = "reply" THEN Ok(RevisionOf(flights[f].ack.rev, Len(b), i)) ELSE Error IN
    /\ flights[f].at \in {"reply", "fail"}
    /\ answers' = [answers EXCEPT ![b[i]] = Append(@, r)]
    /\ flights' = [flights EXCEPT ![f] =
           [@ EXCEPT !.told = i,
                     !.at = IF i < Len(b) THEN flights[f].at
                            ELSE IF flights[f].at = "fail" THEN "leaked" ELSE "done"]]
    /\ UNCHANGED <<pc, queue, flusher, batch, wire, staged, log, atomic, failed, earlier>>

\* m.resp <- ... to the next caller; after the last one the slot is free again.
Respond(f) ==
    LET b == flights[f].puts
        i == flights[f].told + 1
        r == IF flights[f].at = "reply" THEN Ok(RevisionOf(flights[f].ack.rev, Len(b), i)) ELSE Error IN
    /\ flights[f].at \in {"reply", "fail"}
    /\ answers' = [answers EXCEPT ![b[i]] = Append(@, r)]
    /\ flights' = [flights EXCEPT ![f] =
           [@ EXCEPT !.told = i, !.at = IF i = Len(b) THEN "done" ELSE flights[f].at]]
    /\ UNCHANGED <<pc, queue, flusher, batch, wire, staged, log, atomic, failed, earlier>>

-----------------------------------------------------------------------------
\* The stream's answer reaches the goroutine that still waits for it.
Ack(f, a) == flights' = IF flights[f].at = "ack" THEN [flights EXCEPT ![f].ack = a] ELSE flights

\* A message continues its batch when it is the next one of its sequence.
Continues(m) == atomic /\ m.seq = Len(staged[m.id]) + 1

StreamStores(m) ==
    /\ m.id = 0 \/ (m.commit /\ Continues(m))
    /\ log' = log \o (IF m.id = 0 THEN << >> ELSE staged[m.id]) \o <<m.put>>
    /\ Ack(m.from, [status |-> "ok", rev |-> Len(log')])
    /\ staged' = IF m.id = 0 THEN staged ELSE [staged EXCEPT ![m.id] = << >>]

StreamStages(m) ==
    /\ m.id # 0 /\ ~m.commit
    /\ staged' = [staged EXCEPT ![m.id] = IF Continues(m) THEN Append(@, m.put) ELSE << >>]
    /\ UNCHANGED <<log, flights>>

StreamRefuses(m) ==
    /\ m.id # 0 /\ m.commit /\ ~Continues(m)
    /\ staged' = [staged EXCEPT ![m.id] = << >>]
    /\ Ack(m.from, [status |-> "error", rev |-> 0])
    /\ UNCHANGED log

Stream ==
    /\ wire # << >>
    /\ wire' = Tail(wire)
    /\ LET m == Head(wire) IN StreamStores(m) \/ StreamStages(m) \/ StreamRefuses(m)
    /\ UNCHANGED <<pc, answers, queue, flusher, batch, atomic, failed, earlier>>

\* A disconnect loses what was on its way; what is still buffered follows.
Lose ==
    /\ MayFail /\ wire # << >>
    /\ wire' = Tail(wire)
    /\ failed' = TRUE
    /\ UNCHANGED <<pc, answers, queue, flusher, batch, flights, staged, log, atomic, earlier>>

\* The stream abandons a batch that takes too long.
Abandon(id) ==
    /\ MayFail /\ staged[id] # << >>
    /\ failed' = TRUE
    /\ staged' = [staged EXCEPT ![id] = << >>]
    /\ UNCHANGED <<pc, answers, queue, flusher, batch, flights, wire, log, atomic, earlier>>

OtherWrite ==
    /\ Cardinality({i \in DOMAIN log : log[i] = Other}) < MaxOther
    /\ log' = Append(log, Other)
    /\ UNCHANGED <<pc, answers, queue, flusher, batch, flights, wire, staged, atomic, failed, earlier>>

-----------------------------------------------------------------------------
Init ==
    /\ pc = [p \in Put |-> "idle"]
    /\ answers = [p \in Put |-> << >>]
    /\ queue = << >> /\ batch = << >> /\ flusher = "none"
    /\ flights = << >> /\ staged = << >> /\ wire = << >> /\ log = << >>
    /\ earlier = [p \in Put |-> {}]
    /\ atomic \in AllowAtomic /\ failed = FALSE

Caller(p) == Enter(p) \/ Enqueue(p) \/ Receive(p)
FlushLoop == Take \/ WindowEnds \/ Launch
Flush(f) == Publish(f) \/ FlushFails(f) \/ FlushAcked(f) \/ Respond(f)

Next ==
    \/ \E p \in Put : Caller(p)
    \/ FlushLoop
    \/ \E f \in DOMAIN flights : Flush(f) \/ Abandon(f)
    \/ Stream \/ Lose \/ OtherWrite

Spec == Init /\ [][Next]_vars

\* Goroutines are scheduled, the timer fires, and the stream reads its connection.
FairSpec ==
    /\ Spec
    /\ \A p \in Put : WF_vars(Enqueue(p)) /\ WF_vars(Receive(p))
    /\ WF_vars(FlushLoop)
    /\ \A f \in 1 .. Cardinality(Put) : WF_vars(f \in DOMAIN flights /\ Flush(f))
    /\ WF_vars(Stream)

-----------------------------------------------------------------------------
Result == [ok : BOOLEAN, rev : Nat]
AckType == [status : {"none", "ok", "error"}, rev : Nat]

FlightType == [puts : Seq(Put), sent : Nat, ack : AckType, told : Nat,
               at : {"publish", "ack", "reply", "fail", "done"}]
MessageType == [from : DOMAIN flights, put : Put, id : Nat, seq : Nat, commit : BOOLEAN]

(* Queue and batch stay within their bounds, a put gets results only, and what is on the wire or
   staged belongs to a flush. *)
TypeOK ==
    /\ pc \in [Put -> {"idle", "send", "wait", "done"}]
    /\ answers \in [Put -> Seq(Result)]
    /\ queue \in Seq(Put) /\ Len(queue) <= QueueCap
    /\ flusher \in {"none", "recv", "fill", "sem"}
    /\ batch \in Seq(Put) /\ Len(batch) <= Max
    /\ flights \in Seq(FlightType)
    /\ wire \in Seq(MessageType)
    /\ staged \in [DOMAIN flights -> Seq(Put)]
    /\ log \in Seq(Put \cup {Other})
    /\ earlier \in [Put -> SUBSET Put]
    /\ atomic \in AllowAtomic /\ failed \in BOOLEAN

Service == INSTANCE KVPut WITH called <- {p \in Put : pc[p] # "idle"}

(* A batched put keeps kv.Put's promise: it is stored at most once and only when
   asked, it is answered once, and a 200 names the revision that holds it.  The
   revisions are computed by the adapter from the commit's, whatever others write. *)
ImplementsPut == Service!PutSpec

StoredAt(p) == {i \in DOMAIN log : log[i] = p}

(* A batch is stored as a whole, in queue order and without a gap, or not at all,
   also when a publish in its middle fails or the connection loses part of it. *)
BatchesAreAtomic ==
    \A f \in DOMAIN flights :
        LET b == flights[f].puts IN
        (\E i \in DOMAIN b : StoredAt(b[i]) # {}) =>
            \E s \in 0 .. Len(log) - Len(b) : SubSeq(log, s + 1, s + Len(b)) = b

(* An error is an error.  While nothing has failed every put to a stream with
   allow_atomic succeeds: batches whose messages interleave on the connection do not
   disturb each other.  And an error that a batch gets from a stream without
   allow_atomic, which takes single puts only, means that the put is not stored. *)
ErrorsAreHonest ==
    ~failed =>
        \A p \in Put : answers[p] # << >> /\ ~answers[p][1].ok => ~atomic /\ StoredAt(p) = {}

(* A put that had returned, with success or with an error, before another one was
   called is never stored after it: a late message cannot undo a newer write. *)
NoLateOverwrite ==
    \A q \in Put : \A p \in earlier[q] :
        \A i \in StoredAt(p), j \in StoredAt(q) : i < j

(* Every put that is called returns: errors and timeouts free their slot, and the
   window bounds how long a batch waits for company. *)
EveryPutReturns == \A p \in Put : pc[p] \in {"send", "wait"} ~> pc[p] = "done"
=============================================================================
