---------------------------- MODULE Batcher_proofs ----------------------------
(***************************************************************************)
(* Proofs about Batcher, for any puts, batch size, number of flush slots   *)
(* and queue capacity, with and without allow_atomic, and with failures:   *)
(* a batched put is a put (ImplementsPut), batches are atomic, errors are  *)
(* honest, and nothing is overwritten by an older put.                     *)
(*                                                                         *)
(* The inductive invariant follows a put on its way: the one place it is   *)
(* in (PlaceInv), the flush goroutine that carries it (FlightInv), what is *)
(* left of its batch on the connection, in order (WireInv), what the       *)
(* stream has staged (StageInv) and stored (StoreInv), and the answer      *)
(* (AnswerInv).  HonestInv is about a world in which nothing has failed,   *)
(* OrderInv about puts that had returned when another one was called.      *)
(***************************************************************************)
EXTENDS Batcher, SequenceTheorems, TLAPS

\* The flush goroutines, and the batch that each of them has.
Flights == 1 .. Len(flights)
Batches == [f \in Flights |-> flights[f].puts]
Places(f) == 1 .. Len(Batches[f])

In(p, f) == \E i \in Places(f) : Batches[f][i] = p
Stored(p) == \E i \in 1 .. Len(log) : log[i] = p

\* No put of flight f is stored.
Unstored(f) == \A i \in Places(f) : ~Stored(Batches[f][i])

\* Flight f is stored as a whole.
Whole(f) ==
    \E s \in 0 .. Len(log) :
        /\ s + Len(Batches[f]) <= Len(log)
        /\ \A i \in Places(f) : log[s + i] = Batches[f][i]

\* A put that has been queued is in one place only ...
Apart(s, t) == \A i \in 1 .. Len(s), j \in 1 .. Len(t) : s[i] # t[j]

PlaceInv ==
    /\ IsInjective(queue) /\ IsInjective(batch) /\ Apart(queue, batch)
    /\ \A f \in Flights :
            IsInjective(Batches[f]) /\ Apart(queue, Batches[f]) /\ Apart(batch, Batches[f])
    /\ \A f, g \in Flights : f # g => Apart(Batches[f], Batches[g])

\* ... and its caller waits for the answer until it has one.
CallerInv ==
    /\ \A i \in 1 .. Len(queue) : pc[queue[i]] = "wait"
    /\ \A i \in 1 .. Len(batch) : pc[batch[i]] = "wait"
    /\ \A f \in Flights : \A i \in Places(f) : pc[Batches[f][i]] \in {"wait", "done"}
    /\ \A p \in Put : pc[p] = "done" => answers[p] # << >>

\* The flusher has a batch exactly when it collects one or waits for a slot.
FlusherInv ==
    /\ flusher \in {"none", "recv"} => Len(batch) = 0
    /\ flusher \in {"fill", "sem"} => Len(batch) > 0
    /\ flusher = "fill" => Len(batch) < Max

\* The counters of a flush goroutine fit the place it is at.
FlightOK(F) ==
    /\ F.puts # << >> /\ F.sent <= Len(F.puts) /\ F.told <= Len(F.puts)
    /\ F.at = "publish" => F.sent < Len(F.puts) /\ F.ack.status = "none"
    /\ F.at \in {"ack", "reply"} \/ F.ack.status # "none" => F.sent = Len(F.puts)
    /\ F.at \in {"publish", "ack"} => F.told = 0
    /\ F.at \in {"reply", "fail"} => F.told < Len(F.puts)
    /\ F.at = "reply" => F.ack.status = "ok"
    /\ F.at = "fail" => F.ack.status # "ok"

FlightInv == \A f \in Flights : FlightOK(flights[f])

\* The result of the i-th put of a flight.
ResultOf(F, i) == IF F.ack.status = "ok" THEN Ok(RevisionOf(F.ack.rev, Len(F.puts), i)) ELSE Error

AnswersOK(f) ==
    \A i \in Places(f) :
        answers[Batches[f][i]] = IF i <= flights[f].told THEN <<ResultOf(flights[f], i)>> ELSE << >>

AnswerInv ==
    /\ \A p \in Put : answers[p] # << >> => \E f \in Flights : In(p, f)
    /\ \A f \in Flights : AnswersOK(f)

\* A message on the wire is one that its flight has published, and has no ack yet.
MessageOK(m) ==
    /\ m.from \in Flights
    /\ LET F == flights[m.from]
           b == F.puts IN
       /\ F.ack.status = "none"
       /\ IF Len(b) = 1
          THEN m.id = 0 /\ m.put = b[1] /\ m.seq = 0 /\ F.sent = 1
          ELSE /\ m.id = m.from /\ m.seq \in 1 .. F.sent
               /\ m.put = b[m.seq] /\ (m.commit <=> m.seq = Len(b))

WireInv ==
    /\ \A x \in 1 .. Len(wire) : MessageOK(wire[x])
    /\ \A x, y \in 1 .. Len(wire) : x < y /\ wire[x].from = wire[y].from => wire[x].seq < wire[y].seq

\* What is staged is the beginning of a batch, and what is on the wire comes after it.
StagedOK(f) ==
    /\ Len(staged[f]) < Len(Batches[f]) /\ Len(staged[f]) <= flights[f].sent
    /\ \A i \in 1 .. Len(staged[f]) : staged[f][i] = Batches[f][i]

StageInv ==
    /\ \A f \in Flights : StagedOK(f)
    /\ \A x \in 1 .. Len(wire) : wire[x].id # 0 => Len(staged[wire[x].id]) < wire[x].seq

\* The message that has a batch stored.
Final(m) == m.id = 0 \/ m.commit

\* A batch is stored by its last message, as a whole, and where the ack says.
StoredOK(f) ==
    /\ Unstored(f) \/ Whole(f)
    /\ flights[f].sent < Len(Batches[f]) => Unstored(f)
    /\ \A x \in 1 .. Len(wire) : wire[x].from = f /\ Final(wire[x]) => Unstored(f)
    /\ flights[f].ack.status = "error" => Unstored(f)
    /\ flights[f].ack.status = "ok" =>
          /\ flights[f].ack.rev \in Len(Batches[f]) .. Len(log)
          /\ \A i \in Places(f) :
                log[RevisionOf(flights[f].ack.rev, Len(Batches[f]), i)] = Batches[f][i]

StoreInv ==
    /\ \A i, j \in 1 .. Len(log) : log[i] = log[j] /\ log[i] \in Put => i = j
    /\ \A i \in 1 .. Len(log) : log[i] \in Put => \E f \in Flights : In(log[i], f)
    /\ \A f \in Flights : StoredOK(f)

\* While nothing has failed, an error comes from the stream, and one that takes
\* batches has no gap to complain of.
HonestOK(f) ==
    /\ flights[f].at \in {"fail", "done"} => flights[f].ack.status # "none"
    /\ flights[f].ack.status = "error" => ~atomic
    /\ atomic /\ flights[f].ack.status = "none" /\ Len(Batches[f]) # 1 =>
          \A s \in Len(staged[f]) + 1 .. flights[f].sent :
              \E x \in 1 .. Len(wire) : wire[x].from = f /\ wire[x].seq = s

HonestInv == ~failed => \A f \in Flights : HonestOK(f)

\* What is left on the wire of a put that had returned before another one was called
\* comes before all that is left of the other one, of which nothing is stored yet.
Precedes(f, g, q) ==
    /\ f # g
    /\ \A x \in 1 .. Len(wire) : wire[x].from = f =>
          ~Stored(q) /\ \A y \in 1 .. Len(wire) : wire[y].from = g => x < y

OrderInv ==
    \A q \in Put : \A p \in earlier[q] :
        /\ pc[p] = "done" /\ pc[q] # "idle"
        /\ \A f, g \in Flights : In(p, f) /\ In(q, g) => Precedes(f, g, q)

IInv == /\ TypeOK /\ PlaceInv /\ CallerInv /\ FlusherInv /\ FlightInv /\ AnswerInv /\ WireInv
        /\ StageInv /\ StoreInv /\ HonestInv /\ OrderInv /\ NoLateOverwrite
-----------------------------------------------------------------------------
(* Initially there is nothing, in good order. *)
LEMMA IInvInit == Init => IInv
<1> SUFFICES ASSUME Init PROVE IInv
  OBVIOUS
<1>1. Len(queue) = 0 /\ Len(batch) = 0 /\ Len(flights) = 0 /\ Len(wire) = 0 /\ Len(log) = 0
  BY DEF Init
<1>2. TypeOK
  <2>1. staged \in [DOMAIN flights -> Seq(Put)]
    BY DEF Init
  <2>2. /\ flights \in Seq(FlightType) /\ wire \in Seq(MessageType)
        /\ log \in Seq(Put \cup {Other}) /\ queue \in Seq(Put) /\ batch \in Seq(Put)
    BY DEF Init
  <2>3. answers \in [Put -> Seq(Result)]
    BY DEF Init
  <2>4. atomic \in AllowAtomic /\ failed \in BOOLEAN
    BY Zenon DEF Init
  <2> HIDE DEF FlightType, MessageType
  <2> QED BY <1>1, <2>1, <2>2, <2>3, <2>4, BatcherAssumption DEF Init, TypeOK
<1>3. PlaceInv
  BY <1>1 DEF Init, PlaceInv, IsInjective, Apart, Flights
<1>9. /\ CallerInv /\ FlusherInv /\ FlightInv /\ AnswerInv /\ WireInv
      /\ StageInv /\ StoreInv /\ HonestInv
  BY <1>1 DEF Init, CallerInv, FlusherInv, FlightInv, AnswerInv, WireInv, StageInv, StoreInv, HonestInv, Flights
<1>4. OrderInv /\ NoLateOverwrite
  BY DEF Init, OrderInv, NoLateOverwrite
<1> QED BY <1>2, <1>3, <1>4, <1>9 DEF IInv
-----------------------------------------------------------------------------
(* What Batches is, and what the elements of the sequences are. *)
LEMMA BatchesAre ==
  ASSUME TypeOK
  PROVE  /\ Batches \in Seq(Seq(Put)) /\ Len(Batches) = Len(flights) /\ DOMAIN Batches = Flights
         /\ \A f \in Flights : Batches[f] = flights[f].puts /\ flights[f] \in FlightType
<1>1. Len(flights) \in Nat /\ \A f \in Flights : flights[f] \in FlightType
  BY ElementOfSeq DEF TypeOK, Flights
<1>2. \A f \in Flights : flights[f].puts \in Seq(Put)
  BY <1>1 DEF FlightType
<1>3. Batches \in [1 .. Len(flights) -> Seq(Put)] /\ \A f \in Flights : Batches[f] = flights[f].puts
  BY <1>2 DEF Batches, Flights
<1> QED BY <1>1, <1>3 DEF Flights

\* The sequences of a typed state hold what their types say, element by element.
LEMMA Elements ==
  ASSUME TypeOK
  PROVE  /\ queue \in Seq(Put) /\ \A i \in 1 .. Len(queue) : queue[i] \in Put
         /\ batch \in Seq(Put) /\ \A i \in 1 .. Len(batch) : batch[i] \in Put
         /\ \A f \in Flights : Batches[f] \in Seq(Put) /\ \A i \in Places(f) : Batches[f][i] \in Put
<1>1. queue \in Seq(Put) /\ batch \in Seq(Put)
  BY DEF TypeOK
<1>2. \A f \in Flights : Batches[f] \in Seq(Put)
  BY BatchesAre, ElementOfSeq DEF Flights
<1> QED BY <1>1, <1>2, ElementOfSeq DEF Places

(* Injective sequences that are apart stay so when one gets a new element ... *)
LEMMA AppendApart ==
  ASSUME NEW S, NEW s \in Seq(S), NEW e \in S, \A i \in 1 .. Len(s) : s[i] # e
  PROVE  /\ IsInjective(s) => IsInjective(Append(s, e))
         /\ \A t \in Seq(S) : (\A i \in 1 .. Len(t) : t[i] # e) =>
               /\ Apart(s, t) => Apart(Append(s, e), t)
               /\ Apart(t, s) => Apart(t, Append(s, e))
<1> DEFINE u == Append(s, e)
<1>1. /\ u \in Seq(S) /\ Len(u) = Len(s) + 1 /\ u[Len(s) + 1] = e
      /\ \A i \in 1 .. Len(s) : u[i] = s[i]
      /\ DOMAIN u = 1 .. Len(u) /\ DOMAIN s = 1 .. Len(s) /\ Len(s) \in Nat
  BY AppendProperties
<1> HIDE DEF u
<1>2. IsInjective(s) => IsInjective(u)
  BY <1>1 DEF IsInjective
<1>3. ASSUME NEW t \in Seq(S), \A i \in 1 .. Len(t) : t[i] # e
      PROVE  (Apart(s, t) => Apart(u, t)) /\ (Apart(t, s) => Apart(t, u))
  <2>1. \A i \in 1 .. Len(u) : i \in 1 .. Len(s) \/ u[i] = e
    BY <1>1
  <2> QED BY <1>1, <1>3, <2>1 DEF Apart
<1> QED BY <1>2, <1>3 DEF u

(* ... and when one loses its head. *)
LEMMA TailApart ==
  ASSUME NEW S, NEW s \in Seq(S), s # << >>
  PROVE  /\ IsInjective(s) =>
               IsInjective(Tail(s)) /\ \A i \in 1 .. Len(Tail(s)) : Tail(s)[i] # Head(s)
         /\ \A t \in Seq(S) :
               Apart(s, t) => Apart(Tail(s), t) /\ \A i \in 1 .. Len(t) : t[i] # Head(s)
<1> DEFINE u == Tail(s)
<1>1. /\ u \in Seq(S) /\ Len(u) = Len(s) - 1 /\ Head(s) = s[1]
      /\ \A i \in 1 .. Len(u) : u[i] = s[i + 1]
      /\ DOMAIN u = 1 .. Len(u) /\ DOMAIN s = 1 .. Len(s) /\ Len(s) \in Nat \ {0}
  BY HeadTailProperties
<1> HIDE DEF u
<1>2. IsInjective(s) => IsInjective(u) /\ \A i \in 1 .. Len(u) : u[i] # Head(s)
  <2>1. \A i \in 1 .. Len(u) : i + 1 \in 1 .. Len(s) /\ i + 1 # 1 /\ 1 \in 1 .. Len(s)
    BY <1>1
  <2>2. ASSUME IsInjective(s), NEW i \in 1 .. Len(u), NEW j \in 1 .. Len(u), u[i] = u[j]
        PROVE  i = j
    <3>1. s[i + 1] = s[j + 1]
      BY <1>1, <2>2
    <3>2. i + 1 = j + 1
      BY <1>1, <2>1, <2>2, <3>1 DEF IsInjective
    <3> QED BY <3>2
  <2>3. ASSUME IsInjective(s), NEW i \in 1 .. Len(u)
        PROVE  u[i] # Head(s)
    BY <1>1, <2>1, <2>3 DEF IsInjective
  <2> QED BY <1>1, <2>2, <2>3 DEF IsInjective
<1>3. ASSUME NEW t \in Seq(S), Apart(s, t)
      PROVE  Apart(u, t) /\ \A i \in 1 .. Len(t) : t[i] # Head(s)
  BY <1>1, <1>3 DEF Apart
<1> QED BY <1>2, <1>3 DEF u

(* What each part of the invariant depends on. *)
LEMMA PlaceFrame == ASSUME PlaceInv, UNCHANGED <<Batches, Flights, queue, batch>> PROVE PlaceInv'
  BY DEF PlaceInv, Places

\* The parts of the invariant survive a step that leaves what they speak about alone.
LEMMA CallerFrame ==
  ASSUME CallerInv, UNCHANGED <<Batches, Flights, queue, batch, pc, answers>> PROVE CallerInv'
  BY DEF CallerInv, Places

\* The same for what is known of each flush.
LEMMA FlightFrame == ASSUME FlightInv, UNCHANGED flights PROVE FlightInv'
  BY DEF FlightInv, Flights

\* The same for the answer a flush has ready.
LEMMA AnswerFrame ==
  ASSUME AnswerInv, UNCHANGED <<flights, answers>> PROVE AnswerInv'
  BY DEF AnswerInv, AnswersOK, Batches, Flights, Places, In

\* The same for what is on the wire.
LEMMA WireFrame == ASSUME WireInv, UNCHANGED <<flights, wire>> PROVE WireInv'
  BY DEF WireInv, Flights, MessageOK

\* The same for what is staged.
LEMMA StageFrame == ASSUME StageInv, UNCHANGED <<flights, wire, staged>> PROVE StageInv'
  BY DEF StageInv, StagedOK, Batches, Flights

\* The same for what is stored.
LEMMA StoreFrame == ASSUME StoreInv, UNCHANGED <<flights, wire, log>> PROVE StoreInv'
  BY DEF StoreInv, StoredOK, Batches, Flights, Places, In, Stored, Unstored, Whole

\* The same for the answers of a flush without failures.
LEMMA HonestFrame ==
  ASSUME HonestInv, UNCHANGED <<flights, wire, staged, atomic, failed>> PROVE HonestInv'
  BY DEF HonestInv, HonestOK, Batches, Flights

\* The same for the order of puts; a put may return and another may be called.
LEMMA OrderFrame ==
  ASSUME TypeOK, OrderInv, UNCHANGED <<Batches, Flights, earlier, wire, log>>,
         \A q \in Put : (pc[q] = "done" => pc'[q] = "done") /\ (pc[q] # "idle" => pc'[q] # "idle")
  PROVE  OrderInv'
<1>1. \A f, g, q : Precedes(f, g, q) => Precedes(f, g, q)'
  BY DEF Precedes, Stored
<1>2. \A p : \A f \in Flights : In(p, f)' <=> In(p, f)
  BY DEF In, Places
<1>3. \A q \in Put : earlier[q] \subseteq Put
  BY DEF TypeOK
<1> QED BY <1>1, <1>2, <1>3 DEF OrderInv

\* The same for the log.
LEMMA OverwriteFrame ==
  ASSUME NoLateOverwrite, UNCHANGED <<earlier, log>> PROVE NoLateOverwrite'
  BY DEF NoLateOverwrite, StoredAt

(* What a message on the wire may look like. *)
LEMMA MessageShape ==
  ASSUME IInv
  PROVE  \A x \in 1 .. Len(wire) :
           LET m == wire[x] f == wire[x].from b == Batches[f] IN
           /\ m \in MessageType /\ f \in Flights /\ flights[f].ack.status = "none"
           /\ m.id = 0 => Len(b) = 1 /\ m.put = b[1] /\ m.seq = 0 /\ flights[f].sent = 1
           /\ m.id # 0 => /\ m.id = f /\ Len(b) # 1 /\ m.seq \in 1 .. flights[f].sent
                          /\ m.put = b[m.seq] /\ (m.commit <=> m.seq = Len(b))
<1> USE DEF IInv
<1> SUFFICES ASSUME NEW x \in 1 .. Len(wire)
             PROVE  LET m == wire[x] f == wire[x].from b == Batches[f] IN
           /\ m \in MessageType /\ f \in Flights /\ flights[f].ack.status = "none"
           /\ m.id = 0 => Len(b) = 1 /\ m.put = b[1] /\ m.seq = 0 /\ flights[f].sent = 1
           /\ m.id # 0 => /\ m.id = f /\ Len(b) # 1 /\ m.seq \in 1 .. flights[f].sent
                          /\ m.put = b[m.seq] /\ (m.commit <=> m.seq = Len(b))
  OBVIOUS
<1> DEFINE m == wire[x] f == m.from b == Batches[f]
<1>1. m \in MessageType /\ MessageOK(m)
  BY ElementOfSeq DEF WireInv, TypeOK
<1>2. f \in Flights /\ f # 0 /\ flights[f].ack.status = "none" /\ b = flights[f].puts
  BY <1>1, BatchesAre DEF MessageOK, Flights
<1>3. FlightOK(flights[f]) /\ flights[f] \in FlightType
  BY <1>2, BatchesAre DEF FlightInv
<1>4. Len(b) \in Nat /\ Len(b) # 0
  BY <1>2, <1>3 DEF FlightOK, FlightType
<1>5. CASE Len(b) = 1
  BY <1>1, <1>2, <1>5 DEF MessageOK
<1>6. CASE Len(b) # 1
  <2>1. m.id = f /\ m.seq \in 1 .. flights[f].sent /\ m.put = b[m.seq]
    BY <1>1, <1>2, <1>6 DEF MessageOK
  <2>2. m.commit <=> m.seq = Len(b)
    BY <1>1, <1>2, <1>6, Zenon DEF MessageOK
  <2>3. m.id # 0
    BY <1>2, <2>1
  <2> QED BY <1>1, <1>2, <1>6, <2>1, <2>2, <2>3
<1> QED BY <1>4, <1>5, <1>6

(* put is called: it is nowhere yet. *)
LEMMA EnterKeeps == ASSUME IInv, NEW p \in Put, Enter(p) PROVE IInv'
<1> USE DEF IInv
<1>1. /\ pc[p] = "idle" /\ pc' = [pc EXCEPT ![p] = "send"]
      /\ flusher' = IF flusher = "none" THEN "recv" ELSE flusher
      /\ earlier' = [earlier EXCEPT ![p] = {q \in Put : pc[q] = "done"}]
      /\ UNCHANGED <<answers, queue, batch, flights, wire, staged, log, atomic, failed>>
  BY DEF Enter
<1>2. UNCHANGED <<Batches, Flights>>
  BY <1>1 DEF Batches, Flights
<1>3. TypeOK'
  BY <1>1 DEF TypeOK, FlightType, MessageType
<1>4. PlaceInv' /\ FlightInv' /\ AnswerInv' /\ WireInv' /\ StageInv' /\ StoreInv' /\ HonestInv'
  BY <1>1, <1>2, PlaceFrame, FlightFrame, AnswerFrame, WireFrame, StageFrame, StoreFrame, HonestFrame
<1>5. CallerInv'
  <2>1. \A q \in Put : pc[q] \in {"wait", "done"} => pc'[q] = pc[q]
    BY <1>1 DEF TypeOK
  <2>2. \A q \in Put : pc'[q] = "done" => pc[q] = "done"
    BY <1>1 DEF TypeOK
  <2>3. /\ \A i \in 1 .. Len(queue) : queue[i] \in Put
        /\ \A i \in 1 .. Len(batch) : batch[i] \in Put
        /\ \A f \in Flights : \A i \in Places(f) : Batches[f][i] \in Put
    BY BatchesAre DEF TypeOK, Places
  <2>4. /\ \A i \in 1 .. Len(queue) : pc'[queue[i]] = "wait"
        /\ \A i \in 1 .. Len(batch) : pc'[batch[i]] = "wait"
        /\ \A f \in Flights : \A i \in Places(f) : pc'[Batches[f][i]] \in {"wait", "done"}
    BY <2>1, <2>3 DEF CallerInv
  <2>5. \A q \in Put : pc'[q] = "done" => answers[q] # << >>
    BY <2>2 DEF CallerInv
  <2> QED BY <1>1, <1>2, <2>4, <2>5 DEF CallerInv, Places
<1>6. FlusherInv'
  BY <1>1 DEF FlusherInv
<1>7. \A f \in Flights : ~In(p, f)
  BY <1>1 DEF CallerInv, In
<1>8. ~Stored(p)
  BY <1>7 DEF StoreInv, Stored
<1>9. OrderInv'
  <2> SUFFICES ASSUME NEW q \in Put, NEW o \in earlier'[q]
               PROVE  /\ pc'[o] = "done" /\ pc'[q] # "idle"
                      /\ \A f, g \in Flights : In(o, f) /\ In(q, g) => Precedes(f, g, q)
    BY <1>1, <1>2 DEF OrderInv, Precedes, In, Places, Stored
  <2>1. CASE q = p
    BY <1>1, <1>7, <2>1 DEF TypeOK
  <2>2. CASE q # p
    BY <1>1, <2>2 DEF TypeOK, OrderInv
  <2> QED BY <2>1, <2>2
<1>10. NoLateOverwrite'
  BY <1>1, <1>8 DEF TypeOK, NoLateOverwrite, StoredAt, Stored
<1> QED BY <1>3, <1>4, <1>5, <1>6, <1>9, <1>10

(* A put enters the queue. *)
LEMMA EnqueueKeeps == ASSUME IInv, NEW p \in Put, Enqueue(p) PROVE IInv'
<1> USE DEF IInv
<1>1. /\ pc[p] = "send" /\ pc' = [pc EXCEPT ![p] = "wait"]
      /\ Len(queue) < QueueCap /\ queue' = Append(queue, p)
      /\ UNCHANGED <<answers, flusher, batch, flights, wire, staged, log, atomic, failed, earlier>>
  BY DEF Enqueue
<1>2. UNCHANGED <<Batches, Flights>>
  BY <1>1 DEF Batches, Flights
<1>3. /\ queue' \in Seq(Put) /\ Len(queue') = Len(queue) + 1 /\ queue'[Len(queue) + 1] = p
      /\ \A i \in 1 .. Len(queue) : queue'[i] = queue[i]
  BY <1>1 DEF TypeOK
<1>4. TypeOK'
  BY <1>1, <1>3, BatcherAssumption DEF TypeOK, FlightType, MessageType
<1>5. /\ \A i \in 1 .. Len(queue) : queue[i] # p
      /\ \A i \in 1 .. Len(batch) : batch[i] # p
      /\ \A f \in Flights : \A i \in Places(f) : Batches[f][i] # p
  BY <1>1 DEF CallerInv
<1>6. PlaceInv'
  BY <1>1, <1>2, <1>5, Elements, AppendApart DEF PlaceInv, Places
<1>7. CallerInv'
  <2>1. pc'[p] = "wait" /\ \A q \in Put : q # p => pc'[q] = pc[q]
    BY <1>1 DEF TypeOK
  <2> QED BY <1>1, <1>2, <1>3, <1>5, <2>1, Elements DEF CallerInv, Places
<1>8. FlusherInv' /\ FlightInv' /\ AnswerInv' /\ WireInv' /\ StageInv' /\ StoreInv' /\ HonestInv'
  BY <1>1, FlightFrame, AnswerFrame, WireFrame, StageFrame, StoreFrame, HonestFrame DEF FlusherInv
<1>9. OrderInv' /\ NoLateOverwrite'
  <2>1. \A q \in Put : (pc[q] = "done" => pc'[q] = "done") /\ (pc[q] # "idle" => pc'[q] # "idle")
    BY <1>1 DEF TypeOK
  <2> QED BY <1>1, <1>2, <2>1, OrderFrame, OverwriteFrame
<1> QED BY <1>4, <1>6, <1>7, <1>8, <1>9

(* put returns: it has an answer, so it is in a flight and no longer queued. *)
LEMMA ReceiveKeeps == ASSUME IInv, NEW p \in Put, Receive(p) PROVE IInv'
<1> USE DEF IInv
<1>1. /\ pc[p] = "wait" /\ answers[p] # << >> /\ pc' = [pc EXCEPT ![p] = "done"]
      /\ UNCHANGED <<answers, queue, flusher, batch, flights, wire, staged, log, atomic, failed,
                     earlier>>
  BY DEF Receive
<1>2. UNCHANGED <<Batches, Flights>>
  BY <1>1 DEF Batches, Flights
<1>3. TypeOK'
  BY <1>1 DEF TypeOK, FlightType, MessageType
<1>4. /\ \A i \in 1 .. Len(queue) : queue[i] # p
      /\ \A i \in 1 .. Len(batch) : batch[i] # p
  <2>1. PICK f \in Flights : In(p, f)
    BY <1>1 DEF AnswerInv
  <2> QED BY <2>1 DEF PlaceInv, Apart, In, Places
<1>5. CallerInv'
  <2>1. pc'[p] = "done" /\ \A q \in Put : q # p => pc'[q] = pc[q]
    BY <1>1 DEF TypeOK
  <2> QED BY <1>1, <1>2, <1>4, <2>1, Elements DEF CallerInv, Places
<1>6. /\ PlaceInv' /\ FlusherInv' /\ FlightInv' /\ AnswerInv' /\ WireInv' /\ StageInv'
      /\ StoreInv' /\ HonestInv'
  BY <1>1, <1>2, PlaceFrame, FlightFrame, AnswerFrame, WireFrame, StageFrame, StoreFrame,
     HonestFrame DEF FlusherInv
<1>7. OrderInv' /\ NoLateOverwrite'
  <2>1. \A q \in Put : (pc[q] = "done" => pc'[q] = "done") /\ (pc[q] # "idle" => pc'[q] # "idle")
    BY <1>1 DEF TypeOK
  <2> QED BY <1>1, <1>2, <2>1, OrderFrame, OverwriteFrame
<1> QED BY <1>3, <1>5, <1>6, <1>7

(* The flusher takes the next put of the queue into its batch. *)
LEMMA TakeKeeps == ASSUME IInv, Take PROVE IInv'
<1> USE DEF IInv
<1>1. /\ flusher \in {"recv", "fill"} /\ queue # << >>
      /\ batch' = Append(batch, Head(queue)) /\ queue' = Tail(queue)
      /\ flusher' = IF Len(batch') < Max THEN "fill" ELSE "sem"
      /\ UNCHANGED <<pc, answers, flights, wire, staged, log, atomic, failed, earlier>>
  BY DEF Take
<1>2. UNCHANGED <<Batches, Flights>>
  BY <1>1 DEF Batches, Flights
<1>3. /\ Len(queue) \in Nat \ {0} /\ queue' \in Seq(Put) /\ Len(queue') = Len(queue) - 1
      /\ \A i \in 1 .. Len(queue') : queue'[i] = queue[i + 1]
      /\ Head(queue) = queue[1] /\ queue[1] \in Put
  BY <1>1 DEF TypeOK
<1>4. /\ batch' \in Seq(Put) /\ Len(batch') = Len(batch) + 1 /\ Len(batch) < Max
      /\ batch'[Len(batch) + 1] = queue[1]
      /\ \A i \in 1 .. Len(batch) : batch'[i] = batch[i]
  BY <1>1, <1>3, BatcherAssumption DEF TypeOK, FlusherInv
<1>5. TypeOK'
  BY <1>1, <1>3, <1>4, BatcherAssumption DEF TypeOK, FlightType, MessageType
<1>6. PlaceInv'
  <2>1. Head(queue) \in Put /\ \A i \in 1 .. Len(batch) : batch[i] # Head(queue)
    BY <1>1, <1>3, Elements DEF PlaceInv, Apart
  <2>2. IsInjective(queue') /\ \A i \in 1 .. Len(queue') : queue'[i] # Head(queue)
    BY <1>1, Elements, TailApart DEF PlaceInv
  <2>3. IsInjective(batch')
    BY <1>1, <2>1, Elements, AppendApart DEF PlaceInv
  <2>4. Apart(queue', batch')
    <3>1. Apart(queue', batch)
      BY <1>1, Elements, TailApart DEF PlaceInv
    <3> QED BY <1>1, <1>3, <2>1, <2>2, <3>1, Elements, AppendApart
  <2>5. ASSUME NEW f \in Flights
        PROVE  Apart(queue', Batches[f]) /\ Apart(batch', Batches[f])
    <3>1. Apart(queue', Batches[f]) /\ \A i \in Places(f) : Batches[f][i] # Head(queue)
      BY <1>1, Elements, TailApart DEF PlaceInv, Places
    <3> QED BY <1>1, <2>1, <3>1, Elements, AppendApart DEF PlaceInv, Places
  <2> QED BY <1>2, <2>2, <2>3, <2>4, <2>5 DEF PlaceInv
<1>7. CallerInv'
  BY <1>1, <1>2, <1>3, <1>4 DEF TypeOK, CallerInv, Places
<1>8. FlusherInv'
  BY <1>1, <1>4, BatcherAssumption DEF TypeOK, FlusherInv
<1>9. /\ FlightInv' /\ AnswerInv' /\ WireInv' /\ StageInv' /\ StoreInv' /\ HonestInv'
      /\ OrderInv' /\ NoLateOverwrite'
  BY <1>1, <1>2, FlightFrame, AnswerFrame, WireFrame, StageFrame, StoreFrame, HonestFrame,
     OrderFrame, OverwriteFrame
<1> QED BY <1>5, <1>6, <1>7, <1>8, <1>9

(* The window ends. *)
LEMMA WindowEndsKeeps == ASSUME IInv, WindowEnds PROVE IInv'
<1> USE DEF IInv
<1>1. /\ flusher = "fill" /\ flusher' = "sem"
      /\ UNCHANGED <<pc, answers, queue, batch, flights, wire, staged, log, atomic, failed, earlier>>
  BY DEF WindowEnds
<1>2. UNCHANGED <<Batches, Flights>>
  BY <1>1 DEF Batches, Flights
<1>3. TypeOK'
  BY <1>1 DEF TypeOK, FlightType, MessageType
<1>4. FlusherInv'
  BY <1>1 DEF FlusherInv
<1> QED
  BY <1>1, <1>2, <1>3, <1>4, PlaceFrame, CallerFrame, FlightFrame, AnswerFrame, WireFrame,
     StageFrame, StoreFrame, HonestFrame, OrderFrame, OverwriteFrame

(* The batch is handed to a flush goroutine of its own. *)
LEMMA LaunchKeeps == ASSUME IInv, Launch PROVE IInv'
<1> USE DEF IInv
<1>0. PICK n \in Nat : n = Len(flights) + 1
  BY Len(flights) \in Nat DEF TypeOK
<1>1. /\ flusher = "sem" /\ flights' = Append(flights, Flight(batch)) /\ staged' = Append(staged, << >>)
      /\ batch' = << >> /\ flusher' = "recv"
      /\ UNCHANGED <<pc, answers, queue, wire, log, atomic, failed, earlier>>
  BY DEF Launch
<1>2. /\ Len(flights) \in Nat /\ batch \in Seq(Put) /\ Len(batch) > 0
      /\ staged \in Seq(Seq(Put)) /\ Len(staged) = Len(flights)
  BY <1>1 DEF TypeOK, FlusherInv
<1>3. Flight(batch) \in FlightType
  BY <1>2 DEF Flight, FlightType, NoAck, AckType
<1>4. /\ flights' \in Seq(FlightType) /\ Len(flights') = n /\ flights'[n] = Flight(batch)
      /\ \A f \in Flights : flights'[f] = flights[f]
  BY <1>1, <1>2, <1>3, <1>0, AppendProperties DEF TypeOK, Flights
<1>5. /\ staged' \in [1 .. n -> Seq(Put)] /\ staged'[n] = << >>
      /\ \A f \in Flights : staged'[f] = staged[f]
  <2>1. << >> \in Seq(Put)
    OBVIOUS
  <2>2. /\ staged' \in Seq(Seq(Put)) /\ Len(staged') = n /\ staged'[n] = << >>
        /\ \A f \in Flights : staged'[f] = staged[f]
    BY <1>1, <1>2, <1>0, <2>1, AppendProperties DEF Flights
  <2> QED BY <2>2, LenProperties
<1>6. Flights' = Flights \cup {n} /\ n \notin Flights /\ DOMAIN flights = Flights /\ DOMAIN flights' = Flights'
  BY <1>2, <1>4, <1>0 DEF Flights, TypeOK
<1>7. Batches'[n] = batch /\ \A f \in Flights : Batches'[f] = Batches[f]
  BY <1>4, <1>6 DEF Batches, Flight
<1>8. TypeOK'
  <2>1. MessageType \subseteq MessageType'
    BY <1>6 DEF MessageType
  <2>2. wire' \in Seq(MessageType)'
    BY <1>1, <2>1, SeqMonotonic DEF TypeOK
  <2>3. staged' \in [DOMAIN flights' -> Seq(Put)]
    BY <1>4, <1>5, <1>6 DEF Flights
  <2>4. Len(<< >>) = 0 /\ << >> \in Seq(Put)
    OBVIOUS
  <2> QED BY <1>1, <1>4, <2>2, <2>3, <2>4, BatcherAssumption DEF TypeOK
<1>9. PlaceInv'
  <2>1. IsInjective(<< >>) /\ \A t : Apart(t, << >>) /\ Apart(<< >>, t)
    BY DEF IsInjective, Apart
  <2>2. \A f, g \in Flights : f # g => Apart(Batches[f], Batches[g])
    BY DEF PlaceInv
  <2>3. \A f \in Flights : Apart(batch, Batches[f]) /\ Apart(Batches[f], batch)
    BY DEF PlaceInv, Apart
  <2> QED BY <1>1, <1>6, <1>7, <2>1, <2>2, <2>3 DEF PlaceInv
<1>10. CallerInv' /\ FlusherInv'
  BY <1>1, <1>6, <1>7, SMTT(30) DEF CallerInv, FlusherInv, Places
<1>11. FlightInv'
  <2>1. FlightOK(Flight(batch))
    BY <1>2 DEF FlightOK, Flight, NoAck
  <2> QED BY <1>4, <1>6, <2>1 DEF FlightInv
<1>12. \A i \in 1 .. Len(batch) : ~Stored(batch[i]) /\ answers[batch[i]] = << >> /\ pc[batch[i]] = "wait"
  <2> SUFFICES ASSUME NEW i \in 1 .. Len(batch)
               PROVE  ~Stored(batch[i]) /\ answers[batch[i]] = << >>
    BY DEF CallerInv
  <2>1. batch[i] \in Put /\ \A f \in Flights : ~In(batch[i], f)
    BY Elements DEF PlaceInv, Apart, In, Places
  <2> QED BY <2>1 DEF StoreInv, Stored, AnswerInv
<1>13. \A f \in Flights : flights'[f] = flights[f] /\ Batches'[f] = Batches[f] /\ staged'[f] = staged[f]
  BY <1>4, <1>5, <1>7
<1>14. /\ flights'[n].ack.status = "none" /\ flights'[n].at = "publish" /\ flights'[n].sent = 0
       /\ flights'[n].told = 0
  BY <1>4 DEF Flight, NoAck
<1>15. \A x \in 1 .. Len(wire) : wire[x].from \in Flights /\ (wire[x].id # 0 => wire[x].id \in Flights)
  BY MessageShape
<1>16. \A p \in Put : (\E f \in Flights : In(p, f)) => \E f \in Flights' : In(p, f)'
  BY <1>6, <1>13 DEF In, Places
<1>17. AnswerInv'
  <2>1. ASSUME NEW f \in Flights PROVE AnswersOK(f)'
    <3>1. flights'[f] = flights[f] /\ Batches'[f] = Batches[f] /\ answers' = answers
      BY <1>1, <1>13
    <3>2. AnswersOK(f)
      BY DEF AnswerInv
    <3> QED BY <3>1, <3>2 DEF AnswersOK, Places, ResultOf
  <2>2. AnswersOK(n)'
    BY <1>1, <1>2, <1>7, <1>12, <1>14 DEF AnswersOK, Places, ResultOf
  <2> QED BY <1>1, <1>6, <1>16, <2>1, <2>2 DEF AnswerInv
<1>18. WireInv'
  BY <1>1, <1>4, <1>6 DEF WireInv, MessageOK
<1>19. StageInv'
  <2>1. \A f \in Flights : StagedOK(f)'
    BY <1>13 DEF StageInv, StagedOK
  <2>2. StagedOK(n)'
    BY <1>2, <1>5, <1>7, <1>14 DEF StagedOK
  <2>3. \A x \in 1 .. Len(wire) : wire[x].id # 0 => Len(staged'[wire[x].id]) < wire[x].seq
    BY <1>13, <1>15 DEF StageInv
  <2> QED BY <1>1, <1>6, <2>1, <2>2, <2>3 DEF StageInv
<1>20. StoreInv'
  <2>1. \A f \in Flights : (Unstored(f) => Unstored(f)') /\ (Whole(f) => Whole(f)')
    BY <1>1, <1>7 DEF Unstored, Stored, Whole, Places
  <2>2. ASSUME NEW f \in Flights PROVE StoredOK(f)'
    <3>1. flights'[f] = flights[f] /\ Batches'[f] = Batches[f] /\ wire' = wire /\ log' = log
      BY <1>1, <1>13
    <3>2. StoredOK(f)
      BY DEF StoreInv
    <3> QED BY <2>1, <3>1, <3>2 DEF StoredOK, Places, RevisionOf
  <2>3. Unstored(n)'
    BY <1>1, <1>7, <1>12 DEF Unstored, Stored, Places
  <2>4. StoredOK(n)'
    BY <1>14, <2>3 DEF StoredOK
  <2>5. ASSUME NEW i \in 1 .. Len(log), log[i] \in Put
        PROVE  \E f \in Flights' : In(log[i], f)'
    <3>1. PICK f \in Flights : \E j \in 1 .. Len(Batches[f]) : Batches[f][j] = log[i]
      BY <2>5 DEF StoreInv, In, Places
    <3> QED BY <1>1, <1>6, <1>13, <3>1 DEF In, Places
  <2> QED BY <1>1, <1>6, <2>2, <2>4, <2>5 DEF StoreInv
<1>21. HonestInv'
  <2>1. \A f \in Flights : HonestOK(f) => HonestOK(f)'
    BY <1>1, <1>13 DEF HonestOK
  <2>2. HonestOK(n)'
    <3>1. Len(staged'[n]) + 1 .. flights'[n].sent = {}
      BY <1>5, <1>14
    <3> QED BY <1>14, <3>1 DEF HonestOK
  <2> QED BY <1>1, <1>6, <2>1, <2>2 DEF HonestInv
<1>22. OrderInv'
  <2>1. \A p, f, g : Precedes(f, g, p) => Precedes(f, g, p)'
    BY <1>1 DEF Precedes, Stored
  <2>2. \A p : \A f \in Flights : In(p, f)' <=> In(p, f)
    BY <1>7 DEF In, Places
  <2>3. \A p : In(p, n)' => ~Stored(p) /\ pc[p] = "wait"
    BY <1>7, <1>12 DEF In, Places
  <2> SUFFICES ASSUME NEW q \in Put, NEW p \in earlier[q], NEW f \in Flights', NEW g \in Flights',
                      In(p, f)', In(q, g)'
               PROVE  Precedes(f, g, q)
    BY <1>1, <2>1 DEF OrderInv
  <2>4. f \in Flights
    BY <1>6, <2>3 DEF OrderInv
  <2>5. CASE g \in Flights
    BY <2>2, <2>4, <2>5 DEF OrderInv
  <2>6. CASE g = n
    BY <1>6, <1>15, <2>3, <2>4, <2>6 DEF Precedes
  <2> QED BY <1>6, <2>5, <2>6
<1> QED
  BY <1>1, <1>8, <1>9, <1>10, <1>11, <1>17, <1>18, <1>19, <1>20, <1>21, <1>22, OverwriteFrame

-----------------------------------------------------------------------------
(* What changes when a flush goroutine takes a step: its own record. *)
LEMMA FlightStep ==
  ASSUME TypeOK, NEW f \in Flights, NEW F \in FlightType, F.puts = flights[f].puts,
         flights' = [flights EXCEPT ![f] = F]
  PROVE  /\ flights' \in Seq(FlightType) /\ UNCHANGED <<Flights, Batches, MessageType>>
         /\ DOMAIN flights' = DOMAIN flights
         /\ flights'[f] = F /\ \A g \in Flights : g # f => flights'[g] = flights[g]
<1>1. /\ flights' \in Seq(FlightType) /\ Len(flights') = Len(flights) /\ DOMAIN flights' = DOMAIN flights
      /\ flights'[f] = F /\ \A g \in Flights : g # f => flights'[g] = flights[g]
  BY DEF TypeOK, Flights
<1>2. Flights' = Flights /\ MessageType' = MessageType
  BY <1>1 DEF Flights, MessageType
<1>3. \A g \in Flights : flights'[g].puts = flights[g].puts
  BY <1>1
<1>4. Batches' = Batches
  BY <1>2, <1>3 DEF Batches
<1> QED BY <1>1, <1>2, <1>4

(* A message stays what it is while its flight gets on. *)
LEMMA MessageKept ==
  ASSUME NEW w, MessageOK(w), Flights' = Flights,
         flights'[w.from].puts = flights[w.from].puts, flights'[w.from].ack = flights[w.from].ack,
         IF Len(flights[w.from].puts) = 1
         THEN flights'[w.from].sent = flights[w.from].sent
         ELSE 1 .. flights[w.from].sent \subseteq 1 .. flights'[w.from].sent
  PROVE  MessageOK(w)'
<1> DEFINE B == 1 .. flights[w.from].sent
           C == 1 .. flights'[w.from].sent
<1>1. w.seq \in B /\ B \subseteq C => w.seq \in C
  OBVIOUS
<1> QED BY <1>1, Zenon DEF MessageOK

(* flush publishes the next message of its batch, behind all that is on the wire. *)
LEMMA PublishKeeps == ASSUME IInv, NEW f \in Flights, Publish(f) PROVE IInv'
<1> USE DEF IInv
<1>0. /\ flights[f] \in FlightType /\ FlightOK(flights[f]) /\ Batches[f] = flights[f].puts
      /\ flights[f].at = "publish" /\ f \in Nat \ {0} /\ f \in DOMAIN flights
  BY BatchesAre DEF FlightInv, Publish, Flights, TypeOK
<1>1. PICK b \in Seq(Put) : b = Batches[f]
  BY Elements
<1>2. PICK k \in Nat : k = flights[f].sent + 1
  BY <1>0 DEF FlightType
<1> DEFINE M == IF Len(b) = 1 THEN Message(f, b[1], 0, 0, FALSE) ELSE Message(f, b[k], f, k, k = Len(b))
           F == [flights[f] EXCEPT !.sent = k, !.at = IF k = Len(b) THEN "ack" ELSE "publish"]
<1>3. /\ wire' = Append(wire, M) /\ flights' = [flights EXCEPT ![f] = F]
      /\ UNCHANGED <<pc, answers, queue, flusher, batch, staged, log, atomic, failed, earlier>>
  BY <1>0, <1>1, <1>2, Zenon DEF Publish
<1>4. /\ Len(b) \in Nat /\ k \in 1 .. Len(b) /\ flights[f].sent \in Nat /\ k = flights[f].sent + 1
      /\ flights[f].ack.status = "none" /\ flights[f].told = 0
  BY <1>0, <1>1, <1>2 DEF FlightOK, FlightType
<1>5. M \in MessageType
  <2>1. f \in DOMAIN flights /\ b[1] \in Put /\ b[k] \in Put /\ f \in Nat
    BY <1>0, <1>4
  <2>2. (k = Len(b)) \in BOOLEAN /\ FALSE \in BOOLEAN
    OBVIOUS
  <2> QED BY <2>1, <2>2 DEF Message, MessageType
<1>6. PICK m \in MessageType : m = M
  BY <1>5
<1>7. /\ m.from = f /\ m.put = b[k] /\ (Len(b) = 1 => m.id = 0 /\ m.seq = 0)
      /\ (Len(b) # 1 => m.id = f /\ m.seq = k)
  <2>1. Len(b) = 1 => k = 1
    BY <1>4
  <2> QED BY <1>6, <2>1 DEF Message
<1>7b. Len(b) # 1 => (m.commit <=> k = Len(b))
  <2>1. ASSUME NEW c \in BOOLEAN PROVE Message(f, b[k], f, k, c).commit <=> c
    BY DEF Message
  <2>2. Len(b) # 1 => m = Message(f, b[k], f, k, k = Len(b))
    BY <1>6, Zenon
  <2> QED BY <2>1, <2>2, Zenon
<1>8. F \in FlightType /\ F.puts = flights[f].puts
  BY <1>0, <1>4 DEF FlightType
<1>9. /\ F.sent = k /\ F.at = (IF k = Len(b) THEN "ack" ELSE "publish") /\ F.ack = flights[f].ack
      /\ F.told = 0 /\ F.puts = b
  BY <1>0, <1>1, <1>4 DEF FlightType
<1>10. /\ flights' \in Seq(FlightType) /\ UNCHANGED <<Flights, Batches, MessageType>>
       /\ DOMAIN flights' = DOMAIN flights /\ flights'[f] = F
       /\ \A g \in Flights : g # f => flights'[g] = flights[g]
  BY <1>3, <1>8, FlightStep, Zenon
<1>11. /\ Len(wire) \in Nat /\ wire' \in Seq(MessageType) /\ Len(wire') = Len(wire) + 1
       /\ wire'[Len(wire) + 1] = m /\ \A x \in 1 .. Len(wire) : wire'[x] = wire[x]
  <2>1. wire \in Seq(MessageType)
    BY DEF TypeOK
  <2>2. wire' = Append(wire, m)
    BY <1>3, <1>6
  <2> QED BY <2>1, <2>2, AppendProperties
<1> HIDE DEF M, F
<1>12. \A x \in 1 .. Len(wire) : wire[x].from = f => wire[x].id = f /\ wire[x].seq < k /\ Len(b) # 1
  <2> SUFFICES ASSUME NEW x \in 1 .. Len(wire), wire[x].from = f
               PROVE  wire[x].id = f /\ wire[x].seq < k /\ Len(b) # 1
    OBVIOUS
  <2>1. /\ wire[x].id = 0 => Len(b) = 1 /\ flights[f].sent = 1
        /\ wire[x].id # 0 => wire[x].id = f /\ Len(b) # 1 /\ wire[x].seq \in 1 .. flights[f].sent
    BY <1>1, MessageShape
  <2>2. wire[x].id # 0
    <3> SUFFICES ASSUME wire[x].id = 0 PROVE FALSE
      OBVIOUS
    <3>1. Len(b) = 1 /\ flights[f].sent = 1
      BY <2>1
    <3>2. k = 2
      BY <1>4, <3>1
    <3>3. k = 1
      BY <1>4, <3>1
    <3> QED BY <3>2, <3>3
  <2>3. wire[x].seq < k
    BY <1>4, <2>1, <2>2
  <2>4. wire[x].id = f /\ Len(b) # 1
    BY <2>1, <2>2
  <2> QED BY <2>3, <2>4
<1>13. \A g \in Flights : /\ flights'[g].ack = flights[g].ack /\ flights'[g].told = flights[g].told
                          /\ flights'[g].puts = flights[g].puts
  BY <1>4, <1>8, <1>9, <1>10
<1>14. TypeOK'
  BY <1>3, <1>10, <1>11 DEF TypeOK
<1>15. PlaceInv' /\ CallerInv' /\ FlusherInv' /\ NoLateOverwrite'
  BY <1>3, <1>10, PlaceFrame, CallerFrame, OverwriteFrame DEF FlusherInv
<1>16. FlightInv'
  <2>1. FlightOK(F)
    BY <1>0, <1>1, <1>4, <1>9 DEF FlightOK
  <2> QED BY <1>10, <2>1 DEF FlightInv
<1>17. AnswerInv'
  <2>1. ASSUME NEW g \in Flights PROVE AnswersOK(g)'
    BY <1>3, <1>10, <1>13, ZenonT(30) DEF AnswerInv, AnswersOK, ResultOf, RevisionOf, Places
  <2> QED BY <1>3, <1>10, <2>1 DEF AnswerInv, In, Places
<1>18. \A x \in 1 .. Len(wire') :
          \/ x \in 1 .. Len(wire) /\ wire'[x] = wire[x]
          \/ x = Len(wire) + 1 /\ wire'[x] = m
  BY <1>11
<1>19. WireInv'
  <2>1. ASSUME NEW x \in 1 .. Len(wire), NEW w \in MessageType, w = wire[x]
        PROVE  MessageOK(w)'
    <3>1. MessageOK(w) /\ w.from \in Flights
      BY <2>1 DEF WireInv, MessageOK
    <3>2. CASE w.from = f
      <4>1. Len(flights[f].puts) # 1
        BY <1>0, <1>1, <1>12, <2>1, <3>2
      <4>2. flights'[f].sent = k
        BY <1>9, <1>10
      <4>3. 1 .. flights[f].sent \subseteq 1 .. flights'[f].sent
        BY <1>4, <4>2
      <4> QED BY <1>10, <1>13, <3>1, <3>2, <4>1, <4>3, MessageKept, Zenon
    <3>3. CASE w.from # f
      <4>1. flights'[w.from] = flights[w.from]
        BY <1>10, <3>1, <3>3
      <4> QED BY <1>10, <3>1, <4>1, MessageKept, Zenon
    <3> QED BY <3>2, <3>3
  <2>2. MessageOK(m)'
    <3>1. /\ m.from \in Flights' /\ flights'[m.from] = F /\ F.ack.status = "none"
          /\ F.puts = b /\ F.sent = k /\ 1 \in Nat
      BY <1>4, <1>7, <1>9, <1>10
    <3>2. CASE Len(b) = 1
      BY <1>4, <1>7, <3>1, <3>2 DEF MessageOK
    <3>3. CASE Len(b) # 1
      <4>1. m.seq = k /\ k \in 1 .. k /\ m.id = f /\ m.put = b[k] /\ m.from = f /\ f \in Flights'
        BY <1>4, <1>7, <1>10, <3>3
      <4> QED BY <1>7b, <3>1, <3>3, <4>1, Zenon DEF MessageOK
    <3> QED BY <3>2, <3>3
  <2>3. \A x \in 1 .. Len(wire') : MessageOK(wire[x])'
    <3> SUFFICES ASSUME NEW x \in 1 .. Len(wire') PROVE MessageOK(wire[x])'
      OBVIOUS
    <3>1. PICK w \in MessageType : w = wire'[x] /\ (x \in 1 .. Len(wire) => w = wire[x])
      BY <1>11, <1>18, ElementOfSeq
    <3>2. MessageOK(w)'
      BY <1>18, <2>1, <2>2, <3>1
    <3> QED BY <3>1, <3>2, Zenon DEF MessageOK
  <2>4. \A x, y \in 1 .. Len(wire) : x < y /\ wire[x].from = wire[y].from => wire[x].seq < wire[y].seq
    BY DEF WireInv
  <2>5. \A x \in 1 .. Len(wire) : wire[x].from = m.from => wire[x].seq < m.seq
    BY <1>7, <1>12
  <2>6. ASSUME NEW x \in 1 .. Len(wire'), NEW y \in 1 .. Len(wire'), x < y, wire'[x].from = wire'[y].from
        PROVE  wire'[x].seq < wire'[y].seq
    <3>1. x \in 1 .. Len(wire) /\ wire'[x] = wire[x]
      BY <1>11, <2>6
    <3> QED BY <1>18, <2>4, <2>5, <2>6, <3>1
  <2> QED BY <2>3, <2>6 DEF WireInv
<1>20. StageInv'
  <2>1. ASSUME NEW g \in Flights PROVE StagedOK(g)'
    <3>1. flights[g].sent <= flights'[g].sent /\ flights[g].sent \in Nat /\ flights'[g].sent \in Nat
      <4>1. flights[g] \in FlightType /\ flights'[g] \in FlightType
        BY <1>8, <1>10, BatchesAre
      <4>2. flights[g].sent \in Nat /\ flights'[g].sent \in Nat
        BY <4>1 DEF FlightType
      <4> QED BY <1>4, <1>9, <1>10, <4>2
    <3>2. staged'[g] = staged[g] /\ Batches'[g] = Batches[g] /\ StagedOK(g) /\ Len(staged[g]) \in Nat
      BY <1>3, <1>10 DEF StageInv, TypeOK, Flights
    <3> QED BY <3>1, <3>2 DEF StagedOK
  <2>2. Len(b) # 1 => Len(staged[f]) < k
    <3>1. Len(staged[f]) <= flights[f].sent /\ Len(staged[f]) \in Nat
      BY DEF StageInv, StagedOK, TypeOK, Flights
    <3> QED BY <1>4, <3>1
  <2> QED BY <1>3, <1>7, <1>10, <1>11, <1>18, <2>1, <2>2 DEF StageInv
<1>21. StoreInv'
  <2>1. Unstored(f)
    <3>1. flights[f].sent < Len(Batches[f])
      BY <1>1, <1>4
    <3> QED BY <3>1 DEF StoreInv, StoredOK
  <2>2. ASSUME NEW g \in Flights PROVE StoredOK(g)'
    <3>1. /\ StoredOK(g) /\ Batches'[g] = Batches[g] /\ log' = log
          /\ (Unstored(g) => Unstored(g)') /\ (Whole(g) => Whole(g)')
      BY <1>3, <1>10 DEF StoreInv, Unstored, Whole, Places, Stored
    <3>2. CASE g = f
      BY <1>9, <1>10, <1>4, <2>1, <3>1, <3>2 DEF StoredOK
    <3>3. CASE g # f
      <4>1. flights'[g] = flights[g]
        BY <1>10, <3>3
      <4>2. \A x \in 1 .. Len(wire') : wire'[x].from = g => x \in 1 .. Len(wire) /\ wire'[x] = wire[x]
        BY <1>7, <1>18, <3>3
      <4> QED BY <3>1, <4>1, <4>2 DEF StoredOK, Places, RevisionOf
    <3> QED BY <3>2, <3>3
  <2> QED BY <1>3, <1>10, <2>2 DEF StoreInv, In, Places
<1>22. HonestInv'
  <2> SUFFICES ASSUME ~failed, NEW g \in Flights PROVE HonestOK(g)'
    BY <1>3, <1>10 DEF HonestInv
  <2>1. HonestOK(g)
    BY DEF HonestInv
  <2>2. \A s : (\E x \in 1 .. Len(wire) : wire[x].from = g /\ wire[x].seq = s)
                 => \E x \in 1 .. Len(wire') : wire'[x].from = g /\ wire'[x].seq = s
    BY <1>11
  <2>3. CASE g = f
    <3>1. \A s \in Len(staged[f]) + 1 .. k : s = k \/ s \in Len(staged[f]) + 1 .. flights[f].sent
      BY <1>0, <1>2, SMTT(30) DEF StageInv, StagedOK, TypeOK, FlightType, Flights
    <3>2. Len(b) # 1 => \E x \in 1 .. Len(wire') : wire'[x].from = f /\ wire'[x].seq = k
      <4>1. Len(wire) + 1 \in 1 .. Len(wire')
        BY <1>11
      <4> QED BY <1>4, <1>7, <1>11, <4>1
    <3>3. /\ flights'[f].at \notin {"fail", "done"} /\ flights'[f].ack = flights[f].ack
          /\ flights'[f].sent = k /\ staged' = staged /\ atomic' = atomic /\ Batches'[f] = b
      BY <1>1, <1>3, <1>9, <1>10
    <3>4. ASSUME atomic, Len(b) # 1, NEW s \in Len(staged[f]) + 1 .. k
          PROVE  \E x \in 1 .. Len(wire') : wire'[x].from = f /\ wire'[x].seq = s
      <4>1. CASE s = k
        BY <3>2, <3>4, <4>1
      <4>2. CASE s \in Len(staged[f]) + 1 .. flights[f].sent
        BY <1>1, <1>4, <2>1, <2>2, <2>3, <3>4, <4>2 DEF HonestOK
      <4> QED BY <3>1, <4>1, <4>2
    <3> QED BY <2>1, <2>3, <3>3, <3>4 DEF HonestOK
  <2>4. CASE g # f
    BY <1>3, <1>10, <2>1, <2>2, <2>4 DEF HonestOK
  <2> QED BY <2>3, <2>4
<1>23. OrderInv'
  <2> SUFFICES ASSUME NEW q \in Put, NEW p \in earlier[q]
               PROVE  /\ pc[p] = "done" /\ pc[q] # "idle"
                      /\ \A g, h \in Flights : In(p, g) /\ In(q, h) => Precedes(g, h, q)'
    <3>1. earlier' = earlier /\ pc' = pc /\ Flights' = Flights /\ Batches' = Batches
      BY <1>3, <1>10
    <3>2. \A p : \A g \in Flights : In(p, g)' <=> In(p, g)
      BY <3>1 DEF In, Places
    <3> QED BY <3>1, <3>2 DEF OrderInv
  <2>1. /\ p \in Put /\ pc[p] = "done" /\ pc[q] # "idle"
        /\ \A g, h \in Flights : In(p, g) /\ In(q, h) => Precedes(g, h, q)
    BY DEF OrderInv, TypeOK
  <2>2. ~In(p, f)
    <3>1. answers[p] # << >>
      BY <2>1 DEF CallerInv
    <3>2. \A i \in Places(f) : answers[Batches[f][i]] = << >>
      <4>1. \A i \in Places(f) : i \in Nat /\ ~ i <= flights[f].told
        BY <1>1, <1>4 DEF Places
      <4> QED BY <4>1 DEF AnswerInv, AnswersOK
    <3> QED BY <3>1, <3>2 DEF In
  <2>3. ASSUME NEW g \in Flights, NEW h \in Flights, In(p, g), In(q, h) PROVE Precedes(g, h, q)'
    BY <1>3, <1>7, <1>11, <1>18, <2>1, <2>2, <2>3 DEF Precedes, Stored
  <2> QED BY <2>1, <2>3
<1> QED BY <1>14, <1>15, <1>16, <1>17, <1>19, <1>20, <1>21, <1>22, <1>23

(* What a flush goroutine does that has published all it will touches no put on its way. *)
LEMMA AfterPublishing ==
  ASSUME IInv, NEW f \in Flights, NEW F \in FlightType,
         F.puts = flights[f].puts, F.sent = flights[f].sent, F.ack = flights[f].ack,
         flights' = [flights EXCEPT ![f] = F],
         UNCHANGED <<pc, queue, flusher, batch, wire, staged, log, atomic, earlier>>
  PROVE  /\ PlaceInv' /\ FlusherInv' /\ WireInv' /\ StageInv' /\ StoreInv' /\ OrderInv' /\ NoLateOverwrite'
         /\ (answers' \in [Put -> Seq(Result)] /\ failed' \in BOOLEAN => TypeOK')
         /\ (FlightOK(F) => FlightInv')
<1> USE DEF IInv
<1>1. /\ flights' \in Seq(FlightType) /\ UNCHANGED <<Flights, Batches, MessageType>>
      /\ DOMAIN flights' = DOMAIN flights /\ flights'[f] = F
      /\ \A g \in Flights : g # f => flights'[g] = flights[g]
  BY FlightStep, Zenon
<1>2. \A g \in Flights : /\ flights'[g].puts = flights[g].puts /\ flights'[g].sent = flights[g].sent
                         /\ flights'[g].ack = flights[g].ack
  BY <1>1
<1>3. PlaceInv' /\ FlusherInv' /\ OrderInv' /\ NoLateOverwrite'
  BY <1>1, PlaceFrame, OrderFrame, OverwriteFrame DEF FlusherInv
<1>4. WireInv'
  <2>1. ASSUME NEW w, MessageOK(w) PROVE MessageOK(w)'
    BY <1>1, <1>2, <2>1 DEF MessageOK
  <2> QED BY <2>1 DEF WireInv, MessageOK
<1>5. StageInv'
  BY <1>1, <1>2 DEF StageInv, StagedOK
<1>6. StoreInv'
  <2>1. ASSUME NEW g \in Flights PROVE StoredOK(g)'
    <3>1. Batches'[g] = Batches[g] /\ log' = log /\ wire' = wire
      BY <1>1
    <3>2. (Unstored(g) => Unstored(g)') /\ (Whole(g) => Whole(g)')
      BY <3>1 DEF Unstored, Whole, Places, Stored
    <3> QED BY <1>2, <3>1, <3>2 DEF StoreInv, StoredOK, Places, RevisionOf
  <2> QED BY <1>1, <2>1 DEF StoreInv, In, Places
<1>7. answers' \in [Put -> Seq(Result)] /\ failed' \in BOOLEAN => TypeOK'
  BY <1>1 DEF TypeOK
<1>8. FlightOK(F) => FlightInv'
  BY <1>1 DEF FlightInv
<1> QED BY <1>3, <1>4, <1>5, <1>6, <1>7, <1>8

(* The flush gives up, or hears that the stream took its batch. *)
LEMMA OutcomeKeeps == ASSUME IInv, NEW f \in Flights, FlushFails(f) \/ FlushAcked(f) PROVE IInv'
<1> USE DEF IInv
<1>0. /\ flights[f] \in FlightType /\ FlightOK(flights[f]) /\ Batches[f] = flights[f].puts
      /\ Len(Batches[f]) \in Nat /\ flights[f].puts # << >> /\ flights[f].at \in {"publish", "ack"}
  BY BatchesAre, Elements DEF FlightInv, FlightOK, FlushFails, FlushAcked
<1>1. PICK F \in FlightType :
        /\ \/ F = [flights[f] EXCEPT !.at = "fail"] /\ flights[f].ack.status # "ok"
           \/ F = [flights[f] EXCEPT !.at = "reply"] /\ flights[f].ack.status = "ok"
        /\ flights' = [flights EXCEPT ![f] = F]
  <2>1. [flights[f] EXCEPT !.at = "fail"] \in FlightType /\ [flights[f] EXCEPT !.at = "reply"] \in FlightType
    BY <1>0 DEF FlightType
  <2>2. CASE FlushFails(f)
    BY <2>1, <2>2 DEF FlushFails
  <2>3. CASE FlushAcked(f)
    BY <2>1, <2>3 DEF FlushAcked
  <2> QED BY <2>2, <2>3
<1>2. /\ F.puts = flights[f].puts /\ F.sent = flights[f].sent /\ F.ack = flights[f].ack /\ F.told = 0
      /\ F.at \in {"fail", "reply"} /\ (F.at = "reply" <=> F.ack.status = "ok")
  BY <1>0, <1>1 DEF FlightOK, FlightType
<1>3. /\ UNCHANGED <<pc, answers, queue, flusher, batch, wire, staged, log, atomic, earlier>>
      /\ failed' \in BOOLEAN
      /\ ~failed' => ~failed /\ flights[f].ack.status # "none"
  BY Zenon DEF FlushFails, FlushAcked, TypeOK
<1>4. FlightOK(F)
  <2>1. Len(F.puts) > 0
    BY <1>0, <1>2 DEF FlightType
  <2> QED BY <1>0, <1>2, <2>1 DEF FlightOK, FlightType
<1>5. /\ UNCHANGED <<Flights, Batches>> /\ flights'[f] = F
      /\ \A g \in Flights : g # f => flights'[g] = flights[g]
  BY <1>1, <1>2, FlightStep, Zenon
<1>6. \A g \in Flights : /\ flights'[g].ack = flights[g].ack /\ flights'[g].told = flights[g].told
                         /\ flights'[g].puts = flights[g].puts
  BY <1>0, <1>2, <1>5 DEF FlightOK
<1>7. answers' \in [Put -> Seq(Result)]
  BY <1>3 DEF TypeOK
<1>8. /\ PlaceInv' /\ FlusherInv' /\ WireInv' /\ StageInv' /\ StoreInv' /\ OrderInv'
      /\ NoLateOverwrite' /\ TypeOK' /\ FlightInv'
  BY <1>1, <1>2, <1>3, <1>4, <1>7, AfterPublishing, Zenon
<1>9. CallerInv'
  BY <1>3, <1>5, CallerFrame
<1>10. AnswerInv'
  <2>1. ASSUME NEW g \in Flights PROVE AnswersOK(g)'
    BY <1>3, <1>5, <1>6 DEF AnswerInv, AnswersOK, ResultOf, RevisionOf, Places
  <2> QED BY <1>3, <1>5, <2>1 DEF AnswerInv, In, Places
<1>11. HonestInv'
  <2> SUFFICES ASSUME ~failed', NEW g \in Flights PROVE HonestOK(g)'
    BY <1>5 DEF HonestInv
  <2>1. HonestOK(g)
    BY <1>3 DEF HonestInv
  <2>2. CASE g = f
    BY <1>2, <1>3, <1>5, <2>1, <2>2 DEF HonestOK
  <2>3. CASE g # f
    BY <1>3, <1>5, <2>1, <2>3 DEF HonestOK
  <2> QED BY <2>2, <2>3
<1> QED BY <1>8, <1>9, <1>10, <1>11

(* One more caller of the batch gets the answer that the flush has. *)
LEMMA RespondKeeps == ASSUME IInv, NEW f \in Flights, Respond(f) PROVE IInv'
<1> USE DEF IInv
<1>0. /\ flights[f] \in FlightType /\ FlightOK(flights[f]) /\ Batches[f] = flights[f].puts
      /\ Len(Batches[f]) \in Nat /\ flights[f].at \in {"reply", "fail"}
  BY BatchesAre, Elements DEF FlightInv, Respond
<1>1. PICK b \in Seq(Put) : b = Batches[f]
  BY Elements
<1>2. PICK i \in Nat : i = flights[f].told + 1
  BY <1>0 DEF FlightType
<1> DEFINE F == [flights[f] EXCEPT !.told = i, !.at = IF i = Len(b) THEN "done" ELSE flights[f].at]
<1>3. /\ Len(b) \in Nat /\ i \in 1 .. Len(b) /\ flights[f].told \in Nat /\ i = flights[f].told + 1
      /\ b[i] \in Put
  <2>1. flights[f].told \in Nat /\ flights[f].told < Len(b)
    BY <1>0, <1>1 DEF FlightOK, FlightType
  <2>2. Len(b) \in Nat /\ i \in 1 .. Len(b)
    BY <1>0, <1>1, <1>2, <2>1
  <2> QED BY <1>2, <2>1, <2>2, ElementOfSeq
<1>4. flights[f].at = "reply" <=> flights[f].ack.status = "ok"
  BY <1>0 DEF FlightOK
<1>5. PICK r : /\ r = IF flights[f].at = "reply" THEN Ok(RevisionOf(flights[f].ack.rev, Len(b), i)) ELSE Error
               /\ answers' = [answers EXCEPT ![b[i]] = Append(@, r)]
  BY <1>0, <1>1, <1>2, Zenon DEF Respond
<1>6. r = ResultOf(flights[f], i)
  BY <1>0, <1>1, <1>4, <1>5, Zenon DEF ResultOf
<1>7. r \in Result
  <2>1. CASE flights[f].at = "reply"
    <3>1. flights[f].ack.rev \in Len(b) .. Len(log) /\ Len(log) \in Nat
      BY <1>1, <1>4, <2>1 DEF StoreInv, StoredOK, TypeOK
    <3>2. RevisionOf(flights[f].ack.rev, Len(b), i) \in Nat
      <4>1. PICK v \in Nat, n \in Nat : v = flights[f].ack.rev /\ n = Len(b) /\ n <= v /\ i <= n
        BY <1>3, <3>1
      <4>2. v - (n - 1) + (i - 1) \in Nat
        BY <4>1
      <4> QED BY <4>1, <4>2 DEF RevisionOf
    <3> QED BY <1>5, <2>1, <3>2 DEF Ok, Result
  <2>2. CASE flights[f].at # "reply"
    BY <1>5, <2>2 DEF Error, Result
  <2> QED BY <2>1, <2>2
<1>8. answers[b[i]] = << >>
  <2>1. i \in Places(f) /\ ~ i <= flights[f].told
    BY <1>1, <1>3 DEF Places
  <2> QED BY <1>1, <2>1 DEF AnswerInv, AnswersOK
<1>9. /\ answers' \in [Put -> Seq(Result)] /\ answers'[b[i]] = <<r>>
      /\ \A p \in Put : p # b[i] => answers'[p] = answers[p]
  <2>1. Append(<< >>, r) = <<r>> /\ <<r>> \in Seq(Result)
    BY <1>7
  <2>2. answers \in [Put -> Seq(Result)]
    BY DEF TypeOK
  <2> QED BY <1>3, <1>5, <1>8, <2>1, <2>2
<1>10. /\ flights' = [flights EXCEPT ![f] = F]
       /\ UNCHANGED <<pc, queue, flusher, batch, wire, staged, log, atomic, failed, earlier>>
  <2>1. UNCHANGED <<pc, queue, flusher, batch, wire, staged, log, atomic, failed, earlier>>
    BY DEF Respond
  <2>2. b = flights[f].puts
    BY <1>0, <1>1
  <2>3. flights' = [flights EXCEPT ![f] = [@ EXCEPT !.told = i, !.at = IF i = Len(b) THEN "done" ELSE flights[f].at]]
    BY <1>2, <2>2, Zenon DEF Respond
  <2> QED BY <2>1, <2>3, Zenon
<1>11. /\ F \in FlightType /\ F.puts = flights[f].puts /\ F.sent = flights[f].sent
       /\ F.ack = flights[f].ack /\ F.told = i
       /\ F.at = IF i = Len(b) THEN "done" ELSE flights[f].at
  BY <1>0 DEF FlightType
<1> HIDE DEF F
<1>12. FlightOK(F)
  <2>1. i = Len(b) \/ i < Len(b)
    BY <1>3
  <2> QED BY <1>0, <1>1, <1>3, <1>11, <2>1 DEF FlightOK
<1>13. failed' \in BOOLEAN
  BY <1>10 DEF TypeOK
<1>14. /\ PlaceInv' /\ FlusherInv' /\ WireInv' /\ StageInv' /\ StoreInv' /\ OrderInv'
       /\ NoLateOverwrite' /\ TypeOK' /\ FlightInv'
  BY <1>9, <1>10, <1>11, <1>12, <1>13, AfterPublishing, Zenon
<1>15. /\ UNCHANGED <<Flights, Batches>> /\ flights'[f] = F
       /\ \A g \in Flights : g # f => flights'[g] = flights[g]
  BY <1>10, <1>11, FlightStep, Zenon
<1>16. CallerInv'
  <2>1. \A p \in Put : answers[p] # << >> => answers'[p] # << >>
    <3>1. Len(<<r>>) # Len(<< >>)
      OBVIOUS
    <3>2. <<r>> # << >>
      BY <3>1, Zenon
    <3> QED BY <1>9, <3>2
  <2> QED BY <1>10, <1>15, <2>1 DEF CallerInv, Places
<1>17. AnswerInv'
  <2>1. ASSUME NEW g \in Flights, NEW j \in Places(g)
        PROVE  answers'[Batches[g][j]] = IF j <= flights'[g].told THEN <<ResultOf(flights'[g], j)>> ELSE << >>
    <3>1. answers[Batches[g][j]] = IF j <= flights[g].told THEN <<ResultOf(flights[g], j)>> ELSE << >>
      BY DEF AnswerInv, AnswersOK
    <3>2. Batches[g][j] \in Put
      BY Elements
    <3>3. CASE g # f
      <4>1. Batches[g][j] # b[i]
        BY <1>1, <1>3, <3>3 DEF PlaceInv, Apart, Places
      <4> QED BY <1>9, <1>15, <3>1, <3>2, <3>3, <4>1
    <3>4. CASE g = f /\ j = i
      <4>1. ResultOf(F, i) = ResultOf(flights[f], i) /\ j <= F.told
        BY <1>3, <1>11, <3>4 DEF ResultOf
      <4> QED BY <1>1, <1>6, <1>9, <1>15, <3>4, <4>1
    <3>5. CASE g = f /\ j # i
      <4>1. Batches[g][j] # b[i]
        <5>1. IsInjective(b) /\ DOMAIN b = 1 .. Len(b) /\ j \in DOMAIN b /\ i \in DOMAIN b
          BY <1>1, <1>3, <3>5 DEF PlaceInv, Places
        <5> QED BY <1>1, <3>5, <5>1 DEF IsInjective
      <4>2. j <= F.told <=> j <= flights[f].told
        BY <1>1, <1>3, <1>11, <3>5 DEF Places
      <4>3. ResultOf(F, j) = ResultOf(flights[f], j)
        BY <1>11 DEF ResultOf
      <4> QED BY <1>9, <1>15, <3>1, <3>2, <3>5, <4>1, <4>2, <4>3
    <3> QED BY <3>3, <3>4, <3>5
  <2>2. ASSUME NEW g \in Flights PROVE AnswersOK(g)'
    BY <1>15, <2>1 DEF AnswersOK, Places, ResultOf
  <2>3. In(b[i], f)
    BY <1>1, <1>3 DEF In, Places
  <2>4. \A p \in Put : answers'[p] # << >> => \E g \in Flights : In(p, g)
    BY <1>9, <2>3 DEF AnswerInv
  <2>5. \A p : \A g \in Flights : In(p, g) => In(p, g)'
    BY <1>15 DEF In, Places
  <2> QED BY <1>15, <2>2, <2>4, <2>5 DEF AnswerInv
<1>18. HonestInv'
  <2> SUFFICES ASSUME ~failed, NEW g \in Flights PROVE HonestOK(g)'
    BY <1>10, <1>15 DEF HonestInv
  <2>1. HonestOK(g)
    BY DEF HonestInv
  <2>2. CASE g = f
    <3>1. F.ack.status # "none"
      BY <1>0, <1>4, <1>11, <2>1, <2>2 DEF HonestOK
    <3> QED BY <1>10, <1>11, <1>15, <2>1, <2>2, <3>1 DEF HonestOK
  <2>3. CASE g # f
    BY <1>10, <1>15, <2>1, <2>3 DEF HonestOK
  <2> QED BY <2>2, <2>3
<1> QED BY <1>14, <1>16, <1>17, <1>18

-----------------------------------------------------------------------------
(* The numbers of a flight. *)
LEMMA FlightNumbers ==
  ASSUME IInv, NEW f \in Flights
  PROVE  /\ flights[f] \in FlightType /\ FlightOK(flights[f]) /\ flights[f].puts = Batches[f]
         /\ Len(Batches[f]) \in Nat /\ flights[f].sent \in Nat /\ flights[f].sent <= Len(Batches[f])
         /\ staged[f] \in Seq(Put) /\ Len(staged[f]) \in Nat
         /\ Len(staged[f]) < Len(Batches[f]) /\ Len(staged[f]) <= flights[f].sent
<1> USE DEF IInv
<1>1. /\ flights[f] \in FlightType /\ FlightOK(flights[f]) /\ flights[f].puts = Batches[f]
      /\ Len(Batches[f]) \in Nat
  BY BatchesAre, Elements DEF FlightInv
<1>2. flights[f].sent \in Nat /\ flights[f].sent <= Len(Batches[f])
  BY <1>1 DEF FlightOK, FlightType
<1>3. DOMAIN flights = Flights /\ staged \in [DOMAIN flights -> Seq(Put)]
  BY DEF TypeOK, Flights
<1>4. staged[f] \in Seq(Put) /\ StagedOK(f)
  BY <1>3 DEF StageInv
<1> QED BY <1>1, <1>2, <1>4 DEF StagedOK

(* What happens to the connection when its first message is gone. *)
LEMMA WireTail ==
  ASSUME TypeOK, wire # << >>, wire' = Tail(wire)
  PROVE  /\ Len(wire) \in Nat \ {0} /\ 1 \in 1 .. Len(wire) /\ Head(wire) = wire[1]
         /\ Len(wire') \in Nat /\ wire' \in Seq(MessageType)
         /\ \A x \in 1 .. Len(wire') : x + 1 \in 2 .. Len(wire) /\ wire'[x] = wire[x + 1]
         /\ \A x \in 2 .. Len(wire) : x - 1 \in 1 .. Len(wire') /\ wire'[x - 1] = wire[x]
<1>1. wire \in Seq(MessageType)
  BY DEF TypeOK
<1>2. /\ Len(wire) \in Nat \ {0} /\ wire' \in Seq(MessageType) /\ Head(wire) = wire[1]
      /\ Len(wire') = Len(wire) - 1 /\ \A x \in 1 .. Len(wire') : wire'[x] = wire[x + 1]
  BY <1>1, HeadTailProperties
<1>3. \A x \in 2 .. Len(wire) : x - 1 \in 1 .. Len(wire') /\ x = (x - 1) + 1
  BY <1>2
<1>4. \A x \in 1 .. Len(wire') : x + 1 \in 2 .. Len(wire)
  BY <1>2
<1>5. \A x \in 2 .. Len(wire) : wire'[x - 1] = wire[x]
  BY <1>2, <1>3
<1> QED BY <1>2, <1>3, <1>4, <1>5

(* Of the messages of a flight the first one has the smallest number, and the one that
   has the batch stored is the last one. *)
LEMMA FirstOfFlight ==
  ASSUME IInv, wire # << >>
  PROVE  /\ \A x \in 2 .. Len(wire) : wire[x].from = wire[1].from => wire[1].seq < wire[x].seq
         /\ Final(wire[1]) => \A x \in 2 .. Len(wire) : wire[x].from # wire[1].from
         /\ Final(wire[1]) => flights[wire[1].from].sent = Len(Batches[wire[1].from])
<1> USE DEF IInv
<1>1. Len(wire) \in Nat /\ 1 \in 1 .. Len(wire) /\ \A x \in 2 .. Len(wire) : x \in 1 .. Len(wire) /\ 1 < x
  BY DEF TypeOK
<1>2. \A x \in 2 .. Len(wire) : wire[x].from = wire[1].from => wire[1].seq < wire[x].seq
  BY <1>1 DEF WireInv
<1>3. PICK f \in Flights : f = wire[1].from
  BY <1>1, MessageShape
<1>4. PICK n \in Nat, s \in Nat : n = Len(Batches[f]) /\ s = flights[f].sent /\ s <= n
  BY FlightNumbers
<1>5. \A x \in 1 .. Len(wire) : wire[x].from = f =>
         /\ wire[x].id = 0 => n = 1 /\ wire[x].seq = 0 /\ s = 1
         /\ wire[x].id # 0 => n # 1 /\ wire[x].seq \in 1 .. s
  BY <1>3, <1>4, MessageShape
<1>6. wire[1].commit /\ wire[1].id # 0 => wire[1].seq = n
  BY <1>1, <1>3, <1>4, MessageShape, Zenon
<1>7. CASE wire[1].id = 0
  <2>1. n = 1 /\ wire[1].seq = 0 /\ s = 1
    BY <1>1, <1>3, <1>5, <1>7
  <2>2. ASSUME NEW x \in 2 .. Len(wire), wire[x].from = wire[1].from PROVE FALSE
    <3>1. 0 < wire[x].seq /\ x \in 1 .. Len(wire)
      BY <1>1, <1>2, <2>1, <2>2
    <3>2. wire[x].seq = 0
      BY <1>3, <1>5, <2>1, <2>2, <3>1
    <3> QED BY <3>1, <3>2
  <2> QED BY <1>2, <1>3, <1>4, <2>1, <2>2
<1>8. CASE wire[1].id # 0 /\ wire[1].commit
  <2>1. wire[1].seq = n /\ wire[1].seq \in 1 .. s
    BY <1>1, <1>3, <1>5, <1>6, <1>8
  <2>2. ASSUME NEW x \in 2 .. Len(wire), wire[x].from = wire[1].from PROVE FALSE
    <3>1. n < wire[x].seq /\ x \in 1 .. Len(wire)
      BY <1>1, <1>2, <2>1, <2>2
    <3>2. wire[x].seq = 0 \/ wire[x].seq \in 1 .. s
      BY <1>3, <1>5, <2>2, <3>1
    <3> QED BY <1>4, <3>1, <3>2
  <2>3. s = n
    BY <1>4, <2>1
  <2> QED BY <1>2, <1>3, <1>4, <2>2, <2>3
<1> QED BY <1>2, <1>7, <1>8, Zenon DEF Final

(* While nothing has failed a flight on the wire has not finished, and the stream has
   staged all that the flight has published before. *)
LEMMA Unbroken ==
  ASSUME IInv, wire # << >>, ~failed
  PROVE  /\ Final(wire[1]) => flights[wire[1].from].at = "ack"
         /\ atomic /\ wire[1].id # 0 => wire[1].seq = Len(staged[wire[1].id]) + 1
<1> USE DEF IInv
<1>1. Len(wire) \in Nat /\ 1 \in 1 .. Len(wire) /\ \A x \in 1 .. Len(wire) : x = 1 \/ x \in 2 .. Len(wire)
  BY DEF TypeOK
<1>2. PICK f \in Flights : f = wire[1].from
  BY <1>1, MessageShape
<1>3. HonestOK(f) /\ FlightOK(flights[f]) /\ flights[f] \in FlightType /\ flights[f].ack.status = "none"
  BY <1>1, <1>2, BatchesAre, MessageShape DEF HonestInv, FlightInv
<1>4. Final(wire[1]) => flights[wire[1].from].at = "ack"
  <2> SUFFICES ASSUME Final(wire[1]) PROVE flights[f].at = "ack"
    BY <1>2
  <2>1. flights[f].sent = Len(flights[f].puts) /\ Len(flights[f].puts) \in Nat
    BY <1>2, BatchesAre, Elements, FirstOfFlight
  <2>2. flights[f].at # "publish"
    BY <1>3, <2>1 DEF FlightOK
  <2> QED BY <1>3, <2>2 DEF HonestOK, FlightOK, FlightType
<1>5. ASSUME atomic, wire[1].id # 0 PROVE wire[1].seq = Len(staged[f]) + 1
  <2>1. /\ Len(Batches[f]) # 1 /\ wire[1].seq \in 1 .. flights[f].sent /\ wire[1].id = f
        /\ flights[f].sent \in Nat
    BY <1>1, <1>2, <1>5, FlightNumbers, MessageShape
  <2>2. Len(staged[f]) \in Nat /\ Len(staged[f]) < wire[1].seq
    BY <1>1, <1>5, <2>1, FlightNumbers DEF StageInv
  <2>3. PICK x \in 1 .. Len(wire) : wire[x].from = f /\ wire[x].seq = Len(staged[f]) + 1
    <3>1. Len(staged[f]) + 1 \in Len(staged[f]) + 1 .. flights[f].sent
      BY <2>1, <2>2
    <3> QED BY <1>3, <1>5, <2>1, <3>1 DEF HonestOK
  <2>4. wire[1].seq <= wire[x].seq
    BY <1>1, <1>2, <2>1, <2>2, <2>3, FirstOfFlight
  <2> QED BY <2>1, <2>2, <2>3, <2>4
<1>6. wire[1].id # 0 => wire[1].id = f
  BY <1>1, <1>2, MessageShape
<1> QED BY <1>4, <1>5, <1>6

(* The order of what is left on the wire is the order it had. *)
LEMMA TailOrder ==
  ASSUME IInv, wire # << >>, wire' = Tail(wire), UNCHANGED <<Flights, Batches, log, pc, earlier>>
  PROVE  OrderInv'
<1> USE DEF IInv
<1>1. /\ Len(wire) \in Nat /\ Len(wire') \in Nat
      /\ \A x \in 1 .. Len(wire') : x + 1 \in 1 .. Len(wire) /\ wire'[x] = wire[x + 1]
  BY WireTail
<1>2. ASSUME NEW f, NEW g, NEW q, Precedes(f, g, q) PROVE Precedes(f, g, q)'
  <2> SUFFICES ASSUME NEW x \in 1 .. Len(wire'), wire'[x].from = f
               PROVE  ~Stored(q) /\ \A y \in 1 .. Len(wire') : wire'[y].from = g => x < y
    BY <1>2 DEF Precedes, Stored
  <2>1. ~Stored(q) /\ \A y \in 1 .. Len(wire) : wire[y].from = g => x + 1 < y
    BY <1>1, <1>2 DEF Precedes
  <2> QED BY <1>1, <2>1
<1>3. \A p : \A f \in Flights : In(p, f)' <=> In(p, f)
  BY DEF In, Places
<1> QED BY <1>2, <1>3 DEF OrderInv

(* The same for what it says, when the flights it is from are as they were. *)
LEMMA TailWire ==
  ASSUME IInv, wire # << >>, wire' = Tail(wire), UNCHANGED Flights,
         \A x \in 2 .. Len(wire) : flights'[wire[x].from] = flights[wire[x].from]
  PROVE  WireInv'
<1> USE DEF IInv
<1>1. /\ Len(wire) \in Nat /\ Len(wire') \in Nat /\ wire' \in Seq(MessageType)
      /\ \A x \in 1 .. Len(wire') : x + 1 \in 2 .. Len(wire) /\ wire'[x] = wire[x + 1]
  BY WireTail
<1>2. \A x \in 2 .. Len(wire) : x \in 1 .. Len(wire)
  BY <1>1
<1>3. ASSUME NEW x \in 1 .. Len(wire') PROVE MessageOK(wire[x])'
  <2>1. PICK w \in MessageType : w = wire'[x] /\ w = wire[x + 1]
    BY <1>1, ElementOfSeq
  <2>2. MessageOK(w) /\ flights'[w.from] = flights[w.from]
    BY <1>1, <1>2, <2>1 DEF WireInv, MessageOK
  <2>3. MessageOK(w)'
    BY <2>2, MessageKept
  <2> QED BY <2>1, <2>3, Zenon DEF MessageOK
<1>4. ASSUME NEW x \in 1 .. Len(wire'), NEW y \in 1 .. Len(wire'), x < y, wire'[x].from = wire'[y].from
      PROVE  wire'[x].seq < wire'[y].seq
  <2>1. x + 1 \in 1 .. Len(wire) /\ y + 1 \in 1 .. Len(wire) /\ x + 1 < y + 1
    BY <1>1, <1>4
  <2> QED BY <1>1, <1>4, <2>1 DEF WireInv
<1> QED BY <1>3, <1>4 DEF WireInv

(* What is stored of a flight, when only the connection changes. *)
LEMMA TailStore ==
  ASSUME IInv, wire # << >>, wire' = Tail(wire), UNCHANGED <<flights, log>>
  PROVE  StoreInv'
<1> USE DEF IInv
<1>1. UNCHANGED <<Flights, Batches>>
  BY DEF Flights, Batches
<1>2. /\ Len(wire) \in Nat
      /\ \A x \in 1 .. Len(wire') : x + 1 \in 2 .. Len(wire) /\ wire'[x] = wire[x + 1]
  BY WireTail
<1>3. \A x \in 1 .. Len(wire') : x + 1 \in 1 .. Len(wire)
  BY <1>2
<1>4. ASSUME NEW f \in Flights PROVE StoredOK(f)'
  <2>1. (Unstored(f) => Unstored(f)') /\ (Whole(f) => Whole(f)') /\ StoredOK(f)
    BY <1>1 DEF StoreInv, Unstored, Whole, Places, Stored
  <2>2. \A x \in 1 .. Len(wire') : wire'[x].from = f /\ Final(wire'[x]) => Unstored(f)
    <3> SUFFICES ASSUME NEW x \in 1 .. Len(wire'), wire'[x].from = f, Final(wire'[x]) PROVE Unstored(f)
      OBVIOUS
    <3>1. wire[x + 1].from = f /\ Final(wire[x + 1])
      BY <1>2
    <3> QED BY <1>3, <2>1, <3>1 DEF StoredOK
  <2> QED BY <1>1, <2>1, <2>2 DEF StoredOK, Places, RevisionOf
<1> QED BY <1>1, <1>4 DEF StoreInv, In, Places

(* The connection loses its first message. *)
LEMMA LoseKeeps == ASSUME IInv, Lose PROVE IInv'
<1> USE DEF IInv
<1>1. /\ wire # << >> /\ wire' = Tail(wire) /\ failed' = TRUE
      /\ UNCHANGED <<pc, answers, queue, flusher, batch, flights, staged, log, atomic, earlier>>
  BY DEF Lose
<1>2. UNCHANGED <<Flights, Batches, MessageType>>
  BY <1>1 DEF Flights, Batches, MessageType
<1>3. TypeOK'
  <2>1. wire' \in Seq(MessageType)
    BY <1>1, WireTail
  <2> QED BY <1>1, <1>2, <2>1 DEF TypeOK
<1>4. WireInv' /\ StoreInv' /\ OrderInv'
  BY <1>1, <1>2, TailWire, TailStore, TailOrder
<1>5. StageInv'
  <2>1. \A x \in 1 .. Len(wire') : x + 1 \in 1 .. Len(wire) /\ wire'[x] = wire[x + 1]
    BY <1>1, WireTail
  <2> QED BY <1>1, <1>2, <2>1 DEF StageInv, StagedOK
<1>6. HonestInv'
  BY <1>1 DEF HonestInv
<1>7. PlaceInv' /\ CallerInv' /\ FlightInv' /\ AnswerInv' /\ FlusherInv' /\ NoLateOverwrite'
  BY <1>1, <1>2, PlaceFrame, CallerFrame, FlightFrame, AnswerFrame, OverwriteFrame DEF FlusherInv
<1> QED BY <1>3, <1>4, <1>5, <1>6, <1>7

(* The stream abandons what it has staged of a batch. *)
LEMMA AbandonKeeps == ASSUME IInv, NEW f \in Flights, Abandon(f) PROVE IInv'
<1> USE DEF IInv
<1>1. /\ failed' = TRUE /\ staged' = [staged EXCEPT ![f] = << >>]
      /\ UNCHANGED <<pc, answers, queue, flusher, batch, flights, wire, log, atomic, earlier>>
  BY DEF Abandon
<1>2. UNCHANGED <<Flights, Batches, MessageType>> /\ DOMAIN flights = Flights
  <2>1. UNCHANGED <<Flights, Batches, MessageType>>
    BY <1>1 DEF Flights, Batches, MessageType
  <2>2. DOMAIN flights = Flights
    BY DEF Flights, TypeOK
  <2> QED BY <2>1, <2>2
<1>3. /\ staged' \in [Flights -> Seq(Put)] /\ staged'[f] = << >> /\ Len(<< >>) = 0
      /\ \A g \in Flights : g # f => staged'[g] = staged[g]
  BY <1>1, <1>2 DEF TypeOK
<1>4. TypeOK'
  BY <1>1, <1>2, <1>3 DEF TypeOK
<1>5. StageInv'
  <2>1. ASSUME NEW g \in Flights PROVE StagedOK(g)'
    <3>1. CASE g = f
      <4>1. 0 < Len(Batches[f]) /\ 0 <= flights[f].sent
        BY FlightNumbers
      <4>2. Len(staged'[f]) = 0 /\ 1 .. 0 = {}
        BY <1>3
      <4> QED BY <1>1, <1>2, <3>1, <4>1, <4>2 DEF StagedOK
    <3>2. CASE g # f
      <4>1. staged'[g] = staged[g] /\ flights' = flights /\ Batches' = Batches /\ StagedOK(g)
        BY <1>1, <1>2, <1>3, <3>2 DEF StageInv
      <4> QED BY <4>1 DEF StagedOK
    <3> QED BY <3>1, <3>2
  <2>2. ASSUME NEW x \in 1 .. Len(wire), wire[x].id # 0 PROVE Len(staged'[wire[x].id]) < wire[x].seq
    <3>1. PICK g \in Flights : g = wire[x].id /\ wire[x].seq \in 1 .. flights[g].sent
      BY <2>2, MessageShape
    <3>2. Len(staged[g]) < wire[x].seq
      BY <2>2, <3>1 DEF StageInv
    <3>3. 0 < wire[x].seq
      BY <3>1, FlightNumbers
    <3> QED BY <1>3, <3>1, <3>2, <3>3
  <2> QED BY <1>1, <1>2, <2>1, <2>2 DEF StageInv
<1>6. HonestInv'
  BY <1>1 DEF HonestInv
<1>7. /\ PlaceInv' /\ CallerInv' /\ FlightInv' /\ AnswerInv' /\ FlusherInv' /\ WireInv'
      /\ StoreInv' /\ OrderInv' /\ NoLateOverwrite'
  BY <1>1, <1>2, PlaceFrame, CallerFrame, FlightFrame, AnswerFrame, WireFrame, StoreFrame,
     OrderFrame, OverwriteFrame DEF FlusherInv
<1> QED BY <1>4, <1>5, <1>6, <1>7

(* The stream stages the first message, or drops a batch that has a gap. *)
LEMMA StageKeeps ==
  ASSUME IInv, wire # << >>, wire' = Tail(wire), StreamStages(wire[1]),
         UNCHANGED <<pc, answers, queue, flusher, batch, atomic, failed, earlier>>
  PROVE  IInv'
<1> USE DEF IInv
<1>0. /\ Len(wire) \in Nat /\ 1 \in 1 .. Len(wire) /\ wire' \in Seq(MessageType)
      /\ \A x \in 1 .. Len(wire') : x + 1 \in 2 .. Len(wire) /\ wire'[x] = wire[x + 1]
      /\ \A x \in 2 .. Len(wire) : x - 1 \in 1 .. Len(wire') /\ wire'[x - 1] = wire[x]
      /\ \A x \in 2 .. Len(wire) : x \in 1 .. Len(wire)
  BY WireTail
<1>1. PICK f \in Flights : f = wire[1].from /\ f # 0
  BY <1>0, MessageShape DEF Flights
<1>2. PICK b \in Seq(Put) : b = Batches[f]
  BY Elements
<1>3. PICK k \in Nat : /\ k = wire[1].seq /\ k # 0 /\ k < Len(b) /\ k <= flights[f].sent
                       /\ wire[1].put = b[k] /\ b[k] \in Put /\ wire[1].id = f
  <2>1. wire[1].id # 0 /\ ~wire[1].commit
    BY DEF StreamStages
  <2>2. /\ wire[1].id = f /\ wire[1].seq \in 1 .. flights[f].sent /\ wire[1].put = b[wire[1].seq]
    BY <1>0, <1>1, <1>2, <2>1, MessageShape
  <2>3. wire[1].seq # Len(b)
    BY <1>0, <1>1, <1>2, <2>1, MessageShape
  <2>4. Len(b) \in Nat /\ flights[f].sent \in Nat /\ flights[f].sent <= Len(b)
    BY <1>2, FlightNumbers
  <2>5. wire[1].seq \in 1 .. Len(b)
    BY <2>2, <2>4
  <2>6. wire[1].seq \in Nat /\ wire[1].seq # 0 /\ wire[1].seq < Len(b) /\ wire[1].seq <= flights[f].sent
    BY <2>2, <2>3, <2>4, <2>5
  <2> QED BY <2>2, <2>5, <2>6, ElementOfSeq
<1>4. /\ UNCHANGED <<flights, log>> /\ staged[f] \in Seq(Put) /\ Len(staged[f]) \in Nat
      /\ staged' = [staged EXCEPT ![f] =
            IF atomic /\ k = Len(staged[f]) + 1 THEN Append(staged[f], b[k]) ELSE << >>]
  BY <1>3, FlightNumbers DEF StreamStages, Continues
<1>5. UNCHANGED <<Flights, Batches, MessageType>> /\ DOMAIN flights = Flights
  <2>1. UNCHANGED <<Flights, Batches, MessageType>>
    BY <1>4 DEF Flights, Batches, MessageType
  <2>2. DOMAIN flights = Flights
    BY DEF Flights, TypeOK
  <2> QED BY <2>1, <2>2
<1>6. PICK S \in Seq(Put) :
        /\ staged' = [staged EXCEPT ![f] = S]
        /\ \/ /\ atomic /\ k = Len(staged[f]) + 1 /\ Len(S) = k /\ S[k] = b[k]
              /\ \A i \in 1 .. Len(staged[f]) : S[i] = staged[f][i]
           \/ ~(atomic /\ k = Len(staged[f]) + 1) /\ S = << >> /\ Len(S) = 0
  <2>1. CASE atomic /\ k = Len(staged[f]) + 1
    <3> DEFINE S == Append(staged[f], b[k])
    <3>1. /\ S \in Seq(Put) /\ Len(S) = Len(staged[f]) + 1 /\ S[Len(staged[f]) + 1] = b[k]
          /\ \A i \in 1 .. Len(staged[f]) : S[i] = staged[f][i]
      BY <1>3, <1>4, AppendProperties
    <3>2. staged' = [staged EXCEPT ![f] = S]
      BY <1>4, <2>1
    <3> QED BY <2>1, <3>1, <3>2
  <2>2. CASE ~(atomic /\ k = Len(staged[f]) + 1)
    <3>1. << >> \in Seq(Put) /\ Len(<< >>) = 0
      OBVIOUS
    <3>2. staged' = [staged EXCEPT ![f] = << >>]
      BY <1>4, <2>2
    <3> QED BY <2>2, <3>1, <3>2
  <2> QED BY <2>1, <2>2
<1>7. /\ staged' \in [Flights -> Seq(Put)] /\ staged'[f] = S
      /\ \A g \in Flights : g # f => staged'[g] = staged[g]
  BY <1>5, <1>6 DEF TypeOK
<1>8. Len(S) \in Nat /\ Len(S) <= k
  BY <1>6
<1>9. TypeOK'
  BY <1>0, <1>4, <1>5, <1>7 DEF TypeOK
<1>10. StageInv'
  <2>1. StagedOK(f)'
    <3>1. Len(b) \in Nat /\ flights[f].sent \in Nat
      BY <1>2, FlightNumbers
    <3>2. Len(S) < Len(b) /\ Len(S) <= flights[f].sent
      BY <1>3, <1>8, <3>1
    <3>3. \A i \in 1 .. Len(staged[f]) : staged[f][i] = b[i]
      BY <1>2 DEF StageInv, StagedOK
    <3>4. \A i \in 1 .. Len(S) : S[i] = b[i]
      <4>1. ASSUME NEW i \in 1 .. Len(S) PROVE i = k \/ i \in 1 .. Len(staged[f])
        BY <1>4, <1>6, <4>1
      <4>2. Len(S) # 0 => /\ S[k] = b[k] /\ \A i \in 1 .. Len(staged[f]) : S[i] = staged[f][i]
        BY <1>6
      <4> QED BY <1>8, <3>3, <4>1, <4>2
    <3> QED BY <1>2, <1>4, <1>5, <1>7, <3>2, <3>4 DEF StagedOK
  <2>2. ASSUME NEW g \in Flights, g # f PROVE StagedOK(g)'
    BY <1>4, <1>5, <1>7, <2>2 DEF StageInv, StagedOK
  <2>3. ASSUME NEW x \in 2 .. Len(wire), wire[x].id # 0 PROVE Len(staged'[wire[x].id]) < wire[x].seq
    <3>1. x \in 1 .. Len(wire) /\ wire[x].id = wire[x].from /\ wire[x].from \in Flights
      BY <1>0, <2>3, MessageShape
    <3>2. CASE wire[x].from = f
      <4>1. k < wire[x].seq /\ wire[x].seq \in Nat
        BY <1>1, <1>3, <3>1, <3>2, FirstOfFlight, MessageShape DEF MessageType
      <4> QED BY <1>7, <1>8, <3>1, <3>2, <4>1
    <3>3. CASE wire[x].from # f
      BY <1>7, <2>3, <3>1, <3>3 DEF StageInv
    <3> QED BY <3>2, <3>3
  <2>4. ASSUME NEW x \in 1 .. Len(wire'), wire'[x].id # 0
        PROVE  Len(staged'[wire'[x].id]) < wire'[x].seq
    <3>1. x + 1 \in 2 .. Len(wire) /\ wire'[x] = wire[x + 1]
      BY <1>0
    <3> QED BY <2>3, <2>4, <3>1
  <2> QED BY <1>5, <2>1, <2>2, <2>4 DEF StageInv
<1>11. HonestInv'
  <2> SUFFICES ASSUME ~failed, NEW g \in Flights PROVE HonestOK(g)'
    BY <1>5 DEF HonestInv
  <2>1. HonestOK(g) /\ flights' = flights /\ Batches'[g] = Batches[g] /\ atomic' = atomic
    BY <1>4, <1>5 DEF HonestInv
  <2>2. ASSUME atomic, NEW s \in Len(staged[g]) + 1 .. flights[g].sent, s \in Len(staged'[g]) + 1 .. flights[g].sent,
               NEW x \in 1 .. Len(wire), wire[x].from = g, wire[x].seq = s
        PROVE  \E y \in 1 .. Len(wire') : wire'[y].from = g /\ wire'[y].seq = s
    <3>1. CASE x = 1
      <4>1. k = Len(staged[f]) + 1 /\ g = f /\ s = k
        BY <1>1, <1>3, <2>2, <3>1, Unbroken
      <4>2. Len(S) = k /\ staged'[g] = S
        BY <1>6, <1>7, <2>2, <4>1
      <4> QED BY <1>8, <2>2, <4>1, <4>2
    <3>2. CASE x # 1
      <4>1. x \in 2 .. Len(wire)
        BY <1>0, <3>2
      <4> QED BY <1>0, <2>2, <4>1
    <3> QED BY <3>1, <3>2
  <2>3. ASSUME atomic, flights[g].ack.status = "none", Len(Batches[g]) # 1,
               NEW s \in Len(staged'[g]) + 1 .. flights[g].sent
        PROVE  \E y \in 1 .. Len(wire') : wire'[y].from = g /\ wire'[y].seq = s
    <3>1. s \in Len(staged[g]) + 1 .. flights[g].sent
      <4>1. Len(staged[g]) \in Nat /\ flights[g].sent \in Nat
        BY FlightNumbers
      <4>2. g # f => staged'[g] = staged[g]
        BY <1>7
      <4>3. g = f => k = Len(staged[f]) + 1
        BY <1>1, <1>3, <2>3, Unbroken
      <4>4. g = f => Len(staged'[g]) = Len(staged[g]) + 1
        BY <1>6, <1>7, <2>3, <4>3
      <4> QED BY <2>3, <4>1, <4>2, <4>4
    <3>2. PICK x \in 1 .. Len(wire) : wire[x].from = g /\ wire[x].seq = s
      BY <2>1, <2>3, <3>1, ZenonT(30) DEF HonestOK
    <3> QED BY <2>2, <2>3, <3>1, <3>2
  <2>4. /\ flights'[g].at \in {"fail", "done"} => flights'[g].ack.status # "none"
        /\ flights'[g].ack.status = "error" => ~atomic'
    BY <2>1 DEF HonestOK
  <2>5. atomic' /\ flights'[g].ack.status = "none" /\ Len(Batches'[g]) # 1 =>
          \A s \in Len(staged'[g]) + 1 .. flights'[g].sent :
             \E y \in 1 .. Len(wire') : wire'[y].from = g /\ wire'[y].seq = s
    BY <2>1, <2>3
  <2> QED BY <2>4, <2>5 DEF HonestOK
<1>12. WireInv' /\ StoreInv' /\ OrderInv'
  BY <1>4, <1>5, TailWire, TailStore, TailOrder
<1>13. PlaceInv' /\ CallerInv' /\ FlightInv' /\ AnswerInv' /\ FlusherInv' /\ NoLateOverwrite'
  BY <1>4, <1>5, PlaceFrame, CallerFrame, FlightFrame, AnswerFrame, OverwriteFrame DEF FlusherInv
<1> QED BY <1>9, <1>10, <1>11, <1>12, <1>13

(* What an ack changes, and what it does not. *)
LEMMA AckStep ==
  ASSUME IInv, wire # << >>, wire' = Tail(wire), Final(wire[1]),
         NEW f \in Flights, f = wire[1].from, NEW a \in AckType, a.status # "none", Ack(f, a),
         UNCHANGED <<pc, answers, queue, flusher, batch>>
  PROVE  /\ flights' \in Seq(FlightType) /\ UNCHANGED <<Flights, Batches, MessageType>>
         /\ DOMAIN flights' = DOMAIN flights /\ \A g \in Flights : g # f => flights'[g] = flights[g]
         /\ flights'[f].sent = flights[f].sent /\ flights'[f].at = flights[f].at
         /\ IF flights[f].at = "ack" THEN flights'[f].ack = a ELSE flights'[f].ack = flights[f].ack
         /\ PlaceInv' /\ CallerInv' /\ FlusherInv' /\ FlightInv' /\ AnswerInv' /\ WireInv'
<1> USE DEF IInv
<1>1. flights[f] \in FlightType /\ FlightOK(flights[f])
  BY FlightNumbers
<1>2. PICK F \in FlightType :
        /\ flights' = [flights EXCEPT ![f] = F]
        /\ F.puts = flights[f].puts /\ F.sent = flights[f].sent /\ F.at = flights[f].at
        /\ F.told = flights[f].told
        /\ IF flights[f].at = "ack" THEN F.ack = a ELSE F.ack = flights[f].ack
  <2>1. CASE flights[f].at = "ack"
    <3> DEFINE F == [flights[f] EXCEPT !.ack = a]
    <3>1. F \in FlightType /\ F.puts = flights[f].puts /\ F.sent = flights[f].sent
      BY <1>1 DEF FlightType
    <3>2. F.at = flights[f].at /\ F.told = flights[f].told /\ F.ack = a
      BY <1>1 DEF FlightType
    <3>3. flights' = [flights EXCEPT ![f] = F]
      BY <2>1 DEF Ack
    <3> QED BY <2>1, <3>1, <3>2, <3>3
  <2>2. CASE flights[f].at # "ack"
    <3>1. flights' = [flights EXCEPT ![f] = flights[f]]
      BY <2>2 DEF Ack, TypeOK
    <3> QED BY <1>1, <2>2, <3>1
  <2> QED BY <2>1, <2>2
<1>3. /\ flights' \in Seq(FlightType) /\ UNCHANGED <<Flights, Batches, MessageType>>
      /\ DOMAIN flights' = DOMAIN flights /\ flights'[f] = F
      /\ \A g \in Flights : g # f => flights'[g] = flights[g]
  BY <1>2, FlightStep, Zenon
<1>4. FlightInv'
  <2>1. FlightOK(F)
    <3>1. CASE flights[f].at = "ack"
      <4>1. F.at = "ack" /\ F.told = 0 /\ F.sent = Len(F.puts)
        BY <1>1, <1>2, <3>1 DEF FlightOK
      <4>2. F.puts # << >> /\ F.sent <= Len(F.puts) /\ F.told <= Len(F.puts)
        BY <1>1, <1>2 DEF FlightOK
      <4> QED BY <4>1, <4>2 DEF FlightOK
    <3>2. CASE flights[f].at # "ack"
      BY <1>1, <1>2, <3>2 DEF FlightOK
    <3> QED BY <3>1, <3>2
  <2> QED BY <1>3, <2>1 DEF FlightInv
<1>5. AnswerInv'
  <2>1. ASSUME NEW g \in Flights, g # f \/ flights[f].at # "ack" PROVE AnswersOK(g)'
    <3>1. flights'[g].told = flights[g].told /\ ResultOf(flights'[g], 1) = ResultOf(flights'[g], 1)
      BY <1>2, <1>3
    <3>2. flights'[g].ack = flights[g].ack /\ flights'[g].puts = flights[g].puts
      BY <1>2, <1>3, <2>1
    <3> QED BY <1>3, <3>1, <3>2 DEF AnswerInv, AnswersOK, ResultOf, RevisionOf, Places
  <2>2. ASSUME flights[f].at = "ack" PROVE AnswersOK(f)'
    <3>1. flights'[f].told = 0 /\ flights[f].told = 0
      BY <1>1, <1>2, <1>3, <2>2 DEF FlightOK
    <3>2. \A i \in Places(f) : ~(i <= 0)
      BY FlightNumbers DEF Places
    <3>3. \A i \in Places(f) : answers[Batches[f][i]] = << >>
      BY <3>1, <3>2 DEF AnswerInv, AnswersOK
    <3> QED BY <1>3, <3>1, <3>2, <3>3 DEF AnswersOK, Places
  <2>3. \A g \in Flights : AnswersOK(g)'
    BY <2>1, <2>2
  <2> QED BY <1>3, <2>3 DEF AnswerInv, In, Places
<1>6. WireInv'
  <2>1. \A x \in 2 .. Len(wire) : wire[x].from # f /\ wire[x].from \in Flights
    <3>1. \A x \in 2 .. Len(wire) : x \in 1 .. Len(wire)
      BY WireTail
    <3> QED BY <3>1, FirstOfFlight, MessageShape
  <2> QED BY <1>3, <2>1, TailWire
<1>7. PlaceInv' /\ CallerInv' /\ FlusherInv'
  BY <1>3, PlaceFrame, CallerFrame DEF FlusherInv
<1> QED BY <1>2, <1>3, <1>4, <1>5, <1>6, <1>7

(* The stream refuses a batch that it has not staged all of, or takes none. *)
LEMMA RefuseKeeps ==
  ASSUME IInv, wire # << >>, wire' = Tail(wire), StreamRefuses(wire[1]),
         UNCHANGED <<pc, answers, queue, flusher, batch, atomic, failed, earlier>>
  PROVE  IInv'
<1> USE DEF IInv
<1>0. /\ Len(wire) \in Nat /\ 1 \in 1 .. Len(wire) /\ wire' \in Seq(MessageType)
      /\ \A x \in 1 .. Len(wire') : x + 1 \in 2 .. Len(wire) /\ wire'[x] = wire[x + 1]
      /\ \A x \in 2 .. Len(wire) : x - 1 \in 1 .. Len(wire') /\ wire'[x - 1] = wire[x]
      /\ \A x \in 2 .. Len(wire) : x \in 1 .. Len(wire)
  BY WireTail
<1>1. PICK f \in Flights : f = wire[1].from /\ f # 0 /\ wire[1].id = f /\ Final(wire[1])
  BY <1>0, MessageShape DEF Flights, StreamRefuses, Final
<1> DEFINE a == [status |-> "error", rev |-> 0]
<1>2. /\ staged' = [staged EXCEPT ![f] = << >>] /\ UNCHANGED log /\ Ack(f, a)
      /\ ~Continues(wire[1])
  BY <1>1, Zenon DEF StreamRefuses
<1>3. a \in AckType /\ a.status = "error"
  BY DEF AckType
<1> HIDE DEF a
<1>4. /\ flights' \in Seq(FlightType) /\ UNCHANGED <<Flights, Batches, MessageType>>
      /\ DOMAIN flights' = DOMAIN flights /\ \A g \in Flights : g # f => flights'[g] = flights[g]
      /\ flights'[f].sent = flights[f].sent /\ flights'[f].at = flights[f].at
      /\ IF flights[f].at = "ack" THEN flights'[f].ack = a ELSE flights'[f].ack = flights[f].ack
      /\ PlaceInv' /\ CallerInv' /\ FlusherInv' /\ FlightInv' /\ AnswerInv' /\ WireInv'
  BY <1>1, <1>2, <1>3, AckStep
<1>5. flights[f].ack.status = "none" /\ flights[f].sent = Len(Batches[f]) /\ Unstored(f)
  BY <1>0, <1>1, FirstOfFlight, MessageShape DEF StoreInv, StoredOK
<1>6. /\ staged' \in [Flights -> Seq(Put)] /\ staged'[f] = << >> /\ DOMAIN flights = Flights
      /\ \A g \in Flights : g # f => staged'[g] = staged[g]
  <2>1. DOMAIN flights = Flights /\ staged \in [DOMAIN flights -> Seq(Put)]
    BY DEF Flights, TypeOK
  <2> QED BY <1>2, <2>1
<1>7. TypeOK'
  BY <1>0, <1>2, <1>4, <1>6 DEF TypeOK
<1>8. StageInv'
  <2>1. StagedOK(f)'
    <3>1. Len(<< >>) = 0
      OBVIOUS
    <3>2. 0 < Len(Batches[f]) /\ 0 <= flights[f].sent
      BY FlightNumbers
    <3>3. Len(staged'[f]) = 0
      BY <1>6, <3>1
    <3>4. 1 .. 0 = {}
      OBVIOUS
    <3> QED BY <1>4, <3>2, <3>3, <3>4 DEF StagedOK
  <2>2. ASSUME NEW g \in Flights, g # f PROVE StagedOK(g)'
    <3>1. /\ staged'[g] = staged[g] /\ flights'[g] = flights[g] /\ Batches'[g] = Batches[g]
          /\ StagedOK(g)
      BY <1>4, <1>6, <2>2 DEF StageInv
    <3> QED BY <3>1 DEF StagedOK
  <2>3. ASSUME NEW x \in 2 .. Len(wire), wire[x].id # 0 PROVE Len(staged'[wire[x].id]) < wire[x].seq
    <3>1. /\ x \in 1 .. Len(wire) /\ wire[x].id = wire[x].from /\ wire[x].from \in Flights
          /\ wire[x].from # f
      BY <1>0, <1>1, <2>3, FirstOfFlight, MessageShape
    <3> QED BY <1>6, <2>3, <3>1 DEF StageInv
  <2>4. ASSUME NEW x \in 1 .. Len(wire'), wire'[x].id # 0
        PROVE  Len(staged'[wire'[x].id]) < wire'[x].seq
    <3>1. x + 1 \in 2 .. Len(wire) /\ wire'[x] = wire[x + 1]
      BY <1>0
    <3> QED BY <2>3, <2>4, <3>1
  <2> QED BY <1>4, <2>1, <2>2, <2>4 DEF StageInv
<1>9. StoreInv'
  <2>1. ASSUME NEW g \in Flights PROVE StoredOK(g)'
    <3>1. (Unstored(g) => Unstored(g)') /\ (Whole(g) => Whole(g)') /\ StoredOK(g)
      BY <1>2, <1>4 DEF StoreInv, Unstored, Whole, Places, Stored
    <3>2. CASE g = f
      <4>1. flights'[f].ack.status # "ok" /\ Unstored(f)'
        BY <1>3, <1>4, <1>5, <3>1, <3>2
      <4> QED BY <3>2, <4>1 DEF StoredOK
    <3>3. CASE g # f
      <4>1. \A x \in 1 .. Len(wire') : wire'[x].from = g /\ Final(wire'[x]) => Unstored(g)
        <5> SUFFICES ASSUME NEW x \in 1 .. Len(wire'), wire'[x].from = g, Final(wire'[x])
                     PROVE  Unstored(g)
          OBVIOUS
        <5>1. x + 1 \in 1 .. Len(wire) /\ wire[x + 1].from = g /\ Final(wire[x + 1])
          BY <1>0
        <5> QED BY <3>1, <5>1 DEF StoredOK
      <4> QED BY <1>2, <1>4, <3>1, <3>3, <4>1 DEF StoredOK, Places, RevisionOf
    <3> QED BY <3>2, <3>3
  <2> QED BY <1>2, <1>4, <2>1 DEF StoreInv, In, Places
<1>10. HonestInv'
  <2> SUFFICES ASSUME ~failed, NEW g \in Flights PROVE HonestOK(g)'
    BY <1>4 DEF HonestInv
  <2>1. HonestOK(g)
    BY DEF HonestInv
  <2>2. flights[f].at = "ack" /\ ~atomic
    BY <1>1, <1>2, Unbroken DEF Continues
  <2>3. CASE g = f
    BY <1>3, <1>4, <2>2, <2>3 DEF HonestOK
  <2>4. CASE g # f
    BY <1>4, <2>1, <2>2, <2>4 DEF HonestOK
  <2> QED BY <2>3, <2>4
<1>11. OrderInv' /\ NoLateOverwrite'
  BY <1>2, <1>4, TailOrder, OverwriteFrame
<1> QED BY <1>4, <1>7, <1>8, <1>9, <1>10, <1>11

(* The stream stores a put alone, or with the commit what is staged and the last put: in
   both cases the whole batch, after all that is stored. *)
LEMMA StoresWhole ==
  ASSUME IInv, wire # << >>, StreamStores(wire[1]), NEW f \in Flights, f = wire[1].from
  PROVE  /\ log' \in Seq(Put \cup {Other}) /\ Len(log) \in Nat
         /\ Len(log') = Len(log) + Len(Batches[f])
         /\ \A i \in 1 .. Len(log) : log'[i] = log[i]
         /\ \A i \in Places(f) : log'[Len(log) + i] = Batches[f][i]
         /\ staged' \in [Flights -> Seq(Put)] /\ staged'[f] = << >>
         /\ \A g \in Flights : g # f => staged'[g] = staged[g]
<1> USE DEF IInv
<1> DEFINE PO == Put \cup {Other}
<1>1. 1 \in 1 .. Len(wire) /\ f # 0
  BY DEF TypeOK, Flights
<1>2. log \in Seq(PO) /\ Len(log) \in Nat /\ DOMAIN flights = Flights /\ staged \in [Flights -> Seq(Put)]
  BY DEF TypeOK, Flights
<1>3. PICK b \in Seq(Put) : b = Batches[f]
  BY Elements
<1>4. wire[1].put \in PO /\ << >> \in Seq(PO) /\ staged[f] \in Seq(PO) /\ Len(staged[f]) \in Nat
  <2>1. wire[1].put \in Put
    BY <1>1, MessageShape DEF MessageType
  <2>2. Seq(Put) \subseteq Seq(PO)
    BY SeqMonotonic
  <2> QED BY <2>1, <2>2, FlightNumbers
<1>5. PICK t \in Seq(PO) : t = IF wire[1].id = 0 THEN << >> ELSE staged[wire[1].id]
  BY <1>1, <1>4, MessageShape
<1>6. log' = (log \o t) \o <<wire[1].put>>
  BY <1>5 DEF StreamStores
<1>7. /\ wire[1].id = 0 => Len(b) = 1 /\ wire[1].put = b[1]
      /\ wire[1].id # 0 => wire[1].id = f /\ Len(staged[f]) + 1 = Len(b) /\ wire[1].put = b[Len(b)]
  <2>1. CASE wire[1].id = 0
    BY <1>1, <1>3, <2>1, MessageShape
  <2>2. CASE wire[1].id # 0
    <3>1. wire[1].commit /\ wire[1].seq = Len(staged[wire[1].id]) + 1
      BY <2>2 DEF StreamStores, Continues
    <3>2. wire[1].id = f /\ wire[1].put = b[wire[1].seq]
      BY <1>1, <1>3, <2>2, MessageShape
    <3>3. wire[1].seq = Len(b)
      BY <1>1, <1>3, <2>2, <3>1, MessageShape, Zenon
    <3> QED BY <2>2, <3>1, <3>2, <3>3
  <2> QED BY <2>1, <2>2
<1>8. PICK n \in Nat, l \in Nat, e \in PO : n = Len(b) /\ l = Len(log) /\ e = wire[1].put
  <2>1. Len(b) \in Nat
    BY LenProperties
  <2> QED BY <1>2, <1>4, <2>1
<1>9. Len(t) + 1 = n /\ Len(t) \in Nat /\ e = b[n]
  <2>1. CASE wire[1].id = 0
    <3>1. t = << >> /\ n = 1
      BY <1>5, <1>7, <1>8, <2>1
    <3> QED BY <1>7, <1>8, <2>1, <3>1
  <2>2. CASE wire[1].id # 0
    BY <1>4, <1>5, <1>7, <1>8, <2>2
  <2> QED BY <2>1, <2>2
<1>10. \A i \in 1 .. Len(t) : t[i] = b[i]
  <2>1. CASE wire[1].id = 0
    BY <1>5, <2>1
  <2>2. CASE wire[1].id # 0
    BY <1>3, <1>5, <1>7, <2>2 DEF StageInv, StagedOK
  <2> QED BY <2>1, <2>2
<1>11. /\ log' \in Seq(PO) /\ Len(log') = l + n
       /\ \A i \in 1 .. l : log'[i] = log[i]
       /\ \A i \in 1 .. n : log'[l + i] = b[i]
  <2>1. /\ log \o t \in Seq(PO) /\ Len(log \o t) = l + Len(t)
        /\ \A i \in 1 .. l + Len(t) : (log \o t)[i] = IF i <= l THEN log[i] ELSE t[i - l]
    BY <1>2, <1>8, ConcatProperties
  <2>2. /\ log' \in Seq(PO) /\ Len(log') = l + Len(t) + 1
        /\ \A i \in 1 .. l + Len(t) : log'[i] = (log \o t)[i]
        /\ log'[l + Len(t) + 1] = e
    <3> DEFINE u == log \o t
    <3>1. u \in Seq(PO) /\ Len(u) = l + Len(t) /\ log' = u \o <<e>>
      BY <1>6, <1>8, <2>1
    <3> HIDE DEF u
    <3>2. log' = Append(u, e)
      BY <3>1
    <3>3. /\ log' \in Seq(PO) /\ Len(log') = Len(u) + 1
          /\ \A i \in 1 .. Len(u) : log'[i] = u[i]
          /\ log'[Len(u) + 1] = e
      BY <3>1, <3>2, AppendProperties
    <3> QED BY <3>1, <3>3 DEF u
  <2>3. \A i \in 1 .. l : i \in 1 .. l + Len(t) /\ i <= l
    BY <1>9
  <2>4. ASSUME NEW i \in 1 .. n PROVE log'[l + i] = b[i]
    <3>1. CASE i = n
      <4>1. l + i = l + Len(t) + 1
        BY <1>9, <3>1
      <4> QED BY <1>9, <2>2, <3>1, <4>1
    <3>2. CASE i # n
      <4>1. i \in 1 .. Len(t) /\ l + i \in 1 .. l + Len(t) /\ ~(l + i <= l) /\ (l + i) - l = i
        BY <1>9, <3>2
      <4> QED BY <1>10, <2>1, <2>2, <4>1
    <3> QED BY <3>1, <3>2
  <2>5. Len(log') = l + n
    <3>1. l + Len(t) + 1 = l + (Len(t) + 1)
      BY <1>9
    <3> QED BY <1>9, <2>2, <3>1
  <2> QED BY <2>1, <2>2, <2>3, <2>4, <2>5
<1>12. /\ staged' \in [Flights -> Seq(Put)] /\ staged'[f] = << >>
       /\ \A g \in Flights : g # f => staged'[g] = staged[g]
  <2>1. CASE wire[1].id = 0
    <3>1. staged' = staged /\ Len(staged[f]) < 1
      BY <1>3, <1>7, <2>1, FlightNumbers DEF StreamStores
    <3>2. staged[f] = << >>
      BY <1>4, <3>1
    <3> QED BY <1>2, <3>1, <3>2
  <2>2. CASE wire[1].id # 0
    <3>1. staged' = [staged EXCEPT ![f] = << >>]
      BY <1>7, <2>2 DEF StreamStores
    <3> QED BY <1>2, <3>1
  <2> QED BY <2>1, <2>2
<1> QED BY <1>2, <1>3, <1>8, <1>11, <1>12 DEF Places

\* A message that the stream stores, with the batch it completes, keeps the invariant.
LEMMA StoreKeeps ==
  ASSUME IInv, wire # << >>, wire' = Tail(wire), StreamStores(wire[1]),
         UNCHANGED <<pc, answers, queue, flusher, batch, atomic, failed, earlier>>
  PROVE  IInv'
<1> USE DEF IInv
<1>0. /\ Len(wire) \in Nat /\ 1 \in 1 .. Len(wire) /\ wire' \in Seq(MessageType)
      /\ \A x \in 1 .. Len(wire') : x + 1 \in 2 .. Len(wire) /\ wire'[x] = wire[x + 1]
      /\ \A x \in 2 .. Len(wire) : x - 1 \in 1 .. Len(wire') /\ wire'[x - 1] = wire[x]
      /\ \A x \in 2 .. Len(wire) : x \in 1 .. Len(wire)
  BY WireTail
<1>1. PICK f \in Flights : f = wire[1].from
  BY <1>0, MessageShape
<1>2. Final(wire[1])
  BY Zenon DEF Final, StreamStores
<1>3. PICK n \in Nat, l \in Nat : n = Len(Batches[f]) /\ l = Len(log)
  BY StoresWhole, FlightNumbers, <1>1
<1>4. /\ log' \in Seq(Put \cup {Other}) /\ Len(log') = l + n
      /\ \A i \in 1 .. l : log'[i] = log[i]
      /\ \A i \in 1 .. n : log'[l + i] = Batches[f][i]
      /\ staged' \in [Flights -> Seq(Put)] /\ staged'[f] = << >>
      /\ \A g \in Flights : g # f => staged'[g] = staged[g]
  BY <1>1, <1>3, StoresWhole DEF Places
<1>5. PICK a \in AckType : a.status = "ok" /\ a.rev = l + n /\ Ack(f, a)
  <2> DEFINE a == [status |-> "ok", rev |-> Len(log')]
  <2>1. a \in AckType /\ a.status = "ok" /\ a.rev = l + n
    BY <1>4 DEF AckType
  <2>2. Ack(f, a)
    BY <1>1 DEF StreamStores
  <2> QED BY <2>1, <2>2
<1>6. /\ flights' \in Seq(FlightType) /\ UNCHANGED <<Flights, Batches, MessageType>>
      /\ DOMAIN flights' = DOMAIN flights /\ \A g \in Flights : g # f => flights'[g] = flights[g]
      /\ flights'[f].sent = flights[f].sent /\ flights'[f].at = flights[f].at
      /\ IF flights[f].at = "ack" THEN flights'[f].ack = a ELSE flights'[f].ack = flights[f].ack
      /\ PlaceInv' /\ CallerInv' /\ FlusherInv' /\ FlightInv' /\ AnswerInv' /\ WireInv'
  BY <1>1, <1>2, <1>5, AckStep
<1>7. flights[f].ack.status = "none" /\ flights[f].sent = Len(Batches[f]) /\ Unstored(f)
  BY <1>0, <1>1, <1>2, FirstOfFlight, MessageShape DEF StoreInv, StoredOK
<1>8. \A i \in 1 .. Len(log') : i \in 1 .. l \/ (i - l \in 1 .. n /\ i = l + (i - l))
  BY <1>4
<1>9. \A x \in 2 .. Len(wire) : wire[x].from # f
  BY <1>1, <1>2, FirstOfFlight
<1>10. TypeOK'
  <2>1. DOMAIN flights = Flights
    BY DEF Flights, TypeOK
  <2> QED BY <1>0, <1>4, <1>6, <2>1 DEF TypeOK
<1>11. StageInv'
  <2>1. StagedOK(f)'
    <3>1. 0 < Len(Batches[f]) /\ 0 <= flights[f].sent
      BY FlightNumbers
    <3>2. Len(staged'[f]) = 0 /\ 1 .. 0 = {}
      BY <1>4
    <3> QED BY <1>6, <3>1, <3>2 DEF StagedOK
  <2>2. ASSUME NEW g \in Flights, g # f PROVE StagedOK(g)'
    <3>1. /\ staged'[g] = staged[g] /\ flights'[g] = flights[g] /\ Batches'[g] = Batches[g]
          /\ StagedOK(g)
      BY <1>4, <1>6, <2>2 DEF StageInv
    <3> QED BY <3>1 DEF StagedOK
  <2>3. ASSUME NEW x \in 2 .. Len(wire), wire[x].id # 0 PROVE Len(staged'[wire[x].id]) < wire[x].seq
    <3>1. /\ x \in 1 .. Len(wire) /\ wire[x].id = wire[x].from /\ wire[x].from \in Flights
          /\ wire[x].from # f
      BY <1>0, <1>9, <2>3, MessageShape
    <3> QED BY <1>4, <2>3, <3>1 DEF StageInv
  <2>4. ASSUME NEW x \in 1 .. Len(wire'), wire'[x].id # 0
        PROVE  Len(staged'[wire'[x].id]) < wire'[x].seq
    <3>1. x + 1 \in 2 .. Len(wire) /\ wire'[x] = wire[x + 1]
      BY <1>0
    <3> QED BY <2>3, <2>4, <3>1
  <2> QED BY <1>6, <2>1, <2>2, <2>4 DEF StageInv
\* The puts that are stored now are those that were and those of f.
<1>12. \A p : Stored(p)' <=> Stored(p) \/ In(p, f)
  <2>1. \A i \in 1 .. l : i \in 1 .. Len(log')
    BY <1>4
  <2>2. \A i \in 1 .. n : l + i \in 1 .. Len(log')
    BY <1>4
  <2>3. \A p : In(p, f) <=> \E i \in 1 .. n : Batches[f][i] = p
    BY <1>3 DEF In, Places
  <2>4. \A p : Stored(p) <=> \E i \in 1 .. l : log[i] = p
    BY <1>3 DEF Stored
  <2>5. \A i \in 1 .. Len(log') : (i \in 1 .. l /\ log'[i] = log[i])
                                  \/ (i - l \in 1 .. n /\ log'[i] = Batches[f][i - l])
    BY <1>4, <1>8
  <2>6. ASSUME NEW p, Stored(p) \/ In(p, f) PROVE Stored(p)'
    <3>1. CASE Stored(p)
      <4>1. PICK i \in 1 .. l : log[i] = p
        BY <2>4, <3>1
      <4> QED BY <1>4, <2>1, <4>1 DEF Stored
    <3>2. CASE In(p, f)
      <4>1. PICK i \in 1 .. n : Batches[f][i] = p
        BY <2>3, <3>2
      <4> QED BY <1>4, <2>2, <4>1 DEF Stored
    <3> QED BY <2>6, <3>1, <3>2
  <2>7. ASSUME NEW p, Stored(p)' PROVE Stored(p) \/ In(p, f)
    <3>1. PICK i \in 1 .. Len(log') : log'[i] = p
      BY <2>7 DEF Stored
    <3> QED BY <2>3, <2>4, <2>5, <3>1
  <2> QED BY <2>6, <2>7
<1>13. \A g \in Flights : \A p : g # f /\ In(p, g) => ~In(p, f)
  BY DEF PlaceInv, Apart, In, Places
<1>14. ASSUME NEW g \in Flights PROVE StoredOK(g)'
  <2>1. CASE g # f
    <3>1. StoredOK(g) /\ flights'[g] = flights[g] /\ Batches'[g] = Batches[g]
      BY <1>6, <2>1 DEF StoreInv
    <3>2. Unstored(g) => Unstored(g)'
      <4>1. \A i \in Places(g) : ~In(Batches[g][i], f)
        BY <1>13, <2>1 DEF In
      <4> QED BY <1>12, <3>1, <4>1 DEF Unstored, Places
    <3>3. Whole(g) => Whole(g)'
      <4> SUFFICES ASSUME NEW s \in 0 .. l, s + Len(Batches[g]) <= l,
                          \A i \in Places(g) : log[s + i] = Batches[g][i]
                   PROVE  Whole(g)'
        BY <1>3 DEF Whole
      <4>1. Len(Batches[g]) \in Nat
        BY FlightNumbers
      <4>2. s \in 0 .. Len(log') /\ s + Len(Batches[g]) <= Len(log')
        BY <1>4, <4>1
      <4>3. \A i \in Places(g) : s + i \in 1 .. l
        BY <4>1 DEF Places
      <4>4. \A i \in Places(g) : log'[s + i] = Batches[g][i]
        BY <1>4, <4>3
      <4> QED BY <3>1, <4>2, <4>4 DEF Whole, Places
    <3>4. \A x \in 1 .. Len(wire') : wire'[x].from = g /\ Final(wire'[x]) => Unstored(g)
      <4> SUFFICES ASSUME NEW x \in 1 .. Len(wire'), wire'[x].from = g, Final(wire'[x]) PROVE Unstored(g)
        OBVIOUS
      <4>1. x + 1 \in 1 .. Len(wire) /\ wire[x + 1].from = g /\ Final(wire[x + 1])
        BY <1>0
      <4> QED BY <3>1, <4>1 DEF StoredOK
    <3>5. flights[g].ack.status = "ok" =>
            /\ flights[g].ack.rev \in Len(Batches[g]) .. Len(log')
            /\ \A i \in Places(g) : log'[RevisionOf(flights[g].ack.rev, Len(Batches[g]), i)] = Batches[g][i]
      <4> SUFFICES ASSUME flights[g].ack.status = "ok"
                   PROVE  /\ flights[g].ack.rev \in Len(Batches[g]) .. Len(log')
                          /\ \A i \in Places(g) :
                                log'[RevisionOf(flights[g].ack.rev, Len(Batches[g]), i)] = Batches[g][i]
        OBVIOUS
      <4>1. PICK m \in Nat : m = Len(Batches[g])
        BY FlightNumbers
      <4>2. flights[g].ack.rev \in m .. l
        BY <1>3, <3>1, <4>1 DEF StoredOK
      <4>3. PICK v \in m .. l : v = flights[g].ack.rev
        BY <4>2
      <4>4. \A i \in 1 .. m : log[RevisionOf(v, m, i)] = Batches[g][i]
        BY <3>1, <4>1, <4>3 DEF StoredOK, Places
      <4>5. \A i \in 1 .. m : RevisionOf(v, m, i) \in 1 .. l
        BY DEF RevisionOf
      <4>6. v \in m .. Len(log')
        BY <1>4
      <4> QED BY <1>4, <4>1, <4>3, <4>4, <4>5, <4>6 DEF Places
    <3> QED BY <3>1, <3>2, <3>3, <3>4, <3>5 DEF StoredOK, Places, RevisionOf
  <2>2. CASE g = f
    <3>1. Whole(f)'
      <4>1. l \in 0 .. Len(log') /\ l + n <= Len(log')
        BY <1>4
      <4> QED BY <1>3, <1>4, <1>6, <4>1 DEF Whole, Places
    <3>2. \A x \in 1 .. Len(wire') : wire'[x].from # f
      BY <1>0, <1>9
    <3>3. ~ flights[f].sent < Len(Batches[f])
      BY <1>7, FlightNumbers
    <3>4. flights'[f].ack.status # "error" /\ (flights'[f].ack.status = "ok" => flights'[f].ack = a)
      BY <1>5, <1>6, <1>7
    <3>5. /\ a.rev \in n .. Len(log')
          /\ \A i \in 1 .. n : log'[RevisionOf(a.rev, n, i)] = Batches[f][i]
      <4>1. \A i \in 1 .. n : RevisionOf(l + n, n, i) = l + i
        BY DEF RevisionOf
      <4>2. l + n \in n .. Len(log')
        BY <1>4
      <4> QED BY <1>4, <1>5, <4>1, <4>2
    <3> QED BY <1>3, <1>6, <2>2, <3>1, <3>2, <3>3, <3>4, <3>5 DEF StoredOK, Places, RevisionOf
  <2> QED BY <2>1, <2>2
<1>15. StoreInv'
  <2>1. ASSUME NEW i \in 1 .. Len(log'), NEW j \in 1 .. Len(log'), log'[i] = log'[j], log'[i] \in Put
        PROVE  i = j
    <3>1. \A u \in 1 .. l, v \in 1 .. n : log[u] # Batches[f][v]
      BY <1>3, <1>7 DEF Unstored, Stored, Places
    <3>2. CASE i \in 1 .. l /\ j \in 1 .. l
      BY <1>3, <1>4, <2>1, <3>2 DEF StoreInv
    <3>3. CASE i \notin 1 .. l /\ j \notin 1 .. l
      <4>1. /\ i - l \in 1 .. n /\ j - l \in 1 .. n /\ i = l + (i - l) /\ j = l + (j - l)
        BY <1>8, <3>3
      <4>2. Batches[f][i - l] = Batches[f][j - l]
        BY <1>4, <2>1, <4>1
      <4>3. DOMAIN Batches[f] = 1 .. n /\ IsInjective(Batches[f])
        BY <1>3, Elements DEF PlaceInv
      <4>4. i - l = j - l
        BY <4>1, <4>2, <4>3 DEF IsInjective
      <4> QED BY <4>1, <4>4
    <3>4. CASE i \in 1 .. l /\ j \notin 1 .. l
      <4>1. j - l \in 1 .. n /\ log'[j] = Batches[f][j - l] /\ log'[i] = log[i]
        BY <1>4, <1>8, <3>4
      <4> QED BY <2>1, <3>1, <3>4, <4>1
    <3>5. CASE i \notin 1 .. l /\ j \in 1 .. l
      <4>1. i - l \in 1 .. n /\ log'[i] = Batches[f][i - l] /\ log'[j] = log[j]
        BY <1>4, <1>8, <3>5
      <4> QED BY <2>1, <3>1, <3>5, <4>1
    <3> QED BY <3>2, <3>3, <3>4, <3>5
  <2>2. ASSUME NEW i \in 1 .. Len(log'), log'[i] \in Put
        PROVE  \E g \in Flights : In(log'[i], g)
    <3>1. CASE i \in 1 .. l
      BY <1>3, <1>4, <2>2, <3>1 DEF StoreInv
    <3>2. CASE i \notin 1 .. l
      <4>1. i - l \in Places(f) /\ log'[i] = Batches[f][i - l]
        BY <1>3, <1>4, <1>8, <3>2 DEF Places
      <4> QED BY <4>1 DEF In
    <3> QED BY <3>1, <3>2
  <2> QED BY <1>6, <1>14, <2>1, <2>2 DEF StoreInv, In, Places
<1>16. HonestInv'
  <2> SUFFICES ASSUME ~failed, NEW g \in Flights PROVE HonestOK(g)'
    BY <1>6 DEF HonestInv
  <2>1. HonestOK(g)
    BY DEF HonestInv
  <2>2. CASE g = f
    <3>1. flights'[f].at = "ack" /\ flights'[f].ack.status = "ok"
      BY <1>1, <1>2, <1>5, <1>6, Unbroken
    <3> QED BY <2>2, <3>1 DEF HonestOK
  <2>3. CASE g # f
    <3>1. \A s : (\E x \in 1 .. Len(wire) : wire[x].from = g /\ wire[x].seq = s)
                   => \E x \in 1 .. Len(wire') : wire'[x].from = g /\ wire'[x].seq = s
      <4> SUFFICES ASSUME NEW s, NEW x \in 1 .. Len(wire), wire[x].from = g, wire[x].seq = s
                   PROVE  \E y \in 1 .. Len(wire') : wire'[y].from = g /\ wire'[y].seq = s
        OBVIOUS
      <4>1. x \in 2 .. Len(wire)
        BY <1>0, <1>1, <2>3
      <4> QED BY <1>0, <4>1
    <3> QED BY <1>4, <1>6, <2>1, <2>3, <3>1 DEF HonestOK
  <2> QED BY <2>2, <2>3
\* A put that had returned is not stored after one that was called later, nor before it
\* with something of its flight still to come.
<1>17. OrderInv'
  <2>1. ASSUME NEW q \in Put, NEW p \in earlier[q], NEW g \in Flights, NEW h \in Flights,
               In(p, g), In(q, h)
        PROVE  Precedes(g, h, q)'
    <3>1. Precedes(g, h, q)
      BY <2>1 DEF OrderInv
    <3> SUFFICES ASSUME NEW x \in 1 .. Len(wire'), wire'[x].from = g
                 PROVE  ~Stored(q)' /\ \A y \in 1 .. Len(wire') : wire'[y].from = h => x < y
      BY <3>1 DEF Precedes
    <3>2. x + 1 \in 1 .. Len(wire) /\ wire[x + 1].from = g /\ x \in Nat
      BY <1>0
    <3>3. ~Stored(q) /\ \A y \in 1 .. Len(wire) : wire[y].from = h => x + 1 < y
      BY <3>1, <3>2 DEF Precedes
    <3>4. h # f
      <4>1. ~ x + 1 < 1
        BY <3>2
      <4> QED BY <1>0, <1>1, <3>3, <4>1
    <3>5. ~Stored(q)'
      BY <1>12, <1>13, <2>1, <3>3, <3>4
    <3>6. \A y \in 1 .. Len(wire') : wire'[y].from = h => x < y
      BY <1>0, <3>2, <3>3
    <3> QED BY <3>5, <3>6
  <2>2. \A p : \A g \in Flights : In(p, g)' <=> In(p, g)
    BY <1>6 DEF In, Places
  <2> QED BY <1>6, <2>1, <2>2 DEF OrderInv
<1>18. NoLateOverwrite'
  <2> SUFFICES ASSUME NEW q \in Put, NEW p \in earlier[q],
                      NEW i \in 1 .. Len(log'), NEW j \in 1 .. Len(log'), log'[i] = p, log'[j] = q
               PROVE  i < j
    <3>1. DOMAIN log' = 1 .. Len(log') /\ earlier' = earlier
      BY <1>4
    <3> QED BY <3>1 DEF NoLateOverwrite, StoredAt
  <2>1. CASE i \in 1 .. l /\ j \in 1 .. l
    <3>1. DOMAIN log = 1 .. l
      BY <1>3 DEF TypeOK
    <3>2. log[i] = p /\ log[j] = q
      BY <1>4, <2>1
    <3> QED BY <2>1, <3>1, <3>2 DEF NoLateOverwrite, StoredAt
  <2>2. CASE i \in 1 .. l /\ j \notin 1 .. l
    BY <1>8, <2>2
  <2>3. CASE i \notin 1 .. l
    <3>1. In(p, f)
      BY <1>3, <1>4, <1>8, <2>3 DEF In, Places
    <3>2. \A h \in Flights : In(q, h) => ~Stored(q) /\ h # f
      BY <1>0, <1>1, <3>1 DEF OrderInv, Precedes
    <3>3. CASE j \in 1 .. l
      BY <1>3, <1>4, <3>2, <3>3 DEF StoreInv, Stored
    <3>4. CASE j \notin 1 .. l
      <4>1. In(q, f)
        BY <1>3, <1>4, <1>8, <3>4 DEF In, Places
      <4> QED BY <3>2, <4>1
    <3> QED BY <3>3, <3>4
  <2> QED BY <2>1, <2>2, <2>3
<1> QED BY <1>6, <1>10, <1>11, <1>15, <1>16, <1>17, <1>18

(* Somebody else writes to the bucket. *)
LEMMA OtherWriteKeeps == ASSUME IInv, OtherWrite PROVE IInv'
<1> USE DEF IInv
<1>1. /\ log' = Append(log, Other)
      /\ UNCHANGED <<pc, answers, queue, flusher, batch, flights, wire, staged, atomic, failed, earlier>>
  BY DEF OtherWrite
<1>2. UNCHANGED <<Flights, Batches, MessageType>>
  BY <1>1 DEF Flights, Batches, MessageType
<1>3. PICK l \in Nat : /\ l = Len(log) /\ Len(log') = l + 1 /\ log' \in Seq(Put \cup {Other})
                       /\ log'[l + 1] = Other /\ \A i \in 1 .. l : log'[i] = log[i]
  <2>1. log \in Seq(Put \cup {Other}) /\ Len(log) \in Nat
    BY DEF TypeOK
  <2> QED BY <1>1, <2>1, AppendProperties
<1>4. \A i \in 1 .. Len(log') : i \in 1 .. l \/ i = l + 1
  BY <1>3
<1>5. \A i \in 1 .. l : i \in 1 .. Len(log')
  BY <1>3
<1>6. \A p \in Put : Stored(p)' <=> Stored(p)
  <2>1. \A p \in Put : p # Other
    BY BatcherAssumption
  <2> QED BY <1>3, <1>4, <1>5, <2>1 DEF Stored
<1>7. TypeOK'
  BY <1>1, <1>2, <1>3 DEF TypeOK
<1>8. ASSUME NEW g \in Flights PROVE StoredOK(g)'
  <2>1. StoredOK(g) /\ flights' = flights /\ Batches' = Batches /\ wire' = wire
    BY <1>1, <1>2 DEF StoreInv
  <2>2. Unstored(g) => Unstored(g)'
    BY <1>6, <2>1, Elements DEF Unstored, Places
  <2>3. PICK m \in Nat : m = Len(Batches[g])
    BY FlightNumbers
  <2>4. Whole(g) => Whole(g)'
    <3> SUFFICES ASSUME NEW s \in 0 .. l, s + m <= l, \A i \in 1 .. m : log[s + i] = Batches[g][i]
                 PROVE  Whole(g)'
      BY <1>3, <2>3 DEF Whole, Places
    <3>1. s \in 0 .. Len(log') /\ s + m <= Len(log') /\ \A i \in 1 .. m : s + i \in 1 .. l
      BY <1>3
    <3>2. \A i \in 1 .. m : log'[s + i] = Batches[g][i]
      BY <1>3, <3>1
    <3> QED BY <2>1, <2>3, <3>1, <3>2 DEF Whole, Places
  <2>5. flights[g].ack.status = "ok" =>
          /\ flights[g].ack.rev \in m .. Len(log')
          /\ \A i \in 1 .. m : log'[RevisionOf(flights[g].ack.rev, m, i)] = Batches[g][i]
    <3> SUFFICES ASSUME flights[g].ack.status = "ok"
                 PROVE  /\ flights[g].ack.rev \in m .. Len(log')
                        /\ \A i \in 1 .. m : log'[RevisionOf(flights[g].ack.rev, m, i)] = Batches[g][i]
      OBVIOUS
    <3>1. PICK v \in m .. l : v = flights[g].ack.rev
      BY <1>3, <2>1, <2>3 DEF StoredOK
    <3>2. \A i \in 1 .. m : log[RevisionOf(v, m, i)] = Batches[g][i]
      BY <2>1, <2>3, <3>1 DEF StoredOK, Places
    <3>3. \A i \in 1 .. m : RevisionOf(v, m, i) \in 1 .. l
      BY DEF RevisionOf
    <3>4. v \in m .. Len(log')
      BY <1>3
    <3> QED BY <1>3, <3>1, <3>2, <3>3, <3>4
  <2> QED BY <2>1, <2>2, <2>3, <2>4, <2>5 DEF StoredOK, Places, RevisionOf
<1>9. StoreInv'
  <2>1. \A i \in 1 .. Len(log') : log'[i] \in Put => i \in 1 .. l /\ log'[i] = log[i]
    BY <1>3, <1>4, BatcherAssumption
  <2>2. \A i, j \in 1 .. Len(log') : log'[i] = log'[j] /\ log'[i] \in Put => i = j
    BY <1>3, <2>1 DEF StoreInv
  <2>3. \A i \in 1 .. Len(log') : log'[i] \in Put => \E g \in Flights : In(log'[i], g)
    BY <1>3, <2>1 DEF StoreInv
  <2> QED BY <1>2, <1>8, <2>2, <2>3 DEF StoreInv, In, Places
<1>10. OrderInv'
  <2>1. \A f, g : \A q \in Put : Precedes(f, g, q) => Precedes(f, g, q)'
    BY <1>1, <1>6 DEF Precedes
  <2>2. \A p : \A g \in Flights : In(p, g)' <=> In(p, g)
    BY <1>2 DEF In, Places
  <2> QED BY <1>1, <1>2, <2>1, <2>2 DEF OrderInv
<1>11. NoLateOverwrite'
  <2> SUFFICES ASSUME NEW q \in Put, NEW p \in earlier[q],
                      NEW i \in 1 .. Len(log'), NEW j \in 1 .. Len(log'), log'[i] = p, log'[j] = q
               PROVE  i < j
    <3>1. DOMAIN log' = 1 .. Len(log') /\ earlier' = earlier
      BY <1>1, <1>3
    <3> QED BY <3>1 DEF NoLateOverwrite, StoredAt
  <2>1. p # Other /\ q # Other
    BY BatcherAssumption DEF TypeOK
  <2>2. i \in 1 .. l /\ j \in 1 .. l /\ log[i] = p /\ log[j] = q
    BY <1>3, <1>4, <2>1
  <2>3. DOMAIN log = 1 .. l
    BY <1>3 DEF TypeOK
  <2> QED BY <2>2, <2>3 DEF NoLateOverwrite, StoredAt
<1>12. /\ PlaceInv' /\ CallerInv' /\ FlightInv' /\ AnswerInv' /\ FlusherInv' /\ WireInv'
       /\ StageInv' /\ HonestInv'
  BY <1>1, <1>2, PlaceFrame, CallerFrame, FlightFrame, AnswerFrame, WireFrame, StageFrame,
     HonestFrame DEF FlusherInv
<1> QED BY <1>7, <1>9, <1>10, <1>11, <1>12

\* Whatever the stream does with the first message of the wire keeps the invariant.
LEMMA StreamKeeps == ASSUME IInv, Stream PROVE IInv'
<1>1. /\ wire # << >> /\ wire' = Tail(wire)
      /\ UNCHANGED <<pc, answers, queue, flusher, batch, atomic, failed, earlier>>
      /\ StreamStores(wire[1]) \/ StreamStages(wire[1]) \/ StreamRefuses(wire[1])
  <2>1. wire # << >> /\ wire' = Tail(wire) /\ UNCHANGED <<pc, answers, queue, flusher, batch, atomic, failed, earlier>>
    BY DEF Stream
  <2>2. Head(wire) = wire[1]
    BY <2>1, WireTail DEF IInv
  <2> QED BY <2>1, <2>2 DEF Stream
<1> QED BY <1>1, StoreKeeps, StageKeeps, RefuseKeeps

-----------------------------------------------------------------------------
\* Every step keeps the invariant.
LEMMA IInvStep == IInv /\ [Next]_vars => IInv'
<1> SUFFICES ASSUME IInv, [Next]_vars PROVE IInv'
  OBVIOUS
<1>1. ASSUME NEW p \in Put, Caller(p) PROVE IInv'
  BY <1>1, EnterKeeps, EnqueueKeeps, ReceiveKeeps DEF Caller
<1>2. ASSUME FlushLoop PROVE IInv'
  BY <1>2, TakeKeeps, WindowEndsKeeps, LaunchKeeps DEF FlushLoop
<1>3. ASSUME NEW f \in DOMAIN flights, Flush(f) \/ Abandon(f) PROVE IInv'
  <2>1. f \in Flights
    BY DEF IInv, TypeOK, Flights
  <2> QED BY <1>3, <2>1, PublishKeeps, OutcomeKeeps, RespondKeeps, AbandonKeeps DEF Flush
<1>4. ASSUME Stream \/ Lose \/ OtherWrite PROVE IInv'
  BY <1>4, StreamKeeps, LoseKeeps, OtherWriteKeeps
<1>5. ASSUME UNCHANGED vars PROVE IInv'
  <2>1. /\ UNCHANGED <<pc, answers, queue, flusher, batch, flights, wire, staged, log, atomic, failed, earlier>>
    BY <1>5 DEF vars
  <2>2. UNCHANGED <<Flights, Batches, MessageType>>
    BY <2>1 DEF Flights, Batches, MessageType
  <2>3. TypeOK' /\ FlusherInv'
    BY <2>1, <2>2 DEF IInv, TypeOK, FlusherInv
  <2> QED BY <2>1, <2>2, <2>3, PlaceFrame, CallerFrame, FlightFrame, AnswerFrame, WireFrame,
             StageFrame, StoreFrame, HonestFrame, OrderFrame, OverwriteFrame DEF IInv
<1> QED BY <1>1, <1>2, <1>3, <1>4, <1>5 DEF Next

(* The invariant holds in every behaviour. *)
THEOREM IInvAlways == Spec => []IInv
BY IInvInit, IInvStep, PTL DEF Spec

(* Batches and queue stay within their bounds, and what is on the wire or staged belongs
   to a flush. *)
THEOREM BatcherTypeCorrect == Spec => []TypeOK
<1>1. IInv => TypeOK
  BY DEF IInv
<1> QED BY <1>1, IInvAlways, PTL

(* A batch is stored as a whole, in queue order and without a gap, or not at all, however
   batches interleave on the connection and whatever fails: a flight of which one put is
   stored is not Unstored, so it is Whole. *)
LEMMA WholeOrNot == IInv => BatchesAreAtomic
<1> USE DEF IInv
<1> SUFFICES ASSUME IInv, NEW f \in Flights,
                    \E i \in DOMAIN flights[f].puts : StoredAt(flights[f].puts[i]) # {}
             PROVE  \E s \in 0 .. Len(log) - Len(flights[f].puts) :
                       SubSeq(log, s + 1, s + Len(flights[f].puts)) = flights[f].puts
  <2>1. IInv => DOMAIN flights = Flights
    BY DEF TypeOK, Flights
  <2> HIDE DEF IInv
  <2> QED BY <2>1 DEF BatchesAreAtomic
<1>1. PICK b \in Seq(Put), n \in Nat, l \in Nat : b = flights[f].puts /\ n = Len(b) /\ l = Len(log)
  <2>1. flights[f].puts \in Seq(Put) /\ Len(flights[f].puts) \in Nat
    BY FlightNumbers, Elements
  <2>2. Len(log) \in Nat
    BY DEF TypeOK
  <2> QED BY <2>1, <2>2
<1>2. b = Batches[f] /\ DOMAIN b = 1 .. n /\ DOMAIN log = 1 .. l
  BY <1>1, FlightNumbers DEF TypeOK
<1>3. ~Unstored(f)
  BY <1>1, <1>2 DEF StoredAt, Unstored, Stored, Places
<1>4. PICK s \in 0 .. l : s + n <= l /\ \A i \in 1 .. n : log[s + i] = b[i]
  BY <1>1, <1>2, <1>3 DEF StoreInv, StoredOK, Whole, Places
<1>5. \A i \in 1 .. n : b[i] \in Put
  BY <1>1, ElementOfSeq
<1>6. \A i \in s + 1 .. s + n : log[i] \in Put
  <2>1. \A i \in s + 1 .. s + n : i - s \in 1 .. n /\ i = s + (i - s)
    OBVIOUS
  <2> QED BY <1>4, <1>5, <2>1
<1>7. /\ SubSeq(log, s + 1, s + n) \in Seq(Put) /\ Len(SubSeq(log, s + 1, s + n)) = n
      /\ \A i \in 1 .. n : SubSeq(log, s + 1, s + n)[i] = b[i]
  <2>1. s + 1 \in Int /\ s + n \in Int /\ (s + n) - (s + 1) + 1 = n /\ (s + 1 <= s + n <=> n # 0)
    OBVIOUS
  <2>2. \A i \in 1 .. n : (s + 1) + i - 1 = s + i
    OBVIOUS
  <2>3. /\ SubSeq(log, s + 1, s + n) \in Seq(Put)
        /\ Len(SubSeq(log, s + 1, s + n)) = IF s + 1 <= s + n THEN (s + n) - (s + 1) + 1 ELSE 0
        /\ \A i \in 1 .. (s + n) - (s + 1) + 1 : SubSeq(log, s + 1, s + n)[i] = log[(s + 1) + i - 1]
    BY <1>6, <2>1, SubSeqProperties
  <2>4. Len(SubSeq(log, s + 1, s + n)) = n
    BY <2>1, <2>3
  <2>5. \A i \in 1 .. n : SubSeq(log, s + 1, s + n)[i] = b[i]
    BY <1>4, <2>1, <2>2, <2>3
  <2> QED BY <2>3, <2>4, <2>5
<1>8. SubSeq(log, s + 1, s + n) = b
  BY <1>1, <1>7, SeqEqual
<1>9. s \in 0 .. l - n
  BY <1>4
<1> QED BY <1>1, <1>8, <1>9

(* A batch is stored whole, in order and without a gap, or not at all, for any number
   of puts and flushes and any batch size. *)
THEOREM BatchesStayAtomic == Spec => []BatchesAreAtomic
BY IInvAlways, WholeOrNot, PTL

(* An error is an error: while nothing has failed a put that gets one is in a batch that
   the stream refused, of which nothing is stored, and the stream takes no batches. *)
LEMMA ErrorsMeanUnstored == IInv => ErrorsAreHonest
<1> USE DEF IInv
<1> SUFFICES ASSUME IInv, ~failed, NEW p \in Put, answers[p] # << >>, ~answers[p][1].ok
             PROVE  ~atomic /\ StoredAt(p) = {}
  BY Zenon DEF ErrorsAreHonest
<1>1. PICK f \in Flights : In(p, f)
  BY DEF AnswerInv
<1>2. PICK i \in Places(f) : Batches[f][i] = p
  BY <1>1 DEF In
<1>3. answers[p] = <<ResultOf(flights[f], i)>> /\ i <= flights[f].told
  BY <1>2 DEF AnswerInv, AnswersOK
<1>4. flights[f].ack.status # "ok"
  <2> SUFFICES ASSUME flights[f].ack.status = "ok" PROVE FALSE
    OBVIOUS
  <2>1. answers[p][1] = Ok(RevisionOf(flights[f].ack.rev, Len(flights[f].puts), i))
    BY <1>3 DEF ResultOf
  <2> QED BY <2>1 DEF Ok
<1>5. flights[f].told # 0
  BY <1>3 DEF Places
<1>6. flights[f].at \in {"fail", "done"}
  <2>1. flights[f] \in FlightType /\ FlightOK(flights[f])
    BY FlightNumbers
  <2>2. flights[f].at \notin {"publish", "ack"} /\ flights[f].at # "reply"
    BY <1>4, <1>5, <2>1 DEF FlightOK
  <2> QED BY <2>1, <2>2 DEF FlightType
<1>7. flights[f].ack.status = "error"
  <2>1. flights[f].ack.status # "none"
    BY <1>6 DEF HonestInv, HonestOK
  <2>2. flights[f].ack \in AckType
    BY FlightNumbers DEF FlightType
  <2> QED BY <1>4, <2>1, <2>2 DEF AckType
<1>8. ~atomic
  BY <1>7, Zenon DEF HonestInv, HonestOK
<1>9. ~Stored(p)
  BY <1>2, <1>7 DEF StoreInv, StoredOK, Unstored
<1>10. StoredAt(p) = {}
  BY <1>9 DEF StoredAt, Stored, TypeOK
<1> QED BY <1>8, <1>10

(* While nothing has failed only streams without allow_atomic answer with an error,
   and what they refuse is not stored. *)
THEOREM ErrorsStayHonest == Spec => []ErrorsAreHonest
BY IInvAlways, ErrorsMeanUnstored, PTL

(* A put that had returned before another one was called is never stored after it. *)
THEOREM NothingOverwritesLate == Spec => []NoLateOverwrite
<1>1. IInv => NoLateOverwrite
  BY DEF IInv
<1> QED BY <1>1, IInvAlways, PTL

-----------------------------------------------------------------------------
(* The refinement: what the batcher does is what kvPut promises. *)

(* Enter is a Call, and the other steps of a caller stutter. *)
LEMMA CallerRefines ==
  ASSUME IInv, NEW p \in Put, Caller(p)
  PROVE  Service!PutNext \/ UNCHANGED Service!putVars
<1>0. pc \in [Put -> {"idle", "send", "wait", "done"}]
  BY DEF IInv, TypeOK
<1>1. CASE Enter(p)
  <2>1. /\ p \notin {q \in Put : pc[q] # "idle"} /\ UNCHANGED <<log, answers>>
        /\ {q \in Put : pc'[q] # "idle"} = {q \in Put : pc[q] # "idle"} \cup {p}
    BY <1>0, <1>1 DEF Enter
  <2> QED BY <2>1 DEF Service!Call, Service!PutNext
<1>2. CASE Enqueue(p) \/ Receive(p)
  <2>1. /\ UNCHANGED <<log, answers>>
        /\ {q \in Put : pc'[q] # "idle"} = {q \in Put : pc[q] # "idle"}
    BY <1>0, <1>2 DEF Enqueue, Receive
  <2> QED BY <2>1 DEF Service!putVars
<1> QED BY <1>1, <1>2 DEF Caller

(* Respond is a Return: the put has no answer yet, and a success names its revision. *)
LEMMA RespondRefines ==
  ASSUME IInv, NEW f \in Flights, Respond(f)
  PROVE  Service!PutNext
<1> USE DEF IInv
<1>0. /\ flights[f] \in FlightType /\ FlightOK(flights[f]) /\ Batches[f] = flights[f].puts
      /\ flights[f].at \in {"reply", "fail"} /\ Len(Batches[f]) \in Nat
  BY FlightNumbers DEF Respond
<1>1. PICK b \in Seq(Put) : b = Batches[f]
  BY Elements
<1>2. PICK i \in Nat : i = flights[f].told + 1 /\ i \in Places(f) /\ ~ i <= flights[f].told /\ i \in 1 .. Len(b)
  <2>1. flights[f].told \in Nat /\ flights[f].told < Len(b)
    BY <1>0, <1>1 DEF FlightOK, FlightType
  <2> QED BY <1>0, <1>1, <2>1 DEF Places
<1>3. PICK p \in Put : p = b[i]
  BY <1>2, ElementOfSeq
<1>4. answers[p] = << >>
  BY <1>1, <1>2, <1>3 DEF AnswerInv, AnswersOK
<1>5. PICK r : /\ r = IF flights[f].at = "reply" THEN Ok(RevisionOf(flights[f].ack.rev, Len(b), i)) ELSE Error
               /\ answers' = [answers EXCEPT ![p] = Append(@, r)]
  BY <1>0, <1>1, <1>2, <1>3, Zenon DEF Respond
<1>6. answers' = [answers EXCEPT ![p] = <<r>>]
  <2>1. Append(<< >>, r) = <<r>>
    OBVIOUS
  <2> QED BY <1>4, <1>5, <2>1
<1>7. pc[p] # "idle" /\ UNCHANGED <<pc, log>>
  BY <1>1, <1>2, <1>3 DEF CallerInv, Respond
<1>8. CASE flights[f].at = "reply"
  <2>1. flights[f].ack.status = "ok"
    BY <1>0, <1>8 DEF FlightOK
  <2>2. PICK n \in Nat, l \in Nat : n = Len(b) /\ l = Len(log)
    BY <1>0, <1>1 DEF TypeOK
  <2>3. PICK v \in n .. l : v = flights[f].ack.rev
    BY <1>1, <2>1, <2>2 DEF StoreInv, StoredOK
  <2>4. log[RevisionOf(v, n, i)] = p
    BY <1>1, <1>2, <1>3, <2>1, <2>2, <2>3 DEF StoreInv, StoredOK
  <2>5. RevisionOf(v, n, i) \in DOMAIN log
    <3>1. RevisionOf(v, n, i) \in 1 .. l
      BY <1>2, <2>2 DEF RevisionOf
    <3> QED BY <2>2, <3>1 DEF TypeOK
  <2>6. r = Service!Ok(RevisionOf(v, n, i))
    BY <1>5, <1>8, <2>2, <2>3 DEF Ok, Service!Ok
  <2> QED BY <1>4, <1>6, <1>7, <2>4, <2>5, <2>6 DEF Service!Return, Service!PutNext
<1>9. CASE flights[f].at # "reply"
  <2>1. r = Service!Error
    BY <1>5, <1>9 DEF Error, Service!Error
  <2> QED BY <1>4, <1>6, <1>7, <2>1 DEF Service!Return, Service!PutNext
<1> QED BY <1>8, <1>9

(* What the stream stores is a Commit: puts that were called, each for the first time. *)
LEMMA StreamRefines ==
  ASSUME IInv, Stream
  PROVE  Service!PutNext \/ UNCHANGED Service!putVars
<1> USE DEF IInv
<1>1. wire # << >> /\ Head(wire) = wire[1] /\ 1 \in 1 .. Len(wire) /\ UNCHANGED <<pc, answers>>
  BY WireTail DEF Stream
<1>2. PICK f \in Flights : f = wire[1].from
  BY <1>1, MessageShape
<1>3. CASE StreamStores(wire[1])
  <2>1. PICK b \in Seq(Put), n \in Nat, l \in Nat : b = Batches[f] /\ n = Len(b) /\ l = Len(log) /\ n # 0
    <3>1. Batches[f] \in Seq(Put)
      BY Elements
    <3>2. Len(Batches[f]) \in Nat /\ Len(Batches[f]) # 0
      BY FlightNumbers
    <3>3. Len(log) \in Nat
      BY DEF TypeOK
    <3> QED BY <3>1, <3>2, <3>3
  <2>2. /\ log' \in Seq(Put \cup {Other}) /\ Len(log') = l + n
        /\ \A i \in 1 .. l : log'[i] = log[i]
        /\ \A i \in 1 .. n : log'[l + i] = b[i]
    BY <1>1, <1>2, <1>3, <2>1, StoresWhole DEF Places
  <2>3. SubSeq(log', 1, l) = log
    <3>1. log \in Seq(Put \cup {Other}) /\ \A i \in 1 .. l : log[i] \in Put \cup {Other}
      BY <2>1, ElementOfSeq DEF TypeOK
    <3>2. 1 \in Int /\ l \in Int /\ \A i \in 1 .. l : log'[i] \in Put \cup {Other}
      BY <2>2, <3>1
    <3>3. /\ SubSeq(log', 1, l) \in Seq(Put \cup {Other})
          /\ Len(SubSeq(log', 1, l)) = IF 1 <= l THEN l - 1 + 1 ELSE 0
          /\ \A i \in 1 .. l - 1 + 1 : SubSeq(log', 1, l)[i] = log'[1 + i - 1]
      BY <3>2, SubSeqProperties
    <3>4. /\ Len(SubSeq(log', 1, l)) = l /\ \A i \in 1 .. l : SubSeq(log', 1, l)[i] = log[i]
      <4>1. l - 1 + 1 = l /\ (1 <= l \/ l = 0) /\ \A i \in 1 .. l : 1 + i - 1 = i
        OBVIOUS
      <4> QED BY <2>2, <3>3, <4>1
    <3> QED BY <2>1, <3>1, <3>3, <3>4, SeqEqual
  <2>4. /\ IsInjective(b) /\ DOMAIN b = 1 .. n /\ Unstored(f)
        /\ \A i \in 1 .. n : b[i] \in Put /\ pc[b[i]] # "idle"
    <3>1. Unstored(f)
      BY <1>1, <1>2, <1>3, Zenon DEF StoreInv, StoredOK, Final, StreamStores
    <3>2. IsInjective(b) /\ DOMAIN b = 1 .. n
      BY <2>1 DEF PlaceInv
    <3>3. \A i \in 1 .. n : b[i] \in Put
      BY <2>1, ElementOfSeq
    <3>4. \A i \in 1 .. n : pc[b[i]] # "idle"
      BY <2>1 DEF CallerInv, Places
    <3> QED BY <3>1, <3>2, <3>3, <3>4
  <2>5. \A i \in 1 .. n : b[i] \notin Service!StoredPuts
    BY <2>1, <2>4 DEF Unstored, Stored, Places, Service!StoredPuts, TypeOK
  <2>6. ASSUME NEW i \in l + 1 .. l + n
        PROVE  /\ log'[i] \in {q \in Put : pc[q] # "idle"} \ Service!StoredPuts
               /\ \A j \in l + 1 .. i - 1 : log'[j] # log'[i]
    <3>1. i - l \in 1 .. n /\ log'[i] = b[i - l]
      <4>1. i - l \in 1 .. n /\ l + (i - l) = i
        OBVIOUS
      <4> QED BY <2>2, <4>1
    <3>2. ASSUME NEW j \in l + 1 .. i - 1 PROVE log'[j] # log'[i]
      <4>1. j - l \in 1 .. n /\ l + (j - l) = j /\ j - l # i - l
        OBVIOUS
      <4>2. log'[j] = b[j - l]
        BY <2>2, <4>1
      <4> QED BY <2>4, <3>1, <4>1, <4>2 DEF IsInjective
    <3> QED BY <2>4, <2>5, <3>1, <3>2
  <2>7. Len(log') > l
    BY <2>1, <2>2
  <2> QED BY <1>1, <2>1, <2>2, <2>3, <2>6, <2>7 DEF Service!Commit, Service!PutNext
<1>4. CASE StreamStages(wire[1]) \/ StreamRefuses(wire[1])
  BY <1>1, <1>4 DEF StreamStages, StreamRefuses, Service!putVars
<1> QED BY <1>1, <1>3, <1>4 DEF Stream

(* So is the write of another one. *)
LEMMA OtherWriteRefines == ASSUME IInv, OtherWrite PROVE Service!PutNext
<1>1. log \in Seq(Put \cup {Other}) /\ log' = Append(log, Other) /\ UNCHANGED <<pc, answers>>
  BY DEF OtherWrite, IInv, TypeOK
<1>2. PICK l \in Nat : /\ l = Len(log) /\ Len(log') = l + 1 /\ log'[l + 1] = Other
                       /\ \A i \in 1 .. l : log'[i] = log[i] /\ log[i] \in Put \cup {Other}
  BY <1>1, AppendProperties, ElementOfSeq
<1>3. SubSeq(log', 1, l) = log
  <2>1. /\ SubSeq(log', 1, l) \in Seq(Put \cup {Other})
        /\ Len(SubSeq(log', 1, l)) = IF 1 <= l THEN l - 1 + 1 ELSE 0
        /\ \A i \in 1 .. l - 1 + 1 : SubSeq(log', 1, l)[i] = log'[1 + i - 1]
    <3>1. 1 \in Int /\ l \in Int /\ \A i \in 1 .. l : log'[i] \in Put \cup {Other}
      BY <1>2
    <3> QED BY <3>1, SubSeqProperties
  <2>2. l - 1 + 1 = l /\ (1 <= l \/ l = 0) /\ \A i \in 1 .. l : 1 + i - 1 = i
    OBVIOUS
  <2>3. /\ Len(SubSeq(log', 1, l)) = l /\ \A i \in 1 .. l : SubSeq(log', 1, l)[i] = log[i]
    BY <1>2, <2>1, <2>2
  <2> QED BY <1>1, <1>2, <2>1, <2>3, SeqEqual
<1>4. Len(log') > l /\ \A i \in l + 1 .. Len(log') : log'[i] = Other
  BY <1>2
<1> QED BY <1>1, <1>2, <1>3, <1>4 DEF Service!Commit, Service!PutNext

(* A batched put keeps kv.Put's promise, with and without allow_atomic, and with failures. *)
THEOREM BatchedPutIsPut == Spec => ImplementsPut
<1>1. Init => Service!PutInit
  BY DEF Init, Service!PutInit
<1>2. IInv /\ [Next]_vars => [Service!PutNext]_(Service!putVars)
  <2> SUFFICES ASSUME IInv, [Next]_vars PROVE Service!PutNext \/ UNCHANGED Service!putVars
    OBVIOUS
  <2>1. ASSUME NEW p \in Put, Caller(p) PROVE Service!PutNext \/ UNCHANGED Service!putVars
    BY <2>1, CallerRefines
  <2>2. ASSUME FlushLoop PROVE UNCHANGED Service!putVars
    BY <2>2 DEF FlushLoop, Take, WindowEnds, Launch, Service!putVars
  <2>3. ASSUME NEW f \in DOMAIN flights, Respond(f) PROVE Service!PutNext
    <3>1. f \in Flights
      BY DEF IInv, TypeOK, Flights
    <3> QED BY <2>3, <3>1, RespondRefines
  <2>4. ASSUME NEW f \in DOMAIN flights, Publish(f) \/ FlushFails(f) \/ FlushAcked(f) \/ Abandon(f)
        PROVE  UNCHANGED Service!putVars
    <3>1. UNCHANGED <<pc, log, answers>>
      BY <2>4, Zenon DEF Publish, FlushFails, FlushAcked, Abandon
    <3> QED BY <3>1 DEF Service!putVars
  <2>5. ASSUME Stream PROVE Service!PutNext \/ UNCHANGED Service!putVars
    BY <2>5, StreamRefines
  <2>6. ASSUME Lose \/ UNCHANGED vars PROVE UNCHANGED Service!putVars
    BY <2>6 DEF Lose, vars, Service!putVars
  <2>7. ASSUME OtherWrite PROVE Service!PutNext
    BY <2>7, OtherWriteRefines
  <2> QED BY <2>1, <2>2, <2>3, <2>4, <2>5, <2>6, <2>7 DEF Next, Flush
<1> QED BY <1>1, <1>2, IInvAlways, PTL DEF Spec, ImplementsPut, Service!PutSpec
=============================================================================
