------------------------------- MODULE LoadTest -------------------------------
(***************************************************************************)
(* The load-test page of the user app (ui/nats-kv-user/src/lib.rs, the     *)
(* script of LOADTEST_HTML): workers fetch one operation after the other   *)
(* until the deadline or until Stop, a ticker reports, and when the last   *)
(* worker is through the run is summed up.  The script is single-threaded: *)
(* a step is what runs between two awaits.                                 *)
(***************************************************************************)
EXTENDS Integers, FiniteSets

CONSTANTS
    Worker,     \* the most workers a run can have
    MaxOps      \* bound: operations started in one run

ASSUME LoadTestAssumption == IsFiniteSet(Worker) /\ MaxOps \in Nat

VARIABLES
    running, stopRequested,
    over,           \* the deadline has passed
    direct,         \* does the run talk to the adapter itself, not through the app
    at,             \* [Worker -> "off", "fetch" or "body": what it awaits]
    opCounter, total, errs,
    tickOps,        \* Len(tickLats)
    lastTickTotal,
    thrown          \* history: operations that ended in an exception

loadVars == <<running, stopRequested, over, direct, at, opCounter, total, errs,
              tickOps, lastTickTotal, thrown>>

Flying == {w \in Worker : at[w] # "off"}
-----------------------------------------------------------------------------
LoadInit ==
    /\ running = FALSE /\ stopRequested = FALSE /\ over = FALSE /\ direct = FALSE
    /\ at = [w \in Worker |-> "off"]
    /\ opCounter = 0 /\ total = 0 /\ errs = 0 /\ tickOps = 0 /\ lastTickTotal = 0 /\ thrown = 0

\* runLoad, up to its first await: each worker sends its first operation at once.  With
\* a concurrency or a duration that is no number, nobody sends anything.
RunLoad(W) ==
    /\ ~running
    /\ running' = TRUE /\ stopRequested' = FALSE /\ over' = FALSE
    /\ direct' \in BOOLEAN
    /\ at' = [w \in Worker |-> IF w \in W THEN "fetch" ELSE "off"]
    /\ opCounter' = Cardinality(W) /\ Cardinality(W) <= MaxOps
    /\ total' = 0 /\ errs' = 0 /\ tickOps' = 0 /\ lastTickTotal' = 0 /\ thrown' = 0

\* The head of the loop: the next operation, or the end of the worker.
Loop(w) ==
    IF over \/ stopRequested
    THEN at' = [at EXCEPT ![w] = "off"] /\ UNCHANGED opCounter
    ELSE /\ opCounter < MaxOps
         /\ at' = [at EXCEPT ![w] = "fetch"] /\ opCounter' = opCounter + 1

\* The headers are there; a bad status of the adapter counts before the body is read,
\* the one in the app's envelope after it.
Answered(w, bad) ==
    /\ at[w] = "fetch"
    /\ at' = [at EXCEPT ![w] = "body"]
    /\ errs' = IF direct /\ bad THEN errs + 1 ELSE errs
    /\ UNCHANGED <<running, stopRequested, over, direct, opCounter, total, tickOps,
                   lastTickTotal, thrown>>

\* The body is there: the operation counts, whatever its status.
Finished(w, bad) ==
    /\ at[w] = "body"
    /\ errs' = IF ~direct /\ bad THEN errs + 1 ELSE errs
    /\ total' = total + 1 /\ tickOps' = tickOps + 1
    /\ Loop(w)
    /\ UNCHANGED <<running, stopRequested, over, direct, lastTickTotal, thrown>>

\* The network fails, or the answer of the app is no JSON.
Throws(w) ==
    /\ at[w] # "off"
    /\ errs' = errs + 1 /\ thrown' = thrown + 1
    /\ Loop(w)
    /\ UNCHANGED <<running, stopRequested, over, direct, total, tickOps, lastTickTotal>>

\* Every 500 ms: the rate is that of the operations since the last tick.
Tick ==
    /\ running
    /\ tickOps' = 0 /\ lastTickTotal' = total
    /\ UNCHANGED <<running, stopRequested, over, direct, at, opCounter, total, errs, thrown>>

StopLoad ==
    /\ running
    /\ stopRequested' = TRUE
    /\ UNCHANGED <<running, over, direct, at, opCounter, total, errs, tickOps, lastTickTotal,
                   thrown>>

Deadline ==
    /\ running /\ ~over
    /\ over' = TRUE
    /\ UNCHANGED <<running, stopRequested, direct, at, opCounter, total, errs, tickOps,
                   lastTickTotal, thrown>>

\* Mutant of RunEnds: the run ends with the first worker.
RunEndsFirst ==
    /\ running /\ Flying # Worker
    /\ running' = FALSE
    /\ UNCHANGED <<stopRequested, over, direct, at, opCounter, total, errs, tickOps,
                   lastTickTotal, thrown>>

\* Promise.all: every worker is through; the sum of the run, and the button is back.
RunEnds ==
    /\ running /\ Flying = {}
    /\ running' = FALSE
    /\ UNCHANGED <<stopRequested, over, direct, at, opCounter, total, errs, tickOps,
                   lastTickTotal, thrown>>

WorkerStep(w) ==
    (\E bad \in BOOLEAN : Answered(w, bad) \/ Finished(w, bad)) \/ Throws(w)

LoadNext ==
    \/ \E W \in SUBSET Worker : RunLoad(W)
    \/ \E w \in Worker : WorkerStep(w)
    \/ Tick \/ StopLoad \/ Deadline \/ RunEnds

LoadSpec == LoadInit /\ [][LoadNext]_loadVars
-----------------------------------------------------------------------------
(* The counters of a run never go below zero, and no tick has reported more than the total. *)
LoadTypeOK ==
    /\ running \in BOOLEAN /\ stopRequested \in BOOLEAN /\ over \in BOOLEAN /\ direct \in BOOLEAN
    /\ at \in [Worker -> {"off", "fetch", "body"}]
    /\ opCounter \in Nat /\ total \in Nat /\ errs \in Nat
    /\ tickOps \in Nat /\ lastTickTotal \in 0 .. total /\ thrown \in Nat

(* Every operation started is in flight, in the total, or an exception: none is counted
   twice and none is forgotten, however the workers interleave. *)
OpsAddUp == opCounter = total + thrown + Cardinality(Flying)

(* The rate of a tick is made of exactly the operations that the total gained. *)
TicksAddUp == tickOps = total - lastTickTotal

(* Through the app, no operation is more than one error. *)
ErrorsAreOps == ~direct => errs <= total + thrown

(* A run owns its workers: none outlives it, into the next run. *)
NoWorkerOutlives == ~running => Flying = {}

(* A run accounts for what it did, however its workers interleave, fail and are stopped:
   no operation is lost or counted twice, the ticks add up to the total, and no worker
   of an earlier run is left to count for this one. *)
RunIsAccounted == OpsAddUp /\ TicksAddUp /\ ErrorsAreOps /\ NoWorkerOutlives

(* After Stop or the deadline no operation is started. *)
StopIsFinal ==
    [][running /\ running' /\ (stopRequested \/ over) => opCounter' = opCounter]_loadVars

(* A run ends: the deadline gets the button back, whatever the workers are waiting for. *)
RunStops == running ~> ~running
=============================================================================
