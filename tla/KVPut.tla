-------------------------------- MODULE KVPut --------------------------------
(***************************************************************************)
(* What kvPut promises the callers of a plain PUT, however the adapter     *)
(* writes it (kv.Put, or batcher.put of src/internal/adapter/batch.go):    *)
(* a put is stored at most once, after it was called; it is answered once; *)
(* and a success names the revision that holds it.  An error promises      *)
(* nothing: the put may be stored before it, after it or never.            *)
(***************************************************************************)
EXTENDS Naturals, Sequences

CONSTANTS
    Put,        \* the puts, each one call with its own value
    Other       \* what somebody else's write leaves in the stream; not a put

VARIABLES
    log,        \* the stream: a sequence of puts and Others
    called,     \* the puts that have been called
    answers     \* per put: the results returned to it, in order

putVars == <<log, called, answers>>

Ok(i) == [ok |-> TRUE, rev |-> i]
Error == [ok |-> FALSE, rev |-> 0]

StoredPuts == {log[i] : i \in DOMAIN log}

PutInit ==
    /\ log = << >>
    /\ called = {}
    /\ answers = [p \in Put |-> << >>]

Call(p) ==
    /\ p \notin called
    /\ called' = called \cup {p}
    /\ UNCHANGED <<log, answers>>

\* One or more puts are stored, each for the first time.
Commit ==
    /\ Len(log') > Len(log)
    /\ SubSeq(log', 1, Len(log)) = log
    /\ \A i \in Len(log) + 1 .. Len(log') :
        \/ log'[i] = Other
        \/ /\ log'[i] \in called \ StoredPuts
           /\ \A j \in Len(log) + 1 .. i - 1 : log'[j] # log'[i]
    /\ UNCHANGED <<called, answers>>

Return(p) ==
    /\ p \in called
    /\ answers[p] = << >>
    /\ \/ \E i \in DOMAIN log : log[i] = p /\ answers' = [answers EXCEPT ![p] = <<Ok(i)>>]
       \/ answers' = [answers EXCEPT ![p] = <<Error>>]
    /\ UNCHANGED <<log, called>>

PutNext == (\E p \in Put : Call(p) \/ Return(p)) \/ Commit

PutSpec == PutInit /\ [][PutNext]_putVars
=============================================================================
