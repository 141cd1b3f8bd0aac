------------------------------ MODULE BucketList ------------------------------
(***************************************************************************)
(* Buckets on the dashboard (ui/nats-kv-user/src/lib.rs, createBucket and  *)
(* loadBuckets in the script of DASH_HTML).  Both await their calls while  *)
(* other handlers run; answers come in any order, or never make it.  What  *)
(* the control plane does for a create is in Buckets; here it stores the   *)
(* bucket at some time, or it does not.                                    *)
(***************************************************************************)
EXTENDS Naturals, FiniteSets

CONSTANTS
    Bucket,     \* names of buckets
    MaxLoads    \* bound: bucket lists being loaded at a time

ASSUME BucketListAssumption == MaxLoads \in Nat \ {0}

VARIABLES
    creating,   \* is createBucket under way, and the button disabled
    name,       \* the bucket it creates, or created last
    asked,      \* creations that the control plane has not decided
    buckets,    \* the tenant's buckets at the control plane
    loads,      \* the lists being loaded: at is "sent", "listed" or "demo"
    table,      \* the buckets listed
    created,    \* the buckets that the page said were created
    crossed     \* history: has a load failed or overlapped, and none run alone since

createVars == <<creating, name, asked, buckets, created>>
listVars == <<loads, table, crossed>>
bucketVars == <<createVars, listVars>>
-----------------------------------------------------------------------------
\* loadBuckets, up to its first await; the caller has the rest of the step.
LoadBuckets ==
    /\ Cardinality(loads) < MaxLoads
    /\ \E i \in 1 .. MaxLoads :
        /\ \A l \in loads : l.id # i
        /\ loads' = loads \cup {[id |-> i, at |-> "sent", rows |-> {}]}
    /\ crossed' = (loads # {})
    /\ UNCHANGED table

Refresh == LoadBuckets /\ UNCHANGED createVars

\* The control plane answers GET /v1/me/buckets with what it has now.
Listed(l) ==
    /\ l.at = "sent"
    /\ loads' = (loads \ {l}) \cup {[l EXCEPT !.at = "listed", !.rows = buckets]}
    /\ UNCHANGED <<table, crossed, createVars>>

\* The answer arrives; the shared demo bucket is looked up next ...
ListArrives(l) ==
    /\ l.at = "listed"
    /\ loads' = (loads \ {l}) \cup {[l EXCEPT !.at = "demo"]}
    /\ UNCHANGED <<table, crossed, createVars>>

\* ... which may fail: the tenant's own buckets are shown all the same.
ShowList(l) ==
    /\ l.at = "demo"
    /\ loads' = loads \ {l}
    /\ table' = l.rows
    /\ UNCHANGED <<crossed, createVars>>

\* The call fails: a status is shown in place of the list, an exception leaves it.
LoadFails(l) ==
    /\ l.at \in {"sent", "listed"}
    /\ loads' = loads \ {l}
    /\ table' \in {table, {}}
    /\ crossed' = TRUE
    /\ UNCHANGED createVars

-----------------------------------------------------------------------------
\* createBucket, up to its await; with the button disabled it returns.
CreateBucket(b) ==
    /\ ~creating
    /\ creating' = TRUE /\ name' = b /\ asked' = asked \cup {b}
    /\ UNCHANGED <<buckets, created, listVars>>

\* The control plane provisions the bucket, or refuses to, also after the page gave up.
Decided(b) ==
    /\ b \in asked
    /\ asked' = asked \ {b}
    /\ buckets' \in {buckets, buckets \cup {b}}
    /\ UNCHANGED <<creating, name, created, listVars>>

\* Mutant: the list is not loaded again.

CreateAnsweredOnly ==
    /\ creating /\ name \in buckets \ asked
    /\ creating' = FALSE
    /\ created' = created \cup {name}
    /\ UNCHANGED <<name, asked, buckets, listVars>>

\* It was created: said, and the list is loaded again.
CreateAnswered ==
    /\ creating /\ name \in buckets \ asked
    /\ creating' = FALSE
    /\ created' = created \cup {name}
    /\ LoadBuckets
    /\ UNCHANGED <<name, asked, buckets>>

\* It was refused, or the call failed: the button is back.
CreateFails ==
    /\ creating
    /\ creating' = FALSE
    /\ UNCHANGED <<name, asked, buckets, created, listVars>>

-----------------------------------------------------------------------------
\* The page loads, and with it the list.
BucketsInit ==
    /\ creating = FALSE /\ name \in Bucket /\ asked = {}
    /\ buckets \in SUBSET Bucket /\ table = {} /\ created = {}
    /\ loads = {[id |-> 1, at |-> "sent", rows |-> {}]}
    /\ crossed = FALSE

LoadStep(l) == Listed(l) \/ ListArrives(l) \/ ShowList(l) \/ LoadFails(l)
CreateStep == CreateAnswered \/ CreateFails

BucketsNext ==
    \/ Refresh \/ (\E l \in loads : LoadStep(l))
    \/ (\E b \in Bucket : CreateBucket(b) \/ Decided(b)) \/ CreateStep
-----------------------------------------------------------------------------
(* Lists and the page name no bucket that does not exist. *)
BucketsTypeOK ==
    /\ creating \in BOOLEAN /\ name \in Bucket
    /\ asked \subseteq Bucket /\ created \subseteq buckets /\ buckets \subseteq Bucket
    /\ loads \subseteq [id : 1 .. MaxLoads, at : {"sent", "listed", "demo"}, rows : SUBSET buckets]
    /\ Cardinality(loads) <= MaxLoads
    /\ table \subseteq buckets
    /\ crossed \in BOOLEAN

(* A bucket the page said it created is in the list once the list has settled, unless
   the last loads overlapped or failed. *)
CreatedIsListed == loads = {} /\ ~crossed => created \subseteq table

(* The create button comes back, also when the answer never makes it or is no JSON. *)
ButtonComesBack == creating ~> ~creating
=============================================================================
