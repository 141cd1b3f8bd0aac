------------------------------- MODULE Buckets -------------------------------
(***************************************************************************)
(* How one bucket comes to be: its source stream and a mirror per region,  *)
(* made by materializeBucket of src/internal/control/handlers.go.          *)
(*                                                                         *)
(* A tenant's bucket is asked for by POST /v1/me/buckets; the shared demo  *)
(* bucket by the ensureBucket of any adapter that misses it                *)
(* (src/internal/adapter/server.go).  Requests run concurrently, make one  *)
(* JetStream call per step, may be repeated with other settings, and are   *)
(* lost when the control plane restarts.  A stream is never deleted.       *)
(* Replicas, history and the move of the leader are left out.              *)
(***************************************************************************)
EXTENDS Naturals, Sequences, FiniteSets

CONSTANTS
    Regions,    \* allRegions, in order
    Tag,        \* placement tags that the placement engine may choose
    NoTag,
    Age,        \* bucket-wide ages asked for; 0 keeps values for ever
    Shared,     \* which buckets there are: a tenant's (FALSE), the shared one (TRUE)
    Job,        \* the requests for the bucket, one each
    MayFail     \* may calls fail or time out and the control plane restart

ASSUME BucketsAssumption ==
    /\ NoTag \notin Tag /\ Tag # {}
    /\ Regions \in Seq({Regions[i] : i \in DOMAIN Regions})
    /\ \A i, j \in DOMAIN Regions : Regions[i] = Regions[j] => i = j
    /\ Age \subseteq Nat
    /\ Shared \subseteq BOOLEAN /\ Shared # {} /\ MayFail \in BOOLEAN

VARIABLES
    shared,     \* is it the shared bucket
    source,     \* the stream KV_<bucket>
    mirrors,    \* [Region -> the stream KV_<bucket>_mirror_<region>]
    job         \* [Job -> the request a handler is working on]

vars == <<shared, source, mirrors, job>>

Region == {Regions[i] : i \in DOMAIN Regions}

\* What a request asks for; an adapter always asks for the same.
Setting == [age : Age, ttl : BOOLEAN, mirrors : BOOLEAN]
EnsureSetting == [age |-> 0, ttl |-> FALSE, mirrors |-> TRUE]

NoSource == [made |-> FALSE, age |-> 0, ttl |-> FALSE, direct |-> FALSE, tag |-> NoTag]
NoMirror == [made |-> FALSE, age |-> 0, ttl |-> FALSE]

\* A request: seen is the configuration that StreamInfo gave it, next the region whose
\* mirror is due, listed the mirrors it will report, failed (history) whether a call
\* whose error is ignored has failed.
NoJob == [at |-> "idle", want |-> EnsureSetting, tag |-> NoTag, seen |-> NoSource,
          next |-> 1, listed |-> {}, status |-> 0, failed |-> FALSE]

\* The caller hears s, unless it has stopped listening.
Ends(j, s) ==
    job' = [job EXCEPT ![j] = [@ EXCEPT !.at = "end",
                                        !.status = IF job[j].status = 0 THEN s ELSE job[j].status]]

\* A call that changes a stream: did it take effect, did the handler hear so.
Outcomes == [done : {TRUE}, ok : {TRUE}]
            \cup (IF MayFail THEN [done : BOOLEAN, ok : {FALSE}] ELSE {})
-----------------------------------------------------------------------------
\* createUserBucket: the settings are valid and placement has been decided ...
CreateBucket(j) ==
    /\ ~shared /\ job[j].at = "idle"
    /\ \E w \in Setting, g \in Tag \cup {NoTag} :
        job' = [job EXCEPT ![j] = [@ EXCEPT !.at = "create", !.want = w, !.tag = g]]
    /\ UNCHANGED <<shared, source, mirrors>>

\* ensureBucket of an adapter: it uses the bucket if it finds it, and asks the control
\* plane for it if there is none.
EnsureBucket(j) ==
    /\ shared /\ job[j].at = "idle"
    /\ \/ source.made /\ Ends(j, 200)
       \/ ~source.made /\ job' = [job EXCEPT ![j] = [@ EXCEPT !.at = "check"]]
       \/ MayFail /\ Ends(j, 500)
    /\ UNCHANGED <<shared, source, mirrors>>

\* internalEnsureBucketHandler: "exists", or place it; an error of StreamInfo counts as
\* missing, and the placement engine may fail.
EnsureCheck(j) ==
    /\ job[j].at = "check"
    /\ \/ source.made /\ Ends(j, 200)
       \/ /\ ~source.made \/ MayFail
          /\ \E g \in Tag : job' = [job EXCEPT ![j] = [@ EXCEPT !.at = "create", !.tag = g]]
       \/ MayFail /\ Ends(j, 500)
    /\ UNCHANGED <<shared, source, mirrors>>

\* ... CreateKeyValue: a bucket that exists stays as it is, and that is no error ...
CreateSource(j) ==
    /\ job[j].at = "create"
    /\ \E o \in Outcomes :
        /\ source' = IF o.done /\ ~source.made
                     THEN [made |-> TRUE, age |-> job[j].want.age, ttl |-> FALSE,
                           direct |-> FALSE, tag |-> job[j].tag]
                     ELSE source
        /\ IF o.ok THEN job' = [job EXCEPT ![j] = [@ EXCEPT !.at = "info"]] ELSE Ends(j, 500)
    /\ UNCHANGED <<shared, mirrors>>

\* Mutant of NeedsUpdate: a source that is patched already is left alone.
NeedsUpdateOnce(w, s) == ~s.direct

NeedsUpdate(w, s) == ~s.direct \/ (w.ttl /\ ~s.ttl)

\* ... StreamInfo, to see whether the source needs MirrorDirect and AllowMsgTTL; an
\* error skips the patch ...
ReadInfo(j) ==
    /\ job[j].at = "info"
    /\ LET at == IF NeedsUpdate(job[j].want, source) THEN "update" ELSE "mirrors" IN
       \/ job' = [job EXCEPT ![j] = [@ EXCEPT !.at = at, !.seen = source]]
       \/ MayFail /\ job' = [job EXCEPT ![j] = [@ EXCEPT !.at = "mirrors", !.failed = TRUE]]
    /\ UNCHANGED <<shared, source, mirrors>>

\* Mutant of Patched: the request's own configuration instead of the one read.
PatchedOwn(q) == [made |-> TRUE, age |-> q.want.age, ttl |-> q.want.ttl, direct |-> TRUE, tag |-> q.tag]

Patched(q) == [q.seen EXCEPT !.direct = TRUE, !.ttl = @ \/ q.want.ttl]

\* ... UpdateStream replaces the whole configuration by the one read, patched.  The
\* server refuses to take AllowMsgTTL away; errors are ignored ...
UpdateSource(j) ==
    /\ job[j].at = "update"
    /\ \E o \in Outcomes :
        /\ source' = IF o.done /\ (source.ttl => Patched(job[j]).ttl) THEN Patched(job[j]) ELSE source
        /\ job' = [job EXCEPT ![j] = [@ EXCEPT !.at = "mirrors", !.failed = job[j].failed \/ ~o.ok]]
    /\ UNCHANGED <<shared, mirrors>>

\* Mutants of AddMirror: every region is listed, and the mirror has no TTL setting.
AddMirrorListed(j) ==
    LET r == Regions[job[j].next] IN
    /\ job[j].at = "mirrors" /\ job[j].want.mirrors /\ job[j].next \in DOMAIN Regions
    /\ \E o \in Outcomes :
        /\ mirrors' = IF o.done /\ ~mirrors[r].made
                      THEN [mirrors EXCEPT ![r] = [made |-> TRUE, age |-> job[j].want.age,
                                                   ttl |-> job[j].want.ttl]]
                      ELSE mirrors
        /\ job' = [job EXCEPT ![j] = [@ EXCEPT !.next = job[j].next + 1, !.failed = job[j].failed \/ ~o.ok,
                                               !.listed = job[j].listed \cup {r}]]
    /\ UNCHANGED <<shared, source>>

AddMirrorPlain(j) ==
    LET r == Regions[job[j].next] IN
    /\ job[j].at = "mirrors" /\ job[j].want.mirrors /\ job[j].next \in DOMAIN Regions
    /\ \E o \in Outcomes :
        /\ mirrors' = IF o.done /\ ~mirrors[r].made
                      THEN [mirrors EXCEPT ![r] = [made |-> TRUE, age |-> job[j].want.age,
                                                   ttl |-> FALSE]]
                      ELSE mirrors
        /\ job' = [job EXCEPT ![j] = [@ EXCEPT !.next = job[j].next + 1, !.failed = job[j].failed \/ ~o.ok,
                                               !.listed = job[j].listed \cup {x \in {r} : o.ok}]]
    /\ UNCHANGED <<shared, source>>

\* ... and a mirror in each region: one that exists stays as it is and is listed, an
\* error leaves the region out.
AddMirror(j) ==
    LET r == Regions[job[j].next] IN
    /\ job[j].at = "mirrors" /\ job[j].want.mirrors /\ job[j].next \in DOMAIN Regions
    /\ \E o \in Outcomes :
        /\ mirrors' = IF o.done /\ ~mirrors[r].made
                      THEN [mirrors EXCEPT ![r] = [made |-> TRUE, age |-> job[j].want.age,
                                                   ttl |-> job[j].want.ttl]]
                      ELSE mirrors
        /\ job' = [job EXCEPT ![j] = [@ EXCEPT !.next = job[j].next + 1, !.failed = job[j].failed \/ ~o.ok,
                                               !.listed = job[j].listed \cup {x \in {r} : o.ok}]]
    /\ UNCHANGED <<shared, source>>

Answer(j) ==
    /\ job[j].at = "mirrors"
    /\ job[j].want.mirrors => job[j].next \notin DOMAIN Regions
    /\ Ends(j, 200)
    /\ UNCHANGED <<shared, source, mirrors>>

-----------------------------------------------------------------------------
\* requestBucketEnsure times out; the control plane goes on.
GiveUp(j) ==
    /\ MayFail /\ shared
    /\ job[j].at \notin {"idle", "end"} /\ job[j].status = 0
    /\ job' = [job EXCEPT ![j] = [@ EXCEPT !.status = 500]]
    /\ UNCHANGED <<shared, source, mirrors>>

\* The control plane restarts: what it was working on is gone, its callers get an error.
Restart ==
    /\ MayFail
    /\ \E j \in Job : job[j].at \notin {"idle", "end"}
    /\ job' = [j \in Job |-> IF job[j].at \in {"idle", "end"} THEN job[j]
                             ELSE [job[j] EXCEPT !.at = "end", !.status = 500]]
    /\ UNCHANGED <<shared, source, mirrors>>

Init ==
    /\ shared \in Shared
    /\ source = NoSource
    /\ mirrors = [r \in Region |-> NoMirror]
    /\ job = [j \in Job |-> NoJob]

Handler(j) == CreateBucket(j) \/ EnsureBucket(j) \/ EnsureCheck(j) \/ CreateSource(j)
              \/ ReadInfo(j) \/ UpdateSource(j) \/ AddMirror(j) \/ Answer(j) \/ GiveUp(j)

Next == (\E j \in Job : Handler(j)) \/ Restart

Spec == Init /\ [][Next]_vars

-----------------------------------------------------------------------------
\* The types of a source stream and of a request, field by field.
Tags == Tag \cup {NoTag}
SourceType == [made : BOOLEAN, age : Age \cup {0}, ttl : BOOLEAN, direct : BOOLEAN,
               tag : Tags]

Places == {"idle", "check", "create", "info", "update", "mirrors", "end"}
Wanted == Setting \cup {EnsureSetting}
Heard == {0, 200, 500}
Due == Nat \ {0}
JobType == [at : Places, want : Wanted, tag : Tags, seen : SourceType, next : Due,
            listed : SUBSET Region, status : Heard, failed : BOOLEAN]

(* The streams and the requests keep their types, and there is nothing to a source before
   it is made. *)
TypeOK ==
    /\ shared \in BOOLEAN
    /\ source \in SourceType /\ (source.made \/ source = NoSource)
    /\ mirrors \in [Region -> [made : BOOLEAN, age : Age \cup {0}, ttl : BOOLEAN]]
    /\ job \in [Job -> JobType]

(* However many requests race for a bucket, and although each writes the whole
   configuration back as it once read it: what the first one settled, age and
   placement, stays, and neither TTL support nor direct reads are taken away. *)
SourceSettingsStick ==
    [][source.made =>
        /\ source'.age = source.age /\ source'.tag = source.tag
        /\ source.ttl => source'.ttl
        /\ source.direct => source'.direct]_vars

(* A create that is answered 200, none of whose ignored calls failed, leaves a source
   that serves reads through mirrors, honours per-key TTLs if it asked for them, and
   has a mirror in every region if it asked for mirrors; also when it raced with
   others or found the bucket half made. *)
CreatedIsComplete ==
    \A j \in Job : ~shared /\ job[j].status = 200 /\ ~job[j].failed =>
        /\ source.direct
        /\ job[j].want.ttl => source.ttl
        /\ job[j].want.mirrors => \A r \in Region : mirrors[r].made

(* No mirror is reported that does not exist, and none exists before its source: a
   failed call leaves its region, or the whole bucket, out. *)
ListedMirrorsExist ==
    /\ \A j \in Job : \A r \in job[j].listed : mirrors[r].made
    /\ (\E r \in Region : mirrors[r].made) => source.made

SameRetention(r) == mirrors[r].age = source.age /\ mirrors[r].ttl = source.ttl

(* While every request asks for the same and no ignored call fails, a mirror expires
   values exactly as its source does from the moment it exists: retries, races and
   restarts do not pull them apart. *)
RetriesKeepRetention ==
    (\A i, j \in Job : job[i].at # "idle" /\ job[j].at # "idle" =>
        job[i].want = job[j].want /\ ~job[i].failed)
    => \A r \in Region : mirrors[r].made => SameRetention(r)
=============================================================================
