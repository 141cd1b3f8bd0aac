---------------------------- MODULE Buckets_proofs ----------------------------
(***************************************************************************)
(* Theorems about Buckets, for any number of requests for the bucket, any  *)
(* regions and settings, with failing calls, timeouts and restarts.        *)
(*                                                                         *)
(* A request writes back a configuration it read before others wrote, and  *)
(* reports mirrors it made while others ran; the invariant JInv says what  *)
(* it knows at each call, and Steady why that stays true: nobody undoes    *)
(* what any request has made.                                              *)
(***************************************************************************)
EXTENDS Buckets, TLAPS

Complete(w) ==
    /\ source.direct
    /\ w.ttl => source.ttl
    /\ w.mirrors => \A r \in Region : mirrors[r].made

JInv(j) ==
    /\ job[j].at \in {"info", "update", "mirrors"} => source.made
    /\ job[j].at = "check" => shared
    /\ job[j].at = "update" =>
          job[j].seen.made /\ job[j].seen.age = source.age /\ job[j].seen.tag = source.tag
    /\ \A r \in job[j].listed : mirrors[r].made
    /\ ~shared /\ job[j].at # "end" => job[j].status = 0
    /\ ~shared /\ job[j].at = "mirrors" /\ ~job[j].failed =>
          source.direct /\ (job[j].want.ttl => source.ttl)
    /\ job[j].at \notin {"mirrors", "end"} => job[j].next = 1
    /\ job[j].at = "mirrors" /\ ~job[j].failed =>
          \A i \in DOMAIN Regions : i < job[j].next => mirrors[Regions[i]].made
    /\ ~shared /\ job[j].status = 200 /\ ~job[j].failed => Complete(job[j].want)

StreamInv ==
    /\ source.ttl => source.direct
    /\ (\E r \in Region : mirrors[r].made) => source.made

BInv == TypeOK /\ StreamInv /\ \A j \in Job : JInv(j)

\* What no step undoes.
Steady ==
    /\ shared' = shared
    /\ source.made =>
          /\ source'.made /\ source'.age = source.age /\ source'.tag = source.tag
          /\ source.ttl => source'.ttl
          /\ source.direct => source'.direct
    /\ \A r \in Region : mirrors[r].made => mirrors'[r].made
-----------------------------------------------------------------------------
\* The invariant holds while there is no bucket.
LEMMA BInvInit == Init => BInv
<1> SUFFICES ASSUME Init PROVE BInv
  OBVIOUS
<1>1. TypeOK
  BY BucketsAssumption
     DEF Init, NoSource, NoMirror, NoJob, TypeOK, SourceType, JobType, Places, EnsureSetting,
         Wanted, Tags, Heard, Due
<1>2. StreamInv
  BY DEF Init, NoSource, NoMirror, StreamInv
<1>3. ASSUME NEW j \in Job PROVE JInv(j)
  BY DEF Init, NoJob, JInv
<1> QED
  BY <1>1, <1>2, <1>3 DEF BInv

\* A request that makes no step keeps what it knows.
LEMMA Kept ==
    ASSUME TypeOK, TypeOK', Steady, NEW h \in Job, JInv(h), job'[h] = job[h]
    PROVE  JInv(h)'
<1>1. job[h].listed \subseteq Region /\ job[h].at \in Places
  BY DEF TypeOK, JobType
<1>2. source.made \/ (~source.direct /\ ~source.ttl)
  BY DEF TypeOK, NoSource
<1>3. \A i \in DOMAIN Regions : Regions[i] \in Region
  BY DEF Region
<1>4. Complete(job[h].want) => Complete(job[h].want)'
  BY <1>2 DEF Complete, Steady
<1> QED
  BY <1>1, <1>2, <1>3, <1>4 DEF JInv, Steady

\* A step of one request keeps what the others know, if it undoes nothing.
LEMMA OneJob ==
    ASSUME BInv, TypeOK', Steady, StreamInv', NEW j \in Job, JInv(j)',
           \A h \in Job : h # j => job'[h] = job[h]
    PROVE  BInv'
BY Kept DEF BInv

\* The request as a whole after an update of some of its fields.
LEMMA Told ==
    ASSUME TypeOK, NEW j \in Job, NEW q \in JobType, job' = [job EXCEPT ![j] = q]
    PROVE  /\ job' \in [Job -> JobType] /\ job'[j] = q
           /\ \A h \in Job : h # j => job'[h] = job[h]
BY DEF TypeOK

\* Steps that only tell a request something.
LEMMA OnlyTold ==
    ASSUME BInv, NEW j \in Job, NEW q \in JobType, job' = [job EXCEPT ![j] = q],
           UNCHANGED <<shared, source, mirrors>>, JInv(j)'
    PROVE  BInv' /\ Steady
<1>1. TypeOK' /\ \A h \in Job : h # j => job'[h] = job[h]
  BY Told DEF BInv, TypeOK
<1>2. StreamInv' /\ Steady
  BY DEF BInv, StreamInv, Steady
<1> QED
  BY <1>1, <1>2, OneJob

\* A request that ends keeps the invariant, if a full success has left a complete bucket.
LEMMA EndsStep ==
    ASSUME BInv, NEW j \in Job, NEW s \in {200, 500}, Ends(j, s),
           UNCHANGED <<shared, source, mirrors>>,
           s = 200 /\ ~shared /\ ~job[j].failed => Complete(job[j].want)
    PROVE  BInv' /\ Steady
<1> DEFINE c == IF job[j].status = 0 THEN s ELSE job[j].status
           q == [job[j] EXCEPT !.at = "end", !.status = c]
<1>1. job[j] \in JobType /\ JInv(j) /\ TypeOK
  BY DEF BInv, TypeOK
<1>2. c \in Heard /\ "end" \in Places
  BY <1>1 DEF JobType, Places, Heard
<1>3. job' = [job EXCEPT ![j] = q]
  BY DEF Ends
<1>4. ~shared /\ c = 200 /\ ~job[j].failed => Complete(job[j].want)
  BY <1>1 DEF JInv
<1> HIDE DEF c
<1>5. q \in JobType /\ q.at = "end" /\ q.status = c /\ q.want = job[j].want
      /\ q.listed = job[j].listed /\ q.failed = job[j].failed
  BY <1>1, <1>2 DEF JobType
<1> HIDE DEF q
<1>6. job'[j] = q
  BY <1>1, <1>3, <1>5, Told, ZenonT(30)
<1>7. JInv(j)'
  BY <1>1, <1>4, <1>5, <1>6 DEF JInv, Complete
<1> QED
  BY <1>3, <1>5, <1>7, OnlyTold

\* A request goes on to another call, with what it was told.
LEMMA CreateBucketStep ==
    ASSUME BInv, NEW j \in Job, CreateBucket(j)
    PROVE  BInv' /\ Steady
<1>1. PICK w \in Setting, g \in Tag \cup {NoTag} :
        job' = [job EXCEPT ![j] = [@ EXCEPT !.at = "create", !.want = w, !.tag = g]]
  BY DEF CreateBucket
<1>2. job[j].at = "idle" /\ UNCHANGED <<shared, source, mirrors>> /\ TypeOK
      /\ job[j] \in JobType /\ JInv(j) /\ "create" \in Places /\ w \in Wanted /\ g \in Tags
  BY DEF CreateBucket, BInv, TypeOK, Places, Wanted, Tags
<1> DEFINE q == [job[j] EXCEPT !.at = "create", !.want = w, !.tag = g]
<1>3. job' = [job EXCEPT ![j] = q]
  BY <1>1
<1>4. q \in JobType /\ q.at = "create" /\ q.status = job[j].status /\ q.next = job[j].next
      /\ q.listed = job[j].listed /\ q.want = w
  BY <1>2 DEF JobType
<1> HIDE DEF q
<1>5. job'[j] = q
  BY <1>2, <1>3, <1>4, Told
<1>6. JInv(j)'
  BY <1>2, <1>4, <1>5 DEF JInv
<1> QED
  BY <1>2, <1>3, <1>4, <1>6, OnlyTold

\* An adapter that asks for a shared bucket keeps the invariant and undoes nothing;
LEMMA EnsureBucketStep ==
    ASSUME BInv, NEW j \in Job, EnsureBucket(j)
    PROVE  BInv' /\ Steady
<1>1. shared /\ job[j].at = "idle" /\ UNCHANGED <<shared, source, mirrors>> /\ TypeOK
      /\ job[j] \in JobType /\ JInv(j) /\ "check" \in Places
  BY DEF EnsureBucket, BInv, TypeOK, Places
<1>2. CASE Ends(j, 200) \/ Ends(j, 500)
  BY <1>1, <1>2, EndsStep
<1>3. CASE job' = [job EXCEPT ![j] = [@ EXCEPT !.at = "check"]]
  <2> DEFINE q == [job[j] EXCEPT !.at = "check"]
  <2>1. q \in JobType /\ q.at = "check" /\ q.next = job[j].next /\ q.listed = job[j].listed
    BY <1>1 DEF JobType
  <2>2. job' = [job EXCEPT ![j] = q]
    BY <1>3
  <2> HIDE DEF q
  <2>3. job'[j] = q
    BY <1>1, <2>1, <2>2, Told
  <2>4. JInv(j)'
    BY <1>1, <2>1, <2>3 DEF JInv
  <2> QED
    BY <1>1, <2>1, <2>2, <2>4, OnlyTold
<1> QED
  BY <1>2, <1>3 DEF EnsureBucket

\* so does the look for its source.
LEMMA EnsureCheckStep ==
    ASSUME BInv, NEW j \in Job, EnsureCheck(j)
    PROVE  BInv' /\ Steady
<1>1. job[j].at = "check" /\ UNCHANGED <<shared, source, mirrors>> /\ TypeOK
      /\ job[j] \in JobType /\ JInv(j) /\ "create" \in Places
  BY DEF EnsureCheck, BInv, TypeOK, Places
<1>2. CASE Ends(j, 500)
  BY <1>1, <1>2, EndsStep
<1>3. CASE Ends(j, 200)
  BY <1>1, <1>3, EndsStep DEF JInv
<1>4. ASSUME NEW g \in Tag, job' = [job EXCEPT ![j] = [@ EXCEPT !.at = "create", !.tag = g]]
      PROVE  BInv' /\ Steady
  <2> DEFINE q == [job[j] EXCEPT !.at = "create", !.tag = g]
  <2>1. g \in Tags
    BY DEF Tags
  <2>2. q \in JobType /\ q.at = "create" /\ q.next = job[j].next /\ q.status = job[j].status
        /\ q.listed = job[j].listed /\ q.want = job[j].want /\ q.failed = job[j].failed
    BY <1>1, <2>1 DEF JobType
  <2>3. job' = [job EXCEPT ![j] = q]
    BY <1>4
  <2> HIDE DEF q
  <2>4. job'[j] = q
    BY <1>1, <2>2, <2>3, Told
  <2>5. JInv(j)'
    BY <1>1, <2>2, <2>4 DEF JInv, Complete
  <2> QED
    BY <1>1, <2>2, <2>3, <2>5, OnlyTold
<1> QED
  BY <1>2, <1>3, <1>4 DEF EnsureCheck

\* The bucket is created by one request, or was there; nobody else can tell.
LEMMA CreateSourceStep ==
    ASSUME BInv, NEW j \in Job, CreateSource(j)
    PROVE  BInv' /\ Steady
<1> DEFINE new == [made |-> TRUE, age |-> job[j].want.age, ttl |-> FALSE,
                   direct |-> FALSE, tag |-> job[j].tag]
<1>1. PICK o \in Outcomes :
        /\ source' = IF o.done /\ ~source.made THEN new ELSE source
        /\ IF o.ok THEN job' = [job EXCEPT ![j] = [@ EXCEPT !.at = "info"]] ELSE Ends(j, 500)
  BY DEF CreateSource
<1>2. job[j].at = "create" /\ UNCHANGED <<shared, mirrors>> /\ TypeOK /\ StreamInv
      /\ job[j] \in JobType /\ JInv(j) /\ {"info", "end"} \subseteq Places
  BY DEF CreateSource, BInv, TypeOK, Places
<1>3. job[j].want.age \in Age \cup {0} /\ job[j].tag \in Tags
  BY <1>2 DEF JobType, Wanted, Setting, EnsureSetting
<1>4. new \in SourceType /\ new.made /\ ~new.ttl
  BY <1>3 DEF SourceType
<1> HIDE DEF new
<1>5. source' \in SourceType /\ (source.made => source' = source)
      /\ (source'.made \/ source' = NoSource) /\ (source'.ttl => source'.direct)
  BY <1>1, <1>2, <1>4 DEF TypeOK, StreamInv
<1>6. Steady /\ StreamInv'
  BY <1>2, <1>5 DEF Steady, StreamInv
<1>7. o.ok => o.done
  BY DEF Outcomes
<1>8. CASE o.ok
  <2> DEFINE q == [job[j] EXCEPT !.at = "info"]
  <2>1. q \in JobType /\ q.at = "info" /\ q.next = job[j].next /\ q.status = job[j].status
        /\ q.listed = job[j].listed
    BY <1>2 DEF JobType
  <2>2. job' = [job EXCEPT ![j] = q]
    BY <1>1, <1>8
  <2> HIDE DEF q
  <2>3. job'[j] = q /\ (\A h \in Job : h # j => job'[h] = job[h]) /\ job' \in [Job -> JobType]
    BY <2>1, <2>2, <1>2, Told
  <2>4. source'.made
    BY <1>1, <1>4, <1>7, <1>8
  <2>5. JInv(j)'
    BY <1>2, <2>1, <2>3, <2>4 DEF JInv
  <2>6. TypeOK'
    BY <1>2, <1>5, <2>3 DEF TypeOK
  <2> QED
    BY <1>6, <2>3, <2>5, <2>6, OneJob
<1>9. CASE ~o.ok
  <2> DEFINE c == IF job[j].status = 0 THEN 500 ELSE job[j].status
             q == [job[j] EXCEPT !.at = "end", !.status = c]
  <2>1. c \in Heard /\ (~shared => c = 500)
    BY <1>2 DEF JobType, JInv, Heard
  <2>2. job' = [job EXCEPT ![j] = q]
    BY <1>1, <1>9 DEF Ends
  <2> HIDE DEF c
  <2>3. q \in JobType /\ q.at = "end" /\ q.status = c /\ q.listed = job[j].listed
    BY <1>2, <2>1 DEF JobType
  <2> HIDE DEF q
  <2>4. job'[j] = q /\ (\A h \in Job : h # j => job'[h] = job[h]) /\ job' \in [Job -> JobType]
    BY <2>2, <2>3, <1>2, Told
  <2>5. JInv(j)'
    BY <1>2, <2>1, <2>3, <2>4 DEF JInv
  <2>6. TypeOK'
    BY <1>2, <1>5, <2>4 DEF TypeOK
  <2> QED
    BY <1>6, <2>4, <2>5, <2>6, OneJob
<1> QED
  BY <1>8, <1>9

\* What is read stays true of age and placement until it is written back.
LEMMA ReadInfoStep ==
    ASSUME BInv, NEW j \in Job, ReadInfo(j)
    PROVE  BInv' /\ Steady
<1>1. job[j].at = "info" /\ UNCHANGED <<shared, source, mirrors>> /\ TypeOK
      /\ job[j] \in JobType /\ JInv(j) /\ {"update", "mirrors"} \subseteq Places
      /\ source \in SourceType /\ source.made /\ job[j].next = 1
  BY DEF ReadInfo, BInv, TypeOK, Places, JInv
<1> DEFINE at == IF NeedsUpdate(job[j].want, source) THEN "update" ELSE "mirrors"
<1>2. CASE job' = [job EXCEPT ![j] = [@ EXCEPT !.at = at, !.seen = source]]
  <2> DEFINE q == [job[j] EXCEPT !.at = at, !.seen = source]
  <2>1. at \in Places /\ at \in {"update", "mirrors"}
        /\ (at = "mirrors" => source.direct /\ (job[j].want.ttl => source.ttl))
    BY <1>1 DEF NeedsUpdate
  <2>2. job' = [job EXCEPT ![j] = q]
    BY <1>2
  <2> HIDE DEF at
  <2>3. q \in JobType /\ q.at = at /\ q.seen = source /\ q.next = job[j].next
        /\ q.status = job[j].status /\ q.listed = job[j].listed /\ q.want = job[j].want
        /\ q.failed = job[j].failed
    BY <1>1, <2>1 DEF JobType
  <2> HIDE DEF q
  <2>4. job'[j] = q
    BY <1>1, <2>2, <2>3, Told
  <2>5. \A i \in DOMAIN Regions : ~(i < 1)
    BY BucketsAssumption
  <2>6. JInv(j)'
    BY <1>1, <2>1, <2>3, <2>4, <2>5 DEF JInv, Complete
  <2> QED
    BY <1>1, <2>2, <2>3, <2>6, OnlyTold
<1>3. CASE job' = [job EXCEPT ![j] = [@ EXCEPT !.at = "mirrors", !.failed = TRUE]]
  <2> DEFINE q == [job[j] EXCEPT !.at = "mirrors", !.failed = TRUE]
  <2>1. job' = [job EXCEPT ![j] = q]
    BY <1>3
  <2>2. q \in JobType /\ q.at = "mirrors" /\ q.failed /\ q.status = job[j].status
        /\ q.listed = job[j].listed
    BY <1>1 DEF JobType
  <2> HIDE DEF q
  <2>3. job'[j] = q
    BY <1>1, <2>1, <2>2, Told
  <2>4. JInv(j)'
    BY <1>1, <2>2, <2>3 DEF JInv
  <2> QED
    BY <1>1, <2>1, <2>2, <2>4, OnlyTold
<1> QED
  BY <1>2, <1>3 DEF ReadInfo

\* A patch of an old configuration takes nothing away: the server refuses it, or it only
\* adds.
LEMMA UpdateSourceStep ==
    ASSUME BInv, NEW j \in Job, UpdateSource(j)
    PROVE  BInv' /\ Steady
<1>1. PICK o \in Outcomes :
        /\ source' = IF o.done /\ (source.ttl => Patched(job[j]).ttl) THEN Patched(job[j]) ELSE source
        /\ job' = [job EXCEPT ![j] = [@ EXCEPT !.at = "mirrors", !.failed = job[j].failed \/ ~o.ok]]
  BY DEF UpdateSource
<1>2. job[j].at = "update" /\ UNCHANGED <<shared, mirrors>> /\ TypeOK /\ StreamInv
      /\ job[j] \in JobType /\ JInv(j) /\ "mirrors" \in Places
      /\ source \in SourceType /\ source.made /\ job[j].next = 1
  BY DEF UpdateSource, BInv, TypeOK, Places, JInv
<1> DEFINE p == Patched(job[j])
           t == job[j].seen.ttl \/ job[j].want.ttl
           f == job[j].failed \/ ~o.ok
           q == [job[j] EXCEPT !.at = "mirrors", !.failed = f]
<1>3. job[j].seen \in SourceType /\ job[j].want \in Wanted /\ t \in BOOLEAN
      /\ job[j].seen.made /\ job[j].seen.age = source.age /\ job[j].seen.tag = source.tag
  BY <1>2 DEF JobType, JInv
<1>4. p = [job[j].seen EXCEPT !.direct = TRUE, !.ttl = t]
  BY <1>3 DEF Patched
<1> HIDE DEF t
<1>5. p \in SourceType /\ p.made /\ p.age = source.age /\ p.tag = source.tag /\ p.direct /\ p.ttl = t
  BY <1>3, <1>4 DEF SourceType
<1> HIDE DEF p
<1>6. source' \in SourceType /\ source'.made /\ source'.age = source.age /\ source'.tag = source.tag
      /\ (source.ttl => source'.ttl) /\ (source.direct => source'.direct)
      /\ (source'.ttl => source'.direct)
  BY <1>1, <1>2, <1>5 DEF StreamInv, p
<1>7. Steady /\ StreamInv'
  BY <1>2, <1>6 DEF Steady, StreamInv
<1>8. o.ok => o.done
  BY DEF Outcomes
<1>9. o.ok => source'.direct /\ (job[j].want.ttl => source'.ttl)
  BY <1>1, <1>2, <1>5, <1>8 DEF p, t, StreamInv
<1>10. f \in BOOLEAN /\ (~f => ~job[j].failed /\ o.ok)
  OBVIOUS
<1>11. job' = [job EXCEPT ![j] = q]
  BY <1>1
<1> HIDE DEF f
<1>12. q \in JobType /\ q.at = "mirrors" /\ q.failed = f /\ q.status = job[j].status
       /\ q.listed = job[j].listed /\ q.want = job[j].want /\ q.next = job[j].next
  BY <1>2, <1>10 DEF JobType
<1> HIDE DEF q
<1>13. job'[j] = q /\ (\A h \in Job : h # j => job'[h] = job[h]) /\ job' \in [Job -> JobType]
  BY <1>2, <1>11, <1>12, Told
<1>14. \A i \in DOMAIN Regions : ~(i < 1)
  BY BucketsAssumption
<1>15. JInv(j)'
  BY <1>2, <1>6, <1>9, <1>10, <1>12, <1>13, <1>14 DEF JInv, Complete
<1>16. TypeOK'
  BY <1>2, <1>6, <1>13 DEF TypeOK
<1> QED
  BY <1>7, <1>13, <1>15, <1>16, OneJob

\* One mirror more, and it is reported only if the server said so.
LEMMA AddMirrorStep ==
    ASSUME BInv, NEW j \in Job, AddMirror(j)
    PROVE  BInv' /\ Steady
<1> DEFINE n == job[j].next
           r == Regions[n]
           new == [made |-> TRUE, age |-> job[j].want.age, ttl |-> job[j].want.ttl]
           Mirror == [made : BOOLEAN, age : Age \cup {0}, ttl : BOOLEAN]
<1>1. PICK o \in Outcomes :
        /\ mirrors' = IF o.done /\ ~mirrors[r].made THEN [mirrors EXCEPT ![r] = new] ELSE mirrors
        /\ job' = [job EXCEPT ![j] = [@ EXCEPT !.next = n + 1, !.failed = job[j].failed \/ ~o.ok,
                                               !.listed = job[j].listed \cup {x \in {r} : o.ok}]]
  BY DEF AddMirror
<1>2. job[j].at = "mirrors" /\ job[j].want.mirrors /\ n \in DOMAIN Regions
      /\ UNCHANGED <<shared, source>> /\ TypeOK /\ StreamInv
      /\ job[j] \in JobType /\ JInv(j) /\ source.made
  BY DEF AddMirror, BInv, TypeOK, JInv
<1>3. r \in Region /\ n \in Due /\ n + 1 \in Due /\ mirrors \in [Region -> Mirror]
  BY <1>2 DEF Region, JobType, Due, TypeOK
<1>4. job[j].want.age \in Age \cup {0} /\ job[j].want.ttl \in BOOLEAN
  <2>1. job[j].want \in Wanted
    BY <1>2 DEF JobType
  <2>2. CASE job[j].want \in Setting
    BY <2>2 DEF Setting
  <2>3. CASE job[j].want = EnsureSetting
    BY <2>3 DEF EnsureSetting
  <2> QED
    BY <2>1, <2>2, <2>3 DEF Wanted
<1>5. new \in Mirror /\ new.made
  BY <1>4
<1>6. o.ok => o.done
  BY DEF Outcomes
<1> HIDE DEF new, Mirror
<1>7. mirrors' \in [Region -> Mirror] /\ (\A x \in Region : mirrors[x].made => mirrors'[x].made)
      /\ (o.ok => mirrors'[r].made)
  BY <1>1, <1>3, <1>5, <1>6
<1>8. Steady /\ StreamInv'
  BY <1>2, <1>7 DEF Steady, StreamInv
<1> DEFINE f == job[j].failed \/ ~o.ok
           l == job[j].listed \cup {x \in {r} : o.ok}
           q == [job[j] EXCEPT !.next = n + 1, !.failed = f, !.listed = l]
<1>9. f \in BOOLEAN /\ (~f => ~job[j].failed /\ o.ok)
  OBVIOUS
<1>10. l \subseteq Region /\ (\A x \in l : mirrors'[x].made)
  BY <1>2, <1>3, <1>7 DEF JobType, JInv
<1>11. job' = [job EXCEPT ![j] = q]
  BY <1>1
<1> HIDE DEF f, l
<1>12. q \in JobType /\ q.at = "mirrors" /\ q.failed = f /\ q.status = job[j].status
       /\ q.listed = l /\ q.want = job[j].want /\ q.next = n + 1
  BY <1>2, <1>3, <1>9, <1>10 DEF JobType
<1> HIDE DEF q
<1>13. job'[j] = q /\ (\A h \in Job : h # j => job'[h] = job[h]) /\ job' \in [Job -> JobType]
  BY <1>2, <1>11, <1>12, Told
<1>14. \A i \in DOMAIN Regions : Regions[i] \in Region /\ i \in Nat
  BY BucketsAssumption DEF Region
<1>15. ~f => \A i \in DOMAIN Regions : i < n + 1 => mirrors'[Regions[i]].made
  <2> SUFFICES ASSUME ~f, NEW i \in DOMAIN Regions, i < n + 1 PROVE mirrors'[Regions[i]].made
    OBVIOUS
  <2>1. CASE i < n
    BY <1>2, <1>7, <1>9, <1>14, <2>1 DEF JInv
  <2>2. CASE i = n
    BY <1>7, <1>9, <2>2
  <2>3. i < n \/ i = n
    BY <1>3, <1>14 DEF Due
  <2> QED
    BY <2>1, <2>2, <2>3
<1>16. JInv(j)'
  BY <1>2, <1>9, <1>10, <1>12, <1>13, <1>15 DEF JInv, Complete
<1>17. TypeOK'
  BY <1>2, <1>7, <1>13 DEF TypeOK, Mirror
<1> QED
  BY <1>8, <1>13, <1>16, <1>17, OneJob

\* The answer comes when every region has had its turn.
LEMMA AnswerStep ==
    ASSUME BInv, NEW j \in Job, Answer(j)
    PROVE  BInv' /\ Steady
<1>1. job[j].at = "mirrors" /\ UNCHANGED <<shared, source, mirrors>> /\ Ends(j, 200)
      /\ (job[j].want.mirrors => job[j].next \notin DOMAIN Regions)
      /\ job[j] \in JobType /\ JInv(j)
  BY DEF Answer, BInv, TypeOK
<1>2. job[j].want.mirrors => \A i \in DOMAIN Regions : i < job[j].next
  <2> SUFFICES ASSUME job[j].next \notin DOMAIN Regions, NEW i \in DOMAIN Regions
               PROVE  i < job[j].next
    BY <1>1
  <2>1. DOMAIN Regions = 1..Len(Regions) /\ Len(Regions) \in Nat
    BY BucketsAssumption
  <2>2. job[j].next \in Nat \ {0}
    BY <1>1 DEF JobType, Due
  <2> QED
    BY <2>1, <2>2
<1>3. ~shared /\ ~job[j].failed => Complete(job[j].want)
  <2> SUFFICES ASSUME ~shared, ~job[j].failed PROVE Complete(job[j].want)
    OBVIOUS
  <2>1. source.direct /\ (job[j].want.ttl => source.ttl)
    BY <1>1 DEF JInv
  <2>2. ASSUME job[j].want.mirrors, NEW r \in Region PROVE mirrors[r].made
    <3>1. PICK i \in DOMAIN Regions : r = Regions[i]
      BY DEF Region
    <3> QED
      BY <1>1, <1>2, <2>2, <3>1 DEF JInv
  <2> QED
    BY <2>1, <2>2 DEF Complete
<1> QED
  BY <1>1, <1>3, EndsStep

\* The caller gives up on a request that goes on; only the shared bucket has such callers.
LEMMA GiveUpStep ==
    ASSUME BInv, NEW j \in Job, GiveUp(j)
    PROVE  BInv' /\ Steady
<1>1. shared /\ UNCHANGED <<shared, source, mirrors>>
      /\ TypeOK /\ job[j] \in JobType /\ JInv(j) /\ 500 \in Heard
  BY DEF GiveUp, BInv, TypeOK, Heard
<1> DEFINE q == [job[j] EXCEPT !.status = 500]
<1>2. q \in JobType /\ q.at = job[j].at /\ q.seen = job[j].seen /\ q.listed = job[j].listed
      /\ q.failed = job[j].failed /\ q.next = job[j].next /\ q.want = job[j].want
  BY <1>1 DEF JobType
<1>3. job' = [job EXCEPT ![j] = q]
  BY DEF GiveUp
<1> HIDE DEF q
<1>4. job'[j] = q
  BY <1>1, <1>2, <1>3, Told
<1>5. JInv(j)'
  BY <1>1, <1>2, <1>4 DEF JInv
<1> QED
  BY <1>1, <1>2, <1>3, <1>5, OnlyTold

\* What a lost request had done stays; its caller hears an error.
LEMMA RestartStep ==
    ASSUME BInv, Restart
    PROVE  BInv' /\ Steady
<1> DEFINE lost(j) == [job[j] EXCEPT !.at = "end", !.status = 500]
           gone(j) == IF job[j].at \in {"idle", "end"} THEN job[j] ELSE lost(j)
<1>1. UNCHANGED <<shared, source, mirrors>> /\ TypeOK /\ StreamInv
  BY DEF Restart, BInv
<1>2. Steady /\ StreamInv'
  BY <1>1 DEF Steady, StreamInv
<1>0. job' = [j \in Job |-> gone(j)]
  BY DEF Restart
<1>3. ASSUME NEW j \in Job PROVE job'[j] \in JobType /\ JInv(j)'
  <2> DEFINE c == 500
  <2>1. job[j] \in JobType /\ JInv(j) /\ c \in Heard /\ c # 200 /\ "end" \in Places
    BY DEF BInv, TypeOK, Heard, Places
  <2> DEFINE q == [job[j] EXCEPT !.at = "end", !.status = c]
  <2>2. lost(j) = q
    OBVIOUS
  <2> HIDE DEF lost, gone
  <2> HIDE DEF c
  <2>3. q \in JobType /\ q.at = "end" /\ q.status = c /\ q.listed = job[j].listed
    BY <2>1 DEF JobType
  <2> HIDE DEF q
  <2>4. job'[j] = job[j] \/ job'[j] = q
    BY <1>0, <2>2 DEF gone
  <2>5. CASE job'[j] = job[j]
    BY <1>1, <2>1, <2>5 DEF JInv, Complete
  <2>6. CASE job'[j] = q
    BY <1>1, <2>1, <2>3, <2>6 DEF JInv
  <2> QED
    BY <2>4, <2>5, <2>6
<1>4. TypeOK'
  <2> HIDE DEF gone
  <2>1. job' \in [Job -> JobType]
    BY <1>0, <1>3
  <2> QED
    BY <1>1, <2>1 DEF TypeOK
<1> QED
  BY <1>2, <1>3, <1>4 DEF BInv

\* Every step keeps the invariant and undoes nothing.
LEMMA BInvNext == BInv /\ [Next]_vars => BInv' /\ Steady
<1> SUFFICES ASSUME BInv, [Next]_vars PROVE BInv' /\ Steady
  OBVIOUS
<1>1. ASSUME NEW j \in Job, Handler(j) PROVE BInv' /\ Steady
  BY <1>1, CreateBucketStep, EnsureBucketStep, EnsureCheckStep, CreateSourceStep, ReadInfoStep,
     UpdateSourceStep, AddMirrorStep, AnswerStep, GiveUpStep DEF Handler
<1>2. CASE Restart
  BY <1>2, RestartStep
<1>3. CASE UNCHANGED vars
  BY <1>3 DEF vars, BInv, TypeOK, StreamInv, JInv, Complete, Steady
<1> QED
  BY <1>1, <1>2, <1>3 DEF Next
-----------------------------------------------------------------------------
\* Is every request that has begun for the same, and has no ignored call failed?
Agree ==
    \A i, j \in Job : job[i].at # "idle" /\ job[j].at # "idle" =>
        job[i].want = job[j].want /\ ~job[i].failed

\* Source s and mirrors m are as w asks for, as far as they are there.
Fits(w, s, m) ==
    /\ s.made => s.age = w.age
    /\ s.ttl => w.ttl
    /\ \A r \in Region : m[r].made =>
          m[r].age = w.age /\ (m[r].ttl <=> w.ttl) /\ (s.ttl <=> w.ttl)

\* What call q writes back, or relies on, fits its wish.
CallFits(q, s) ==
    /\ q.at = "update" => (q.seen.ttl => q.want.ttl)
    /\ q.at = "mirrors" => (q.want.ttl => s.ttl)

\* A stream is somebody's doing, and adapters all ask for the same.
BegunInv ==
    /\ source.made => \E j \in Job : job[j].at # "idle"
    /\ shared => \A j \in Job : job[j].want = EnsureSetting

RetInv ==
    /\ BInv /\ BegunInv
    /\ Agree => \A j \in Job : job[j].at # "idle" =>
          Fits(job[j].want, source, mirrors) /\ CallFits(job[j], source)

\* Requests begin, with a wish, and go on with it.
GoesOn ==
    \A j \in Job :
        /\ job[j].at # "idle" => /\ job'[j].at # "idle" /\ job'[j].want = job[j].want
                                 /\ job[j].failed => job'[j].failed
        /\ shared => job'[j].want = job[j].want

\* Who disagrees goes on disagreeing.
LEMMA AgreedBefore == ASSUME GoesOn, Agree' PROVE Agree
<1> SUFFICES ASSUME NEW i \in Job, NEW j \in Job, job[i].at # "idle", job[j].at # "idle"
             PROVE  job[i].want = job[j].want /\ ~job[i].failed
  BY DEF Agree
<1>1. /\ job'[i].at # "idle" /\ job'[i].want = job[i].want /\ (job[i].failed => job'[i].failed)
      /\ job'[j].at # "idle" /\ job'[j].want = job[j].want
  BY DEF GoesOn
<1>2. job'[i].want = job'[j].want /\ ~job'[i].failed
  BY <1>1 DEF Agree
<1> QED BY <1>1, <1>2

\* Nothing is made while no request has begun, so everything fits.
LEMMA NothingFits == ASSUME BInv, ~source.made, NEW w PROVE Fits(w, source, mirrors)
<1>1. source = NoSource /\ \A r \in Region : ~mirrors[r].made
  BY DEF BInv, TypeOK, StreamInv
<1> QED BY <1>1 DEF Fits, NoSource

\* One request takes a step: if what it leaves of the streams fits its own wish, it fits
\* the others', who wish the same or nothing counts.
LEMMA OneFits ==
    ASSUME RetInv, BInv', Steady, NEW j \in Job, NEW q \in JobType, job' = [job EXCEPT ![j] = q],
           job[j].at # "idle" \/ shared => q.want = job[j].want,
           q.at # "idle", job[j].failed => q.failed,
           /\ Agree /\ ~q.failed /\ Fits(q.want, source, mirrors)
           /\ job[j].at # "idle" => CallFits(job[j], source)
           => Fits(q.want, source', mirrors') /\ CallFits(q, source')
    PROVE  RetInv'
<1>1. job'[j] = q /\ \A h \in Job : h # j => job'[h] = job[h]
  BY Told DEF RetInv, BInv
<1>2. GoesOn
  BY <1>1 DEF GoesOn
<1>3. BegunInv'
  <2>1. \E h \in Job : job'[h].at # "idle"
    BY <1>1
  <2>2. ASSUME shared, NEW h \in Job PROVE job'[h].want = EnsureSetting
    BY <1>2, <2>2 DEF GoesOn, RetInv, BegunInv
  <2> QED BY <2>1, <2>2 DEF BegunInv, Steady
<1>4. ASSUME Agree', NEW k \in Job, job'[k].at # "idle"
      PROVE  Fits(job'[k].want, source', mirrors') /\ CallFits(job'[k], source')
  <2>1. Agree
    BY <1>2, <1>4, AgreedBefore
  <2>2. \A h \in Job : job'[h].at # "idle" => job'[h].want = q.want /\ ~q.failed
    BY <1>1, <1>4 DEF Agree
  <2>3. Fits(q.want, source, mirrors)
    <3>1. CASE \E h \in Job : job[h].at # "idle"
      <4>1. PICK h \in Job : job[h].at # "idle"
        BY <3>1
      <4>2. job[h].want = q.want
        BY <1>2, <2>2, <4>1 DEF GoesOn
      <4> QED BY <2>1, <4>1, <4>2 DEF RetInv
    <3>2. CASE ~ \E h \in Job : job[h].at # "idle"
      BY <3>2, NothingFits DEF RetInv, BegunInv
    <3> QED BY <3>1, <3>2
  <2>4. job[j].at # "idle" => CallFits(job[j], source)
    BY <2>1 DEF RetInv
  <2>5. Fits(q.want, source', mirrors') /\ CallFits(q, source')
    BY <1>1, <2>1, <2>2, <2>3, <2>4
  <2>6. CASE k = j
    BY <1>1, <2>5, <2>6
  <2>7. CASE k # j
    <3>1. job'[k] = job[k] /\ job[k].at # "idle" /\ job[k].want = q.want
      BY <1>1, <1>4, <2>2, <2>7
    <3>2. CallFits(job[k], source) /\ (job[k].at = "mirrors" => source.made)
      BY <2>1, <3>1 DEF RetInv, BInv, JInv
    <3>3. CallFits(job[k], source')
      BY <3>2 DEF CallFits, Steady
    <3> QED BY <2>5, <3>1, <3>3
  <2> QED BY <2>6, <2>7
<1> QED BY <1>3, <1>4 DEF RetInv

\* A request that only hears something, or goes on to a call that relies on nothing.
LEMMA HearsFits ==
    ASSUME RetInv, BInv', Steady, NEW j \in Job, NEW q \in JobType, job' = [job EXCEPT ![j] = q],
           job[j].at # "idle" \/ shared => q.want = job[j].want,
           q.at # "idle", job[j].failed => q.failed, UNCHANGED <<source, mirrors>>,
           q.at \notin {"update", "mirrors"}
    PROVE  RetInv'
<1>1. CallFits(q, source')
  BY DEF CallFits
<1> QED BY <1>1, OneFits

\* A request that ends changes no stream.
LEMMA EndsFits ==
    ASSUME RetInv, BInv', Steady, NEW j \in Job, NEW s \in {200, 500}, Ends(j, s),
           job[j].at # "idle" \/ shared, UNCHANGED <<source, mirrors>>
    PROVE  RetInv'
<1> DEFINE c == IF job[j].status = 0 THEN s ELSE job[j].status
           q == [job[j] EXCEPT !.at = "end", !.status = c]
<1>1. job[j] \in JobType
  BY DEF RetInv, BInv, TypeOK
<1>2. c \in Heard /\ "end" \in Places
  BY <1>1 DEF JobType, Places, Heard
<1>3. job' = [job EXCEPT ![j] = q]
  BY DEF Ends
<1> HIDE DEF c
<1>4. q \in JobType /\ q.at = "end" /\ q.want = job[j].want /\ q.failed = job[j].failed
  BY <1>1, <1>2 DEF JobType
<1> HIDE DEF q
<1>5. /\ q.at # "idle" /\ q.at \notin {"update", "mirrors"} /\ q.want = job[j].want
      /\ job[j].failed => q.failed
  BY <1>4
<1> QED BY <1>3, <1>4, <1>5, HearsFits

\* A call begins; a new wish only counts if it is the others'.
LEMMA BeginFits ==
    ASSUME RetInv, BInv', Steady, NEW j \in Job,
           CreateBucket(j) \/ EnsureBucket(j) \/ EnsureCheck(j)
    PROVE  RetInv'
<1>1. /\ job[j] \in JobType /\ job[j].at \in {"idle", "check"} /\ UNCHANGED <<source, mirrors>>
      /\ {"check", "create"} \subseteq Places
  BY DEF RetInv, BInv, TypeOK, CreateBucket, EnsureBucket, EnsureCheck, Places
<1>2. CASE CreateBucket(j)
  <2>1. PICK w \in Setting, g \in Tag \cup {NoTag} :
          job' = [job EXCEPT ![j] = [@ EXCEPT !.at = "create", !.want = w, !.tag = g]]
    BY <1>2 DEF CreateBucket
  <2> DEFINE q == [job[j] EXCEPT !.at = "create", !.want = w, !.tag = g]
  <2>2. w \in Wanted /\ g \in Tags
    BY DEF Wanted, Tags
  <2>3. job' = [job EXCEPT ![j] = q]
    BY <2>1
  <2>4. q \in JobType /\ q.at = "create" /\ q.failed = job[j].failed
    BY <1>1, <2>2 DEF JobType
  <2> HIDE DEF q
  <2>5. ~shared /\ job[j].at = "idle"
    BY <1>2 DEF CreateBucket
  <2> QED BY <1>1, <2>3, <2>4, <2>5, HearsFits
<1>3. CASE (Ends(j, 200) \/ Ends(j, 500)) /\ (EnsureBucket(j) \/ EnsureCheck(j))
  <2>1. job[j].at # "idle" \/ shared
    BY <1>3 DEF EnsureBucket, EnsureCheck
  <2> QED BY <1>1, <1>3, <2>1, EndsFits
<1>4. CASE EnsureBucket(j) /\ job' = [job EXCEPT ![j] = [@ EXCEPT !.at = "check"]]
  <2> DEFINE q == [job[j] EXCEPT !.at = "check"]
  <2>1. q \in JobType /\ q.at = "check" /\ q.failed = job[j].failed /\ q.want = job[j].want
    BY <1>1 DEF JobType
  <2>2. job' = [job EXCEPT ![j] = q]
    BY <1>4
  <2> HIDE DEF q
  <2> QED BY <1>1, <2>1, <2>2, HearsFits
<1>5. ASSUME EnsureCheck(j), NEW g \in Tag,
             job' = [job EXCEPT ![j] = [@ EXCEPT !.at = "create", !.tag = g]]
      PROVE  RetInv'
  <2> DEFINE q == [job[j] EXCEPT !.at = "create", !.tag = g]
  <2>1. g \in Tags
    BY DEF Tags
  <2>2. q \in JobType /\ q.at = "create" /\ q.failed = job[j].failed /\ q.want = job[j].want
    BY <1>1, <2>1 DEF JobType
  <2>3. job' = [job EXCEPT ![j] = q]
    BY <1>5
  <2> HIDE DEF q
  <2> QED BY <1>1, <2>2, <2>3, HearsFits
<1>6. EnsureBucket(j) => Ends(j, 200) \/ Ends(j, 500)
        \/ job' = [job EXCEPT ![j] = [@ EXCEPT !.at = "check"]]
  BY DEF EnsureBucket
<1>7. EnsureCheck(j) => Ends(j, 200) \/ Ends(j, 500)
        \/ \E g \in Tag : job' = [job EXCEPT ![j] = [@ EXCEPT !.at = "create", !.tag = g]]
  BY DEF EnsureCheck
<1> QED BY <1>2, <1>3, <1>4, <1>5, <1>6, <1>7

\* The source is made as its maker wishes, and nothing else is there yet.
LEMMA CreateSourceFits ==
    ASSUME RetInv, BInv', Steady, NEW j \in Job, CreateSource(j)
    PROVE  RetInv'
<1> DEFINE new == [made |-> TRUE, age |-> job[j].want.age, ttl |-> FALSE,
                   direct |-> FALSE, tag |-> job[j].tag]
<1>1. PICK o \in Outcomes :
        /\ source' = IF o.done /\ ~source.made THEN new ELSE source
        /\ IF o.ok THEN job' = [job EXCEPT ![j] = [@ EXCEPT !.at = "info"]] ELSE Ends(j, 500)
  BY DEF CreateSource
<1>2. /\ job[j] \in JobType /\ job[j].at = "create" /\ mirrors' = mirrors
      /\ {"info", "end"} \subseteq Places
  BY DEF RetInv, BInv, TypeOK, CreateSource, Places
<1>3. new.made /\ new.age = job[j].want.age /\ ~new.ttl
  OBVIOUS
<1> HIDE DEF new
<1>4. ASSUME Fits(job[j].want, source, mirrors) PROVE Fits(job[j].want, source', mirrors')
  <2>1. CASE source' = source
    BY <1>2, <1>4, <2>1
  <2>2. CASE ~source.made /\ source' = new
    <3>1. \A r \in Region : ~mirrors[r].made
      BY <2>2 DEF RetInv, BInv, StreamInv
    <3> QED BY <1>2, <1>3, <2>2, <3>1 DEF Fits
  <2> QED BY <1>1, <2>1, <2>2
<1>5. PICK q \in JobType : /\ job' = [job EXCEPT ![j] = q] /\ q.at \in {"info", "end"}
                           /\ q.want = job[j].want /\ q.failed = job[j].failed
  <2>1. CASE o.ok
    <3> DEFINE q == [job[j] EXCEPT !.at = "info"]
    <3>1. q \in JobType /\ q.at = "info" /\ q.want = job[j].want /\ q.failed = job[j].failed
      BY <1>2 DEF JobType
    <3>2. job' = [job EXCEPT ![j] = q]
      BY <1>1, <2>1
    <3> QED BY <3>1, <3>2
  <2>2. CASE ~o.ok
    <3> DEFINE c == IF job[j].status = 0 THEN 500 ELSE job[j].status
               q == [job[j] EXCEPT !.at = "end", !.status = c]
    <3>1. c \in Heard
      BY <1>2 DEF JobType, Heard
    <3>2. job' = [job EXCEPT ![j] = q]
      BY <1>1, <2>2 DEF Ends
    <3> HIDE DEF c
    <3>3. q \in JobType /\ q.at = "end" /\ q.want = job[j].want /\ q.failed = job[j].failed
      BY <1>2, <3>1 DEF JobType
    <3> QED BY <3>2, <3>3
  <2> QED BY <2>1, <2>2
<1>6. CallFits(q, source')
  BY <1>5 DEF CallFits
<1> QED BY <1>2, <1>4, <1>5, <1>6, OneFits

\* What is read of a source that fits does not ask for more than the reader.
LEMMA ReadInfoFits ==
    ASSUME RetInv, BInv', Steady, NEW j \in Job, ReadInfo(j)
    PROVE  RetInv'
<1> DEFINE at == IF NeedsUpdate(job[j].want, source) THEN "update" ELSE "mirrors"
<1>1. /\ job[j] \in JobType /\ job[j].at = "info" /\ UNCHANGED <<source, mirrors>>
      /\ {"update", "mirrors"} \subseteq Places /\ source \in SourceType
  BY DEF RetInv, BInv, TypeOK, ReadInfo, Places
<1>2. CASE job' = [job EXCEPT ![j] = [@ EXCEPT !.at = at, !.seen = source]]
  <2> DEFINE q == [job[j] EXCEPT !.at = at, !.seen = source]
  <2>1. at \in Places /\ at \in {"update", "mirrors"}
        /\ (at = "mirrors" => (job[j].want.ttl => source.ttl))
    BY <1>1 DEF NeedsUpdate
  <2>2. job' = [job EXCEPT ![j] = q]
    BY <1>2
  <2> HIDE DEF at
  <2>3. q \in JobType /\ q.at = at /\ q.seen = source /\ q.want = job[j].want
        /\ q.failed = job[j].failed
    BY <1>1, <2>1 DEF JobType
  <2> HIDE DEF q
  <2>4. ASSUME Fits(q.want, source, mirrors) PROVE CallFits(q, source')
    BY <1>1, <2>1, <2>3, <2>4 DEF Fits, CallFits
  <2> QED BY <1>1, <2>1, <2>2, <2>3, <2>4, OneFits
<1>3. CASE job' = [job EXCEPT ![j] = [@ EXCEPT !.at = "mirrors", !.failed = TRUE]]
  <2> DEFINE q == [job[j] EXCEPT !.at = "mirrors", !.failed = TRUE]
  <2>1. job' = [job EXCEPT ![j] = q]
    BY <1>3
  <2>2. q \in JobType /\ q.at = "mirrors" /\ q.failed /\ q.want = job[j].want
    BY <1>1 DEF JobType
  <2> HIDE DEF q
  <2> QED BY <1>1, <2>1, <2>2, OneFits
<1> QED BY <1>2, <1>3 DEF ReadInfo

\* The patch gives the source the TTL support that the requests ask for, and no more.
LEMMA UpdateSourceFits ==
    ASSUME RetInv, BInv', Steady, NEW j \in Job, UpdateSource(j)
    PROVE  RetInv'
<1> DEFINE p == Patched(job[j])
           t == job[j].seen.ttl \/ job[j].want.ttl
<1>1. PICK o \in Outcomes :
        /\ source' = IF o.done /\ (source.ttl => p.ttl) THEN p ELSE source
        /\ job' = [job EXCEPT ![j] = [@ EXCEPT !.at = "mirrors", !.failed = job[j].failed \/ ~o.ok]]
  BY DEF UpdateSource
<1>2. /\ job[j] \in JobType /\ job[j].at = "update" /\ mirrors' = mirrors /\ "mirrors" \in Places
      /\ job[j].seen \in SourceType /\ job[j].want \in Wanted
      /\ source.made /\ job[j].seen.age = source.age
  BY DEF RetInv, BInv, TypeOK, UpdateSource, Places, JobType, JInv
<1>3. p = [job[j].seen EXCEPT !.direct = TRUE, !.ttl = t] /\ t \in BOOLEAN
  BY <1>2 DEF Patched
<1>4. p.age = source.age /\ p.ttl = t
  BY <1>2, <1>3 DEF SourceType
<1> HIDE DEF p
<1> DEFINE f == job[j].failed \/ ~o.ok
           q == [job[j] EXCEPT !.at = "mirrors", !.failed = f]
<1>5. f \in BOOLEAN /\ (~f => ~job[j].failed /\ o.ok)
  OBVIOUS
<1>6. job' = [job EXCEPT ![j] = q]
  BY <1>1
<1>7. job[j].failed => f
  OBVIOUS
<1> HIDE DEF f
<1>8. q \in JobType /\ q.at = "mirrors" /\ q.failed = f /\ q.want = job[j].want
  BY <1>2, <1>5 DEF JobType
<1> HIDE DEF q
<1>9. ASSUME ~q.failed, Fits(q.want, source, mirrors), CallFits(job[j], source)
      PROVE  Fits(q.want, source', mirrors') /\ CallFits(q, source')
  <2>1. o.done
    BY <1>5, <1>8, <1>9 DEF Outcomes
  <2>2. t <=> q.want.ttl
    BY <1>2, <1>8, <1>9 DEF CallFits
  <2> HIDE DEF t
  <2>3. source.ttl => q.want.ttl
    BY <1>9 DEF Fits
  <2>4. source' = p
    BY <1>1, <1>4, <2>1, <2>2, <2>3
  <2>5. source'.age = source.age /\ (source'.ttl <=> q.want.ttl)
    BY <1>4, <2>2, <2>4
  <2>6. source.age = q.want.age
    BY <1>2, <1>9 DEF Fits
  <2>7. \A r \in Region : mirrors'[r].made =>
          mirrors'[r].age = q.want.age /\ (mirrors'[r].ttl <=> q.want.ttl)
    BY <1>2, <1>9, Zenon DEF Fits
  <2>8. CallFits(q, source')
    BY <1>8, <2>5 DEF CallFits
  <2> QED BY <2>5, <2>6, <2>7, <2>8 DEF Fits
<1>10. q.at # "idle" /\ job[j].at # "idle" /\ (job[j].failed => q.failed)
  BY <1>2, <1>7, <1>8
<1> QED BY <1>6, <1>8, <1>9, <1>10, OneFits

\* A mirror is made as its maker wishes, and the source has become so before.
LEMMA AddMirrorFits ==
    ASSUME RetInv, BInv', Steady, NEW j \in Job, AddMirror(j)
    PROVE  RetInv'
<1> DEFINE n == job[j].next
           r == Regions[n]
           w == job[j].want
           new == [made |-> TRUE, age |-> w.age, ttl |-> w.ttl]
<1>1. PICK o \in Outcomes :
        /\ mirrors' = IF o.done /\ ~mirrors[r].made THEN [mirrors EXCEPT ![r] = new] ELSE mirrors
        /\ job' = [job EXCEPT ![j] = [@ EXCEPT !.next = n + 1, !.failed = job[j].failed \/ ~o.ok,
                                               !.listed = job[j].listed \cup {x \in {r} : o.ok}]]
  BY DEF AddMirror
<1>2. /\ job[j] \in JobType /\ job[j].at = "mirrors" /\ source' = source /\ source.made
      /\ n \in DOMAIN Regions
  BY DEF RetInv, BInv, TypeOK, AddMirror, JInv
<1>3. r \in Region /\ n + 1 \in Due /\ DOMAIN mirrors = Region /\ job[j].listed \subseteq Region
  BY <1>2 DEF Region, JobType, Due, RetInv, BInv, TypeOK
<1> DEFINE f == job[j].failed \/ ~o.ok
           l == job[j].listed \cup {x \in {r} : o.ok}
           q == [job[j] EXCEPT !.next = n + 1, !.failed = f, !.listed = l]
<1>4. f \in BOOLEAN /\ l \subseteq Region /\ (job[j].failed => f)
  BY <1>3
<1>5. job' = [job EXCEPT ![j] = q]
  BY <1>1
<1>6. new.made /\ new.age = w.age /\ (new.ttl <=> w.ttl)
  OBVIOUS
<1>7. \A x \in Region : mirrors'[x] = mirrors[x] \/ mirrors'[x] = new
  BY <1>1, <1>3
<1> HIDE DEF f, l, new
<1>8. q \in JobType /\ q.at = "mirrors" /\ q.failed = f /\ q.want = w
  BY <1>2, <1>3, <1>4 DEF JobType
<1> HIDE DEF q, w
<1>9. ASSUME Fits(w, source, mirrors), CallFits(job[j], source)
      PROVE  Fits(w, source', mirrors') /\ CallFits(q, source')
  <2>1. source.age = w.age /\ (source.ttl <=> w.ttl)
    BY <1>2, <1>9 DEF Fits, CallFits, w
  <2>2. ASSUME NEW x \in Region, mirrors'[x].made
        PROVE  mirrors'[x].age = w.age /\ (mirrors'[x].ttl <=> w.ttl)
    <3>1. CASE mirrors'[x] = mirrors[x]
      BY <1>9, <2>2, <3>1 DEF Fits
    <3>2. CASE mirrors'[x] = new
      BY <1>6, <3>2
    <3> QED BY <1>7, <3>1, <3>2
  <2>3. CallFits(q, source')
    BY <1>2, <1>8, <2>1 DEF CallFits
  <2> QED BY <1>2, <2>1, <2>2, <2>3 DEF Fits
<1>10. w = job[j].want
  BY DEF w
<1> QED BY <1>2, <1>4, <1>5, <1>8, <1>9, <1>10, OneFits

\* The rest only ends requests, or tells their callers.
LEMMA OthersFit ==
    ASSUME RetInv, BInv', Steady, NEW j \in Job, Answer(j) \/ GiveUp(j)
    PROVE  RetInv'
<1>1. job[j] \in JobType /\ 500 \in Heard /\ UNCHANGED <<source, mirrors>>
  BY DEF RetInv, BInv, TypeOK, Heard, Answer, GiveUp
<1>2. CASE Answer(j)
  <2>1. Ends(j, 200) /\ job[j].at # "idle"
    BY <1>2 DEF Answer
  <2> QED BY <1>1, <2>1, EndsFits
<1>3. CASE GiveUp(j)
  <2> DEFINE q == [job[j] EXCEPT !.status = 500]
  <2>1. q \in JobType /\ q.at = job[j].at /\ q.seen = job[j].seen
        /\ q.failed = job[j].failed /\ q.want = job[j].want
    BY <1>1 DEF JobType
  <2>2. job' = [job EXCEPT ![j] = q] /\ job[j].at # "idle"
    BY <1>3 DEF GiveUp
  <2> HIDE DEF q
  <2>3. CallFits(job[j], source) => CallFits(q, source')
    BY <1>1, <2>1 DEF CallFits
  <2> QED BY <1>1, <2>1, <2>2, <2>3, OneFits
<1> QED BY <1>2, <1>3

\* A restart ends requests under way and changes no stream.
LEMMA RestartFits ==
    ASSUME RetInv, BInv', Restart
    PROVE  RetInv'
<1>1. UNCHANGED <<shared, source, mirrors>>
  BY DEF Restart
<1>2. ASSUME NEW j \in Job
      PROVE  /\ \/ job'[j] = job[j]
                \/ /\ job[j].at # "idle" /\ job'[j].at = "end"
                   /\ job'[j].want = job[j].want /\ job'[j].failed = job[j].failed
             /\ job[j] \in JobType
  <2> DEFINE lost == [job[j] EXCEPT !.at = "end", !.status = 500]
  <2>1. job[j] \in JobType
    BY DEF RetInv, BInv, TypeOK
  <2>2. lost.at = "end" /\ lost.want = job[j].want /\ lost.failed = job[j].failed
    BY <2>1 DEF JobType
  <2>3. job'[j] = IF job[j].at \in {"idle", "end"} THEN job[j] ELSE lost
    BY DEF Restart
  <2> HIDE DEF lost
  <2>4. CASE job[j].at \in {"idle", "end"}
    <3>1. job'[j] = job[j]
      BY <2>3, <2>4
    <3> QED BY <2>1, <3>1
  <2>5. CASE job[j].at \notin {"idle", "end"}
    <3>1. job'[j] = lost /\ job[j].at # "idle"
      BY <2>3, <2>5
    <3> QED BY <2>1, <2>2, <3>1
  <2> QED BY <2>4, <2>5
<1>3. GoesOn
  BY <1>2 DEF GoesOn
<1>4. BegunInv'
  BY <1>1, <1>3 DEF BegunInv, RetInv, GoesOn
<1>5. ASSUME Agree', NEW j \in Job, job'[j].at # "idle"
      PROVE  Fits(job'[j].want, source', mirrors') /\ CallFits(job'[j], source')
  <2>1. Agree /\ job[j].at # "idle" /\ job'[j].want = job[j].want
    BY <1>2, <1>3, <1>5, AgreedBefore
  <2>2. Fits(job[j].want, source, mirrors) /\ CallFits(job[j], source)
    BY <2>1 DEF RetInv
  <2>3. CallFits(job'[j], source)
    BY <1>2, <2>2 DEF CallFits
  <2> QED BY <1>1, <2>1, <2>2, <2>3
<1> QED BY <1>4, <1>5 DEF RetInv

\* Every step keeps what the retention property rests on.
LEMMA RetInvStep == RetInv /\ [Next]_vars => RetInv'
<1> SUFFICES ASSUME RetInv, [Next]_vars PROVE RetInv'
  OBVIOUS
<1>1. BInv' /\ Steady
  BY BInvNext DEF RetInv
<1>2. ASSUME NEW j \in Job, Handler(j) PROVE RetInv'
  BY <1>1, <1>2, BeginFits, CreateSourceFits, ReadInfoFits, UpdateSourceFits, AddMirrorFits,
     OthersFit DEF Handler
<1>3. CASE Restart
  BY <1>1, <1>3, RestartFits
<1>4. CASE UNCHANGED vars
  BY <1>1, <1>4 DEF vars, RetInv, BegunInv, Agree, Fits, CallFits
<1> QED BY <1>2, <1>3, <1>4 DEF Next

\* And it holds at the start.
LEMMA RetInvInit == Init => RetInv
<1> SUFFICES ASSUME Init PROVE RetInv
  OBVIOUS
<1>1. ~source.made /\ \A j \in Job : job[j].at = "idle" /\ job[j].want = EnsureSetting
  BY DEF Init, NoSource, NoJob
<1> QED BY <1>1, BInvInit DEF RetInv, BegunInv
-----------------------------------------------------------------------------
(* BInv holds in every state a run can reach. *)
THEOREM BucketsInvariant == Spec => []BInv
<1>1. Init => BInv
  BY BInvInit
<1>2. BInv /\ [Next]_vars => BInv'
  BY BInvNext
<1> QED
  BY <1>1, <1>2, PTL DEF Spec

(* The bucket's streams and the requests for it keep their types. *)
THEOREM BucketsTypeCorrect == Spec => []TypeOK
<1>1. BInv => TypeOK
  BY DEF BInv
<1> QED
  BY <1>1, BucketsInvariant, PTL

(* However many requests race, fail, are repeated or are lost, nothing that one of them
   settled in the source stream is taken away by another. *)
THEOREM SettingsStick == Spec => SourceSettingsStick
<1>1. BInv /\ [Next]_vars =>
        [source.made =>
            /\ source'.age = source.age /\ source'.tag = source.tag
            /\ source.ttl => source'.ttl
            /\ source.direct => source'.direct]_vars
  BY BInvNext DEF Steady
<1> QED
  BY <1>1, BucketsInvariant, PTL DEF Spec, SourceSettingsStick

(* A tenant told that its bucket is there has it whole, if no ignored call failed. *)
THEOREM CreatesAreComplete == Spec => []CreatedIsComplete
<1>1. BInv => CreatedIsComplete
  BY DEF BInv, JInv, Complete, CreatedIsComplete
<1> QED
  BY <1>1, BucketsInvariant, PTL

(* Mirrors that are reported exist, and so does the source of every mirror. *)
THEOREM MirrorsExist == Spec => []ListedMirrorsExist
<1>1. BInv => ListedMirrorsExist
  BY DEF BInv, JInv, StreamInv, ListedMirrorsExist
<1> QED
  BY <1>1, BucketsInvariant, PTL

(* While all requests ask for the same and no ignored call fails, every mirror expires
   values as its source does: retries, races and restarts do not pull them apart. *)
THEOREM RetriesAgree == Spec => []RetriesKeepRetention
<1>1. ASSUME RetInv PROVE RetriesKeepRetention
  <2> SUFFICES ASSUME Agree, NEW r \in Region, mirrors[r].made PROVE SameRetention(r)
    BY DEF RetriesKeepRetention, Agree
  <2>1. source.made
    BY <1>1 DEF RetInv, BInv, StreamInv
  <2>2. PICK j \in Job : job[j].at # "idle"
    BY <1>1, <2>1 DEF RetInv, BegunInv
  <2>3. Fits(job[j].want, source, mirrors)
    BY <1>1, <2>2 DEF RetInv
  <2>4. source.ttl \in BOOLEAN /\ mirrors[r].ttl \in BOOLEAN
    BY <1>1 DEF RetInv, BInv, TypeOK, SourceType
  <2>5. mirrors[r].age = source.age /\ (mirrors[r].ttl <=> source.ttl)
    BY <2>1, <2>3 DEF Fits
  <2> QED BY <2>4, <2>5 DEF SameRetention
<1> QED BY <1>1, RetInvInit, RetInvStep, PTL DEF Spec
=============================================================================
