--------------------------- MODULE Placement_proofs ---------------------------
(***************************************************************************)
(* Proofs about Placement, for any regions, matrices and numbers of        *)
(* replicas, and any number of concurrent picks.                           *)
(*                                                                         *)
(* The matrix client: that a pick does not fail for want of the hub is     *)
(* decided when it reads the cache again, long after it looked first; the  *)
(* invariant says what every step of the others leaves it in between.      *)
(*                                                                         *)
(* The decision: what sorting by distance and reading one element off the  *)
(* sorted list picks, against what a commit needs, a quorum counted as a   *)
(* set of replicas around its leader.                                      *)
(***************************************************************************)
EXTENDS Placement, FiniteSetTheorems, WellFoundedInduction, TLAPS

\* What one pick relies on, with cache the matrix cached.
CallInv(call, cache) ==
    /\ call.at \in {"fetch", "body"} => call.why = "none" /\ (call.had => cache # None)
    /\ call.at = "body" => call.matrix \in Matrix
    /\ call.why = "lost" /\ call.had => call.matrix # None

CacheInv ==
    /\ PlacementTypeOK
    /\ fresh => cached # None
    /\ \A c \in Caller : CallInv(picks[c], cached)
-----------------------------------------------------------------------------
(* Nobody has called, and nothing is cached. *)
LEMMA CacheInvInit == PlacementInit => CacheInv
<1> SUFFICES ASSUME PlacementInit PROVE CacheInv
  OBVIOUS
<1>1. PlacementTypeOK
  BY DEF PlacementInit, Idle, PlacementTypeOK
<1>2. \A c \in Caller : picks[c] = Idle
  BY DEF PlacementInit
<1> QED
  BY <1>1, <1>2 DEF PlacementInit, Idle, CacheInv, CallInv

(* Once a matrix is cached there is one for good, so what the others rely on stays. *)
LEMMA OnePick ==
  ASSUME CacheInv, NEW c \in Caller, PlacementTypeOK', fresh' => cached' # None,
         cached # None => cached' # None, CallInv(picks'[c], cached'),
         \A d \in Caller : d # c => picks'[d] = picks[d]
  PROVE  CacheInv'
<1>1. ASSUME NEW d \in Caller PROVE CallInv(picks'[d], cached')
  BY DEF CacheInv, CallInv
<1> QED
  BY <1>1 DEF CacheInv

\* Every step keeps the invariant of the cache.
LEMMA CacheInvStep == CacheInv /\ [PlacementNext]_vars => CacheInv'
<1> SUFFICES ASSUME CacheInv, [PlacementNext]_vars PROVE CacheInv'
  OBVIOUS
<1>1. ASSUME NEW c \in Caller, Pick(c) PROVE CacheInv'
  <2>1. PlacementTypeOK' /\ CallInv(picks'[c], cached')
    BY <1>1 DEF CacheInv, CallInv, PlacementTypeOK, Pick, Idle
  <2> QED
    BY <1>1, <2>1, OnePick DEF Pick, CacheInv, PlacementTypeOK
<1>2. ASSUME NEW c \in Caller, Served(c) PROVE CacheInv'
  <2>1. PlacementTypeOK' /\ CallInv(picks'[c], cached')
    BY <1>2 DEF CacheInv, CallInv, PlacementTypeOK, Served
  <2> QED
    BY <1>2, <2>1, OnePick DEF Served, CacheInv, PlacementTypeOK
<1>3. ASSUME NEW c \in Caller, Fetched(c) PROVE CacheInv'
  <2>1. cached' \in Matrix /\ cached' # None
    BY <1>3, PlacementAssumption DEF CacheInv, CallInv, Fetched
  <2>2. PlacementTypeOK' /\ CallInv(picks'[c], cached')
    BY <1>3, <2>1 DEF CacheInv, CallInv, PlacementTypeOK, Fetched, Ends
  <2> QED
    BY <1>3, <2>1, <2>2, OnePick DEF Fetched, Ends, CacheInv, PlacementTypeOK
<1>4. ASSUME NEW c \in Caller, Lost(c) PROVE CacheInv'
  <2>1. PlacementTypeOK' /\ CallInv(picks'[c], cached')
    BY <1>4 DEF CacheInv, CallInv, PlacementTypeOK, Lost, Ends
  <2> QED
    BY <1>4, <2>1, OnePick DEF Lost, Ends, CacheInv, PlacementTypeOK
<1>5. ASSUME NEW c \in Caller, Broken(c) PROVE CacheInv'
  <2>1. PlacementTypeOK' /\ CallInv(picks'[c], cached')
    BY <1>5 DEF CacheInv, CallInv, PlacementTypeOK, Broken, Ends
  <2> QED
    BY <1>5, <2>1, OnePick DEF Broken, Ends, CacheInv, PlacementTypeOK
<1>6. ASSUME NEW m \in Later, Measure(m) PROVE CacheInv'
  <2>1. m \in Matrix
    BY PlacementAssumption
  <2>2. hub' \in Matrix /\ samples' \in Nat
    BY <1>6, <2>1 DEF Measure, CacheInv, PlacementTypeOK
  <2> QED
    BY <1>6, <2>2 DEF Measure, CacheInv, PlacementTypeOK
<1>7. CASE Expire
  BY <1>7 DEF Expire, CacheInv, PlacementTypeOK
<1>8. CASE UNCHANGED vars
  BY <1>8 DEF vars, CacheInv, PlacementTypeOK
<1> QED
  BY <1>1, <1>2, <1>3, <1>4, <1>5, <1>6, <1>7, <1>8 DEF PlacementNext, Fetching
-----------------------------------------------------------------------------
(* Types: what is cached and what picks go on with comes from the hub. *)
THEOREM MatrixTypeCorrect == PlacementSpec => []PlacementTypeOK
<1>1. CacheInv => PlacementTypeOK
  BY DEF CacheInv
<1> QED
  BY <1>1, CacheInvInit, CacheInvStep, PTL DEF PlacementSpec

(* A hub that cannot be reached fails no pick that found a matrix when it began, with
   any number of picks whose fetches overlap, fail, or store what they got late. *)
THEOREM HubMayBeDown == PlacementSpec => []StaleRatherThanFail
<1>1. CacheInv => StaleRatherThanFail
  BY DEF CacheInv, CallInv, StaleRatherThanFail
<1> QED
  BY <1>1, CacheInvInit, CacheInvStep, PTL DEF PlacementSpec
-----------------------------------------------------------------------------
(* Order statistics.  Times are natural numbers, so every set of them has a least one;
   finitely many regions have a farthest one, by induction on the set of regions. *)
LEMMA LeastTime ==
  ASSUME NEW T, T \subseteq Nat, T # {}
  PROVE  /\ Min(T) \in T /\ \A t \in T : Min(T) <= t
<1> DEFINE R == OpToRel(<, Nat)
<1>1. \A x \in Nat, y \in Nat : y < x => <<y, x>> \in R
  BY DEF OpToRel
<1>2. IsWellFoundedOn(R, Nat)
  BY NatLessThanWellFounded
<1> HIDE DEF R
<1>3. PICK x \in T : \A y \in T : ~(<<y, x>> \in R)
  BY <1>2, WFMin
<1>4. ASSUME NEW y \in T PROVE x <= y
  <2>1. x \in Nat /\ y \in Nat /\ ~(y < x)
    BY <1>1, <1>3
  <2> QED BY <2>1
<1> QED BY <1>4 DEF Min

\* Distances are natural numbers.
LEMMA Distances ==
  ASSUME NEW m \in Matrix, NEW a, NEW b PROVE RTT(m, a, b) \in Nat
BY PlacementAssumption DEF RTT, Known

\* Of any regions one is closest to l ...
LEMMA Closest ==
  ASSUME NEW m \in Matrix, NEW l, NEW Q, Q # {}
  PROVE  \E x \in Q : \A y \in Q : RTT(m, l, x) <= RTT(m, l, y)
<1> DEFINE T == {RTT(m, l, x) : x \in Q}
<1>1. T \subseteq Nat /\ T # {}
  BY Distances
<1>2. Min(T) \in T /\ \A t \in T : Min(T) <= t
  <2> HIDE DEF T
  <2> QED BY <1>1, LeastTime
<1> QED BY <1>2

\* ... and of finitely many regions one is farthest.
LEMMA Farthest ==
  ASSUME NEW m \in Matrix, NEW l, NEW Q, IsFiniteSet(Q), Q # {}
  PROVE  \E x \in Q : \A y \in Q : RTT(m, l, y) <= RTT(m, l, x)
<1> DEFINE Has(S) == \E x \in S : \A y \in S : RTT(m, l, y) <= RTT(m, l, x)
           T == {S \in SUBSET Q : S # {} /\ ~Has(S)}
           R == StrictSubsetOrdering(Q)
<1> SUFFICES ASSUME ~Has(Q) PROVE FALSE
  OBVIOUS
<1>1. FiniteSubsetsOf(Q) = SUBSET Q /\ IsWellFoundedOn(R, FiniteSubsetsOf(Q))
  BY FS_FiniteSubsetsOfFinite, FS_StrictSubsetOrderingWellFounded
<1>2. T \subseteq SUBSET Q /\ T # {}
  OBVIOUS
<1>3. \A S \in SUBSET Q : \A x \in S : <<S \ {x}, S>> \in R
  BY <1>1 DEF StrictSubsetOrdering
<1>4. PICK S \in T : \A U \in T : ~(<<U, S>> \in R)
  <2> HIDE DEF T, R
  <2> QED BY <1>1, <1>2, WFMin
<1>5. PICK x \in S : TRUE
  BY <1>4
<1>6. S \ {x} \notin T
  BY <1>3, <1>4, <1>5
<1>7. RTT(m, l, x) \in Nat /\ \A y \in S : RTT(m, l, y) \in Nat
  BY Distances
<1>8. CASE S \ {x} = {}
  <2>1. \A y \in S : y = x
    BY <1>8
  <2>2. Has(S)
    BY <1>5, <1>7, <2>1
  <2> QED BY <1>4, <2>2
<1>9. CASE Has(S \ {x})
  <2>1. PICK z \in S \ {x} : \A y \in S \ {x} : RTT(m, l, y) <= RTT(m, l, z)
    BY <1>9
  <2>2. RTT(m, l, z) \in Nat
    BY Distances
  <2>3. CASE RTT(m, l, z) <= RTT(m, l, x)
    <3>1. \A y \in S : RTT(m, l, y) <= RTT(m, l, x)
      BY <1>7, <2>1, <2>2, <2>3
    <3> QED BY <1>4, <1>5, <3>1
  <2>4. CASE RTT(m, l, x) <= RTT(m, l, z)
    <3>1. \A y \in S : RTT(m, l, y) <= RTT(m, l, z)
      BY <1>7, <2>1, <2>2, <2>4
    <3> QED BY <1>4, <2>1, <3>1
  <2> QED BY <1>7, <2>2, <2>3, <2>4
<1>10. S \ {x} \in SUBSET Q
  BY <1>4
<1> QED BY <1>6, <1>8, <1>9, <1>10

\* The time until the farthest of finitely many regions has answered l.
LEMMA LastTime ==
  ASSUME NEW m \in Matrix, NEW l, NEW Q, IsFiniteSet(Q), Q # {}
  PROVE  /\ Max({RTT(m, l, q) : q \in Q}) \in {RTT(m, l, q) : q \in Q}
         /\ \A q \in Q : RTT(m, l, q) <= Max({RTT(m, l, r) : r \in Q})
<1> DEFINE T == {RTT(m, l, q) : q \in Q}
<1>1. PICK x \in Q : \A y \in Q : RTT(m, l, y) <= RTT(m, l, x)
  BY Farthest
<1>2. \A q \in Q : RTT(m, l, q) \in Nat
  BY Distances
<1>3. RTT(m, l, x) \in T /\ \A t \in T : RTT(m, l, x) >= t
  BY <1>1, <1>2
<1>4. Max(T) \in T /\ \A t \in T : Max(T) >= t
  <2> HIDE DEF T
  <2> QED BY <1>3 DEF Max
<1>5. \A q \in Q : RTT(m, l, q) <= Max(T)
  <2>1. \A t \in T : t \in Nat
    BY <1>2
  <2>2. \A q \in Q : RTT(m, l, q) \in T
    OBVIOUS
  <2> HIDE DEF T
  <2>3. Max(T) \in Nat
    BY <1>4, <2>1
  <2> QED BY <1>4, <2>1, <2>2, <2>3
<1> QED BY <1>4, <1>5
-----------------------------------------------------------------------------
\* The peers that have answered leader l when d has passed, and before.
By(m, s, l, d) == {p \in Peers(m, s, l) : RTT(m, l, p) <= d}
Before(m, s, l, d) == {p \in Peers(m, s, l) : RTT(m, l, p) < d}

\* A set of regions that a geo may come up with.
Choice(s) == IsFiniteSet(s) /\ Cardinality(s) \in {3, 5}

\* How many peers complete a majority, and how many are too few.
LEMMA Sizes ==
  ASSUME NEW s, Choice(s)
  PROVE  /\ QuorumPeerIdx(Cardinality(s)) \in {0, 1}
         /\ 2 * (QuorumPeerIdx(Cardinality(s)) + 2) > Cardinality(s)
         /\ \A n \in Nat : 2 * n > Cardinality(s) => n - 1 > QuorumPeerIdx(Cardinality(s))
<1>1. CASE Cardinality(s) = 3
  BY <1>1 DEF QuorumPeerIdx
<1>2. CASE Cardinality(s) = 5
  BY <1>2 DEF QuorumPeerIdx
<1> QED BY <1>1, <1>2 DEF Choice

\* Peers, and those of them that have answered, are finitely many.
LEMMA FewPeers ==
  ASSUME NEW m \in Matrix, NEW s, Choice(s), NEW l, NEW P \in SUBSET Peers(m, s, l)
  PROVE  IsFiniteSet(P) /\ Cardinality(P) \in Nat /\ (P = {} => Cardinality(P) = 0)
<1>1. P \in SUBSET s
  BY DEF Peers
<1>2. IsFiniteSet(P)
  BY <1>1, FS_Subset DEF Choice
<1> QED BY <1>2, FS_CardinalityType, FS_EmptySet

\* quorumPeerIdx picks a distance: enough peers are that close, too few are closer.
LEMMA EdgeIsOrderStatistic ==
  ASSUME NEW m \in Matrix, NEW s, Choice(s), NEW l \in Leaders(m, s)
  PROVE  /\ QuorumEdge(m, s, l) \in {RTT(m, l, p) : p \in Peers(m, s, l)}
         /\ Cardinality(Before(m, s, l, QuorumEdge(m, s, l))) <= QuorumPeerIdx(Cardinality(s))
         /\ Cardinality(By(m, s, l, QuorumEdge(m, s, l))) > QuorumPeerIdx(Cardinality(s))
<1> DEFINE idx == QuorumPeerIdx(Cardinality(s))
           D == {RTT(m, l, p) : p \in Peers(m, s, l)}
           T == {d \in D : Cardinality(By(m, s, l, d)) > idx}
           e == Min(T)
<1>1. idx \in Nat /\ Cardinality(Peers(m, s, l)) > idx
  BY Sizes DEF Leaders
<1>2. D \subseteq Nat
  BY Distances
<1>3. T # {}
  <2>1. IsFiniteSet(Peers(m, s, l)) /\ Peers(m, s, l) # {}
    BY <1>1, FewPeers
  <2>2. PICK x \in Peers(m, s, l) : \A y \in Peers(m, s, l) : RTT(m, l, y) <= RTT(m, l, x)
    BY <2>1, Farthest
  <2>3. By(m, s, l, RTT(m, l, x)) = Peers(m, s, l)
    BY <2>2 DEF By
  <2> QED BY <1>1, <2>2, <2>3
<1>4. e \in T /\ \A t \in T : e <= t
  <2>1. T \subseteq Nat
    BY <1>2
  <2> HIDE DEF T
  <2> QED BY <1>3, <2>1, LeastTime
<1>5. e \in Nat /\ e \in D /\ Cardinality(By(m, s, l, e)) > idx
  BY <1>2, <1>4
<1> HIDE DEF e
<1>6. Cardinality(Before(m, s, l, e)) <= idx
  <2> DEFINE B == Before(m, s, l, e)
  <2>1. IsFiniteSet(B) /\ Cardinality(B) \in Nat /\ (B = {} => Cardinality(B) = 0)
    BY FewPeers DEF Before
  <2>2. CASE B = {}
    BY <1>1, <2>1, <2>2
  <2>3. CASE B # {}
    <3>1. PICK y \in B : \A z \in B : RTT(m, l, z) <= RTT(m, l, y)
      BY <2>1, <2>3, Farthest
    <3>2. \A z \in Peers(m, s, l) : RTT(m, l, z) \in Nat
      BY Distances
    <3>3. y \in Peers(m, s, l) /\ RTT(m, l, y) \in D /\ RTT(m, l, y) < e
      BY <3>1 DEF Before
    <3>4. By(m, s, l, RTT(m, l, y)) = B
      BY <1>5, <3>1, <3>2, <3>3 DEF By, Before
    <3>5. RTT(m, l, y) \notin T
      BY <1>4, <1>5, <3>2, <3>3
    <3> QED BY <1>1, <2>1, <3>3, <3>4, <3>5
  <2> QED BY <2>2, <2>3
<1> DEFINE Edge(d) == /\ Cardinality({p \in Peers(m, s, l) : RTT(m, l, p) < d}) <= idx
                      /\ Cardinality({p \in Peers(m, s, l) : RTT(m, l, p) <= d}) > idx
<1>7. Edge(e)
  BY <1>5, <1>6 DEF By, Before
<1>8. QuorumEdge(m, s, l) = CHOOSE d \in D : Edge(d)
  BY DEF QuorumEdge
<1>9. QuorumEdge(m, s, l) \in D /\ Edge(QuorumEdge(m, s, l))
  <2> HIDE DEF D, Edge
  <2> QED BY <1>5, <1>7, <1>8
<1> QED BY <1>9 DEF By, Before

\* A leader commits when its edge has answered: with it, they are a majority.
LEMMA LeadersCommit ==
  ASSUME NEW m \in Matrix, NEW a, NEW s, Choice(s), NEW l \in Leaders(m, s)
  PROVE  RTT(m, a, l) + QuorumEdge(m, s, l) \in CommitTimes(m, a, s)
<1> DEFINE e == QuorumEdge(m, s, l)
           B == By(m, s, l, e)
           Q == B \cup {l}
           T == {RTT(m, l, q) : q \in Q}
<1>1. e \in {RTT(m, l, p) : p \in Peers(m, s, l)} /\ Cardinality(B) > QuorumPeerIdx(Cardinality(s))
  BY EdgeIsOrderStatistic
<1>2. e \in Nat
  BY <1>1, Distances
<1>3. l \in s /\ l \notin B /\ B \subseteq s /\ \A q \in Q : Known(m, l, q)
  BY DEF Leaders, By, Peers, Known
<1>4. IsFiniteSet(B) /\ Cardinality(B) \in Nat
  BY FewPeers DEF By
<1>5. IsFiniteSet(Q) /\ Cardinality(Q) = Cardinality(B) + 1
  BY <1>3, <1>4, FS_AddElement
<1>6. 2 * Cardinality(Q) > Cardinality(s)
  <2>1. Cardinality(s) \in Nat
    BY DEF Choice
  <2> QED BY <1>1, <1>4, <1>5, <2>1, Sizes
<1>7. \A q \in Q : RTT(m, l, q) <= e
  BY <1>2 DEF By, RTT
<1>8. e \in T
  BY <1>1, <1>2 DEF By
<1>9. Max(T) = e
  <2>1. Max(T) \in T /\ \A q \in Q : RTT(m, l, q) <= Max(T)
    BY <1>5, LastTime
  <2>2. Max(T) <= e /\ e <= Max(T) /\ Max(T) \in Nat
    BY <1>7, <1>8, <2>1, Distances
  <2> QED BY <1>2, <2>2
<1>10. <<l, Q>> \in {x \in s \X SUBSET s : /\ x[1] \in x[2] /\ 2 * Cardinality(x[2]) > Cardinality(s)
                                           /\ \A q \in x[2] : Known(m, x[1], q)}
  <2> HIDE DEF B
  <2> QED BY <1>3, <1>6
<1> HIDE DEF Q
<1>11. PICK x \in s \X SUBSET s : /\ x[1] = l /\ x[2] = Q
                                  /\ x[1] \in x[2] /\ 2 * Cardinality(x[2]) > Cardinality(s)
                                  /\ \A q \in x[2] : Known(m, x[1], q)
  BY <1>10
<1>12. RTT(m, a, l) + e = RTT(m, a, x[1]) + Max({RTT(m, x[1], q) : q \in x[2]})
  BY <1>9, <1>11
<1> HIDE DEF e
<1>13. RTT(m, a, l) + e \in CommitTimes(m, a, s)
  BY <1>11, <1>12 DEF CommitTimes
<1> QED BY <1>13 DEF e

\* No leader and no majority is earlier than that leader's edge.
LEMMA NoneIsEarlier ==
  ASSUME NEW m \in Matrix, NEW a, NEW s, Choice(s), NEW t \in CommitTimes(m, a, s)
  PROVE  \E l \in Leaders(m, s) : RTT(m, a, l) + QuorumEdge(m, s, l) <= t
<1>1. PICK x \in s \X SUBSET s :
        /\ x[1] \in x[2] /\ 2 * Cardinality(x[2]) > Cardinality(s)
        /\ \A q \in x[2] : Known(m, x[1], q)
        /\ t = RTT(m, a, x[1]) + Max({RTT(m, x[1], q) : q \in x[2]})
  BY DEF CommitTimes
<1> DEFINE l == x[1]
           Q == x[2]
           P == Q \ {l}
           M == Max({RTT(m, l, q) : q \in Q})
           idx == QuorumPeerIdx(Cardinality(s))
<1>2. l \in s /\ Q \in SUBSET s /\ l \in Q
  BY <1>1
<1>3. IsFiniteSet(Q) /\ Cardinality(Q) \in Nat
  BY <1>2, FS_Subset, FS_CardinalityType DEF Choice
<1>4. IsFiniteSet(P) /\ Cardinality(P) = Cardinality(Q) - 1
  BY <1>2, <1>3, FS_RemoveElement
<1>5. Cardinality(P) > idx /\ idx \in Nat
  BY <1>1, <1>3, <1>4, Sizes
<1>6. P \subseteq Peers(m, s, l)
  BY <1>1, <1>2 DEF Peers
<1>7. IsFiniteSet(Peers(m, s, l)) /\ Cardinality(Peers(m, s, l)) \in Nat
      /\ Cardinality(P) <= Cardinality(Peers(m, s, l)) /\ Cardinality(P) \in Nat
  BY <1>4, <1>6, FewPeers, FS_Subset, FS_CardinalityType
<1>8. l \in Leaders(m, s)
  BY <1>2, <1>5, <1>7 DEF Leaders
<1>9. M \in Nat /\ \A q \in Q : RTT(m, l, q) <= M
  <2>1. M \in {RTT(m, l, q) : q \in Q} /\ \A q \in Q : RTT(m, l, q) <= M
    BY <1>2, <1>3, LastTime
  <2> QED BY <2>1, Distances
<1> DEFINE e == QuorumEdge(m, s, l)
<1>10. e \in Nat /\ Cardinality(Before(m, s, l, e)) <= idx
  BY <1>8, EdgeIsOrderStatistic, Distances
<1>11. e <= M
  <2> SUFFICES ASSUME M < e PROVE FALSE
    BY <1>9, <1>10
  <2>1. P \subseteq Before(m, s, l, e)
    <3> SUFFICES ASSUME NEW q \in P PROVE RTT(m, l, q) < e
      BY <1>6 DEF Before
    <3> QED BY <1>9, <1>10, Distances
  <2>2. IsFiniteSet(Before(m, s, l, e)) /\ Cardinality(Before(m, s, l, e)) \in Nat
    BY FewPeers DEF Before
  <2>3. Cardinality(P) <= Cardinality(Before(m, s, l, e))
    BY <2>1, <2>2, FS_Subset
  <2> QED BY <1>5, <1>7, <1>10, <2>2, <2>3
<1>12. RTT(m, a, l) \in Nat
  BY Distances
<1>13. RTT(m, a, l) + e <= t
  <2>1. t = RTT(m, a, l) + M
    BY <1>1
  <2> HIDE DEF e, M, l
  <2> QED BY <1>9, <1>10, <1>11, <1>12, <2>1
<1> QED BY <1>8, <1>13

\* Times are natural numbers here, too.
LEMMA CommitTimesAreNat ==
  ASSUME NEW m \in Matrix, NEW a, NEW s, Choice(s)
  PROVE  CommitTimes(m, a, s) \subseteq Nat
<1> SUFFICES ASSUME NEW x \in s \X SUBSET s, x[1] \in x[2]
             PROVE  RTT(m, a, x[1]) + Max({RTT(m, x[1], q) : q \in x[2]}) \in Nat
  BY DEF CommitTimes
<1>1. IsFiniteSet(x[2]) /\ x[2] # {}
  BY FS_Subset DEF Choice
<1>2. Max({RTT(m, x[1], q) : q \in x[2]}) \in {RTT(m, x[1], q) : q \in x[2]}
  BY <1>1, LastTime
<1>3. \A q \in x[2] : RTT(m, x[1], q) \in Nat
  BY Distances
<1>4. Max({RTT(m, x[1], q) : q \in x[2]}) \in Nat /\ RTT(m, a, x[1]) \in Nat
  BY <1>2, <1>3, Distances
<1> QED BY <1>4

\* So the best leader's edge is the time of the fastest leader and majority.
LEMMA LatencyIsCommit ==
  ASSUME NEW m \in Matrix, NEW a, NEW s, Choice(s), Leaders(m, s) # {}
  PROVE  /\ WriteLatency(m, a, s) \in CommitTimes(m, a, s)
         /\ \A t \in CommitTimes(m, a, s) : WriteLatency(m, a, s) <= t
<1> DEFINE T == {RTT(m, a, l) + QuorumEdge(m, s, l) : l \in Leaders(m, s)}
<1>1. \A l \in Leaders(m, s) : QuorumEdge(m, s, l) \in Nat /\ RTT(m, a, l) \in Nat
  BY EdgeIsOrderStatistic, Distances
<1>2. T \subseteq Nat /\ T # {}
  BY <1>1
<1>3. T \subseteq CommitTimes(m, a, s)
  BY LeadersCommit
<1>4. \A t \in CommitTimes(m, a, s) : \E u \in T : u <= t
  BY NoneIsEarlier
<1>5. CommitTimes(m, a, s) \subseteq Nat
  BY CommitTimesAreNat
<1>6. WriteLatency(m, a, s) = Min(T)
  BY DEF WriteLatency
<1> HIDE DEF T
<1>7. Min(T) \in T /\ \A t \in T : Min(T) <= t
  BY <1>2, LeastTime
<1>8. ASSUME NEW t \in CommitTimes(m, a, s) PROVE Min(T) <= t
  <2>1. PICK u \in T : u <= t
    BY <1>4
  <2>2. Min(T) \in Nat /\ u \in Nat /\ t \in Nat /\ Min(T) <= u
    BY <1>2, <1>5, <1>7, <2>1
  <2> QED BY <2>1, <2>2
<1> QED BY <1>3, <1>6, <1>7, <1>8
-----------------------------------------------------------------------------
\* A geo's candidate is a choice of its nearest regions.
LEMMA NearestIsChoice ==
  ASSUME NEW m, NEW a, NEW g, NEW k \in {3, 5}, NEW s \in Nearest(m, a, RegionsByGeo(g), k)
  PROVE  Choice(s) /\ Cardinality(s) = k
<1>1. s \in SUBSET Region /\ Cardinality(s) = k
  BY DEF Nearest, kSubset, RegionsByGeo
<1> QED BY <1>1, FS_Subset, PlacementAssumption DEF Choice

\* One region more: the closest of the rest.
LEMMA OneMore ==
  ASSUME NEW m \in Matrix, NEW a, NEW R, IsFiniteSet(R), NEW k \in Nat, k < Cardinality(R),
         NEW s \in Nearest(m, a, R, k)
  PROVE  Nearest(m, a, R, k + 1) # {}
<1>1. s \in SUBSET R /\ Cardinality(s) = k
      /\ \A x \in s, y \in R \ s : RTT(m, a, x) <= RTT(m, a, y)
  BY DEF Nearest, kSubset
<1>2. IsFiniteSet(s) /\ R \ s # {}
  <2>1. s # R
    BY <1>1, FS_CardinalityType
  <2> QED BY <1>1, <2>1, FS_Subset
<1>3. PICK z \in R \ s : \A y \in R \ s : RTT(m, a, z) <= RTT(m, a, y)
  BY <1>2, Closest
<1> DEFINE n == s \cup {z}
<1>4. n \in SUBSET R /\ Cardinality(n) = k + 1
  BY <1>1, <1>2, <1>3, FS_AddElement
<1>5. \A x \in n, y \in R \ n : RTT(m, a, x) <= RTT(m, a, y)
  BY <1>1, <1>3
<1> HIDE DEF n
<1>6. n \in Nearest(m, a, R, k + 1)
  BY <1>4, <1>5 DEF Nearest, kSubset
<1> QED BY <1>6

\* A geo with enough regions has a candidate.
LEMMA EnoughRegions ==
  ASSUME NEW m \in Matrix, NEW a, NEW g, NEW k \in {3, 5}, ~(Cardinality(RegionsByGeo(g)) < k)
  PROVE  Nearest(m, a, RegionsByGeo(g), k) # {}
<1> DEFINE R == RegionsByGeo(g)
           Some(i) == Nearest(m, a, R, i) # {}
<1>1. IsFiniteSet(R) /\ Cardinality(R) \in Nat
  <2>1. R \in SUBSET Region
    BY DEF RegionsByGeo
  <2> QED BY <2>1, FS_Subset, FS_CardinalityType, PlacementAssumption
<1>2. Some(0)
  <2>1. {} \in Nearest(m, a, R, 0)
    BY FS_EmptySet DEF Nearest, kSubset
  <2> QED BY <2>1
<1>3. \A i \in Nat : Some(i) /\ i < Cardinality(R) => Some(i + 1)
  BY <1>1, OneMore
<1> HIDE DEF R, Some
<1>4. Cardinality(R) >= k
  BY <1>1 DEF R
<1>5. Some(1) /\ Some(2) /\ Some(3)
  <2>1. Some(0 + 1)
    BY <1>1, <1>2, <1>3, <1>4
  <2>2. Some(1 + 1)
    BY <1>1, <1>3, <1>4, <2>1
  <2>3. Some(2 + 1)
    BY <1>1, <1>3, <1>4, <2>2
  <2> QED BY <2>1, <2>2, <2>3
<1>6. CASE k = 3
  BY <1>5, <1>6 DEF Some, R
<1>7. CASE k = 5
  <2>1. Some(3 + 1)
    BY <1>1, <1>3, <1>4, <1>5, <1>7
  <2>2. Some(4 + 1)
    BY <1>1, <1>3, <1>4, <1>7, <2>1
  <2>3. Some(k)
    BY <1>7, <2>2
  <2> QED BY <2>3 DEF Some, R
<1> QED BY <1>6, <1>7

\* What Pick may decide, for more than one replica.
LEMMA DecisionIs ==
  ASSUME NEW m \in Matrix, NEW a, NEW k \in {3, 5}, NEW d \in Decisions(m, a, k)
  PROVE  /\ Choice(d.regions) /\ Cardinality(d.regions) = k
         /\ Leaders(m, d.regions) # {} /\ d.write = WriteLatency(m, a, d.regions)
         /\ \A g \in Geo \ {d.geo} : ScoreGeo(m, a, g, k) = {}
                                     \/ \E c \in ScoreGeo(m, a, g, k) : Beats(d, c)
<1>1. /\ d \in UNION {ScoreGeo(m, a, g, k) : g \in Geo} /\ d.eligible
      /\ \A g \in Geo \ {d.geo} : ScoreGeo(m, a, g, k) = {}
                                  \/ \E c \in ScoreGeo(m, a, g, k) : Beats(d, c)
  BY DEF Decisions
<1>2. PICK g \in Geo : d \in ScoreGeo(m, a, g, k)
  BY <1>1
<1>3. PICK s \in Nearest(m, a, RegionsByGeo(g), k) :
        d = [geo |-> g, regions |-> s, eligible |-> Leaders(m, s) # {},
             write |-> IF Leaders(m, s) = {} THEN 0 ELSE WriteLatency(m, a, s)]
  BY <1>2 DEF ScoreGeo
<1>4. d.regions = s /\ Leaders(m, s) # {} /\ d.write = WriteLatency(m, a, s)
  BY <1>1, <1>3
<1>5. Choice(s) /\ Cardinality(s) = k
  BY NearestIsChoice
<1> QED BY <1>1, <1>4, <1>5

(* The latency that Pick decides by is that of the fastest leader and majority among the
   regions chosen, for any finite regions, matrix of distances, with holes or without,
   and anchor. *)
THEOREM DecisionIsQuorum == PlacementSpec => []QuorumIsReached
<1>1. ASSUME PlacementTypeOK PROVE QuorumIsReached
  <2> SUFFICES ASSUME NEW a \in Anchor, NEW k \in Replicas \ {1}, NEW d \in Decisions(hub, a, k)
               PROVE  /\ Cardinality(d.regions) = k
                      /\ d.write \in CommitTimes(hub, a, d.regions)
                      /\ \A t \in CommitTimes(hub, a, d.regions) : d.write <= t
    BY DEF QuorumIsReached
  <2>1. hub \in Matrix /\ k \in {3, 5}
    BY <1>1, PlacementAssumption DEF PlacementTypeOK
  <2>2. /\ Choice(d.regions) /\ Cardinality(d.regions) = k
        /\ Leaders(hub, d.regions) # {} /\ d.write = WriteLatency(hub, a, d.regions)
    BY <2>1, DecisionIs
  <2> QED BY <2>1, <2>2, LatencyIsCommit
<1> QED BY <1>1, MatrixTypeCorrect, PTL

(* The geo that Pick decides for is the best one: every other geo with enough regions has
   a set of nearest regions that commits no write from the anchor earlier. *)
THEOREM DecisionIsBest == PlacementSpec => []BestGeoWins
<1>1. ASSUME PlacementTypeOK PROVE BestGeoWins
  <2> SUFFICES ASSUME NEW a \in Anchor, NEW k \in Replicas \ {1}, NEW d \in Decisions(hub, a, k),
                      NEW g \in Geo, g # d.geo, ~(Cardinality(RegionsByGeo(g)) < k)
               PROVE  \E s \in Nearest(hub, a, RegionsByGeo(g), k) :
                         \A t \in CommitTimes(hub, a, s) : d.write <= t
    BY DEF BestGeoWins
  <2>1. hub \in Matrix /\ k \in {3, 5}
    BY <1>1, PlacementAssumption DEF PlacementTypeOK
  <2>2. /\ Choice(d.regions) /\ Leaders(hub, d.regions) # {}
        /\ d.write = WriteLatency(hub, a, d.regions)
        /\ ScoreGeo(hub, a, g, k) = {} \/ \E c \in ScoreGeo(hub, a, g, k) : Beats(d, c)
    BY <2>1, DecisionIs
  <2>3. ScoreGeo(hub, a, g, k) # {}
    <3>1. PICK s \in Nearest(hub, a, RegionsByGeo(g), k) : TRUE
      BY <2>1, EnoughRegions
    <3> QED BY <3>1 DEF ScoreGeo
  <2>4. PICK c \in ScoreGeo(hub, a, g, k) : Beats(d, c)
    BY <2>2, <2>3
  <2>5. PICK s \in Nearest(hub, a, RegionsByGeo(g), k) :
          c = [geo |-> g, regions |-> s, eligible |-> Leaders(hub, s) # {},
               write |-> IF Leaders(hub, s) = {} THEN 0 ELSE WriteLatency(hub, a, s)]
    BY <2>4 DEF ScoreGeo
  <2>6. Choice(s)
    BY <2>1, NearestIsChoice
  <2>7. CASE Leaders(hub, s) = {}
    BY <2>1, <2>6, <2>7, NoneIsEarlier
  <2>8. CASE Leaders(hub, s) # {}
    <3>1. d.write <= WriteLatency(hub, a, s)
      BY <2>4, <2>5, <2>8 DEF Beats
    <3>2. /\ WriteLatency(hub, a, s) \in CommitTimes(hub, a, s)
          /\ \A t \in CommitTimes(hub, a, s) : WriteLatency(hub, a, s) <= t
      BY <2>1, <2>6, <2>8, LatencyIsCommit
    <3>3. d.write \in CommitTimes(hub, a, d.regions)
      BY <2>1, <2>2, LatencyIsCommit
    <3>4. ASSUME NEW t \in CommitTimes(hub, a, s) PROVE d.write <= t
      <4>1. d.write \in Nat /\ WriteLatency(hub, a, s) \in Nat /\ t \in Nat
        BY <2>1, <2>2, <2>6, <3>2, <3>3, CommitTimesAreNat
      <4> QED BY <3>1, <3>2, <4>1
    <3> QED BY <3>4
  <2> QED BY <2>7, <2>8
<1> QED BY <1>1, MatrixTypeCorrect, PTL
=============================================================================
