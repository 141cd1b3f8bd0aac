------------------------------- MODULE Placement -------------------------------
(***************************************************************************)
(* The placement engine of the control plane (internal/placement): Pick    *)
(* chooses the geo whose regions commit a write fastest, seen from an      *)
(* anchor, by a matrix of round-trip times that Client caches for a while  *)
(* and fetches from the latency hub otherwise.  Several handlers call Pick *)
(* at a time; each fetches on its own when the cache is stale, and the     *)
(* answers of the hub arrive in any order, late, broken, or not at all.    *)
(***************************************************************************)
EXTENDS Naturals, FiniteSets, FiniteSetsExt

CONSTANTS
    Region, Geo,
    GeoOf,          \* [Region -> Geo]
    Anchor,         \* the anchors asked for, regions or not
    Matrix,         \* what the hub may measure: partial functions on pairs <<from, to>>
    Caller,
    Replicas,       \* the numbers of replicas asked for
    None,
    Later,          \* bound: what the hub may measure after its first measurement
    MaxSamples      \* bound: measurements of the hub

ASSUME PlacementAssumption ==
    /\ IsFiniteSet(Region) /\ GeoOf \in [Region -> Geo]
    /\ Replicas \subseteq {1, 3, 5} /\ None \notin Matrix /\ Later \subseteq Matrix
    /\ \A m \in Matrix : \A p \in DOMAIN m : m[p] \in Nat

VARIABLES
    hub,        \* the matrix the hub has now
    samples,    \* how many it has had
    cached,     \* Client.cached, or None
    fresh,      \* is cached.FetchedAt less than the TTL ago
    picks       \* [Caller -> its call of Pick]

vars == <<hub, samples, cached, fresh, picks>>
-----------------------------------------------------------------------------
Known(m, from, to) == from = to \/ <<from, to>> \in DOMAIN m

\* Matrix.RTT without its second result: 0 if there is none.
RTT(m, from, to) == IF from = to \/ ~Known(m, from, to) THEN 0 ELSE m[<<from, to>>]

RegionsByGeo(geo) == {r \in Region : GeoOf[r] = geo}

\* The first k regions by distance from the anchor; the sort leaves equals in any order.
Nearest(m, anchor, regions, k) ==
    {s \in kSubset(k, regions) :
        \A a \in s, b \in regions \ s : RTT(m, anchor, a) <= RTT(m, anchor, b)}

Peers(m, chosen, leader) == {p \in chosen \ {leader} : Known(m, leader, p)}

\* Mutant: the median of all members instead of the peer that completes the majority.
QuorumPeerIdxHalf(k) == k \div 2

QuorumPeerIdx(k) == k \div 2 - 1

\* The regions of a set with enough measured peers to be its leader ...
Leaders(m, chosen) ==
    {l \in chosen : Cardinality(Peers(m, chosen, l)) > QuorumPeerIdx(Cardinality(chosen))}

\* ... and the entry at quorumPeerIdx of the sorted distances to its peers.
QuorumEdge(m, chosen, leader) ==
    LET peers == Peers(m, chosen, leader)
        idx == QuorumPeerIdx(Cardinality(chosen))
    IN  CHOOSE d \in {RTT(m, leader, p) : p \in peers} :
            /\ Cardinality({p \in peers : RTT(m, leader, p) < d}) <= idx
            /\ Cardinality({p \in peers : RTT(m, leader, p) <= d}) > idx

\* The best leader of the set, for a writer at the anchor.
WriteLatency(m, anchor, chosen) ==
    Min({RTT(m, anchor, l) + QuorumEdge(m, chosen, l) : l \in Leaders(m, chosen)})

\* scoreGeo: the candidates that a geo may come up with, eligible or not.
ScoreGeo(m, anchor, geo, k) ==
    {[geo |-> geo, regions |-> s, eligible |-> Leaders(m, s) # {},
      write |-> IF Leaders(m, s) = {} THEN 0 ELSE WriteLatency(m, anchor, s)] :
        s \in Nearest(m, anchor, RegionsByGeo(geo), k)}

\* Mutant: no sort, the first eligible geo that the map yields is taken.
BeatsUnsorted(c, d) == c.eligible

\* How Pick sorts candidates: eligible first, then by latency.
Beats(c, d) == c.eligible /\ (d.eligible => c.write <= d.write)

\* The candidates that Pick may put first; none if no geo is eligible.  A geo with fewer
\* regions than replicas has no candidate.
Decisions(m, anchor, k) ==
    IF k = 1 THEN {[geo |-> None, regions |-> {anchor}, eligible |-> TRUE, write |-> 0]}
    ELSE {c \in UNION {ScoreGeo(m, anchor, g, k) : g \in Geo} :
            /\ c.eligible
            /\ \A g \in Geo \ {c.geo} :
                  \/ ScoreGeo(m, anchor, g, k) = {}
                  \/ \E d \in ScoreGeo(m, anchor, g, k) : Beats(c, d)}
-----------------------------------------------------------------------------
\* A call of Pick is its way to a matrix: the anchor and the number of replicas it was
\* given matter only then, for the decision, one of Decisions(matrix, anchor, k), and
\* are left open until then.  Without a matrix, or a candidate, it fails.
Idle == [at |-> "idle", had |-> FALSE, matrix |-> None, why |-> "none"]

\* Pick goes on with matrix m, if it got one.
Ends(c, m, why) ==
    picks' = [picks EXCEPT ![c].at = "done", ![c].matrix = m, ![c].why = why]

PlacementInit ==
    /\ hub \in Matrix /\ samples = 1
    /\ cached = None /\ fresh = FALSE
    /\ picks = [c \in Caller |-> Idle]

Measure(m) ==
    /\ samples < MaxSamples /\ m # hub
    /\ hub' = m /\ samples' = samples + 1
    /\ UNCHANGED <<cached, fresh, picks>>

\* The TTL of what is cached runs out.
Expire ==
    /\ fresh
    /\ fresh' = FALSE
    /\ UNCHANGED <<hub, samples, cached, picks>>

\* Pick and Get: a fresh matrix is taken at once, with any other one the hub is asked
\* first.
Pick(c) ==
    /\ picks[c].at \in {"idle", "done"}
    /\ picks' = [picks EXCEPT ![c] =
           IF fresh THEN [at |-> "done", had |-> TRUE, matrix |-> cached, why |-> "fresh"]
           ELSE [Idle EXCEPT !.at = "fetch", !.had = cached # None]]
    /\ UNCHANGED <<hub, samples, cached, fresh>>

\* The hub answers with what it has ...
Served(c) ==
    /\ picks[c].at = "fetch"
    /\ picks' = [picks EXCEPT ![c].at = "body", ![c].matrix = hub]
    /\ UNCHANGED <<hub, samples, cached, fresh>>

\* ... which is stored when it has been read, whatever was stored meanwhile.
Fetched(c) ==
    /\ picks[c].at = "body"
    /\ cached' = picks[c].matrix /\ fresh' = TRUE
    /\ Ends(c, picks[c].matrix, "hub")
    /\ UNCHANGED <<hub, samples>>

\* Mutant: an error forgets what was cached.
LostForgets(c) ==
    /\ picks[c].at = "fetch"
    /\ cached' = None /\ fresh' = FALSE
    /\ Ends(c, cached, "lost")
    /\ UNCHANGED <<hub, samples>>

\* The hub is not reached, or not in time: any matrix cached by now will do.
Lost(c) ==
    /\ picks[c].at = "fetch"
    /\ Ends(c, cached, "lost")
    /\ UNCHANGED <<hub, samples, cached, fresh>>

\* Mutant: a broken answer is asked for again, and again.
BrokenAgain(c) ==
    /\ picks[c].at \in {"fetch", "body"}
    /\ picks' = [picks EXCEPT ![c].at = "fetch"]
    /\ UNCHANGED <<hub, samples, cached, fresh>>

\* A status other than 200, or a body that is cut off or is no JSON: an error.
Broken(c) ==
    /\ picks[c].at \in {"fetch", "body"}
    /\ Ends(c, None, "broken")
    /\ UNCHANGED <<hub, samples, cached, fresh>>

Fetching(c) == Served(c) \/ Fetched(c) \/ Lost(c) \/ Broken(c)

PlacementNext ==
    \/ \E m \in Later : Measure(m)
    \/ Expire
    \/ \E c \in Caller : Fetching(c) \/ Pick(c)

PlacementSpec == PlacementInit /\ [][PlacementNext]_vars

\* The client of the hub has a timeout, so every request to it ends.
FairPlacementSpec == PlacementSpec /\ \A c \in Caller : WF_vars(Fetching(c))
-----------------------------------------------------------------------------
(* Hub, cache and picks hold matrices of the hub, or none. *)
PlacementTypeOK ==
    /\ hub \in Matrix /\ samples \in Nat
    /\ cached \in Matrix \cup {None} /\ fresh \in BOOLEAN
    /\ picks \in [Caller -> [at : {"idle", "fetch", "body", "done"}, had : BOOLEAN,
                             matrix : Matrix \cup {None},
                             why : {"none", "fresh", "hub", "lost", "broken"}]]

MeasuredFrom(m, anchor, regions) == \A r \in regions : Known(m, anchor, r)

\* The times after which a write from the anchor has reached a majority of a set, over
\* all leaders and all majorities whose distances are measured.
CommitTimes(m, anchor, set) ==
    {RTT(m, anchor, lq[1]) + Max({RTT(m, lq[1], q) : q \in lq[2]}) :
        lq \in {x \in set \X SUBSET set :
                   /\ x[1] \in x[2] /\ 2 * Cardinality(x[2]) > Cardinality(set)
                   /\ \A q \in x[2] : Known(m, x[1], q)}}

\* What is true of a matrix is looked at once, before anybody asks for it.
Unasked == \A c \in Caller : picks[c] = Idle

(* The latency of a decision is that of a quorum: no leader and no majority of the k
   regions chosen commit a write earlier, and one does by then.  Where the anchor has no
   distance to a region, it counts as 0, and nothing is claimed. *)
QuorumIsReached ==
    Unasked =>
        \A a \in Anchor, k \in Replicas \ {1} :
            \A d \in Decisions(hub, a, k) :
                LET times == CommitTimes(hub, a, d.regions)
                IN  MeasuredFrom(hub, a, d.regions) =>
                        /\ Cardinality(d.regions) = k
                        /\ d.write \in times /\ \A t \in times : d.write <= t

(* The geo chosen is the best one: in each of the others there is a set of nearest
   regions that commits no write from the anchor earlier. *)
BestGeoWins ==
    Unasked =>
        \A a \in Anchor, k \in Replicas \ {1} :
            \A d \in Decisions(hub, a, k), g \in Geo :
                \/ ~MeasuredFrom(hub, a, Region)
                \/ g = d.geo \/ Cardinality(RegionsByGeo(g)) < k
                \/ \E s \in Nearest(hub, a, RegionsByGeo(g), k) :
                      \A t \in CommitTimes(hub, a, s) : d.write <= t

(* A stale matrix is better than none: once one has been fetched, no pick fails because
   the hub cannot be reached, however many fetches fail, overlap and arrive late. *)
StaleRatherThanFail ==
    \A c \in Caller :
        picks[c].why = "lost" /\ picks[c].had => picks[c].matrix # None

(* Every pick returns, with a decision or an error. *)
EveryPickReturns == \A c \in Caller : picks[c].at = "fetch" ~> picks[c].at = "done"
=============================================================================
