----------------------------- MODULE MCPlacement -----------------------------
(* TLC instance of Placement: five regions in na, three in eu, one in sa. *)
EXTENDS Placement

CONSTANTS c1, c2, none

Place == [n1 |-> 1, n2 |-> 2, n3 |-> 3, n4 |-> 4, n5 |-> 5, e1 |-> 6, e2 |-> 7, e3 |-> 8, s1 |-> 9]
Regions == DOMAIN Place
Geos == {"na", "eu", "sa"}
GeoOfRegion == [r \in Regions |-> IF Place[r] <= 5 THEN "na" ELSE IF Place[r] <= 8 THEN "eu" ELSE "sa"]

\* Round-trip times that differ by direction, with ties, from two numbers.
Measured(pairs, a, b) ==
    [p \in pairs |-> 1 + ((a * Place[p[1]] + b * Place[p[2]] + a * b) % 7)]
Pairs == {p \in Regions \X Regions : p[1] # p[2]}

\* Complete matrices, and some with holes: nothing from n1, nothing to e1 or e2, nothing
\* inside of na, nothing at all.
Complete == {Measured(Pairs, a, b) : a \in 0 .. 4, b \in 1 .. 5}
Holes ==
    {Measured({p \in Pairs : p[1] # "n1"}, 2, 3), Measured({p \in Pairs : p[2] \notin {"e1", "e2"}}, 3, 2),
     Measured({p \in Pairs : {GeoOfRegion[p[1]], GeoOfRegion[p[2]]} # {"na"}}, 2, 5),
     Measured({}, 1, 1)}
Matrices == Complete \cup Holes
TwoMatrices == {Measured(Pairs, 2, 3), Measured({}, 1, 1)}

Anchors == {"n1", "n4", "e2", "s1", "elsewhere"}
=============================================================================
