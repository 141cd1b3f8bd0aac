------------------------------ MODULE MCBuckets ------------------------------
(* TLC instances of Buckets. *)
EXTENDS Buckets, TLC

CONSTANTS r1, r2, na, eu, untagged, j1, j2, j3

TwoRegions == <<r1, r2>>
AnyJobs == Permutations(Job)
=============================================================================
