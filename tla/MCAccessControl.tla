--------------------------- MODULE MCAccessControl ---------------------------
(* TLC instances of AccessControl, and of Tenancy alone when there is no adapter. *)
EXTENDS AccessControl, TLC

CONSTANTS t1, t2, t3, k1, k2, k3, i1, i2, j1, j2, j3, a1, a2, nobody

NoAdapters == {}
AnyIds == Permutations(Tenant) \cup Permutations(Key) \cup Permutations(Job)
          \cup Permutations(Invite)
=============================================================================
