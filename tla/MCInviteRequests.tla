-------------------------- MODULE MCInviteRequests --------------------------
(* TLC instances of InviteRequests. *)
EXTENDS InviteRequests, TLC

CONSTANTS t1, t2, k1, k2, i1, i2, j1, j2, j3, r1, nobody

AnyIds == Permutations(Tenant) \cup Permutations(Key) \cup Permutations(Job)
          \cup Permutations(Invite) \cup Permutations(Request)
=============================================================================
