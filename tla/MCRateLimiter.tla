---------------------------- MODULE MCRateLimiter ----------------------------
EXTENDS RateLimiter, TLC

CONSTANTS r1, r2, auth, pub

\* The auth group has a smaller burst than the public one, on the same key.
Bursts == [g \in Groups |-> IF g = auth THEN 2 ELSE 3]
RequestSymmetry == Permutations(Requests)
=============================================================================
