------------------------ MODULE MCReleaseLifecycle ------------------------
EXTENDS ReleaseLifecycle, TLC

CONSTANTS r1, r2, r3, c1, c2, q1, q2

\* The actor of c1 is in every canary, the other in none.
MCBucket == (c1 :> 3 @@ c2 :> 97)

Symmetric == Permutations({r1, r2, r3}) \cup Permutations({q1, q2})
============================================================================
