-------------------------- MODULE MC_RateLimiter --------------------------
(* Instances of RateLimiter for TLC.                                       *)
EXTENDS RateLimiter

CONSTANTS r1, r2, r3, r4, r5, q1, q2, c1, c2

\* Two calls of one query by each of two users, and one call of another query.
MCQueryOf == [r \in Requests |-> IF r = r4 THEN q2 ELSE q1]
MCContextOf == [r \in Requests |-> IF r \in {r3, r5} THEN c2 ELSE c1]
=============================================================================
