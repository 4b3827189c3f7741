------------------------ MODULE MC_LimitedPipeline ------------------------
(* Instances of LimitedPipeline for TLC.                                   *)
EXTENDS LimitedPipeline

CONSTANTS r1, r2, r3, h1, p1, p2, s1, s2, q1, c1, c2

MCPluginOf == [s \in Subs |-> IF s = s1 THEN p1 ELSE p2]

\* r1 retries once, the others not at all.
MCMaxAttempts == [r \in Requests |-> IF r = r1 THEN 2 ELSE 1]

\* All calls run one query; r1 is another user's.
MCQueryOf == [r \in Requests |-> q1]
MCContextOf == [r \in Requests |-> IF r = r1 THEN c1 ELSE c2]
=============================================================================
