------------------------- MODULE MC_QueryPipeline -------------------------
(* Instances of QueryPipeline for TLC.                                     *)
EXTENDS QueryPipeline

CONSTANTS r1, r2, h1, h2, p1, p2, s1, s2

\* Two check plugins.
MCPluginOf == [s \in Subs |-> IF s = s1 THEN p1 ELSE p2]

\* Both subscriptions attach the same plugin.
MCSamePlugin == [s \in Subs |-> p1]

\* r1 retries once, the others not at all.
MCMaxAttempts == [r \in Requests |-> IF r = r1 THEN 2 ELSE 1]
=============================================================================
