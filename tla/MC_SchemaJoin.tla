-------------------------- MODULE MC_SchemaJoin --------------------------
(* Instances of SchemaJoin for TLC.                                        *)
EXTENDS SchemaJoin

CONSTANTS t1, t2, t3, t4, t5, hidden
=============================================================================
