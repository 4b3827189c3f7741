---------------------- MODULE MC_DuckDBInstanceCache ----------------------
(* Instances of DuckDBInstanceCache for TLC.                               *)
EXTENDS DuckDBInstanceCache

CONSTANTS a, b, c, d, file, memory

\* Three connections to one file and an isolated one in memory.
MCPathOf == [x \in Calls |-> IF x \in Isolated THEN memory ELSE file]
=============================================================================
