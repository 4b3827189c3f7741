-------------------------- MODULE MC_Transactions --------------------------
(* Instances of Transactions for TLC.                                      *)
EXTENDS Transactions

CONSTANTS t1, t2, t3, s1, s2, s3, c1, nobody

\* Both savepoints are in t1.
MCTxOf == [s \in Saves |-> t1]
=============================================================================
