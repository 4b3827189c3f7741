----------------------- MODULE MC_LocalDataSession -----------------------
(* Instances of LocalDataSession for TLC.                                  *)
EXTENDS LocalDataSession

CONSTANTS f1, f2, f3
=============================================================================
