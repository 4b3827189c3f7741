------------------------- MODULE MC_ManifestPipeline -------------------------
EXTENDS ManifestPipeline
CONSTANTS r1, r2, h1, h2, d1, d2
MCHooks == << h1, h2 >>
MCCodeOf == [h \in {h1, h2} |-> h]
(* Each caller its own dictionary, or all one.                             *)
MCSharings == {[c \in Calls |-> IF c = r1 THEN d1 ELSE d2], [c \in Calls |-> d1]}
=============================================================================
