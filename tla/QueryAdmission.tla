--------------------------- MODULE QueryAdmission ---------------------------
(***************************************************************************)
(* What SqlQueryPipeline.execute() promises its callers, without plugins,  *)
(* hooks, retries or counters: a call passes its gates once, executes its  *)
(* query only afterwards and only while fewer than Limit queries execute,  *)
(* may execute it again, settles, ends, and never executes after that.     *)
(***************************************************************************)
EXTENDS Naturals, FiniteSets

CONSTANTS Requests, Limit

VARIABLE phase

Phases == {"new", "gating", "ready", "executing", "settled", "done"}

Executing == {r \in Requests : phase[r] = "executing"}

Init == phase = [r \in Requests |-> "new"]

Move(r, from, to) == phase[r] = from /\ phase' = [phase EXCEPT ![r] = to]

Open(r) == Move(r, "new", "gating")

\* A pipeline may turn a call away without having opened it.
TurnAway(r) == Move(r, "new", "done") \/ Move(r, "new", "settled")

PassGates(r) == Move(r, "gating", "ready")

Begin(r) == Cardinality(Executing) < Limit /\ Move(r, "ready", "executing")

TryAgain(r) == Move(r, "executing", "ready")

Settle(r) == \E from \in {"gating", "ready", "executing"} : Move(r, from, "settled")

Close(r) == Move(r, "settled", "done")

Step(r) ==
    \/ PassGates(r) \/ Begin(r) \/ TryAgain(r) \/ Settle(r) \/ Close(r)

Next == \E r \in Requests : Open(r) \/ TurnAway(r) \/ Step(r)

Spec == Init /\ [][Next]_phase
=============================================================================
