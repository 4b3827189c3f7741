-------------------------- MODULE LimitedPipeline --------------------------
(***************************************************************************)
(* A SqlQueryPipeline with a TimeToLiveRateLimiter attached by use(): the  *)
(* two components composed.  Each action is an action of QueryPipeline     *)
(* together with what the plugin does in the same synchronous stretch:     *)
(* init() in the initQuery event, check() when the loop over checkPlugins  *)
(* reaches the limiter, end() in the endQuery event.                       *)
(***************************************************************************)
EXTENDS QueryPipeline

CONSTANTS
    Queries, Contexts, QueryOf, ContextOf, MaxPerQuery, MaxPerContext,
    HasLimitHook, Ttl, MaxTime, Cleared,    \* see RateLimiter
    Limiter                                 \* the rate limiter among Plugins

\* The limiter is attached at most once.
ASSUME LimiterAssumption ==
    /\ Limiter \in HasCheck
    /\ \A s, t \in Subs : PluginOf[s] = Limiter /\ PluginOf[t] = Limiter => s = t
ASSUME OptionsAssumption == QueryOf \in [Requests -> Queries] /\ MaxPerQuery \in Nat

VARIABLES
    qm, cm, now,    \* the limiter's state, see RateLimiter
    verdict         \* what the limiter's check() decided for each request

limiter == <<qm, cm, now, verdict>>

Pending == {"passing", "asking", "rejecting"}

LimiterSubs == {s \in Subs : PluginOf[s] = Limiter}
SeenByLimiter(r) == initBy[r] \cap LimiterSubs # {}

\* The life of a call as the limiter knows it.
LimiterStage(r) ==
    CASE ~SeenByLimiter(r) -> "idle"
      [] SeenByLimiter(r) /\ pc[r] = "ended" -> "ended"
      [] OTHER -> CASE verdict[r] = "none" -> "open"
                    [] verdict[r] = "asking" -> "limiting"
                    [] verdict[r] = "rejecting" -> "rejected"
                    [] OTHER -> "admitted"

RL == INSTANCE RateLimiter WITH stage <- [r \in Requests |-> LimiterStage(r)]

LimitedInit ==
    /\ Init
    /\ RL!Init
    /\ verdict = [r \in Requests |-> "none"]

-----------------------------------------------------------------------------

Mut_InitAfterAuthorization(r) ==
    /\ Execute(r)
    /\ IF SeenByLimiter(r)' /\ pc'[r] # "failed" THEN RL!CountIn(r) ELSE UNCHANGED <<qm, cm>>
    /\ UNCHANGED <<now, verdict>>

LimitedExecute(r) ==
    /\ Execute(r)
    /\ IF SeenByLimiter(r)' THEN RL!CountIn(r) ELSE UNCHANGED <<qm, cm>>
    /\ UNCHANGED <<now, verdict>>

Mut_VerdictWithoutLimit(r) == IF HasLimitHook THEN "asking" ELSE "passing"

\* check() decides before its first await; only the limit hook can change a pass.
Verdict(r) ==
    IF RL!OverQueryLimit(r) \/ RL!OverContextLimit(r) THEN "rejecting"
    ELSE IF HasLimitHook THEN "asking" ELSE "passing"

\* The loop calls check() of the plugin it has just reached; `decided` is the
\* verdict of r as far as the loop has got.
ReachPlugin(r, decided) ==
    IF pc'[r] = "checking" /\ checkPlugins[cursor'[r]] = Limiter
    THEN cm' = RL!Swept /\ verdict' = [verdict EXCEPT ![r] = Verdict(r)]
    ELSE cm' = cm /\ verdict' = [verdict EXCEPT ![r] = decided]

LimitedEnterChecks(r) ==
    /\ EnterChecks(r)
    /\ ReachPlugin(r, verdict[r])
    /\ UNCHANGED <<qm, now>>

LimitedCheckPasses(r) ==
    /\ verdict[r] # "rejecting"
    /\ CheckPasses(r)
    /\ ReachPlugin(r, IF verdict[r] \in Pending THEN "passed" ELSE verdict[r])
    /\ UNCHANGED <<qm, now>>

LimitedCheckRejects(r) ==
    /\ verdict[r] # "passing"
    /\ CheckRejects(r)
    /\ verdict' = [verdict EXCEPT ![r] = IF @ \in Pending THEN "rejecting" ELSE @]
    /\ UNCHANGED <<qm, cm, now>>

\* end() runs for a limiter attached now, whether or not its init() ran.
LimitedEnd(r) ==
    /\ End(r)
    /\ IF endBy'[r] \cap LimiterSubs # {} THEN RL!CountOut(r) ELSE UNCHANGED <<qm, cm>>
    /\ UNCHANGED <<now, verdict>>

\* The steps of the pipeline in which the limiter has no part.
OtherSteps(r) ==
    \/ HookAllows(r) \/ HookDenies(r)
    \/ Attempt(r) \/ QueryResolves(r) \/ QueryRejects(r)

LimitedNext ==
    \/ /\ \/ \E s \in Subs : Use(s) \/ Unsubscribe(s)
          \/ \E h \in Hooks : RegisterAuthorization(h)
       /\ UNCHANGED limiter
    \/ \E r \in Requests :
        \/ LimitedExecute(r) \/ LimitedEnterChecks(r)
        \/ LimitedCheckPasses(r) \/ LimitedCheckRejects(r) \/ LimitedEnd(r)
        \/ OtherSteps(r) /\ UNCHANGED limiter
    \/ UNCHANGED <<vars, verdict>> /\ RL!Tick

LimitedSpec == LimitedInit /\ [][LimitedNext]_<<vars, limiter>>

-----------------------------------------------------------------------------
(* Properties.                                                             *)

\* Configured at rest, the pipeline calls the limiter as RateLimiter assumes:
\* init() first, one check(), end() exactly once and last.  Everything shown of
\* the limiter there holds of it here.
ImplementsLimiter == RL!Spec

\* maxConcurrent of the limiter bounds the queries that execute, for the calls
\* that the limiter saw the beginning of.
LimitBoundsExecution ==
    \A q \in Queries :
        Cardinality({r \in Running : SeenByLimiter(r) /\ QueryOf[r] = q}) <= MaxPerQuery

=============================================================================
