--------------------------- MODULE QueryPipeline ---------------------------
(***************************************************************************)
(* SqlQueryPipeline (packages/core/src/execution/sql-query-pipeline.ts)    *)
(* and the retry loop it runs (packages/core/src/core/query/sql-retry.ts). *)
(*                                                                         *)
(* One JavaScript thread runs everything, so an action is what happens     *)
(* between two awaits.  Calls of execute() interleave with each other and  *)
(* with the host calling use(), the unsubscribe functions, clear() and     *)
(* registerAuthorization() whenever a call is suspended.                   *)
(***************************************************************************)
EXTENDS Integers, Sequences, SequencesExt, FiniteSets

CONSTANTS
    Requests,       \* calls of execute()
    Tagged,         \* the requests whose query has authorization tags
    Plugins,        \* plugin objects
    HasCheck,       \* the plugins that define check()
    Subs,           \* calls of use(), i.e. subscriptions
    PluginOf,       \* the plugin each subscription attaches
    Hooks,          \* authorization hooks
    MaxConcurrent,  \* options.maxConcurrent
    MaxAttempts,    \* retry.maxAttempts of each request, 1 without retry
    CustomRetry,    \* the requests whose retry options define shouldRetry
    Host            \* what the host does beyond configuring at rest

HostBehaviours == {"midflight", "clear", "stale"}

ASSUME RequestsFinite == IsFiniteSet(Requests)
ASSUME PluginAssumption == HasCheck \subseteq Plugins /\ PluginOf \in [Subs -> Plugins]
ASSUME LimitAssumption == MaxConcurrent \in Nat
ASSUME RetryAssumption ==
    MaxAttempts \in [Requests -> Nat \ {0}] /\ CustomRetry \subseteq Requests
ASSUME HostAssumption == Host \subseteq HostBehaviours

VARIABLES
    sub,            \* each subscription: not made yet, attached, removed
    checkPlugins,   \* this.checkPlugins
    authorizeHooks, \* this.authorizeHooks
    cleared,        \* clear() replaced the prototype of the pipeline
    disturbed,      \* history: calls that saw an unsubscription or clear()
    inFlight,       \* this.inFlight
    pc,             \* where each request is suspended
    cursor,         \* index of the array iterator of the loop it is in
    asked,          \* hooks called for the request
    checked,        \* plugins whose check() was called for the request
    attempt,        \* attempts of the query started so far
    owed,           \* hooks registered when execute() was called
    initBy,         \* subscriptions whose init listener ran
    endBy           \* subscriptions whose end listener ran

config == <<sub, checkPlugins, authorizeHooks, cleared, disturbed>>
progress == <<pc, cursor, asked, checked, attempt, owed, initBy, endBy>>
vars == <<config, inFlight, progress>>

Attached == {s \in Subs : sub[s] = "on"}

Stages == {"idle", "authorizing", "authorized", "checking", "admitted",
           "running", "backoff", "succeeded", "failed", "ended", "typeError"}

Resting == {"idle", "ended", "typeError"}

Running == {r \in Requests : pc[r] = "running"}

TypeOK ==
    /\ sub \in [Subs -> {"unused", "on", "off"}]
    /\ checkPlugins \in Seq(HasCheck)
    /\ authorizeHooks \in Seq(Hooks)
    /\ cleared \in BOOLEAN
    /\ disturbed \in SUBSET Requests
    /\ inFlight \in Nat
    /\ pc \in [Requests -> Stages]
    /\ cursor \in [Requests -> Nat]
    /\ asked \in [Requests -> SUBSET Hooks]
    /\ checked \in [Requests -> SUBSET Plugins]
    /\ attempt \in [Requests -> Nat]
    /\ owed \in [Requests -> SUBSET Hooks]
    /\ initBy \in [Requests -> SUBSET Subs]
    /\ endBy \in [Requests -> SUBSET Subs]

Init ==
    /\ sub = [s \in Subs |-> "unused"]
    /\ checkPlugins = <<>>
    /\ authorizeHooks = <<>>
    /\ cleared = FALSE
    /\ disturbed = {}
    /\ inFlight = 0
    /\ pc = [r \in Requests |-> "idle"]
    /\ cursor = [r \in Requests |-> 0]
    /\ asked = [r \in Requests |-> {}]
    /\ checked = [r \in Requests |-> {}]
    /\ attempt = [r \in Requests |-> 0]
    /\ owed = [r \in Requests |-> {}]
    /\ initBy = [r \in Requests |-> {}]
    /\ endBy = [r \in Requests |-> {}]

-----------------------------------------------------------------------------
(* Configuration by the host.                                              *)

\* A host without "midflight" configures the pipeline only while no call of
\* execute() is suspended in it.
Configurable ==
    /\ ~cleared
    /\ "midflight" \in Host \/ \A r \in Requests : pc[r] \in Resting

Suspended == {r \in Requests : pc[r] \notin Resting}

\* Bound: each subscription is one call of use().
Use(s) ==
    /\ Configurable
    /\ sub[s] = "unused"
    /\ sub' = [sub EXCEPT ![s] = "on"]
    /\ checkPlugins' = IF PluginOf[s] \in HasCheck
                       THEN Append(checkPlugins, PluginOf[s])
                       ELSE checkPlugins
    /\ UNCHANGED <<authorizeHooks, cleared, disturbed, inFlight, progress>>

\* The closure returned by use().  It finds the plugin by identity, so calling
\* it again ("stale") still removes an entry pushed by another subscription.
Unsubscribe(s) ==
    /\ Configurable
    /\ sub[s] = "on" \/ ("stale" \in Host /\ sub[s] = "off")
    /\ sub' = [sub EXCEPT ![s] = "off"]
    /\ checkPlugins' = RemoveFirst(checkPlugins, PluginOf[s])
    /\ disturbed' = disturbed \cup Suspended
    /\ UNCHANGED <<authorizeHooks, cleared, inFlight, progress>>

\* Bound: each hook is registered once.
RegisterAuthorization(h) ==
    /\ Configurable
    /\ h \notin ToSet(authorizeHooks)
    /\ authorizeHooks' = Append(authorizeHooks, h)
    /\ UNCHANGED <<sub, checkPlugins, cleared, disturbed, inFlight, progress>>

\* clear() empties both arrays and gives the pipeline the prototype of a bare
\* EventTarget: the methods of SqlQueryPipeline are gone, the listeners stay.
Clear ==
    /\ "clear" \in Host
    /\ Configurable
    /\ checkPlugins' = <<>>
    /\ authorizeHooks' = <<>>
    /\ cleared' = TRUE
    /\ disturbed' = disturbed \cup Suspended
    /\ UNCHANGED <<sub, inFlight, progress>>

-----------------------------------------------------------------------------
(* execute().                                                              *)

Goto(r, stage) == pc' = [pc EXCEPT ![r] = stage]

\* `for (const x of array) await f(x)`: the iterator reads the live array, so
\* the element after position i is whatever is at i + 1 now.
Advance(r, array, seen, stage, after) ==
    LET next == cursor[r] + 1 IN
    IF next <= Len(array)
    THEN /\ cursor' = [cursor EXCEPT ![r] = next]
         /\ seen' = [seen EXCEPT ![r] = @ \cup {array[next]}]
         /\ Goto(r, stage)
    ELSE /\ cursor' = [cursor EXCEPT ![r] = 0]
         /\ seen' = seen
         /\ Goto(r, after)

Mut_NoHookAllows(r) ==
    /\ pc[r] = "idle"
    /\ ~cleared
    /\ initBy' = [initBy EXCEPT ![r] = Attached]
    /\ owed' = [owed EXCEPT ![r] = ToSet(authorizeHooks)]
    /\ IF r \notin Tagged
       THEN Goto(r, "authorized") /\ UNCHANGED <<cursor, asked>>
       ELSE Advance(r, authorizeHooks, asked, "authorizing", "authorized")
    /\ UNCHANGED <<config, inFlight, checked, attempt, endBy>>

\* dispatchEvent(initQuery) and runAuthorize up to its first await.
Execute(r) ==
    /\ pc[r] = "idle"
    /\ ~cleared
    /\ initBy' = [initBy EXCEPT ![r] = Attached]
    /\ owed' = [owed EXCEPT ![r] = ToSet(authorizeHooks)]
    /\ \/ /\ r \notin Tagged
          /\ Goto(r, "authorized")
          /\ UNCHANGED <<cursor, asked>>
       \/ /\ r \in Tagged
          /\ authorizeHooks = <<>>
          /\ Goto(r, "failed")
          /\ UNCHANGED <<cursor, asked>>
       \/ /\ r \in Tagged
          /\ authorizeHooks # <<>>
          /\ Advance(r, authorizeHooks, asked, "authorizing", "authorized")
    /\ UNCHANGED <<config, inFlight, checked, attempt, endBy>>

\* After clear() the pipeline has no method execute.
ExecuteCleared(r) ==
    /\ pc[r] = "idle"
    /\ cleared
    /\ Goto(r, "typeError")
    /\ UNCHANGED <<config, inFlight, cursor, asked, checked, attempt, owed, initBy, endBy>>

HookAllows(r) ==
    /\ pc[r] = "authorizing"
    /\ Advance(r, authorizeHooks, asked, "authorizing", "authorized")
    /\ UNCHANGED <<config, inFlight, checked, attempt, owed, initBy, endBy>>

HookDenies(r) ==
    /\ pc[r] = "authorizing"
    /\ Goto(r, "failed")
    /\ UNCHANGED <<config, inFlight, cursor, asked, checked, attempt, owed, initBy, endBy>>

\* this.runCheckPlugins(...) up to its first await; a TypeError once cleared.
EnterChecks(r) ==
    /\ pc[r] = "authorized"
    /\ IF cleared
       THEN Goto(r, "failed") /\ cursor' = cursor /\ checked' = checked
       ELSE Advance(r, checkPlugins, checked, "checking", "admitted")
    /\ UNCHANGED <<config, inFlight, asked, attempt, owed, initBy, endBy>>

Mut_FirstCheckDecides(r) ==
    /\ pc[r] = "checking"
    /\ Goto(r, "admitted")
    /\ cursor' = [cursor EXCEPT ![r] = 0]
    /\ UNCHANGED <<config, inFlight, asked, checked, attempt, owed, initBy, endBy>>

CheckPasses(r) ==
    /\ pc[r] = "checking"
    /\ Advance(r, checkPlugins, checked, "checking", "admitted")
    /\ UNCHANGED <<config, inFlight, asked, attempt, owed, initBy, endBy>>

CheckRejects(r) ==
    /\ pc[r] = "checking"
    /\ Goto(r, "failed")
    /\ UNCHANGED <<config, inFlight, cursor, asked, checked, attempt, owed, initBy, endBy>>

\* runWithRetry's decision after attempt n of request r failed with err.
RetryVerdicts(r, n, err) ==
    IF n >= MaxAttempts[r] THEN {FALSE}
    ELSE IF r \in CustomRetry THEN BOOLEAN
    ELSE {err = "retryable"}

AttemptFails(r, n, err) ==
    \E again \in RetryVerdicts(r, n, err) :
        Goto(r, IF again THEN "backoff" ELSE "failed")

Mut_LimitOffByOne == cleared \/ inFlight > MaxConcurrent

Mut_ClearKeepsMethods == inFlight >= MaxConcurrent

\* checkMaxConcurrent throws at the limit; once cleared it is undefined.
Refused == cleared \/ inFlight >= MaxConcurrent

\* One call of fn(attempt) by runWithRetry up to executeQuery's await.
Attempt(r) ==
    /\ pc[r] \in {"admitted", "backoff"}
    /\ attempt' = [attempt EXCEPT ![r] = @ + 1]
    /\ IF Refused
       THEN AttemptFails(r, attempt[r] + 1, "fatal") /\ inFlight' = inFlight
       ELSE Goto(r, "running") /\ inFlight' = inFlight + 1
    /\ UNCHANGED <<config, cursor, asked, checked, owed, initBy, endBy>>

QueryResolves(r) ==
    /\ pc[r] = "running"
    /\ inFlight' = inFlight - 1
    /\ Goto(r, "succeeded")
    /\ UNCHANGED <<config, cursor, asked, checked, attempt, owed, initBy, endBy>>

QueryRejects(r) ==
    /\ pc[r] = "running"
    /\ inFlight' = inFlight - 1
    /\ \E err \in {"retryable", "fatal"} : AttemptFails(r, attempt[r], err)
    /\ UNCHANGED <<config, cursor, asked, checked, attempt, owed, initBy, endBy>>

\* What a call keeps while it is under way goes with it.
Forget(r) ==
    /\ cursor' = [cursor EXCEPT ![r] = 0]
    /\ asked' = [asked EXCEPT ![r] = {}]
    /\ checked' = [checked EXCEPT ![r] = {}]
    /\ attempt' = [attempt EXCEPT ![r] = 0]
    /\ owed' = [owed EXCEPT ![r] = {}]

Mut_EndOnlyOnSuccess(r) ==
    /\ pc[r] \in {"succeeded", "failed"}
    /\ endBy' = [endBy EXCEPT ![r] = IF cleared \/ pc[r] = "failed" THEN {} ELSE Attached]
    /\ Goto(r, "ended")
    /\ Forget(r)
    /\ UNCHANGED <<config, inFlight, initBy>>

Mut_EndOnlyOnError(r) ==
    /\ pc[r] = "failed"
    /\ endBy' = [endBy EXCEPT ![r] = IF cleared THEN {} ELSE Attached]
    /\ Goto(r, "ended")
    /\ Forget(r)
    /\ UNCHANGED <<config, inFlight, initBy>>

\* The finally block dispatches endQuery to the listeners attached now.  Once
\* cleared they call this.invokePluginListener, which no longer exists.
End(r) ==
    /\ pc[r] \in {"succeeded", "failed"}
    /\ endBy' = [endBy EXCEPT ![r] = IF cleared THEN {} ELSE Attached]
    /\ Goto(r, "ended")
    /\ Forget(r)
    /\ UNCHANGED <<config, inFlight, initBy>>

-----------------------------------------------------------------------------

\* The steps of a call of execute() once it was made.
Continue(r) ==
    \/ HookAllows(r) \/ HookDenies(r)
    \/ EnterChecks(r) \/ CheckPasses(r) \/ CheckRejects(r)
    \/ Attempt(r) \/ QueryResolves(r) \/ QueryRejects(r)
    \/ End(r)

Configure ==
    \/ \E s \in Subs : Use(s) \/ Unsubscribe(s)
    \/ \E h \in Hooks : RegisterAuthorization(h)
    \/ Clear

Next ==
    \/ Configure
    \/ \E r \in Requests : Execute(r) \/ ExecuteCleared(r) \/ Continue(r)

Spec == Init /\ [][Next]_vars

\* The promises a suspended call waits for (hooks, checks, the query) settle.
FairSpec == Spec /\ \A r \in Requests : WF_vars(Continue(r))

-----------------------------------------------------------------------------
(* Properties.                                                             *)

\* The counter this.inFlight is exactly the number of queries executing: no
\* path through retries, rejections and failures leaks a slot or frees it twice.
SlotsExact == inFlight = Cardinality(Running)

\* checkMaxConcurrent holds across calls and their retries: at no time do more
\* than maxConcurrent queries execute.
ConcurrencyBounded == Cardinality(Running) <= MaxConcurrent

\* A tagged query executes only after at least one hook was asked and every hook
\* that was registered when the call began has been asked (and none denied).
AuthorizationComplete ==
    \A r \in Running \cap Tagged : asked[r] # {} /\ owed[r] \subseteq asked[r]

Unchecked(r) ==
    {s \in initBy[r] \cap Attached :
        PluginOf[s] \in HasCheck /\ PluginOf[s] \notin checked[r]}

\* check() is a gate: a plugin attached since the call began has had its check()
\* called before the query executes, although the host attaches others and
\* registers hooks meanwhile, as long as it detaches none.
ChecksComplete == \A r \in Running \ disturbed : Unchecked(r) = {}

\* The gate as the documentation has it: attached plugins run on every execution.
EveryPluginChecks == \A r \in Running : Unchecked(r) = {}

\* init() and end() fire as a pair: whoever was told that a call began is told
\* that it ended, on every path through the call, unless the host detached a
\* plugin or cleared the pipeline meanwhile.
LifecyclePaired ==
    \A r \in Requests \ disturbed : pc[r] = "ended" => initBy[r] \subseteq endBy[r]

\* Fails closed: although clear() empties the arrays the suspended loops iterate
\* over, no call gets to its query after it.
NoExecutionAfterClear == [][cleared => Running' \subseteq Running]_vars

\* Every call of execute() that began comes to its end event and settles.
EveryCallEnds == \A r \in Requests : pc[r] # "idle" ~> pc[r] \in Resting

-----------------------------------------------------------------------------
(* The abstract specification and the refinement mapping.                  *)

PhaseOf(stage) ==
    CASE stage = "idle" -> "new"
      [] stage \in {"authorizing", "authorized", "checking"} -> "gating"
      [] stage \in {"admitted", "backoff"} -> "ready"
      [] stage = "running" -> "executing"
      [] stage \in {"succeeded", "failed"} -> "settled"
      [] OTHER -> "done"

Admission == INSTANCE QueryAdmission WITH
    Limit <- MaxConcurrent, phase <- [r \in Requests |-> PhaseOf(pc[r])]

\* execute() with its plugins, hooks, retries and counter implements the
\* admission protocol: gates before execution, the limit, no execution after
\* the call settled.
ImplementsAdmission == Admission!Spec
=============================================================================
