----------------------------- MODULE QueryHandler -----------------------------
(***************************************************************************)
(* SqlQueryHandler.run and runLocal (packages/core/src/core/query/         *)
(* sql-query-handler.ts) with the retry loops around them (sql-retry.ts,   *)
(* SqlQueryPipeline.execute), for one select query whose projection and    *)
(* orderBy nodes share one array of field names (crud/sql-select.ts).      *)
(*                                                                         *)
(* The database is free to answer a statement late or never; a statement   *)
(* whose call gave up on it goes on and may still take effect.             *)
(***************************************************************************)
EXTENDS Integers

CONSTANTS
  Calls,             \* calls of run()
  Columns,           \* the fields of the table
  Aliases,           \* other names a select may give its entries
  RequestsOf,        \* the requests each call may make
  MaxAttempts,       \* options.retry.maxAttempts, where options.retry is given
  PipelineAttempts   \* maxAttempts of the pipeline's own retry policy

Names == Columns \cup Aliases

(* What a call is made with.  retry: options.retry is absent, false, or a   *)
(* policy with the default predicate or one that retries any error.        *)
Request ==
  [multiSource : BOOLEAN,                 \* the query has tables of two databases
   aliases : SUBSET Names,                \* the keys of params.select
   values : SUBSET Names,                 \* its values that are strings
   ordered : BOOLEAN,                     \* params.orderBy is given
   orderBy : SUBSET Names,                \* its keys
   db : {"driver", "connection", "pipeline", "remote"},
   retry : {"unset", "off", "default", "any"},
   retryable : {"default", "always", "never"},
   timeout : BOOLEAN]

Plain == [multiSource |-> FALSE, aliases |-> {}, values |-> {}, ordered |-> FALSE, orderBy |-> {},
          db |-> "driver", retry |-> "unset", retryable |-> "default", timeout |-> FALSE]

ASSUME Assumptions ==
  /\ RequestsOf \in [Calls -> SUBSET Request]
  /\ MaxAttempts \in Nat \ {0} /\ PipelineAttempts \in Nat \ {0}

VARIABLES
  fieldNames,  \* the names in the array the query's validation objects share
  request,
  pc,
  outer,       \* the attempt of the pipeline's retry loop
  inner,       \* the attempt of the handler's own
  started,     \* statements a call has sent
  abandoned,   \* those it no longer waits for that may still take effect
  lost,        \* those whose connection was lost before the answer
  applied,     \* those that took effect
  outcome

callVars == << request, pc, outer, inner, started, abandoned, lost, applied, outcome >>
vars == << fieldNames, callVars >>

Init ==
  /\ fieldNames = Columns
  /\ request = [c \in Calls |-> Plain]
  /\ pc = [c \in Calls |-> "idle"]
  /\ outer = [c \in Calls |-> 1] /\ inner = [c \in Calls |-> 1]
  /\ started = [c \in Calls |-> 0] /\ abandoned = [c \in Calls |-> 0]
  /\ lost = [c \in Calls |-> 0] /\ applied = [c \in Calls |-> 0]
  /\ outcome = [c \in Calls |-> "none"]

Goto(c, phase) == pc' = [pc EXCEPT ![c] = phase]
Ends(c, result) == Goto(c, "done") /\ outcome' = [outcome EXCEPT ![c] = result]

-----------------------------------------------------------------------------
(* run(): checked before the first await, validated after it.              *)

Run(c) ==
  /\ pc[c] = "idle"
  /\ \E asked \in RequestsOf[c] : request' = [request EXCEPT ![c] = asked]
  /\ IF request'[c].multiSource THEN Ends(c, "multi source")
     ELSE Goto(c, "called") /\ UNCHANGED outcome
  /\ UNCHANGED << fieldNames, outer, inner, started, abandoned, lost, applied >>

(* The select's string values and the orderBy's keys are field names.      *)
SelectValid(c) == request[c].values \subseteq fieldNames
OrderValid(c, names) == request[c].ordered => request[c].orderBy \subseteq names

(* The names orderBy is validated with: the select's keys are pushed onto  *)
(* the array itself, Object.create(p.validation) copies no obj.            *)
Extended(c) ==
  IF request[c].aliases # {} /\ request[c].ordered
  THEN fieldNames \cup request[c].aliases ELSE fieldNames

(* The select comes first: when it is refused orderBy is not looked at.    *)
ValidateParams(c) ==
  /\ pc[c] = "called"
  /\ fieldNames' = IF SelectValid(c) THEN Extended(c) ELSE fieldNames
  /\ IF SelectValid(c) /\ OrderValid(c, Extended(c))
     THEN Goto(c, IF request[c].db = "remote" THEN "remote" ELSE "attempt") /\ UNCHANGED outcome
     ELSE Ends(c, "invalid")
  /\ UNCHANGED << request, outer, inner, started, abandoned, lost, applied >>

(* remoteExecute answers or rejects; nothing is retried or timed.          *)
Remote(c) ==
  /\ pc[c] = "remote"
  /\ \E result \in {"ok", "error"} : Ends(c, result)
  /\ UNCHANGED << fieldNames, request, outer, inner, started, abandoned, lost, applied >>

-----------------------------------------------------------------------------
(* The attempts                                                            *)

(* runLocal sends the statement.                                           *)
Execute(c) ==
  /\ pc[c] = "attempt"
  /\ started' = [started EXCEPT ![c] = @ + 1]
  /\ Goto(c, "running")
  /\ UNCHANGED << fieldNames, request, outer, inner, abandoned, lost, applied, outcome >>

HasRetry(c) == request[c].retry \in {"default", "any"}

InnerAttempts(c) == IF HasRetry(c) THEN MaxAttempts ELSE 1

(* Without options.retry the pipeline's own policy holds.                  *)
OuterAttempts(c) ==
  CASE request[c].db # "pipeline" -> 1
    [] HasRetry(c) -> MaxAttempts
    [] request[c].retry = "off" -> 1
    [] OTHER -> PipelineAttempts

(* Mutant: a timeout counts as transient.                                  *)
Mut_TimeoutRetryable(c, error) ==
  CASE request[c].retryable = "always" -> TRUE
    [] request[c].retryable = "never" -> FALSE
    [] OTHER -> error \in {"transient", "lost", "timeout"}

(* error.retryable as runLocal throws it: the plugin's verdict on what the *)
(* driver said, unless options.retryable overrides it.  The plugins take a  *)
(* lost connection for transient (ECONNRESET, 08006, 57P01).               *)
Retryable(c, error) ==
  CASE request[c].retryable = "always" -> TRUE
    [] request[c].retryable = "never" -> FALSE
    [] OTHER -> error \in {"transient", "lost"}

ShouldRetry(c, error) == request[c].retry = "any" \/ Retryable(c, error)

(* Mutant: off by one in the pipeline's loop.                              *)
Mut_OuterPlusOne(c, error) ==
  CASE inner[c] < InnerAttempts(c) /\ ShouldRetry(c, error) ->
         /\ inner' = [inner EXCEPT ![c] = @ + 1] /\ Goto(c, "attempt")
         /\ UNCHANGED << outer, outcome >>
    [] inner[c] >= InnerAttempts(c) /\ outer[c] <= OuterAttempts(c) /\ ShouldRetry(c, error) ->
         /\ outer' = [outer EXCEPT ![c] = @ + 1] /\ inner' = [inner EXCEPT ![c] = 1]
         /\ Goto(c, "attempt") /\ UNCHANGED outcome
    [] OTHER -> Ends(c, error) /\ UNCHANGED << outer, inner >>

(* The handler's loop retries; when it gives up, the error reaches the     *)
(* pipeline's loop, which starts it over.                                  *)
Fails(c, error) ==
  CASE inner[c] < InnerAttempts(c) /\ ShouldRetry(c, error) ->
         /\ inner' = [inner EXCEPT ![c] = @ + 1] /\ Goto(c, "attempt")
         /\ UNCHANGED << outer, outcome >>
    [] inner[c] >= InnerAttempts(c) /\ outer[c] < OuterAttempts(c) /\ ShouldRetry(c, error) ->
         /\ outer' = [outer EXCEPT ![c] = @ + 1] /\ inner' = [inner EXCEPT ![c] = 1]
         /\ Goto(c, "attempt") /\ UNCHANGED outcome
    [] OTHER -> Ends(c, error) /\ UNCHANGED << outer, inner >>

(* The answer: rows that can be deserialized or not, or the database's     *)
(* error (a deadlock, a violated constraint), which undid the statement.   *)
Answered(c) ==
  /\ pc[c] = "running"
  /\ \/ /\ applied' = [applied EXCEPT ![c] = @ + 1]
        /\ \/ Ends(c, "ok") /\ UNCHANGED << outer, inner >>
           \/ Fails(c, "undecodable")
     \/ /\ \E error \in {"transient", "permanent"} : Fails(c, error)
        /\ UNCHANGED applied
  /\ UNCHANGED << fieldNames, request, started, abandoned, lost >>

(* The connection breaks: the statement took effect, or will, or not.      *)
ConnectionLost(c) ==
  /\ pc[c] = "running"
  /\ abandoned' = [abandoned EXCEPT ![c] = @ + 1]
  /\ lost' = [lost EXCEPT ![c] = @ + 1]
  /\ Fails(c, "lost")
  /\ UNCHANGED << fieldNames, request, started, applied >>

(* Mutant: only the first attempt is timed.                                *)
Mut_FirstAttemptTimed(c) ==
  /\ pc[c] = "running" /\ request[c].timeout /\ started[c] = 1
  /\ abandoned' = [abandoned EXCEPT ![c] = @ + 1]
  /\ Fails(c, "timeout")
  /\ UNCHANGED << fieldNames, request, started, lost, applied >>

(* withTimeout rejects; nothing tells the database.                        *)
TimesOut(c) ==
  /\ pc[c] = "running" /\ request[c].timeout
  /\ abandoned' = [abandoned EXCEPT ![c] = @ + 1]
  /\ Fails(c, "timeout")
  /\ UNCHANGED << fieldNames, request, started, lost, applied >>

(* What became of a statement nobody waits for: it had an effect or none.  *)
(* Its answer is dropped.                                                  *)
AbandonedEnds(c) ==
  /\ abandoned[c] > 0
  /\ abandoned' = [abandoned EXCEPT ![c] = @ - 1]
  /\ \/ applied' = [applied EXCEPT ![c] = @ + 1]
     \/ UNCHANGED applied
  /\ UNCHANGED << fieldNames, request, pc, outer, inner, started, lost, outcome >>

-----------------------------------------------------------------------------

Step(c) == Run(c) \/ ValidateParams(c) \/ Execute(c) \/ TimesOut(c)
Database(c) == Answered(c) \/ ConnectionLost(c) \/ AbandonedEnds(c) \/ Remote(c)

Next == \E c \in Calls : Step(c) \/ Database(c)

Spec == Init /\ [][Next]_vars

(* The event loop runs what is ready and timers fire; no fairness of the   *)
(* database.                                                               *)
FairSpec == Spec /\ \A c \in Calls : WF_vars(Step(c))

-----------------------------------------------------------------------------
(* Properties                                                              *)

Over(c) == pc[c] = "done"

TypeOK ==
  /\ fieldNames \in SUBSET Names
  /\ request \in [Calls -> Request]
  /\ pc \in [Calls -> {"idle", "called", "remote", "attempt", "running", "done"}]
  /\ outer \in [Calls -> Nat \ {0}] /\ inner \in [Calls -> Nat \ {0}]
  /\ started \in [Calls -> Nat] /\ abandoned \in [Calls -> Nat]
  /\ lost \in [Calls -> Nat] /\ applied \in [Calls -> Nat]
  /\ outcome \in [Calls -> {"none", "ok", "error", "multi source", "invalid", "transient",
                            "lost", "permanent", "undecodable", "timeout"}]

(* The nested retry loops (sql-query-handler.ts:200-205) multiply, and no  *)
(* more: a call sends at most as many statements as the two policies allow *)
(* together, whatever mix of failures and timeouts it meets.               *)
StatementsBounded ==
  \A c \in Calls : started[c] <= InnerAttempts(c) * OuterAttempts(c)

(* The caller declared no error retryable that the plugin did not.         *)
Careful(c) == request[c].retryable # "always" /\ request[c].retry # "any"

(* However often the statement of a careful call is retried and however    *)
(* late what it gave up on ends, only a lost connection makes it take      *)
(* effect again: once, and once more for each connection lost; not even    *)
(* then if the caller said `retryable: false`.  The database's own error   *)
(* means that nothing but what lost connections left took effect, and a    *)
(* call that succeeded took effect.                                        *)
EffectsOnlyFromLoss ==
  \A c \in Calls :
    /\ Careful(c) => applied[c] + abandoned[c] <= 1 + lost[c]
    /\ Careful(c) /\ request[c].retryable = "never" => applied[c] + abandoned[c] <= 1
    /\ Careful(c) /\ outcome[c] \in {"transient", "permanent", "lost"} =>
         applied[c] + abandoned[c] <= lost[c]
    /\ outcome[c] = "ok" /\ request[c].db # "remote" => applied[c] >= 1

(* The params a call may be made with: columns, and in orderBy its own     *)
(* select's aliases.                                                       *)
Valid(c) ==
  /\ request[c].values \subseteq Columns
  /\ request[c].ordered => request[c].orderBy \subseteq Columns \cup request[c].aliases

(* No call refuses what it should accept, whatever other calls of the      *)
(* query did to the shared names before.                                   *)
OwnNamesAccepted ==
  \A c \in Calls : outcome[c] = "invalid" => ~Valid(c)

(* A call is refused when its orderBy names an alias that is not in its    *)
(* own select (sql-query-handler-validate-params.test.ts:41).              *)
OnlyOwnAliases ==
  \A c \in Calls : pc[c] \in {"remote", "attempt", "running"} => Valid(c)

(* A call with a timeout ends though the database never answers, through   *)
(* every retry; a remote call is not timed here.                           *)
TimedCallsEnd ==
  \A c \in Calls : request[c].timeout /\ request[c].db # "remote" ~> Over(c)
=============================================================================
