--------------------------- MODULE ManifestPipeline ---------------------------
(***************************************************************************)
(* A manifest query executed by the Go or the .NET runtime: the registry   *)
(* injects the context and validates the params, the pipeline runs the     *)
(* plugins and the authorization hooks around the build and the execution  *)
(* (stacks/golang/vexnor/{registry,pipeline,rate_limiter}.go and           *)
(* stacks/dotnet/src/Vexnor.Core/Execution), the rate limiter counts, and  *)
(* .NET's in-memory DuckDB executor shares one connection.  Calls run      *)
(* concurrently; a step is one plugin, hook or driver call.                *)
(*                                                                         *)
(* A fault is a plugin, a hook, the build or the driver throwing, in Go    *)
(* panicking; MaxFaults bounds how many happen.                            *)
(***************************************************************************)
EXTENDS Integers, Sequences, FiniteSets, SequencesExt

CONSTANTS
  Calls,           \* executions of one query
  Tagged,          \* the calls whose query has authorization tags
  Hooks,           \* the hooks registered before the first call, in order
  CodeOf,          \* the code a hook's func value points to
  Dicts,           \* the dictionaries callers pass their params in
  Sharings,        \* which call passes which: functions from Calls to Dicts
  Own,             \* those with a value of the caller's under the context's name
  Optional,        \* the query's context param is optional
  MayLack,         \* the calls whose context may lack the value
  Limits,          \* limits per query a rate limiter may be made with
  MaxFaults,
  MayUnregister    \* the hooks whose unregister function is called

NoCall == "no call"
CallersOwn == "the caller's own"

ASSUME Assumptions ==
  /\ Tagged \subseteq Calls /\ IsFiniteSet(Calls)
  /\ Limits \subseteq Nat \ {0} /\ Limits # {} /\ MaxFaults \in Nat
  /\ Hooks \in Seq(ToSet(Hooks)) /\ MayUnregister \subseteq ToSet(Hooks)
  /\ Sharings \subseteq [Calls -> Dicts] /\ Sharings # {}
  /\ Dicts \cap Calls = {} /\ Own \subseteq Dicts
  /\ NoCall \notin Calls /\ CallersOwn \notin Calls
  /\ Optional \in BOOLEAN /\ MayLack \subseteq Calls

Plugins == {"limiter", "custom"}

VARIABLES
  runtime,    \* "go" or "net"
  order,      \* the plugins in the order they were added
  maxConcurrent,  \* the rate limiter's limit
  dictOf,     \* the dictionary a call passes
  lacking,    \* the calls whose context has no value for it
  pc,         \* the phase of a call
  at,         \* the plugin or hook the phase is at
  outcome,    \* of a call: "ok", "error", or in Go "panic"
  inited,     \* the plugins whose Init a call has called
  ended,      \* the plugins whose End a call has called
  count,      \* the limiter's counter for the query
  hooks,      \* the pipeline's hooks: the slice's array, and its length
  len,
  version,    \* of the .NET list: it changes when the list does
  removed,    \* the hooks unregistered
  seen,       \* the length and version a call's loop over the hooks began with
  ran,        \* the hooks that allowed a call
  due,        \* history: the hooks registered for all of a call's authorization
  disturbed,  \* history: calls during whose authorization a hook was removed
  dict,       \* the value under the param's name in a dictionary or a call's copy:
              \* the call it is the context value of, or the caller's own
  bound,      \* the one a call's statement was built with
  gate,       \* .NET DuckDB: who holds the connection gate
  conn,       \* .NET DuckDB: "none", "closed", "open" or "disposed"
  openFailed, \* history: an OpenAsync failed
  faults

callVars == << pc, at, outcome, inited, ended, seen, ran, bound >>
hookVars == << hooks, len, version, removed >>
connVars == << gate, conn, openFailed >>
fixed == << runtime, order, maxConcurrent, dictOf, lacking >>
vars == << callVars, hookVars, connVars, fixed, count, due, disturbed, dict, faults >>

Init ==
  /\ runtime \in {"go", "net"}
  /\ order \in {<< "limiter", "custom" >>, << "custom", "limiter" >>}
  /\ maxConcurrent \in Limits /\ dictOf \in Sharings
  /\ lacking \in SUBSET MayLack
  /\ pc = [c \in Calls |-> "idle"] /\ at = [c \in Calls |-> 1]
  /\ outcome = [c \in Calls |-> "ok"]
  /\ inited = [c \in Calls |-> {}] /\ ended = [c \in Calls |-> {}]
  /\ count = 0
  /\ hooks = Hooks /\ len = Len(Hooks) /\ version = 0 /\ removed = {}
  /\ seen = [c \in Calls |-> 0]
  /\ ran = [c \in Calls |-> {}] /\ due = [c \in Calls |-> {}] /\ disturbed = {}
  /\ dict = [d \in Dicts \cup Calls |-> IF d \in Own THEN CallersOwn ELSE NoCall]
  /\ bound = [c \in Calls |-> NoCall]
  /\ gate = NoCall /\ conn = "none" /\ openFailed = FALSE
  /\ faults = 0

Fault == faults < MaxFaults /\ faults' = faults + 1
NoFault == UNCHANGED faults

Goto(c, phase) == pc' = [pc EXCEPT ![c] = phase] /\ at' = [at EXCEPT ![c] = 1]
Stay(c) == pc' = pc /\ at' = [at EXCEPT ![c] = @ + 1]
Advance(c, last, phase) == IF at[c] = last THEN Goto(c, phase) ELSE Stay(c)
Set(c, result) == outcome' = [outcome EXCEPT ![c] = result]

(* An error goes on to the End phase; a panic that the Go pipeline does    *)
(* not recover leaves it, a .NET exception is the same as an error.        *)
Fails(c) == Set(c, "error") /\ Goto(c, "end")
Throws(c) ==
  IF runtime = "net" THEN Fails(c) ELSE Set(c, "panic") /\ Goto(c, "done")

-----------------------------------------------------------------------------
(* The registry                                                            *)

(* Mutant: Go injects into the caller's map as well.                       *)
Mut_NoCopy(c) == dictOf[c]

(* Where a call's params are: Go copies the map, .NET uses the caller's.   *)
ParamsOf(c) == IF runtime = "go" THEN c ELSE dictOf[c]

(* Go passes over an optional value the context lacks.                     *)
Skips(c) == c \in lacking /\ runtime = "go" /\ Optional

(* The call's context value goes into its params; where Go passes over it  *)
(* the copy has what the caller passed under its name.                     *)
InjectContext(c) ==
  /\ pc[c] = "idle"
  /\ c \notin lacking \/ Skips(c)
  /\ dict' = [dict EXCEPT ![ParamsOf(c)] = IF Skips(c) THEN dict[dictOf[c]] ELSE c]
  /\ Goto(c, "init")
  /\ UNCHANGED << outcome, inited, ended, seen, ran, bound, hookVars, connVars, fixed, count,
                  due, disturbed, faults >>

(* The context lacks the value, in .NET an optional one too, or Go's       *)
(* validation, which comes before the pipeline, refuses the params: no     *)
(* plugin hears of the call.                                               *)
Refuse(c) ==
  /\ pc[c] = "idle"
  /\ \/ c \in lacking /\ ~Skips(c) /\ NoFault
     \/ runtime = "go" /\ Fault
  /\ Set(c, "error") /\ Goto(c, "done")
  /\ UNCHANGED << inited, ended, seen, ran, bound, hookVars, connVars, fixed, count, due,
                  disturbed, dict >>

-----------------------------------------------------------------------------
(* The pipeline                                                            *)

(* Init of the next plugin.  One that throws is told so by OnError; when   *)
(* that panics as well, nothing in Go recovers it.                         *)
InitPlugin(c) ==
  LET plugin == order[at[c]]
  IN /\ pc[c] = "init"
     /\ inited' = [inited EXCEPT ![c] = @ \cup {plugin}]
     /\ count' = IF plugin = "limiter" THEN count + 1 ELSE count
     /\ \/ /\ Advance(c, Len(order), IF c \in Tagged THEN "authorize" ELSE "check")
           /\ NoFault /\ UNCHANGED outcome
        \/ /\ plugin = "custom" /\ runtime = "go"
           /\ Fault
           /\ Throws(c)
     /\ UNCHANGED << ended, seen, ran, bound, hookVars, connVars, fixed, due, disturbed, dict >>

(* The loop over the hooks begins: Go copies the slice's header and reads  *)
(* its array as it goes, .NET remembers the list's version.                *)
BeginAuthorization(c) ==
  /\ pc[c] = "authorize"
  /\ seen' = [seen EXCEPT ![c] = IF runtime = "go" THEN len ELSE version]
  /\ due' = [due EXCEPT ![c] = ToSet(Hooks) \ removed]
  /\ Goto(c, IF runtime = "go" /\ len = 0 THEN "check" ELSE "hooks")
  /\ UNCHANGED << outcome, inited, ended, ran, bound, hookVars, connVars, fixed, count,
                  disturbed, dict, faults >>

(* The next hook allows the call, denies it, or throws.                    *)
RunHook(c) ==
  LET hook == hooks[at[c]]
  IN /\ pc[c] = "hooks"
     /\ at[c] <= (IF runtime = "go" THEN seen[c] ELSE len)
     /\ runtime = "net" => seen[c] = version
     /\ \/ /\ ran' = [ran EXCEPT ![c] = @ \cup {hook}]
           /\ IF runtime = "go" THEN Advance(c, seen[c], "check") ELSE Stay(c)
           /\ NoFault /\ UNCHANGED outcome
        \/ /\ Fails(c) \/ Throws(c)
           /\ Fault /\ UNCHANGED ran
     /\ UNCHANGED << inited, ended, seen, bound, hookVars, connVars, fixed, count, due,
                     disturbed, dict >>

(* Mutant: the enumeration ends by the length alone.                       *)
Mut_VersionUnchecked(c) ==
  /\ pc[c] = "hooks" /\ runtime = "net"
  /\ at[c] > len /\ Goto(c, "check") /\ UNCHANGED outcome
  /\ UNCHANGED << inited, ended, seen, ran, bound, hookVars, connVars, fixed, count, due,
                  disturbed, dict, faults >>

(* MoveNext of the .NET list: at its end, or with a version that changed.  *)
HooksEnd(c) ==
  /\ pc[c] = "hooks" /\ runtime = "net"
  /\ \/ seen[c] # version /\ Fails(c)
     \/ seen[c] = version /\ at[c] > len /\ Goto(c, "check") /\ UNCHANGED outcome
  /\ UNCHANGED << inited, ended, seen, ran, bound, hookVars, connVars, fixed, count, due,
                  disturbed, dict, faults >>

(* Mutant: off by one in the limiter.                                      *)
Mut_LimitPlusOne(c) ==
  LET plugin == order[at[c]]
  IN /\ pc[c] = "check"
     /\ \/ /\ plugin = "limiter" => count <= maxConcurrent + 1
           /\ Advance(c, Len(order), "before") /\ NoFault /\ UNCHANGED outcome
        \/ /\ plugin = "limiter" /\ count > maxConcurrent + 1
           /\ Fails(c) /\ NoFault
        \/ /\ plugin = "custom"
           /\ Fails(c) \/ Throws(c)
           /\ Fault
     /\ UNCHANGED << inited, ended, seen, ran, bound, hookVars, connVars, fixed, count, due,
                     disturbed, dict >>

(* Mutant: a refused call returns at once.                                 *)
Mut_RefusalSkipsEnd(c) ==
  LET plugin == order[at[c]]
  IN /\ pc[c] = "check"
     /\ \/ /\ plugin = "limiter" => count <= maxConcurrent
           /\ Advance(c, Len(order), "before") /\ NoFault /\ UNCHANGED outcome
        \/ /\ plugin = "limiter" /\ count > maxConcurrent
           /\ Set(c, "error") /\ Goto(c, "done") /\ NoFault
        \/ /\ plugin = "custom"
           /\ Fails(c) \/ Throws(c)
           /\ Fault
     /\ UNCHANGED << inited, ended, seen, ran, bound, hookVars, connVars, fixed, count, due,
                     disturbed, dict >>

CheckPlugin(c) ==
  LET plugin == order[at[c]]
  IN /\ pc[c] = "check"
     /\ \/ /\ plugin = "limiter" => count <= maxConcurrent
           /\ Advance(c, Len(order), "before") /\ NoFault /\ UNCHANGED outcome
        \/ /\ plugin = "limiter" /\ count > maxConcurrent
           /\ Fails(c) /\ NoFault
        \/ /\ plugin = "custom"
           /\ Fails(c) \/ Throws(c)
           /\ Fault
     /\ UNCHANGED << inited, ended, seen, ran, bound, hookVars, connVars, fixed, count, due,
                     disturbed, dict >>

(* Before of every plugin; what one throws is recovered and reported to    *)
(* OnError, whose own panic nothing in Go recovers.                        *)
BeforePlugins(c) ==
  /\ pc[c] = "before"
  /\ \/ Goto(c, "build") /\ NoFault /\ UNCHANGED outcome
     \/ runtime = "go" /\ Fault /\ Throws(c)
  /\ UNCHANGED << inited, ended, seen, ran, bound, hookVars, connVars, fixed, count, due,
                  disturbed, dict >>

(* .NET validates here, inside the pipeline; the build reads the params.   *)
Build(c) ==
  /\ pc[c] = "build"
  /\ bound' = [bound EXCEPT ![c] = dict[ParamsOf(c)]]
  /\ \/ /\ Goto(c, IF runtime = "go" THEN "query" ELSE "gate")
        /\ NoFault /\ UNCHANGED outcome
     \/ /\ Fails(c) \/ Throws(c)
        /\ Fault
  /\ UNCHANGED << inited, ended, seen, ran, hookVars, connVars, fixed, count, due, disturbed,
                  dict >>

(* End of the next plugin.  What a .NET plugin throws is swallowed, a      *)
(* panic in Go keeps the plugins after it from their End.                  *)
EndPlugin(c) ==
  LET plugin == order[at[c]]
  IN /\ pc[c] = "end"
     /\ ended' = [ended EXCEPT ![c] = @ \cup {plugin}]
     /\ count' = IF plugin = "limiter" /\ count > 0 THEN count - 1 ELSE count
     /\ \/ /\ Advance(c, Len(order), "done") /\ NoFault /\ UNCHANGED outcome
        \/ /\ plugin = "custom" /\ runtime = "go"
           /\ Fault
           /\ Throws(c)
     /\ UNCHANGED << inited, seen, ran, bound, hookVars, connVars, fixed, due, disturbed, dict >>

-----------------------------------------------------------------------------
(* Hooks unregistered while calls run                                      *)

(* The function RegisterAuthorization returned.  Go looks for a func value *)
(* of the same code and moves the ones after it down in the same array; the *)
(* .NET list removes the delegate itself.                                  *)
Unregister(h) ==
  LET same(i) == IF runtime = "go" THEN CodeOf[hooks[i]] = CodeOf[h] ELSE hooks[i] = h
      found == {i \in 1..len : same(i)}
      first == CHOOSE i \in found : \A j \in found : i <= j
  IN /\ h \in MayUnregister \ removed
     /\ removed' = removed \cup {h}
     /\ IF found = {} THEN UNCHANGED << hooks, len, version >>
        ELSE /\ hooks' = [i \in 1..(IF runtime = "go" THEN Len(hooks) ELSE len - 1) |->
                            IF i >= first /\ i < len THEN hooks[i + 1] ELSE hooks[i]]
             /\ len' = len - 1
             /\ version' = version + 1
     /\ due' = [c \in Calls |-> IF pc[c] = "hooks" THEN due[c] \ {h} ELSE due[c]]
     /\ disturbed' = disturbed \cup {c \in Calls : pc[c] = "hooks"}
     /\ UNCHANGED << callVars, connVars, fixed, count, dict, faults >>

-----------------------------------------------------------------------------
(* The execution                                                           *)

(* Go's executors leave their connections to database/sql.                 *)
GoQuery(c) ==
  /\ pc[c] = "query" /\ runtime = "go"
  /\ \/ Goto(c, "end") /\ NoFault /\ UNCHANGED outcome
     \/ (Fails(c) \/ Throws(c)) /\ Fault
  /\ UNCHANGED << inited, ended, seen, ran, bound, hookVars, connVars, fixed, count, due,
                  disturbed, dict >>

(* Mutant: the gate is not awaited.                                        *)
Mut_GateNotAwaited(c) ==
  /\ pc[c] = "gate"
  /\ IF conn = "disposed" THEN Fails(c) /\ UNCHANGED << gate, conn >>
     ELSE /\ gate' = c
          /\ conn' = IF conn = "none" THEN "closed" ELSE conn
          /\ Goto(c, IF conn = "none" THEN "opening" ELSE "query")
          /\ UNCHANGED outcome
  /\ UNCHANGED << inited, ended, seen, ran, bound, hookVars, openFailed, fixed, count, due,
                  disturbed, dict, faults >>

(* The gate is free: the call takes it, and creates the connection if      *)
(* there is none.  A disposed executor throws and releases the gate.       *)
EnterGate(c) ==
  /\ pc[c] = "gate" /\ gate = NoCall
  /\ IF conn = "disposed" THEN Fails(c) /\ UNCHANGED << gate, conn >>
     ELSE /\ gate' = c
          /\ conn' = IF conn = "none" THEN "closed" ELSE conn
          /\ Goto(c, IF conn = "none" THEN "opening" ELSE "query")
          /\ UNCHANGED outcome
  /\ UNCHANGED << inited, ended, seen, ran, bound, hookVars, openFailed, fixed, count, due,
                  disturbed, dict, faults >>

(* Mutant: a failed open keeps the gate.                                   *)
Mut_GateKept(c) ==
  /\ pc[c] = "opening"
  /\ \/ /\ conn' = "open" /\ Goto(c, "query")
        /\ NoFault /\ UNCHANGED << outcome, gate, openFailed >>
     \/ /\ Fails(c) /\ gate' = gate /\ openFailed' = TRUE
        /\ Fault /\ UNCHANGED conn
  /\ UNCHANGED << inited, ended, seen, ran, bound, hookVars, fixed, count, due, disturbed, dict >>

(* OpenAsync ends.  When it fails the connection stays assigned.           *)
Opened(c) ==
  /\ pc[c] = "opening"
  /\ \/ /\ conn' = "open" /\ Goto(c, "query")
        /\ NoFault /\ UNCHANGED << outcome, gate, openFailed >>
     \/ /\ Fails(c) /\ gate' = NoCall /\ openFailed' = TRUE
        /\ Fault /\ UNCHANGED conn
  /\ UNCHANGED << inited, ended, seen, ran, bound, hookVars, fixed, count, due, disturbed, dict >>

(* The command runs and the finally block releases the gate.               *)
NetQuery(c) ==
  /\ pc[c] = "query" /\ runtime = "net"
  /\ gate' = NoCall
  /\ \/ /\ conn = "open" /\ Goto(c, "end") /\ NoFault /\ UNCHANGED outcome
     \/ /\ conn = "open" /\ Fails(c) /\ Fault
     \/ /\ conn # "open" /\ Fails(c) /\ NoFault
  /\ UNCHANGED << inited, ended, seen, ran, bound, hookVars, conn, openFailed, fixed, count, due,
                  disturbed, dict >>

(* DisposeAsync, once it has the gate.                                     *)
Dispose ==
  /\ runtime = "net" /\ gate = NoCall /\ conn # "disposed"
  /\ conn' = "disposed"
  /\ UNCHANGED << callVars, hookVars, gate, openFailed, fixed, count, due, disturbed, dict, faults >>

-----------------------------------------------------------------------------

Step(c) ==
  \/ InjectContext(c) \/ Refuse(c)
  \/ InitPlugin(c) \/ BeginAuthorization(c) \/ RunHook(c) \/ HooksEnd(c) \/ CheckPlugin(c)
  \/ BeforePlugins(c) \/ Build(c) \/ GoQuery(c) \/ EnterGate(c) \/ Opened(c) \/ NetQuery(c)
  \/ EndPlugin(c)

Next == \/ \E c \in Calls : Step(c)
        \/ \E h \in MayUnregister : Unregister(h)
        \/ Dispose

Spec == Init /\ [][Next]_vars

(* A runtime that schedules every call; nobody need unregister or dispose.   *)
FairSpec == Spec /\ \A c \in Calls : WF_vars(Step(c))

-----------------------------------------------------------------------------
(* Properties                                                              *)

Running == {"build", "gate", "opening", "query"}

TypeOK ==
  /\ runtime \in {"go", "net"} /\ ToSet(order) = Plugins
  /\ pc \in [Calls -> Running \cup {"idle", "init", "authorize", "hooks", "check", "before", "end", "done"}]
  /\ outcome \in [Calls -> {"ok", "error", "panic"}]
  /\ inited \in [Calls -> SUBSET Plugins] /\ ended \in [Calls -> SUBSET Plugins]
  /\ count \in 0..Cardinality(Calls) /\ len \in 0..Len(hooks) /\ faults \in 0..MaxFaults
  /\ gate \in Calls \cup {NoCall} /\ conn \in {"none", "closed", "open", "disposed"}

(* Init and End pair: a call that is over has called End of exactly the    *)
(* plugins whose Init it called, whatever failed in between.  In Go only   *)
(* unless it panicked (pipeline.go:88 claims it without exception).        *)
InitEndPair ==
  \A c \in Calls : pc[c] = "done" => (outcome[c] = "panic" \/ ended[c] = inited[c])

(* The limiter counts the calls between its Init and its End, no more and  *)
(* no fewer: a call that failed anywhere gives its place back, one that a  *)
(* panic took out of the Go pipeline keeps it for good.                    *)
CountExact ==
  count = Cardinality({c \in Calls : "limiter" \in inited[c] \ ended[c]})

(* No more calls build and execute at a time than the limit allows.        *)
LimitHolds == Cardinality({c \in Calls : pc[c] \in Running}) <= maxConcurrent

(* A tagged call executes only if every hook that was registered for the   *)
(* whole of its authorization allowed it, whoever unregisters one          *)
(* meanwhile.  The Go loop misses a hook when another is unregistered      *)
(* under it; .NET's enumeration throws.                                    *)
EveryHookAllows ==
  \A c \in Tagged : pc[c] \in Running =>
    \/ due[c] \subseteq ran[c]
    \/ runtime = "go" /\ c \in disturbed

(* A statement is executed with its own call's context value.  There are   *)
(* two exceptions: in .NET another call given the same dictionary may have *)
(* put its own there, and Go leaves what the caller passed under the name  *)
(* of an optional value that the context lacks.                            *)
OwnContext ==
  \A c \in Calls : pc[c] \in {"gate", "opening", "query"} =>
    \/ bound[c] = c
    \/ runtime = "net" /\ bound[c] \in Calls /\ dictOf[bound[c]] = dictOf[c]
    \/ Skips(c) /\ bound[c] = (IF dictOf[c] \in Own THEN CallersOwn ELSE NoCall)

(* The shared connection serves one command at a time, and an open one     *)
(* unless an attempt to open it failed before.                             *)
CommandsHaveConnection ==
  runtime = "net" =>
    \A c \in Calls : pc[c] = "query" =>
      /\ conn = "open" \/ openFailed
      /\ \A d \in Calls \ {c} : pc[d] \notin {"opening", "query"}

(* Every call that entered the registry ends.                              *)
EveryCallEnds == \A c \in Calls : pc[c] # "idle" ~> pc[c] = "done"
=============================================================================
