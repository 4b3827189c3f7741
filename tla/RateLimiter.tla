---------------------------- MODULE RateLimiter ----------------------------
(***************************************************************************)
(* TimeToLiveRateLimiter (packages/core/src/execution/                     *)
(* time-to-live-rate-limiter.ts) and the part of a call's life that the    *)
(* plugin sees: init(), check(), the awaited limit hook, end().            *)
(*                                                                         *)
(* Durations and error counts are left out: avgDurationMs is a mean whose  *)
(* divisor, totalCalls - inFlight, is kept.  An option that is not set is  *)
(* a limit that no number of calls reaches.                                *)
(***************************************************************************)
EXTENDS Integers, FiniteSets

CONSTANTS
    Requests,       \* calls that pass through the plugin
    Queries,        \* query ids
    Contexts,       \* results of contextKeyResolver
    QueryOf,        \* the query of each request
    ContextOf,      \* the context key of each request
    MaxPerQuery,    \* options.maxConcurrent
    MaxPerContext,  \* options.maxConcurrentPerContext
    HasLimitHook,   \* options.limit is set
    Ttl,            \* options.contextMetricsTtlMs
    MaxTime,        \* bound: the clock stops here
    Cleared         \* the context keys the host calls clearContextMetrics for

ASSUME RequestsFinite == IsFiniteSet(Requests)
ASSUME KeysAssumption ==
    QueryOf \in [Requests -> Queries] /\ ContextOf \in [Requests -> Contexts]
ASSUME LimitsAssumption == MaxPerQuery \in Nat /\ MaxPerContext \in Nat
ASSUME TimeAssumption == Ttl \in Nat /\ MaxTime \in Nat
ASSUME OptionsAssumption == HasLimitHook \in BOOLEAN /\ Cleared \subseteq Contexts

VARIABLES
    qm,     \* this._queryMetrics
    cm,     \* this._contextMetrics
    now,    \* options.now()
    stage   \* what each request has been through

vars == <<qm, cm, now, stage>>

Metrics == [inFlight : Nat, totalCalls : Nat]
ContextMetrics == [inFlight : Nat, totalCalls : Nat, last : Nat]
NoEntry == [absent |-> TRUE]
Keys == Queries \X Contexts
KeyOf(r) == <<QueryOf[r], ContextOf[r]>>

Stages == {"idle", "open", "limiting", "admitted", "rejected", "ended"}

TypeOK ==
    /\ qm \in [Queries -> Metrics]
    /\ cm \in [Keys -> ContextMetrics \cup {NoEntry}]
    /\ now \in Nat
    /\ stage \in [Requests -> Stages]

\* A query without an entry yet has metrics of zero: getOrCreateQueryMetrics
\* creates exactly that, and entries of queries are never removed.
Init ==
    /\ qm = [q \in Queries |-> [inFlight |-> 0, totalCalls |-> 0]]
    /\ cm = [k \in Keys |-> NoEntry]
    /\ now = 0
    /\ stage = [r \in Requests |-> "idle"]

\* Calls between their init() and their end().
InFlight == {r \in Requests : stage[r] \notin {"idle", "ended"}}
OfQuery(q) == {r \in InFlight : QueryOf[r] = q}
OfKey(k) == {r \in InFlight : KeyOf(r) = k}

\* Calls that passed the plugin and may be executing.
Admitted == {r \in Requests : stage[r] = "admitted"}

-----------------------------------------------------------------------------
(* The plugin's methods.                                                   *)

Entry(k) == IF cm[k] = NoEntry
            THEN [inFlight |-> 0, totalCalls |-> 0, last |-> now]
            ELSE cm[k]

\* init()
CountIn(r) ==
    /\ qm' = [qm EXCEPT ![QueryOf[r]].inFlight = @ + 1, ![QueryOf[r]].totalCalls = @ + 1]
    /\ cm' = [cm EXCEPT ![KeyOf(r)] =
                [inFlight |-> Entry(KeyOf(r)).inFlight + 1,
                 totalCalls |-> Entry(KeyOf(r)).totalCalls + 1,
                 last |-> now]]

\* sweep(): entries without calls that were idle for longer than the time to live.
Expired(k) == cm[k] # NoEntry /\ cm[k].inFlight = 0 /\ cm[k].last < now - Ttl

Swept == [k \in Keys |-> IF Expired(k) THEN NoEntry ELSE cm[k]]
\* check(): maxConcurrent, counting the call itself.
OverQueryLimit(r) == qm[QueryOf[r]].inFlight > MaxPerQuery

Mut_ContextOffByOne(r) ==
    /\ Swept[KeyOf(r)] # NoEntry
    /\ Swept[KeyOf(r)].inFlight > MaxPerContext + 1

\* check(): maxConcurrentPerContext; a call without an entry is not limited.
OverContextLimit(r) ==
    /\ Swept[KeyOf(r)] # NoEntry
    /\ Swept[KeyOf(r)].inFlight > MaxPerContext

\* Math.max(0, n - 1)
Down(n) == IF n = 0 THEN 0 ELSE n - 1

\* end(); an entry cleared in the meantime is not recreated.
CountOut(r) ==
    /\ qm' = [qm EXCEPT ![QueryOf[r]].inFlight = Down(@)]
    /\ cm' = IF cm[KeyOf(r)] = NoEntry THEN cm
             ELSE [cm EXCEPT ![KeyOf(r)].inFlight = Down(@), ![KeyOf(r)].last = now]

-----------------------------------------------------------------------------
(* The life of a call as the pipeline drives it.                           *)

Goto(r, s) == stage' = [stage EXCEPT ![r] = s]

Open(r) ==
    /\ stage[r] = "idle"
    /\ Goto(r, "open")
    /\ CountIn(r)
    /\ UNCHANGED now

\* check() up to the limit hook, which is called and awaited if there is one.
Check(r) ==
    /\ stage[r] = "open"
    /\ cm' = Swept
    /\ Goto(r, IF OverQueryLimit(r) \/ OverContextLimit(r) THEN "rejected"
               ELSE IF HasLimitHook THEN "limiting" ELSE "admitted")
    /\ UNCHANGED <<qm, now>>

LimitHook(r) ==
    /\ stage[r] = "limiting"
    /\ Goto(r, "admitted") \/ Goto(r, "rejected")
    /\ UNCHANGED <<qm, cm, now>>

\* A call may end before its check (authorization denied it), after a rejection,
\* or after its execution, successful or not.
End(r) ==
    /\ stage[r] \in {"open", "rejected", "admitted"}
    /\ CountOut(r)
    /\ Goto(r, "ended")
    /\ UNCHANGED now

\* clearContextMetrics(contextKey); clearing all keys is a sequence of these.
ClearContextMetrics(c) ==
    /\ c \in Cleared
    /\ cm' = [k \in Keys |-> IF k[2] = c THEN NoEntry ELSE cm[k]]
    /\ UNCHANGED <<qm, now, stage>>

Tick ==
    /\ now < MaxTime
    /\ now' = now + 1
    /\ UNCHANGED <<qm, cm, stage>>

Next ==
    \/ \E r \in Requests : Open(r) \/ Check(r) \/ LimitHook(r) \/ End(r)
    \/ \E c \in Contexts : ClearContextMetrics(c)
    \/ Tick

Spec == Init /\ [][Next]_vars

-----------------------------------------------------------------------------
(* Properties.                                                             *)

\* init() and end() count a query's calls exactly, whichever of authorization,
\* the limits, the hook and the query ended each of them.
QueryCountExact == \A q \in Queries : qm[q].inFlight = Cardinality(OfQuery(q))

\* maxConcurrent: although a call is counted before it is checked and checks of
\* several calls interleave, no more than the limit get past the plugin at once.
QueryLimitHolds ==
    \A q \in Queries : Cardinality({r \in Admitted : QueryOf[r] = q}) <= MaxPerQuery

\* Keys that are evicted by sweep() only.
KeptKeys == {k \in Keys : k[2] \notin Cleared}

\* The per-context counters are exact too: neither eviction by sweep() nor the
\* clearing of other users forgets a call in flight.
ContextCountExact ==
    \A k \in KeptKeys :
        (IF cm[k] = NoEntry THEN 0 ELSE cm[k].inFlight) = Cardinality(OfKey(k))

\* maxConcurrentPerContext: no user gets more calls of a query past the plugin,
\* unless that user's metrics are cleared.
ContextLimitHolds ==
    \A k \in KeptKeys : Cardinality({r \in Admitted : KeyOf(r) = k}) <= MaxPerContext

\* Both limits: what the plugin is for.
LimitsHold == QueryLimitHolds /\ ContextLimitHolds

\* The divisors totalCalls - inFlight of the running averages are positive when
\* end() divides by them, even if entries are cleared and recreated while calls
\* counted in them are still in flight.
DivisorPositive ==
    [][\A r \in Requests : stage[r] # "ended" /\ stage'[r] = "ended" =>
          /\ qm'[QueryOf[r]].totalCalls > qm'[QueryOf[r]].inFlight
          /\ cm[KeyOf(r)] # NoEntry =>
                cm'[KeyOf(r)].totalCalls > cm'[KeyOf(r)].inFlight]_vars
=============================================================================
