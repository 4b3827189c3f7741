------------------------ MODULE DuckDBInstanceCache ------------------------
(***************************************************************************)
(* The cache of DuckDB instances shared by the connections to one path:    *)
(* acquireInstance, its release() and createConnection                     *)
(* (plugins/duckdb/src/vexnor-duckdb.ts).                                  *)
(*                                                                         *)
(* Acquiring awaits a promise, releasing is synchronous.  The microtask    *)
(* queue is explicit: a job is a set of calls that continue one right      *)
(* after the other, those that were waiting when the promise settled or    *)
(* the one that awaits a promise settled before.  The host may act between *)
(* two jobs; native completions arrive when there are none.                *)
(***************************************************************************)
EXTENDS Naturals, Sequences, FiniteSets

CONSTANTS
    Calls,      \* calls of createConnection()
    Paths,      \* resolved.path
    PathOf,     \* the path of each call
    Isolated    \* the calls whose resolved.cache is false

ASSUME CallsFinite == IsFiniteSet(Calls)
ASSUME PathAssumption == PathOf \in [Calls -> Paths] /\ Isolated \subseteq Calls

NoEntry == [none |-> TRUE]

ASSUME NoEntryAssumption == NoEntry \notin Calls

\* An instance, and its entry in the cache, is named by the call that created it.
VARIABLES
    cache,      \* instanceCache: the entry of each path
    inst,       \* each entry's promise and instance
    conns,      \* cached.connections of each entry
    entry,      \* the entry a call waits for or holds
    pc,         \* where each call is
    jobs        \* the microtask queue

vars == <<cache, inst, conns, entry, pc, jobs>>

TypeOK ==
    /\ cache \in [Paths -> Calls \cup {NoEntry}]
    /\ inst \in [Calls -> {"none", "pending", "open", "closed", "rejected"}]
    /\ conns \in [Calls -> Nat]
    /\ entry \in [Calls -> Calls \cup {NoEntry}]
    /\ pc \in [Calls -> {"idle", "waiting", "connecting", "open", "closed", "failed"}]
    /\ jobs \in Seq(SUBSET Calls)

Init ==
    /\ cache = [p \in Paths |-> NoEntry]
    /\ inst = [c \in Calls |-> "none"]
    /\ conns = [c \in Calls |-> 0]
    /\ entry = [c \in Calls |-> NoEntry]
    /\ pc = [c \in Calls |-> "idle"]
    /\ jobs = <<>>

Goto(c, stage) == pc' = [pc EXCEPT ![c] = stage]

Waiting(e) == {c \in Calls : pc[c] = "waiting" /\ entry[c] = e}

\* Calls that have counted themselves in and not out again.
Holders(e) == {c \in Calls : entry[c] = e /\ pc[c] \in {"connecting", "open"}}

-----------------------------------------------------------------------------

\* DuckDBInstance.create() or fromCache() is under way for a new entry.
Start(c) ==
    /\ inst' = [inst EXCEPT ![c] = "pending"]
    /\ entry' = [entry EXCEPT ![c] = c]
    /\ UNCHANGED jobs

\* acquireInstance() up to its first await.
Acquire(c) ==
    /\ pc[c] = "idle"
    /\ Goto(c, "waiting")
    /\ \/ /\ c \in Isolated
          /\ Start(c)
          /\ UNCHANGED cache
       \/ /\ c \notin Isolated
          /\ cache[PathOf[c]] = NoEntry
          /\ Start(c)
          /\ cache' = [cache EXCEPT ![PathOf[c]] = c]
       \/ /\ c \notin Isolated
          /\ cache[PathOf[c]] # NoEntry
          /\ entry' = [entry EXCEPT ![c] = cache[PathOf[c]]]
          /\ jobs' = IF inst[cache[PathOf[c]]] = "pending" THEN jobs ELSE Append(jobs, {c})
          /\ UNCHANGED <<cache, inst>>
    /\ UNCHANGED conns

\* DuckDB settles the promise; everyone waiting for it is scheduled.
Settle(e, outcome) ==
    /\ jobs = <<>>
    /\ inst[e] = "pending"
    /\ inst' = [inst EXCEPT ![e] = outcome]
    /\ jobs' = <<Waiting(e)>>
    /\ UNCHANGED <<cache, conns, entry, pc>>

Opens(e) == Settle(e, "open")
Rejects(e) == Settle(e, "rejected")

Move(C, stage) == pc' = [c \in Calls |-> IF c \in C THEN stage ELSE pc[c]]

\* acquireInstance() of the calls C after the await of e: a rejected promise
\* leaves the cache, a fulfilled one counts the connections.
Resume(C, e) ==
    IF inst[e] = "rejected"
    THEN /\ Move(C, "failed")
         /\ cache' = IF e \in Isolated THEN cache ELSE [cache EXCEPT ![PathOf[e]] = NoEntry]
         /\ UNCHANGED conns
    ELSE /\ Move(C, "connecting")
         /\ conns' = [conns EXCEPT ![e] = @ + Cardinality(C)]
         /\ UNCHANGED cache

RunJob ==
    /\ jobs # <<>>
    /\ \E e \in Calls : (\A c \in Head(jobs) : entry[c] = e) /\ Resume(Head(jobs), e)
    /\ jobs' = Tail(jobs)
    /\ UNCHANGED <<inst, entry>>

Mut_ReleaseByOwner(c) ==
    /\ conns' = [conns EXCEPT ![entry[c]] = @ - 1]
    /\ inst' = IF entry[c] = c THEN [inst EXCEPT ![c] = "closed"] ELSE inst
    /\ cache' = IF entry[c] = c /\ c \notin Isolated
                THEN [cache EXCEPT ![PathOf[c]] = NoEntry] ELSE cache

Mut_CountNoMore(c) ==
    /\ conns' = [conns EXCEPT ![entry[c]] = @ - 1]
    /\ UNCHANGED <<inst, cache>>
\* release(): the last connection takes the path out of the cache, whatever entry
\* is there, and closes the instance.
Release(c) ==
    /\ conns' = [conns EXCEPT ![entry[c]] = @ - 1]
    /\ inst' = IF conns[entry[c]] = 1 THEN [inst EXCEPT ![entry[c]] = "closed"] ELSE inst
    /\ cache' = IF conns[entry[c]] = 1 /\ c \notin Isolated
                THEN [cache EXCEPT ![PathOf[c]] = NoEntry] ELSE cache

\* instance.connect() succeeds, which a closed instance's does not.
Connects(c) ==
    /\ jobs = <<>>
    /\ pc[c] = "connecting"
    /\ inst[entry[c]] = "open"
    /\ Goto(c, "open")
    /\ UNCHANGED <<cache, inst, conns, entry, jobs>>

Mut_RetryConnect(c) ==
    /\ jobs = <<>>
    /\ pc[c] = "connecting"
    /\ UNCHANGED vars

\* instance.connect() rejects: createConnection releases and rethrows.
ConnectFails(c) ==
    /\ jobs = <<>>
    /\ pc[c] = "connecting"
    /\ Release(c)
    /\ Goto(c, "failed")
    /\ UNCHANGED <<entry, jobs>>

\* The host closes the connection; the flag `closed` ignores a second time.
Close(c) ==
    /\ pc[c] = "open"
    /\ Release(c)
    /\ Goto(c, "closed")
    /\ UNCHANGED <<entry, jobs>>

-----------------------------------------------------------------------------

Next ==
    \/ RunJob
    \/ \E c \in Calls :
        Acquire(c) \/ Opens(c) \/ Rejects(c) \/ Connects(c) \/ ConnectFails(c) \/ Close(c)

Spec == Init /\ [][Next]_vars

\* Microtasks run, and DuckDB answers.
FairSpec ==
    /\ Spec
    /\ WF_vars(RunJob)
    /\ \A c \in Calls : WF_vars(Opens(c) \/ Rejects(c)) /\ WF_vars(Connects(c) \/ ConnectFails(c))

-----------------------------------------------------------------------------
(* Properties.                                                             *)

\* The reference count of an entry is the number of connections that hold it,
\* through failed opening, failed connecting and closing in any order.
CountExact == \A e \in Calls : conns[e] = Cardinality(Holders(e))

\* No instance is closed under an open connection.
OpenConnectionsLive == \A c \in Calls : pc[c] = "open" => inst[entry[c]] = "open"

\* When nothing is about to run, an open instance has a holder: the last close
\* always reached the instance, and the file lock is released.
NoInstanceLeaks ==
    jobs = <<>> => \A e \in Calls : inst[e] = "open" => Holders(e) # {}

\* The cache never offers a closed instance to a new call, and a failure to open
\* is not sticky: when nothing is about to run it holds no rejected promise.
CacheUsable ==
    \A p \in Paths : cache[p] # NoEntry =>
        /\ inst[cache[p]] # "closed"
        /\ jobs = <<>> => inst[cache[p]] # "rejected"

\* Neither a connection nor the cache refers to an instance that is gone.
NothingStale == OpenConnectionsLive /\ CacheUsable

\* A call that got an instance from acquireInstance() got a live one.
AcquiredLive == \A c \in Calls : pc[c] = "connecting" => inst[entry[c]] = "open"

\* Every call of createConnection settles.
CallsSettle == \A c \in Calls : pc[c] = "waiting" ~> pc[c] \in {"open", "closed", "failed"}
=============================================================================
