------------------------- MODULE LocalDataSession -------------------------
(***************************************************************************)
(* The schema MCP command (cli/schema/schema-mcp-command.ts), the server   *)
(* it starts (schema/local-data-mcp.ts) and the session both close         *)
(* (schema/local-data-session.ts), with the fetches clients make.          *)
(*                                                                         *)
(* Ctrl-C, a client that goes away, a query that times out and a failure   *)
(* while starting may each close the session, in any order and at any      *)
(* await of the others.                                                    *)
(***************************************************************************)
EXTENDS Naturals, FiniteSets

CONSTANTS
    Fetches,        \* calls of session.fetchData()
    MaxConcurrency, \* limits.maxConcurrency
    Mappings,       \* the number of selected objects: read queries to register
    Drivers         \* how connection.close() may treat checked-out clients

ASSUME SessionAssumption ==
    /\ IsFiniteSet(Fetches)
    /\ MaxConcurrency \in Nat \ {0}
    /\ Mappings \in Nat
    /\ Drivers \subseteq {"waits", "abandons"}

VARIABLES
    driver,     \* pool.end() waits for running queries, or it does not
    command,    \* the await schemaMcpCommand is at
    opened,     \* createConnection resolved
    owned,      \* the constructor of a LocalDataSession returned: it owns the connection
    unread,     \* read queries still to register
    aborted,    \* signal.aborted
    closing,    \* session.closePromise: none yet, or how it stands
    closedBy,   \* whose call of close() that was
    closes,     \* calls of connection.close()
    transport,  \* the MCP transport
    cleaned,    \* the server's cleanupPromise exists
    fetch,      \* where each fetch is, or what it was answered
    slots,      \* executions the session's pipeline counts as in flight
    querying    \* queries the database is executing

startup == <<driver, opened, owned, unread>>
session == <<closing, closedBy, closes>>
mcp == <<transport, cleaned>>
work == <<fetch, slots, querying>>
vars == <<startup, command, aborted, session, mcp, work>>

Awaits == {"preparing", "connecting", "registering", "starting", "serving",
           "abandoning"}

Exits == {"done", "crashed"}

Errors == {"failed", "cancelled", "timeout", "budget", "closed"}

Settled == {"resolved", "rejected"}

TypeOK ==
    /\ driver \in {"waits", "abandons"}
    /\ command \in Awaits \cup Exits
    /\ opened \in BOOLEAN
    /\ owned \in BOOLEAN
    /\ unread \in 0..Mappings
    /\ aborted \in BOOLEAN
    /\ closing \in {"none", "pending"} \cup Settled
    /\ closedBy \in {"nobody", "listener", "caller"}
    /\ closes \in Nat
    /\ transport \in {"off", "open", "closed"}
    /\ cleaned \in BOOLEAN
    /\ fetch \in [Fetches -> {"idle", "issuing", "waiting", "expiring", "answered"} \cup Errors]
    /\ slots \subseteq Fetches
    /\ querying \subseteq Fetches

Init ==
    /\ driver \in Drivers
    /\ command = "preparing"
    /\ opened = FALSE /\ owned = FALSE
    /\ unread = Mappings
    /\ aborted = FALSE
    /\ closing = "none" /\ closedBy = "nobody" /\ closes = 0
    /\ transport = "off" /\ cleaned = FALSE
    /\ fetch = [f \in Fetches |-> "idle"]
    /\ slots = {}
    /\ querying = {}

-----------------------------------------------------------------------------
(* session.close().                                                        *)

\* The first call closes the connection, the others share its promise.
Close(who) ==
    IF closing # "none" THEN UNCHANGED session
    ELSE /\ closing' = "pending"
         /\ closedBy' = who
         /\ closes' = closes + 1

\* connection.close() resolves.  Some drivers wait for checked-out clients.
CloseResolves ==
    /\ closing = "pending"
    /\ driver = "waits" => querying = {}
    /\ closing' = "resolved"
    /\ UNCHANGED <<startup, command, aborted, closedBy, closes, mcp, work>>

\* connection.close() rejects.  The promise the abort listener discards with
\* `void` has no handler then, which ends the process.
CloseRejects ==
    /\ closing = "pending"
    /\ closing' = "rejected"
    /\ command' = IF closedBy = "listener" THEN "crashed" ELSE command
    /\ UNCHANGED <<startup, aborted, closedBy, closes, mcp, work>>

-----------------------------------------------------------------------------
(* schemaMcpCommand.                                                       *)

\* loadConfig, loadPlugin, getSchema and loadSelection; no session exists yet.
Prepared ==
    /\ command = "preparing"
    /\ command' = "connecting"
    /\ UNCHANGED <<startup, aborted, session, mcp, work>>

PreparationFails ==
    /\ command \in {"preparing", "connecting"}
    /\ command' = "done"
    /\ UNCHANGED <<startup, aborted, session, mcp, work>>

\* createConnection resolved: LocalDataSession.create up to its first await.
\* validateLimits and the constructor (the names of the mappings, the graph) may
\* throw, outside create's `try` and before the command's own.
Connected ==
    /\ command = "connecting"
    /\ opened' = TRUE
    /\ \/ /\ owned' = FALSE
          /\ command' = "done"
          /\ UNCHANGED session
       \/ /\ owned' = TRUE /\ aborted
          /\ Close("caller")
          /\ command' = "abandoning"
       \/ /\ owned' = TRUE /\ ~aborted
          /\ command' = "registering"
          /\ UNCHANGED session
    /\ UNCHANGED <<driver, unread, aborted, mcp, work>>

RegisterReadQuery ==
    /\ command = "registering"
    /\ unread > 0
    /\ unread' = unread - 1
    /\ UNCHANGED <<driver, opened, owned, command, aborted, session, mcp, work>>

Mut_FailWithoutClose ==
    /\ command = "registering"
    /\ unread > 0
    /\ command' = "done"
    /\ UNCHANGED <<startup, aborted, session, mcp, work>>

RegistrationFails ==
    /\ command = "registering"
    /\ unread > 0
    /\ Close("caller")
    /\ command' = "abandoning"
    /\ UNCHANGED <<startup, aborted, mcp, work>>

\* create() returns and startLocalDataMcpServer runs up to server.connect.
StartServer ==
    /\ command = "registering"
    /\ unread = 0
    /\ IF aborted
       THEN Close("caller") /\ cleaned' = TRUE /\ command' = "abandoning"
       ELSE UNCHANGED <<session, cleaned>> /\ command' = "starting"
    /\ UNCHANGED <<startup, aborted, transport, work>>

ServerConnects ==
    /\ command = "starting"
    /\ transport' = IF transport = "closed" THEN "closed" ELSE "open"
    /\ command' = "serving"
    /\ UNCHANGED <<startup, aborted, session, cleaned, work>>

ServerConnectFails ==
    /\ command = "starting"
    /\ Close("caller")
    /\ cleaned' = TRUE
    /\ command' = "abandoning"
    /\ UNCHANGED <<startup, aborted, transport, work>>

\* transport.onclose: the client is gone.
TransportCloses ==
    /\ command = "serving"
    /\ transport = "open"
    /\ transport' = "closed"
    /\ Close("caller")
    /\ cleaned' = TRUE
    /\ UNCHANGED <<startup, command, aborted, work>>

\* run.closed settled: the finally blocks find everything closed already.
ServerClosed ==
    /\ command = "serving"
    /\ cleaned /\ closing \in Settled
    /\ command' = "done"
    /\ UNCHANGED <<startup, aborted, session, mcp, work>>

\* The error path awaited session.close().
Abandoned ==
    /\ command = "abandoning"
    /\ closing \in Settled
    /\ command' = "done"
    /\ UNCHANGED <<startup, aborted, session, mcp, work>>

Cancelled(fetches) ==
    [f \in Fetches |-> IF fetches[f] \in {"issuing", "waiting"}
                       THEN "cancelled" ELSE fetches[f]]

Mut_AbortLeavesServer ==
    /\ ~aborted /\ command \notin Exits
    /\ aborted' = TRUE
    /\ IF command \in {"registering", "starting", "serving"}
       THEN Close("listener") ELSE UNCHANGED session
    /\ fetch' = Cancelled(fetch)
    /\ UNCHANGED <<startup, command, mcp, slots, querying>>

\* SIGINT or SIGTERM: controller.abort() calls the session's listener, the
\* server's, and the one withCancellation added for each fetch.
Abort ==
    /\ ~aborted /\ command \notin Exits
    /\ aborted' = TRUE
    /\ IF command \in {"registering", "starting", "serving"}
       THEN Close("listener") ELSE UNCHANGED session
    /\ IF command \in {"starting", "serving"}
       THEN transport' = "closed" /\ cleaned' = TRUE ELSE UNCHANGED mcp
    /\ fetch' = Cancelled(fetch)
    /\ UNCHANGED <<startup, command, slots, querying>>

-----------------------------------------------------------------------------
(* session.fetchData().                                                    *)

Answer(f, outcome) == fetch' = [fetch EXCEPT ![f] = outcome]

\* A tool call: assertOpen, validation, and the pipeline up to the await of the
\* query's name, which imports a module.
FetchData(f) ==
    /\ command = "serving" /\ transport = "open"
    /\ fetch[f] = "idle"
    /\ \/ /\ closing # "none"
          /\ Answer(f, "closed") /\ UNCHANGED slots
       \/ /\ closing = "none"
          /\ Cardinality(slots) >= MaxConcurrency
          /\ Answer(f, "budget") /\ UNCHANGED slots
       \/ /\ closing = "none"
          /\ Cardinality(slots) < MaxConcurrency
          /\ Answer(f, "issuing") /\ slots' = slots \cup {f}
    /\ UNCHANGED <<startup, command, aborted, session, mcp, querying>>

\* runLocal hands the query to the driver and arms the timeout.  It does so for
\* a cancelled fetch too.  A driver may refuse it once close() was called.
Issue(f) ==
    /\ fetch[f] \in {"issuing", "cancelled"} /\ f \in slots \ querying
    /\ \/ /\ closing = "none" \/ driver = "abandons"
          /\ querying' = querying \cup {f}
          /\ fetch' = [fetch EXCEPT ![f] = IF @ = "issuing" THEN "waiting" ELSE @]
          /\ UNCHANGED slots
       \/ /\ closing # "none"
          /\ slots' = slots \ {f}
          /\ fetch' = [fetch EXCEPT ![f] = IF @ = "issuing" THEN "failed" ELSE @]
          /\ UNCHANGED querying
    /\ UNCHANGED <<startup, command, aborted, session, mcp>>

\* The database answers or fails.  After the timeout or an abort nobody listens.
DatabaseAnswers(f) ==
    /\ f \in querying
    /\ querying' = querying \ {f}
    /\ slots' = slots \ {f}
    /\ IF fetch[f] = "waiting"
       THEN \E outcome \in {"answered", "failed"} : Answer(f, outcome)
       ELSE UNCHANGED fetch
    /\ UNCHANGED <<startup, command, aborted, session, mcp>>

Mut_TimeoutKeepsOpen(f) ==
    /\ f \in querying \cap slots
    /\ slots' = slots \ {f}
    /\ IF fetch[f] = "waiting" THEN Answer(f, "timeout") ELSE UNCHANGED fetch
    /\ UNCHANGED <<startup, command, aborted, session, mcp, querying>>

Mut_TimerNotArmed(f) == FALSE /\ UNCHANGED vars

\* withTimeout rejects, the pipeline frees the slot, and fetchData closes the
\* session before it throws.  The query itself is not cancelled.
TimeoutFires(f) ==
    /\ f \in querying \cap slots
    /\ slots' = slots \ {f}
    /\ IF fetch[f] = "waiting"
       THEN Answer(f, "expiring") /\ Close("caller")
       ELSE UNCHANGED <<fetch, session>>
    /\ UNCHANGED <<startup, command, aborted, mcp, querying>>

\* fetchData's `await this.close()` settles; its rejection replaces the error.
Expire(f) ==
    /\ fetch[f] = "expiring"
    /\ closing \in Settled
    /\ Answer(f, IF closing = "resolved" THEN "timeout" ELSE "failed")
    /\ UNCHANGED <<startup, command, aborted, session, mcp, slots, querying>>

-----------------------------------------------------------------------------

Start ==
    \/ Prepared \/ PreparationFails \/ Connected
    \/ RegisterReadQuery \/ RegistrationFails
    \/ StartServer \/ ServerConnects \/ ServerConnectFails

Finish == CloseResolves \/ CloseRejects \/ ServerClosed \/ Abandoned

Serve(f) == Issue(f) \/ TimeoutFires(f) \/ Expire(f)

Running == command # "crashed"

Next ==
    /\ Running
    /\ \/ Start \/ Finish \/ Abort \/ TransportCloses
       \/ \E f \in Fetches : FetchData(f) \/ Serve(f) \/ DatabaseAnswers(f)

Spec == Init /\ [][Next]_vars

\* Startup settles, timers fire and close() settles once its driver lets it.
\* Nothing makes the database answer, the client leave or the user abort.
FairSpec ==
    /\ Spec
    /\ WF_vars(Running /\ Start)
    /\ WF_vars(Running /\ Finish)
    /\ \A f \in Fetches : WF_vars(Running /\ Serve(f))

-----------------------------------------------------------------------------
(* Properties.                                                             *)

\* "Maximum concurrent local queries": a timed-out query gives its slot back
\* while the database still executes it, yet no other query takes its place.
QueriesBounded == Cardinality(querying) <= MaxConcurrency

\* However signals, clients, timeouts and errors race, the connection is closed
\* at most once, and once a session owns it the command returns only when close()
\* settled and the transport is shut.  A connection no session came to own, for
\* invalid limits or a constructor that threw, is closed by nobody.
NothingLeftOpen ==
    /\ closes <= 1
    /\ command = "done" /\ owned => closing \in Settled /\ transport # "open"
    /\ opened /\ ~owned => closes = 0

\* Ctrl-C answers every fetch at once, whatever the database does; only a fetch
\* that has timed out still waits, for the close it asked for.
AbortReleasesCallers ==
    aborted => \A f \in Fetches : fetch[f] \notin {"issuing", "waiting"}

\* The close is held up by a query the database never answers.
CloseHeldUp == driver = "waits" /\ closing = "pending" /\ querying # {}

\* Every fetch is answered although its query hangs, unless the driver makes
\* the close, and with it the timeout error, wait for that query.
EveryFetchAnswered ==
    \A f \in Fetches :
        fetch[f] \in {"issuing", "waiting", "expiring"} ~>
            fetch[f] \in {"answered"} \cup Errors \/ CloseHeldUp \/ ~Running

\* Ctrl-C ends the command from wherever it is.
AbortEndsCommand == aborted ~> command \in Exits \/ CloseHeldUp
=============================================================================
