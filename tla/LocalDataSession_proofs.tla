---------------------- MODULE LocalDataSession_proofs ----------------------
(***************************************************************************)
(* Proofs about LocalDataSession, for every number of fetches, budget,     *)
(* selection and behaviour of the driver.                                  *)
(***************************************************************************)
EXTENDS LocalDataSession, FiniteSetTheorems, TLAPS

USE DEF Exits, Errors, Settled, Awaits

-----------------------------------------------------------------------------
(* Type correctness.                                                       *)

LEMMA TypeInit == Init => TypeOK
<1> SUFFICES ASSUME Init PROVE TypeOK
  OBVIOUS
<1>1. /\ driver \in {"waits", "abandons"} /\ owned \in BOOLEAN
      /\ command \in Awaits \cup Exits /\ opened \in BOOLEAN /\ aborted \in BOOLEAN
  BY SessionAssumption DEF Init
<1>2. unread \in 0..Mappings
  BY SessionAssumption DEF Init
<1>3. /\ closing \in {"none", "pending"} \cup Settled
      /\ closedBy \in {"nobody", "listener", "caller"} /\ closes \in Nat
      /\ transport \in {"off", "open", "closed"} /\ cleaned \in BOOLEAN
  BY DEF Init
<1>4. fetch \in [Fetches -> {"idle", "issuing", "waiting", "expiring", "answered"} \cup Errors]
  BY DEF Init
<1>5. slots \subseteq Fetches /\ querying \subseteq Fetches
  BY DEF Init
<1> QED  BY <1>1, <1>2, <1>3, <1>4, <1>5 DEF TypeOK

LEMMA TypeStart == TypeOK /\ Start => TypeOK'
<1> SUFFICES ASSUME TypeOK, Start PROVE TypeOK'
  OBVIOUS
<1> USE DEF TypeOK, startup, session, mcp, work, Close
<1>1. CASE Prepared \/ PreparationFails
  BY <1>1 DEF Prepared, PreparationFails
<1>2. CASE Connected
  <2>1. owned' \in BOOLEAN /\ opened' \in BOOLEAN
    BY <1>2 DEF Connected
  <2>2. closing' \in {"none", "pending"} \cup Settled /\ closes' \in Nat
        /\ closedBy' \in {"nobody", "listener", "caller"} /\ command' \in Awaits \cup Exits
    BY <1>2 DEF Connected
  <2>3. UNCHANGED <<driver, unread, aborted, mcp, work>>
    BY <1>2 DEF Connected
  <2> QED  BY <2>1, <2>2, <2>3
<1>3. CASE RegisterReadQuery
  BY <1>3, SessionAssumption DEF RegisterReadQuery
<1>4. CASE RegistrationFails
  BY <1>4 DEF RegistrationFails
<1>5. CASE StartServer
  <2>1. CASE aborted  BY <1>5, <2>1 DEF StartServer
  <2>2. CASE ~aborted  BY <1>5, <2>2 DEF StartServer
  <2> QED  BY <2>1, <2>2
<1>6. CASE ServerConnects
  BY <1>6 DEF ServerConnects
<1>7. CASE ServerConnectFails
  BY <1>7 DEF ServerConnectFails
<1> QED  BY <1>1, <1>2, <1>3, <1>4, <1>5, <1>6, <1>7 DEF Start

LEMMA TypeFinish ==
    TypeOK /\ (Finish \/ Abort \/ TransportCloses) => TypeOK'
<1> SUFFICES ASSUME TypeOK, Finish \/ Abort \/ TransportCloses PROVE TypeOK'
  OBVIOUS
<1> USE DEF TypeOK, startup, session, mcp, work, Close
<1>1. CASE CloseResolves \/ CloseRejects
  BY <1>1 DEF CloseResolves, CloseRejects
<1>2. CASE ServerClosed \/ Abandoned
  BY <1>2 DEF ServerClosed, Abandoned
<1>3. CASE Abort
  <2>1. fetch' \in [Fetches -> {"idle", "issuing", "waiting", "expiring", "answered"} \cup Errors]
    BY <1>3 DEF Abort, Cancelled
  <2>2. closing' \in {"none", "pending"} \cup Settled /\ closes' \in Nat
        /\ closedBy' \in {"nobody", "listener", "caller"}
    BY <1>3 DEF Abort
  <2>3. transport' \in {"off", "open", "closed"} /\ cleaned' \in BOOLEAN
    BY <1>3 DEF Abort
  <2>4. /\ UNCHANGED <<startup, command, slots, querying>> /\ aborted' \in BOOLEAN
    BY <1>3 DEF Abort
  <2> QED  BY <2>1, <2>2, <2>3, <2>4
<1>4. CASE TransportCloses
  BY <1>4 DEF TransportCloses
<1> QED  BY <1>1, <1>2, <1>3, <1>4 DEF Finish

LEMMA TypeServe ==
    ASSUME TypeOK, NEW f \in Fetches, FetchData(f) \/ Serve(f) \/ DatabaseAnswers(f)
    PROVE  TypeOK'
<1> USE DEF TypeOK, startup, session, mcp, work, Close, Answer
<1>1. CASE FetchData(f)
  BY <1>1 DEF FetchData
<1>2. CASE Issue(f)
  BY <1>2 DEF Issue
<1>3. CASE TimeoutFires(f)
  BY <1>3 DEF TimeoutFires
<1>4. CASE Expire(f)
  BY <1>4 DEF Expire
<1>5. CASE DatabaseAnswers(f)
  BY <1>5 DEF DatabaseAnswers
<1> QED  BY <1>1, <1>2, <1>3, <1>4, <1>5 DEF Serve

LEMMA TypeNext == TypeOK /\ [Next]_vars => TypeOK'
<1>1. TypeOK /\ UNCHANGED vars => TypeOK'
  BY DEF TypeOK, vars, startup, session, mcp, work
<1> QED  BY <1>1, TypeStart, TypeFinish, TypeServe DEF Next

\* Every reachable state of the command, the session and its fetches is well
\* typed.
THEOREM TypeCorrect == Spec => []TypeOK
BY TypeInit, TypeNext, PTL DEF Spec

-----------------------------------------------------------------------------
(* Closing.                                                                *)

\* The first call of close() is counted, the others are not.
ClosedOnce == closes = IF closing = "none" THEN 0 ELSE 1

\* Where the command may be with a connection, with an open transport, and after
\* somebody asked for the close.
CloseInv ==
    /\ ClosedOnce
    /\ command \in {"preparing", "connecting"} => ~opened /\ ~owned
    /\ transport = "open" => command \in {"serving", "crashed"} /\ ~cleaned
    /\ cleaned => transport = "closed" \/ command \in {"abandoning", "done", "crashed"}
    /\ command = "abandoning" => closing # "none"
    /\ command = "done" /\ owned => closing \in Settled
    /\ aborted /\ command \in {"registering", "starting", "serving"} => closing # "none"

LEMMA CloseInit == Init => CloseInv
BY DEF Init, CloseInv, ClosedOnce

\* close() never forgets that it was called.
LEMMA CloseFact ==
    ASSUME TypeOK, ClosedOnce, NEW who, Close(who)
    PROVE  /\ ClosedOnce' /\ closing' # "none"
           /\ closing # "none" => closing' = closing
BY DEF TypeOK, ClosedOnce, Close, session

LEMMA CloseKept == ClosedOnce /\ UNCHANGED session => ClosedOnce' /\ closing' = closing
BY DEF ClosedOnce, session

LEMMA CloseStart == TypeOK /\ CloseInv /\ Start => CloseInv'
<1> SUFFICES ASSUME TypeOK, CloseInv, Start PROVE CloseInv'
  OBVIOUS
<1> USE CloseFact, CloseKept DEF CloseInv, startup, mcp, work
<1>1. CASE Prepared \/ PreparationFails
  BY <1>1 DEF Prepared, PreparationFails
<1>2. CASE Connected
  BY <1>2 DEF Connected
<1>3. CASE RegisterReadQuery
  BY <1>3 DEF RegisterReadQuery
<1>4. CASE RegistrationFails
  BY <1>4 DEF RegistrationFails
<1>5. CASE StartServer
  BY <1>5 DEF StartServer
<1>6. CASE ServerConnects
  BY <1>6 DEF ServerConnects
<1>7. CASE ServerConnectFails
  BY <1>7 DEF ServerConnectFails
<1> QED  BY <1>1, <1>2, <1>3, <1>4, <1>5, <1>6, <1>7 DEF Start

LEMMA CloseFinish ==
    TypeOK /\ CloseInv /\ (Finish \/ Abort \/ TransportCloses) => CloseInv'
<1> SUFFICES ASSUME TypeOK, CloseInv, Finish \/ Abort \/ TransportCloses PROVE CloseInv'
  OBVIOUS
<1> USE CloseFact, CloseKept DEF CloseInv, startup, mcp, work
<1>1. CASE CloseResolves \/ CloseRejects
  BY <1>1 DEF CloseResolves, CloseRejects, ClosedOnce
<1>2. CASE ServerClosed \/ Abandoned
  BY <1>2 DEF ServerClosed, Abandoned
<1>3. CASE Abort
  BY <1>3 DEF Abort
<1>4. CASE TransportCloses
  BY <1>4 DEF TransportCloses
<1> QED  BY <1>1, <1>2, <1>3, <1>4 DEF Finish

\* A fetch leaves the command where it is; at most it asks for the close.
LEMMA CloseServe ==
    ASSUME TypeOK, CloseInv, NEW f \in Fetches, FetchData(f) \/ Serve(f) \/ DatabaseAnswers(f)
    PROVE  CloseInv'
<1>1. UNCHANGED <<startup, command, aborted, mcp>> /\ (UNCHANGED session \/ Close("caller"))
  BY DEF FetchData, Serve, Issue, TimeoutFires, Expire, DatabaseAnswers
<1> QED  BY <1>1, CloseFact, CloseKept DEF CloseInv, startup, mcp

LEMMA CloseNext == TypeOK /\ CloseInv /\ [Next]_vars => CloseInv'
<1>1. CloseInv /\ UNCHANGED vars => CloseInv'
  BY DEF CloseInv, ClosedOnce, vars, startup, session, mcp
<1> QED  BY <1>1, CloseStart, CloseFinish, CloseServe DEF Next

LEMMA CloseInvariant == Spec => []CloseInv
BY CloseInit, CloseNext, TypeCorrect, PTL DEF Spec

\* Until a session owns the connection no fetch begins and nobody calls close().
OwnInv ==
    ~owned => /\ command \in {"preparing", "connecting", "done"}
              /\ closes = 0
              /\ \A f \in Fetches : fetch[f] = "idle"

LEMMA OwnNext == TypeOK /\ CloseInv /\ OwnInv /\ [Next]_vars => OwnInv'
<1> SUFFICES ASSUME TypeOK, CloseInv, OwnInv, [Next]_vars, ~owned' PROVE OwnInv'
  BY DEF OwnInv
<1> USE DEF OwnInv, startup, session, mcp, work
<1>1. CASE UNCHANGED vars
  BY <1>1 DEF vars
<1>2. CASE Connected
  BY <1>2 DEF Connected, CloseInv
<1>3. CASE Start /\ ~Connected
  BY <1>3 DEF Start, Prepared, PreparationFails, RegisterReadQuery, RegistrationFails,
              StartServer, ServerConnects, ServerConnectFails
<1>4. CASE Finish
  BY <1>4 DEF Finish, CloseResolves, CloseRejects, ServerClosed, Abandoned,
              CloseInv, ClosedOnce, TypeOK
<1>5. CASE TransportCloses
  BY <1>5 DEF TransportCloses
<1>6. CASE Abort
  <2>1. ~owned /\ command' = command /\ closes' = closes
    BY <1>6 DEF Abort
  <2>2. \A f \in Fetches : fetch'[f] = "idle"
    BY <1>6, <2>1 DEF Abort, Cancelled
  <2> QED  BY <2>1, <2>2
<1>7. ASSUME NEW f \in Fetches, FetchData(f) \/ Serve(f) \/ DatabaseAnswers(f)
      PROVE  OwnInv'
  <2>1. ~owned
    BY <1>7 DEF FetchData, Serve, Issue, TimeoutFires, Expire, DatabaseAnswers
  <2>2. ~FetchData(f) /\ fetch[f] = "idle"
    BY <2>1 DEF FetchData
  <2>3. UNCHANGED <<command, closes, fetch>>
    BY <1>7, <2>2 DEF Serve, Issue, TimeoutFires, Expire, DatabaseAnswers
  <2> QED  BY <2>1, <2>3
<1> QED  BY <1>1, <1>2, <1>3, <1>4, <1>5, <1>6, <1>7 DEF Next

\* The connection is closed at most once; once a session owns it the command
\* returns only with the close settled and the transport shut, and before that
\* nobody closes it.
THEOREM NothingLeftOpenCorrect == Spec => []NothingLeftOpen
<1>1. Init => OwnInv
  BY DEF Init, OwnInv
<1>2. CloseInv /\ OwnInv => NothingLeftOpen
  BY DEF CloseInv, OwnInv, ClosedOnce, NothingLeftOpen
<1> QED  BY <1>1, <1>2, OwnNext, CloseInvariant, TypeCorrect, PTL DEF Spec

-----------------------------------------------------------------------------
(* Fetches under abort.                                                    *)

\* Fetches begin while the server serves; what an abort cancelled is waited for
\* by nobody, and what holds a slot is still under way or was cancelled.
FetchInv ==
    /\ \A f \in Fetches : fetch[f] # "idle" => command \in {"serving", "done", "crashed"}
    /\ aborted => \A f \in Fetches : fetch[f] \notin {"issuing", "waiting"}
    /\ \A f \in Fetches : fetch[f] = "cancelled" => closing # "none"
    /\ \A f \in slots : fetch[f] \in {"issuing", "waiting", "cancelled"}
    /\ \A f \in querying : fetch[f] \notin {"idle", "issuing"}
    /\ \A f \in Fetches : fetch[f] \in {"issuing", "waiting"} => f \in slots

LEMMA FetchInit == Init => FetchInv
BY DEF Init, FetchInv

LEMMA FetchOther ==
    ASSUME TypeOK, CloseInv, FetchInv, Start \/ Finish \/ TransportCloses
    PROVE  FetchInv'
<1>1. UNCHANGED work /\ aborted' = aborted
  BY DEF Start, Finish, TransportCloses, Prepared, PreparationFails, Connected,
         RegisterReadQuery, RegistrationFails, StartServer, ServerConnects,
         ServerConnectFails, CloseResolves, CloseRejects, ServerClosed, Abandoned
<1>2. closing # "none" => closing' # "none"
  BY DEF Start, Finish, TransportCloses, Prepared, PreparationFails, Connected,
         RegisterReadQuery, RegistrationFails, StartServer, ServerConnects,
         ServerConnectFails, CloseResolves, CloseRejects, ServerClosed, Abandoned,
         session, Close
<1>3. command \in {"serving", "done", "crashed"} => command' \in {"serving", "done", "crashed"}
  BY DEF Start, Finish, TransportCloses, Prepared, PreparationFails, Connected,
         RegisterReadQuery, RegistrationFails, StartServer, ServerConnects,
         ServerConnectFails, CloseResolves, CloseRejects, ServerClosed, Abandoned
<1> QED  BY <1>1, <1>2, <1>3 DEF FetchInv, work

LEMMA FetchAbort == TypeOK /\ CloseInv /\ FetchInv /\ Abort => FetchInv'
<1> SUFFICES ASSUME TypeOK, CloseInv, FetchInv, Abort PROVE FetchInv'
  OBVIOUS
<1>1. /\ fetch' = Cancelled(fetch) /\ slots' = slots /\ querying' = querying
      /\ command' = command /\ aborted' = TRUE /\ command \notin Exits
  BY DEF Abort
<1>2. \A f \in Fetches :
        /\ fetch'[f] \notin {"issuing", "waiting"}
        /\ fetch'[f] = "cancelled" <=> fetch[f] \in {"issuing", "waiting", "cancelled"}
        /\ fetch'[f] = "idle" <=> fetch[f] = "idle"
  BY <1>1 DEF Cancelled, TypeOK
<1>3. \A f \in Fetches : fetch[f] # "idle" => command = "serving"
  BY <1>1 DEF FetchInv
<1>4. command = "serving" => closing' # "none"
  BY CloseFact DEF Abort, CloseInv
<1>5. \A f \in slots : f \in Fetches /\ fetch'[f] = "cancelled"
  BY <1>2 DEF FetchInv, TypeOK
<1>6. \A f \in querying : f \in Fetches /\ fetch'[f] \notin {"idle", "issuing"}
  BY <1>2 DEF FetchInv, TypeOK
<1> QED  BY <1>1, <1>2, <1>3, <1>4, <1>5, <1>6 DEF FetchInv

LEMMA FetchServe ==
    ASSUME TypeOK, CloseInv, FetchInv, NEW f \in Fetches,
           FetchData(f) \/ Serve(f) \/ DatabaseAnswers(f)
    PROVE  FetchInv'
<1>1. fetch \in [Fetches -> {"idle", "issuing", "waiting", "expiring", "answered"} \cup Errors]
  BY DEF TypeOK
<1>2. CASE FetchData(f)
  <2>1. closing = "none" => ~aborted
    BY <1>2 DEF FetchData, CloseInv
  <2>2. f \notin slots
    BY <1>2 DEF FetchData, FetchInv
  <2>3. CASE closing = "none" /\ slots' = slots \cup {f}
    <3>1. fetch' = [fetch EXCEPT ![f] = "issuing"] /\ f \notin querying'
      BY <1>2, <2>2, <2>3 DEF FetchData, Answer, FetchInv
    <3> QED  BY <1>1, <1>2, <2>1, <2>3, <3>1 DEF FetchData, FetchInv, session
  <2>4. CASE slots' = slots
    <3>1. PICK outcome \in {"closed", "budget"} : fetch' = [fetch EXCEPT ![f] = outcome]
      BY <1>2, <2>2, <2>4 DEF FetchData, Answer
    <3> QED  BY <1>1, <1>2, <2>2, <2>4, <3>1 DEF FetchData, FetchInv, session
  <2> QED  BY <1>2, <2>3, <2>4 DEF FetchData
<1>3. CASE Issue(f)
  BY <1>1, <1>3 DEF Issue, FetchInv, session, TypeOK
<1>4. CASE TimeoutFires(f)
  <2>1. closing # "none" => closing' # "none"
    BY <1>4 DEF TimeoutFires, Close, session
  <2> QED  BY <1>1, <1>4, <2>1 DEF TimeoutFires, FetchInv, Answer, TypeOK
<1>5. CASE Expire(f)
  BY <1>1, <1>5 DEF Expire, FetchInv, Answer, session, TypeOK
<1>6. CASE DatabaseAnswers(f)
  BY <1>1, <1>6 DEF DatabaseAnswers, FetchInv, Answer, session, TypeOK
<1> QED  BY <1>2, <1>3, <1>4, <1>5, <1>6 DEF Serve

LEMMA FetchNext == TypeOK /\ CloseInv /\ FetchInv /\ [Next]_vars => FetchInv'
<1>1. FetchInv /\ UNCHANGED vars => FetchInv'
  BY DEF FetchInv, vars, session, work
<1> QED  BY <1>1, FetchOther, FetchAbort, FetchServe DEF Next

LEMMA FetchInvariant == Spec => []FetchInv
BY FetchInit, FetchNext, TypeCorrect, CloseInvariant, PTL DEF Spec

\* Ctrl-C answers every fetch at once, except those that wait for the close
\* their timeout asked for.
THEOREM AbortReleasesCallersCorrect == Spec => []AbortReleasesCallers
<1>1. FetchInv => AbortReleasesCallers
  BY DEF FetchInv, AbortReleasesCallers
<1> QED  BY <1>1, FetchInvariant, PTL

-----------------------------------------------------------------------------
(* The concurrency budget.                                                 *)

\* A timed-out query has left its slot, but the session it closed lets no new
\* query in: together the two never exceed the budget.
BudgetInv ==
    /\ Cardinality(slots \cup querying) <= MaxConcurrency
    /\ closing = "none" => querying \subseteq slots

LEMMA WorkFinite ==
    ASSUME NEW S \in SUBSET Fetches
    PROVE  IsFiniteSet(S) /\ Cardinality(S) \in Nat
BY SessionAssumption, FS_Subset, FS_CardinalityType

LEMMA BudgetInit == Init => BudgetInv
BY SessionAssumption, FS_EmptySet DEF Init, BudgetInv

\* Nothing but a fetch touches the two sets, and no close is taken back.
LEMMA BudgetOther ==
    ASSUME TypeOK, BudgetInv, Start \/ Finish \/ TransportCloses \/ Abort
    PROVE  BudgetInv'
<1>1. slots' = slots /\ querying' = querying
  BY DEF Start, Finish, TransportCloses, Prepared, PreparationFails, Connected,
         RegisterReadQuery, RegistrationFails, StartServer, ServerConnects, Abort,
         ServerConnectFails, CloseResolves, CloseRejects, ServerClosed, Abandoned, work
<1>2. closing # "none" => closing' # "none"
  BY DEF Start, Finish, TransportCloses, Prepared, PreparationFails, Connected,
         RegisterReadQuery, RegistrationFails, StartServer, ServerConnects, Abort,
         ServerConnectFails, CloseResolves, CloseRejects, ServerClosed, Abandoned,
         session, Close
<1> QED  BY <1>1, <1>2 DEF BudgetInv

\* A set that does not grow keeps the budget.
LEMMA BudgetShrinks ==
    ASSUME TypeOK, TypeOK', BudgetInv, slots' \cup querying' \subseteq slots \cup querying
    PROVE  Cardinality(slots' \cup querying') <= MaxConcurrency
<1>1. slots \cup querying \in SUBSET Fetches  BY DEF TypeOK
<1>2. Cardinality(slots' \cup querying') <= Cardinality(slots \cup querying)
  BY <1>1, WorkFinite, FS_Subset
<1>3. slots' \cup querying' \in SUBSET Fetches  BY DEF TypeOK
<1> QED  BY <1>1, <1>2, <1>3, WorkFinite, SessionAssumption DEF BudgetInv

LEMMA BudgetServe ==
    ASSUME TypeOK, TypeOK', CloseInv, FetchInv, BudgetInv, NEW f \in Fetches,
           FetchData(f) \/ Serve(f) \/ DatabaseAnswers(f)
    PROVE  BudgetInv'
<1>1. CASE FetchData(f) /\ slots' # slots
  <2>1. /\ closing = "none" /\ closing' = closing /\ querying' = querying
        /\ Cardinality(slots) < MaxConcurrency /\ slots' = slots \cup {f}
    BY <1>1 DEF FetchData, session
  <2>2. slots' \cup querying' = slots \cup {f}
    BY <2>1 DEF BudgetInv
  <2>3. IsFiniteSet(slots) /\ Cardinality(slots) \in Nat
    BY WorkFinite DEF TypeOK
  <2>4. Cardinality(slots \cup {f}) = Cardinality(slots) + 1
    <3>1. f \notin slots  BY <1>1 DEF FetchData, FetchInv
    <3> QED  BY <2>3, <3>1, FS_AddElement
  <2>5. Cardinality(slots \cup {f}) \in Nat
    BY <2>1, WorkFinite DEF TypeOK
  <2>6. Cardinality(slots \cup {f}) <= MaxConcurrency
    BY <2>1, <2>3, <2>4, <2>5, SessionAssumption
  <2> QED  BY <2>1, <2>2, <2>6 DEF BudgetInv
<1>2. CASE FetchData(f) /\ slots' = slots
  BY <1>2 DEF FetchData, BudgetInv, session
<1>3. CASE Issue(f)
  <2>1. slots' \cup querying' \subseteq slots \cup querying
    BY <1>3 DEF Issue
  <2>2. closing' = closing /\ (closing = "none" => querying' \subseteq slots')
    BY <1>3 DEF Issue, session, BudgetInv
  <2> QED  BY <2>1, <2>2, BudgetShrinks DEF BudgetInv
<1>4. CASE TimeoutFires(f)
  <2>1. slots' \cup querying' \subseteq slots \cup querying
    BY <1>4 DEF TimeoutFires
  <2>2. closing' # "none"
    <3>1. CASE fetch[f] = "waiting"
      BY <1>4, <3>1, CloseFact DEF TimeoutFires, CloseInv
    <3>2. CASE fetch[f] # "waiting"
      <4>1. fetch[f] = "cancelled"
        BY <1>4, <3>2 DEF TimeoutFires, FetchInv
      <4> QED  BY <1>4, <3>2, <4>1 DEF TimeoutFires, FetchInv, session
    <3> QED  BY <3>1, <3>2
  <2> QED  BY <2>1, <2>2, BudgetShrinks DEF BudgetInv
<1>5. CASE Expire(f)
  BY <1>5 DEF Expire, BudgetInv, session
<1>6. CASE DatabaseAnswers(f)
  <2>1. slots' \cup querying' \subseteq slots \cup querying
    BY <1>6 DEF DatabaseAnswers
  <2>2. closing' = closing /\ (closing = "none" => querying' \subseteq slots')
    BY <1>6 DEF DatabaseAnswers, session, BudgetInv
  <2> QED  BY <2>1, <2>2, BudgetShrinks DEF BudgetInv
<1> QED  BY <1>1, <1>2, <1>3, <1>4, <1>5, <1>6 DEF Serve

LEMMA BudgetNext ==
    TypeOK /\ TypeOK' /\ CloseInv /\ FetchInv /\ BudgetInv /\ [Next]_vars => BudgetInv'
<1>1. BudgetInv /\ UNCHANGED vars => BudgetInv'
  BY DEF BudgetInv, vars, session, work
<1> QED  BY <1>1, BudgetOther, BudgetServe DEF Next

\* The database never executes more than maxConcurrency queries of the session,
\* counting those that timed out and were abandoned.
THEOREM BudgetCorrect == Spec => []QueriesBounded
<1>1. TypeOK /\ BudgetInv => QueriesBounded
  <2> SUFFICES ASSUME TypeOK, BudgetInv PROVE QueriesBounded
    OBVIOUS
  <2>1. slots \cup querying \in SUBSET Fetches /\ querying \in SUBSET Fetches
    BY DEF TypeOK
  <2>2. Cardinality(querying) <= Cardinality(slots \cup querying)
    BY <2>1, WorkFinite, FS_Subset
  <2> QED  BY <2>1, <2>2, WorkFinite, SessionAssumption DEF BudgetInv, QueriesBounded
<1> QED
  BY <1>1, BudgetInit, BudgetNext, TypeCorrect, CloseInvariant, FetchInvariant, PTL DEF Spec
=============================================================================
