--------------------------- MODULE Transactions ---------------------------
(***************************************************************************)
(* transaction() and savepoint() of the four drivers                       *)
(* (plugins/{postgres,mssql,sqlite3,duckdb}/src/*-transaction.ts) against  *)
(* a database session: BEGIN, the callback with its statements and         *)
(* savepoints, COMMIT or ROLLBACK, the client's release.                   *)
(*                                                                         *)
(* Any statement may fail.  What a failure does to the session is the      *)
(* database's doing and differs by driver; what transaction() then does is *)
(* the code's.  postgres and mssql lend a connection of a pool to each     *)
(* transaction, sqlite3 and duckdb run it on the connection they got.      *)
(***************************************************************************)
EXTENDS Naturals, Sequences, SequencesExt, FiniteSets

CONSTANTS
    Drivers,    \* the drivers considered
    Tx,         \* calls of transaction()
    Saves,      \* calls of savepoint()
    TxOf,       \* the transaction each savepoint is in
    Conns,      \* connections: of the pool, or given to transaction() by the host
    Shared,     \* drivers whose host gives one connection to concurrent transactions
    Overlap,    \* drivers whose host may run savepoints of a transaction concurrently
    Nobody

ASSUME DriverAssumption == Drivers \subseteq {"postgres", "mssql", "sqlite3", "duckdb"}
ASSUME HostAssumption == Shared \subseteq Drivers /\ Overlap \subseteq Drivers
ASSUME SaveAssumption == TxOf \in [Saves -> Tx]
ASSUME NobodyAssumption == Nobody \notin Tx /\ Nobody \notin Conns
ASSUME NameAssumption == Tx \cap Saves = {}

\* A transaction writes once outside its savepoints, a savepoint once: the write
\* bears its name.
VARIABLES
    driver,     \* the driver in use, fixed
    overlap,    \* whether the host runs savepoints concurrently, fixed
    mode,       \* each session: idle, active, aborted (ROLLBACK only), lost
    pending,    \* its uncommitted writes
    marks,      \* its savepoints, each with the writes pending at that moment
    durable,    \* the committed writes
    lent,       \* the transaction each pooled connection is lent to
    held,       \* the connection of each transaction
    tpc,        \* where each transaction() is
    wrote,      \* the writes that succeeded
    failed,     \* the transactions one of whose statements outside savepoints failed
    cause,      \* the first error transaction() met
    thrown,     \* the error transaction() rejected with
    spc         \* where each savepoint() is

session == <<mode, pending, marks, durable>>
vars == <<driver, overlap, session, lent, held, tpc, wrote, failed, cause, thrown, spc>>

Errors == {"none", "begin", "callback", "commit", "rollback"}
Holding == {"connected", "callback", "committing", "rollingback"}

Pooled == driver \in {"postgres", "mssql"}

TypeOK ==
    /\ driver \in Drivers /\ overlap \in BOOLEAN
    /\ mode \in [Conns -> {"idle", "active", "aborted", "lost"}]
    /\ pending \in [Conns -> SUBSET (Tx \cup Saves)]
    /\ marks \in [Conns -> Seq([save : Saves, writes : SUBSET (Tx \cup Saves)])]
    /\ durable \subseteq Tx \cup Saves
    /\ lent \in [Conns -> Tx \cup {Nobody}]
    /\ held \in [Tx -> Conns \cup {Nobody}]
    /\ tpc \in [Tx -> Holding \cup {"idle", "resolved", "rejected"}]
    /\ wrote \subseteq Tx \cup Saves /\ failed \subseteq Tx
    /\ cause \in [Tx -> Errors] /\ thrown \in [Tx -> Errors]
    /\ spc \in [Saves -> {"idle", "inside", "throwing", "resolved", "undone", "rejected"}]

Init ==
    /\ driver \in Drivers
    /\ overlap \in BOOLEAN /\ (overlap => driver \in Overlap)
    /\ mode = [c \in Conns |-> "idle"]
    /\ pending = [c \in Conns |-> {}]
    /\ marks = [c \in Conns |-> <<>>]
    /\ durable = {}
    /\ lent = [c \in Conns |-> Nobody]
    /\ held = [t \in Tx |-> Nobody]
    /\ tpc = [t \in Tx |-> "idle"]
    /\ wrote = {} /\ failed = {}
    /\ cause = [t \in Tx |-> "none"]
    /\ thrown = [t \in Tx |-> "none"]
    /\ spc = [s \in Saves |-> "idle"]

-----------------------------------------------------------------------------
(* The database session.                                                   *)

Session(c, m, ws, ms) ==
    /\ mode' = [mode EXCEPT ![c] = m]
    /\ pending' = [pending EXCEPT ![c] = ws]
    /\ marks' = [marks EXCEPT ![c] = ms]

\* The mode a failing statement leaves an active session in.
FailureModes ==
    CASE driver = "postgres" -> {"aborted", "lost"}
      [] driver = "mssql" -> {"active", "idle"}
      [] driver = "sqlite3" -> {"active"}
      [] driver = "duckdb" -> {"active", "aborted"}

\* A statement fails: it cannot succeed outside an active session.
StatementFails(c) ==
    /\ IF mode[c] = "active"
       THEN \E m \in FailureModes :
              IF m \in {"idle", "lost"} THEN Session(c, m, {}, <<>>)
              ELSE Session(c, m, pending[c], marks[c])
       ELSE UNCHANGED <<mode, pending, marks>>
    /\ UNCHANGED durable

Writes(c, w) ==
    /\ mode[c] = "active"
    /\ Session(c, "active", pending[c] \cup {w}, marks[c])
    /\ UNCHANGED durable

Commits(c) ==
    /\ mode[c] = "active"
    /\ durable' = durable \cup pending[c]
    /\ Session(c, "idle", {}, <<>>)

\* PostgreSQL answers COMMIT in an aborted transaction by rolling it back.
CommitsNothing(c) ==
    /\ driver = "postgres" /\ mode[c] = "aborted"
    /\ Session(c, "idle", {}, <<>>)
    /\ UNCHANGED durable

\* A failing COMMIT: SQLite keeps the transaction open, the others end it.
CommitFails(c) ==
    /\ mode[c] # "aborted" \/ driver # "postgres"
    /\ IF mode[c] = "active" /\ driver # "sqlite3"
       THEN Session(c, "idle", {}, <<>>)
       ELSE UNCHANGED <<mode, pending, marks>>
    /\ UNCHANGED durable

\* The database commits, and the connection is lost with its answer.
CommitAnswerLost(c) ==
    /\ Pooled /\ mode[c] = "active"
    /\ durable' = durable \cup pending[c]
    /\ Session(c, "lost", {}, <<>>)

CanRollBack(c) == mode[c] \in {"active", "aborted"} \/ (driver = "postgres" /\ mode[c] = "idle")

RollsBack(c) ==
    /\ CanRollBack(c)
    /\ Session(c, "idle", {}, <<>>)
    /\ UNCHANGED durable

-----------------------------------------------------------------------------
(* transaction().                                                          *)

Goto(t, stage) == tpc' = [tpc EXCEPT ![t] = stage]

\* pool.connect() lends a free client; a driver without a pool takes what it got.
Connect(t) ==
    /\ tpc[t] = "idle"
    /\ \E c \in Conns :
        /\ IF Pooled THEN lent[c] = Nobody
           ELSE driver \in Shared \/ \A u \in Tx : held[u] = c => tpc[u] \notin Holding
        /\ held' = [held EXCEPT ![t] = c]
        /\ lent' = IF Pooled THEN [lent EXCEPT ![c] = t] ELSE lent
    /\ Goto(t, "connected")
    /\ UNCHANGED <<session, wrote, failed, cause, thrown, spc>>

Mut_KeepClient(t, stage, error) ==
    /\ Goto(t, stage)
    /\ thrown' = [thrown EXCEPT ![t] = error]
    /\ lent' = IF Pooled /\ error # "commit" THEN [lent EXCEPT ![held[t]] = Nobody] ELSE lent

\* The call settles; the finally block, or the driver, returns the client.
Settle(t, stage, error) ==
    /\ Goto(t, stage)
    /\ thrown' = [thrown EXCEPT ![t] = error]
    /\ lent' = IF Pooled THEN [lent EXCEPT ![held[t]] = Nobody] ELSE lent

Mut_JoinOpen(t) ==
    /\ tpc[t] = "connected"
    /\ \/ mode[held[t]] = "idle" /\ Session(held[t], "active", {}, <<>>)
       \/ mode[held[t]] = "active" /\ UNCHANGED <<mode, pending, marks>>
    /\ Goto(t, "callback")
    /\ UNCHANGED <<durable, lent, held, wrote, failed, cause, thrown, spc>>

\* PostgreSQL and SQL Server accept a BEGIN inside a transaction.
Begin(t) ==
    /\ tpc[t] = "connected"
    /\ \/ mode[held[t]] = "idle" /\ Session(held[t], "active", {}, <<>>)
       \/ /\ Pooled /\ mode[held[t]] = "active"
          /\ UNCHANGED <<mode, pending, marks>>
    /\ Goto(t, "callback")
    /\ UNCHANGED <<durable, lent, held, wrote, failed, cause, thrown, spc>>

\* BEGIN fails: the session is in a transaction already, or the database refuses.
BeginFails(t) ==
    /\ tpc[t] = "connected"
    /\ Settle(t, "rejected", "begin")
    /\ cause' = [cause EXCEPT ![t] = "begin"]
    /\ UNCHANGED <<session, held, wrote, failed, spc>>

\* The savepoints the callback of t is in.
Underway(t) == {s \in Saves : TxOf[s] = t /\ spc[s] \in {"inside", "throwing"}}

\* The callback's own statement; it may go on after an error.
Write(t) ==
    /\ tpc[t] = "callback"
    /\ overlap \/ Underway(t) = {}
    /\ \/ t \notin wrote /\ Writes(held[t], t) /\ wrote' = wrote \cup {t} /\ UNCHANGED failed
       \/ StatementFails(held[t]) /\ failed' = failed \cup {t} /\ UNCHANGED wrote
    /\ UNCHANGED <<lent, held, tpc, cause, thrown, spc>>

CallbackReturns(t) ==
    /\ tpc[t] = "callback"
    /\ Underway(t) = {}
    /\ Goto(t, "committing")
    /\ UNCHANGED <<session, lent, held, wrote, failed, cause, thrown, spc>>

Mut_CommitAnyway(t) ==
    /\ tpc[t] = "callback"
    /\ Underway(t) = {}
    /\ Goto(t, "committing")
    /\ cause' = [cause EXCEPT ![t] = "callback"]
    /\ UNCHANGED <<session, lent, held, wrote, failed, thrown, spc>>

CallbackThrows(t) ==
    /\ tpc[t] = "callback"
    /\ Underway(t) = {}
    /\ Goto(t, "rollingback")
    /\ cause' = [cause EXCEPT ![t] = "callback"]
    /\ UNCHANGED <<session, lent, held, wrote, failed, thrown, spc>>

Commit(t) ==
    /\ tpc[t] = "committing"
    /\ Commits(held[t]) \/ CommitsNothing(held[t])
    /\ Settle(t, "resolved", "none")
    /\ UNCHANGED <<held, wrote, failed, cause, spc>>

\* Only duckdb's COMMIT is inside the try block whose catch rolls back.
CommitRejects(t) ==
    /\ tpc[t] = "committing"
    /\ CommitFails(held[t]) \/ CommitAnswerLost(held[t])
    /\ cause' = [cause EXCEPT ![t] = "commit"]
    /\ IF driver = "duckdb"
       THEN Goto(t, "rollingback") /\ UNCHANGED <<lent, thrown>>
       ELSE Settle(t, "rejected", "commit")
    /\ UNCHANGED <<held, wrote, failed, spc>>

Rollback(t) ==
    /\ tpc[t] = "rollingback"
    /\ RollsBack(held[t])
    /\ Settle(t, "rejected", cause[t])
    /\ UNCHANGED <<held, wrote, failed, cause, spc>>

\* ROLLBACK itself throws: its error replaces the one being handled.
RollbackFails(t) ==
    /\ tpc[t] = "rollingback"
    /\ ~CanRollBack(held[t])
    /\ Settle(t, "rejected", "rollback")
    /\ UNCHANGED <<session, held, wrote, failed, cause, spc>>

\* The pool replaces a connection that was lost.
Replace(c) ==
    /\ Pooled /\ lent[c] = Nobody /\ mode[c] = "lost"
    /\ Session(c, "idle", {}, <<>>)
    /\ UNCHANGED <<durable, lent, held, tpc, wrote, failed, cause, thrown, spc>>

-----------------------------------------------------------------------------
(* savepoint().                                                            *)

SaveGoto(s, stage) ==
    /\ spc' = [spc EXCEPT ![s] = stage]
    /\ UNCHANGED <<lent, held, tpc, cause, thrown>>

ConnOf(s) == held[TxOf[s]]
MarkOf(s) == {i \in DOMAIN marks[ConnOf(s)] : marks[ConnOf(s)][i].save = s}

\* duckdb's savepoint() throws at once and does nothing.
SaveBegins(s) ==
    /\ tpc[TxOf[s]] = "callback"
    /\ spc[s] = "idle"
    /\ driver # "duckdb"
    /\ overlap \/ Underway(TxOf[s]) = {}
    /\ UNCHANGED wrote
    /\ LET c == ConnOf(s) IN
       \/ /\ mode[c] = "active"
          /\ Session(c, "active", pending[c], Append(marks[c], [save |-> s, writes |-> pending[c]]))
          /\ SaveGoto(s, "inside")
          /\ UNCHANGED <<durable, failed>>
       \/ /\ StatementFails(c)
          /\ SaveGoto(s, "rejected")
          /\ failed' = failed \cup {TxOf[s]}

\* The savepoint's callback writes; it throws if its statement fails.
SaveWrites(s) ==
    /\ spc[s] = "inside"
    /\ s \notin wrote
    /\ UNCHANGED failed
    /\ \/ Writes(ConnOf(s), s) /\ SaveGoto(s, "inside") /\ wrote' = wrote \cup {s}
       \/ StatementFails(ConnOf(s)) /\ SaveGoto(s, "throwing") /\ UNCHANGED wrote

SaveThrows(s) ==
    /\ spc[s] = "inside"
    /\ SaveGoto(s, "throwing")
    /\ UNCHANGED <<session, wrote, failed>>

\* RELEASE SAVEPOINT forgets the mark and those after it; mssql has no such
\* statement.  An error goes to the catch block.
SaveReturns(s) ==
    /\ spc[s] = "inside"
    /\ UNCHANGED <<wrote, failed>>
    /\ LET c == ConnOf(s) IN
       \/ driver = "mssql" /\ SaveGoto(s, "resolved") /\ UNCHANGED session
       \/ /\ driver # "mssql" /\ mode[c] = "active"
          /\ \E i \in MarkOf(s) :
               Session(c, "active", pending[c], SubSeq(marks[c], 1, i - 1))
          /\ SaveGoto(s, "resolved")
          /\ UNCHANGED durable
       \/ driver # "mssql" /\ StatementFails(c) /\ SaveGoto(s, "throwing")

Mut_ReleaseOnError(s) ==
    /\ spc[s] = "throwing"
    /\ SaveGoto(s, "undone")
    /\ UNCHANGED <<session, wrote, failed>>

\* ROLLBACK TO SAVEPOINT restores the writes of the mark, which stays, and
\* revives an aborted session.  If it fails, its error replaces the callback's:
\* the caller can tell "undone" from "rejected".
SaveRollsBack(s) ==
    /\ spc[s] = "throwing"
    /\ UNCHANGED <<wrote, failed>>
    /\ LET c == ConnOf(s) IN
       \/ /\ mode[c] \in {"active", "aborted"}
          /\ \E i \in MarkOf(s) :
               Session(c, "active", marks[c][i].writes, SubSeq(marks[c], 1, i))
          /\ SaveGoto(s, "undone")
          /\ UNCHANGED durable
       \/ /\ mode[c] \notin {"active", "aborted"} \/ MarkOf(s) = {}
          /\ StatementFails(c)
          /\ SaveGoto(s, "rejected")

-----------------------------------------------------------------------------

Continue(t) ==
    \/ Begin(t) \/ BeginFails(t)
    \/ CallbackReturns(t) \/ CallbackThrows(t)
    \/ Commit(t) \/ CommitRejects(t) \/ Rollback(t) \/ RollbackFails(t)

SaveContinue(s) == SaveThrows(s) \/ SaveReturns(s) \/ SaveRollsBack(s)

Next ==
    /\ UNCHANGED <<driver, overlap>>
    /\ \/ \E t \in Tx : Connect(t) \/ Write(t) \/ Continue(t)
       \/ \E s \in Saves : SaveBegins(s) \/ SaveWrites(s) \/ SaveContinue(s)
       \/ \E c \in Conns : Replace(c)

Spec == Init /\ [][Next]_vars

\* Callbacks settle and the database answers; the pool serves everyone in turn.
FairSpec ==
    /\ Spec
    /\ \A t \in Tx :
        /\ WF_vars(UNCHANGED <<driver, overlap>> /\ Continue(t))
        /\ SF_vars(UNCHANGED <<driver, overlap>> /\ Connect(t))
    /\ \A s \in Saves : WF_vars(UNCHANGED <<driver, overlap>> /\ SaveContinue(s))

-----------------------------------------------------------------------------
(* Properties.                                                             *)

WritesOf(t) == {t} \cup {s \in Saves : TxOf[s] = t}

\* "If the callback throws, the transaction is rolled back": none of its writes,
\* in or out of savepoints, is ever committed, whatever fails meanwhile.
ThrowRollsBack == \A t \in Tx : cause[t] = "callback" => durable \cap WritesOf(t) = {}

\* What transaction() promises to commit: its own write and those of the savepoints
\* that resolved.
Survivors(t) == wrote \cap ({t} \cup {s \in Saves : TxOf[s] = t /\ spc[s] = "resolved"})

\* Of a transaction everything is committed or nothing, with savepoints one at a
\* time.  One that resolved is committed, except that PostgreSQL answers COMMIT
\* with a rollback if a statement failed and the callback went on; one that
\* rejected is not, except that the answer to COMMIT may be lost with the connection.
AllOrNothing ==
    \A t \in Tx :
        LET committed == durable \cap WritesOf(t) IN
        /\ ~overlap => committed \in {{}, Survivors(t)}
        /\ tpc[t] = "resolved" /\ ~overlap
             => committed = Survivors(t) \/ (driver = "postgres" /\ t \in failed)
        /\ tpc[t] = "rejected" => committed = {} \/ (Pooled /\ cause[t] = "commit")

\* A session no call has a hold on is in no transaction, except the one SQLite keeps
\* open when its COMMIT failed: it has the writes of that transaction alone.
SessionsEnd ==
    \A c \in Conns :
        (\A t \in Tx : held[t] = c => tpc[t] \notin Holding)
          => \/ mode[c] \in {"idle", "lost"} /\ pending[c] = {}
             \/ /\ driver = "sqlite3"
                /\ \E t \in Tx : /\ held[t] = c /\ cause[t] = "commit"
                                 /\ pending[c] \subseteq WritesOf(t)

\* Whatever fails, a transaction is committed whole or not at all, its caller learns
\* which, and what a failed COMMIT leaves behind is never committed by a later one.
TransactionsAtomic == AllOrNothing /\ SessionsEnd

\* A savepoint that rejects with its callback's error leaves no trace, even if its
\* transaction commits and whichever savepoints ran beside it; with savepoints one
\* at a time neither does one that rejects for another reason.
FailedSaveUndone ==
    \A s \in Saves :
        spc[s] = "undone" \/ (spc[s] = "rejected" /\ ~overlap) => s \notin durable

\* Every call settles, and so gives its client back.
CallsSettle == \A t \in Tx : tpc[t] = "idle" ~> tpc[t] \in {"resolved", "rejected"}
=============================================================================
