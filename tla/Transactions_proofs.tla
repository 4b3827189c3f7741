------------------------- MODULE Transactions_proofs -------------------------
(***************************************************************************)
(* Proofs about Transactions: what the callback threw on is never          *)
(* committed, a transaction is committed whole or not at all and its       *)
(* caller learns which, and a savepoint that was rolled back leaves no     *)
(* trace.                                                                  *)
(***************************************************************************)
EXTENDS Transactions, SequenceTheorems, TLAPS

Modes == {"idle", "active", "aborted", "lost"}
Open == {"active", "aborted"}
InTx == {"callback", "committing", "rollingback"}
Marks == [save : Saves, writes : SUBSET (Tx \cup Saves)]

(* duckdb's ROLLBACK after a failed COMMIT undoes another transaction if   *)
(* the host gives one connection to several.                               *)
DuckDBApart == "duckdb" \notin Shared

(* Whether one transaction at a time has a connection.                     *)
Exclusive == Pooled \/ driver \notin Shared

(* What a failed COMMIT of SQLite leaves.                                  *)
LeftOpen(t, c) ==
  driver = "sqlite3" /\ tpc[t] = "rejected" /\ cause[t] = "commit" /\ pending[c] \subseteq WritesOf(t)

(* Only an open session has contents, and the database's part of which     *)
(* modes a driver can meet.                                                *)
ModeInv ==
  \A c \in Conns :
    /\ mode[c] \notin Open => pending[c] = {} /\ marks[c] = <<>>
    /\ driver = "sqlite3" => mode[c] \in {"idle", "active"}
    /\ driver = "mssql" => mode[c] # "aborted"
    /\ mode[c] \in Open => \E t \in Tx : held[t] = c /\ (tpc[t] \in InTx \/ LeftOpen(t, c))

(* Who has a connection, and who has begun on it.                          *)
OwnerInv ==
  /\ \A t \in Tx : tpc[t] \in Holding => held[t] \in Conns
  /\ \A t \in Tx : Pooled /\ tpc[t] \in Holding => lent[held[t]] = t
  /\ \A t \in Tx : driver = "sqlite3" /\ tpc[t] \in InTx => mode[held[t]] = "active"
  /\ \A t, u \in Tx :
       /\ tpc[t] \in Holding /\ tpc[u] \in Holding /\ held[t] = held[u]
       /\ Exclusive \/ (tpc[t] \in InTx /\ tpc[u] \in InTx)
       => t = u

Holds(c, w) == w \in pending[c] \/ \E i \in DOMAIN marks[c] : w \in marks[c][i].writes

(* What must not be committed: a savepoint that has not begun, that was    *)
(* rolled back or, with savepoints one at a time, that rejected.           *)
Gone(s) == spc[s] \in {"idle", "undone"} \/ (spc[s] = "rejected" /\ ~overlap)

SavesOf(t) == {s \in Saves : TxOf[s] = t}

(* Where savepoints come one at a time: what the transaction promises is   *)
(* pending, and in the mark of the savepoint under way, which can be       *)
(* rolled back; outside savepoints only the callback's own failure aborts  *)
(* the session.                                                            *)
Sequential(t) ==
  /\ \A s, u \in Underway(t) : s = u
  /\ mode[held[t]] = "aborted" /\ Underway(t) = {} => t \in failed
  /\ mode[held[t]] \in Open =>
       /\ \A s \in Underway(t) : MarkOf(s) # {}
       /\ tpc[t] # "rollingback" =>
            /\ Survivors(t) \subseteq pending[held[t]]
            /\ \A s \in Underway(t) :
                 /\ spc[s] = "inside" /\ s \in wrote => s \in pending[held[t]]
                 /\ \A i \in MarkOf(s) : Survivors(t) \subseteq marks[held[t]][i].writes

(* The session of a transaction that has begun has its own writes only; a  *)
(* mark was set before its savepoint wrote.                                *)
Contents(t) ==
  /\ \A w : Holds(held[t], w) => w \in WritesOf(t) /\ w \in wrote
  /\ \A i, j \in DOMAIN marks[held[t]] :
       j <= i => marks[held[t]][i].save \notin marks[held[t]][j].writes
  /\ \A s \in SavesOf(t) : Gone(s) => ~Holds(held[t], s)
  /\ \A s \in SavesOf(t) : spc[s] = "idle" => MarkOf(s) = {}
  /\ ~overlap => Sequential(t)

TxInv(t) ==
  /\ durable \cap WritesOf(t) # {} =>
       tpc[t] = "resolved" \/ (tpc[t] = "rejected" /\ Pooled /\ cause[t] = "commit")
  /\ cause[t] = "callback" => tpc[t] \in {"rollingback", "rejected"}
  /\ tpc[t] \in {"idle", "connected"} => t \notin wrote /\ \A s \in SavesOf(t) : spc[s] = "idle"
  /\ tpc[t] # "callback" => Underway(t) = {}
  /\ tpc[t] \in InTx => Contents(t)
  /\ \A s \in SavesOf(t) : /\ Gone(s) => s \notin durable
                           /\ spc[s] = "idle" => s \notin wrote
  /\ ~overlap => durable \cap WritesOf(t) \in {{}, Survivors(t)}
  /\ ~overlap /\ tpc[t] = "resolved" =>
       durable \cap WritesOf(t) = Survivors(t) \/ (driver = "postgres" /\ t \in failed)

(* The inductive invariant.                                                *)
IInv == TypeOK /\ ModeInv /\ OwnerInv /\ \A t \in Tx : TxInv(t)

-----------------------------------------------------------------------------
(* Types.                                                                  *)

SessionType ==
  /\ mode \in [Conns -> Modes]
  /\ pending \in [Conns -> SUBSET (Tx \cup Saves)]
  /\ marks \in [Conns -> Seq(Marks)]
  /\ durable \in SUBSET (Tx \cup Saves)

LEMMA SetSessionType ==
  ASSUME SessionType, NEW c \in Conns, NEW m \in Modes,
         NEW ws \in SUBSET (Tx \cup Saves), NEW ms \in Seq(Marks),
         Session(c, m, ws, ms)
  PROVE  /\ mode' \in [Conns -> Modes]
         /\ pending' \in [Conns -> SUBSET (Tx \cup Saves)]
         /\ marks' \in [Conns -> Seq(Marks)]
<1>1. mode' \in [Conns -> Modes]
  BY DEF SessionType, Session
<1>2. pending' \in [Conns -> SUBSET (Tx \cup Saves)]
  BY DEF SessionType, Session
<1>3. marks' \in [Conns -> Seq(Marks)]
  BY DEF SessionType, Session
<1> QED
  BY <1>1, <1>2, <1>3

LEMMA EmptyMarks == <<>> \in Seq(Marks)
  OBVIOUS

LEMMA FailureModesType ==
  ASSUME driver \in Drivers
  PROVE  FailureModes \subseteq Modes
<1>1. CASE driver = "postgres"
  BY <1>1 DEF FailureModes, Modes
<1>2. CASE driver = "mssql"
  BY <1>2 DEF FailureModes, Modes
<1>3. CASE driver = "sqlite3"
  BY <1>3 DEF FailureModes, Modes
<1>4. CASE driver = "duckdb"
  BY <1>4 DEF FailureModes, Modes
<1> QED
  BY <1>1, <1>2, <1>3, <1>4, DriverAssumption

LEMMA StatementFailsType ==
  ASSUME SessionType, driver \in Drivers, NEW c \in Conns, StatementFails(c)
  PROVE  SessionType'
<1>1. durable' = durable
  BY DEF StatementFails
<1>2. CASE mode[c] # "active"
  BY <1>2 DEF StatementFails, SessionType
<1>3. ASSUME NEW m \in FailureModes, Session(c, m, {}, <<>>)
      PROVE  SessionType'
  <2>1. m \in Modes
    BY FailureModesType
  <2> QED
    BY <1>1, <1>3, <2>1, EmptyMarks, SetSessionType DEF SessionType
<1>4. ASSUME NEW m \in FailureModes, Session(c, m, pending[c], marks[c])
      PROVE  SessionType'
  <2>1. m \in Modes
    BY FailureModesType
  <2>2. pending[c] \in SUBSET (Tx \cup Saves) /\ marks[c] \in Seq(Marks)
    BY DEF SessionType
  <2> QED
    BY <1>1, <1>4, <2>1, <2>2, SetSessionType DEF SessionType
<1> QED
  BY <1>2, <1>3, <1>4 DEF StatementFails

LEMMA WritesType ==
  ASSUME SessionType, NEW c \in Conns, NEW w \in Tx \cup Saves, Writes(c, w)
  PROVE  SessionType'
<1>1. pending[c] \cup {w} \in SUBSET (Tx \cup Saves) /\ marks[c] \in Seq(Marks) /\ "active" \in Modes
  BY DEF SessionType, Modes
<1>2. Session(c, "active", pending[c] \cup {w}, marks[c]) /\ durable' = durable
  BY DEF Writes
<1> QED
  BY <1>1, <1>2, SetSessionType DEF SessionType

(* BEGIN of an empty transaction and the ends of one.                      *)
LEMMA ClearedType ==
  ASSUME SessionType, NEW c \in Conns, NEW m \in Modes, Session(c, m, {}, <<>>),
         durable' \in SUBSET (Tx \cup Saves)
  PROVE  SessionType'
  BY EmptyMarks, SetSessionType DEF SessionType

CallType ==
  /\ lent \in [Conns -> Tx \cup {Nobody}]
  /\ held \in [Tx -> Conns \cup {Nobody}]
  /\ tpc \in [Tx -> Holding \cup {"idle", "resolved", "rejected"}]
  /\ wrote \in SUBSET (Tx \cup Saves) /\ failed \in SUBSET Tx
  /\ cause \in [Tx -> Errors]
  /\ thrown \in [Tx -> Errors]
  /\ spc \in [Saves -> {"idle", "inside", "throwing", "resolved", "undone", "rejected"}]

LEMMA TypeParts ==
  TypeOK <=> driver \in Drivers /\ overlap \in BOOLEAN /\ SessionType /\ CallType
  BY DEF TypeOK, SessionType, CallType, Modes, Marks

LEMMA TypePartsNext ==
  (TypeOK <=> driver \in Drivers /\ overlap \in BOOLEAN /\ SessionType /\ CallType)'
  BY TypeParts, PTL

LEMMA GotoType ==
  ASSUME CallType, NEW t \in Tx, NEW stage \in Holding \cup {"resolved", "rejected"}, Goto(t, stage)
  PROVE  tpc' \in [Tx -> Holding \cup {"idle", "resolved", "rejected"}]
  BY DEF CallType, Goto

LEMMA SettleType ==
  ASSUME CallType, NEW t \in Tx, NEW stage \in {"resolved", "rejected"},
         NEW error \in Errors, Settle(t, stage, error)
  PROVE  /\ tpc' \in [Tx -> Holding \cup {"idle", "resolved", "rejected"}]
         /\ thrown' \in [Tx -> Errors]
         /\ lent' \in [Conns -> Tx \cup {Nobody}]
<1>1. tpc' \in [Tx -> Holding \cup {"idle", "resolved", "rejected"}]
  BY GotoType DEF Settle
<1>2. thrown' \in [Tx -> Errors]
  BY DEF CallType, Settle
<1>3. lent' \in [Conns -> Tx \cup {Nobody}]
  BY DEF CallType, Settle
<1> QED
  BY <1>1, <1>2, <1>3

LEMMA SaveGotoType ==
  ASSUME CallType, NEW s \in Saves,
         NEW stage \in {"inside", "throwing", "resolved", "undone", "rejected"}, SaveGoto(s, stage),
         wrote' \in SUBSET (Tx \cup Saves), failed' \in SUBSET Tx
  PROVE  CallType'
<1>1. spc' \in [Saves -> {"idle", "inside", "throwing", "resolved", "undone", "rejected"}]
  BY DEF CallType, SaveGoto
<1> QED
  BY <1>1 DEF CallType, SaveGoto

LEMMA ConnectType ==
  ASSUME CallType, SessionType, NEW t \in Tx, Connect(t)
  PROVE  SessionType' /\ CallType'
<1>1. SessionType'
  BY DEF Connect, session, SessionType
<1>2. PICK c \in Conns :
        held' = [held EXCEPT ![t] = c] /\ lent' = IF Pooled THEN [lent EXCEPT ![c] = t] ELSE lent
  BY DEF Connect
<1>3. held' \in [Tx -> Conns \cup {Nobody}]
  BY <1>2 DEF CallType
<1>4. lent' \in [Conns -> Tx \cup {Nobody}]
  BY <1>2 DEF CallType
<1>5. tpc' \in [Tx -> Holding \cup {"idle", "resolved", "rejected"}]
  BY GotoType DEF Connect, Holding
<1> QED
  BY <1>1, <1>3, <1>4, <1>5 DEF Connect, CallType

LEMMA ContinueType ==
  ASSUME CallType, SessionType, driver \in Drivers, NEW t \in Tx, held[t] \in Conns,
         Write(t) \/ Continue(t)
  PROVE  SessionType' /\ CallType'
<1>1. CASE Write(t)
  <2>1. CASE Writes(held[t], t) /\ wrote' = wrote \cup {t} /\ failed' = failed
    <3>1. SessionType'
      BY <2>1, WritesType
    <3> QED
      BY <1>1, <2>1, <3>1 DEF Write, CallType
  <2>2. CASE StatementFails(held[t]) /\ failed' = failed \cup {t} /\ wrote' = wrote
    <3>1. SessionType'
      BY <2>2, StatementFailsType
    <3> QED
      BY <1>1, <2>2, <3>1 DEF Write, CallType
  <2> QED
    BY <1>1, <2>1, <2>2 DEF Write
<1>2. CASE Begin(t)
  <2>1. SessionType'
    <3>1. durable' \in SUBSET (Tx \cup Saves) /\ "active" \in Modes
      BY <1>2 DEF Begin, SessionType, Modes
    <3>2. CASE Session(held[t], "active", {}, <<>>)
      BY <3>1, <3>2, ClearedType
    <3>3. CASE UNCHANGED <<mode, pending, marks>>
      BY <3>1, <3>3 DEF SessionType
    <3> QED
      BY <1>2, <3>2, <3>3 DEF Begin
  <2>2. tpc' \in [Tx -> Holding \cup {"idle", "resolved", "rejected"}]
    BY <1>2, GotoType DEF Begin, Holding
  <2> QED
    BY <1>2, <2>1, <2>2 DEF Begin, CallType
<1>3. CASE BeginFails(t)
  <2>1. SessionType'
    BY <1>3 DEF BeginFails, session, SessionType
  <2>2. Settle(t, "rejected", "begin") /\ cause' = [cause EXCEPT ![t] = "begin"]
    BY <1>3 DEF BeginFails
  <2>3. cause' \in [Tx -> Errors]
    BY <2>2 DEF CallType, Errors
  <2>4. "begin" \in Errors
    BY DEF Errors
  <2> QED
    BY <1>3, <2>1, <2>2, <2>3, <2>4, SettleType DEF BeginFails, CallType
<1>4. CASE CallbackReturns(t)
  <2>1. SessionType'
    BY <1>4 DEF CallbackReturns, session, SessionType
  <2>2. tpc' \in [Tx -> Holding \cup {"idle", "resolved", "rejected"}]
    BY <1>4, GotoType DEF CallbackReturns, Holding
  <2> QED
    BY <1>4, <2>1, <2>2 DEF CallbackReturns, CallType
<1>5. CASE CallbackThrows(t)
  <2>1. SessionType'
    BY <1>5 DEF CallbackThrows, session, SessionType
  <2>2. tpc' \in [Tx -> Holding \cup {"idle", "resolved", "rejected"}]
    BY <1>5, GotoType DEF CallbackThrows, Holding
  <2>3. cause' \in [Tx -> Errors]
    BY <1>5 DEF CallbackThrows, CallType, Errors
  <2> QED
    BY <1>5, <2>1, <2>2, <2>3 DEF CallbackThrows, CallType
<1>6. CASE Commit(t)
  <2>1. "idle" \in Modes /\ "none" \in Errors
    BY DEF Modes, Errors
  <2>2. durable' \in SUBSET (Tx \cup Saves) /\ Session(held[t], "idle", {}, <<>>)
    <3>1. CASE Commits(held[t])
      <4>1. pending[held[t]] \in SUBSET (Tx \cup Saves)
        BY DEF SessionType
      <4> QED
        BY <3>1, <4>1 DEF Commits, SessionType
    <3>2. CASE CommitsNothing(held[t])
      BY <3>2 DEF CommitsNothing, SessionType
    <3> QED
      BY <1>6, <3>1, <3>2 DEF Commit
  <2>3. SessionType'
    BY <2>1, <2>2, ClearedType
  <2>4. Settle(t, "resolved", "none")
    BY <1>6 DEF Commit
  <2> QED
    BY <1>6, <2>1, <2>3, <2>4, SettleType DEF Commit, CallType
<1>7. CASE CommitRejects(t)
  <2>1. SessionType'
    <3>1. {"idle", "lost"} \subseteq Modes /\ pending[held[t]] \in SUBSET (Tx \cup Saves)
      BY DEF Modes, SessionType
    <3>2. durable' \in SUBSET (Tx \cup Saves)
      BY <1>7, <3>1 DEF CommitRejects, CommitFails, CommitAnswerLost, SessionType
    <3>3. ASSUME NEW m \in {"idle", "lost"}, Session(held[t], m, {}, <<>>)
          PROVE  SessionType'
      BY <3>1, <3>2, <3>3, ClearedType
    <3>4. CASE UNCHANGED <<mode, pending, marks>>
      BY <3>2, <3>4 DEF SessionType
    <3> QED
      BY <1>7, <3>3, <3>4 DEF CommitRejects, CommitFails, CommitAnswerLost
  <2>2. cause' \in [Tx -> Errors]
    BY <1>7 DEF CommitRejects, CallType, Errors
  <2>3. CASE Goto(t, "rollingback") /\ UNCHANGED <<lent, thrown>>
    <3>1. tpc' \in [Tx -> Holding \cup {"idle", "resolved", "rejected"}]
      BY <2>3, GotoType DEF Holding
    <3> QED
      BY <1>7, <2>1, <2>2, <2>3, <3>1 DEF CommitRejects, CallType
  <2>4. CASE Settle(t, "rejected", "commit")
    <3>1. "commit" \in Errors
      BY DEF Errors
    <3> QED
      BY <1>7, <2>1, <2>2, <2>4, <3>1, SettleType DEF CommitRejects, CallType
  <2> QED
    BY <1>7, <2>3, <2>4 DEF CommitRejects
<1>8. CASE Rollback(t)
  <2>1. Session(held[t], "idle", {}, <<>>) /\ durable' = durable /\ "idle" \in Modes
    BY <1>8 DEF Rollback, RollsBack, Modes
  <2>2. SessionType'
    BY <2>1, ClearedType DEF SessionType
  <2>3. cause[t] \in Errors /\ Settle(t, "rejected", cause[t])
    BY <1>8 DEF CallType, Rollback
  <2> QED
    BY <1>8, <2>2, <2>3, SettleType DEF Rollback, CallType
<1>9. CASE RollbackFails(t)
  <2>1. SessionType'
    BY <1>9 DEF RollbackFails, session, SessionType
  <2>2. "rollback" \in Errors /\ Settle(t, "rejected", "rollback")
    BY <1>9 DEF Errors, RollbackFails
  <2> QED
    BY <1>9, <2>1, <2>2, SettleType DEF RollbackFails, CallType
<1> QED
  BY <1>1, <1>2, <1>3, <1>4, <1>5, <1>6, <1>7, <1>8, <1>9 DEF Continue

LEMMA SaveType ==
  ASSUME CallType, SessionType, driver \in Drivers, NEW s \in Saves, ConnOf(s) \in Conns,
         SaveBegins(s) \/ SaveWrites(s) \/ SaveContinue(s)
  PROVE  SessionType' /\ CallType'
<1> DEFINE c == ConnOf(s)
<1>0. pending[c] \in SUBSET (Tx \cup Saves) /\ marks[c] \in Seq(Marks)
      /\ wrote \in SUBSET (Tx \cup Saves) /\ "active" \in Modes /\ durable \in SUBSET (Tx \cup Saves)
      /\ failed \in SUBSET Tx /\ TxOf[s] \in Tx
  BY SaveAssumption DEF SessionType, CallType, Modes
<1>1. CASE SaveBegins(s)
  <2>1. wrote' = wrote /\ (failed' = failed \/ failed' = failed \cup {TxOf[s]})
    BY <1>1 DEF SaveBegins
  <2>2. CASE /\ Session(c, "active", pending[c], Append(marks[c], [save |-> s, writes |-> pending[c]]))
             /\ SaveGoto(s, "inside") /\ durable' = durable
    <3>1. Append(marks[c], [save |-> s, writes |-> pending[c]]) \in Seq(Marks)
      BY <1>0, AppendProperties DEF Marks
    <3>2. SessionType'
      BY <1>0, <2>2, <3>1, SetSessionType DEF SessionType
    <3> QED
      BY <1>0, <2>1, <2>2, <3>2, SaveGotoType
  <2>3. CASE StatementFails(c) /\ SaveGoto(s, "rejected")
    <3>1. SessionType'
      BY <2>3, StatementFailsType
    <3> QED
      BY <1>0, <2>1, <2>3, <3>1, SaveGotoType
  <2> QED
    BY <1>1, <2>2, <2>3 DEF SaveBegins
<1>2. CASE SaveWrites(s)
  <2>0. failed' = failed
    BY <1>2 DEF SaveWrites
  <2>1. CASE Writes(c, s) /\ SaveGoto(s, "inside") /\ wrote' = wrote \cup {s}
    <3>1. SessionType'
      BY <2>1, WritesType
    <3> QED
      BY <1>0, <2>0, <2>1, <3>1, SaveGotoType
  <2>2. CASE StatementFails(c) /\ SaveGoto(s, "throwing") /\ UNCHANGED wrote
    <3>1. SessionType'
      BY <2>2, StatementFailsType
    <3> QED
      BY <1>0, <2>0, <2>2, <3>1, SaveGotoType
  <2> QED
    BY <1>2, <2>1, <2>2 DEF SaveWrites
<1>3. CASE SaveThrows(s)
  <2>1. SessionType'
    BY <1>3 DEF SaveThrows, session, SessionType
  <2> QED
    BY <1>0, <1>3, <2>1, SaveGotoType DEF SaveThrows
<1>4. CASE SaveReturns(s)
  <2>1. wrote' = wrote /\ failed' = failed
    BY <1>4 DEF SaveReturns
  <2>2. CASE SaveGoto(s, "resolved") /\ UNCHANGED session
    <3>1. SessionType'
      BY <2>2 DEF session, SessionType
    <3> QED
      BY <1>0, <2>1, <2>2, <3>1, SaveGotoType
  <2>3. ASSUME NEW i \in MarkOf(s), Session(c, "active", pending[c], SubSeq(marks[c], 1, i - 1)),
               SaveGoto(s, "resolved"), UNCHANGED durable
        PROVE  SessionType' /\ CallType'
    <3>1. i \in 1 .. Len(marks[c])
      BY <1>0 DEF MarkOf
    <3>2. SubSeq(marks[c], 1, i - 1) \in Seq(Marks)
      BY <1>0, <3>1
    <3>3. SessionType'
      BY <1>0, <2>3, <3>2, SetSessionType DEF SessionType
    <3> QED
      BY <1>0, <2>1, <2>3, <3>3, SaveGotoType
  <2>4. CASE StatementFails(c) /\ SaveGoto(s, "throwing")
    <3>1. SessionType'
      BY <2>4, StatementFailsType
    <3> QED
      BY <1>0, <2>1, <2>4, <3>1, SaveGotoType
  <2> QED
    BY <1>4, <2>2, <2>3, <2>4 DEF SaveReturns
<1>5. CASE SaveRollsBack(s)
  <2>1. wrote' = wrote /\ failed' = failed
    BY <1>5 DEF SaveRollsBack
  <2>2. ASSUME NEW i \in MarkOf(s), Session(c, "active", marks[c][i].writes, SubSeq(marks[c], 1, i)),
               SaveGoto(s, "undone"), UNCHANGED durable
        PROVE  SessionType' /\ CallType'
    <3>1. i \in 1 .. Len(marks[c])
      BY <1>0 DEF MarkOf
    <3>2. SubSeq(marks[c], 1, i) \in Seq(Marks) /\ marks[c][i] \in Marks
      BY <1>0, <3>1
    <3>3. marks[c][i].writes \in SUBSET (Tx \cup Saves)
      BY <3>2 DEF Marks
    <3>4. SessionType'
      BY <1>0, <2>2, <3>2, <3>3, SetSessionType DEF SessionType
    <3> QED
      BY <1>0, <2>1, <2>2, <3>4, SaveGotoType
  <2>3. CASE StatementFails(c) /\ SaveGoto(s, "rejected")
    <3>1. SessionType'
      BY <2>3, StatementFailsType
    <3> QED
      BY <1>0, <2>1, <2>3, <3>1, SaveGotoType
  <2> QED
    BY <1>5, <2>2, <2>3 DEF SaveRollsBack
<1> QED
  BY <1>1, <1>2, <1>3, <1>4, <1>5 DEF SaveContinue

LEMMA ReplaceType ==
  ASSUME CallType, SessionType, NEW c \in Conns, Replace(c)
  PROVE  SessionType' /\ CallType'
<1>1. durable' \in SUBSET (Tx \cup Saves) /\ "idle" \in Modes /\ Session(c, "idle", {}, <<>>)
  BY DEF Replace, SessionType, Modes
<1> QED
  BY <1>1, ClearedType DEF Replace, CallType

-----------------------------------------------------------------------------
(* What a step does to its session.                                        *)

Elsewhere(c) ==
  \A d \in Conns \ {c} : mode'[d] = mode[d] /\ pending'[d] = pending[d] /\ marks'[d] = marks[d]

SameContents(c) == pending'[c] = pending[c] /\ marks'[c] = marks[c]

Emptied(c) == mode'[c] \notin Open /\ pending'[c] = {} /\ marks'[c] = <<>>

LEMMA SessionEffect ==
  ASSUME SessionType, NEW c \in Conns, NEW m, NEW ws, NEW ms, Session(c, m, ws, ms)
  PROVE  Elsewhere(c) /\ mode'[c] = m /\ pending'[c] = ws /\ marks'[c] = ms
  BY DEF SessionType, Session, Elsewhere

LEMMA UnchangedEffect ==
  ASSUME UNCHANGED <<mode, pending, marks>>
  PROVE  \A c \in Conns : Elsewhere(c) /\ SameContents(c) /\ mode'[c] = mode[c]
  BY DEF Elsewhere, SameContents

(* A failing statement keeps the contents or loses all of them.            *)
LEMMA FailureEffect ==
  ASSUME SessionType, driver \in Drivers, NEW c \in Conns, StatementFails(c)
  PROVE  /\ durable' = durable /\ Elsewhere(c)
         /\ \/ SameContents(c) /\ (mode'[c] \in Open <=> mode[c] \in Open)
            \/ Emptied(c) /\ mode[c] \in Open
         /\ driver = "sqlite3" => mode'[c] = mode[c]
         /\ driver = "mssql" /\ mode[c] # "aborted" => mode'[c] # "aborted"
<1>1. durable' = durable
  BY DEF StatementFails
<1>2. CASE mode[c] # "active"
  <2>1. UNCHANGED <<mode, pending, marks>>
    BY <1>2 DEF StatementFails
  <2> QED
    BY <1>1, <2>1, UnchangedEffect
<1>3. ASSUME mode[c] = "active", NEW m \in FailureModes, m \in {"idle", "lost"}, Session(c, m, {}, <<>>)
      PROVE  Elsewhere(c) /\ Emptied(c) /\ driver # "sqlite3" /\ mode'[c] # "aborted"
  <2>1. driver # "sqlite3"
    BY <1>3 DEF FailureModes
  <2> QED
    BY <1>3, <2>1, SessionEffect DEF Emptied, Open
<1>4. ASSUME mode[c] = "active", NEW m \in FailureModes, m \notin {"idle", "lost"},
             Session(c, m, pending[c], marks[c])
      PROVE  /\ Elsewhere(c) /\ SameContents(c) /\ mode'[c] \in Open
             /\ driver = "sqlite3" => mode'[c] = mode[c]
             /\ driver = "mssql" => mode'[c] # "aborted"
  <2>1. m \in Open
    <3>1. m \in Modes
      BY FailureModesType
    <3> QED
      BY <1>4, <3>1 DEF Modes, Open
  <2>2. driver = "sqlite3" => m = "active"
    BY <1>4 DEF FailureModes
  <2>3. driver = "mssql" => m # "aborted"
    BY <1>4 DEF FailureModes
  <2> QED
    BY <1>4, <2>1, <2>2, <2>3, SessionEffect DEF SameContents
<1>5. mode[c] = "active" => mode[c] \in Open
  BY DEF Open
<1>6. CASE mode[c] = "active"
  <2>1. \E m \in FailureModes :
          IF m \in {"idle", "lost"} THEN Session(c, m, {}, <<>>) ELSE Session(c, m, pending[c], marks[c])
    BY <1>6 DEF StatementFails
  <2>2. PICK m \in FailureModes :
          IF m \in {"idle", "lost"} THEN Session(c, m, {}, <<>>) ELSE Session(c, m, pending[c], marks[c])
    BY <2>1
  <2>3. CASE m \in {"idle", "lost"}
    <3>1. Elsewhere(c) /\ Emptied(c) /\ driver # "sqlite3" /\ mode'[c] # "aborted"
      BY <1>3, <1>6, <2>2, <2>3
    <3> QED
      BY <1>1, <1>5, <1>6, <3>1
  <2>4. CASE m \notin {"idle", "lost"}
    <3>1. /\ Elsewhere(c) /\ SameContents(c) /\ mode'[c] \in Open
          /\ driver = "sqlite3" => mode'[c] = mode[c]
          /\ driver = "mssql" => mode'[c] # "aborted"
      BY <1>4, <1>6, <2>2, <2>4
    <3> QED
      BY <1>1, <1>5, <1>6, <3>1
  <2> QED
    BY <2>3, <2>4
<1> QED
  BY <1>2, <1>6

(* What any step of transaction t, or of a savepoint in it, leaves alone.  *)
Local(t) ==
  /\ tpc[t] \in Holding /\ held[t] \in Conns
  /\ driver' = driver /\ overlap' = overlap /\ held' = held
  /\ Elsewhere(held[t])
  /\ UNCHANGED <<mode, pending, marks>> \/ tpc[t] \in InTx \/ mode[held[t]] = "idle"
  /\ \A u \in Tx \ {t} : tpc'[u] = tpc[u] /\ cause'[u] = cause[u] /\ (u \in failed' <=> u \in failed)
  /\ wrote \subseteq wrote' /\ \A w \in wrote' \ wrote : w \in WritesOf(t)
  /\ \A s \in Saves \ SavesOf(t) : spc'[s] = spc[s]
  /\ durable \subseteq durable' /\ \A w \in durable' \ durable : w \in WritesOf(t)
  /\ lent' = lent \/ (tpc'[t] \notin Holding /\ lent' = [lent EXCEPT ![held[t]] = Nobody])
  /\ tpc'[t] \in InTx /\ tpc[t] \notin InTx => Pooled \/ mode[held[t]] = "idle"

(* What it leaves of its own session.                                      *)
Orderly(t) ==
  /\ mode'[held[t]] \notin Open => pending'[held[t]] = {} /\ marks'[held[t]] = <<>>
  /\ driver = "sqlite3" => mode'[held[t]] \in {"idle", "active"}
  /\ driver = "mssql" => mode'[held[t]] # "aborted"
  /\ mode'[held[t]] \in Open =>
       \/ tpc'[t] \in InTx \/ LeftOpen(t, held[t])'
       \/ tpc[t] = "connected" /\ mode[held[t]] \in Open /\ SameContents(held[t])
  /\ driver = "sqlite3" /\ tpc'[t] \in InTx => mode'[held[t]] = "active"

Fixed == UNCHANGED <<driver, overlap>>

LEMMA ConnectedQuiet ==
  ASSUME DuckDBApart, IInv, NEW t \in Tx, tpc[t] = "connected", driver # "sqlite3"
  PROVE  mode[held[t]] \notin Open
<1>1. Exclusive
  BY DriverAssumption, HostAssumption DEF IInv, TypeOK, Exclusive, Pooled, DuckDBApart
<1>2. held[t] \in Conns
  BY DEF IInv, OwnerInv, Holding
<1>3. ASSUME mode[held[t]] \in Open
      PROVE  FALSE
  <2>1. PICK u \in Tx : held[u] = held[t] /\ tpc[u] \in InTx
    BY <1>2, <1>3 DEF IInv, ModeInv, LeftOpen
  <2>2. tpc[u] \in Holding /\ tpc[t] \in Holding
    BY <2>1 DEF InTx, Holding
  <2>3. u = t
    BY <1>1, <2>1, <2>2 DEF IInv, OwnerInv
  <2> QED
    BY <2>1, <2>3 DEF InTx
<1> QED
  BY <1>3

(* A statement of a transaction that has begun.                            *)
LEMMA FailureOrderly ==
  ASSUME IInv, NEW t \in Tx, tpc[t] \in InTx, tpc'[t] = tpc[t], StatementFails(held[t])
  PROVE  Orderly(t) /\ Elsewhere(held[t]) /\ durable' = durable
<1>1. SessionType /\ driver \in Drivers /\ held[t] \in Conns
  BY TypeParts DEF IInv, OwnerInv, InTx, Holding
<1>2. /\ durable' = durable /\ Elsewhere(held[t])
      /\ \/ SameContents(held[t]) /\ (mode'[held[t]] \in Open <=> mode[held[t]] \in Open)
         \/ Emptied(held[t]) /\ mode[held[t]] \in Open
      /\ driver = "sqlite3" => mode'[held[t]] = mode[held[t]]
      /\ driver = "mssql" /\ mode[held[t]] # "aborted" => mode'[held[t]] # "aborted"
  BY <1>1, FailureEffect
<1>3. /\ mode[held[t]] \notin Open => pending[held[t]] = {} /\ marks[held[t]] = <<>>
      /\ driver = "sqlite3" => mode[held[t]] = "active"
      /\ driver = "mssql" => mode[held[t]] # "aborted"
  BY <1>1 DEF IInv, ModeInv, OwnerInv
<1> QED
  BY <1>2, <1>3 DEF Orderly, SameContents, Emptied

(* A step that does not touch the session.                                 *)
LEMMA IdleOrderly ==
  ASSUME IInv, NEW t \in Tx, held[t] \in Conns, UNCHANGED <<mode, pending, marks>>,
         mode[held[t]] \in Open => tpc'[t] \in InTx \/ tpc[t] = "connected" \/ LeftOpen(t, held[t])',
         tpc'[t] \in InTx => tpc[t] \in InTx
  PROVE  Orderly(t) /\ Elsewhere(held[t])
<1>1. Elsewhere(held[t]) /\ SameContents(held[t]) /\ mode'[held[t]] = mode[held[t]]
  BY UnchangedEffect
<1>2. /\ mode[held[t]] \notin Open => pending[held[t]] = {} /\ marks[held[t]] = <<>>
      /\ driver = "sqlite3" => mode[held[t]] \in {"idle", "active"}
      /\ driver = "mssql" => mode[held[t]] # "aborted"
      /\ driver = "sqlite3" /\ tpc[t] \in InTx => mode[held[t]] = "active"
  BY DEF IInv, ModeInv, OwnerInv
<1> QED
  BY <1>1, <1>2 DEF Orderly, SameContents

(* A step that makes the session active, and one that ends it.             *)
LEMMA ActiveOrderly ==
  ASSUME IInv, NEW t \in Tx, held[t] \in Conns, NEW ws, NEW ms, Session(held[t], "active", ws, ms),
         tpc'[t] \in InTx
  PROVE  Orderly(t) /\ Elsewhere(held[t])
<1>1. Elsewhere(held[t]) /\ mode'[held[t]] = "active"
  BY SessionEffect, TypeParts DEF IInv
<1> QED
  BY <1>1 DEF Orderly, Open

LEMMA EndOrderly ==
  ASSUME IInv, NEW t \in Tx, held[t] \in Conns,
         NEW m \in {"idle", "lost"}, Session(held[t], m, {}, <<>>),
         driver = "sqlite3" => tpc'[t] \notin InTx /\ m = "idle"
  PROVE  Orderly(t) /\ Elsewhere(held[t])
<1>1. Elsewhere(held[t]) /\ mode'[held[t]] = m /\ pending'[held[t]] = {} /\ marks'[held[t]] = <<>>
  BY SessionEffect, TypeParts DEF IInv
<1> QED
  BY <1>1 DEF Orderly, Open

LEMMA GotoEffect ==
  ASSUME IInv, NEW t \in Tx, NEW stage, Goto(t, stage)
  PROVE  tpc'[t] = stage /\ \A u \in Tx \ {t} : tpc'[u] = tpc[u]
  BY DEF IInv, TypeOK, Goto

LEMMA CauseEffect ==
  ASSUME IInv, NEW t \in Tx, NEW error, cause' = [cause EXCEPT ![t] = error]
  PROVE  cause'[t] = error /\ \A u \in Tx \ {t} : cause'[u] = cause[u]
  BY DEF IInv, TypeOK

LEMMA LocalTx ==
  ASSUME DuckDBApart, IInv, Fixed, NEW t \in Tx, Write(t) \/ Continue(t)
  PROVE  Local(t) /\ Orderly(t)
<1>0. tpc[t] \in Holding /\ held[t] \in Conns
  <2>1. tpc[t] \in Holding
    BY DEF Write, Continue, Begin, BeginFails, CallbackReturns, CallbackThrows, Commit,
           CommitRejects, Rollback, RollbackFails, Holding
  <2> QED
    BY <2>1 DEF IInv, OwnerInv
<1>1. CASE Write(t)
  <2>1. tpc' = tpc /\ tpc[t] \in InTx /\ cause' = cause /\ spc' = spc /\ lent' = lent /\ held' = held
    BY <1>1 DEF Write, InTx
  <2>0. t \in WritesOf(t)
    BY DEF WritesOf
  <2>2. CASE Writes(held[t], t) /\ wrote' = wrote \cup {t} /\ failed' = failed
    <3>1. Orderly(t) /\ Elsewhere(held[t])
      BY <1>0, <2>1, <2>2, ActiveOrderly DEF Writes
    <3> QED
      BY <1>0, <2>0, <2>1, <2>2, <3>1 DEF Local, Fixed, Writes
  <2>3. CASE StatementFails(held[t]) /\ failed' = failed \cup {t} /\ wrote' = wrote
    <3>1. Orderly(t) /\ Elsewhere(held[t]) /\ durable' = durable
      BY <2>1, <2>3, FailureOrderly
    <3> QED
      BY <1>0, <2>1, <2>3, <3>1 DEF Local, Fixed
  <2> QED
    BY <1>1, <2>2, <2>3 DEF Write
<1>2. CASE Begin(t)
  <2>1. /\ tpc[t] = "connected" /\ durable' = durable /\ lent' = lent /\ held' = held
        /\ wrote' = wrote /\ failed' = failed /\ cause' = cause /\ spc' = spc
    BY <1>2 DEF Begin
  <2>2. tpc'[t] = "callback" /\ \A u \in Tx \ {t} : tpc'[u] = tpc[u]
    BY <1>2, GotoEffect DEF Begin
  <2>3. CASE mode[held[t]] = "idle" /\ Session(held[t], "active", {}, <<>>)
    <3>1. Orderly(t) /\ Elsewhere(held[t])
      BY <1>0, <2>2, <2>3, ActiveOrderly DEF InTx
    <3> QED
      BY <1>0, <2>1, <2>2, <2>3, <3>1 DEF Local, Fixed
  <2>4. CASE Pooled /\ mode[held[t]] = "active"
    BY <2>1, <2>4, ConnectedQuiet DEF Pooled, Open
  <2> QED
    BY <1>2, <2>3, <2>4 DEF Begin
<1>3. CASE BeginFails(t)
  <2>1. /\ tpc[t] = "connected" /\ UNCHANGED <<mode, pending, marks, durable>> /\ held' = held
        /\ wrote' = wrote /\ failed' = failed /\ spc' = spc
    BY <1>3 DEF BeginFails, session
  <2>2. tpc'[t] = "rejected" /\ \A u \in Tx \ {t} : tpc'[u] = tpc[u]
    BY <1>3, GotoEffect DEF BeginFails, Settle
  <2>3. \A u \in Tx \ {t} : cause'[u] = cause[u]
    BY <1>3, CauseEffect DEF BeginFails
  <2>4. Orderly(t) /\ Elsewhere(held[t])
    BY <1>0, <2>1, <2>2, ConnectedQuiet, IdleOrderly DEF InTx
  <2>5. lent' = lent \/ lent' = [lent EXCEPT ![held[t]] = Nobody]
    BY <1>3 DEF BeginFails, Settle
  <2> QED
    BY <1>0, <2>1, <2>2, <2>3, <2>4, <2>5 DEF Local, Fixed, InTx, Holding
<1>4. CASE CallbackReturns(t) \/ CallbackThrows(t)
  <2>1. /\ tpc[t] = "callback" /\ UNCHANGED <<mode, pending, marks, durable>> /\ held' = held
        /\ lent' = lent /\ wrote' = wrote /\ failed' = failed /\ spc' = spc
    BY <1>4 DEF CallbackReturns, CallbackThrows, session
  <2>2. tpc'[t] \in InTx /\ \A u \in Tx \ {t} : tpc'[u] = tpc[u]
    BY <1>4, GotoEffect DEF CallbackReturns, CallbackThrows, InTx
  <2>3. \A u \in Tx \ {t} : cause'[u] = cause[u]
    BY <1>4, CauseEffect DEF CallbackReturns, CallbackThrows
  <2>4. Orderly(t) /\ Elsewhere(held[t])
    BY <1>0, <2>1, <2>2, IdleOrderly DEF InTx
  <2> QED
    BY <1>0, <2>1, <2>2, <2>3, <2>4 DEF Local, Fixed, InTx
<1>5. CASE Commit(t)
  <2>1. /\ tpc[t] \in InTx /\ held' = held /\ wrote' = wrote /\ failed' = failed
        /\ cause' = cause /\ spc' = spc /\ Session(held[t], "idle", {}, <<>>)
    BY <1>5 DEF Commit, Commits, CommitsNothing, InTx
  <2>2. tpc'[t] = "resolved" /\ \A u \in Tx \ {t} : tpc'[u] = tpc[u]
    BY <1>5, GotoEffect DEF Commit, Settle
  <2>3. Orderly(t) /\ Elsewhere(held[t])
    BY <1>0, <2>1, <2>2, EndOrderly DEF InTx
  <2>4. lent' = lent \/ lent' = [lent EXCEPT ![held[t]] = Nobody]
    BY <1>5 DEF Commit, Settle
  <2>5. durable' = durable \/ durable' = durable \cup pending[held[t]]
    BY <1>5 DEF Commit, Commits, CommitsNothing
  <2>6. \A w \in pending[held[t]] : w \in WritesOf(t)
    BY <2>1 DEF IInv, TxInv, Contents, Holds
  <2> QED
    BY <1>0, <2>1, <2>2, <2>3, <2>4, <2>5, <2>6 DEF Local, Fixed, InTx, Holding
<1>6. CASE CommitRejects(t)
  <2>1. /\ tpc[t] \in InTx /\ held' = held /\ wrote' = wrote /\ failed' = failed /\ spc' = spc
        /\ driver' = driver
    BY <1>6 DEF CommitRejects, InTx, Fixed
  <2>2. /\ tpc'[t] = IF driver = "duckdb" THEN "rollingback" ELSE "rejected"
        /\ \A u \in Tx \ {t} : tpc'[u] = tpc[u]
    BY <1>6, GotoEffect DEF CommitRejects, Settle
  <2>3. cause'[t] = "commit" /\ \A u \in Tx \ {t} : cause'[u] = cause[u]
    BY <1>6, CauseEffect DEF CommitRejects
  <2>4. lent' = lent \/ (tpc'[t] = "rejected" /\ lent' = [lent EXCEPT ![held[t]] = Nobody])
    BY <1>6, <2>2 DEF CommitRejects, Settle
  <2>5. \A w \in pending[held[t]] : w \in WritesOf(t)
    BY <2>1 DEF IInv, TxInv, Contents, Holds
  <2>6. durable \subseteq durable' /\ \A w \in durable' \ durable : w \in WritesOf(t)
    BY <1>6, <2>5 DEF CommitRejects, CommitFails, CommitAnswerLost
  <2>7. Orderly(t) /\ Elsewhere(held[t])
    <3>1. CASE mode[held[t]] = "active" /\ driver # "sqlite3" /\ CommitFails(held[t])
      BY <1>0, <3>1, EndOrderly DEF CommitFails
    <3>2. CASE CommitAnswerLost(held[t])
      BY <1>0, <3>2, EndOrderly DEF CommitAnswerLost, Pooled
    <3>3. CASE CommitFails(held[t]) /\ ~(mode[held[t]] = "active" /\ driver # "sqlite3")
      <4>1. UNCHANGED <<mode, pending, marks>>
        BY <3>3 DEF CommitFails
      <4>2. mode[held[t]] \in Open /\ driver # "sqlite3" => driver = "duckdb"
        BY <1>0, <3>3, DriverAssumption DEF CommitFails, IInv, TypeOK, ModeInv, Open
      <4>3. driver = "sqlite3" => LeftOpen(t, held[t])'
        BY <2>1, <2>2, <2>3, <2>5, <4>1 DEF LeftOpen
      <4> QED
        BY <1>0, <2>1, <2>2, <4>1, <4>2, <4>3, IdleOrderly DEF InTx
    <3> QED
      BY <1>6, <3>1, <3>2, <3>3 DEF CommitRejects
  <2> QED
    BY <1>0, <2>1, <2>2, <2>3, <2>4, <2>6, <2>7 DEF Local, Fixed, InTx, Holding
<1>7. CASE Rollback(t)
  <2>1. /\ tpc[t] \in InTx /\ held' = held /\ wrote' = wrote /\ failed' = failed
        /\ cause' = cause /\ spc' = spc /\ durable' = durable /\ Session(held[t], "idle", {}, <<>>)
    BY <1>7 DEF Rollback, RollsBack, InTx
  <2>2. tpc'[t] = "rejected" /\ \A u \in Tx \ {t} : tpc'[u] = tpc[u]
    BY <1>7, GotoEffect DEF Rollback, Settle
  <2>3. Orderly(t) /\ Elsewhere(held[t])
    BY <1>0, <2>1, <2>2, EndOrderly DEF InTx
  <2>4. lent' = lent \/ lent' = [lent EXCEPT ![held[t]] = Nobody]
    BY <1>7 DEF Rollback, Settle
  <2> QED
    BY <1>0, <2>1, <2>2, <2>3, <2>4 DEF Local, Fixed, InTx, Holding
<1>8. CASE RollbackFails(t)
  <2>1. /\ tpc[t] \in InTx /\ held' = held /\ wrote' = wrote /\ failed' = failed
        /\ cause' = cause /\ spc' = spc /\ UNCHANGED <<mode, pending, marks, durable>> /\ mode[held[t]] \notin Open
    BY <1>8 DEF RollbackFails, CanRollBack, session, InTx, Open
  <2>2. tpc'[t] = "rejected" /\ \A u \in Tx \ {t} : tpc'[u] = tpc[u]
    BY <1>8, GotoEffect DEF RollbackFails, Settle
  <2>3. Orderly(t) /\ Elsewhere(held[t])
    BY <1>0, <2>1, <2>2, IdleOrderly DEF InTx
  <2>4. lent' = lent \/ lent' = [lent EXCEPT ![held[t]] = Nobody]
    BY <1>8 DEF RollbackFails, Settle
  <2> QED
    BY <1>0, <2>1, <2>2, <2>3, <2>4 DEF Local, Fixed, InTx, Holding
<1> QED
  BY <1>1, <1>2, <1>3, <1>4, <1>5, <1>6, <1>7, <1>8 DEF Continue

SaveStep(s) == SaveBegins(s) \/ SaveWrites(s) \/ SaveContinue(s)

LEMMA SaveInCallback ==
  ASSUME IInv, NEW s \in Saves, SaveStep(s)
  PROVE  /\ TxOf[s] \in Tx /\ s \in SavesOf(TxOf[s])
         /\ tpc[TxOf[s]] = "callback" /\ held[TxOf[s]] \in Conns
         /\ UNCHANGED <<lent, held, tpc, cause, thrown>>
<1>1. TxOf[s] \in Tx /\ s \in SavesOf(TxOf[s])
  BY SaveAssumption DEF SavesOf
<1>2. tpc[TxOf[s]] = "callback"
  <2>1. CASE SaveBegins(s)
    BY <2>1 DEF SaveBegins
  <2>2. CASE SaveWrites(s) \/ SaveContinue(s)
    <3>1. s \in Underway(TxOf[s])
      BY <2>2 DEF SaveWrites, SaveContinue, SaveThrows, SaveReturns, SaveRollsBack, Underway
    <3> QED
      BY <1>1, <3>1 DEF IInv, TxInv
  <2> QED
    BY <2>1, <2>2 DEF SaveStep
<1>3. held[TxOf[s]] \in Conns
  BY <1>1, <1>2 DEF IInv, OwnerInv, Holding
<1>4. \E stage \in {"inside", "throwing", "resolved", "undone", "rejected"} : SaveGoto(s, stage)
  <2>1. CASE SaveBegins(s)
    BY <2>1 DEF SaveBegins
  <2>2. CASE SaveWrites(s)
    BY <2>2 DEF SaveWrites
  <2>3. CASE SaveThrows(s)
    BY <2>3 DEF SaveThrows
  <2>4. CASE SaveReturns(s)
    BY <2>4 DEF SaveReturns
  <2>5. CASE SaveRollsBack(s)
    BY <2>5 DEF SaveRollsBack
  <2> QED
    BY <2>1, <2>2, <2>3, <2>4, <2>5 DEF SaveStep, SaveContinue
<1>5. UNCHANGED <<lent, held, tpc, cause, thrown>>
  BY <1>4 DEF SaveGoto
<1> QED
  BY <1>1, <1>2, <1>3, <1>5

LEMMA SaveGotoEffect ==
  ASSUME IInv, NEW s \in Saves, NEW stage, SaveGoto(s, stage)
  PROVE  spc'[s] = stage /\ \A u \in Saves \ {s} : spc'[u] = spc[u]
  BY DEF IInv, TypeOK, SaveGoto

LEMMA LocalSave ==
  ASSUME IInv, Fixed, NEW s \in Saves, SaveStep(s)
  PROVE  Local(TxOf[s]) /\ Orderly(TxOf[s])
<1> DEFINE t == TxOf[s]
<1>0. /\ t \in Tx /\ s \in SavesOf(t) /\ tpc[t] = "callback" /\ held[t] \in Conns
      /\ lent' = lent /\ held' = held /\ tpc' = tpc /\ cause' = cause
  BY SaveInCallback
<1>1. tpc[t] \in InTx /\ tpc[t] \in Holding /\ tpc'[t] = tpc[t] /\ tpc'[t] \in InTx /\ ConnOf(s) = held[t]
  BY <1>0 DEF InTx, Holding, ConnOf
<1>2. durable' = durable
  BY <1>0 DEF SaveStep, SaveBegins, SaveWrites, SaveContinue, SaveThrows, SaveReturns, SaveRollsBack,
       StatementFails, Writes, session
<1>3. \A u \in Saves \ SavesOf(t) : spc'[u] = spc[u]
  BY <1>0, SaveGotoEffect
  DEF SaveStep, SaveBegins, SaveWrites, SaveContinue, SaveThrows, SaveReturns, SaveRollsBack
<1>4. /\ wrote \subseteq wrote' /\ \A w \in wrote' \ wrote : w \in WritesOf(t)
      /\ \A u \in Tx \ {t} : u \in failed' <=> u \in failed
  <2>1. s \in WritesOf(t)
    BY DEF WritesOf
  <2>2. /\ wrote' = wrote \/ wrote' = wrote \cup {s}
        /\ failed' = failed \/ failed' = failed \cup {t}
    BY DEF SaveStep, SaveBegins, SaveWrites, SaveContinue, SaveThrows, SaveReturns, SaveRollsBack
  <2> QED
    BY <2>1, <2>2
<1>5. Orderly(t) /\ Elsewhere(held[t])
  <2>1. CASE StatementFails(ConnOf(s))
    BY <1>0, <1>1, <2>1, FailureOrderly
  <2>2. CASE UNCHANGED <<mode, pending, marks>>
    BY <1>0, <1>1, <2>2, IdleOrderly
  <2>3. ASSUME NEW ws, NEW ms, Session(ConnOf(s), "active", ws, ms)
        PROVE  Orderly(t) /\ Elsewhere(held[t])
    BY <1>0, <1>1, <2>3, ActiveOrderly
  <2>4. CASE SaveBegins(s)
    BY <2>1, <2>3, <2>4 DEF SaveBegins
  <2>5. CASE SaveWrites(s)
    BY <2>1, <2>3, <2>5 DEF SaveWrites, Writes
  <2>6. CASE SaveThrows(s)
    BY <2>2, <2>6 DEF SaveThrows, session
  <2>7. CASE SaveReturns(s)
    BY <2>1, <2>2, <2>3, <2>7 DEF SaveReturns, session
  <2>8. CASE SaveRollsBack(s)
    BY <2>1, <2>3, <2>8 DEF SaveRollsBack
  <2> QED
    BY <2>4, <2>5, <2>6, <2>7, <2>8 DEF SaveStep, SaveContinue
<1> QED
  BY <1>0, <1>1, <1>2, <1>3, <1>4, <1>5 DEF Local, Fixed

-----------------------------------------------------------------------------
(* A step of one transaction and the others.                               *)

(* Another transaction that has begun has another session, unless nothing  *)
(* was done to it.                                                         *)
LEMMA OtherSession ==
  ASSUME DuckDBApart, IInv, NEW t \in Tx, Local(t), NEW u \in Tx \ {t}, tpc[u] \in InTx
  PROVE  /\ held[u] \in Conns
         /\ mode'[held[u]] = mode[held[u]] /\ pending'[held[u]] = pending[held[u]]
         /\ marks'[held[u]] = marks[held[u]]
<1>1. held[u] \in Conns /\ tpc[u] \in Holding /\ tpc[t] \in Holding /\ held[t] \in Conns
  BY DEF IInv, OwnerInv, InTx, Holding, Local
<1>2. CASE held[u] # held[t]
  BY <1>1, <1>2 DEF Local, Elsewhere
<1>3. CASE UNCHANGED <<mode, pending, marks>>
  BY <1>1, <1>3
<1>4. CASE held[u] = held[t] /\ tpc[t] \in InTx
  BY <1>1, <1>4 DEF IInv, OwnerInv
<1>5. CASE held[u] = held[t] /\ mode[held[t]] = "idle"
  <2>1. CASE Exclusive
    BY <1>1, <1>5, <2>1 DEF IInv, OwnerInv
  <2>2. CASE ~Exclusive
    <3>1. driver = "sqlite3"
      BY <2>2, DriverAssumption DEF IInv, TypeOK, Exclusive, Pooled, DuckDBApart
    <3>2. mode[held[u]] = "active"
      BY <3>1 DEF IInv, OwnerInv
    <3> QED
      BY <1>5, <3>2
  <2> QED
    BY <2>1, <2>2
<1> QED
  BY <1>2, <1>3, <1>4, <1>5 DEF Local

LEMMA ModeStep ==
  ASSUME IInv, NEW t \in Tx, Local(t), Orderly(t)
  PROVE  ModeInv'
<1> SUFFICES ASSUME NEW c \in Conns
             PROVE  /\ mode'[c] \notin Open => pending'[c] = {} /\ marks'[c] = <<>>
                    /\ driver' = "sqlite3" => mode'[c] \in {"idle", "active"}
                    /\ driver' = "mssql" => mode'[c] # "aborted"
                    /\ mode'[c] \in Open =>
                         \E u \in Tx : held'[u] = c /\ (tpc'[u] \in InTx \/ LeftOpen(u, c)')
  BY DEF ModeInv, LeftOpen
<1>1. driver' = driver /\ held' = held
  BY DEF Local
(* What another transaction left open stays with it.                       *)
<1>a. ASSUME NEW u \in Tx, LeftOpen(u, c), tpc[t] # "rejected", pending'[c] = pending[c]
      PROVE  LeftOpen(u, c)'
  <2>1. tpc'[u] = tpc[u] /\ cause'[u] = cause[u]
    BY <1>a DEF LeftOpen, Local
  <2> QED
    BY <1>1, <1>a, <2>1 DEF LeftOpen
<1>b. tpc[t] # "rejected"
  BY DEF Local, Holding
<1>2. CASE c = held[t]
  <2>1. CASE tpc'[t] \in InTx \/ LeftOpen(t, held[t])' \/ mode'[c] \notin Open
    BY <1>1, <1>2, <2>1 DEF Orderly, LeftOpen
  <2>2. CASE tpc[t] = "connected" /\ mode[c] \in Open /\ SameContents(c)
    <3>1. PICK u \in Tx : held[u] = c /\ (tpc[u] \in InTx \/ LeftOpen(u, c))
      BY <2>2 DEF IInv, ModeInv
    <3>2. CASE tpc[u] \in InTx
      <4>1. tpc'[u] = tpc[u]
        BY <2>2, <3>2 DEF Local, InTx
      <4> QED
        BY <1>1, <1>2, <3>1, <3>2, <4>1 DEF Orderly
    <3>3. CASE LeftOpen(u, c)
      <4>1. LeftOpen(u, c)'
        BY <1>a, <1>b, <2>2, <3>3 DEF SameContents
      <4> QED
        BY <1>1, <1>2, <3>1, <4>1 DEF Orderly
    <3> QED
      BY <3>1, <3>2, <3>3
  <2> QED
    BY <1>2, <2>1, <2>2 DEF Orderly
<1>3. CASE c # held[t]
  <2>1. mode'[c] = mode[c] /\ pending'[c] = pending[c] /\ marks'[c] = marks[c]
    BY <1>3 DEF Local, Elsewhere
  <2>2. ASSUME mode[c] \in Open
        PROVE  \E u \in Tx : held'[u] = c /\ (tpc'[u] \in InTx \/ LeftOpen(u, c)')
    <3>1. PICK u \in Tx : held[u] = c /\ (tpc[u] \in InTx \/ LeftOpen(u, c))
      BY <2>2 DEF IInv, ModeInv
    <3>2. tpc'[u] = tpc[u]
      BY <1>3, <3>1 DEF Local
    <3> QED
      BY <1>1, <1>a, <1>b, <2>1, <3>1, <3>2
  <2> QED
    BY <1>1, <2>1, <2>2 DEF IInv, ModeInv
<1> QED
  BY <1>2, <1>3

LEMMA OwnerStep ==
  ASSUME DuckDBApart, IInv, NEW t \in Tx, Local(t), Orderly(t)
  PROVE  OwnerInv'
<1>1. driver' = driver /\ held' = held /\ tpc[t] \in Holding /\ held[t] \in Conns
      /\ (Pooled' <=> Pooled) /\ (Exclusive' <=> Exclusive)
  BY DEF Local, Pooled, Exclusive
<1>2. \A u \in Tx \ {t} : tpc'[u] = tpc[u]
  BY DEF Local
<1>3. ASSUME NEW u \in Tx, tpc'[u] \in Holding
      PROVE  held'[u] \in Conns
  BY <1>1, <1>2, <1>3 DEF IInv, OwnerInv
<1>4. ASSUME NEW u \in Tx, Pooled, tpc'[u] \in Holding
      PROVE  lent'[held'[u]] = u
  <2>1. tpc[u] \in Holding
    BY <1>1, <1>2, <1>4
  <2>2. lent[held[u]] = u /\ held[u] \in Conns
    BY <1>4, <2>1 DEF IInv, OwnerInv
  <2>3. CASE lent' = lent
    BY <1>1, <2>2, <2>3
  <2>4. CASE tpc'[t] \notin Holding /\ lent' = [lent EXCEPT ![held[t]] = Nobody]
    <3>1. u # t /\ Exclusive
      BY <1>4, <2>4 DEF Exclusive
    <3>2. held[u] # held[t]
      BY <1>1, <2>1, <3>1 DEF IInv, OwnerInv
    <3> QED
      BY <1>1, <2>2, <2>4, <3>2 DEF IInv, TypeOK
  <2> QED
    BY <2>3, <2>4 DEF Local
<1>5. ASSUME NEW u \in Tx, driver = "sqlite3", tpc'[u] \in InTx
      PROVE  mode'[held'[u]] = "active"
  <2>1. CASE u = t
    BY <1>1, <1>5, <2>1 DEF Orderly
  <2>2. CASE u # t
    <3>1. tpc[u] \in InTx /\ u \in Tx \ {t}
      BY <1>2, <1>5, <2>2
    <3>2. mode'[held[u]] = mode[held[u]]
      BY <3>1, OtherSession
    <3> QED
      BY <1>1, <1>5, <3>1, <3>2 DEF IInv, OwnerInv
  <2> QED
    BY <2>1, <2>2
(* Who begins where another has begun finds the session busy.              *)
<1>6. ASSUME NEW u \in Tx \ {t}, tpc'[t] \in InTx, tpc[t] \notin InTx, tpc[u] \in InTx, held[u] = held[t]
      PROVE  FALSE
  <2>1. tpc[u] \in Holding
    BY <1>6 DEF InTx, Holding
  <2>2. ~Exclusive
    BY <1>1, <1>6, <2>1 DEF IInv, OwnerInv
  <2>3. driver = "sqlite3" /\ mode[held[t]] = "idle"
    BY <1>6, <2>2, DriverAssumption DEF IInv, TypeOK, Exclusive, Pooled, DuckDBApart, Local
  <2> QED
    BY <1>6, <2>3 DEF IInv, OwnerInv
<1>7. ASSUME NEW u \in Tx, NEW v \in Tx, tpc'[u] \in Holding, tpc'[v] \in Holding, held[u] = held[v],
             Exclusive \/ (tpc'[u] \in InTx /\ tpc'[v] \in InTx), u # v
      PROVE  FALSE
  <2>1. tpc[u] \in Holding /\ tpc[v] \in Holding
    BY <1>1, <1>2, <1>7
  <2>2. CASE Exclusive
    BY <1>7, <2>1, <2>2 DEF IInv, OwnerInv
  <2>3. CASE tpc[u] \in InTx /\ tpc[v] \in InTx
    BY <1>7, <2>1, <2>3 DEF IInv, OwnerInv
  <2>4. CASE ~Exclusive /\ u = t /\ tpc[u] \notin InTx
    BY <1>2, <1>6, <1>7, <2>4
  <2>5. CASE ~Exclusive /\ v = t /\ tpc[v] \notin InTx
    BY <1>2, <1>6, <1>7, <2>5
  <2> QED
    BY <1>2, <1>7, <2>2, <2>3, <2>4, <2>5
<1> QED
  BY <1>1, <1>3, <1>4, <1>5, <1>7 DEF OwnerInv

(* Nothing that TxInv says of transaction u changed.                       *)
Untouched(u) ==
  /\ driver' = driver /\ overlap' = overlap
  /\ tpc'[u] = tpc[u] /\ cause'[u] = cause[u] /\ (u \in failed' <=> u \in failed)
  /\ \A s \in SavesOf(u) : spc'[s] = spc[s]
  /\ \A w \in WritesOf(u) : (w \in durable' <=> w \in durable) /\ (w \in wrote' <=> w \in wrote)
  /\ tpc[u] \in InTx =>
       /\ held'[u] = held[u]
       /\ mode'[held[u]] = mode[held[u]] /\ pending'[held[u]] = pending[held[u]]
       /\ marks'[held[u]] = marks[held[u]]

LEMMA UntouchedKeeps ==
  ASSUME NEW u \in Tx, TxInv(u), Untouched(u)
  PROVE  TxInv(u)'
<1>1. Underway(u)' = Underway(u)
  BY DEF Untouched, Underway, SavesOf
<1>2. \A s \in SavesOf(u) : (Gone(s)' <=> Gone(s)) /\ s \in WritesOf(u)
  BY DEF Untouched, Gone, SavesOf, WritesOf
<1>a. Survivors(u)' = Survivors(u)
  BY DEF Untouched, Survivors, SavesOf, WritesOf
<1>b. durable' \cap WritesOf(u) = durable \cap WritesOf(u) /\ (Pooled' <=> Pooled)
  BY DEF Untouched, Pooled
<1>3. ASSUME tpc'[u] \in InTx
      PROVE  Contents(u)'
  <2>1. /\ Contents(u) /\ held'[u] = held[u]
        /\ mode'[held[u]] = mode[held[u]] /\ pending'[held[u]] = pending[held[u]]
        /\ marks'[held[u]] = marks[held[u]]
    BY <1>3 DEF TxInv, Untouched
  <2>3. \A s \in SavesOf(u) : MarkOf(s)' = MarkOf(s)
    BY <2>1 DEF MarkOf, ConnOf, SavesOf
  <2>4. Underway(u) \subseteq SavesOf(u)
    BY DEF Underway, SavesOf
  <2>5. (\A w : Holds(held[u], w) => w \in WritesOf(u) /\ w \in wrote)'
    BY <2>1 DEF Contents, Holds, WritesOf, Untouched
  <2>6. \A i, j \in DOMAIN marks'[held'[u]] :
          j <= i => marks'[held'[u]][i].save \notin marks'[held'[u]][j].writes
    BY <2>1 DEF Contents
  <2>7. (\A s \in SavesOf(u) : Gone(s) => ~Holds(held[u], s))'
    BY <1>2, <2>1 DEF Contents, Holds, SavesOf
  <2>8. \A s \in SavesOf(u) : spc'[s] = "idle" => MarkOf(s)' = {}
    BY <2>1, <2>3 DEF Contents, Untouched
  <2>9. ~overlap' => Sequential(u)'
    <3> SUFFICES ASSUME ~overlap' PROVE Sequential(u)'
      OBVIOUS
    <3>1. Sequential(u) /\ (u \in failed' <=> u \in failed) /\ tpc'[u] = tpc[u]
      BY <2>1 DEF Contents, Untouched
    <3>2. \A s \in Underway(u) : spc'[s] = spc[s] /\ (s \in wrote' <=> s \in wrote)
      BY <1>2, <2>4 DEF Untouched
    <3> QED
      BY <1>1, <1>a, <2>1, <2>3, <2>4, <3>1, <3>2 DEF Sequential
  <2> QED
    BY <2>1, <2>5, <2>6, <2>7, <2>8, <2>9 DEF Contents, SavesOf, WritesOf
<1>5. u \in WritesOf(u)
  BY DEF WritesOf
<1> QED
  BY <1>1, <1>2, <1>3, <1>a, <1>b, <1>5 DEF TxInv, Untouched, WritesOf, SavesOf

LEMMA WritesApart ==
  ASSUME NEW t \in Tx, NEW u \in Tx \ {t}
  PROVE  WritesOf(t) \cap WritesOf(u) = {}
  BY NameAssumption DEF WritesOf

LEMMA OtherStep ==
  ASSUME DuckDBApart, IInv, NEW t \in Tx, Local(t), NEW u \in Tx \ {t}
  PROVE  TxInv(u)'
<1>1. \A s \in SavesOf(u) : spc'[s] = spc[s]
  BY DEF Local, SavesOf
<1>2. \A w \in WritesOf(u) : (w \in durable' <=> w \in durable) /\ (w \in wrote' <=> w \in wrote)
  BY WritesApart DEF Local
<1>3. Untouched(u)
  BY <1>1, <1>2, OtherSession DEF Local, Untouched
<1> QED
  BY <1>3, UntouchedKeeps DEF IInv

LEMMA ConnectStep ==
  ASSUME DuckDBApart, IInv, Fixed, NEW t \in Tx, Connect(t)
  PROVE  IInv'
<1>1. TypeOK'
  BY ConnectType, TypeParts, TypePartsNext DEF IInv, Fixed
<1>2. PICK c \in Conns :
        /\ IF Pooled THEN lent[c] = Nobody
           ELSE driver \in Shared \/ \A u \in Tx : held[u] = c => tpc[u] \notin Holding
        /\ held' = [held EXCEPT ![t] = c]
        /\ lent' = IF Pooled THEN [lent EXCEPT ![c] = t] ELSE lent
  BY DEF Connect
<1>3. /\ tpc[t] = "idle" /\ UNCHANGED <<mode, pending, marks, durable, wrote, failed, cause, spc>>
      /\ driver' = driver /\ overlap' = overlap
  BY DEF Connect, session, Fixed
<1>4. tpc'[t] = "connected" /\ \A u \in Tx \ {t} : tpc'[u] = tpc[u]
  BY GotoEffect DEF Connect
<1>5. held'[t] = c /\ \A u \in Tx \ {t} : held'[u] = held[u]
  BY <1>2 DEF IInv, TypeOK
<1>6. \A u \in Tx : tpc[u] \in InTx => u # t /\ held'[u] = held[u] /\ tpc'[u] = tpc[u]
  BY <1>3, <1>4, <1>5 DEF InTx
(* Whoever has the connection already shares it.                           *)
<1>7. ASSUME NEW u \in Tx \ {t}, tpc[u] \in Holding, held[u] = c
      PROVE  ~Exclusive
  <2>1. CASE Pooled
    BY <1>2, <1>7, <2>1, NobodyAssumption DEF IInv, OwnerInv
  <2>2. CASE ~Pooled
    BY <1>2, <1>7, <2>2 DEF Exclusive
  <2> QED
    BY <2>1, <2>2
<1>8. ModeInv'
  <2>1. ASSUME NEW u \in Tx, NEW d \in Conns, held[u] = d, tpc[u] \in InTx \/ LeftOpen(u, d)
        PROVE  held'[u] = d /\ (tpc'[u] \in InTx \/ LeftOpen(u, d)')
    BY <1>3, <1>4, <1>5, <1>6, <2>1 DEF LeftOpen
  <2> QED
    BY <1>3, <2>1 DEF IInv, ModeInv, LeftOpen
<1>9. OwnerInv'
  <2>1. (Pooled' <=> Pooled) /\ (Exclusive' <=> Exclusive)
    BY <1>3 DEF Pooled, Exclusive
  <2>2. ASSUME NEW u \in Tx, tpc'[u] \in Holding
        PROVE  held'[u] \in Conns
    BY <1>4, <1>5, <2>2 DEF IInv, OwnerInv
  <2>3. ASSUME NEW u \in Tx, Pooled, tpc'[u] \in Holding
        PROVE  lent'[held'[u]] = u
    <3>1. lent' = [lent EXCEPT ![c] = t] /\ Exclusive
      BY <1>2, <2>3 DEF Exclusive
    <3>2. CASE u = t
      BY <1>5, <3>1, <3>2 DEF IInv, TypeOK
    <3>3. CASE u # t
      <4>1. tpc[u] \in Holding /\ held[u] # c /\ held'[u] = held[u]
        BY <1>4, <1>5, <1>7, <2>3, <3>1, <3>3
      <4>2. lent[held[u]] = u /\ held[u] \in Conns
        BY <2>3, <4>1 DEF IInv, OwnerInv
      <4> QED
        BY <3>1, <4>1, <4>2 DEF IInv, TypeOK
    <3> QED
      BY <3>2, <3>3
  <2>4. ASSUME NEW u \in Tx, driver = "sqlite3", tpc'[u] \in InTx
        PROVE  mode'[held'[u]] = "active"
    <3>1. u # t
      BY <1>4, <2>4 DEF InTx
    <3> QED
      BY <1>3, <1>4, <1>5, <2>4, <3>1 DEF IInv, OwnerInv
  <2>5. ASSUME NEW u \in Tx, NEW v \in Tx, tpc'[u] \in Holding, tpc'[v] \in Holding,
               held'[u] = held'[v], Exclusive \/ (tpc'[u] \in InTx /\ tpc'[v] \in InTx)
        PROVE  u = v
    <3>1. tpc'[t] \notin InTx
      BY <1>4 DEF InTx
    <3>2. CASE u # t /\ v # t
      BY <1>4, <1>5, <2>5, <3>2 DEF IInv, OwnerInv
    <3>3. CASE u = t /\ v # t
      BY <1>4, <1>5, <1>7, <2>5, <3>1, <3>3
    <3>4. CASE u # t /\ v = t
      BY <1>4, <1>5, <1>7, <2>5, <3>1, <3>4
    <3> QED
      BY <3>2, <3>3, <3>4
  <2> QED
    BY <1>3, <2>1, <2>2, <2>3, <2>4, <2>5 DEF OwnerInv
<1>10. ASSUME NEW u \in Tx
       PROVE  TxInv(u)'
  <2>1. CASE u # t
    <3>1. Untouched(u)
      BY <1>3, <1>4, <1>5, <2>1 DEF Untouched
    <3> QED
      BY <3>1, UntouchedKeeps DEF IInv
  <2>2. CASE u = t
    <3>1. TxInv(t)
      BY DEF IInv
    <3>2. Underway(t)' = Underway(t) /\ Survivors(t)' = Survivors(t) /\ (Pooled' <=> Pooled)
          /\ \A s \in SavesOf(t) : Gone(s)' <=> Gone(s)
      BY <1>3 DEF Underway, Gone, Survivors, Pooled
    <3> QED
      BY <1>3, <1>4, <2>2, <3>1, <3>2 DEF TxInv, InTx, WritesOf, SavesOf
  <2> QED
    BY <2>1, <2>2
<1> QED
  BY <1>1, <1>8, <1>9, <1>10 DEF IInv

LEMMA ReplaceStep ==
  ASSUME DuckDBApart, IInv, Fixed, NEW c \in Conns, Replace(c)
  PROVE  IInv'
<1>1. TypeOK'
  BY ReplaceType, TypeParts, TypePartsNext DEF IInv, Fixed
<1>2. /\ Pooled /\ lent[c] = Nobody /\ mode[c] = "lost"
      /\ UNCHANGED <<durable, lent, held, tpc, wrote, failed, cause, spc>>
      /\ driver' = driver /\ overlap' = overlap
  BY DEF Replace, Fixed
<1>3. Elsewhere(c) /\ mode'[c] = "idle" /\ pending'[c] = {} /\ marks'[c] = <<>>
  BY SessionEffect, TypeParts DEF Replace, IInv
<1>4. \A u \in Tx : tpc[u] \in InTx => held[u] \in Conns \ {c}
  BY <1>2, NobodyAssumption DEF IInv, OwnerInv, InTx, Holding
<1>5. ModeInv'
  <2> SUFFICES ASSUME NEW d \in Conns
               PROVE  /\ mode'[d] \notin Open => pending'[d] = {} /\ marks'[d] = <<>>
                      /\ driver' = "sqlite3" => mode'[d] \in {"idle", "active"}
                      /\ driver' = "mssql" => mode'[d] # "aborted"
                      /\ mode'[d] \in Open =>
                           \E u \in Tx : held'[u] = d /\ (tpc'[u] \in InTx \/ LeftOpen(u, d)')
    BY DEF ModeInv, LeftOpen
  <2>1. CASE d = c
    BY <1>2, <1>3, <2>1 DEF Open, Pooled
  <2>2. CASE d # c
    BY <1>2, <1>3, <2>2 DEF IInv, ModeInv, Elsewhere, LeftOpen
  <2> QED
    BY <2>1, <2>2
<1>6. OwnerInv'
  <2>1. (Pooled' <=> Pooled) /\ (Exclusive' <=> Exclusive) /\ driver # "sqlite3"
    BY <1>2 DEF Pooled, Exclusive
  <2> QED
    BY <1>2, <2>1 DEF IInv, OwnerInv
<1>7. ASSUME NEW u \in Tx
      PROVE  TxInv(u)'
  <2>1. Untouched(u)
    BY <1>2, <1>3, <1>4 DEF Untouched, Elsewhere
  <2> QED
    BY <2>1, UntouchedKeeps DEF IInv
<1> QED
  BY <1>1, <1>5, <1>6, <1>7 DEF IInv

-----------------------------------------------------------------------------
(* A step of a transaction and its own contents.                           *)

(* Until it resolves, a transaction has committed nothing: what is left to *)
(* show of a step are the contents of its session.                         *)
LEMMA OwnRest ==
  ASSUME IInv, NEW t \in Tx, tpc[t] \in Holding, durable' = durable,
         tpc'[t] \in InTx \cup {"rejected"},
         cause'[t] = "callback" => tpc'[t] \in {"rollingback", "rejected"},
         tpc'[t] # "callback" => Underway(t)' = {},
         \A s \in SavesOf(t) : spc'[s] = "idle" => s \notin wrote',
         tpc'[t] \in InTx => Contents(t)'
  PROVE  TxInv(t)'
<1>1. durable \cap WritesOf(t) = {}
  BY DEF IInv, TxInv, Holding
<1>2. \A s \in SavesOf(t) : s \in WritesOf(t)
  BY DEF SavesOf, WritesOf
<1> QED
  BY <1>1, <1>2 DEF TxInv, InTx, WritesOf, SavesOf

LEMMA EmptyContents ==
  ASSUME IInv, NEW t \in Tx, held' = held, Emptied(held[t]),
         overlap' \/ \A s, u \in Underway(t)' : s = u
  PROVE  Contents(t)'
<1>1. marks'[held'[t]] = <<>> /\ pending'[held'[t]] = {} /\ mode'[held'[t]] \notin Open
  BY DEF Emptied
<1>2. \A w : ~Holds(held[t], w)'
  BY <1>1 DEF Holds
<1>3. \A s \in SavesOf(t) : MarkOf(s)' = {}
  BY <1>1 DEF MarkOf, ConnOf, SavesOf
<1>4. ~overlap' => Sequential(t)'
  BY <1>1 DEF Sequential, Open
<1>5. (\A w : Holds(held[t], w) => w \in WritesOf(t) /\ w \in wrote)'
  BY <1>1 DEF Holds
<1>6. (\A s \in SavesOf(t) : Gone(s) => ~Holds(held[t], s))'
  BY <1>1 DEF Holds
<1> QED
  BY <1>1, <1>3, <1>4, <1>5, <1>6 DEF Contents, SavesOf

LEMMA KeptContents ==
  ASSUME IInv, NEW t \in Tx, held' = held, Contents(t), SameContents(held[t]),
         mode'[held[t]] \in Open => mode[held[t]] \in Open,
         overlap' \/ mode'[held[t]] # "aborted" \/ Underway(t)' # {} \/ t \in failed',
         overlap' = overlap, wrote' = wrote,
         \A s \in SavesOf(t) : spc'[s] = "inside" => spc[s] = "inside",
         \/ Survivors(t)' \subseteq Survivors(t) \/ overlap
         \/ Underway(t)' = {} /\ (mode[held[t]] \in Open => Survivors(t)' \subseteq pending[held[t]]),
         tpc'[t] # "rollingback" => tpc[t] # "rollingback",
         Underway(t)' \subseteq Underway(t),
         \A s \in SavesOf(t) : Gone(s)' => ~Holds(held[t], s),
         \A s \in SavesOf(t) : spc'[s] = "idle" => spc[s] = "idle"
  PROVE  Contents(t)'
<1>1. marks'[held'[t]] = marks[held[t]] /\ pending'[held'[t]] = pending[held[t]] /\ held'[t] = held[t]
  BY DEF SameContents
<1>2. \A s \in SavesOf(t) : MarkOf(s)' = MarkOf(s)
  BY <1>1 DEF MarkOf, ConnOf, SavesOf
<1>3. (\A w : Holds(held[t], w) => w \in WritesOf(t) /\ w \in wrote)'
  BY <1>1 DEF Contents, Holds, WritesOf
<1>4. (\A s \in SavesOf(t) : Gone(s) => ~Holds(held[t], s))'
  BY <1>1 DEF Holds, SavesOf
<1>5. \A i, j \in DOMAIN marks'[held'[t]] :
        j <= i => marks'[held'[t]][i].save \notin marks'[held'[t]][j].writes
  BY <1>1 DEF Contents
<1>6. \A s \in SavesOf(t) : spc'[s] = "idle" => MarkOf(s)' = {}
  BY <1>2 DEF Contents
<1>7. ~overlap' => Sequential(t)'
  <2> SUFFICES ASSUME ~overlap' PROVE Sequential(t)'
    OBVIOUS
  <2>1. Sequential(t) /\ Underway(t)' \subseteq SavesOf(t)
    BY DEF Contents, Underway, SavesOf
  <2> QED
    BY <1>1, <1>2, <2>1 DEF Sequential
<1> QED
  BY <1>3, <1>4, <1>5, <1>6, <1>7 DEF Contents, SavesOf

(* A statement of transaction t, or of a savepoint in it, fails.           *)
LEMMA FailedContents ==
  ASSUME IInv, NEW t \in Tx, held[t] \in Conns, held' = held, Contents(t), StatementFails(held[t]),
         overlap' = overlap, wrote' = wrote,
         overlap' \/ mode[held[t]] \notin Open \/ Underway(t)' # {} \/ t \in failed',
         \A s \in SavesOf(t) : spc'[s] = "inside" => spc[s] = "inside",
         Survivors(t)' \subseteq Survivors(t),
         tpc'[t] # "rollingback" => tpc[t] # "rollingback",
         Underway(t)' \subseteq Underway(t),
         \A s \in SavesOf(t) : Gone(s)' => ~Holds(held[t], s),
         \A s \in SavesOf(t) : spc'[s] = "idle" => spc[s] = "idle"
  PROVE  Contents(t)'
<1>1. \/ SameContents(held[t]) /\ (mode'[held[t]] \in Open <=> mode[held[t]] \in Open)
      \/ Emptied(held[t]) /\ mode[held[t]] \in Open
  BY FailureEffect, TypeParts DEF IInv
<1>2. overlap' \/ \A s, u \in Underway(t)' : s = u
  BY DEF Contents, Sequential
<1>3. CASE Emptied(held[t])
  BY <1>2, <1>3, EmptyContents
<1>4. CASE SameContents(held[t]) /\ (mode'[held[t]] \in Open <=> mode[held[t]] \in Open)
  BY <1>4, KeptContents DEF Open
<1> QED
  BY <1>1, <1>3, <1>4

LEMMA SameUnderway ==
  ASSUME NEW t \in Tx, spc' = spc
  PROVE  Underway(t)' = Underway(t)
  BY DEF Underway

LEMMA WriteContents ==
  ASSUME IInv, Fixed, NEW t \in Tx, Write(t)
  PROVE  TxInv(t)'
<1>1. /\ tpc[t] = "callback" /\ tpc' = tpc /\ held' = held /\ cause' = cause /\ spc' = spc
      /\ overlap' = overlap /\ (~overlap => Underway(t) = {})
  BY DEF Write, Fixed
<1>2. Contents(t) /\ held[t] \in Conns /\ cause[t] # "callback"
  BY <1>1 DEF IInv, TxInv, OwnerInv, InTx, Holding
<1>3. Underway(t)' = Underway(t)
  BY <1>1, SameUnderway
<1>4. \A s \in SavesOf(t) : (Gone(s)' <=> Gone(s)) /\ s # t
  BY <1>1, NameAssumption DEF Gone, SavesOf
<1>7. \A s \in SavesOf(t) : spc'[s] = "idle" => s \notin wrote'
  BY <1>1, <1>4 DEF Write, IInv, TxInv
<1>5. CASE StatementFails(held[t]) /\ failed' = failed \cup {t} /\ wrote' = wrote
  <2>0. Survivors(t)' = Survivors(t)
    BY <1>1, <1>5 DEF Survivors
  <2>1. \A s \in SavesOf(t) : Gone(s)' => ~Holds(held[t], s)
    BY <1>2, <1>4 DEF Contents
  <2>2. Contents(t)'
    BY <1>1, <1>2, <1>3, <1>5, <2>0, <2>1, FailedContents
  <2>3. durable' = durable
    BY <1>5 DEF StatementFails
  <2> QED
    BY <1>1, <1>2, <1>7, <2>2, <2>3, OwnRest DEF InTx, Holding
<1>6. CASE t \notin wrote /\ Writes(held[t], t) /\ wrote' = wrote \cup {t} /\ failed' = failed
  <2>1. /\ mode'[held[t]] = "active" /\ pending'[held[t]] = pending[held[t]] \cup {t}
        /\ marks'[held[t]] = marks[held[t]] /\ durable' = durable /\ mode[held[t]] \in Open
    BY <1>2, <1>6, SessionEffect, TypeParts DEF Writes, IInv, Open
  <2>2. \A s \in SavesOf(t) : MarkOf(s)' = MarkOf(s)
    BY <1>1, <2>1 DEF MarkOf, ConnOf, SavesOf
  <2>3. (\A w : Holds(held[t], w) => w \in WritesOf(t) /\ w \in wrote)'
    BY <1>1, <1>2, <1>6, <2>1 DEF Contents, Holds, WritesOf
  <2>4. (\A s \in SavesOf(t) : Gone(s) => ~Holds(held[t], s))'
    BY <1>1, <1>2, <1>4, <2>1 DEF Contents, Holds, SavesOf
  <2>5. \A i, j \in DOMAIN marks'[held'[t]] :
          j <= i => marks'[held'[t]][i].save \notin marks'[held'[t]][j].writes
    BY <1>1, <1>2, <2>1 DEF Contents
  <2>6. \A s \in SavesOf(t) : spc'[s] = "idle" => MarkOf(s)' = {}
    BY <1>1, <1>2, <2>2 DEF Contents
  <2>7. ~overlap' => Sequential(t)'
    <3>1. Survivors(t)' \subseteq Survivors(t) \cup {t}
      BY <1>1, <1>6 DEF Survivors
    <3> QED
      BY <1>1, <1>2, <1>3, <2>1, <3>1 DEF Contents, Sequential
  <2>8. Contents(t)'
    BY <2>3, <2>4, <2>5, <2>6, <2>7 DEF Contents, SavesOf
  <2> QED
    BY <1>1, <1>2, <1>7, <2>1, <2>8, OwnRest DEF InTx, Holding
<1> QED
  BY <1>5, <1>6 DEF Write

(* What a COMMIT finds pending is what the transaction promises.           *)
LEMMA PendingSurvives ==
  ASSUME IInv, NEW t \in Tx, tpc[t] = "committing", Contents(t), Underway(t) = {}, ~overlap,
         mode[held[t]] \in Open, durable \cap WritesOf(t) = {}
  PROVE  (durable \cup pending[held[t]]) \cap WritesOf(t) = Survivors(t)
<1>1. Survivors(t) \subseteq pending[held[t]] /\ Survivors(t) \subseteq WritesOf(t)
  BY DEF Contents, Sequential, Survivors, WritesOf
<1>2. ASSUME NEW w \in pending[held[t]]
      PROVE  w \in Survivors(t)
  <2>1. w \in WritesOf(t) /\ w \in wrote
    BY <1>2 DEF Contents, Holds
  <2>2. ASSUME w \in SavesOf(t)
        PROVE  spc[w] = "resolved"
    <3>1. ~Gone(w)
      BY <1>2, <2>2 DEF Contents, Holds
    <3>2. w \notin Underway(t) /\ w \in Saves /\ TxOf[w] = t
      BY <2>2 DEF SavesOf
    <3> QED
      BY <3>1, <3>2 DEF Gone, Underway, IInv, TypeOK
  <2> QED
    BY <2>1, <2>2 DEF Survivors, WritesOf, SavesOf
<1> QED
  BY <1>1, <1>2

LEMMA ContinueContents ==
  ASSUME DuckDBApart, IInv, Fixed, NEW t \in Tx, Continue(t)
  PROVE  TxInv(t)'
<1>0. /\ TxInv(t) /\ held' = held /\ wrote' = wrote /\ failed' = failed /\ spc' = spc
      /\ overlap' = overlap /\ driver' = driver /\ (Pooled' <=> Pooled)
      /\ Survivors(t)' = Survivors(t)
      /\ Underway(t)' = Underway(t) /\ \A s \in SavesOf(t) : Gone(s)' <=> Gone(s)
      /\ \A s \in SavesOf(t) : spc'[s] = "idle" => s \notin wrote'
  <2>1. /\ held' = held /\ wrote' = wrote /\ failed' = failed /\ spc' = spc
        /\ overlap' = overlap /\ driver' = driver
    BY DEF Fixed, Continue, Begin, BeginFails, CallbackReturns, CallbackThrows, Commit, CommitRejects,
           Rollback, RollbackFails
  <2> QED
    BY <2>1, SameUnderway DEF IInv, TxInv, Gone, Survivors, Pooled
<1>1. tpc[t] \in Holding /\ held[t] \in Conns
  BY LocalTx DEF Local
<1>2. CASE Begin(t)
  <2>1. tpc[t] = "connected" /\ tpc'[t] = "callback" /\ durable' = durable /\ cause' = cause
    BY <1>2, GotoEffect DEF Begin
  <2>2. t \notin wrote /\ (\A s \in SavesOf(t) : spc[s] = "idle") /\ cause[t] # "callback"
    BY <1>0, <2>1 DEF TxInv
  <2>3. Underway(t) = {}
    BY <2>2 DEF Underway, SavesOf
  <2>4. mode[held[t]] = "idle" /\ Session(held[t], "active", {}, <<>>)
    BY <1>2, <2>1, ConnectedQuiet DEF Begin, Pooled, Open
  <2>5. pending'[held[t]] = {} /\ marks'[held[t]] = <<>> /\ mode'[held[t]] = "active"
    BY <1>1, <2>4, SessionEffect, TypeParts DEF IInv
  <2>6. (\A w : Holds(held[t], w) => w \in WritesOf(t) /\ w \in wrote)'
    BY <1>0, <2>5 DEF Holds
  <2>7. (\A s \in SavesOf(t) : Gone(s) => ~Holds(held[t], s))'
    BY <1>0, <2>5 DEF Holds
  <2>8. \A s \in SavesOf(t) : MarkOf(s)' = {}
    BY <1>0, <2>5 DEF MarkOf, ConnOf, SavesOf
  <2>9. Sequential(t)'
    <3>1. Survivors(t) = {}
      BY <2>2 DEF Survivors, SavesOf
    <3> QED
      BY <1>0, <2>3, <2>5, <3>1 DEF Sequential
  <2>10. Contents(t)'
    BY <1>0, <2>5, <2>6, <2>7, <2>8, <2>9 DEF Contents, SavesOf
  <2> QED
    BY <1>0, <1>1, <2>1, <2>2, <2>10, OwnRest DEF InTx
<1>3. CASE BeginFails(t)
  <2>1. /\ tpc[t] = "connected" /\ tpc'[t] = "rejected" /\ durable' = durable
    BY <1>3, GotoEffect DEF BeginFails, Settle, session
  <2>2. Underway(t)' = {}
    BY <1>0, <2>1 DEF TxInv
  <2> QED
    BY <1>0, <1>1, <2>1, <2>2, OwnRest DEF InTx
<1>4. CASE CallbackReturns(t) \/ CallbackThrows(t)
  <2>1. /\ tpc[t] = "callback" /\ Underway(t) = {} /\ UNCHANGED <<mode, pending, marks, durable>>
    BY <1>4 DEF CallbackReturns, CallbackThrows, session
  <2>2. cause[t] # "callback" /\ Contents(t)
    BY <1>0, <2>1 DEF TxInv, InTx
  <2>3. \A s \in SavesOf(t) : Gone(s)' => ~Holds(held[t], s)
    BY <1>0, <2>2 DEF Contents
  <2>4. tpc'[t] \in {"committing", "rollingback"}
    BY <1>4, GotoEffect DEF CallbackReturns, CallbackThrows
  <2>5. Contents(t)'
    <3>1. overlap \/ mode[held[t]] # "aborted" \/ t \in failed
      BY <2>1, <2>2 DEF Contents, Sequential
    <3> QED
      BY <1>0, <2>1, <2>2, <2>3, <3>1, KeptContents DEF SameContents
  <2>6. cause'[t] = "callback" => tpc'[t] = "rollingback"
    <3>1. CASE CallbackReturns(t)
      BY <2>2, <3>1 DEF CallbackReturns
    <3>2. CASE CallbackThrows(t)
      BY <3>2, GotoEffect DEF CallbackThrows
    <3> QED
      BY <1>4, <3>1, <3>2
  <2> QED
    BY <1>0, <1>1, <2>1, <2>4, <2>5, <2>6, OwnRest DEF InTx
<1>5. CASE Commit(t)
  <2>1. /\ tpc[t] = "committing" /\ tpc'[t] = "resolved" /\ cause' = cause
    BY <1>5, GotoEffect DEF Commit, Settle
  <2>2. Contents(t) /\ Underway(t) = {} /\ cause[t] # "callback" /\ durable \cap WritesOf(t) = {}
    BY <1>0, <2>1 DEF TxInv, InTx
  <2>3. CASE Commits(held[t])
    <3>1. durable' = durable \cup pending[held[t]] /\ mode[held[t]] \in Open
      BY <2>3 DEF Commits, Open
    <3>2. ~overlap => durable' \cap WritesOf(t) = Survivors(t)
      BY <1>0, <2>1, <2>2, <3>1, PendingSurvives
    <3>3. ASSUME NEW s \in SavesOf(t), Gone(s)
          PROVE  s \notin durable'
      <4>1. ~Holds(held[t], s) /\ s \notin durable
        BY <1>0, <2>2, <3>3 DEF Contents, TxInv
      <4> QED
        BY <3>1, <4>1 DEF Holds
    <3> QED
      BY <1>0, <2>1, <2>2, <3>1, <3>2, <3>3 DEF TxInv, InTx, SavesOf
  <2>4. CASE CommitsNothing(held[t])
    <3>1. driver = "postgres" /\ durable' = durable /\ mode[held[t]] = "aborted"
      BY <2>4 DEF CommitsNothing
    <3>2. ~overlap => t \in failed
      BY <2>2, <3>1 DEF Contents, Sequential
    <3> QED
      BY <1>0, <2>1, <2>2, <3>1, <3>2 DEF TxInv, InTx, SavesOf
  <2> QED
    BY <1>5, <2>3, <2>4 DEF Commit
<1>6. CASE CommitRejects(t)
  <2>1. /\ tpc[t] = "committing" /\ tpc'[t] = IF driver = "duckdb" THEN "rollingback" ELSE "rejected"
        /\ cause'[t] = "commit"
    BY <1>6, GotoEffect, CauseEffect DEF CommitRejects, Settle
  <2>2. Contents(t) /\ Underway(t) = {} /\ durable \cap WritesOf(t) = {}
    BY <1>0, <2>1 DEF TxInv, InTx
  <2>3. CASE CommitFails(held[t])
    <3>1. CASE Session(held[t], "idle", {}, <<>>)
      <4>1. Emptied(held[t])
        BY <1>1, <3>1, SessionEffect, TypeParts DEF IInv, Emptied, Open
      <4> QED
        BY <1>0, <1>1, <2>1, <2>2, <2>3, <4>1, EmptyContents, OwnRest DEF InTx, CommitFails, Contents, Sequential
    <3>2. CASE UNCHANGED <<mode, pending, marks>>
      <4>1. \A s \in SavesOf(t) : Gone(s)' => ~Holds(held[t], s)
        BY <1>0, <2>2 DEF Contents
      <4>2. overlap \/ mode[held[t]] # "aborted" \/ t \in failed
        BY <2>2 DEF Contents, Sequential
      <4>3. Contents(t)'
        BY <1>0, <2>1, <2>2, <3>2, <4>1, <4>2, KeptContents DEF SameContents
      <4> QED
        BY <1>0, <1>1, <2>1, <2>2, <2>3, <4>3, OwnRest DEF InTx, CommitFails
    <3> QED
      BY <2>3, <3>1, <3>2 DEF CommitFails
  <2>4. CASE CommitAnswerLost(held[t])
    <3>1. durable' = durable \cup pending[held[t]] /\ mode[held[t]] \in Open /\ Pooled
      BY <2>4 DEF CommitAnswerLost, Open
    <3>2. ~overlap => durable' \cap WritesOf(t) = Survivors(t)
      BY <1>0, <2>1, <2>2, <3>1, PendingSurvives
    <3>3. ASSUME NEW s \in SavesOf(t), Gone(s)
          PROVE  s \notin durable'
      <4>1. ~Holds(held[t], s) /\ s \notin durable
        BY <1>0, <2>2, <3>3 DEF Contents, TxInv
      <4> QED
        BY <3>1, <4>1 DEF Holds
    <3>4. tpc'[t] = "rejected"
      BY <2>1, <3>1 DEF Pooled
    <3> QED
      BY <1>0, <2>1, <2>2, <3>1, <3>2, <3>3, <3>4 DEF TxInv, InTx, SavesOf
  <2> QED
    BY <1>6, <2>3, <2>4 DEF CommitRejects
<1>7. CASE Rollback(t) \/ RollbackFails(t)
  <2>1. tpc[t] = "rollingback" /\ tpc'[t] = "rejected" /\ durable' = durable
    BY <1>7, GotoEffect DEF Rollback, RollsBack, RollbackFails, Settle, session
  <2>2. Underway(t)' = {}
    BY <1>0, <2>1 DEF TxInv
  <2> QED
    BY <1>0, <1>1, <2>1, <2>2, OwnRest DEF InTx
<1> QED
  BY <1>2, <1>3, <1>4, <1>5, <1>6, <1>7 DEF Continue

LEMMA MarksPrefix ==
  ASSUME NEW q \in Seq(Marks), NEW k \in 0 .. Len(q)
  PROVE  /\ DOMAIN SubSeq(q, 1, k) = 1 .. k /\ 1 .. k \subseteq DOMAIN q
         /\ \A i \in 1 .. k : SubSeq(q, 1, k)[i] = q[i]
  OBVIOUS

(* The marks are cut after the first k of them; the contents do not grow.  *)
LEMMA CutContents ==
  ASSUME IInv, NEW t \in Tx, Contents(t), held[t] \in Conns, held' = held, overlap' = overlap,
         NEW k \in 0 .. Len(marks[held[t]]), marks'[held[t]] = SubSeq(marks[held[t]], 1, k),
         \A w \in pending'[held[t]] : Holds(held[t], w),
         \A s \in SavesOf(t) : Gone(s)' => Gone(s) \/ ~Holds(held[t], s)',
         \A s \in SavesOf(t) : spc'[s] = "idle" => spc[s] = "idle",
         wrote' = wrote, mode'[held[t]] = "active",
         ~overlap => Underway(t)' = {} /\ Survivors(t)' \subseteq pending'[held[t]]
  PROVE  Contents(t)'
<1>1. marks[held[t]] \in Seq(Marks)
  BY TypeParts DEF IInv, SessionType
<1>2. /\ DOMAIN marks'[held[t]] = 1 .. k /\ 1 .. k \subseteq DOMAIN marks[held[t]]
      /\ \A i \in 1 .. k : marks'[held[t]][i] = marks[held[t]][i]
  BY <1>1, MarksPrefix
<1>3. \A w : Holds(held[t], w)' => Holds(held[t], w)
  BY <1>2 DEF Holds
<1>4. \A s \in SavesOf(t) : MarkOf(s)' \subseteq MarkOf(s)
  BY <1>2 DEF MarkOf, ConnOf, SavesOf
<1>5. (\A w : Holds(held[t], w) => w \in WritesOf(t) /\ w \in wrote)'
  BY <1>3 DEF Contents, Holds, WritesOf
<1>6. (\A s \in SavesOf(t) : Gone(s) => ~Holds(held[t], s))'
  <2> SUFFICES ASSUME NEW s \in SavesOf(t), Gone(s)'
               PROVE  ~Holds(held[t], s)'
    BY DEF SavesOf
  <2> QED
    BY <1>3 DEF Contents
<1>7. \A i, j \in DOMAIN marks'[held'[t]] :
        j <= i => marks'[held'[t]][i].save \notin marks'[held'[t]][j].writes
  <2>1. \A i, j \in DOMAIN marks[held[t]] :
          j <= i => marks[held[t]][i].save \notin marks[held[t]][j].writes
    BY DEF Contents
  <2>2. \A i, j \in 1 .. k : j <= i => marks[held[t]][i].save \notin marks[held[t]][j].writes
    BY <1>2, <2>1
  <2>3. marks'[held'[t]] = marks'[held[t]]
    OBVIOUS
  <2> QED
    BY ONLY <1>2, <2>2, <2>3
<1>8. \A s \in SavesOf(t) : spc'[s] = "idle" => MarkOf(s)' = {}
  BY <1>4 DEF Contents
<1>9. ~overlap' => Sequential(t)'
  BY DEF Sequential
<1> QED
  BY <1>5, <1>6, <1>7, <1>8, <1>9 DEF Contents, SavesOf

LEMMA SaveOwn ==
  ASSUME IInv, Fixed, NEW s \in Saves, SaveStep(s), NEW t \in Tx, TxOf[s] = t
  PROVE  TxInv(t)'
<1>0. /\ SessionType /\ s \in SavesOf(t) /\ tpc[t] = "callback" /\ held[t] \in Conns /\ ConnOf(s) = held[t]
      /\ held' = held /\ tpc' = tpc /\ cause' = cause /\ overlap' = overlap /\ s # t
      /\ marks[held[t]] \in Seq(Marks)
  BY SaveInCallback, NameAssumption, TypeParts DEF ConnOf, Fixed, IInv, SessionType
<1>a. StatementFails(ConnOf(s)) => StatementFails(held[t])
  BY <1>0 DEF StatementFails
<1>b. ASSUME NEW m, NEW ws, NEW ms, Session(ConnOf(s), m, ws, ms)
      PROVE  mode'[held[t]] = m /\ pending'[held[t]] = ws /\ marks'[held[t]] = ms
  BY <1>0, <1>b DEF Session, SessionType
<1>1. Contents(t) /\ cause[t] # "callback"
  BY <1>0 DEF IInv, TxInv, InTx
<1>2. durable' = durable
  BY DEF SaveStep, SaveBegins, SaveWrites, SaveContinue, SaveThrows, SaveReturns, SaveRollsBack,
       StatementFails, Writes, session
<1>e. tpc'[t] = "callback" /\ tpc[t] \in Holding
  BY <1>0 DEF Holding
<1>3. \A u \in SavesOf(t) : u \in Saves
  BY DEF SavesOf
(* What the savepoint's stage says of the transaction's savepoints.        *)
<1>4. ASSUME NEW stage, SaveGoto(s, stage)
      PROVE  /\ spc'[s] = stage
             /\ \A u \in SavesOf(t) \ {s} : spc'[u] = spc[u] /\ (Gone(u)' <=> Gone(u))
             /\ Underway(t)' = IF stage \in {"inside", "throwing"} THEN Underway(t) \cup {s}
                               ELSE Underway(t) \ {s}
             /\ Survivors(t)' \ {s} \subseteq Survivors(t) \cup (wrote' \ wrote)
             /\ s \in Survivors(t)' => stage = "resolved" /\ s \in wrote'
  <2>1. spc'[s] = stage /\ \A u \in Saves \ {s} : spc'[u] = spc[u]
    BY <1>4, SaveGotoEffect
  <2>2. s \in Survivors(t)' => stage = "resolved" /\ s \in wrote'
    BY <1>0, <2>1 DEF Survivors
  <2>3. Survivors(t)' \ {s} \subseteq Survivors(t) \cup (wrote' \ wrote)
    BY <1>0, <2>1 DEF Survivors
  <2>4. Underway(t)' = IF stage \in {"inside", "throwing"} THEN Underway(t) \cup {s}
                      ELSE Underway(t) \ {s}
    BY <1>0, <2>1 DEF Underway, SavesOf
  <2> QED
    BY <1>0, <2>1, <2>2, <2>3, <2>4 DEF Gone, SavesOf
<1>5. spc[s] \in {"inside", "throwing"} => s \in Underway(t) /\ ~Gone(s)
  BY <1>0 DEF Underway, Gone, SavesOf
<1>6. ~overlap /\ s \in Underway(t) => Underway(t) \ {s} = {}
  BY <1>1 DEF Contents, Sequential
<1>7. \A u \in SavesOf(t) : Gone(u) => ~Holds(held[t], u)
  BY <1>1 DEF Contents
<1>c. \A u \in SavesOf(t) : spc'[u] = "idle" => u \notin wrote'
  <2>1. \A u \in SavesOf(t) : spc[u] = "idle" => u \notin wrote
    BY DEF IInv, TxInv
  <2>2. CASE wrote' = wrote
    <3>1. \A u \in SavesOf(t) : spc'[u] = "idle" => spc[u] = "idle"
      BY <1>4 DEF SaveStep, SaveBegins, SaveWrites, SaveContinue, SaveThrows, SaveReturns, SaveRollsBack
    <3> QED
      BY <2>1, <2>2, <3>1
  <2>3. CASE wrote' = wrote \cup {s} /\ SaveGoto(s, "inside")
    BY <1>4, <2>1, <2>3
  <2> QED
    BY <2>2, <2>3 DEF SaveStep, SaveBegins, SaveWrites, SaveContinue, SaveThrows, SaveReturns, SaveRollsBack
<1>d. Survivors(t)' \subseteq Survivors(t) \cup {s}
  <2>1. wrote' \ wrote \subseteq {s}
    BY DEF SaveStep, SaveBegins, SaveWrites, SaveContinue, SaveThrows, SaveReturns, SaveRollsBack
  <2>2. \E stage \in {"inside", "throwing", "resolved", "undone", "rejected"} : SaveGoto(s, stage)
    BY DEF SaveStep, SaveBegins, SaveWrites, SaveContinue, SaveThrows, SaveReturns, SaveRollsBack
  <2> QED
    BY <1>4, <2>1, <2>2
<1>8. CASE SaveBegins(s)
  <2>1. spc[s] = "idle" /\ (~overlap => Underway(t) = {})
    BY <1>8 DEF SaveBegins
  <2>2. Gone(s) /\ ~Holds(held[t], s) /\ MarkOf(s) = {} /\ s \notin Underway(t)
    BY <1>0, <1>1, <1>7, <2>1 DEF Gone, Contents, Underway
  <2>3. ASSUME StatementFails(ConnOf(s)) /\ SaveGoto(s, "rejected") /\ failed' = failed \cup {TxOf[s]}
        PROVE  Contents(t)'
    <3>1. Underway(t)' \subseteq Underway(t) /\ wrote' = wrote /\ t \in failed'
      BY <1>4, <1>8, <2>3 DEF SaveBegins
    <3>2. \A u \in SavesOf(t) : /\ Gone(u)' => ~Holds(held[t], u)
                                /\ spc'[u] = "idle" => spc[u] = "idle"
                                /\ spc'[u] = "inside" => spc[u] = "inside"
      BY <1>4, <1>7, <2>2, <2>3
    <3>3. Survivors(t)' \subseteq Survivors(t)
      BY <1>4, <2>3, <3>1
    <3> QED
      BY <1>0, <1>1, <2>3, <3>1, <3>2, <3>3, FailedContents, <1>a
  <2>4. ASSUME /\ mode[ConnOf(s)] = "active"
               /\ Session(ConnOf(s), "active", pending[ConnOf(s)],
                          Append(marks[ConnOf(s)], [save |-> s, writes |-> pending[ConnOf(s)]]))
               /\ SaveGoto(s, "inside")
        PROVE  Contents(t)'
    <3> DEFINE old == marks[held[t]]
               new == marks'[held[t]]
               n == Len(old)
    <3>1. /\ mode'[held[t]] = "active" /\ pending'[held[t]] = pending[held[t]]
          /\ new = Append(old, [save |-> s, writes |-> pending[held[t]]])
      BY <1>0, <2>4, <1>b
    <3>2. [save |-> s, writes |-> pending[held[t]]] \in Marks
      BY <1>0, TypeParts DEF Marks, IInv, SessionType
    <3>3. /\ n \in Nat /\ DOMAIN old = 1 .. n /\ DOMAIN new = 1 .. (n + 1)
          /\ (\A i \in 1 .. n : new[i] = old[i])
          /\ new[n + 1].save = s /\ new[n + 1].writes = pending[held[t]]
      BY <1>0, <3>1, <3>2, AppendProperties
    <3> HIDE DEF old, new, n
    <3>4. \A w : Holds(held[t], w)' => Holds(held[t], w)
      BY <1>0, <3>1, <3>3 DEF Holds, old, new
    <3>a. wrote' = wrote
      BY <1>8 DEF SaveBegins
    <3>5. (\A w : Holds(held[t], w) => w \in WritesOf(t) /\ w \in wrote)'
      BY <1>0, <1>1, <3>4, <3>a DEF Contents, WritesOf
    <3>6. (\A u \in SavesOf(t) : Gone(u) => ~Holds(held[t], u))'
      <4>1. ~Gone(s)'
        BY <1>4, <2>4 DEF Gone
      <4>2. ASSUME NEW u \in SavesOf(t), Gone(u)'
            PROVE  ~Holds(held[t], u)'
        BY <1>4, <1>7, <2>4, <3>4, <4>1, <4>2
      <4> QED
        BY <1>0, <4>2 DEF SavesOf
    <3>7. \A i, j \in DOMAIN new : j <= i => new[i].save \notin new[j].writes
      <4> SUFFICES ASSUME NEW i \in 1 .. (n + 1), NEW j \in 1 .. (n + 1), j <= i
                   PROVE  new[i].save \notin new[j].writes
        BY <3>3
      <4>1. CASE i # n + 1
        <5>1. i \in 1 .. n /\ j \in 1 .. n
          BY <3>3, <4>1
        <5> QED
          BY <1>1, <3>3, <5>1 DEF Contents, old
      <4>2. CASE i = n + 1
        <5>1. s \notin pending[held[t]] /\ \A k \in 1 .. n : s \notin old[k].writes
          BY <2>2, <3>3 DEF Holds, old
        <5>2. j \in 1 .. n \/ j = n + 1
          BY <3>3
        <5> QED
          BY <3>3, <4>2, <5>1, <5>2
      <4> QED
        BY <4>1, <4>2
    <3>8. \A u \in SavesOf(t) : MarkOf(u)' = IF u = s THEN {n + 1} ELSE MarkOf(u)
      <4> SUFFICES ASSUME NEW u \in SavesOf(t)
                   PROVE  MarkOf(u)' = IF u = s THEN {n + 1} ELSE MarkOf(u)
        OBVIOUS
      <4>1. MarkOf(u) = {i \in 1 .. n : old[i].save = u}
        BY <3>3 DEF MarkOf, ConnOf, SavesOf, old
      <4>2. MarkOf(u)' = {i \in 1 .. (n + 1) : new[i].save = u}
        BY <1>0, <3>3 DEF MarkOf, ConnOf, SavesOf, new
      <4>3. CASE u = s
        <5>1. \A i \in 1 .. n : old[i].save # s
          BY <2>2, <4>1, <4>3
        <5> QED
          BY <3>3, <4>2, <4>3, <5>1
      <4>4. CASE u # s
        BY <3>3, <4>1, <4>2, <4>4
      <4> QED
        BY <4>3, <4>4
    <3>9. \A u \in SavesOf(t) : spc'[u] = "idle" => MarkOf(u)' = {}
      BY <1>1, <1>4, <2>4, <3>8 DEF Contents
    <3>10. ~overlap' => Sequential(t)'
      <4> SUFFICES ASSUME ~overlap PROVE Sequential(t)'
        BY <1>0
      <4>1. Underway(t)' = {s}
        BY <1>4, <2>1, <2>4
      <4>2. Survivors(t) \subseteq pending[held[t]] /\ s \notin wrote
        <5>1. Survivors(t) \subseteq pending[held[t]]
          BY <1>0, <1>1, <2>4 DEF Contents, Sequential, Open
        <5> QED
          BY <1>0, <2>1, <5>1 DEF IInv, TxInv
      <4>3. MarkOf(s)' = {n + 1}
        BY <1>0, <3>8
      <4>4. Survivors(t)' \subseteq Survivors(t)
        BY <1>4, <2>4, <3>a
      <4> QED
        BY <1>0, <3>1, <3>3, <3>a, <4>1, <4>2, <4>3, <4>4 DEF Sequential, new
    <3> QED
      BY <1>0, <3>5, <3>6, <3>7, <3>9, <3>10 DEF Contents, SavesOf, new
  <2>5. Contents(t)'
    BY <1>8, <2>3, <2>4 DEF SaveBegins
  <2> QED
    BY <1>0, <1>1, <1>2, <1>c, <1>e, <2>5, OwnRest DEF InTx, Holding
<1>9. CASE SaveWrites(s)
  <2>1. s \in Underway(t) /\ ~Gone(s)
    BY <1>5, <1>9 DEF SaveWrites
  <2>2. ASSUME StatementFails(ConnOf(s)) /\ SaveGoto(s, "throwing") /\ wrote' = wrote
        PROVE  Contents(t)'
    <3>1. Underway(t)' = Underway(t) /\ Underway(t) # {}
      BY <1>4, <2>1, <2>2
    <3>2. ~Gone(s)' /\ spc'[s] \notin {"idle", "inside"}
      BY <1>4, <2>2 DEF Gone
    <3>3. \A u \in SavesOf(t) : /\ Gone(u)' => ~Holds(held[t], u)
                                /\ spc'[u] = "idle" => spc[u] = "idle"
                                /\ spc'[u] = "inside" => spc[u] = "inside"
      BY <1>4, <1>7, <2>2, <3>2
    <3>4. Survivors(t)' \subseteq Survivors(t)
      BY <1>4, <2>2
    <3> QED
      BY <1>0, <1>1, <2>2, <3>1, <3>3, <3>4, FailedContents, <1>a
  <2>3. ASSUME Writes(ConnOf(s), s) /\ SaveGoto(s, "inside") /\ wrote' = wrote \cup {s}
        PROVE  Contents(t)'
    <3>1. /\ mode'[held[t]] = "active" /\ pending'[held[t]] = pending[held[t]] \cup {s}
          /\ marks'[held[t]] = marks[held[t]] /\ mode[held[t]] \in Open
      BY <1>0, <2>3, <1>b DEF Writes, Open
    <3>2. \A u \in SavesOf(t) : MarkOf(u)' = MarkOf(u)
      BY <1>0, <3>1 DEF MarkOf, ConnOf, SavesOf
    <3>3. \A w : Holds(held[t], w)' => Holds(held[t], w) \/ w = s
      BY <1>0, <3>1 DEF Holds
    <3>4. ~Gone(s)' /\ spc'[s] # "idle" /\ s \in WritesOf(t)
      BY <1>0, <1>4, <2>3 DEF Gone, SavesOf, WritesOf
    <3>5. (\A w : Holds(held[t], w) => w \in WritesOf(t) /\ w \in wrote)'
      BY <1>0, <1>1, <2>3, <3>3, <3>4 DEF Contents, WritesOf
    <3>6. (\A u \in SavesOf(t) : Gone(u) => ~Holds(held[t], u))'
      <4>1. ASSUME NEW u \in SavesOf(t), Gone(u)'
            PROVE  ~Holds(held[t], u)'
        BY <1>4, <1>7, <2>3, <3>3, <3>4, <4>1
      <4> QED
        BY <1>0, <4>1 DEF SavesOf
    <3>7. \A i, j \in DOMAIN marks'[held'[t]] :
            j <= i => marks'[held'[t]][i].save \notin marks'[held'[t]][j].writes
      BY <1>0, <1>1, <3>1 DEF Contents
    <3>8. \A u \in SavesOf(t) : spc'[u] = "idle" => MarkOf(u)' = {}
      BY <1>1, <1>4, <2>3, <3>2, <3>4 DEF Contents
    <3>9. ~overlap' => Sequential(t)'
      <4> SUFFICES ASSUME ~overlap PROVE Sequential(t)'
        BY <1>0
      <4>1. Underway(t)' = {s} /\ Sequential(t) /\ Underway(t) = {s}
        BY <1>1, <1>4, <1>6, <2>1, <2>3 DEF Contents
      <4>2. Survivors(t)' \subseteq Survivors(t)
        BY <1>4, <1>d, <2>3
      <4>3. MarkOf(s)' = MarkOf(s)
        BY <1>0, <3>2
      <4> QED
        BY <1>0, <3>1, <4>1, <4>2, <4>3 DEF Sequential
    <3> QED
      BY <1>0, <3>5, <3>6, <3>7, <3>8, <3>9 DEF Contents, SavesOf
  <2>4. Contents(t)'
    BY <1>9, <2>2, <2>3 DEF SaveWrites
  <2> QED
    BY <1>0, <1>1, <1>2, <1>c, <1>e, <2>4, OwnRest DEF InTx, Holding
<1>10. CASE SaveThrows(s) \/ SaveReturns(s)
  <2>1. s \in Underway(t) /\ ~Gone(s)
    BY <1>5, <1>10 DEF SaveThrows, SaveReturns
  <2>0. wrote' = wrote
    BY <1>10 DEF SaveThrows, SaveReturns
  <2>2. ASSUME NEW stage \in {"throwing", "resolved"}, SaveGoto(s, stage)
        PROVE  /\ Underway(t)' \subseteq Underway(t)
               /\ stage = "throwing" => Underway(t)' # {} /\ Survivors(t)' \subseteq Survivors(t)
               /\ \A u \in SavesOf(t) : /\ Gone(u)' => Gone(u) /\ ~Holds(held[t], u)
                                        /\ spc'[u] = "idle" => spc[u] = "idle"
                                        /\ spc'[u] = "inside" => spc[u] = "inside"
    <3>1. ~Gone(s)' /\ spc'[s] \notin {"idle", "inside"}
      BY <1>4, <2>2 DEF Gone
    <3>2. stage = "throwing" => Underway(t)' # {} /\ Survivors(t)' \subseteq Survivors(t)
      BY <1>4, <1>d, <2>2
    <3> QED
      BY <1>4, <1>7, <2>1, <2>2, <3>1, <3>2
(* What the savepoint wrote is pending when it resolves.                   *)
  <2>7. ASSUME spc[s] = "inside", ~overlap, mode[held[t]] \in Open
        PROVE  Survivors(t)' \subseteq pending[held[t]]
    <3>1. Survivors(t) \subseteq pending[held[t]] /\ (s \in wrote => s \in pending[held[t]])
      BY <1>0, <1>1, <2>1, <2>7 DEF Contents, Sequential
    <3>2. s \in Survivors(t)' => s \in wrote
      BY <2>0 DEF Survivors
    <3> QED
      BY <1>d, <3>1, <3>2
  <2>3. ASSUME NEW stage \in {"throwing", "resolved"}, SaveGoto(s, stage), spc[s] = "inside",
               \/ StatementFails(ConnOf(s)) /\ stage = "throwing"
               \/ UNCHANGED <<mode, pending, marks>> /\ (stage = "resolved" => driver = "mssql")
        PROVE  Contents(t)'
    <3>0. /\ Underway(t)' \subseteq Underway(t)
          /\ stage = "throwing" => Underway(t)' # {} /\ Survivors(t)' \subseteq Survivors(t)
          /\ \A u \in SavesOf(t) : /\ Gone(u)' => ~Holds(held[t], u)
                                   /\ spc'[u] = "idle" => spc[u] = "idle"
                                   /\ spc'[u] = "inside" => spc[u] = "inside"
      BY <2>2, <2>3
    <3>1. CASE StatementFails(ConnOf(s)) /\ stage = "throwing"
      BY <1>0, <1>1, <2>0, <3>0, <3>1, FailedContents, <1>a
    <3>2. CASE UNCHANGED <<mode, pending, marks>> /\ (stage = "resolved" => driver = "mssql")
      <4>1. SameContents(held[t]) /\ mode'[held[t]] = mode[held[t]]
        BY <3>2 DEF SameContents
      <4>2. overlap \/ mode[held[t]] # "aborted" \/ Underway(t)' # {}
        BY <1>0, <2>3, <3>0, <3>2 DEF IInv, ModeInv
      <4>3. \/ Survivors(t)' \subseteq Survivors(t)
            \/ overlap
            \/ Underway(t)' = {} /\ (mode[held[t]] \in Open => Survivors(t)' \subseteq pending[held[t]])
        BY <1>4, <1>6, <2>1, <2>3, <2>7, <3>0
      <4> QED
        BY <1>0, <1>1, <2>0, <3>0, <4>1, <4>2, <4>3, KeptContents
    <3> QED
      BY <2>3, <3>1, <3>2
  <2>4. ASSUME SaveGoto(s, "resolved"), mode[ConnOf(s)] = "active", NEW i \in MarkOf(s), spc[s] = "inside",
               Session(ConnOf(s), "active", pending[ConnOf(s)], SubSeq(marks[ConnOf(s)], 1, i - 1))
        PROVE  Contents(t)'
    <3>1. i - 1 \in 0 .. Len(marks[held[t]])
      BY <1>0 DEF MarkOf
    <3>2. /\ pending'[held[t]] = pending[held[t]] /\ marks'[held[t]] = SubSeq(marks[held[t]], 1, i - 1)
          /\ mode'[held[t]] = "active"
      BY <1>0, <2>4, <1>b
    <3>3. ~overlap => Underway(t)' = {} /\ Survivors(t)' \subseteq pending'[held[t]]
      BY <1>0, <1>4, <1>6, <2>1, <2>4, <2>7, <3>2 DEF Open
    <3>4. \A w \in pending'[held[t]] : Holds(held[t], w)
      BY <3>2 DEF Holds
    <3>5. \A u \in SavesOf(t) : (Gone(u)' => Gone(u)) /\ (spc'[u] = "idle" => spc[u] = "idle")
      BY <2>2, <2>4
    <3> QED
      BY <1>0, <1>1, <2>0, <3>1, <3>2, <3>3, <3>4, <3>5, CutContents
  <2>5. ASSUME SaveThrows(s)
        PROVE  Contents(t)'
    BY <2>3, <2>5 DEF SaveThrows, session
  <2>6. ASSUME SaveReturns(s)
        PROVE  Contents(t)'
    BY <2>3, <2>4, <2>6 DEF SaveReturns, session
  <2> QED
    BY <1>0, <1>1, <1>2, <1>c, <1>e, <1>10, <2>5, <2>6, OwnRest DEF InTx, Holding
<1>11. CASE SaveRollsBack(s)
  <2>1. s \in Underway(t) /\ ~Gone(s) /\ wrote' = wrote
    BY <1>5, <1>11 DEF SaveRollsBack
  <2>2. ASSUME mode[ConnOf(s)] \in Open, NEW i \in MarkOf(s), SaveGoto(s, "undone"),
               Session(ConnOf(s), "active", marks[ConnOf(s)][i].writes, SubSeq(marks[ConnOf(s)], 1, i))
        PROVE  Contents(t)'
    <3>1. i \in 1 .. Len(marks[held[t]]) /\ marks[held[t]][i].save = s /\ i \in DOMAIN marks[held[t]]
      BY <1>0 DEF MarkOf
    <3>2. i \in 0 .. Len(marks[held[t]])
      BY <1>0, <3>1
    <3>3. /\ pending'[held[t]] = marks[held[t]][i].writes /\ marks'[held[t]] = SubSeq(marks[held[t]], 1, i)
          /\ mode'[held[t]] = "active"
      BY <1>0, <2>2, <1>b
    <3>4. \A w \in pending'[held[t]] : Holds(held[t], w)
      BY <3>1, <3>3 DEF Holds
    <3>5. ~Holds(held[t], s)'
      <4>1. /\ DOMAIN marks'[held[t]] = 1 .. i /\ 1 .. i \subseteq DOMAIN marks[held[t]]
            /\ \A j \in 1 .. i : marks'[held[t]][j] = marks[held[t]][j]
        BY <1>0, <3>2, <3>3, MarksPrefix
      <4>2. \A j \in 1 .. i : s \notin marks[held[t]][j].writes
        BY <1>1, <3>1, <4>1 DEF Contents
      <4>3. i \in 1 .. i
        BY <3>1
      <4> QED
        BY <1>0, <3>3, <4>1, <4>2, <4>3 DEF Holds
    <3>6. \A u \in SavesOf(t) : /\ Gone(u)' => Gone(u) \/ ~Holds(held[t], u)'
                                /\ spc'[u] = "idle" => spc[u] = "idle"
      BY <1>4, <2>2, <3>5
    <3>8. Survivors(t)' \subseteq Survivors(t)
      BY <1>4, <1>d, <2>2
    <3>7. ~overlap => Underway(t)' = {} /\ Survivors(t)' \subseteq pending'[held[t]]
      <4> SUFFICES ASSUME ~overlap PROVE Underway(t)' = {} /\ Survivors(t)' \subseteq pending'[held[t]]
        OBVIOUS
      <4>1. Underway(t)' = {}
        BY <1>4, <1>6, <2>1, <2>2
      <4>2. mode[held[t]] \in Open /\ Sequential(t)
        BY <1>0, <1>1, <2>2 DEF Contents
      <4>3. Survivors(t) \subseteq marks[held[t]][i].writes
        BY <1>0, <2>1, <2>2, <4>2 DEF Sequential
      <4> QED
        BY <3>3, <3>8, <4>1, <4>3
    <3> QED
      BY <1>0, <1>1, <2>1, <3>2, <3>3, <3>4, <3>6, <3>7, CutContents
  <2>3. ASSUME /\ mode[ConnOf(s)] \notin Open \/ MarkOf(s) = {}
               /\ StatementFails(ConnOf(s)) /\ SaveGoto(s, "rejected")
        PROVE  Contents(t)'
    <3>1. ~overlap => ~Holds(held[t], s)
      <4> SUFFICES ASSUME ~overlap PROVE ~Holds(held[t], s)
        OBVIOUS
      <4>1. mode[held[t]] \notin Open
        BY <1>0, <1>1, <2>1, <2>3 DEF Contents, Sequential
      <4>2. pending[held[t]] = {} /\ marks[held[t]] = <<>>
        BY <1>0, <4>1 DEF IInv, ModeInv
      <4> QED
        BY <4>2 DEF Holds
    <3>2. Gone(s)' => ~overlap
      BY <1>0, <1>4, <2>3 DEF Gone
    <3>3. \A u \in SavesOf(t) : /\ Gone(u)' => ~Holds(held[t], u)
                                /\ spc'[u] = "idle" => spc[u] = "idle"
                                /\ spc'[u] = "inside" => spc[u] = "inside"
      BY <1>4, <1>7, <2>3, <3>1, <3>2
    <3>4. Underway(t)' \subseteq Underway(t) /\ Survivors(t)' \subseteq Survivors(t)
      BY <1>4, <1>d, <2>3
    <3>5. overlap \/ mode[held[t]] \notin Open
      BY <1>0, <1>1, <2>1, <2>3 DEF Contents, Sequential
    <3> QED
      BY <1>0, <1>1, <2>1, <2>3, <3>3, <3>4, <3>5, FailedContents, <1>a
  <2>4. Contents(t)'
    BY <1>11, <2>2, <2>3 DEF SaveRollsBack, Open
  <2> QED
    BY <1>0, <1>1, <1>2, <1>c, <1>e, <2>4, OwnRest DEF InTx, Holding
<1> QED
  BY <1>8, <1>9, <1>10, <1>11 DEF SaveStep, SaveContinue

-----------------------------------------------------------------------------
(* The invariant and what follows from it.                                 *)

LEMMA Initially == Init => IInv
<1> SUFFICES ASSUME Init PROVE IInv
  OBVIOUS
<1>1. TypeOK
  BY EmptyMarks DEF Init, TypeOK, Errors, Marks
<1>2. ModeInv
  BY DEF Init, ModeInv, Open
<1>3. OwnerInv
  BY DEF Init, OwnerInv, Holding, InTx
<1>4. ASSUME NEW t \in Tx
      PROVE  TxInv(t)
  <2>1. tpc[t] = "idle" /\ durable = {} /\ cause[t] = "none" /\ t \notin wrote
    BY DEF Init
  <2>2. \A s \in SavesOf(t) : spc[s] = "idle"
    BY DEF Init, SavesOf
  <2>3. Underway(t) = {}
    BY <2>2 DEF Underway, SavesOf
  <2>4. wrote = {} /\ Survivors(t) = {}
    BY DEF Init, Survivors
  <2> QED
    BY <2>1, <2>2, <2>3, <2>4 DEF TxInv, InTx
<1> QED
  BY <1>1, <1>2, <1>3, <1>4 DEF IInv

LEMMA StutterStep == IInv /\ UNCHANGED vars => IInv'
<1> SUFFICES ASSUME IInv, UNCHANGED vars PROVE IInv'
  OBVIOUS
<1>1. TypeOK'
  BY DEF IInv, TypeOK, vars, session
<1>2. ModeInv'
  BY DEF IInv, ModeInv, LeftOpen, vars, session
<1>3. OwnerInv'
  BY DEF IInv, OwnerInv, Exclusive, Pooled, vars, session
<1>4. \A u \in Tx : Untouched(u)
  BY DEF Untouched, vars, session
<1> QED
  BY <1>1, <1>2, <1>3, <1>4, UntouchedKeeps DEF IInv

LEMMA IInvNext == DuckDBApart /\ IInv /\ [Next]_vars => IInv'
<1> SUFFICES ASSUME DuckDBApart, IInv, [Next]_vars PROVE IInv'
  OBVIOUS
<1>0. SessionType /\ CallType /\ driver \in Drivers
  BY TypeParts DEF IInv
<1>1. ASSUME Fixed, NEW t \in Tx, Write(t) \/ Continue(t)
      PROVE  IInv'
  <2>1. Local(t) /\ Orderly(t)
    BY <1>1, LocalTx
  <2>2. TypeOK'
    BY <1>0, <1>1, <2>1, ContinueType, TypeParts, TypePartsNext DEF Local, Fixed, IInv
  <2>3. ModeInv' /\ OwnerInv'
    BY <2>1, ModeStep, OwnerStep
  <2>4. TxInv(t)'
    BY <1>1, WriteContents, ContinueContents
  <2>5. \A u \in Tx \ {t} : TxInv(u)'
    BY <2>1, OtherStep
  <2> QED
    BY <2>2, <2>3, <2>4, <2>5 DEF IInv
<1>2. ASSUME Fixed, NEW s \in Saves, SaveStep(s)
      PROVE  IInv'
  <2>1. PICK t \in Tx : t = TxOf[s]
    BY SaveAssumption
  <2>2. Local(TxOf[s]) /\ Orderly(TxOf[s]) /\ held[TxOf[s]] \in Conns
    BY <1>2, LocalSave, SaveInCallback
  <2>3. TypeOK'
    BY <1>0, <1>2, <2>2, SaveType, TypeParts, TypePartsNext DEF Fixed, IInv, SaveStep, ConnOf
  <2>4. Local(t) /\ Orderly(t)
    BY <2>1, <2>2 DEF Local, Orderly
  <2>5. ModeInv' /\ OwnerInv'
    BY <2>4, ModeStep, OwnerStep
  <2>6. TxInv(t)'
    BY <1>2, <2>1, SaveOwn
  <2>7. \A u \in Tx \ {t} : TxInv(u)'
    BY <2>4, OtherStep
  <2> QED
    BY <2>3, <2>5, <2>6, <2>7 DEF IInv
<1>3. CASE UNCHANGED vars
  BY <1>3, StutterStep
<1>4. CASE Next
  BY <1>1, <1>2, <1>4, ConnectStep, ReplaceStep DEF Next, Fixed, SaveStep
<1> QED
  BY <1>3, <1>4

LEMMA IInvCorrect == DuckDBApart /\ Spec => []IInv
<1>1. CASE DuckDBApart
  <2>1. IInv /\ [Next]_vars => IInv'
    BY <1>1, IInvNext
  <2> QED
    BY <2>1, Initially, PTL DEF Spec
<1>2. CASE ~DuckDBApart
  BY <1>2, PTL
<1> QED
  BY <1>1, <1>2

(* Every reachable state is well typed, unless DuckDB transactions share a *)
(* connection.                                                             *)
THEOREM TypeCorrect == DuckDBApart /\ Spec => []TypeOK
<1>1. IInv => TypeOK
  BY DEF IInv
<1> QED
  BY <1>1, IInvCorrect, PTL

(* "If the callback throws, the transaction is rolled back" (docs/         *)
(* transactions.md:221): none of its writes is ever committed, whatever    *)
(* statement fails, whichever savepoints run and whoever shares the        *)
(* connection.                                                             *)
THEOREM ThrowRollsBackCorrect == DuckDBApart /\ Spec => []ThrowRollsBack
<1>1. IInv => ThrowRollsBack
  BY DEF IInv, TxInv, ThrowRollsBack
<1> QED
  BY <1>1, IInvCorrect, PTL

(* Of a transaction everything is committed or nothing and its caller      *)
(* learns which, short of a lost answer and of PostgreSQL's answer to an   *)
(* aborted transaction; what SQLite keeps after a failed COMMIT stays in   *)
(* the session of the transaction whose writes it has and is committed by  *)
(* no later call.                                                          *)
THEOREM TransactionsAtomicCorrect == DuckDBApart /\ Spec => []TransactionsAtomic
<1>1. ASSUME IInv
      PROVE  AllOrNothing
  BY <1>1 DEF IInv, TxInv, AllOrNothing
<1>2. ASSUME IInv, NEW c \in Conns, \A t \in Tx : held[t] = c => tpc[t] \notin Holding
      PROVE  \/ mode[c] \in {"idle", "lost"} /\ pending[c] = {}
             \/ /\ driver = "sqlite3"
                /\ \E t \in Tx : held[t] = c /\ cause[t] = "commit" /\ pending[c] \subseteq WritesOf(t)
  <2>1. CASE mode[c] \in Open
    <3>1. PICK t \in Tx : held[t] = c /\ (tpc[t] \in InTx \/ LeftOpen(t, c))
      BY <1>2, <2>1 DEF IInv, ModeInv
    <3>2. LeftOpen(t, c)
      BY <1>2, <3>1 DEF InTx, Holding
    <3> QED
      BY <3>1, <3>2 DEF LeftOpen
  <2>2. CASE mode[c] \notin Open
    <3>1. mode[c] \in Modes
      BY <1>2, TypeParts DEF IInv, SessionType
    <3> QED
      BY <1>2, <2>2, <3>1 DEF IInv, ModeInv, Modes, Open
  <2> QED
    BY <2>1, <2>2
<1>3. IInv => TransactionsAtomic
  BY <1>1, <1>2 DEF TransactionsAtomic, SessionsEnd
<1> QED
  BY <1>3, IInvCorrect, PTL

(* A savepoint that rejects with its callback's error leaves no trace in   *)
(* what its transaction commits, however many savepoints overlap.          *)
THEOREM FailedSaveUndoneCorrect == DuckDBApart /\ Spec => []FailedSaveUndone
<1>1. ASSUME IInv, NEW s \in Saves, spc[s] = "undone" \/ (spc[s] = "rejected" /\ ~overlap)
      PROVE  s \notin durable
  <2>1. TxOf[s] \in Tx /\ s \in SavesOf(TxOf[s]) /\ Gone(s)
    BY <1>1, SaveAssumption DEF SavesOf, Gone
  <2> QED
    BY <1>1, <2>1 DEF IInv, TxInv
<1>2. IInv => FailedSaveUndone
  BY <1>1 DEF FailedSaveUndone
<1> QED
  BY <1>2, IInvCorrect, PTL
=============================================================================
