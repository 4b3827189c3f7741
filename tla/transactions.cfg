SPECIFICATION FairSpec
CONSTANTS
  t1 = t1 t2 = t2 t3 = t3 s1 = s1 s2 = s2 s3 = s3 c1 = c1 nobody = nobody
  Drivers = {"postgres", "mssql", "sqlite3", "duckdb"}
  Shared = {"sqlite3"}
  Overlap = {"postgres", "mssql", "sqlite3"}
  Tx = {t1, t2}
  Saves = {s1, s2}
  TxOf <- MCTxOf
  Conns = {c1}
  Nobody = nobody
CHECK_DEADLOCK FALSE
INVARIANTS ThrowRollsBack TransactionsAtomic FailedSaveUndone
PROPERTIES CallsSettle
