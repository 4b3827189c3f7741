--------------------------- MODULE MC_QueryHandler ---------------------------
EXTENDS QueryHandler
CONSTANTS c1, c2, email, total

(* Every way to execute, with nothing to validate.                         *)
Executions ==
  {[Plain EXCEPT !.db = db, !.retry = retry, !.retryable = retryable, !.timeout = timeout] :
     db \in {"driver", "connection", "pipeline", "remote"},
     retry \in {"unset", "off", "default", "any"},
     retryable \in {"default", "always", "never"}, timeout \in BOOLEAN}

(* Every use of one column and one alias, executed plainly; a select with  *)
(* values and no aliases is an array.                                      *)
Parameters ==
  {[Plain EXCEPT !.aliases = aliases, !.values = values, !.ordered = ordered,
                 !.orderBy = IF ordered THEN orderBy ELSE {}] :
     aliases \in {{}, {total}, {email, total}}, values \in {{}, {email}, {total}},
     ordered \in BOOLEAN, orderBy \in SUBSET {email, total}}

MCRequestsOf ==
  [c \in Calls |-> IF c = c1
                      THEN Executions \cup Parameters \cup {[Plain EXCEPT !.multiSource = TRUE]}
                      ELSE {p \in Parameters : p.values \cup p.aliases \subseteq {total}}]
MCParametersOf == [c \in Calls |-> Parameters]
=============================================================================
