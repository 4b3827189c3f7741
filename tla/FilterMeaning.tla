---------------------------- MODULE FilterMeaning ----------------------------
(***************************************************************************)
(* What the WHERE clause of a build means to the database, against what    *)
(* the filter it was built from means to the caller.                       *)
(***************************************************************************)
EXTENDS CrossRuntime, SqlClauses

(* Conditions with one meaning: none that is empty, no list that is empty, *)
(* no condition of several columns in an or-group (its columns are or'ed), *)
(* no column beside an "or" (it is dropped).                               *)
RECURSIVE Meaningful(_, _)
Meaningful(conditions, single) ==
  \A c \in ToSet(conditions) :
    /\ c.entries # <<>>
    /\ single \/ Has(c, "or") => Len(c.entries) = 1
    /\ \A e \in ToSet(c.entries) : IsList(e.value) =>
         IF e.key = "or" THEN e.value.items # <<>> /\ Meaningful(e.value.items, TRUE)
         ELSE e.value.items[1] \in {Str("in"), Str("notIn")} => Len(e.value.items) > 1

Rows(columns) == [ToSet(columns) -> {Null, Num(1), Num(2)}]

(* A filter selects the rows its conditions describe: the WHERE clause of  *)
(* every build, read with SQL's precedence and its nulls, is true of a row *)
(* exactly when each condition of the list is, an or-group when one of its *)
(* own conditions is (docs/crud.md, OR Groups and Nested OR).              *)
FilterMeansConditions ==
  LET node == Template[2]
      filter == Get(query.params, node.param)
      conditions == IF IsList(filter) THEN filter.items ELSE << filter >>
  IN (Built /\ PortableQuery /\ node.op = "filter" /\ ~Missing(filter)) =>
     (Meaningful(conditions, FALSE) =>
        \A out \in Outputs : ~Failed(out) /\ After(out, "where") # Nothing =>
          \A row \in Rows(node.columns) :
            ClauseTruth(After(out, "where"), row) = FilterTruth(filter, row))
=============================================================================
