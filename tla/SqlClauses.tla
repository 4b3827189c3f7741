------------------------------ MODULE SqlClauses ------------------------------
(***************************************************************************)
(* What a database makes of the pieces a builder emits: the truth of a     *)
(* WHERE clause for a row, in SQL's three-valued logic, and the meaning a  *)
(* caller gives the filter parameter it was built from.  Neither is code   *)
(* of the repository; the properties of the builders are stated with them. *)
(***************************************************************************)
EXTENDS Templates

Not3(t) == CASE t = "true" -> "false" [] t = "false" -> "true" [] OTHER -> t
And3(ts) == IF "false" \in ts THEN "false" ELSE IF "unknown" \in ts THEN "unknown" ELSE "true"
Or3(ts) == Not3(And3({Not3(t) : t \in ts}))
Truth(b) == IF b THEN "true" ELSE "false"

(* One comparison of two numbers, unknown when either is null.             *)
Compare(x, op, y) ==
  IF x = Null \/ y = Null THEN "unknown"
  ELSE CASE op = "=" -> Truth(x = y)
         [] op = "<>" -> Truth(x # y)
         [] op = "<" -> Truth(x.num < y.num)
         [] op = "<=" -> Truth(x.num <= y.num)
         [] op = ">" -> Truth(x.num > y.num)
         [] op = ">=" -> Truth(x.num >= y.num)
Within(x, low, high) == And3({Compare(x, ">=", low), Compare(x, "<=", high)})
OneOf(x, values) == Or3({Compare(x, "=", y) : y \in values})

-----------------------------------------------------------------------------
(* The clause, as the pieces say it                                        *)

Operand(piece) == piece.bind
Operands(out) == {out[i].bind : i \in {j \in DOMAIN out : "bind" \in DOMAIN out[j]}}

Depth(out, i) ==
  Cardinality({j \in 1..i : Is(out[j], "(")}) - Cardinality({j \in 1..(i - 1) : Is(out[j], ")")})

(* The positions of a connective outside all parentheses.                  *)
Connectives(out, word) == {i \in DOMAIN out : Is(out[i], word) /\ Depth(out, i) = 0}
Between(out, cuts) ==
  {SubSeq(out, i + 1, j - 1) :
     <<i, j>> \in {p \in ({0} \cup cuts) \X (cuts \cup {Len(out) + 1}) :
                     p[1] < p[2] /\ ~\E c \in cuts : p[1] < c /\ c < p[2]}}

AtomTruth(out, row) ==
  LET x == row[out[1].col]
      op == out[2].sql
  IN IF out = Sql("1=0") THEN "false"
     ELSE CASE op = "between" -> Within(x, Operand(out[3]), Operand(out[5]))
            [] op = "in" -> OneOf(x, Operands(out))
            [] op = "not in" -> Not3(OneOf(x, Operands(out)))
            [] op = "is null" -> Truth(x = Null)
            [] op = "is not null" -> Truth(x # Null)
            [] OTHER -> Compare(x, op, Operand(out[3]))

(* OR binds weaker than AND, and both weaker than parentheses.             *)
RECURSIVE ClauseTruth(_, _)
ClauseTruth(out, row) ==
  LET ors == Connectives(out, "or")
      ands == Connectives(out, "and")
  IN IF ors # {} THEN Or3({ClauseTruth(part, row) : part \in Between(out, ors)})
     ELSE IF ands # {} THEN And3({ClauseTruth(part, row) : part \in Between(out, ands)})
     ELSE IF Is(out[1], "(") THEN ClauseTruth(SubSeq(out, 2, Len(out) - 1), row)
     ELSE AtomTruth(out, row)

-----------------------------------------------------------------------------
(* The filter, as its caller means it                                      *)

EntryTruth(e, row) ==
  LET x == row[e.key]
      op == Text(e.value.items[1])
      args == Tail(e.value.items)
  IN IF ~IsList(e.value) THEN Compare(x, "=", e.value)
     ELSE CASE op \in {"not", "!="} -> Compare(x, "<>", args[1])
            [] op = "between" -> Within(x, args[1], args[2])
            [] op = "in" -> OneOf(x, ToSet(args))
            [] op = "notIn" -> Not3(OneOf(x, ToSet(args)))
            [] op = "isNull" -> Truth(x = Null)
            [] op = "isNotNull" -> Truth(x # Null)
            [] OTHER -> Compare(x, op, args[1])

(* A condition holds when each of its entries does, an or-group when one   *)
(* of its conditions does, the list when all of them do.                   *)
RECURSIVE ConditionTruth(_, _)
ConditionTruth(c, row) ==
  And3({IF e.key = "or"
        THEN Or3({ConditionTruth(g, row) : g \in ToSet(e.value.items)})
        ELSE EntryTruth(e, row) : e \in ToSet(c.entries)})

FilterTruth(filter, row) ==
  IF IsList(filter) THEN And3({ConditionTruth(c, row) : c \in ToSet(filter.items)})
  ELSE ConditionTruth(filter, row)
=============================================================================
