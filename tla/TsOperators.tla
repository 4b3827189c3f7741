----------------------------- MODULE TsOperators -----------------------------
(***************************************************************************)
(* The portable operators as the TypeScript runtime evaluates them: the    *)
(* write() of every operator class with the call's params in the build     *)
(* context (packages/core/src/core/operators), and the serializer that     *)
(* turns the same operators into manifest nodes.  An operator that throws  *)
(* leaves Fail in the output.  Templates over one table are modelled: the  *)
(* column map of a joined select is left out.                              *)
(***************************************************************************)
EXTENDS Templates

(* A column of the table, or the error of a name it does not have.         *)
TsColumn(columns, key) == IF Known(columns, key) THEN Col(key) ELSE Fail

(* addValues of a value that must be a primitive.                          *)
TsValue(v) == IF IsPrimitive(v) THEN Bind(v) ELSE Fail

(* A named param: one placeholder whatever its value, null when absent.    *)
TsParam(node, params) ==
  LET v == Get(params, node.param) IN Bind(IF v = Absent THEN Null ELSE v)

(* each(): one placeholder per element of a list.                          *)
TsEach(node, params) ==
  LET v == Get(params, node.param)
  IN IF IsList(v) THEN Join(Each(v.items, TsValue), ",") ELSE Nothing

TsSet(node, params) ==
  LET obj == Get(params, node.param)
      Assign(e) == IF Known(node.columns, e.key) /\ IsPrimitive(e.value)
                   THEN Col(e.key) \o Sql("=") \o Bind(e.value) ELSE Fail
  IN IF ~IsObject(obj) \/ obj.entries = <<>> THEN Fail
     ELSE Sql("set") \o Join(Each(obj.entries, Assign), ",")

(* The rows' keys in the table's order; every row must have the same keys, *)
(* each a column of the table.                                             *)
TsCanonicalKeys(columns, rows) ==
  Those(columns, LAMBDA c : Has(rows[1], c))
TsRowsAgree(columns, rows) ==
  /\ \A r \in DOMAIN rows : ToSet(Keys(rows[r])) = ToSet(Keys(rows[1]))
  /\ ToSet(Keys(rows[1])) \subseteq ToSet(columns)

TsTuples(keys, rows) ==
  Join(Each(rows, LAMBDA row :
         Sql("(") \o Join(Each(keys, LAMBDA k : TsValue(Get(row, k))), ",") \o Sql(")")),
       ",")

TsRows(node, params, Emit(_, _)) ==
  LET rows == Get(params, node.param)
  IN IF ~IsList(rows) \/ rows.items = <<>> THEN Fail
     ELSE IF ~TsRowsAgree(node.columns, rows.items) THEN Fail
     ELSE Emit(TsCanonicalKeys(node.columns, rows.items), rows.items)

TsInsert(node, params) ==
  TsRows(node, params, LAMBDA keys, rows :
    Sql("(") \o Columns(keys) \o Sql(") values") \o TsTuples(keys, rows))
TsInsertCols(node, params) ==
  TsRows(node, params, LAMBDA keys, rows : Columns(keys))
TsInsertValues(node, params) ==
  TsRows(node, params, LAMBDA keys, rows : TsTuples(keys, rows))

-----------------------------------------------------------------------------
(* filterBy and havingBy                                                   *)

(* An argument that is not given is bound as null.                         *)
TsArg(args, i) == TsValue(IF i \in DOMAIN args THEN args[i] ELSE Null)
TsValues(values) == Join(Each(values, TsValue), ",")

(* One comparison of a filter, after its column or aggregate `left`.       *)
TsFilterOp(left, op, args) ==
  CASE op \in {"not", "!="} -> left \o Sql("<>") \o TsArg(args, 1)
    [] op = "between" ->
         IF args = <<>> THEN left \o Sql("is null")
         ELSE left \o Sql("between") \o TsArg(args, 1) \o Sql("to") \o TsArg(args, 2)
    [] op = "in" -> IF args = <<>> THEN Sql("1=0")
                    ELSE left \o Sql("in") \o TsValues(args) \o Sql("end")
    [] op = "notIn" -> IF args = <<>> THEN Nothing
                       ELSE left \o Sql("not in") \o TsValues(args) \o Sql("end")
    [] op = "isNull" -> left \o Sql("is null")
    [] op = "isNotNull" -> left \o Sql("is not null")
    [] OTHER -> left \o Sql(op) \o TsArg(args, 1)

(* The same of havingBy, which gives an empty list a null check.           *)
TsHavingOp(left, op, args) ==
  IF args = <<>> /\ op = "in" THEN left \o Sql("is null")
  ELSE IF args = <<>> /\ op = "notIn" THEN left \o Sql("is not null")
  ELSE TsFilterOp(left, op, args)

TsFilterEntry(columns, e) ==
  LET op == Text(e.value.items[1])
  IN IF ~Known(columns, e.key) THEN Fail
     ELSE IF ~IsList(e.value) THEN Col(e.key) \o Sql("=") \o TsValue(e.value)
     ELSE IF e.value.items = <<>> \/ op \notin FilterOps THEN Fail
     ELSE TsFilterOp(Col(e.key), op, Tail(e.value.items))

(* An "or" that is no list has a length, the code reads it, unless it is   *)
(* null: with characters to walk through it is an error, else it and all   *)
(* that is beside it are passed over, as with an empty list.               *)
TsBadGroup(v) == IF Missing(v) \/ Text(v) # "" THEN << Fail >> ELSE <<>>

(* The parts of a list of conditions; an empty or-group is no part at all. *)
(* `group` has what each or-group nested in the list comes to.             *)
(* Mutant: an or-group is not put in parentheses.                          *)
Mut_NoParentheses(columns, conditions, group) ==
  LET Parts(c) == IF IsList(Get(c, "or")) THEN << group[Get(c, "or").items] >>
                  ELSE Each(c.entries, LAMBDA e : TsFilterEntry(columns, e))
  IN FlattenSeq(Each(conditions, Parts))
TsParts(columns, conditions, group) ==
  LET Parts(c) ==
        IF ~Has(c, "or") THEN Each(c.entries, LAMBDA e : TsFilterEntry(columns, e))
        ELSE IF ~IsList(Get(c, "or")) THEN TsBadGroup(Get(c, "or"))
        ELSE IF Get(c, "or").items = <<>> THEN <<>>
        ELSE << Sql("(") \o group[Get(c, "or").items] \o Sql(")") >>
  IN FlattenSeq(Each(conditions, Parts))

TsConditions(columns, conditions) ==
  LET group[g \in Nested(conditions)] == Join(TsParts(columns, g, group), "or")
  IN Join(TsParts(columns, conditions, group), "and")

TsFilter(node, params) ==
  LET v == Get(params, node.param)
      conditions == IF IsList(v) THEN v.items
                    ELSE Each(v.entries, LAMBDA e : Obj1(e.key, e.value))
  IN IF v.is \notin {"list", "object"} \/ conditions = <<>> THEN Nothing
     ELSE node.prefix \o TsConditions(node.columns, conditions)

(* The entries of a select param that are aggregates.                      *)
TsAggregates(select) ==
  IF ~IsObject(select) THEN <<>>
  ELSE Those(select.entries, LAMBDA e :
         IsObject(e.value) /\ Text(Get(e.value, "fn")) \in Aggregates)

TsAggregate(columns, entry) ==
  LET col == Text(Get(entry, "col"))
  IN Sql(Text(Get(entry, "fn"))) \o
     (IF col = "*" THEN Sql("*") ELSE IF Known(columns, col) THEN Col(col) ELSE Quoted(col))

TsHavingEntry(columns, aggregates, e) ==
  LET named == Those(aggregates, LAMBDA a : a.key = e.key)
      left == TsAggregate(columns, named[1].value)
  IN IF named = <<>> THEN Fail
     ELSE IF ~IsList(e.value) THEN left \o Sql("=") \o TsValue(e.value)
     ELSE IF e.value.items = <<>> \/ Text(e.value.items[1]) \notin FilterOps THEN Fail
     ELSE TsHavingOp(left, Text(e.value.items[1]), Tail(e.value.items))

TsHaving(node, params) ==
  LET conditions == Get(params, node.param)
      aggregates == TsAggregates(Get(params, "select"))
      entries == FlattenSeq(Each(conditions.items, LAMBDA c : c.entries))
  IN IF ~IsList(conditions) \/ conditions.items = <<>> THEN Nothing
     ELSE IF aggregates = <<>> THEN Fail
     ELSE Sql("having") \o
          Join(Each(entries, LAMBDA e : TsHavingEntry(node.columns, aggregates, e)), "and")

-----------------------------------------------------------------------------
(* orderBy, pagination and the projection with its GROUP BY                *)

(* An unknown field passes as a quoted name; so does an aggregate's alias. *)
TsOrderTerm(columns, aggregates, e) ==
  LET alias == \E i \in DOMAIN aggregates : aggregates[i].key = e.key
      field == IF ~alias /\ Known(columns, e.key) THEN Col(e.key) ELSE Quoted(e.key)
  IN IF Missing(e.value) \/ e.value \in {False, Str(""), Num(0)} THEN field \o Sql("ASC")
     ELSE IF Text(e.value) \in Directions THEN field \o Sql(e.value.str)
     ELSE Fail

TsOrderBy(node, params) ==
  LET order == Get(params, node.param)
      aggregates == TsAggregates(Get(params, "select"))
  IN IF ~IsObject(order) \/ order.entries = <<>> THEN Nothing
     ELSE Sql("order by") \o
          Join(Each(order.entries, LAMBDA e : TsOrderTerm(node.columns, aggregates, e)), ",")

TsPagination(params) ==
  LET limit == Get(params, "limit")
      offset == Get(params, "offset")
  IN (IF Missing(limit) THEN Nothing ELSE Sql("limit") \o TsValue(limit)) \o
     (IF Missing(offset) THEN Nothing ELSE Sql("offset") \o TsValue(offset))

TsColumnRef(columns, col) == IF col = "*" THEN Sql("*") ELSE TsColumn(columns, col)

(* A transform of a column; `Operand` emits an argument, bound in the      *)
(* select list and inlined in the GROUP BY.  A transform of "*" is left out. *)
TsTransform(columns, entry, dialect, Operand(_)) ==
  LET col == TsColumnRef(columns, Text(Get(entry, "col")))
      args == Get(entry, "args")
      first == IF Items(args) = <<>> THEN Absent ELSE Items(args)[1]
      mssql == dialect = "transactsql"
  IN CASE Get(entry, "fn") = Str("dateTrunc") ->
            IF Text(args) \notin {"year", "month", "day", "hour"} THEN Fail
            ELSE Sql(CASE dialect = "sqlite" -> "strftime"
                       [] mssql -> "DATETRUNC" [] OTHER -> "date_trunc")
                 \o Sql(args.str) \o col
       [] Get(entry, "fn") = Str("coalesce") ->
            Sql("coalesce") \o col \o Sql(",") \o Join(Each(Items(args), Operand), ",")
       [] Get(entry, "fn") = Str("round") ->
            IF Missing(first) THEN Sql("round") \o col
            ELSE IF first.is = "number" THEN Sql("round") \o col \o Literal(first)
            ELSE Fail
       [] Get(entry, "fn") = Str("abs") -> Sql("abs") \o col
       [] Get(entry, "fn") = Str("concat") ->
            LET joiner == IF mssql THEN "," ELSE "||"
            IN (IF mssql THEN Sql("CONCAT") ELSE Nothing) \o col \o Sql(joiner)
               \o Join(Each(Items(args), Operand), joiner)
       [] OTHER -> Fail

TsProjectionEntry(columns, e, dialect) ==
  LET name == IF e.value = True THEN e.key ELSE Text(e.value)
      fn == Text(Get(e.value, "fn"))
  IN IF ~IsObject(e.value)
     THEN IF name = "" THEN Fail
          ELSE TsColumn(columns, name) \o (IF name = e.key THEN Nothing ELSE As(e.key))
     ELSE (IF fn \in Aggregates
           THEN Sql(fn) \o TsColumnRef(columns, Text(Get(e.value, "col")))
           ELSE TsTransform(columns, e.value, dialect, TsValue))
          \o As(e.key)

(* A list is an object too, keyed by its indexes.                          *)
TsSelect(node, params) ==
  LET v == Get(params, node.param)
  IN IF IsObject(v) THEN v.entries
     ELSE IF IsList(v) THEN [i \in DOMAIN v.items |-> Entry(ToString(i - 1), v.items[i])]
     ELSE <<>>

TsProjection(node, params, dialect) ==
  LET entries == TsSelect(node, params)
  IN IF entries = <<>> THEN Columns(node.columns)
     ELSE Join(Each(entries, LAMBDA e : TsProjectionEntry(node.columns, e, dialect)), ",")

(* Mutant: the GROUP BY binds the arguments of its transforms again.       *)
Mut_BoundGroupBy(node, params, dialect) ==
  LET calls == Those(TsSelect(node, params), LAMBDA e : IsObject(e.value))
      transforms == Those(calls, LAMBDA e : Text(Get(e.value, "fn")) \notin Aggregates)
  IN IF transforms = calls \/ transforms = <<>> THEN Nothing
     ELSE Sql("group by") \o
          Join(Each(transforms, LAMBDA e : TsTransform(node.columns, e.value, dialect, TsValue)), ",")

(* The plain columns first, then the transforms, with inlined arguments.   *)
TsGroupBy(node, params, dialect) ==
  LET entries == TsSelect(node, params)
      plain == Those(entries, LAMBDA e : ~IsObject(e.value))
      calls == Those(entries, LAMBDA e : IsObject(e.value))
      transforms == Those(calls, LAMBDA e : Text(Get(e.value, "fn")) \notin Aggregates)
      Name(e) == IF e.value = True THEN e.key ELSE Text(e.value)
      exprs == Each(plain, LAMBDA e : TsColumn(node.columns, Name(e))) \o
               Each(transforms, LAMBDA e : TsTransform(node.columns, e.value, dialect, Literal))
  IN IF transforms = calls \/ exprs = <<>> THEN Nothing
     ELSE Sql("group by") \o Join(exprs, ",")

-----------------------------------------------------------------------------
(* joinBy, upsert and windowBy                                             *)

(* A reference resolves among the root "_" and the tables joined so far; a *)
(* bare column name takes the first of them that has it.                   *)
TsJoinRef(joinMap, seen, ref) ==
  LET owners == Those(seen, LAMBDA t : Known(joinMap[t], Text(ref)))
  IN IF ref.is = "ref"
     THEN IF /\ ref.table \in ToSet(seen) \cap DOMAIN joinMap
             /\ Known(joinMap[ref.table], ref.col)
          THEN JoinCol(ref.table, ref.col) ELSE Fail
     ELSE IF owners = <<>> THEN Fail ELSE JoinCol(owners[1], ref.str)

TsJoinCondition(joinMap, seen, condition) ==
  LET c == condition.items
  IN IF Len(c) < 3 \/ Text(c[2]) \notin JoinOps THEN Fail
     ELSE TsJoinRef(joinMap, seen, c[1]) \o Sql(c[2].str) \o TsJoinRef(joinMap, seen, c[3])

TsJoin(node, alias, seen, entry) ==
  LET given == Get(entry, "type")
      kind == IF ~Missing(given) THEN Text(given)
              ELSE IF alias \in DOMAIN node.joinTypes THEN node.joinTypes[alias] ELSE "inner"
  IN IF alias \notin DOMAIN node.joinMap \ {"_"} \/ kind \notin JoinKinds THEN Fail
     ELSE IF kind = "cross" THEN Sql(kind) \o Table(alias)
     ELSE Sql(kind) \o Table(alias) \o Sql("on") \o
          Join(Each(Get(entry, "on").items,
                    LAMBDA c : TsJoinCondition(node.joinMap, seen, c)), "and")

(* An entry without an "on" list is dropped before anything is emitted.    *)
TsJoinBy(node, params) ==
  LET v == Get(params, node.param)
      entries == IF ~IsObject(v) THEN <<>>
                 ELSE Those(v.entries, LAMBDA e :
                        IsObject(e.value) /\ IsList(Get(e.value, "on")))
      Seen(i) == [j \in 1..(i + 1) |-> IF j = 1 THEN "_" ELSE entries[j - 1].key]
  IN FlattenSeq([i \in DOMAIN entries |->
                   TsJoin(node, entries[i].key, Seen(i), entries[i].value)])

TsAssignFrom(keys, source) ==
  Join(Each(keys, LAMBDA k : Col(k) \o Sql(source) \o Col(k)), ",")

TsUpsertPgSqlite(node, keys, rows) ==
  LET updated == Those(keys, LAMBDA k : k \notin ToSet(node.conflict))
  IN Sql("(") \o Columns(keys) \o Sql(") values") \o TsTuples(keys, rows)
     \o Sql("on conflict") \o Columns(node.conflict)
     \o (IF updated = <<>> THEN Sql("do nothing")
         ELSE Sql("do update set") \o TsAssignFrom(updated, "= excluded"))

TsUpsertMssql(node, keys, rows) ==
  LET updated == Those(keys, LAMBDA k : k \notin ToSet(node.conflict))
  IN Sql("using values") \o TsTuples(keys, rows)
     \o Sql("as src") \o Columns(keys) \o Sql("on")
     \o Join(Each(node.conflict, LAMBDA k : Col(k) \o Sql("= src") \o Col(k)), "and")
     \o (IF updated = <<>> THEN Nothing
         ELSE Sql("when matched then update set") \o TsAssignFrom(updated, "= src"))
     \o Sql("when not matched then insert") \o Columns(keys)
     \o Sql("values src") \o Columns(keys)

TsUpsert(node, params, dialect) ==
  LET rows == Get(params, node.param)
      keys == TsCanonicalKeys(node.columns, rows.items)
  IN IF ~IsList(rows) \/ rows.items = <<>> THEN Fail
     ELSE IF dialect = "transactsql" THEN TsUpsertMssql(node, keys, rows.items)
     ELSE TsUpsertPgSqlite(node, keys, rows.items)

TsWindowCall(columns, entry) ==
  LET fn == Text(Get(entry, "fn"))
      col == Text(Get(entry, "col"))
      args == Get(entry, "args")
  IN CASE fn \in Ranking -> IF Get(entry, "col") = Absent THEN Sql(fn) ELSE Fail
       [] fn = "ntile" -> IF args.is = "number" /\ args.num > 0
                          THEN Sql(fn) \o Literal(args) ELSE Fail
       [] fn \in Offsets /\ col # "" ->
            Sql(fn) \o TsColumnRef(columns, col)
            \o Literal(IF Missing(args) THEN Num(1) ELSE args)
       [] OTHER -> IF col = "" THEN Fail ELSE Sql(fn) \o TsColumnRef(columns, col)

TsFrameBound(bound, unbounded, side) ==
  IF Missing(bound) THEN Sql(unbounded)
  ELSE IF bound.is = "string" THEN Sql(bound.str)
  ELSE IF bound.is = "number" /\ bound.num = 0 THEN Sql("current row") ELSE Literal(bound) \o Sql(side)

(* A direction that is empty drops its column; start or end given, null    *)
(* too, asks for a frame.                                                  *)
TsOver(columns, over, dialect) ==
  LET part == Get(over, "partitionBy")
      order == Get(over, "orderBy")
      terms == Those(order.entries, LAMBDA e : ~Missing(e.value) /\ e.value # Str(""))
      start == Get(over, "start")
      end == Get(over, "end")
      frame == Text(Get(over, "frame"))
      Term(e) == IF Text(e.value) \notin Directions THEN Fail
                 ELSE TsColumnRef(columns, e.key) \o Sql(e.value.str)
  IN (IF ~IsList(part) \/ part.items = <<>> THEN Nothing
      ELSE Sql("partition by") \o
           Join(Each(part.items, LAMBDA c : TsColumnRef(columns, Text(c))), ",")) \o
     (IF ~IsObject(order) \/ order.entries = <<>> THEN Nothing
      ELSE Sql("order by") \o Join(Each(terms, Term), ",")) \o
     (IF start = Absent /\ end = Absent THEN Nothing
      ELSE IF frame = "" THEN Fail
      ELSE IF /\ frame = "range" /\ dialect = "transactsql"
              /\ (start.is = "number" \/ end.is = "number") THEN Fail
      ELSE Sql(frame) \o TsFrameBound(start, "unbounded preceding", "preceding")
           \o Sql("and") \o TsFrameBound(end, "unbounded following", "following"))

TsWindowBy(node, params, dialect) ==
  LET v == Get(params, node.param)
      Window(e) ==
        IF ~IsObject(e.value) THEN Fail
        ELSE IF Text(Get(e.value, "fn")) \notin WindowFunctions THEN Fail
        ELSE IF ~IsObject(Get(e.value, "over")) THEN Fail
        ELSE Sql(",") \o TsWindowCall(node.columns, e.value) \o Sql("over (")
             \o TsOver(node.columns, Get(e.value, "over"), dialect) \o Sql(")") \o As(e.key)
  IN IF ~IsObject(v) THEN Nothing ELSE FlattenSeq(Each(v.entries, Window))

-----------------------------------------------------------------------------
(* The write() a node's operator has.  `branch` has what each block emits. *)

TsPresent(v) == ~Missing(v) /\ v # False

TsNode(node, params, dialect, branch) ==
  CASE node.op = "text" -> Sql(node.text)
    [] node.op = "value" -> TsValue(node.value)
    [] node.op = "param" -> TsParam(node, params)
    [] node.op = "each" -> TsEach(node, params)
    [] node.op = "when" ->
         branch[IF TsPresent(Get(params, node.param)) # node.negate
                THEN node.onTrue ELSE node.onFalse]
    [] node.op = "set" -> TsSet(node, params)
    [] node.op = "insert" -> TsInsert(node, params)
    [] node.op = "insertCols" -> TsInsertCols(node, params)
    [] node.op = "insertValues" -> TsInsertValues(node, params)
    [] node.op = "filter" -> TsFilter(node, params)
    [] node.op = "havingBy" -> TsHaving(node, params)
    [] node.op = "orderBy" -> TsOrderBy(node, params)
    [] node.op = "pagination" -> TsPagination(params)
    [] node.op = "projection" -> TsProjection(node, params, dialect)
    [] node.op = "groupBy" -> TsGroupBy(node, params, dialect)
    [] node.op = "joinBy" -> TsJoinBy(node, params)
    [] node.op = "upsert" -> TsUpsert(node, params, dialect)
    [] node.op = "windowBy" -> TsWindowBy(node, params, dialect)

TsNodes(nodes, params, dialect, branch) ==
  FlattenSeq(Each(nodes, LAMBDA n : TsNode(n, params, dialect, branch)))

(* What each block of a template emits.                                    *)
TsBlocks(blocks, params, dialect) ==
  LET branch[b \in DOMAIN blocks] == TsNodes(blocks[b], params, dialect, branch)
  IN branch

(* What the manifest keeps of a block: havingBy has no node type and       *)
(* becomes an empty text, the GROUP BY of a projection writes nothing.     *)
Serialize(nodes) ==
  Each(Those(nodes, LAMBDA n : n.op # "groupBy"),
       LAMBDA n : IF n.op = "havingBy" THEN TextNode("") ELSE n)
=============================================================================
