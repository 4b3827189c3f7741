---------------------------- MODULE GoSqlBuilder ----------------------------
(***************************************************************************)
(* The SQL builder of the Go runtime (stacks/golang/vexnor/sqlbuilder.go): *)
(* one operator per build or write function.  `ordered` says how the       *)
(* caller's objects reached the builder: as OrderedDict, which keeps the   *)
(* document's order, or as a plain Go map, which the builder walks in the  *)
(* order of the node's columns.  A panic (an operator without its          *)
(* argument) and a returned error are both Fail.                           *)
(***************************************************************************)
EXTENDS Templates

GoBind(v) == Bind(IF v = Absent THEN Null ELSE v)

(* The keys of an object parameter in the order the builder walks them.    *)
GoKeys(v, columns, ordered) ==
  IF ordered THEN Keys(v) ELSE Those(columns, LAMBDA c : Has(v, c))

GoParam(node, params) == GoBind(Get(params, node.param))

GoEach(node, params) ==
  LET v == Get(params, node.param)
  IN IF IsList(v) THEN Binds(v.items) ELSE GoBind(v)

GoSet(node, params, ordered) ==
  LET v == Get(params, node.param)
      keys == Those(GoKeys(v, node.columns, ordered), LAMBDA k : Known(node.columns, k))
  IN IF ~IsObject(v) \/ v.entries = <<>> THEN Fail
     ELSE Sql("set") \o Join(Each(keys, LAMBDA k : Col(k) \o Sql("=") \o Bind(Get(v, k))), ",")

(* The object rows of a rows param, empty when it is no list.              *)
GoCoerceRowList(v) == IF IsList(v) THEN Objects(v.items) ELSE <<>>
GoCanonicalKeys(columns, row) == Those(columns, LAMBDA c : Has(row, c))

(* No param, no output; no rows, an error.                                 *)
GoRows(node, params, Emit(_, _)) ==
  LET v == Get(params, node.param)
      rows == GoCoerceRowList(v)
  IN IF v = Absent THEN Nothing
     ELSE IF rows = <<>> THEN Fail
     ELSE Emit(GoCanonicalKeys(node.columns, rows[1]), rows)

GoTuples(keys, rows) ==
  Join(Each(rows, LAMBDA row :
         Sql("(") \o Join(Each(keys, LAMBDA k : GoBind(Get(row, k))), ",") \o Sql(")")), ",")

GoInsert(node, params) ==
  GoRows(node, params, LAMBDA keys, rows :
    Sql("(") \o Columns(keys) \o Sql(") values") \o GoTuples(keys, rows))
GoInsertCols(node, params) ==
  GoRows(node, params, LAMBDA keys, rows : Columns(keys))
GoInsertValues(node, params) ==
  GoRows(node, params, LAMBDA keys, rows : GoTuples(keys, rows))

-----------------------------------------------------------------------------

GoArg(args, i) == IF i \in DOMAIN args THEN Bind(args[i]) ELSE Fail

(* writeOp: a list given as the one argument of in and notIn is unpacked.  *)
GoOp(col, op, args) ==
  LET list == IF 1 \in DOMAIN args /\ IsList(args[1]) THEN args[1].items ELSE args
  IN CASE op \in {"not", "!="} -> Col(col) \o Sql("<>") \o GoArg(args, 1)
       [] op = "between" ->
            Col(col) \o Sql("between") \o GoArg(args, 1) \o Sql("to") \o GoArg(args, 2)
       [] op = "in" -> IF list = <<>> THEN Sql("1=0")
                       ELSE Col(col) \o Sql("in") \o Binds(list) \o Sql("end")
       [] op = "notIn" -> IF list = <<>> THEN Nothing
                          ELSE Col(col) \o Sql("not in") \o Binds(list) \o Sql("end")
       [] op = "isNull" -> Col(col) \o Sql("is null")
       [] op = "isNotNull" -> Col(col) \o Sql("is not null")
       [] OTHER -> Col(col) \o Sql(op) \o GoArg(args, 1)

(* A list that starts with a string is an operator, any other value a      *)
(* comparison for equality.                                                *)
GoEntry(col, value) ==
  LET tuple == IsList(value) /\ value.items # <<>> /\ value.items[1].is = "string"
      op == value.items[1].str
  IN IF ~tuple THEN Col(col) \o Sql("=") \o Bind(value)
     ELSE IF op \notin FilterOps THEN Fail ELSE GoOp(col, op, Tail(value.items))

(* writeConditions: the columns of the node are looked up in each          *)
(* condition, so a key that is no column is passed over.                   *)
GoParts(columns, conditions, group) ==
  LET Present(c) == Those(columns, LAMBDA k : ~Missing(Get(c, k)))
      Parts(c) ==
        IF ~Has(c, "or") THEN Each(Present(c), LAMBDA k : GoEntry(k, Get(c, k)))
        ELSE IF ~IsList(Get(c, "or")) THEN <<>>
        ELSE IF Objects(Get(c, "or").items) = <<>> THEN <<>>
        ELSE << Sql("(") \o group[Get(c, "or").items] \o Sql(")") >>
  IN FlattenSeq(Each(Objects(conditions), Parts))

GoConditions(columns, conditions) ==
  LET group[g \in Nested(conditions)] == Join(GoParts(columns, g, group), "or")
  IN Join(GoParts(columns, conditions, group), "and")

GoFilter(node, params, ordered) ==
  LET v == Get(params, node.param)
      kept == Those(GoKeys(v, node.columns, ordered), LAMBDA k : Get(v, k) # Null)
      conditions == IF IsList(v) THEN Objects(v.items)
                    ELSE Each(kept, LAMBDA k : Obj1(k, Get(v, k)))
  IN IF ~IsList(v) /\ ~IsObject(v) THEN Nothing
     ELSE IF conditions = <<>> THEN Nothing
     ELSE node.prefix \o GoConditions(node.columns, conditions)

GoOrderBy(node, params, ordered) ==
  LET v == Get(params, node.param)
      Direction(k) == IF Text(Get(v, k)) = "" THEN "ASC" ELSE Get(v, k).str
      Term(k) == IF ~Known(node.columns, k) \/ Direction(k) \notin Directions THEN Fail
                 ELSE Col(k) \o Sql(Direction(k))
  IN IF ~IsObject(v) \/ v.entries = <<>> THEN Nothing
     ELSE Sql("order by") \o Join(Each(GoKeys(v, node.columns, ordered), Term), ",")

GoPagination(params) ==
  LET limit == Get(params, "limit")
      offset == Get(params, "offset")
  IN (IF Missing(limit) THEN Nothing ELSE Sql("limit") \o Bind(limit)) \o
     (IF Missing(offset) THEN Nothing ELSE Sql("offset") \o Bind(offset))

(* One entry of a projection list: a column, or [fn, column, alias].       *)
GoProjectionEntry(columns, e) ==
  LET fn == Text(e.items[1])
      col == e.items[2]
  IN CASE e.is = "string" -> IF Known(columns, e.str) THEN Col(e.str) ELSE Fail
       [] IsList(e) ->
            IF Len(e.items) < 3 THEN Nothing
            ELSE IF fn \notin Aggregates THEN Fail
            ELSE Sql(fn) \o
                 (IF col = Str("*") THEN Sql("*")
                  ELSE IF col.is # "string" THEN Nothing
                  ELSE IF Known(columns, col.str) THEN Col(col.str) ELSE Fail)
                 \o As(Text(e.items[3]))
       [] OTHER -> Nothing

(* The GROUP BY follows the select list at once.                           *)
GoProjection(node, params) ==
  LET v == Get(params, node.param)
      plain == Those(v.items, LAMBDA e : e.is = "string")
      aggregated == \E i \in DOMAIN v.items : IsList(v.items[i]) /\ Len(v.items[i].items) > 2
  IN IF ~IsList(v) \/ v.items = <<>> THEN Columns(node.columns)
     ELSE Join(Each(v.items, LAMBDA e : GoProjectionEntry(node.columns, e)), ",") \o
          (IF aggregated /\ plain # <<>>
           THEN Sql("group by") \o Join(Each(plain, LAMBDA e : Col(e.str)), ",") ELSE Nothing)

GoJoinColRef(joinMap, ref) ==
  IF /\ ref.is = "ref" /\ ref.table \in DOMAIN joinMap
     /\ Known(joinMap[ref.table], ref.col)
  THEN JoinCol(ref.table, ref.col) ELSE Fail

GoJoinCondition(joinMap, condition) ==
  LET c == condition.items
  IN IF ~IsList(condition) THEN Fail
     ELSE IF Len(c) < 3 \/ Text(c[2]) \notin JoinOps THEN Fail
     ELSE GoJoinColRef(joinMap, c[1]) \o Sql(c[2].str) \o GoJoinColRef(joinMap, c[3])

(* A "type" that is present, but empty or no string, means inner.          *)
GoJoin(node, alias, entry) ==
  LET kind == IF Has(entry, "type")
              THEN IF Text(Get(entry, "type")) = "" THEN "inner" ELSE Get(entry, "type").str
              ELSE IF alias \in DOMAIN node.joinTypes THEN node.joinTypes[alias] ELSE "inner"
      on == Get(entry, "on")
  IN IF alias \notin DOMAIN node.joinMap \/ kind \notin JoinKinds THEN Fail
     ELSE IF kind = "cross" THEN Sql(kind) \o Table(alias)
     ELSE IF ~IsList(on) \/ on.items = <<>> THEN Fail
     ELSE Sql(kind) \o Table(alias) \o Sql("on") \o
          Join(Each(on.items, LAMBDA c : GoJoinCondition(node.joinMap, c)), "and")

(* A plain map's aliases are sorted; AliasOrder is that order.             *)
GoJoinBy(node, params, ordered, AliasOrder) ==
  LET v == Get(params, node.param)
      aliases == GoKeys(v, AliasOrder, ordered)
      joined == Those(aliases, LAMBDA a : IsObject(Get(v, a)))
  IN IF ~IsObject(v) THEN Nothing
     ELSE FlattenSeq(Each(joined, LAMBDA a : GoJoin(node, a, Get(v, a))))

GoAssignFrom(keys, source) ==
  Join(Each(keys, LAMBDA k : Col(k) \o Sql(source) \o Col(k)), ",")

GoUpsertPgSqlite(node, keys, rows) ==
  LET updated == Those(keys, LAMBDA k : k \notin ToSet(node.conflict))
  IN Sql("(") \o Columns(keys) \o Sql(") values") \o GoTuples(keys, rows)
     \o Sql("on conflict") \o Columns(node.conflict)
     \o (Sql("do update set") \o GoAssignFrom(updated, "= excluded"))

GoUpsertMssql(node, keys, rows) ==
  LET updated == Those(keys, LAMBDA k : k \notin ToSet(node.conflict))
  IN Sql("using values") \o GoTuples(keys, rows)
     \o Sql("as src") \o Columns(keys) \o Sql("on")
     \o Join(Each(node.conflict, LAMBDA k : Col(k) \o Sql("= src") \o Col(k)), "and")
     \o (Sql("when matched then update set") \o GoAssignFrom(updated, "= src"))
     \o Sql("when not matched then insert") \o Columns(keys)
     \o Sql("values src") \o Columns(keys)

GoUpsert(node, params, dialect) ==
  GoRows(node, params, LAMBDA keys, rows :
    IF dialect = "transactsql" THEN GoUpsertMssql(node, keys, rows)
    ELSE GoUpsertPgSqlite(node, keys, rows))

-----------------------------------------------------------------------------
(* windowBy.  A plain map's aliases that are no columns come in the map's  *)
(* order, which Go leaves open: one such alias is enough here.             *)

GoWindowColumn(columns, col) == IF Known(columns, col) THEN Col(col) ELSE Quoted(col)

GoWindowCall(columns, entry) ==
  LET fn == Text(Get(entry, "fn"))
      col == Text(Get(entry, "col"))
      args == Get(entry, "args")
      counted == args.is = "number" /\ args.num > 0
  IN CASE fn \in Ranking -> Sql(fn)
       [] fn = "ntile" -> IF counted THEN Sql(fn) \o Literal(args) ELSE Fail
       [] fn \in WindowAggregates ->
            IF col = "" THEN Fail
            ELSE Sql(fn) \o (IF col = "*" THEN Sql("*") ELSE GoWindowColumn(columns, col))
       [] OTHER -> IF col = "" THEN Fail
                   ELSE Sql(fn) \o GoWindowColumn(columns, col)
                        \o Literal(IF counted THEN args ELSE Num(1))

GoNumericBound(bound, side) ==
  IF bound.num = 0 THEN Sql("current row") ELSE Literal(bound) \o Sql(side)
GoFrameBound(bound, unbounded, side) ==
  CASE Missing(bound) -> Sql(unbounded)
    [] bound.is = "string" -> Sql(bound.str)
    [] bound.is = "number" -> GoNumericBound(bound, side)
    [] OTHER -> Sql("current row")

GoOver(columns, over, dialect, ordered) ==
  LET part == Get(over, "partitionBy")
      order == Get(over, "orderBy")
      keys == IF IsObject(order) THEN GoKeys(order, columns, ordered) ELSE <<>>
      start == Get(over, "start")
      end == Get(over, "end")
      frame == Text(Get(over, "frame"))
      Direction(k) == IF Text(Get(order, k)) = "" THEN "ASC" ELSE Get(order, k).str
      Term(k) == IF Direction(k) \notin Directions THEN Fail
                 ELSE GoWindowColumn(columns, k) \o Sql(Direction(k))
  IN (IF ~IsList(part) \/ part.items = <<>> THEN Nothing
      ELSE Sql("partition by") \o
           Join(Each(part.items, LAMBDA c : GoWindowColumn(columns, Text(c))), ",")) \o
     (IF keys = <<>> THEN Nothing ELSE Sql("order by") \o Join(Each(keys, Term), ",")) \o
     (IF Missing(start) /\ Missing(end) THEN Nothing
      ELSE IF frame \notin {"rows", "range"} THEN Fail
      ELSE IF /\ frame = "range" /\ dialect = "transactsql"
              /\ (start.is = "number" \/ end.is = "number") THEN Fail
      ELSE Sql(frame) \o GoFrameBound(start, "unbounded preceding", "preceding")
           \o Sql("and") \o GoFrameBound(end, "unbounded following", "following"))

GoWindowBy(node, params, dialect, ordered) ==
  LET v == Get(params, node.param)
      defined == Those(v.entries, LAMBDA e : IsObject(e.value))
      Window(e) ==
        LET over == Get(e.value, "over")
        IN IF Text(Get(e.value, "fn")) \notin WindowFunctions THEN Fail
           ELSE Sql(",") \o GoWindowCall(node.columns, e.value) \o Sql("over (")
                \o (IF IsObject(over) THEN GoOver(node.columns, over, dialect, ordered)
                   ELSE Nothing)
                \o Sql(")") \o As(e.key)
  IN IF ~IsObject(v) THEN Nothing ELSE FlattenSeq(Each(defined, Window))

-----------------------------------------------------------------------------
(* The validation of QueryRegistry.Execute (registry.go), before the build: *)
(* of plain maps alone, an OrderedDict is none and passes.                 *)

GoValidEntry(columns, e) ==
  /\ Known(columns, e.key)
  /\ IsList(e.value) =>
       e.value.items = <<>> \/ e.value.items[1].is # "string" \/ Text(e.value.items[1]) \in FilterOps

(* Mutant: the conditions of an or-group are not looked at.                *)
Mut_GroupsUnchecked(columns, conditions) ==
  \A c \in ToSet(conditions) : \A e \in ToSet(c.entries) : e.key = "or" \/ GoValidEntry(columns, e)
GoValidConditions(columns, conditions) ==
  \A g \in {conditions} \cup Nested(conditions) : \A c \in ToSet(Objects(g)) :
    \A e \in ToSet(c.entries) : e.key = "or" \/ GoValidEntry(columns, e)

GoValidFilter(v, columns, ordered) ==
  CASE ordered -> TRUE
    [] IsList(v) -> GoValidConditions(columns, v.items)
    [] IsObject(v) -> GoValidConditions(columns, << v >>)
    [] OTHER -> TRUE

(* Projections are lists of names and [fn, column, alias] calls.           *)
GoValidProjection(v, columns) ==
  IsList(v) => \A e \in ToSet(v.items) :
    /\ e.is = "string" => Known(columns, e.str)
    /\ (IsList(e) /\ Len(e.items) > 2) =>
         /\ e.items[1].is = "string" => Text(e.items[1]) \in Aggregates
         /\ e.items[2].is = "string" => e.items[2].str = "*" \/ Known(columns, e.items[2].str)

-----------------------------------------------------------------------------

GoPresent(v) == ~Missing(v) /\ v # False

(* buildNodes and, for a when node, the branch buildWhen takes: `branch`   *)
(* has what each block emits.                                              *)
GoNode(node, params, dialect, ordered, AliasOrder, branch) ==
  CASE node.op = "text" -> Sql(node.text)
    [] node.op = "value" -> Bind(node.value)
    [] node.op = "param" -> GoParam(node, params)
    [] node.op = "each" -> GoEach(node, params)
    [] node.op = "when" ->
         branch[IF GoPresent(Get(params, node.param)) # node.negate
                THEN node.onTrue ELSE node.onFalse]
    [] node.op = "set" -> GoSet(node, params, ordered)
    [] node.op = "insert" -> GoInsert(node, params)
    [] node.op = "insertCols" -> GoInsertCols(node, params)
    [] node.op = "insertValues" -> GoInsertValues(node, params)
    [] node.op = "filter" -> GoFilter(node, params, ordered)
    [] node.op = "orderBy" -> GoOrderBy(node, params, ordered)
    [] node.op = "projection" -> GoProjection(node, params)
    [] node.op = "pagination" -> GoPagination(params)
    [] node.op = "joinBy" -> GoJoinBy(node, params, ordered, AliasOrder)
    [] node.op = "upsert" -> GoUpsert(node, params, dialect)
    [] node.op = "windowBy" -> GoWindowBy(node, params, dialect, ordered)

GoNodes(nodes, params, dialect, ordered, AliasOrder, branch) ==
  FlattenSeq(Each(nodes, LAMBDA n : GoNode(n, params, dialect, ordered, AliasOrder, branch)))

GoBlocks(blocks, params, dialect, ordered, AliasOrder) ==
  LET branch[b \in DOMAIN blocks] ==
        GoNodes(blocks[b], params, dialect, ordered, AliasOrder, branch)
  IN branch
=============================================================================
