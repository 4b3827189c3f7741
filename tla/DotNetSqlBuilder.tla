-------------------------- MODULE DotNetSqlBuilder --------------------------
(***************************************************************************)
(* The SQL builder of the .NET runtime                                     *)
(* (stacks/dotnet/src/Vexnor.Core/Execution/SqlBuilder.cs): one operator   *)
(* per Build, Write or Resolve method.  An exception is Fail.  Objects     *)
(* reach it as dictionaries, walked in the document's order.               *)
(***************************************************************************)
EXTENDS Templates

NetBind(v) == Bind(IF v = Absent THEN Null ELSE v)

NetParam(node, params) == NetBind(Get(params, node.param))

NetEach(node, params) ==
  LET v == Get(params, node.param)
  IN IF IsList(v) THEN Binds(v.items) ELSE NetBind(v)

NetSet(node, params) ==
  LET v == Get(params, node.param)
      known == Those(v.entries, LAMBDA e : Known(node.columns, e.key))
  IN IF ~IsObject(v) \/ v.entries = <<>> THEN Fail
     ELSE Sql("set") \o Join(Each(known, LAMBDA e : Col(e.key) \o Sql("=") \o Bind(e.value)), ",")

NetCoerceRowList(v) == IF IsList(v) THEN Objects(v.items) ELSE <<>>
NetCanonicalKeys(columns, row) == Those(columns, LAMBDA c : Has(row, c))

NetRows(node, params, Emit(_, _)) ==
  LET v == Get(params, node.param)
      rows == NetCoerceRowList(v)
  IN IF v = Absent THEN Nothing
     ELSE IF rows = <<>> THEN Fail
     ELSE Emit(NetCanonicalKeys(node.columns, rows[1]), rows)

NetTuples(keys, rows) ==
  Join(Each(rows, LAMBDA row :
         Sql("(") \o Join(Each(keys, LAMBDA k : NetBind(Get(row, k))), ",") \o Sql(")")), ",")

NetInsert(node, params) ==
  NetRows(node, params, LAMBDA keys, rows :
    Sql("(") \o Columns(keys) \o Sql(") values") \o NetTuples(keys, rows))
NetInsertCols(node, params) ==
  NetRows(node, params, LAMBDA keys, rows : Columns(keys))
NetInsertValues(node, params) ==
  NetRows(node, params, LAMBDA keys, rows : NetTuples(keys, rows))

-----------------------------------------------------------------------------

NetArg(args, i) == IF i \in DOMAIN args THEN Bind(args[i]) ELSE Fail

NetOp(col, op, args) ==
  LET list == IF 1 \in DOMAIN args /\ IsList(args[1]) THEN args[1].items ELSE args
  IN CASE op \in {"not", "!="} -> Col(col) \o Sql("<>") \o NetArg(args, 1)
       [] op = "between" ->
            Col(col) \o Sql("between") \o NetArg(args, 1) \o Sql("to") \o NetArg(args, 2)
       [] op = "in" -> IF list = <<>> THEN Sql("1=0")
                       ELSE Col(col) \o Sql("in") \o Binds(list) \o Sql("end")
       [] op = "notIn" -> IF list = <<>> THEN Nothing
                          ELSE Col(col) \o Sql("not in") \o Binds(list) \o Sql("end")
       [] op = "isNull" -> Col(col) \o Sql("is null")
       [] op = "isNotNull" -> Col(col) \o Sql("is not null")
       [] OTHER -> Col(col) \o Sql(op) \o NetArg(args, 1)

NetEntry(col, value) ==
  LET tuple == IsList(value) /\ value.items # <<>> /\ value.items[1].is = "string"
      op == value.items[1].str
  IN IF ~tuple THEN Col(col) \o Sql("=") \o Bind(value)
     ELSE IF op \notin FilterOps THEN Fail ELSE NetOp(col, op, Tail(value.items))

(* WriteConditions walks the entries of a condition: a key that is no      *)
(* column is an error, an "or" that is no list is such a key.              *)
NetParts(columns, conditions, group) ==
  LET Present(c) == Those(c.entries, LAMBDA e : e.value # Null)
      Parts(c) ==
        IF ~IsList(Get(c, "or"))
        THEN Each(Present(c), LAMBDA e :
               IF Known(columns, e.key) THEN NetEntry(e.key, e.value) ELSE Fail)
        ELSE IF Objects(Get(c, "or").items) = <<>> THEN <<>>
        ELSE << Sql("(") \o group[Get(c, "or").items] \o Sql(")") >>
  IN FlattenSeq(Each(Objects(conditions), Parts))

NetConditions(columns, conditions) ==
  LET group[g \in Nested(conditions)] == Join(NetParts(columns, g, group), "or")
  IN Join(NetParts(columns, conditions, group), "and")

NetFilter(node, params) ==
  LET v == Get(params, node.param)
      kept == Those(v.entries, LAMBDA e : e.value # Null)
      conditions == IF IsList(v) THEN Objects(v.items)
                    ELSE Each(kept, LAMBDA e : Obj1(e.key, e.value))
  IN IF ~IsList(v) /\ ~IsObject(v) THEN Nothing
     ELSE IF conditions = <<>> THEN Nothing
     ELSE node.prefix \o NetConditions(node.columns, conditions)

NetOrderBy(node, params) ==
  LET v == Get(params, node.param)
      Direction(e) == IF e.value = Null THEN "ASC" ELSE Text(e.value)
      Term(e) == IF ~Known(node.columns, e.key) \/ Direction(e) \notin Directions THEN Fail
                 ELSE Col(e.key) \o Sql(Direction(e))
  IN IF ~IsObject(v) \/ v.entries = <<>> THEN Nothing
     ELSE Sql("order by") \o Join(Each(v.entries, Term), ",")

NetPagination(params) ==
  LET limit == Get(params, "limit")
      offset == Get(params, "offset")
  IN (IF Missing(limit) THEN Nothing ELSE Sql("limit") \o Bind(limit)) \o
     (IF Missing(offset) THEN Nothing ELSE Sql("offset") \o Bind(offset))

(* An entry that is neither a column nor a list that starts with a         *)
(* function's name emits nothing.                                          *)
NetIsCall(e) == IsList(e) /\ Len(e.items) > 2 /\ e.items[1].is = "string"
NetProjectionEntry(columns, e) ==
  LET fn == e.items[1].str
      col == e.items[2]
  IN CASE e.is = "string" -> IF Known(columns, e.str) THEN Col(e.str) ELSE Fail
       [] NetIsCall(e) ->
            IF fn \notin Aggregates THEN Fail
            ELSE Sql(fn) \o
                 (IF col = Str("*") THEN Sql("*")
                  ELSE IF col.is # "string" THEN Nothing
                  ELSE IF Known(columns, col.str) THEN Col(col.str) ELSE Fail)
                 \o As(Text(e.items[3]))
       [] OTHER -> Nothing

NetProjection(node, params) ==
  LET v == Get(params, node.param)
      plain == Those(v.items, LAMBDA e : e.is = "string")
      aggregated == \E i \in DOMAIN v.items : NetIsCall(v.items[i])
  IN IF ~IsList(v) \/ v.items = <<>> THEN Columns(node.columns)
     ELSE Join(Each(v.items, LAMBDA e : NetProjectionEntry(node.columns, e)), ",") \o
          (IF aggregated /\ plain # <<>>
           THEN Sql("group by") \o Join(Each(plain, LAMBDA e : Col(e.str)), ",") ELSE Nothing)

NetJoinColRef(joinMap, ref) ==
  IF /\ ref.is = "ref" /\ ref.table \in DOMAIN joinMap
     /\ Known(joinMap[ref.table], ref.col)
  THEN JoinCol(ref.table, ref.col) ELSE Fail

NetJoinCondition(joinMap, condition) ==
  LET c == condition.items
  IN IF ~IsList(condition) THEN Fail
     ELSE IF Len(c) < 3 \/ Text(c[2]) \notin JoinOps THEN Fail
     ELSE NetJoinColRef(joinMap, c[1]) \o Sql(c[2].str) \o NetJoinColRef(joinMap, c[3])

(* A "type" that is empty or no string leaves the alias its default.       *)
NetJoin(node, alias, entry) ==
  LET given == Text(Get(entry, "type"))
      kind == IF given # "" THEN given
              ELSE IF alias \in DOMAIN node.joinTypes THEN node.joinTypes[alias] ELSE "inner"
      on == Get(entry, "on")
  IN IF alias \notin DOMAIN node.joinMap \/ kind \notin JoinKinds THEN Fail
     ELSE IF kind = "cross" THEN Sql(kind) \o Table(alias)
     ELSE IF ~IsList(on) \/ on.items = <<>> THEN Fail
     ELSE Sql(kind) \o Table(alias) \o Sql("on") \o
          Join(Each(on.items, LAMBDA c : NetJoinCondition(node.joinMap, c)), "and")

NetJoinBy(node, params) ==
  LET v == Get(params, node.param)
      joined == Those(v.entries, LAMBDA e : IsObject(e.value))
  IN IF ~IsObject(v) THEN Nothing
     ELSE FlattenSeq(Each(joined, LAMBDA e : NetJoin(node, e.key, e.value)))

NetAssignFrom(keys, source) ==
  Join(Each(keys, LAMBDA k : Col(k) \o Sql(source) \o Col(k)), ",")

NetUpsertPgSqlite(node, keys, rows) ==
  LET updated == Those(keys, LAMBDA k : k \notin ToSet(node.conflict))
  IN Sql("(") \o Columns(keys) \o Sql(") values") \o NetTuples(keys, rows)
     \o Sql("on conflict") \o Columns(node.conflict)
     \o (Sql("do update set") \o NetAssignFrom(updated, "= excluded"))

NetUpsertMssql(node, keys, rows) ==
  LET updated == Those(keys, LAMBDA k : k \notin ToSet(node.conflict))
  IN Sql("using values") \o NetTuples(keys, rows)
     \o Sql("as src") \o Columns(keys) \o Sql("on")
     \o Join(Each(node.conflict, LAMBDA k : Col(k) \o Sql("= src") \o Col(k)), "and")
     \o (Sql("when matched then update set") \o NetAssignFrom(updated, "= src"))
     \o Sql("when not matched then insert") \o Columns(keys)
     \o Sql("values src") \o Columns(keys)

NetUpsert(node, params, dialect) ==
  NetRows(node, params, LAMBDA keys, rows :
    IF dialect = "transactsql" THEN NetUpsertMssql(node, keys, rows)
    ELSE NetUpsertPgSqlite(node, keys, rows))

-----------------------------------------------------------------------------

NetWindowColumn(columns, col) == IF Known(columns, col) THEN Col(col) ELSE Quoted(col)

(* An offset is emitted as it is given.                                    *)
NetWindowCall(columns, entry) ==
  LET fn == Text(Get(entry, "fn"))
      col == Text(Get(entry, "col"))
      args == Get(entry, "args")
  IN CASE fn \in Ranking -> Sql(fn)
       [] fn = "ntile" -> IF args.is = "number" /\ args.num > 0
                          THEN Sql(fn) \o Literal(args) ELSE Fail
       [] fn \in WindowAggregates ->
            IF col = "" THEN Fail
            ELSE Sql(fn) \o (IF col = "*" THEN Sql("*") ELSE NetWindowColumn(columns, col))
       [] OTHER -> IF col = "" THEN Fail
                   ELSE Sql(fn) \o NetWindowColumn(columns, col)
                        \o Literal(IF Missing(args) THEN Num(1) ELSE args)

Mut_ZeroPreceding(bound, side) == Literal(bound) \o Sql(side)
NetNumericBound(bound, side) ==
  IF bound.num = 0 THEN Sql("current row") ELSE Literal(bound) \o Sql(side)
NetFrameBound(bound, unbounded, side) ==
  CASE Missing(bound) -> Sql(unbounded)
    [] bound.is = "string" -> Sql(bound.str)
    [] bound.is = "number" -> NetNumericBound(bound, side)
    [] OTHER -> Sql("current row")

NetOver(columns, over, dialect) ==
  LET part == Get(over, "partitionBy")
      order == Get(over, "orderBy")
      start == Get(over, "start")
      end == Get(over, "end")
      frame == Text(Get(over, "frame"))
      Direction(e) == IF e.value = Null THEN "ASC" ELSE Text(e.value)
      Term(e) == IF Direction(e) \notin Directions THEN Fail
                 ELSE NetWindowColumn(columns, e.key) \o Sql(Direction(e))
  IN (IF ~IsList(part) \/ part.items = <<>> THEN Nothing
      ELSE Sql("partition by") \o
           Join(Each(part.items, LAMBDA c : NetWindowColumn(columns, Text(c))), ",")) \o
     (IF ~IsObject(order) \/ order.entries = <<>> THEN Nothing
      ELSE Sql("order by") \o Join(Each(order.entries, Term), ",")) \o
     (IF Missing(start) /\ Missing(end) THEN Nothing
      ELSE IF frame \notin {"rows", "range"} THEN Fail
      ELSE IF /\ frame = "range" /\ dialect = "transactsql"
              /\ (start.is = "number" \/ end.is = "number") THEN Fail
      ELSE Sql(frame) \o NetFrameBound(start, "unbounded preceding", "preceding")
           \o Sql("and") \o NetFrameBound(end, "unbounded following", "following"))

NetWindowBy(node, params, dialect) ==
  LET v == Get(params, node.param)
      defined == Those(v.entries, LAMBDA e : IsObject(e.value))
      Window(e) ==
        LET over == Get(e.value, "over")
        IN IF Text(Get(e.value, "fn")) \notin WindowFunctions THEN Fail
           ELSE Sql(",") \o NetWindowCall(node.columns, e.value) \o Sql("over (")
                \o (IF IsObject(over) THEN NetOver(node.columns, over, dialect) ELSE Nothing)
                \o Sql(")") \o As(e.key)
  IN IF ~IsObject(v) THEN Nothing ELSE FlattenSeq(Each(defined, Window))

-----------------------------------------------------------------------------
(* ValidateStructuredParams of QueryRegistry.ExecuteAsync, before the build: *)
(* of an object it checks the keys alone, of a condition with an or-list   *)
(* nothing beside it.                                                      *)

NetValidEntry(columns, e) ==
  /\ Known(columns, e.key)
  /\ IsList(e.value) =>
       e.value.items = <<>> \/ e.value.items[1].is # "string" \/ Text(e.value.items[1]) \in FilterOps

NetValidConditions(columns, conditions) ==
  \A g \in {conditions} \cup Nested(conditions) : \A c \in ToSet(Objects(g)) :
    ~IsList(Get(c, "or")) => \A e \in ToSet(c.entries) : NetValidEntry(columns, e)

NetValidFilter(v, columns) ==
  CASE IsList(v) -> NetValidConditions(columns, v.items)
    [] IsObject(v) -> \A e \in ToSet(v.entries) : Known(columns, e.key)
    [] OTHER -> TRUE

NetValidProjection(v, columns) ==
  IsList(v) => \A e \in ToSet(v.items) :
    /\ e.is = "string" => Known(columns, e.str)
    /\ (IsList(e) /\ e.items # <<>>) =>
         (e.items[1].is = "string" => Text(e.items[1]) \in Aggregates)

-----------------------------------------------------------------------------

NetPresent(v) == ~Missing(v) /\ v # False

(* BuildNodes and, for a when node, the branch BuildWhen takes: `branch`   *)
(* has what each block emits.                                              *)
NetNode(node, params, dialect, branch) ==
  CASE node.op = "text" -> Sql(node.text)
    [] node.op = "value" -> Bind(node.value)
    [] node.op = "param" -> NetParam(node, params)
    [] node.op = "each" -> NetEach(node, params)
    [] node.op = "when" ->
         branch[IF NetPresent(Get(params, node.param)) # node.negate
                THEN node.onTrue ELSE node.onFalse]
    [] node.op = "set" -> NetSet(node, params)
    [] node.op = "insert" -> NetInsert(node, params)
    [] node.op = "insertCols" -> NetInsertCols(node, params)
    [] node.op = "insertValues" -> NetInsertValues(node, params)
    [] node.op = "filter" -> NetFilter(node, params)
    [] node.op = "orderBy" -> NetOrderBy(node, params)
    [] node.op = "projection" -> NetProjection(node, params)
    [] node.op = "pagination" -> NetPagination(params)
    [] node.op = "joinBy" -> NetJoinBy(node, params)
    [] node.op = "upsert" -> NetUpsert(node, params, dialect)
    [] node.op = "windowBy" -> NetWindowBy(node, params, dialect)

NetNodes(nodes, params, dialect, branch) ==
  FlattenSeq(Each(nodes, LAMBDA n : NetNode(n, params, dialect, branch)))

NetBlocks(blocks, params, dialect) ==
  LET branch[b \in DOMAIN blocks] == NetNodes(blocks[b], params, dialect, branch)
  IN branch
=============================================================================
