----------------------------- MODULE CrossRuntime -----------------------------
(***************************************************************************)
(* One portable query built by every runtime: the TypeScript operators     *)
(* write it from the query object, the Go and the .NET builder from the    *)
(* manifest node the serializer makes of each operator.  The builds go     *)
(* through the template node by node; each ends early at an error.         *)
(*                                                                         *)
(* Cases holds the blocks, params and dialect of the builds considered.    *)
(* AliasOrder is the sorted order of the join aliases a plain Go map has.  *)
(***************************************************************************)
EXTENDS TsOperators, GoSqlBuilder, DotNetSqlBuilder

CONSTANTS Cases, AliasOrder

(* The values a value contains: itself, and what is in these.              *)
Inside(v) ==
  CASE IsList(v) -> ToSet(v.items)
    [] IsObject(v) -> {e.value : e \in ToSet(v.entries)}
    [] OTHER -> {}
Contents(v) ==
  LET Deepest == 2 * MaxNesting + 6
      level[n \in 0..Deepest] ==
        IF n = 0 THEN {v} ELSE UNION {Inside(x) : x \in level[n - 1]}
  IN UNION {level[n] : n \in 0..Deepest}

(* Lists have items and objects entries, in some order, as deep as the     *)
(* values go.                                                              *)
WellFormed(values) ==
  \A v \in values :
    /\ IsList(v) => v.items \in Seq(values)
    /\ IsObject(v) => v.entries \in Seq([key : STRING, value : values])

(* The node types over a table, which name its columns.                    *)
OverTable == {"set", "insert", "insertCols", "insertValues", "filter", "orderBy", "projection",
              "groupBy", "havingBy", "upsert", "windowBy"}

(* Params are JSON documents whose or-groups nest at most MaxNesting deep; *)
(* a node names the param it reads; a table's columns have names of their  *)
(* own; a when node's branches are blocks of their own.                    *)
ASSUME CasesAssumption ==
  \A q \in Cases :
    /\ WellFormed(Contents(q.params)) /\ q.params \in Contents(q.params) /\ IsObject(q.params)
    /\ \A v \in Contents(q.params) : IsList(v) => OrLevels(v.items)[MaxNesting] = {}
    /\ q.blocks \in Seq(Seq(UNION {ToSet(q.blocks[b]) : b \in DOMAIN q.blocks}))
    /\ q.blocks # <<>>
    /\ \A b \in DOMAIN q.blocks : \A n \in ToSet(q.blocks[b]) :
         /\ n.op \notin {"text", "value", "pagination"} => "param" \in DOMAIN n
         /\ n.op \in OverTable => Distinct(n.columns)
         /\ n.op = "upsert" => Distinct(n.conflict)
         /\ n.op = "filter" => n.prefix \in Seq(ToSet(n.prefix))
         /\ n.op = "when" => {n.onTrue, n.onFalse} \subseteq (b + 1)..Len(q.blocks)

(* Sorting the aliases of joins repeats none and leaves none out.          *)
ASSUME AliasOrderAssumption ==
  /\ Distinct(AliasOrder)
  /\ \A q \in Cases : \A b \in DOMAIN q.blocks : \A n \in ToSet(q.blocks[b]) :
       (n.op = "joinBy" /\ IsObject(Get(q.params, n.param))) =>
          ToSet(Keys(Get(q.params, n.param))) \subseteq ToSet(AliasOrder)

VARIABLES
  query,      \* the query: blocks, params, dialect
  next,       \* the template node the builds are at
  ts,         \* what the TypeScript runtime has emitted
  go,         \* the Go builder, given the params in document order
  plain,      \* the Go builder, given the params as plain maps
  net         \* the .NET builder

buildVars == << query, next, ts, go, plain, net >>

BuildInit ==
  /\ query \in Cases
  /\ next = 1
  /\ ts = Nothing /\ go = Nothing /\ plain = Nothing /\ net = Nothing

Template == query.blocks[1]
Manifest == [b \in DOMAIN query.blocks |-> Serialize(query.blocks[b])]
Emit(out, pieces) == IF Failed(out \o pieces) THEN Fail ELSE out \o pieces

(* The next node in all four builds.  No build reads another.              *)
BuildNode ==
  LET node == << Template[next] >>
      params == query.params
      dialect == query.dialect
      Go(ordered) == GoNodes(Serialize(node), params, dialect, ordered, AliasOrder,
                             GoBlocks(Manifest, params, dialect, ordered, AliasOrder))
  IN /\ next <= Len(Template)
     /\ next' = next + 1
     /\ ts' = Emit(ts, TsNodes(node, params, dialect, TsBlocks(query.blocks, params, dialect)))
     /\ go' = Emit(go, Go(TRUE))
     /\ plain' = Emit(plain, Go(FALSE))
     /\ net' = Emit(net, NetNodes(Serialize(node), params, dialect,
                                  NetBlocks(Manifest, params, dialect)))
     /\ UNCHANGED query

BuildNext == BuildNode
BuildSpec == BuildInit /\ [][BuildNext]_buildVars

Built == next > Len(Template)
Outputs == {ts, go, plain, net}

-----------------------------------------------------------------------------
(* The inputs on which the three runtimes are meant to agree: those of the *)
(* shape both the types of the TypeScript operators and the manifest's     *)
(* consumers take.  Each clause leaves out inputs on which they differ.    *)

Plain(v) == IsPrimitive(v) /\ ~Missing(v)
KnownKeys(o, columns) == Distinct(Keys(o)) /\ ToSet(Keys(o)) \subseteq ToSet(columns)

PortableOp(args, op) ==
  /\ \A i \in DOMAIN args : IsPrimitive(args[i])
  /\ op \in FilterOps
  /\ CASE op = "between" -> DOMAIN args = 1 .. 2
       [] op \in {"in", "notIn"} -> TRUE
       [] op \in {"isNull", "isNotNull"} -> TRUE
       [] OTHER -> DOMAIN args = 1 .. 1

(* A list of objects, each an or-group or columns in the table's order.    *)
PortableList(columns, conditions) ==
  \A c \in ToSet(conditions) :
    /\ IsObject(c)
    /\ IF Has(c, "or")
       THEN IsList(Get(c, "or")) /\ \A d \in ToSet(Get(c, "or").items) : IsObject(d)
       ELSE /\ KnownKeys(c, columns)
            /\ Keys(c) = Those(columns, LAMBDA k : Has(c, k))
            /\ \A e \in ToSet(c.entries) :
                 \/ Plain(e.value)
                 \/ /\ IsList(e.value) /\ e.value.items # <<>>
                    /\ PortableOp(Tail(e.value.items), Text(e.value.items[1]))
PortableConditions(columns, conditions) ==
  \A g \in {conditions} \cup Nested(conditions) : PortableList(columns, g)

(* The types of filterBy give an object columns, no or-groups.             *)
PortableFilter(v, columns) ==
  CASE Missing(v) -> TRUE
    [] IsList(v) -> PortableConditions(columns, v.items)
    [] IsObject(v) ->
         /\ KnownKeys(v, columns) /\ ~Has(v, "or")
         /\ PortableConditions(columns, Each(v.entries, LAMBDA e : Obj1(e.key, e.value)))
    [] OTHER -> FALSE

PortableRows(v, columns) ==
  /\ IsList(v)
  /\ v.items # <<>> => KnownKeys(v.items[1], columns)
  /\ \A row \in ToSet(v.items) :
       /\ IsObject(row)
       /\ ToSet(Keys(row)) = ToSet(Keys(v.items[1]))
       /\ \A e \in ToSet(row.entries) : IsPrimitive(e.value)

(* Columns that are not the alias of an aggregate as well.                 *)
PortableOrder(v, columns, aggregates) ==
  /\ KnownKeys(v, columns)
  /\ \A e \in ToSet(v.entries) : e.value = Null \/ Text(e.value) # ""
  /\ \A a \in ToSet(aggregates) : a.key \notin ToSet(Keys(v))

(* Conditions on joined tables only, an "on" list even for a cross join.   *)
PortableJoins(v, node) ==
  /\ Distinct(Keys(v))
  /\ \A i \in DOMAIN v.entries :
       LET e == v.entries[i]
           on == Get(e.value, "on")
           seen == {"_"} \cup {v.entries[j].key : j \in 1..i}
       IN /\ e.key # "_" /\ IsObject(e.value)
          /\ Has(e.value, "type") => Text(Get(e.value, "type")) # ""
          /\ IsList(on) /\ on.items # <<>>
          /\ \A c \in ToSet(on.items) : IsList(c) /\ Len(c.items) > 2 /\
               \A s \in {c.items[1], c.items[3]} : s.is = "ref" /\ s.table \in seen

PortableBound(v) == v = Absent \/ v.is \in {"string", "number"}
PortableOver(over, columns) ==
  LET part == Get(over, "partitionBy")
      order == Get(over, "orderBy")
      start == Get(over, "start")
      end == Get(over, "end")
  IN /\ IsList(part) => \A c \in ToSet(part.items) : Text(c) \in ToSet(columns) \ {"*"}
     /\ IsObject(order) => /\ KnownKeys(order, columns) /\ "*" \notin ToSet(Keys(order))
                           /\ \A e \in ToSet(order.entries) : Text(e.value) # ""
     /\ PortableBound(start) /\ PortableBound(end)
     /\ Text(Get(over, "frame")) \in {"rows", "range"} \/ (start = Absent /\ end = Absent)

PortableWindow(w, columns) ==
  LET fn == Text(Get(w, "fn"))
      col == Get(w, "col")
      args == Get(w, "args")
  IN /\ fn \in Ranking => col = Absent
     /\ fn \in WindowAggregates => Text(col) \in ToSet(columns) \cup {"", "*"}
     /\ fn \in Offsets => Text(col) \in (ToSet(columns) \cup {""}) \ {"*"}
     /\ fn \in Offsets => Missing(args) \/ (args.is = "number" /\ args.num > 0)
     /\ IsObject(Get(w, "over")) /\ PortableOver(Get(w, "over"), columns)

Portable(node, params) ==
  LET v == IF "param" \in DOMAIN node THEN Get(params, node.param) ELSE Absent
  IN CASE node.op \in {"text", "param", "when"} -> TRUE    \* of a when, its branches
       [] node.op = "value" -> IsPrimitive(node.value)
       [] node.op = "pagination" ->
            \A p \in {"limit", "offset"} : Get(params, p) = Absent \/ IsPrimitive(Get(params, p))
       [] node.op = "each" -> IsList(v) /\ \A x \in ToSet(v.items) : IsPrimitive(x)
       [] node.op = "set" -> IsObject(v) => /\ KnownKeys(v, node.columns)
                                            /\ \A e \in ToSet(v.entries) : IsPrimitive(e.value)
       [] node.op \in {"insert", "insertCols", "insertValues"} -> PortableRows(v, node.columns)
       [] node.op = "filter" -> PortableFilter(v, node.columns)
       [] node.op = "orderBy" ->
            IsObject(v) => PortableOrder(v, node.columns, TsAggregates(Get(params, "select")))
       [] node.op = "projection" -> Missing(v) \/ (IsList(v) /\ v.items = <<>>)
       [] node.op = "joinBy" -> IsObject(v) => PortableJoins(v, node)
       [] node.op = "upsert" ->
            /\ PortableRows(v, node.columns)
            /\ v.items # <<>> => ~(ToSet(Keys(v.items[1])) \subseteq ToSet(node.conflict))
       [] node.op = "windowBy" ->
            IsObject(v) => \A e \in ToSet(v.entries) : IsObject(e.value) /\ PortableWindow(e.value, node.columns)
       [] OTHER -> FALSE                          \* havingBy and groupBy

PortableQuery ==
  \A b \in DOMAIN query.blocks : \A n \in ToSet(query.blocks[b]) : Portable(n, query.params)

-----------------------------------------------------------------------------
(* Properties                                                              *)

SameBag(a, b) ==
  \A p \in ToSet(a) \cup ToSet(b) :
    Cardinality({i \in DOMAIN a : a[i] = p}) = Cardinality({i \in DOMAIN b : b[i] = p})

(* The runtimes agree: on the inputs they share, the Go and the .NET       *)
(* builder emit from the manifest exactly what the TypeScript operators    *)
(* emit, values bound included, and refuse exactly what these refuse       *)
(* (docs/portable-queries.md, "identical output").  A caller of the Go     *)
(* runtime who passes plain maps instead of OrderedDict gets the same      *)
(* pieces and the same refusals, in another order at most.                 *)
RuntimesAgree ==
  PortableQuery => go = ts /\ net = ts /\ SameBag(go, plain)

(* The pieces after the first piece with a text; all of them without one.  *)
After(out, word) ==
  IF \E i \in DOMAIN out : Is(out[i], word)
  THEN SubSeq(out, 1 + CHOOSE i \in DOMAIN out :
                     Is(out[i], word) /\ \A j \in 1..(i - 1) : ~Is(out[j], word),
              Len(out))
  ELSE Nothing

ColsOf(out) == Those(out, LAMBDA p : "col" \in DOMAIN p)
BindsOf(out) == Those(out, LAMBDA p : "bind" \in DOMAIN p)

(* Every value of every inserted row is bound, once, under its own column: *)
(* the placeholders of row r follow the column list the statement names,   *)
(* whatever order the row's keys came in.                                  *)
RowsBoundInPlace ==
  LET node == Template[2]
      rows == Get(query.params, node.param).items
      width == Len(rows[1].entries)
  IN (Built /\ PortableQuery /\ node.op \in {"insert", "upsert"}) =>
     \A out \in Outputs : ~Failed(out) =>
       /\ Len(BindsOf(out)) = width * Len(rows)
       /\ \A r \in DOMAIN rows, c \in 1..width :
            BindsOf(out)[(r - 1) * width + c].bind = Get(rows[r], ColsOf(out)[c].col)

Aggregated(out, i) == i > 1 /\ "sql" \in DOMAIN out[i - 1] /\ out[i - 1].sql \in Aggregates

(* A select list with an aggregate groups by the columns it shows outside  *)
(* aggregates and by no others, and its GROUP BY binds no value: there a   *)
(* second placeholder would be another expression than the select list's.  *)
GroupByCoversSelect ==
  LET node == Template[2]
  IN (Built /\ node.op = "projection") =>
     \A out \in Outputs :
       LET group == After(out, "group by")
           select == SubSeq(out, 1, Len(out) - Len(group))
           free == {select[i] : i \in {j \in DOMAIN select :
                      "col" \in DOMAIN select[j] /\ ~Aggregated(select, j)}}
       IN (~Failed(out) /\ \E i \in DOMAIN select : Is(select[i], "sum") \/ Is(select[i], "count")) =>
          ToSet(ColsOf(group)) = free /\ BindsOf(group) = <<>>

Joined(out) == \A i \in DOMAIN out :
  ("col" \in DOMAIN out[i] /\ "table" \in DOMAIN out[i] /\ out[i].table # "_") =>
     \E j \in 1..(i - 1) : out[j] = Table(out[i].table)[1]

(* An ON condition names only the root table and tables joined by then:    *)
(* always in the TypeScript runtime, in the others for portable queries    *)
(* (they resolve a table before it is joined).  With plain maps the Go     *)
(* builder joins in the aliases' alphabetical order and breaks this.       *)
JoinsNameJoinedTables ==
  /\ Joined(ts)
  /\ PortableQuery => Joined(go) /\ Joined(net)

(* The clauses of a statement fit together: rows and the column list, the  *)
(* select list and GROUP BY, FROM and the joins.                           *)
ClausesFit == RowsBoundInPlace /\ GroupByCoversSelect /\ JoinsNameJoinedTables

(* The columns a condition restricts, and the conditions nested in it; a   *)
(* null and an empty list restrict nothing.  In a condition with an "or"   *)
(* only its or-group counts, where Hides says so.                          *)
RestrictedColumns(c, Hides(_)) ==
  LET conditions == UNION {ToSet(g) : g \in {<< c >>} \cup Nested(<< c >>)}
      entries == UNION {ToSet(d.entries) : d \in {x \in conditions : ~Hides(x)}}
      Restricts(e) == e.key # "or" /\ e.value \notin {Null, List(<< Str("in") >>), List(<< Str("notIn") >>)}
  IN {e.key : e \in {x \in entries : Restricts(x)}}

(* A filter reaches the statement whole, each column it restricts in the   *)
(* WHERE clause, or the build fails.  The columns beside an or-group are   *)
(* the exception: every builder writes the group alone.  TypeScript and    *)
(* Go's plain maps lose the columns beside an "or" that is no list as      *)
(* well, with nothing to refuse it; .NET refuses that one.  An object is   *)
(* the list of its entries, one condition each; of a plain map the Go      *)
(* builder takes the columns alone, and an or-group in it is lost.         *)
FilterIsWhole ==
  LET node == Template[2]
      filter == Get(query.params, node.param)
      conditions == IF IsList(filter) THEN ToSet(filter.items)
                    ELSE {Obj1(e.key, e.value) : e \in ToSet(filter.entries)}
      WithOr(c) == Has(c, "or")
      WithGroup(c) == IsList(Get(c, "or"))
      Kept(out, given, Hides(_)) == Failed(out) \/
        \A c \in given : \A k \in RestrictedColumns(c, Hides) :
          \E p \in ToSet(ColsOf(After(out, "where"))) : p.col = k
  IN (Built /\ node.op = "filter" /\ ~Missing(filter)) =>
     /\ Kept(ts, conditions, WithOr)
     /\ GoValidFilter(filter, node.columns, FALSE) =>
          Kept(plain, {c \in conditions : IsList(filter) \/ ~WithOr(c)}, WithOr)
     /\ NetValidFilter(filter, node.columns) => Kept(net, conditions, WithGroup)

(* A select list names no unknown column or function to the builder.       *)
(* Lists of calls without an alias aside: the builders pass over them and  *)
(* leave an empty place in the list.                                       *)
ProjectionBuilds ==
  LET node == Template[2]
      select == Get(query.params, node.param)
      calls == {e \in ToSet(select.items) : IsList(e)}
  IN (Built /\ node.op = "projection" /\ IsList(select)) =>
     ((\A e \in calls : e.items[2] = Str("*") \/ Contains(node.columns, Text(e.items[2]))) =>
        /\ GoValidProjection(select, node.columns) => ~Failed(go)
        /\ NetValidProjection(select, node.columns) => ~Failed(net))

(* What a runtime's validation lets through is built whole: no condition   *)
(* of a filter is lost, no entry of a select list refused.  The Go builder *)
(* passes over a filter column it does not know, so there this rests on    *)
(* the validation; an OrderedDict is not validated and does lose such a    *)
(* condition.  Who loses the columns beside an "or" is said above.         *)
ValidatedIsBuilt == FilterIsWhole /\ ProjectionBuilds
=============================================================================
