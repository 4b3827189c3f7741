------------------------------ MODULE Templates ------------------------------
(***************************************************************************)
(* The data the three SQL builders of the repository share: the JSON       *)
(* values a caller passes as parameters, the pieces a builder emits, and   *)
(* the nodes of a query's template.                                        *)
(*                                                                         *)
(* A parameter value is a record tagged by "is"; an object keeps its       *)
(* entries in insertion order, as a JSON document does.  The output of a   *)
(* builder is a sequence of pieces: a keyword or separator, a column       *)
(* reference, a quoted name that is no column, a placeholder together with *)
(* the value bound to it, or the error the build ended with.  Letter case, *)
(* blanks, quoting and the placeholder's spelling are not modelled.        *)
(*                                                                         *)
(* A template is a sequence of blocks, each a sequence of nodes.  The      *)
(* first block is the query itself; a when node refers to its branches,    *)
(* which the code nests, by the numbers of later blocks.                   *)
(***************************************************************************)
EXTENDS Integers, Sequences, SequencesExt, FiniteSets

CONSTANT MaxNesting     \* bound: or-groups within or-groups

ASSUME MaxNestingAssumption == MaxNesting \in Nat

Absent == [is |-> "absent"]
Null == [is |-> "null"]
False == [is |-> "false"]
True == [is |-> "true"]
Str(s) == [is |-> "string", str |-> s]
Num(n) == [is |-> "number", num |-> n]
List(items) == [is |-> "list", items |-> items]
Object(entries) == [is |-> "object", entries |-> entries]
Entry(key, value) == [key |-> key, value |-> value]
Obj1(key, value) == Object(<<Entry(key, value)>>)

(* A "table.column" reference of an ON condition.                          *)
Ref(table, c) == [is |-> "ref", table |-> table, col |-> c]

Keys(o) == [i \in DOMAIN o.entries |-> o.entries[i].key]
Has(o, key) == \E i \in DOMAIN o.entries : o.entries[i].key = key
Get(o, key) ==
  IF Has(o, key)
  THEN o.entries[CHOOSE i \in DOMAIN o.entries : o.entries[i].key = key].value
  ELSE Absent

IsObject(v) == v.is = "object"
IsList(v) == v.is = "list"
IsPrimitive(v) == v.is \in {"null", "false", "true", "string", "number"}
Missing(v) == v.is \in {"absent", "null"}

(* What a string parameter says, "" for anything that is no string.        *)
Text(v) == IF v.is = "string" THEN v.str ELSE ""

(* Sequences without repetitions: a table's columns, an object's keys.     *)
Distinct(s) ==
  s \in Seq(ToSet(s)) /\ \A i, j \in DOMAIN s : s[i] = s[j] => i = j

(* The elements of a sequence that are in a set, or pass a test, in order. *)
Among(seq, S) ==
  LET kept == {i \in DOMAIN seq : seq[i] \in S}
  IN IF kept = DOMAIN seq THEN seq
     ELSE [k \in 1..Cardinality(kept) |->
             seq[CHOOSE i \in kept : Cardinality({j \in kept : j <= i}) = k]]
Those(seq, Test(_)) == Among(seq, {x \in ToSet(seq) : Test(x)})
Objects(items) == Those(items, IsObject)

Known(columns, key) == key \in ToSet(columns)

(* The or-groups of a list of conditions, and those nested in them: level  *)
(* n has the groups within n others.                                       *)
OrGroups(conditions) ==
  {Get(c, "or").items : c \in {x \in ToSet(conditions) : IsObject(x) /\ IsList(Get(x, "or"))}}
OrLevels(conditions) ==
  LET level[n \in 0..MaxNesting] ==
        IF n = 0 THEN OrGroups(conditions) ELSE UNION {OrGroups(g) : g \in level[n - 1]}
  IN level
Nested(conditions) == UNION {OrLevels(conditions)[n] : n \in 0..MaxNesting}

Sql(s) == IF s = "" THEN <<>> ELSE <<[sql |-> s]>>
Col(c) == <<[col |-> c]>>
Quoted(name) == <<[quoted |-> name]>>
Bind(v) == <<[bind |-> v]>>
As(alias) == <<[as |-> alias]>>
Literal(v) == <<[literal |-> v]>>
JoinCol(table, c) == <<[table |-> table, col |-> c]>>
Table(alias) == <<[table |-> alias]>>
Fail == <<[fail |-> TRUE]>>
Nothing == <<>>

Is(piece, s) == "sql" \in DOMAIN piece /\ piece.sql = s
Failed(out) == \E i \in DOMAIN out : out[i] = Fail[1]

(* The parts one after the other, with a separator before all but the      *)
(* first: also before a part that emits nothing.                           *)
Join(parts, separator) ==
  FlattenSeq([i \in DOMAIN parts |->
                IF i = 1 THEN parts[i] ELSE Sql(separator) \o parts[i]])

Each(seq, Part(_)) == [i \in DOMAIN seq |-> Part(seq[i])]

(* Operands: the values of a list parameter, or the one value given.       *)
Items(v) == IF IsList(v) THEN v.items ELSE <<v>>

Binds(values) == Join(Each(values, Bind), ",")
Columns(keys) == Join(Each(keys, Col), ",")

Aggregates == {"count", "sum", "avg", "min", "max"}
Ranking == {"row_number", "rank", "dense_rank", "percent_rank", "cume_dist"}
WindowAggregates == Aggregates \cup {"first_value", "last_value"}
Offsets == {"lag", "lead"}
WindowFunctions == Ranking \cup {"ntile"} \cup WindowAggregates \cup Offsets
FilterOps == {"=", "not", ">", ">=", "<", "<=", "!=", "between", "in", "notIn",
              "like", "notLike", "isNull", "isNotNull"}
JoinOps == {"=", "<", "<=", ">", ">=", "<>"}
JoinKinds == {"inner", "left", "right", "full", "cross"}
Directions == {"ASC", "DESC"}

(* A template node.  A node over a table names the param it reads and the  *)
(* table's columns in declaration order.                                   *)
TextNode(s) == [op |-> "text", text |-> s]
ParamNode(name) == [op |-> "param", param |-> name]
EachNode(name) == [op |-> "each", param |-> name]
ValueNode(v) == [op |-> "value", value |-> v]
WhenNode(param, negate, onTrue, onFalse) ==
  [op |-> "when", param |-> param, negate |-> negate,
   onTrue |-> onTrue, onFalse |-> onFalse]
TableNode(op, param, columns) == [op |-> op, param |-> param, columns |-> columns]
FilterNode(param, columns, prefix) ==
  [op |-> "filter", param |-> param, columns |-> columns, prefix |-> prefix]
UpsertNode(param, columns, conflict) ==
  [op |-> "upsert", param |-> param, columns |-> columns, conflict |-> conflict]
JoinNode(param, joinMap, joinTypes) ==
  [op |-> "joinBy", param |-> param, joinMap |-> joinMap, joinTypes |-> joinTypes]
PaginationNode == [op |-> "pagination"]
=============================================================================
