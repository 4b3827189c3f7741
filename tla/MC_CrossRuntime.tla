--------------------------- MODULE MC_CrossRuntime ---------------------------
(* The queries of the runs: for every operator, params of the shapes its   *)
(* callers give it, with the slips they make (an unknown column, a missing *)
(* argument, an empty list, null, rows of different keys).                 *)
EXTENDS FilterMeaning

MCAliasOrder == << "x", "y", "z" >>

abc == << "a", "b", "c" >>
one == Num(1)
two == Num(2)
Lists(S, n) == UNION {[1..k -> S] : k \in 0..n}
Op(op, args) == List(<< Str(op) >> \o args)
Pair(k, v, l, w) == Object(<< Entry(k, v), Entry(l, w) >>)
Give(name, v) == IF v = Absent THEN Object(<<>>) ELSE Obj1(name, v)
Case(node, params) ==
  [blocks |-> << << TextNode("select"), node >> >>,
   params |-> params, dialect |-> "postgresql"]
In(dialect, c) == [c EXCEPT !.dialect = dialect]

Comparisons ==
  {one, Str("x"), Null, Op("=", << one >>), Op("not", << one >>), Op("<", << two >>),
   Op(">=", << two >>), Op("between", << one, two >>), Op("in", << one, two >>), Op("in", <<>>),
   Op("notIn", << one >>), Op("notIn", <<>>), Op("isNull", <<>>), Op("isNotNull", <<>>),
   Op("=", <<>>), Op("like it", << one >>)}
Core == {Obj1("a", one), Obj1("b", Op("<", << two >>)), Obj1("c", Op("notIn", << one >>)),
         Obj1("b", Op("isNull", <<>>)), Pair("a", one, "b", Op("not", << one >>))}
Singles == {Obj1("or", List(<< Obj1("a", one), Obj1("d", one) >>))} \cup {Obj1("a", v) : v \in Comparisons \ {Str("x")}} \cup Core
           \cup {Pair("b", one, "a", two), Obj1("d", one), Object(<<>>)}
Group(conditions) == Obj1("or", List(conditions))
Groups == {Group(g) : g \in Lists(Core, 2)}
          \cup {Group(<< c, Group(<< d, e >>) >>) : c \in Core, d \in Core, e \in Core}
          \cup {Pair("a", one, "or", List(<< Obj1("b", one) >>)), Obj1("or", one)}
          \cup {Pair("a", one, "or", v) : v \in {one, Null, False, Str("x"), Str(""), Obj1("b", one)}}
          \cup {Group(<< Obj1("c", one), Pair("b", two, "or", one) >>)}
Filters ==
  {List(<< c >>) : c \in Singles \cup Groups} \cup
  {List(<< c, d >>) : c \in Singles, d \in Core} \cup
  {List(<< c, d >>) : c \in Core, d \in Groups} \cup
  {Pair(k, v, l, w) : k \in {"a", "c"}, l \in {"b", "d"},
                      v \in Comparisons \ {Str("x")}, w \in {one, Op("<", << two >>)}} \cup
  {Pair("a", one, "or", v) : v \in {one, Null, List(<<>>), List(<< Obj1("b", two) >>)}} \cup
  {Absent, Null, List(<<>>), Object(<<>>), Group(<< Obj1("a", one), Obj1("b", two) >>)}
FilterCases == {Case(FilterNode("filter", abc, Sql("where")), Give("filter", f)) : f \in Filters}

Row(keys) == Object([i \in DOMAIN keys |-> Entry(keys[i], Num(i))])
RowPool == {Row(<< "a", "b" >>), Row(<< "b", "a" >>), Row(<< "a" >>), Row(<< "a", "b", "c" >>),
            Row(<< "a", "d" >>), Pair("a", Null, "b", one), Object(<<>>)}
RowLists == {List(rows) : rows \in Lists(RowPool, 2)} \cup {Absent}
RowCases ==
  {Case(TableNode(op, "rows", abc), Give("rows", r)) :
     op \in {"insert", "insertCols", "insertValues"}, r \in RowLists} \cup
  {In(d, Case(UpsertNode("rows", abc, conflict), Give("rows", r))) :
     d \in {"postgresql", "transactsql"}, r \in RowLists, conflict \in {<< "a" >>, << "a", "b" >>}} \cup
  {Case(TableNode("set", "set", abc), Give("set", v)) : v \in RowPool \cup {Absent}}

OrderCases ==
  {Case(TableNode("orderBy", "orderBy", abc), Give("orderBy", v)) :
     v \in {Pair(k, d, l, e) : k \in {"a", "b"}, l \in {"c", "d"},
              d \in {Str("ASC"), Str("DESC"), Null, Str(""), Str("up")}, e \in {Str("DESC"), Null}}
           \cup {Pair("c", Str("ASC"), "a", Str("DESC")), Absent, Object(<<>>)}}

Given == {Absent, Null, False, True, one, List(<<>>), List(<< one, two >>)}
SimpleCases ==
  {Case(PaginationNode, Object(<< Entry("limit", l), Entry("offset", o) >>)) :
     l \in {one, Null}, o \in {two, Null}} \cup
  {Case(node, Give("p", v)) :
     node \in {ParamNode("p"), EachNode("p"), ValueNode(one)}, v \in Given} \cup
  {[Case(WhenNode("p", negate, 2, 3), Give("p", v)) EXCEPT !.blocks = @ \o
      << << ParamNode("p"), WhenNode("p", TRUE, 3, 4) >>, << TextNode("else"), ParamNode("p") >>, last >>] :
     negate \in BOOLEAN, v \in Given,
     last \in {<< EachNode("p") >>, << TableNode("groupBy", "p", abc), TextNode("none") >>}}

Call(fn, col) == Pair("fn", Str(fn), "col", Str(col))
Transform(fn, col, args) ==
  Object(<< Entry("fn", Str(fn)), Entry("col", Str(col)), Entry("args", args) >>)
Selected == {True, Str("b"), Str("d"), Call("sum", "c"), Call("count", "*"), Call("median", "a"),
             Transform("coalesce", "b", one), Transform("dateTrunc", "c", Str("month")),
             Transform("round", "a", two), Transform("concat", "a", List(<< one, two >>)),
             Transform("abs", "b", Absent)}
Listed == {Str("a"), Str("d"), List(<< Str("sum"), Str("c"), Str("s") >>),
           List(<< Str("count"), Str("*"), Str("n") >>), List(<< Str("mode"), Str("a"), Str("m") >>), List(<< Str("sum"), Str("c") >>)}
ProjectionCases ==
  {[In(d, Case(TableNode("projection", "select", abc), Give("select", v)))
      EXCEPT !.blocks[1] = @ \o << TableNode("groupBy", "select", abc),
                                  TableNode("havingBy", "having", abc) >>] :
     d \in {"postgresql", "transactsql"},
     v \in {Pair("a", s, "n", t) : s \in Selected, t \in Selected}
           \cup {List(l) : l \in Lists(Listed, 2)} \cup {Absent}}
HavingCases ==
  {Case(TableNode("havingBy", "having", abc),
        Object(<< Entry("select", Pair("a", True, "n", Call("sum", "c"))),
                  Entry("having", List(<< Obj1(k, v) >>)) >>)) :
     k \in {"n", "a"}, v \in {one, Op(">", << two >>), Op("in", <<>>)}}

joinMap == [t \in {"_", "x", "y"} |-> IF t = "_" THEN abc ELSE << "a", "d" >>]
joinTypes == [t \in {"y"} |-> "left"]
On(l, op, r) == List(<< l, Str(op), r >>)
Conditions == {On(Ref("_", "a"), "=", Ref("x", "a")), On(Ref("x", "d"), "<", Ref("y", "a")),
               On(Ref("_", "a"), "=", Ref("y", "d")), On(Ref("_", "e"), "=", Ref("x", "a")),
               On(Ref("_", "a"), "like", Ref("x", "a")), On(Ref("_", "b"), "=", Str("d"))}
Entries == {Obj1("on", List(<< c >>)) : c \in Conditions}
           \cup {Pair("type", Str(k), "on", List(<< On(Ref("_", "a"), "=", Ref("x", "a")) >>)) :
                   k \in {"full", "cross", "", "outer"}}
           \cup {Obj1("on", List(<< c, d >>)) : c \in Conditions, d \in Conditions}
           \cup {Obj1("type", Str("cross")), Obj1("on", List(<<>>))}
JoinCases ==
  {Case(JoinNode("joinBy", joinMap, joinTypes), Give("joinBy", v)) :
     v \in {Obj1(t, e) : t \in {"x", "z"}, e \in Entries} \cup {Absent} \cup
           {Pair(tu[1], e, tu[2], f) : tu \in {<< "x", "y" >>, << "y", "x" >>},
              e \in {Obj1("on", List(<< c >>)) : c \in Conditions},
              f \in {Obj1("on", List(<< c >>)) : c \in Conditions}}}

Frame(start, end, frame) ==
  Object(<< Entry("start", start), Entry("end", end), Entry("frame", Str(frame)) >>)
Overs == {Object(<<>>), Obj1("partitionBy", List(<< Str("a"), Str("b") >>)),
          Pair("partitionBy", List(<< Str("a") >>), "orderBy", Obj1("b", Str("DESC"))),
          Obj1("orderBy", Pair("c", Str("ASC"), "a", Str("DESC"))),
          Obj1("orderBy", Obj1("a", Str("up"))), Obj1("orderBy", Obj1("d", Null))}
         \cup {Frame(s, e, f) : s \in {one, Num(0), Str("x"), Null}, e \in {two, Null, Str("y")},
                                f \in {"rows", "range", "all"}}
Windows == {Object(<< Entry("fn", Str(fn)), Entry("col", c), Entry("args", g), Entry("over", o) >>) :
              fn \in {"sum", "lag", "ntile"}, c \in {Str("a"), Str("d"), Absent},
              g \in {two, Num(0), Absent}, o \in Overs}
           \cup {Pair("fn", Str(fn), "over", o) : fn \in {"rank", "row_number", "mode"}, o \in Overs}
           \cup {Obj1("fn", Str("rank"))}
WindowCases ==
  {In(d, Case(TableNode("windowBy", "windowBy", abc), Give("windowBy", v))) :
     d \in {"postgresql", "transactsql"}, v \in {Obj1("w", w) : w \in Windows} \cup {Absent, Null}}

MCCases == FilterCases \cup RowCases \cup OrderCases \cup SimpleCases \cup ProjectionCases
           \cup HavingCases \cup JoinCases \cup WindowCases
=============================================================================
