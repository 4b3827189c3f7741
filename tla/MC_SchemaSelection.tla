------------------------- MODULE MC_SchemaSelection -------------------------
(* An instance of SchemaSelection for TLC.                                 *)
EXTENDS SchemaSelection

NoKeys == [name \in {} |-> << >>]
Foreign(to, key, columns, at) ==
  [to |-> to, key |-> key, columns |-> columns, at |-> at, implicit |-> FALSE]

Account == [kind |-> "table", columns |-> << "id", "a_b" >>, primary |-> "account_pk",
            keys |-> [name \in {"account_pk"} |-> << "id" >>], foreign |-> NoKeys]

(* Two foreign keys to one table.                                          *)
Sale == [kind |-> "table", columns |-> << "id", "no", "buyer_id", "seller_id" >>, primary |-> "order_pk",
         keys |-> [name \in {"order_pk"} |-> << "id", "no" >>],
         foreign |-> [name \in {"buyer_fk", "seller_fk"} |->
           Foreign("main.account", "account_pk", << IF name = "buyer_fk" THEN "buyer_id" ELSE "seller_id" >>, << 1 >>)]]

(* A table with a key of two columns, and one with a foreign key to it     *)
(* that names them in an order of its own.                                 *)
Order1 == [kind |-> "table", columns |-> << "id", "no" >>, primary |-> "order_pk",
           keys |-> [name \in {"order_pk"} |-> << "id", "no" >>], foreign |-> NoKeys]
ItemOf(columns, at) ==
  [kind |-> "table", columns |-> << "order_no", "order_id" >>, primary |-> "", keys |-> NoKeys,
   foreign |-> [name \in {"order_fk"} |-> Foreign("main.order", "order_pk", columns, at)]]
Item == ItemOf(<< "order_no", "order_id" >>, << 2, 1 >>)

(* A view, with columns whose names in camel case are the same.            *)
View == [kind |-> "view", columns |-> << "a_b", "aB" >>, primary |-> "", keys |-> NoKeys, foreign |-> NoKeys]

MCObjects == {"main.account", "main.item", "main.order", "api.account"}

Accounts == [x \in {"main.account", "main.order"} |-> IF x = "main.order" THEN Sale ELSE Account]
Orders(item) == [x \in {"main.order", "main.item"} |-> IF x = "main.order" THEN Order1 ELSE item]
Views == [x \in {"main.account", "api.account"} |-> IF x = "main.account" THEN Account ELSE View]
Implicit ==
  [Accounts EXCEPT !["main.order"].foreign = [name \in DOMAIN @ |-> [@[name] EXCEPT !.implicit = TRUE]]]

MCDatabases ==
  {[driver |-> "postgres", objects |-> x] : x \in {Accounts, Orders(Item)}} \cup
  {[driver |-> "mssql", objects |-> Orders(ItemOf(<< "order_id", "order_no" >>, << 1, 2 >>))]} \cup
  {[driver |-> "duckdb", objects |-> x] : x \in {Orders(Item), Views}} \cup
  {[driver |-> "sqlite3", objects |-> x] : x \in {Accounts, Implicit}}

MCUnqualified == [x \in MCObjects |->
  IF x = "main.item" THEN "item" ELSE IF x = "main.order" THEN "order" ELSE "account"]
MCSchemaOf == [x \in MCObjects |-> IF x = "api.account" THEN "api" ELSE "main"]
MCCamel == [x \in {"id", "no", "a_b", "aB", "buyer_id", "seller_id", "order_no", "order_id"} |->
  CASE x = "a_b" -> "aB" [] x = "buyer_id" -> "buyerId" [] x = "seller_id" -> "sellerId"
    [] x = "order_no" -> "orderNo" [] x = "order_id" -> "orderId" [] OTHER -> x]

(* The server and the review are for one profile, the override for that or *)
(* another one.                                                            *)
MCAssignments == {[x \in Processes |-> IF x \in Overrides THEN q ELSE "dev"] : q \in Profiles}

None == [given |-> FALSE, list |-> << >>]
Given(list) == [given |-> TRUE, list |-> list]
Request(all, include, exclude, save) == [all |-> all, include |-> include, exclude |-> exclude, save |-> save]
MCRequests == {Request(TRUE, None, << >>, TRUE), Request(FALSE, Given(<< "item" >>), << >>, TRUE),
               Request(FALSE, None, << "main.account" >>, TRUE),
               Request(FALSE, Given(<< "account" >>), << "item" >>, FALSE),
               Request(TRUE, Given(<< "item" >>), << >>, TRUE)}

Scope(ids, selected) == [x \in ids |-> x \in selected]
MCDocuments == {[whole |-> FALSE, profiles |-> << >>],
                [whole |-> TRUE, profiles |-> << >>],
                [whole |-> TRUE, profiles |-> [q \in {"dev", "test"} |->
                   IF q = "dev" THEN Scope({"main.account", "main.item"}, {"main.account"})
                   ELSE Scope({"main.account"}, {"main.account"})]]}

MCMatches == [t \in Texts |-> IF t = Everything THEN MCObjects ELSE {"main.item", "api.account"}]
=============================================================================
