---------------------------- MODULE Introspection ----------------------------
(***************************************************************************)
(* What the four drivers answer when they are asked for the schema of a    *)
(* database (getSchema of plugins/postgres, mssql, sqlite3 and duckdb).    *)
(*                                                                         *)
(* A database is a driver and a function from object ids to objects:       *)
(* tables or views, with a list of columns, primary and unique keys by     *)
(* name, the name of the primary one, and foreign keys by name.  A foreign *)
(* key refers to a key of a table: its column columns[i] to the column in  *)
(* place at[i] of that key.  Written without the referenced columns, it is *)
(* implicit.  Types, enums and defaults are left out.                      *)
(*                                                                         *)
(* The views of the information schema show the constraints of all tables; *)
(* that a row of one of them belongs to a row of another is up to the      *)
(* joins of the queries.                                                   *)
(***************************************************************************)
EXTENDS Naturals, Sequences, SequencesExt

CONSTANTS
  UnqualifiedName, \* of an id: what comes after its schema
  SchemaOf,        \* of an id
  Schemas          \* the profile's

Null == "null"
Drivers == {"postgres", "mssql", "duckdb", "sqlite3"}

Constraints(object) == DOMAIN object.keys \cup DOMAIN object.foreign

(* What every database holds to: a foreign key has columns, and pairs each *)
(* with a column of a key that exists; views have none; in SQL Server the  *)
(* names of constraints differ within a schema.                            *)
WellFormed(db) ==
  /\ \A id \in DOMAIN db.objects :
       LET object == db.objects[id] IN
       /\ object.kind \in {"table", "view"}
       /\ object.kind = "view" => DOMAIN object.foreign = {}
       /\ object.columns \in Seq(ToSet(object.columns)) /\ Null \notin ToSet(object.columns)
       /\ \A name \in DOMAIN object.foreign :
            LET foreign == object.foreign[name] IN
            /\ foreign.columns \in Seq(ToSet(foreign.columns)) \ {<< >>}
            /\ DOMAIN foreign.at = DOMAIN foreign.columns
            /\ foreign.to \in DOMAIN db.objects /\ foreign.key \in DOMAIN db.objects[foreign.to].keys
            /\ ToSet(foreign.at) \subseteq DOMAIN db.objects[foreign.to].keys[foreign.key]
  /\ db.driver = "mssql" =>
       \A a, b \in DOMAIN db.objects :
         a # b /\ SchemaOf[a] = SchemaOf[b] => Constraints(db.objects[a]) \cap Constraints(db.objects[b]) = {}

-----------------------------------------------------------------------------
(* information_schema                                                      *)

(* The rows of a constraint in key_column_usage, in order.                 *)
KeyColumns(object, name) ==
  IF name \in DOMAIN object.keys THEN object.keys[name] ELSE object.foreign[name].columns

(* The tables of a schema with a foreign key of this name: table_          *)
(* constraints and referential_constraints.                                *)
HaveForeign(objects, schema, name) ==
  {o \in DOMAIN objects : SchemaOf[o] = schema /\ name \in DOMAIN objects[o].foreign}

HavePrimary(objects, schema, name) ==
  {o \in DOMAIN objects : SchemaOf[o] = schema /\ objects[o].primary = name}

(* The tables whose constraint of this name has a column in that place.    *)
HaveColumn(objects, schema, name, place) ==
  {o \in DOMAIN objects : /\ SchemaOf[o] = schema /\ name \in Constraints(objects[o])
                          /\ place \in DOMAIN KeyColumns(objects[o], name)}

Inspected(objects) == {id \in DOMAIN objects : SchemaOf[id] \in Schemas}
OfKind(objects, kind) == {id \in Inspected(objects) : objects[id].kind = kind}

Twice(tables) == tables \X tables

ColumnRows(keys) == UNION {{name} \X DOMAIN keys[name].columns : name \in DOMAIN keys}

(* The rows of a column of a foreign key, each with a column in that place *)
(* of the key that the last table joined, via, says a foreign key of this  *)
(* name refers to.                                                         *)
Referring(objects, id, name, i, via, place) ==
  LET foreign == objects[Last(via)].foreign[name]
  IN {[constraint |-> name, ordinal |-> i, column |-> objects[id].foreign[name].columns[i],
       to |-> u, referenced |-> KeyColumns(objects[u], foreign.key)[place], via |-> via]
      : u \in HaveColumn(objects, SchemaOf[foreign.to], foreign.key, place)}

(* Tables of a kind with what was found of their keys.                     *)
Answer(objects, ids, kind, primaryKeys, foreignKeys) ==
  {[id |-> id, kind |-> kind, columns |-> objects[id].columns,
    primaryKeys |-> IF kind = "table" THEN primaryKeys[id] ELSE {},
    foreignKeys |-> IF kind = "table" THEN foreignKeys[id] ELSE {}] : id \in ids}

PrimaryRows(object, name) ==
  {[constraint |-> name, column |-> KeyColumns(object, name)[i], ordinal |-> i] : i \in DOMAIN KeyColumns(object, name)}

-----------------------------------------------------------------------------
(* PostgreSQL.  Names of foreign keys need only differ within a table, and *)
(* the joins are by name and schema.                                       *)

PostgresPrimaryKeys(objects) ==
  [id \in Inspected(objects) |->
     UNION {PrimaryRows(objects[id], name) :
              name \in {n \in Constraints(objects[id]) : HavePrimary(objects, SchemaOf[id], n) # {}}}]

PostgresForeignKeys(objects) ==
  [id \in Inspected(objects) |->
     UNION {UNION {Referring(objects, id, row[1], row[2], via, objects[id].foreign[row[1]].at[row[2]])
                   : via \in Twice(HaveForeign(objects, SchemaOf[id], row[1]))}
            : row \in ColumnRows(objects[id].foreign)}]

(* Objects with the name of a table, or a view, of any inspected schema.   *)
PostgresNamed(objects, kind) ==
  {id \in Inspected(objects) : \E o \in OfKind(objects, kind) : UnqualifiedName[o] = UnqualifiedName[id]}

PostgresSchema(objects) ==
  UNION {Answer(objects, PostgresNamed(objects, kind), kind, PostgresPrimaryKeys(objects), PostgresForeignKeys(objects))
         : kind \in {"table", "view"}}

-----------------------------------------------------------------------------
(* SQL Server.  The columns of the two keys are paired by their places.    *)

MssqlPrimaryKeys(objects) ==
  [id \in Inspected(objects) |->
     UNION {PrimaryRows(objects[id], name) : name \in {n \in DOMAIN objects[id].keys : n = objects[id].primary}}]

MssqlForeignKeys(objects) ==
  [id \in Inspected(objects) |->
     UNION {UNION {Referring(objects, id, row[1], row[2], via, row[2])
                   : via \in Twice(HaveForeign(objects, SchemaOf[id], row[1]))}
            : row \in ColumnRows(objects[id].foreign)}]

MssqlSchema(objects) ==
  UNION {Answer(objects, OfKind(objects, kind), kind, MssqlPrimaryKeys(objects), MssqlForeignKeys(objects))
         : kind \in {"table", "view"}}

-----------------------------------------------------------------------------
(* DuckDB.  Rows of foreign keys come in the order of their ordinals,      *)
(* which are then their indexes.                                           *)

DuckDBPrimaryKeys(objects) == PostgresPrimaryKeys(objects)

DuckDBForeignKeys(objects) ==
  [id \in Inspected(objects) |->
     UNION {UNION {Referring(objects, id, row[1], row[2], << r >>, objects[id].foreign[row[1]].at[row[2]])
                   : r \in HaveForeign(objects, SchemaOf[id], row[1])}
            : row \in ColumnRows(objects[id].foreign)}]

DuckDBSchema(objects) ==
  UNION {Answer(objects, OfKind(objects, kind), kind, DuckDBPrimaryKeys(objects), DuckDBForeignKeys(objects))
         : kind \in {"table", "view"}}

-----------------------------------------------------------------------------
(* SQLite.  There is one schema, whatever the profile says.  The pragmas   *)
(* are asked for one table at a time, and do not know the columns an       *)
(* implicit key refers to.                                                 *)

SqlitePrimaryKeys(objects) ==
  [id \in DOMAIN objects |->
     UNION {PrimaryRows(objects[id], name) : name \in {n \in DOMAIN objects[id].keys : n = objects[id].primary}}]

SqliteForeignKeys(objects) ==
  [id \in DOMAIN objects |->
     {LET foreign == objects[id].foreign[row[1]]
      IN [constraint |-> row[1], ordinal |-> row[2], column |-> foreign.columns[row[2]],
          to |-> foreign.to, via |-> << id >>,
          referenced |-> IF foreign.implicit THEN Null ELSE objects[foreign.to].keys[foreign.key][foreign.at[row[2]]]]
      : row \in ColumnRows(objects[id].foreign)}]

SqliteSchema(objects) ==
  UNION {Answer(objects, {id \in DOMAIN objects : objects[id].kind = kind}, kind,
                SqlitePrimaryKeys(objects), SqliteForeignKeys(objects))
         : kind \in {"table", "view"}}

-----------------------------------------------------------------------------
GetSchema(database) ==
  CASE database.driver = "postgres" -> PostgresSchema(database.objects)
    [] database.driver = "mssql" -> MssqlSchema(database.objects)
    [] database.driver = "duckdb" -> DuckDBSchema(database.objects)
    [] database.driver = "sqlite3" -> SqliteSchema(database.objects)
=============================================================================
