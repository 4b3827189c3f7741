---------------------------- MODULE SchemaCatalog ----------------------------
(***************************************************************************)
(* What the local data tools know of a database: createSchemaCatalog       *)
(* (packages/core/src/schema/schema-catalog.ts) makes a catalog of what a  *)
(* plugin's introspection answers, schema-selection.ts reconciles it with  *)
(* a selection, and createRuntimeSchemaMappings (runtime-schema-           *)
(* mappings.ts) makes tables of the selected objects.                      *)
(*                                                                         *)
(* A database is a function from object ids to objects [columns, pk,       *)
(* constraints]; a constraint has a name, the object it refers to and its  *)
(* pairs of columns.  Lists the code sorts by a unique key are sets here,  *)
(* or functions of the key.  Types, enums and warnings are left out.       *)
(***************************************************************************)
EXTENDS Naturals, Sequences, SequencesExt, FiniteSets

CONSTANTS
  Camel,       \* to.camel, a function on column names
  CamelCase    \* the profile's camelCaseColumns

ASSUME NamingAssumption == CamelCase \in BOOLEAN

Names(pairs, side) == [i \in DOMAIN pairs |-> pairs[i][side]]

-----------------------------------------------------------------------------
(* The catalog                                                             *)

(* Rows in the order of their ordinals.  Which of two equal ones comes     *)
(* first, the code's comparison of names, is left open.                    *)
InOrder(rows) ==
  CHOOSE list \in Bijection(1..Cardinality(rows), rows) :
    \A i, j \in DOMAIN list : i < j => list[i].ordinal <= list[j].ordinal

(* Mutant: rows are grouped by the object they refer to.                   *)
Mut_GroupByTarget(rows) ==
  {[to |-> to,
    pairs |-> LET group == {r \in rows : r.to = to}
                  sorted == InOrder(group)
              IN [i \in DOMAIN sorted |-> << sorted[i].column, sorted[i].referenced >>]]
   : to \in {r.to : r \in rows}}

(* The rows of a constraint are a relationship.  Its name, which only      *)
(* sorts them, is left out.                                                *)
CreateRelationships(rows) ==
  {[to |-> g[2],
    pairs |-> LET group == {r \in rows : r.constraint = g[1] /\ r.to = g[2]}
                  sorted == InOrder(group)
              IN [i \in DOMAIN sorted |-> << sorted[i].column, sorted[i].referenced >>]]
   : g \in {<< r.constraint, r.to >> : r \in rows}}

MappingName(column) == IF CamelCase THEN Camel[column] ELSE column

(* An id twice, or a table with two primary keys: there is no catalog.     *)
Inconsistent(answer) ==
  \/ \E s, t \in answer : s.id = t.id /\ s # t
  \/ \E t \in answer : \E a, b \in t.primaryKeys : a.constraint # b.constraint

CreatePrimaryKey(rows) ==
  LET sorted == InOrder(rows)
  IN [i \in DOMAIN sorted |-> sorted[i].column]

CatalogObject(t) ==
  [columns |-> [i \in DOMAIN t.columns |->
                  [physicalName |-> t.columns[i], mappingName |-> MappingName(t.columns[i])]],
   primaryKey |-> CreatePrimaryKey(t.primaryKeys),
   relationships |-> CreateRelationships(t.foreignKeys)]

CreateSchemaCatalog(answer) ==
  [id \in {t.id : t \in answer} |-> CatalogObject(CHOOSE t \in answer : t.id = id)]

-----------------------------------------------------------------------------
(* A selection, a function from ids to whether they are selected           *)

Selected(scope) == {id \in DOMAIN scope : scope[id]}

(* Mutant: an object the selection does not know is selected.              *)
Mut_NewSelected(catalog, selection) ==
  [id \in DOMAIN catalog |-> id \notin DOMAIN selection \/ selection[id]]

(* The selection for the catalog as it is now: objects it does not know    *)
(* are not selected, those that are gone are dropped.                      *)
ReconcileSchemaSelection(catalog, selection) ==
  [id \in DOMAIN catalog |-> id \in DOMAIN selection /\ selection[id]]

-----------------------------------------------------------------------------
(* The runtime tables of the selected objects                              *)

ColumnsOf(object) == {object.columns[i].physicalName : i \in DOMAIN object.columns}

MappingNameIn(object, physical) ==
  (CHOOSE c \in ToSet(object.columns) : c.physicalName = physical).mappingName

(* The column a mapping name stands for, the last of those that share it.  *)
ColumnNamed(object, name) ==
  LET at == {i \in DOMAIN object.columns : object.columns[i].mappingName = name}
  IN object.columns[CHOOSE i \in at : \A j \in at : j <= i].physicalName

InScope(object, selected) == {r \in object.relationships : r.to \in selected}

(* A relationship or a key names a column the catalog does not have.       *)
Unmappable(catalog, selected) ==
  \E id \in selected :
    \/ ToSet(catalog[id].primaryKey) \ ColumnsOf(catalog[id]) # {}
    \/ \E r \in InScope(catalog[id], selected) :
         \/ ToSet(Names(r.pairs, 1)) \ ColumnsOf(catalog[id]) # {}
         \/ ToSet(Names(r.pairs, 2)) \ ColumnsOf(catalog[r.to]) # {}

CreateRuntimeTable(catalog, selected, id) ==
  LET object == catalog[id]
      named(o, physicals) == [i \in DOMAIN physicals |-> MappingNameIn(o, physicals[i])]
  IN [columns |-> [name \in {c.mappingName : c \in ToSet(object.columns)} |-> ColumnNamed(object, name)],
      pk |-> named(object, object.primaryKey),
      fk |-> {[to |-> r.to, from |-> named(object, Names(r.pairs, 1)),
               columns |-> named(catalog[r.to], Names(r.pairs, 2))] : r \in InScope(object, selected)}]

CreateRuntimeSchemaMappings(catalog, selection) ==
  LET selected == Selected(ReconcileSchemaSelection(catalog, selection))
  IN [id \in selected |-> CreateRuntimeTable(catalog, selected, id)]
=============================================================================
