--------------------------- MODULE Schema_proofs ---------------------------
(***************************************************************************)
(* Proofs about the two modules behind the schema tools.                   *)
(*                                                                         *)
(* About SchemaSelection, for every set of commands, servers and profiles, *)
(* every database and document, and any number of faults: what may be in   *)
(* the document and be exposed, and that a session's foreign keys are      *)
(* those of its database, whatever the driver.                             *)
(*                                                                         *)
(* About SchemaJoin, for every finite set of tables, every graph of        *)
(* foreign keys and any number of joins and targets: the plan of a join.   *)
(* The two have no state in common; Spec is SchemaSelection's and JoinSpec *)
(* is SchemaJoin's.                                                        *)
(***************************************************************************)
EXTENDS SchemaSelection, SchemaJoin, FiniteSetTheorems, FunctionTheorems, WellFoundedInduction,
        TLAPS

Saving == {"load", "write", "rename"}

(***************************************************************************)
(* The invariant is about the state of each process on its own, Good(p, s), *)
(* and the file.  A step of a process that does not touch the file only    *)
(* has to keep its own state good (LocalStep).                             *)
(***************************************************************************)
PriorIn(p, s) == IF profileOf[p] \notin DOMAIN s.prior THEN Nothing ELSE s.prior[profileOf[p]]
KnownIn(p, s, id) ==
  profileOf[p] \notin DOMAIN s.prior \/ (id \in DOMAIN PriorIn(p, s) /\ PriorIn(p, s)[id])

GoodShape(s) == DOMAIN s = DOMAIN Fresh /\ DOMAIN s.inspected \subseteq Objects

(* A profile that a command read is in the file still, or lost.            *)
GoodSave(s) ==
  s.pc \in {"write", "rename"} =>
    /\ file.whole
    /\ \A q \in Profiles \cap DOMAIN s.existing : q \in lost \/ q \in DOMAIN file.profiles

(* Nothing is exposed that was not chosen.                                 *)
GoodServer(s) ==
  /\ s.pc = "connect" => Selected(s.scope) \subseteq s.agreed
  /\ s.pc = "serving" => Named(s.tables) \subseteq s.agreed

(* In the review and after it only what was touched has changed.           *)
GoodReview(p, s) ==
  /\ s.pc \in {"review", "confirm"} =>
       \A id \in DOMAIN s.inspected \ s.touched : id \in s.selected <=> KnownIn(p, s, id)
  /\ s.pc \in Saving =>
       /\ \A id \in DOMAIN s.scope \ s.touched : s.scope[id] <=> KnownIn(p, s, id)
       /\ DOMAIN PriorIn(p, s) \ DOMAIN s.scope \subseteq s.confirmed

Good(p, s) ==
  /\ GoodShape(s)
  /\ p \in Commands => GoodSave(s)
  /\ p \in Servers => GoodServer(s)
  /\ p \in Reviewers => GoodReview(p, s)

World ==
  /\ profileOf \in [Processes -> Profiles] /\ database \in Databases
  /\ DOMAIN process = Processes /\ DOMAIN file = {"whole", "profiles"} /\ DOMAIN chosen = Profiles

(* A profile in the file is what its last save selected, unless another    *)
(* save undid that one.                                                    *)
FileChosen ==
  \A q \in Profiles \cap DOMAIN file.profiles : q \notin lost => Selected(file.profiles[q]) \subseteq chosen[q]

Inv == World /\ FileChosen /\ \A p \in Processes : Good(p, process[p])

-----------------------------------------------------------------------------
(* Lemmas                                                                  *)

(* A selection reconciled with a catalog selects nothing new and nothing   *)
(* that is not in the catalog.                                             *)
LEMMA ReconciledSelects ==
  ASSUME NEW catalog, NEW selection
  PROVE  /\ Selected(ReconcileSchemaSelection(catalog, selection)) \subseteq Selected(selection)
         /\ Selected(ReconcileSchemaSelection(catalog, selection)) \subseteq DOMAIN catalog
BY DEF Selected, ReconcileSchemaSelection

(* The runtime tables of a selection and their foreign keys name selected  *)
(* objects only.                                                           *)
LEMMA MappingsNamed ==
  ASSUME NEW catalog, NEW scope
  PROVE  Named(CreateRuntimeSchemaMappings(catalog, scope)) \subseteq Selected(scope)
<1> DEFINE selected == Selected(ReconcileSchemaSelection(catalog, scope))
           tables == CreateRuntimeSchemaMappings(catalog, scope)
<1>1. /\ DOMAIN tables = selected
      /\ \A id \in selected : tables[id] = CreateRuntimeTable(catalog, selected, id)
  BY DEF CreateRuntimeSchemaMappings
<1>2. ASSUME NEW id \in selected, NEW f \in CreateRuntimeTable(catalog, selected, id).fk
      PROVE  f.to \in selected
  <2>1. PICK r \in InScope(catalog[id], selected) : f.to = r.to
    BY <1>2 DEF CreateRuntimeTable
  <2> QED  BY <2>1 DEF InScope
<1> HIDE DEF tables, selected
<1>3. Named(tables) \subseteq selected
  BY <1>1, <1>2 DEF Named
<1> QED  BY <1>3, ReconciledSelects DEF tables, selected

LEMMA CatalogDomain ==
  ASSUME NEW p
  PROVE  DOMAIN Catalog(p) = Ids(p)
BY DEF Catalog, Ids

(* Whatever its driver, a database's catalog has only its objects.         *)
LEMMA CatalogObjects ==
  ASSUME NEW db \in Databases
  PROVE  DOMAIN CreateSchemaCatalog(GetSchema(db)) \subseteq Objects
<1>1. db.driver \in Drivers /\ DOMAIN db.objects \subseteq Objects
  BY SelectionAssumptions
<1>2. \A kind : /\ OfKind(db.objects, kind) \subseteq DOMAIN db.objects
                /\ PostgresNamed(db.objects, kind) \subseteq DOMAIN db.objects
                /\ {id \in DOMAIN db.objects : db.objects[id].kind = kind} \subseteq DOMAIN db.objects
  BY DEF OfKind, PostgresNamed, Inspected
<1>3. \A t \in PostgresSchema(db.objects) : t.id \in DOMAIN db.objects
  BY <1>2 DEF PostgresSchema, Answer
<1>4. \A t \in MssqlSchema(db.objects) : t.id \in DOMAIN db.objects
  BY <1>2 DEF MssqlSchema, Answer
<1>5. \A t \in DuckDBSchema(db.objects) : t.id \in DOMAIN db.objects
  BY <1>2 DEF DuckDBSchema, Answer
<1>6. \A t \in SqliteSchema(db.objects) : t.id \in DOMAIN db.objects
  BY <1>2 DEF SqliteSchema, Answer
<1>7. \A t \in GetSchema(db) : t.id \in DOMAIN db.objects
  <2>1. CASE db.driver = "postgres"
    BY <1>3, <2>1 DEF GetSchema
  <2>2. CASE db.driver = "mssql"
    BY <1>4, <2>2 DEF GetSchema
  <2>3. CASE db.driver = "duckdb"
    BY <1>5, <2>3 DEF GetSchema
  <2>4. CASE db.driver = "sqlite3"
    BY <1>6, <2>4 DEF GetSchema
  <2> QED  BY <1>1, <2>1, <2>2, <2>3, <2>4 DEF Drivers
<1> QED  BY <1>1, <1>7 DEF CreateSchemaCatalog

-----------------------------------------------------------------------------
(* Steps                                                                   *)

LEMMA LocalStep ==
  ASSUME Inv, UNCHANGED << profileOf, saved >>, database' \in Databases,
         NEW p \in Processes, NEW s, process' = [process EXCEPT ![p] = s], Good(p, s)
  PROVE  Inv'
<1>1. DOMAIN process' = Processes /\ process'[p] = s /\ \A x \in Processes \ {p} : process'[x] = process[x]
  BY DEF Inv, World
<1>2. World' /\ FileChosen'
  BY <1>1 DEF Inv, World, FileChosen, saved
<1>3. ASSUME NEW x \in Processes PROVE Good(x, process[x])'
  <2>1. Good(x, process'[x])
    BY <1>1 DEF Inv
  <2> QED
    BY <2>1 DEF Good, GoodShape, GoodSave, GoodServer, GoodReview, KnownIn, PriorIn, saved
<1> QED  BY <1>2, <1>3 DEF Inv

LEMMA EndsStep ==
  ASSUME Inv, UNCHANGED << profileOf, saved >>, database' \in Databases, NEW p \in Processes, Ends(p)
  PROVE  Inv'
<1>1. PICK s : s = [Fresh EXCEPT !.pc = "ended"]
  OBVIOUS
<1>2. Good(p, s)
  BY <1>1 DEF Good, GoodShape, GoodSave, GoodServer, GoodReview, Saving, Fresh, Nothing
<1> QED  BY <1>1, <1>2, LocalStep DEF Ends, Becomes

LEMMA InvInit == Init => Inv
<1> SUFFICES ASSUME Init PROVE Inv
  OBVIOUS
<1>1. World
  BY SelectionAssumptions DEF Init, World
<1>2. FileChosen
  BY DEF Init, FileChosen
<1>3. ASSUME NEW p \in Processes PROVE Good(p, process[p])
  BY DEF Init, Good, GoodShape, GoodSave, GoodServer, GoodReview, Saving, Fresh, Nothing
<1> QED  BY <1>1, <1>2, <1>3 DEF Inv

LEMMA InspectStep ==
  ASSUME Inv, NEW p \in Processes, Inspect(p)
  PROVE  Inv'
<1>1. /\ UNCHANGED << profileOf, saved >> /\ database' \in Databases
  BY DEF Inspect, Inv, World, world
<1>2. CASE Ends(p)
  BY <1>1, <1>2, EndsStep
<1> DEFINE catalog == CreateSchemaCatalog(GetSchema(database))
<1>3. CASE Becomes(p, [process[p] EXCEPT !.inspected = catalog, !.seen = database, !.pc = "inspected"])
  <2>1. PICK s : s = [process[p] EXCEPT !.inspected = catalog, !.seen = database, !.pc = "inspected"]
    OBVIOUS
  <2>2. DOMAIN process[p] = DOMAIN Fresh /\ {"pc", "inspected", "seen"} \subseteq DOMAIN Fresh
    BY DEF Inv, Good, GoodShape, Fresh
  <2>3. DOMAIN s = DOMAIN Fresh /\ s.pc = "inspected" /\ s.inspected = catalog
    BY <2>1, <2>2
  <2>4. database \in Databases
    BY DEF Inv, World
  <2>5. DOMAIN catalog \subseteq Objects
    BY <2>4, CatalogObjects
  <2>6. Good(p, s)
    BY <2>3, <2>5 DEF Good, GoodShape, GoodSave, GoodServer, GoodReview, Saving
  <2> QED  BY <1>1, <1>3, <2>1, <2>6, LocalStep DEF Becomes
<1> QED  BY <1>2, <1>3 DEF Inspect

LEMMA LoadPriorStep ==
  ASSUME Inv, NEW c \in Commands, LoadPrior(c)
  PROVE  Inv'
<1>1. /\ UNCHANGED << profileOf, saved >> /\ database' \in Databases /\ c \in Processes
  BY DEF LoadPrior, Inv, World, world, Processes
<1> DEFINE next == [process[c] EXCEPT !.prior = file.profiles,
                        !.selected = IF c \in Reviewers THEN Restored(c, file.profiles) ELSE {},
                        !.pc = IF c \in Reviewers THEN "review" ELSE "resolve"]
<1>2. CASE Ends(c)
  BY <1>1, <1>2, EndsStep
<1>3. CASE Becomes(c, next)
  <2>1. PICK s : s = next
    OBVIOUS
  <2>2. GoodShape(process[c]) /\ {"pc", "inspected", "prior", "selected"} \subseteq DOMAIN Fresh
    BY <1>1 DEF Inv, Good, Fresh
  <2>3. /\ DOMAIN s = DOMAIN Fresh /\ s.prior = file.profiles /\ s.inspected = process[c].inspected
        /\ s.selected = IF c \in Reviewers THEN Restored(c, file.profiles) ELSE {}
        /\ s.pc = IF c \in Reviewers THEN "review" ELSE "resolve"
    BY <2>1, <2>2 DEF GoodShape
  <2>4. GoodShape(s) /\ GoodSave(s)
    BY <2>2, <2>3 DEF GoodShape, GoodSave
  <2>5. c \notin Servers
    BY SelectionAssumptions
  <2>6. ASSUME c \in Reviewers PROVE GoodReview(c, s)
    BY <2>3, <2>6 DEF GoodReview, Saving, KnownIn, PriorIn, Restored, Ids
  <2>7. Good(c, s)
    BY <2>4, <2>5, <2>6 DEF Good
  <2> QED  BY <1>1, <1>3, <2>1, <2>7, LocalStep DEF Becomes
<1> QED  BY <1>2, <1>3 DEF LoadPrior

(* A command that resolved what to select, from a set that a review kept   *)
(* within what the user touched and confirmed.                             *)
LEMMA ResolvedStep ==
  ASSUME Inv, UNCHANGED << profileOf, saved >>, database' \in Databases,
         NEW c \in Commands, NEW confirmed, NEW selected, Resolved(c, confirmed, selected),
         c \in Reviewers =>
           /\ \A id \in Ids(c) \ process[c].touched : id \in selected <=> KnownIn(c, process[c], id)
           /\ RemovedObjects(c) \subseteq confirmed
  PROVE  Inv'
<1> DEFINE next == [Fresh EXCEPT !.pc = "load", !.scope = [id \in Ids(c) |-> id \in selected],
                                 !.prior = process[c].prior, !.touched = process[c].touched,
                                 !.confirmed = confirmed]
<1>1. c \in Processes /\ c \notin Servers
  BY SelectionAssumptions DEF Processes
<1>2. CASE Ends(c)
  BY <1>1, <1>2, EndsStep
<1>3. CASE Becomes(c, next)
  <2>1. PICK s : s = next
    OBVIOUS
  <2>2. /\ DOMAIN s = DOMAIN Fresh /\ s.pc = "load" /\ s.inspected = Nothing
        /\ s.scope = [id \in Ids(c) |-> id \in selected]
        /\ s.prior = process[c].prior /\ s.touched = process[c].touched /\ s.confirmed = confirmed
    BY <2>1 DEF Fresh
  <2>3. GoodShape(s) /\ GoodSave(s)
    BY <2>2 DEF GoodShape, GoodSave, Nothing
  <2>4. ASSUME c \in Reviewers PROVE GoodReview(c, s)
    <3>1. PriorIn(c, s) = PriorOf(c) /\ \A id : KnownIn(c, s, id) <=> KnownIn(c, process[c], id)
      BY <2>2 DEF PriorIn, PriorOf, FirstRun, KnownIn
    <3>2. DOMAIN s.scope = Ids(c) /\ \A id \in Ids(c) : s.scope[id] <=> id \in selected
      BY <2>2
    <3> QED  BY <2>2, <2>4, <3>1, <3>2 DEF GoodReview, Saving, RemovedObjects
  <2>5. Good(c, s)
    BY <1>1, <2>3, <2>4 DEF Good
  <2> QED  BY <1>1, <1>3, <2>1, <2>5, LocalStep DEF Becomes
<1> QED  BY <1>2, <1>3 DEF Resolved

LEMMA ResolveOverrideStep ==
  ASSUME Inv, NEW c \in Overrides, ResolveOverride(c)
  PROVE  Inv'
<1>1. /\ UNCHANGED << profileOf, saved >> /\ database' \in Databases /\ c \in Commands /\ c \in Processes
      /\ c \notin Reviewers
  BY SelectionAssumptions DEF ResolveOverride, Inv, World, world, Processes, Commands
<1>2. PICK r \in Requests :
        IF ValidRequest(c, r) /\ r.save
        THEN Resolved(c, {}, Included(c, r) \ Identities(r.exclude, Ids(c)))
        ELSE Ends(c)
  BY DEF ResolveOverride
<1>3. CASE Ends(c)
  BY <1>1, <1>3, EndsStep
<1>4. CASE Resolved(c, {}, Included(c, r) \ Identities(r.exclude, Ids(c)))
  <2>1. PICK selected : selected = Included(c, r) \ Identities(r.exclude, Ids(c))
    OBVIOUS
  <2> QED  BY <1>1, <1>4, <2>1, ResolvedStep
<1> QED  BY <1>2, <1>3, <1>4

(* A key in the list: what stays untouched stays as it was.                *)
LEMMA ShowsStep ==
  ASSUME Inv, NEW c \in Reviewers, NEW s, Shows(c, s),
         DOMAIN s = DOMAIN Fresh, s.pc = "review", s.inspected = process[c].inspected,
         s.prior = process[c].prior, process[c].touched \subseteq s.touched,
         \A id \in Ids(c) \ s.touched : id \in s.selected <=> id \in process[c].selected
  PROVE  Inv'
<1>1. /\ UNCHANGED << profileOf, saved >> /\ database' \in Databases /\ c \in Processes /\ c \notin Servers
      /\ process[c].pc = "review" /\ Becomes(c, s)
  BY SelectionAssumptions DEF Shows, Inv, World, world, Processes, Commands, At
<1>2. GoodShape(process[c]) /\ GoodReview(c, process[c])
  BY <1>1 DEF Inv, Good
<1>3. GoodShape(s) /\ GoodSave(s)
  BY <1>2 DEF GoodShape, GoodSave
<1>4. PriorIn(c, s) = PriorIn(c, process[c]) /\ \A id : KnownIn(c, s, id) <=> KnownIn(c, process[c], id)
  BY DEF PriorIn, KnownIn
<1>5. GoodReview(c, s)
  BY <1>1, <1>2, <1>4 DEF GoodReview, Saving, Ids
<1>6. Good(c, s)
  BY <1>1, <1>3, <1>5 DEF Good
<1> QED  BY <1>1, <1>6, LocalStep DEF Becomes

LEMMA ReviewSteps ==
  ASSUME Inv, NEW c \in Reviewers, ReviewStep(c)
  PROVE  Inv'
<1>1. /\ c \in Processes /\ c \in Commands /\ {"pc", "inspected", "prior", "selected", "touched", "filter", "search"} \subseteq DOMAIN Fresh
      /\ GoodShape(process[c]) /\ GoodReview(c, process[c]) /\ database \in Databases
  BY DEF Inv, Good, Processes, Commands, Fresh, World
<1>2. CASE ToggleObject(c)
  <2>1. PICK id \in Visible(c) :
          Shows(c, [process[c] EXCEPT !.selected = Toggled(@, {id}), !.touched = @ \cup {id}])
    BY <1>2 DEF ToggleObject
  <2>2. PICK s : s = [process[c] EXCEPT !.selected = Toggled(@, {id}), !.touched = @ \cup {id}]
    OBVIOUS
  <2>3. /\ DOMAIN s = DOMAIN Fresh /\ s.pc = process[c].pc /\ s.inspected = process[c].inspected
        /\ s.prior = process[c].prior /\ s.selected = Toggled(process[c].selected, {id})
        /\ s.touched = process[c].touched \cup {id}
    BY <1>1, <2>2 DEF GoodShape
  <2> QED  BY <2>1, <2>2, <2>3, ShowsStep DEF Shows, At, Toggled
<1>3. CASE ToggleVisible(c)
  <2> DEFINE next == [process[c] EXCEPT
                        !.selected = IF Visible(c) \subseteq @ THEN @ \ Visible(c) ELSE @ \cup Visible(c),
                        !.touched = @ \cup Visible(c)]
  <2>1. PICK s : s = next
    OBVIOUS
  <2>2. /\ DOMAIN s = DOMAIN Fresh /\ s.pc = process[c].pc /\ s.inspected = process[c].inspected
        /\ s.prior = process[c].prior /\ s.touched = process[c].touched \cup Visible(c)
        /\ s.selected \in {process[c].selected \ Visible(c), process[c].selected \cup Visible(c)}
    BY <1>1, <2>1 DEF GoodShape
  <2>3. Shows(c, s)
    BY <1>3, <2>1 DEF ToggleVisible
  <2> QED  BY <2>2, <2>3, ShowsStep DEF Shows, At
<1>4. CASE NextFilter(c)
  <2> DEFINE next == [process[c] EXCEPT !.filter = CASE @ = "all" -> "checked"
                                                     [] @ = "checked" -> "unchecked"
                                                     [] @ = "unchecked" -> "all"]
  <2>1. PICK s : s = next
    OBVIOUS
  <2>2. /\ DOMAIN s = DOMAIN Fresh /\ s.pc = process[c].pc /\ s.inspected = process[c].inspected
        /\ s.prior = process[c].prior /\ s.touched = process[c].touched /\ s.selected = process[c].selected
    BY <1>1, <2>1 DEF GoodShape
  <2>3. Shows(c, s)
    BY <1>4, <2>1 DEF NextFilter
  <2> QED  BY <2>2, <2>3, ShowsStep DEF Shows, At
<1>5. CASE Search(c)
  <2>1. PICK text \in Texts : Shows(c, [process[c] EXCEPT !.search = text])
    BY <1>5 DEF Search
  <2>2. PICK s : s = [process[c] EXCEPT !.search = text]
    OBVIOUS
  <2>3. /\ DOMAIN s = DOMAIN Fresh /\ s.pc = process[c].pc /\ s.inspected = process[c].inspected
        /\ s.prior = process[c].prior /\ s.touched = process[c].touched /\ s.selected = process[c].selected
    BY <1>1, <2>2 DEF GoodShape
  <2> QED  BY <2>1, <2>2, <2>3, ShowsStep DEF Shows, At
<1>6. CASE Cancel(c)
  BY <1>1, <1>6, EndsStep DEF Cancel, world
<1>7. CASE Enter(c)
  <2>1. UNCHANGED << profileOf, saved >> /\ database' \in Databases /\ process[c].pc = "review"
    BY <1>1, <1>7 DEF Enter, world, At
  <2>2. CASE RemovedObjects(c) # {}
    <3>1. PICK s : s = [process[c] EXCEPT !.pc = "confirm"]
      OBVIOUS
    <3>2. /\ DOMAIN s = DOMAIN Fresh /\ s.pc = "confirm" /\ s.inspected = process[c].inspected
          /\ s.prior = process[c].prior /\ s.touched = process[c].touched /\ s.selected = process[c].selected
      BY <1>1, <3>1 DEF GoodShape
    <3>3. Good(c, s)
      BY <1>1, <2>1, <3>2, SelectionAssumptions
      DEF Good, GoodShape, GoodSave, GoodReview, Saving, KnownIn, PriorIn, Processes
    <3> QED  BY <1>1, <1>7, <2>1, <2>2, <3>1, <3>3, LocalStep DEF Enter, Becomes
  <2>3. CASE RemovedObjects(c) = {}
    <3>1. PICK selected : selected = process[c].selected
      OBVIOUS
    <3>2. Resolved(c, {}, selected)
      BY <1>7, <2>3, <3>1 DEF Enter
    <3> QED  BY <1>1, <2>1, <2>3, <3>1, <3>2, ResolvedStep DEF GoodReview, Ids
  <2> QED  BY <2>2, <2>3
<1>8. CASE ConfirmRemoved(c)
  <2>1. /\ UNCHANGED << profileOf, saved >> /\ database' \in Databases /\ process[c].pc = "confirm"
        /\ Resolved(c, RemovedObjects(c), process[c].selected)
    BY <1>1, <1>8 DEF ConfirmRemoved, world, At
  <2>2. PICK selected : selected = process[c].selected
    OBVIOUS
  <2>3. PICK confirmed : confirmed = RemovedObjects(c)
    OBVIOUS
  <2>4. Resolved(c, confirmed, selected)
    BY <2>1, <2>2, <2>3
  <2> QED  BY <1>1, <2>1, <2>2, <2>3, <2>4, ResolvedStep DEF GoodReview, Ids
<1> QED  BY <1>2, <1>3, <1>4, <1>5, <1>6, <1>7, <1>8 DEF ReviewStep

LEMMA LoadExistingStep ==
  ASSUME Inv, NEW c \in Commands, LoadExisting(c)
  PROVE  Inv'
<1>1. /\ UNCHANGED << profileOf, saved >> /\ database' \in Databases /\ c \in Processes /\ c \notin Servers
      /\ process[c].pc = "load"
  BY SelectionAssumptions DEF LoadExisting, Inv, World, world, Processes, At
<1>2. CASE Ends(c)
  BY <1>1, <1>2, EndsStep
<1>3. CASE file.whole /\ Becomes(c, [process[c] EXCEPT !.existing = file.profiles, !.pc = "write"])
  <2>1. PICK s : s = [process[c] EXCEPT !.existing = file.profiles, !.pc = "write"]
    OBVIOUS
  <2>2. Good(c, process[c]) /\ {"pc", "existing"} \subseteq DOMAIN Fresh
    BY <1>1 DEF Inv, Fresh
  <2>3. /\ DOMAIN s = DOMAIN Fresh /\ s.pc = "write" /\ s.inspected = process[c].inspected
        /\ s.prior = process[c].prior /\ s.touched = process[c].touched /\ s.existing = file.profiles
        /\ s.scope = process[c].scope /\ s.confirmed = process[c].confirmed
    BY <2>1, <2>2 DEF Good, GoodShape
  <2>4. GoodShape(s) /\ GoodSave(s)
    BY <1>3, <2>2, <2>3 DEF Good, GoodShape, GoodSave
  <2>5. c \in Reviewers => GoodReview(c, s)
    BY <1>1, <2>2, <2>3 DEF Good, GoodReview, Saving, KnownIn, PriorIn
  <2>6. Good(c, s)
    BY <1>1, <2>4, <2>5 DEF Good
  <2> QED  BY <1>1, <1>3, <2>1, <2>6, LocalStep DEF Becomes
<1> QED  BY <1>2, <1>3 DEF LoadExisting

LEMMA WriteTemporaryStep ==
  ASSUME Inv, NEW c \in Commands, WriteTemporary(c)
  PROVE  Inv'
<1>1. /\ UNCHANGED << profileOf, saved >> /\ database' \in Databases /\ c \in Processes /\ c \notin Servers
      /\ process[c].pc = "write"
  BY SelectionAssumptions DEF WriteTemporary, Inv, World, world, Processes, At
<1>2. CASE Ends(c)
  BY <1>1, <1>2, EndsStep
<1>3. CASE Becomes(c, [process[c] EXCEPT !.pc = "rename"])
  <2>1. PICK s : s = [process[c] EXCEPT !.pc = "rename"]
    OBVIOUS
  <2>2. Good(c, process[c]) /\ "pc" \in DOMAIN Fresh
    BY <1>1 DEF Inv, Fresh
  <2>3. /\ DOMAIN s = DOMAIN Fresh /\ s.pc = "rename" /\ s.inspected = process[c].inspected
        /\ s.prior = process[c].prior /\ s.touched = process[c].touched /\ s.existing = process[c].existing
        /\ s.scope = process[c].scope /\ s.confirmed = process[c].confirmed
    BY <2>1, <2>2 DEF Good, GoodShape
  <2>4. GoodShape(s) /\ GoodSave(s)
    BY <1>1, <2>2, <2>3 DEF Good, GoodShape, GoodSave
  <2>5. c \in Reviewers => GoodReview(c, s)
    BY <1>1, <2>2, <2>3 DEF Good, GoodReview, Saving, KnownIn, PriorIn
  <2>6. Good(c, s)
    BY <1>1, <2>4, <2>5 DEF Good
  <2> QED  BY <1>1, <1>3, <2>1, <2>6, LocalStep DEF Becomes
<1> QED  BY <1>2, <1>3 DEF WriteTemporary

(* What a rename that succeeds leaves in the file.                         *)
LEMMA Replaces ==
  ASSUME Inv, NEW c \in Commands, Rename(c), file' # file
  PROVE  /\ process[c].pc = "rename" /\ Ends(c) /\ file'.whole = file.whole /\ DOMAIN file' = DOMAIN file
         /\ file'.profiles = Document(c)
         /\ chosen' = [chosen EXCEPT ![profileOf[c]] = Selected(process[c].scope)]
         /\ lost' = (lost \ {profileOf[c]}) \cup Overtaken(c)
         /\ DOMAIN Document(c) = DOMAIN process[c].existing \cup {profileOf[c]}
         /\ Document(c)[profileOf[c]] = process[c].scope
         /\ \A q \in DOMAIN process[c].existing \ {profileOf[c]} : Document(c)[q] = process[c].existing[q]
<1>1. DOMAIN file = {"whole", "profiles"}
  BY DEF Inv, World
<1> QED  BY <1>1 DEF Rename, saved, Document, At

LEMMA RenameStep ==
  ASSUME Inv, NEW c \in Commands, Rename(c)
  PROVE  Inv'
<1>1. /\ profileOf' = profileOf /\ database' = database /\ database \in Databases
      /\ c \in Processes /\ profileOf[c] \in Profiles /\ Ends(c) /\ process[c].pc = "rename"
  BY DEF Rename, Inv, World, world, Processes, At
<1>2. CASE UNCHANGED saved
  BY <1>1, <1>2, EndsStep
<1>3. CASE file' = [file EXCEPT !.profiles = Document(c)] /\ ~UNCHANGED saved
  <2> DEFINE mine == profileOf[c]
             existing == process[c].existing
  <2>1. /\ file'.whole = file.whole /\ DOMAIN file' = {"whole", "profiles"} /\ file'.profiles = Document(c)
        /\ chosen' = [chosen EXCEPT ![mine] = Selected(process[c].scope)]
        /\ lost' = (lost \ {mine}) \cup Overtaken(c)
        /\ DOMAIN Document(c) = DOMAIN existing \cup {mine}
        /\ Document(c)[mine] = process[c].scope
        /\ \A q \in DOMAIN existing \ {mine} : Document(c)[q] = existing[q]
    <3>1. DOMAIN file = {"whole", "profiles"}
      BY DEF Inv, World
    <3> QED  BY <1>3, <3>1 DEF Rename, Document
  <2>2. GoodSave(process[c])
    BY <1>1 DEF Inv, Good
  <2>3. DOMAIN chosen = Profiles
    BY DEF Inv, World
  <2>4. ASSUME NEW q \in Profiles \cap DOMAIN Document(c), q \notin lost'
        PROVE  Selected(Document(c)[q]) \subseteq chosen'[q]
    <3>1. CASE q = mine
      BY <1>1, <2>1, <2>3, <3>1
    <3>2. CASE q # mine
      <4>1. q \in DOMAIN existing /\ q \notin lost /\ q \notin Overtaken(c)
        BY <2>1, <2>4, <3>2
      <4>2. q \in DOMAIN file.profiles
        BY <1>1, <2>2, <4>1 DEF GoodSave
      <4>3. file.profiles[q] = existing[q]
        BY <3>2, <4>1, <4>2 DEF Overtaken
      <4>4. Selected(existing[q]) \subseteq chosen[q]
        BY <4>1, <4>2, <4>3 DEF Inv, FileChosen
      <4> QED  BY <2>1, <2>3, <3>2, <4>1, <4>4
    <3> QED  BY <3>1, <3>2
  <2>5. World' /\ FileChosen'
    <3>1. DOMAIN chosen' = Profiles
      BY <2>1, <2>3
    <3>2. DOMAIN process' = Processes
      BY <1>1 DEF Ends, Becomes, Inv, World
    <3>3. World'
      BY <1>1, <2>1, <3>1, <3>2 DEF Inv, World
    <3>4. FileChosen'
      BY <1>1, <2>1, <2>4 DEF FileChosen
    <3> QED  BY <3>3, <3>4
  <2>6. ASSUME NEW x \in Processes PROVE Good(x, process[x])'
    <3>1. PICK ended : ended = [Fresh EXCEPT !.pc = "ended"]
      OBVIOUS
    <3>2. process'[x] = IF x = c THEN ended ELSE process[x]
      BY <1>1, <3>1 DEF Ends, Becomes, Inv, World
    <3>3. CASE x = c
      <4>1. process'[x] = ended /\ ended.pc = "ended" /\ GoodShape(ended)
        BY <3>1, <3>2, <3>3 DEF GoodShape, Fresh, Nothing
      <4> QED  BY <4>1 DEF Good, GoodShape, GoodSave, GoodServer, GoodReview, Saving
    <3>4. CASE x # c
      <4>1. process'[x] = process[x] /\ Good(x, process[x])
        BY <3>2, <3>4 DEF Inv
      <4>2. x \in Commands => GoodSave(process[x])'
        <5> SUFFICES ASSUME x \in Commands, process[x].pc \in {"write", "rename"},
                            NEW q \in Profiles \cap DOMAIN process[x].existing, q \notin lost'
                     PROVE  q \in DOMAIN file'.profiles
          BY <2>1, <4>1 DEF GoodSave, Good
        <5>1. q \in lost \/ q \in DOMAIN file.profiles
          BY <4>1 DEF Good, GoodSave
        <5>2. CASE q = mine
          BY <2>1, <5>2
        <5>3. CASE q # mine
          BY <2>1, <5>1, <5>3 DEF Overtaken
        <5> QED  BY <5>2, <5>3
      <4>3. GoodShape(process[x])' /\ (x \in Servers => GoodServer(process[x])')
        BY <4>1 DEF Good, GoodShape, GoodServer
      <4>4. x \in Reviewers => GoodReview(x, process[x])'
        BY <1>1, <4>1 DEF Good, GoodReview, Saving, KnownIn, PriorIn
      <4> QED  BY <4>2, <4>3, <4>4 DEF Good
    <3> QED  BY <3>3, <3>4
  <2> QED  BY <2>5, <2>6 DEF Inv
<1> QED  BY <1>2, <1>3 DEF Rename

LEMMA LoadSelectionStep ==
  ASSUME Inv, NEW s \in Servers, LoadSelection(s)
  PROVE  Inv'
<1> DEFINE q == profileOf[s]
           selection == ReconcileSchemaSelection(Catalog(s), file.profiles[q])
<1>1. /\ UNCHANGED << profileOf, saved >> /\ database' \in Databases /\ s \in Processes
      /\ s \notin Commands /\ s \notin Reviewers /\ q \in Profiles
  BY SelectionAssumptions DEF LoadSelection, Inv, World, world, Processes, Commands
<1>2. CASE Ends(s)
  BY <1>1, <1>2, EndsStep
<1>3. CASE /\ q \in DOMAIN file.profiles
           /\ Becomes(s, [process[s] EXCEPT !.scope = selection, !.pc = "connect",
                                            !.agreed = IF q \in lost THEN Objects ELSE chosen[q]])
  <2>1. PICK t : t = [process[s] EXCEPT !.scope = selection, !.pc = "connect",
                                        !.agreed = IF q \in lost THEN Objects ELSE chosen[q]]
    OBVIOUS
  <2>2. GoodShape(process[s]) /\ {"pc", "scope", "agreed"} \subseteq DOMAIN Fresh
    BY <1>1 DEF Inv, Good, Fresh
  <2>3. /\ DOMAIN t = DOMAIN Fresh /\ t.pc = "connect" /\ t.inspected = process[s].inspected
        /\ t.scope = selection /\ t.agreed = IF q \in lost THEN Objects ELSE chosen[q]
    BY <2>1, <2>2 DEF GoodShape
  <2>4. Selected(selection) \subseteq Selected(file.profiles[q]) /\ Selected(selection) \subseteq Ids(s)
    BY ReconciledSelects, CatalogDomain
  <2>5. Selected(selection) \subseteq t.agreed
    BY <1>1, <1>3, <2>2, <2>3, <2>4 DEF Inv, FileChosen, GoodShape, Ids
  <2> HIDE DEF selection
  <2>6. Good(s, t)
    BY <1>1, <2>2, <2>3, <2>5 DEF Good, GoodShape, GoodServer
  <2> QED  BY <1>1, <1>3, <2>1, <2>6, LocalStep DEF Becomes
<1> QED  BY <1>2, <1>3 DEF LoadSelection

LEMMA StartSessionStep ==
  ASSUME Inv, NEW s \in Servers, StartSession(s)
  PROVE  Inv'
<1> DEFINE tables == CreateRuntimeSchemaMappings(Catalog(s), process[s].scope)
<1>1. /\ UNCHANGED << profileOf, saved >> /\ database' \in Databases /\ s \in Processes
      /\ s \notin Commands /\ s \notin Reviewers /\ process[s].pc = "connect"
  BY SelectionAssumptions DEF StartSession, Inv, World, world, Processes, Commands, At
<1>2. CASE Ends(s)
  BY <1>1, <1>2, EndsStep
<1>3. CASE Becomes(s, [process[s] EXCEPT !.tables = tables, !.pc = "serving"])
  <2>1. PICK t : t = [process[s] EXCEPT !.tables = tables, !.pc = "serving"]
    OBVIOUS
  <2>2. GoodShape(process[s]) /\ GoodServer(process[s]) /\ {"pc", "tables"} \subseteq DOMAIN Fresh
    BY <1>1 DEF Inv, Good, Fresh
  <2>3. /\ DOMAIN t = DOMAIN Fresh /\ t.pc = "serving" /\ t.inspected = process[s].inspected
        /\ t.tables = tables /\ t.agreed = process[s].agreed
    BY <2>1, <2>2 DEF GoodShape
  <2>4. Named(tables) \subseteq t.agreed
    BY <1>1, <2>2, <2>3, MappingsNamed DEF GoodServer
  <2> HIDE DEF tables
  <2>5. Good(s, t)
    BY <1>1, <2>2, <2>3, <2>4 DEF Good, GoodShape, GoodServer
  <2> QED  BY <1>1, <1>3, <2>1, <2>5, LocalStep DEF Becomes
<1> QED  BY <1>2, <1>3 DEF StartSession

(* A step that leaves processes and the file alone.                        *)
LEMMA IdleStep ==
  ASSUME Inv, UNCHANGED << profileOf, saved, process >>, database' \in Databases
  PROVE  Inv'
BY DEF Inv, World, FileChosen, Good, GoodShape, GoodSave, GoodServer, GoodReview, KnownIn, PriorIn, saved

LEMMA InvNext == Inv /\ [Next]_vars => Inv'
<1> SUFFICES ASSUME Inv, [Next]_vars PROVE Inv'
  OBVIOUS
<1>1. CASE UNCHANGED vars
  <2>1. database \in Databases
    BY DEF Inv, World
  <2> QED  BY <1>1, <2>1, IdleStep DEF vars, world
<1>2. CASE \E p \in Processes : Inspect(p)
  BY <1>2, InspectStep
<1>3. ASSUME NEW c \in Commands, LoadPrior(c) \/ SaveStep(c) PROVE Inv'
  <2>1. CASE Killed(c)
    <3>1. UNCHANGED << profileOf, saved >> /\ database' \in Databases /\ Ends(c) /\ c \in Processes
      BY <2>1 DEF Killed, world, Inv, World, Processes
    <3> QED  BY <3>1, EndsStep
  <2> QED  BY <1>3, <2>1, LoadPriorStep, LoadExistingStep, WriteTemporaryStep, RenameStep DEF SaveStep
<1>4. CASE \E c \in Reviewers : ReviewStep(c)
  BY <1>4, ReviewSteps
<1>5. CASE \E c \in Overrides : ResolveOverride(c)
  BY <1>5, ResolveOverrideStep
<1>6. CASE \E s \in Servers : LoadSelection(s) \/ StartSession(s)
  BY <1>6, LoadSelectionStep, StartSessionStep
<1>7. CASE ChangeDatabase
  BY <1>7, IdleStep DEF ChangeDatabase
<1> QED  BY <1>1, <1>2, <1>3, <1>4, <1>5, <1>6, <1>7 DEF Next

LEMMA Invariant == Spec => []Inv
BY InvInit, InvNext, PTL DEF Spec

-----------------------------------------------------------------------------
(* Theorems                                                                *)

(* Whatever is created, dropped or selected while it starts, a server has  *)
(* tables of selected objects only, foreign keys' targets included.        *)
THEOREM ExposedWasChosenCorrect == Spec => []ExposedWasChosen
<1>1. Inv => ExposedWasChosen
  BY DEF Inv, Good, GoodServer, ExposedWasChosen, At, Processes
<1> QED  BY <1>1, Invariant, PTL

(* No sequence of keys in the review changes the selection of an object    *)
(* that none of them touched.                                              *)
THEOREM UntouchedKeptCorrect == Spec => []UntouchedKept
<1>1. Inv => UntouchedKept
  <2> SUFFICES ASSUME Inv, NEW c \in Reviewers, process[c].pc \in Saving,
                      NEW id \in DOMAIN process[c].scope \ process[c].touched
               PROVE  process[c].scope[id] <=> FirstRun(c) \/ (id \in DOMAIN PriorOf(c) /\ PriorOf(c)[id])
    BY DEF UntouchedKept, Saving
  <2>1. GoodReview(c, process[c])
    BY DEF Inv, Good, Processes, Commands
  <2> QED  BY <2>1 DEF GoodReview, KnownIn, PriorIn, PriorOf, FirstRun
<1> QED  BY <1>1, Invariant, PTL

(* The file changes only when a command renames its document over it.      *)
LEMMA OnlyRenames ==
  ASSUME [Next]_vars, file' # file
  PROVE  \E c \in Commands : Rename(c)
BY DEF Next, vars, saved, Inspect, LoadPrior, SaveStep, LoadExisting, WriteTemporary, Killed, ReviewStep,
       ToggleObject, ToggleVisible, NextFilter, Search, Cancel, Enter, ConfirmRemoved, Shows, ResolveOverride,
       LoadSelection, StartSession, ChangeDatabase

(* A save keeps every other profile that was not saved since the document  *)
(* was read, however saves overlap.                                        *)
THEOREM SaveKeepsOthersCorrect == Spec => SaveKeepsOthers
<1> DEFINE Keeps ==
      file.whole /\ \E c \in Commands :
        /\ At(c, "rename")
        /\ \A q \in DOMAIN file.profiles \ {profileOf[c]} :
             (q \in DOMAIN file'.profiles /\ file'.profiles[q] = file.profiles[q]) \/ q \in lost'
<1>1. Inv /\ [Next]_vars => [Keeps]_file
  <2> SUFFICES ASSUME Inv, [Next]_vars, file' # file PROVE Keeps
    OBVIOUS
  <2>1. PICK c \in Commands : Rename(c)
    BY OnlyRenames
  <2>2. /\ process[c].pc = "rename" /\ file'.profiles = Document(c)
        /\ lost' = (lost \ {profileOf[c]}) \cup Overtaken(c)
        /\ DOMAIN Document(c) = DOMAIN process[c].existing \cup {profileOf[c]}
        /\ \A q \in DOMAIN process[c].existing \ {profileOf[c]} : Document(c)[q] = process[c].existing[q]
    BY <2>1, Replaces
  <2>3. file.whole
    BY <2>2 DEF Inv, Good, GoodSave, Processes
  <2>4. ASSUME NEW q \in DOMAIN file.profiles \ {profileOf[c]}, q \notin lost'
        PROVE  q \in DOMAIN file'.profiles /\ file'.profiles[q] = file.profiles[q]
    <3>1. q \in DOMAIN process[c].existing /\ file.profiles[q] = process[c].existing[q]
      BY <2>2, <2>4 DEF Overtaken
    <3> QED  BY <2>2, <3>1
  <2>5. At(c, "rename")
    BY <2>2 DEF At
  <2> QED  BY <2>3, <2>4, <2>5
<1> QED  BY <1>1, Invariant, PTL DEF Spec, SaveKeepsOthers

(* A review removes an object from a selection only when the user agreed.  *)
THEOREM PrunedWasConfirmedCorrect == Spec => PrunedWasConfirmed
<1> DEFINE Confirmed ==
      \A c \in Reviewers : At(c, "rename") /\ file' # file /\ process'[c].pc = "ended" /\ ~FirstRun(c)
        /\ profileOf[c] \in DOMAIN file.profiles =>
        LET before == file.profiles[profileOf[c]]
        IN before = PriorOf(c) =>
             DOMAIN before \ DOMAIN file'.profiles[profileOf[c]] \subseteq process[c].confirmed
<1>1. Inv /\ [Next]_vars => [Confirmed]_vars
  <2> SUFFICES ASSUME Inv, [Next]_vars, NEW c \in Reviewers, process[c].pc = "rename", file' # file,
                      process'[c].pc = "ended", file.profiles[profileOf[c]] = PriorOf(c)
               PROVE  DOMAIN PriorOf(c) \ DOMAIN file'.profiles[profileOf[c]] \subseteq process[c].confirmed
    BY DEF At
  <2>1. PICK d \in Commands : Rename(d)
    BY OnlyRenames
  <2>2. Ends(d) /\ file'.profiles = Document(d) /\ Document(d)[profileOf[d]] = process[d].scope
    BY <2>1, Replaces
  <2>3. d = c
    <3>1. d # c => process'[c] = process[c]
      BY <2>2 DEF Ends, Becomes, Inv, World, Processes, Commands
    <3> QED  BY <3>1
  <2>4. GoodReview(c, process[c])
    BY DEF Inv, Good, Processes, Commands
  <2> QED  BY <2>2, <2>3, <2>4 DEF GoodReview, Saving, PriorIn, PriorOf, FirstRun
<1> QED  BY <1>1, Invariant, PTL DEF Spec, PrunedWasConfirmed

-----------------------------------------------------------------------------
(* Rows sorted by their ordinals                                           *)

LEMMA SmallestNat ==
  ASSUME NEW S \in SUBSET Nat, S # {}
  PROVE  \E i \in S : \A j \in S : i <= j
<1> DEFINE less == {p \in Nat \X Nat : p[1] < p[2]}
<1>1. IsWellFoundedOn(less, Nat)
  BY NatLessThanWellFounded DEF OpToRel
<1>2. PICK i \in S : \A j \in S : ~(<< j, i >> \in less)
  BY <1>1, WFMin
<1>3. ASSUME NEW j \in S PROVE i <= j
  <2>1. i \in Nat /\ j \in Nat /\ (j < i => << j, i >> \in less)
    OBVIOUS
  <2> QED
    BY <1>2, <2>1
<1> QED
  BY <1>3

(* Rows with the ordinals 1 to n, each once, are sorted by them.           *)
Numbered(rows, n, place) ==
  /\ n \in Nat /\ place \in [1..n -> rows]
  /\ \A i \in 1..n : place[i].ordinal = i
  /\ \A r \in rows : \E i \in 1..n : r = place[i]

LEMMA InOrderSorts ==
  ASSUME NEW rows, NEW n, NEW place, Numbered(rows, n, place)
  PROVE  InOrder(rows) \in [1..n -> rows] /\ \A i \in 1..n : InOrder(rows)[i] = place[i]
<1> USE DEF Numbered
<1>1. place \in Bijection(1..n, rows)
  <2>1. \A i, j \in 1..n : place[i] = place[j] => i = j
    OBVIOUS
  <2>2. \A r \in rows : \E i \in 1..n : place[i] = r
    OBVIOUS
  <2> QED
    BY <2>1, <2>2, Fun_IsBij
<1>2. Cardinality(rows) = n
  BY <1>1, FS_CountingElements DEF ExistsBijection
<1>3. \A i, j \in DOMAIN place : i < j => place[i].ordinal <= place[j].ordinal
  OBVIOUS
<1> DEFINE list == InOrder(rows)
<1>4. list \in Bijection(1..n, rows) /\ \A i, j \in DOMAIN list : i < j => list[i].ordinal <= list[j].ordinal
  BY <1>1, <1>2, <1>3 DEF InOrder
<1> HIDE DEF list
<1>5. list \in [1..n -> rows]
  BY ONLY <1>4, Fun_BijectionProperties
<1>6. \A i, j \in 1..n : list[i] = list[j] => i = j
  BY ONLY <1>4, Fun_BijectionProperties
<1>7. \A r \in rows : \E i \in 1..n : list[i] = r
  BY ONLY <1>4 DEF Bijection, Surjection
<1>8. \A i \in 1..n : list[i].ordinal \in 1..n /\ place[list[i].ordinal] = list[i]
  BY <1>5
<1>9. ASSUME NEW i \in 1..n, \A k \in 1..n : k < i => list[k].ordinal = k, list[i].ordinal # i PROVE FALSE
  <2>1. PICK j \in 1..n : list[j] = place[i]
    BY <1>7
  <2>2. list[j].ordinal = i /\ j # i
    BY <1>9, <2>1
  <2>3. i < j
    BY <1>9, <2>2
  <2>4. list[i].ordinal <= i
    BY <1>4, <1>5, <2>2, <2>3
  <2>5. list[i].ordinal \in 1..n /\ list[i].ordinal < i
    BY <1>8, <1>9, <2>4
  <2>6. list[list[i].ordinal].ordinal = list[i].ordinal
    BY <1>9, <2>5
  <2>7. list[list[i].ordinal] = list[i]
    BY <1>8, <2>5, <2>6
  <2> QED
    BY <1>6, <2>5, <2>7
<1>10. \A i \in 1..n : list[i].ordinal = i
  <2> DEFINE wrong == {i \in 1..n : list[i].ordinal # i}
  <2> SUFFICES ASSUME wrong # {} PROVE FALSE
    OBVIOUS
  <2>1. wrong \in SUBSET Nat
    OBVIOUS
  <2> HIDE DEF wrong
  <2>2. PICK i \in wrong : \A j \in wrong : i <= j
    BY <2>1, SmallestNat
  <2>3. \A k \in 1..n : k < i => k \notin wrong
    BY <2>1, <2>2
  <2> QED
    BY <1>9, <2>2, <2>3 DEF wrong
<1>11. \A i \in 1..n : list[i] = place[i]
  BY <1>8, <1>10
<1> QED
  BY <1>5, <1>11 DEF list

(* What introspection shows of a foreign key: a row for each column.       *)
Shown(db, foreign, i) ==
  IF db.driver = "sqlite3" /\ foreign.implicit THEN Null
  ELSE db.objects[foreign.to].keys[foreign.key][foreign.at[i]]

RowOf(db, id, name, i, via) ==
  [constraint |-> name, ordinal |-> i, column |-> db.objects[id].foreign[name].columns[i],
   to |-> db.objects[id].foreign[name].to, referenced |-> Shown(db, db.objects[id].foreign[name], i), via |-> via]

RowsOf(db, id, via) ==
  {RowOf(db, id, row[1], row[2], via) : row \in ColumnRows(db.objects[id].foreign)}

PairsOf(db, foreign) == [i \in DOMAIN foreign.columns |-> << foreign.columns[i], Shown(db, foreign, i) >>]

(* A foreign key and its target have as many columns, all in their tables. *)
LEMMA ForeignFacts ==
  ASSUME NEW db, WellFormed(db), NEW id \in DOMAIN db.objects, NEW name \in DOMAIN db.objects[id].foreign
  PROVE  LET foreign == db.objects[id].foreign[name] IN
         /\ Len(foreign.columns) \in Nat /\ Len(foreign.columns) >= 1
         /\ DOMAIN foreign.columns = 1..Len(foreign.columns) /\ DOMAIN foreign.at = DOMAIN foreign.columns
         /\ foreign.to \in DOMAIN db.objects /\ foreign.key \in DOMAIN db.objects[foreign.to].keys
         /\ \A i \in DOMAIN foreign.at : foreign.at[i] \in DOMAIN db.objects[foreign.to].keys[foreign.key]
<1> DEFINE foreign == db.objects[id].foreign[name]
<1>1. /\ foreign.columns \in Seq(ToSet(foreign.columns)) \ {<< >>}
      /\ DOMAIN foreign.at = DOMAIN foreign.columns
      /\ foreign.to \in DOMAIN db.objects /\ foreign.key \in DOMAIN db.objects[foreign.to].keys
      /\ ToSet(foreign.at) \subseteq DOMAIN db.objects[foreign.to].keys[foreign.key]
  BY DEF WellFormed
<1> HIDE DEF foreign
<1>2. \A i \in DOMAIN foreign.at : foreign.at[i] \in ToSet(foreign.at)
  BY DEF ToSet
<1>3. Len(foreign.columns) \in Nat /\ Len(foreign.columns) >= 1 /\ DOMAIN foreign.columns = 1..Len(foreign.columns)
  BY <1>1
<1>4. \A i \in DOMAIN foreign.at : foreign.at[i] \in DOMAIN db.objects[foreign.to].keys[foreign.key]
  BY <1>1, <1>2
<1> QED
  BY <1>1, <1>3, <1>4 DEF foreign

(* The fields of such a row.                                               *)
LEMMA RowOfFacts ==
  ASSUME NEW db, NEW id, NEW name, NEW i, NEW via
  PROVE  LET row == RowOf(db, id, name, i, via) IN
         /\ row.constraint = name /\ row.ordinal = i /\ row.to = db.objects[id].foreign[name].to
         /\ row.column = db.objects[id].foreign[name].columns[i]
         /\ row.referenced = Shown(db, db.objects[id].foreign[name], i)
BY DEF RowOf

(* The rows of a foreign key, grouped and sorted, are the foreign key.     *)
OneGroup(db, id, via, name, group) ==
  /\ WellFormed(db) /\ id \in DOMAIN db.objects /\ name \in DOMAIN db.objects[id].foreign
  /\ group = {r \in RowsOf(db, id, via) : r.constraint = name /\ r.to = db.objects[id].foreign[name].to}

LEMMA GroupSorted ==
  ASSUME NEW db, NEW id, NEW via, NEW name, NEW group, OneGroup(db, id, via, name, group)
  PROVE  [i \in DOMAIN InOrder(group) |-> << InOrder(group)[i].column, InOrder(group)[i].referenced >>] =
         PairsOf(db, db.objects[id].foreign[name])
<1> DEFINE foreign == db.objects[id].foreign[name]
           n == Len(foreign.columns)
           place == [i \in 1..n |-> RowOf(db, id, name, i, via)]
<1> USE DEF OneGroup
<1>1. n \in Nat /\ DOMAIN foreign.columns = 1..n
  BY ForeignFacts
<1>2. \A x \in DOMAIN db.objects[id].foreign : \A i \in DOMAIN db.objects[id].foreign[x].columns :
        RowOf(db, id, x, i, via) \in RowsOf(db, id, via)
  <2> SUFFICES ASSUME NEW x \in DOMAIN db.objects[id].foreign, NEW i \in DOMAIN db.objects[id].foreign[x].columns
               PROVE  RowOf(db, id, x, i, via) \in RowsOf(db, id, via)
    OBVIOUS
  <2>1. << x, i >> \in ColumnRows(db.objects[id].foreign)
    BY DEF ColumnRows
  <2>2. << x, i >>[1] = x /\ << x, i >>[2] = i
    OBVIOUS
  <2> QED
    BY <2>1, <2>2 DEF RowsOf
<1>3. \A r \in RowsOf(db, id, via) :
        \E x \in DOMAIN db.objects[id].foreign : \E i \in DOMAIN db.objects[id].foreign[x].columns :
          r = RowOf(db, id, x, i, via)
  BY DEF RowsOf, ColumnRows
<1>4. \A i \in 1..n : RowOf(db, id, name, i, via) \in group
  BY <1>1, <1>2, RowOfFacts
<1>5. \A r \in group : \E i \in 1..n : r = RowOf(db, id, name, i, via)
  BY <1>1, <1>3, RowOfFacts
<1> HIDE DEF n
<1>6. place \in [1..n -> group] /\ \A i \in 1..n : place[i] = RowOf(db, id, name, i, via)
  BY <1>4
<1>7. (\A i \in 1..n : place[i].ordinal = i) /\ \A r \in group : \E i \in 1..n : r = place[i]
  BY <1>5, <1>6, RowOfFacts
<1> HIDE DEF place
<1>8. InOrder(group) \in [1..n -> group] /\ \A i \in 1..n : InOrder(group)[i] = place[i]
  <2>1. n \in Nat /\ place \in [1..n -> group]
    BY <1>1, <1>6
  <2>2. \A i \in 1..n : place[i].ordinal = i
    BY <1>7
  <2>3. \A r \in group : \E i \in 1..n : r = place[i]
    BY <1>7
  <2>4. Numbered(group, n, place)
    BY <2>1, <2>2, <2>3 DEF Numbered
  <2> HIDE DEF foreign
  <2> QED
    BY ONLY <2>4, InOrderSorts
<1>9. DOMAIN InOrder(group) = DOMAIN foreign.columns
  BY <1>1, <1>8
<1>10. ASSUME NEW i \in DOMAIN foreign.columns
       PROVE  InOrder(group)[i].column = foreign.columns[i] /\ InOrder(group)[i].referenced = Shown(db, foreign, i)
  <2>1. InOrder(group)[i] = RowOf(db, id, name, i, via)
    BY <1>1, <1>6, <1>8
  <2> QED
    BY <2>1, RowOfFacts
<1> QED
  BY <1>9, <1>10 DEF PairsOf

(* So a table's relationships are its foreign keys.                        *)
LEMMA RelationshipsFaithful ==
  ASSUME NEW db, WellFormed(db), NEW id \in DOMAIN db.objects, NEW via
  PROVE  CreateRelationships(RowsOf(db, id, via)) =
         {[to |-> foreign.to, pairs |-> PairsOf(db, foreign)]
          : foreign \in {db.objects[id].foreign[name] : name \in DOMAIN db.objects[id].foreign}}
<1> DEFINE rows == RowsOf(db, id, via)
           all == db.objects[id].foreign
           groups == {<< r.constraint, r.to >> : r \in rows}
           groupOf(g) == {r \in rows : r.constraint = g[1] /\ r.to = g[2]}
           made(g) == [to |-> g[2], pairs |-> [i \in DOMAIN InOrder(groupOf(g)) |->
                         << InOrder(groupOf(g))[i].column, InOrder(groupOf(g))[i].referenced >>]]
           shown(name) == [to |-> all[name].to, pairs |-> PairsOf(db, all[name])]
<1>1. CreateRelationships(rows) = {made(g) : g \in groups}
  BY DEF CreateRelationships
<1>2. ASSUME NEW name \in DOMAIN all
      PROVE  << name, all[name].to >> \in groups /\ made(<< name, all[name].to >>) = shown(name)
  <2>1. << name, 1 >> \in ColumnRows(all)
    <3>1. 1 \in DOMAIN all[name].columns
      <4>1. Len(all[name].columns) \in Nat /\ Len(all[name].columns) >= 1
        BY ForeignFacts
      <4>2. DOMAIN all[name].columns = 1..Len(all[name].columns)
        BY ForeignFacts
      <4> QED
        BY ONLY <4>1, <4>2
    <3> QED
      BY <3>1 DEF ColumnRows
  <2>2. RowOf(db, id, name, 1, via) \in rows
    <3>1. << name, 1 >>[1] = name /\ << name, 1 >>[2] = 1
      OBVIOUS
    <3> QED
      BY <2>1, <3>1 DEF RowsOf
  <2>3. << name, all[name].to >> \in groups
    BY <2>2, RowOfFacts
  <2>4. << name, all[name].to >>[1] = name /\ << name, all[name].to >>[2] = all[name].to
    OBVIOUS
  <2>5. groupOf(<< name, all[name].to >>) = {r \in rows : r.constraint = name /\ r.to = all[name].to}
    BY <2>4
  <2>6. made(<< name, all[name].to >>).pairs = PairsOf(db, all[name])
    <3>1. PICK group : group = groupOf(<< name, all[name].to >>)
      OBVIOUS
    <3>2. [i \in DOMAIN InOrder(group) |-> << InOrder(group)[i].column, InOrder(group)[i].referenced >>] =
          PairsOf(db, all[name])
      <4>1. OneGroup(db, id, via, name, group)
        BY <2>5, <3>1 DEF OneGroup
      <4> QED
        BY ONLY <4>1, GroupSorted
    <3> QED
      BY <3>1, <3>2
  <2> QED
    BY <2>3, <2>4, <2>6
<1>3. ASSUME NEW g \in groups PROVE \E name \in DOMAIN all : g = << name, all[name].to >>
  <2>1. PICK r \in rows : g = << r.constraint, r.to >>
    OBVIOUS
  <2>2. PICK row \in ColumnRows(all) : r = RowOf(db, id, row[1], row[2], via)
    BY DEF RowsOf
  <2>3. row[1] \in DOMAIN all
    BY DEF ColumnRows
  <2> QED
    BY <2>1, <2>2, <2>3, RowOfFacts
<1> HIDE DEF rows, groups, made, shown
<1>4. {made(g) : g \in groups} = {shown(name) : name \in DOMAIN all}
  <2>1. ASSUME NEW g \in groups PROVE \E name \in DOMAIN all : made(g) = shown(name)
    BY <1>2, <1>3
  <2>2. ASSUME NEW name \in DOMAIN all PROVE \E g \in groups : made(g) = shown(name)
    BY <1>2
  <2> HIDE DEF all
  <2> QED
    BY <2>1, <2>2
<1> HIDE DEF all
<1> USE DEF shown
<1>5. {shown(name) : name \in DOMAIN all} =
      {[to |-> foreign.to, pairs |-> PairsOf(db, foreign)] : foreign \in {all[name] : name \in DOMAIN all}}
  OBVIOUS
<1> QED
  BY <1>1, <1>4, <1>5 DEF rows, all

-----------------------------------------------------------------------------
(* The drivers' answers                                                    *)

(* The names of constraints differ within a schema.                        *)
NamesDiffer(db) ==
  \A a, b \in DOMAIN db.objects :
    a # b /\ SchemaOf[a] = SchemaOf[b] => Constraints(db.objects[a]) \cap Constraints(db.objects[b]) = {}

(* Then the joins by name and schema find the table of a foreign key and   *)
(* the table it refers to, and only those.                                 *)
LEMMA TableFound ==
  ASSUME NEW db, NamesDiffer(db), NEW id \in DOMAIN db.objects, NEW name \in DOMAIN db.objects[id].foreign
  PROVE  HaveForeign(db.objects, SchemaOf[id], name) = {id}
<1>1. ASSUME NEW o \in HaveForeign(db.objects, SchemaOf[id], name) PROVE o = id
  <2>1. /\ o \in DOMAIN db.objects /\ SchemaOf[o] = SchemaOf[id]
        /\ name \in Constraints(db.objects[o]) /\ name \in Constraints(db.objects[id])
    BY DEF HaveForeign, Constraints
  <2> QED
    BY <2>1 DEF NamesDiffer
<1>2. id \in HaveForeign(db.objects, SchemaOf[id], name)
  BY DEF HaveForeign
<1> QED
  BY <1>1, <1>2

(* Likewise for the key a foreign key refers to.                           *)
KeyPlace(db, to, key, place) ==
  /\ NamesDiffer(db) /\ to \in DOMAIN db.objects /\ key \in DOMAIN db.objects[to].keys
  /\ place \in DOMAIN db.objects[to].keys[key]

LEMMA KeyFound ==
  ASSUME NEW db, NEW to, NEW key, NEW place, KeyPlace(db, to, key, place)
  PROVE  /\ HaveColumn(db.objects, SchemaOf[to], key, place) = {to}
         /\ KeyColumns(db.objects[to], key) = db.objects[to].keys[key]
<1> USE DEF KeyPlace
<1>1. KeyColumns(db.objects[to], key) = db.objects[to].keys[key]
  BY DEF KeyColumns
<1>2. ASSUME NEW o \in HaveColumn(db.objects, SchemaOf[to], key, place) PROVE o = to
  <2>1. /\ o \in DOMAIN db.objects /\ SchemaOf[o] = SchemaOf[to]
        /\ key \in Constraints(db.objects[o]) /\ key \in Constraints(db.objects[to])
    BY DEF HaveColumn, Constraints
  <2> QED
    BY <2>1 DEF NamesDiffer
<1>3. to \in HaveColumn(db.objects, SchemaOf[to], key, place)
  BY <1>1 DEF HaveColumn, Constraints
<1> QED
  BY <1>1, <1>2, <1>3

(* Joined with its key, a column of a foreign key makes its row.           *)
ForeignPlace(db, id, name, i) ==
  /\ WellFormed(db) /\ NamesDiffer(db) /\ db.driver # "sqlite3" /\ id \in DOMAIN db.objects
  /\ name \in DOMAIN db.objects[id].foreign /\ i \in DOMAIN db.objects[id].foreign[name].columns

LEMMA ReferringIsRow ==
  ASSUME NEW db, NEW id, NEW name, NEW i, ForeignPlace(db, id, name, i), NEW via, Last(via) = id
  PROVE  Referring(db.objects, id, name, i, via, db.objects[id].foreign[name].at[i]) = {RowOf(db, id, name, i, via)}
<1> USE DEF ForeignPlace
<1>1. PICK foreign : foreign = db.objects[id].foreign[name]
  OBVIOUS
<1>2. KeyPlace(db, foreign.to, foreign.key, foreign.at[i])
  <2>1. /\ foreign.to \in DOMAIN db.objects /\ foreign.key \in DOMAIN db.objects[foreign.to].keys
        /\ foreign.at[i] \in DOMAIN db.objects[foreign.to].keys[foreign.key]
    BY <1>1, ForeignFacts
  <2> QED
    BY <2>1 DEF KeyPlace
<1> DEFINE shown(u) == [constraint |-> name, ordinal |-> i, column |-> foreign.columns[i], to |-> u,
                        referenced |-> KeyColumns(db.objects[u], foreign.key)[foreign.at[i]], via |-> via]
<1>3. Referring(db.objects, id, name, i, via, foreign.at[i]) =
      {shown(u) : u \in HaveColumn(db.objects, SchemaOf[foreign.to], foreign.key, foreign.at[i])}
  BY <1>1 DEF Referring
<1>4. shown(foreign.to) = RowOf(db, id, name, i, via)
  <2>1. KeyColumns(db.objects[foreign.to], foreign.key) = db.objects[foreign.to].keys[foreign.key]
    BY ONLY <1>2, KeyFound
  <2>2. KeyColumns(db.objects[foreign.to], foreign.key)[foreign.at[i]] = Shown(db, foreign, i)
    BY <2>1 DEF Shown
  <2> QED
    BY <1>1, <2>2 DEF RowOf
<1> HIDE DEF shown
<1>5. HaveColumn(db.objects, SchemaOf[foreign.to], foreign.key, foreign.at[i]) = {foreign.to}
  BY ONLY <1>2, KeyFound
<1>6. {shown(u) : u \in {foreign.to}} = {shown(foreign.to)}
  OBVIOUS
<1> QED
  BY <1>1, <1>3, <1>4, <1>5, <1>6

LEMMA ColumnRow ==
  ASSUME NEW foreign, NEW row \in ColumnRows(foreign)
  PROVE  row[1] \in DOMAIN foreign /\ row[2] \in DOMAIN foreign[row[1]].columns
BY DEF ColumnRows

(* The rows of the joins are those of the foreign keys.                    *)
LEMMA ForeignKeysFound ==
  ASSUME NEW db, WellFormed(db), NamesDiffer(db), db.driver # "sqlite3", NEW id \in Inspected(db.objects)
  PROVE  /\ PostgresForeignKeys(db.objects)[id] = RowsOf(db, id, << id, id >>)
         /\ DuckDBForeignKeys(db.objects)[id] = RowsOf(db, id, << id >>)
         /\ (\A name \in DOMAIN db.objects[id].foreign : \A i \in DOMAIN db.objects[id].foreign[name].columns :
               db.objects[id].foreign[name].at[i] = i)
            => MssqlForeignKeys(db.objects)[id] = RowsOf(db, id, << id, id >>)
<1> DEFINE all == db.objects[id].foreign
<1>1. id \in DOMAIN db.objects
  BY DEF Inspected
<1>2. Last(<< id, id >>) = id /\ Last(<< id >>) = id
  BY DEF Last
<1>3. ASSUME NEW row \in ColumnRows(all)
      PROVE  /\ HaveForeign(db.objects, SchemaOf[id], row[1]) = {id}
             /\ Twice(HaveForeign(db.objects, SchemaOf[id], row[1])) = {<< id, id >>}
             /\ \A via : Last(via) = id =>
                  Referring(db.objects, id, row[1], row[2], via, all[row[1]].at[row[2]]) =
                  {RowOf(db, id, row[1], row[2], via)}
  <2>1. row[1] \in DOMAIN all /\ row[2] \in DOMAIN all[row[1]].columns
    BY ColumnRow
  <2>2. ASSUME NEW name \in DOMAIN all, NEW i \in DOMAIN all[name].columns
        PROVE  /\ HaveForeign(db.objects, SchemaOf[id], name) = {id}
               /\ \A via : Last(via) = id =>
                    Referring(db.objects, id, name, i, via, all[name].at[i]) = {RowOf(db, id, name, i, via)}
    <3>3. HaveForeign(db.objects, SchemaOf[id], name) = {id}
      BY <1>1, TableFound
    <3>4. ASSUME NEW via, Last(via) = id
          PROVE  Referring(db.objects, id, name, i, via, all[name].at[i]) = {RowOf(db, id, name, i, via)}
      <4>1. ForeignPlace(db, id, name, i)
        BY <1>1 DEF ForeignPlace
      <4> QED
        BY ONLY <3>4, <4>1, ReferringIsRow
    <3> QED
      BY <3>3, <3>4
  <2> HIDE DEF all
  <2>3. HaveForeign(db.objects, SchemaOf[id], row[1]) = {id}
    BY <2>1, <2>2
  <2>4. Twice({id}) = {<< id, id >>}
    BY DEF Twice
  <2> QED
    BY <2>1, <2>2, <2>3, <2>4
<1>4. PostgresForeignKeys(db.objects)[id] = RowsOf(db, id, << id, id >>)
  <2> DEFINE G(row) == UNION {Referring(db.objects, id, row[1], row[2], via, all[row[1]].at[row[2]])
                              : via \in Twice(HaveForeign(db.objects, SchemaOf[id], row[1]))}
  <2>1. PostgresForeignKeys(db.objects)[id] = UNION {G(row) : row \in ColumnRows(all)}
    BY DEF PostgresForeignKeys
  <2>2. \A row \in ColumnRows(all) : G(row) = {RowOf(db, id, row[1], row[2], << id, id >>)}
    <3> SUFFICES ASSUME NEW row \in ColumnRows(all) PROVE G(row) = {RowOf(db, id, row[1], row[2], << id, id >>)}
      OBVIOUS
    <3>1. Referring(db.objects, id, row[1], row[2], << id, id >>, all[row[1]].at[row[2]]) =
          {RowOf(db, id, row[1], row[2], << id, id >>)}
      BY <1>2, <1>3
    <3> QED
      BY <1>3, <3>1
  <2> HIDE DEF G, all
  <2> QED
    BY <2>1, <2>2 DEF RowsOf, all
<1>5. DuckDBForeignKeys(db.objects)[id] = RowsOf(db, id, << id >>)
  <2> DEFINE G(row) == UNION {Referring(db.objects, id, row[1], row[2], << r >>, all[row[1]].at[row[2]])
                              : r \in HaveForeign(db.objects, SchemaOf[id], row[1])}
  <2>1. DuckDBForeignKeys(db.objects)[id] = UNION {G(row) : row \in ColumnRows(all)}
    BY DEF DuckDBForeignKeys
  <2>2. \A row \in ColumnRows(all) : G(row) = {RowOf(db, id, row[1], row[2], << id >>)}
    <3> SUFFICES ASSUME NEW row \in ColumnRows(all) PROVE G(row) = {RowOf(db, id, row[1], row[2], << id >>)}
      OBVIOUS
    <3>1. Referring(db.objects, id, row[1], row[2], << id >>, all[row[1]].at[row[2]]) =
          {RowOf(db, id, row[1], row[2], << id >>)}
      BY <1>2, <1>3
    <3>2. HaveForeign(db.objects, SchemaOf[id], row[1]) = {id}
      BY <1>3
    <3> QED
      BY <3>1, <3>2
  <2> HIDE DEF G, all
  <2> QED
    BY <2>1, <2>2 DEF RowsOf, all
<1>6. ASSUME \A name \in DOMAIN all : \A i \in DOMAIN all[name].columns : all[name].at[i] = i
      PROVE  MssqlForeignKeys(db.objects)[id] = RowsOf(db, id, << id, id >>)
  <2> DEFINE G(row) == UNION {Referring(db.objects, id, row[1], row[2], via, row[2])
                              : via \in Twice(HaveForeign(db.objects, SchemaOf[id], row[1]))}
  <2>1. MssqlForeignKeys(db.objects)[id] = UNION {G(row) : row \in ColumnRows(all)}
    BY DEF MssqlForeignKeys
  <2>2. \A row \in ColumnRows(all) : G(row) = {RowOf(db, id, row[1], row[2], << id, id >>)}
    <3> SUFFICES ASSUME NEW row \in ColumnRows(all) PROVE G(row) = {RowOf(db, id, row[1], row[2], << id, id >>)}
      OBVIOUS
    <3>1. all[row[1]].at[row[2]] = row[2]
      BY <1>6, ColumnRow
    <3>2. Referring(db.objects, id, row[1], row[2], << id, id >>, row[2]) = {RowOf(db, id, row[1], row[2], << id, id >>)}
      BY <1>2, <1>3, <3>1
    <3> QED
      BY <1>3, <3>2
  <2> HIDE DEF G, all
  <2> QED
    BY <2>1, <2>2 DEF RowsOf, all
<1> QED
  BY <1>4, <1>5, <1>6

(* The pragmas of SQLite show them too.                                    *)
LEMMA SqliteKeysFound ==
  ASSUME NEW db, db.driver = "sqlite3", NEW id \in DOMAIN db.objects
  PROVE  SqliteForeignKeys(db.objects)[id] = RowsOf(db, id, << id >>)
<1> DEFINE all == db.objects[id].foreign
           rowOf(row) == LET foreign == db.objects[id].foreign[row[1]]
                         IN [constraint |-> row[1], ordinal |-> row[2], column |-> foreign.columns[row[2]],
                             to |-> foreign.to, via |-> << id >>,
                             referenced |-> IF foreign.implicit THEN Null
                                            ELSE db.objects[foreign.to].keys[foreign.key][foreign.at[row[2]]]]
<1>1. SqliteForeignKeys(db.objects)[id] = {rowOf(row) : row \in ColumnRows(all)}
  BY DEF SqliteForeignKeys
<1>2. \A row \in ColumnRows(all) : rowOf(row) = RowOf(db, id, row[1], row[2], << id >>)
  BY DEF RowOf, Shown
<1> HIDE DEF rowOf, all
<1> QED
  BY <1>1, <1>2 DEF RowsOf, all

(* A view has no foreign keys, so no rows.                                 *)
LEMMA ViewHasNone ==
  ASSUME NEW db, WellFormed(db), NEW id \in DOMAIN db.objects, db.objects[id].kind = "view", NEW via
  PROVE  RowsOf(db, id, via) = {}
<1>1. DOMAIN db.objects[id].foreign = {}
  BY DEF WellFormed
<1> QED
  BY <1>1 DEF RowsOf, ColumnRows

(* An answer has the objects asked for, of one kind, once each.            *)
LEMMA AnswerFacts ==
  ASSUME NEW objects, NEW ids, NEW kind, NEW primaryKeys, NEW foreignKeys, NEW t \in Answer(objects, ids, kind, primaryKeys, foreignKeys)
  PROVE  /\ t.id \in ids /\ t.kind = kind /\ t.columns = objects[t.id].columns
         /\ kind = "table" => t.foreignKeys = foreignKeys[t.id]
         /\ kind # "table" => t.foreignKeys = {}
BY DEF Answer

LEMMA InAnswer ==
  ASSUME NEW objects, NEW ids, NEW kind, NEW primaryKeys, NEW foreignKeys, NEW id \in ids
  PROVE  \E t \in Answer(objects, ids, kind, primaryKeys, foreignKeys) : t.id = id /\ t.kind = kind
<1> DEFINE t == [id |-> id, kind |-> kind, columns |-> objects[id].columns,
                 primaryKeys |-> IF kind = "table" THEN primaryKeys[id] ELSE {},
                 foreignKeys |-> IF kind = "table" THEN foreignKeys[id] ELSE {}]
<1>1. t \in Answer(objects, ids, kind, primaryKeys, foreignKeys)
  BY DEF Answer
<1>2. t.id = id /\ t.kind = kind
  OBVIOUS
<1> QED
  BY ONLY <1>1, <1>2

(* A consistent answer of a driver shows each object with its columns and  *)
(* its foreign keys as they are.                                           *)
FaithfulRow(db, t) ==
  /\ t.id \in DOMAIN db.objects /\ t.columns = db.objects[t.id].columns
  /\ \E via : t.foreignKeys = RowsOf(db, t.id, via)

LEMMA FaithfulTable ==
  ASSUME NEW db, WellFormed(db), NEW ids, ids \subseteq DOMAIN db.objects, NEW kind \in {"table", "view"},
         NEW primaryKeys, NEW foreignKeys, \A id \in ids : \E via : foreignKeys[id] = RowsOf(db, id, via),
         NEW t \in Answer(db.objects, ids, kind, primaryKeys, foreignKeys),
         kind = "view" => db.objects[t.id].kind = "view"
  PROVE  FaithfulRow(db, t)
<1>1. /\ t.id \in ids /\ t.columns = db.objects[t.id].columns /\ t.id \in DOMAIN db.objects
      /\ kind = "table" => t.foreignKeys = foreignKeys[t.id]
      /\ kind # "table" => t.foreignKeys = {}
  BY AnswerFacts
<1>2. CASE kind = "table"
  BY <1>1, <1>2 DEF FaithfulRow
<1>3. CASE kind = "view"
  <2>1. RowsOf(db, t.id, << >>) = {}
    BY <1>1, <1>3, ViewHasNone
  <2> QED
    BY <1>1, <1>3, <2>1 DEF FaithfulRow
<1> QED
  BY <1>2, <1>3

(* The four drivers.                                                       *)
LEMMA PostgresFaithful ==
  ASSUME NEW db, WellFormed(db), NamesDiffer(db), db.driver = "postgres",
         ~Inconsistent(PostgresSchema(db.objects)), NEW t \in PostgresSchema(db.objects)
  PROVE  FaithfulRow(db, t)
<1> DEFINE named(kind) == PostgresNamed(db.objects, kind)
           primaryKeys == PostgresPrimaryKeys(db.objects)
           foreignKeys == PostgresForeignKeys(db.objects)
           answer(kind) == Answer(db.objects, named(kind), kind, primaryKeys, foreignKeys)
<1>1. PostgresSchema(db.objects) = UNION {answer(kind) : kind \in {"table", "view"}}
  BY DEF PostgresSchema
<1>2. PICK kind \in {"table", "view"} : t \in answer(kind)
  BY <1>1
<1>3. \A k : named(k) \subseteq Inspected(db.objects) /\ Inspected(db.objects) \subseteq DOMAIN db.objects
  BY DEF PostgresNamed, Inspected
<1>4. \A id \in named(kind) : \E via : foreignKeys[id] = RowsOf(db, id, via)
  BY <1>3, ForeignKeysFound
<1>5. ASSUME kind = "view" PROVE db.objects[t.id].kind = "view"
  <2> HIDE DEF primaryKeys, foreignKeys
  <2>1. t.id \in named(kind) /\ t.kind = "view"
    BY <1>2, <1>5, AnswerFacts
  <2>2. ASSUME db.objects[t.id].kind = "table" PROVE FALSE
    <3>1. t.id \in named("table")
      BY <1>3, <2>1, <2>2 DEF PostgresNamed, OfKind
    <3>2. PICK u \in answer("table") : u.id = t.id /\ u.kind = "table"
      BY <3>1, InAnswer
    <3>3. u \in PostgresSchema(db.objects) /\ u # t
      BY <1>1, <2>1, <3>2
    <3> QED
      BY <3>2, <3>3 DEF Inconsistent
  <2>3. db.objects[t.id].kind \in {"table", "view"}
    BY <1>3, <2>1 DEF WellFormed
  <2> QED
    BY <2>2, <2>3
<1> HIDE DEF named, primaryKeys, foreignKeys
<1> QED
  BY <1>2, <1>3, <1>4, <1>5, FaithfulTable

LEMMA MssqlFaithful ==
  ASSUME NEW db, WellFormed(db), Readable(db), db.driver = "mssql", NEW t \in MssqlSchema(db.objects)
  PROVE  FaithfulRow(db, t)
<1> DEFINE shown(kind) == OfKind(db.objects, kind)
           primaryKeys == MssqlPrimaryKeys(db.objects)
           foreignKeys == MssqlForeignKeys(db.objects)
<1>1. PICK kind \in {"table", "view"} : t \in Answer(db.objects, shown(kind), kind, primaryKeys, foreignKeys)
  BY DEF MssqlSchema
<1>2. /\ shown(kind) \subseteq Inspected(db.objects) /\ shown(kind) \subseteq DOMAIN db.objects
      /\ \A id \in shown(kind) : db.objects[id].kind = kind
  BY DEF OfKind, Inspected
<1>3. NamesDiffer(db)
  BY DEF WellFormed, NamesDiffer
<1>4. ASSUME NEW id \in shown(kind) PROVE foreignKeys[id] = RowsOf(db, id, << id, id >>)
  <2>1. \A name \in DOMAIN db.objects[id].foreign : \A i \in DOMAIN db.objects[id].foreign[name].columns :
          db.objects[id].foreign[name].at[i] = i
    <3>1. \A name \in DOMAIN db.objects[id].foreign :
            DOMAIN db.objects[id].foreign[name].at = DOMAIN db.objects[id].foreign[name].columns
      <4>1. id \in DOMAIN db.objects
        BY <1>2
      <4> QED
        BY <4>1 DEF WellFormed
    <3> QED
      BY <1>2, <3>1 DEF Readable
  <2>2. id \in Inspected(db.objects)
    BY <1>2
  <2> HIDE DEF shown
  <2> QED
    BY <1>3, <2>1, <2>2, ForeignKeysFound
<1>5. t.id \in shown(kind)
  BY <1>1, AnswerFacts
<1> HIDE DEF shown, primaryKeys, foreignKeys
<1> QED
  BY <1>1, <1>2, <1>4, <1>5, FaithfulTable

LEMMA DuckDBFaithful ==
  ASSUME NEW db, WellFormed(db), NamesDiffer(db), db.driver = "duckdb", NEW t \in DuckDBSchema(db.objects)
  PROVE  FaithfulRow(db, t)
<1> DEFINE shown(kind) == OfKind(db.objects, kind)
           primaryKeys == DuckDBPrimaryKeys(db.objects)
           foreignKeys == DuckDBForeignKeys(db.objects)
<1>1. PICK kind \in {"table", "view"} : t \in Answer(db.objects, shown(kind), kind, primaryKeys, foreignKeys)
  BY DEF DuckDBSchema
<1>2. /\ shown(kind) \subseteq Inspected(db.objects) /\ shown(kind) \subseteq DOMAIN db.objects
      /\ \A id \in shown(kind) : db.objects[id].kind = kind
  BY DEF OfKind, Inspected
<1>3. \A id \in shown(kind) : foreignKeys[id] = RowsOf(db, id, << id >>)
  BY <1>2, ForeignKeysFound
<1>4. t.id \in shown(kind)
  BY <1>1, AnswerFacts
<1> HIDE DEF shown, primaryKeys, foreignKeys
<1> QED
  BY <1>1, <1>2, <1>3, <1>4, FaithfulTable

LEMMA SqliteFaithful ==
  ASSUME NEW db, WellFormed(db), db.driver = "sqlite3", NEW t \in SqliteSchema(db.objects)
  PROVE  FaithfulRow(db, t)
<1> DEFINE shown(kind) == {id \in DOMAIN db.objects : db.objects[id].kind = kind}
           primaryKeys == SqlitePrimaryKeys(db.objects)
           foreignKeys == SqliteForeignKeys(db.objects)
<1>1. PICK kind \in {"table", "view"} : t \in Answer(db.objects, shown(kind), kind, primaryKeys, foreignKeys)
  BY DEF SqliteSchema
<1>2. \A id \in shown(kind) : id \in DOMAIN db.objects /\ db.objects[id].kind = kind
  OBVIOUS
<1>3. \A id \in shown(kind) : foreignKeys[id] = RowsOf(db, id, << id >>)
  BY <1>2, SqliteKeysFound
<1>4. t.id \in shown(kind)
  BY <1>1, AnswerFacts
<1> HIDE DEF shown, primaryKeys, foreignKeys
<1> QED
  BY <1>1, <1>2, <1>3, <1>4, FaithfulTable

(* Whatever the driver, each object of the answer is faithful.             *)
LEMMA AnswersFaithful ==
  ASSUME NEW db, WellFormed(db), Readable(db), db.driver \in Drivers,
         ~Inconsistent(GetSchema(db)), NEW t \in GetSchema(db)
  PROVE  FaithfulRow(db, t)
<1>1. CASE db.driver = "postgres"
  <2>1. NamesDiffer(db) /\ GetSchema(db) = PostgresSchema(db.objects)
    BY <1>1 DEF Readable, NamesDiffer, GetSchema
  <2> QED
    BY <1>1, <2>1, PostgresFaithful
<1>2. CASE db.driver = "mssql"
  <2>1. GetSchema(db) = MssqlSchema(db.objects)
    BY <1>2 DEF GetSchema
  <2> QED
    BY <1>2, <2>1, MssqlFaithful
<1>3. CASE db.driver = "duckdb"
  <2>1. NamesDiffer(db) /\ GetSchema(db) = DuckDBSchema(db.objects)
    BY <1>3 DEF Readable, NamesDiffer, GetSchema
  <2> QED
    BY <1>3, <2>1, DuckDBFaithful
<1>4. CASE db.driver = "sqlite3"
  <2>1. GetSchema(db) = SqliteSchema(db.objects)
    BY <1>4 DEF GetSchema
  <2> QED
    BY <1>4, <2>1, SqliteFaithful
<1> QED
  BY <1>1, <1>2, <1>3, <1>4 DEF Drivers

(* The catalog has the columns and the foreign keys of the database.       *)
LEMMA CatalogFaithful ==
  ASSUME NEW db, WellFormed(db), Readable(db), db.driver \in Drivers, ~Inconsistent(GetSchema(db)),
         NEW id \in DOMAIN CreateSchemaCatalog(GetSchema(db))
  PROVE  LET object == CreateSchemaCatalog(GetSchema(db))[id] IN
         /\ id \in DOMAIN db.objects
         /\ object.columns = [i \in DOMAIN db.objects[id].columns |->
                                [physicalName |-> db.objects[id].columns[i],
                                 mappingName |-> MappingName(db.objects[id].columns[i])]]
         /\ object.relationships =
              {[to |-> foreign.to, pairs |-> PairsOf(db, foreign)]
               : foreign \in {db.objects[id].foreign[name] : name \in DOMAIN db.objects[id].foreign}}
<1> DEFINE answer == GetSchema(db)
           catalog == CreateSchemaCatalog(answer)
<1>1. id \in {t.id : t \in answer} /\ catalog[id] = CatalogObject(CHOOSE t \in answer : t.id = id)
  BY DEF CreateSchemaCatalog
<1> HIDE DEF catalog
<1>2. PICK t \in answer : t.id = id /\ catalog[id] = CatalogObject(t)
  BY <1>1
<1>3. FaithfulRow(db, t)
  BY <1>2, AnswersFaithful
<1>4. PICK via : t.foreignKeys = RowsOf(db, id, via)
  BY <1>2, <1>3 DEF FaithfulRow
<1>5. id \in DOMAIN db.objects /\ t.columns = db.objects[id].columns
  BY <1>2, <1>3 DEF FaithfulRow
<1>6. CreateRelationships(t.foreignKeys) =
         {[to |-> foreign.to, pairs |-> PairsOf(db, foreign)]
          : foreign \in {db.objects[id].foreign[name] : name \in DOMAIN db.objects[id].foreign}}
  BY <1>4, <1>5, RelationshipsFaithful
<1>7. /\ catalog[id].columns = [i \in DOMAIN t.columns |->
                                  [physicalName |-> t.columns[i], mappingName |-> MappingName(t.columns[i])]]
      /\ catalog[id].relationships = CreateRelationships(t.foreignKeys)
  BY <1>2 DEF CatalogObject
<1> QED
  BY <1>5, <1>6, <1>7 DEF catalog

-----------------------------------------------------------------------------
(* The runtime tables                                                      *)

(* A set of places that is not empty has a last one.                       *)
LEMMA LargestBelow ==
  ASSUME NEW n \in Nat, NEW S \in SUBSET (1..n), S # {}
  PROVE  \E i \in S : \A j \in S : j <= i
<1> DEFINE distances == {n - i : i \in S}
<1>1. distances \in SUBSET Nat /\ distances # {}
  <2>1. \A i \in S : n - i \in Nat
    OBVIOUS
  <2> QED
    BY <2>1
<1> HIDE DEF distances
<1>2. PICK d \in distances : \A e \in distances : d <= e
  BY <1>1, SmallestNat
<1>3. PICK i \in S : d = n - i
  BY DEF distances
<1>4. ASSUME NEW j \in S PROVE j <= i
  <2>1. d <= n - j
    BY <1>2 DEF distances
  <2> QED
    BY <1>3, <2>1
<1> QED
  BY <1>4

(* A column is found under the mapping name it was given, if no other has  *)
(* that name.                                                              *)
LEMMA NameRoundTrip ==
  ASSUME NEW object, Distinct(object), NEW n \in Nat, DOMAIN object.columns = 1..n,
         NEW physical \in ColumnsOf(object)
  PROVE  LET name == MappingNameIn(object, physical) IN
         /\ name \in {c.mappingName : c \in ToSet(object.columns)}
         /\ ColumnNamed(object, name) = physical
<1> DEFINE name == MappingNameIn(object, physical)
           at1 == {i \in DOMAIN object.columns : object.columns[i].mappingName = name}
<1>1. \E c \in ToSet(object.columns) : c.physicalName = physical
  BY DEF ColumnsOf, ToSet
<1>2. PICK c \in ToSet(object.columns) : c.physicalName = physical /\ name = c.mappingName
  BY <1>1 DEF MappingNameIn
<1> HIDE DEF name
<1>3. \E i \in DOMAIN object.columns : object.columns[i] = c
  BY DEF ToSet
<1>4. at1 \in SUBSET (1..n) /\ at1 # {}
  BY <1>2, <1>3
<1>5. PICK i \in at1 : ColumnNamed(object, name) = object.columns[i].physicalName
  <2>1. \E i \in at1 : \A j \in at1 : j <= i
    BY <1>4, LargestBelow
  <2> QED
    BY <2>1 DEF ColumnNamed
<1>6. object.columns[i] \in ToSet(object.columns) /\ object.columns[i].mappingName = c.mappingName
  BY <1>2 DEF ToSet
<1>7. object.columns[i] = c
  BY <1>6 DEF Distinct
<1> QED
  BY <1>2, <1>5, <1>7 DEF name

(* What a session serves of a database.                                    *)
Served(db, catalog, selected) ==
  /\ WellFormed(db) /\ Readable(db) /\ db.driver \in Drivers /\ ~Inconsistent(GetSchema(db))
  /\ catalog = CreateSchemaCatalog(GetSchema(db))
  /\ selected \subseteq DOMAIN catalog /\ ~Unmappable(catalog, selected)
  /\ \A id \in selected : Distinct(catalog[id])

(* The columns of a served object are those of the database.               *)
LEMMA CatalogColumns ==
  ASSUME NEW db, NEW catalog, NEW selected, Served(db, catalog, selected), NEW id \in selected
  PROVE  /\ id \in DOMAIN db.objects /\ \E n \in Nat : DOMAIN catalog[id].columns = 1..n
         /\ ColumnsOf(catalog[id]) = ToSet(db.objects[id].columns) /\ Null \notin ColumnsOf(catalog[id])
         /\ catalog[id].relationships =
              {[to |-> foreign.to, pairs |-> PairsOf(db, foreign)]
               : foreign \in {db.objects[id].foreign[name] : name \in DOMAIN db.objects[id].foreign}}
<1>1. /\ WellFormed(db) /\ Readable(db) /\ db.driver \in Drivers /\ ~Inconsistent(GetSchema(db))
      /\ catalog = CreateSchemaCatalog(GetSchema(db)) /\ id \in DOMAIN CreateSchemaCatalog(GetSchema(db))
  BY DEF Served
<1>2. /\ id \in DOMAIN db.objects
      /\ catalog[id].columns = [i \in DOMAIN db.objects[id].columns |->
                                  [physicalName |-> db.objects[id].columns[i],
                                   mappingName |-> MappingName(db.objects[id].columns[i])]]
      /\ catalog[id].relationships =
           {[to |-> foreign.to, pairs |-> PairsOf(db, foreign)]
            : foreign \in {db.objects[id].foreign[name] : name \in DOMAIN db.objects[id].foreign}}
  BY <1>1, CatalogFaithful
<1> DEFINE columns == db.objects[id].columns
<1>3. columns \in Seq(ToSet(columns)) /\ Null \notin ToSet(columns)
  BY <1>1, <1>2 DEF WellFormed
<1> HIDE DEF columns
<1>4. Len(columns) \in Nat /\ DOMAIN columns = 1..Len(columns)
  BY <1>3
<1>5. DOMAIN catalog[id].columns = DOMAIN columns
  BY <1>2 DEF columns
<1>6. \A i \in DOMAIN columns : catalog[id].columns[i].physicalName = columns[i]
  BY <1>2 DEF columns
<1>7. ColumnsOf(catalog[id]) = ToSet(columns)
  BY <1>5, <1>6 DEF ColumnsOf, ToSet
<1> QED
  BY <1>2, <1>3, <1>4, <1>5, <1>7 DEF columns

(* The relationships between selected objects name columns the database    *)
(* has, and so are its foreign keys between them.                          *)
LEMMA RelationshipsInScope ==
  ASSUME NEW db, NEW catalog, NEW selected, Served(db, catalog, selected), NEW id \in selected
  PROVE  /\ InScope(catalog[id], selected) = {k \in ForeignOf(db.objects, id) : k.to \in selected}
         /\ \A r \in InScope(catalog[id], selected) :
              /\ DOMAIN r = {"to", "pairs"} /\ r.to \in selected
              /\ \A i \in DOMAIN r.pairs : /\ r.pairs[i] = << r.pairs[i][1], r.pairs[i][2] >>
                                           /\ r.pairs[i][1] \in ColumnsOf(catalog[id])
                                           /\ r.pairs[i][2] \in ColumnsOf(catalog[r.to])
<1> DEFINE all == {db.objects[id].foreign[name] : name \in DOMAIN db.objects[id].foreign}
           shown(foreign) == [to |-> foreign.to, pairs |-> PairsOf(db, foreign)]
           key(foreign) == [to |-> foreign.to, pairs |-> [i \in DOMAIN foreign.columns |->
                << foreign.columns[i], db.objects[foreign.to].keys[foreign.key][foreign.at[i]] >>]]
<1>1. catalog[id].relationships = {shown(foreign) : foreign \in all}
  BY CatalogColumns
<1>2. ForeignOf(db.objects, id) = {key(foreign) : foreign \in all}
  BY DEF ForeignOf
<1>3. \A r \in InScope(catalog[id], selected) :
        /\ ToSet(Names(r.pairs, 1)) \subseteq ColumnsOf(catalog[id])
        /\ ToSet(Names(r.pairs, 2)) \subseteq ColumnsOf(catalog[r.to])
  BY DEF Served, Unmappable
<1>4. \A pairs, side : \A i \in DOMAIN pairs : pairs[i][side] \in ToSet(Names(pairs, side))
  BY DEF Names, ToSet
<1>5. ASSUME NEW foreign \in all, foreign.to \in selected
      PROVE  /\ shown(foreign) \in InScope(catalog[id], selected) /\ shown(foreign) = key(foreign)
             /\ \A i \in DOMAIN foreign.columns :
                  /\ PairsOf(db, foreign)[i] = << PairsOf(db, foreign)[i][1], PairsOf(db, foreign)[i][2] >>
                  /\ PairsOf(db, foreign)[i][1] \in ColumnsOf(catalog[id])
                  /\ PairsOf(db, foreign)[i][2] \in ColumnsOf(catalog[foreign.to])
  <2>1. shown(foreign) \in InScope(catalog[id], selected)
    BY <1>1, <1>5 DEF InScope
  <2>2. \A i \in DOMAIN foreign.columns : PairsOf(db, foreign)[i] = << foreign.columns[i], Shown(db, foreign, i) >>
    BY DEF PairsOf
  <2>3. DOMAIN PairsOf(db, foreign) = DOMAIN foreign.columns
    BY DEF PairsOf
  <2>4. ASSUME NEW i \in DOMAIN foreign.columns
        PROVE  /\ PairsOf(db, foreign)[i][1] \in ColumnsOf(catalog[id])
               /\ PairsOf(db, foreign)[i][2] \in ColumnsOf(catalog[foreign.to])
    BY <1>3, <1>4, <2>1, <2>3
  <2>5. Null \notin ColumnsOf(catalog[foreign.to])
    BY <1>5, CatalogColumns
  <2>6. ASSUME NEW i \in DOMAIN foreign.columns
        PROVE  Shown(db, foreign, i) = db.objects[foreign.to].keys[foreign.key][foreign.at[i]]
    <3>1. Shown(db, foreign, i) # Null
      BY <2>2, <2>4, <2>5
    <3> QED
      BY <3>1 DEF Shown
  <2>7. shown(foreign) = key(foreign)
    BY <2>6 DEF PairsOf
  <2> HIDE DEF shown, key
  <2> QED
    BY <2>1, <2>2, <2>4, <2>7
<1>6. \A foreign : shown(foreign).to = foreign.to /\ key(foreign).to = foreign.to
  OBVIOUS
<1>7. \A foreign : /\ DOMAIN shown(foreign) = {"to", "pairs"} /\ shown(foreign).pairs = PairsOf(db, foreign)
                   /\ DOMAIN PairsOf(db, foreign) = DOMAIN foreign.columns
  BY DEF PairsOf
<1> HIDE DEF shown, key, all
<1>8. ASSUME NEW r \in InScope(catalog[id], selected)
      PROVE  \E foreign \in all : foreign.to \in selected /\ r = shown(foreign)
  BY <1>1, <1>6 DEF InScope
<1>9. InScope(catalog[id], selected) = {k \in ForeignOf(db.objects, id) : k.to \in selected}
  BY <1>2, <1>5, <1>6, <1>8
<1>10. ASSUME NEW r \in InScope(catalog[id], selected)
       PROVE  /\ DOMAIN r = {"to", "pairs"} /\ r.to \in selected
              /\ \A i \in DOMAIN r.pairs : /\ r.pairs[i] = << r.pairs[i][1], r.pairs[i][2] >>
                                           /\ r.pairs[i][1] \in ColumnsOf(catalog[id])
                                           /\ r.pairs[i][2] \in ColumnsOf(catalog[r.to])
  <2>1. PICK foreign \in all : foreign.to \in selected /\ r = shown(foreign)
    BY <1>8
  <2>2. PICK pairs : pairs = PairsOf(db, foreign)
    OBVIOUS
  <2>3. DOMAIN r = {"to", "pairs"} /\ r.to = foreign.to /\ r.pairs = pairs /\ DOMAIN pairs = DOMAIN foreign.columns
    BY <1>6, <1>7, <2>1, <2>2
  <2>4. \A i \in DOMAIN foreign.columns : /\ pairs[i] = << pairs[i][1], pairs[i][2] >>
                                          /\ pairs[i][1] \in ColumnsOf(catalog[id])
                                          /\ pairs[i][2] \in ColumnsOf(catalog[foreign.to])
    BY <1>5, <2>1, <2>2
  <2> QED
    BY <2>1, <2>3, <2>4
<1> QED
  BY <1>9, <1>10

(* The runtime tables refer to each other as the database does.            *)
LEMMA TablesFaithful ==
  ASSUME NEW db, NEW catalog, NEW selected, Served(db, catalog, selected), NEW id \in selected,
         NEW tables, tables = [x \in selected |-> CreateRuntimeTable(catalog, selected, x)]
  PROVE  {AsForeign(tables, id, f) : f \in tables[id].fk} = {k \in ForeignOf(db.objects, id) : k.to \in selected}
<1> DEFINE inScope == InScope(catalog[id], selected)
           names(x, list) == [i \in DOMAIN list |-> MappingNameIn(catalog[x], list[i])]
           made(r) == [to |-> r.to, from |-> names(id, Names(r.pairs, 1)), columns |-> names(r.to, Names(r.pairs, 2))]
<1>1. tables[id].fk = {made(r) : r \in inScope}
  BY DEF CreateRuntimeTable
<1>2. ASSUME NEW x \in selected, NEW physical \in ColumnsOf(catalog[x])
      PROVE  tables[x].columns[MappingNameIn(catalog[x], physical)] = physical
  <2> DEFINE name == MappingNameIn(catalog[x], physical)
  <2>1. tables[x].columns = [m \in {c.mappingName : c \in ToSet(catalog[x].columns)} |-> ColumnNamed(catalog[x], m)]
    BY DEF CreateRuntimeTable
  <2>2. PICK n \in Nat : DOMAIN catalog[x].columns = 1..n
    BY CatalogColumns
  <2>3. Distinct(catalog[x])
    BY DEF Served
  <2>4. name \in {c.mappingName : c \in ToSet(catalog[x].columns)} /\ ColumnNamed(catalog[x], name) = physical
    BY <2>2, <2>3, NameRoundTrip
  <2> HIDE DEF name
  <2>5. tables[x].columns[name] = physical
    BY <2>1, <2>4
  <2> QED
    BY <2>5 DEF name
<1>3. ASSUME NEW r \in inScope PROVE AsForeign(tables, id, made(r)) = r
  <2>1. /\ DOMAIN r = {"to", "pairs"} /\ r.to \in selected
        /\ \A i \in DOMAIN r.pairs : /\ r.pairs[i] = << r.pairs[i][1], r.pairs[i][2] >>
                                     /\ r.pairs[i][1] \in ColumnsOf(catalog[id])
                                     /\ r.pairs[i][2] \in ColumnsOf(catalog[r.to])
    BY RelationshipsInScope
  <2>2. made(r).to = r.to /\ DOMAIN made(r).from = DOMAIN r.pairs
    BY DEF Names
  <2>3. \A i \in DOMAIN r.pairs : /\ made(r).from[i] = MappingNameIn(catalog[id], r.pairs[i][1])
                                  /\ made(r).columns[i] = MappingNameIn(catalog[r.to], r.pairs[i][2])
    BY DEF Names
  <2> HIDE DEF made, inScope
  <2>4. ASSUME NEW i \in DOMAIN r.pairs
        PROVE  << tables[id].columns[made(r).from[i]], tables[made(r).to].columns[made(r).columns[i]] >> = r.pairs[i]
    <3>1. tables[id].columns[made(r).from[i]] = r.pairs[i][1]
      <4>1. r.pairs[i][1] \in ColumnsOf(catalog[id])
        BY <2>1
      <4>2. tables[id].columns[MappingNameIn(catalog[id], r.pairs[i][1])] = r.pairs[i][1]
        BY <1>2, <4>1
      <4> QED
        BY <2>3, <4>2
    <3>2. tables[made(r).to].columns[made(r).columns[i]] = r.pairs[i][2]
      <4>1. r.to \in selected /\ r.pairs[i][2] \in ColumnsOf(catalog[r.to])
        BY <2>1
      <4>2. tables[r.to].columns[MappingNameIn(catalog[r.to], r.pairs[i][2])] = r.pairs[i][2]
        BY <1>2, <4>1
      <4> QED
        BY <2>2, <2>3, <4>2
    <3> QED
      BY <2>1, <3>1, <3>2
  <2> DEFINE pairs == [i \in DOMAIN made(r).from |->
                         << tables[id].columns[made(r).from[i]], tables[made(r).to].columns[made(r).columns[i]] >>]
  <2>5. AsForeign(tables, id, made(r)) = [to |-> r.to, pairs |-> pairs]
    BY <2>2 DEF AsForeign
  <2>6. r = [to |-> r.to, pairs |-> r.pairs]
    <3>1. inScope \subseteq catalog[id].relationships
      BY DEF inScope, InScope
    <3>2. PICK foreign : r = [to |-> foreign.to, pairs |-> PairsOf(db, foreign)]
      BY <3>1, CatalogColumns
    <3> QED
      BY ONLY <3>2
  <2>7. pairs = r.pairs
    <3>1. PICK foreign : r = [to |-> foreign.to, pairs |-> PairsOf(db, foreign)]
      <4>1. inScope \subseteq catalog[id].relationships
        BY DEF inScope, InScope
      <4> QED
        BY <4>1, CatalogColumns
    <3>2. r.pairs = PairsOf(db, foreign)
      BY ONLY <3>1
    <3>3. r.pairs = [i \in DOMAIN r.pairs |-> r.pairs[i]]
      BY <3>2 DEF PairsOf
    <3> QED
      BY <2>2, <2>4, <3>3
  <2> QED
    BY <2>5, <2>6, <2>7
<1>4. inScope = {k \in ForeignOf(db.objects, id) : k.to \in selected}
  BY RelationshipsInScope
<1> HIDE DEF made, inScope
<1>5. {AsForeign(tables, id, f) : f \in tables[id].fk} = inScope
  <2>1. \A f \in tables[id].fk : AsForeign(tables, id, f) \in inScope
    BY <1>1, <1>3
  <2>2. \A r \in inScope : \E f \in tables[id].fk : AsForeign(tables, id, f) = r
    BY <1>1, <1>3
  <2> QED
    BY <2>1, <2>2
<1> QED
  BY <1>4, <1>5

-----------------------------------------------------------------------------
(* The sessions                                                            *)

(* What a server holds comes from one look at the database.                *)
SessionOK(x) ==
  /\ x.pc \in {"inspected", "connect", "serving"} =>
       /\ x.seen \in Databases /\ ~Inconsistent(GetSchema(x.seen))
       /\ x.inspected = CreateSchemaCatalog(GetSchema(x.seen))
  /\ x.pc \in {"connect", "serving"} => Selected(x.scope) \subseteq DOMAIN x.inspected
  /\ x.pc = "serving" =>
       /\ ~Unmappable(x.inspected, Selected(x.scope))
       /\ x.tables = CreateRuntimeSchemaMappings(x.inspected, x.scope)

SessionsOK == \A s \in Servers : SessionOK(process[s])

(* Steps of a session: one that ended, one that changes, and the actions.  *)
LEMMA SessionEnds ==
  SessionOK([Fresh EXCEPT !.pc = "ended"])
<1> DEFINE x == [Fresh EXCEPT !.pc = "ended"]
<1>1. x.pc = "ended"
  BY DEF Fresh
<1> HIDE DEF x
<1>2. SessionOK(x)
  BY <1>1 DEF SessionOK
<1> QED
  BY <1>2 DEF x

LEMMA OneBecomes ==
  ASSUME Inv, SessionsOK, NEW p \in Processes, NEW x, Becomes(p, x), p \in Servers => SessionOK(x)
  PROVE  SessionsOK'
<1>1. DOMAIN process = Processes
  BY DEF Inv, World
<1>2. process' = [process EXCEPT ![p] = x]
  BY DEF Becomes
<1>3. ASSUME NEW s \in Servers PROVE SessionOK(process'[s])
  <2>1. s \in Processes
    BY DEF Processes
  <2>2. CASE s = p
    BY <1>1, <1>2, <2>1, <2>2
  <2>3. CASE s # p
    <3>1. process'[s] = process[s]
      BY <1>1, <1>2, <2>1, <2>3
    <3> QED
      BY <3>1 DEF SessionsOK
  <2> QED
    BY <2>2, <2>3
<1>4. \A s \in Servers : SessionOK(process[s])' <=> SessionOK(process'[s])
  BY DEF SessionOK
<1> QED
  BY <1>3, <1>4 DEF SessionsOK

LEMMA OneEnds ==
  ASSUME Inv, SessionsOK, NEW p \in Processes, Ends(p)
  PROVE  SessionsOK'
BY SessionEnds, OneBecomes DEF Ends

(* A command changes its own state.                                        *)
LEMMA CommandBecomes ==
  ASSUME NEW c \in Commands,
         LoadPrior(c) \/ SaveStep(c) \/ ReviewStep(c) \/ ResolveOverride(c)
  PROVE  \E x : Becomes(c, x)
<1>1. Ends(c) => \E x : Becomes(c, x)
  BY DEF Ends
<1>2. \A x : Shows(c, x) => Becomes(c, x)
  BY DEF Shows
<1>3. \A confirmed, selected : Resolved(c, confirmed, selected) => \E x : Becomes(c, x)
  BY <1>1 DEF Resolved
<1>4. LoadPrior(c) => \E x : Becomes(c, x)
  BY <1>1 DEF LoadPrior
<1>5. SaveStep(c) => \E x : Becomes(c, x)
  BY <1>1 DEF SaveStep, LoadExisting, WriteTemporary, Rename, Killed
<1>6. ReviewStep(c) => \E x : Becomes(c, x)
  <2>1. ToggleObject(c) => \E x : Becomes(c, x)
    BY <1>2 DEF ToggleObject
  <2>2. ToggleVisible(c) => \E x : Becomes(c, x)
    BY <1>2 DEF ToggleVisible
  <2>3. NextFilter(c) => \E x : Becomes(c, x)
    BY <1>2 DEF NextFilter
  <2>4. Search(c) => \E x : Becomes(c, x)
    BY <1>2 DEF Search
  <2>5. Cancel(c) => \E x : Becomes(c, x)
    BY <1>1 DEF Cancel
  <2>6. Enter(c) => \E x : Becomes(c, x)
    BY <1>3 DEF Enter
  <2>7. ConfirmRemoved(c) => \E x : Becomes(c, x)
    BY <1>3 DEF ConfirmRemoved
  <2> QED
    BY <2>1, <2>2, <2>3, <2>4, <2>5, <2>6, <2>7 DEF ReviewStep
<1>7. ResolveOverride(c) => \E x : Becomes(c, x)
  BY <1>1, <1>3 DEF ResolveOverride
<1> QED
  BY <1>4, <1>5, <1>6, <1>7

LEMMA SessionInspects ==
  ASSUME Inv, SessionsOK, NEW p \in Processes, Inspect(p)
  PROVE  SessionsOK'
<1> DEFINE answer == GetSchema(database)
           next == [process[p] EXCEPT !.inspected = CreateSchemaCatalog(answer), !.seen = database, !.pc = "inspected"]
<1>1. CASE Ends(p)
  BY <1>1, OneEnds
<1>2. CASE ~Inconsistent(answer) /\ Becomes(p, next)
  <2>1. database \in Databases /\ {"pc", "inspected", "seen"} \subseteq DOMAIN process[p]
    BY DEF Inv, World, Good, GoodShape, Fresh
  <2>2. next.pc = "inspected" /\ next.seen = database /\ next.inspected = CreateSchemaCatalog(answer)
    BY <2>1
  <2> HIDE DEF next
  <2>3. SessionOK(next)
    BY <1>2, <2>1, <2>2 DEF SessionOK
  <2> QED
    BY <1>2, <2>3, OneBecomes
<1> QED
  BY <1>1, <1>2 DEF Inspect

LEMMA SessionLoads ==
  ASSUME Inv, SessionsOK, NEW s \in Servers, LoadSelection(s)
  PROVE  SessionsOK'
<1> DEFINE q == profileOf[s]
           selection == ReconcileSchemaSelection(Catalog(s), file.profiles[q])
           next == [process[s] EXCEPT !.scope = selection, !.pc = "connect",
                                      !.agreed = IF q \in lost THEN Objects ELSE chosen[q]]
<1>1. s \in Processes /\ process[s].pc = "inspected" /\ SessionOK(process[s])
  BY DEF LoadSelection, At, SessionsOK, Processes
<1>2. CASE Ends(s)
  BY <1>1, <1>2, OneEnds
<1>3. CASE Becomes(s, next)
  <2>1. {"pc", "scope", "agreed"} \subseteq DOMAIN process[s]
    BY <1>1 DEF Inv, Good, GoodShape, Fresh
  <2>2. /\ next.pc = "connect" /\ next.scope = selection
        /\ next.seen = process[s].seen /\ next.inspected = process[s].inspected
    BY <2>1
  <2>3. Selected(selection) \subseteq DOMAIN process[s].inspected
    BY ReconciledSelects DEF Catalog
  <2> HIDE DEF next, selection
  <2>4. SessionOK(next)
    BY <1>1, <2>2, <2>3 DEF SessionOK
  <2> QED
    BY <1>1, <1>3, <2>4, OneBecomes
<1> QED
  BY <1>2, <1>3 DEF LoadSelection

LEMMA SessionStarts ==
  ASSUME Inv, SessionsOK, NEW s \in Servers, StartSession(s)
  PROVE  SessionsOK'
<1> DEFINE scope == process[s].scope
           next == [process[s] EXCEPT !.tables = CreateRuntimeSchemaMappings(Catalog(s), scope), !.pc = "serving"]
<1>1. s \in Processes /\ process[s].pc = "connect" /\ SessionOK(process[s])
  BY DEF StartSession, At, SessionsOK, Processes
<1>2. CASE Ends(s)
  BY <1>1, <1>2, OneEnds
<1>3. CASE ~Unmappable(Catalog(s), Selected(scope)) /\ Becomes(s, next)
  <2>1. {"pc", "tables"} \subseteq DOMAIN process[s]
    BY <1>1 DEF Inv, Good, GoodShape, Fresh
  <2>2. /\ next.pc = "serving" /\ next.tables = CreateRuntimeSchemaMappings(process[s].inspected, scope)
        /\ next.seen = process[s].seen /\ next.inspected = process[s].inspected /\ next.scope = scope
    BY <2>1 DEF Catalog
  <2>3. ~Unmappable(process[s].inspected, Selected(scope))
    BY <1>3 DEF Catalog
  <2> HIDE DEF next
  <2>4. SessionOK(next)
    BY <1>1, <2>2, <2>3 DEF SessionOK
  <2> QED
    BY <1>1, <1>3, <2>4, OneBecomes
<1> QED
  BY <1>2, <1>3 DEF StartSession

LEMMA SessionsNext == Inv /\ SessionsOK /\ [Next]_vars => SessionsOK'
<1> SUFFICES ASSUME Inv, SessionsOK, [Next]_vars PROVE SessionsOK'
  OBVIOUS
<1>1. ASSUME NEW c \in Commands, LoadPrior(c) \/ SaveStep(c) \/ ReviewStep(c) \/ ResolveOverride(c)
      PROVE  SessionsOK'
  <2>1. c \in Processes /\ c \notin Servers
    BY SelectionAssumptions DEF Processes
  <2>2. PICK x : Becomes(c, x)
    BY <1>1, CommandBecomes
  <2> QED
    BY <2>1, <2>2, OneBecomes
<1>2. CASE \E p \in Processes : Inspect(p)
  BY <1>2, SessionInspects
<1>3. CASE \E s \in Servers : LoadSelection(s) \/ StartSession(s)
  BY <1>3, SessionLoads, SessionStarts
<1>4. ASSUME UNCHANGED process PROVE SessionsOK'
  BY <1>4 DEF SessionsOK, SessionOK
<1>5. CASE ChangeDatabase \/ UNCHANGED vars
  BY <1>4, <1>5 DEF ChangeDatabase, vars
<1>6. Reviewers \subseteq Commands /\ Overrides \subseteq Commands
  BY DEF Commands
<1> QED
  BY <1>1, <1>2, <1>3, <1>5, <1>6 DEF Next

(* On every driver, the foreign keys of a session's tables, read through   *)
(* the names of its columns, are those of the database between them.       *)
THEOREM ForeignKeysFaithfulCorrect == Spec => []ForeignKeysFaithful
<1>1. Init => SessionsOK
  <2> SUFFICES ASSUME Init PROVE SessionsOK
    OBVIOUS
  <2>1. \A s \in Servers : process[s].pc = "idle"
    BY DEF Init, Processes, Fresh
  <2> QED
    BY <2>1 DEF SessionsOK, SessionOK
<1>2. SessionsOK => ForeignKeysFaithful
  <2> SUFFICES ASSUME SessionsOK, NEW s \in Servers, At(s, "serving"), Readable(process[s].seen),
                      \A id \in DOMAIN process[s].tables : Distinct(Catalog(s)[id]),
                      NEW id \in DOMAIN process[s].tables
               PROVE  {AsForeign(process[s].tables, id, f) : f \in process[s].tables[id].fk} =
                      {k \in ForeignOf(process[s].seen.objects, id) : k.to \in DOMAIN process[s].tables}
    BY DEF ForeignKeysFaithful
  <2> DEFINE db == process[s].seen
             catalog == process[s].inspected
             tables == process[s].tables
             scope == process[s].scope
             selected == Selected(ReconcileSchemaSelection(catalog, scope))
  <2>1. /\ db \in Databases /\ ~Inconsistent(GetSchema(db)) /\ catalog = CreateSchemaCatalog(GetSchema(db))
        /\ Selected(scope) \subseteq DOMAIN catalog /\ ~Unmappable(catalog, Selected(scope))
        /\ tables = CreateRuntimeSchemaMappings(catalog, scope)
    BY DEF SessionsOK, SessionOK, At
  <2>2. selected = Selected(scope)
    BY <2>1 DEF Selected, ReconcileSchemaSelection
  <2>3. tables = [x \in selected |-> CreateRuntimeTable(catalog, selected, x)]
    BY <2>1 DEF CreateRuntimeSchemaMappings
  <2>4. db.driver \in Drivers /\ WellFormed(db)
    BY <2>1, SelectionAssumptions
  <2>5. \A x \in selected : Distinct(catalog[x])
    BY <2>3 DEF Catalog
  <2> HIDE DEF selected, tables, catalog, db, scope
  <2>6. Readable(db)
    BY DEF db
  <2>7. Served(db, catalog, selected)
    BY <2>1, <2>2, <2>4, <2>5, <2>6 DEF Served
  <2>8. id \in selected /\ DOMAIN tables = selected
    BY <2>3 DEF tables
  <2>9. {AsForeign(tables, id, f) : f \in tables[id].fk} = {k \in ForeignOf(db.objects, id) : k.to \in selected}
    BY <2>3, <2>7, <2>8, TablesFaithful
  <2> QED
    BY <2>8, <2>9 DEF tables, db
<1> QED
  BY <1>1, <1>2, SessionsNext, Invariant, PTL DEF Spec

-----------------------------------------------------------------------------
(* SchemaJoin: walks along foreign keys                                    *)

End(w) == w[Len(w)]

IsWalk(w, s) ==
  /\ w \in Seq(Tables) /\ Len(w) >= 1 /\ w[1] = s
  /\ \A i \in 1..(Len(w) - 1) : w[i + 1] \in Related(w[i])

(* Every walk from s to t passes at least n tables; there is none at all.  *)
AtLeast(s, t, n) == \A w \in Seq(Tables) : IsWalk(w, s) /\ End(w) = t => Len(w) >= n
NoWalk(s, t) == \A w \in Seq(Tables) : IsWalk(w, s) => End(w) # t

LEMMA SeqFacts ==
  ASSUME NEW w \in Seq(Tables)
  PROVE  /\ Len(w) \in Nat /\ DOMAIN w = 1..Len(w) /\ \A i \in 1..Len(w) : w[i] \in Tables
         /\ w = << >> <=> Len(w) = 0
OBVIOUS

(* One table more, one table less, the last part of a walk.                *)
LEMMA WalkExtended ==
  ASSUME NEW w, NEW s, NEW t \in Related(End(w)), IsWalk(w, s)
  PROVE  /\ IsWalk(Append(w, t), s) /\ End(Append(w, t)) = t /\ Len(Append(w, t)) = Len(w) + 1
<1>0. t \in Tables
  BY DEF Related
<1>1. /\ w \in Seq(Tables) /\ Len(w) \in Nat /\ Len(w) >= 1 /\ t \in Tables
      /\ w[1] = s /\ \A i \in 1..(Len(w) - 1) : w[i + 1] \in Related(w[i])
  BY <1>0 DEF IsWalk
<1> DEFINE x == Append(w, t)
<1>2. x \in Seq(Tables) /\ Len(x) = Len(w) + 1
  BY <1>1
<1>3. /\ \A i \in 1..Len(w) : x[i] = w[i]
      /\ x[Len(w) + 1] = t
  BY <1>1
<1> HIDE DEF x
<1>4. x[1] = s /\ End(x) = t
  BY <1>1, <1>2, <1>3 DEF End
<1>5. ASSUME NEW i \in 1..(Len(x) - 1) PROVE x[i + 1] \in Related(x[i])
  <2>1. CASE i = Len(w)
    BY <1>1, <1>3, <2>1 DEF End
  <2>2. CASE i # Len(w)
    <3>1. i \in 1..(Len(w) - 1) /\ i \in 1..Len(w) /\ i + 1 \in 1..Len(w)
      BY <1>1, <1>2, <2>2
    <3> QED
      BY <1>1, <1>3, <3>1
  <2> QED
    BY <2>1, <2>2
<1>6. IsWalk(x, s)
  BY <1>1, <1>2, <1>4, <1>5 DEF IsWalk
<1> QED
  BY <1>2, <1>4, <1>6 DEF x

LEMMA WalkPart ==
  ASSUME NEW w, NEW s, IsWalk(w, s), NEW a \in 1..Len(w), NEW b \in a..Len(w)
  PROVE  /\ IsWalk(SubSeq(w, a, b), w[a]) /\ End(SubSeq(w, a, b)) = w[b]
         /\ Len(SubSeq(w, a, b)) = b - a + 1
<1> DEFINE x == SubSeq(w, a, b)
<1>1. /\ w \in Seq(Tables) /\ Len(w) \in Nat
      /\ \A i \in 1..(Len(w) - 1) : w[i + 1] \in Related(w[i])
  BY DEF IsWalk
<1>2. a \in Nat /\ b \in Nat /\ a >= 1 /\ a <= b /\ b <= Len(w)
  BY <1>1
<1>3. x \in Seq(Tables) /\ Len(x) = b - a + 1
  BY <1>1, <1>2
<1>4. \A i \in 1..Len(x) : x[i] = w[i + a - 1]
  BY <1>1, <1>2
<1> HIDE DEF x
<1>5. x[1] = w[a] /\ End(x) = w[b]
  <2>1. 1 \in 1..Len(x) /\ Len(x) \in 1..Len(x) /\ 1 + a - 1 = a /\ (b - a + 1) + a - 1 = b
    BY <1>2, <1>3
  <2> QED
    BY <1>3, <1>4, <2>1 DEF End
<1>6. ASSUME NEW i \in 1..(Len(x) - 1) PROVE x[i + 1] \in Related(x[i])
  <2>1. /\ i \in 1..Len(x) /\ i + 1 \in 1..Len(x)
        /\ i + a - 1 \in 1..(Len(w) - 1) /\ (i + 1) + a - 1 = (i + a - 1) + 1
    BY <1>2, <1>3
  <2> QED
    BY <1>1, <1>4, <2>1
<1>7. IsWalk(x, w[a])
  BY <1>2, <1>3, <1>5, <1>6 DEF IsWalk
<1> QED
  BY <1>3, <1>5, <1>7 DEF x

(* A set that contains a table and the tables related to any of its own    *)
(* contains every walk from there.                                         *)
LEMMA ClosedSet ==
  ASSUME NEW v, NEW s \in v, \A u \in v : Related(u) \subseteq v, NEW w, IsWalk(w, s)
  PROVE  End(w) \in v
<1>1. /\ w \in Seq(Tables) /\ Len(w) \in Nat /\ Len(w) >= 1 /\ w[1] = s
      /\ \A i \in 1..(Len(w) - 1) : w[i + 1] \in Related(w[i])
  BY DEF IsWalk
<1> DEFINE out == {i \in 1..Len(w) : w[i] \notin v}
<1>2. out = {}
  <2> SUFFICES ASSUME out # {} PROVE FALSE
    OBVIOUS
  <2>1. out \subseteq Nat
    BY <1>1
  <2>2. PICK i \in out : \A j \in out : i <= j
    BY <2>1, SmallestNat
  <2>3. i \in 1..Len(w) /\ w[i] \notin v /\ i # 1
    BY <1>1, <2>2
  <2>4. i - 1 \in 1..Len(w) /\ i - 1 \in 1..(Len(w) - 1) /\ ~(i <= i - 1) /\ (i - 1) + 1 = i
    BY <1>1, <2>3
  <2>5. w[i - 1] \in v
    BY <2>2, <2>4
  <2>6. w[i] \in Related(w[i - 1])
    BY <1>1, <2>4
  <2> QED
    BY <2>3, <2>5, <2>6
<1> QED
  BY <1>1, <1>2 DEF End

(* A walk that passes a table twice can be cut short.                      *)
LEMMA WalkCut ==
  ASSUME NEW w, NEW s, IsWalk(w, s), NEW i \in 1..Len(w), NEW j \in 1..Len(w), i < j, w[i] = w[j]
  PROVE  \E x \in Seq(Tables) : IsWalk(x, s) /\ End(x) = End(w) /\ Len(x) < Len(w)
<1> DEFINE size == i + Len(w) - j
           x == [k \in 1..size |-> IF k <= i THEN w[k] ELSE w[k + j - i]]
<1>1. /\ w \in Seq(Tables) /\ Len(w) \in Nat /\ Len(w) >= 1 /\ w[1] = s
      /\ \A k \in 1..(Len(w) - 1) : w[k + 1] \in Related(w[k])
  BY DEF IsWalk
<1>2. size \in Nat /\ size >= 1 /\ size < Len(w) /\ i \in Nat /\ j \in Nat /\ i <= size /\ i >= 1
  BY <1>1
<1>3. ASSUME NEW k \in 1..size
      PROVE  /\ k <= i => k \in 1..Len(w) /\ x[k] = w[k]
             /\ k > i => k + j - i \in 1..Len(w) /\ x[k] = w[k + j - i]
             /\ k = i => x[k] = w[k + j - i]
  <2>1. k \in Nat /\ k >= 1 /\ k <= size
    BY <1>2
  <2>2. k = i => k + j - i = j
    BY <1>2, <2>1
  <2>3. k <= i => k \in 1..Len(w) /\ x[k] = w[k]
    BY <1>1, <1>2, <2>1
  <2>4. k > i => k + j - i \in 1..Len(w)
    BY <1>1, <1>2, <2>1
  <2>5. k > i => x[k] = w[k + j - i]
    BY <1>2, <2>1
  <2> QED
    BY <1>2, <2>2, <2>3, <2>4, <2>5
<1>4. x \in Seq(Tables) /\ Len(x) = size
  <2>1. ASSUME NEW k \in 1..size PROVE x[k] \in Tables
    <3>1. k <= i \/ k > i
      BY <1>2
    <3> QED
      BY <1>1, <1>3, <3>1
  <2>2. x \in [1..size -> Tables]
    BY <2>1
  <2> HIDE DEF x, size
  <2> QED
    BY <1>2, <2>2
<1> HIDE DEF x
<1>5. x[1] = s
  BY <1>1, <1>2, <1>3
<1>6. End(x) = End(w)
  <2>1. size \in 1..size /\ size >= i /\ size + j - i = Len(w)
    BY <1>1, <1>2
  <2>2. x[size] = w[Len(w)]
    BY <1>2, <1>3, <2>1
  <2> QED
    BY <1>4, <2>2 DEF End
<1>7. ASSUME NEW k \in 1..(size - 1) PROVE x[k + 1] \in Related(x[k])
  <2>1. k \in 1..size /\ k + 1 \in 1..size /\ k \in Nat
    BY <1>2
  <2>2. CASE k < i
    <3>1. k + 1 <= i /\ k <= i /\ k \in 1..(Len(w) - 1)
      BY <1>1, <1>2, <2>1, <2>2
    <3>2. x[k] = w[k] /\ x[k + 1] = w[k + 1]
      BY <1>3, <2>1, <3>1
    <3> QED
      BY <1>1, <3>1, <3>2
  <2>3. CASE k >= i
    <3>1. k + 1 > i /\ (k + 1) + j - i = (k + j - i) + 1 /\ k + j - i \in 1..(Len(w) - 1)
      BY <1>1, <1>2, <2>1, <2>3
    <3>2. x[k] = w[k + j - i]
      BY <1>2, <1>3, <2>1, <2>3
    <3>3. x[k + 1] = w[(k + j - i) + 1]
      <4>1. x[k + 1] = w[(k + 1) + j - i]
        BY <1>3, <2>1, <3>1
      <4> QED
        BY <3>1, <4>1
    <3> QED
      BY <1>1, <3>1, <3>2, <3>3
  <2> QED
    BY <1>2, <2>1, <2>2, <2>3
<1>8. IsWalk(x, s)
  BY <1>2, <1>4, <1>5, <1>7 DEF IsWalk
<1> QED
  BY <1>2, <1>4, <1>6, <1>8

-----------------------------------------------------------------------------
(* The breadth-first search                                                *)

(* The search from s for t with the queue q and the visited tables v: the  *)
(* paths in the queue are shortest, in order of their lengths, which differ *)
(* by one at most; what is related to a visited table is visited too, or   *)
(* will be; and no walk as short as the head leads to a table not visited. *)
PathsOK(s, q, v) ==
  \A i \in 1..Len(q) : IsWalk(q[i], s) /\ End(q[i]) \in v /\ AtLeast(s, End(q[i]), Len(q[i]))
LengthsOK(q) ==
  \A i, j \in 1..Len(q) : i <= j => Len(q[i]) <= Len(q[j]) /\ Len(q[j]) <= Len(q[1]) + 1
Closing(q, v) ==
  \A u \in v : (\E i \in 1..Len(q) : End(q[i]) = u) \/ Related(u) \subseteq v
NearVisited(s, q, v) ==
  q # << >> => \A w \in Seq(Tables) : IsWalk(w, s) /\ Len(w) <= Len(q[1]) => End(w) \in v

Frontier(s, t, q, v) ==
  /\ q \in Seq(Seq(Tables)) /\ v \subseteq Tables /\ s \in v /\ t \notin v
  /\ PathsOK(s, q, v) /\ LengthsOK(q) /\ Closing(q, v) /\ NearVisited(s, q, v)

LEMMA FrontierStarts ==
  ASSUME NEW s \in Tables, NEW t, s # t
  PROVE  Frontier(s, t, << << s >> >>, {s})
<1> DEFINE q == << << s >> >>
<1>1. q \in Seq(Seq(Tables)) /\ Len(q) = 1 /\ q[1] = << s >> /\ 1..1 = {1}
  OBVIOUS
<1>2. << s >> \in Seq(Tables) /\ Len(<< s >>) = 1 /\ << s >>[1] = s /\ 1..(1 - 1) = {}
  OBVIOUS
<1>3. IsWalk(<< s >>, s) /\ End(<< s >>) = s
  BY <1>2 DEF IsWalk, End
<1>4. AtLeast(s, s, 1)
  BY DEF AtLeast, IsWalk
<1>5. \A w \in Seq(Tables) : IsWalk(w, s) /\ Len(w) <= 1 => End(w) \in {s}
  BY DEF IsWalk, End
<1> HIDE DEF q
<1>6. PathsOK(s, q, {s})
  BY <1>1, <1>2, <1>3, <1>4 DEF PathsOK
<1>7. LengthsOK(q)
  <2> SUFFICES ASSUME NEW i \in 1..Len(q), NEW j \in 1..Len(q)
               PROVE  Len(q[i]) <= Len(q[j]) /\ Len(q[j]) <= Len(q[1]) + 1
    BY DEF LengthsOK
  <2>1. i = 1 /\ j = 1 /\ Len(q[1]) = 1
    BY <1>1, <1>2
  <2> QED
    BY <2>1
<1>8. Closing(q, {s})
  BY <1>1, <1>3 DEF Closing
<1>9. NearVisited(s, q, {s})
  BY <1>1, <1>2, <1>5 DEF NearVisited
<1> QED
  BY <1>1, <1>6, <1>7, <1>8, <1>9 DEF Frontier, q

(* It ends without a path only if there is no walk.                        *)
LEMMA ExhaustedFrontier ==
  ASSUME NEW s, NEW t, NEW v, Frontier(s, t, << >>, v)
  PROVE  NoWalk(s, t)
<1>1. \A u \in v : Related(u) \subseteq v
  <2>1. Len(<< >>) = 0 /\ 1..0 = {}
    OBVIOUS
  <2> QED
    BY <2>1 DEF Frontier, Closing
<1>2. s \in v /\ t \notin v
  BY DEF Frontier
<1> QED
  BY <1>1, <1>2, ClosedSet DEF NoWalk

(* What one round of the search knows of the queue's head.                 *)
LEMMA HeadFacts ==
  ASSUME NEW s, NEW t, NEW q, NEW v, Frontier(s, t, q, v), q # << >>
  PROVE  /\ Head(q) = q[1] /\ Head(q) \in Seq(Tables) /\ Len(Head(q)) \in Nat /\ Len(Head(q)) >= 1
         /\ Len(q) \in Nat /\ Len(q) >= 1 /\ Last(Head(q)) = End(Head(q)) /\ IsWalk(Head(q), s)
         /\ \A w \in Seq(Tables) : IsWalk(w, s) /\ End(w) \notin v => Len(w) >= Len(Head(q)) + 1
<1>1. q \in Seq(Seq(Tables)) /\ PathsOK(s, q, v) /\ NearVisited(s, q, v)
  BY DEF Frontier
<1>2. Len(q) \in Nat /\ Len(q) >= 1 /\ Head(q) = q[1] /\ q[1] \in Seq(Tables)
  BY <1>1
<1>3. IsWalk(q[1], s)
  BY <1>1, <1>2 DEF PathsOK
<1>4. Len(q[1]) \in Nat /\ Len(q[1]) >= 1
  BY <1>2, <1>3 DEF IsWalk
<1>5. Last(Head(q)) = End(Head(q))
  BY <1>2 DEF Last, End
<1>6. ASSUME NEW w \in Seq(Tables), IsWalk(w, s), End(w) \notin v PROVE Len(w) >= Len(q[1]) + 1
  <2>1. ~(Len(w) <= Len(q[1]))
    BY <1>1, <1>6 DEF NearVisited
  <2>2. Len(w) \in Nat
    OBVIOUS
  <2> QED
    BY <1>4, <2>1, <2>2
<1> QED
  BY <1>2, <1>3, <1>4, <1>5, <1>6

(* The path that arrives is a shortest one.                                *)
LEMMA ArrivalShortest ==
  ASSUME NEW s, NEW t, NEW q, NEW v, Frontier(s, t, q, v), q # << >>, t \in Related(Last(Head(q)))
  PROVE  /\ IsWalk(Append(Head(q), t), s) /\ End(Append(Head(q), t)) = t
         /\ Len(Append(Head(q), t)) = Len(Head(q)) + 1 /\ AtLeast(s, t, Len(Head(q)) + 1)
<1>1. t \notin v
  BY DEF Frontier
<1> QED
  BY <1>1, HeadFacts, WalkExtended DEF AtLeast

LEMMA OrderFacts ==
  ASSUME NEW S \in SUBSET Tables, NEW order \in SetToSeqs(S)
  PROVE  /\ Len(order) \in Nat /\ DOMAIN order = 1..Len(order)
         /\ \A i \in 1..Len(order) : order[i] \in S
         /\ \A u \in S : \E i \in 1..Len(order) : order[i] = u
<1> DEFINE n == Cardinality(S)
<1>1. IsFiniteSet(S)
  BY JoinAssumption, FS_Subset
<1>2. n \in Nat
  BY <1>1, FS_CardinalityType
<1> HIDE DEF n
<1>3. order \in [1..n -> S] /\ \A i, j \in 1..n : i # j => order[i] # order[j]
  BY DEF SetToSeqs, n
<1>4. order \in Injection(1..n, S)
  BY <1>3 DEF Injection, IsInjective
<1>5. Cardinality(1..n) = n
  BY <1>2, FS_Interval
<1>6. order \in Surjection(1..n, S)
  BY <1>1, <1>4, <1>5, FS_Injection DEF n
<1>7. \A u \in S : \E i \in 1..n : order[i] = u
  BY <1>6 DEF Surjection
<1>8. order \in Seq(S) /\ Len(order) = n
  BY <1>2, <1>3
<1> QED
  BY <1>2, <1>3, <1>7, <1>8

LEMMA FunctionIsSeq ==
  ASSUME NEW T, NEW n \in Nat, NEW f \in [1..n -> T]
  PROVE  f \in Seq(T) /\ Len(f) = n
OBVIOUS

LEMMA ConcatFacts ==
  ASSUME NEW T, NEW a \in Seq(T), NEW b \in Seq(T)
  PROVE  /\ a \o b \in Seq(T) /\ Len(a \o b) = Len(a) + Len(b)
         /\ \A i \in 1..Len(a) : (a \o b)[i] = a[i]
         /\ \A i \in 1..Len(b) : (a \o b)[Len(a) + i] = b[i]
OBVIOUS

(* The queue after a round: the rest of it, then the head's new paths.     *)
Rounded(q, S, r) ==
  /\ r \in Seq(Seq(Tables)) /\ Len(r) \in Nat /\ Len(r) >= Len(q) - 1
  /\ \A i \in 1..Len(r) : i < Len(q) => r[i] = q[i + 1]
  /\ \A i \in 1..Len(r) : i >= Len(q) => \E u \in S : r[i] = Append(Head(q), u)
  /\ \A u \in S : \E i \in 1..Len(r) : r[i] = Append(Head(q), u)

LEMMA QueueAfterRound ==
  ASSUME NEW q \in Seq(Seq(Tables)), q # << >>, NEW S \in SUBSET Tables, NEW order \in SetToSeqs(S)
  PROVE  Rounded(q, S, Tail(q) \o [i \in DOMAIN order |-> Append(Head(q), order[i])])
<1> DEFINE rest == Tail(q)
           new == [i \in DOMAIN order |-> Append(Head(q), order[i])]
<1>1. /\ Len(order) \in Nat /\ DOMAIN order = 1..Len(order)
      /\ \A i \in 1..Len(order) : order[i] \in S
      /\ \A u \in S : \E i \in 1..Len(order) : order[i] = u
  BY OrderFacts
<1>2. /\ Len(q) \in Nat /\ Len(q) >= 1 /\ Head(q) \in Seq(Tables)
      /\ rest \in Seq(Seq(Tables)) /\ Len(rest) = Len(q) - 1
  OBVIOUS
<1>3. \A i \in 1..(Len(q) - 1) : rest[i] = q[i + 1]
  OBVIOUS
<1>4. new \in Seq(Seq(Tables)) /\ Len(new) = Len(order)
  <2>1. \A i \in 1..Len(order) : Append(Head(q), order[i]) \in Seq(Tables)
    BY <1>1, <1>2
  <2>2. new \in [1..Len(order) -> Seq(Tables)]
    BY <1>1, <2>1
  <2> HIDE DEF new
  <2> QED
    BY <1>1, <2>2, FunctionIsSeq
<1>5. \A i \in 1..Len(order) : new[i] = Append(Head(q), order[i])
  BY <1>1
<1> DEFINE r == rest \o new
<1> HIDE DEF new, rest
<1>6. /\ r \in Seq(Seq(Tables)) /\ Len(r) = Len(rest) + Len(new)
      /\ \A i \in 1..Len(rest) : r[i] = rest[i]
      /\ \A i \in 1..Len(new) : r[Len(rest) + i] = new[i]
  <2> DEFINE T == Seq(Tables)
  <2>1. rest \in Seq(T) /\ new \in Seq(T)
    BY <1>2, <1>4
  <2> HIDE DEF T
  <2>2. /\ rest \o new \in Seq(T) /\ Len(rest \o new) = Len(rest) + Len(new)
        /\ \A i \in 1..Len(rest) : (rest \o new)[i] = rest[i]
        /\ \A i \in 1..Len(new) : (rest \o new)[Len(rest) + i] = new[i]
    BY ONLY <2>1, ConcatFacts
  <2> QED
    BY <2>2 DEF T
<1> HIDE DEF r
<1>7. Len(r) = Len(q) - 1 + Len(order) /\ Len(r) \in Nat /\ Len(r) >= Len(q) - 1
  BY <1>1, <1>2, <1>4, <1>6
<1>8. \A i \in 1..Len(order) : r[Len(q) - 1 + i] = new[i]
  BY <1>2, <1>4, <1>6
<1>9. ASSUME NEW i \in 1..Len(r), i < Len(q) PROVE r[i] = q[i + 1]
  <2>1. i \in 1..(Len(q) - 1)
    BY <1>2, <1>7, <1>9
  <2> QED
    BY <1>2, <1>3, <1>6, <2>1
<1>10. ASSUME NEW i \in 1..Len(r), i >= Len(q) PROVE \E u \in S : r[i] = Append(Head(q), u)
  <2> DEFINE k == i - (Len(q) - 1)
  <2>1. k \in 1..Len(order) /\ i = Len(q) - 1 + k
    BY <1>1, <1>2, <1>7, <1>10
  <2> HIDE DEF k
  <2>2. r[i] = Append(Head(q), order[k])
    BY <1>5, <1>8, <2>1
  <2> QED
    BY <1>1, <2>1, <2>2
<1>11. ASSUME NEW u \in S PROVE \E i \in 1..Len(r) : r[i] = Append(Head(q), u)
  <2>1. PICK k \in 1..Len(order) : order[k] = u
    BY <1>1
  <2>2. Len(q) - 1 + k \in 1..Len(r)
    BY <1>1, <1>2, <1>7
  <2>3. r[Len(q) - 1 + k] = Append(Head(q), u)
    BY <1>5, <1>8, <2>1
  <2> QED
    BY <2>2, <2>3
<1>12. Rounded(q, S, r)
  BY <1>6, <1>7, <1>9, <1>10, <1>11 DEF Rounded
<1> QED
  BY <1>12 DEF r, new, rest

LEMMA RoundKeepsFrontier ==
  ASSUME NEW s, NEW t, NEW q, NEW v, Frontier(s, t, q, v), q # << >>,
         NEW fresh, fresh = Related(Last(Head(q))) \ v, t \notin fresh,
         NEW r, Rounded(q, fresh, r)
  PROVE  Frontier(s, t, r, v \cup fresh)
<1> DEFINE head == Head(q)
           size == Len(head)
<1>1. /\ q \in Seq(Seq(Tables)) /\ v \subseteq Tables /\ s \in v /\ t \notin v
      /\ PathsOK(s, q, v) /\ LengthsOK(q) /\ Closing(q, v)
  BY DEF Frontier
<1>2. fresh \subseteq Tables
  BY DEF Related
<1>3. /\ head = q[1] /\ head \in Seq(Tables) /\ size \in Nat /\ size >= 1
      /\ Len(q) \in Nat /\ Len(q) >= 1 /\ Last(head) = End(head) /\ IsWalk(head, s)
      /\ \A w \in Seq(Tables) : IsWalk(w, s) /\ End(w) \notin v => Len(w) >= size + 1
  BY HeadFacts
<1>4. /\ r \in Seq(Seq(Tables)) /\ Len(r) \in Nat /\ Len(r) >= Len(q) - 1
      /\ \A i \in 1..Len(r) : i < Len(q) => r[i] = q[i + 1]
      /\ \A i \in 1..Len(r) : i >= Len(q) => \E u \in fresh : r[i] = Append(head, u)
      /\ \A u \in fresh : \E i \in 1..Len(r) : r[i] = Append(head, u)
  BY DEF Rounded
<1>5. ASSUME NEW u \in fresh
      PROVE  /\ IsWalk(Append(head, u), s) /\ End(Append(head, u)) = u
             /\ Len(Append(head, u)) = size + 1 /\ AtLeast(s, u, size + 1)
  <2>1. u \in Related(End(head)) /\ u \notin v
    BY <1>3
  <2> QED
    BY <1>3, <2>1, WalkExtended DEF AtLeast
<1> HIDE DEF head, size
<1>6. ASSUME NEW i \in 1..Len(r)
      PROVE  /\ IsWalk(r[i], s) /\ End(r[i]) \in v \cup fresh /\ AtLeast(s, End(r[i]), Len(r[i]))
             /\ Len(r[i]) \in Nat /\ Len(r[i]) >= size /\ Len(r[i]) <= size + 1
             /\ i >= Len(q) => Len(r[i]) = size + 1
  <2>1. CASE i < Len(q)
    <3>1. r[i] = q[i + 1] /\ i + 1 \in 1..Len(q) /\ 1 \in 1..Len(q) /\ 1 <= i + 1 /\ ~(i >= Len(q))
      BY <1>3, <1>4, <2>1
    <3>2. IsWalk(q[i + 1], s) /\ End(q[i + 1]) \in v /\ AtLeast(s, End(q[i + 1]), Len(q[i + 1]))
      BY <1>1, <3>1 DEF PathsOK
    <3>3. Len(q[1]) <= Len(q[i + 1]) /\ Len(q[i + 1]) <= Len(q[1]) + 1
      BY <1>1, <3>1 DEF LengthsOK
    <3>4. Len(q[i + 1]) \in Nat /\ size = Len(q[1])
      BY <1>3, <3>2 DEF IsWalk, size
    <3> QED
      BY <1>3, <3>1, <3>2, <3>3, <3>4
  <2>2. CASE i >= Len(q)
    <3>1. PICK u \in fresh : r[i] = Append(head, u)
      BY <1>4, <2>2
    <3>2. IsWalk(r[i], s) /\ End(r[i]) = u /\ Len(r[i]) = size + 1 /\ AtLeast(s, u, size + 1)
      BY <1>5, <3>1
    <3> QED
      BY <1>3, <3>2
  <2>3. i < Len(q) \/ i >= Len(q)
    BY <1>3, <1>4
  <2> QED
    BY <2>1, <2>2, <2>3
<1>7. PathsOK(s, r, v \cup fresh)
  BY <1>6 DEF PathsOK
<1>8. LengthsOK(r)
  <2> SUFFICES ASSUME NEW i \in 1..Len(r), NEW j \in 1..Len(r), i <= j
               PROVE  Len(r[i]) <= Len(r[j]) /\ Len(r[j]) <= Len(r[1]) + 1
    BY DEF LengthsOK
  <2>1. 1 \in 1..Len(r)
    BY <1>4
  <2>2. Len(r[j]) <= Len(r[1]) + 1
    <3>1. Len(r[j]) <= size + 1 /\ Len(r[1]) >= size /\ Len(r[j]) \in Nat /\ Len(r[1]) \in Nat
      BY <1>6, <2>1
    <3> QED
      BY <1>3, <3>1
  <2>3. CASE j < Len(q)
    <3>1. /\ r[i] = q[i + 1] /\ r[j] = q[j + 1] /\ i + 1 <= j + 1
          /\ i + 1 \in 1..Len(q) /\ j + 1 \in 1..Len(q)
      BY <1>3, <1>4, <2>3
    <3> QED
      BY <1>1, <2>2, <3>1 DEF LengthsOK
  <2>4. CASE j >= Len(q)
    <3>1. Len(r[j]) = size + 1 /\ Len(r[i]) <= size + 1
      BY <1>6, <2>4
    <3> QED
      BY <2>2, <3>1
  <2> QED
    BY <1>3, <1>4, <2>3, <2>4
<1>9. Closing(r, v \cup fresh)
  <2> SUFFICES ASSUME NEW u \in v \cup fresh
               PROVE  (\E i \in 1..Len(r) : End(r[i]) = u) \/ Related(u) \subseteq v \cup fresh
    BY DEF Closing
  <2>1. CASE u \in fresh
    BY <1>4, <1>5, <2>1
  <2>2. ASSUME NEW i \in 1..Len(q), End(q[i]) = u, i # 1 PROVE \E j \in 1..Len(r) : End(r[j]) = u
    <3>1. i - 1 \in 1..Len(r) /\ i - 1 < Len(q) /\ (i - 1) + 1 = i
      BY <1>3, <1>4, <2>2
    <3>2. r[i - 1] = q[i]
      BY <1>4, <3>1
    <3> QED
      BY <2>2, <3>1, <3>2
  <2>3. CASE End(q[1]) = u
    BY <1>3, <2>3
  <2>4. CASE u \in v
    BY <1>1, <2>2, <2>3, <2>4 DEF Closing
  <2> QED
    BY <2>1, <2>4
<1>10. NearVisited(s, r, v \cup fresh)
  <2> SUFFICES ASSUME r # << >>, NEW w \in Seq(Tables), IsWalk(w, s), Len(w) <= Len(r[1]),
                      End(w) \notin v \cup fresh
               PROVE  FALSE
    BY DEF NearVisited
  <2>1. 1 \in 1..Len(r) /\ Len(w) \in Nat /\ Len(w) >= 1
    BY <1>4 DEF IsWalk
  <2>2. Len(w) >= size + 1
    BY <1>3
  <2>3. Len(r[1]) = size + 1 /\ Len(w) = size + 1
    <3>1. Len(r[1]) \in Nat /\ Len(r[1]) <= size + 1
      BY <1>6, <2>1
    <3> QED
      BY <1>3, <2>1, <2>2, <3>1
  <2>4. \A i \in 1..Len(r) : Len(r[i]) >= size + 1
    <3>1. LengthsOK(r)
      BY <1>8
    <3>2. \A i \in 1..Len(r) : Len(r[1]) <= Len(r[i])
      BY <2>1, <3>1, <1>4 DEF LengthsOK
    <3> QED
      BY <2>3, <3>2
  <2> DEFINE p == SubSeq(w, 1, size)
             u == w[size]
  <2>5. 1 \in 1..Len(w) /\ size \in 1..Len(w) /\ w[1] = s
    BY <1>3, <2>1, <2>3 DEF IsWalk
  <2>6. IsWalk(p, s) /\ End(p) = u /\ Len(p) = size
    BY <1>3, <2>5, WalkPart
  <2>7. p \in Seq(Tables)
    BY <2>6 DEF IsWalk
  <2> HIDE DEF p, u
  <2>8. u \in v
    <3>1. ~(size >= size + 1)
      BY <1>3
    <3> QED
      BY <1>3, <2>6, <2>7, <3>1
  <2>9. ASSUME NEW i \in 1..Len(r), End(r[i]) = u PROVE FALSE
    <3>1. size >= Len(r[i])
      BY <1>6, <2>6, <2>7, <2>9 DEF AtLeast
    <3>2. Len(r[i]) >= size + 1 /\ Len(r[i]) \in Nat
      BY <1>6, <2>4
    <3> QED
      BY <1>3, <3>1, <3>2
  <2>10. Related(u) \subseteq v \cup fresh
    BY <1>9, <2>8, <2>9 DEF Closing
  <2>11. End(w) \in Related(u)
    <3>1. size \in 1..(Len(w) - 1) /\ size + 1 = Len(w)
      BY <1>3, <2>3
    <3> QED
      BY <3>1 DEF IsWalk, End, u
  <2> QED
    BY <2>10, <2>11
<1> QED
  BY <1>1, <1>2, <1>4, <1>7, <1>8, <1>9, <1>10 DEF Frontier

-----------------------------------------------------------------------------
(* The plan                                                                *)

LEMMA IntervalSize ==
  ASSUME NEW a \in Nat, NEW b \in Nat, a <= b + 1
  PROVE  Cardinality(a..b) = b + 1 - a
<1>1. Cardinality(a..b) = IF a > b THEN 0 ELSE b - a + 1
  BY FS_Interval
<1>2. CASE a > b
  <2>1. Cardinality(a..b) = 0
    BY <1>1, <1>2
  <2>2. b + 1 - a = 0
    BY <1>2
  <2> QED
    BY <2>1, <2>2
<1>3. CASE ~(a > b)
  <2>1. Cardinality(a..b) = b - a + 1
    BY <1>1, <1>3
  <2>2. b - a + 1 = b + 1 - a
    OBVIOUS
  <2> QED
    BY <2>1, <2>2
<1> QED
  BY <1>2, <1>3

(* What is left of a sequence of which exactly the first n elements are    *)
(* in S.                                                                   *)
LEMMA WithoutFirst ==
  ASSUME NEW T, NEW s \in Seq(T), NEW S, NEW n \in 0..Len(s),
         \A i \in 1..Len(s) : s[i] \in S <=> i <= n
  PROVE  /\ Without(s, S) \in Seq(T) /\ Len(Without(s, S)) = Len(s) - n
         /\ \A i \in 1..(Len(s) - n) : Without(s, S)[i] = s[n + i]
<1> DEFINE kept == {i \in DOMAIN s : s[i] \notin S}
           pick(k) == CHOOSE i \in kept : Cardinality({j \in kept : j <= i}) = k
<1>1. Len(s) \in Nat /\ DOMAIN s = 1..Len(s) /\ n \in Nat /\ n <= Len(s)
      /\ \A i \in 1..Len(s) : s[i] \in T
  OBVIOUS
<1>2. kept = (n + 1)..Len(s)
  <2>1. ASSUME NEW i \in kept PROVE i \in (n + 1)..Len(s)
    BY <1>1
  <2>2. ASSUME NEW i \in (n + 1)..Len(s) PROVE i \in kept
    BY <1>1
  <2> QED
    BY <2>1, <2>2
<1>3. Cardinality(kept) = Len(s) - n
  <2>1. n + 1 \in Nat /\ Len(s) \in Nat /\ n + 1 <= Len(s) + 1 /\ Len(s) + 1 - (n + 1) = Len(s) - n
    <3>1. \A m, k \in Nat : k <= m => k + 1 \in Nat /\ k + 1 <= m + 1 /\ m + 1 - (k + 1) = m - k
      OBVIOUS
    <3> QED
      BY ONLY <1>1, <3>1
  <2>2. Cardinality((n + 1)..Len(s)) = Len(s) + 1 - (n + 1)
    BY <2>1, IntervalSize
  <2> QED
    BY <1>2, <2>1, <2>2
<1>4. ASSUME NEW i \in kept PROVE Cardinality({j \in kept : j <= i}) = i - n
  <2>1. i \in (n + 1)..Len(s) /\ i \in Nat
    BY <1>1, <1>2
  <2>2. {j \in kept : j <= i} = (n + 1)..i
    BY <1>1, <1>2, <2>1
  <2>3. n + 1 \in Nat /\ n + 1 <= i + 1 /\ i + 1 - (n + 1) = i - n
    BY <1>1, <2>1
  <2>4. Cardinality((n + 1)..i) = i + 1 - (n + 1)
    BY <2>1, <2>3, IntervalSize
  <2> QED
    BY <2>2, <2>3, <2>4
<1>5. ASSUME NEW k \in 1..(Len(s) - n) PROVE pick(k) = n + k
  <2>1. n + k \in kept /\ n + k - n = k
    BY <1>1, <1>2
  <2>2. Cardinality({j \in kept : j <= n + k}) = k
    <3> HIDE DEF kept
    <3> QED
      BY <1>4, <2>1
  <2>3. \A i \in kept : Cardinality({j \in kept : j <= i}) = k => i = n + k
    <3> SUFFICES ASSUME NEW i \in kept, Cardinality({j \in kept : j <= i}) = k PROVE i = n + k
      OBVIOUS
    <3>1. i - n = k
      BY <1>4
    <3>2. i \in Nat /\ k \in Nat
      BY <1>1
    <3> HIDE DEF kept
    <3> QED
      BY <1>1, <3>1, <3>2
  <2> HIDE DEF kept
  <2> QED
    BY <2>1, <2>2, <2>3
<1>6. Without(s, S) = [k \in 1..(Len(s) - n) |-> s[n + k]]
  <2>1. Without(s, S) = [k \in 1..Cardinality(kept) |-> s[pick(k)]]
    BY DEF Without
  <2> HIDE DEF pick, kept
  <2> QED
    BY <1>3, <1>5, <2>1
<1>7. Without(s, S) \in [1..(Len(s) - n) -> T]
  <2>1. \A k \in 1..(Len(s) - n) : n + k \in 1..Len(s)
    BY <1>1
  <2> HIDE DEF pick, kept
  <2> QED
    BY <1>1, <1>6, <2>1
<1>8. Len(s) - n \in Nat
  BY <1>1
<1> HIDE DEF pick, kept
<1>9. Without(s, S) \in Seq(T) /\ Len(Without(s, S)) = Len(s) - n
  BY <1>7, <1>8, FunctionIsSeq
<1> QED
  BY <1>6, <1>9

-----------------------------------------------------------------------------
(* The state of join() and its steps                                       *)

Goal == targets[at].table

(* The path found from the first n - 1 tables of the tree: a shortest one, *)
(* or none because there is no walk.                                       *)
PathFrom(b, tree, t, n) ==
  \/ b = << >> /\ \A i \in 1..(n - 1) : NoWalk(tree[i], t)
  \/ /\ b \in Seq(Tables) /\ IsWalk(b, b[1]) /\ b[1] \in ToSet(tree) /\ End(b) = t
     /\ \A i \in 1..(n - 1) : AtLeast(tree[i], t, Len(b))

(* The tree has one table more than the plan has steps: the root, and the  *)
(* table each step joins, each of them once.                               *)
Grown ==
  /\ connected \in Seq(Tables) /\ path \in Seq(Step)
  /\ Len(connected) = Len(path) + 1 /\ connected[1] = root
  /\ \A i \in 1..Len(path) : /\ path[i].to = connected[i + 1]
                             /\ \E j \in 1..i : path[i].from = connected[j]
  /\ \A i, j \in 1..Len(connected) : i # j => connected[i] # connected[j]
Needed ==
  \A i \in 1..Len(path) : \/ path[i].to \in Requested
                          \/ \E j \in (i + 1)..Len(path) : path[j].from = path[i].to
Reached == \A k \in 1..(at - 1) : targets[k].table \in ToSet(connected)

Planned == targets \in Seq(Target) /\ at \in 1..(Len(targets) + 1) /\ Grown /\ Needed /\ Reached

Seeking ==
  /\ at <= Len(targets) /\ Goal \notin ToSet(connected)
  /\ source \in 1..(Len(connected) + 1) /\ PathFrom(best, connected, Goal, source)

PlanInv ==
  /\ pc \in {"idle", "connecting", "searching", "found", "planned"} /\ root \in Roots
  /\ pc # "idle" => Planned
  /\ pc \in {"idle", "connecting"} => best = << >>
  /\ pc \in {"searching", "found"} => Seeking
  /\ pc = "searching" =>
       source <= Len(connected) /\ Frontier(connected[source], Goal, queue, visited)
  /\ pc = "found" => source = Len(connected) + 1
  /\ pc = "planned" => at = Len(targets) + 1

LEMMA FrontierNext ==
  ASSUME fk' = fk, NEW s, NEW t, NEW q, NEW v, Frontier(s, t, q, v),
         connected'[source'] = s, targets'[at'].table = t, queue' = q, visited' = v
  PROVE  Frontier(connected[source], Goal, queue, visited)'
<1>1. \A u : Related(u)' = Related(u)
  BY DEF Related
<1>2. \A w \in Seq(Tables) : IsWalk(w, s)' <=> IsWalk(w, s)
  BY <1>1 DEF IsWalk
<1> QED
  BY <1>1, <1>2 DEF Frontier, PathsOK, LengthsOK, Closing, NearVisited, AtLeast, Goal, End

LEMMA PathFromNext ==
  ASSUME fk' = fk, NEW b, NEW tree, NEW t, NEW n, tree \in Seq(Tables), PathFrom(b, tree, t, n),
         best' = b, connected' = tree, targets'[at'].table = t, source' = n
  PROVE  PathFrom(best, connected, Goal, source)'
<1>1. \A u : Related(u)' = Related(u)
  BY DEF Related
<1>2. \A s : \A w \in Seq(Tables) : IsWalk(w, s)' <=> IsWalk(w, s)
  BY <1>1 DEF IsWalk
<1>3. \A s, g : NoWalk(s, g) => NoWalk(s, g)'
  BY <1>2 DEF NoWalk, End
<1>4. \A s, g, k : AtLeast(s, g, k) => AtLeast(s, g, k)'
  BY <1>2 DEF AtLeast, End
<1> QED
  BY <1>2, <1>3, <1>4 DEF PathFrom, Goal, End

LEMMA PlannedFacts ==
  ASSUME Planned
  PROVE  /\ connected \in Seq(Tables) /\ Len(connected) \in Nat /\ Len(connected) >= 1
         /\ targets \in Seq(Target) /\ Len(targets) \in Nat /\ at \in Nat /\ at >= 1
         /\ path \in Seq(Step) /\ Len(path) \in Nat
         /\ at <= Len(targets) => Goal \in Tables
<1>1. connected \in Seq(Tables) /\ path \in Seq(Step) /\ Len(connected) = Len(path) + 1
  BY DEF Planned, Grown
<1>2. targets \in Seq(Target) /\ at \in 1..(Len(targets) + 1) /\ Len(targets) \in Nat
  BY DEF Planned
<1>3. ASSUME at <= Len(targets) PROVE Goal \in Tables
  <2>1. targets[at] \in Target
    BY <1>2, <1>3
  <2> QED
    BY <2>1 DEF Target, Goal
<1> QED
  BY <1>1, <1>2, <1>3

LEMMA SamePlan ==
  ASSUME Planned, UNCHANGED << request, plan >>
  PROVE  Planned'
BY DEF Planned, Grown, Needed, Reached, Requested, request, plan

(* The loop over the connected tables: the next search, or its end.        *)
LEMMA SearchFromKeeps ==
  ASSUME Planned, root \in Roots, UNCHANGED << fk, request, plan >>,
         at <= Len(targets), Goal \notin ToSet(connected),
         NEW i \in 1..(Len(connected) + 1), SearchFrom(i),
         NEW b, best' = b, PathFrom(b, connected, Goal, i)
  PROVE  PlanInv'
<1>1. connected \in Seq(Tables) /\ Len(connected) \in Nat /\ Goal \in Tables
  BY PlannedFacts
<1>2. /\ fk' = fk /\ targets' = targets /\ root' = root /\ at' = at /\ connected' = connected
      /\ Goal' = Goal /\ targets'[at'].table = Goal
  BY DEF request, plan, Goal
<1>3. Planned'
  BY SamePlan
<1>4. source' = i
  BY DEF SearchFrom
<1>5. PathFrom(best, connected, Goal, source)'
  BY <1>1, <1>2, <1>4, PathFromNext
<1>6. Seeking'
  BY <1>2, <1>4, <1>5 DEF Seeking
<1>7. CASE i <= Len(connected)
  <2>1. pc' = "searching" /\ queue' = << << connected[i] >> >> /\ visited' = {connected[i]}
    BY <1>7 DEF SearchFrom
  <2>2. connected[i] \in Tables /\ connected[i] # Goal
    <3>1. i \in 1..Len(connected)
      BY <1>1, <1>7
    <3> QED
      BY <1>1, <3>1 DEF ToSet
  <2>3. Frontier(connected[i], Goal, << << connected[i] >> >>, {connected[i]})
    BY <2>2, FrontierStarts
  <2>4. Frontier(connected[source], Goal, queue, visited)'
    BY <1>2, <1>4, <2>1, <2>3, FrontierNext
  <2> QED
    BY <1>2, <1>3, <1>4, <1>6, <1>7, <2>1, <2>4 DEF PlanInv
<1>8. CASE ~(i <= Len(connected))
  <2>1. pc' = "found" /\ i = Len(connected) + 1
    BY <1>1, <1>8 DEF SearchFrom
  <2> QED
    BY <1>2, <1>3, <1>4, <1>6, <2>1 DEF PlanInv
<1> QED
  BY <1>7, <1>8

LEMMA JoinStarts ==
  ASSUME PlanInv, Join
  PROVE  PlanInv'
<1>1. /\ pc = "idle" /\ pc' = "connecting" /\ root' \in Roots /\ root' \in Tables
      /\ at' = 1 /\ connected' = << root' >> /\ path' = << >> /\ best' = << >>
  BY JoinAssumption DEF Join, search, PlanInv
<1>2. targets' \in Seq(Target) /\ Len(targets') >= 1
  <2>1. PICK n \in 1..MaxTargets : targets' \in [1..n -> Target]
    BY DEF Join
  <2>2. n \in Nat /\ n >= 1
    BY JoinAssumption
  <2> QED
    BY <2>1, <2>2
<1>3. at' \in 1..(Len(targets') + 1)
  BY <1>1, <1>2
<1>4. Grown'
  <2>1. << root' >> \in Seq(Tables) /\ Len(<< root' >>) = 1 /\ << root' >>[1] = root' /\ 1..1 = {1}
    BY <1>1
  <2>2. << >> \in Seq(Step) /\ Len(<< >>) = 0 /\ 1..0 = {}
    OBVIOUS
  <2> QED
    BY <1>1, <2>1, <2>2 DEF Grown
<1>5. Needed' /\ Reached'
  BY <1>1 DEF Needed, Reached
<1> QED
  BY <1>1, <1>2, <1>3, <1>4, <1>5 DEF PlanInv, Planned

LEMMA TargetTaken ==
  ASSUME PlanInv, NextTarget
  PROVE  PlanInv'
<1>1. /\ pc = "connecting" /\ Planned /\ root \in Roots /\ best = << >>
      /\ UNCHANGED << fk, request >> /\ connected' = connected /\ path' = path
  BY DEF NextTarget, PlanInv
<1>2. /\ connected \in Seq(Tables) /\ Len(connected) \in Nat /\ Len(connected) >= 1
      /\ targets \in Seq(Target) /\ Len(targets) \in Nat /\ at \in Nat /\ at >= 1
  BY <1>1, PlannedFacts
<1>3. CASE at > Len(targets) /\ pc' = "planned" /\ UNCHANGED << search, at >>
  <2>1. UNCHANGED << request, plan >>
    BY <1>1, <1>3 DEF plan
  <2>2. Planned' /\ root' = root
    BY <1>1, <2>1, SamePlan DEF request
  <2>3. at' = Len(targets') + 1
    <3>1. at \in 1..(Len(targets) + 1) /\ targets' = targets /\ at' = at
      BY <1>1, <1>3 DEF Planned, request
    <3> QED
      BY <1>2, <1>3, <3>1
  <2> QED
    BY <1>1, <1>3, <2>2, <2>3 DEF PlanInv
<1>4. CASE /\ at <= Len(targets) /\ targets[at].table \in ToSet(connected)
           /\ at' = at + 1 /\ UNCHANGED << pc, search >>
  <2>1. targets' = targets /\ root' = root /\ best' = best /\ pc' = "connecting"
    BY <1>1, <1>4 DEF request, search
  <2>2. at' \in 1..(Len(targets') + 1)
    BY <1>2, <1>4, <2>1
  <2>3. Grown' /\ Needed'
    BY <1>1, <2>1 DEF Planned, Grown, Needed, Requested
  <2>4. Reached'
    <3>1. ASSUME NEW k \in 1..at PROVE targets[k].table \in ToSet(connected)
      <4>1. k = at \/ k \in 1..(at - 1)
        BY <1>2
      <4> QED
        BY <1>1, <1>4, <4>1 DEF Planned, Reached
    <3>2. at' - 1 = at
      BY <1>2, <1>4
    <3> QED
      BY <1>1, <2>1, <3>1, <3>2 DEF Reached
  <2> QED
    BY <1>1, <2>1, <2>2, <2>3, <2>4 DEF PlanInv, Planned
<1>5. CASE /\ at <= Len(targets) /\ targets[at].table \notin ToSet(connected)
           /\ SearchFrom(1) /\ UNCHANGED << best, at >>
  <2>1. Goal \notin ToSet(connected) /\ 1 \in 1..(Len(connected) + 1) /\ UNCHANGED << fk, request, plan >>
    BY <1>1, <1>2, <1>5 DEF Goal, plan
  <2>2. PathFrom(best', connected, Goal, 1)
    <3>1. best' = << >> /\ 1..(1 - 1) = {}
      BY <1>1, <1>5
    <3> QED
      BY <3>1 DEF PathFrom
  <2> QED
    BY <1>1, <1>5, <2>1, <2>2, SearchFromKeeps
<1> QED
  BY <1>3, <1>4, <1>5 DEF NextTarget

LEMMA NoneFromNext ==
  ASSUME NEW tree, NEW t, NEW n \in Nat, \A k \in 1..(n - 1) : NoWalk(tree[k], t), NoWalk(tree[n], t)
  PROVE  PathFrom(<< >>, tree, t, n + 1)
<1>1. ASSUME NEW k \in 1..(n + 1 - 1) PROVE NoWalk(tree[k], t)
  <2>1. k = n \/ k \in 1..(n - 1)
    OBVIOUS
  <2> QED
    BY <2>1
<1> QED
  BY <1>1 DEF PathFrom

LEMMA ShortestFromNext ==
  ASSUME NEW b \in Seq(Tables), IsWalk(b, b[1]), NEW tree, b[1] \in ToSet(tree), NEW t, End(b) = t,
         NEW n \in Nat, \A k \in 1..(n - 1) : AtLeast(tree[k], t, Len(b)), AtLeast(tree[n], t, Len(b))
  PROVE  PathFrom(b, tree, t, n + 1)
<1>1. ASSUME NEW k \in 1..(n + 1 - 1) PROVE AtLeast(tree[k], t, Len(b))
  <2>1. k = n \/ k \in 1..(n - 1)
    OBVIOUS
  <2> QED
    BY <2>1
<1> QED
  BY <1>1 DEF PathFrom

(* The loop goes on behind the table it searched from: the path found so   *)
(* far is as short as any from that table too.                             *)
LEMMA SearchKeeps ==
  ASSUME PlanInv, SearchExhausted \/ Visit
  PROVE  PlanInv'
<1>1. /\ pc = "searching" /\ Planned /\ Seeking /\ root \in Roots /\ source <= Len(connected)
      /\ Frontier(connected[source], Goal, queue, visited) /\ UNCHANGED << fk, request, plan >>
  BY DEF SearchExhausted, Visit, PlanInv
<1>2. connected \in Seq(Tables) /\ Len(connected) \in Nat
  BY <1>1, PlannedFacts
<1>3. /\ at <= Len(targets) /\ Goal \notin ToSet(connected) /\ source \in 1..Len(connected)
      /\ PathFrom(best, connected, Goal, source)
  BY <1>1, <1>2 DEF Seeking
<1>4. source + 1 \in 1..(Len(connected) + 1) /\ source \in Nat
  BY <1>2, <1>3
<1>6. CASE SearchExhausted
  <2>1. queue = << >> /\ best' = best /\ SearchFrom(source + 1)
    BY <1>6 DEF SearchExhausted
  <2>2. NoWalk(connected[source], Goal)
    BY <1>1, <2>1, ExhaustedFrontier
  <2>3. PathFrom(best, connected, Goal, source + 1)
    <3>1. CASE best = << >> /\ \A k \in 1..(source - 1) : NoWalk(connected[k], Goal)
      BY <1>4, <2>2, <3>1, NoneFromNext
    <3>2. CASE /\ best \in Seq(Tables) /\ IsWalk(best, best[1]) /\ best[1] \in ToSet(connected)
               /\ End(best) = Goal
               /\ \A k \in 1..(source - 1) : AtLeast(connected[k], Goal, Len(best))
      <4>1. AtLeast(connected[source], Goal, Len(best))
        BY <2>2 DEF NoWalk, AtLeast
      <4> QED
        BY <1>4, <3>2, <4>1, ShortestFromNext
    <3> QED
      BY <1>3, <3>1, <3>2 DEF PathFrom
  <2> QED
    BY <1>1, <1>3, <1>4, <2>1, <2>3, SearchFromKeeps
<1> DEFINE head == Head(queue)
           fresh == Related(Last(head)) \ visited
           size == Len(head) + 1
<1>7. CASE Visit /\ Goal \in fresh
  <2> DEFINE new == Append(head, Goal)
  <2>1. /\ queue # << >> /\ SearchFrom(source + 1)
        /\ best' = IF best = << >> \/ size < Len(best) THEN new ELSE best
    BY <1>7 DEF Visit, Goal
  <2>2. IsWalk(new, connected[source]) /\ End(new) = Goal /\ Len(new) = size
        /\ AtLeast(connected[source], Goal, size)
    BY <1>1, <1>7, <2>1, ArrivalShortest
  <2>3. Len(head) \in Nat /\ size \in Nat
    BY <1>1, <2>1, HeadFacts
  <2>4. /\ new \in Seq(Tables) /\ new[1] = connected[source] /\ connected[source] \in ToSet(connected)
    BY <1>2, <1>3, <2>2 DEF IsWalk, ToSet
  <2> HIDE DEF new, size, fresh, head
  <2>5. CASE best = << >>
    <3>1. \A k \in 1..(source - 1) : AtLeast(connected[k], Goal, size)
      <4>1. CASE \A k \in 1..(source - 1) : NoWalk(connected[k], Goal)
        BY <4>1 DEF NoWalk, AtLeast
      <4>2. CASE IsWalk(best, best[1])
        BY <2>5, <4>2 DEF IsWalk
      <4> QED
        BY <1>3, <4>1, <4>2 DEF PathFrom
    <3>2. PathFrom(new, connected, Goal, source + 1)
      BY <1>4, <2>2, <2>4, <3>1, ShortestFromNext
    <3> QED
      BY <1>1, <1>3, <1>4, <2>1, <2>5, <3>2, SearchFromKeeps
  <2>6. CASE best # << >>
    <3>1. /\ best \in Seq(Tables) /\ IsWalk(best, best[1]) /\ best[1] \in ToSet(connected)
          /\ End(best) = Goal /\ Len(best) \in Nat
          /\ \A k \in 1..(source - 1) : AtLeast(connected[k], Goal, Len(best))
      BY <1>3, <2>6 DEF PathFrom
    <3>2. CASE size < Len(best)
      <4>1. \A k \in 1..(source - 1) : AtLeast(connected[k], Goal, size)
        BY <2>3, <3>1, <3>2 DEF AtLeast
      <4>2. PathFrom(new, connected, Goal, source + 1)
        BY <1>4, <2>2, <2>4, <4>1, ShortestFromNext
      <4> QED
        BY <1>1, <1>3, <1>4, <2>1, <3>2, <4>2, SearchFromKeeps
    <3>3. CASE ~(size < Len(best))
      <4>1. AtLeast(connected[source], Goal, Len(best))
        BY <2>2, <2>3, <3>1, <3>3 DEF AtLeast
      <4>2. PathFrom(best, connected, Goal, source + 1)
        BY <1>4, <3>1, <4>1, ShortestFromNext
      <4> QED
        BY <1>1, <1>3, <1>4, <2>1, <2>6, <3>3, <4>2, SearchFromKeeps
    <3> QED
      BY <3>2, <3>3
  <2> QED
    BY <2>5, <2>6
<1>8. CASE Visit /\ Goal \notin fresh
  <2>1. PICK order \in SetToSeqs(fresh) :
          /\ queue' = Tail(queue) \o [i \in DOMAIN order |-> Append(head, order[i])]
          /\ visited' = visited \cup fresh /\ UNCHANGED << pc, source, best >>
    BY <1>8 DEF Visit, Goal
  <2>2. queue # << >> /\ queue \in Seq(Seq(Tables)) /\ fresh \subseteq Tables
    BY <1>1, <1>8 DEF Visit, Frontier, Related
  <2>3. Rounded(queue, fresh, Tail(queue) \o [i \in DOMAIN order |-> Append(head, order[i])])
    <3> HIDE DEF fresh
    <3> QED
      BY <2>2, QueueAfterRound
  <2> DEFINE next == Tail(queue) \o [i \in DOMAIN order |-> Append(head, order[i])]
  <2>4. Frontier(connected[source], Goal, next, visited \cup fresh)
    <3> HIDE DEF next
    <3> QED
      BY <1>1, <1>8, <2>2, <2>3, RoundKeepsFrontier DEF next
  <2> HIDE DEF next
  <2>5. queue' = next
    BY <2>1 DEF next
  <2> HIDE DEF fresh
  <2>6. /\ fk' = fk /\ connected' = connected /\ targets'[at'].table = Goal /\ source' = source
        /\ best' = best /\ pc' = "searching" /\ root' = root
        /\ Goal' = Goal /\ at' = at /\ Len(targets') = Len(targets)
    BY <1>1, <2>1 DEF request, plan, Goal
  <2>7. Frontier(connected[source], Goal, queue, visited)'
    <3>1. connected'[source'] = connected[source] /\ visited' = visited \cup fresh
      BY <2>1, <2>6
    <3> QED
      BY <2>4, <2>5, <2>6, <3>1, FrontierNext
  <2>8. PathFrom(best, connected, Goal, source)'
    BY <1>2, <1>3, <2>6, PathFromNext
  <2>9. Planned'
    BY <1>1, SamePlan
  <2> QED
    BY <1>1, <1>3, <1>4, <2>6, <2>7, <2>8, <2>9 DEF PlanInv, Seeking
<1> QED
  BY <1>6, <1>7, <1>8

(* A shortest path touches the tree at its first table only, and passes no *)
(* table twice: else a part of it would be shorter.                        *)
LEMMA PathLeavesTree ==
  ASSUME Planned, Seeking, source = Len(connected) + 1, best # << >>
  PROVE  /\ best \in Seq(Tables) /\ Len(best) \in Nat /\ Len(best) >= 2
         /\ best[1] \in ToSet(connected) /\ best[Len(best)] = Goal
         /\ \A i \in 1..Len(best) : best[i] \in ToSet(connected) <=> i <= 1
         /\ \A i, j \in 1..Len(best) : i # j => best[i] # best[j]
<1>1. /\ connected \in Seq(Tables) /\ Len(connected) \in Nat
  BY PlannedFacts
<1>2. Goal \notin ToSet(connected) /\ PathFrom(best, connected, Goal, source)
  BY DEF Seeking
<1>3. /\ best \in Seq(Tables) /\ IsWalk(best, best[1]) /\ best[1] \in ToSet(connected)
      /\ End(best) = Goal /\ \A k \in 1..(source - 1) : AtLeast(connected[k], Goal, Len(best))
  BY <1>2 DEF PathFrom
<1>4. \A t \in ToSet(connected) : AtLeast(t, Goal, Len(best))
  <2>1. 1..(source - 1) = 1..Len(connected) /\ DOMAIN connected = 1..Len(connected)
    BY <1>1
  <2> QED
    BY <1>3, <2>1 DEF ToSet
<1>5. Len(best) \in Nat /\ Len(best) >= 1 /\ best[Len(best)] = Goal
  BY <1>3 DEF IsWalk, End
<1>6. Len(best) # 1
  BY <1>2, <1>3, <1>5
<1>7. ASSUME NEW i \in 1..Len(best), best[i] \in ToSet(connected) PROVE i <= 1
  <2> DEFINE x == SubSeq(best, i, Len(best))
  <2>1. Len(best) \in i..Len(best) /\ i \in Nat
    BY <1>5
  <2>2. IsWalk(x, best[i]) /\ End(x) = Goal /\ Len(x) = Len(best) - i + 1
    BY <1>3, <1>5, <2>1, WalkPart
  <2>3. x \in Seq(Tables)
    BY <2>2 DEF IsWalk
  <2> HIDE DEF x
  <2>4. Len(best) - i + 1 >= Len(best)
    BY <1>4, <1>7, <2>2, <2>3 DEF AtLeast
  <2> QED
    BY <1>5, <2>1, <2>4
<1>8. ASSUME NEW i \in 1..Len(best), NEW j \in 1..Len(best), i < j, best[i] = best[j] PROVE FALSE
  <2>1. PICK x \in Seq(Tables) : IsWalk(x, best[1]) /\ End(x) = End(best) /\ Len(x) < Len(best)
    BY <1>3, <1>8, WalkCut
  <2>2. Len(x) >= Len(best)
    BY <1>3, <1>4, <2>1 DEF AtLeast
  <2>3. Len(x) \in Nat
    OBVIOUS
  <2> QED
    BY <1>5, <2>1, <2>2, <2>3
<1>9. ASSUME NEW i \in 1..Len(best), i <= 1 PROVE best[i] \in ToSet(connected)
  <2>1. i = 1
    BY <1>5, <1>9
  <2> QED
    BY <1>3, <2>1
<1>10. ASSUME NEW i \in 1..Len(best), NEW j \in 1..Len(best), i # j PROVE best[i] # best[j]
  <2>1. i < j \/ j < i
    BY <1>5, <1>10
  <2> QED
    BY <1>8, <2>1
<1>11. Len(best) >= 2
  <2>1. \A n \in Nat : n >= 1 /\ n # 1 => n >= 2
    OBVIOUS
  <2> QED
    BY ONLY <1>5, <1>6, <2>1
<1> QED
  BY <1>3, <1>5, <1>7, <1>9, <1>10, <1>11

(* So all its steps are new, and the tree gains the table of each.         *)
LEMMA PathAdded ==
  ASSUME Planned, Seeking, source = Len(connected) + 1, AddPath
  PROVE  /\ path' \in Seq(Step) /\ Len(path') = Len(path) + (Len(best) - 1)
         /\ \A i \in 1..Len(path) : path'[i] = path[i]
         /\ \A i \in 1..(Len(best) - 1) :
              path'[Len(path) + i] = [from |-> best[i], to |-> best[i + 1]]
         /\ connected' \in Seq(Tables) /\ Len(connected') = Len(connected) + (Len(best) - 1)
         /\ \A i \in 1..Len(connected) : connected'[i] = connected[i]
         /\ \A i \in 1..(Len(best) - 1) : connected'[Len(connected) + i] = best[i + 1]
<1> DEFINE steps == [i \in 1..Len(best) - 1 |-> [from |-> best[i], to |-> best[i + 1]]]
           newSteps == Without(steps, ToSet(path))
           newTables == Without(best, ToSet(connected))
<1>1. best # << >> /\ path' = path \o newSteps /\ connected' = connected \o newTables
  BY DEF AddPath
<1>2. /\ best \in Seq(Tables) /\ Len(best) \in Nat /\ Len(best) >= 2
      /\ \A i \in 1..Len(best) : best[i] \in ToSet(connected) <=> i <= 1
  BY <1>1, PathLeavesTree
<1>3. /\ connected \in Seq(Tables) /\ path \in Seq(Step) /\ Len(connected) \in Nat /\ Len(path) \in Nat
      /\ Len(connected) = Len(path) + 1
      /\ \A i \in 1..Len(path) : path[i].to = connected[i + 1]
      /\ DOMAIN path = 1..Len(path) /\ DOMAIN connected = 1..Len(connected)
  BY PlannedFacts DEF Planned, Grown
<1>4. steps \in Seq(Step) /\ Len(steps) = Len(best) - 1
  <2>1. Len(best) - 1 \in Nat
    BY <1>2
  <2>2. \A i \in 1..(Len(best) - 1) : best[i] \in Tables /\ best[i + 1] \in Tables
    BY <1>2
  <2>3. steps \in [1..(Len(best) - 1) -> Step]
    BY <2>2 DEF Step
  <2> HIDE DEF steps
  <2> QED
    BY <2>1, <2>3, FunctionIsSeq
<1>5. \A i \in 1..(Len(best) - 1) : steps[i] = [from |-> best[i], to |-> best[i + 1]]
  OBVIOUS
<1> HIDE DEF steps
<1>6. ASSUME NEW i \in 1..Len(steps) PROVE steps[i] \notin ToSet(path)
  <2> SUFFICES ASSUME steps[i] \in ToSet(path) PROVE FALSE
    OBVIOUS
  <2>1. PICK j \in 1..Len(path) : path[j] = steps[i]
    BY <1>3 DEF ToSet
  <2>2. i \in 1..(Len(best) - 1) /\ i + 1 \in 1..Len(best) /\ ~(i + 1 <= 1)
    BY <1>2, <1>4
  <2>3. steps[i].to = best[i + 1]
    <3>1. steps[i] = [from |-> best[i], to |-> best[i + 1]]
      BY <1>5, <2>2
    <3> QED
      BY ONLY <3>1
  <2>4. j + 1 \in 1..Len(connected) /\ connected[j + 1] = path[j].to
    BY <1>3
  <2>5. connected[j + 1] \in ToSet(connected)
    BY <1>3, <2>4 DEF ToSet
  <2> QED
    BY <1>2, <2>1, <2>2, <2>3, <2>4, <2>5
<1>7. /\ newSteps \in Seq(Step) /\ Len(newSteps) = Len(best) - 1
      /\ \A i \in 1..(Len(best) - 1) : newSteps[i] = steps[i]
  <2>1. 0 \in 0..Len(steps) /\ \A i \in 1..Len(steps) : steps[i] \in ToSet(path) <=> i <= 0
    BY <1>2, <1>4, <1>6
  <2>2. /\ newSteps \in Seq(Step) /\ Len(newSteps) = Len(steps) - 0
        /\ \A i \in 1..(Len(steps) - 0) : newSteps[i] = steps[0 + i]
    BY <1>4, <2>1, WithoutFirst
  <2>3. Len(steps) - 0 = Len(best) - 1 /\ \A i \in 1..(Len(best) - 1) : 0 + i = i
    BY <1>2, <1>4
  <2> HIDE DEF newSteps
  <2> QED
    BY <2>2, <2>3
<1>8. /\ newTables \in Seq(Tables) /\ Len(newTables) = Len(best) - 1
      /\ \A i \in 1..(Len(best) - 1) : newTables[i] = best[1 + i]
  <2>1. 1 \in 0..Len(best)
    BY <1>2
  <2> QED
    BY <1>2, <2>1, WithoutFirst
<1> HIDE DEF newSteps, newTables
<1>9. /\ path' \in Seq(Step) /\ Len(path') = Len(path) + Len(newSteps)
      /\ \A i \in 1..Len(path) : path'[i] = path[i]
      /\ \A i \in 1..Len(newSteps) : path'[Len(path) + i] = newSteps[i]
  <2>1. /\ path \o newSteps \in Seq(Step) /\ Len(path \o newSteps) = Len(path) + Len(newSteps)
        /\ \A i \in 1..Len(path) : (path \o newSteps)[i] = path[i]
        /\ \A i \in 1..Len(newSteps) : (path \o newSteps)[Len(path) + i] = newSteps[i]
    <3>1. path \in Seq(Step) /\ newSteps \in Seq(Step)
      BY <1>3, <1>7
    <3> QED
      BY ONLY <3>1, ConcatFacts
  <2> QED
    BY <1>1, <2>1
<1>10. /\ connected' \in Seq(Tables) /\ Len(connected') = Len(connected) + Len(newTables)
       /\ \A i \in 1..Len(connected) : connected'[i] = connected[i]
       /\ \A i \in 1..Len(newTables) : connected'[Len(connected) + i] = newTables[i]
  <2>1. /\ connected \o newTables \in Seq(Tables)
        /\ Len(connected \o newTables) = Len(connected) + Len(newTables)
        /\ \A i \in 1..Len(connected) : (connected \o newTables)[i] = connected[i]
        /\ \A i \in 1..Len(newTables) : (connected \o newTables)[Len(connected) + i] = newTables[i]
    <3>1. connected \in Seq(Tables) /\ newTables \in Seq(Tables)
      BY <1>3, <1>8
    <3> QED
      BY ONLY <3>1, ConcatFacts
  <2> QED
    BY <1>1, <2>1
<1>11. /\ path' \in Seq(Step) /\ Len(path') = Len(path) + (Len(best) - 1)
       /\ \A i \in 1..Len(path) : path'[i] = path[i]
       /\ \A i \in 1..(Len(best) - 1) : path'[Len(path) + i] = [from |-> best[i], to |-> best[i + 1]]
  BY ONLY <1>5, <1>7, <1>9
<1>12. /\ connected' \in Seq(Tables) /\ Len(connected') = Len(connected) + (Len(best) - 1)
       /\ \A i \in 1..Len(connected) : connected'[i] = connected[i]
       /\ \A i \in 1..(Len(best) - 1) : connected'[Len(connected) + i] = best[i + 1]
  <2>1. \A i \in 1..(Len(best) - 1) : 1 + i = i + 1
    BY <1>2
  <2> QED
    BY ONLY <1>8, <1>10, <2>1
<1> QED
  BY ONLY <1>11, <1>12

LEMMA TreeGrows ==
  ASSUME Planned, Seeking, source = Len(connected) + 1, AddPath, root' = root
  PROVE  Grown'
<1> DEFINE p == Len(path)
           n == Len(best) - 1
<1>1. best # << >>
  BY DEF AddPath
<1>2. /\ path' \in Seq(Step) /\ Len(path') = p + n
      /\ \A i \in 1..p : path'[i] = path[i]
      /\ \A i \in 1..n : path'[p + i] = [from |-> best[i], to |-> best[i + 1]]
      /\ connected' \in Seq(Tables) /\ Len(connected') = Len(connected) + n
      /\ \A i \in 1..Len(connected) : connected'[i] = connected[i]
      /\ \A i \in 1..n : connected'[Len(connected) + i] = best[i + 1]
  BY PathAdded
<1>3. /\ Len(best) \in Nat /\ Len(best) >= 2 /\ best[1] \in ToSet(connected)
      /\ \A i \in 1..Len(best) : best[i] \in ToSet(connected) <=> i <= 1
      /\ \A i, j \in 1..Len(best) : i # j => best[i] # best[j]
  BY <1>1, PathLeavesTree
<1>4. /\ connected \in Seq(Tables) /\ DOMAIN connected = 1..Len(connected)
      /\ Len(connected) = p + 1 /\ p \in Nat /\ connected[1] = root
      /\ \A i \in 1..p : path[i].to = connected[i + 1] /\ \E j \in 1..i : path[i].from = connected[j]
      /\ \A i, j \in 1..Len(connected) : i # j => connected[i] # connected[j]
  BY PlannedFacts DEF Planned, Grown
<1>5. n \in Nat /\ n >= 1
  BY <1>3
<1>6. \A i \in 1..n : i \in 1..Len(best) /\ i + 1 \in 1..Len(best) /\ ~(i + 1 <= 1)
  BY <1>3
<1> HIDE DEF p, n
<1>7. \A i \in 1..(p + n) : i \in 1..p \/ (i - p \in 1..n /\ i = p + (i - p))
  BY <1>4, <1>5
<1>8. \A i \in 1..(p + 1 + n) : i \in 1..(p + 1) \/ (i - (p + 1) \in 1..n /\ i = (p + 1) + (i - (p + 1)))
  BY <1>4, <1>5
<1>9. \A i \in 1..n : connected'[p + 1 + i] = best[i + 1]
  BY <1>2, <1>4
<1>10. \A i \in 1..(p + 1) : connected'[i] = connected[i]
  BY <1>2, <1>4
<1>11. Len(connected') = Len(path') + 1
  BY <1>2, <1>4, <1>5
<1>12. connected'[1] = root'
  <2>1. 1 \in 1..(p + 1)
    BY <1>4
  <2> QED
    BY <1>4, <1>10, <2>1
<1>13. ASSUME NEW i \in 1..(p + n)
       PROVE  path'[i].to = connected'[i + 1] /\ \E j \in 1..i : path'[i].from = connected'[j]
  <2>1. CASE i \in 1..p
    <3>1. path'[i] = path[i] /\ i + 1 \in 1..(p + 1)
      BY <1>2, <1>4, <2>1
    <3>2. PICK j \in 1..i : path[i].from = connected[j]
      BY <1>4, <2>1
    <3>3. j \in 1..(p + 1)
      BY <1>4, <2>1
    <3>4. path[i].to = connected[i + 1] /\ connected'[i + 1] = connected[i + 1] /\ connected'[j] = connected[j]
      BY <1>4, <1>10, <2>1, <3>1, <3>3
    <3> QED
      BY <3>1, <3>2, <3>4
  <2>2. ASSUME NEW k \in 1..n, i = p + k
        PROVE  path'[i].to = connected'[i + 1] /\ \E j \in 1..i : path'[i].from = connected'[j]
    <3>1. path'[i] = [from |-> best[k], to |-> best[k + 1]]
      BY <1>2, <2>2
    <3>2. path'[i].from = best[k] /\ path'[i].to = best[k + 1]
      BY ONLY <3>1
    <3>3. i + 1 = p + 1 + k
      BY <1>4, <2>2
    <3>4. path'[i].to = connected'[i + 1]
      BY <1>9, <3>2, <3>3
    <3>5. CASE k = 1
      <4>1. PICK j \in 1..(p + 1) : best[1] = connected[j]
        BY <1>3, <1>4 DEF ToSet
      <4>2. j \in 1..i
        BY <1>4, <2>2, <3>5
      <4> QED
        BY <1>10, <3>2, <3>4, <3>5, <4>1, <4>2
    <3>6. CASE k # 1
      <4>1. k - 1 \in 1..n /\ (k - 1) + 1 = k /\ p + 1 + (k - 1) = i /\ i \in 1..i
        BY <1>4, <1>5, <2>2, <3>6
      <4>2. connected'[i] = best[k]
        BY <1>9, <4>1
      <4> QED
        BY <3>2, <3>4, <4>1, <4>2
    <3> QED
      BY <3>5, <3>6
  <2> QED
    BY <1>7, <2>1, <2>2
<1>14. ASSUME NEW i \in 1..(p + 1), NEW k \in 1..n PROVE connected'[i] # connected'[p + 1 + k]
  <2>1. connected'[i] \in ToSet(connected)
    BY <1>4, <1>10 DEF ToSet
  <2>2. connected'[p + 1 + k] \notin ToSet(connected)
    BY <1>3, <1>6, <1>9
  <2> QED
    BY <2>1, <2>2
<1>15. ASSUME NEW i \in 1..n, NEW k \in 1..n, i # k PROVE connected'[p + 1 + i] # connected'[p + 1 + k]
  <2>1. i + 1 # k + 1 /\ i + 1 \in 1..Len(best) /\ k + 1 \in 1..Len(best)
    BY <1>5, <1>6, <1>15
  <2>2. best[i + 1] # best[k + 1]
    BY <1>3, <2>1
  <2> QED
    BY <1>9, <2>2
<1>16. ASSUME NEW i \in 1..(p + 1 + n), NEW j \in 1..(p + 1 + n), i # j
       PROVE  connected'[i] # connected'[j]
  <2>1. CASE i \in 1..(p + 1) /\ j \in 1..(p + 1)
    BY <1>4, <1>10, <1>16, <2>1
  <2>2. CASE i \in 1..(p + 1) /\ j - (p + 1) \in 1..n /\ j = p + 1 + (j - (p + 1))
    BY <1>14, <2>2
  <2>3. CASE j \in 1..(p + 1) /\ i - (p + 1) \in 1..n /\ i = p + 1 + (i - (p + 1))
    BY <1>14, <2>3
  <2>4. CASE /\ i - (p + 1) \in 1..n /\ i = p + 1 + (i - (p + 1))
             /\ j - (p + 1) \in 1..n /\ j = p + 1 + (j - (p + 1))
    <3>1. i - (p + 1) # j - (p + 1)
      BY <1>16, <2>4
    <3> QED
      BY <1>15, <2>4, <3>1
  <2> QED
    BY <1>8, <2>1, <2>2, <2>3, <2>4
<1> QED
  BY <1>2, <1>4, <1>11, <1>12, <1>13, <1>16 DEF Grown

(* Every step leads to a target: the last one of the path added to the     *)
(* target it was searched for, the others to the step after them.          *)
LEMMA PathNeeded ==
  ASSUME Planned, Seeking, source = Len(connected) + 1, AddPath, targets' = targets
  PROVE  Needed'
<1> DEFINE p == Len(path)
           n == Len(best) - 1
<1>1. best # << >>
  BY DEF AddPath
<1>2. /\ Len(path') = p + n /\ p \in Nat
      /\ \A i \in 1..p : path'[i] = path[i]
      /\ \A i \in 1..n : path'[p + i] = [from |-> best[i], to |-> best[i + 1]]
  BY PathAdded, PlannedFacts
<1>3. Len(best) \in Nat /\ Len(best) >= 2 /\ best[Len(best)] = Goal
  BY <1>1, PathLeavesTree
<1>4. n \in Nat /\ n >= 1 /\ n + 1 = Len(best)
  BY <1>3
<1>5. Goal \in Requested
  <2>1. at \in DOMAIN targets
    BY PlannedFacts DEF Seeking
  <2> QED
    BY <2>1 DEF Goal, Requested
<1>6. Requested' = Requested
  BY DEF Requested
<1> HIDE DEF p, n
<1>7. \A i \in 1..n : path'[p + i].from = best[i] /\ path'[p + i].to = best[i + 1]
  <2>1. ASSUME NEW i \in 1..n PROVE path'[p + i].from = best[i] /\ path'[p + i].to = best[i + 1]
    <3>1. path'[p + i] = [from |-> best[i], to |-> best[i + 1]]
      BY <1>2
    <3> QED
      BY ONLY <3>1
  <2> QED
    BY <2>1
<1>8. ASSUME NEW i \in 1..(p + n)
      PROVE  \/ path'[i].to \in Requested
             \/ \E j \in (i + 1)..(p + n) : path'[j].from = path'[i].to
  <2>1. CASE i \in 1..p
    <3>1. path'[i] = path[i] /\ \A j \in (i + 1)..p : j \in (i + 1)..(p + n) /\ path'[j] = path[j]
      BY <1>2, <1>4, <2>1
    <3>2. path[i].to \in Requested \/ \E j \in (i + 1)..p : path[j].from = path[i].to
      BY <2>1 DEF Planned, Needed, p
    <3> QED
      BY <3>1, <3>2
  <2>2. CASE i \notin 1..p
    <3> DEFINE k == i - p
    <3>1. k \in 1..n /\ i = p + k
      BY <1>2, <1>4, <2>2
    <3> HIDE DEF k
    <3>2. path'[i].to = best[k + 1]
      BY <1>7, <3>1
    <3>3. CASE k = n
      BY <1>3, <1>4, <1>5, <3>2, <3>3
    <3>4. CASE k # n
      <4>1. k + 1 \in 1..n /\ i + 1 \in (i + 1)..(p + n) /\ i + 1 = p + (k + 1)
        BY <1>2, <1>4, <3>1, <3>4
      <4>2. path'[i + 1].from = best[k + 1]
        BY <1>7, <4>1
      <4> QED
        BY <3>2, <4>1, <4>2
    <3> QED
      BY <3>3, <3>4
  <2> QED
    BY <2>1, <2>2
<1> QED
  BY <1>2, <1>6, <1>8 DEF Needed

-----------------------------------------------------------------------------
(* The invariant and the properties                                        *)

LEMMA PathJoins ==
  ASSUME PlanInv, AddPath
  PROVE  PlanInv'
<1>1. /\ pc = "found" /\ best # << >> /\ pc' = "connecting" /\ best' = << >> /\ at' = at + 1
      /\ root' = root /\ targets' = targets
  BY DEF AddPath, request
<1>2. Planned /\ Seeking /\ source = Len(connected) + 1 /\ root \in Roots
  BY <1>1 DEF PlanInv
<1>3. Grown' /\ Needed'
  BY <1>1, <1>2, TreeGrows, PathNeeded
<1>4. /\ targets \in Seq(Target) /\ Len(targets) \in Nat /\ at \in Nat /\ at >= 1 /\ at <= Len(targets)
      /\ Len(connected) \in Nat /\ DOMAIN connected = 1..Len(connected)
  BY <1>2, PlannedFacts DEF Seeking
<1>5. at' \in 1..(Len(targets') + 1)
  BY <1>1, <1>4
<1>6. /\ connected' \in Seq(Tables) /\ Len(connected') = Len(connected) + (Len(best) - 1)
      /\ \A i \in 1..Len(connected) : connected'[i] = connected[i]
      /\ \A i \in 1..(Len(best) - 1) : connected'[Len(connected) + i] = best[i + 1]
  BY <1>2, PathAdded
<1>7. Len(best) \in Nat /\ Len(best) >= 2 /\ best[Len(best)] = Goal
  BY <1>1, <1>2, PathLeavesTree
<1>8. DOMAIN connected' = 1..(Len(connected) + (Len(best) - 1))
  BY <1>6
<1>9. \A t \in ToSet(connected) : t \in ToSet(connected')
  <2>1. \A i \in 1..Len(connected) : i \in DOMAIN connected'
    BY <1>4, <1>7, <1>8
  <2> QED
    BY <1>4, <1>6, <2>1 DEF ToSet
<1>10. Goal \in ToSet(connected')
  <2> DEFINE n == Len(best) - 1
  <2>1. n \in 1..n /\ n + 1 = Len(best) /\ Len(connected) + n \in 1..(Len(connected) + n)
    BY <1>4, <1>7
  <2>2. connected'[Len(connected) + n] = Goal
    BY <1>6, <1>7, <2>1
  <2> QED
    BY <1>8, <2>1, <2>2 DEF ToSet
<1>11. Reached'
  <2>1. ASSUME NEW k \in 1..at PROVE targets[k].table \in ToSet(connected')
    <3>1. k = at \/ k \in 1..(at - 1)
      BY <1>4
    <3>2. CASE k = at
      BY <1>10, <3>2 DEF Goal
    <3>3. CASE k \in 1..(at - 1)
      BY <1>2, <1>9, <3>3 DEF Planned, Reached
    <3> QED
      BY <3>1, <3>2, <3>3
  <2>2. at' - 1 = at
    BY <1>1, <1>4
  <2> QED
    BY <1>1, <2>1, <2>2 DEF Reached
<1> QED
  BY <1>1, <1>2, <1>3, <1>4, <1>5, <1>11 DEF PlanInv, Planned

LEMMA PlanStarts ==
  ASSUME JoinInit
  PROVE  PlanInv
BY DEF JoinInit, PlanInv

LEMMA PlanIdles ==
  ASSUME PlanInv, Idle, root' = root
  PROVE  PlanInv'
BY DEF Idle, PlanInv

LEMMA PlanStutters ==
  ASSUME PlanInv, UNCHANGED << fk, pc, request, search, plan >>
  PROVE  PlanInv'
<1>1. /\ pc' = pc /\ root' = root /\ targets' = targets /\ at' = at /\ connected' = connected
      /\ source' = source /\ queue' = queue /\ visited' = visited /\ best' = best /\ fk' = fk
      /\ Goal' = Goal /\ targets'[at'].table = Goal /\ connected'[source'] = connected[source]
      /\ UNCHANGED << request, plan >>
  BY DEF request, search, plan, Goal
<1>2. pc \in {"searching", "found"} => Seeking'
  <2> SUFFICES ASSUME pc \in {"searching", "found"} PROVE Seeking'
    OBVIOUS
  <2>1. Planned /\ Seeking
    BY DEF PlanInv
  <2>2. connected \in Seq(Tables) /\ PathFrom(best, connected, Goal, source)
    BY <2>1, PlannedFacts DEF Seeking
  <2>3. PathFrom(best, connected, Goal, source)'
    BY <1>1, <2>2, PathFromNext
  <2> QED
    BY <1>1, <2>1, <2>3 DEF Seeking
<1>3. pc = "searching" => Frontier(connected[source], Goal, queue, visited)'
  <2> SUFFICES ASSUME pc = "searching" PROVE Frontier(connected[source], Goal, queue, visited)'
    OBVIOUS
  <2>1. Frontier(connected[source], Goal, queue, visited)
    BY DEF PlanInv
  <2> QED
    BY <1>1, <2>1, FrontierNext
<1>4. pc # "idle" => Planned'
  BY <1>1, SamePlan DEF PlanInv
<1> QED
  BY <1>1, <1>2, <1>3, <1>4 DEF PlanInv

LEMMA PlanStep ==
  ASSUME PlanInv, [JoinNext]_joinVars
  PROVE  PlanInv'
<1>1. CASE Join
  BY <1>1, JoinStarts
<1>2. CASE JoinUnknown
  BY <1>2, PlanIdles DEF JoinUnknown
<1>3. CASE NextTarget
  BY <1>3, TargetTaken
<1>4. CASE SearchExhausted \/ Visit
  BY <1>4, SearchKeeps
<1>5. CASE NoPath
  BY <1>5, PlanIdles DEF NoPath
<1>6. CASE AddPath
  BY <1>6, PathJoins
<1>7. CASE Register
  BY <1>7, PlanIdles DEF Register
<1>8. CASE FetchData
  BY <1>8, PlanStutters DEF FetchData
<1>9. CASE UNCHANGED joinVars
  BY <1>9, PlanStutters DEF joinVars
<1> QED
  BY <1>1, <1>2, <1>3, <1>4, <1>5, <1>6, <1>7, <1>8, <1>9 DEF JoinNext, Planning

(* The tree under construction, the path found so far and the queue of the *)
(* search stand in these relations at every step of join().                *)
THEOREM PlanInvCorrect == JoinSpec => []PlanInv
<1>1. JoinInit => PlanInv
  BY PlanStarts
<1>2. PlanInv /\ [JoinNext]_joinVars => PlanInv'
  BY PlanStep
<1> QED
  BY <1>1, <1>2, PTL DEF JoinSpec

(* A walk that Reaches speaks of.                                          *)
LEMMA ReachedByWalk ==
  ASSUME NEW S, NEW t, NEW n \in Nat, Reaches(S, t, n)
  PROVE  \E w \in Seq(Tables) : Len(w) <= n /\ IsWalk(w, w[1]) /\ End(w) = t /\ w[1] \in S
<1>1. PICK m \in 1..n : \E walk \in [1..m -> Tables] :
        /\ walk[1] \in S /\ walk[m] = t
        /\ \A i \in 1..m - 1 : walk[i + 1] \in Related(walk[i])
  BY DEF Reaches
<1>2. PICK walk \in [1..m -> Tables] :
        /\ walk[1] \in S /\ walk[m] = t
        /\ \A i \in 1..m - 1 : walk[i + 1] \in Related(walk[i])
  BY <1>1
<1>3. m \in Nat /\ m >= 1 /\ m <= n
  OBVIOUS
<1>4. walk \in Seq(Tables) /\ Len(walk) = m
  BY <1>3, FunctionIsSeq
<1>5. IsWalk(walk, walk[1]) /\ End(walk) = t
  BY <1>2, <1>3, <1>4 DEF IsWalk, End
<1> QED
  BY <1>2, <1>3, <1>4, <1>5

LEMMA FoundIsShortest ==
  ASSUME PlanInv
  PROVE  ShortestPathChosen
<1> SUFFICES ASSUME pc = "found"
             PROVE  IF best = <<>>
                    THEN ~Reaches(ToSet(connected), targets[at].table, Cardinality(Tables))
                    ELSE /\ Head(best) \in ToSet(connected) /\ Last(best) = targets[at].table
                         /\ \A i \in 1..(Len(best) - 1) : best[i + 1] \in Related(best[i])
                         /\ ~Reaches(ToSet(connected), targets[at].table, Len(best) - 1)
  BY DEF ShortestPathChosen
<1>1. Planned /\ Seeking /\ source = Len(connected) + 1
  BY DEF PlanInv
<1>2. connected \in Seq(Tables) /\ Len(connected) \in Nat /\ DOMAIN connected = 1..Len(connected)
  BY <1>1, PlannedFacts
<1>3. PathFrom(best, connected, Goal, source) /\ source - 1 = Len(connected)
  BY <1>1, <1>2 DEF Seeking
<1>4. CASE best = << >>
  <2>1. ~IsWalk(best, best[1])
    <3>1. Len(<< >>) = 0 /\ ~(0 >= 1)
      OBVIOUS
    <3> QED
      BY <1>4, <3>1 DEF IsWalk
  <2>2. \A k \in 1..Len(connected) : NoWalk(connected[k], Goal)
    BY <1>3, <2>1 DEF PathFrom
  <2>3. \A s \in ToSet(connected) : NoWalk(s, Goal)
    BY <1>2, <2>2 DEF ToSet
  <2>4. Cardinality(Tables) \in Nat
    BY JoinAssumption, FS_CardinalityType
  <2>5. ASSUME Reaches(ToSet(connected), Goal, Cardinality(Tables)) PROVE FALSE
    <3>1. PICK w \in Seq(Tables) : IsWalk(w, w[1]) /\ End(w) = Goal /\ w[1] \in ToSet(connected)
      BY <2>4, <2>5, ReachedByWalk
    <3> QED
      BY <2>3, <3>1 DEF NoWalk
  <2> QED
    BY <1>4, <2>5 DEF Goal
<1>5. CASE best # << >>
  <2>1. /\ best \in Seq(Tables) /\ IsWalk(best, best[1]) /\ best[1] \in ToSet(connected)
        /\ End(best) = Goal /\ \A k \in 1..Len(connected) : AtLeast(connected[k], Goal, Len(best))
    BY <1>3, <1>5 DEF PathFrom
  <2>2. \A s \in ToSet(connected) : AtLeast(s, Goal, Len(best))
    BY <1>2, <2>1 DEF ToSet
  <2>3. /\ Len(best) \in Nat /\ Len(best) >= 1
        /\ \A i \in 1..(Len(best) - 1) : best[i + 1] \in Related(best[i])
    BY <2>1 DEF IsWalk
  <2>4. Head(best) = best[1]
    BY <1>5, <2>1
  <2>5. Last(best) = Goal
    BY <2>1 DEF Last, End
  <2>6. Len(best) - 1 \in Nat /\ \A k \in Nat : k <= Len(best) - 1 => ~(k >= Len(best))
    BY <2>3
  <2>7. ASSUME Reaches(ToSet(connected), Goal, Len(best) - 1) PROVE FALSE
    <3>1. PICK w \in Seq(Tables) : /\ Len(w) <= Len(best) - 1 /\ IsWalk(w, w[1])
                                   /\ End(w) = Goal /\ w[1] \in ToSet(connected)
      BY <2>6, <2>7, ReachedByWalk
    <3>2. Len(w) >= Len(best)
      BY <2>2, <3>1 DEF AtLeast
    <3>3. Len(w) \in Nat
      OBVIOUS
    <3> QED
      BY <2>6, <3>1, <3>2, <3>3
  <2> QED
    BY <1>5, <2>1, <2>3, <2>4, <2>5, <2>7 DEF Goal
<1> QED
  BY <1>4, <1>5

(* The path chosen for a target (shortestPathFromConnected) is a shortest  *)
(* one from the tables joined so far, and there is none only if no walk    *)
(* along foreign keys leads to the target.                                 *)
THEOREM ShortestPathChosenCorrect == JoinSpec => []ShortestPathChosen
<1>1. PlanInv => ShortestPathChosen
  BY FoundIsShortest
<1> QED
  BY <1>1, PlanInvCorrect, PTL

(* The tables joined before step i are the first i of the tree.            *)
LEMMA JoinedBefore ==
  ASSUME Grown, NEW i \in 1..(Len(path) + 1)
  PROVE  {root} \cup {path[j].to : j \in 1..(i - 1)} = {connected[j] : j \in 1..i}
<1>1. /\ Len(path) \in Nat /\ i \in Nat /\ i >= 1 /\ i <= Len(path) + 1 /\ connected[1] = root
      /\ \A j \in 1..Len(path) : path[j].to = connected[j + 1]
  <2>1. path \in Seq(Step)
    BY DEF Grown
  <2>2. Len(path) \in Nat
    BY <2>1
  <2> QED
    BY <2>2 DEF Grown
<1>2. \A j \in 1..(i - 1) : path[j].to = connected[j + 1] /\ j + 1 \in 1..i
  BY <1>1
<1>3. \A j \in 1..i : j = 1 \/ (j - 1 \in 1..(i - 1) /\ (j - 1) + 1 = j)
  BY <1>1
<1>4. 1 \in 1..i
  BY <1>1
<1>5. ASSUME NEW j \in 1..i PROVE connected[j] \in {root} \cup {path[k].to : k \in 1..(i - 1)}
  <2>1. CASE j = 1
    BY <1>1, <2>1
  <2>2. CASE j - 1 \in 1..(i - 1) /\ (j - 1) + 1 = j
    <3>1. path[j - 1].to = connected[j]
      BY <1>2, <2>2
    <3> QED
      BY <2>2, <3>1
  <2> QED
    BY <1>3, <2>1, <2>2
<1>6. ASSUME NEW j \in 1..(i - 1) PROVE path[j].to \in {connected[k] : k \in 1..i}
  BY <1>2
<1> QED
  BY <1>1, <1>4, <1>5, <1>6

LEMMA PlanIsTree ==
  ASSUME PlanInv
  PROVE  JoinTreeOrdered
<1> DEFINE joinedBefore(i) == {root} \cup {path[j].to : j \in 1..i - 1}
<1> SUFFICES ASSUME pc = "planned"
             PROVE  /\ \A i \in DOMAIN path :
                         /\ path[i].from \in joinedBefore(i)
                         /\ path[i].to \notin joinedBefore(i)
                         /\ \/ path[i].to \in Requested
                            \/ \E j \in i + 1..Len(path) : path[j].from = path[i].to
                    /\ Requested \subseteq joinedBefore(Len(path) + 1)
  BY DEF JoinTreeOrdered
<1>1. Planned /\ Grown /\ Needed /\ Reached /\ at = Len(targets) + 1
  BY DEF PlanInv, Planned
<1>2. /\ connected \in Seq(Tables) /\ path \in Seq(Step) /\ Len(path) \in Nat
      /\ targets \in Seq(Target) /\ Len(targets) \in Nat
      /\ DOMAIN path = 1..Len(path) /\ DOMAIN targets = 1..Len(targets)
  BY <1>1, PlannedFacts
<1>3. /\ Len(connected) = Len(path) + 1 /\ DOMAIN connected = 1..(Len(path) + 1)
      /\ \A i \in 1..Len(path) : /\ path[i].to = connected[i + 1]
                                 /\ \E j \in 1..i : path[i].from = connected[j]
      /\ \A i, j \in 1..(Len(path) + 1) : i # j => connected[i] # connected[j]
  BY <1>1, <1>2 DEF Grown
<1>4. \A i \in 1..(Len(path) + 1) : joinedBefore(i) = {connected[j] : j \in 1..i}
  BY <1>1, JoinedBefore
<1>5. \A i \in 1..Len(path) : /\ i \in 1..(Len(path) + 1) /\ i + 1 \in 1..(Len(path) + 1)
                              /\ \A j \in 1..i : j \in 1..(Len(path) + 1) /\ j # i + 1
  BY <1>2
<1> HIDE DEF joinedBefore
<1>6. ASSUME NEW i \in 1..Len(path) PROVE path[i].from \in joinedBefore(i)
  BY <1>3, <1>4, <1>5
<1>7. ASSUME NEW i \in 1..Len(path) PROVE path[i].to \notin joinedBefore(i)
  <2>1. \A j \in 1..i : connected[j] # connected[i + 1]
    BY <1>3, <1>5
  <2> QED
    BY <1>3, <1>4, <1>5, <2>1
<1>8. Requested \subseteq joinedBefore(Len(path) + 1)
  <2>1. joinedBefore(Len(path) + 1) = ToSet(connected)
    <3>1. Len(path) + 1 \in 1..(Len(path) + 1)
      BY <1>2
    <3> QED
      BY <1>3, <1>4, <3>1 DEF ToSet
  <2>2. at - 1 = Len(targets)
    BY <1>1, <1>2
  <2> QED
    BY <1>1, <1>2, <2>1, <2>2 DEF Requested, Reached
<1> QED
  BY <1>1, <1>2, <1>6, <1>7, <1>8 DEF Needed

(* The steps of a finished plan (SchemaGraph.join) come in an order SQL    *)
(* accepts, join no table twice, reach every target and nothing else that  *)
(* does not lead to one.                                                   *)
THEOREM JoinTreeOrderedCorrect == JoinSpec => []JoinTreeOrdered
<1>1. PlanInv => JoinTreeOrdered
  BY PlanIsTree
<1> QED
  BY <1>1, PlanInvCorrect, PTL
=============================================================================
