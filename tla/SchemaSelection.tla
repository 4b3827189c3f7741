--------------------------- MODULE SchemaSelection ---------------------------
(***************************************************************************)
(* Which objects of a database the local tools may expose.  schema select  *)
(* (cli/schema/schema-select-command.ts, schema/schema-selection.ts)       *)
(* inspects the database, has the user review the objects in the terminal  *)
(* (terminal-schema-review.ts) or takes them from its options, and saves   *)
(* the selection of its profile in vexnor.local.json (local-selection-     *)
(* store.ts); schema mcp (schema-mcp-command.ts) reads it and makes tables *)
(* of what is selected.  Commands run in processes of their own and the    *)
(* database changes under them.                                            *)
(*                                                                         *)
(* A fault is a file operation that fails or a process that is killed;     *)
(* MaxFaults and MaxChanges bound faults and changes of the database.      *)
(***************************************************************************)
EXTENDS SchemaCatalog, Introspection

CONSTANTS
  Databases,     \* what the database may look like
  Objects,       \* the ids of their objects
  Profiles,
  Reviewers,     \* select commands without --include, --exclude and --all
  Overrides,     \* select commands with one of them
  Requests,      \* the options of the latter
  Servers,       \* mcp commands
  Assignments,   \* which command is for which profile
  Documents,     \* the selection file before the first command
  Texts,         \* what may stand in the search box
  Everything,    \* the empty one
  Matches,       \* the ids a text matches
  MaxChanges,
  MaxFaults

Commands == Reviewers \cup Overrides
Processes == Commands \cup Servers

ASSUME SelectionAssumptions ==
  /\ Reviewers \cap Overrides = {} /\ Commands \cap Servers = {}
  /\ Assignments \subseteq [Processes -> Profiles]
  /\ Everything \in Texts /\ Matches \in [Texts -> SUBSET Objects]
  /\ \A db \in Databases : db.driver \in Drivers /\ DOMAIN db.objects \subseteq Objects /\ WellFormed(db)
  /\ \A document \in Documents : DOMAIN document = {"whole", "profiles"}
  /\ MaxChanges \in Nat /\ MaxFaults \in Nat

VARIABLES
  profileOf,
  database,    \* the database as it is
  file,        \* the document: whether it is well formed, and its profiles
  process,     \* what a process holds in memory
  chosen,      \* history: what the last save of a profile selected
  lost,        \* history: profiles whose last save another one undid
  changes, faults

world == << profileOf, database, changes >>
saved == << file, chosen, lost >>
vars == << world, saved, process, faults >>

Nothing == [id \in {} |-> FALSE]

Fresh ==
  [pc |-> "idle",
   inspected |-> Nothing,   \* the catalog of the database as the process saw it
   seen |-> Nothing,        \* history: that database
   prior |-> Nothing,       \* the profiles a select command read first
   selected |-> {},         \* the state of the review in the terminal
   filter |-> "all",
   search |-> Everything,
   scope |-> Nothing,       \* the selection a command resolved or a server reconciled
   existing |-> Nothing,    \* the profiles read again for the save
   tables |-> Nothing,      \* the runtime tables of a server
   agreed |-> {},           \* history: what was chosen when a server read the file
   touched |-> {},          \* history: the objects a user toggled
   confirmed |-> {}]        \* history: the removed objects a user agreed to prune

Init ==
  /\ profileOf \in Assignments
  /\ database \in Databases /\ file \in Documents
  /\ process = [p \in Processes |-> Fresh]
  /\ chosen = [q \in Profiles |-> IF q \in DOMAIN file.profiles THEN Selected(file.profiles[q]) ELSE {}]
  /\ lost = {} /\ changes = 0 /\ faults = 0

At(p, pc) == process[p].pc = pc
Becomes(p, state) == process' = [process EXCEPT ![p] = state]
Ends(p) == Becomes(p, [Fresh EXCEPT !.pc = "ended"])
Fault == faults < MaxFaults /\ faults' = faults + 1

Catalog(p) == process[p].inspected
Ids(p) == DOMAIN process[p].inspected
FirstRun(c) == profileOf[c] \notin DOMAIN process[c].prior
PriorOf(c) == IF FirstRun(c) THEN Nothing ELSE process[c].prior[profileOf[c]]
RemovedObjects(c) == DOMAIN PriorOf(c) \ Ids(c)

-----------------------------------------------------------------------------
(* Both commands                                                           *)

(* The config and the profile are read and the plugin inspects the         *)
(* database; without a profile, a schema to inspect or a consistent answer *)
(* the command fails.                                                      *)
Inspect(p) ==
  /\ At(p, "idle")
  /\ \/ LET answer == GetSchema(database)
        IN ~Inconsistent(answer) /\ Becomes(p, [process[p] EXCEPT !.inspected = CreateSchemaCatalog(answer),
                                                                  !.seen = database, !.pc = "inspected"])
     \/ Ends(p)
  /\ UNCHANGED << world, saved, faults >>

-----------------------------------------------------------------------------
(* schema select: resolving                                                *)

(* What is selected when the review begins: everything on the first run,   *)
(* and afterwards what was; new objects are not.                           *)
Restored(c, profiles) ==
  LET q == profileOf[c]
  IN {id \in Ids(c) : q \in DOMAIN profiles => id \in DOMAIN profiles[q] /\ profiles[q][id]}

(* A review needs a terminal.                                              *)
LoadPrior(c) ==
  /\ At(c, "inspected")
  /\ \/ /\ file.whole
        /\ Becomes(c, [process[c] EXCEPT !.prior = file.profiles,
                                         !.selected = IF c \in Reviewers THEN Restored(c, file.profiles) ELSE {},
                                         !.pc = IF c \in Reviewers THEN "review" ELSE "resolve"])
     \/ (~file.whole \/ c \in Reviewers) /\ Ends(c)
  /\ UNCHANGED << world, saved, faults >>

ResolveIdentity(identity, ids) ==
  IF identity \in ids THEN {identity} ELSE {id \in ids : UnqualifiedName[id] = identity}

(* Every identity stands for one object and no two for the same.           *)
Resolvable(list, ids) ==
  /\ IsInjective(list)
  /\ \A i \in DOMAIN list : Cardinality(ResolveIdentity(list[i], ids)) = 1
  /\ \A i, j \in DOMAIN list : i # j => ResolveIdentity(list[i], ids) # ResolveIdentity(list[j], ids)

Identities(list, ids) == UNION {ResolveIdentity(list[i], ids) : i \in DOMAIN list}

(* What an override starts from: --all or --exclude alone, from everything. *)
Included(c, r) == IF r.include.given THEN Identities(r.include.list, Ids(c)) ELSE Ids(c)

ValidRequest(c, r) ==
  /\ r.include.given => ~r.all /\ Resolvable(r.include.list, Ids(c))
  /\ Resolvable(r.exclude, Ids(c))
  /\ r.include.given => Included(c, r) \cap Identities(r.exclude, Ids(c)) = {}

(* The selection is complete; an empty one is refused.                     *)
Resolved(c, confirmed, selected) ==
  IF selected = {} THEN Ends(c)
  ELSE Becomes(c, [Fresh EXCEPT !.pc = "load", !.scope = [id \in Ids(c) |-> id \in selected],
                                !.prior = process[c].prior, !.touched = process[c].touched,
                                !.confirmed = confirmed])

(* Without --save the selection is only printed.                           *)
ResolveOverride(c) ==
  /\ At(c, "resolve")
  /\ \E r \in Requests :
       IF ValidRequest(c, r) /\ r.save
       THEN Resolved(c, {}, Included(c, r) \ Identities(r.exclude, Ids(c)))
       ELSE Ends(c)
  /\ UNCHANGED << world, saved, faults >>

-----------------------------------------------------------------------------
(* schema select: the review, a key at a time                              *)

(* The objects the list shows.  The cursor reaches each of them.           *)
Visible(c) ==
  LET state == process[c]
  IN {id \in Ids(c) \cap Matches[state.search] :
        /\ state.filter = "checked" => id \in state.selected
        /\ state.filter = "unchecked" => id \notin state.selected}

Shows(c, state) == At(c, "review") /\ Becomes(c, state) /\ UNCHANGED << world, saved, faults >>

Toggled(selected, ids) == (selected \ ids) \cup (ids \ selected)

(* Space: the object under the cursor.                                     *)
ToggleObject(c) ==
  \E id \in Visible(c) :
    Shows(c, [process[c] EXCEPT !.selected = Toggled(@, {id}), !.touched = @ \cup {id}])

(* Mutant: all objects, the hidden ones as well.                           *)
Mut_ToggleAll(c) ==
  Shows(c, [process[c] EXCEPT !.selected = IF Visible(c) \subseteq @ THEN {} ELSE Ids(c),
                              !.touched = @ \cup Visible(c)])

(* a: select what is visible or, when all of it is selected, deselect it.  *)
ToggleVisible(c) ==
  Shows(c, [process[c] EXCEPT !.selected = IF Visible(c) \subseteq @ THEN @ \ Visible(c) ELSE @ \cup Visible(c),
                              !.touched = @ \cup Visible(c)])

(* Tab *)
NextFilter(c) ==
  Shows(c, [process[c] EXCEPT !.filter = CASE @ = "all" -> "checked"
                                           [] @ = "checked" -> "unchecked"
                                           [] @ = "unchecked" -> "all"])

(* Slash, what is typed into the search box, and escape, which clears it.  *)
Search(c) == \E text \in Texts : Shows(c, [process[c] EXCEPT !.search = text])

(* Ctrl-C anywhere, escape without a search, or at the question about      *)
(* removed objects any key but y.                                          *)
Cancel(c) ==
  /\ At(c, "review") \/ At(c, "confirm")
  /\ Ends(c) /\ UNCHANGED << world, saved, faults >>

(* Mutant: nobody is asked about removed objects.                          *)
Mut_NeverAsked(c) ==
  /\ At(c, "review")
  /\ Resolved(c, {}, process[c].selected)
  /\ UNCHANGED << world, saved, faults >>

(* Enter, which asks before it drops objects that are gone.                *)
Enter(c) ==
  /\ At(c, "review")
  /\ IF RemovedObjects(c) # {} THEN Becomes(c, [process[c] EXCEPT !.pc = "confirm"])
     ELSE Resolved(c, {}, process[c].selected)
  /\ UNCHANGED << world, saved, faults >>

ConfirmRemoved(c) ==
  /\ At(c, "confirm")
  /\ Resolved(c, RemovedObjects(c), process[c].selected)
  /\ UNCHANGED << world, saved, faults >>

-----------------------------------------------------------------------------
(* schema select: saving                                                   *)

(* The document is read again; one that is malformed is not overwritten.   *)
LoadExisting(c) ==
  /\ At(c, "load")
  /\ IF file.whole THEN Becomes(c, [process[c] EXCEPT !.existing = file.profiles, !.pc = "write"])
     ELSE Ends(c)
  /\ UNCHANGED << world, saved, faults >>

(* The temporary file.  When it cannot be written it is removed, or that   *)
(* fails as well; either way the command fails.                            *)
WriteTemporary(c) ==
  /\ At(c, "write")
  /\ \/ Becomes(c, [process[c] EXCEPT !.pc = "rename"]) /\ UNCHANGED faults
     \/ Ends(c) /\ Fault
  /\ UNCHANGED << world, saved >>

(* Mutant: the document is that of this profile alone.                     *)
Mut_OneProfile(c) == [q \in {profileOf[c]} |-> process[c].scope]

Document(c) ==
  LET mine == profileOf[c] existing == process[c].existing
  IN [q \in DOMAIN existing \cup {mine} |-> IF q = mine THEN process[c].scope ELSE existing[q]]

(* Profiles that were saved since the command read the document.           *)
Overtaken(c) ==
  {q \in DOMAIN file.profiles \ {profileOf[c]} :
     q \in DOMAIN process[c].existing => file.profiles[q] # process[c].existing[q]}

Rename(c) ==
  /\ At(c, "rename")
  /\ \/ /\ file' = [file EXCEPT !.profiles = Document(c)]
        /\ chosen' = [chosen EXCEPT ![profileOf[c]] = Selected(process[c].scope)]
        /\ lost' = (lost \ {profileOf[c]}) \cup Overtaken(c)
        /\ Ends(c) /\ UNCHANGED faults
     \/ Ends(c) /\ Fault /\ UNCHANGED saved
  /\ UNCHANGED world

-----------------------------------------------------------------------------
(* schema mcp                                                              *)

(* The selection is read and reconciled with the catalog; without one, or  *)
(* with nothing of it left, the command fails.                             *)
LoadSelection(s) ==
  /\ At(s, "inspected")
  /\ LET q == profileOf[s]
         selection == ReconcileSchemaSelection(Catalog(s), file.profiles[q])
     IN IF file.whole /\ q \in DOMAIN file.profiles /\ Selected(selection) # {}
        THEN Becomes(s, [process[s] EXCEPT !.scope = selection, !.pc = "connect",
                                           !.agreed = IF q \in lost THEN Objects ELSE chosen[q]])
        ELSE Ends(s)
  /\ UNCHANGED << world, saved, faults >>

(* The session makes tables of the selection, for as long as it runs.      *)
StartSession(s) ==
  /\ At(s, "connect")
  /\ LET scope == process[s].scope
     IN IF Unmappable(Catalog(s), Selected(scope)) THEN Ends(s)
        ELSE Becomes(s, [process[s] EXCEPT !.tables = CreateRuntimeSchemaMappings(Catalog(s), scope),
                                           !.pc = "serving"])
  /\ UNCHANGED << world, saved, faults >>

-----------------------------------------------------------------------------
(* The world                                                               *)

ChangeDatabase ==
  /\ changes < MaxChanges /\ changes' = changes + 1
  /\ database' \in {db \in Databases \ {database} : db.driver = database.driver}
  /\ UNCHANGED << profileOf, saved, process, faults >>

Killed(c) ==
  /\ process[c].pc \notin {"idle", "ended"}
  /\ Fault /\ Ends(c)
  /\ UNCHANGED << world, saved >>

ReviewStep(c) ==
  \/ ToggleObject(c) \/ ToggleVisible(c) \/ NextFilter(c) \/ Search(c)
  \/ Cancel(c) \/ Enter(c) \/ ConfirmRemoved(c)

SaveStep(c) == LoadExisting(c) \/ WriteTemporary(c) \/ Rename(c) \/ Killed(c)

Next ==
  \/ \E p \in Processes : Inspect(p)
  \/ \E c \in Commands : LoadPrior(c) \/ SaveStep(c)
  \/ \E c \in Reviewers : ReviewStep(c)
  \/ \E c \in Overrides : ResolveOverride(c)
  \/ \E s \in Servers : LoadSelection(s) \/ StartSession(s)
  \/ ChangeDatabase

Spec == Init /\ [][Next]_vars

-----------------------------------------------------------------------------
(* Properties                                                              *)

(* The type invariant.                                                     *)
TypeOK ==
  /\ DOMAIN process = Processes
  /\ \A p \in Processes :
       /\ DOMAIN process[p] = DOMAIN Fresh
       /\ process[p].pc \in {"idle", "inspected", "review", "confirm", "resolve", "load", "write", "rename",
                             "connect", "serving", "ended"}
       /\ process[p].selected \subseteq Ids(p) /\ process[p].search \in Texts
       /\ process[p].scope \in [DOMAIN process[p].scope -> BOOLEAN]
  /\ \A q \in DOMAIN file.profiles : file.profiles[q] \in [DOMAIN file.profiles[q] -> BOOLEAN]
  /\ faults \in 0..MaxFaults /\ changes \in 0..MaxChanges

(* A session's tables, and the tables its foreign keys name, are among     *)
(* those the last save of its profile selected, whatever was created or    *)
(* dropped since: a new object is not exposed before somebody selected it. *)
(* Two overlapping saves are excepted: the later rename undoes the earlier. *)
Named(tables) == DOMAIN tables \cup UNION {{f.to : f \in tables[id].fk} : id \in DOMAIN tables}

ExposedWasChosen ==
  \A s \in Servers : At(s, "serving") => Named(process[s].tables) \subseteq process[s].agreed

(* What a review saves differs from what was selected before only in the   *)
(* objects the user toggled: neither a filter, a search nor an object that *)
(* is new changes the selection of anything else (docs/cli.md:125).        *)
UntouchedKept ==
  \A c \in Reviewers : process[c].pc \in {"load", "write", "rename"} =>
    \A id \in DOMAIN process[c].scope \ process[c].touched :
      process[c].scope[id] <=> FirstRun(c) \/ (id \in DOMAIN PriorOf(c) /\ PriorOf(c)[id])

(* A save changes no other profile, unless that one was saved since the    *)
(* document was read, and leaves a malformed document alone.               *)
SaveKeepsOthers ==
  [][file.whole /\ \E c \in Commands :
       /\ At(c, "rename")
       /\ \A q \in DOMAIN file.profiles \ {profileOf[c]} :
            (q \in DOMAIN file'.profiles /\ file'.profiles[q] = file.profiles[q]) \/ q \in lost']_file

(* A review drops an object from its profile's selection only when the     *)
(* object is gone and the user agreed, or else when another command saved  *)
(* the profile since the review read it.                                   *)
PrunedWasConfirmed ==
  [][\A c \in Reviewers : At(c, "rename") /\ file' # file /\ process'[c].pc = "ended" /\ ~FirstRun(c)
       /\ profileOf[c] \in DOMAIN file.profiles =>
       LET before == file.profiles[profileOf[c]]
       IN before = PriorOf(c) =>
            DOMAIN before \ DOMAIN file'.profiles[profileOf[c]] \subseteq process[c].confirmed]_vars

(* The foreign keys of a session's tables, read through its column names,  *)
(* are those of the database between them, unless the names of two columns *)
(* become one.  Two limits of the queries are excepted: SQL Server's keys  *)
(* must be named in their order, and elsewhere the names of constraints    *)
(* must differ within a schema.                                            *)
Distinct(object) == \A a, b \in ToSet(object.columns) : a.mappingName = b.mappingName => a = b

Readable(db) ==
  /\ db.driver = "mssql" =>
       \A id \in DOMAIN db.objects : \A name \in DOMAIN db.objects[id].foreign :
         LET foreign == db.objects[id].foreign[name] IN \A i \in DOMAIN foreign.at : foreign.at[i] = i
  /\ db.driver \in {"postgres", "duckdb"} =>
       \A a, b \in DOMAIN db.objects :
         a # b /\ SchemaOf[a] = SchemaOf[b] => Constraints(db.objects[a]) \cap Constraints(db.objects[b]) = {}

AsForeign(tables, id, fk) ==
  [to |-> fk.to,
   pairs |-> [i \in DOMAIN fk.from |-> << tables[id].columns[fk.from[i]],
                                         tables[fk.to].columns[fk.columns[i]] >>]]

ForeignOf(objects, id) ==
  {[to |-> k.to, pairs |-> [i \in DOMAIN k.columns |-> << k.columns[i], objects[k.to].keys[k.key][k.at[i]] >>]]
   : k \in {objects[id].foreign[name] : name \in DOMAIN objects[id].foreign}}

ForeignKeysFaithful ==
  \A s \in Servers :
    LET tables == process[s].tables
    IN At(s, "serving") /\ Readable(process[s].seen)
         /\ (\A id \in DOMAIN tables : Distinct(Catalog(s)[id])) =>
         \A id \in DOMAIN tables :
           {AsForeign(tables, id, fk) : fk \in tables[id].fk} =
           {k \in ForeignOf(process[s].seen.objects, id) : k.to \in DOMAIN tables}
=============================================================================
