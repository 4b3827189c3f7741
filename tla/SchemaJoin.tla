---------------------------- MODULE SchemaJoin ----------------------------
(***************************************************************************)
(* The join tool: SchemaGraph.joinBy (execution/schema-graph.ts) plans a   *)
(* join along foreign keys, LocalDataSession.registerJoin registers its    *)
(* query by hash, createLocalDataTools (schema/local-data-tools.ts) keeps  *)
(* the joinBy of each hash, and SqlJoinBy.write (core/operators/           *)
(* sql-join-by.ts) turns it into JOIN clauses when the hash is fetched.    *)
(*                                                                         *)
(* A table stands for its qualified id.  Tables of equal name in different *)
(* schemas and several foreign keys between two tables are left out.       *)
(***************************************************************************)
EXTENDS Naturals, Sequences, SequencesExt, FiniteSets

CONSTANTS
    Tables,         \* the selected tables
    Unselected,     \* other table ids a client may name
    Roots,          \* the tables clients join from
    JoinTypes,      \* join types a target may have, "inner" among them
    MaxTargets,     \* bound: targets of one join
    MaxJoins        \* bound: joins

ASSUME JoinAssumption ==
    /\ IsFiniteSet(Tables)
    /\ Roots \subseteq Tables /\ Unselected \cap Tables = {}
    /\ "inner" \in JoinTypes
    /\ MaxTargets \in Nat /\ MaxJoins \in Nat

VARIABLES
    fk,             \* related pairs of tables, in either direction
    joins,          \* joins asked for so far
    pc,             \* the part of joinBy() that runs
    root, targets,  \* the request
    at,             \* index of the target being connected
    connected,      \* connectedTableIds, in insertion order
    source,         \* index of the connected table searched from
    queue, visited, \* of the breadth-first search
    best,           \* bestPath, empty for null
    path,           \* the steps of the plan
    returned,       \* the joins returned to the client: hash and joinBy
    joinByDefaults, \* the tools' map from hash to joinBy
    ran             \* the fetches made: joinBy used, and whether it was built

request == <<root, targets>>
search == <<source, queue, visited, best>>
plan == <<at, connected, path>>
cache == <<returned, joinByDefaults, ran>>
joinVars == <<fk, joins, pc, request, search, plan, cache>>

Target == [table : Tables, type : JoinTypes]

Requested == {targets[i].table : i \in DOMAIN targets}

JoinInit ==
    /\ fk \in SUBSET {e \in SUBSET Tables : Cardinality(e) = 2}
    /\ joins = 0
    /\ pc = "idle"
    /\ root \in Roots /\ targets = <<>>
    /\ at = 0 /\ connected = <<>> /\ path = <<>>
    /\ source = 0 /\ queue = <<>> /\ visited = {} /\ best = <<>>
    /\ returned = {} /\ joinByDefaults = {} /\ ran = {}

Step == [from : Tables, to : Tables]

JoinTypeOK ==
    /\ fk \subseteq SUBSET Tables
    /\ joins \in 0..MaxJoins
    /\ pc \in {"idle", "connecting", "searching", "found", "planned"}
    /\ root \in Roots
    /\ targets \in Seq(Target)
    /\ at \in 0..Len(targets) + 1
    /\ connected \in Seq(Tables)
    /\ path \in Seq(Step)
    /\ source \in 0..Len(connected) + 1
    /\ \A i \in DOMAIN queue : queue[i] \in Seq(Tables) \ {<<>>}
    /\ visited \subseteq Tables
    /\ best \in Seq(Tables)
    /\ \A r \in returned : r.hash.root \in Tables /\ r.hash.joinMap \subseteq Tables
    /\ \A d \in joinByDefaults : \E r \in returned : r = d

Related(t) == {u \in Tables : {t, u} \in fk}

\* The elements of s that are not in S, in their order.
Without(s, S) ==
    LET kept == {i \in DOMAIN s : s[i] \notin S}
    IN [k \in 1..Cardinality(kept) |->
          s[CHOOSE i \in kept : Cardinality({j \in kept : j <= i}) = k]]

-----------------------------------------------------------------------------
(* Planning: join() and its loop over the targets.                         *)

Idle ==
    /\ pc' = "idle"
    /\ targets' = <<>> /\ at' = 0 /\ connected' = <<>> /\ path' = <<>>
    /\ source' = 0 /\ queue' = <<>> /\ visited' = {} /\ best' = <<>>

\* joinBy() finds no such table and returns null; the session throws.
JoinUnknown ==
    /\ pc = "idle" /\ joins < MaxJoins
    /\ Unselected # {}
    /\ joins' = joins + 1
    /\ Idle
    /\ UNCHANGED <<fk, root, cache>>

Join ==
    /\ pc = "idle" /\ joins < MaxJoins
    /\ joins' = joins + 1
    /\ pc' = "connecting"
    /\ root' \in Roots
    /\ \E n \in 1..MaxTargets :
         targets' \in [1..n -> Target]
    /\ at' = 1
    /\ connected' = <<root'>>
    /\ path' = <<>>
    /\ UNCHANGED <<fk, search, cache>>

\* joinPath from the connected table at index i, or the end of that loop.
SearchFrom(i) ==
    /\ source' = i
    /\ IF i <= Len(connected)
       THEN /\ pc' = "searching"
            /\ queue' = <<<<connected[i]>>>>
            /\ visited' = {connected[i]}
       ELSE /\ pc' = "found"
            /\ queue' = <<>>
            /\ visited' = {}

NextTarget ==
    /\ pc = "connecting"
    /\ \/ /\ at > Len(targets)
          /\ pc' = "planned"
          /\ UNCHANGED <<search, at>>
       \/ /\ at <= Len(targets)
          /\ targets[at].table \in ToSet(connected)
          /\ at' = at + 1
          /\ UNCHANGED <<pc, search>>
       \/ /\ at <= Len(targets)
          /\ targets[at].table \notin ToSet(connected)
          /\ SearchFrom(1)
          /\ UNCHANGED <<best, at>>
    /\ UNCHANGED <<fk, joins, request, connected, path, cache>>

Mut_LastPathWins ==
    /\ pc = "searching" /\ queue # <<>>
    /\ LET head == Head(queue)
           fresh == Related(Last(head)) \ visited
           goal == targets[at].table
       IN IF goal \in fresh
          THEN best' = Append(head, goal) /\ SearchFrom(source + 1)
          ELSE \E order \in SetToSeqs(fresh) :
                 /\ queue' = Tail(queue) \o [i \in DOMAIN order |-> Append(head, order[i])]
                 /\ visited' = visited \cup fresh
                 /\ UNCHANGED <<pc, source, best>>
    /\ UNCHANGED <<fk, joins, request, plan, cache>>

\* One round of the search: the head's unvisited neighbours, in the order of its
\* foreign keys, which may be any.  The first path to arrive is the result.
Visit ==
    /\ pc = "searching" /\ queue # <<>>
    /\ LET head == Head(queue)
           fresh == Related(Last(head)) \ visited
           goal == targets[at].table
       IN IF goal \in fresh
          THEN /\ best' = IF best = <<>> \/ Len(head) + 1 < Len(best)
                          THEN Append(head, goal) ELSE best
               /\ SearchFrom(source + 1)
          ELSE \E order \in SetToSeqs(fresh) :
                 /\ queue' = Tail(queue) \o [i \in DOMAIN order |-> Append(head, order[i])]
                 /\ visited' = visited \cup fresh
                 /\ UNCHANGED <<pc, source, best>>
    /\ UNCHANGED <<fk, joins, request, plan, cache>>

SearchExhausted ==
    /\ pc = "searching" /\ queue = <<>>
    /\ SearchFrom(source + 1)
    /\ UNCHANGED <<fk, joins, request, best, plan, cache>>

\* No path to a target: join() returns null; the session throws.
NoPath ==
    /\ pc = "found" /\ best = <<>>
    /\ Idle
    /\ UNCHANGED <<fk, joins, root, cache>>

Mut_RootAlone ==
    /\ pc = "found" /\ best # <<>>
    /\ path' = path \o [i \in 1..Len(best) - 1 |-> [from |-> best[i], to |-> best[i + 1]]]
    /\ at' = at + 1
    /\ pc' = "connecting"
    /\ source' = 0 /\ best' = <<>>
    /\ UNCHANGED <<fk, joins, request, queue, visited, connected, cache>>

\* The steps of the path not seen yet join the plan, their tables the tree.
AddPath ==
    /\ pc = "found" /\ best # <<>>
    /\ LET steps == [i \in 1..Len(best) - 1 |-> [from |-> best[i], to |-> best[i + 1]]]
       IN /\ path' = path \o Without(steps, ToSet(path))
          /\ connected' = connected \o Without(best, ToSet(connected))
    /\ at' = at + 1
    /\ pc' = "connecting"
    /\ source' = 0 /\ best' = <<>>
    /\ UNCHANGED <<fk, joins, request, queue, visited, cache>>

-----------------------------------------------------------------------------
(* Registration and fetching.                                              *)

\* The type of the first target of that name; an intermediate table is inner.
TypeOf(t) ==
    IF t \notin Requested THEN "inner"
    ELSE targets[SelectInSeq(targets, LAMBDA x : x.table = t)].type

JoinBy == [i \in DOMAIN path |->
             [table |-> path[i].to, on |-> path[i].from, type |-> TypeOf(path[i].to)]]

\* The query's hash covers the root and the keys of its joinMap, which are the
\* targets; the join types are run-time parameters.
Hash == [root |-> root, joinMap |-> Requested]

\* registerJoin registers the hash once; the tools keep the latest joinBy.
Register ==
    /\ pc = "planned"
    /\ LET result == [hash |-> Hash, joinBy |-> JoinBy] IN
       /\ returned' = returned \cup {result}
       /\ joinByDefaults' = {d \in joinByDefaults : d.hash # Hash} \cup {result}
    /\ Idle
    /\ UNCHANGED <<fk, joins, root, ran>>

\* SqlJoinBy.write: each entry's table must be in the joinMap, its condition may
\* name the root and the tables joined before it.
Builds(hash, joinBy) ==
    \A i \in DOMAIN joinBy :
        /\ joinBy[i].table \in hash.joinMap
        /\ joinBy[i].on \in {hash.root} \cup {joinBy[j].table : j \in 1..i - 1}

FetchData ==
    /\ pc = "idle"
    /\ \E d \in joinByDefaults :
         ran' = ran \cup {[hash |-> d.hash, joinBy |-> d.joinBy,
                           built |-> Builds(d.hash, d.joinBy)]}
    /\ UNCHANGED <<fk, joins, pc, request, search, plan, returned, joinByDefaults>>

-----------------------------------------------------------------------------

Planning == NextTarget \/ Visit \/ SearchExhausted \/ NoPath \/ AddPath \/ Register

JoinNext == Join \/ JoinUnknown \/ Planning \/ FetchData

JoinSpec == JoinInit /\ [][JoinNext]_joinVars

\* join() runs to its end without giving up the thread.
JoinFairSpec == JoinSpec /\ WF_joinVars(Planning)

-----------------------------------------------------------------------------
(* Properties.                                                             *)

\* A walk along foreign keys from a table of S to t passes at most n tables.
Reaches(S, t, n) ==
    \E m \in 1..n : \E walk \in [1..m -> Tables] :
        /\ walk[1] \in S /\ walk[m] = t
        /\ \A i \in 1..m - 1 : walk[i + 1] \in Related(walk[i])

\* The path chosen for a target is one of the shortest from the tables joined so
\* far, although each search starts from one of them and stops at its first
\* arrival; and there is none only if no path exists.
ShortestPathChosen ==
    pc = "found" =>
        LET goal == targets[at].table
            distance == Len(best) - 1
            tree == ToSet(connected)
        IN IF best = <<>>
           THEN ~Reaches(tree, goal, Cardinality(Tables))
           ELSE /\ Head(best) \in tree /\ Last(best) = goal
                /\ \A i \in 1..distance : best[i + 1] \in Related(best[i])
                /\ ~Reaches(tree, goal, distance)

\* The plan is a join tree in an order SQL accepts: each step starts at a table
\* joined before it and joins a new one, so no key of joinBy is overwritten; all
\* targets are joined, and nothing that does not lead to one.
JoinTreeOrdered ==
    pc = "planned" =>
        LET joinedBefore(i) == {root} \cup {path[j].to : j \in 1..i - 1} IN
        /\ \A i \in DOMAIN path :
             /\ path[i].from \in joinedBefore(i)
             /\ path[i].to \notin joinedBefore(i)
             /\ \/ path[i].to \in Requested
                \/ \E j \in i + 1..Len(path) : path[j].from = path[i].to
        /\ Requested \subseteq joinedBefore(Len(path) + 1)

\* "The exact joinBy params to pass to fetchData": a join that was returned can
\* be built.
ReturnedJoinBuilds == \A f \in ran : f.built

\* "The session re-injects the cached joinBy": a fetch of a join's hash joins the
\* way that join was returned.
ReturnedJoinRuns ==
    \A f \in ran, r \in returned : f.hash = r.hash => f.joinBy = r.joinBy
=============================================================================
