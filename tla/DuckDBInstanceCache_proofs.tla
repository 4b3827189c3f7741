-------------------- MODULE DuckDBInstanceCache_proofs --------------------
(***************************************************************************)
(* Proofs about DuckDBInstanceCache, for every number of connections and   *)
(* paths.                                                                  *)
(***************************************************************************)
EXTENDS DuckDBInstanceCache, FiniteSetTheorems, TLAPS

-----------------------------------------------------------------------------
(* The microtask queue.                                                    *)

Queued(q) == UNION {q[i] : i \in 1 .. Len(q)}

Disjoint(q) == \A i, j \in 1 .. Len(q) : i # j => q[i] \cap q[j] = {}

LEMMA QueueEmpty == Queued(<<>>) = {} /\ Disjoint(<<>>)
BY DEF Queued, Disjoint

LEMMA QueueOne ==
    ASSUME NEW S
    PROVE  Queued(<<S>>) = S /\ Disjoint(<<S>>)
BY DEF Queued, Disjoint

LEMMA QueueAppend ==
    ASSUME NEW T, NEW q \in Seq(T), NEW S \in T
    PROVE  /\ Queued(Append(q, S)) = Queued(q) \cup S
           /\ Disjoint(q) /\ S \cap Queued(q) = {} => Disjoint(Append(q, S))
<1> DEFINE a == Append(q, S)
           n == Len(q)
<1>1. /\ n \in Nat /\ Len(a) = n + 1 /\ a[n + 1] = S
      /\ \A i \in 1 .. n : a[i] = q[i]
  OBVIOUS
<1>2. \A i \in 1 .. n + 1 : i \in 1 .. n \/ i = n + 1
  BY <1>1
<1> HIDE DEF a, n
<1>3. Queued(a) = Queued(q) \cup S
  <2>1. 1 .. n \subseteq 1 .. n + 1 /\ n + 1 \in 1 .. n + 1  BY <1>1
  <2> QED  BY <1>1, <1>2, <2>1 DEF Queued, n
<1>4. Disjoint(q) /\ S \cap Queued(q) = {} => Disjoint(a)
  BY <1>1, <1>2 DEF Disjoint, Queued, n
<1> QED  BY <1>3, <1>4 DEF a

LEMMA QueueTail ==
    ASSUME NEW T, NEW q \in Seq(T), q # <<>>, Disjoint(q)
    PROVE  /\ Queued(q) = Head(q) \cup Queued(Tail(q))
           /\ Head(q) \cap Queued(Tail(q)) = {}
           /\ Disjoint(Tail(q))
<1> DEFINE t == Tail(q)
           n == Len(q)
<1>1. /\ n \in Nat \ {0} /\ Len(t) = n - 1 /\ Head(q) = q[1]
      /\ \A i \in 1 .. n - 1 : t[i] = q[i + 1]
  OBVIOUS
<1>2. /\ \A i \in 1 .. n : i = 1 \/ (i - 1 \in 1 .. n - 1 /\ i = (i - 1) + 1)
      /\ \A i \in 1 .. n - 1 : i + 1 \in 1 .. n /\ i + 1 # 1
      /\ 1 \in 1 .. n
  BY <1>1
<1> HIDE DEF t, n
<1>3. Queued(q) = Head(q) \cup Queued(t)
  <2>1. ASSUME NEW x \in Queued(q) PROVE x \in Head(q) \cup Queued(t)
    <3>1. PICK i \in 1 .. n : x \in q[i]  BY DEF Queued, n
    <3>2. CASE i = 1  BY <1>1, <3>1, <3>2
    <3>3. CASE i # 1
      <4>1. i - 1 \in 1 .. Len(t) /\ t[i - 1] = q[i]  BY <1>1, <1>2, <3>3
      <4> QED  BY <3>1, <4>1 DEF Queued
    <3> QED  BY <3>2, <3>3
  <2>2. ASSUME NEW x \in Head(q) \cup Queued(t) PROVE x \in Queued(q)
    <3>1. CASE x \in Head(q)  BY <1>1, <1>2, <3>1 DEF Queued, n
    <3>2. CASE x \in Queued(t)
      <4>1. PICK i \in 1 .. n - 1 : x \in t[i]  BY <1>1, <3>2 DEF Queued
      <4>2. i + 1 \in 1 .. Len(q) /\ q[i + 1] = t[i]  BY <1>1, <1>2 DEF n
      <4> QED  BY <4>1, <4>2 DEF Queued
    <3> QED  BY <3>1, <3>2
  <2> QED  BY <2>1, <2>2
<1>4. Head(q) \cap Queued(t) = {}
  BY <1>1, <1>2 DEF Queued, Disjoint, n
<1>5. Disjoint(t)
  <2> SUFFICES ASSUME NEW i \in 1 .. n - 1, NEW j \in 1 .. n - 1, i # j
               PROVE  t[i] \cap t[j] = {}
    BY <1>1 DEF Disjoint
  <2>1. i + 1 # j + 1  BY <1>1
  <2> QED  BY <1>1, <1>2, <2>1 DEF Disjoint, n
<1> QED  BY <1>3, <1>4, <1>5 DEF t

-----------------------------------------------------------------------------
(* Who waits for what.                                                     *)

\* What each call's entry and the cache know of the calls they name; what is
\* queued waits, once, for a promise that has settled; a pending promise keeps
\* its creator waiting.
LinkInv ==
    /\ \A c \in Calls : pc[c] # "idle" =>
         /\ entry[c] \in Calls /\ pc[entry[c]] # "idle"
         /\ entry[c] \in Isolated <=> c \in Isolated
         /\ c \notin Isolated => PathOf[entry[c]] = PathOf[c]
         /\ c \in Isolated => entry[c] = c
    /\ \A c \in Calls : pc[c] = "idle" => entry[c] = NoEntry
    /\ \A p \in Paths : cache[p] # NoEntry =>
         pc[cache[p]] # "idle" /\ cache[p] \notin Isolated /\ PathOf[cache[p]] = p
    /\ Disjoint(jobs)
    /\ \A c \in Queued(jobs) : pc[c] = "waiting" /\ inst[entry[c]] # "pending"
    /\ \A e \in Calls : inst[e] = "pending" => pc[e] = "waiting" /\ entry[e] = e
    /\ \A c \in Calls : pc[c] \in {"connecting", "open"} =>
         inst[entry[c]] \notin {"pending", "rejected"}

\* An open instance is held or about to be, an open connection's is open, and the
\* cache offers no closed instance and no failure that nobody is about to report.
HoldInv ==
    /\ CountExact
    /\ OpenConnectionsLive
    /\ \A e \in Calls : inst[e] = "open" =>
         Holders(e) # {} \/ \E c \in Queued(jobs) : entry[c] = e
    /\ \A p \in Paths : cache[p] # NoEntry =>
         /\ inst[cache[p]] # "closed"
         /\ inst[cache[p]] = "rejected" => \E c \in Queued(jobs) : entry[c] = cache[p]

CacheInv == TypeOK /\ LinkInv /\ HoldInv

USE DEF Goto

LEMMA SetsFinite ==
    ASSUME NEW S \in SUBSET Calls
    PROVE  IsFiniteSet(S) /\ Cardinality(S) \in Nat
BY CallsFinite, FS_Subset, FS_CardinalityType

LEMMA HoldersType == \A e : Holders(e) \in SUBSET Calls /\ Waiting(e) \in SUBSET Calls
BY DEF Holders, Waiting

LEMMA QueuedType == TypeOK => Queued(jobs) \subseteq Calls
BY DEF TypeOK, Queued

LEMMA CacheInit == Init => CacheInv
<1> SUFFICES ASSUME Init PROVE CacheInv
  OBVIOUS
<1>1. TypeOK  BY DEF Init, TypeOK
<1>2. LinkInv  BY QueueEmpty DEF Init, LinkInv
<1>3. CountExact
  <2>1. \A e \in Calls : Holders(e) = {}  BY DEF Init, Holders
  <2> QED  BY <2>1, FS_EmptySet DEF Init, CountExact
<1>4. HoldInv  BY <1>3 DEF Init, HoldInv, OpenConnectionsLive
<1> QED  BY <1>1, <1>2, <1>4 DEF CacheInv

-----------------------------------------------------------------------------
(* Acquiring.                                                              *)

LEMMA AcquireStep == ASSUME CacheInv, NEW c \in Calls, Acquire(c) PROVE CacheInv'
<1> USE DEF CacheInv
<1>1. /\ pc[c] = "idle" /\ pc' = [pc EXCEPT ![c] = "waiting"] /\ conns' = conns
      /\ PathOf[c] \in Paths
  BY PathAssumption DEF Acquire
<1>2. \A d \in Calls : pc[d] # "idle" => d # c /\ entry[d] # c
  BY <1>1 DEF LinkInv
<1>3. \A p \in Paths : cache[p] # NoEntry => cache[p] # c
  BY <1>1 DEF LinkInv
<1>4. c \notin Queued(jobs) /\ entry[c] = NoEntry
  BY <1>1 DEF LinkInv
<1>5. CASE Start(c) /\ cache' \in {cache, [cache EXCEPT ![PathOf[c]] = c]}
           /\ (cache' # cache => c \notin Isolated)
  <2>1. /\ inst' = [inst EXCEPT ![c] = "pending"] /\ entry' = [entry EXCEPT ![c] = c]
        /\ jobs' = jobs
    BY <1>5 DEF Start
  <2>2. TypeOK'  BY <1>1, <1>5, <2>1 DEF TypeOK
  <2>3. \A d \in Calls : d # c => pc'[d] = pc[d] /\ entry'[d] = entry[d] /\ inst'[d] = inst[d]
    BY <2>1, <1>1 DEF TypeOK
  <2>4. pc'[c] = "waiting" /\ entry'[c] = c /\ inst'[c] = "pending"
    BY <2>1, <1>1 DEF TypeOK
  <2>5. \A p \in Paths : cache'[p] = cache[p] \/ (p = PathOf[c] /\ cache'[p] = c /\ c \notin Isolated)
    BY <1>1, <1>5 DEF TypeOK
  <2>6. \A d \in Queued(jobs) : d \in Calls /\ d # c /\ entry[d] \in Calls /\ entry[d] # c
    BY <1>2, <1>4, QueuedType DEF LinkInv
  <2>7. LinkInv'
    <3>1. \A d \in Calls : pc'[d] # "idle" =>
             /\ entry'[d] \in Calls /\ pc'[entry'[d]] # "idle"
             /\ entry'[d] \in Isolated <=> d \in Isolated
             /\ d \notin Isolated => PathOf[entry'[d]] = PathOf[d]
             /\ d \in Isolated => entry'[d] = d
      BY <1>2, <2>3, <2>4 DEF LinkInv
    <3>2. \A d \in Calls : pc'[d] = "idle" => entry'[d] = NoEntry
      BY <2>3, <2>4 DEF LinkInv
    <3>3. \A p \in Paths : cache'[p] # NoEntry =>
             pc'[cache'[p]] # "idle" /\ cache'[p] \notin Isolated /\ PathOf[cache'[p]] = p
      BY <1>3, <2>3, <2>4, <2>5 DEF LinkInv, TypeOK
    <3>4. \A d \in Queued(jobs) : pc'[d] = "waiting" /\ inst'[entry'[d]] # "pending"
      BY <2>3, <2>6 DEF LinkInv
    <3>5. \A e \in Calls : inst'[e] = "pending" => pc'[e] = "waiting" /\ entry'[e] = e
      BY <2>3, <2>4 DEF LinkInv
    <3>6. \A d \in Calls : pc'[d] \in {"connecting", "open"} =>
             inst'[entry'[d]] \notin {"pending", "rejected"}
      BY <1>2, <2>3, <2>4 DEF LinkInv
    <3> QED  BY <2>1, <3>1, <3>2, <3>3, <3>4, <3>5, <3>6 DEF LinkInv
  <2>8. \A e \in Calls : Holders(e)' = Holders(e)
    BY <1>1, <2>3, <2>4 DEF Holders
  <2>9. CountExact' /\ OpenConnectionsLive'
    BY <1>1, <1>2, <2>3, <2>4, <2>8 DEF HoldInv, CountExact, OpenConnectionsLive, LinkInv
  <2>10. \A e \in Calls : inst'[e] = "open" =>
            Holders(e)' # {} \/ \E d \in Queued(jobs) : entry'[d] = e
    BY <2>3, <2>4, <2>6, <2>8 DEF HoldInv
  <2>11. \A p \in Paths : cache'[p] # NoEntry =>
            /\ inst'[cache'[p]] # "closed"
            /\ inst'[cache'[p]] = "rejected" => \E d \in Queued(jobs) : entry'[d] = cache'[p]
    <3> TAKE p \in Paths
    <3>1. CASE cache'[p] = cache[p] /\ cache[p] # NoEntry
      <4>1. cache[p] \in Calls /\ cache[p] # c  BY <1>3, <3>1 DEF TypeOK
      <4>2. inst'[cache'[p]] = inst[cache[p]]  BY <2>3, <3>1, <4>1
      <4>3. \A d \in Queued(jobs) : entry'[d] = entry[d]  BY <2>3, <2>6
      <4> QED  BY <3>1, <4>2, <4>3 DEF HoldInv
    <3>2. CASE cache'[p] = c  BY <2>4, <3>2
    <3> QED  BY <2>5, <3>1, <3>2
  <2> QED  BY <2>1, <2>2, <2>7, <2>9, <2>10, <2>11 DEF HoldInv
<1>6. ASSUME c \notin Isolated, cache[PathOf[c]] # NoEntry,
             entry' = [entry EXCEPT ![c] = cache[PathOf[c]]],
             jobs' = IF inst[cache[PathOf[c]]] = "pending" THEN jobs ELSE Append(jobs, {c}),
             UNCHANGED <<cache, inst>>
      PROVE  CacheInv'
  <2> DEFINE e == cache[PathOf[c]]
  <2>1. e \in Calls /\ pc[e] # "idle" /\ e \notin Isolated /\ PathOf[e] = PathOf[c] /\ e # c
    BY <1>1, <1>3, <1>6 DEF LinkInv, TypeOK
  <2> HIDE DEF e
  <2>2. \A d \in Calls : d # c => pc'[d] = pc[d] /\ entry'[d] = entry[d]
    BY <1>1, <1>6 DEF TypeOK
  <2>3. pc'[c] = "waiting" /\ entry'[c] = e
    BY <1>1, <1>6 DEF TypeOK, e
  <2>4. jobs' = IF inst[e] = "pending" THEN jobs ELSE Append(jobs, {c})
    BY <1>6 DEF e
  <2>5. /\ Queued(jobs') = IF inst[e] = "pending" THEN Queued(jobs) ELSE Queued(jobs) \cup {c}
        /\ Disjoint(jobs')
    <3>1. CASE inst[e] = "pending"  BY <2>4, <3>1 DEF LinkInv
    <3>2. CASE inst[e] # "pending"
      <4>1. jobs \in Seq(SUBSET Calls) /\ {c} \in SUBSET Calls /\ {c} \cap Queued(jobs) = {}
        BY <1>4 DEF TypeOK
      <4> QED  BY <2>4, <3>2, <4>1, QueueAppend DEF LinkInv
    <3> QED  BY <3>1, <3>2
  <2>6. TypeOK'
    <3>1. jobs' \in Seq(SUBSET Calls)  BY <2>4 DEF TypeOK
    <3>2. entry' \in [Calls -> Calls \cup {NoEntry}]  BY <1>6, <2>1 DEF TypeOK, e
    <3> QED  BY <1>1, <1>6, <3>1, <3>2 DEF TypeOK
  <2>7. \A d \in Queued(jobs) : d \in Calls /\ d # c
    BY <1>4, QueuedType
  <2>8. LinkInv'
    <3>1. \A d \in Calls : pc'[d] # "idle" =>
             /\ entry'[d] \in Calls /\ pc'[entry'[d]] # "idle"
             /\ entry'[d] \in Isolated <=> d \in Isolated
             /\ d \notin Isolated => PathOf[entry'[d]] = PathOf[d]
             /\ d \in Isolated => entry'[d] = d
      BY <1>2, <1>6, <2>1, <2>2, <2>3 DEF LinkInv
    <3>2. \A d \in Calls : pc'[d] = "idle" => entry'[d] = NoEntry
      BY <2>2, <2>3 DEF LinkInv
    <3>3. \A p \in Paths : cache'[p] # NoEntry =>
             pc'[cache'[p]] # "idle" /\ cache'[p] \notin Isolated /\ PathOf[cache'[p]] = p
      BY <1>3, <1>6, <2>2 DEF LinkInv, TypeOK
    <3>4. \A d \in Queued(jobs') : pc'[d] = "waiting" /\ inst'[entry'[d]] # "pending"
      BY <1>6, <2>2, <2>3, <2>5, <2>7 DEF LinkInv
    <3>5. \A x \in Calls : inst'[x] = "pending" => pc'[x] = "waiting" /\ entry'[x] = x
      BY <1>1, <1>6, <2>2 DEF LinkInv
    <3>6. \A d \in Calls : pc'[d] \in {"connecting", "open"} =>
             inst'[entry'[d]] \notin {"pending", "rejected"}
      BY <1>6, <2>2, <2>3 DEF LinkInv
    <3> QED  BY <2>5, <3>1, <3>2, <3>3, <3>4, <3>5, <3>6 DEF LinkInv
  <2>9. \A x \in Calls : Holders(x)' = Holders(x)
    BY <1>1, <2>2, <2>3 DEF Holders
  <2>10. CountExact' /\ OpenConnectionsLive'
    BY <1>1, <1>6, <2>2, <2>3, <2>9 DEF HoldInv, CountExact, OpenConnectionsLive
  <2>11. \A x : (\E d \in Queued(jobs) : entry[d] = x) => \E d \in Queued(jobs') : entry'[d] = x
    BY <2>2, <2>5, <2>7
  <2>12. \A x \in Calls : inst'[x] = "open" =>
            Holders(x)' # {} \/ \E d \in Queued(jobs') : entry'[d] = x
    BY <1>6, <2>9, <2>11 DEF HoldInv
  <2>13. \A p \in Paths : cache'[p] # NoEntry =>
            /\ inst'[cache'[p]] # "closed"
            /\ inst'[cache'[p]] = "rejected" => \E d \in Queued(jobs') : entry'[d] = cache'[p]
    BY <1>6, <2>11 DEF HoldInv
  <2> QED  BY <2>6, <2>8, <2>10, <2>12, <2>13 DEF HoldInv
<1> QED  BY <1>5, <1>6 DEF Acquire

-----------------------------------------------------------------------------
(* Promises and jobs.                                                      *)

LEMMA SettleStep ==
    ASSUME CacheInv, NEW e \in Calls, NEW outcome \in {"open", "rejected"}, Settle(e, outcome)
    PROVE  CacheInv'
<1> USE DEF CacheInv
<1>1. /\ jobs = <<>> /\ inst[e] = "pending" /\ inst' = [inst EXCEPT ![e] = outcome]
      /\ jobs' = <<Waiting(e)>> /\ UNCHANGED <<cache, conns, entry, pc>>
  BY DEF Settle
<1>2. Queued(jobs) = {} /\ Queued(jobs') = Waiting(e) /\ Disjoint(jobs')
  BY <1>1, QueueEmpty, QueueOne
<1>3. e \in Waiting(e)
  BY <1>1 DEF LinkInv, Waiting
<1>4. /\ \A x \in Calls : x # e => inst'[x] = inst[x]
      /\ inst'[e] = outcome
  BY <1>1 DEF TypeOK
<1>5. \A c \in Waiting(e) : c \in Calls /\ pc[c] = "waiting" /\ entry[c] = e
  BY DEF Waiting
<1>6. TypeOK'
  <2>1. jobs' \in Seq(SUBSET Calls)  BY <1>1, HoldersType
  <2> QED  BY <1>1, <2>1 DEF TypeOK
<1>7. LinkInv'
  <2>1. \A c \in Queued(jobs') : pc'[c] = "waiting" /\ inst'[entry'[c]] # "pending"
    BY <1>1, <1>2, <1>4, <1>5
  <2>2. \A x \in Calls : inst'[x] = "pending" => pc'[x] = "waiting" /\ entry'[x] = x
    BY <1>1, <1>4 DEF LinkInv
  <2>3. \A c \in Calls : pc'[c] \in {"connecting", "open"} =>
           inst'[entry'[c]] \notin {"pending", "rejected"}
    BY <1>1, <1>4 DEF LinkInv
  <2> QED  BY <1>1, <1>2, <2>1, <2>2, <2>3 DEF LinkInv
<1>8. \A x \in Calls : Holders(x)' = Holders(x)
  BY <1>1 DEF Holders
<1>9. CountExact'
  BY <1>1, <1>8 DEF HoldInv, CountExact
<1>10. OpenConnectionsLive'
  BY <1>1, <1>4 DEF HoldInv, OpenConnectionsLive, LinkInv
<1>11. \A x \in Calls : inst'[x] = "open" =>
          Holders(x)' # {} \/ \E c \in Queued(jobs') : entry'[c] = x
  <2> TAKE x \in Calls
  <2>1. CASE x = e  BY <1>1, <1>2, <1>3, <1>5, <2>1
  <2>2. CASE x # e  BY <1>2, <1>4, <1>8, <2>2 DEF HoldInv
  <2> QED  BY <2>1, <2>2
<1>12. \A p \in Paths : cache'[p] # NoEntry =>
          /\ inst'[cache'[p]] # "closed"
          /\ inst'[cache'[p]] = "rejected" => \E c \in Queued(jobs') : entry'[c] = cache'[p]
  <2> SUFFICES ASSUME NEW p \in Paths, cache[p] # NoEntry
               PROVE  /\ inst'[cache[p]] # "closed"
                      /\ inst'[cache[p]] = "rejected" =>
                           \E c \in Queued(jobs') : entry'[c] = cache[p]
    BY <1>1
  <2>0. cache[p] \in Calls  BY DEF TypeOK
  <2>1. CASE cache[p] = e  BY <1>1, <1>2, <1>3, <1>4, <1>5, <2>1
  <2>2. CASE cache[p] # e  BY <1>2, <1>4, <2>0, <2>2 DEF HoldInv
  <2> QED  BY <2>1, <2>2
<1> QED  BY <1>6, <1>7, <1>9, <1>10, <1>11, <1>12 DEF HoldInv

LEMMA RunJobStep == ASSUME CacheInv, RunJob PROVE CacheInv'
<1> USE DEF CacheInv
<1>1. PICK e \in Calls : (\A c \in Head(jobs) : entry[c] = e) /\ Resume(Head(jobs), e)
  BY DEF RunJob
<1> DEFINE C == Head(jobs)
<1>2. /\ jobs # <<>> /\ jobs' = Tail(jobs) /\ inst' = inst /\ entry' = entry
      /\ jobs \in Seq(SUBSET Calls)
  BY DEF RunJob, TypeOK
<1>3. C \in SUBSET Calls  BY <1>2
<1>4. /\ Queued(jobs) = C \cup Queued(jobs') /\ C \cap Queued(jobs') = {} /\ Disjoint(jobs')
  BY <1>2, QueueTail DEF LinkInv
<1>5. \A c \in C : c \in Calls /\ entry[c] = e /\ pc[c] = "waiting" /\ inst[e] # "pending"
  BY <1>1, <1>3, <1>4 DEF LinkInv
<1>6. jobs' \in Seq(SUBSET Calls)  BY <1>2
<1> HIDE DEF C
<1>7. CASE inst[e] = "rejected"
  <2>1. /\ Move(C, "failed") /\ conns' = conns
        /\ cache' = IF e \in Isolated THEN cache ELSE [cache EXCEPT ![PathOf[e]] = NoEntry]
    BY <1>1, <1>7 DEF Resume, C
  <2>2. \A c \in Calls : pc'[c] = IF c \in C THEN "failed" ELSE pc[c]
    BY <2>1 DEF Move
  <2>3. TypeOK'
    BY <1>2, <1>6, <2>1, PathAssumption DEF TypeOK, Move
  <2>4. \A p \in Paths : cache'[p] = NoEntry \/ (cache'[p] = cache[p] /\ cache[p] # e)
    BY <2>1, PathAssumption DEF TypeOK, LinkInv
  <2>5. \A c \in Calls : pc'[c] = "idle" <=> pc[c] = "idle"
    BY <1>5, <2>2
  <2>6. LinkInv'
    <3>1. \A p \in Paths : cache'[p] # NoEntry =>
             pc'[cache'[p]] # "idle" /\ cache'[p] \notin Isolated /\ PathOf[cache'[p]] = p
      BY <2>4, <2>5 DEF LinkInv, TypeOK
    <3>2. \A c \in Queued(jobs') : pc'[c] = "waiting" /\ inst'[entry'[c]] # "pending"
      BY <1>2, <1>4, <2>2, QueuedType DEF LinkInv
    <3>3. \A x \in Calls : inst'[x] = "pending" => pc'[x] = "waiting" /\ entry'[x] = x
      BY <1>2, <1>5, <2>2 DEF LinkInv
    <3>4. \A c \in Calls : pc'[c] \in {"connecting", "open"} =>
             inst'[entry'[c]] \notin {"pending", "rejected"}
      BY <1>2, <2>2 DEF LinkInv
    <3> QED  BY <1>2, <1>4, <2>5, <3>1, <3>2, <3>3, <3>4 DEF LinkInv
  <2>7. \A x \in Calls : Holders(x)' = Holders(x)
    BY <1>2, <1>5, <2>2 DEF Holders
  <2>8. CountExact' /\ OpenConnectionsLive'
    BY <1>2, <2>1, <2>2, <2>7 DEF HoldInv, CountExact, OpenConnectionsLive
  <2>9. \A x : x # e /\ (\E c \in Queued(jobs) : entry[c] = x)
                 => \E c \in Queued(jobs') : entry'[c] = x
    BY <1>2, <1>4, <1>5
  <2>10. \A x \in Calls : inst'[x] = "open" =>
            Holders(x)' # {} \/ \E c \in Queued(jobs') : entry'[c] = x
    BY <1>2, <1>7, <2>7, <2>9 DEF HoldInv
  <2>11. \A p \in Paths : cache'[p] # NoEntry =>
            /\ inst'[cache'[p]] # "closed"
            /\ inst'[cache'[p]] = "rejected" => \E c \in Queued(jobs') : entry'[c] = cache'[p]
    <3> SUFFICES ASSUME NEW p \in Paths, cache'[p] # NoEntry
                 PROVE  /\ inst'[cache'[p]] # "closed"
                        /\ inst'[cache'[p]] = "rejected" =>
                             \E c \in Queued(jobs') : entry'[c] = cache'[p]
      OBVIOUS
    <3>1. cache'[p] = cache[p] /\ cache[p] # e /\ cache[p] # NoEntry  BY <2>4
    <3>2. /\ inst[cache[p]] # "closed"
          /\ inst[cache[p]] = "rejected" => \E c \in Queued(jobs) : entry[c] = cache[p]
      BY <3>1 DEF HoldInv
    <3>3. PICK x : x = cache[p]  OBVIOUS
    <3>4. x # e /\ inst[x] # "closed"
          /\ (inst[x] = "rejected" => \E c \in Queued(jobs) : entry[c] = x)
      BY <3>1, <3>2, <3>3
    <3>5. inst[x] = "rejected" => \E c \in Queued(jobs') : entry'[c] = x
      BY <2>9, <3>4
    <3> QED  BY <1>2, <3>1, <3>3, <3>4, <3>5
  <2> QED  BY <2>3, <2>6, <2>8, <2>10, <2>11 DEF HoldInv
<1>8. CASE inst[e] # "rejected"
  <2>1. /\ Move(C, "connecting") /\ cache' = cache
        /\ conns' = [conns EXCEPT ![e] = @ + Cardinality(C)]
    BY <1>1, <1>8 DEF Resume, C
  <2>2. \A c \in Calls : pc'[c] = IF c \in C THEN "connecting" ELSE pc[c]
    BY <2>1 DEF Move
  <2>3. IsFiniteSet(C) /\ Cardinality(C) \in Nat  BY <1>3, SetsFinite
  <2>4. TypeOK'
    BY <1>2, <1>6, <2>1, <2>3 DEF TypeOK, Move
  <2>5. \A c \in Calls : pc'[c] = "idle" <=> pc[c] = "idle"
    BY <1>5, <2>2
  <2>6. LinkInv'
    <3>1. \A p \in Paths : cache'[p] # NoEntry =>
             pc'[cache'[p]] # "idle" /\ cache'[p] \notin Isolated /\ PathOf[cache'[p]] = p
      BY <2>1, <2>5 DEF LinkInv, TypeOK
    <3>2. \A c \in Queued(jobs') : pc'[c] = "waiting" /\ inst'[entry'[c]] # "pending"
      BY <1>2, <1>4, <2>2, QueuedType DEF LinkInv
    <3>3. \A x \in Calls : inst'[x] = "pending" => pc'[x] = "waiting" /\ entry'[x] = x
      BY <1>2, <1>5, <2>2 DEF LinkInv
    <3>4. \A c \in Calls : pc'[c] \in {"connecting", "open"} =>
             inst'[entry'[c]] \notin {"pending", "rejected"}
      BY <1>2, <1>5, <1>8, <2>2 DEF LinkInv
    <3> QED  BY <1>2, <1>4, <2>5, <3>1, <3>2, <3>3, <3>4 DEF LinkInv
  <2>7. /\ Holders(e)' = Holders(e) \cup C /\ Holders(e) \cap C = {}
        /\ \A x \in Calls : x # e => Holders(x)' = Holders(x)
    BY <1>2, <1>5, <2>2 DEF Holders
  <2>8. CountExact'
    <3>1. IsFiniteSet(Holders(e)) /\ Cardinality(Holders(e)) \in Nat
      BY HoldersType, SetsFinite
    <3>2. Cardinality(Holders(e) \cup C) = Cardinality(Holders(e)) + Cardinality(C)
      <4>1. Cardinality(Holders(e) \cap C) = 0  BY <2>7, FS_EmptySet
      <4>2. Cardinality(Holders(e) \cup C)
              = Cardinality(Holders(e)) + Cardinality(C) - Cardinality(Holders(e) \cap C)
        BY <2>3, <3>1, FS_Union
      <4> QED  BY <2>3, <3>1, <4>1, <4>2
    <3>3. conns'[e] = Cardinality(Holders(e)')
      BY <2>1, <2>7, <3>2 DEF TypeOK, HoldInv, CountExact
    <3>4. \A x \in Calls : x # e => conns'[x] = Cardinality(Holders(x)')
      BY <2>1, <2>7 DEF TypeOK, HoldInv, CountExact
    <3> QED  BY <3>3, <3>4 DEF CountExact
  <2>9. OpenConnectionsLive'
    BY <1>2, <2>2 DEF HoldInv, OpenConnectionsLive
  <2>10. \A x : x # e /\ (\E c \in Queued(jobs) : entry[c] = x)
                  => \E c \in Queued(jobs') : entry'[c] = x
    BY <1>2, <1>4, <1>5
  <2>11. \A x \in Calls : inst'[x] = "open" =>
            Holders(x)' # {} \/ \E c \in Queued(jobs') : entry'[c] = x
    <3> TAKE x \in Calls
    <3>1. CASE x # e  BY <1>2, <2>7, <2>10, <3>1 DEF HoldInv
    <3>2. CASE x = e /\ C # {}  BY <2>7, <3>2
    <3>3. CASE x = e /\ C = {}
      BY <1>2, <1>4, <2>7, <3>3 DEF HoldInv
    <3> QED  BY <3>1, <3>2, <3>3
  <2>12. \A p \in Paths : cache'[p] # NoEntry =>
            /\ inst'[cache'[p]] # "closed"
            /\ inst'[cache'[p]] = "rejected" => \E c \in Queued(jobs') : entry'[c] = cache'[p]
    BY <1>2, <1>8, <2>1, <2>10 DEF HoldInv
  <2> QED  BY <2>4, <2>6, <2>8, <2>9, <2>11, <2>12 DEF HoldInv
<1> QED  BY <1>7, <1>8

-----------------------------------------------------------------------------
(* Connecting and releasing.                                               *)

LEMMA ConnectsStep == ASSUME CacheInv, NEW c \in Calls, Connects(c) PROVE CacheInv'
<1> USE DEF CacheInv
<1>1. /\ pc[c] = "connecting" /\ inst[entry[c]] = "open" /\ pc' = [pc EXCEPT ![c] = "open"]
      /\ UNCHANGED <<cache, inst, conns, entry, jobs>>
  BY DEF Connects
<1>2. /\ \A d \in Calls : d # c => pc'[d] = pc[d]
      /\ pc'[c] = "open"
  BY <1>1 DEF TypeOK
<1>3. TypeOK'  BY <1>1 DEF TypeOK
<1>4. Queued(jobs)' = Queued(jobs) /\ Disjoint(jobs)' = Disjoint(jobs)  BY <1>1
<1>5. \A d \in Queued(jobs) : d \in Calls /\ d # c
  BY <1>1, QueuedType DEF LinkInv
<1>6. LinkInv'
  <2>1. \A d \in Calls : pc'[d] = "idle" <=> pc[d] = "idle"  BY <1>1, <1>2
  <2>2. \A p \in Paths : cache'[p] # NoEntry =>
           pc'[cache'[p]] # "idle" /\ cache'[p] \notin Isolated /\ PathOf[cache'[p]] = p
    BY <1>1, <2>1 DEF LinkInv, TypeOK
  <2>3. \A d \in Queued(jobs') : pc'[d] = "waiting" /\ inst'[entry'[d]] # "pending"
    BY <1>1, <1>2, <1>4, <1>5 DEF LinkInv
  <2>4. \A x \in Calls : inst'[x] = "pending" => pc'[x] = "waiting" /\ entry'[x] = x
    BY <1>1, <1>2 DEF LinkInv
  <2>5. \A d \in Calls : pc'[d] \in {"connecting", "open"} =>
           inst'[entry'[d]] \notin {"pending", "rejected"}
    BY <1>1, <1>2 DEF LinkInv
  <2> QED  BY <1>1, <1>4, <2>1, <2>2, <2>3, <2>4, <2>5 DEF LinkInv
<1>7. \A x \in Calls : Holders(x)' = Holders(x)
  BY <1>1, <1>2 DEF Holders
<1>8. CountExact' /\ OpenConnectionsLive'
  BY <1>1, <1>2, <1>7 DEF HoldInv, CountExact, OpenConnectionsLive
<1> QED  BY <1>1, <1>3, <1>4, <1>6, <1>7, <1>8 DEF HoldInv

\* Whoever releases is a holder: the count reaches zero only with the last one.
LEMMA ReleaseStep ==
    ASSUME CacheInv, NEW c \in Calls, pc[c] \in {"connecting", "open"}, Release(c),
           NEW stage \in {"closed", "failed"}, Goto(c, stage), UNCHANGED <<entry, jobs>>
    PROVE  CacheInv'
<1> USE DEF CacheInv
<1>0. PICK e \in Calls : e = entry[c]
  BY DEF LinkInv
<1>1. /\ e \in Calls /\ e \in Isolated <=> c \in Isolated
      /\ c \notin Isolated => PathOf[e] = PathOf[c]
      /\ inst[e] \notin {"pending", "rejected"} /\ c \in Holders(e)
  BY <1>0 DEF LinkInv, Holders
<1>2. /\ IsFiniteSet(Holders(e)) /\ Cardinality(Holders(e)) \in Nat
      /\ conns[e] = Cardinality(Holders(e))
  <2>1. Holders(e) \in SUBSET Calls  BY HoldersType
  <2> QED  BY <1>1, <2>1, SetsFinite DEF HoldInv, CountExact
<1>3. Cardinality(Holders(e) \ {c}) = Cardinality(Holders(e)) - 1
  BY <1>1, <1>2, FS_RemoveElement
<1>4. /\ Holders(e) \ {c} \in SUBSET Calls
      /\ Cardinality(Holders(e) \ {c}) \in Nat
      /\ Cardinality(Holders(e) \ {c}) = 0 <=> Holders(e) \ {c} = {}
  <2>1. Holders(e) \ {c} \in SUBSET Calls  BY HoldersType
  <2> QED  BY <2>1, SetsFinite, FS_EmptySet
<1>5. /\ conns' = [conns EXCEPT ![e] = @ - 1]
      /\ inst' = IF conns[e] = 1 THEN [inst EXCEPT ![e] = "closed"] ELSE inst
      /\ cache' = IF conns[e] = 1 /\ c \notin Isolated
                  THEN [cache EXCEPT ![PathOf[c]] = NoEntry] ELSE cache
  BY <1>0 DEF Release
<1>6. conns[e] = 1 <=> Holders(e) \ {c} = {}
  BY <1>2, <1>3, <1>4
<1>7. /\ \A d \in Calls : d # c => pc'[d] = pc[d]
      /\ pc'[c] = stage /\ entry' = entry /\ jobs' = jobs
  BY DEF TypeOK
<1>8. \A x \in Calls : Holders(x)' = IF x = e THEN Holders(x) \ {c} ELSE Holders(x)
  BY <1>0, <1>7 DEF Holders
<1>9. \A x \in Calls : inst'[x] = IF x = e /\ conns[e] = 1 THEN "closed" ELSE inst[x]
  BY <1>5 DEF TypeOK
<1>10. \A p \in Paths : cache'[p] \in {cache[p], NoEntry}
  BY <1>5 DEF TypeOK
<1>11. conns[e] = 1 => \A p \in Paths : cache'[p] = NoEntry \/ cache'[p] # e
  BY <1>1, <1>5, PathAssumption DEF TypeOK, LinkInv
<1>12. TypeOK'
  <2>1. conns' \in [Calls -> Nat]
    <3>1. conns[e] - 1 \in Nat  BY <1>2, <1>3, <1>4
    <3> QED  BY <1>5, <3>1 DEF TypeOK
  <2>2. pc' \in [Calls -> {"idle", "waiting", "connecting", "open", "closed", "failed"}]
    BY DEF TypeOK
  <2>3. cache' \in [Paths -> Calls \cup {NoEntry}]
    BY <1>5 DEF TypeOK
  <2>4. inst' \in [Calls -> {"none", "pending", "open", "closed", "rejected"}]
    BY <1>5 DEF TypeOK
  <2> QED  BY <2>1, <2>2, <2>3, <2>4, <1>7 DEF TypeOK
<1>13. \A d \in Queued(jobs) : d \in Calls /\ d # c /\ entry[d] \in Calls
  BY QueuedType DEF LinkInv
<1>14. LinkInv'
  <2>1. \A d \in Calls : pc'[d] = "idle" <=> pc[d] = "idle"  BY <1>7
  <2>2. \A p \in Paths : cache'[p] # NoEntry =>
           pc'[cache'[p]] # "idle" /\ cache'[p] \notin Isolated /\ PathOf[cache'[p]] = p
    BY <1>10, <2>1 DEF LinkInv, TypeOK
  <2>3. \A d \in Queued(jobs') : pc'[d] = "waiting" /\ inst'[entry'[d]] # "pending"
    BY <1>7, <1>9, <1>13 DEF LinkInv
  <2>4. \A x \in Calls : inst'[x] = "pending" => pc'[x] = "waiting" /\ entry'[x] = x
    BY <1>7, <1>9 DEF LinkInv
  <2>5. \A d \in Calls : pc'[d] \in {"connecting", "open"} =>
           inst'[entry'[d]] \notin {"pending", "rejected"}
    BY <1>0, <1>7, <1>9 DEF LinkInv
  <2> QED  BY <1>7, <2>1, <2>2, <2>3, <2>4, <2>5 DEF LinkInv
<1>15. CountExact'
  <2>1. conns'[e] = Cardinality(Holders(e)')
    <3>1. conns'[e] = conns[e] - 1  BY <1>5 DEF TypeOK
    <3>2. Holders(e)' = Holders(e) \ {c}  BY <1>8
    <3> QED  BY <1>2, <1>3, <3>1, <3>2
  <2>2. \A x \in Calls : x # e => conns'[x] = Cardinality(Holders(x)')
    BY <1>5, <1>8 DEF TypeOK, HoldInv, CountExact
  <2> QED  BY <2>1, <2>2 DEF CountExact
<1>16. OpenConnectionsLive'
  <2> SUFFICES ASSUME NEW d \in Calls, pc'[d] = "open" PROVE inst'[entry[d]] = "open"
    BY <1>7 DEF OpenConnectionsLive
  <2>1. d # c /\ pc[d] = "open" /\ inst[entry[d]] = "open" /\ entry[d] \in Calls
    BY <1>7 DEF HoldInv, OpenConnectionsLive, LinkInv
  <2>2. entry[d] = e => d \in Holders(e) \ {c}
    BY <2>1 DEF Holders
  <2> QED  BY <1>6, <1>9, <2>1, <2>2
<1>17. \A x \in Calls : inst'[x] = "open" =>
          Holders(x)' # {} \/ \E d \in Queued(jobs') : entry'[d] = x
  BY <1>6, <1>7, <1>8, <1>9 DEF HoldInv
<1>18. \A p \in Paths : cache'[p] # NoEntry =>
          /\ inst'[cache'[p]] # "closed"
          /\ inst'[cache'[p]] = "rejected" => \E d \in Queued(jobs') : entry'[d] = cache'[p]
  <2> SUFFICES ASSUME NEW p \in Paths, cache'[p] # NoEntry
               PROVE  /\ inst'[cache[p]] # "closed"
                      /\ inst'[cache[p]] = "rejected" =>
                           \E d \in Queued(jobs') : entry'[d] = cache[p]
    BY <1>10
  <2>1. cache[p] # NoEntry /\ cache[p] \in Calls /\ cache'[p] = cache[p]
    BY <1>10 DEF TypeOK
  <2>2. inst'[cache[p]] = inst[cache[p]]
    BY <1>9, <1>11, <2>1
  <2> QED  BY <1>7, <2>1, <2>2 DEF HoldInv
<1> QED  BY <1>12, <1>14, <1>15, <1>16, <1>17, <1>18 DEF HoldInv

-----------------------------------------------------------------------------

LEMMA CacheNext == CacheInv /\ [Next]_vars => CacheInv'
<1> SUFFICES ASSUME CacheInv, [Next]_vars PROVE CacheInv'
  OBVIOUS
<1>1. CASE RunJob  BY <1>1, RunJobStep
<1>2. ASSUME NEW c \in Calls, Acquire(c) PROVE CacheInv'  BY <1>2, AcquireStep
<1>3. ASSUME NEW c \in Calls, Opens(c) \/ Rejects(c) PROVE CacheInv'
  BY <1>3, SettleStep DEF Opens, Rejects
<1>4. ASSUME NEW c \in Calls, Connects(c) PROVE CacheInv'  BY <1>4, ConnectsStep
<1>5. ASSUME NEW c \in Calls, ConnectFails(c) PROVE CacheInv'
  BY <1>5, ReleaseStep DEF ConnectFails
<1>6. ASSUME NEW c \in Calls, Close(c) PROVE CacheInv'
  BY <1>6, ReleaseStep DEF Close
<1>7. CASE UNCHANGED vars
  <2> USE <1>7 DEF vars, CacheInv
  <2>1. TypeOK'  BY DEF TypeOK
  <2>2. Queued(jobs)' = Queued(jobs) /\ Disjoint(jobs)' = Disjoint(jobs)  OBVIOUS
  <2>3. \A e \in Calls : Holders(e)' = Holders(e)  BY DEF Holders
  <2>4. LinkInv'  BY <2>2 DEF LinkInv
  <2>5. CountExact'  BY <2>3 DEF HoldInv, CountExact
  <2>6. OpenConnectionsLive'  BY DEF HoldInv, OpenConnectionsLive
  <2>7. HoldInv'  BY <2>2, <2>3, <2>5, <2>6 DEF HoldInv
  <2> QED  BY <2>1, <2>4, <2>7
<1> QED  BY <1>1, <1>2, <1>3, <1>4, <1>5, <1>6, <1>7 DEF Next

LEMMA CacheInvariant == Spec => []CacheInv
BY CacheInit, CacheNext, PTL DEF Spec

\* Every reachable state is well typed; no reference count becomes negative.
THEOREM TypeCorrect == Spec => []TypeOK
<1>1. CacheInv => TypeOK  BY DEF CacheInv
<1> QED  BY <1>1, CacheInvariant, PTL

\* The reference count of an instance is the number of connections holding it,
\* however opening, failing and closing interleave.
THEOREM CountCorrect == Spec => []CountExact
<1>1. CacheInv => CountExact  BY DEF CacheInv, HoldInv
<1> QED  BY <1>1, CacheInvariant, PTL

\* No instance is closed under an open connection.
THEOREM LiveCorrect == Spec => []OpenConnectionsLive
<1>1. CacheInv => OpenConnectionsLive  BY DEF CacheInv, HoldInv
<1> QED  BY <1>1, CacheInvariant, PTL

\* The last close always reaches the instance: when no job is queued, an open
\* instance has a holder.
THEOREM NoLeakCorrect == Spec => []NoInstanceLeaks
<1>1. CacheInv => NoInstanceLeaks
  <2> SUFFICES ASSUME CacheInv, jobs = <<>>, NEW e \in Calls, inst[e] = "open"
               PROVE  Holders(e) # {}
    BY DEF NoInstanceLeaks
  <2> QED  BY QueueEmpty DEF CacheInv, HoldInv
<1> QED  BY <1>1, CacheInvariant, PTL

\* The cache never offers a closed instance, nor a failed one when no job is
\* queued.
THEOREM UsableCorrect == Spec => []CacheUsable
<1>1. CacheInv => CacheUsable
  BY QueueEmpty DEF CacheInv, HoldInv, CacheUsable
<1> QED  BY <1>1, CacheInvariant, PTL

\* Neither a connection nor the cache refers to an instance that is gone, for
\* any number of calls and paths.
THEOREM NothingStaleCorrect == Spec => []NothingStale
<1>1. OpenConnectionsLive /\ CacheUsable => NothingStale  BY DEF NothingStale
<1> QED  BY <1>1, LiveCorrect, UsableCorrect, PTL
=============================================================================
