------------------------ MODULE RateLimiter_proofs ------------------------
(***************************************************************************)
(* Proofs about RateLimiter, for every set of calls, queries and contexts, *)
(* every limit and every time to live.                                     *)
(***************************************************************************)
EXTENDS RateLimiter, FiniteSetTheorems, TLAPS

USE DEF Stages, Goto

-----------------------------------------------------------------------------
(* Sets of calls.                                                          *)

LEMMA CallsFinite ==
    ASSUME NEW S \in SUBSET Requests
    PROVE  IsFiniteSet(S) /\ Cardinality(S) \in Nat
BY RequestsFinite, FS_Subset, FS_CardinalityType

\* Cardinalities change by one with one call.
LEMMA CountAdd ==
    ASSUME NEW S \in SUBSET Requests, NEW r \in Requests, r \notin S
    PROVE  Cardinality(S \cup {r}) = Cardinality(S) + 1
BY CallsFinite, FS_AddElement

LEMMA CountRemove ==
    ASSUME NEW S \in SUBSET Requests, NEW r \in S
    PROVE  Cardinality(S \ {r}) = Cardinality(S) - 1 /\ Cardinality(S) > 0
<1>1. Cardinality(S \ {r}) = Cardinality(S) - 1
  BY CallsFinite, FS_RemoveElement
<1>2. Cardinality(S \ {r}) \in Nat /\ Cardinality(S) \in Nat
  BY CallsFinite
<1> QED  BY <1>1, <1>2

LEMMA CountMono ==
    ASSUME NEW S \in SUBSET Requests, NEW T \in SUBSET S
    PROVE  Cardinality(T) <= Cardinality(S)
BY CallsFinite, FS_Subset

\* Calls that got past the concurrency limits: the limit hook may still be
\* considering them, so bounding the admitted ones alone is not inductive.
Passed(S) == {r \in S : stage[r] \in {"limiting", "admitted"}}

\* How a step of call r changes the sets the counters stand for.
LEMMA InFlightAfterGoto ==
    ASSUME TypeOK, NEW r \in Requests, NEW s \in Stages, Goto(r, s)
    PROVE  /\ s \in {"idle", "ended"} =>
                /\ \A q \in Queries : OfQuery(q)' = OfQuery(q) \ {r}
                /\ \A k \in Keys : OfKey(k)' = OfKey(k) \ {r}
           /\ s \notin {"idle", "ended"} =>
                /\ \A q \in Queries :
                     OfQuery(q)' = IF QueryOf[r] = q THEN OfQuery(q) \cup {r} ELSE OfQuery(q)
                /\ \A k \in Keys :
                     OfKey(k)' = IF KeyOf(r) = k THEN OfKey(k) \cup {r} ELSE OfKey(k)
BY DEF TypeOK, OfQuery, OfKey, InFlight

LEMMA SetsOfCalls ==
    /\ \A q : OfQuery(q) \in SUBSET Requests
    /\ \A k : OfKey(k) \in SUBSET Requests
BY DEF OfQuery, OfKey, InFlight

LEMMA KeyType == \A r \in Requests : KeyOf(r) \in Keys /\ QueryOf[r] \in Queries
BY KeysAssumption DEF KeyOf, Keys

LEMMA EntryIsNotAbsent == \A m \in ContextMetrics : m # NoEntry
BY DEF ContextMetrics, NoEntry

-----------------------------------------------------------------------------
(* Type correctness.                                                       *)

LEMMA TypeInit == Init => TypeOK
BY DEF Init, TypeOK, Metrics

LEMMA CountInType ==
    ASSUME TypeOK, NEW r \in Requests, CountIn(r)
    PROVE  qm' \in [Queries -> Metrics] /\ cm' \in [Keys -> ContextMetrics \cup {NoEntry}]
<1>1. qm[QueryOf[r]] \in Metrics  BY KeyType DEF TypeOK
<1>2. qm' \in [Queries -> Metrics]
  BY <1>1, KeyType DEF TypeOK, CountIn, Metrics
<1>3. Entry(KeyOf(r)) \in ContextMetrics
  BY KeyType DEF TypeOK, Entry, ContextMetrics
<1>4. cm' \in [Keys -> ContextMetrics \cup {NoEntry}]
  BY <1>3, KeyType DEF TypeOK, CountIn, ContextMetrics
<1> QED  BY <1>2, <1>4

LEMMA CountOutType ==
    ASSUME TypeOK, NEW r \in Requests, CountOut(r)
    PROVE  qm' \in [Queries -> Metrics] /\ cm' \in [Keys -> ContextMetrics \cup {NoEntry}]
<1>1. qm[QueryOf[r]] \in Metrics  BY KeyType DEF TypeOK
<1>2. qm' \in [Queries -> Metrics]
  <2> DEFINE m == [qm[QueryOf[r]] EXCEPT !.inFlight = Down(@)]
  <2>1. Down(qm[QueryOf[r]].inFlight) \in Nat
    BY <1>1 DEF Metrics, Down
  <2>2. m \in Metrics
    BY <1>1, <2>1 DEF Metrics
  <2>3. qm' = [qm EXCEPT ![QueryOf[r]] = m]
    BY DEF CountOut
  <2> HIDE DEF m
  <2> QED  BY <2>2, <2>3, KeyType DEF TypeOK
<1>3. cm[KeyOf(r)] # NoEntry => cm[KeyOf(r)] \in ContextMetrics
  BY KeyType DEF TypeOK
<1>4. cm' \in [Keys -> ContextMetrics \cup {NoEntry}]
  BY <1>3, KeyType DEF TypeOK, CountOut, ContextMetrics, Down
<1> QED  BY <1>2, <1>4

LEMMA TypeNext == TypeOK /\ [Next]_vars => TypeOK'
<1> SUFFICES ASSUME TypeOK, [Next]_vars PROVE TypeOK'  OBVIOUS
<1>1. ASSUME NEW r \in Requests, Open(r) PROVE TypeOK'
  BY <1>1, CountInType DEF TypeOK, Open
<1>2. ASSUME NEW r \in Requests, Check(r) PROVE TypeOK'
  <2>1. Swept \in [Keys -> ContextMetrics \cup {NoEntry}]
    BY DEF TypeOK, Swept
  <2> QED  BY <1>2, <2>1 DEF TypeOK, Check
<1>3. ASSUME NEW r \in Requests, LimitHook(r) PROVE TypeOK'
  BY <1>3 DEF TypeOK, LimitHook
<1>4. ASSUME NEW r \in Requests, End(r) PROVE TypeOK'
  BY <1>4, CountOutType DEF TypeOK, End
<1>5. ASSUME NEW c \in Contexts, ClearContextMetrics(c) PROVE TypeOK'
  BY <1>5 DEF TypeOK, ClearContextMetrics
<1>6. CASE Tick
  BY <1>6 DEF TypeOK, Tick
<1>7. CASE UNCHANGED vars
  BY <1>7 DEF TypeOK, vars
<1> QED  BY <1>1, <1>2, <1>3, <1>4, <1>5, <1>6, <1>7 DEF Next

\* Every reachable state is well typed: the counters stay natural although
\* clearContextMetrics may drop entries whose calls are still to be counted out.
THEOREM TypeCorrect == Spec => []TypeOK
BY TypeInit, TypeNext, PTL DEF Spec

-----------------------------------------------------------------------------
(* The per-query counter and limit.                                        *)

PassedOfQuery(q) == Passed(OfQuery(q))
QueryBound == \A q \in Queries : Cardinality(PassedOfQuery(q)) <= MaxPerQuery
QueryInv == TypeOK /\ QueryCountExact /\ QueryBound

\* Outside of a passing check, no call joins those that passed.
LEMMA PassedShrinks ==
    ASSUME TypeOK, NEW r \in Requests, NEW s \in Stages, Goto(r, s),
           s \in {"limiting", "admitted"} => stage[r] \in {"limiting", "admitted"}
    PROVE  /\ \A q \in Queries : PassedOfQuery(q)' \subseteq PassedOfQuery(q)
           /\ \A k \in Keys : Passed(OfKey(k))' \subseteq Passed(OfKey(k))
BY DEF TypeOK, PassedOfQuery, Passed, OfQuery, OfKey, InFlight

LEMMA QueryBoundKept ==
    ASSUME QueryBound, \A q \in Queries : PassedOfQuery(q)' \subseteq PassedOfQuery(q)
    PROVE  QueryBound'
<1> SUFFICES ASSUME NEW q \in Queries PROVE Cardinality(PassedOfQuery(q)') <= MaxPerQuery
  BY DEF QueryBound
<1>1. PassedOfQuery(q) \in SUBSET Requests
  BY SetsOfCalls DEF PassedOfQuery, Passed
<1>2. Cardinality(PassedOfQuery(q)') <= Cardinality(PassedOfQuery(q))
  BY <1>1, CountMono
<1>3. Cardinality(PassedOfQuery(q)') \in Nat /\ Cardinality(PassedOfQuery(q)) \in Nat
  BY <1>1, CallsFinite
<1> QED  BY <1>2, <1>3, LimitsAssumption DEF QueryBound

LEMMA QueryInit == Init => QueryInv
<1> SUFFICES ASSUME Init PROVE QueryInv  OBVIOUS
<1>1. InFlight = {}  BY DEF Init, InFlight
<1>2. \A q \in Queries : OfQuery(q) = {} /\ PassedOfQuery(q) = {}
  BY <1>1 DEF OfQuery, PassedOfQuery, Passed
<1>3. Cardinality({}) = 0  BY FS_EmptySet
<1>4. QueryCountExact  BY <1>2, <1>3 DEF QueryCountExact, Init
<1>5. QueryBound  BY <1>2, <1>3, LimitsAssumption DEF QueryBound
<1> QED  BY <1>4, <1>5, TypeInit DEF QueryInv

LEMMA QueryNext == QueryInv /\ [Next]_vars => QueryInv'
<1> SUFFICES ASSUME QueryInv, [Next]_vars PROVE QueryInv'  OBVIOUS
<1> USE DEF QueryInv
<1>0. TypeOK'  BY TypeNext
<1>1. ASSUME NEW r \in Requests, Open(r) PROVE QueryInv'
  <2>1. Goto(r, "open") /\ stage[r] = "idle" /\ CountIn(r)  BY <1>1 DEF Open
  <2>2. QueryBound'  BY <2>1, PassedShrinks, QueryBoundKept
  <2>3. ASSUME NEW q \in Queries PROVE qm'[q].inFlight = Cardinality(OfQuery(q)')
    <3>1. CASE q = QueryOf[r]
      <4>1. OfQuery(q)' = OfQuery(q) \cup {r} /\ r \notin OfQuery(q)
        BY <2>1, <3>1, InFlightAfterGoto DEF OfQuery, InFlight
      <4>2. Cardinality(OfQuery(q)') = Cardinality(OfQuery(q)) + 1
        BY <4>1, SetsOfCalls, CountAdd
      <4>3. qm'[q].inFlight = qm[q].inFlight + 1
        BY <2>1, <3>1 DEF CountIn, TypeOK, Metrics
      <4> QED  BY <4>2, <4>3 DEF QueryCountExact
    <3>2. CASE q # QueryOf[r]
      <4>1. OfQuery(q)' = OfQuery(q)  BY <2>1, <3>2, InFlightAfterGoto
      <4>2. qm'[q] = qm[q]  BY <2>1, <3>2 DEF CountIn, TypeOK
      <4> QED  BY <4>1, <4>2 DEF QueryCountExact
    <3> QED  BY <3>1, <3>2
  <2> QED  BY <1>0, <2>2, <2>3 DEF QueryCountExact
<1>2. ASSUME NEW r \in Requests, Check(r) PROVE QueryInv'
  <2>1. PICK s \in {"rejected", "limiting", "admitted"} : Goto(r, s)
    BY <1>2 DEF Check
  <2>2. stage[r] = "open" /\ qm' = qm  BY <1>2 DEF Check
  <2>3. \A q \in Queries : QueryOf[r] = q => r \in OfQuery(q)
    BY <2>2 DEF OfQuery, InFlight
  <2>4. ASSUME NEW q \in Queries PROVE OfQuery(q)' = OfQuery(q)
    <3>1. OfQuery(q)' = IF QueryOf[r] = q THEN OfQuery(q) \cup {r} ELSE OfQuery(q)
      BY <2>1, InFlightAfterGoto
    <3> QED  BY <2>3, <3>1
  <2>5. QueryCountExact'  BY <2>2, <2>4 DEF QueryCountExact
  <2>6. CASE s = "rejected"
    BY <1>0, <2>1, <2>5, <2>6, PassedShrinks, QueryBoundKept
  <2>7. CASE s # "rejected"
    <3>1. ~OverQueryLimit(r)  BY <1>2, <2>1, <2>2, <2>7 DEF Check, TypeOK
    <3>2. qm[QueryOf[r]].inFlight <= MaxPerQuery
      BY <3>1, LimitsAssumption, KeyType DEF OverQueryLimit, TypeOK, Metrics
    <3>3. ASSUME NEW q \in Queries PROVE Cardinality(PassedOfQuery(q)') <= MaxPerQuery
      <4>1. CASE q = QueryOf[r]
        <5>1. PassedOfQuery(q)' \subseteq OfQuery(q)
          BY <2>4 DEF PassedOfQuery, Passed
        <5>2. Cardinality(PassedOfQuery(q)') <= Cardinality(OfQuery(q))
          BY <5>1, SetsOfCalls, CountMono
        <5>3. Cardinality(PassedOfQuery(q)') \in Nat
          BY <5>1, SetsOfCalls, CallsFinite
        <5> QED  BY <3>2, <4>1, <5>2, <5>3, LimitsAssumption DEF QueryCountExact, TypeOK, Metrics
      <4>2. CASE q # QueryOf[r]
        <5>1. PassedOfQuery(q)' = PassedOfQuery(q)
          BY <2>1, <2>4, <4>2 DEF PassedOfQuery, Passed, OfQuery, TypeOK
        <5> QED  BY <5>1 DEF QueryBound
      <4> QED  BY <4>1, <4>2
    <3> QED  BY <1>0, <2>5, <3>3 DEF QueryBound
  <2> QED  BY <2>6, <2>7
<1>3. ASSUME NEW r \in Requests, LimitHook(r) PROVE QueryInv'
  <2>1. PICK s \in {"rejected", "admitted"} : Goto(r, s)
    BY <1>3 DEF LimitHook
  <2>2. stage[r] = "limiting" /\ qm' = qm  BY <1>3 DEF LimitHook
  <2>3. \A q \in Queries : OfQuery(q)' = OfQuery(q)
    BY <2>1, <2>2, InFlightAfterGoto DEF OfQuery, InFlight
  <2>4. QueryBound'  BY <2>1, <2>2, PassedShrinks, QueryBoundKept
  <2> QED  BY <1>0, <2>2, <2>3, <2>4 DEF QueryCountExact
<1>4. ASSUME NEW r \in Requests, End(r) PROVE QueryInv'
  <2>1. /\ Goto(r, "ended") /\ CountOut(r)
        /\ stage[r] \in {"open", "rejected", "admitted"}
    BY <1>4 DEF End
  <2>2. QueryBound'  BY <2>1, PassedShrinks, QueryBoundKept
  <2>3. ASSUME NEW q \in Queries PROVE qm'[q].inFlight = Cardinality(OfQuery(q)')
    <3>1. CASE q = QueryOf[r]
      <4>1. OfQuery(q)' = OfQuery(q) \ {r} /\ r \in OfQuery(q)
        BY <2>1, <3>1, InFlightAfterGoto DEF OfQuery, InFlight
      <4>2. Cardinality(OfQuery(q)') = Cardinality(OfQuery(q)) - 1 /\ Cardinality(OfQuery(q)) > 0
        BY <4>1, SetsOfCalls, CountRemove
      <4>3. qm'[q].inFlight = Down(qm[q].inFlight)
        BY <2>1, <3>1 DEF CountOut, TypeOK, Metrics
      <4> QED  BY <4>2, <4>3 DEF QueryCountExact, Down
    <3>2. CASE q # QueryOf[r]
      <4>1. r \notin OfQuery(q)  BY <3>2 DEF OfQuery
      <4>2. OfQuery(q)' = OfQuery(q) \ {r}  BY <2>1, InFlightAfterGoto
      <4>3. OfQuery(q)' = OfQuery(q)  BY <4>1, <4>2
      <4>4. qm'[q] = qm[q]  BY <2>1, <3>2 DEF CountOut, TypeOK
      <4> QED  BY <4>3, <4>4 DEF QueryCountExact
    <3> QED  BY <3>1, <3>2
  <2> QED  BY <1>0, <2>2, <2>3 DEF QueryCountExact
<1>5. CASE stage' = stage /\ qm' = qm
  BY <1>0, <1>5
     DEF QueryCountExact, QueryBound, PassedOfQuery, Passed, OfQuery, InFlight
<1> QED
  BY <1>1, <1>2, <1>3, <1>4, <1>5 DEF Next, ClearContextMetrics, Tick, vars

LEMMA QueryInvariant == Spec => []QueryInv
BY QueryInit, QueryNext, PTL DEF Spec

\* The per-query counter is the number of calls between init() and end(), even
\* with clearContextMetrics at any time.
THEOREM QueryCountCorrect == Spec => []QueryCountExact
<1>1. QueryInv => QueryCountExact  BY DEF QueryInv
<1> QED  BY <1>1, QueryInvariant, PTL

\* At most maxConcurrent calls of a query are past the plugin at once.
THEOREM QueryLimitCorrect == Spec => []QueryLimitHolds
<1>1. QueryInv => QueryLimitHolds
  <2> SUFFICES ASSUME QueryInv, NEW q \in Queries
               PROVE  Cardinality({r \in Admitted : QueryOf[r] = q}) <= MaxPerQuery
    BY DEF QueryLimitHolds
  <2>1. {r \in Admitted : QueryOf[r] = q} \subseteq PassedOfQuery(q)
    BY DEF Admitted, PassedOfQuery, Passed, OfQuery, InFlight
  <2>2. PassedOfQuery(q) \in SUBSET Requests
    BY SetsOfCalls DEF PassedOfQuery, Passed
  <2>3. Cardinality({r \in Admitted : QueryOf[r] = q}) <= Cardinality(PassedOfQuery(q))
    BY <2>1, <2>2, CountMono
  <2>4. /\ Cardinality({r \in Admitted : QueryOf[r] = q}) \in Nat
        /\ Cardinality(PassedOfQuery(q)) \in Nat
    BY <2>1, <2>2, CallsFinite
  <2> QED  BY <2>3, <2>4, LimitsAssumption DEF QueryInv, QueryBound
<1> QED  BY <1>1, QueryInvariant, PTL

-----------------------------------------------------------------------------
(* The per-context counter and limit, for keys the host does not clear.    *)

\* What an entry counts; a missing one counts nothing.
CountOf(k) == IF cm[k] = NoEntry THEN 0 ELSE cm[k].inFlight

PassedOfKey(k) == Passed(OfKey(k))
ContextBound == \A k \in KeptKeys : Cardinality(PassedOfKey(k)) <= MaxPerContext
ContextInv == TypeOK /\ ContextCountExact /\ ContextBound

LEMMA KeptAreKeys == KeptKeys \subseteq Keys
BY DEF KeptKeys

LEMMA CountOfExact ==
    ContextCountExact <=> \A k \in KeptKeys : CountOf(k) = Cardinality(OfKey(k))
BY DEF ContextCountExact, CountOf

LEMMA ContextBoundKept ==
    ASSUME ContextBound, \A k \in KeptKeys : PassedOfKey(k)' \subseteq PassedOfKey(k)
    PROVE  ContextBound'
<1> SUFFICES ASSUME NEW k \in KeptKeys PROVE Cardinality(PassedOfKey(k)') <= MaxPerContext
  BY DEF ContextBound
<1>1. PassedOfKey(k) \in SUBSET Requests
  BY SetsOfCalls DEF PassedOfKey, Passed
<1>2. Cardinality(PassedOfKey(k)') <= Cardinality(PassedOfKey(k))
  BY <1>1, CountMono
<1>3. Cardinality(PassedOfKey(k)') \in Nat /\ Cardinality(PassedOfKey(k)) \in Nat
  BY <1>1, CallsFinite
<1> QED  BY <1>2, <1>3, LimitsAssumption DEF ContextBound

\* What init(), sweep() and end() do to the counts.
LEMMA CountInContext ==
    ASSUME TypeOK, NEW r \in Requests, CountIn(r)
    PROVE  \A k \in Keys : CountOf(k)' = CountOf(k) + (IF k = KeyOf(r) THEN 1 ELSE 0)
<1> SUFFICES ASSUME NEW k \in Keys
             PROVE  CountOf(k)' = CountOf(k) + (IF k = KeyOf(r) THEN 1 ELSE 0)
  OBVIOUS
<1>1. CASE k = KeyOf(r)
  <2>1. Entry(k) \in ContextMetrics /\ Entry(k).inFlight = CountOf(k)
    BY DEF Entry, CountOf, TypeOK, ContextMetrics
  <2>2. cm'[k] = [inFlight |-> Entry(k).inFlight + 1, totalCalls |-> Entry(k).totalCalls + 1,
                  last |-> now]
    BY <1>1 DEF CountIn, TypeOK
  <2>3. cm'[k] \in ContextMetrics
    BY <2>1, <2>2 DEF ContextMetrics, TypeOK
  <2>4. cm'[k] # NoEntry  BY <2>3, EntryIsNotAbsent
  <2>5. cm'[k].inFlight = Entry(k).inFlight + 1  BY <2>2
  <2> QED  BY <1>1, <2>1, <2>4, <2>5 DEF CountOf
<1>2. CASE k # KeyOf(r)
  <2>1. cm'[k] = cm[k]  BY <1>2 DEF CountIn, TypeOK
  <2>2. CountOf(k)' = CountOf(k) /\ CountOf(k) \in Nat
    BY <2>1 DEF CountOf, TypeOK, ContextMetrics
  <2> QED  BY <1>2, <2>2
<1> QED  BY <1>1, <1>2

LEMMA SweepContext ==
    ASSUME TypeOK, cm' = Swept
    PROVE  \A k \in Keys : CountOf(k)' = CountOf(k)
BY DEF CountOf, Swept, Expired, TypeOK

LEMMA CountOutContext ==
    ASSUME TypeOK, NEW r \in Requests, CountOut(r)
    PROVE  \A k \in Keys : CountOf(k)' = IF k = KeyOf(r) THEN Down(CountOf(k)) ELSE CountOf(k)
<1> SUFFICES ASSUME NEW k \in Keys
             PROVE  CountOf(k)' = IF k = KeyOf(r) THEN Down(CountOf(k)) ELSE CountOf(k)
  OBVIOUS
<1>1. CASE k # KeyOf(r) \/ cm[KeyOf(r)] = NoEntry
  <2>1. cm'[k] = cm[k]  BY <1>1 DEF CountOut, TypeOK
  <2> QED  BY <1>1, <2>1 DEF CountOf, Down
<1>2. CASE k = KeyOf(r) /\ cm[k] # NoEntry
  <2>1. cm[k] \in ContextMetrics  BY <1>2 DEF TypeOK
  <2>2. cm'[k] = [cm[k] EXCEPT !.inFlight = Down(@), !.last = now]
    BY <1>2 DEF CountOut, TypeOK
  <2>3. cm'[k].inFlight = Down(cm[k].inFlight)
    BY <2>1, <2>2 DEF ContextMetrics
  <2>4. Down(cm[k].inFlight) \in Nat /\ now \in Nat
    BY <2>1 DEF ContextMetrics, Down, TypeOK
  <2>5. cm'[k] \in ContextMetrics
    BY <2>1, <2>2, <2>4 DEF ContextMetrics
  <2>6. cm'[k] # NoEntry  BY <2>5, EntryIsNotAbsent
  <2> QED  BY <1>2, <2>3, <2>6 DEF CountOf
<1> QED  BY <1>1, <1>2

LEMMA ContextInit == Init => ContextInv
<1> SUFFICES ASSUME Init PROVE ContextInv  OBVIOUS
<1>1. InFlight = {}  BY DEF Init, InFlight
<1>2. \A k \in Keys : OfKey(k) = {} /\ PassedOfKey(k) = {}
  BY <1>1 DEF OfKey, PassedOfKey, Passed
<1>3. Cardinality({}) = 0  BY FS_EmptySet
<1>4. ContextCountExact  BY <1>2, <1>3, KeptAreKeys DEF ContextCountExact, Init
<1>5. ContextBound  BY <1>2, <1>3, KeptAreKeys, LimitsAssumption DEF ContextBound
<1> QED  BY <1>4, <1>5, TypeInit DEF ContextInv

LEMMA ContextNext ==
    ASSUME ContextInv, [Next]_vars
    PROVE  ContextInv'
<1> USE DEF ContextInv
<1> USE KeptAreKeys
<1>0. TypeOK' /\ \A k \in KeptKeys : CountOf(k) = Cardinality(OfKey(k))
  BY TypeNext, CountOfExact
<1> SUFFICES ContextBound' /\ \A k \in KeptKeys : CountOf(k)' = Cardinality(OfKey(k)')
  BY <1>0 DEF ContextCountExact, CountOf
<1>1. ASSUME NEW r \in Requests, Open(r)
      PROVE  ContextBound' /\ \A k \in KeptKeys : CountOf(k)' = Cardinality(OfKey(k)')
  <2>1. Goto(r, "open") /\ stage[r] = "idle" /\ CountIn(r)  BY <1>1 DEF Open
  <2>2. ContextBound'  BY <2>1, PassedShrinks, ContextBoundKept DEF PassedOfKey
  <2>3. ASSUME NEW k \in KeptKeys PROVE CountOf(k)' = Cardinality(OfKey(k)')
    <3>1. CASE k = KeyOf(r)
      <4>1. OfKey(k)' = OfKey(k) \cup {r}  BY <2>1, <3>1, InFlightAfterGoto
      <4>2. r \notin OfKey(k)  BY <2>1 DEF OfKey, InFlight
      <4>3. Cardinality(OfKey(k)') = Cardinality(OfKey(k)) + 1
        BY <4>1, <4>2, SetsOfCalls, CountAdd
      <4> QED  BY <1>0, <2>1, <3>1, <4>3, CountInContext
    <3>2. CASE k # KeyOf(r)
      <4>1. OfKey(k)' = OfKey(k)  BY <2>1, <3>2, InFlightAfterGoto
      <4>2. Cardinality(OfKey(k)) \in Nat  BY SetsOfCalls, CallsFinite
      <4>3. CountOf(k)' = CountOf(k) + 0  BY <2>1, <3>2, CountInContext
      <4> QED  BY <1>0, <4>1, <4>2, <4>3
    <3> QED  BY <3>1, <3>2
  <2> QED  BY <2>2, <2>3
<1>2. ASSUME NEW r \in Requests, Check(r)
      PROVE  ContextBound' /\ \A k \in KeptKeys : CountOf(k)' = Cardinality(OfKey(k)')
  <2>1. PICK s \in {"rejected", "limiting", "admitted"} : Goto(r, s)
    BY <1>2 DEF Check
  <2>2. stage[r] = "open" /\ cm' = Swept  BY <1>2 DEF Check
  <2>3. \A k \in Keys : KeyOf(r) = k => r \in OfKey(k)
    BY <2>2 DEF OfKey, InFlight
  <2>4. ASSUME NEW k \in KeptKeys PROVE OfKey(k)' = OfKey(k)
    <3>1. OfKey(k)' = IF KeyOf(r) = k THEN OfKey(k) \cup {r} ELSE OfKey(k)
      BY <2>1, InFlightAfterGoto
    <3> QED  BY <2>3, <3>1
  <2>5. \A k \in KeptKeys : CountOf(k)' = Cardinality(OfKey(k)')
    BY <1>0, <2>2, <2>4, SweepContext, KeptAreKeys
  <2>6. CASE s = "rejected"
    BY <2>1, <2>5, <2>6, PassedShrinks, ContextBoundKept DEF PassedOfKey
  <2>7. CASE s # "rejected"
    <3>1. ~OverContextLimit(r)  BY <1>2, <2>1, <2>2, <2>7 DEF Check, TypeOK
    <3>2. CountOf(KeyOf(r))' <= MaxPerContext
      <4>1. cm'[KeyOf(r)] = Swept[KeyOf(r)]  BY <2>2
      <4>2. cm'[KeyOf(r)] \in ContextMetrics \cup {NoEntry}
        BY <1>0, KeyType DEF TypeOK
      <4> QED
        BY <3>1, <4>1, <4>2, LimitsAssumption DEF OverContextLimit, CountOf, ContextMetrics
    <3>3. ASSUME NEW k \in KeptKeys PROVE Cardinality(PassedOfKey(k)') <= MaxPerContext
      <4>1. CASE k = KeyOf(r)
        <5>1. PassedOfKey(k)' \subseteq OfKey(k)
          BY <2>4 DEF PassedOfKey, Passed
        <5>2. Cardinality(PassedOfKey(k)') <= Cardinality(OfKey(k))
          BY <5>1, SetsOfCalls, CountMono
        <5>3. Cardinality(PassedOfKey(k)') \in Nat /\ Cardinality(OfKey(k)) \in Nat
          BY <5>1, SetsOfCalls, CallsFinite
        <5>4. Cardinality(OfKey(k)) <= MaxPerContext
          BY <2>4, <2>5, <3>2, <4>1
        <5> QED  BY <5>2, <5>3, <5>4, LimitsAssumption
      <4>2. CASE k # KeyOf(r)
        <5>1. PassedOfKey(k)' = PassedOfKey(k)
          BY <2>1, <2>4, <4>2 DEF PassedOfKey, Passed, OfKey, TypeOK
        <5> QED  BY <5>1 DEF ContextBound
      <4> QED  BY <4>1, <4>2
    <3> QED  BY <2>5, <3>3 DEF ContextBound
  <2> QED  BY <2>6, <2>7
<1>3. ASSUME NEW r \in Requests, LimitHook(r)
      PROVE  ContextBound' /\ \A k \in KeptKeys : CountOf(k)' = Cardinality(OfKey(k)')
  <2>1. PICK s \in {"rejected", "admitted"} : Goto(r, s)
    BY <1>3 DEF LimitHook
  <2>2. stage[r] = "limiting" /\ cm' = cm  BY <1>3 DEF LimitHook
  <2>3. \A k \in Keys : OfKey(k)' = OfKey(k)
    BY <2>1, <2>2, InFlightAfterGoto DEF OfKey, InFlight
  <2>4. ContextBound'
    BY <2>1, <2>2, PassedShrinks, ContextBoundKept DEF PassedOfKey
  <2> QED  BY <1>0, <2>2, <2>3, <2>4 DEF CountOf
<1>4. ASSUME NEW r \in Requests, End(r)
      PROVE  ContextBound' /\ \A k \in KeptKeys : CountOf(k)' = Cardinality(OfKey(k)')
  <2>1. /\ Goto(r, "ended") /\ CountOut(r)
        /\ stage[r] \in {"open", "rejected", "admitted"}
    BY <1>4 DEF End
  <2>2. ContextBound'  BY <2>1, PassedShrinks, ContextBoundKept DEF PassedOfKey
  <2>3. ASSUME NEW k \in KeptKeys PROVE CountOf(k)' = Cardinality(OfKey(k)')
    <3>0. OfKey(k)' = OfKey(k) \ {r}  BY <2>1, InFlightAfterGoto
    <3>1. CASE k = KeyOf(r)
      <4>1. r \in OfKey(k)  BY <2>1, <3>1 DEF OfKey, InFlight
      <4>2. Cardinality(OfKey(k)') = Cardinality(OfKey(k)) - 1 /\ Cardinality(OfKey(k)) > 0
        BY <3>0, <4>1, SetsOfCalls, CountRemove
      <4>3. CountOf(k)' = Down(CountOf(k))  BY <2>1, <3>1, CountOutContext
      <4> QED  BY <1>0, <4>2, <4>3 DEF Down
    <3>2. CASE k # KeyOf(r)
      <4>1. r \notin OfKey(k)  BY <3>2 DEF OfKey
      <4>2. OfKey(k)' = OfKey(k)  BY <3>0, <4>1
      <4>3. CountOf(k)' = CountOf(k)  BY <2>1, <3>2, CountOutContext
      <4> QED  BY <1>0, <4>2, <4>3
    <3> QED  BY <3>1, <3>2
  <2> QED  BY <2>2, <2>3
<1>5. ASSUME stage' = stage, cm' = cm
      PROVE  ContextBound' /\ \A k \in KeptKeys : CountOf(k)' = Cardinality(OfKey(k)')
  BY <1>0, <1>5 DEF CountOf, ContextBound, PassedOfKey, Passed, OfKey, InFlight
<1>6. ASSUME NEW c \in Contexts, ClearContextMetrics(c)
      PROVE  ContextBound' /\ \A k \in KeptKeys : CountOf(k)' = Cardinality(OfKey(k)')
  <2>1. stage' = stage /\ \A k \in KeptKeys : cm'[k] = cm[k]
    BY <1>6 DEF ClearContextMetrics, KeptKeys
  <2> QED
    BY <1>0, <2>1 DEF CountOf, ContextBound, PassedOfKey, Passed, OfKey, InFlight
<1> QED
  BY <1>1, <1>2, <1>3, <1>4, <1>5, <1>6 DEF Next, Tick, vars

LEMMA ContextInvariant == Spec => []ContextInv
<1>1. ContextInv /\ [Next]_vars => ContextInv'  BY ContextNext
<1> QED  BY <1>1, ContextInit, PTL DEF Spec

\* The per-context counters of users that are not cleared are exact: eviction by
\* time to live never forgets a call in flight, nor does clearing the others.
THEOREM ContextCountCorrect == Spec => []ContextCountExact
<1>1. ContextInv => ContextCountExact  BY DEF ContextInv
<1> QED  BY <1>1, ContextInvariant, PTL

\* At most maxConcurrentPerContext calls of a query and a context are past the
\* plugin at once, unless the context's metrics are cleared.
THEOREM ContextLimitCorrect == Spec => []ContextLimitHolds
<1>1. ContextInv => ContextLimitHolds
  <2> SUFFICES ASSUME ContextInv, NEW k \in KeptKeys
               PROVE  Cardinality({r \in Admitted : KeyOf(r) = k}) <= MaxPerContext
    BY DEF ContextLimitHolds
  <2>1. {r \in Admitted : KeyOf(r) = k} \subseteq PassedOfKey(k)
    BY DEF Admitted, PassedOfKey, Passed, OfKey, InFlight
  <2>2. PassedOfKey(k) \in SUBSET Requests
    BY SetsOfCalls DEF PassedOfKey, Passed
  <2>3. Cardinality({r \in Admitted : KeyOf(r) = k}) <= Cardinality(PassedOfKey(k))
    BY <2>1, <2>2, CountMono
  <2>4. /\ Cardinality({r \in Admitted : KeyOf(r) = k}) \in Nat
        /\ Cardinality(PassedOfKey(k)) \in Nat
    BY <2>1, <2>2, CallsFinite
  <2> QED  BY <2>3, <2>4, LimitsAssumption DEF ContextInv, ContextBound
<1> QED  BY <1>1, ContextInvariant, PTL

\* Neither limit is ever exceeded, for every number of calls, queries and users.
THEOREM LimitsCorrect == Spec => []LimitsHold
<1>1. QueryLimitHolds /\ ContextLimitHolds => LimitsHold  BY DEF LimitsHold
<1> QED  BY <1>1, QueryLimitCorrect, ContextLimitCorrect, PTL
=============================================================================
