----------------------- MODULE QueryPipeline_proofs -----------------------
(***************************************************************************)
(* Proofs about QueryPipeline, for every set of requests, plugins, hooks   *)
(* and subscriptions, every limit and every behaviour of the host, and     *)
(* about LimitedPipeline, for every host that configures it at rest.       *)
(***************************************************************************)
EXTENDS LimitedPipeline, FiniteSetTheorems, WellFoundedInduction, TLAPS

-----------------------------------------------------------------------------
(* Operators on sequences.                                                 *)

\* A nonempty set of naturals has a least element, which is what Min returns.
LEMMA MinNat ==
    ASSUME NEW S \in SUBSET Nat, S # {}
    PROVE  Min(S) \in S
<1> DEFINE R == {ss \in Nat \X Nat : ss[1] < ss[2]}
<1>1. IsWellFoundedOn(R, Nat)
  BY NatLessThanWellFounded DEF OpToRel
<1>2. PICK x \in S : \A y \in S : ~(<<y, x>> \in R)
  BY <1>1, WFMin
<1>3. ASSUME NEW y \in S PROVE x =< y
  <2>1. y \in Nat /\ x \in Nat  OBVIOUS
  <2>2. y < x => <<y, x>> \in R  BY <2>1
  <2> QED  BY <1>2, <2>1, <2>2
<1> QED  BY <1>3 DEF Min

\* Removing the first occurrence of an element (splice at indexOf) leaves a
\* sequence over the same set.
LEMMA RemoveFirstType ==
    ASSUME NEW S, NEW seq \in Seq(S), NEW e
    PROVE  RemoveFirst(seq, e) \in Seq(S)
<1>1. CASE \E i \in 1 .. Len(seq) : seq[i] = e
  <2> DEFINE I == {i \in 1 .. Len(seq) : seq[i] = e}
             k == Min(I)
  <2>1. I # {} /\ I \in SUBSET Nat  BY <1>1
  <2>2. k \in I  BY <2>1, MinNat
  <2>3. SelectInSeq(seq, LAMBDA v : v = e) = k
    BY <2>1 DEF SelectInSeq
  <2> HIDE DEF k
  <2>4. k \in 1 .. Len(seq)  BY <2>2
  <2>5. RemoveFirst(seq, e) = SubSeq(seq, 1, k - 1) \o SubSeq(seq, k + 1, Len(seq))
    BY <1>1, <2>3 DEF RemoveFirst, RemoveAt
  <2>6. SubSeq(seq, 1, k - 1) \in Seq(S) /\ SubSeq(seq, k + 1, Len(seq)) \in Seq(S)
    BY <2>4
  <2> QED  BY <2>5, <2>6
<1>2. CASE ~\E i \in 1 .. Len(seq) : seq[i] = e
  BY <1>2 DEF RemoveFirst
<1> QED  BY <1>1, <1>2

InSeq(x, seq) == \E i \in 1 .. Len(seq) : seq[i] = x

\* It takes away no other element.
LEMMA RemoveFirstKeeps ==
    ASSUME NEW S, NEW seq \in Seq(S), NEW e, NEW x, x # e, InSeq(x, seq)
    PROVE  InSeq(x, RemoveFirst(seq, e))
<1>0. PICK i \in 1 .. Len(seq) : seq[i] = x  BY DEF InSeq
<1>1. CASE \E n \in 1 .. Len(seq) : seq[n] = e
  <2> DEFINE I == {n \in 1 .. Len(seq) : seq[n] = e}
             k == Min(I)
  <2>1. I # {} /\ I \in SUBSET Nat  BY <1>1
  <2>2. k \in I  BY <2>1, MinNat
  <2>3. SelectInSeq(seq, LAMBDA v : v = e) = k
    BY <2>1 DEF SelectInSeq
  <2> HIDE DEF k
  <2>4. k \in 1 .. Len(seq) /\ seq[k] = e /\ i # k  BY <1>0, <2>2
  <2> DEFINE left == SubSeq(seq, 1, k - 1)
             right == SubSeq(seq, k + 1, Len(seq))
  <2>5. RemoveFirst(seq, e) = left \o right
    BY <1>1, <2>3 DEF RemoveFirst, RemoveAt
  <2>6. /\ left \in Seq(S) /\ Len(left) = k - 1
        /\ \A n \in 1 .. k - 1 : left[n] = seq[n]
    BY <2>4
  <2>7. /\ right \in Seq(S) /\ Len(right) = Len(seq) - k
        /\ \A n \in 1 .. Len(seq) - k : right[n] = seq[n + k]
    BY <2>4
  <2> HIDE DEF left, right
  <2>8. CASE i < k
    <3>1. i \in 1 .. Len(left \o right) /\ (left \o right)[i] = x
      BY <1>0, <2>4, <2>6, <2>7, <2>8
    <3> QED  BY <2>5, <3>1 DEF InSeq
  <2>9. CASE i > k
    <3>1. i - 1 \in 1 .. Len(left \o right) /\ i - k \in 1 .. Len(seq) - k
      BY <2>4, <2>6, <2>7, <2>9
    <3>2. (left \o right)[i - 1] = right[i - k]
      BY <2>4, <2>6, <2>7, <2>9, <3>1
    <3>3. right[i - k] = seq[i - k + k]  BY <2>7, <3>1
    <3>4. i - k + k = i
      <4>1. i \in Int /\ k \in Int  BY <2>4
      <4> QED  BY <4>1
    <3>5. right[i - k] = x  BY <1>0, <3>3, <3>4
    <3> QED  BY <2>5, <3>1, <3>2, <3>5 DEF InSeq
  <2> QED  BY <2>4, <2>8, <2>9
<1>2. CASE ~\E n \in 1 .. Len(seq) : seq[n] = e
  BY <1>2 DEF RemoveFirst
<1> QED  BY <1>1, <1>2

-----------------------------------------------------------------------------
(* Type correctness.                                                       *)

USE DEF Stages, Goto

\* Advance, the step of both loops, is type correct for either of them.
LEMMA AdvanceAuthorizeType ==
    ASSUME TypeOK, NEW r \in Requests,
           Advance(r, authorizeHooks, asked, "authorizing", "authorized")
    PROVE  /\ pc' \in [Requests -> Stages]
           /\ cursor' \in [Requests -> Nat]
           /\ asked' \in [Requests -> SUBSET Hooks]
<1>1. pc' \in [Requests -> Stages]
  BY DEF TypeOK, Advance
<1>2. cursor' \in [Requests -> Nat]
  <2>1. cursor \in [Requests -> Nat]  BY DEF TypeOK
  <2>2. \E n \in {0, cursor[r] + 1} : cursor' = [cursor EXCEPT ![r] = n]
    BY DEF Advance
  <2> QED  BY <2>1, <2>2
<1>3. asked' \in [Requests -> SUBSET Hooks]
  <2>1. CASE cursor[r] + 1 <= Len(authorizeHooks)
    <3>1. authorizeHooks[cursor[r] + 1] \in Hooks
      BY <2>1, PluginAssumption DEF TypeOK
    <3>2. asked' = [asked EXCEPT ![r] = @ \cup {authorizeHooks[cursor[r] + 1]}]
      BY <2>1 DEF Advance
    <3> QED  BY <3>1, <3>2 DEF TypeOK
  <2>2. CASE ~(cursor[r] + 1 <= Len(authorizeHooks))
    BY <2>2 DEF TypeOK, Advance
  <2> QED  BY <2>1, <2>2
<1> QED  BY <1>1, <1>2, <1>3

LEMMA AdvanceCheckType ==
    ASSUME TypeOK, NEW r \in Requests,
           Advance(r, checkPlugins, checked, "checking", "admitted")
    PROVE  /\ pc' \in [Requests -> Stages]
           /\ cursor' \in [Requests -> Nat]
           /\ checked' \in [Requests -> SUBSET Plugins]
<1>1. pc' \in [Requests -> Stages]
  BY DEF TypeOK, Advance
<1>2. cursor' \in [Requests -> Nat]
  <2>1. cursor \in [Requests -> Nat]  BY DEF TypeOK
  <2>2. \E n \in {0, cursor[r] + 1} : cursor' = [cursor EXCEPT ![r] = n]
    BY DEF Advance
  <2> QED  BY <2>1, <2>2
<1>3. checked' \in [Requests -> SUBSET Plugins]
  <2>1. CASE cursor[r] + 1 <= Len(checkPlugins)
    <3>1. checkPlugins[cursor[r] + 1] \in Plugins
      BY <2>1, PluginAssumption DEF TypeOK
    <3>2. checked' = [checked EXCEPT ![r] = @ \cup {checkPlugins[cursor[r] + 1]}]
      BY <2>1 DEF Advance
    <3> QED  BY <3>1, <3>2 DEF TypeOK
  <2>2. CASE ~(cursor[r] + 1 <= Len(checkPlugins))
    BY <2>2 DEF TypeOK, Advance
  <2> QED  BY <2>1, <2>2
<1> QED  BY <1>1, <1>2, <1>3

\* The hooks a call owes an answer are hooks.
LEMMA HooksOwed == TypeOK => ToSet(authorizeHooks) \in SUBSET Hooks
BY DEF TypeOK, ToSet

LEMMA SuspendedType == Suspended \in SUBSET Requests
BY DEF Suspended

\* The host's operations keep the configuration well typed.
LEMMA ConfigureType ==
    ASSUME TypeOK, Configure
    PROVE  TypeOK'
<1>1. ASSUME NEW s \in Subs, Use(s) PROVE TypeOK'
  BY <1>1, PluginAssumption DEF TypeOK, Use, progress
<1>2. ASSUME NEW s \in Subs, Unsubscribe(s) PROVE TypeOK'
  <2>1. checkPlugins' \in Seq(HasCheck)
    BY <1>2, RemoveFirstType DEF TypeOK, Unsubscribe
  <2>2. disturbed' \in SUBSET Requests
    BY <1>2, SuspendedType DEF TypeOK, Unsubscribe
  <2> QED  BY <1>2, <2>1, <2>2 DEF TypeOK, Unsubscribe, progress
<1>3. ASSUME NEW h \in Hooks, RegisterAuthorization(h) PROVE TypeOK'
  BY <1>3 DEF TypeOK, RegisterAuthorization, progress
<1>4. CASE Clear
  <2>1. disturbed' \in SUBSET Requests
    BY <1>4, SuspendedType DEF TypeOK, Clear
  <2> QED  BY <1>4, <2>1 DEF TypeOK, Clear, progress
<1> QED  BY <1>1, <1>2, <1>3, <1>4 DEF Configure

-----------------------------------------------------------------------------
(* The slots of maxConcurrent.                                             *)

LEMMA RunningFinite ==
    IsFiniteSet(Running) /\ Cardinality(Running) \in Nat
BY RequestsFinite, FS_Subset, FS_CardinalityType DEF Running

\* A request that enters or leaves "running" changes Running by itself only.
LEMMA RunningAfterGoto ==
    ASSUME TypeOK, NEW r \in Requests, NEW stage \in Stages, Goto(r, stage)
    PROVE  Running' = IF stage = "running" THEN Running \cup {r} ELSE Running \ {r}
BY DEF TypeOK, Running

\* Steps that neither start nor finish a query keep the count and the bound.
LEMMA IdleStep ==
    ASSUME TypeOK, SlotsExact, ConcurrencyBounded, inFlight' = inFlight,
           NEW r \in Requests, pc[r] # "running",
           NEW stage \in Stages \ {"running"}, Goto(r, stage)
    PROVE  SlotsExact' /\ ConcurrencyBounded'
<1>1. Running' = Running
  BY RunningAfterGoto DEF Running
<1> QED  BY <1>1 DEF SlotsExact, ConcurrencyBounded

\* Starting a query below the limit takes one slot.
LEMMA StartStep ==
    ASSUME TypeOK, SlotsExact, inFlight < MaxConcurrent, inFlight' = inFlight + 1,
           NEW r \in Requests, pc[r] # "running", Goto(r, "running")
    PROVE  SlotsExact' /\ ConcurrencyBounded'
<1>1. Running' = Running \cup {r} /\ r \notin Running
  BY RunningAfterGoto DEF Running
<1>2. Cardinality(Running') = Cardinality(Running) + 1
  BY <1>1, RunningFinite, FS_AddElement
<1>3. inFlight' = Cardinality(Running') /\ inFlight' <= MaxConcurrent
  BY <1>2, LimitAssumption DEF TypeOK, SlotsExact
<1> QED  BY <1>3 DEF SlotsExact, ConcurrencyBounded

\* The finally block of an attempt frees exactly the slot it held.
LEMMA FinishStep ==
    ASSUME TypeOK, SlotsExact, ConcurrencyBounded, inFlight' = inFlight - 1,
           NEW r \in Requests, pc[r] = "running",
           NEW stage \in Stages \ {"running"}, Goto(r, stage)
    PROVE  SlotsExact' /\ ConcurrencyBounded' /\ inFlight' \in Nat
<1>1. Running' = Running \ {r} /\ r \in Running
  BY RunningAfterGoto DEF Running
<1>2. Cardinality(Running') = Cardinality(Running) - 1 /\ Cardinality(Running') \in Nat
  BY <1>1, RunningFinite, FS_RemoveElement, FS_CardinalityType
<1>3. inFlight' = Cardinality(Running') /\ inFlight' <= MaxConcurrent
  BY <1>2, LimitAssumption DEF TypeOK, SlotsExact, ConcurrencyBounded
<1> QED  BY <1>2, <1>3 DEF SlotsExact, ConcurrencyBounded

\* The inductive invariant: the counter is a natural number only because every
\* release finds its own slot counted, so the type needs SlotsExact.
SlotInv == TypeOK /\ SlotsExact /\ ConcurrencyBounded

LEMMA SlotInit == Init => SlotInv
<1> SUFFICES ASSUME Init PROVE SlotInv  OBVIOUS
<1>1. /\ sub \in [Subs -> {"unused", "on", "off"}]
      /\ pc \in [Requests -> Stages]
      /\ cursor \in [Requests -> Nat]
      /\ attempt \in [Requests -> Nat]
  BY DEF Init
<1>2. /\ asked \in [Requests -> SUBSET Hooks]
      /\ checked \in [Requests -> SUBSET Plugins]
      /\ owed \in [Requests -> SUBSET Hooks]
      /\ initBy \in [Requests -> SUBSET Subs]
      /\ endBy \in [Requests -> SUBSET Subs]
  BY DEF Init
<1>3. checkPlugins \in Seq(HasCheck) /\ authorizeHooks \in Seq(Hooks)
  BY DEF Init
<1>4. cleared \in BOOLEAN /\ inFlight \in Nat /\ disturbed \in SUBSET Requests
  BY DEF Init
<1>5. TypeOK  BY <1>1, <1>2, <1>3, <1>4 DEF TypeOK
<1>6. Running = {}  BY DEF Init, Running
<1>7. Cardinality(Running) = 0  BY <1>6, FS_EmptySet
<1> QED  BY <1>5, <1>7, LimitAssumption DEF SlotInv, SlotsExact, ConcurrencyBounded, Init

LEMMA SlotNext == SlotInv /\ [Next]_vars => SlotInv'
<1> SUFFICES ASSUME SlotInv, [Next]_vars PROVE SlotInv'  OBVIOUS
<1> USE DEF SlotInv
<1>1. CASE Configure
  <2>1. TypeOK'  BY <1>1, ConfigureType
  <2>2. inFlight' = inFlight /\ pc' = pc
    BY <1>1 DEF Configure, Use, Unsubscribe, RegisterAuthorization, Clear, progress
  <2> QED  BY <2>1, <2>2 DEF SlotsExact, ConcurrencyBounded, Running
<1>2. ASSUME NEW r \in Requests, Execute(r) PROVE SlotInv'
  <2>1. CASE r \notin Tagged
    <3>1. TypeOK'  BY <1>2, <2>1, HooksOwed DEF TypeOK, Execute, config, Attached
    <3> QED  BY <1>2, <2>1, <3>1, IdleStep DEF Execute
  <2>2. CASE r \in Tagged /\ authorizeHooks = <<>>
    <3>1. TypeOK'  BY <1>2, <2>2, HooksOwed DEF TypeOK, Execute, config, Attached
    <3> QED  BY <1>2, <2>2, <3>1, IdleStep DEF Execute
  <2>3. CASE r \in Tagged /\ authorizeHooks # <<>>
    <3>1. Advance(r, authorizeHooks, asked, "authorizing", "authorized")
      BY <1>2, <2>3 DEF Execute
    <3>2. TypeOK'
      BY <1>2, <3>1, HooksOwed, AdvanceAuthorizeType DEF TypeOK, Execute, config, Attached
    <3>3. Goto(r, "authorizing") \/ Goto(r, "authorized")  BY <3>1 DEF Advance
    <3> QED  BY <1>2, <3>2, <3>3, IdleStep DEF Execute
  <2> QED  BY <2>1, <2>2, <2>3
<1>3. ASSUME NEW r \in Requests, ExecuteCleared(r) PROVE SlotInv'
  <2>1. TypeOK'  BY <1>3 DEF TypeOK, ExecuteCleared, config
  <2> QED  BY <1>3, <2>1, IdleStep DEF ExecuteCleared
<1>4. ASSUME NEW r \in Requests, HookAllows(r) PROVE SlotInv'
  <2>1. Advance(r, authorizeHooks, asked, "authorizing", "authorized")
    BY <1>4 DEF HookAllows
  <2>2. TypeOK'  BY <1>4, <2>1, AdvanceAuthorizeType DEF TypeOK, HookAllows, config
  <2>3. Goto(r, "authorizing") \/ Goto(r, "authorized")  BY <2>1 DEF Advance
  <2> QED  BY <1>4, <2>2, <2>3, IdleStep DEF HookAllows
<1>5. ASSUME NEW r \in Requests, HookDenies(r) PROVE SlotInv'
  <2>1. TypeOK'  BY <1>5 DEF TypeOK, HookDenies, config
  <2> QED  BY <1>5, <2>1, IdleStep DEF HookDenies
<1>6. ASSUME NEW r \in Requests, EnterChecks(r) PROVE SlotInv'
  <2>1. CASE cleared
    <3>1. TypeOK'  BY <1>6, <2>1 DEF TypeOK, EnterChecks, config
    <3> QED  BY <1>6, <2>1, <3>1, IdleStep DEF EnterChecks
  <2>2. CASE ~cleared
    <3>1. Advance(r, checkPlugins, checked, "checking", "admitted")
      BY <1>6, <2>2 DEF EnterChecks
    <3>2. TypeOK'  BY <1>6, <3>1, AdvanceCheckType DEF TypeOK, EnterChecks, config
    <3>3. Goto(r, "checking") \/ Goto(r, "admitted")  BY <3>1 DEF Advance
    <3> QED  BY <1>6, <3>2, <3>3, IdleStep DEF EnterChecks
  <2> QED  BY <2>1, <2>2
<1>7. ASSUME NEW r \in Requests, CheckPasses(r) PROVE SlotInv'
  <2>1. Advance(r, checkPlugins, checked, "checking", "admitted")
    BY <1>7 DEF CheckPasses
  <2>2. TypeOK'  BY <1>7, <2>1, AdvanceCheckType DEF TypeOK, CheckPasses, config
  <2>3. Goto(r, "checking") \/ Goto(r, "admitted")  BY <2>1 DEF Advance
  <2> QED  BY <1>7, <2>2, <2>3, IdleStep DEF CheckPasses
<1>8. ASSUME NEW r \in Requests, CheckRejects(r) PROVE SlotInv'
  <2>1. TypeOK'  BY <1>8 DEF TypeOK, CheckRejects, config
  <2> QED  BY <1>8, <2>1, IdleStep DEF CheckRejects
<1>9. ASSUME NEW r \in Requests, Attempt(r) PROVE SlotInv'
  <2>1. attempt' \in [Requests -> Nat]  BY <1>9 DEF TypeOK, Attempt
  <2>2. UNCHANGED <<sub, checkPlugins, authorizeHooks, cleared, disturbed, cursor, asked,
                    checked, owed, initBy, endBy>>
    BY <1>9 DEF Attempt, config
  <2>3. CASE Refused
    <3>1. inFlight' = inFlight /\ (Goto(r, "backoff") \/ Goto(r, "failed"))
      BY <1>9, <2>3 DEF Attempt, AttemptFails
    <3>2. TypeOK'  BY <2>1, <2>2, <3>1 DEF TypeOK
    <3> QED  BY <1>9, <3>1, <3>2, IdleStep DEF Attempt
  <2>4. CASE ~Refused
    <3>1. inFlight' = inFlight + 1 /\ Goto(r, "running")
      BY <1>9, <2>4 DEF Attempt
    <3>2. TypeOK'  BY <2>1, <2>2, <3>1 DEF TypeOK
    <3>3. inFlight < MaxConcurrent  BY <2>4, LimitAssumption DEF Refused, TypeOK
    <3> QED  BY <1>9, <3>1, <3>2, <3>3, StartStep DEF Attempt
  <2> QED  BY <2>3, <2>4
<1>10. ASSUME NEW r \in Requests, QueryResolves(r) PROVE SlotInv'
  <2>1. SlotsExact' /\ ConcurrencyBounded' /\ inFlight' \in Nat
    BY <1>10, FinishStep DEF QueryResolves
  <2>2. TypeOK'  BY <1>10, <2>1 DEF TypeOK, QueryResolves, config
  <2> QED  BY <2>1, <2>2
<1>11. ASSUME NEW r \in Requests, QueryRejects(r) PROVE SlotInv'
  <2>1. Goto(r, "backoff") \/ Goto(r, "failed")
    BY <1>11 DEF QueryRejects, AttemptFails
  <2>2. SlotsExact' /\ ConcurrencyBounded' /\ inFlight' \in Nat
    BY <1>11, <2>1, FinishStep DEF QueryRejects
  <2>3. TypeOK'  BY <1>11, <2>1, <2>2 DEF TypeOK, QueryRejects, config
  <2> QED  BY <2>2, <2>3
<1>12. ASSUME NEW r \in Requests, End(r) PROVE SlotInv'
  <2>1. UNCHANGED <<config, inFlight, initBy>> /\ Goto(r, "ended")
    BY <1>12 DEF End
  <2>2. endBy' \in [Requests -> SUBSET Subs]
    BY <1>12 DEF TypeOK, End, Attached
  <2>3. /\ cursor' \in [Requests -> Nat] /\ attempt' \in [Requests -> Nat]
        /\ asked' \in [Requests -> SUBSET Hooks] /\ owed' \in [Requests -> SUBSET Hooks]
        /\ checked' \in [Requests -> SUBSET Plugins]
    BY <1>12 DEF TypeOK, End, Forget
  <2>4. TypeOK'  BY <2>1, <2>2, <2>3 DEF TypeOK, config
  <2> QED  BY <1>12, <2>1, <2>4, IdleStep DEF End
<1>13. CASE UNCHANGED vars
  <2>1. TypeOK'  BY <1>13 DEF TypeOK, vars, config, progress
  <2> QED  BY <1>13, <2>1 DEF SlotsExact, ConcurrencyBounded, Running, vars, progress
<1> QED
  BY <1>1, <1>2, <1>3, <1>4, <1>5, <1>6, <1>7, <1>8, <1>9, <1>10, <1>11, <1>12, <1>13
     DEF Next, Continue

LEMMA SlotInvariant == Spec => []SlotInv
BY SlotInit, SlotNext, PTL DEF Spec

\* Every reachable state of a pipeline is well typed; in particular its counter
\* never becomes negative.
THEOREM TypeCorrect == Spec => []TypeOK
<1>1. SlotInv => TypeOK  BY DEF SlotInv
<1> QED  BY <1>1, SlotInvariant, PTL

\* The counter this.inFlight is the number of executing queries, whatever the
\* interleaving of calls, retries, rejections, configuration and clear().
THEOREM SlotsCorrect == Spec => []SlotsExact
<1>1. SlotInv => SlotsExact  BY DEF SlotInv
<1> QED  BY <1>1, SlotInvariant, PTL

\* checkMaxConcurrent bounds the executing queries by maxConcurrent, for every
\* limit and any number of calls.
THEOREM ConcurrencyCorrect == Spec => []ConcurrencyBounded
<1>1. SlotInv => ConcurrencyBounded  BY DEF SlotInv
<1> QED  BY <1>1, SlotInvariant, PTL

-----------------------------------------------------------------------------
(* Authorization.                                                          *)

\* All hooks a call owes were asked, and at least one was.
Vetted(r) == asked[r] # {} /\ owed[r] \subseteq asked[r]

\* The hooks up to the iterator's position were asked, and those owed are still
\* in the array: hooks are only appended until clear() empties it.
Asking(r) ==
    /\ cursor[r] \in 1 .. Len(authorizeHooks)
    /\ \A i \in 1 .. cursor[r] : authorizeHooks[i] \in asked[r]
    /\ \A h \in owed[r] : \E i \in 1 .. Len(authorizeHooks) : authorizeHooks[i] = h

\* Inductive form of AuthorizationComplete.  Once cleared, a call between its
\* gates and its query may lack hooks, but it cannot start the query any more.
AuthInv == \A r \in Requests \cap Tagged :
    /\ pc[r] = "idle" => cursor[r] = 0
    /\ pc[r] = "running" => Vetted(r)
    /\ ~cleared /\ pc[r] \in {"authorized", "checking", "admitted", "backoff"} => Vetted(r)
    /\ ~cleared /\ pc[r] = "authorizing" => Asking(r)

\* AuthInv as one statement per request, which is how its steps are proved.
AuthOf(r) ==
    /\ pc[r] = "idle" => cursor[r] = 0
    /\ pc[r] = "running" => Vetted(r)
    /\ ~cleared /\ pc[r] \in {"authorized", "checking", "admitted", "backoff"} => Vetted(r)
    /\ ~cleared /\ pc[r] = "authorizing" => Asking(r)

LEMMA AuthInvByRequest == AuthInv <=> \A r \in Requests \cap Tagged : AuthOf(r)
BY DEF AuthInv, AuthOf

\* The step of the authorization loop: an iterator at its next position keeps
\* Asking, and one past the end has asked every hook that is owed.
LEMMA AdvanceAuth ==
    ASSUME TypeOK, NEW r \in Requests, ~cleared, ~cleared',
           authorizeHooks' = authorizeHooks, owed' \in [Requests -> SUBSET Hooks],
           Advance(r, authorizeHooks, asked, "authorizing", "authorized"),
           authorizeHooks # <<>>,
           cursor[r] \in 0 .. Len(authorizeHooks),
           \A i \in 1 .. cursor[r] : authorizeHooks[i] \in asked[r],
           \A h \in owed'[r] : \E i \in 1 .. Len(authorizeHooks) : authorizeHooks[i] = h
    PROVE  AuthOf(r)'
<1> DEFINE n == cursor[r] + 1
<1>1. authorizeHooks \in Seq(Hooks) /\ Len(authorizeHooks) \in Nat \ {0}
  BY DEF TypeOK
<1>2. CASE n <= Len(authorizeHooks)
  <2>1. cursor'[r] = n /\ pc'[r] = "authorizing" /\ asked'[r] = asked[r] \cup {authorizeHooks[n]}
    BY <1>2 DEF Advance, TypeOK
  <2>2. n \in 1 .. Len(authorizeHooks)  BY <1>1, <1>2
  <2>3. \A i \in 1 .. n : authorizeHooks[i] \in asked'[r]
    BY <1>1, <2>1
  <2>4. Asking(r)'  BY <2>1, <2>2, <2>3 DEF Asking
  <2> QED  BY <2>1, <2>4 DEF AuthOf
<1>3. CASE ~(n <= Len(authorizeHooks))
  <2>1. pc'[r] = "authorized" /\ asked' = asked
    BY <1>3 DEF Advance, TypeOK
  <2>2. cursor[r] = Len(authorizeHooks)  BY <1>1, <1>3
  <2>3. \A i \in 1 .. Len(authorizeHooks) : authorizeHooks[i] \in asked'[r]
    BY <2>1, <2>2
  <2>4. owed'[r] \subseteq asked'[r]  BY <2>3
  <2>5. asked'[r] # {}  BY <1>1, <2>3
  <2> QED  BY <2>1, <2>4, <2>5 DEF AuthOf, Vetted
<1> QED  BY <1>2, <1>3

\* Nothing a step of another request does reaches what AuthOf(q) talks about.
LEMMA AuthOther ==
    ASSUME TypeOK, NEW r \in Requests, NEW q \in Requests, q # r, AuthOf(q),
           UNCHANGED config, pc'[q] = pc[q], cursor'[q] = cursor[q],
           asked'[q] = asked[q], owed'[q] = owed[q]
    PROVE  AuthOf(q)'
BY DEF AuthOf, Vetted, Asking, config

\* A request moves on within the stages past its gates.
LEMMA AuthMove ==
    ASSUME TypeOK, NEW r \in Requests, AuthOf(r), UNCHANGED config,
           asked' = asked, owed' = owed, NEW stage \in Stages, Goto(r, stage),
           stage \notin {"idle", "authorizing"},
           \/ stage \notin {"running", "authorized", "checking", "admitted", "backoff"}
           \/ pc[r] = "running"
           \/ ~cleared /\ pc[r] \in {"authorized", "checking", "admitted", "backoff"}
           \/ cleared /\ stage # "running"
    PROVE  AuthOf(r)'
<1>1. pc'[r] = stage  BY DEF TypeOK
<1>2. Vetted(r)' = Vetted(r) /\ cleared' = cleared  BY DEF Vetted, config
<1> QED  BY <1>1, <1>2 DEF AuthOf

\* The host appends hooks or empties the arrays for good.
LEMMA AuthConfigure ==
    ASSUME TypeOK, Configure, NEW r \in Requests, AuthOf(r)
    PROVE  AuthOf(r)'
<1>1. UNCHANGED <<pc, cursor, asked, owed>>
  BY DEF Configure, Use, Unsubscribe, RegisterAuthorization, Clear, progress
<1>2. CASE UNCHANGED <<authorizeHooks, cleared>>
  BY <1>1, <1>2 DEF AuthOf, Vetted, Asking
<1>3. ASSUME NEW h \in Hooks, RegisterAuthorization(h) PROVE AuthOf(r)'
  <2>1. authorizeHooks \in Seq(Hooks) /\ authorizeHooks' = Append(authorizeHooks, h)
    BY <1>3 DEF TypeOK, RegisterAuthorization
  <2>2. /\ Len(authorizeHooks') = Len(authorizeHooks) + 1 /\ Len(authorizeHooks) \in Nat
        /\ \A i \in 1 .. Len(authorizeHooks) : authorizeHooks'[i] = authorizeHooks[i]
    BY <2>1
  <2>3. Asking(r) => Asking(r)'
    BY <1>1, <2>2 DEF Asking
  <2> QED  BY <1>1, <1>3, <2>3 DEF AuthOf, Vetted, RegisterAuthorization
<1>4. CASE Clear
  BY <1>1, <1>4 DEF Clear, AuthOf, Vetted
<1> QED
  BY <1>2, <1>3, <1>4 DEF Configure, Use, Unsubscribe

LEMMA AuthInit == Init => AuthInv
BY DEF Init, AuthInv

\* Every step of a call keeps AuthOf of that call.
LEMMA AuthStep ==
    ASSUME TypeOK, TypeOK', NEW r \in Requests \cap Tagged, AuthOf(r),
           Execute(r) \/ ExecuteCleared(r) \/ Continue(r)
    PROVE  AuthOf(r)'
<1> USE DEF config
<1>0. authorizeHooks \in Seq(Hooks) /\ Len(authorizeHooks) \in Nat  BY DEF TypeOK
<1>1. CASE Execute(r)
  <2>1. CASE authorizeHooks = <<>>
    <3>1. pc'[r] = "failed"  BY <1>1, <2>1 DEF Execute, TypeOK
    <3> QED  BY <3>1 DEF AuthOf
  <2>2. CASE authorizeHooks # <<>>
    <3>1. Advance(r, authorizeHooks, asked, "authorizing", "authorized")
      BY <1>1, <2>2 DEF Execute
    <3>2. cursor[r] = 0 /\ owed'[r] = ToSet(authorizeHooks)
      BY <1>1 DEF Execute, AuthOf, TypeOK
    <3>3. \A h \in owed'[r] : \E i \in 1 .. Len(authorizeHooks) : authorizeHooks[i] = h
      BY <1>0, <3>2 DEF ToSet
    <3>4. ~cleared /\ ~cleared' /\ authorizeHooks' = authorizeHooks
      BY <1>1 DEF Execute
    <3>5. owed' \in [Requests -> SUBSET Hooks]  BY DEF TypeOK
    <3>6. cursor[r] \in 0 .. Len(authorizeHooks)  BY <1>0, <3>2
    <3>7. \A i \in 1 .. cursor[r] : authorizeHooks[i] \in asked[r]  BY <3>2
    <3> QED  BY <2>2, <3>1, <3>3, <3>4, <3>5, <3>6, <3>7, AdvanceAuth
  <2> QED  BY <2>1, <2>2
<1>2. CASE ExecuteCleared(r)
  BY <1>2, AuthMove DEF ExecuteCleared
<1>3. CASE HookAllows(r)
  <2>1. Advance(r, authorizeHooks, asked, "authorizing", "authorized")
    BY <1>3 DEF HookAllows
  <2>2. CASE cleared
    <3>1. cleared' /\ authorizeHooks' = authorizeHooks  BY <1>3, <2>2 DEF HookAllows
    <3>2. pc'[r] \in {"authorizing", "authorized"}  BY <2>1 DEF Advance, TypeOK
    <3> QED  BY <3>1, <3>2 DEF AuthOf
  <2>3. CASE ~cleared
    <3>1. Asking(r)  BY <1>3, <2>3 DEF AuthOf, HookAllows
    <3>2. ~cleared' /\ authorizeHooks' = authorizeHooks /\ owed' = owed
      BY <1>3, <2>3 DEF HookAllows
    <3>3. cursor[r] \in 0 .. Len(authorizeHooks) /\ authorizeHooks # <<>>
      BY <1>0, <3>1 DEF Asking
    <3>4. owed' \in [Requests -> SUBSET Hooks]  BY DEF TypeOK
    <3>5. \A i \in 1 .. cursor[r] : authorizeHooks[i] \in asked[r]
      BY <3>1 DEF Asking
    <3>6. \A h \in owed'[r] : \E i \in 1 .. Len(authorizeHooks) : authorizeHooks[i] = h
      BY <3>1, <3>2 DEF Asking
    <3> QED  BY <2>1, <2>3, <3>2, <3>3, <3>4, <3>5, <3>6, AdvanceAuth
  <2> QED  BY <2>2, <2>3
<1>4. CASE HookDenies(r)
  BY <1>4, AuthMove DEF HookDenies
<1>5. CASE EnterChecks(r)
  <2>1. Goto(r, "failed") \/ (~cleared /\ (Goto(r, "checking") \/ Goto(r, "admitted")))
    BY <1>5 DEF EnterChecks, Advance
  <2> QED  BY <1>5, <2>1, AuthMove DEF EnterChecks
<1>6. CASE CheckPasses(r)
  <2>1. Goto(r, "checking") \/ Goto(r, "admitted")
    BY <1>6 DEF CheckPasses, Advance
  <2> QED  BY <1>6, <2>1, AuthMove DEF CheckPasses
<1>7. CASE CheckRejects(r)
  BY <1>7, AuthMove DEF CheckRejects
<1>8. CASE Attempt(r)
  <2>1. CASE Refused
    <3>1. Goto(r, "backoff") \/ Goto(r, "failed")
      BY <1>8, <2>1 DEF Attempt, AttemptFails
    <3> QED  BY <1>8, <3>1, AuthMove DEF Attempt
  <2>2. CASE ~Refused
    BY <1>8, <2>2, AuthMove DEF Attempt, Refused
  <2> QED  BY <2>1, <2>2
<1>9. CASE QueryResolves(r)
  BY <1>9, AuthMove DEF QueryResolves
<1>10. CASE QueryRejects(r)
  <2>1. Goto(r, "backoff") \/ Goto(r, "failed")
    BY <1>10 DEF QueryRejects, AttemptFails
  <2> QED  BY <1>10, <2>1, AuthMove DEF QueryRejects
<1>11. CASE End(r)
  <2>1. pc'[r] = "ended"  BY <1>11 DEF End, TypeOK
  <2> QED  BY <2>1 DEF AuthOf
<1> QED
  BY <1>1, <1>2, <1>3, <1>4, <1>5, <1>6, <1>7, <1>8, <1>9, <1>10, <1>11 DEF Continue

\* A step of one call leaves the state of the others alone.
LEMMA StepFrame ==
    ASSUME TypeOK, NEW r \in Requests, NEW q \in Requests, q # r,
           Execute(r) \/ ExecuteCleared(r) \/ Continue(r)
    PROVE  /\ UNCHANGED config
           /\ pc'[q] = pc[q] /\ cursor'[q] = cursor[q]
           /\ asked'[q] = asked[q] /\ owed'[q] = owed[q]
BY DEF TypeOK, Execute, ExecuteCleared, Continue, HookAllows, HookDenies, EnterChecks,
       CheckPasses, CheckRejects, Attempt, AttemptFails, QueryResolves, QueryRejects,
       End, Forget, Advance

LEMMA AuthNext == TypeOK /\ TypeOK' /\ AuthInv /\ [Next]_vars => AuthInv'
<1> SUFFICES ASSUME TypeOK, TypeOK', AuthInv, [Next]_vars,
                    NEW q \in Requests \cap Tagged
             PROVE  AuthOf(q)'
  BY AuthInvByRequest DEF AuthInv, AuthOf
<1>1. AuthOf(q)  BY AuthInvByRequest
<1>2. CASE Configure
  BY <1>1, <1>2, AuthConfigure
<1>3. ASSUME NEW r \in Requests, Execute(r) \/ ExecuteCleared(r) \/ Continue(r)
      PROVE  AuthOf(q)'
  <2>1. CASE r = q  BY <1>1, <1>3, <2>1, AuthStep
  <2>2. CASE r # q  BY <1>1, <1>3, <2>2, AuthOther, StepFrame
  <2> QED  BY <2>1, <2>2
<1>4. CASE UNCHANGED vars
  BY <1>1, <1>4 DEF AuthOf, Vetted, Asking, vars, config, progress
<1> QED  BY <1>2, <1>3, <1>4 DEF Next

\* A tagged query executes only after every hook registered when its call began
\* was asked and none denied, whenever hooks are added and clear() is called.
THEOREM AuthorizationCorrect == Spec => []AuthorizationComplete
<1>1. AuthInv => AuthorizationComplete
  BY DEF AuthInv, AuthorizationComplete, Running, Vetted
<1> QED  BY <1>1, AuthInit, AuthNext, TypeCorrect, PTL DEF Spec

-----------------------------------------------------------------------------
(* Refinement of the admission protocol.                                   *)

\* The refinement mapping, the phase of each request.
phaseBar == [r \in Requests |-> PhaseOf(pc[r])]

LEMMA PhaseAfterGoto ==
    ASSUME TypeOK, NEW r \in Requests, NEW stage \in Stages, Goto(r, stage)
    PROVE  /\ phaseBar[r] = PhaseOf(pc[r])
           /\ phaseBar' = [phaseBar EXCEPT ![r] = PhaseOf(stage)]
BY DEF TypeOK, phaseBar

\* A step within one phase changes nothing the protocol sees.
LEMMA PhaseStutter ==
    ASSUME TypeOK, NEW r \in Requests, NEW stage \in Stages, Goto(r, stage),
           PhaseOf(stage) = PhaseOf(pc[r])
    PROVE  phaseBar' = phaseBar
<1>1. \A q \in Requests : PhaseOf(pc'[q]) = PhaseOf(pc[q])
  BY DEF TypeOK
<1> QED  BY <1>1 DEF phaseBar

LEMMA PhaseMove ==
    ASSUME TypeOK, NEW r \in Requests, NEW stage \in Stages, Goto(r, stage)
    PROVE  Admission!Move(r, PhaseOf(pc[r]), PhaseOf(stage))
BY PhaseAfterGoto DEF Admission!Move, phaseBar

LEMMA ExecutingIsRunning == TypeOK => Admission!Executing = Running
BY DEF TypeOK, Admission!Executing, Running, PhaseOf

\* The instance names the standard operator through its own EXTENDS.
LEMMA SameCardinality == \A S : Admission!Cardinality(S) = Cardinality(S)
BY DEF Admission!Cardinality, Cardinality

LEMMA AdmissionInit == Init => Admission!Init
BY DEF Init, Admission!Init, PhaseOf

\* Each step of a call is a step of the protocol or invisible to it.
LEMMA AdmissionStep ==
    ASSUME SlotInv, NEW r \in Requests, Execute(r) \/ ExecuteCleared(r) \/ Continue(r)
    PROVE  Admission!Next \/ phaseBar' = phaseBar
<1> USE DEF SlotInv, PhaseOf
<1>1. CASE Execute(r)
  <2>1. Goto(r, "authorizing") \/ Goto(r, "authorized") \/ Goto(r, "failed")
    BY <1>1 DEF Execute, Advance
  <2>2. pc[r] = "idle"  BY <1>1 DEF Execute
  <2>3. Admission!Move(r, "new", "gating") \/ Admission!Move(r, "new", "settled")
    BY <2>1, <2>2, PhaseMove
  <2> QED  BY <2>3 DEF Admission!Next, Admission!Open, Admission!TurnAway
<1>2. CASE ExecuteCleared(r)
  <2>1. Goto(r, "typeError") /\ pc[r] = "idle"  BY <1>2 DEF ExecuteCleared
  <2>2. Admission!Move(r, "new", "done")  BY <2>1, PhaseMove
  <2> QED  BY <2>2 DEF Admission!Next, Admission!TurnAway
<1>3. CASE HookAllows(r)
  <2>1. (Goto(r, "authorizing") \/ Goto(r, "authorized")) /\ pc[r] = "authorizing"
    BY <1>3 DEF HookAllows, Advance
  <2> QED  BY <2>1, PhaseStutter
<1>4. CASE HookDenies(r)
  <2>1. Goto(r, "failed") /\ pc[r] = "authorizing"  BY <1>4 DEF HookDenies
  <2>2. Admission!Move(r, "gating", "settled")  BY <2>1, PhaseMove
  <2> QED  BY <2>2 DEF Admission!Next, Admission!Step, Admission!Settle
<1>5. CASE EnterChecks(r) \/ CheckPasses(r)
  <2>1. pc[r] \in {"authorized", "checking"}  BY <1>5 DEF EnterChecks, CheckPasses
  <2>2. CASE Goto(r, "checking")
    BY <2>1, <2>2, PhaseStutter
  <2>3. CASE Goto(r, "failed")
    <3>1. Admission!Move(r, "gating", "settled")  BY <2>1, <2>3, PhaseMove
    <3> QED  BY <3>1 DEF Admission!Next, Admission!Step, Admission!Settle
  <2>4. CASE Goto(r, "admitted")
    <3>1. Admission!Move(r, "gating", "ready")  BY <2>1, <2>4, PhaseMove
    <3> QED  BY <3>1 DEF Admission!Next, Admission!Step, Admission!PassGates
  <2> QED  BY <1>5, <2>2, <2>3, <2>4 DEF EnterChecks, CheckPasses, Advance
<1>6. CASE CheckRejects(r)
  <2>1. Goto(r, "failed") /\ pc[r] = "checking"  BY <1>6 DEF CheckRejects
  <2>2. Admission!Move(r, "gating", "settled")  BY <2>1, PhaseMove
  <2> QED  BY <2>2 DEF Admission!Next, Admission!Step, Admission!Settle
<1>7. CASE Attempt(r)
  <2>1. pc[r] \in {"admitted", "backoff"}  BY <1>7 DEF Attempt
  <2>2. CASE Refused
    <3>1. Goto(r, "backoff") \/ Goto(r, "failed")
      BY <1>7, <2>2 DEF Attempt, AttemptFails
    <3>2. CASE Goto(r, "backoff")  BY <2>1, <3>2, PhaseStutter
    <3>3. CASE Goto(r, "failed")
      <4>1. Admission!Move(r, "ready", "settled")  BY <2>1, <3>3, PhaseMove
      <4> QED  BY <4>1 DEF Admission!Next, Admission!Step, Admission!Settle
    <3> QED  BY <3>1, <3>2, <3>3
  <2>3. CASE ~Refused
    <3>1. Goto(r, "running")  BY <1>7, <2>3 DEF Attempt
    <3>2. Admission!Move(r, "ready", "executing")  BY <2>1, <3>1, PhaseMove
    <3>3. Cardinality(Admission!Executing) < MaxConcurrent
      BY <2>3, ExecutingIsRunning, LimitAssumption DEF Refused, SlotsExact, TypeOK
    <3>4. Admission!Begin(r)  BY <3>2, <3>3, SameCardinality DEF Admission!Begin
    <3> QED  BY <3>4 DEF Admission!Next, Admission!Step
  <2> QED  BY <2>2, <2>3
<1>8. CASE QueryResolves(r)
  <2>1. Goto(r, "succeeded") /\ pc[r] = "running"  BY <1>8 DEF QueryResolves
  <2>2. Admission!Move(r, "executing", "settled")  BY <2>1, PhaseMove
  <2> QED  BY <2>2 DEF Admission!Next, Admission!Step, Admission!Settle
<1>9. CASE QueryRejects(r)
  <2>1. Goto(r, "backoff") \/ Goto(r, "failed")
    BY <1>9 DEF QueryRejects, AttemptFails
  <2>2. pc[r] = "running"  BY <1>9 DEF QueryRejects
  <2>3. Goto(r, "backoff") => Admission!Move(r, "executing", "ready")
    BY <2>2, PhaseMove
  <2>4. Goto(r, "failed") => Admission!Move(r, "executing", "settled")
    BY <2>2, PhaseMove
  <2> QED
    BY <2>1, <2>3, <2>4
       DEF Admission!Next, Admission!Step, Admission!Settle, Admission!TryAgain
<1>10. CASE End(r)
  <2>1. Goto(r, "ended") /\ pc[r] \in {"succeeded", "failed"}  BY <1>10 DEF End
  <2>2. Admission!Move(r, "settled", "done")  BY <2>1, PhaseMove
  <2> QED  BY <2>2 DEF Admission!Next, Admission!Step, Admission!Close
<1> QED
  BY <1>1, <1>2, <1>3, <1>4, <1>5, <1>6, <1>7, <1>8, <1>9, <1>10 DEF Continue

LEMMA AdmissionNext == SlotInv /\ [Next]_vars => [Admission!Next]_phaseBar
<1> SUFFICES ASSUME SlotInv, [Next]_vars PROVE Admission!Next \/ phaseBar' = phaseBar
  OBVIOUS
<1>1. CASE Configure
  <2>1. pc' = pc
    BY <1>1 DEF Configure, Use, Unsubscribe, RegisterAuthorization, Clear, progress
  <2> QED  BY <2>1 DEF phaseBar
<1>2. ASSUME NEW r \in Requests, Execute(r) \/ ExecuteCleared(r) \/ Continue(r)
      PROVE  Admission!Next \/ phaseBar' = phaseBar
  BY <1>2, AdmissionStep
<1>3. CASE UNCHANGED vars
  BY <1>3 DEF vars, progress, phaseBar
<1> QED  BY <1>1, <1>2, <1>3 DEF Next

\* The pipeline implements the admission protocol: gates before execution, the
\* limit, no execution after settling, for every instance and host.
THEOREM AdmissionCorrect == Spec => ImplementsAdmission
<1>1. Admission!Spec <=> Admission!Init /\ [][Admission!Next]_phaseBar
  BY DEF Admission!Spec, phaseBar
<1> QED
  BY <1>1, AdmissionInit, AdmissionNext, SlotInvariant, PTL DEF Spec, ImplementsAdmission

-----------------------------------------------------------------------------
(* Clearing the pipeline and the pairing of init and end.                  *)

\* A cleared pipeline refuses every attempt, so pc leaves and never enters
\* "running"; the counter needs no argument here.
LEMMA ClearedStep ==
    ASSUME TypeOK, cleared, NEW r \in Requests, Execute(r) \/ ExecuteCleared(r) \/ Continue(r)
    PROVE  Running' \subseteq Running
<1> SUFFICES ASSUME NEW q \in Requests, pc'[q] = "running", pc[q] # "running"
             PROVE  FALSE
  BY DEF Running
<1>1. CASE q # r
  BY <1>1, StepFrame
<1>2. CASE q = r
  <2>1. pc \in [Requests -> Stages]  BY DEF TypeOK
  <2>2. CASE Execute(r) \/ ExecuteCleared(r)
    BY <1>2, <2>1, <2>2 DEF Execute, ExecuteCleared, Goto
  <2>3. CASE HookAllows(r) \/ HookDenies(r) \/ EnterChecks(r)
    BY <1>2, <2>1, <2>3 DEF HookAllows, HookDenies, EnterChecks, Advance, Goto
  <2>4. CASE CheckPasses(r) \/ CheckRejects(r)
    BY <1>2, <2>1, <2>4 DEF CheckPasses, CheckRejects, Advance, Goto
  <2>5. CASE Attempt(r)
    BY <1>2, <2>1, <2>5 DEF Attempt, Refused, AttemptFails, Goto
  <2>6. CASE QueryResolves(r) \/ QueryRejects(r) \/ End(r)
    BY <1>2, <2>1, <2>6 DEF QueryResolves, QueryRejects, AttemptFails, End, Goto
  <2> QED  BY <2>2, <2>3, <2>4, <2>5, <2>6 DEF Continue
<1> QED  BY <1>1, <1>2

\* No query starts on a cleared pipeline, whichever loops were suspended when it
\* was cleared and whatever they iterate over.
THEOREM FailsClosed == Spec => NoExecutionAfterClear
<1>1. TypeOK /\ [Next]_vars => [cleared => Running' \subseteq Running]_vars
  <2> SUFFICES ASSUME TypeOK, Next, cleared PROVE Running' \subseteq Running
    BY DEF vars
  <2>1. CASE Configure
    <3>1. pc' = pc
      BY <2>1 DEF Configure, Use, Unsubscribe, RegisterAuthorization, Clear, progress
    <3> QED  BY <3>1 DEF Running
  <2>2. ASSUME NEW r \in Requests, Execute(r) \/ ExecuteCleared(r) \/ Continue(r)
        PROVE  Running' \subseteq Running
    BY <2>2, ClearedStep
  <2> QED  BY <2>1, <2>2 DEF Next
<1> QED  BY <1>1, TypeCorrect, PTL DEF Spec, NoExecutionAfterClear

\* What an undisturbed call knows: while it is under way the plugins told of its
\* beginning are still attached and the pipeline was not cleared.
PairOf(r) ==
    /\ pc[r] \notin Resting => ~cleared /\ initBy[r] \subseteq Attached
    /\ pc[r] = "ended" => initBy[r] \subseteq endBy[r]

\* Inductive form of LifecyclePaired.
PairInv == \A r \in Requests \ disturbed : PairOf(r)

LEMMA PairInit == Init => PairInv
BY DEF Init, PairInv, PairOf, Resting

\* Whatever takes a listener away also disturbs every call under way.
LEMMA PairConfigure == TypeOK /\ PairInv /\ Configure => PairInv'
<1> SUFFICES ASSUME TypeOK, PairInv, Configure, NEW r \in Requests, r \notin disturbed'
             PROVE  PairOf(r)'
  BY DEF PairInv
<1>1. /\ disturbed \subseteq disturbed' /\ UNCHANGED progress
      /\ \/ disturbed' = disturbed \cup Suspended
         \/ cleared' = cleared /\ Attached \subseteq Attached'
  BY DEF Configure, Use, Unsubscribe, RegisterAuthorization, Clear, Attached, TypeOK
<1>2. PairOf(r)  BY <1>1 DEF PairInv
<1>3. pc'[r] = pc[r] /\ initBy'[r] = initBy[r] /\ endBy'[r] = endBy[r]
  BY <1>1 DEF progress
<1>4. CASE pc[r] \in Resting
  BY <1>2, <1>3, <1>4 DEF PairOf
<1>5. CASE pc[r] \notin Resting
  <2>1. r \in Suspended  BY <1>5 DEF Suspended
  <2>2. cleared' = cleared /\ Attached \subseteq Attached'  BY <1>1, <2>1
  <2> QED  BY <1>2, <1>3, <1>5, <2>2 DEF PairOf, Resting
<1> QED  BY <1>4, <1>5

\* A call takes its first listeners when it begins and tells them at its end.
LEMMA PairStep ==
    ASSUME TypeOK, NEW r \in Requests, PairOf(r), Execute(r) \/ ExecuteCleared(r) \/ Continue(r)
    PROVE  PairOf(r)'
<1>1. CASE Execute(r)
  <2>1. ~cleared' /\ initBy'[r] = Attached /\ Attached' = Attached
    BY <1>1 DEF Execute, config, TypeOK, Attached
  <2>2. pc'[r] # "ended"
    BY <1>1 DEF Execute, Advance, Goto, TypeOK
  <2> QED  BY <2>1, <2>2 DEF PairOf
<1>2. CASE ExecuteCleared(r)
  <2>1. pc'[r] = "typeError"
    BY <1>2 DEF ExecuteCleared, Goto, TypeOK
  <2> QED  BY <2>1 DEF PairOf, Resting
<1>3. CASE End(r)
  <2>1. pc[r] \notin Resting  BY <1>3 DEF End, Resting
  <2>2. ~cleared /\ initBy[r] \subseteq Attached  BY <2>1 DEF PairOf
  <2>3. pc'[r] = "ended" /\ endBy'[r] = Attached /\ initBy' = initBy
    BY <1>3, <2>2 DEF End, Goto, TypeOK
  <2> QED  BY <2>2, <2>3 DEF PairOf, Resting
<1>4. CASE Continue(r) /\ ~End(r)
  <2>1. pc[r] \notin Resting /\ pc'[r] # "ended"
    BY <1>4 DEF Continue, HookAllows, HookDenies, EnterChecks, CheckPasses, CheckRejects,
                Attempt, AttemptFails, QueryResolves, QueryRejects, Advance, Goto, TypeOK, Resting
  <2>2. cleared' = cleared /\ sub' = sub /\ initBy' = initBy
    BY <1>4 DEF Continue, HookAllows, HookDenies, EnterChecks, CheckPasses, CheckRejects,
                Attempt, QueryResolves, QueryRejects, config
  <2> QED  BY <2>1, <2>2 DEF PairOf, Attached
<1> QED  BY <1>1, <1>2, <1>3, <1>4

\* The other calls keep their stage and their listeners.
LEMMA PairFrame ==
    ASSUME TypeOK, NEW r \in Requests, NEW q \in Requests, q # r,
           Execute(r) \/ ExecuteCleared(r) \/ Continue(r)
    PROVE  initBy'[q] = initBy[q] /\ endBy'[q] = endBy[q]
BY DEF TypeOK, Execute, ExecuteCleared, Continue, HookAllows, HookDenies, EnterChecks,
       CheckPasses, CheckRejects, Attempt, QueryResolves, QueryRejects, End

LEMMA PairNext == TypeOK /\ PairInv /\ [Next]_vars => PairInv'
<1> SUFFICES ASSUME TypeOK, PairInv, [Next]_vars PROVE PairInv'
  OBVIOUS
<1>1. CASE Configure
  BY <1>1, PairConfigure
<1>2. ASSUME NEW r \in Requests, Execute(r) \/ ExecuteCleared(r) \/ Continue(r)
      PROVE  PairInv'
  <2>1. UNCHANGED config
    BY <1>2 DEF Execute, ExecuteCleared, Continue, HookAllows, HookDenies, EnterChecks,
                CheckPasses, CheckRejects, Attempt, QueryResolves, QueryRejects, End
  <2>2. disturbed' = disturbed /\ cleared' = cleared /\ Attached' = Attached
    BY <2>1 DEF config, Attached
  <2> SUFFICES ASSUME NEW q \in Requests \ disturbed PROVE PairOf(q)'
    BY <2>2 DEF PairInv
  <2>3. PairOf(q)  BY DEF PairInv
  <2>4. CASE q = r  BY <1>2, <2>3, <2>4, PairStep
  <2>5. CASE q # r
    <3>1. pc'[q] = pc[q] /\ initBy'[q] = initBy[q] /\ endBy'[q] = endBy[q]
      BY <1>2, <2>5, StepFrame, PairFrame
    <3> QED  BY <2>2, <2>3, <3>1 DEF PairOf
  <2> QED  BY <2>4, <2>5
<1>3. CASE UNCHANGED vars
  BY <1>3 DEF PairInv, PairOf, Attached, vars, config, progress
<1> QED  BY <1>1, <1>2, <1>3 DEF Next

\* Whoever was told that a call began is told that it ended, unless the host
\* detaches a plugin or clears the pipeline while the call is under way.
THEOREM LifecycleCorrect == Spec => []LifecyclePaired
<1>1. PairInv => LifecyclePaired
  BY DEF PairInv, PairOf, LifecyclePaired
<1> QED  BY <1>1, PairInit, PairNext, TypeCorrect, PTL DEF Spec

-----------------------------------------------------------------------------
(* The gate of the plugins.                                                *)

\* No plugin object is attached by two calls of use().
PluginsDistinct == \A s, t \in Subs : PluginOf[s] = PluginOf[t] => s = t

\* The check plugins among those that were told of the beginning of r.
Gates(r) == {PluginOf[s] : s \in initBy[r]} \cap HasCheck

\* An attached plugin with a check() is in the array.
ListInv ==
    ~cleared => \A s \in Attached : PluginOf[s] \in HasCheck => InSeq(PluginOf[s], checkPlugins)

\* What an undisturbed call has checked at each await: the plugins up to the
\* iterator's position, and after the loop all that it owes.
CheckOf(r) ==
    /\ pc[r] \in {"idle", "authorized"} => cursor[r] = 0
    /\ pc[r] \in {"authorizing", "authorized", "checking"} =>
         \A p \in Gates(r) : InSeq(p, checkPlugins)
    /\ pc[r] = "checking" =>
         /\ cursor[r] \in 1 .. Len(checkPlugins)
         /\ \A i \in 1 .. cursor[r] : checkPlugins[i] \in checked[r]
    /\ pc[r] \in {"admitted", "backoff", "running"} => Gates(r) \subseteq checked[r]

\* Inductive form of ChecksComplete.
CheckInv == ListInv /\ \A r \in Requests \ disturbed : CheckOf(r)

LEMMA CheckInit == Init => CheckInv
BY DEF Init, CheckInv, ListInv, CheckOf, Attached

\* Appending keeps every element in place.
LEMMA AppendKeeps ==
    ASSUME NEW S, NEW seq \in Seq(S), NEW e \in S
    PROVE  /\ Len(Append(seq, e)) = Len(seq) + 1 /\ Len(seq) \in Nat
           /\ \A i \in 1 .. Len(seq) : Append(seq, e)[i] = seq[i]
           /\ Append(seq, e)[Len(seq) + 1] = e
OBVIOUS

LEMMA ListConfigure == PluginsDistinct /\ TypeOK /\ ListInv /\ Configure => ListInv'
<1> SUFFICES ASSUME PluginsDistinct, TypeOK, ListInv, Configure PROVE ListInv'
  OBVIOUS
<1>0. checkPlugins \in Seq(HasCheck) /\ sub \in [Subs -> {"unused", "on", "off"}]
  BY DEF TypeOK
<1>1. ASSUME NEW s \in Subs, Use(s) PROVE ListInv'
  <2> SUFFICES ASSUME NEW t \in Subs, sub'[t] = "on", PluginOf[t] \in HasCheck
               PROVE  InSeq(PluginOf[t], checkPlugins')
    BY DEF ListInv, Attached
  <2>1. ~cleared  BY <1>1 DEF Use, Configurable
  <2>2. CASE t = s
    <3>1. checkPlugins' = Append(checkPlugins, PluginOf[s])
      BY <1>1, <2>2 DEF Use
    <3> QED  BY <1>0, <2>2, <3>1, AppendKeeps DEF InSeq
  <2>3. CASE t # s
    <3>1. sub[t] = "on"  BY <1>0, <1>1, <2>3 DEF Use
    <3>2. InSeq(PluginOf[t], checkPlugins)  BY <2>1, <3>1 DEF ListInv, Attached
    <3>3. CASE checkPlugins' = checkPlugins  BY <3>2, <3>3
    <3>4. CASE PluginOf[s] \in HasCheck /\ checkPlugins' = Append(checkPlugins, PluginOf[s])
      BY <1>0, <3>2, <3>4, AppendKeeps DEF InSeq
    <3> QED  BY <1>1, <3>3, <3>4 DEF Use
  <2> QED  BY <2>2, <2>3
<1>2. ASSUME NEW s \in Subs, Unsubscribe(s) PROVE ListInv'
  <2> SUFFICES ASSUME NEW t \in Subs, sub'[t] = "on", PluginOf[t] \in HasCheck
               PROVE  InSeq(PluginOf[t], checkPlugins')
    BY DEF ListInv, Attached
  <2>1. ~cleared /\ checkPlugins' = RemoveFirst(checkPlugins, PluginOf[s])
    BY <1>2 DEF Unsubscribe, Configurable
  <2>2. t # s /\ sub[t] = "on"  BY <1>0, <1>2 DEF Unsubscribe
  <2>3. PluginOf[t] # PluginOf[s]  BY <2>2 DEF PluginsDistinct
  <2>4. InSeq(PluginOf[t], checkPlugins)  BY <2>1, <2>2 DEF ListInv, Attached
  <2>5. InSeq(PluginOf[t], RemoveFirst(checkPlugins, PluginOf[s]))
    BY <1>0, <2>3, <2>4, RemoveFirstKeeps
  <2> QED  BY <2>1, <2>5
<1>3. ASSUME NEW h \in Hooks, RegisterAuthorization(h) PROVE ListInv'
  BY <1>3 DEF RegisterAuthorization, ListInv, Attached
<1>4. CASE Clear
  BY <1>4 DEF Clear, ListInv
<1> QED  BY <1>1, <1>2, <1>3, <1>4 DEF Configure

\* The host appends plugins; whatever else it does to the array disturbs the
\* calls under way.
LEMMA CheckConfigure ==
    ASSUME TypeOK, Configure, NEW r \in Requests, r \notin disturbed', CheckOf(r)
    PROVE  CheckOf(r)'
<1>1. UNCHANGED <<pc, cursor, checked, initBy>>
  BY DEF Configure, Use, Unsubscribe, RegisterAuthorization, Clear, progress
<1>2. Gates(r)' = Gates(r)  BY <1>1 DEF Gates
<1>3. CASE checkPlugins' = checkPlugins
  BY <1>1, <1>2, <1>3 DEF CheckOf, InSeq
<1>4. CASE disturbed' = disturbed \cup Suspended
  <2>1. pc[r] \in Resting  BY <1>4 DEF Suspended
  <2> QED  BY <1>1, <2>1 DEF CheckOf, Resting
<1>5. ASSUME NEW s \in Subs, PluginOf[s] \in HasCheck,
             checkPlugins' = Append(checkPlugins, PluginOf[s])
      PROVE  CheckOf(r)'
  <2>1. /\ Len(checkPlugins') = Len(checkPlugins) + 1 /\ Len(checkPlugins) \in Nat
        /\ \A i \in 1 .. Len(checkPlugins) : checkPlugins'[i] = checkPlugins[i]
    BY <1>5, AppendKeeps DEF TypeOK
  <2>2. \A p : InSeq(p, checkPlugins) => InSeq(p, checkPlugins')
    BY <2>1 DEF InSeq
  <2>3. cursor[r] \in 1 .. Len(checkPlugins) => cursor[r] \in 1 .. Len(checkPlugins')
    BY <2>1
  <2> QED  BY <1>1, <1>2, <2>1, <2>2, <2>3 DEF CheckOf
<1> QED
  BY <1>3, <1>4, <1>5 DEF Configure, Use, Unsubscribe, RegisterAuthorization, Clear

\* The step of the loop over the plugins.
LEMMA AdvanceCheck ==
    ASSUME TypeOK, NEW r \in Requests, UNCHANGED <<checkPlugins, initBy>>,
           Advance(r, checkPlugins, checked, "checking", "admitted"),
           \A p \in Gates(r) : InSeq(p, checkPlugins),
           cursor[r] \in 0 .. Len(checkPlugins),
           \A i \in 1 .. cursor[r] : checkPlugins[i] \in checked[r]
    PROVE  CheckOf(r)'
<1> DEFINE n == cursor[r] + 1
<1>1. checkPlugins \in Seq(HasCheck) /\ Len(checkPlugins) \in Nat
  BY DEF TypeOK
<1>2. Gates(r)' = Gates(r)  BY DEF Gates
<1>3. CASE n <= Len(checkPlugins)
  <2>1. cursor'[r] = n /\ pc'[r] = "checking" /\ checked'[r] = checked[r] \cup {checkPlugins[n]}
    BY <1>3 DEF Advance, TypeOK
  <2>2. n \in 1 .. Len(checkPlugins)  BY <1>1, <1>3
  <2>3. \A i \in 1 .. n : checkPlugins[i] \in checked'[r]
    BY <1>1, <2>1
  <2> QED  BY <1>2, <2>1, <2>2, <2>3 DEF CheckOf
<1>4. CASE ~(n <= Len(checkPlugins))
  <2>1. pc'[r] = "admitted" /\ checked' = checked
    BY <1>4 DEF Advance, TypeOK
  <2>2. cursor[r] = Len(checkPlugins)  BY <1>1, <1>4
  <2>3. Gates(r) \subseteq checked[r]  BY <2>2 DEF InSeq
  <2> QED  BY <1>2, <2>1, <2>3 DEF CheckOf
<1> QED  BY <1>3, <1>4

\* A call moves on with what it has checked, or is past needing it.
LEMMA CheckMove ==
    ASSUME TypeOK, NEW r \in Requests, CheckOf(r), checked' = checked, initBy' = initBy,
           NEW stage \in Stages, Goto(r, stage),
           \/ stage \in {"succeeded", "failed", "ended", "typeError"}
           \/ /\ stage \in {"admitted", "backoff", "running"}
              /\ pc[r] \in {"admitted", "backoff", "running"}
    PROVE  CheckOf(r)'
<1>1. pc'[r] = stage  BY DEF TypeOK
<1>2. Gates(r)' = Gates(r)  BY DEF Gates
<1> QED  BY <1>1, <1>2 DEF CheckOf

LEMMA CheckStep ==
    ASSUME TypeOK, ListInv, NEW r \in Requests, CheckOf(r), PairOf(r),
           Execute(r) \/ ExecuteCleared(r) \/ Continue(r)
    PROVE  CheckOf(r)'
<1> USE DEF config
<1>0. checkPlugins \in Seq(HasCheck) /\ Len(checkPlugins) \in Nat  BY DEF TypeOK
<1>1. CASE Execute(r)
  <2>1. checkPlugins' = checkPlugins /\ ~cleared /\ initBy'[r] = Attached /\ cursor[r] = 0
    BY <1>1 DEF Execute, TypeOK, CheckOf
  <2>2. \A p \in Gates(r)' : InSeq(p, checkPlugins')
    BY <2>1 DEF Gates, ListInv
  <2>3. /\ pc'[r] \in {"authorizing", "authorized", "failed"}
        /\ pc'[r] = "authorized" => cursor'[r] = 0
    BY <1>1, <2>1 DEF Execute, Advance, TypeOK
  <2> QED  BY <2>2, <2>3 DEF CheckOf
<1>2. CASE ExecuteCleared(r)
  BY <1>2, CheckMove DEF ExecuteCleared
<1>3. CASE HookAllows(r)
  <2>1. pc[r] = "authorizing" /\ UNCHANGED <<checkPlugins, initBy>>
    BY <1>3 DEF HookAllows
  <2>2. /\ pc'[r] \in {"authorizing", "authorized"}
        /\ pc'[r] = "authorized" => cursor'[r] = 0
    BY <1>3 DEF HookAllows, Advance, TypeOK
  <2>3. \A p \in Gates(r)' : InSeq(p, checkPlugins')
    BY <2>1 DEF CheckOf, Gates
  <2> QED  BY <2>2, <2>3 DEF CheckOf
<1>4. CASE HookDenies(r)
  BY <1>4, CheckMove DEF HookDenies
<1>5. CASE EnterChecks(r)
  <2>1. CASE cleared
    BY <1>5, <2>1, CheckMove DEF EnterChecks
  <2>2. CASE ~cleared
    <3>1. pc[r] = "authorized" /\ cursor[r] = 0 /\ \A p \in Gates(r) : InSeq(p, checkPlugins)
      BY <1>5 DEF EnterChecks, CheckOf
    <3>2. /\ Advance(r, checkPlugins, checked, "checking", "admitted")
          /\ UNCHANGED <<checkPlugins, initBy>>
      BY <1>5, <2>2 DEF EnterChecks
    <3>3. cursor[r] \in 0 .. Len(checkPlugins) /\ \A i \in 1 .. cursor[r] : FALSE
      BY <1>0, <3>1
    <3> QED  BY <3>1, <3>2, <3>3, AdvanceCheck
  <2> QED  BY <2>1, <2>2
<1>6. CASE CheckPasses(r)
  <2>1. /\ \A p \in Gates(r) : InSeq(p, checkPlugins)
        /\ cursor[r] \in 1 .. Len(checkPlugins)
        /\ \A i \in 1 .. cursor[r] : checkPlugins[i] \in checked[r]
    BY <1>6 DEF CheckPasses, CheckOf
  <2>2. /\ Advance(r, checkPlugins, checked, "checking", "admitted")
        /\ UNCHANGED <<checkPlugins, initBy>>
    BY <1>6 DEF CheckPasses
  <2>3. cursor[r] \in 0 .. Len(checkPlugins)  BY <1>0, <2>1
  <2> QED  BY <2>1, <2>2, <2>3, AdvanceCheck
<1>7. CASE CheckRejects(r)
  BY <1>7, CheckMove DEF CheckRejects
<1>8. CASE Attempt(r)
  <2>1. Goto(r, "backoff") \/ Goto(r, "failed") \/ Goto(r, "running")
    BY <1>8 DEF Attempt, AttemptFails
  <2> QED  BY <1>8, <2>1, CheckMove DEF Attempt
<1>9. CASE QueryResolves(r)
  BY <1>9, CheckMove DEF QueryResolves
<1>10. CASE QueryRejects(r)
  <2>1. Goto(r, "backoff") \/ Goto(r, "failed")
    BY <1>10 DEF QueryRejects, AttemptFails
  <2> QED  BY <1>10, <2>1, CheckMove DEF QueryRejects
<1>11. CASE End(r)
  <2>1. pc'[r] = "ended"  BY <1>11 DEF End, TypeOK
  <2> QED  BY <2>1 DEF CheckOf
<1> QED
  BY <1>1, <1>2, <1>3, <1>4, <1>5, <1>6, <1>7, <1>8, <1>9, <1>10, <1>11 DEF Continue

\* The other calls keep what they checked.
LEMMA CheckFrame ==
    ASSUME TypeOK, NEW r \in Requests, NEW q \in Requests, q # r,
           Execute(r) \/ ExecuteCleared(r) \/ Continue(r)
    PROVE  checked'[q] = checked[q]
BY DEF TypeOK, Execute, ExecuteCleared, Continue, HookAllows, HookDenies, EnterChecks,
       CheckPasses, CheckRejects, Attempt, QueryResolves, QueryRejects, End, Forget, Advance

LEMMA CheckNext ==
    PluginsDistinct /\ TypeOK /\ PairInv /\ CheckInv /\ [Next]_vars => CheckInv'
<1> SUFFICES ASSUME PluginsDistinct, TypeOK, PairInv, CheckInv, [Next]_vars PROVE CheckInv'
  OBVIOUS
<1>1. CASE Configure
  <2>1. disturbed \subseteq disturbed'
    BY <1>1 DEF Configure, Use, Unsubscribe, RegisterAuthorization, Clear
  <2>2. ASSUME NEW r \in Requests \ disturbed' PROVE CheckOf(r)'
    <3>1. CheckOf(r)  BY <2>1 DEF CheckInv
    <3> QED  BY <1>1, <3>1, CheckConfigure
  <2>3. ListInv'  BY <1>1, ListConfigure DEF CheckInv
  <2> QED  BY <2>2, <2>3 DEF CheckInv
<1>2. ASSUME NEW r \in Requests, Execute(r) \/ ExecuteCleared(r) \/ Continue(r)
      PROVE  CheckInv'
  <2>1. UNCHANGED config
    BY <1>2 DEF Execute, ExecuteCleared, Continue, HookAllows, HookDenies, EnterChecks,
                CheckPasses, CheckRejects, Attempt, QueryResolves, QueryRejects, End
  <2>2. disturbed' = disturbed /\ checkPlugins' = checkPlugins
    BY <2>1 DEF config
  <2>3. ListInv'
    BY <2>1 DEF CheckInv, ListInv, Attached, config
  <2>4. ASSUME NEW q \in Requests \ disturbed PROVE CheckOf(q)'
    <3>1. CheckOf(q) /\ PairOf(q) /\ ListInv  BY DEF CheckInv, PairInv
    <3>2. CASE q = r  BY <1>2, <3>1, <3>2, CheckStep
    <3>3. CASE q # r
      <4>1. /\ pc'[q] = pc[q] /\ cursor'[q] = cursor[q]
            /\ initBy'[q] = initBy[q] /\ checked'[q] = checked[q]
        BY <1>2, <3>3, StepFrame, PairFrame, CheckFrame
      <4>2. Gates(q)' = Gates(q)  BY <4>1 DEF Gates
      <4> QED  BY <2>2, <3>1, <4>1, <4>2 DEF CheckOf
    <3> QED  BY <3>2, <3>3
  <2> QED  BY <2>2, <2>3, <2>4 DEF CheckInv
<1>3. CASE UNCHANGED vars
  BY <1>3 DEF CheckInv, ListInv, CheckOf, Gates, Attached, vars, config, progress
<1> QED  BY <1>1, <1>2, <1>3 DEF Next

\* Every plugin attached since a call began, and each by one call of use(), has
\* had its check() called before the query executes, whatever else the host
\* attaches, as long as it detaches none.
THEOREM ChecksCorrect == PluginsDistinct /\ Spec => []ChecksComplete
<1>1. ASSUME CheckInv PROVE ChecksComplete
  <2> SUFFICES ASSUME NEW r \in Running \ disturbed, NEW s \in Unchecked(r) PROVE FALSE
    BY DEF ChecksComplete
  <2>1. CheckOf(r) /\ pc[r] = "running"  BY <1>1 DEF CheckInv, Running
  <2>2. PluginOf[s] \in Gates(r) /\ PluginOf[s] \notin checked[r]
    BY DEF Unchecked, Gates
  <2> QED  BY <2>1, <2>2 DEF CheckOf
<1>2. CASE PluginsDistinct
  <2>1. TypeOK /\ PairInv /\ CheckInv /\ [Next]_vars => CheckInv'
    BY <1>2, CheckNext
  <2> QED  BY <1>1, <2>1, CheckInit, PairInit, PairNext, TypeCorrect, PTL DEF Spec
<1>3. CASE ~PluginsDistinct
  BY <1>3, PTL
<1> QED  BY <1>2, <1>3

-----------------------------------------------------------------------------
(* A rate limiter in a pipeline that its host configures at rest.          *)

AtRest == "midflight" \notin Host

LimiterAttached == \E s \in LimiterSubs : sub[s] = "on"

\* The limiter is in the array once while it is attached, else not at all.
LimiterListed ==
    /\ LimiterAttached <=> InSeq(Limiter, checkPlugins)
    /\ \A i, j \in 1 .. Len(checkPlugins) :
         checkPlugins[i] = Limiter /\ checkPlugins[j] = Limiter => i = j

\* The loop over the checks has passed the limiter.
PastLimiter(r) == \E i \in 1 .. cursor[r] - 1 : checkPlugins[i] = Limiter

\* What the limiter has decided of a call at each of its awaits.
VerdictOf(r) ==
    /\ verdict[r] \in Pending \cup {"none", "passed"}
    /\ pc[r] = "idle" => initBy[r] = {}
    /\ pc[r] \in {"idle", "authorizing", "authorized"} => verdict[r] = "none"
    /\ pc[r] \in {"idle", "authorized"} => cursor[r] = 0
    /\ pc[r] = "checking" =>
         /\ cursor[r] \in 1 .. Len(checkPlugins)
         /\ verdict[r] \in (IF checkPlugins[cursor[r]] = Limiter THEN Pending
                            ELSE IF PastLimiter(r) THEN {"passed"} ELSE {"none"})
    /\ pc[r] \in {"admitted", "backoff", "running", "succeeded"} =>
         verdict[r] = (IF LimiterAttached THEN "passed" ELSE "none")
    /\ pc[r] = "failed" => verdict[r] \in {"none", "passed", "rejecting"}

\* A call under way was told to the limiter if and only if it is attached.
SeenOf(r) == r \in Suspended => (SeenByLimiter(r) <=> LimiterAttached)

LimitedInv ==
    /\ ~cleared
    /\ LimiterListed
    /\ \A r \in Requests : VerdictOf(r) /\ SeenOf(r)
    /\ verdict \in [Requests -> Pending \cup {"none", "passed"}]

LEMMA LimitedInitial == LimitedInit => LimitedInv
BY DEF LimitedInit, Init, LimitedInv, LimiterListed, InSeq, LimiterAttached, LimiterSubs,
       VerdictOf, SeenOf, Suspended, Resting

\* Every step of the composition is one of the pipeline.
LEMMA LimitedIsPipeline == LimitedNext => [Next]_vars
BY DEF LimitedNext, Next, Configure, Continue, OtherSteps, LimitedExecute, LimitedEnterChecks,
       LimitedCheckPasses, LimitedCheckRejects, LimitedEnd

\* Removing the first occurrence of an element moves the later ones down.
LEMMA RemoveFirstShape ==
    ASSUME NEW S, NEW seq \in Seq(S), NEW e, InSeq(e, seq)
    PROVE  \E k \in 1 .. Len(seq) :
             /\ seq[k] = e
             /\ RemoveFirst(seq, e) \in Seq(S) /\ Len(RemoveFirst(seq, e)) = Len(seq) - 1
             /\ \A n \in 1 .. Len(seq) - 1 :
                  RemoveFirst(seq, e)[n] = IF n < k THEN seq[n] ELSE seq[n + 1]
<1> DEFINE I == {n \in 1 .. Len(seq) : seq[n] = e}
           k == Min(I)
<1>0. \E n \in 1 .. Len(seq) : seq[n] = e  BY DEF InSeq
<1>1. I # {} /\ I \in SUBSET Nat  BY <1>0
<1>2. k \in I  BY <1>1, MinNat
<1>3. SelectInSeq(seq, LAMBDA v : v = e) = k
  BY <1>1 DEF SelectInSeq
<1> HIDE DEF k
<1>4. k \in 1 .. Len(seq) /\ seq[k] = e  BY <1>2
<1> DEFINE left == SubSeq(seq, 1, k - 1)
           right == SubSeq(seq, k + 1, Len(seq))
<1>5. RemoveFirst(seq, e) = left \o right
  BY <1>0, <1>3 DEF RemoveFirst, RemoveAt
<1>6. /\ left \in Seq(S) /\ Len(left) = k - 1
      /\ \A n \in 1 .. k - 1 : left[n] = seq[n]
  BY <1>4
<1>7. /\ right \in Seq(S) /\ Len(right) = Len(seq) - k
      /\ \A n \in 1 .. Len(seq) - k : right[n] = seq[n + k]
  BY <1>4
<1> HIDE DEF left, right
<1>l. Len(seq) \in Nat /\ k \in Nat  BY <1>4
<1>8. Len(left \o right) = Len(seq) - 1 /\ left \o right \in Seq(S)
  <2>0. left \in Seq(S) /\ right \in Seq(S)  BY <1>6, <1>7
  <2>1. left \o right \in Seq(S)  BY <2>0
  <2>2. Len(left \o right) = Len(left) + Len(right)  BY <2>0
  <2> QED  BY <1>6, <1>7, <1>l, <2>1, <2>2
<1>9. ASSUME NEW n \in 1 .. Len(seq) - 1
      PROVE  (left \o right)[n] = IF n < k THEN seq[n] ELSE seq[n + 1]
  <2>1. CASE n < k
    <3>1. (left \o right)[n] = left[n]  BY <1>4, <1>6, <1>7, <2>1
    <3>2. n \in 1 .. k - 1  BY <1>l, <2>1
    <3> QED  BY <1>6, <2>1, <3>1, <3>2
  <2>2. CASE ~(n < k)
    <3>1. (left \o right)[n] = right[n - (k - 1)]  BY <1>4, <1>6, <1>7, <2>2
    <3>2. n - (k - 1) \in 1 .. Len(seq) - k  BY <1>4, <2>2
    <3>3. right[n - (k - 1)] = seq[n - (k - 1) + k]  BY <1>7, <3>2
    <3>4. n - (k - 1) + k = n + 1  BY <1>l
    <3> QED  BY <2>2, <3>1, <3>3, <3>4
  <2> QED  BY <2>1, <2>2
<1> QED  BY <1>4, <1>5, <1>8, <1>9

LEMMA ListedConfigure == TypeOK /\ LimiterListed /\ Configure /\ ~cleared' => LimiterListed'
<1> SUFFICES ASSUME TypeOK, LimiterListed, Configure, ~cleared' PROVE LimiterListed'
  OBVIOUS
<1>0. checkPlugins \in Seq(HasCheck) /\ sub \in [Subs -> {"unused", "on", "off"}]
  BY DEF TypeOK
<1>a. \A s \in Subs : PluginOf[s] = Limiter => LimiterSubs = {s}
  BY LimiterAssumption DEF LimiterSubs
<1>1. ASSUME NEW s \in Subs, Use(s) PROVE LimiterListed'
  <2>1. sub[s] = "unused" /\ sub' = [sub EXCEPT ![s] = "on"]  BY <1>1 DEF Use
  <2>2. CASE PluginOf[s] = Limiter
    <3>1. checkPlugins' = Append(checkPlugins, Limiter)
      BY <1>1, <2>2, LimiterAssumption DEF Use
    <3>2. ~LimiterAttached /\ LimiterAttached'
      BY <1>0, <1>a, <2>1, <2>2 DEF LimiterAttached
    <3>3. ~InSeq(Limiter, checkPlugins)  BY <3>2 DEF LimiterListed
    <3>4. /\ Len(checkPlugins') = Len(checkPlugins) + 1 /\ Len(checkPlugins) \in Nat
          /\ \A i \in 1 .. Len(checkPlugins) : checkPlugins'[i] = checkPlugins[i]
          /\ checkPlugins'[Len(checkPlugins) + 1] = Limiter
      BY <1>0, <3>1, AppendKeeps, LimiterAssumption
    <3>5. InSeq(Limiter, checkPlugins')  BY <3>4 DEF InSeq
    <3>6. \A i \in 1 .. Len(checkPlugins') : checkPlugins'[i] = Limiter => i = Len(checkPlugins')
      BY <3>3, <3>4 DEF InSeq
    <3> QED  BY <3>2, <3>5, <3>6 DEF LimiterListed
  <2>3. CASE PluginOf[s] # Limiter
    <3>1. LimiterAttached' <=> LimiterAttached
      BY <1>0, <2>1, <2>3 DEF LimiterAttached, LimiterSubs
    <3>2. CASE checkPlugins' = checkPlugins
      BY <3>1, <3>2 DEF LimiterListed
    <3>3. CASE PluginOf[s] \in HasCheck /\ checkPlugins' = Append(checkPlugins, PluginOf[s])
      <4>1. /\ Len(checkPlugins') = Len(checkPlugins) + 1 /\ Len(checkPlugins) \in Nat
            /\ \A i \in 1 .. Len(checkPlugins) : checkPlugins'[i] = checkPlugins[i]
            /\ checkPlugins'[Len(checkPlugins) + 1] # Limiter
        BY <1>0, <2>3, <3>3, AppendKeeps
      <4>2. InSeq(Limiter, checkPlugins') <=> InSeq(Limiter, checkPlugins)
        BY <4>1 DEF InSeq
      <4> QED  BY <3>1, <4>1, <4>2 DEF LimiterListed
    <3> QED  BY <1>1, <3>2, <3>3 DEF Use
  <2> QED  BY <2>2, <2>3
<1>2. ASSUME NEW s \in Subs, Unsubscribe(s) PROVE LimiterListed'
  <2>1. /\ sub' = [sub EXCEPT ![s] = "off"]
        /\ checkPlugins' = RemoveFirst(checkPlugins, PluginOf[s])
    BY <1>2 DEF Unsubscribe
  <2>2. CASE ~InSeq(PluginOf[s], checkPlugins)
    <3>1. checkPlugins' = checkPlugins  BY <2>1, <2>2 DEF RemoveFirst, InSeq
    <3>2. LimiterAttached' <=> LimiterAttached
      BY <1>0, <1>a, <2>1, <2>2 DEF LimiterAttached, LimiterListed, LimiterSubs
    <3> QED  BY <3>1, <3>2 DEF LimiterListed
  <2>3. CASE InSeq(PluginOf[s], checkPlugins)
    <3>1. PICK k \in 1 .. Len(checkPlugins) :
             /\ checkPlugins[k] = PluginOf[s]
             /\ checkPlugins' \in Seq(HasCheck) /\ Len(checkPlugins') = Len(checkPlugins) - 1
             /\ \A n \in 1 .. Len(checkPlugins) - 1 :
                  checkPlugins'[n] = IF n < k THEN checkPlugins[n] ELSE checkPlugins[n + 1]
      BY <1>0, <2>1, <2>3, RemoveFirstShape
    <3>2. Len(checkPlugins) \in Nat  BY <1>0
    <3>3. \A i, j \in 1 .. Len(checkPlugins') :
             checkPlugins'[i] = Limiter /\ checkPlugins'[j] = Limiter => i = j
      <4> SUFFICES ASSUME NEW i \in 1 .. Len(checkPlugins'), NEW j \in 1 .. Len(checkPlugins'),
                          checkPlugins'[i] = Limiter, checkPlugins'[j] = Limiter
                   PROVE  i = j
        OBVIOUS
      <4> DEFINE at(n) == IF n < k THEN n ELSE n + 1
      <4>1. at(i) \in 1 .. Len(checkPlugins) /\ checkPlugins[at(i)] = Limiter
        BY <3>1, <3>2
      <4>2. at(j) \in 1 .. Len(checkPlugins) /\ checkPlugins[at(j)] = Limiter
        BY <3>1, <3>2
      <4>3. at(i) = at(j)  BY <4>1, <4>2 DEF LimiterListed
      <4> QED  BY <3>1, <3>2, <4>3
    <3>4. CASE PluginOf[s] = Limiter
      <4>1. ~LimiterAttached'  BY <1>0, <1>a, <2>1, <3>4 DEF LimiterAttached
      <4>2. ~InSeq(Limiter, checkPlugins')
        <5> SUFFICES ASSUME NEW n \in 1 .. Len(checkPlugins'), checkPlugins'[n] = Limiter
                     PROVE  FALSE
          BY DEF InSeq
        <5> DEFINE at == IF n < k THEN n ELSE n + 1
        <5>0. at \in 1 .. Len(checkPlugins) /\ at # k  BY <3>1, <3>2
        <5>1. checkPlugins[at] = Limiter  BY <3>1, <3>2
        <5> HIDE DEF at
        <5> QED  BY <3>1, <3>4, <5>0, <5>1 DEF LimiterListed
      <4> QED  BY <3>3, <4>1, <4>2 DEF LimiterListed
    <3>5. CASE PluginOf[s] # Limiter
      <4>1. LimiterAttached' <=> LimiterAttached
        BY <1>0, <2>1, <3>5 DEF LimiterAttached, LimiterSubs
      <4>2. InSeq(Limiter, checkPlugins) => InSeq(Limiter, checkPlugins')
        BY <1>0, <2>1, <3>5, RemoveFirstKeeps
      <4>3. InSeq(Limiter, checkPlugins') => InSeq(Limiter, checkPlugins)
        BY <3>1, <3>2 DEF InSeq
      <4> QED  BY <3>3, <4>1, <4>2, <4>3 DEF LimiterListed
    <3> QED  BY <3>4, <3>5
  <2> QED  BY <2>2, <2>3
<1>3. ASSUME NEW h \in Hooks, RegisterAuthorization(h) PROVE LimiterListed'
  BY <1>3 DEF RegisterAuthorization, LimiterListed, LimiterAttached
<1> QED  BY <1>1, <1>2, <1>3 DEF Configure, Clear

LimiterStep(r) ==
    \/ LimitedExecute(r) \/ LimitedEnterChecks(r)
    \/ LimitedCheckPasses(r) \/ LimitedCheckRejects(r) \/ LimitedEnd(r)
    \/ OtherSteps(r) /\ UNCHANGED limiter

\* The limiter was reached by the loop, at its cursor or before.
ReachedLimiter(r) == \E i \in 1 .. cursor[r] : checkPlugins[i] = Limiter

\* The loop moves on to the limiter, to another plugin or out of the array.
LEMMA AdvanceVerdict ==
    ASSUME TypeOK, LimitedInv, NEW r \in Requests, UNCHANGED <<sub, checkPlugins, initBy>>,
           Advance(r, checkPlugins, checked, "checking", "admitted"),
           NEW decided, ReachPlugin(r, decided),
           cursor[r] \in 0 .. Len(checkPlugins),
           decided = IF ReachedLimiter(r) THEN "passed" ELSE "none"
    PROVE  VerdictOf(r)'
<1> DEFINE n == cursor[r] + 1
<1>1. Len(checkPlugins) \in Nat /\ cursor[r] \in Nat  BY DEF TypeOK
<1>2. verdict \in [Requests -> Pending \cup {"none", "passed"}]  BY DEF LimitedInv
<1>3. CASE n <= Len(checkPlugins)
  <2>1. cursor'[r] = n /\ pc'[r] = "checking"  BY <1>3 DEF Advance, TypeOK
  <2>2. n \in 1 .. Len(checkPlugins)  BY <1>1, <1>3
  <2>3. CASE checkPlugins[n] = Limiter
    <3>1. verdict'[r] \in Pending  BY <1>2, <2>1, <2>3 DEF ReachPlugin, Verdict, Pending
    <3> QED  BY <2>1, <2>2, <2>3, <3>1 DEF VerdictOf
  <2>4. CASE checkPlugins[n] # Limiter
    <3>1. verdict'[r] = decided  BY <1>2, <2>1, <2>4 DEF ReachPlugin
    <3>2. PastLimiter(r)' <=> ReachedLimiter(r)
      BY <1>1, <2>1 DEF PastLimiter, ReachedLimiter
    <3> QED  BY <2>1, <2>2, <2>4, <3>1, <3>2 DEF VerdictOf
  <2> QED  BY <2>3, <2>4
<1>4. CASE ~(n <= Len(checkPlugins))
  <2>1. pc'[r] = "admitted"  BY <1>4 DEF Advance, TypeOK
  <2>2. verdict'[r] = decided  BY <1>2, <2>1 DEF ReachPlugin
  <2>3. cursor[r] = Len(checkPlugins)  BY <1>1, <1>4
  <2>4. ReachedLimiter(r) <=> LimiterAttached
    BY <2>3 DEF ReachedLimiter, LimitedInv, LimiterListed, InSeq
  <2>5. LimiterAttached' <=> LimiterAttached  BY DEF LimiterAttached
  <2> QED  BY <2>1, <2>2, <2>4, <2>5 DEF VerdictOf
<1> QED  BY <1>3, <1>4

\* A step of a call keeps what the limiter knows of it.
LEMMA VerdictStep ==
    ASSUME TypeOK, LimitedInv, NEW r \in Requests, LimiterStep(r)
    PROVE  VerdictOf(r)' /\ SeenOf(r)'
<1> USE DEF config, limiter
<1>0. /\ VerdictOf(r) /\ SeenOf(r) /\ ~cleared
      /\ verdict \in [Requests -> Pending \cup {"none", "passed"}]
  BY DEF LimitedInv
<1>1. CASE LimitedExecute(r)
  <2>1. /\ pc[r] = "idle" /\ initBy'[r] = Attached /\ verdict' = verdict
        /\ UNCHANGED <<sub, checkPlugins>>
    BY <1>1 DEF LimitedExecute, Execute, TypeOK
  <2>2. verdict'[r] = "none" /\ cursor[r] = 0  BY <1>0, <2>1 DEF VerdictOf
  <2>3. /\ pc'[r] \in {"authorizing", "authorized", "failed"}
        /\ pc'[r] = "authorized" => cursor'[r] = 0
    BY <1>1, <2>2 DEF LimitedExecute, Execute, Advance, TypeOK
  <2>4. SeenByLimiter(r)' <=> LimiterAttached'
    BY <2>1 DEF SeenByLimiter, LimiterAttached, Attached, LimiterSubs
  <2> QED  BY <2>2, <2>3, <2>4 DEF VerdictOf, SeenOf, Pending
<1>a. ASSUME pc[r] \notin Resting, UNCHANGED <<sub, initBy>> PROVE SeenOf(r)'
  BY <1>0, <1>a DEF SeenOf, Suspended, SeenByLimiter, LimiterAttached, LimiterSubs
<1>2. CASE LimitedEnterChecks(r)
  <2>1. /\ Advance(r, checkPlugins, checked, "checking", "admitted")
        /\ UNCHANGED <<sub, checkPlugins, initBy>> /\ pc[r] = "authorized"
        /\ ReachPlugin(r, verdict[r])
    BY <1>0, <1>2 DEF LimitedEnterChecks, EnterChecks
  <2>2. cursor[r] = 0 /\ verdict[r] = "none"  BY <1>0, <2>1 DEF VerdictOf
  <2>3. ~ReachedLimiter(r) /\ cursor[r] \in 0 .. Len(checkPlugins)
    BY <2>2 DEF ReachedLimiter, TypeOK
  <2>4. VerdictOf(r)'  BY <2>1, <2>2, <2>3, AdvanceVerdict
  <2> QED  BY <1>a, <2>1, <2>4 DEF Resting
<1>3. CASE LimitedCheckPasses(r)
  <2> DEFINE decided == IF verdict[r] \in Pending THEN "passed" ELSE verdict[r]
  <2>1. /\ Advance(r, checkPlugins, checked, "checking", "admitted")
        /\ UNCHANGED <<sub, checkPlugins, initBy>> /\ pc[r] = "checking"
        /\ ReachPlugin(r, decided)
    BY <1>3 DEF LimitedCheckPasses, CheckPasses
  <2>2. cursor[r] \in 1 .. Len(checkPlugins)  BY <1>0, <2>1 DEF VerdictOf
  <2>3. Len(checkPlugins) \in Nat  BY DEF TypeOK
  <2>4. ReachedLimiter(r) <=> checkPlugins[cursor[r]] = Limiter \/ PastLimiter(r)
    BY <2>2, <2>3 DEF ReachedLimiter, PastLimiter
  <2>5. decided = IF ReachedLimiter(r) THEN "passed" ELSE "none"
    BY <1>0, <2>1, <2>4 DEF VerdictOf, Pending
  <2>6. cursor[r] \in 0 .. Len(checkPlugins)  BY <2>2, <2>3
  <2> HIDE DEF decided
  <2>7. VerdictOf(r)'  BY <2>1, <2>5, <2>6, AdvanceVerdict
  <2> QED  BY <1>a, <2>1, <2>7 DEF Resting
<1>4. CASE LimitedCheckRejects(r)
  <2>1. /\ pc[r] = "checking" /\ pc'[r] = "failed" /\ UNCHANGED <<sub, initBy>>
        /\ verdict'[r] = IF verdict[r] \in Pending THEN "rejecting" ELSE verdict[r]
    BY <1>0, <1>4 DEF LimitedCheckRejects, CheckRejects, TypeOK
  <2>2. VerdictOf(r)'  BY <1>0, <2>1 DEF VerdictOf, Pending
  <2> QED  BY <1>a, <2>1, <2>2 DEF Resting
<1>5. CASE LimitedEnd(r)
  <2>1. pc'[r] = "ended" /\ verdict' = verdict
    BY <1>5 DEF LimitedEnd, End, TypeOK
  <2> QED  BY <1>0, <2>1 DEF VerdictOf, SeenOf, Suspended, Resting
<1>6. CASE OtherSteps(r) /\ UNCHANGED limiter
  <2>1. UNCHANGED <<sub, initBy, verdict>>
    BY <1>6 DEF OtherSteps, HookAllows, HookDenies, Attempt, QueryResolves, QueryRejects
  <2>2. CASE HookAllows(r)
    <3>1. /\ pc[r] = "authorizing" /\ pc'[r] \in {"authorizing", "authorized"}
          /\ pc'[r] = "authorized" => cursor'[r] = 0
      BY <2>2 DEF HookAllows, Advance, TypeOK
    <3>2. VerdictOf(r)'  BY <1>0, <2>1, <3>1 DEF VerdictOf, Pending
    <3> QED  BY <1>a, <2>1, <3>1, <3>2 DEF Resting
  <2>3. CASE HookDenies(r)
    <3>1. pc[r] = "authorizing" /\ pc'[r] = "failed"  BY <2>3 DEF HookDenies, TypeOK
    <3>2. VerdictOf(r)'  BY <1>0, <2>1, <3>1 DEF VerdictOf
    <3> QED  BY <1>a, <2>1, <3>1, <3>2 DEF Resting
  <2>4. CASE Attempt(r) \/ QueryResolves(r) \/ QueryRejects(r)
    <3>1. /\ pc[r] \in {"admitted", "backoff", "running"}
          /\ pc'[r] \in {"backoff", "running", "succeeded", "failed"}
      BY <2>4 DEF Attempt, QueryResolves, QueryRejects, AttemptFails, TypeOK
    <3>2. LimiterAttached' <=> LimiterAttached  BY <2>1 DEF LimiterAttached
    <3>3. VerdictOf(r)'  BY <1>0, <2>1, <3>1, <3>2 DEF VerdictOf
    <3> QED  BY <1>a, <2>1, <3>1, <3>3 DEF Resting
  <2> QED  BY <1>6, <2>2, <2>3, <2>4 DEF OtherSteps
<1> QED  BY <1>1, <1>2, <1>3, <1>4, <1>5, <1>6 DEF LimiterStep

\* What a step of one call leaves alone.
LEMMA LimiterFrame ==
    ASSUME TypeOK, LimitedInv, NEW r \in Requests, LimiterStep(r)
    PROVE  /\ UNCHANGED config
           /\ verdict' \in [Requests -> Pending \cup {"none", "passed"}]
           /\ \A q \in Requests \ {r} :
                /\ pc'[q] = pc[q] /\ cursor'[q] = cursor[q]
                /\ initBy'[q] = initBy[q] /\ verdict'[q] = verdict[q]
<1>0. /\ verdict \in [Requests -> Pending \cup {"none", "passed"}]
      /\ VerdictOf(r)
  BY DEF LimitedInv
<1>1. Execute(r) \/ Continue(r)
  BY DEF LimiterStep, OtherSteps, Continue, LimitedExecute, LimitedEnterChecks,
         LimitedCheckPasses, LimitedCheckRejects, LimitedEnd
<1>2. UNCHANGED config
  BY <1>1 DEF Execute, Continue, HookAllows, HookDenies, EnterChecks,
              CheckPasses, CheckRejects, Attempt, QueryResolves, QueryRejects, End
<1>3. \E v \in Pending \cup {"none", "passed"} : verdict' = [verdict EXCEPT ![r] = v]
  <2>1. Verdict(r) \in Pending  BY DEF Verdict, Pending
  <2>2. verdict[r] \in Pending \cup {"none", "passed"}  BY <1>0
  <2>3. verdict' = verdict => verdict' = [verdict EXCEPT ![r] = verdict[r]]  BY <1>0
  <2>4. CASE LimitedExecute(r) \/ LimitedEnd(r) \/ (OtherSteps(r) /\ UNCHANGED limiter)
    BY <2>2, <2>3, <2>4 DEF LimitedExecute, LimitedEnd, limiter
  <2>5. CASE LimitedEnterChecks(r)
    BY <2>1, <2>2, <2>5 DEF LimitedEnterChecks, ReachPlugin
  <2>6. CASE LimitedCheckPasses(r)
    <3>1. (IF verdict[r] \in Pending THEN "passed" ELSE verdict[r])
             \in Pending \cup {"none", "passed"}
      BY <2>2
    <3> QED  BY <2>1, <2>6, <3>1 DEF LimitedCheckPasses, ReachPlugin
  <2>7. CASE LimitedCheckRejects(r)
    <3>1. verdict' = [verdict EXCEPT ![r] =
                        IF verdict[r] \in Pending THEN "rejecting" ELSE verdict[r]]
      BY <1>0, <2>7 DEF LimitedCheckRejects
    <3> QED  BY <2>2, <3>1 DEF Pending
  <2> QED  BY <2>4, <2>5, <2>6, <2>7 DEF LimiterStep
<1> QED  BY <1>0, <1>1, <1>2, <1>3, StepFrame, PairFrame

LEMMA LimitedConfigure ==
    ASSUME AtRest, TypeOK, LimitedInv, UNCHANGED limiter,
           \/ \E s \in Subs : Use(s) \/ Unsubscribe(s)
           \/ \E h \in Hooks : RegisterAuthorization(h)
    PROVE  LimitedInv' /\ UNCHANGED progress
<1>1. UNCHANGED progress /\ ~cleared' /\ \A r \in Requests : pc[r] \in Resting
  BY DEF Use, Unsubscribe, RegisterAuthorization, Configurable, AtRest, LimitedInv
<1>2. LimiterListed'  BY <1>1, ListedConfigure DEF Configure, LimitedInv
<1>3. ASSUME NEW r \in Requests PROVE VerdictOf(r)' /\ SeenOf(r)'
  <2>1. VerdictOf(r)  BY DEF LimitedInv
  <2> QED  BY <1>1, <2>1 DEF VerdictOf, SeenOf, Suspended, Resting, progress, limiter
<1> QED  BY <1>1, <1>2, <1>3 DEF LimitedInv, limiter

LEMMA LimitedStep ==
    AtRest /\ TypeOK /\ LimitedInv /\ [LimitedNext]_<<vars, limiter>> => LimitedInv'
<1> SUFFICES ASSUME AtRest, TypeOK, LimitedInv, [LimitedNext]_<<vars, limiter>>
             PROVE  LimitedInv'
  OBVIOUS
<1>1. ASSUME NEW r \in Requests, LimiterStep(r) PROVE LimitedInv'
  <2>1. /\ UNCHANGED <<sub, checkPlugins, cleared>>
        /\ verdict' \in [Requests -> Pending \cup {"none", "passed"}]
    BY <1>1, LimiterFrame DEF config
  <2>2. LimiterListed' /\ (LimiterAttached' <=> LimiterAttached)
    BY <2>1 DEF LimitedInv, LimiterListed, LimiterAttached
  <2>3. ASSUME NEW q \in Requests \ {r} PROVE VerdictOf(q)' /\ SeenOf(q)'
    <3>1. /\ pc'[q] = pc[q] /\ cursor'[q] = cursor[q]
          /\ initBy'[q] = initBy[q] /\ verdict'[q] = verdict[q]
      BY <1>1, LimiterFrame
    <3>2. VerdictOf(q) /\ SeenOf(q)  BY DEF LimitedInv
    <3>3. PastLimiter(q)' <=> PastLimiter(q)  BY <2>1, <3>1 DEF PastLimiter
    <3>4. VerdictOf(q)'  BY <2>1, <2>2, <3>1, <3>2, <3>3 DEF VerdictOf
    <3>5. SeenOf(q)'  BY <2>2, <3>1, <3>2 DEF SeenOf, SeenByLimiter, Suspended
    <3> QED  BY <3>4, <3>5
  <2> QED  BY <1>1, <2>1, <2>2, <2>3, VerdictStep DEF LimitedInv
<1>2. CASE UNCHANGED <<vars, verdict>>
  BY <1>2 DEF LimitedInv, LimiterListed, LimiterAttached, VerdictOf, SeenOf, SeenByLimiter,
              PastLimiter, Suspended, vars, config, progress
<1> QED  BY <1>1, <1>2, LimitedConfigure DEF LimitedNext, LimiterStep, limiter

LEMMA LimitedInvariant == AtRest /\ LimitedSpec => [](TypeOK /\ LimitedInv)
<1>1. LimitedInit => Init  BY DEF LimitedInit
<1>2. [LimitedNext]_<<vars, limiter>> => [Next]_vars  BY LimitedIsPipeline
<1>3. LimitedSpec => Spec  BY <1>1, <1>2, PTL DEF LimitedSpec, Spec
<1>4. CASE AtRest
  <2>1. TypeOK /\ LimitedInv /\ [LimitedNext]_<<vars, limiter>> => LimitedInv'
    BY <1>4, LimitedStep
  <2> QED  BY <1>3, <2>1, LimitedInitial, TypeCorrect, PTL DEF LimitedSpec
<1>5. CASE ~AtRest
  BY <1>5, PTL
<1> QED  BY <1>4, <1>5

-----------------------------------------------------------------------------
(* The refinement mapping: the stage of each call in the limiter.          *)

stageBar == [r \in Requests |-> LimiterStage(r)]

LEMMA StageSame ==
    ASSUME NEW r, pc'[r] = "ended" <=> pc[r] = "ended", initBy'[r] = initBy[r],
           verdict'[r] = verdict[r]
    PROVE  LimiterStage(r)' = LimiterStage(r)
BY DEF LimiterStage, SeenByLimiter

LEMMA StageMove ==
    ASSUME TypeOK, LimitedInv, NEW r \in Requests, LimiterStep(r)
    PROVE  stageBar' = [stageBar EXCEPT ![r] = LimiterStage(r)']
<1>1. ASSUME NEW q \in Requests \ {r} PROVE LimiterStage(q)' = LimiterStage(q)
  BY LimiterFrame, StageSame
<1> QED  BY <1>1 DEF stageBar

LEMMA LimiterInit == LimitedInit => RL!Init
BY DEF LimitedInit

\* The limiter's check() is called when the loop reaches it.
LEMMA ReachLimiter ==
    ASSUME TypeOK, LimitedInv, NEW r \in Requests, LimiterStep(r),
           pc[r] \in {"authorized", "checking"}, verdict[r] = "none",
           UNCHANGED <<qm, now, initBy>>, NEW decided, ReachPlugin(r, decided),
           pc'[r] = "checking", cursor'[r] \in 1 .. Len(checkPlugins),
           checkPlugins[cursor'[r]] = Limiter
    PROVE  RL!Check(r)
<1>1. SeenByLimiter(r)
  BY DEF LimitedInv, SeenOf, Suspended, Resting, LimiterListed, InSeq
<1>2. SeenByLimiter(r)' /\ LimiterStage(r) = "open"
  BY <1>1 DEF LimiterStage, SeenByLimiter
<1>3. cm' = RL!Swept /\ verdict'[r] = Verdict(r)
  BY DEF ReachPlugin, LimitedInv
<1>4. LimiterStage(r)' = IF RL!OverQueryLimit(r) \/ RL!OverContextLimit(r) THEN "rejected"
                         ELSE IF HasLimitHook THEN "limiting" ELSE "admitted"
  BY <1>2, <1>3 DEF LimiterStage, Verdict
<1> QED  BY <1>2, <1>3, <1>4, StageMove DEF RL!Check, RL!Goto, stageBar

\* Each step of a call is a step of the limiter or invisible to it.
LEMMA LimiterStepMaps ==
    ASSUME TypeOK, LimitedInv, NEW r \in Requests, LimiterStep(r)
    PROVE  RL!Next \/ UNCHANGED <<qm, cm, now, stageBar>>
<1> USE DEF RL!Goto
<1>0. /\ VerdictOf(r) /\ SeenOf(r) /\ ~cleared /\ LimiterListed
      /\ verdict \in [Requests -> Pending \cup {"none", "passed"}]
  BY DEF LimitedInv
<1>1. stageBar[r] = LimiterStage(r) /\ stageBar' = [stageBar EXCEPT ![r] = LimiterStage(r)']
  BY StageMove DEF stageBar
<1>2. LimiterStage(r)' = LimiterStage(r) => stageBar' = stageBar
  BY <1>1 DEF stageBar
<1>3. CASE LimitedExecute(r)
  <2>1. /\ pc[r] = "idle" /\ pc'[r] \in {"authorizing", "authorized", "failed"}
        /\ verdict' = verdict /\ now' = now
    BY <1>3 DEF LimitedExecute, Execute, Advance, TypeOK
  <2>2. ~SeenByLimiter(r) /\ verdict[r] = "none"
    BY <1>0, <2>1 DEF VerdictOf, SeenByLimiter
  <2>3. CASE SeenByLimiter(r)'
    <3>1. LimiterStage(r) = "idle" /\ LimiterStage(r)' = "open"
      BY <2>1, <2>2, <2>3 DEF LimiterStage
    <3>2. RL!CountIn(r)  BY <1>3, <2>3 DEF LimitedExecute
    <3>3. RL!Open(r)  BY <1>1, <2>1, <3>1, <3>2 DEF RL!Open, stageBar
    <3> QED  BY <3>3 DEF RL!Next
  <2>4. CASE ~SeenByLimiter(r)'
    <3>1. LimiterStage(r)' = LimiterStage(r)  BY <2>2, <2>4 DEF LimiterStage
    <3> QED  BY <1>2, <1>3, <2>1, <2>4, <3>1 DEF LimitedExecute
  <2> QED  BY <2>3, <2>4
<1>4. CASE LimitedEnterChecks(r)
  <2>1. /\ Advance(r, checkPlugins, checked, "checking", "admitted")
        /\ UNCHANGED <<qm, now, initBy>> /\ pc[r] = "authorized"
        /\ ReachPlugin(r, verdict[r])
    BY <1>0, <1>4 DEF LimitedEnterChecks, EnterChecks
  <2>2. cursor[r] = 0 /\ verdict[r] = "none"  BY <1>0, <2>1 DEF VerdictOf
  <2>3. /\ pc'[r] \in {"checking", "admitted"}
        /\ pc'[r] = "checking" => cursor'[r] \in 1 .. Len(checkPlugins)
    BY <2>1, <2>2 DEF Advance, TypeOK
  <2>4. CASE pc'[r] = "checking" /\ checkPlugins[cursor'[r]] = Limiter
    <3>1. RL!Check(r)  BY <1>4, <2>1, <2>2, <2>3, <2>4, ReachLimiter DEF LimiterStep
    <3> QED  BY <3>1 DEF RL!Next
  <2>5. CASE ~(pc'[r] = "checking" /\ checkPlugins[cursor'[r]] = Limiter)
    <3>1. cm' = cm /\ verdict'[r] = verdict[r]  BY <1>0, <2>1, <2>5 DEF ReachPlugin
    <3>2. LimiterStage(r)' = LimiterStage(r)  BY <2>1, <2>3, <3>1, StageSame
    <3> QED  BY <1>2, <2>1, <3>1, <3>2
  <2> QED  BY <2>4, <2>5
<1>5. CASE LimitedCheckPasses(r)
  <2> DEFINE decided == IF verdict[r] \in Pending THEN "passed" ELSE verdict[r]
  <2>1. /\ Advance(r, checkPlugins, checked, "checking", "admitted")
        /\ UNCHANGED <<qm, now, initBy>> /\ pc[r] = "checking"
        /\ ReachPlugin(r, decided) /\ verdict[r] # "rejecting"
    BY <1>5 DEF LimitedCheckPasses, CheckPasses
  <2>2. cursor[r] \in 1 .. Len(checkPlugins) /\ Len(checkPlugins) \in Nat
    BY <1>0, <2>1 DEF VerdictOf, TypeOK
  <2>3. /\ pc'[r] \in {"checking", "admitted"}
        /\ pc'[r] = "checking" => /\ cursor'[r] = cursor[r] + 1
                                  /\ cursor'[r] \in 1 .. Len(checkPlugins)
    BY <2>1, <2>2 DEF Advance, TypeOK
  <2>4. CASE pc'[r] = "checking" /\ checkPlugins[cursor'[r]] = Limiter
    <3>1. \A i \in 1 .. cursor[r] : checkPlugins[i] # Limiter
      BY <1>0, <2>2, <2>3, <2>4 DEF LimiterListed
    <3>2. verdict[r] = "none"
      BY <1>0, <2>1, <2>2, <3>1 DEF VerdictOf, PastLimiter
    <3>3. RL!Check(r)  BY <1>5, <2>1, <2>3, <2>4, <3>2, ReachLimiter DEF LimiterStep
    <3> QED  BY <3>3 DEF RL!Next
  <2>5. CASE ~(pc'[r] = "checking" /\ checkPlugins[cursor'[r]] = Limiter)
    <3>1. cm' = cm /\ verdict'[r] = decided  BY <1>0, <2>1, <2>5 DEF ReachPlugin
    <3>2. CASE verdict[r] \notin Pending
      <4>1. LimiterStage(r)' = LimiterStage(r)  BY <2>1, <2>3, <3>1, <3>2, StageSame
      <4> QED  BY <1>2, <2>1, <3>1, <4>1
    <3>3. CASE verdict[r] \in Pending
      <4>1. checkPlugins[cursor[r]] = Limiter
        BY <1>0, <2>1, <3>3 DEF VerdictOf, Pending
      <4>2. SeenByLimiter(r)
        BY <1>0, <2>1, <2>2, <4>1 DEF SeenOf, Suspended, Resting, LimiterListed, InSeq
      <4>3. SeenByLimiter(r)' /\ LimiterStage(r)' = "admitted"
        BY <2>1, <2>3, <3>1, <3>3, <4>2 DEF LimiterStage, SeenByLimiter
      <4>4. CASE verdict[r] = "asking"
        <5>1. LimiterStage(r) = "limiting"  BY <2>1, <4>2, <4>4 DEF LimiterStage
        <5>2. RL!LimitHook(r)  BY <1>1, <2>1, <3>1, <4>3, <5>1 DEF RL!LimitHook, stageBar
        <5> QED  BY <5>2 DEF RL!Next
      <4>5. CASE verdict[r] = "passing"
        <5>1. LimiterStage(r) = "admitted"  BY <2>1, <4>2, <4>5 DEF LimiterStage
        <5> QED  BY <1>2, <2>1, <3>1, <4>3, <5>1
      <4> QED  BY <2>1, <3>3, <4>4, <4>5 DEF Pending
    <3> QED  BY <3>2, <3>3
  <2> QED  BY <2>4, <2>5
<1>6. CASE LimitedCheckRejects(r)
  <2>1. /\ pc[r] = "checking" /\ pc'[r] = "failed" /\ UNCHANGED <<qm, cm, now, initBy>>
        /\ verdict'[r] = IF verdict[r] \in Pending THEN "rejecting" ELSE verdict[r]
        /\ verdict[r] # "passing"
    BY <1>0, <1>6 DEF LimitedCheckRejects, CheckRejects, TypeOK
  <2>2. CASE verdict[r] # "asking"
    <3>1. verdict'[r] = verdict[r]  BY <2>1, <2>2 DEF Pending
    <3>2. LimiterStage(r)' = LimiterStage(r)  BY <2>1, <3>1, StageSame
    <3> QED  BY <1>2, <2>1, <3>2
  <2>3. CASE verdict[r] = "asking"
    <3>1. cursor[r] \in 1 .. Len(checkPlugins) /\ checkPlugins[cursor[r]] = Limiter
      BY <1>0, <2>1, <2>3 DEF VerdictOf
    <3>2. SeenByLimiter(r) /\ SeenByLimiter(r)'
      BY <1>0, <2>1, <3>1
         DEF SeenOf, Suspended, Resting, LimiterListed, InSeq, SeenByLimiter
    <3>3. LimiterStage(r) = "limiting" /\ LimiterStage(r)' = "rejected"
      BY <2>1, <2>3, <3>2 DEF LimiterStage, Pending
    <3>4. RL!LimitHook(r)  BY <1>1, <2>1, <3>3 DEF RL!LimitHook, stageBar
    <3> QED  BY <3>4 DEF RL!Next
  <2> QED  BY <2>2, <2>3
<1>7. CASE LimitedEnd(r)
  <2>1. /\ pc[r] \in {"succeeded", "failed"} /\ pc'[r] = "ended" /\ initBy' = initBy
        /\ endBy'[r] = Attached /\ UNCHANGED <<verdict, now>>
    BY <1>0, <1>7 DEF LimitedEnd, End, TypeOK
  <2>2. endBy'[r] \cap LimiterSubs # {} <=> SeenByLimiter(r)
    BY <1>0, <2>1 DEF SeenOf, Suspended, Resting, LimiterAttached, LimiterSubs, Attached
  <2>3. CASE SeenByLimiter(r)
    <3>1. SeenByLimiter(r)' /\ LimiterStage(r)' = "ended"
      BY <2>1, <2>3 DEF SeenByLimiter, LimiterStage
    <3>2. verdict[r] \in {"none", "passed", "rejecting"}
      BY <1>0, <2>1 DEF VerdictOf
    <3>3. LimiterStage(r) \in {"open", "rejected", "admitted"}
      BY <2>1, <2>3, <3>2 DEF LimiterStage
    <3>4. RL!CountOut(r)  BY <1>7, <2>2, <2>3 DEF LimitedEnd
    <3>5. RL!End(r)  BY <1>1, <2>1, <3>1, <3>3, <3>4 DEF RL!End, stageBar
    <3> QED  BY <3>5 DEF RL!Next
  <2>4. CASE ~SeenByLimiter(r)
    <3>1. UNCHANGED <<qm, cm>>  BY <1>7, <2>2, <2>4 DEF LimitedEnd
    <3>2. LimiterStage(r)' = LimiterStage(r)
      BY <2>1, <2>4 DEF LimiterStage, SeenByLimiter
    <3> QED  BY <1>2, <2>1, <3>1, <3>2
  <2> QED  BY <2>3, <2>4
<1>8. CASE OtherSteps(r) /\ UNCHANGED limiter
  <2>1. UNCHANGED <<initBy, verdict, qm, cm, now>> /\ pc[r] # "ended" /\ pc'[r] # "ended"
    BY <1>8 DEF OtherSteps, HookAllows, HookDenies, Attempt, QueryResolves, QueryRejects,
                AttemptFails, Advance, TypeOK, limiter
  <2>2. LimiterStage(r)' = LimiterStage(r)  BY <2>1, StageSame
  <2> QED  BY <1>2, <2>1, <2>2
<1> QED  BY <1>3, <1>4, <1>5, <1>6, <1>7, <1>8 DEF LimiterStep

LEMMA LimiterNext ==
    AtRest /\ TypeOK /\ LimitedInv /\ [LimitedNext]_<<vars, limiter>>
      => [RL!Next]_<<qm, cm, now, stageBar>>
<1> SUFFICES ASSUME AtRest, TypeOK, LimitedInv, [LimitedNext]_<<vars, limiter>>
             PROVE  RL!Next \/ UNCHANGED <<qm, cm, now, stageBar>>
  OBVIOUS
<1>1. ASSUME UNCHANGED progress, verdict' = verdict PROVE stageBar' = stageBar
  BY <1>1 DEF progress, stageBar, LimiterStage, SeenByLimiter
<1>2. CASE /\ \/ \E s \in Subs : Use(s) \/ Unsubscribe(s)
              \/ \E h \in Hooks : RegisterAuthorization(h)
           /\ UNCHANGED limiter
  BY <1>1, <1>2, LimitedConfigure DEF limiter
<1>3. CASE UNCHANGED <<vars, verdict>> /\ RL!Tick
  BY <1>3 DEF RL!Next
<1>4. CASE UNCHANGED <<vars, limiter>>
  BY <1>1, <1>4 DEF vars, limiter
<1> QED  BY <1>2, <1>3, <1>4, LimiterStepMaps DEF LimitedNext, LimiterStep

\* Configured at rest, the pipeline drives a rate limiter as RateLimiter
\* assumes: init() first, one check(), end() exactly once and last, and what
\* the limiter decides is what the loop over checkPlugins acts on.
THEOREM ImplementsLimiterCorrect == AtRest /\ LimitedSpec => ImplementsLimiter
<1>1. RL!Spec <=> RL!Init /\ [][RL!Next]_<<qm, cm, now, stageBar>>
  BY DEF RL!Spec, RL!vars, stageBar
<1>2. CASE AtRest
  <2>1. TypeOK /\ LimitedInv /\ [LimitedNext]_<<vars, limiter>>
          => [RL!Next]_<<qm, cm, now, stageBar>>
    BY <1>2, LimiterNext
  <2>2. LimitedSpec => [](TypeOK /\ LimitedInv)  BY <1>2, LimitedInvariant
  <2> QED
    BY <1>1, <2>1, <2>2, LimiterInit, PTL DEF LimitedSpec, ImplementsLimiter
<1>3. CASE ~AtRest
  BY <1>3, PTL
<1> QED  BY <1>2, <1>3

-----------------------------------------------------------------------------
(* The limit of a limiter in a pipeline.                                   *)

\* The calls of a query that the limiter counts, and those past its limits.
CallsOf(q) == {r \in Requests : stageBar[r] \notin {"idle", "ended"} /\ QueryOf[r] = q}
PassedOf(q) == {r \in CallsOf(q) : stageBar[r] \in {"limiting", "admitted"}}

LimitInv ==
    /\ qm \in [Queries -> RL!Metrics]
    /\ \A q \in Queries :
         /\ qm[q].inFlight = Cardinality(CallsOf(q))
         /\ Cardinality(PassedOf(q)) <= MaxPerQuery

LEMMA SetsFinite ==
    ASSUME NEW S \in SUBSET Requests
    PROVE  IsFiniteSet(S) /\ Cardinality(S) \in Nat
BY RequestsFinite, FS_Subset, FS_CardinalityType

LEMMA CallsAreRequests == \A q : CallsOf(q) \in SUBSET Requests /\ PassedOf(q) \in SUBSET CallsOf(q)
BY DEF CallsOf, PassedOf

LEMMA PassedKept ==
    ASSUME NEW q \in Queries, PassedOf(q)' \in SUBSET PassedOf(q),
           Cardinality(PassedOf(q)) <= MaxPerQuery
    PROVE  Cardinality(PassedOf(q)') <= MaxPerQuery
<1>1. PassedOf(q) \in SUBSET Requests /\ PassedOf(q)' \in SUBSET Requests
  BY CallsAreRequests
<1>2. Cardinality(PassedOf(q)') <= Cardinality(PassedOf(q))
  BY <1>1, SetsFinite, FS_Subset
<1> QED  BY <1>1, <1>2, SetsFinite, OptionsAssumption

LEMMA LimitInit == LimitedInit => LimitInv
<1> SUFFICES ASSUME LimitedInit PROVE LimitInv  OBVIOUS
<1>1. \A q \in Queries : CallsOf(q) = {} /\ PassedOf(q) = {}
  BY DEF LimitedInit, RL!Init, CallsOf, PassedOf, stageBar
<1>2. qm = [q \in Queries |-> [inFlight |-> 0, totalCalls |-> 0]]
  BY DEF LimitedInit, RL!Init
<1>3. Cardinality({}) = 0  BY FS_EmptySet
<1> QED  BY <1>1, <1>2, <1>3, OptionsAssumption DEF RL!Metrics, LimitInv

\* How a step of call r changes the sets the counter stands for.
LEMMA CallsAfterMove ==
    ASSUME NEW r \in Requests, NEW s, s \notin {"idle", "ended"},
           stageBar' = [stageBar EXCEPT ![r] = s]
    PROVE  \A q \in Queries :
             /\ QueryOf[r] = q => CallsOf(q)' = CallsOf(q) \cup {r}
             /\ QueryOf[r] # q => CallsOf(q)' = CallsOf(q)
BY DEF CallsOf, stageBar

LEMMA CallsStay ==
    ASSUME NEW r \in Requests, NEW s, s \notin {"idle", "ended"},
           stageBar[r] \notin {"idle", "ended"}, stageBar' = [stageBar EXCEPT ![r] = s]
    PROVE  \A q \in Queries : CallsOf(q)' = CallsOf(q)
BY DEF CallsOf, stageBar

LEMMA CallsAfterEnd ==
    ASSUME NEW r \in Requests, stageBar' = [stageBar EXCEPT ![r] = "ended"]
    PROVE  \A q \in Queries : CallsOf(q)' = CallsOf(q) \ {r}
BY DEF CallsOf, stageBar

LEMMA PassedShrink ==
    ASSUME NEW r \in Requests, NEW s, stageBar' = [stageBar EXCEPT ![r] = s],
           s \in {"limiting", "admitted"} => stageBar[r] \in {"limiting", "admitted"}
    PROVE  \A q \in Queries : PassedOf(q)' \in SUBSET PassedOf(q)
BY DEF CallsOf, PassedOf, stageBar

LEMMA LimitOpen == ASSUME LimitInv, NEW r \in Requests, RL!Open(r) PROVE LimitInv'
<1>1. /\ stageBar[r] = "idle" /\ stageBar' = [stageBar EXCEPT ![r] = "open"]
      /\ RL!CountIn(r)
  BY DEF RL!Open, RL!Goto, stageBar
<1>2. QueryOf[r] \in Queries /\ qm[QueryOf[r]] \in RL!Metrics
  BY OptionsAssumption DEF LimitInv
<1>3. qm' \in [Queries -> RL!Metrics]
  BY <1>1, <1>2 DEF RL!CountIn, RL!Metrics, LimitInv
<1>4. ASSUME NEW q \in Queries PROVE qm'[q].inFlight = Cardinality(CallsOf(q)')
  <2>1. CASE q = QueryOf[r]
    <3>0. r \notin CallsOf(q)  BY <1>1 DEF CallsOf
    <3>1. CallsOf(q)' = CallsOf(q) \cup {r}  BY <1>1, <2>1, CallsAfterMove
    <3>2. Cardinality(CallsOf(q)') = Cardinality(CallsOf(q)) + 1
      BY <3>0, <3>1, CallsAreRequests, SetsFinite, FS_AddElement
    <3>3. qm'[q].inFlight = qm[q].inFlight + 1
      BY <1>1, <1>2, <2>1 DEF RL!CountIn, RL!Metrics, LimitInv
    <3> QED  BY <3>2, <3>3 DEF LimitInv
  <2>2. CASE q # QueryOf[r]
    <3>1. CallsOf(q)' = CallsOf(q)  BY <1>1, <2>2, CallsAfterMove
    <3>2. qm'[q] = qm[q]  BY <1>1, <2>2 DEF RL!CountIn, LimitInv
    <3> QED  BY <3>1, <3>2 DEF LimitInv
  <2> QED  BY <2>1, <2>2
<1>5. \A q \in Queries : PassedOf(q)' \in SUBSET PassedOf(q)  BY <1>1, PassedShrink
<1> QED  BY <1>3, <1>4, <1>5, PassedKept DEF LimitInv

LEMMA LimitEnd == ASSUME LimitInv, NEW r \in Requests, RL!End(r) PROVE LimitInv'
<1>1. /\ stageBar[r] \in {"open", "rejected", "admitted"}
      /\ stageBar' = [stageBar EXCEPT ![r] = "ended"] /\ RL!CountOut(r)
  BY DEF RL!End, RL!Goto, stageBar
<1>2. QueryOf[r] \in Queries /\ qm[QueryOf[r]] \in RL!Metrics
  BY OptionsAssumption DEF LimitInv
<1>3. qm' \in [Queries -> RL!Metrics]
  <2>1. RL!Down(qm[QueryOf[r]].inFlight) \in Nat  BY <1>2 DEF RL!Metrics, RL!Down
  <2>2. [qm[QueryOf[r]] EXCEPT !.inFlight = RL!Down(@)] \in RL!Metrics
    BY <1>2, <2>1 DEF RL!Metrics
  <2> QED  BY <1>1, <1>2, <2>2 DEF RL!CountOut, LimitInv
<1>4. ASSUME NEW q \in Queries PROVE qm'[q].inFlight = Cardinality(CallsOf(q)')
  <2>0. CallsOf(q)' = CallsOf(q) \ {r}  BY <1>1, CallsAfterEnd
  <2>1. CASE q = QueryOf[r]
    <3>1. r \in CallsOf(q)  BY <1>1, <2>1 DEF CallsOf
    <3>2. Cardinality(CallsOf(q)') = Cardinality(CallsOf(q)) - 1
      BY <2>0, <3>1, CallsAreRequests, SetsFinite, FS_RemoveElement
    <3>3. Cardinality(CallsOf(q)') \in Nat /\ Cardinality(CallsOf(q)) \in Nat
      BY <2>0, CallsAreRequests, SetsFinite
    <3>4. qm'[q].inFlight = RL!Down(qm[q].inFlight)
      BY <1>1, <1>2, <2>1 DEF RL!CountOut, RL!Metrics, LimitInv
    <3> QED  BY <3>2, <3>3, <3>4 DEF LimitInv, RL!Down
  <2>2. CASE q # QueryOf[r]
    <3>1. CallsOf(q)' = CallsOf(q)  BY <2>0, <2>2 DEF CallsOf
    <3>2. qm'[q] = qm[q]  BY <1>1, <2>2 DEF RL!CountOut, LimitInv
    <3> QED  BY <3>1, <3>2 DEF LimitInv
  <2> QED  BY <2>1, <2>2
<1>5. \A q \in Queries : PassedOf(q)' \in SUBSET PassedOf(q)  BY <1>1, PassedShrink
<1> QED  BY <1>3, <1>4, <1>5, PassedKept DEF LimitInv

\* check() counts the call itself, so what passes it is all that is in flight.
LEMMA LimitCheck == ASSUME LimitInv, NEW r \in Requests, RL!Check(r) PROVE LimitInv'
<1> DEFINE over == RL!OverQueryLimit(r) \/ RL!OverContextLimit(r)
           s == IF over THEN "rejected" ELSE IF HasLimitHook THEN "limiting" ELSE "admitted"
<1>1. stageBar[r] = "open" /\ stageBar' = [stageBar EXCEPT ![r] = s] /\ qm' = qm
  BY DEF RL!Check, RL!Goto, stageBar
<1>2. \A q \in Queries : CallsOf(q)' = CallsOf(q)
  <2>1. s \notin {"idle", "ended"}  OBVIOUS
  <2> HIDE DEF s
  <2> QED  BY <1>1, <2>1, CallsStay
<1>3. CASE over
  <2>1. \A q \in Queries : PassedOf(q)' \in SUBSET PassedOf(q)
    BY <1>1, <1>3, PassedShrink
  <2> QED  BY <1>1, <1>2, <2>1, PassedKept DEF LimitInv
<1>4. CASE ~over
  <2>1. qm[QueryOf[r]].inFlight <= MaxPerQuery
    <3>1. qm[QueryOf[r]].inFlight \in Nat
      BY OptionsAssumption DEF LimitInv, RL!Metrics
    <3> QED  BY <1>4, <3>1, OptionsAssumption DEF RL!OverQueryLimit
  <2>2. ASSUME NEW q \in Queries PROVE Cardinality(PassedOf(q)') <= MaxPerQuery
    <3>1. CASE q = QueryOf[r]
      <4>1. PassedOf(q)' \in SUBSET CallsOf(q)  BY <1>2 DEF PassedOf
      <4>2. Cardinality(PassedOf(q)') <= Cardinality(CallsOf(q))
        BY <4>1, CallsAreRequests, SetsFinite, FS_Subset
      <4>3. Cardinality(CallsOf(q)) <= MaxPerQuery  BY <2>1, <3>1 DEF LimitInv
      <4>4. Cardinality(PassedOf(q)') \in Nat /\ Cardinality(CallsOf(q)) \in Nat
        BY <4>1, CallsAreRequests, SetsFinite
      <4> QED  BY <4>2, <4>3, <4>4, OptionsAssumption
    <3>2. CASE q # QueryOf[r]
      <4>1. PassedOf(q)' \in SUBSET PassedOf(q)
        BY <1>1, <3>2 DEF PassedOf, CallsOf, stageBar
      <4> QED  BY <4>1, PassedKept DEF LimitInv
    <3> QED  BY <3>1, <3>2
  <2> QED  BY <1>1, <1>2, <2>2 DEF LimitInv
<1> QED  BY <1>3, <1>4

LEMMA LimitNext == LimitInv /\ [RL!Next]_<<qm, cm, now, stageBar>> => LimitInv'
<1> SUFFICES ASSUME LimitInv, [RL!Next]_<<qm, cm, now, stageBar>> PROVE LimitInv'
  OBVIOUS
<1>1. ASSUME NEW r \in Requests, RL!LimitHook(r) PROVE LimitInv'
  <2>1. PICK s \in {"admitted", "rejected"} : stageBar' = [stageBar EXCEPT ![r] = s]
    BY <1>1 DEF RL!LimitHook, RL!Goto, stageBar
  <2>2. stageBar[r] = "limiting" /\ qm' = qm  BY <1>1 DEF RL!LimitHook, stageBar
  <2>3. \A q \in Queries : CallsOf(q)' = CallsOf(q)
    BY <2>1, <2>2, CallsStay
  <2>4. \A q \in Queries : PassedOf(q)' \in SUBSET PassedOf(q)
    BY <2>1, <2>2, PassedShrink
  <2> QED  BY <2>2, <2>3, <2>4, PassedKept DEF LimitInv
<1>2. ASSUME qm' = qm, stageBar' = stageBar PROVE LimitInv'
  BY <1>2 DEF LimitInv, CallsOf, PassedOf
<1>3. ASSUME NEW c \in Contexts, RL!ClearContextMetrics(c) PROVE LimitInv'
  BY <1>2, <1>3 DEF RL!ClearContextMetrics, stageBar
<1>4. CASE RL!Tick
  BY <1>2, <1>4 DEF RL!Tick, stageBar
<1> QED  BY <1>1, <1>2, <1>3, <1>4, LimitOpen, LimitCheck, LimitEnd DEF RL!Next

LEMMA ExecutingWasPassed ==
    ASSUME LimitedInv, NEW r \in Running, SeenByLimiter(r)
    PROVE  stageBar[r] = "admitted"
<1>1. r \in Requests /\ pc[r] = "running"  BY DEF Running
<1>2. LimiterAttached  BY <1>1 DEF LimitedInv, SeenOf, Suspended, Resting
<1>3. verdict[r] = "passed"  BY <1>1, <1>2 DEF LimitedInv, VerdictOf
<1> QED  BY <1>1, <1>3 DEF stageBar, LimiterStage

\* In a pipeline that its host configures at rest, maxConcurrent of the limiter
\* bounds the queries that execute, through retries, denials and rejections.
THEOREM LimitBoundsExecutionCorrect == AtRest /\ LimitedSpec => []LimitBoundsExecution
<1>1. LimitInv /\ LimitedInv => LimitBoundsExecution
  <2> SUFFICES ASSUME LimitInv, LimitedInv, NEW q \in Queries
               PROVE  Cardinality({r \in Running : SeenByLimiter(r) /\ QueryOf[r] = q})
                        <= MaxPerQuery
    BY DEF LimitBoundsExecution
  <2> DEFINE E == {r \in Running : SeenByLimiter(r) /\ QueryOf[r] = q}
  <2>1. E \in SUBSET PassedOf(q)
    BY ExecutingWasPassed DEF PassedOf, CallsOf, Running
  <2>2. PassedOf(q) \in SUBSET Requests  BY CallsAreRequests
  <2>3. Cardinality(E) <= Cardinality(PassedOf(q))
    BY <2>1, <2>2, SetsFinite, FS_Subset
  <2>4. Cardinality(E) \in Nat /\ Cardinality(PassedOf(q)) \in Nat
    BY <2>1, <2>2, SetsFinite
  <2> QED  BY <2>3, <2>4, OptionsAssumption DEF LimitInv
<1>2. CASE AtRest
  <2>1. TypeOK /\ LimitedInv /\ [LimitedNext]_<<vars, limiter>>
          => [RL!Next]_<<qm, cm, now, stageBar>>
    BY <1>2, LimiterNext
  <2>2. LimitedSpec => [](TypeOK /\ LimitedInv)  BY <1>2, LimitedInvariant
  <2> QED  BY <1>1, <2>1, <2>2, LimitInit, LimitNext, PTL DEF LimitedSpec
<1>3. CASE ~AtRest
  BY <1>3, PTL
<1> QED  BY <1>2, <1>3
=============================================================================
