------------------------- MODULE QueryHandler_proofs -------------------------
(***************************************************************************)
(* Proofs about QueryHandler: the statements a call sends are bounded, a   *)
(* retry adds an effect only after a lost connection, and no call refuses  *)
(* its own names.                                                          *)
(***************************************************************************)
EXTENDS QueryHandler, TLAPS

Waiting == {"idle", "called", "remote", "attempt", "running"}
Unsent == {"idle", "called", "remote", "attempt"}
Outcomes == [Calls -> {"none", "ok", "error", "multi source", "invalid", "transient",
                       "lost", "permanent", "undecodable", "timeout"}]

(* A call that has not begun has done nothing.                             *)
Fresh(c) ==
  pc[c] = "idle" =>
    /\ outer[c] = 1 /\ inner[c] = 1
    /\ started[c] = 0 /\ abandoned[c] = 0 /\ lost[c] = 0 /\ applied[c] = 0
    /\ outcome[c] = "none"

Before(c) == (outer[c] - 1) * InnerAttempts(c)

(* The statements sent are those of the finished rounds of the outer loop  *)
(* and the attempts of the present one.                                    *)
Budget(c) ==
  /\ inner[c] <= InnerAttempts(c) /\ outer[c] <= OuterAttempts(c)
  /\ started[c] <= Before(c) + inner[c]
  /\ pc[c] \in Unsent => started[c] < Before(c) + inner[c]

(* While a careful call waits, nothing had an effect but what lost         *)
(* connections left; one that never retries has not lost any yet.          *)
Effects(c) ==
  Careful(c) =>
    /\ applied[c] + abandoned[c] <= 1 + lost[c]
    /\ pc[c] \in Waiting \/ outcome[c] \in {"transient", "permanent", "lost"} =>
         applied[c] + abandoned[c] <= lost[c]
    /\ request[c].retryable = "never" =>
         /\ applied[c] + abandoned[c] <= 1
         /\ pc[c] \in Waiting => applied[c] + abandoned[c] = 0 /\ lost[c] = 0

Succeeded(c) ==
  /\ pc[c] \in Waiting => outcome[c] = "none"
  /\ pc[c] = "remote" => request[c].db = "remote"
  /\ outcome[c] = "ok" /\ request[c].db # "remote" => applied[c] >= 1

NamesKept == Columns \subseteq fieldNames

RefusedRightly(c) == outcome[c] = "invalid" => ~Valid(c)

PerCall(c) == Fresh(c) /\ Budget(c) /\ Effects(c) /\ Succeeded(c) /\ RefusedRightly(c)

(* The inductive invariant.                                                *)
IInv == TypeOK /\ NamesKept /\ \A c \in Calls : PerCall(c)

LEMMA AttemptsType ==
  ASSUME NEW c \in Calls
  PROVE  InnerAttempts(c) \in Nat \ {0} /\ OuterAttempts(c) \in Nat \ {0}
<1>1. InnerAttempts(c) \in Nat \ {0}
  BY Assumptions DEF InnerAttempts
<1>2. OuterAttempts(c) \in {1, MaxAttempts, PipelineAttempts}
  BY DEF OuterAttempts
<1> QED
  BY <1>1, <1>2, Assumptions

LEMMA AttemptsTypeNext ==
  ASSUME NEW c \in Calls
  PROVE  InnerAttempts(c)' \in Nat \ {0} /\ OuterAttempts(c)' \in Nat \ {0}
<1>1. InnerAttempts(c)' \in Nat \ {0}
  BY Assumptions DEF InnerAttempts
<1>2. OuterAttempts(c)' \in {1, MaxAttempts, PipelineAttempts}
  BY DEF OuterAttempts
<1> QED
  BY <1>1, <1>2, Assumptions

(* The counters of statements.                                             *)
LEMMA Counters ==
  ASSUME TypeOK
  PROVE  /\ started \in [Calls -> Nat] /\ abandoned \in [Calls -> Nat]
         /\ lost \in [Calls -> Nat] /\ applied \in [Calls -> Nat]
BY DEF TypeOK

(* Multiplication by a natural number is monotonic.                        *)
LEMMA Monotone ==
  ASSUME NEW a \in Nat, NEW b \in Nat, NEW k \in Nat, a <= b
  PROVE  a * k <= b * k
<1> DEFINE d == b - a
<1>1. d \in Nat /\ b = a + d
  OBVIOUS
<1>2. (a + d) * k = a * k + d * k
  BY <1>1
<1>3. d * k \in Nat /\ a * k \in Nat
  BY <1>1
<1> QED
  BY <1>1, <1>2, <1>3

LEMMA Chain ==
  ASSUME NEW s \in Nat, NEW k \in Nat, NEW i \in Nat, NEW p \in Nat, NEW q \in Nat, NEW r \in Nat,
         s <= p + k, k <= i, p + i = q, q <= r
  PROVE  s <= r
OBVIOUS

LEMMA BudgetSuffices ==
  ASSUME TypeOK, NEW c \in Calls, Budget(c)
  PROVE  started[c] <= InnerAttempts(c) * OuterAttempts(c)
<1>1. PICK i \in Nat, o \in Nat, n \in Nat :
        i = InnerAttempts(c) /\ o = OuterAttempts(c) /\ n = outer[c] /\ n >= 1
  <2>1. InnerAttempts(c) \in Nat /\ OuterAttempts(c) \in Nat
    BY AttemptsType
  <2>2. outer[c] \in Nat /\ outer[c] >= 1
    <3>1. outer \in [Calls -> Nat \ {0}]
      BY DEF TypeOK
    <3> QED
      BY <3>1
  <2> QED
    BY <2>1, <2>2
<1>2. n * i <= o * i
  BY <1>1, Monotone DEF Budget
<1>3. (n - 1) * i + i = n * i
  BY SMT
<1>4. (n - 1) * i \in Nat /\ n * i \in Nat /\ o * i \in Nat
  <2>1. n - 1 \in Nat
    BY <1>1
  <2> QED
    BY <2>1
<1>5. PICK s \in Nat, k \in Nat : s = started[c] /\ k = inner[c]
  BY DEF TypeOK
<1>6. s <= (n - 1) * i + k /\ k <= i
  BY <1>1, <1>5 DEF Budget, Before
<1>7. s <= o * i
  BY <1>2, <1>3, <1>4, <1>6, Chain
<1>8. o * i = i * o
  BY SMT
<1> QED
  BY <1>1, <1>5, <1>7, <1>8

(* What a failed attempt does to the counters.                             *)
LEMMA FailsKeeps ==
  ASSUME TypeOK, NEW c \in Calls, NEW error \in {"transient", "lost", "permanent", "undecodable", "timeout"},
         Budget(c), pc[c] = "running", Fails(c, error), UNCHANGED << request, started >>
  PROVE  /\ pc' \in [Calls -> {"idle", "called", "remote", "attempt", "running", "done"}]
         /\ outer' \in [Calls -> Nat \ {0}] /\ inner' \in [Calls -> Nat \ {0}]
         /\ outcome' \in Outcomes
         /\ Budget(c)'
         /\ pc'[c] \in {"attempt", "done"}
         /\ outcome'[c] = IF pc'[c] = "done" THEN error ELSE outcome[c]
         /\ ~ShouldRetry(c, error) => pc'[c] = "done"
         /\ \A d \in Calls \ {c} :
              pc'[d] = pc[d] /\ outer'[d] = outer[d] /\ inner'[d] = inner[d] /\ outcome'[d] = outcome[d]
<1>1. InnerAttempts(c)' = InnerAttempts(c) /\ OuterAttempts(c)' = OuterAttempts(c)
  BY DEF InnerAttempts, OuterAttempts, HasRetry
<1>2. PICK i \in Nat \ {0}, o \in Nat \ {0} : i = InnerAttempts(c) /\ o = OuterAttempts(c)
  BY AttemptsType
<1>3. PICK n \in Nat \ {0}, k \in Nat \ {0}, s \in Nat : n = outer[c] /\ k = inner[c] /\ s = started[c]
  BY DEF TypeOK
<1>4. k <= i /\ n <= o /\ s <= (n - 1) * i + k
  BY <1>2, <1>3 DEF Budget, Before
<1>5. (n - 1) * i \in Nat /\ ((n + 1) - 1) * i = (n - 1) * i + i
  <2>1. n - 1 \in Nat
    BY <1>3
  <2>2. (n - 1) * i \in Nat
    BY <2>1
  <2>3. ((n + 1) - 1) * i = (n - 1) * i + i
    BY SMT
  <2> QED
    BY <2>2, <2>3
<1>6. CASE k < i /\ ShouldRetry(c, error)
  <2>1. /\ inner' = [inner EXCEPT ![c] = k + 1] /\ pc' = [pc EXCEPT ![c] = "attempt"]
        /\ outer' = outer /\ outcome' = outcome
    BY <1>2, <1>3, <1>6 DEF Fails, Goto
  <2>2. inner'[c] = k + 1 /\ outer'[c] = n /\ started'[c] = s /\ pc'[c] = "attempt"
    BY <2>1, <1>3 DEF TypeOK
  <2>3. Before(c)' = (n - 1) * i
    BY <2>2, <1>1, <1>2 DEF Before
  <2>4. Budget(c)'
    BY <2>2, <2>3, <1>1, <1>2, <1>4, <1>5, <1>6 DEF Budget
  <2>5. /\ pc' \in [Calls -> {"idle", "called", "remote", "attempt", "running", "done"}]
        /\ outcome' \in Outcomes
    BY <2>1 DEF TypeOK, Outcomes
  <2>6. outer' \in [Calls -> Nat \ {0}] /\ inner' \in [Calls -> Nat \ {0}]
    <3>1. outer \in [Calls -> Nat \ {0}] /\ inner \in [Calls -> Nat \ {0}]
      BY DEF TypeOK
    <3> QED
      BY <3>1, <2>1
  <2>7. outcome'[c] = IF pc'[c] = "done" THEN error ELSE outcome[c]
    BY <2>1, <2>2 DEF TypeOK
  <2>8. \A d \in Calls \ {c} :
          pc'[d] = pc[d] /\ outer'[d] = outer[d] /\ inner'[d] = inner[d] /\ outcome'[d] = outcome[d]
    BY <2>1 DEF TypeOK
  <2> QED
    BY <2>2, <2>4, <2>5, <2>6, <2>7, <2>8, <1>6
<1>7. CASE k >= i /\ n < o /\ ShouldRetry(c, error)
  <2>1. /\ inner' = [inner EXCEPT ![c] = 1] /\ pc' = [pc EXCEPT ![c] = "attempt"]
        /\ outer' = [outer EXCEPT ![c] = n + 1] /\ outcome' = outcome
    BY <1>2, <1>3, <1>7 DEF Fails, Goto
  <2>2. inner'[c] = 1 /\ outer'[c] = n + 1 /\ started'[c] = s /\ pc'[c] = "attempt"
    BY <2>1, <1>3 DEF TypeOK
  <2>3. Before(c)' = (n - 1) * i + i
    BY <2>2, <1>1, <1>2, <1>5 DEF Before
  <2>4. Budget(c)'
    BY <2>2, <2>3, <1>1, <1>2, <1>4, <1>5, <1>7 DEF Budget
  <2>5. /\ pc' \in [Calls -> {"idle", "called", "remote", "attempt", "running", "done"}]
        /\ outcome' \in Outcomes
    BY <2>1 DEF TypeOK, Outcomes
  <2>6. outer' \in [Calls -> Nat \ {0}] /\ inner' \in [Calls -> Nat \ {0}]
    <3>1. outer \in [Calls -> Nat \ {0}] /\ inner \in [Calls -> Nat \ {0}]
      BY DEF TypeOK
    <3> QED
      BY <3>1, <2>1
  <2>7. outcome'[c] = IF pc'[c] = "done" THEN error ELSE outcome[c]
    BY <2>1, <2>2 DEF TypeOK
  <2>8. \A d \in Calls \ {c} :
          pc'[d] = pc[d] /\ outer'[d] = outer[d] /\ inner'[d] = inner[d] /\ outcome'[d] = outcome[d]
    BY <2>1 DEF TypeOK
  <2> QED
    BY <2>2, <2>4, <2>5, <2>6, <2>7, <2>8, <1>7
<1>8. CASE ~(k < i /\ ShouldRetry(c, error)) /\ ~(k >= i /\ n < o /\ ShouldRetry(c, error))
  <2>1. /\ inner' = inner /\ pc' = [pc EXCEPT ![c] = "done"]
        /\ outer' = outer /\ outcome' = [outcome EXCEPT ![c] = error]
    BY <1>2, <1>3, <1>8 DEF Fails, Ends, Goto
  <2>2. inner'[c] = k /\ outer'[c] = n /\ started'[c] = s /\ pc'[c] = "done"
    BY <2>1, <1>3 DEF TypeOK
  <2>3. Before(c)' = (n - 1) * i
    BY <2>2, <1>1, <1>2 DEF Before
  <2>4. Budget(c)'
    BY <2>2, <2>3, <1>1, <1>2, <1>4 DEF Budget, Unsent
  <2>5. /\ pc' \in [Calls -> {"idle", "called", "remote", "attempt", "running", "done"}]
        /\ outcome' \in Outcomes
    BY <2>1 DEF TypeOK, Outcomes
  <2>6. outer' \in [Calls -> Nat \ {0}] /\ inner' \in [Calls -> Nat \ {0}]
    <3>1. outer \in [Calls -> Nat \ {0}] /\ inner \in [Calls -> Nat \ {0}]
      BY DEF TypeOK
    <3> QED
      BY <3>1, <2>1
  <2>7. outcome'[c] = IF pc'[c] = "done" THEN error ELSE outcome[c]
    BY <2>1, <2>2 DEF TypeOK
  <2>8. \A d \in Calls \ {c} :
          pc'[d] = pc[d] /\ outer'[d] = outer[d] /\ inner'[d] = inner[d] /\ outcome'[d] = outcome[d]
    BY <2>1 DEF TypeOK
  <2> QED
    BY <2>2, <2>4, <2>5, <2>6, <2>7, <2>8
<1> QED
  BY <1>2, <1>3, <1>6, <1>7, <1>8

-----------------------------------------------------------------------------
(* The inductive invariant                                                 *)

LEMMA InitHolds == Init => IInv
<1> SUFFICES ASSUME Init PROVE IInv
  OBVIOUS
<1>1. Plain \in Request /\ Plain.retry = "unset"
  BY DEF Plain, Request, Names
<1>2. TypeOK
  <2>1. request \in [Calls -> Request] /\ fieldNames \in SUBSET Names
    BY <1>1 DEF Init, Names
  <2>2. /\ pc \in [Calls -> {"idle", "called", "remote", "attempt", "running", "done"}]
        /\ outer \in [Calls -> Nat \ {0}] /\ inner \in [Calls -> Nat \ {0}]
        /\ started \in [Calls -> Nat] /\ abandoned \in [Calls -> Nat]
        /\ lost \in [Calls -> Nat] /\ applied \in [Calls -> Nat]
    BY DEF Init
  <2>3. outcome \in Outcomes
    BY DEF Init, Outcomes
  <2> QED
    BY <2>1, <2>2, <2>3 DEF TypeOK, Outcomes
<1>3. NamesKept
  BY DEF Init, NamesKept
<1>4. ASSUME NEW c \in Calls PROVE PerCall(c)
  <2>1. PICK i \in Nat \ {0}, o \in Nat \ {0} : i = InnerAttempts(c) /\ o = OuterAttempts(c)
    BY AttemptsType
  <2>2. outer[c] = 1 /\ inner[c] = 1 /\ started[c] = 0 /\ abandoned[c] = 0 /\ lost[c] = 0 /\ applied[c] = 0
    BY DEF Init
  <2>3. pc[c] = "idle" /\ outcome[c] = "none"
    BY DEF Init
  <2>4. Before(c) = 0
    <3>1. (1 - 1) * i = 0
      BY SMT
    <3> QED
      BY <3>1, <2>1, <2>2 DEF Before
  <2>5. Budget(c)
    BY <2>1, <2>2, <2>4 DEF Budget
  <2> QED
    BY <2>2, <2>3, <2>5 DEF PerCall, Fresh, Effects, Succeeded, RefusedRightly
<1> QED
  BY <1>2, <1>3, <1>4 DEF IInv

(* What a call's part of the invariant speaks of, unchanged.               *)
Untouched(d) ==
  /\ request'[d] = request[d] /\ pc'[d] = pc[d] /\ outer'[d] = outer[d] /\ inner'[d] = inner[d]
  /\ started'[d] = started[d] /\ abandoned'[d] = abandoned[d] /\ lost'[d] = lost[d]
  /\ applied'[d] = applied[d]
  /\ outcome'[d] = outcome[d]

LEMMA UntouchedKept ==
  ASSUME NEW d \in Calls, PerCall(d), Untouched(d)
  PROVE  PerCall(d)'
<1>1. InnerAttempts(d)' = InnerAttempts(d) /\ OuterAttempts(d)' = OuterAttempts(d)
  BY DEF Untouched, InnerAttempts, OuterAttempts, HasRetry
<1>2. Fresh(d)'
  BY DEF Untouched, PerCall, Fresh
<1>3. Before(d)' = Before(d)
  BY <1>1 DEF Untouched, Before
<1>4. Budget(d)'
  BY <1>1, <1>3 DEF Untouched, PerCall, Budget
<1>5. Effects(d)'
  BY DEF Untouched, PerCall, Effects, Careful
<1>6. Succeeded(d)'
  BY DEF Untouched, PerCall, Succeeded
<1>7. RefusedRightly(d)'
  BY DEF Untouched, PerCall, RefusedRightly, Valid
<1> QED
  BY <1>2, <1>4, <1>5, <1>6, <1>7 DEF PerCall

(* A step of one call keeps the invariant when it keeps that call's part.  *)
LEMMA OneCall ==
  ASSUME IInv, NEW c \in Calls, TypeOK', fieldNames \subseteq fieldNames', PerCall(c)',
         \A d \in Calls \ {c} : Untouched(d)
  PROVE  IInv'
<1>1. NamesKept'
  BY DEF IInv, NamesKept
<1>2. ASSUME NEW d \in Calls PROVE PerCall(d)'
  <2>1. CASE d = c
    BY <2>1
  <2>2. CASE d # c
    <3>1. PerCall(d) /\ Untouched(d)
      BY <2>2 DEF IInv
    <3> QED
      BY <3>1, UntouchedKept
  <2> QED
    BY <2>1, <2>2
<1> QED
  BY <1>1, <1>2 DEF IInv

LEMMA RunKeeps ==
  ASSUME IInv, NEW c \in Calls, Run(c)
  PROVE  IInv'
<1>1. PICK asked \in Request : request' = [request EXCEPT ![c] = asked]
  BY Assumptions DEF Run
<1>2. /\ UNCHANGED << fieldNames, outer, inner, started, abandoned, lost, applied >>
      /\ \/ pc' = [pc EXCEPT ![c] = "done"] /\ outcome' = [outcome EXCEPT ![c] = "multi source"]
         \/ pc' = [pc EXCEPT ![c] = "called"] /\ outcome' = outcome
  BY DEF Run, Ends, Goto
<1>3. TypeOK'
  <2>1. request' \in [Calls -> Request]
    BY <1>1 DEF IInv, TypeOK
  <2>2. pc' \in [Calls -> {"idle", "called", "remote", "attempt", "running", "done"}]
    BY <1>2 DEF IInv, TypeOK
  <2>3. outcome' \in Outcomes
    BY <1>2 DEF IInv, TypeOK, Outcomes
  <2> QED
    BY <1>2, <2>1, <2>2, <2>3 DEF IInv, TypeOK, Outcomes
<1>4. PerCall(c)'
  <2>1. outer'[c] = 1 /\ inner'[c] = 1 /\ started'[c] = 0 /\ abandoned'[c] = 0
        /\ lost'[c] = 0 /\ applied'[c] = 0
    BY <1>2 DEF IInv, PerCall, Fresh, Run
  <2>2. \/ pc'[c] = "done" /\ outcome'[c] = "multi source"
        \/ pc'[c] = "called" /\ outcome'[c] = "none"
    <3>1. pc[c] = "idle" /\ outcome[c] = "none"
      BY DEF Run, IInv, PerCall, Fresh
    <3> QED
      BY <1>2, <3>1 DEF IInv, TypeOK
  <2>3. InnerAttempts(c)' \in Nat \ {0} /\ OuterAttempts(c)' \in Nat \ {0}
    BY AttemptsTypeNext
  <2>4. Before(c)' = 0
    <3>1. \A i \in Nat : (1 - 1) * i = 0
      BY SMT
    <3> QED
      BY <3>1, <2>1, <2>3 DEF Before
  <2>5. Budget(c)'
    BY <2>1, <2>3, <2>4 DEF Budget
  <2>6. Fresh(c)' /\ Succeeded(c)' /\ RefusedRightly(c)'
    BY <2>2 DEF Fresh, Succeeded, Waiting, RefusedRightly
  <2>7. Effects(c)'
    BY <2>1 DEF Effects
  <2> QED
    BY <2>5, <2>6, <2>7 DEF PerCall
<1>5. \A d \in Calls \ {c} : Untouched(d)
  BY <1>1, <1>2 DEF Untouched, IInv, TypeOK
<1> QED
  BY <1>2, <1>3, <1>4, <1>5, OneCall

LEMMA ValidateParamsKeeps ==
  ASSUME IInv, NEW c \in Calls, ValidateParams(c)
  PROVE  IInv'
<1>1. /\ UNCHANGED << request, outer, inner, started, abandoned, lost, applied >>
      /\ fieldNames \subseteq fieldNames' /\ fieldNames' \subseteq fieldNames \cup request[c].aliases
  BY DEF ValidateParams, Extended
<1>2. \/ /\ pc' = [pc EXCEPT ![c] = "remote"] /\ outcome' = outcome /\ request[c].db = "remote"
      \/ pc' = [pc EXCEPT ![c] = "attempt"] /\ outcome' = outcome
      \/ /\ pc' = [pc EXCEPT ![c] = "done"] /\ outcome' = [outcome EXCEPT ![c] = "invalid"]
         /\ ~(SelectValid(c) /\ OrderValid(c, Extended(c)))
  BY DEF ValidateParams, Ends, Goto
<1>3. request[c].aliases \subseteq Names
  <2>1. request[c] \in Request
    BY DEF IInv, TypeOK
  <2> QED
    BY <2>1 DEF Request
<1>4. TypeOK'
  <2>1. fieldNames' \in SUBSET Names
    BY <1>1, <1>3 DEF IInv, TypeOK
  <2>2. pc' \in [Calls -> {"idle", "called", "remote", "attempt", "running", "done"}]
    BY <1>2 DEF IInv, TypeOK
  <2>3. outcome' \in Outcomes
    BY <1>2 DEF IInv, TypeOK, Outcomes
  <2> QED
    BY <1>1, <2>1, <2>2, <2>3 DEF IInv, TypeOK, Outcomes
<1>5. PerCall(c)'
  <2>1. pc[c] = "called" /\ PerCall(c)
    BY DEF ValidateParams, IInv
  <2>2. \/ pc'[c] \in {"remote", "attempt"} /\ outcome'[c] = outcome[c]
        \/ pc'[c] = "done" /\ outcome'[c] = "invalid"
    BY <1>2 DEF IInv, TypeOK
  <2>3. InnerAttempts(c)' = InnerAttempts(c) /\ OuterAttempts(c)' = OuterAttempts(c)
    BY <1>1 DEF InnerAttempts, OuterAttempts, HasRetry
  <2>4. Fresh(c)'
    BY <2>2 DEF Fresh
  <2>5. Budget(c)'
    BY <2>1, <2>2, <2>3, <1>1 DEF Budget, Before, PerCall, Unsent
  <2>6. Effects(c)'
    BY <2>1, <1>1 DEF PerCall, Effects, Careful, Waiting
  <2>7. Succeeded(c)'
    <3>1. pc'[c] = "remote" => request[c].db = "remote"
      BY <1>2 DEF IInv, TypeOK
    <3> QED
      BY <2>1, <2>2, <3>1, <1>1 DEF PerCall, Succeeded, Waiting
  <2>8. RefusedRightly(c)'
    <3>1. CASE outcome'[c] = outcome[c]
      BY <3>1, <2>1, <1>1 DEF PerCall, RefusedRightly, Valid
    <3>2. CASE outcome'[c] # outcome[c]
      <4>1. ~(SelectValid(c) /\ OrderValid(c, Extended(c)))
        BY <3>2, <1>2
      <4>2. Columns \subseteq fieldNames
        BY DEF IInv, NamesKept
      <4>3. SUFFICES ASSUME Valid(c) PROVE FALSE
        BY <1>1 DEF RefusedRightly, Valid
      <4>4. SelectValid(c)
        BY <4>2, <4>3 DEF Valid, SelectValid
      <4>5. Columns \cup request[c].aliases \subseteq Extended(c) \/ ~request[c].ordered
        \/ request[c].aliases = {}
        BY <4>2 DEF Extended
      <4>6. Columns \subseteq Extended(c)
        BY <4>2 DEF Extended
      <4>7. OrderValid(c, Extended(c))
        BY <4>3, <4>5, <4>6 DEF Valid, OrderValid
      <4> QED
        BY <4>1, <4>4, <4>7
    <3> QED
      BY <3>1, <3>2
  <2> QED
    BY <2>4, <2>5, <2>6, <2>7, <2>8 DEF PerCall
<1>6. \A d \in Calls \ {c} : Untouched(d)
  BY <1>1, <1>2 DEF Untouched, IInv, TypeOK
<1> QED
  BY <1>1, <1>4, <1>5, <1>6, OneCall

LEMMA RemoteKeeps ==
  ASSUME IInv, NEW c \in Calls, Remote(c)
  PROVE  IInv'
<1>1. PICK result \in {"ok", "error"} : outcome' = [outcome EXCEPT ![c] = result]
  BY DEF Remote, Ends
<1>2. /\ pc' = [pc EXCEPT ![c] = "done"]
      /\ UNCHANGED << fieldNames, request, outer, inner, started, abandoned, lost, applied >>
  BY DEF Remote, Ends, Goto
<1>3. TypeOK'
  <2>1. pc' \in [Calls -> {"idle", "called", "remote", "attempt", "running", "done"}]
    BY <1>2 DEF IInv, TypeOK
  <2>2. outcome' \in Outcomes
    BY <1>1 DEF IInv, TypeOK, Outcomes
  <2> QED
    BY <1>2, <2>1, <2>2 DEF IInv, TypeOK, Outcomes
<1>4. PerCall(c)'
  <2>1. pc[c] = "remote" /\ PerCall(c) /\ request[c].db = "remote"
    BY DEF Remote, IInv, PerCall, Succeeded, Waiting
  <2>2. pc'[c] = "done" /\ outcome'[c] = result
    BY <1>1, <1>2 DEF IInv, TypeOK
  <2>3. InnerAttempts(c)' = InnerAttempts(c) /\ OuterAttempts(c)' = OuterAttempts(c)
    BY <1>2 DEF InnerAttempts, OuterAttempts, HasRetry
  <2>4. Fresh(c)' /\ Succeeded(c)' /\ RefusedRightly(c)'
    BY <2>1, <2>2, <1>2 DEF Fresh, Succeeded, Waiting, RefusedRightly
  <2>5. Budget(c)'
    BY <2>1, <2>2, <2>3, <1>2 DEF Budget, Before, PerCall, Unsent
  <2>6. Effects(c)'
    BY <2>1, <2>2, <1>2 DEF PerCall, Effects, Careful, Waiting
  <2> QED
    BY <2>4, <2>5, <2>6 DEF PerCall
<1>5. \A d \in Calls \ {c} : Untouched(d)
  BY <1>1, <1>2 DEF Untouched, IInv, TypeOK
<1> QED
  BY <1>2, <1>3, <1>4, <1>5, OneCall

LEMMA ExecuteKeeps ==
  ASSUME IInv, NEW c \in Calls, Execute(c)
  PROVE  IInv'
<1>1. /\ pc' = [pc EXCEPT ![c] = "running"] /\ started' = [started EXCEPT ![c] = @ + 1]
      /\ UNCHANGED << fieldNames, request, outer, inner, abandoned, lost, applied, outcome >>
  BY DEF Execute, Goto
<1>2. TypeOK'
  <2>1. pc' \in [Calls -> {"idle", "called", "remote", "attempt", "running", "done"}]
    BY <1>1 DEF IInv, TypeOK
  <2>2. started' \in [Calls -> Nat]
    BY <1>1, Counters DEF IInv
  <2> QED
    BY <1>1, <2>1, <2>2 DEF IInv, TypeOK
<1>3. PerCall(c)'
  <2>1. pc[c] = "attempt" /\ PerCall(c)
    BY DEF Execute, IInv
  <2>2. pc'[c] = "running" /\ started'[c] = started[c] + 1
    BY <1>1 DEF IInv, TypeOK
  <2>3. InnerAttempts(c)' = InnerAttempts(c) /\ OuterAttempts(c)' = OuterAttempts(c)
    BY <1>1 DEF InnerAttempts, OuterAttempts, HasRetry
  <2>4. Before(c) \in Int /\ Before(c)' = Before(c)
    <3>1. PICK i \in Nat \ {0} : i = InnerAttempts(c)
      BY AttemptsType
    <3>2. PICK n \in Nat \ {0} : n = outer[c]
      BY DEF IInv, TypeOK
    <3>3. (n - 1) * i \in Int
      <4>1. n - 1 \in Int
        OBVIOUS
      <4> QED
        BY <4>1
    <3> QED
      BY <3>1, <3>2, <3>3, <2>3, <1>1 DEF Before
  <2>5. Budget(c)'
    <3>1. PICK b \in Int, k \in Nat, s \in Nat : b = Before(c) /\ k = inner[c] /\ s = started[c]
      BY <2>4 DEF IInv, TypeOK
    <3>2. s < b + k
      BY <2>1, <3>1 DEF PerCall, Budget, Unsent
    <3>3. s + 1 <= b + k
      BY <3>2
    <3> QED
      BY <2>1, <2>2, <2>3, <2>4, <3>1, <3>3, <1>1 DEF Budget, PerCall, Unsent
  <2>6. Fresh(c)' /\ Succeeded(c)' /\ RefusedRightly(c)'
    BY <2>1, <2>2, <1>1 DEF PerCall, Fresh, Succeeded, Waiting, RefusedRightly, Valid
  <2>7. Effects(c)'
    BY <2>1, <2>2, <1>1 DEF PerCall, Effects, Careful, Waiting
  <2> QED
    BY <2>5, <2>6, <2>7 DEF PerCall
<1>4. \A d \in Calls \ {c} : Untouched(d)
  BY <1>1 DEF Untouched, IInv, TypeOK
<1> QED
  BY <1>1, <1>2, <1>3, <1>4, OneCall

(* A careful call retries only what the plugin takes for transient, and    *)
(* nothing if it said so.                                                  *)
LEMMA CarefulRetries ==
  ASSUME NEW c \in Calls, Careful(c), NEW error
  PROVE  /\ error \notin {"transient", "lost"} => ~ShouldRetry(c, error)
         /\ request[c].retryable = "never" => ~ShouldRetry(c, error)
BY DEF Careful, ShouldRetry, Retryable

LEMMA TimesOutKeeps ==
  ASSUME IInv, NEW c \in Calls, TimesOut(c)
  PROVE  IInv'
<1>1. /\ abandoned' = [abandoned EXCEPT ![c] = @ + 1] /\ pc[c] = "running"
      /\ UNCHANGED << fieldNames, request, started, lost, applied >> /\ Fails(c, "timeout")
  BY DEF TimesOut
<1>2. TypeOK /\ PerCall(c)
  BY DEF IInv
<1>3. Budget(c)
  BY <1>2 DEF PerCall
<1>4. /\ pc' \in [Calls -> {"idle", "called", "remote", "attempt", "running", "done"}]
      /\ outer' \in [Calls -> Nat \ {0}] /\ inner' \in [Calls -> Nat \ {0}]
      /\ outcome' \in Outcomes
      /\ Budget(c)'
      /\ pc'[c] \in {"attempt", "done"}
      /\ outcome'[c] = IF pc'[c] = "done" THEN "timeout" ELSE outcome[c]
      /\ ~ShouldRetry(c, "timeout") => pc'[c] = "done"
      /\ \A d \in Calls \ {c} :
           pc'[d] = pc[d] /\ outer'[d] = outer[d] /\ inner'[d] = inner[d] /\ outcome'[d] = outcome[d]
  BY <1>1, <1>2, <1>3, FailsKeeps
<1>5. TypeOK'
  <2>1. abandoned' \in [Calls -> Nat]
    BY <1>1, <1>2, Counters
  <2> QED
    BY <1>1, <1>2, <1>4, <2>1 DEF TypeOK, Outcomes
<1>6. abandoned'[c] = abandoned[c] + 1
  BY <1>1, <1>2 DEF TypeOK
<1>7. PerCall(c)'
  <2>1. Fresh(c)' /\ Succeeded(c)' /\ RefusedRightly(c)'
    BY <1>1, <1>2, <1>4 DEF PerCall, Fresh, Succeeded, Waiting, RefusedRightly, Valid
  <2>2. Effects(c)'
    <3>1. SUFFICES ASSUME Careful(c)
                   PROVE  /\ applied'[c] + abandoned'[c] <= 1 + lost'[c]
                          /\ pc'[c] = "done" /\ outcome'[c] = "timeout"
                          /\ request[c].retryable = "never" => applied'[c] + abandoned'[c] <= 1
      BY <1>1 DEF Effects, Careful, Waiting
    <3>2. pc'[c] = "done" /\ outcome'[c] = "timeout"
      BY <1>4, <3>1, CarefulRetries
    <3>3. /\ applied[c] + abandoned[c] <= lost[c]
          /\ request[c].retryable = "never" => applied[c] + abandoned[c] = 0
      BY <3>1, <1>1, <1>2 DEF PerCall, Effects, Waiting
    <3>4. applied[c] \in Nat /\ abandoned[c] \in Nat /\ lost[c] \in Nat
      BY <1>2, Counters
    <3> QED
      BY <3>2, <3>3, <3>4, <1>1, <1>6
  <2> QED
    BY <2>1, <2>2, <1>4 DEF PerCall
<1>8. \A d \in Calls \ {c} : Untouched(d)
  BY <1>1, <1>2, <1>4 DEF Untouched, TypeOK
<1>9. fieldNames \subseteq fieldNames'
  BY <1>1
<1> QED
  BY <1>5, <1>7, <1>8, <1>9, OneCall

LEMMA ConnectionLostKeeps ==
  ASSUME IInv, NEW c \in Calls, ConnectionLost(c)
  PROVE  IInv'
<1>1. /\ abandoned' = [abandoned EXCEPT ![c] = @ + 1] /\ pc[c] = "running"
      /\ lost' = [lost EXCEPT ![c] = @ + 1]
      /\ UNCHANGED << fieldNames, request, started, applied >> /\ Fails(c, "lost")
  BY DEF ConnectionLost
<1>2. TypeOK /\ PerCall(c)
  BY DEF IInv
<1>3. Budget(c)
  BY <1>2 DEF PerCall
<1>4. /\ pc' \in [Calls -> {"idle", "called", "remote", "attempt", "running", "done"}]
      /\ outer' \in [Calls -> Nat \ {0}] /\ inner' \in [Calls -> Nat \ {0}]
      /\ outcome' \in Outcomes
      /\ Budget(c)'
      /\ pc'[c] \in {"attempt", "done"}
      /\ outcome'[c] = IF pc'[c] = "done" THEN "lost" ELSE outcome[c]
      /\ ~ShouldRetry(c, "lost") => pc'[c] = "done"
      /\ \A d \in Calls \ {c} :
           pc'[d] = pc[d] /\ outer'[d] = outer[d] /\ inner'[d] = inner[d] /\ outcome'[d] = outcome[d]
  BY <1>1, <1>2, <1>3, FailsKeeps
<1>5. TypeOK'
  <2>1. abandoned' \in [Calls -> Nat] /\ lost' \in [Calls -> Nat]
    BY <1>1, <1>2, Counters
  <2> QED
    BY <1>1, <1>2, <1>4, <2>1 DEF TypeOK, Outcomes
<1>6. abandoned'[c] = abandoned[c] + 1 /\ lost'[c] = lost[c] + 1
  BY <1>1, <1>2 DEF TypeOK
<1>7. PerCall(c)'
  <2>1. Fresh(c)' /\ Succeeded(c)' /\ RefusedRightly(c)'
    BY <1>1, <1>2, <1>4 DEF PerCall, Fresh, Succeeded, Waiting, RefusedRightly, Valid
  <2>2. Effects(c)'
    <3>1. SUFFICES ASSUME Careful(c)
                   PROVE  /\ applied'[c] + abandoned'[c] <= lost'[c] /\ lost'[c] \in Nat
                          /\ applied'[c] + abandoned'[c] \in Nat
                          /\ request[c].retryable = "never" =>
                               applied'[c] + abandoned'[c] <= 1 /\ pc'[c] = "done"
      BY <1>1 DEF Effects, Careful, Waiting
    <3>2. request[c].retryable = "never" => pc'[c] = "done"
      BY <1>4, <3>1, CarefulRetries
    <3>3. /\ applied[c] + abandoned[c] <= lost[c]
          /\ request[c].retryable = "never" => applied[c] + abandoned[c] = 0
      BY <3>1, <1>1, <1>2 DEF PerCall, Effects, Waiting
    <3>4. applied[c] \in Nat /\ abandoned[c] \in Nat /\ lost[c] \in Nat
      BY <1>2, Counters
    <3> QED
      BY <3>2, <3>3, <3>4, <1>1, <1>6
  <2> QED
    BY <2>1, <2>2, <1>4 DEF PerCall
<1>8. \A d \in Calls \ {c} : Untouched(d)
  BY <1>1, <1>2, <1>4 DEF Untouched, TypeOK
<1>9. fieldNames \subseteq fieldNames'
  BY <1>1
<1> QED
  BY <1>5, <1>7, <1>8, <1>9, OneCall

LEMMA AnsweredKeeps ==
  ASSUME IInv, NEW c \in Calls, Answered(c)
  PROVE  IInv'
<1>1. /\ UNCHANGED << fieldNames, request, started, abandoned, lost >> /\ pc[c] = "running"
      /\ TypeOK /\ PerCall(c)
  BY DEF Answered, IInv
<1>2. Budget(c)
  BY <1>1 DEF PerCall
<1>3. applied[c] \in Nat /\ abandoned[c] \in Nat /\ lost[c] \in Nat
  BY <1>1 DEF TypeOK
<1>4. Careful(c) =>
        /\ applied[c] + abandoned[c] <= lost[c]
        /\ request[c].retryable = "never" => applied[c] + abandoned[c] = 0 /\ lost[c] = 0
  BY <1>1 DEF PerCall, Effects, Waiting
<1>5. CASE Ends(c, "ok") /\ UNCHANGED << outer, inner >> /\ applied' = [applied EXCEPT ![c] = @ + 1]
  <2>1. pc' = [pc EXCEPT ![c] = "done"] /\ outcome' = [outcome EXCEPT ![c] = "ok"]
    BY <1>5 DEF Ends, Goto
  <2>2. TypeOK'
    <3>1. pc' \in [Calls -> {"idle", "called", "remote", "attempt", "running", "done"}]
      BY <2>1, <1>1 DEF TypeOK
    <3>2. outcome' \in Outcomes
      BY <2>1, <1>1 DEF TypeOK, Outcomes
    <3>3. applied' \in [Calls -> Nat]
      BY <1>5, <1>1, Counters
    <3> QED
      BY <1>1, <1>5, <3>1, <3>2, <3>3 DEF TypeOK, Outcomes
  <2>3. pc'[c] = "done" /\ outcome'[c] = "ok" /\ applied'[c] = applied[c] + 1
    BY <2>1, <1>1, <1>5 DEF TypeOK
  <2>4. InnerAttempts(c)' = InnerAttempts(c) /\ OuterAttempts(c)' = OuterAttempts(c)
    BY <1>1 DEF InnerAttempts, OuterAttempts, HasRetry
  <2>5. Budget(c)'
    BY <1>1, <1>2, <1>5, <2>3, <2>4 DEF Budget, Before, Unsent
  <2>6. Fresh(c)' /\ RefusedRightly(c)'
    BY <2>3 DEF Fresh, RefusedRightly
  <2>7. Succeeded(c)'
    BY <2>3, <1>3 DEF Succeeded, Waiting
  <2>8. Effects(c)'
    BY <2>3, <1>1, <1>3, <1>4 DEF Effects, Careful, Waiting
  <2>9. \A d \in Calls \ {c} : Untouched(d)
    BY <2>1, <1>1, <1>5 DEF Untouched, TypeOK
  <2> QED
    BY <2>2, <2>5, <2>6, <2>7, <2>8, <2>9, <1>1, OneCall DEF PerCall
<1>6. ASSUME NEW error \in {"transient", "permanent", "undecodable"}, Fails(c, error),
             \/ applied' = applied
             \/ applied' = [applied EXCEPT ![c] = @ + 1] /\ error = "undecodable"
      PROVE  IInv'
  <2>1. /\ pc' \in [Calls -> {"idle", "called", "remote", "attempt", "running", "done"}]
        /\ outer' \in [Calls -> Nat \ {0}] /\ inner' \in [Calls -> Nat \ {0}]
        /\ outcome' \in Outcomes
        /\ Budget(c)'
        /\ pc'[c] \in {"attempt", "done"}
        /\ outcome'[c] = IF pc'[c] = "done" THEN error ELSE outcome[c]
        /\ ~ShouldRetry(c, error) => pc'[c] = "done"
        /\ \A d \in Calls \ {c} :
             pc'[d] = pc[d] /\ outer'[d] = outer[d] /\ inner'[d] = inner[d] /\ outcome'[d] = outcome[d]
    BY <1>1, <1>2, <1>6, FailsKeeps
  <2>2. applied' \in [Calls -> Nat]
    BY <1>1, <1>6, Counters
  <2>3. TypeOK'
    BY <1>1, <2>1, <2>2 DEF TypeOK, Outcomes
  <2>4. applied'[c] \in {applied[c], applied[c] + 1}
    BY <1>1, <1>6 DEF TypeOK
  <2>5. Fresh(c)' /\ RefusedRightly(c)'
    BY <1>1, <2>1 DEF PerCall, Fresh, RefusedRightly, Valid
  <2>6. Succeeded(c)'
    BY <1>1, <1>3, <2>1, <2>4 DEF PerCall, Succeeded, Waiting
  <2>7. Effects(c)'
    <3>1. CASE applied' = applied
      BY <3>1, <1>1, <1>3, <1>4, <2>1 DEF Effects, Careful, Waiting
    <3>2. CASE applied' # applied
      <4>1. SUFFICES ASSUME Careful(c)
                     PROVE  /\ applied'[c] + abandoned'[c] <= 1 + lost'[c]
                            /\ pc'[c] = "done" /\ outcome'[c] = "undecodable"
                            /\ request[c].retryable = "never" => applied'[c] + abandoned'[c] <= 1
        BY <1>1 DEF Effects, Careful, Waiting
      <4>2. pc'[c] = "done" /\ outcome'[c] = "undecodable"
        BY <1>6, <2>1, <3>2, <4>1, CarefulRetries
      <4> QED
        BY <4>1, <4>2, <2>4, <1>1, <1>3, <1>4
    <3> QED
      BY <3>1, <3>2
  <2>8. \A d \in Calls \ {c} : Untouched(d)
    BY <1>1, <1>6, <2>1 DEF Untouched, TypeOK
  <2> QED
    BY <2>1, <2>3, <2>5, <2>6, <2>7, <2>8, <1>1, OneCall DEF PerCall
<1> QED
  BY <1>5, <1>6 DEF Answered

LEMMA AbandonedEndsKeeps ==
  ASSUME IInv, NEW c \in Calls, AbandonedEnds(c)
  PROVE  IInv'
<1>1. /\ UNCHANGED << fieldNames, request, pc, outer, inner, started, lost, outcome >>
      /\ abandoned[c] > 0 /\ abandoned' = [abandoned EXCEPT ![c] = @ - 1]
      /\ applied' = [applied EXCEPT ![c] = @ + 1] \/ applied' = applied
      /\ TypeOK /\ PerCall(c)
  BY DEF AbandonedEnds, IInv
<1>2. applied[c] \in Nat /\ abandoned[c] \in Nat \ {0} /\ lost[c] \in Nat
  BY <1>1, Counters
<1>3. abandoned'[c] = abandoned[c] - 1 /\ applied'[c] \in {applied[c], applied[c] + 1}
  BY <1>1 DEF TypeOK
<1>4. TypeOK'
  <2>1. abandoned' \in [Calls -> Nat]
    BY <1>1, <1>2, Counters
  <2>2. applied' \in [Calls -> Nat]
    BY <1>1, Counters
  <2> QED
    BY <1>1, <2>1, <2>2 DEF TypeOK
<1>5. PerCall(c)'
  <2>1. InnerAttempts(c)' = InnerAttempts(c) /\ OuterAttempts(c)' = OuterAttempts(c)
    BY <1>1 DEF InnerAttempts, OuterAttempts, HasRetry
  <2>2. Budget(c)'
    BY <1>1, <2>1 DEF Budget, Before, PerCall
  <2>3. RefusedRightly(c)'
    BY <1>1 DEF PerCall, RefusedRightly, Valid
  <2>4. Fresh(c)'
    BY <1>1, <1>2 DEF PerCall, Fresh
  <2>5. Succeeded(c)'
    BY <1>1, <1>2, <1>3 DEF PerCall, Succeeded, Waiting
  <2>6. Effects(c)'
    BY <1>1, <1>2, <1>3 DEF PerCall, Effects, Careful
  <2> QED
    BY <2>2, <2>3, <2>4, <2>5, <2>6 DEF PerCall
<1>6. \A d \in Calls \ {c} : Untouched(d)
  BY <1>1 DEF Untouched, TypeOK
<1> QED
  BY <1>1, <1>4, <1>5, <1>6, OneCall

LEMMA StepHolds == IInv /\ [Next]_vars => IInv'
<1> SUFFICES ASSUME IInv, [Next]_vars PROVE IInv'
  OBVIOUS
<1>1. ASSUME NEW c \in Calls, Step(c) PROVE IInv'
  BY <1>1, RunKeeps, ValidateParamsKeeps, ExecuteKeeps, TimesOutKeeps DEF Step
<1>2. ASSUME NEW c \in Calls, Database(c) PROVE IInv'
  BY <1>2, AnsweredKeeps, ConnectionLostKeeps, AbandonedEndsKeeps, RemoteKeeps DEF Database
<1>3. CASE UNCHANGED vars
  <2>1. /\ fieldNames' = fieldNames /\ \A d \in Calls : Untouched(d)
    BY <1>3 DEF vars, callVars, Untouched
  <2>2. TypeOK'
    BY <1>3 DEF IInv, TypeOK, vars, callVars
  <2>3. NamesKept'
    BY <2>1 DEF IInv, NamesKept
  <2>4. ASSUME NEW d \in Calls PROVE PerCall(d)'
    <3>1. PerCall(d) /\ Untouched(d)
      BY <2>1 DEF IInv
    <3> QED
      BY <3>1, UntouchedKept
  <2> QED
    BY <2>2, <2>3, <2>4 DEF IInv
<1> QED
  BY <1>1, <1>2, <1>3 DEF Next

-----------------------------------------------------------------------------
(* Theorems                                                                *)

THEOREM Invariance == Spec => []IInv
BY InitHolds, StepHolds, PTL DEF Spec

(* Every variable of the handler keeps its type.                           *)
THEOREM TypeCorrect == Spec => []TypeOK
<1>1. IInv => TypeOK
  BY DEF IInv
<1> QED
  BY <1>1, Invariance, PTL

(* The statements a call sends never exceed the product of the two retry   *)
(* policies, for any policies and any failures and timeouts                *)
(* (sql-retry.ts, sql-query-handler.ts:200-205).                           *)
THEOREM StatementsBoundedCorrect == Spec => []StatementsBounded
<1>1. IInv => StatementsBounded
  <2>1. SUFFICES ASSUME IInv, NEW c \in Calls
                 PROVE  started[c] <= InnerAttempts(c) * OuterAttempts(c)
    BY DEF StatementsBounded
  <2>2. TypeOK /\ Budget(c)
    BY <2>1 DEF IInv, PerCall
  <2> QED
    BY <2>2, BudgetSuffices
<1> QED
  BY <1>1, Invariance, PTL

(* Retries by a call that leaves it to the plugin which errors are         *)
(* transient add an effect only after a lost connection, and none if it    *)
(* said that none are; the database's own error means no effect, though    *)
(* the call may have given up on statements that are still running         *)
(* (sql-query-handler.ts:222-265, 417-437).                                *)
THEOREM EffectsOnlyFromLossCorrect == Spec => []EffectsOnlyFromLoss
<1>1. IInv => EffectsOnlyFromLoss
  <2>1. SUFFICES ASSUME IInv, NEW c \in Calls
                 PROVE  /\ Careful(c) => applied[c] + abandoned[c] <= 1 + lost[c]
                        /\ Careful(c) /\ request[c].retryable = "never" =>
                             applied[c] + abandoned[c] <= 1
                        /\ Careful(c) /\ outcome[c] \in {"transient", "permanent", "lost"} =>
                             applied[c] + abandoned[c] <= lost[c]
                        /\ outcome[c] = "ok" /\ request[c].db # "remote" => applied[c] >= 1
    BY DEF EffectsOnlyFromLoss
  <2>2. Effects(c) /\ Succeeded(c)
    BY <2>1 DEF IInv, PerCall
  <2> QED
    BY <2>2 DEF Effects, Succeeded, Waiting
<1> QED
  BY <1>1, Invariance, PTL

(* A call whose orderBy uses columns and its own select's aliases is never *)
(* refused as invalid, whatever names other calls left in the array the    *)
(* query shares (sql-query-handler.ts:272-305).                            *)
THEOREM OwnNamesAcceptedCorrect == Spec => []OwnNamesAccepted
<1>1. IInv => OwnNamesAccepted
  BY DEF IInv, PerCall, RefusedRightly, OwnNamesAccepted
<1> QED
  BY <1>1, Invariance, PTL
=============================================================================
