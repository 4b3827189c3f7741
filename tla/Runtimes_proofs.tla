--------------------------- MODULE Runtimes_proofs ---------------------------
(***************************************************************************)
(* Proofs about the runtimes of portable queries: that the Go and the .NET *)
(* builder emit what the TypeScript operators emit (CrossRuntime), and the *)
(* invariants of the pipeline around the builders (ManifestPipeline).      *)
(*                                                                         *)
(* The builders write sequences of pieces.  The first part has what the    *)
(* proofs need of sequences: their concatenation, and when one is another  *)
(* in a different order.  The second part shows, operator by operator and  *)
(* for every input, that the three runtimes write the same; the third that *)
(* the Go builder writes the same pieces for plain maps, in another order  *)
(* at most.  The last part is about the pipeline.                          *)
(***************************************************************************)
EXTENDS ManifestPipeline, CrossRuntime, FiniteSetTheorems, FunctionTheorems, WellFoundedInduction,
        NaturalsInduction, SequenceTheorems, TLAPS

-----------------------------------------------------------------------------
(* A nonempty set of naturals has a least element.                         *)
LEMMA SmallestNat ==
  ASSUME NEW S \in SUBSET Nat, S # {}
  PROVE  \E i \in S : \A j \in S : i <= j
<1> DEFINE less == {p \in Nat \X Nat : p[1] < p[2]}
<1>1. IsWellFoundedOn(less, Nat)
  BY NatLessThanWellFounded DEF OpToRel
<1>2. PICK i \in S : \A j \in S : ~(<< j, i >> \in less)
  BY <1>1, WFMin
<1>3. ASSUME NEW j \in S PROVE i <= j
  <2>1. i \in Nat /\ j \in Nat /\ (j < i => << j, i >> \in less)
    OBVIOUS
  <2> QED
    BY <1>2, <2>1
<1> QED
  BY <1>3

IsSeq(s) == s \in Seq(ToSet(s))

(* A sequence over a set is a sequence of its own elements.                *)
LEMMA SeqElements ==
  ASSUME NEW S, NEW s \in Seq(S)
  PROVE  IsSeq(s) /\ ToSet(s) \subseteq S /\ \A i \in DOMAIN s : s[i] \in S
<1>1. s = [i \in 1..Len(s) |-> s[i]] /\ Len(s) \in Nat
  OBVIOUS
<1> QED
  BY <1>1 DEF IsSeq, ToSet

(* A sequence has the domain 1..Len; without elements it is the empty one. *)
LEMMA EmptySequence ==
  ASSUME NEW s, IsSeq(s)
  PROVE  /\ DOMAIN s = {} <=> s = <<>>
         /\ Len(s) \in Nat /\ DOMAIN s = 1..Len(s)
<1>1. Len(s) \in Nat /\ DOMAIN s = 1..Len(s)
  BY DEF IsSeq
<1>2. s = <<>> => DOMAIN s = {}
  OBVIOUS
<1>3. ASSUME DOMAIN s = {} PROVE s = <<>>
  <2>1. Len(s) = 0
    <3>1. Len(s) \notin 1..Len(s)
      BY <1>1, <1>3
    <3> QED
      BY <1>1, <3>1
  <2> QED
    BY <2>1 DEF IsSeq
<1> QED
  BY <1>1, <1>2, <1>3

(* A concatenation has the elements of the first sequence, then those of   *)
(* the second.                                                             *)
LEMMA ConcatFacts ==
  ASSUME NEW a, NEW b, IsSeq(a), IsSeq(b)
  PROVE  /\ IsSeq(a \o b)
         /\ Len(a) \in Nat /\ Len(b) \in Nat /\ Len(a \o b) = Len(a) + Len(b)
         /\ DOMAIN a = 1..Len(a) /\ DOMAIN b = 1..Len(b) /\ DOMAIN (a \o b) = 1..(Len(a) + Len(b))
         /\ \A i \in DOMAIN a : (a \o b)[i] = a[i]
         /\ \A i \in DOMAIN b : (a \o b)[Len(a) + i] = b[i]
<1> DEFINE S == ToSet(a) \cup ToSet(b)
<1>1. a \in Seq(S) /\ b \in Seq(S)
  BY DEF IsSeq
<1> HIDE DEF S
<1>2. a \o b \in Seq(S) /\ Len(a) \in Nat /\ Len(b) \in Nat /\ Len(a \o b) = Len(a) + Len(b)
  BY <1>1, ConcatProperties
<1>3. IsSeq(a \o b)
  BY <1>2, SeqElements
<1>4. \A i \in 1..(Len(a) + Len(b)) : (a \o b)[i] = IF i <= Len(a) THEN a[i] ELSE b[i - Len(a)]
  BY <1>1, ConcatProperties
<1>5. DOMAIN a = 1..Len(a) /\ DOMAIN b = 1..Len(b) /\ DOMAIN (a \o b) = 1..(Len(a) + Len(b))
  BY <1>1, <1>2
<1>6. \A i \in 1..Len(a) : (a \o b)[i] = a[i]
  BY <1>2, <1>4
<1>7. \A i \in 1..Len(b) : (a \o b)[Len(a) + i] = b[i]
  <2>1. \A i \in 1..Len(b) : Len(a) + i \in 1..(Len(a) + Len(b)) /\ ~(Len(a) + i <= Len(a)) /\ (Len(a) + i) - Len(a) = i
    BY <1>2
  <2> QED
    BY <1>4, <2>1
<1> QED
  BY <1>2, <1>3, <1>5, <1>6, <1>7

------------------------------------------------------------------------------
OneToOne(f, S, T) ==
  /\ f \in [S -> T]
  /\ \A x, y \in S : f[x] = f[y] => x = y
  /\ \A t \in T : \E s \in S : f[s] = t

Rearranged(a, b) ==
  \E f : OneToOne(f, DOMAIN a, DOMAIN b) /\ \A i \in DOMAIN a : a[i] = b[f[i]]

(* A sequence is a rearrangement of itself.                                *)
LEMMA RearrangedSame ==
  ASSUME NEW a
  PROVE  Rearranged(a, a)
<1> DEFINE f == [i \in DOMAIN a |-> i]
<1>1. OneToOne(f, DOMAIN a, DOMAIN a) /\ \A i \in DOMAIN a : a[i] = a[f[i]]
  BY DEF OneToOne
<1> QED
  BY <1>1 DEF Rearranged

(* Two sequences whose places correspond by way of other index sets are    *)
(* rearrangements.                                                         *)
LEMMA RearrangedVia ==
  ASSUME NEW a, NEW b, NEW P, NEW Q, NEW g, NEW k, NEW h,
         OneToOne(g, P, DOMAIN a), OneToOne(k, Q, DOMAIN b), OneToOne(h, P, Q),
         \A p \in P : a[g[p]] = b[k[h[p]]]
  PROVE  Rearranged(a, b)
<1> DEFINE ij(i) == CHOOSE p \in P : g[p] = i
           f == [i \in DOMAIN a |-> k[h[ij(i)]]]
<1>1. \A i \in DOMAIN a : ij(i) \in P /\ g[ij(i)] = i
  BY DEF OneToOne
<1>2. \A p \in P : g[p] \in DOMAIN a /\ ij(g[p]) = p
  BY <1>1 DEF OneToOne
<1> HIDE DEF ij
<1>3. f \in [DOMAIN a -> DOMAIN b]
  BY <1>1 DEF OneToOne
<1>4. ASSUME NEW x \in DOMAIN a, NEW y \in DOMAIN a, f[x] = f[y] PROVE x = y
  <2>1. k[h[ij(x)]] = k[h[ij(y)]] /\ h[ij(x)] \in Q /\ h[ij(y)] \in Q
    BY <1>1, <1>4 DEF OneToOne
  <2>2. ij(x) = ij(y)
    BY <1>1, <2>1 DEF OneToOne
  <2> QED
    BY <1>1, <2>2
<1>5. ASSUME NEW t \in DOMAIN b PROVE \E s \in DOMAIN a : f[s] = t
  <2>1. PICK q \in Q : k[q] = t
    BY DEF OneToOne
  <2>2. PICK p \in P : h[p] = q
    BY <2>1 DEF OneToOne
  <2>3. f[g[p]] = t /\ g[p] \in DOMAIN a
    BY <1>2, <2>1, <2>2
  <2> QED
    BY <2>3
<1>6. \A i \in DOMAIN a : a[i] = b[f[i]]
  BY <1>1
<1> QED
  BY <1>3, <1>4, <1>5, <1>6 DEF Rearranged, OneToOne

(* Concatenations of rearrangements are rearrangements.                    *)
LEMMA RearrangedConcat ==
  ASSUME NEW a, NEW b, NEW c, NEW d, IsSeq(a), IsSeq(b), IsSeq(c), IsSeq(d),
         Rearranged(a, b), Rearranged(c, d)
  PROVE  Rearranged(a \o c, b \o d)
<1>1. PICK f : OneToOne(f, DOMAIN a, DOMAIN b) /\ \A i \in DOMAIN a : a[i] = b[f[i]]
  BY DEF Rearranged
<1>2. PICK g : OneToOne(g, DOMAIN c, DOMAIN d) /\ \A i \in DOMAIN c : c[i] = d[g[i]]
  BY DEF Rearranged
<1> DEFINE m == Len(a)
           n == Len(b)
           x == a \o c
           y == b \o d
           h == [i \in DOMAIN x |-> IF i <= m THEN f[i] ELSE n + g[i - m]]
<1>3. /\ m \in Nat /\ n \in Nat /\ Len(c) \in Nat /\ Len(d) \in Nat
      /\ DOMAIN a = 1..m /\ DOMAIN b = 1..n /\ DOMAIN c = 1..Len(c) /\ DOMAIN d = 1..Len(d)
      /\ DOMAIN x = 1..(m + Len(c)) /\ DOMAIN y = 1..(n + Len(d))
      /\ \A i \in 1..m : x[i] = a[i]
      /\ \A i \in 1..n : y[i] = b[i]
      /\ \A i \in 1..Len(c) : x[m + i] = c[i]
      /\ \A i \in 1..Len(d) : y[n + i] = d[i]
  BY ConcatFacts
<1> HIDE DEF m, n, x, y
<1>4. \A i \in DOMAIN x : \/ i \in 1..m /\ i <= m
                          \/ i - m \in 1..Len(c) /\ ~(i <= m) /\ i = m + (i - m)
  BY <1>3
<1>5. \A i \in 1..m : f[i] \in 1..n /\ a[i] = b[f[i]]
  BY <1>1, <1>3 DEF OneToOne
<1>6. \A i \in 1..Len(c) : g[i] \in 1..Len(d) /\ c[i] = d[g[i]]
  BY <1>2, <1>3 DEF OneToOne
<1>7. \A i \in DOMAIN x : h[i] \in DOMAIN y /\ x[i] = y[h[i]]
  <2> SUFFICES ASSUME NEW i \in DOMAIN x PROVE h[i] \in DOMAIN y /\ x[i] = y[h[i]]
    OBVIOUS
  <2>1. CASE i \in 1..m /\ i <= m
    <3>1. h[i] = f[i] /\ f[i] \in 1..n
      BY <1>5, <2>1
    <3>2. f[i] \in DOMAIN y
      BY <1>3, <3>1
    <3> QED
      BY <1>3, <1>5, <2>1, <3>1, <3>2
  <2>2. CASE i - m \in 1..Len(c) /\ ~(i <= m) /\ i = m + (i - m)
    <3>1. h[i] = n + g[i - m] /\ g[i - m] \in 1..Len(d)
      BY <1>6, <2>2
    <3>2. n + g[i - m] \in DOMAIN y
      BY <1>3, <3>1
    <3>3. x[i] = c[i - m] /\ y[n + g[i - m]] = d[g[i - m]]
      BY <1>3, <2>2, <3>1
    <3> QED
      BY <1>6, <2>2, <3>1, <3>2, <3>3
  <2> QED
    BY <1>4, <2>1, <2>2
<1>8. ASSUME NEW i \in DOMAIN x, NEW j \in DOMAIN x, h[i] = h[j] PROVE i = j
  <2>0. /\ i \in Int /\ j \in Int /\ m \in Int
        /\ \A k \in 1..m : f[k] \in Int /\ f[k] <= n
        /\ \A k \in 1..Len(c) : g[k] \in Int /\ n + g[k] > n
    BY <1>3, <1>5, <1>6
  <2>1. CASE i <= m /\ j <= m
    BY <1>1, <1>3, <1>4, <1>8, <2>1 DEF OneToOne
  <2>2. CASE i <= m /\ ~(j <= m)
    <3>1. h[i] = f[i] /\ h[j] = n + g[j - m]
      BY <2>2
    <3>2. i \in 1..m /\ j - m \in 1..Len(c)
      BY <1>4, <2>2
    <3> QED
      BY <1>3, <1>8, <2>0, <3>1, <3>2
  <2>3. CASE ~(i <= m) /\ j <= m
    <3>1. h[j] = f[j] /\ h[i] = n + g[i - m]
      BY <2>3
    <3>2. j \in 1..m /\ i - m \in 1..Len(c)
      BY <1>4, <2>3
    <3> QED
      BY <1>3, <1>8, <2>0, <3>1, <3>2
  <2>4. CASE ~(i <= m) /\ ~(j <= m)
    <3>1. i - m \in 1..Len(c) /\ j - m \in 1..Len(c) /\ n + g[i - m] = n + g[j - m]
      BY <1>4, <1>8, <2>4
    <3>2. g[i - m] = g[j - m]
      BY <1>3, <2>0, <3>1
    <3>3. i - m = j - m
      BY <1>2, <1>3, <3>1, <3>2 DEF OneToOne
    <3> QED
      BY <2>0, <3>3
  <2> QED
    BY <2>1, <2>2, <2>3, <2>4
<1>9. ASSUME NEW t \in DOMAIN y PROVE \E s \in DOMAIN x : h[s] = t
  <2>1. CASE t <= n
    <3>1. t \in 1..n
      BY <1>3, <2>1
    <3>2. PICK s \in 1..m : f[s] = t
      BY <1>1, <1>3, <3>1 DEF OneToOne
    <3>3. s \in DOMAIN x /\ h[s] = t
      BY <1>3, <3>2
    <3> QED
      BY <3>3
  <2>2. CASE ~(t <= n)
    <3>1. t - n \in 1..Len(d) /\ t = n + (t - n)
      BY <1>3, <2>2
    <3>2. PICK s \in 1..Len(c) : g[s] = t - n
      BY <1>2, <1>3, <3>1 DEF OneToOne
    <3>3. m + s \in DOMAIN x /\ ~(m + s <= m) /\ (m + s) - m = s
      BY <1>3
    <3>4. h[m + s] = t
      BY <3>1, <3>2, <3>3
    <3> QED
      BY <3>3, <3>4
  <2> QED
    BY <2>1, <2>2
<1> HIDE DEF h
<1>10. h \in [DOMAIN x -> DOMAIN y]
  BY <1>7 DEF h
<1> QED
  BY <1>7, <1>8, <1>9, <1>10 DEF Rearranged, OneToOne, x, y

------------------------------------------------------------------------------
(* The places of a sequence of sequences: in which part, and where there.  *)
Places(parts) == {ij \in (DOMAIN parts) \X Nat : ij[2] \in DOMAIN parts[ij[1]]}

(* The places of the elements of a sequence of sequences: part, then       *)
(* position.                                                               *)
LEMMA PlacesFacts ==
  ASSUME NEW parts
  PROVE  /\ \A ij \in Places(parts) : /\ ij = << ij[1], ij[2] >> /\ ij[1] \in DOMAIN parts
                                      /\ ij[2] \in Nat /\ ij[2] \in DOMAIN parts[ij[1]]
         /\ \A i \in DOMAIN parts, j \in Nat : j \in DOMAIN parts[i] => << i, j >> \in Places(parts)
<1> DEFINE D == DOMAIN parts
<1>1. \A ij \in D \X Nat : ij = << ij[1], ij[2] >> /\ ij[1] \in D /\ ij[2] \in Nat
  OBVIOUS
<1>2. \A i \in D, j \in Nat : << i, j >> \in D \X Nat /\ << i, j >>[1] = i /\ << i, j >>[2] = j
  OBVIOUS
<1>3. \A ij : ij \in Places(parts) <=> ij \in D \X Nat /\ ij[2] \in DOMAIN parts[ij[1]]
  <2>1. Places(parts) = {ij \in D \X Nat : ij[2] \in DOMAIN parts[ij[1]]}
    BY DEF Places
  <2> HIDE DEF D
  <2>2. \A S : (S = {ij \in D \X Nat : ij[2] \in DOMAIN parts[ij[1]]}) =>
          \A ij : ij \in S <=> ij \in D \X Nat /\ ij[2] \in DOMAIN parts[ij[1]]
    OBVIOUS
  <2> QED
    BY <2>1, <2>2
<1> HIDE DEF D
<1>4. \A i \in D, j \in Nat : j \in DOMAIN parts[i] => << i, j >> \in Places(parts)
  BY <1>2, <1>3
<1>5. \A ij \in Places(parts) : /\ ij = << ij[1], ij[2] >> /\ ij[1] \in D
                               /\ ij[2] \in Nat /\ ij[2] \in DOMAIN parts[ij[1]]
  BY <1>1, <1>3
<1> QED
  BY <1>4, <1>5 DEF D

(* FlattenSeq unfolded: the prefix sums of the parts exist and end in it.  *)
LEMMA FlattenFunction ==
  ASSUME NEW parts, IsSeq(parts), parts # <<>>
  PROVE  \E f : /\ FlattenSeq(parts) = f[Len(parts)] /\ f[1] = parts[1]
                /\ \A i \in 2..Len(parts) : f[i] = f[i - 1] \o parts[i]
<1> DEFINE n == Len(parts)
           Body(f, i) == IF i = 1 THEN parts[i] ELSE f[i - 1] \o parts[i]
           Good(f, k) == DOMAIN f = 1..n /\ \A i \in 1..k : f[i] = Body(f, i)
           bad == {k \in 0..n : ~\E f : Good(f, k)}
<1>1. n \in Nat /\ n # 0 /\ DOMAIN parts = 1..n
  BY EmptySequence DEF IsSeq
<1> HIDE DEF n
<1>2. bad = {}
  <2> SUFFICES ASSUME bad # {} PROVE FALSE
    OBVIOUS
  <2>1. PICK k \in bad : \A j \in bad : k <= j
    <3>1. bad \in SUBSET Nat
      BY <1>1
    <3> HIDE DEF bad
    <3> QED
      BY <3>1, SmallestNat
  <2>2. k \in 0..n /\ ~\E f : Good(f, k)
    OBVIOUS
  <2>3. k # 0
    <3>1. Good([i \in 1..n |-> 0], 0)
      OBVIOUS
    <3> QED
      BY <2>2, <3>1
  <2>4. k - 1 \in 0..n /\ ~(k <= k - 1) /\ k \in 1..n
    BY <1>1, <2>2, <2>3
  <2>5. PICK f : Good(f, k - 1)
    BY <2>1, <2>4
  <2> DEFINE g == [i \in 1..n |-> IF i = k THEN Body(f, k) ELSE f[i]]
  <2>6. ASSUME NEW i \in 1..k PROVE g[i] = Body(g, i)
    <3>1. i \in 1..n /\ (i # k => i \in 1..(k - 1) /\ i - 1 # k) /\ k - 1 # k
      BY <1>1, <2>4
    <3>2. i # 1 => i - 1 \in 1..n /\ i - 1 # k /\ g[i - 1] = f[i - 1]
      BY <1>1, <2>4
    <3>3. g[i] = Body(f, i)
      BY <2>5, <3>1
    <3>4. Body(f, i) = Body(g, i)
      BY <3>2
    <3> QED
      BY <3>3, <3>4
  <2>7. Good(g, k)
    BY <2>6
  <2> QED
    BY <2>2, <2>7
<1>3. \E f : f = [i \in 1..n |-> Body(f, i)]
  <2>1. n \in 0..n
    BY <1>1
  <2>2. PICK f : Good(f, n)
    BY <1>2, <2>1
  <2>3. DEFINE g == [i \in 1..n |-> f[i]]
  <2>4. \A i \in 1..n : g[i] = Body(g, i)
    <3>1. \A i \in 1..n : i # 1 => i - 1 \in 1..n
      BY <1>1
    <3> QED
      BY <2>2, <3>1
  <2>5. g = [i \in 1..n |-> Body(g, i)]
    BY <2>4
  <2> QED
    BY <2>5
<1> DEFINE F == CHOOSE f : f = [i \in 1..n |-> Body(f, i)]
<1>4. F = [i \in 1..n |-> Body(F, i)]
  BY <1>3
<1>5. FlattenSeq(parts) = F[n]
  BY <1>1 DEF FlattenSeq, n
<1> HIDE DEF F
<1>6. F[1] = parts[1] /\ \A i \in 2..n : F[i] = F[i - 1] \o parts[i]
  <2>1. \A i \in 1..n : F[i] = Body(F, i)
    BY <1>4
  <2>2. 1 \in 1..n /\ \A i \in 2..n : i \in 1..n /\ i # 1
    BY <1>1
  <2> QED
    BY <2>1, <2>2
<1> QED
  BY <1>5, <1>6 DEF n

(* FlattenSeq has each element of each part once, and no other.            *)
LEMMA FlattenFacts ==
  ASSUME NEW parts, IsSeq(parts), \A i \in DOMAIN parts : IsSeq(parts[i])
  PROVE  /\ IsSeq(FlattenSeq(parts))
         /\ \E g : /\ OneToOne(g, Places(parts), DOMAIN FlattenSeq(parts))
                   /\ \A ij \in Places(parts) : FlattenSeq(parts)[g[ij]] = parts[ij[1]][ij[2]]
<1> DEFINE n == Len(parts)
<1>1. n \in Nat /\ DOMAIN parts = 1..n /\ (parts # <<>> <=> n # 0)
  <2>1. n \in Nat /\ DOMAIN parts = 1..n /\ (DOMAIN parts = {} <=> parts = <<>>)
    BY EmptySequence
  <2>2. 1..n = {} <=> n = 0
    BY <2>1
  <2> QED
    BY <2>1, <2>2
<1>2. CASE parts = <<>>
  <2>1. FlattenSeq(parts) = parts
    BY <1>1, <1>2 DEF FlattenSeq
  <2>2. Places(parts) = {} /\ DOMAIN parts = {}
    BY <1>2, PlacesFacts
  <2>3. OneToOne(<<>>, Places(parts), DOMAIN parts)
    BY <2>2 DEF OneToOne
  <2> QED
    BY <2>1, <2>2, <2>3
<1>3. CASE parts # <<>>
  <2>1. PICK F : /\ FlattenSeq(parts) = F[n] /\ F[1] = parts[1]
                 /\ \A i \in 2..n : F[i] = F[i - 1] \o parts[i]
    BY <1>3, FlattenFunction
  <2> DEFINE Upto_(k) == {ij \in Places(parts) : ij[1] <= k}
             Good(g, k) == /\ OneToOne(g, Upto_(k), DOMAIN F[k])
                           /\ \A ij \in Upto_(k) : F[k][g[ij]] = parts[ij[1]][ij[2]]
             bad == {k \in 1..n : ~(IsSeq(F[k]) /\ \E g : Good(g, k))}
  <2>2. \A ij \in Places(parts) : /\ ij = << ij[1], ij[2] >> /\ ij[1] \in 1..n /\ ij[2] \in Nat
                                  /\ ij[2] \in DOMAIN parts[ij[1]]
    BY <1>1, PlacesFacts
  <2>3. \A i \in 1..n : \A j \in DOMAIN parts[i] : << i, j >> \in Places(parts)
    <3>1. \A i \in 1..n : \A j \in DOMAIN parts[i] : j \in Nat
      BY <1>1, EmptySequence
    <3> QED
      BY <1>1, <3>1, PlacesFacts
  <2> HIDE DEF n
  <2>4. bad = {}
    <3> SUFFICES ASSUME bad # {} PROVE FALSE
      OBVIOUS
    <3>1. PICK k \in bad : \A j \in bad : k <= j
      <4>1. bad \in SUBSET Nat
        BY <1>1
      <4> HIDE DEF bad
      <4> QED
        BY <4>1, SmallestNat
    <3>2. k \in 1..n /\ k \in Nat /\ ~(IsSeq(F[k]) /\ \E g : Good(g, k))
      <4> HIDE DEF Good
      <4> QED
        OBVIOUS
    <3>3. CASE k = 1
      <4>1. F[k] = parts[1] /\ IsSeq(F[k])
        BY <1>1, <2>1, <3>2, <3>3
      <4> DEFINE g == [ij \in Upto_(1) |-> ij[2]]
      <4>2. \A ij \in Upto_(1) : ij[1] = 1 /\ ij[2] \in DOMAIN parts[1] /\ ij = << 1, ij[2] >>
        BY <2>2
      <4>3. \A j \in DOMAIN parts[1] : << 1, j >> \in Upto_(1) /\ g[<< 1, j >>] = j
        BY <2>3, <3>2, <3>3
      <4>4. OneToOne(g, Upto_(1), DOMAIN F[k])
        <5>1. g \in [Upto_(1) -> DOMAIN F[k]]
          BY <4>1, <4>2
        <5>2. \A x, y \in Upto_(1) : g[x] = g[y] => x = y
          BY <4>2
        <5> HIDE DEF g
        <5>3. \A t \in DOMAIN F[k] : \E s \in Upto_(1) : g[s] = t
          BY <4>1, <4>3
        <5> HIDE DEF Upto_
        <5> QED
          BY <5>1, <5>2, <5>3 DEF OneToOne
      <4>5. \A ij \in Upto_(1) : F[k][g[ij]] = parts[ij[1]][ij[2]]
        BY <4>1, <4>2
      <4> QED
        BY <3>2, <3>3, <4>1, <4>4, <4>5
    <3>4. CASE k # 1
      <4>0. k - 1 \in 1..n /\ ~(k <= k - 1) /\ k \in 2..n
        BY <1>1, <3>2, <3>4
      <4> DEFINE p == F[k - 1]
                 q == parts[k]
                 m == Len(p)
      <4>1. IsSeq(p) /\ \E g : Good(g, k - 1)
        BY <3>1, <4>0
      <4>2. IsSeq(q) /\ F[k] = p \o q
        BY <1>1, <2>1, <4>0
      <4>3. PICK g : Good(g, k - 1)
        BY <4>1
      <4> HIDE DEF p, q
      <4>4. /\ IsSeq(F[k]) /\ m \in Nat /\ Len(q) \in Nat
            /\ DOMAIN p = 1..m /\ DOMAIN q = 1..Len(q) /\ DOMAIN F[k] = 1..(m + Len(q))
            /\ \A i \in 1..m : F[k][i] = p[i]
            /\ \A i \in 1..Len(q) : F[k][m + i] = q[i]
        BY <4>1, <4>2, ConcatFacts
      <4> DEFINE before == Upto_(k - 1)
                 all == Upto_(k)
                 h == [ij \in all |-> IF ij[1] = k THEN m + ij[2] ELSE g[ij]]
      <4>5. /\ \A ij \in before : g[ij] \in 1..m /\ p[g[ij]] = parts[ij[1]][ij[2]]
            /\ \A x, y \in before : g[x] = g[y] => x = y
            /\ \A t \in 1..m : \E s \in before : g[s] = t
        BY <4>3, <4>4 DEF OneToOne, p
      <4>6. \A ij \in all : \/ ij[1] = k /\ ij[2] \in 1..Len(q) /\ ij = << k, ij[2] >> /\ q[ij[2]] = parts[ij[1]][ij[2]]
                            \/ ij[1] # k /\ ij \in before
        BY <2>2, <3>2, <4>4 DEF q
      <4>7. \A ij \in before : ij \in all /\ ij[1] # k
        BY <2>2, <3>2
      <4>8. \A j \in 1..Len(q) : << k, j >> \in all
        BY <2>3, <3>2, <4>4 DEF q
      <4> HIDE DEF m, before, all, Good
      <4>9. \A ij \in all : h[ij] \in DOMAIN F[k] /\ F[k][h[ij]] = parts[ij[1]][ij[2]]
        <5> SUFFICES ASSUME NEW ij \in all
                     PROVE  h[ij] \in DOMAIN F[k] /\ F[k][h[ij]] = parts[ij[1]][ij[2]]
          OBVIOUS
        <5>1. CASE ij[1] = k /\ ij[2] \in 1..Len(q) /\ q[ij[2]] = parts[ij[1]][ij[2]]
          <6>1. h[ij] = m + ij[2] /\ m + ij[2] \in DOMAIN F[k]
            BY <4>4, <5>1
          <6> QED
            BY <4>4, <5>1, <6>1
        <5>2. CASE ij[1] # k /\ ij \in before
          <6>1. h[ij] = g[ij] /\ g[ij] \in 1..m
            BY <4>5, <5>2
          <6>2. g[ij] \in DOMAIN F[k]
            BY <4>4, <6>1
          <6> QED
            BY <4>4, <4>5, <5>2, <6>1, <6>2
        <5> QED
          BY <4>6, <5>1, <5>2
      <4>10. ASSUME NEW x \in all, NEW y \in all, h[x] = h[y] PROVE x = y
        <5>1. CASE x[1] = k /\ y[1] = k
          <6>1. x[2] \in Nat /\ y[2] \in Nat /\ x = << k, x[2] >> /\ y = << k, y[2] >>
            BY <4>6, <5>1
          <6>2. m + x[2] = m + y[2]
            BY <4>10, <5>1
          <6> QED
            BY <4>4, <6>1, <6>2
        <5>2. CASE x[1] = k /\ y[1] # k
          <6>1. h[x] = m + x[2] /\ x[2] \in 1..Len(q) /\ h[y] = g[y] /\ g[y] \in 1..m
            BY <4>5, <4>6, <5>2
          <6> QED
            BY <4>4, <4>10, <6>1
        <5>3. CASE x[1] # k /\ y[1] = k
          <6>1. h[y] = m + y[2] /\ y[2] \in 1..Len(q) /\ h[x] = g[x] /\ g[x] \in 1..m
            BY <4>5, <4>6, <5>3
          <6> QED
            BY <4>4, <4>10, <6>1
        <5>4. CASE x[1] # k /\ y[1] # k
          <6>1. x \in before /\ y \in before /\ g[x] = g[y]
            BY <4>6, <4>10, <5>4
          <6> QED
            BY <4>5, <6>1
        <5> QED
          BY <5>1, <5>2, <5>3, <5>4
      <4>11. ASSUME NEW t \in DOMAIN F[k] PROVE \E s \in all : h[s] = t
        <5>1. CASE t <= m
          <6>1. t \in 1..m
            BY <4>4, <5>1
          <6>2. PICK s \in before : g[s] = t
            BY <4>5, <6>1
          <6>3. s \in all /\ h[s] = t
            BY <4>7, <6>2
          <6> QED
            BY <6>3
        <5>2. CASE ~(t <= m)
          <6>1. t - m \in 1..Len(q) /\ t = m + (t - m)
            BY <4>4, <5>2
          <6>2. << k, t - m >> \in all /\ h[<< k, t - m >>] = m + (t - m)
            BY <4>8, <6>1
          <6> QED
            BY <6>1, <6>2
        <5> QED
          BY <5>1, <5>2
      <4>12. h \in [all -> DOMAIN F[k]]
        BY <4>9
      <4> HIDE DEF h
      <4>13. Good(h, k)
        BY <4>9, <4>10, <4>11, <4>12 DEF Good, OneToOne, all
      <4> QED
        BY <3>2, <4>4, <4>13
    <3> QED
      BY <3>3, <3>4
  <2>5. n \in 1..n
    BY <1>1, <1>3
  <2>6. IsSeq(F[n]) /\ \E g : Good(g, n)
    BY <2>4, <2>5
  <2>7. Upto_(n) = Places(parts)
    BY <2>2, <1>1
  <2> QED
    BY <2>1, <2>6, <2>7
<1> QED
  BY <1>2, <1>3

(* Flattening sequences whose parts are pairwise rearrangements gives      *)
(* rearrangements.                                                         *)
LEMMA RearrangedEach ==
  ASSUME NEW A, NEW B, IsSeq(A), IsSeq(B), DOMAIN A = DOMAIN B,
         \A i \in DOMAIN A : IsSeq(A[i]) /\ IsSeq(B[i]) /\ Rearranged(A[i], B[i])
  PROVE  Rearranged(FlattenSeq(A), FlattenSeq(B))
<1> DEFINE Good(f, i) == OneToOne(f, DOMAIN A[i], DOMAIN B[i]) /\ \A j \in DOMAIN A[i] : A[i][j] = B[i][f[j]]
           F == [i \in DOMAIN A |-> CHOOSE f : Good(f, i)]
           h == [ij \in Places(A) |-> << ij[1], F[ij[1]][ij[2]] >>]
<1>1. \A i \in DOMAIN A : Good(F[i], i)
  BY DEF Rearranged
<1> HIDE DEF F
<1>2. \A i \in DOMAIN A :
        /\ \A j \in DOMAIN A[i] : F[i][j] \in DOMAIN B[i] /\ A[i][j] = B[i][F[i][j]]
        /\ \A j, l \in DOMAIN A[i] : F[i][j] = F[i][l] => j = l
        /\ \A t \in DOMAIN B[i] : \E j \in DOMAIN A[i] : F[i][j] = t
  BY <1>1 DEF OneToOne
<1>3. /\ \A i \in DOMAIN A : \A j \in DOMAIN A[i] : j \in Nat
      /\ \A i \in DOMAIN A : \A j \in DOMAIN B[i] : j \in Nat
  BY EmptySequence
<1>4. \A ij \in Places(A) : /\ ij = << ij[1], ij[2] >> /\ ij[1] \in DOMAIN A /\ ij[2] \in DOMAIN A[ij[1]]
                            /\ h[ij] \in Places(B) /\ h[ij][1] = ij[1] /\ h[ij][2] = F[ij[1]][ij[2]]
  BY <1>2, <1>3, PlacesFacts
<1>5. \A ij \in Places(B) : \E s \in Places(A) : h[s] = ij
  <2> SUFFICES ASSUME NEW ij \in Places(B) PROVE \E s \in Places(A) : h[s] = ij
    OBVIOUS
  <2>1. ij = << ij[1], ij[2] >> /\ ij[1] \in DOMAIN A /\ ij[2] \in DOMAIN B[ij[1]]
    BY PlacesFacts
  <2>2. PICK j \in DOMAIN A[ij[1]] : F[ij[1]][j] = ij[2]
    BY <1>2, <2>1
  <2>3. << ij[1], j >> \in Places(A)
    BY <1>3, <2>1, <2>2, PlacesFacts
  <2>4. h[<< ij[1], j >>] = ij
    BY <2>1, <2>2, <2>3
  <2> QED
    BY <2>3, <2>4
<1>6. h \in [Places(A) -> Places(B)]
  BY <1>4
<1>7. ASSUME NEW x \in Places(A), NEW y \in Places(A), h[x] = h[y] PROVE x = y
  <2>1. /\ x = << x[1], x[2] >> /\ x[1] \in DOMAIN A /\ x[2] \in DOMAIN A[x[1]]
        /\ y = << y[1], y[2] >> /\ y[2] \in DOMAIN A[y[1]]
        /\ x[1] = y[1] /\ F[x[1]][x[2]] = F[y[1]][y[2]]
    BY <1>4, <1>7
  <2>2. x[2] = y[2]
    BY <1>2, <2>1
  <2> QED
    BY <2>1, <2>2
<1>8. OneToOne(h, Places(A), Places(B))
  BY <1>5, <1>6, <1>7 DEF OneToOne
<1>9. PICK g : /\ OneToOne(g, Places(A), DOMAIN FlattenSeq(A))
               /\ \A ij \in Places(A) : FlattenSeq(A)[g[ij]] = A[ij[1]][ij[2]]
  BY FlattenFacts
<1>10. PICK k : /\ OneToOne(k, Places(B), DOMAIN FlattenSeq(B))
                /\ \A ij \in Places(B) : FlattenSeq(B)[k[ij]] = B[ij[1]][ij[2]]
  <2>1. \A i \in DOMAIN B : IsSeq(B[i])
    OBVIOUS
  <2> QED
    BY <2>1, FlattenFacts
<1>11. \A ij \in Places(A) : FlattenSeq(A)[g[ij]] = FlattenSeq(B)[k[h[ij]]]
  <2> SUFFICES ASSUME NEW ij \in Places(A)
               PROVE  FlattenSeq(A)[g[ij]] = FlattenSeq(B)[k[h[ij]]]
    OBVIOUS
  <2>1. /\ ij[1] \in DOMAIN A /\ ij[2] \in DOMAIN A[ij[1]]
        /\ h[ij] \in Places(B) /\ h[ij][1] = ij[1] /\ h[ij][2] = F[ij[1]][ij[2]]
    BY <1>4
  <2> HIDE DEF h
  <2>2. FlattenSeq(B)[k[h[ij]]] = B[ij[1]][F[ij[1]][ij[2]]]
    BY <1>10, <2>1
  <2> QED
    BY <1>2, <1>9, <2>1, <2>2
<1> HIDE DEF h
<1> QED
  BY <1>8, <1>9, <1>10, <1>11, RearrangedVia

(* The parts in another order, each after the separator of its place.      *)
LEMMA RearrangedParts ==
  ASSUME NEW A, NEW B, NEW X, IsSeq(A), IsSeq(B),
         \A i \in DOMAIN A : IsSeq(A[i]), \A i \in DOMAIN A : IsSeq(X[i]),
         Rearranged(A, B), DOMAIN A = DOMAIN B
  PROVE  Rearranged(FlattenSeq([i \in DOMAIN A |-> X[i] \o A[i]]), FlattenSeq([i \in DOMAIN B |-> X[i] \o B[i]]))
<1> DEFINE D == DOMAIN A
           J == [i \in D |-> X[i] \o A[i]]
           K == [i \in D |-> X[i] \o B[i]]
           m(i) == Len(X[i])
<1>1. PICK f : OneToOne(f, D, D) /\ \A i \in D : A[i] = B[f[i]]
  BY DEF Rearranged
<1> DEFINE back(i) == CHOOSE j \in D : f[j] = i
<1>2. \A i \in D : f[i] \in D /\ back(i) \in D /\ f[back(i)] = i /\ back(f[i]) = i /\ B[i] = A[back(i)]
  BY <1>1 DEF OneToOne
<1>3. \A i \in D : IsSeq(B[i])
  BY <1>2
<1> HIDE DEF back
<1>4. \A i \in D :
        /\ m(i) \in Nat /\ DOMAIN X[i] = 1..m(i)
        /\ IsSeq(J[i]) /\ DOMAIN J[i] = 1..(m(i) + Len(A[i])) /\ Len(A[i]) \in Nat
        /\ \A j \in 1..m(i) : J[i][j] = X[i][j]
        /\ \A j \in 1..Len(A[i]) : J[i][m(i) + j] = A[i][j]
        /\ IsSeq(K[i]) /\ DOMAIN K[i] = 1..(m(i) + Len(B[i])) /\ Len(B[i]) \in Nat
        /\ \A j \in 1..m(i) : K[i][j] = X[i][j]
        /\ \A j \in 1..Len(B[i]) : K[i][m(i) + j] = B[i][j]
  BY <1>3, ConcatFacts
<1>5. IsSeq(J) /\ IsSeq(K) /\ DOMAIN J = D /\ DOMAIN K = D
  <2>1. Len(A) \in Nat /\ D = 1..Len(A)
    BY EmptySequence
  <2> HIDE DEF D
  <2>2. \A s : s \in [1..Len(A) -> ToSet(s)] => s \in Seq(ToSet(s))
    BY <2>1
  <2>3. J \in [1..Len(A) -> ToSet(J)] /\ K \in [1..Len(A) -> ToSet(K)]
    BY <2>1 DEF ToSet
  <2> QED
    BY <2>2, <2>3 DEF IsSeq
<1> HIDE DEF J, K, m, D
<1> DEFINE h == [ij \in Places(J) |-> IF ij[2] <= m(ij[1]) THEN ij
                                      ELSE << f[ij[1]], (ij[2] - m(ij[1])) + m(f[ij[1]]) >>]
<1>6. \A ij \in Places(J) :
        /\ ij = << ij[1], ij[2] >> /\ ij[1] \in D
        /\ \/ ij[2] \in 1..m(ij[1]) /\ ij[2] <= m(ij[1])
           \/ /\ ~(ij[2] <= m(ij[1])) /\ ij[2] - m(ij[1]) \in 1..Len(A[ij[1]])
              /\ ij[2] = m(ij[1]) + (ij[2] - m(ij[1]))
  <2> SUFFICES ASSUME NEW ij \in Places(J)
               PROVE  /\ ij = << ij[1], ij[2] >> /\ ij[1] \in D
                      /\ \/ ij[2] \in 1..m(ij[1]) /\ ij[2] <= m(ij[1])
                         \/ /\ ~(ij[2] <= m(ij[1])) /\ ij[2] - m(ij[1]) \in 1..Len(A[ij[1]])
                            /\ ij[2] = m(ij[1]) + (ij[2] - m(ij[1]))
    OBVIOUS
  <2>1. ij = << ij[1], ij[2] >> /\ ij[1] \in D /\ ij[2] \in DOMAIN J[ij[1]]
    BY <1>5, PlacesFacts
  <2>2. m(ij[1]) \in Nat /\ Len(A[ij[1]]) \in Nat /\ ij[2] \in 1..(m(ij[1]) + Len(A[ij[1]]))
    BY <1>4, <2>1
  <2> QED
    BY <2>1, <2>2
<1>7. \A i \in D : \A j \in 1..Len(A[i]) :
        /\ << f[i], j + m(f[i]) >> \in Places(K)
        /\ K[f[i]][j + m(f[i])] = A[i][j]
        /\ << i, m(i) + j >> \in Places(J) /\ ~(m(i) + j <= m(i)) /\ (m(i) + j) - m(i) = j
  <2> SUFFICES ASSUME NEW i \in D, NEW j \in 1..Len(A[i])
               PROVE  /\ << f[i], j + m(f[i]) >> \in Places(K)
                      /\ K[f[i]][j + m(f[i])] = A[i][j]
                      /\ << i, m(i) + j >> \in Places(J) /\ ~(m(i) + j <= m(i)) /\ (m(i) + j) - m(i) = j
    OBVIOUS
  <2>1. f[i] \in D /\ B[f[i]] = A[i] /\ m(f[i]) \in Nat /\ m(i) \in Nat /\ Len(A[i]) \in Nat /\ j \in Nat
    BY <1>1, <1>2, <1>4
  <2>2. j + m(f[i]) \in 1..(m(f[i]) + Len(A[i])) /\ j + m(f[i]) = m(f[i]) + j /\ j + m(f[i]) \in Nat
        /\ m(i) + j \in 1..(m(i) + Len(A[i])) /\ m(i) + j \in Nat /\ ~(m(i) + j <= m(i)) /\ (m(i) + j) - m(i) = j
    BY <2>1
  <2>3. j + m(f[i]) \in DOMAIN K[f[i]] /\ m(i) + j \in DOMAIN J[i]
    BY <1>4, <2>1, <2>2
  <2>4. K[f[i]][m(f[i]) + j] = A[i][j]
    BY <1>4, <2>1
  <2>5. << f[i], j + m(f[i]) >> \in Places(K)
    BY <1>5, <2>1, <2>2, <2>3, PlacesFacts
  <2>6. << i, m(i) + j >> \in Places(J)
    BY <1>5, <2>1, <2>2, <2>3, PlacesFacts
  <2> QED
    BY <2>2, <2>4, <2>5, <2>6
<1>8. \A i \in D : \A j \in 1..m(i) :
        << i, j >> \in Places(K) /\ << i, j >> \in Places(J) /\ J[i][j] = K[i][j] /\ j <= m(i)
  <2> SUFFICES ASSUME NEW i \in D, NEW j \in 1..m(i)
               PROVE  << i, j >> \in Places(K) /\ << i, j >> \in Places(J) /\ J[i][j] = K[i][j] /\ j <= m(i)
    OBVIOUS
  <2>1. /\ m(i) \in Nat /\ Len(A[i]) \in Nat /\ Len(B[i]) \in Nat
        /\ DOMAIN J[i] = 1..(m(i) + Len(A[i])) /\ DOMAIN K[i] = 1..(m(i) + Len(B[i]))
        /\ J[i][j] = K[i][j]
    BY <1>4
  <2>2. j \in Nat /\ j \in DOMAIN J[i] /\ j \in DOMAIN K[i] /\ j <= m(i)
    BY <2>1
  <2> QED
    BY <1>5, <2>1, <2>2, PlacesFacts
<1>9. \A ij \in Places(J) : h[ij] \in Places(K) /\ J[ij[1]][ij[2]] = K[h[ij][1]][h[ij][2]]
  <2> SUFFICES ASSUME NEW ij \in Places(J)
               PROVE  h[ij] \in Places(K) /\ J[ij[1]][ij[2]] = K[h[ij][1]][h[ij][2]]
    OBVIOUS
  <2> DEFINE i == ij[1]
             j == ij[2] - m(ij[1])
  <2>1. CASE ij[2] \in 1..m(ij[1]) /\ ij[2] <= m(ij[1])
    BY <1>6, <1>8, <2>1
  <2>2. CASE ~(ij[2] <= m(ij[1])) /\ j \in 1..Len(A[i]) /\ ij[2] = m(i) + j
    <3>1. h[ij] = << f[i], j + m(f[i]) >>
      BY <2>2
    <3>2. J[i][m(i) + j] = A[i][j]
      BY <1>4, <1>6, <2>2
    <3> HIDE DEF h, j
    <3> QED
      BY <1>6, <1>7, <2>2, <3>1, <3>2
  <2> QED
    BY <1>6, <2>1, <2>2
<1>10. ASSUME NEW x \in Places(J), NEW y \in Places(J), h[x] = h[y] PROVE x = y
  <2>0. /\ m(x[1]) \in Nat /\ m(y[1]) \in Nat /\ m(f[x[1]]) \in Nat /\ m(f[y[1]]) \in Nat
        /\ x[1] \in D /\ y[1] \in D /\ f[x[1]] \in D /\ f[y[1]] \in D
    BY <1>2, <1>4, <1>6
  <2>1. CASE x[2] <= m(x[1]) /\ y[2] <= m(y[1])
    BY <1>10, <2>1
  <2>2. CASE x[2] <= m(x[1]) /\ ~(y[2] <= m(y[1]))
    <3>1. x = << f[y[1]], (y[2] - m(y[1])) + m(f[y[1]]) >> /\ y[2] - m(y[1]) \in 1..Len(A[y[1]])
      BY <1>6, <1>10, <2>2
    <3>2. x[1] = f[y[1]] /\ x[2] = (y[2] - m(y[1])) + m(f[y[1]])
      BY <3>1
    <3>3. ~(x[2] <= m(f[y[1]]))
      BY <2>0, <3>1, <3>2
    <3> QED
      BY <2>2, <3>2, <3>3
  <2>3. CASE ~(x[2] <= m(x[1])) /\ y[2] <= m(y[1])
    <3>1. y = << f[x[1]], (x[2] - m(x[1])) + m(f[x[1]]) >> /\ x[2] - m(x[1]) \in 1..Len(A[x[1]])
      BY <1>6, <1>10, <2>3
    <3>2. y[1] = f[x[1]] /\ y[2] = (x[2] - m(x[1])) + m(f[x[1]])
      BY <3>1
    <3>3. ~(y[2] <= m(f[x[1]]))
      BY <2>0, <3>1, <3>2
    <3> QED
      BY <2>3, <3>2, <3>3
  <2>4. CASE ~(x[2] <= m(x[1])) /\ ~(y[2] <= m(y[1]))
    <3>1. /\ f[x[1]] = f[y[1]] /\ (x[2] - m(x[1])) + m(f[x[1]]) = (y[2] - m(y[1])) + m(f[y[1]])
          /\ x[2] - m(x[1]) \in 1..Len(A[x[1]]) /\ y[2] - m(y[1]) \in 1..Len(A[y[1]])
          /\ x[2] = m(x[1]) + (x[2] - m(x[1])) /\ y[2] = m(y[1]) + (y[2] - m(y[1]))
      BY <1>6, <1>10, <2>4
    <3>2. x[1] = y[1]
      BY <1>2, <2>0, <3>1
    <3>3. x[2] - m(x[1]) \in Nat /\ y[2] - m(y[1]) \in Nat
      BY <2>0, <3>1, <1>4
    <3>4. x[2] - m(x[1]) = y[2] - m(y[1])
      BY <2>0, <3>1, <3>2, <3>3
    <3> QED
      BY <1>6, <3>1, <3>2, <3>4
  <2> QED
    BY <2>1, <2>2, <2>3, <2>4
<1>11. ASSUME NEW t \in Places(K) PROVE \E s \in Places(J) : h[s] = t
  <2> DEFINE i == t[1]
  <2>1. /\ t = << i, t[2] >> /\ i \in D /\ t[2] \in DOMAIN K[i] /\ m(i) \in Nat
        /\ Len(B[i]) \in Nat /\ t[2] \in 1..(m(i) + Len(B[i]))
    BY <1>4, <1>5, PlacesFacts
  <2>2. CASE t[2] <= m(i)
    <3>1. t[2] \in 1..m(i)
      BY <2>1, <2>2
    <3>2. t \in Places(J) /\ h[t] = t
      BY <1>8, <2>1, <2>2, <3>1
    <3> QED
      BY <3>2
  <2>3. CASE ~(t[2] <= m(i))
    <3> DEFINE l == back(i)
               j == t[2] - m(i)
    <3>1. j \in 1..Len(B[i]) /\ t[2] = j + m(i)
      BY <2>1, <2>3
    <3>2. l \in D /\ f[l] = i /\ B[i] = A[l]
      BY <1>2, <2>1
    <3> HIDE DEF l, j
    <3>3. << l, m(l) + j >> \in Places(J) /\ ~(m(l) + j <= m(l)) /\ (m(l) + j) - m(l) = j
      BY <1>7, <3>1, <3>2
    <3>4. h[<< l, m(l) + j >>] = << f[l], j + m(f[l]) >>
      BY <3>3
    <3> QED
      BY <2>1, <3>1, <3>2, <3>3, <3>4
  <2> QED
    BY <2>2, <2>3
<1>12. h \in [Places(J) -> Places(K)]
  BY <1>9
<1> HIDE DEF h
<1>13. OneToOne(h, Places(J), Places(K))
  BY <1>10, <1>11, <1>12 DEF OneToOne
<1>14. PICK g : /\ OneToOne(g, Places(J), DOMAIN FlattenSeq(J))
                /\ \A ij \in Places(J) : FlattenSeq(J)[g[ij]] = J[ij[1]][ij[2]]
  BY <1>4, <1>5, FlattenFacts
<1>15. PICK k : /\ OneToOne(k, Places(K), DOMAIN FlattenSeq(K))
                /\ \A ij \in Places(K) : FlattenSeq(K)[k[ij]] = K[ij[1]][ij[2]]
  BY <1>4, <1>5, FlattenFacts
<1>16. \A ij \in Places(J) : FlattenSeq(J)[g[ij]] = FlattenSeq(K)[k[h[ij]]]
  BY <1>9, <1>14, <1>15
<1>17. Rearranged(FlattenSeq(J), FlattenSeq(K))
  BY <1>13, <1>14, <1>15, <1>16, RearrangedVia
<1> QED
  BY <1>17 DEF J, K, D

------------------------------------------------------------------------------
(* A function over the domain of a sequence is a sequence of the same      *)
(* length.                                                                 *)
LEMMA SeqOver ==
  ASSUME NEW s, IsSeq(s), NEW t, t = [i \in DOMAIN s |-> t[i]]
  PROVE  IsSeq(t) /\ DOMAIN t = DOMAIN s /\ Len(t) = Len(s)
<1>1. Len(s) \in Nat /\ DOMAIN s = 1..Len(s)
  BY EmptySequence
<1>2. t \in [1..Len(s) -> ToSet(t)] /\ DOMAIN t = 1..Len(s)
  BY <1>1 DEF ToSet
<1>3. t \in Seq(ToSet(t))
  BY <1>1, <1>2
<1> QED
  BY <1>1, <1>2, <1>3 DEF IsSeq

(* The pieces a builder emits come in sequences.                           *)
LEMMA PieceSeqs ==
  /\ IsSeq(<<>>) /\ IsSeq(Fail)
  /\ \A x : IsSeq(<< x >>)
  /\ \A s : IsSeq(Sql(s)) /\ IsSeq(Col(s)) /\ IsSeq(Quoted(s)) /\ IsSeq(Bind(s)) /\ IsSeq(As(s))
            /\ IsSeq(Literal(s)) /\ IsSeq(Table(s))
  /\ \A s, t : IsSeq(JoinCol(s, t))
<1>1. \A x : IsSeq(<< x >>)
  <2>1. \A x : << x >> \in Seq({x})
    OBVIOUS
  <2> QED
    BY <2>1, SeqElements
<1>2. IsSeq(<<>>)
  <2>1. <<>> \in Seq({})
    OBVIOUS
  <2> QED
    BY <2>1, SeqElements
<1> QED
  BY <1>1, <1>2 DEF Fail, Sql, Col, Quoted, Bind, As, Literal, Table, JoinCol

(* Join is FlattenSeq of the parts, each after the separator of its place. *)
LEMMA JoinForm ==
  ASSUME NEW parts, NEW separator, IsSeq(parts), \A i \in DOMAIN parts : IsSeq(parts[i])
  PROVE  LET X == [i \in DOMAIN parts |-> IF i = 1 THEN <<>> ELSE Sql(separator)]
         IN /\ Join(parts, separator) = FlattenSeq([i \in DOMAIN parts |-> X[i] \o parts[i]])
            /\ \A i \in DOMAIN parts : IsSeq(X[i])
            /\ IsSeq(Join(parts, separator))
<1> DEFINE X == [i \in DOMAIN parts |-> IF i = 1 THEN <<>> ELSE Sql(separator)]
           J == [i \in DOMAIN parts |-> X[i] \o parts[i]]
<1>1. \A i \in DOMAIN parts : IsSeq(X[i])
  BY PieceSeqs
<1>2. \A s : IsSeq(s) => <<>> \o s = s
  BY ConcatEmptySeq DEF IsSeq
<1>3. [i \in DOMAIN parts |-> IF i = 1 THEN parts[i] ELSE Sql(separator) \o parts[i]] = J
  BY <1>2
<1>4. Join(parts, separator) = FlattenSeq(J)
  BY <1>3 DEF Join
<1>5. IsSeq(J) /\ DOMAIN J = DOMAIN parts
  <2>1. J = [i \in DOMAIN parts |-> J[i]]
    OBVIOUS
  <2> HIDE DEF J
  <2> QED
    BY ONLY <2>1, SeqOver, IsSeq(parts)
<1>6. \A i \in DOMAIN J : IsSeq(J[i])
  BY <1>1, ConcatFacts
<1> HIDE DEF J, X
<1>7. IsSeq(FlattenSeq(J))
  BY <1>5, <1>6, FlattenFacts
<1> QED
  BY <1>1, <1>4, <1>7 DEF X, J

(* Rearrangements have the same places.                                    *)
LEMMA RearrangedLen ==
  ASSUME NEW a, NEW b, IsSeq(a), IsSeq(b), Rearranged(a, b)
  PROVE  DOMAIN a = DOMAIN b
<1>1. PICK f : OneToOne(f, DOMAIN a, DOMAIN b)
  BY DEF Rearranged
<1>2. /\ Len(a) \in Nat /\ Len(b) \in Nat /\ DOMAIN a = 1..Len(a) /\ DOMAIN b = 1..Len(b)
  BY EmptySequence
<1>3. f \in Bijection(DOMAIN a, DOMAIN b)
  BY <1>1, Fun_IsBij DEF OneToOne
<1>4. ExistsBijection(1..Len(a), 1..Len(b))
  BY <1>2, <1>3 DEF ExistsBijection
<1>5. Cardinality(1..Len(a)) = Cardinality(1..Len(b))
  BY <1>2, <1>4, FS_Interval, FS_Bijection
<1>6. \A n \in Nat : Cardinality(1..n) = n
  BY FS_Interval
<1>7. Len(a) = Len(b)
  BY <1>2, <1>5, <1>6
<1> QED
  BY <1>2, <1>7

(* Joining the same parts in another order gives a rearrangement: the      *)
(* separators stay in place.                                               *)
LEMMA RearrangedJoin ==
  ASSUME NEW A, NEW B, NEW separator, IsSeq(A), IsSeq(B), \A i \in DOMAIN A : IsSeq(A[i]), Rearranged(A, B)
  PROVE  /\ Rearranged(Join(A, separator), Join(B, separator))
         /\ IsSeq(Join(A, separator)) /\ IsSeq(Join(B, separator))
<1> DEFINE X == [i \in DOMAIN A |-> IF i = 1 THEN <<>> ELSE Sql(separator)]
<1>1. DOMAIN A = DOMAIN B
  BY RearrangedLen
<1>2. \A i \in DOMAIN B : IsSeq(B[i])
  BY <1>1 DEF Rearranged, OneToOne
<1>3. /\ Join(A, separator) = FlattenSeq([i \in DOMAIN A |-> X[i] \o A[i]])
      /\ \A i \in DOMAIN A : IsSeq(X[i])
      /\ IsSeq(Join(A, separator))
  BY JoinForm
<1>4. /\ Join(B, separator) = FlattenSeq([i \in DOMAIN B |-> X[i] \o B[i]])
      /\ IsSeq(Join(B, separator))
  BY <1>1, <1>2, JoinForm
<1> HIDE DEF X
<1> QED
  BY <1>1, <1>3, <1>4, RearrangedParts

(* Flattening the same parts in another order gives a rearrangement.       *)
LEMMA RearrangedFlatten ==
  ASSUME NEW A, NEW B, IsSeq(A), IsSeq(B), \A i \in DOMAIN A : IsSeq(A[i]), Rearranged(A, B)
  PROVE  Rearranged(FlattenSeq(A), FlattenSeq(B))
<1> DEFINE X == [i \in DOMAIN A |-> <<>>]
<1>1. DOMAIN A = DOMAIN B
  BY RearrangedLen
<1>2. \A i \in DOMAIN B : IsSeq(B[i])
  BY <1>1 DEF Rearranged, OneToOne
<1>3. \A s : IsSeq(s) => <<>> \o s = s
  BY ConcatEmptySeq DEF IsSeq
<1>4. \A i \in DOMAIN A : IsSeq(X[i])
  BY PieceSeqs
<1>5. A = [i \in DOMAIN A |-> X[i] \o A[i]]
  <2>1. A = [i \in DOMAIN A |-> A[i]]
    BY DEF IsSeq
  <2> QED
    BY <1>3, <2>1
<1>6. B = [i \in DOMAIN B |-> X[i] \o B[i]]
  <2>1. B = [i \in DOMAIN B |-> B[i]]
    BY DEF IsSeq
  <2> QED
    BY <1>1, <1>2, <1>3, <2>1
<1> HIDE DEF X
<1>7. Rearranged(FlattenSeq([i \in DOMAIN A |-> X[i] \o A[i]]), FlattenSeq([i \in DOMAIN B |-> X[i] \o B[i]]))
  BY <1>1, <1>4, RearrangedParts
<1> QED
  BY <1>5, <1>6, <1>7

(* Two sequences of the same elements without repetition are               *)
(* rearrangements.                                                         *)
LEMMA RearrangedDistinct ==
  ASSUME NEW a, NEW b, Distinct(a), Distinct(b), ToSet(a) = ToSet(b)
  PROVE  Rearranged(a, b)
<1> DEFINE f == [i \in DOMAIN a |-> CHOOSE j \in DOMAIN b : b[j] = a[i]]
<1>1. \A i \in DOMAIN a : f[i] \in DOMAIN b /\ b[f[i]] = a[i]
  BY DEF ToSet
<1>2. \A i, j \in DOMAIN a : a[i] = a[j] => i = j
  BY DEF Distinct
<1>3. \A i, j \in DOMAIN b : b[i] = b[j] => i = j
  BY DEF Distinct
<1>4. \A t \in DOMAIN b : \E s \in DOMAIN a : a[s] = b[t]
  BY DEF ToSet
<1>5. f \in [DOMAIN a -> DOMAIN b]
  BY <1>1
<1> HIDE DEF f
<1> QED
  BY <1>1, <1>2, <1>3, <1>4, <1>5 DEF Rearranged, OneToOne

(* A function applied to the elements of rearrangements gives              *)
(* rearrangements.                                                         *)
LEMMA RearrangedMap ==
  ASSUME NEW a, NEW b, NEW f, Rearranged(a, b)
  PROVE  Rearranged([i \in DOMAIN a |-> f[a[i]]], [i \in DOMAIN b |-> f[b[i]]])
<1>1. PICK g : OneToOne(g, DOMAIN a, DOMAIN b) /\ \A i \in DOMAIN a : a[i] = b[g[i]]
  BY DEF Rearranged
<1> DEFINE c == [i \in DOMAIN a |-> f[a[i]]]
           d == [i \in DOMAIN b |-> f[b[i]]]
<1>2. OneToOne(g, DOMAIN c, DOMAIN d) /\ \A i \in DOMAIN c : c[i] = d[g[i]]
  BY <1>1 DEF OneToOne
<1> HIDE DEF c, d
<1>3. Rearranged(c, d)
  BY <1>2 DEF Rearranged
<1> QED
  BY <1>3 DEF c, d

-----------------------------------------------------------------------------
(* Nothing is left out of a sequence all of whose elements are kept.       *)
LEMMA AmongAll ==
  ASSUME NEW seq, NEW S, \A i \in DOMAIN seq : seq[i] \in S
  PROVE  Among(seq, S) = seq
BY DEF Among

(* An object has the keys of its entries.                                  *)
LEMMA KeysFacts ==
  ASSUME NEW v
  PROVE  /\ DOMAIN Keys(v) = DOMAIN v.entries
         /\ \A i \in DOMAIN v.entries : Keys(v)[i] = v.entries[i].key
         /\ \A i \in DOMAIN v.entries : v.entries[i] \in ToSet(v.entries)
         /\ \A i \in DOMAIN v.entries : v.entries[i].key \in ToSet(Keys(v))
         /\ \A k : Has(v, k) <=> k \in ToSet(Keys(v))
BY DEF Keys, ToSet, Has

(* With distinct keys, an object's value at a key is that of the key's     *)
(* entry.                                                                  *)
LEMMA GetKey ==
  ASSUME NEW v, Distinct(Keys(v)), NEW i \in DOMAIN v.entries
  PROVE  Get(v, v.entries[i].key) = v.entries[i].value
<1>1. Has(v, v.entries[i].key)
  BY DEF Has
<1>2. \A j \in DOMAIN v.entries : v.entries[j].key = v.entries[i].key => j = i
  BY KeysFacts DEF Distinct
<1>3. (CHOOSE j \in DOMAIN v.entries : v.entries[j].key = v.entries[i].key) = i
  BY <1>2
<1> QED
  BY <1>1, <1>3 DEF Get

------------------------------------------------------------------------------
(* The elements of K up to i, which Among counts.                          *)
Upto(K, i) == Cardinality({j \in K : j <= i})

(* Counting up the elements of a set of positions reaches each number up   *)
(* to its size once.                                                       *)
LEMMA Ranks ==
  ASSUME NEW n \in Nat, NEW K \in SUBSET (1..n)
  PROVE  /\ IsFiniteSet(K) /\ Cardinality(K) \in Nat
         /\ \A i \in K : Upto(K, i) \in 1..Cardinality(K)
         /\ \A i, j \in K : i < j => Upto(K, i) < Upto(K, j)
         /\ \A r \in 1..Cardinality(K) : \E i \in K : Upto(K, i) = r
<1> DEFINE lower(i) == {j \in K : j <= i}
<1>0. \A k \in K : k \in Int /\ 1 <= k /\ k <= n
  OBVIOUS
<1>1. IsFiniteSet(K) /\ Cardinality(K) \in Nat
  <2>1. IsFiniteSet(1..n)
    BY FS_Interval
  <2> QED
    BY <2>1, FS_Subset, FS_CardinalityType
<1>2. \A i : lower(i) \in SUBSET K /\ Upto(K, i) = Cardinality(lower(i))
  BY DEF Upto
<1>3. \A i : /\ IsFiniteSet(lower(i)) /\ Upto(K, i) \in Nat /\ Upto(K, i) <= Cardinality(K)
  <2> SUFFICES ASSUME NEW i
               PROVE  /\ IsFiniteSet(lower(i)) /\ Upto(K, i) \in Nat
                      /\ Upto(K, i) <= Cardinality(K)
    OBVIOUS
  <2> HIDE DEF lower
  <2> QED
    BY <1>1, <1>2, FS_Subset, FS_CardinalityType
<1>4. ASSUME NEW i \in Int, i \in K
      PROVE  Upto(K, i) = Upto(K, i - 1) + 1
  <2>1. \A k \in K : k <= i <=> k <= i - 1 \/ k = i
    BY <1>0
  <2>2. lower(i) = lower(i - 1) \cup {i} /\ i \notin lower(i - 1)
    <3>1. lower(i) = lower(i - 1) \cup {i}
      BY ONLY <2>1, i \in K, Zenon
    <3>2. ~(i <= i - 1)
      OBVIOUS
    <3> QED
      BY <3>1, <3>2
  <2> HIDE DEF lower
  <2> QED
    BY <1>2, <1>3, <2>2, FS_AddElement
<1>5. ASSUME NEW i \in Int, i \notin K
      PROVE  Upto(K, i) = Upto(K, i - 1)
  <2>1. \A k \in K : k <= i <=> k <= i - 1
    BY <1>0, <1>5
  <2>2. lower(i) = lower(i - 1)
    BY ONLY <2>1, Zenon
  <2> QED
    BY <1>2, <2>2
<1>6. Upto(K, 0) = 0
  <2>1. \A k \in K : ~(k <= 0)
    BY <1>0
  <2>2. lower(0) = {}
    BY ONLY <2>1, Zenon
  <2> QED
    BY <1>2, <2>2, FS_EmptySet
<1>7. Upto(K, n) = Cardinality(K)
  <2>1. lower(n) = K
    BY ONLY <1>0, Zenon
  <2> QED
    BY <1>2, <2>1
<1>8. \A i, j \in K : i < j => Upto(K, i) < Upto(K, j)
  <2> SUFFICES ASSUME NEW i \in K, NEW j \in K, i < j
               PROVE  Upto(K, i) < Upto(K, j)
    OBVIOUS
  <2>1. \A k \in K : k <= i => k <= j - 1
    BY <1>0
  <2>2. lower(i) \in SUBSET lower(j - 1)
    BY ONLY <2>1, Zenon
  <2> HIDE DEF lower
  <2>3. Upto(K, i) <= Upto(K, j - 1)
    BY <1>2, <1>3, <2>2, FS_Subset
  <2>4. Upto(K, j) = Upto(K, j - 1) + 1
    BY <1>0, <1>4
  <2> QED
    BY <1>3, <2>3, <2>4
<1>9. ASSUME NEW i \in K PROVE Upto(K, i) >= 1 /\ Upto(K, i) \in 1..Cardinality(K)
  <2>1. Upto(K, i - 1) \in Nat /\ Upto(K, i) \in Nat /\ Upto(K, i) <= Cardinality(K)
    BY <1>3
  <2>2. Upto(K, i) = Upto(K, i - 1) + 1
    BY <1>0, <1>4
  <2> QED
    BY ONLY <1>1, <2>1, <2>2
<1>10. ASSUME NEW r \in 1..Cardinality(K)
       PROVE  \E i \in K : Upto(K, i) = r
  <2> DEFINE reached == {i \in 0..n : Upto(K, i) >= r}
  <2>1. reached # {} /\ reached \in SUBSET Nat
    BY <1>1, <1>7
  <2>2. PICK i \in reached : \A j \in reached : i <= j
    <3> HIDE DEF reached
    <3> QED
      BY <2>1, SmallestNat
  <2>3. i # 0
    BY <1>6, <1>1
  <2>4. i \in Int /\ i - 1 \in 0..n /\ ~(i <= i - 1)
    BY <2>3
  <2>5. ~(Upto(K, i - 1) >= r) /\ Upto(K, i) >= r
    BY <2>2, <2>4
  <2> HIDE DEF lower
  <2>6. i \in K
    BY <1>5, <2>4, <2>5
  <2>7. Upto(K, i) = Upto(K, i - 1) + 1
    BY <1>4, <2>4, <2>6
  <2>8. Upto(K, i - 1) \in Nat /\ r \in Int
    BY <1>1, <1>3
  <2>9. Upto(K, i) = r
    BY ONLY <2>5, <2>7, <2>8
  <2> QED
    BY <2>6, <2>9
<1> QED
  BY <1>1, <1>8, <1>9, <1>10

(* What Among keeps: the elements in S, in a sequence, none twice that was *)
(* there once.                                                             *)
LEMMA AmongElements ==
  ASSUME NEW s, s \in Seq(ToSet(s)), NEW S
  PROVE  /\ Among(s, S) \in Seq(ToSet(Among(s, S)))
         /\ ToSet(Among(s, S)) = ToSet(s) \cap S
         /\ Distinct(s) => Distinct(Among(s, S))
<1> DEFINE kept == {i \in DOMAIN s : s[i] \in S}
<1>1. CASE kept = DOMAIN s
  <2>1. Among(s, S) = s /\ ToSet(s) \cap S = ToSet(s)
    BY <1>1 DEF Among, ToSet
  <2> QED
    BY <2>1
<1>2. CASE kept # DOMAIN s
  <2> DEFINE pos(k) == CHOOSE i \in kept : Cardinality({j \in kept : j <= i}) = k
             list == [k \in 1..Cardinality(kept) |-> s[pos(k)]]
  <2>1. Among(s, S) = list
    BY <1>2 DEF Among
  <2>2. Len(s) \in Nat /\ DOMAIN s = 1..Len(s) /\ kept \in SUBSET (1..Len(s))
    OBVIOUS
  <2> HIDE DEF kept
  <2>3. /\ Cardinality(kept) \in Nat
        /\ \A i \in kept : Upto(kept, i) \in 1..Cardinality(kept)
        /\ \A i, j \in kept : i < j => Upto(kept, i) < Upto(kept, j)
        /\ \A r \in 1..Cardinality(kept) : \E i \in kept : Upto(kept, i) = r
    BY <2>2, Ranks
  <2>4. \A k \in 1..Cardinality(kept) : pos(k) \in kept /\ Upto(kept, pos(k)) = k
    BY <2>3 DEF Upto
  <2>5. \A i, j \in kept : Upto(kept, i) = Upto(kept, j) => i = j
    <3> SUFFICES ASSUME NEW i \in kept, NEW j \in kept, Upto(kept, i) = Upto(kept, j)
                 PROVE  i = j
      OBVIOUS
    <3>1. i \in Int /\ j \in Int /\ Upto(kept, i) \in Int
      BY <2>2, <2>3
    <3> QED
      BY <2>3, <3>1
  <2>6. \A i \in kept : pos(Upto(kept, i)) = i
    BY <2>3, <2>4, <2>5
  <2> HIDE DEF pos
  <2>7. ToSet(list) = {s[i] : i \in kept}
    <3>1. ASSUME NEW x \in ToSet(list) PROVE x \in {s[i] : i \in kept}
      BY <2>4, <3>1 DEF ToSet
    <3>2. ASSUME NEW i \in kept PROVE s[i] \in ToSet(list)
      <4>1. list[Upto(kept, i)] = s[i] /\ Upto(kept, i) \in DOMAIN list
        BY <2>3, <2>6
      <4> QED
        BY <4>1 DEF ToSet
    <3> QED
      BY <3>1, <3>2
  <2>8. ToSet(list) = ToSet(s) \cap S
    BY <2>7 DEF ToSet, kept
  <2>9. list \in Seq(ToSet(list))
    BY <2>3 DEF ToSet
  <2>10. ASSUME Distinct(s), NEW k \in DOMAIN list, NEW l \in DOMAIN list, list[k] = list[l]
         PROVE  k = l
    <3>1. pos(k) = pos(l)
      <4>1. s[pos(k)] = s[pos(l)] /\ pos(k) \in DOMAIN s /\ pos(l) \in DOMAIN s
        BY <2>4, <2>10 DEF kept
      <4> QED
        BY <2>10, <4>1 DEF Distinct
    <3> QED
      BY <2>4, <3>1
  <2>11. Distinct(s) => Distinct(list)
    BY <2>9, <2>10 DEF Distinct
  <2> QED
    BY <2>1, <2>8, <2>9, <2>11
<1> QED
  BY <1>1, <1>2

------------------------------------------------------------------------------
(* set: all three walk the object's own entries.                           *)
LEMMA SetAgree ==
  ASSUME NEW node, NEW params,
         LET v == Get(params, node.param)
         IN IsObject(v) => /\ KnownKeys(v, node.columns)
                           /\ \A e \in ToSet(v.entries) : IsPrimitive(e.value)
  PROVE  /\ GoSet(node, params, TRUE) = TsSet(node, params)
         /\ NetSet(node, params) = TsSet(node, params)
<1> DEFINE v == Get(params, node.param)
<1>1. CASE ~IsObject(v) \/ v.entries = <<>>
  BY <1>1 DEF TsSet, GoSet, NetSet
<1>2. CASE IsObject(v) /\ v.entries # <<>>
  <2>1. /\ KnownKeys(v, node.columns)
        /\ \A i \in DOMAIN v.entries : /\ v.entries[i].key \in ToSet(node.columns)
                                       /\ IsPrimitive(v.entries[i].value)
    BY <1>2, KeysFacts DEF KnownKeys
  <2> DEFINE Assign(e) == Col(e.key) \o Sql("=") \o Bind(e.value)
             parts == [i \in DOMAIN v.entries |-> Assign(v.entries[i])]
  <2>2. TsSet(node, params) = Sql("set") \o Join(parts, ",")
    <3>1. \A i \in DOMAIN v.entries :
            (IF v.entries[i].key \in ToSet(node.columns) /\ IsPrimitive(v.entries[i].value)
             THEN Assign(v.entries[i]) ELSE Fail) = parts[i]
      BY <2>1
    <3> QED
      BY <1>2, <3>1 DEF TsSet, Each, Known
  <2>3. NetSet(node, params) = Sql("set") \o Join(parts, ",")
    <3>1. Those(v.entries, LAMBDA e : Known(node.columns, e.key)) = v.entries
      BY <2>1, AmongAll DEF Those, ToSet, Known
    <3> QED
      BY <1>2, <3>1 DEF NetSet, Each
  <2>4. GoSet(node, params, TRUE) = Sql("set") \o Join(parts, ",")
    <3>1. Those(Keys(v), LAMBDA k : Known(node.columns, k)) = Keys(v)
      <4>1. \A i \in DOMAIN Keys(v) :
              Keys(v)[i] \in {x \in ToSet(Keys(v)) : Known(node.columns, x)}
        BY <2>1, KeysFacts DEF Known
      <4> QED
        BY <4>1, AmongAll DEF Those
    <3>2. \A i \in DOMAIN v.entries :
            Col(Keys(v)[i]) \o Sql("=") \o Bind(Get(v, Keys(v)[i])) = parts[i]
      BY <2>1, KeysFacts, GetKey DEF KnownKeys
    <3>3. Each(Keys(v), LAMBDA k : Col(k) \o Sql("=") \o Bind(Get(v, k))) = parts
      BY <3>2, KeysFacts DEF Each
    <3>4. GoKeys(v, node.columns, TRUE) = Keys(v)
      BY DEF GoKeys
    <3> HIDE DEF parts
    <3> QED
      BY <1>2, <3>1, <3>3, <3>4 DEF GoSet
  <2> QED
    BY <2>2, <2>3, <2>4
<1> QED
  BY <1>1, <1>2
(* Rows of equal keys: each builder sees the same rows, the same keys in   *)
(* the table's order, and binds the same primitive in each place.          *)
LEMMA RowsFacts ==
  ASSUME NEW columns, Distinct(columns), NEW v, PortableRows(v, columns), v.items # <<>>
  PROVE  LET rows == v.items
             keys == TsCanonicalKeys(columns, rows)
         IN /\ Objects(rows) = rows
            /\ TsRowsAgree(columns, rows)
            /\ GoCanonicalKeys(columns, rows[1]) = keys
            /\ NetCanonicalKeys(columns, rows[1]) = keys
            /\ ToSet(keys) = ToSet(Keys(rows[1])) /\ keys \in Seq(ToSet(keys))
            /\ GoTuples(keys, rows) = TsTuples(keys, rows)
            /\ NetTuples(keys, rows) = TsTuples(keys, rows)
<1> DEFINE rows == v.items
           keys == TsCanonicalKeys(columns, rows)
<1>1. /\ KnownKeys(rows[1], columns)
      /\ \A r \in DOMAIN rows : /\ IsObject(rows[r])
                               /\ ToSet(Keys(rows[r])) = ToSet(Keys(rows[1]))
                               /\ \A e \in ToSet(rows[r].entries) : IsPrimitive(e.value)
  BY DEF PortableRows, ToSet
<1>2. Objects(rows) = rows
  <2>1. \A r \in DOMAIN rows : rows[r] \in {x \in ToSet(rows) : IsObject(x)}
    BY <1>1 DEF ToSet
  <2> QED
    BY <2>1, AmongAll DEF Objects, Those
<1>3. TsRowsAgree(columns, rows)
  BY <1>1 DEF TsRowsAgree, KnownKeys
<1>4. /\ keys = Among(columns, {c \in ToSet(columns) : Has(rows[1], c)})
      /\ GoCanonicalKeys(columns, rows[1]) = keys
      /\ NetCanonicalKeys(columns, rows[1]) = keys
  BY DEF TsCanonicalKeys, GoCanonicalKeys, NetCanonicalKeys, Those
<1>5. keys \in Seq(ToSet(keys)) /\ ToSet(keys) = ToSet(columns) \cap {c \in ToSet(columns) : Has(rows[1], c)}
  <2> HIDE DEF keys
  <2> QED
    BY <1>4, AmongElements DEF Distinct
<1> HIDE DEF keys
<1>6. ToSet(keys) = ToSet(Keys(rows[1]))
  BY <1>1, <1>5, KeysFacts DEF KnownKeys
<1>7. ASSUME NEW r \in DOMAIN rows, NEW i \in DOMAIN keys
      PROVE  IsPrimitive(Get(rows[r], keys[i]))
  <2>1. Has(rows[r], keys[i])
    BY <1>1, <1>6, KeysFacts DEF ToSet
  <2>2. PICK j \in DOMAIN rows[r].entries : Get(rows[r], keys[i]) = rows[r].entries[j].value
    BY <2>1 DEF Get, Has
  <2> QED
    BY <1>1, <2>2 DEF ToSet
<1> DEFINE cells(row) == [i \in DOMAIN keys |-> Bind(Get(row, keys[i]))]
           tuples == [r \in DOMAIN rows |->
                        Sql("(") \o Join(cells(rows[r]), ",") \o Sql(")")]
<1>8. TsTuples(keys, rows) = Join(tuples, ",")
  <2>1. \A r \in DOMAIN rows : [i \in DOMAIN keys |-> TsValue(Get(rows[r], keys[i]))] = cells(rows[r])
    BY <1>7 DEF TsValue
  <2> QED
    BY <2>1 DEF TsTuples, Each
<1>9. \A r \in DOMAIN rows : \A i \in DOMAIN keys : Get(rows[r], keys[i]) # Absent
  BY <1>7 DEF IsPrimitive, Absent
<1>10. GoTuples(keys, rows) = Join(tuples, ",")
  <2>1. \A r \in DOMAIN rows : [i \in DOMAIN keys |-> GoBind(Get(rows[r], keys[i]))] = cells(rows[r])
    BY <1>9 DEF GoBind
  <2> QED
    BY <2>1 DEF GoTuples, Each
<1>11. NetTuples(keys, rows) = Join(tuples, ",")
  <2>1. \A r \in DOMAIN rows : [i \in DOMAIN keys |-> NetBind(Get(rows[r], keys[i]))] = cells(rows[r])
    BY <1>9 DEF NetBind
  <2> QED
    BY <2>1 DEF NetTuples, Each
<1> QED
  BY <1>2, <1>3, <1>4, <1>5, <1>6, <1>8, <1>10, <1>11 DEF keys

(* insert, its column list and its values.                                 *)
LEMMA InsertAgree ==
  ASSUME NEW node, NEW params, Distinct(node.columns),
         PortableRows(Get(params, node.param), node.columns)
  PROVE  /\ GoInsert(node, params) = TsInsert(node, params)
         /\ NetInsert(node, params) = TsInsert(node, params)
         /\ GoInsertCols(node, params) = TsInsertCols(node, params)
         /\ NetInsertCols(node, params) = TsInsertCols(node, params)
         /\ GoInsertValues(node, params) = TsInsertValues(node, params)
         /\ NetInsertValues(node, params) = TsInsertValues(node, params)
<1> DEFINE v == Get(params, node.param)
           rows == v.items
           keys == TsCanonicalKeys(node.columns, rows)
<1>1. IsList(v) /\ v # Absent
  BY DEF PortableRows, IsList, Absent
<1>2. CASE rows = <<>>
  <2>1. Objects(rows) = <<>>
    BY <1>2, AmongAll DEF Objects, Those
  <2>2. /\ TsInsert(node, params) = Fail /\ TsInsertCols(node, params) = Fail
        /\ TsInsertValues(node, params) = Fail
    BY <1>1, <1>2 DEF TsInsert, TsInsertCols, TsInsertValues, TsRows
  <2>3. /\ GoInsert(node, params) = Fail /\ GoInsertCols(node, params) = Fail
        /\ GoInsertValues(node, params) = Fail
    BY <1>1, <2>1 DEF GoInsert, GoInsertCols, GoInsertValues, GoRows, GoCoerceRowList
  <2>4. /\ NetInsert(node, params) = Fail /\ NetInsertCols(node, params) = Fail
        /\ NetInsertValues(node, params) = Fail
    BY <1>1, <2>1 DEF NetInsert, NetInsertCols, NetInsertValues, NetRows, NetCoerceRowList
  <2> QED
    BY <2>2, <2>3, <2>4
<1>3. CASE rows # <<>>
  <2>1. /\ Objects(rows) = rows
        /\ TsRowsAgree(node.columns, rows)
        /\ GoCanonicalKeys(node.columns, rows[1]) = keys
        /\ NetCanonicalKeys(node.columns, rows[1]) = keys
        /\ GoTuples(keys, rows) = TsTuples(keys, rows)
        /\ NetTuples(keys, rows) = TsTuples(keys, rows)
    BY <1>3, RowsFacts
  <2>2. /\ TsInsert(node, params) =
             Sql("(") \o Columns(keys) \o Sql(") values") \o TsTuples(keys, rows)
        /\ TsInsertCols(node, params) = Columns(keys)
        /\ TsInsertValues(node, params) = TsTuples(keys, rows)
    BY <1>1, <1>3, <2>1 DEF TsInsert, TsInsertCols, TsInsertValues, TsRows
  <2>3. /\ GoInsert(node, params) =
             Sql("(") \o Columns(keys) \o Sql(") values") \o TsTuples(keys, rows)
        /\ GoInsertCols(node, params) = Columns(keys)
        /\ GoInsertValues(node, params) = TsTuples(keys, rows)
    BY <1>1, <1>3, <2>1 DEF GoInsert, GoInsertCols, GoInsertValues, GoRows, GoCoerceRowList
  <2>4. /\ NetInsert(node, params) =
             Sql("(") \o Columns(keys) \o Sql(") values") \o TsTuples(keys, rows)
        /\ NetInsertCols(node, params) = Columns(keys)
        /\ NetInsertValues(node, params) = TsTuples(keys, rows)
    BY <1>1, <1>3, <2>1 DEF NetInsert, NetInsertCols, NetInsertValues, NetRows, NetCoerceRowList
  <2> QED
    BY <2>2, <2>3, <2>4
<1> QED
  BY <1>2, <1>3

(* upsert, where a row has a column that is not in the conflict.           *)
LEMMA UpsertAgree ==
  ASSUME NEW node, NEW params, NEW dialect, Distinct(node.columns),
         PortableRows(Get(params, node.param), node.columns),
         Get(params, node.param).items # <<>> =>
           ~(ToSet(Keys(Get(params, node.param).items[1])) \subseteq ToSet(node.conflict))
  PROVE  /\ GoUpsert(node, params, dialect) = TsUpsert(node, params, dialect)
         /\ NetUpsert(node, params, dialect) = TsUpsert(node, params, dialect)
<1> DEFINE v == Get(params, node.param)
           rows == v.items
           keys == TsCanonicalKeys(node.columns, rows)
<1>1. IsList(v) /\ v # Absent
  BY DEF PortableRows, IsList, Absent
<1>2. CASE rows = <<>>
  <2>1. Objects(rows) = <<>>
    BY <1>2, AmongAll DEF Objects, Those
  <2> QED
    BY <1>1, <1>2, <2>1
    DEF TsUpsert, GoUpsert, GoRows, GoCoerceRowList, NetUpsert, NetRows, NetCoerceRowList
<1>3. CASE rows # <<>>
  <2>1. /\ Objects(rows) = rows
        /\ GoCanonicalKeys(node.columns, rows[1]) = keys
        /\ NetCanonicalKeys(node.columns, rows[1]) = keys
        /\ ToSet(keys) = ToSet(Keys(rows[1])) /\ keys \in Seq(ToSet(keys))
        /\ GoTuples(keys, rows) = TsTuples(keys, rows)
        /\ NetTuples(keys, rows) = TsTuples(keys, rows)
    BY <1>3, RowsFacts
  <2> HIDE DEF keys
  <2> DEFINE updated == Those(keys, LAMBDA k : k \notin ToSet(node.conflict))
  <2>2. updated # <<>>
    <3>1. ToSet(updated) = ToSet(keys) \cap {k \in ToSet(keys) : k \notin ToSet(node.conflict)}
      BY <2>1, AmongElements DEF Those
    <3>2. ToSet(updated) # {}
      BY <1>3, <2>1, <3>1
    <3> HIDE DEF updated
    <3> QED
      BY <3>2 DEF ToSet
  <2>3. /\ GoUpsertMssql(node, keys, rows) = TsUpsertMssql(node, keys, rows)
        /\ NetUpsertMssql(node, keys, rows) = TsUpsertMssql(node, keys, rows)
    BY <2>1, <2>2 DEF TsUpsertMssql, GoUpsertMssql, NetUpsertMssql,
                      TsAssignFrom, GoAssignFrom, NetAssignFrom
  <2>4. /\ GoUpsertPgSqlite(node, keys, rows) = TsUpsertPgSqlite(node, keys, rows)
        /\ NetUpsertPgSqlite(node, keys, rows) = TsUpsertPgSqlite(node, keys, rows)
    BY <2>1, <2>2 DEF TsUpsertPgSqlite, GoUpsertPgSqlite, NetUpsertPgSqlite,
                      TsAssignFrom, GoAssignFrom, NetAssignFrom
  <2>5. TsUpsert(node, params, dialect) =
          IF dialect = "transactsql" THEN TsUpsertMssql(node, keys, rows)
          ELSE TsUpsertPgSqlite(node, keys, rows)
    BY <1>1, <1>3 DEF TsUpsert, keys
  <2>6. GoUpsert(node, params, dialect) =
          IF dialect = "transactsql" THEN TsUpsertMssql(node, keys, rows)
          ELSE TsUpsertPgSqlite(node, keys, rows)
    BY <1>1, <1>3, <2>1, <2>3, <2>4 DEF GoUpsert, GoRows, GoCoerceRowList
  <2>7. NetUpsert(node, params, dialect) =
          IF dialect = "transactsql" THEN TsUpsertMssql(node, keys, rows)
          ELSE TsUpsertPgSqlite(node, keys, rows)
    BY <1>1, <1>3, <2>1, <2>3, <2>4 DEF NetUpsert, NetRows, NetCoerceRowList
  <2> QED
    BY <2>5, <2>6, <2>7
<1> QED
  BY <1>2, <1>3
------------------------------------------------------------------------------
(* filterBy                                                                *)

(* A comparison of a portable condition is written the same by all.        *)
LEMMA OpAgree ==
  ASSUME NEW col, NEW op, NEW args, PortableOp(args, op)
  PROVE  /\ GoOp(col, op, args) = TsFilterOp(Col(col), op, args)
         /\ NetOp(col, op, args) = TsFilterOp(Col(col), op, args)
<1>1. \A i \in DOMAIN args : IsPrimitive(args[i]) /\ ~IsList(args[i])
  BY DEF PortableOp, IsPrimitive, IsList
<1>2. (IF 1 \in DOMAIN args /\ IsList(args[1]) THEN args[1].items ELSE args) = args
  BY <1>1
<1>3. \A i \in DOMAIN args : TsArg(args, i) = GoArg(args, i) /\ NetArg(args, i) = GoArg(args, i)
  BY <1>1 DEF TsArg, GoArg, NetArg, TsValue
<1>4. TsValues(args) = Binds(args)
  <2>1. [i \in DOMAIN args |-> TsValue(args[i])] = [i \in DOMAIN args |-> Bind(args[i])]
    BY <1>1 DEF TsValue
  <2> QED
    BY <2>1 DEF TsValues, Binds, Each
<1>5. CASE op = "between"
  <2>1. 1 \in DOMAIN args /\ 2 \in DOMAIN args
    BY <1>5 DEF PortableOp
  <2>2. args # <<>>
    BY <2>1
  <2> QED
    BY <1>3, <1>5, <2>1, <2>2 DEF TsFilterOp, GoOp, NetOp
<1>6. CASE op \in {"in", "notIn"}
  BY <1>2, <1>4, <1>6 DEF TsFilterOp, GoOp, NetOp
<1>7. CASE op \in {"isNull", "isNotNull"}
  BY <1>7 DEF TsFilterOp, GoOp, NetOp
<1>8. CASE op \notin {"between", "in", "notIn", "isNull", "isNotNull"}
  <2>1. 1 \in DOMAIN args
    BY <1>8 DEF PortableOp
  <2> QED
    BY <1>3, <1>8, <2>1 DEF TsFilterOp, GoOp, NetOp
<1> QED
  BY <1>5, <1>6, <1>7, <1>8

(* A value of a condition: a plain value, or an operator with its operands. *)
PortableValue(v) ==
  \/ Plain(v)
  \/ /\ IsList(v) /\ v.items # <<>>
     /\ PortableOp(Tail(v.items), Text(v.items[1]))

(* So is an entry of a portable condition.                                 *)
LEMMA EntryAgree ==
  ASSUME NEW columns, NEW e, e.key \in ToSet(columns), PortableValue(e.value)
  PROVE  /\ GoEntry(e.key, e.value) = TsFilterEntry(columns, e)
         /\ NetEntry(e.key, e.value) = TsFilterEntry(columns, e)
<1>1. CASE Plain(e.value)
  <2>1. ~IsList(e.value) /\ TsValue(e.value) = Bind(e.value)
    BY <1>1 DEF Plain, IsPrimitive, IsList, TsValue
  <2> QED
    BY <2>1 DEF GoEntry, NetEntry, TsFilterEntry, Known
<1>2. CASE ~Plain(e.value)
  <2> DEFINE v == e.value
             op == Text(v.items[1])
  <2>1. IsList(v) /\ v.items # <<>> /\ PortableOp(Tail(v.items), op)
    BY <1>2 DEF PortableValue
  <2>2. op \in FilterOps /\ op # ""
    BY <2>1 DEF PortableOp, FilterOps
  <2>3. v.items[1].is = "string" /\ op = v.items[1].str
    BY <2>2 DEF Text
  <2>4. TsFilterEntry(columns, e) = TsFilterOp(Col(e.key), op, Tail(v.items))
    BY <2>1, <2>2 DEF TsFilterEntry, Known
  <2>5. GoEntry(e.key, v) = GoOp(e.key, op, Tail(v.items))
    BY <2>1, <2>2, <2>3 DEF GoEntry
  <2>6. NetEntry(e.key, v) = NetOp(e.key, op, Tail(v.items))
    BY <2>1, <2>2, <2>3 DEF NetEntry
  <2> QED
    BY <2>1, <2>4, <2>5, <2>6, OpAgree
<1> QED
  BY <1>1, <1>2

(* The parts a list of conditions comes to, whatever its or-groups do.     *)
LEMMA PartsAgree ==
  ASSUME NEW columns, Distinct(columns), NEW conditions, NEW group,
         PortableList(columns, conditions)
  PROVE  /\ GoParts(columns, conditions, group) = TsParts(columns, conditions, group)
         /\ NetParts(columns, conditions, group) = TsParts(columns, conditions, group)
<1> DEFINE entries(c) == [i \in DOMAIN c.entries |-> TsFilterEntry(columns, c.entries[i])]
           or(c) == Get(c, "or").items
           part(c) == IF ~Has(c, "or") THEN entries(c)
                      ELSE IF or(c) = <<>> THEN <<>>
                      ELSE << Sql("(") \o group[or(c)] \o Sql(")") >>
<1>1. \A i \in DOMAIN conditions : conditions[i] \in ToSet(conditions)
  BY DEF ToSet
<1>2. Objects(conditions) = conditions
  <2>1. \A i \in DOMAIN conditions : conditions[i] \in {x \in ToSet(conditions) : IsObject(x)}
    BY <1>1 DEF PortableList
  <2> QED
    BY <2>1, AmongAll DEF Objects, Those
<1>3. ASSUME NEW c \in ToSet(conditions), Has(c, "or")
      PROVE  IsList(Get(c, "or")) /\ Objects(or(c)) = or(c)
  <2>1. IsList(Get(c, "or")) /\ \A d \in ToSet(or(c)) : IsObject(d)
    BY <1>3 DEF PortableList
  <2>2. \A i \in DOMAIN or(c) : or(c)[i] \in {x \in ToSet(or(c)) : IsObject(x)}
    BY <2>1 DEF ToSet
  <2> QED
    BY <2>1, <2>2, AmongAll DEF Objects, Those
<1>4. ASSUME NEW c \in ToSet(conditions), ~Has(c, "or")
      PROVE  /\ ~IsList(Get(c, "or"))
             /\ Distinct(Keys(c))
             /\ Keys(c) = Among(columns, {k \in ToSet(columns) : Has(c, k)})
             /\ \A i \in DOMAIN c.entries : /\ c.entries[i].key \in ToSet(columns)
                                            /\ PortableValue(c.entries[i].value)
  <2>1. /\ KnownKeys(c, columns)
        /\ Keys(c) = Those(columns, LAMBDA k : Has(c, k))
        /\ \A e \in ToSet(c.entries) : PortableValue(e.value)
    BY <1>4 DEF PortableList, PortableValue
  <2>2. Get(c, "or") = Absent
    BY <1>4 DEF Get
  <2> QED
    BY <2>1, <2>2, KeysFacts DEF Those, KnownKeys, IsList, Absent
<1>5. ASSUME NEW c \in ToSet(conditions), ~Has(c, "or"), NEW i \in DOMAIN c.entries
      PROVE  /\ GoEntry(c.entries[i].key, c.entries[i].value) = TsFilterEntry(columns, c.entries[i])
             /\ NetEntry(c.entries[i].key, c.entries[i].value) = TsFilterEntry(columns, c.entries[i])
             /\ ~Missing(c.entries[i].value) /\ c.entries[i].value # Null
  <2>1. c.entries[i].key \in ToSet(columns) /\ PortableValue(c.entries[i].value)
    BY <1>4, <1>5
  <2> QED
    BY <2>1, EntryAgree DEF PortableValue, Plain, IsList, Missing, Null
<1>6. TsParts(columns, conditions, group) = FlattenSeq([i \in DOMAIN conditions |-> part(conditions[i])])
  <2>1. \A i \in DOMAIN conditions :
          part(conditions[i]) =
            IF ~Has(conditions[i], "or") THEN entries(conditions[i])
            ELSE IF ~IsList(Get(conditions[i], "or")) THEN TsBadGroup(Get(conditions[i], "or"))
            ELSE IF or(conditions[i]) = <<>> THEN <<>>
            ELSE << Sql("(") \o group[or(conditions[i])] \o Sql(")") >>
    BY <1>1, <1>3
  <2> QED
    BY <2>1 DEF TsParts, Each
<1>7. GoParts(columns, conditions, group) = FlattenSeq([i \in DOMAIN conditions |-> part(conditions[i])])
  <2> DEFINE present(c) == Among(columns, {k \in ToSet(columns) : ~Missing(Get(c, k))})
             found(c) == [i \in DOMAIN present(c) |-> GoEntry(present(c)[i], Get(c, present(c)[i]))]
  <2>1. ASSUME NEW c \in ToSet(conditions), ~Has(c, "or")
        PROVE  found(c) = entries(c)
    <3>1. \A k \in ToSet(columns) : ~Missing(Get(c, k)) <=> Has(c, k)
      <4> SUFFICES ASSUME NEW k \in ToSet(columns)
                   PROVE  ~Missing(Get(c, k)) <=> Has(c, k)
        OBVIOUS
      <4>1. ~Has(c, k) => Missing(Get(c, k))
        BY DEF Get, Missing, Absent
      <4>2. Has(c, k) => \E i \in DOMAIN c.entries : Get(c, k) = c.entries[i].value
        BY DEF Get, Has
      <4> QED
        BY <1>5, <2>1, <4>1, <4>2
    <3>2. present(c) = Keys(c)
      <4>1. {k \in ToSet(columns) : ~Missing(Get(c, k))} = {k \in ToSet(columns) : Has(c, k)}
        BY <3>1
      <4> QED
        BY <1>4, <2>1, <4>1
    <3>3. \A i \in DOMAIN c.entries : GoEntry(Keys(c)[i], Get(c, Keys(c)[i])) = entries(c)[i]
      BY <1>4, <1>5, <2>1, KeysFacts, GetKey
    <3> QED
      BY <3>2, <3>3, KeysFacts
  <2>2. \A i \in DOMAIN conditions :
          part(conditions[i]) =
            IF ~Has(conditions[i], "or") THEN found(conditions[i])
            ELSE IF ~IsList(Get(conditions[i], "or")) THEN <<>>
            ELSE IF Objects(or(conditions[i])) = <<>> THEN <<>>
            ELSE << Sql("(") \o group[or(conditions[i])] \o Sql(")") >>
    <3> SUFFICES ASSUME NEW i \in DOMAIN conditions
                 PROVE  part(conditions[i]) =
                          IF ~Has(conditions[i], "or") THEN found(conditions[i])
                          ELSE IF ~IsList(Get(conditions[i], "or")) THEN <<>>
                          ELSE IF Objects(or(conditions[i])) = <<>> THEN <<>>
                          ELSE << Sql("(") \o group[or(conditions[i])] \o Sql(")") >>
      OBVIOUS
    <3>1. CASE Has(conditions[i], "or")
      BY <1>1, <1>3, <3>1
    <3>2. CASE ~Has(conditions[i], "or")
      <4> HIDE DEF found, entries
      <4> QED
        BY <1>1, <2>1, <3>2
    <3> QED
      BY <3>1, <3>2
  <2> QED
    BY <1>2, <2>2 DEF GoParts, Each, Those
<1>8. NetParts(columns, conditions, group) = FlattenSeq([i \in DOMAIN conditions |-> part(conditions[i])])
  <2> DEFINE present(c) == Among(c.entries, {e \in ToSet(c.entries) : e.value # Null})
             written(e) == IF Known(columns, e.key) THEN NetEntry(e.key, e.value) ELSE Fail
             found(c) == [i \in DOMAIN present(c) |-> written(present(c)[i])]
  <2>1. ASSUME NEW c \in ToSet(conditions), ~Has(c, "or")
        PROVE  found(c) = entries(c) /\ ~IsList(Get(c, "or"))
    <3>1. present(c) = c.entries
      BY <1>5, <2>1, AmongAll, KeysFacts
    <3>2. \A i \in DOMAIN c.entries : written(c.entries[i]) = entries(c)[i]
      BY <1>4, <1>5, <2>1 DEF Known
    <3> QED
      BY <1>4, <2>1, <3>1, <3>2
  <2>2. \A i \in DOMAIN conditions :
          part(conditions[i]) =
            IF ~IsList(Get(conditions[i], "or")) THEN found(conditions[i])
            ELSE IF Objects(or(conditions[i])) = <<>> THEN <<>>
            ELSE << Sql("(") \o group[or(conditions[i])] \o Sql(")") >>
    <3> SUFFICES ASSUME NEW i \in DOMAIN conditions
                 PROVE  part(conditions[i]) =
                          IF ~IsList(Get(conditions[i], "or")) THEN found(conditions[i])
                          ELSE IF Objects(or(conditions[i])) = <<>> THEN <<>>
                          ELSE << Sql("(") \o group[or(conditions[i])] \o Sql(")") >>
      OBVIOUS
    <3>1. CASE Has(conditions[i], "or")
      BY <1>1, <1>3, <3>1
    <3>2. CASE ~Has(conditions[i], "or")
      <4> HIDE DEF found, entries
      <4> QED
        BY <1>1, <2>1, <3>2
    <3> QED
      BY <3>1, <3>2
  <2> QED
    BY <1>2, <2>2 DEF NetParts, Each, Those
<1> QED
  BY <1>6, <1>7, <1>8

(* And the conditions, with what every or-group comes to.                  *)
LEMMA ConditionsAgree ==
  ASSUME NEW columns, Distinct(columns), NEW conditions, PortableConditions(columns, conditions)
  PROVE  /\ GoConditions(columns, conditions) = TsConditions(columns, conditions)
         /\ NetConditions(columns, conditions) = TsConditions(columns, conditions)
<1>1. \A f : \A g \in {conditions} \cup Nested(conditions) :
        /\ GoParts(columns, g, f) = TsParts(columns, g, f)
        /\ NetParts(columns, g, f) = TsParts(columns, g, f)
  BY PartsAgree DEF PortableConditions
<1>2. \A f : [g \in Nested(conditions) |-> Join(GoParts(columns, g, f), "or")] =
             [g \in Nested(conditions) |-> Join(TsParts(columns, g, f), "or")]
  BY <1>1
<1>3. \A f : [g \in Nested(conditions) |-> Join(NetParts(columns, g, f), "or")] =
             [g \in Nested(conditions) |-> Join(TsParts(columns, g, f), "or")]
  BY <1>1
<1>4. (CHOOSE f : f = [g \in Nested(conditions) |-> Join(GoParts(columns, g, f), "or")]) =
      (CHOOSE f : f = [g \in Nested(conditions) |-> Join(TsParts(columns, g, f), "or")])
  BY <1>2
<1>5. (CHOOSE f : f = [g \in Nested(conditions) |-> Join(NetParts(columns, g, f), "or")]) =
      (CHOOSE f : f = [g \in Nested(conditions) |-> Join(TsParts(columns, g, f), "or")])
  BY <1>3
<1> QED
  BY <1>1, <1>4, <1>5 DEF GoConditions, NetConditions, TsConditions

(* An object of one entry.                                                 *)
LEMMA Obj1Facts ==
  ASSUME NEW k, NEW x, NEW name
  PROVE  LET c == Obj1(k, x)
         IN /\ DOMAIN c.entries = {1}
            /\ c.entries[1] \in ToSet(c.entries)
            /\ c.entries[1].key = k /\ c.entries[1].value = x
            /\ Has(c, name) => Get(c, name) = x
<1> DEFINE c == Obj1(k, x)
<1>1. DOMAIN c.entries = {1} /\ c.entries[1].key = k /\ c.entries[1].value = x
  <2>1. c.entries = << [key |-> k, value |-> x] >>
    BY DEF Obj1, Object, Entry
  <2> QED
    BY <2>1
<1> HIDE DEF c
<1>2. c.entries[1] \in ToSet(c.entries)
  BY <1>1 DEF ToSet
<1>3. Has(c, name) => Get(c, name) = x
  <2> SUFFICES ASSUME Has(c, name) PROVE Get(c, name) = x
    OBVIOUS
  <2>1. (CHOOSE i \in DOMAIN c.entries : c.entries[i].key = name) = 1
    BY <1>1 DEF Has
  <2> QED
    BY <1>1, <2>1 DEF Get
<1> QED
  BY <1>1, <1>2, <1>3 DEF c

(* filterBy: a list of conditions, or an object with a condition for each  *)
(* key.                                                                    *)
LEMMA FilterAgree ==
  ASSUME NEW node, NEW params, Distinct(node.columns),
         PortableFilter(Get(params, node.param), node.columns)
  PROVE  /\ GoFilter(node, params, TRUE) = TsFilter(node, params)
         /\ NetFilter(node, params) = TsFilter(node, params)
<1> DEFINE v == Get(params, node.param)
<1>1. CASE Missing(v)
  BY <1>1 DEF TsFilter, GoFilter, NetFilter, Missing, IsList, IsObject
<1>2. CASE IsList(v)
  <2>1. PortableConditions(node.columns, v.items)
    <3>1. ~Missing(v) /\ ~IsObject(v)
      BY <1>2 DEF Missing, IsList, IsObject
    <3> QED
      BY <1>2, <3>1 DEF PortableFilter
  <2>2. Objects(v.items) = v.items
    <3>1. PortableList(node.columns, v.items)
      BY <2>1 DEF PortableConditions
    <3>2. \A i \in DOMAIN v.items : v.items[i] \in {x \in ToSet(v.items) : IsObject(x)}
      BY <3>1 DEF PortableList, ToSet
    <3> QED
      BY <3>2, AmongAll DEF Objects, Those
  <2>3. /\ GoConditions(node.columns, v.items) = TsConditions(node.columns, v.items)
        /\ NetConditions(node.columns, v.items) = TsConditions(node.columns, v.items)
    BY <2>1, ConditionsAgree
  <2>4. TsFilter(node, params) = IF v.items = <<>> THEN Nothing
                                 ELSE node.prefix \o TsConditions(node.columns, v.items)
    BY <1>2 DEF TsFilter, IsList
  <2>5. GoFilter(node, params, TRUE) = IF v.items = <<>> THEN Nothing
                                       ELSE node.prefix \o TsConditions(node.columns, v.items)
    BY <1>2, <2>2, <2>3 DEF GoFilter
  <2>6. NetFilter(node, params) = IF v.items = <<>> THEN Nothing
                                  ELSE node.prefix \o TsConditions(node.columns, v.items)
    BY <1>2, <2>2, <2>3 DEF NetFilter
  <2> QED
    BY <2>4, <2>5, <2>6
<1>3. CASE IsObject(v)
  <2> DEFINE conditions == [i \in DOMAIN v.entries |-> Obj1(v.entries[i].key, v.entries[i].value)]
  <2>1. KnownKeys(v, node.columns) /\ PortableConditions(node.columns, conditions) /\ ~IsList(v)
    BY <1>3 DEF PortableFilter, Missing, IsList, IsObject, Each
  <2>2. \A i \in DOMAIN v.entries : v.entries[i].value # Null
    <3> SUFFICES ASSUME NEW i \in DOMAIN v.entries PROVE v.entries[i].value # Null
      OBVIOUS
    <3> DEFINE c == Obj1(v.entries[i].key, v.entries[i].value)
    <3>1. PortableList(node.columns, conditions) /\ c \in ToSet(conditions)
      BY <2>1 DEF PortableConditions, ToSet
    <3>2. /\ c.entries[1] \in ToSet(c.entries) /\ c.entries[1].value = v.entries[i].value
          /\ Has(c, "or") => Get(c, "or") = v.entries[i].value
      BY Obj1Facts
    <3> HIDE DEF c
    <3>3. CASE Has(c, "or")
      <4>1. IsList(Get(c, "or"))
        BY <3>1, <3>3 DEF PortableList
      <4> QED
        BY <3>2, <3>3, <4>1 DEF IsList, Null
    <3>4. CASE ~Has(c, "or")
      <4>1. \A e \in ToSet(c.entries) : PortableValue(e.value)
        BY <3>1, <3>4 DEF PortableList, PortableValue
      <4>2. PortableValue(v.entries[i].value)
        BY <3>2, <4>1
      <4> QED
        BY <4>2 DEF PortableValue, Plain, IsList, Missing, Null
    <3> QED
      BY <3>3, <3>4
  <2>3. /\ GoConditions(node.columns, conditions) = TsConditions(node.columns, conditions)
        /\ NetConditions(node.columns, conditions) = TsConditions(node.columns, conditions)
    BY <2>1, ConditionsAgree
  <2>4. TsFilter(node, params) = IF conditions = <<>> THEN Nothing
                                 ELSE node.prefix \o TsConditions(node.columns, conditions)
    BY <1>3, <2>1 DEF TsFilter, IsObject, Each
  <2>5. GoFilter(node, params, TRUE) = IF conditions = <<>> THEN Nothing
                                       ELSE node.prefix \o TsConditions(node.columns, conditions)
    <3>1. GoKeys(v, node.columns, TRUE) = Keys(v)
      BY DEF GoKeys
    <3>2. \A i \in DOMAIN Keys(v) : Keys(v)[i] \in {k \in ToSet(Keys(v)) : Get(v, k) # Null}
      <4>1. \A i \in DOMAIN v.entries :
              v.entries[i].key \in ToSet(Keys(v)) /\ Get(v, v.entries[i].key) # Null
        BY <2>1, <2>2, KeysFacts, GetKey DEF KnownKeys
      <4> QED
        BY <4>1, KeysFacts
    <3>3. Those(Keys(v), LAMBDA k : Get(v, k) # Null) = Keys(v)
      BY <3>2, AmongAll DEF Those
    <3>4. \A i \in DOMAIN v.entries : Obj1(Keys(v)[i], Get(v, Keys(v)[i])) = conditions[i]
      BY <2>1, KeysFacts, GetKey DEF KnownKeys
    <3>5. [i \in DOMAIN Keys(v) |-> Obj1(Keys(v)[i], Get(v, Keys(v)[i]))] = conditions
      BY <3>4, KeysFacts
    <3> HIDE DEF conditions
    <3> QED
      BY <1>3, <2>1, <2>3, <3>1, <3>3, <3>5 DEF GoFilter, Each
  <2>6. NetFilter(node, params) = IF conditions = <<>> THEN Nothing
                                  ELSE node.prefix \o TsConditions(node.columns, conditions)
    <3>1. Those(v.entries, LAMBDA e : e.value # Null) = v.entries
      <4>1. \A i \in DOMAIN v.entries : v.entries[i] \in {e \in ToSet(v.entries) : e.value # Null}
        BY <2>2 DEF ToSet
      <4> QED
        BY <4>1, AmongAll DEF Those
    <3> QED
      BY <1>3, <2>1, <2>3, <3>1 DEF NetFilter, Each
  <2> QED
    BY <2>4, <2>5, <2>6
<1> QED
  BY <1>1, <1>2, <1>3 DEF PortableFilter

------------------------------------------------------------------------------
(* The other operators                                                     *)

(* A placeholder is bound to the same value.                               *)
LEMMA ParamAgree ==
  ASSUME NEW node, NEW params
  PROVE  /\ GoParam(node, params) = TsParam(node, params)
         /\ NetParam(node, params) = TsParam(node, params)
BY DEF TsParam, GoParam, NetParam, GoBind, NetBind

(* So are the placeholders of a list.                                      *)
LEMMA EachAgree ==
  ASSUME NEW node, NEW params, IsList(Get(params, node.param)),
         \A x \in ToSet(Get(params, node.param).items) : IsPrimitive(x)
  PROVE  /\ GoEach(node, params) = TsEach(node, params)
         /\ NetEach(node, params) = TsEach(node, params)
<1> DEFINE items == Get(params, node.param).items
<1>1. [i \in DOMAIN items |-> TsValue(items[i])] = [i \in DOMAIN items |-> Bind(items[i])]
  BY DEF TsValue, ToSet
<1> QED
  BY <1>1 DEF TsEach, GoEach, NetEach, Binds, Each

(* limit and offset, where they are given.                                 *)
LEMMA PaginationAgree ==
  ASSUME NEW params,
         \A p \in {"limit", "offset"} : Get(params, p) = Absent \/ IsPrimitive(Get(params, p))
  PROVE  /\ GoPagination(params) = TsPagination(params)
         /\ NetPagination(params) = TsPagination(params)
<1>1. \A p \in {"limit", "offset"} : ~Missing(Get(params, p)) => TsValue(Get(params, p)) = Bind(Get(params, p))
  BY DEF TsValue, Missing, Absent
<1> QED
  BY <1>1 DEF TsPagination, GoPagination, NetPagination

(* orderBy: the keys in document order, with the same directions and       *)
(* refusals.                                                               *)
LEMMA OrderAgree ==
  ASSUME NEW node, NEW params,
         LET v == Get(params, node.param)
         IN IsObject(v) => PortableOrder(v, node.columns, TsAggregates(Get(params, "select")))
  PROVE  /\ GoOrderBy(node, params, TRUE) = TsOrderBy(node, params)
         /\ NetOrderBy(node, params) = TsOrderBy(node, params)
<1> DEFINE v == Get(params, node.param)
           aggregates == TsAggregates(Get(params, "select"))
<1>1. CASE ~IsObject(v) \/ v.entries = <<>>
  BY <1>1 DEF TsOrderBy, GoOrderBy, NetOrderBy
<1>2. CASE IsObject(v) /\ v.entries # <<>>
  <2> DEFINE word(x) == IF x = Null THEN "ASC" ELSE x.str
             term(e) == IF word(e.value) \in Directions THEN Col(e.key) \o Sql(word(e.value)) ELSE Fail
             terms == [i \in DOMAIN v.entries |-> term(v.entries[i])]
  <2> HIDE DEF aggregates
  <2>1. /\ KnownKeys(v, node.columns)
        /\ \A i \in DOMAIN v.entries :
             /\ v.entries[i].key \in ToSet(node.columns)
             /\ v.entries[i].value = Null \/ Text(v.entries[i].value) # ""
             /\ \A j \in DOMAIN aggregates : aggregates[j].key # v.entries[i].key
    <3>1. PortableOrder(v, node.columns, aggregates)
      BY <1>2 DEF aggregates
    <3>2. \A j \in DOMAIN aggregates : aggregates[j] \in ToSet(aggregates)
      BY DEF ToSet
    <3> QED
      BY <3>1, <3>2, KeysFacts DEF PortableOrder, KnownKeys
  <2>2. ASSUME NEW i \in DOMAIN v.entries
        PROVE  LET e == v.entries[i]
                   direction == IF Text(e.value) = "" THEN "ASC" ELSE e.value.str
               IN /\ TsOrderTerm(node.columns, aggregates, e) = term(e)
                  /\ direction = word(e.value)
                  /\ (IF e.value = Null THEN "ASC" ELSE Text(e.value)) = word(e.value)
    <3> DEFINE e == v.entries[i]
    <3>1. CASE e.value = Null
      <4>1. Missing(e.value) /\ Text(e.value) = ""
        BY <3>1 DEF Missing, Text, Null
      <4> QED
        BY <2>1, <3>1, <4>1 DEF TsOrderTerm, Known, Directions
    <3>2. CASE e.value # Null
      <4>1. e.value.is = "string" /\ e.value.str # "" /\ Text(e.value) = e.value.str
        BY <2>1, <3>2 DEF Text
      <4>2. ~Missing(e.value) /\ e.value # False /\ e.value # Str("") /\ e.value # Num(0)
        <5>1. False.is = "false" /\ Str("").str = "" /\ Num(0).is = "number"
          BY DEF False, Str, Num
        <5>2. ~Missing(e.value)
          BY <4>1 DEF Missing
        <5> HIDE DEF e
        <5> QED
          BY <4>1, <5>1, <5>2
      <4>3. ~\E j \in DOMAIN aggregates : aggregates[j].key = e.key
        BY <2>1
      <4> QED
        BY <2>1, <3>2, <4>1, <4>2, <4>3 DEF TsOrderTerm, Known
    <3> QED
      BY <3>1, <3>2
  <2> HIDE DEF term, word
  <2>3. TsOrderBy(node, params) = Sql("order by") \o Join(terms, ",")
    <3>1. [i \in DOMAIN v.entries |-> TsOrderTerm(node.columns, aggregates, v.entries[i])] = terms
      BY <2>2
    <3> QED
      BY <1>2, <3>1 DEF TsOrderBy, Each, aggregates
  <2>4. GoOrderBy(node, params, TRUE) = Sql("order by") \o Join(terms, ",")
    <3> DEFINE direction(k) == IF Text(Get(v, k)) = "" THEN "ASC" ELSE Get(v, k).str
               written(k) == IF ~Known(node.columns, k) \/ direction(k) \notin Directions THEN Fail
                             ELSE Col(k) \o Sql(direction(k))
    <3>1. ASSUME NEW i \in DOMAIN v.entries PROVE written(Keys(v)[i]) = terms[i]
      <4>1. Keys(v)[i] = v.entries[i].key /\ Get(v, v.entries[i].key) = v.entries[i].value
        BY <2>1, KeysFacts, GetKey DEF KnownKeys
      <4>2. direction(v.entries[i].key) = word(v.entries[i].value)
        BY <2>2, <4>1
      <4> HIDE DEF direction
      <4> QED
        BY <2>1, <4>1, <4>2 DEF Known, term
    <3> HIDE DEF terms
    <3>2. [i \in DOMAIN Keys(v) |-> written(Keys(v)[i])] = terms
      BY <3>1, KeysFacts DEF terms
    <3>3. GoKeys(v, node.columns, TRUE) = Keys(v)
      BY DEF GoKeys
    <3> QED
      BY <1>2, <3>2, <3>3 DEF GoOrderBy, Each
  <2>5. NetOrderBy(node, params) = Sql("order by") \o Join(terms, ",")
    <3> DEFINE direction(e) == IF e.value = Null THEN "ASC" ELSE Text(e.value)
               written(e) == IF ~Known(node.columns, e.key) \/ direction(e) \notin Directions THEN Fail
                             ELSE Col(e.key) \o Sql(direction(e))
    <3>1. \A i \in DOMAIN v.entries : written(v.entries[i]) = terms[i]
      BY <2>1, <2>2 DEF Known, term
    <3>2. [i \in DOMAIN v.entries |-> written(v.entries[i])] = terms
      BY <3>1
    <3> HIDE DEF terms
    <3> QED
      BY <1>2, <3>2 DEF NetOrderBy, Each
  <2> QED
    BY <2>3, <2>4, <2>5
<1> QED
  BY <1>1, <1>2

(* projection without entries: all columns.                                *)
LEMMA ProjectionAgree ==
  ASSUME NEW node, NEW params, NEW dialect,
         LET v == Get(params, node.param) IN Missing(v) \/ (IsList(v) /\ v.items = <<>>)
  PROVE  /\ GoProjection(node, params) = TsProjection(node, params, dialect)
         /\ NetProjection(node, params) = TsProjection(node, params, dialect)
<1> DEFINE v == Get(params, node.param)
<1>1. /\ GoProjection(node, params) = Columns(node.columns)
      /\ NetProjection(node, params) = Columns(node.columns)
  BY DEF GoProjection, NetProjection, Missing, IsList
<1>2. TsSelect(node, params) = <<>>
  <2>1. CASE Missing(v)
    BY <2>1 DEF TsSelect, Missing, IsList, IsObject
  <2>2. CASE IsList(v) /\ v.items = <<>>
    BY <2>2 DEF TsSelect, IsList, IsObject
  <2> QED
    BY <2>1, <2>2
<1> QED
  BY <1>1, <1>2 DEF TsProjection

(* One join, whose conditions name tables joined by then.                  *)
LEMMA JoinAgree ==
  ASSUME NEW node, NEW alias, NEW tabs, NEW entry, alias # "_",
         Has(entry, "type") => Text(Get(entry, "type")) # "",
         IsList(Get(entry, "on")), Get(entry, "on").items # <<>>,
         \A c \in ToSet(Get(entry, "on").items) :
           /\ IsList(c) /\ Len(c.items) > 2
           /\ \A s \in {c.items[1], c.items[3]} : s.is = "ref" /\ s.table \in ToSet(tabs)
  PROVE  /\ GoJoin(node, alias, entry) = TsJoin(node, alias, tabs, entry)
         /\ NetJoin(node, alias, entry) = TsJoin(node, alias, tabs, entry)
<1> DEFINE given == Get(entry, "type")
           on == Get(entry, "on")
           default == IF alias \in DOMAIN node.joinTypes THEN node.joinTypes[alias] ELSE "inner"
           kind == IF Has(entry, "type") THEN given.str ELSE default
<1>1. ASSUME NEW c \in ToSet(on.items)
      PROVE  /\ GoJoinCondition(node.joinMap, c) = TsJoinCondition(node.joinMap, tabs, c)
             /\ NetJoinCondition(node.joinMap, c) = TsJoinCondition(node.joinMap, tabs, c)
  <2>1. /\ IsList(c) /\ Len(c.items) > 2
        /\ \A s \in {c.items[1], c.items[3]} : s.is = "ref" /\ s.table \in ToSet(tabs)
    OBVIOUS
  <2>2. \A s \in {c.items[1], c.items[3]} :
          /\ GoJoinColRef(node.joinMap, s) = TsJoinRef(node.joinMap, tabs, s)
          /\ NetJoinColRef(node.joinMap, s) = TsJoinRef(node.joinMap, tabs, s)
    <3> SUFFICES ASSUME NEW s, s.is = "ref", s.table \in ToSet(tabs)
                 PROVE  /\ GoJoinColRef(node.joinMap, s) = TsJoinRef(node.joinMap, tabs, s)
                        /\ NetJoinColRef(node.joinMap, s) = TsJoinRef(node.joinMap, tabs, s)
      BY <2>1
    <3> QED
      BY DEF GoJoinColRef, NetJoinColRef, TsJoinRef
  <2> QED
    BY <2>1, <2>2 DEF GoJoinCondition, NetJoinCondition, TsJoinCondition
<1>2. \A i \in DOMAIN on.items : on.items[i] \in ToSet(on.items)
  BY DEF ToSet
<1> DEFINE conditions == Join([i \in DOMAIN on.items |->
                                 TsJoinCondition(node.joinMap, tabs, on.items[i])], "and")
           output == IF alias \notin DOMAIN node.joinMap \/ kind \notin JoinKinds THEN Fail
                     ELSE IF kind = "cross" THEN Sql(kind) \o Table(alias)
                     ELSE Sql(kind) \o Table(alias) \o Sql("on") \o conditions
<1>3. [i \in DOMAIN on.items |-> GoJoinCondition(node.joinMap, on.items[i])] =
      [i \in DOMAIN on.items |-> TsJoinCondition(node.joinMap, tabs, on.items[i])]
  BY <1>1, <1>2
<1>4. [i \in DOMAIN on.items |-> NetJoinCondition(node.joinMap, on.items[i])] =
      [i \in DOMAIN on.items |-> TsJoinCondition(node.joinMap, tabs, on.items[i])]
  BY <1>1, <1>2
<1>5. Has(entry, "type") => /\ ~Missing(given) /\ Text(given) = given.str /\ Text(given) # ""
  BY DEF Text, Missing
<1>6. ~Has(entry, "type") => Missing(given) /\ Text(given) = ""
  BY DEF Get, Missing, Text, Absent
<1>7. TsJoin(node, alias, tabs, entry) = output
  <2>1. (IF ~Missing(given) THEN Text(given) ELSE default) = kind
    BY <1>5, <1>6
  <2> HIDE DEF kind
  <2> QED
    BY <2>1 DEF TsJoin, Each
<1>8. GoJoin(node, alias, entry) = output
  <2>1. (IF Has(entry, "type") THEN IF Text(given) = "" THEN "inner" ELSE given.str ELSE default) = kind
    BY <1>5, <1>6
  <2> HIDE DEF kind
  <2> QED
    BY <1>3, <2>1 DEF GoJoin, Each
<1>9. NetJoin(node, alias, entry) = output
  <2>1. (IF Text(given) # "" THEN Text(given) ELSE default) = kind
    BY <1>5, <1>6
  <2> HIDE DEF kind
  <2> QED
    BY <1>4, <2>1 DEF NetJoin, Each
<1> HIDE DEF output
<1> QED
  BY <1>7, <1>8, <1>9

(* joinBy: each alias with its conditions, over the tables joined by then. *)
LEMMA JoinByAgree ==
  ASSUME NEW node, NEW params,
         IsObject(Get(params, node.param)) => PortableJoins(Get(params, node.param), node)
  PROVE  /\ GoJoinBy(node, params, TRUE, AliasOrder) = TsJoinBy(node, params)
         /\ NetJoinBy(node, params) = TsJoinBy(node, params)
<1> DEFINE v == Get(params, node.param)
<1>1. CASE ~IsObject(v)
  <2>1. FlattenSeq([i \in {} |-> <<>>]) = Nothing
    <3>1. [i \in {} |-> <<>>] = <<>>
      OBVIOUS
    <3>2. Len(<<>>) = 0
      OBVIOUS
    <3> QED
      BY <3>1, <3>2 DEF FlattenSeq, Nothing
  <2> DEFINE Seen(i) == [j \in 1..(i + 1) |-> IF j = 1 THEN "_" ELSE <<>>[j - 1].key]
  <2>2. [i \in DOMAIN <<>> |-> TsJoin(node, <<>>[i].key, Seen(i), <<>>[i].value)] = [i \in {} |-> <<>>]
    OBVIOUS
  <2> QED
    BY <1>1, <2>1, <2>2 DEF TsJoinBy, GoJoinBy, NetJoinBy
<1>2. CASE IsObject(v)
  <2> DEFINE Seen(i) == [j \in 1..(i + 1) |-> IF j = 1 THEN "_" ELSE v.entries[j - 1].key]
             join(i) == TsJoin(node, v.entries[i].key, Seen(i), v.entries[i].value)
             joins == [i \in DOMAIN v.entries |-> join(i)]
  <2>1. PortableJoins(v, node) /\ Distinct(Keys(v))
    BY <1>2 DEF PortableJoins
  <2>2. \A i \in DOMAIN v.entries :
          /\ v.entries[i].key # "_" /\ IsObject(v.entries[i].value)
          /\ Has(v.entries[i].value, "type") => Text(Get(v.entries[i].value, "type")) # ""
          /\ IsList(Get(v.entries[i].value, "on")) /\ Get(v.entries[i].value, "on").items # <<>>
          /\ \A c \in ToSet(Get(v.entries[i].value, "on").items) :
               /\ IsList(c) /\ Len(c.items) > 2
               /\ \A s \in {c.items[1], c.items[3]} :
                    s.is = "ref" /\ s.table \in {"_"} \cup {v.entries[j].key : j \in 1..i}
    BY <2>1 DEF PortableJoins
  <2>3. \A i \in DOMAIN v.entries : i \in Nat
    <3>1. DOMAIN Keys(v) = 1..Len(Keys(v))
      BY <2>1 DEF Distinct
    <3> QED
      BY <3>1, KeysFacts
  <2>4. \A i \in DOMAIN v.entries : {"_"} \cup {v.entries[j].key : j \in 1..i} \subseteq ToSet(Seen(i))
    <3> SUFFICES ASSUME NEW i \in DOMAIN v.entries
                 PROVE  {"_"} \cup {v.entries[j].key : j \in 1..i} \subseteq ToSet(Seen(i))
      OBVIOUS
    <3>0. i \in Nat
      BY <2>3
    <3>1. Seen(i)[1] = "_" /\ 1 \in DOMAIN Seen(i)
      <4>1. 1 \in 1..(i + 1)
        BY <3>0
      <4> QED
        BY <4>1
    <3>2. ASSUME NEW j \in 1..i
          PROVE  j + 1 \in DOMAIN Seen(i) /\ Seen(i)[j + 1] = v.entries[j].key
      <4>1. j + 1 \in 1..(i + 1) /\ j + 1 # 1 /\ (j + 1) - 1 = j
        BY <3>0
      <4> QED
        BY <4>1
    <3> QED
      BY <3>1, <3>2 DEF ToSet
  <2> HIDE DEF Seen
  <2>5. ASSUME NEW i \in DOMAIN v.entries
        PROVE  /\ GoJoin(node, v.entries[i].key, v.entries[i].value) = join(i)
               /\ NetJoin(node, v.entries[i].key, v.entries[i].value) = join(i)
    <3> DEFINE entry == v.entries[i].value
    <3>1. \A c \in ToSet(Get(entry, "on").items) :
           /\ IsList(c) /\ Len(c.items) > 2
           /\ \A s \in {c.items[1], c.items[3]} : s.is = "ref" /\ s.table \in ToSet(Seen(i))
      BY <2>2, <2>4
    <3>2. /\ v.entries[i].key # "_"
          /\ Has(entry, "type") => Text(Get(entry, "type")) # ""
          /\ IsList(Get(entry, "on")) /\ Get(entry, "on").items # <<>>
      BY <2>2
    <3> HIDE DEF v, entry
    <3>3. /\ GoJoin(node, v.entries[i].key, entry) = TsJoin(node, v.entries[i].key, Seen(i), entry)
          /\ NetJoin(node, v.entries[i].key, entry) = TsJoin(node, v.entries[i].key, Seen(i), entry)
      BY ONLY <3>1, <3>2, JoinAgree
    <3> QED
      BY <3>3 DEF entry
  <2> HIDE DEF join
  <2>6. Those(v.entries, LAMBDA e : IsObject(e.value) /\ IsList(Get(e.value, "on"))) = v.entries
    <3>1. \A i \in DOMAIN v.entries :
            v.entries[i] \in {e \in ToSet(v.entries) : IsObject(e.value) /\ IsList(Get(e.value, "on"))}
      BY <2>2 DEF ToSet
    <3> QED
      BY <3>1, AmongAll DEF Those
  <2>7. TsJoinBy(node, params) = FlattenSeq(joins)
    BY <1>2, <2>6 DEF TsJoinBy, join, Seen
  <2>8. GoJoinBy(node, params, TRUE, AliasOrder) = FlattenSeq(joins)
    <3>1. GoKeys(v, AliasOrder, TRUE) = Keys(v)
      BY DEF GoKeys
    <3>2. \A i \in DOMAIN v.entries :
            Keys(v)[i] = v.entries[i].key /\ Get(v, Keys(v)[i]) = v.entries[i].value
      BY <2>1, KeysFacts, GetKey
    <3>3. Those(Keys(v), LAMBDA a : IsObject(Get(v, a))) = Keys(v)
      <4>1. \A i \in DOMAIN Keys(v) : Keys(v)[i] \in {a \in ToSet(Keys(v)) : IsObject(Get(v, a))}
        BY <2>2, <3>2, KeysFacts
      <4> QED
        BY <4>1, AmongAll DEF Those
    <3>4. [i \in DOMAIN Keys(v) |-> GoJoin(node, Keys(v)[i], Get(v, Keys(v)[i]))] = joins
      BY <2>5, <3>2, KeysFacts
    <3> HIDE DEF joins
    <3> QED
      BY <1>2, <3>1, <3>3, <3>4 DEF GoJoinBy, Each
  <2>9. NetJoinBy(node, params) = FlattenSeq(joins)
    <3>1. Those(v.entries, LAMBDA e : IsObject(e.value)) = v.entries
      <4>1. \A i \in DOMAIN v.entries : v.entries[i] \in {e \in ToSet(v.entries) : IsObject(e.value)}
        BY <2>2 DEF ToSet
      <4> QED
        BY <4>1, AmongAll DEF Those
    <3>2. [i \in DOMAIN v.entries |-> NetJoin(node, v.entries[i].key, v.entries[i].value)] = joins
      BY <2>5
    <3> HIDE DEF joins
    <3> QED
      BY <1>2, <3>1, <3>2 DEF NetJoinBy, Each
  <2> QED
    BY <2>7, <2>8, <2>9
<1> QED
  BY <1>1, <1>2

------------------------------------------------------------------------------
(* windowBy                                                                *)

(* A bound of a window frame.                                              *)
LEMMA FrameAgree ==
  ASSUME NEW value, PortableBound(value), NEW unbounded, NEW side
  PROVE  /\ GoFrameBound(value, unbounded, side) = TsFrameBound(value, unbounded, side)
         /\ NetFrameBound(value, unbounded, side) = TsFrameBound(value, unbounded, side)
<1>1. CASE value = Absent
  <2>1. Missing(value) /\ value.is # "string" /\ value.is # "number"
    BY <1>1 DEF Missing, Absent
  <2> QED
    BY <2>1 DEF GoFrameBound, NetFrameBound, TsFrameBound
<1>2. CASE value.is = "string"
  <2>1. ~Missing(value)
    BY <1>2 DEF Missing
  <2> QED
    BY <1>2, <2>1 DEF GoFrameBound, NetFrameBound, TsFrameBound
<1>3. CASE value.is = "number"
  <2>1. ~Missing(value) /\ value.is # "string"
    BY <1>3 DEF Missing
  <2>2. GoFrameBound(value, unbounded, side) = GoNumericBound(value, side)
    BY <1>3, <2>1 DEF GoFrameBound
  <2>3. NetFrameBound(value, unbounded, side) = NetNumericBound(value, side)
    BY <1>3, <2>1 DEF NetFrameBound
  <2>4. CASE value.num = 0
    BY <1>3, <2>1, <2>2, <2>3, <2>4 DEF TsFrameBound, GoNumericBound, NetNumericBound
  <2>5. CASE value.num # 0
    BY <1>3, <2>1, <2>2, <2>3, <2>5 DEF TsFrameBound, GoNumericBound, NetNumericBound
  <2> QED
    BY <2>4, <2>5
<1> QED
  BY <1>1, <1>2, <1>3 DEF PortableBound


(* The OVER clause: partition, order and frame.                            *)
LEMMA OverAgree ==
  ASSUME NEW columns, NEW over, PortableOver(over, columns), NEW dialect,
         LET sorts == Get(over, "orderBy") IN IsObject(sorts) => IsSeq(sorts.entries)
  PROVE  /\ GoOver(columns, over, dialect, TRUE) = TsOver(columns, over, dialect)
         /\ NetOver(columns, over, dialect) = TsOver(columns, over, dialect)
<1> DEFINE part == Get(over, "partitionBy")
           sorts == Get(over, "orderBy")
           start == Get(over, "start")
           end == Get(over, "end")
           frame == Text(Get(over, "frame"))
           names == [i \in DOMAIN part.items |-> Col(Text(part.items[i]))]
           Term(e) == IF Text(e.value) \in Directions THEN Col(e.key) \o Sql(e.value.str) ELSE Fail
           terms == [i \in DOMAIN sorts.entries |-> Term(sorts.entries[i])]
           partition == IF ~IsList(part) \/ part.items = <<>> THEN Nothing
                        ELSE Sql("partition by") \o Join(names, ",")
           ordering == IF ~IsObject(sorts) \/ sorts.entries = <<>> THEN Nothing
                       ELSE Sql("order by") \o Join(terms, ",")
           framing == IF start = Absent /\ end = Absent THEN Nothing
                      ELSE IF frame = "" THEN Fail
                      ELSE IF /\ frame = "range" /\ dialect = "transactsql"
                              /\ (start.is = "number" \/ end.is = "number") THEN Fail
                      ELSE Sql(frame) \o TsFrameBound(start, "unbounded preceding", "preceding")
                           \o Sql("and") \o TsFrameBound(end, "unbounded following", "following")
<1>1. ASSUME IsList(part)
      PROVE  /\ [i \in DOMAIN part.items |-> TsColumnRef(columns, Text(part.items[i]))] = names
             /\ [i \in DOMAIN part.items |-> GoWindowColumn(columns, Text(part.items[i]))] = names
             /\ [i \in DOMAIN part.items |-> NetWindowColumn(columns, Text(part.items[i]))] = names
  <2>1. \A i \in DOMAIN part.items :
          Text(part.items[i]) \in ToSet(columns) /\ Text(part.items[i]) # "*"
    BY <1>1 DEF PortableOver, ToSet
  <2> QED
    BY <2>1 DEF TsColumnRef, TsColumn, GoWindowColumn, NetWindowColumn, Known
<1>2. ASSUME IsObject(sorts)
      PROVE  /\ Those(sorts.entries, LAMBDA e : ~Missing(e.value) /\ e.value # Str("")) = sorts.entries
             /\ [i \in DOMAIN sorts.entries |->
                   IF Text(sorts.entries[i].value) \notin Directions THEN Fail
                   ELSE TsColumnRef(columns, sorts.entries[i].key) \o Sql(sorts.entries[i].value.str)] = terms
             /\ DOMAIN Keys(sorts) = DOMAIN sorts.entries
             /\ [i \in DOMAIN sorts.entries |->
                   IF (IF Text(Get(sorts, Keys(sorts)[i])) = "" THEN "ASC" ELSE Get(sorts, Keys(sorts)[i]).str)
                        \notin Directions THEN Fail
                   ELSE GoWindowColumn(columns, Keys(sorts)[i]) \o
                        Sql(IF Text(Get(sorts, Keys(sorts)[i])) = "" THEN "ASC" ELSE Get(sorts, Keys(sorts)[i]).str)]
                = terms
  <2>1. /\ KnownKeys(sorts, columns)
        /\ \A i \in DOMAIN sorts.entries :
             /\ sorts.entries[i].key \in ToSet(columns) /\ sorts.entries[i].key # "*"
             /\ Text(sorts.entries[i].value) # ""
    BY <1>2, KeysFacts DEF PortableOver, KnownKeys
  <2>2. \A i \in DOMAIN sorts.entries :
          /\ sorts.entries[i].value.is = "string" /\ sorts.entries[i].value.str # ""
          /\ Text(sorts.entries[i].value) = sorts.entries[i].value.str
    BY <2>1 DEF Text
  <2>3. Those(sorts.entries, LAMBDA e : ~Missing(e.value) /\ e.value # Str("")) = sorts.entries
    <3>1. Str("").str = ""
      BY DEF Str
    <3>2. \A i \in DOMAIN sorts.entries :
            sorts.entries[i] \in {e \in ToSet(sorts.entries) : ~Missing(e.value) /\ e.value # Str("")}
      BY <2>2, <3>1 DEF Missing, ToSet
    <3> QED
      BY <3>2, AmongAll DEF Those
  <2>4. \A i \in DOMAIN sorts.entries :
          /\ Keys(sorts)[i] = sorts.entries[i].key
          /\ Get(sorts, Keys(sorts)[i]) = sorts.entries[i].value
          /\ TsColumnRef(columns, sorts.entries[i].key) = Col(sorts.entries[i].key)
          /\ GoWindowColumn(columns, sorts.entries[i].key) = Col(sorts.entries[i].key)
    BY <2>1, KeysFacts, GetKey DEF KnownKeys, TsColumnRef, TsColumn, GoWindowColumn, Known
  <2> QED
    BY <2>2, <2>3, <2>4, KeysFacts
<1>3. TsOver(columns, over, dialect) = partition \o ordering \o framing
  BY <1>1, <1>2 DEF TsOver, Each
<1>4. /\ PortableBound(start) /\ PortableBound(end)
      /\ frame \in {"rows", "range"} \/ (start = Absent /\ end = Absent)
  BY DEF PortableOver
<1>5. /\ Missing(start) <=> start = Absent
      /\ Missing(end) <=> end = Absent
  BY <1>4 DEF PortableBound, Missing, Absent
<1>6. frame \in {"rows", "range"} => frame # ""
  OBVIOUS
<1>7. /\ GoFrameBound(start, "unbounded preceding", "preceding") = TsFrameBound(start, "unbounded preceding", "preceding")
      /\ NetFrameBound(start, "unbounded preceding", "preceding") = TsFrameBound(start, "unbounded preceding", "preceding")
      /\ GoFrameBound(end, "unbounded following", "following") = TsFrameBound(end, "unbounded following", "following")
      /\ NetFrameBound(end, "unbounded following", "following") = TsFrameBound(end, "unbounded following", "following")
  BY <1>4, FrameAgree
<1>8. (IF Missing(start) /\ Missing(end) THEN Nothing
       ELSE IF frame \notin {"rows", "range"} THEN Fail
       ELSE IF /\ frame = "range" /\ dialect = "transactsql"
               /\ (start.is = "number" \/ end.is = "number") THEN Fail
       ELSE Sql(frame) \o GoFrameBound(start, "unbounded preceding", "preceding")
            \o Sql("and") \o GoFrameBound(end, "unbounded following", "following")) = framing
  BY <1>4, <1>5, <1>6, <1>7
<1>9. (IF Missing(start) /\ Missing(end) THEN Nothing
       ELSE IF frame \notin {"rows", "range"} THEN Fail
       ELSE IF /\ frame = "range" /\ dialect = "transactsql"
               /\ (start.is = "number" \/ end.is = "number") THEN Fail
       ELSE Sql(frame) \o NetFrameBound(start, "unbounded preceding", "preceding")
            \o Sql("and") \o NetFrameBound(end, "unbounded following", "following")) = framing
  BY <1>4, <1>5, <1>6, <1>7
<1> HIDE DEF framing
<1>10. NetOver(columns, over, dialect) = partition \o ordering \o framing
  <2>1. ASSUME IsObject(sorts)
        PROVE  [i \in DOMAIN sorts.entries |->
                  IF (IF sorts.entries[i].value = Null THEN "ASC" ELSE Text(sorts.entries[i].value)) \notin Directions
                  THEN Fail
                  ELSE NetWindowColumn(columns, sorts.entries[i].key) \o
                       Sql(IF sorts.entries[i].value = Null THEN "ASC" ELSE Text(sorts.entries[i].value))] = terms
    <3>1. \A i \in DOMAIN sorts.entries :
            /\ sorts.entries[i].key \in ToSet(columns)
            /\ Text(sorts.entries[i].value) # ""
      BY <2>1, KeysFacts DEF PortableOver, KnownKeys
    <3>0. Null.is = "null"
      BY DEF Null
    <3>2. \A i \in DOMAIN sorts.entries :
            /\ sorts.entries[i].value # Null
            /\ Text(sorts.entries[i].value) = sorts.entries[i].value.str
            /\ NetWindowColumn(columns, sorts.entries[i].key) = Col(sorts.entries[i].key)
      BY <3>0, <3>1 DEF Text, NetWindowColumn, Known
    <3> QED
      BY <3>1, <3>2
  <2> HIDE DEF terms, names
  <2> QED
    BY <1>1, <1>9, <2>1 DEF NetOver, Each
<1>11. GoOver(columns, over, dialect, TRUE) = partition \o ordering \o framing
  <2> DEFINE keys == IF IsObject(sorts) THEN GoKeys(sorts, columns, TRUE) ELSE <<>>
             Direction(k) == IF Text(Get(sorts, k)) = "" THEN "ASC" ELSE Get(sorts, k).str
             ordered == IF keys = <<>> THEN Nothing
                        ELSE Sql("order by") \o
                             Join([i \in DOMAIN keys |->
                                     IF Direction(keys[i]) \notin Directions THEN Fail
                                     ELSE GoWindowColumn(columns, keys[i]) \o Sql(Direction(keys[i]))], ",")
  <2>1. ASSUME IsObject(sorts)
        PROVE  keys = Keys(sorts) /\ (keys = <<>> <=> sorts.entries = <<>>)
    <3>1. keys = Keys(sorts)
      BY <2>1 DEF GoKeys
    <3>2. Keys(sorts) = [i \in DOMAIN sorts.entries |-> sorts.entries[i].key]
      BY DEF Keys
    <3>3. DOMAIN sorts.entries = {} <=> sorts.entries = <<>>
      <4>1. IsSeq(sorts.entries)
        BY <2>1
      <4> QED
        BY <4>1, EmptySequence
    <3>4. Keys(sorts) = <<>> <=> DOMAIN sorts.entries = {}
      BY <3>2
    <3> QED
      BY <3>1, <3>3, <3>4
  <2>2. ordered = ordering
    <3>1. CASE ~IsObject(sorts)
      BY <3>1
    <3>2. CASE IsObject(sorts) /\ sorts.entries = <<>>
      BY <2>1, <3>2
    <3>3. CASE IsObject(sorts) /\ sorts.entries # <<>>
      <4>1. keys # <<>> /\ keys = Keys(sorts)
        BY <2>1, <3>3
      <4>2. ordered = Sql("order by") \o
              Join([i \in DOMAIN Keys(sorts) |->
                     IF Direction(Keys(sorts)[i]) \notin Directions THEN Fail
                     ELSE GoWindowColumn(columns, Keys(sorts)[i]) \o Sql(Direction(Keys(sorts)[i]))], ",")
        BY <4>1
      <4> QED
        BY <1>2, <3>3, <4>2
    <3> QED
      BY <3>1, <3>2, <3>3
  <2> HIDE DEF ordered, ordering
  <2> USE DEF partition
  <2>3. GoOver(columns, over, dialect, TRUE) = partition \o ordered \o framing
    <3> USE DEF ordered
    <3> HIDE DEF names
    <3> QED
      BY <1>1, <1>8 DEF GoOver, Each
  <2> QED
    BY <2>2, <2>3
<1> HIDE DEF partition, ordering
<1> QED
  BY <1>3, <1>10, <1>11

(* The call of a window function.                                          *)
LEMMA WindowCallAgree ==
  ASSUME NEW columns, NEW entry, PortableWindow(entry, columns),
         Text(Get(entry, "fn")) \in WindowFunctions
  PROVE  /\ GoWindowCall(columns, entry) = TsWindowCall(columns, entry)
         /\ NetWindowCall(columns, entry) = TsWindowCall(columns, entry)
<1> DEFINE fn == Text(Get(entry, "fn"))
           col == Text(Get(entry, "col"))
           args == Get(entry, "args")
<1>1. CASE fn \in Ranking
  <2>1. Get(entry, "col") = Absent
    BY <1>1 DEF PortableWindow
  <2>2. fn # "ntile" /\ fn \notin WindowAggregates /\ fn \notin Offsets
    BY <1>1 DEF Ranking, WindowAggregates, Aggregates, Offsets
  <2> QED
    BY <1>1, <2>1, <2>2 DEF GoWindowCall, NetWindowCall, TsWindowCall
<1>2. CASE fn = "ntile"
  <2>1. fn \notin Ranking /\ fn \notin WindowAggregates /\ fn \notin Offsets
    BY <1>2 DEF Ranking, WindowAggregates, Aggregates, Offsets
  <2> QED
    BY <1>2, <2>1 DEF GoWindowCall, NetWindowCall, TsWindowCall
<1>3. CASE fn \in WindowAggregates
  <2>1. fn \notin Ranking /\ fn # "ntile" /\ fn \notin Offsets
    BY <1>3 DEF Ranking, WindowAggregates, Aggregates, Offsets
  <2>2. col \in ToSet(columns) \cup {"", "*"}
    BY <1>3 DEF PortableWindow
  <2>3. CASE col = ""
    BY <1>3, <2>1, <2>3 DEF GoWindowCall, NetWindowCall, TsWindowCall
  <2>4. CASE col = "*"
    BY <1>3, <2>1, <2>4 DEF GoWindowCall, NetWindowCall, TsWindowCall, TsColumnRef
  <2>5. CASE col \in ToSet(columns) /\ col # "" /\ col # "*"
    BY <1>3, <2>1, <2>5 DEF GoWindowCall, NetWindowCall, TsWindowCall, TsColumnRef, TsColumn,
                            GoWindowColumn, NetWindowColumn, Known
  <2> QED
    BY <2>2, <2>3, <2>4, <2>5
<1>4. CASE fn \in Offsets
  <2>1. fn \notin Ranking /\ fn # "ntile" /\ fn \notin WindowAggregates
    BY <1>4 DEF Ranking, WindowAggregates, Aggregates, Offsets
  <2>2. /\ col \in (ToSet(columns) \cup {""}) \ {"*"}
        /\ Missing(args) \/ (args.is = "number" /\ args.num > 0)
    BY <1>4 DEF PortableWindow
  <2>3. CASE col = ""
    BY <1>4, <2>1, <2>3 DEF GoWindowCall, NetWindowCall, TsWindowCall
  <2>4. CASE col # ""
    <3>1. TsColumnRef(columns, col) = Col(col) /\ GoWindowColumn(columns, col) = Col(col)
          /\ NetWindowColumn(columns, col) = Col(col)
      BY <2>2, <2>4 DEF TsColumnRef, TsColumn, GoWindowColumn, NetWindowColumn, Known
    <3>2. (IF args.is = "number" /\ args.num > 0 THEN args ELSE Num(1))
            = (IF Missing(args) THEN Num(1) ELSE args)
      BY <2>2 DEF Missing
    <3>3. TsWindowCall(columns, entry) = Sql(fn) \o Col(col) \o Literal(IF Missing(args) THEN Num(1) ELSE args)
      BY <1>4, <2>1, <2>4, <3>1 DEF TsWindowCall
    <3>4. NetWindowCall(columns, entry) = Sql(fn) \o Col(col) \o Literal(IF Missing(args) THEN Num(1) ELSE args)
      BY <1>4, <2>1, <2>4, <3>1 DEF NetWindowCall
    <3>5. GoWindowCall(columns, entry) = Sql(fn) \o Col(col)
            \o Literal(IF args.is = "number" /\ args.num > 0 THEN args ELSE Num(1))
      BY <1>4, <2>1, <2>4, <3>1 DEF GoWindowCall
    <3> QED
      BY <3>2, <3>3, <3>4, <3>5
  <2> QED
    BY <2>3, <2>4
<1> QED
  BY <1>1, <1>2, <1>3, <1>4 DEF WindowFunctions

(* windowBy: each window under its alias.                                  *)
LEMMA WindowByAgree ==
  ASSUME NEW node, NEW params, NEW dialect,
         LET v == Get(params, node.param)
         IN IsObject(v) =>
              \A e \in ToSet(v.entries) :
                /\ IsObject(e.value) /\ PortableWindow(e.value, node.columns)
                /\ LET sorts == Get(Get(e.value, "over"), "orderBy")
                   IN IsObject(sorts) => IsSeq(sorts.entries)
  PROVE  /\ GoWindowBy(node, params, dialect, TRUE) = TsWindowBy(node, params, dialect)
         /\ NetWindowBy(node, params, dialect) = TsWindowBy(node, params, dialect)
<1> DEFINE v == Get(params, node.param)
           Window(e) ==
             IF Text(Get(e.value, "fn")) \notin WindowFunctions THEN Fail
             ELSE Sql(",") \o TsWindowCall(node.columns, e.value) \o Sql("over (")
                  \o TsOver(node.columns, Get(e.value, "over"), dialect) \o Sql(")") \o As(e.key)
           windows == [i \in DOMAIN v.entries |-> Window(v.entries[i])]
<1>1. CASE ~IsObject(v)
  BY <1>1 DEF TsWindowBy, GoWindowBy, NetWindowBy
<1>2. CASE IsObject(v)
  <2>1. \A i \in DOMAIN v.entries :
          LET e == v.entries[i] IN
          /\ IsObject(e.value) /\ PortableWindow(e.value, node.columns)
          /\ IsObject(Get(e.value, "over")) /\ PortableOver(Get(e.value, "over"), node.columns)
          /\ LET sorts == Get(Get(e.value, "over"), "orderBy")
             IN IsObject(sorts) => IsSeq(sorts.entries)
    BY <1>2 DEF PortableWindow, ToSet
  <2>2. Those(v.entries, LAMBDA e : IsObject(e.value)) = v.entries
    <3>1. \A i \in DOMAIN v.entries : v.entries[i] \in {e \in ToSet(v.entries) : IsObject(e.value)}
      BY <2>1 DEF ToSet
    <3> QED
      BY <3>1, AmongAll DEF Those
  <2>3. \A i \in DOMAIN v.entries :
          LET over == Get(v.entries[i].value, "over") IN
          /\ GoOver(node.columns, over, dialect, TRUE) = TsOver(node.columns, over, dialect)
          /\ NetOver(node.columns, over, dialect) = TsOver(node.columns, over, dialect)
    BY <2>1, OverAgree
  <2>4. \A i \in DOMAIN v.entries :
          LET e == v.entries[i] IN
          Text(Get(e.value, "fn")) \in WindowFunctions =>
            /\ GoWindowCall(node.columns, e.value) = TsWindowCall(node.columns, e.value)
            /\ NetWindowCall(node.columns, e.value) = TsWindowCall(node.columns, e.value)
    BY <2>1, WindowCallAgree
  <2>5. TsWindowBy(node, params, dialect) = FlattenSeq(windows)
    <3>1. [i \in DOMAIN v.entries |->
             IF ~IsObject(v.entries[i].value) THEN Fail
             ELSE IF Text(Get(v.entries[i].value, "fn")) \notin WindowFunctions THEN Fail
             ELSE IF ~IsObject(Get(v.entries[i].value, "over")) THEN Fail
             ELSE Sql(",") \o TsWindowCall(node.columns, v.entries[i].value) \o Sql("over (")
                  \o TsOver(node.columns, Get(v.entries[i].value, "over"), dialect) \o Sql(")")
                  \o As(v.entries[i].key)] = windows
      BY <2>1
    <3> HIDE DEF windows
    <3> QED
      BY <1>2, <3>1 DEF TsWindowBy, Each
  <2>6. GoWindowBy(node, params, dialect, TRUE) = FlattenSeq(windows)
    <3>1. [i \in DOMAIN v.entries |->
             IF Text(Get(v.entries[i].value, "fn")) \notin WindowFunctions THEN Fail
             ELSE Sql(",") \o GoWindowCall(node.columns, v.entries[i].value) \o Sql("over (")
                  \o (IF IsObject(Get(v.entries[i].value, "over"))
                      THEN GoOver(node.columns, Get(v.entries[i].value, "over"), dialect, TRUE) ELSE Nothing)
                  \o Sql(")") \o As(v.entries[i].key)] = windows
      BY <2>1, <2>3, <2>4
    <3> HIDE DEF windows
    <3> QED
      BY <1>2, <2>2, <3>1 DEF GoWindowBy, Each
  <2>7. NetWindowBy(node, params, dialect) = FlattenSeq(windows)
    <3>1. [i \in DOMAIN v.entries |->
             IF Text(Get(v.entries[i].value, "fn")) \notin WindowFunctions THEN Fail
             ELSE Sql(",") \o NetWindowCall(node.columns, v.entries[i].value) \o Sql("over (")
                  \o (IF IsObject(Get(v.entries[i].value, "over"))
                      THEN NetOver(node.columns, Get(v.entries[i].value, "over"), dialect) ELSE Nothing)
                  \o Sql(")") \o As(v.entries[i].key)] = windows
      BY <2>1, <2>3, <2>4
    <3> HIDE DEF windows
    <3> QED
      BY <1>2, <2>2, <3>1 DEF NetWindowBy, Each
  <2> QED
    BY <2>5, <2>6, <2>7
<1> QED
  BY <1>1, <1>2

------------------------------------------------------------------------------
(* What a well-formed object contains is well formed.                      *)
LEMMA ObjectInside ==
  ASSUME NEW values, WellFormed(values), NEW v \in values, IsObject(v)
  PROVE  /\ v.entries \in Seq([key : STRING, value : values])
         /\ IsSeq(v.entries)
         /\ \A i \in DOMAIN v.entries : v.entries[i].value \in values
         /\ \A k : Get(v, k) \in values \cup {Absent}
<1> DEFINE members == [key : STRING, value : values]
<1>0. v.entries \in Seq(members)
  BY DEF WellFormed
<1> HIDE DEF members
<1>1. /\ Len(v.entries) \in Nat /\ DOMAIN v.entries = 1..Len(v.entries)
      /\ \A i \in DOMAIN v.entries : v.entries[i] \in members
  BY <1>0
<1>2. \A i \in DOMAIN v.entries : v.entries[i].value \in values
  BY <1>1 DEF members
<1>3. IsSeq(v.entries)
  <2>1. v.entries = [i \in 1..Len(v.entries) |-> v.entries[i]]
    BY <1>0
  <2>2. v.entries \in [1..Len(v.entries) -> ToSet(v.entries)]
    BY <1>1, <2>1 DEF ToSet
  <2> QED
    BY <1>1, <2>2 DEF IsSeq
<1>4. \A k : Get(v, k) \in values \cup {Absent}
  <2> SUFFICES ASSUME NEW k PROVE Get(v, k) \in values \cup {Absent}
    OBVIOUS
  <2>1. CASE Has(v, k)
    <3>1. PICK i \in DOMAIN v.entries : i = CHOOSE j \in DOMAIN v.entries : v.entries[j].key = k
      BY <2>1 DEF Has
    <3> QED
      BY <1>2, <2>1, <3>1 DEF Get
  <2>2. CASE ~Has(v, k)
    BY <2>2 DEF Get
  <2> QED
    BY <2>1, <2>2
<1> QED
  BY <1>0, <1>2, <1>3, <1>4 DEF members

(* Every portable node is written the same by all three runtimes, given    *)
(* what the branches of a when come to.                                    *)
LEMMA NodeAgree ==
  ASSUME NEW node, NEW params, NEW dialect, NEW branch, Portable(node, params),
         node.op \notin {"text", "value", "pagination"} => "param" \in DOMAIN node,
         node.op \in OverTable => Distinct(node.columns),
         NEW values, WellFormed(values), params \in values, IsObject(params)
  PROVE  /\ GoNode(node, params, dialect, TRUE, AliasOrder, branch) = TsNode(node, params, dialect, branch)
         /\ NetNode(node, params, dialect, branch) = TsNode(node, params, dialect, branch)
<1> DEFINE v == Get(params, node.param)
<1>1. CASE node.op = "text"
  <2>1. /\ TsNode(node, params, dialect, branch) = Sql(node.text)
        /\ GoNode(node, params, dialect, TRUE, AliasOrder, branch) = Sql(node.text)
        /\ NetNode(node, params, dialect, branch) = Sql(node.text)
    BY ONLY <1>1 DEF TsNode, GoNode, NetNode
  <2> QED
    BY <2>1
<1>2. CASE node.op = "value"
  <2>1. IsPrimitive(node.value)
    BY <1>2 DEF Portable, OverTable
  <2>2. /\ TsNode(node, params, dialect, branch) = TsValue(node.value)
        /\ GoNode(node, params, dialect, TRUE, AliasOrder, branch) = Bind(node.value)
        /\ NetNode(node, params, dialect, branch) = Bind(node.value)
    BY ONLY <1>2 DEF TsNode, GoNode, NetNode
  <2> QED
    BY <2>1, <2>2 DEF TsValue
<1>3. CASE node.op = "param"
  <2>1. /\ TsNode(node, params, dialect, branch) = TsParam(node, params)
        /\ GoNode(node, params, dialect, TRUE, AliasOrder, branch) = GoParam(node, params)
        /\ NetNode(node, params, dialect, branch) = NetParam(node, params)
    BY ONLY <1>3 DEF TsNode, GoNode, NetNode
  <2> QED
    BY <2>1, ParamAgree
<1>4. CASE node.op = "each"
  <2>1. IsList(v) /\ \A x \in ToSet(v.items) : IsPrimitive(x)
    BY <1>4 DEF Portable, OverTable
  <2>2. /\ TsNode(node, params, dialect, branch) = TsEach(node, params)
        /\ GoNode(node, params, dialect, TRUE, AliasOrder, branch) = GoEach(node, params)
        /\ NetNode(node, params, dialect, branch) = NetEach(node, params)
    BY ONLY <1>4 DEF TsNode, GoNode, NetNode
  <2> QED
    BY <2>1, <2>2, EachAgree
<1>5. CASE node.op = "when"
  <2>1. /\ TsNode(node, params, dialect, branch) = branch[IF TsPresent(Get(params, node.param)) # node.negate THEN node.onTrue ELSE node.onFalse]
        /\ GoNode(node, params, dialect, TRUE, AliasOrder, branch) = branch[IF GoPresent(Get(params, node.param)) # node.negate THEN node.onTrue ELSE node.onFalse]
        /\ NetNode(node, params, dialect, branch) = branch[IF NetPresent(Get(params, node.param)) # node.negate THEN node.onTrue ELSE node.onFalse]
    BY ONLY <1>5 DEF TsNode, GoNode, NetNode
  <2> QED
    BY <2>1 DEF TsPresent, GoPresent, NetPresent
<1>6. CASE node.op = "set"
  <2>1. IsObject(v) => KnownKeys(v, node.columns) /\ \A e \in ToSet(v.entries) : IsPrimitive(e.value)
    BY <1>6 DEF Portable, OverTable
  <2>2. /\ TsNode(node, params, dialect, branch) = TsSet(node, params)
        /\ GoNode(node, params, dialect, TRUE, AliasOrder, branch) = GoSet(node, params, TRUE)
        /\ NetNode(node, params, dialect, branch) = NetSet(node, params)
    BY ONLY <1>6 DEF TsNode, GoNode, NetNode
  <2> QED
    BY <2>1, <2>2, SetAgree
<1>7. CASE node.op = "insert"
  <2>1. Distinct(node.columns) /\ PortableRows(v, node.columns)
    BY <1>7 DEF Portable, OverTable
  <2>2. /\ TsNode(node, params, dialect, branch) = TsInsert(node, params)
        /\ GoNode(node, params, dialect, TRUE, AliasOrder, branch) = GoInsert(node, params)
        /\ NetNode(node, params, dialect, branch) = NetInsert(node, params)
    BY ONLY <1>7 DEF TsNode, GoNode, NetNode
  <2> QED
    BY <2>1, <2>2, InsertAgree
<1>8. CASE node.op = "insertCols"
  <2>1. Distinct(node.columns) /\ PortableRows(v, node.columns)
    BY <1>8 DEF Portable, OverTable
  <2>2. /\ TsNode(node, params, dialect, branch) = TsInsertCols(node, params)
        /\ GoNode(node, params, dialect, TRUE, AliasOrder, branch) = GoInsertCols(node, params)
        /\ NetNode(node, params, dialect, branch) = NetInsertCols(node, params)
    BY ONLY <1>8 DEF TsNode, GoNode, NetNode
  <2> QED
    BY <2>1, <2>2, InsertAgree
<1>9. CASE node.op = "insertValues"
  <2>1. Distinct(node.columns) /\ PortableRows(v, node.columns)
    BY <1>9 DEF Portable, OverTable
  <2>2. /\ TsNode(node, params, dialect, branch) = TsInsertValues(node, params)
        /\ GoNode(node, params, dialect, TRUE, AliasOrder, branch) = GoInsertValues(node, params)
        /\ NetNode(node, params, dialect, branch) = NetInsertValues(node, params)
    BY ONLY <1>9 DEF TsNode, GoNode, NetNode
  <2> QED
    BY <2>1, <2>2, InsertAgree
<1>10. CASE node.op = "filter"
  <2>1. Distinct(node.columns) /\ PortableFilter(v, node.columns)
    BY <1>10 DEF Portable, OverTable
  <2>2. /\ TsNode(node, params, dialect, branch) = TsFilter(node, params)
        /\ GoNode(node, params, dialect, TRUE, AliasOrder, branch) = GoFilter(node, params, TRUE)
        /\ NetNode(node, params, dialect, branch) = NetFilter(node, params)
    BY ONLY <1>10 DEF TsNode, GoNode, NetNode
  <2> QED
    BY <2>1, <2>2, FilterAgree
<1>11. CASE node.op = "orderBy"
  <2>1. IsObject(v) => PortableOrder(v, node.columns, TsAggregates(Get(params, "select")))
    BY <1>11 DEF Portable, OverTable
  <2>2. /\ TsNode(node, params, dialect, branch) = TsOrderBy(node, params)
        /\ GoNode(node, params, dialect, TRUE, AliasOrder, branch) = GoOrderBy(node, params, TRUE)
        /\ NetNode(node, params, dialect, branch) = NetOrderBy(node, params)
    BY ONLY <1>11 DEF TsNode, GoNode, NetNode
  <2> QED
    BY <2>1, <2>2, OrderAgree
<1>12. CASE node.op = "pagination"
  <2>1. \A p \in {"limit", "offset"} : Get(params, p) = Absent \/ IsPrimitive(Get(params, p))
    BY <1>12 DEF Portable, OverTable
  <2>2. /\ TsNode(node, params, dialect, branch) = TsPagination(params)
        /\ GoNode(node, params, dialect, TRUE, AliasOrder, branch) = GoPagination(params)
        /\ NetNode(node, params, dialect, branch) = NetPagination(params)
    BY ONLY <1>12 DEF TsNode, GoNode, NetNode
  <2> QED
    BY <2>1, <2>2, PaginationAgree
<1>13. CASE node.op = "projection"
  <2>1. Missing(v) \/ (IsList(v) /\ v.items = <<>>)
    BY <1>13 DEF Portable, OverTable
  <2>2. /\ TsNode(node, params, dialect, branch) = TsProjection(node, params, dialect)
        /\ GoNode(node, params, dialect, TRUE, AliasOrder, branch) = GoProjection(node, params)
        /\ NetNode(node, params, dialect, branch) = NetProjection(node, params)
    BY ONLY <1>13 DEF TsNode, GoNode, NetNode
  <2> QED
    BY <2>1, <2>2, ProjectionAgree
<1>14. CASE node.op = "joinBy"
  <2>1. IsObject(v) => PortableJoins(v, node)
    BY <1>14 DEF Portable, OverTable
  <2>2. /\ TsNode(node, params, dialect, branch) = TsJoinBy(node, params)
        /\ GoNode(node, params, dialect, TRUE, AliasOrder, branch) = GoJoinBy(node, params, TRUE, AliasOrder)
        /\ NetNode(node, params, dialect, branch) = NetJoinBy(node, params)
    BY ONLY <1>14 DEF TsNode, GoNode, NetNode
  <2> QED
    BY <2>1, <2>2, JoinByAgree
<1>15. CASE node.op = "upsert"
  <2>1. /\ Distinct(node.columns) /\ PortableRows(v, node.columns)
        /\ v.items # <<>> => ~(ToSet(Keys(v.items[1])) \subseteq ToSet(node.conflict))
    BY <1>15 DEF Portable, OverTable
  <2>2. /\ TsNode(node, params, dialect, branch) = TsUpsert(node, params, dialect)
        /\ GoNode(node, params, dialect, TRUE, AliasOrder, branch) = GoUpsert(node, params, dialect)
        /\ NetNode(node, params, dialect, branch) = NetUpsert(node, params, dialect)
    BY ONLY <1>15 DEF TsNode, GoNode, NetNode
  <2> QED
    BY <2>1, <2>2, UpsertAgree
<1>16. CASE node.op = "windowBy"
  <2>1. IsObject(v) => \A e \in ToSet(v.entries) :
          /\ IsObject(e.value) /\ PortableWindow(e.value, node.columns)
          /\ LET sorts == Get(Get(e.value, "over"), "orderBy") IN IsObject(sorts) => IsSeq(sorts.entries)
    <3> SUFFICES ASSUME IsObject(v), NEW e \in ToSet(v.entries)
                 PROVE  /\ IsObject(e.value) /\ PortableWindow(e.value, node.columns)
                        /\ LET sorts == Get(Get(e.value, "over"), "orderBy")
                           IN IsObject(sorts) => IsSeq(sorts.entries)
      OBVIOUS
    <3>1. IsObject(e.value) /\ PortableWindow(e.value, node.columns) /\ IsObject(Get(e.value, "over"))
      BY <1>16 DEF Portable, PortableWindow
    <3>2. v \in values
      <4>1. ~IsObject(Absent)
        BY DEF IsObject, Absent
      <4> QED
        BY <4>1, ObjectInside
    <3>3. e.value \in values
      BY <3>2, ObjectInside DEF ToSet
    <3>4. Get(e.value, "over") \in values
      <4>1. ~IsObject(Absent)
        BY DEF IsObject, Absent
      <4> QED
        BY <3>1, <3>3, <4>1, ObjectInside
    <3>5. ASSUME IsObject(Get(Get(e.value, "over"), "orderBy"))
          PROVE  IsSeq(Get(Get(e.value, "over"), "orderBy").entries)
      <4>1. ~IsObject(Absent)
        BY DEF IsObject, Absent
      <4>2. Get(Get(e.value, "over"), "orderBy") \in values
        <5>1. Get(Get(e.value, "over"), "orderBy") \in values \cup {Absent}
          BY <3>1, <3>4, ObjectInside
        <5>2. Get(Get(e.value, "over"), "orderBy") # Absent
          BY <3>5, <4>1
        <5> QED
          BY <5>1, <5>2
      <4> QED
        BY <3>5, <4>2, ObjectInside
    <3> QED
      BY <3>1, <3>5
  <2>2. /\ TsNode(node, params, dialect, branch) = TsWindowBy(node, params, dialect)
        /\ GoNode(node, params, dialect, TRUE, AliasOrder, branch) = GoWindowBy(node, params, dialect, TRUE)
        /\ NetNode(node, params, dialect, branch) = NetWindowBy(node, params, dialect)
    BY ONLY <1>16 DEF TsNode, GoNode, NetNode
  <2> QED
    BY <2>1, <2>2, WindowByAgree
<1>17. node.op \in {"text", "value", "param", "each", "when", "set", "insert", "insertCols", "insertValues", "filter", "orderBy", "pagination", "projection", "joinBy", "upsert", "windowBy"}
  BY DEF Portable
<1> QED
  BY <1>1, <1>2, <1>3, <1>4, <1>5, <1>6, <1>7, <1>8, <1>9, <1>10, <1>11, <1>12, <1>13, <1>14, <1>15, <1>16, <1>17

(* Portable nodes are serialized as they are.                              *)
LEMMA SerializePortable ==
  ASSUME NEW nodes, nodes \in Seq(ToSet(nodes)),
         \A n \in ToSet(nodes) : n.op \notin {"havingBy", "groupBy"}
  PROVE  Serialize(nodes) = nodes
<1>1. \A i \in DOMAIN nodes : nodes[i] \in {n \in ToSet(nodes) : n.op # "groupBy"}
  BY DEF ToSet
<1>2. Those(nodes, LAMBDA n : n.op # "groupBy") = nodes
  BY <1>1, AmongAll DEF Those
<1>3. [i \in DOMAIN nodes |-> IF nodes[i].op = "havingBy" THEN TextNode("") ELSE nodes[i]] = nodes
  <2>1. \A i \in DOMAIN nodes : nodes[i].op # "havingBy"
    BY DEF ToSet
  <2>2. nodes = [i \in DOMAIN nodes |-> nodes[i]]
    OBVIOUS
  <2> QED
    BY <2>1, <2>2
<1> QED
  BY <1>2, <1>3 DEF Serialize, Each

(* What the assumption says of one query.                                  *)
LEMMA CaseFacts ==
  ASSUME NEW q \in Cases
  PROVE  /\ WellFormed(Contents(q.params)) /\ q.params \in Contents(q.params) /\ IsObject(q.params)
         /\ \A v \in Contents(q.params) : IsList(v) => OrLevels(v.items)[MaxNesting] = {}
         /\ IsSeq(q.blocks) /\ q.blocks # <<>>
         /\ \A b \in DOMAIN q.blocks :
              /\ IsSeq(q.blocks[b])
              /\ \A n \in ToSet(q.blocks[b]) :
                   /\ n.op \notin {"text", "value", "pagination"} => "param" \in DOMAIN n
                   /\ n.op \in OverTable => Distinct(n.columns)
                   /\ n.op = "upsert" => Distinct(n.conflict)
                   /\ n.op = "filter" => IsSeq(n.prefix)
                   /\ n.op = "when" => {n.onTrue, n.onFalse} \subseteq (b + 1)..Len(q.blocks)
<1> DEFINE nodes == UNION {ToSet(q.blocks[b]) : b \in DOMAIN q.blocks}
<1>1. q.blocks \in Seq(Seq(nodes))
  BY CasesAssumption
<1> HIDE DEF nodes
<1>2. IsSeq(q.blocks) /\ \A b \in DOMAIN q.blocks : q.blocks[b] \in Seq(nodes)
  BY ONLY <1>1, SeqElements
<1>3. \A b \in DOMAIN q.blocks : IsSeq(q.blocks[b])
  BY <1>2, SeqElements
<1> QED
  BY <1>2, <1>3, CasesAssumption DEF IsSeq

(* The nodes of a block are written the same.                              *)
LEMMA NodesAgree ==
  ASSUME NEW q \in Cases, NEW b \in DOMAIN q.blocks, NEW branch,
         NEW nodes, ToSet(nodes) \subseteq ToSet(q.blocks[b]),
         \A n \in ToSet(nodes) : Portable(n, q.params)
  PROVE  /\ GoNodes(nodes, q.params, q.dialect, TRUE, AliasOrder, branch)
              = TsNodes(nodes, q.params, q.dialect, branch)
         /\ NetNodes(nodes, q.params, q.dialect, branch) = TsNodes(nodes, q.params, q.dialect, branch)
<1>1. \A i \in DOMAIN nodes :
        /\ GoNode(nodes[i], q.params, q.dialect, TRUE, AliasOrder, branch)
             = TsNode(nodes[i], q.params, q.dialect, branch)
        /\ NetNode(nodes[i], q.params, q.dialect, branch) = TsNode(nodes[i], q.params, q.dialect, branch)
  <2> SUFFICES ASSUME NEW n \in ToSet(nodes)
               PROVE  /\ GoNode(n, q.params, q.dialect, TRUE, AliasOrder, branch)
                           = TsNode(n, q.params, q.dialect, branch)
                      /\ NetNode(n, q.params, q.dialect, branch) = TsNode(n, q.params, q.dialect, branch)
    BY DEF ToSet
  <2>1. n \in ToSet(q.blocks[b]) /\ Portable(n, q.params)
    OBVIOUS
  <2>2. /\ WellFormed(Contents(q.params)) /\ q.params \in Contents(q.params) /\ IsObject(q.params)
        /\ n.op \notin {"text", "value", "pagination"} => "param" \in DOMAIN n
        /\ n.op \in OverTable => Distinct(n.columns)
    BY <2>1, CaseFacts
  <2> QED
    BY ONLY <2>1, <2>2, NodeAgree
<1> QED
  BY <1>1 DEF GoNodes, NetNodes, TsNodes, Each

(* And so are all blocks: the three recursions have the same equations.    *)
LEMMA BlocksAgree ==
  ASSUME NEW q \in Cases,
         \A b \in DOMAIN q.blocks : \A n \in ToSet(q.blocks[b]) : Portable(n, q.params)
  PROVE  /\ GoBlocks(q.blocks, q.params, q.dialect, TRUE, AliasOrder)
              = TsBlocks(q.blocks, q.params, q.dialect)
         /\ NetBlocks(q.blocks, q.params, q.dialect) = TsBlocks(q.blocks, q.params, q.dialect)
<1>1. \A branch : \A b \in DOMAIN q.blocks :
        /\ GoNodes(q.blocks[b], q.params, q.dialect, TRUE, AliasOrder, branch)
             = TsNodes(q.blocks[b], q.params, q.dialect, branch)
        /\ NetNodes(q.blocks[b], q.params, q.dialect, branch) = TsNodes(q.blocks[b], q.params, q.dialect, branch)
  BY NodesAgree
<1>2. \A branch : [b \in DOMAIN q.blocks |->
                    GoNodes(q.blocks[b], q.params, q.dialect, TRUE, AliasOrder, branch)]
                = [b \in DOMAIN q.blocks |-> TsNodes(q.blocks[b], q.params, q.dialect, branch)]
  BY <1>1
<1>3. \A branch : [b \in DOMAIN q.blocks |-> NetNodes(q.blocks[b], q.params, q.dialect, branch)]
                = [b \in DOMAIN q.blocks |-> TsNodes(q.blocks[b], q.params, q.dialect, branch)]
  BY <1>1
<1> QED
  BY <1>2, <1>3 DEF GoBlocks, NetBlocks, TsBlocks

------------------------------------------------------------------------------
BuildInv ==
  /\ query \in Cases
  /\ next \in Nat \ {0}
  /\ PortableQuery => go = ts /\ net = ts

(* The node a step builds is one of the query's, and the manifest of a     *)
(* portable query has its nodes as they are.                               *)
LEMMA NextNode ==
  ASSUME query \in Cases, next \in Nat \ {0}, next <= Len(Template), PortableQuery
  PROVE  LET node == << Template[next] >>
         IN /\ IsSeq(node) /\ ToSet(node) \subseteq ToSet(query.blocks[1]) /\ 1 \in DOMAIN query.blocks
            /\ \A b \in DOMAIN query.blocks : \A n \in ToSet(query.blocks[b]) : Portable(n, query.params)
            /\ \A n \in ToSet(node) : Portable(n, query.params)
            /\ Serialize(node) = node /\ Manifest = query.blocks
<1> DEFINE node == << Template[next] >>
<1>1. /\ IsSeq(query.blocks) /\ query.blocks # <<>>
      /\ \A b \in DOMAIN query.blocks : IsSeq(query.blocks[b])
  BY CaseFacts
<1>2. 1 \in DOMAIN query.blocks
  <2>1. Len(query.blocks) \in Nat /\ DOMAIN query.blocks = 1..Len(query.blocks) /\ DOMAIN query.blocks # {}
    BY <1>1, EmptySequence
  <2> QED
    BY <2>1
<1>3. /\ DOMAIN node = {1} /\ node[1] = Template[next] /\ ToSet(node) = {Template[next]}
      /\ node \in Seq(ToSet(node))
  BY DEF ToSet
<1>4. Template[next] \in ToSet(query.blocks[1])
  <2>1. IsSeq(Template)
    BY <1>1, <1>2 DEF Template
  <2>2. next \in DOMAIN Template
    BY <2>1, EmptySequence
  <2> QED
    BY <2>2 DEF Template, ToSet
<1> HIDE DEF node
<1>5. \A b \in DOMAIN query.blocks : \A n \in ToSet(query.blocks[b]) :
        Portable(n, query.params) /\ n.op \notin {"havingBy", "groupBy"}
  <2>1. \A n : Portable(n, query.params) => n.op \notin {"havingBy", "groupBy"}
    BY DEF Portable
  <2> QED
    BY <2>1 DEF PortableQuery
<1>6. Serialize(node) = node
  BY <1>2, <1>3, <1>4, <1>5, SerializePortable
<1>7. Manifest = query.blocks
  <2>1. \A b \in DOMAIN query.blocks : Serialize(query.blocks[b]) = query.blocks[b]
    BY <1>1, <1>5, SerializePortable DEF IsSeq
  <2>2. query.blocks = [b \in DOMAIN query.blocks |-> query.blocks[b]]
    BY <1>1 DEF IsSeq
  <2> QED
    BY <2>1, <2>2 DEF Manifest
<1>8. IsSeq(node) /\ ToSet(node) \subseteq ToSet(query.blocks[1]) /\ \A n \in ToSet(node) : Portable(n, query.params)
  BY <1>2, <1>3, <1>4, <1>5 DEF IsSeq
<1> QED
  BY <1>2, <1>5, <1>6, <1>7, <1>8 DEF node

(* On a portable query the Go builder, given the params in document order, *)
(* and the .NET builder emit what the TypeScript operators emit: node by   *)
(* node, from the same values and in the same order (RuntimesAgree).       *)
THEOREM BuildersAgree == BuildSpec => [](PortableQuery => go = ts /\ net = ts)
<1>1. BuildInit => BuildInv
  BY DEF BuildInit, BuildInv
<1>2. BuildInv /\ [BuildNext]_buildVars => BuildInv'
  <2> SUFFICES ASSUME BuildInv, [BuildNext]_buildVars PROVE BuildInv'
    OBVIOUS
  <2>1. CASE UNCHANGED buildVars
    BY <2>1 DEF BuildInv, buildVars, PortableQuery
  <2>2. CASE BuildNode
    <3> DEFINE node == << Template[next] >>
    <3>1. query' = query /\ next' = next + 1 /\ next <= Len(Template)
      BY <2>2 DEF BuildNode
    <3>2. query \in Cases /\ next \in Nat \ {0}
      BY DEF BuildInv
    <3>3. query' \in Cases /\ next' \in Nat \ {0}
      BY <3>1, <3>2
    <3>4. ASSUME PortableQuery PROVE go' = ts' /\ net' = ts'
      <4>1. /\ ToSet(node) \subseteq ToSet(query.blocks[1]) /\ 1 \in DOMAIN query.blocks
            /\ \A b \in DOMAIN query.blocks : \A n \in ToSet(query.blocks[b]) : Portable(n, query.params)
            /\ \A n \in ToSet(node) : Portable(n, query.params)
            /\ Serialize(node) = node /\ Manifest = query.blocks
        BY <3>1, <3>2, <3>4, NextNode
      <4> HIDE DEF node
      <4>2. \A branch :
              /\ GoNodes(node, query.params, query.dialect, TRUE, AliasOrder, branch)
                   = TsNodes(node, query.params, query.dialect, branch)
              /\ NetNodes(node, query.params, query.dialect, branch)
                   = TsNodes(node, query.params, query.dialect, branch)
        BY ONLY <3>2, <4>1, NodesAgree
      <4>3. /\ GoBlocks(query.blocks, query.params, query.dialect, TRUE, AliasOrder)
                 = TsBlocks(query.blocks, query.params, query.dialect)
            /\ NetBlocks(query.blocks, query.params, query.dialect)
                 = TsBlocks(query.blocks, query.params, query.dialect)
        BY <3>2, <4>1, BlocksAgree
      <4>4. /\ ts' = Emit(ts, TsNodes(node, query.params, query.dialect,
                                      TsBlocks(query.blocks, query.params, query.dialect)))
            /\ go' = Emit(go, GoNodes(Serialize(node), query.params, query.dialect, TRUE, AliasOrder,
                        GoBlocks(Manifest, query.params, query.dialect, TRUE, AliasOrder)))
            /\ net' = Emit(net, NetNodes(Serialize(node), query.params, query.dialect,
                        NetBlocks(Manifest, query.params, query.dialect)))
        BY <2>2 DEF BuildNode, node
      <4>5. go = ts /\ net = ts
        BY <3>4 DEF BuildInv
      <4> QED
        BY <4>1, <4>2, <4>3, <4>4, <4>5
    <3> QED
      BY <3>1, <3>3, <3>4 DEF BuildInv, PortableQuery
  <2> QED
    BY <2>1, <2>2 DEF BuildNext
<1>3. BuildInv => (PortableQuery => go = ts /\ net = ts)
  BY DEF BuildInv
<1> QED
  BY <1>1, <1>2, <1>3, PTL DEF BuildSpec

-----------------------------------------------------------------------------
Alike(a, b) == IsSeq(a) /\ IsSeq(b) /\ Rearranged(a, b)

(* A sequence is alike itself.                                             *)
LEMMA AlikeSame ==
  ASSUME NEW a, IsSeq(a)
  PROVE  Alike(a, a)
BY RearrangedSame DEF Alike

(* Concatenations of alike sequences are alike.                            *)
LEMMA AlikeConcat ==
  ASSUME NEW a, NEW b, NEW c, NEW d, Alike(a, b), Alike(c, d)
  PROVE  Alike(a \o c, b \o d)
BY ConcatFacts, RearrangedConcat DEF Alike

(* Concatenations of sequences are sequences.                              *)
LEMMA SeqConcat ==
  ASSUME NEW a, NEW b, IsSeq(a), IsSeq(b)
  PROVE  IsSeq(a \o b)
BY ConcatFacts

(* So are joined parts.                                                    *)
LEMMA JoinSeq ==
  ASSUME NEW s, IsSeq(s), NEW parts, parts = [i \in DOMAIN s |-> parts[i]],
         \A i \in DOMAIN s : IsSeq(parts[i]), NEW separator
  PROVE  IsSeq(Join(parts, separator))
<1>1. IsSeq(parts) /\ DOMAIN parts = DOMAIN s
  BY ONLY IsSeq(s), parts = [i \in DOMAIN s |-> parts[i]], SeqOver
<1> QED
  BY <1>1, JoinForm

(* Parts that depend on the element alone, joined in the order of two      *)
(* alike sequences, are alike.                                             *)
LEMMA AlikeJoin ==
  ASSUME NEW s, NEW t, Alike(s, t), NEW f, \A i \in DOMAIN s : IsSeq(f[s[i]]), NEW separator
  PROVE  Alike(Join([i \in DOMAIN s |-> f[s[i]]], separator), Join([i \in DOMAIN t |-> f[t[i]]], separator))
<1> DEFINE A == [i \in DOMAIN s |-> f[s[i]]]
           B == [i \in DOMAIN t |-> f[t[i]]]
<1>1. Rearranged(A, B)
  BY RearrangedMap DEF Alike
<1>2. A = [i \in DOMAIN s |-> A[i]] /\ B = [i \in DOMAIN t |-> B[i]] /\ DOMAIN A = DOMAIN s
      /\ \A i \in DOMAIN A : IsSeq(A[i])
  OBVIOUS
<1> HIDE DEF A, B
<1>3. IsSeq(A) /\ IsSeq(B)
  BY <1>2, SeqOver DEF Alike
<1>4. Alike(Join(A, separator), Join(B, separator))
  BY <1>1, <1>2, <1>3, RearrangedJoin DEF Alike
<1> QED
  BY <1>4 DEF A, B

(* And so they are one after the other.                                    *)
LEMMA AlikeFlatten ==
  ASSUME NEW s, NEW t, Alike(s, t), NEW f, \A i \in DOMAIN s : IsSeq(f[s[i]])
  PROVE  Alike(FlattenSeq([i \in DOMAIN s |-> f[s[i]]]), FlattenSeq([i \in DOMAIN t |-> f[t[i]]]))
<1> DEFINE A == [i \in DOMAIN s |-> f[s[i]]]
           B == [i \in DOMAIN t |-> f[t[i]]]
<1>1. Rearranged(A, B)
  BY RearrangedMap DEF Alike
<1>2. A = [i \in DOMAIN s |-> A[i]] /\ B = [i \in DOMAIN t |-> B[i]] /\ DOMAIN A = DOMAIN s
      /\ \A i \in DOMAIN A : IsSeq(A[i])
  OBVIOUS
<1> HIDE DEF A, B
<1>3. IsSeq(A) /\ IsSeq(B)
  BY <1>2, SeqOver DEF Alike
<1>4. \A i \in DOMAIN B : IsSeq(B[i])
  BY <1>1, <1>2 DEF Rearranged, OneToOne
<1>5. Alike(FlattenSeq(A), FlattenSeq(B))
  BY <1>1, <1>2, <1>3, <1>4, FlattenFacts, RearrangedFlatten DEF Alike
<1> QED
  BY <1>5 DEF A, B

(* The items of a well-formed list are values.                             *)
LEMMA ListInside ==
  ASSUME NEW values, WellFormed(values), NEW v \in values, IsList(v)
  PROVE  IsSeq(v.items) /\ \A i \in DOMAIN v.items : v.items[i] \in values
<1>1. v.items \in Seq(values)
  BY DEF WellFormed
<1> QED
  BY <1>1, SeqElements

(* The elements of a sequence that are in a set are a sequence.            *)
LEMMA AmongSeq ==
  ASSUME NEW s, IsSeq(s), NEW S
  PROVE  IsSeq(Among(s, S)) /\ ToSet(Among(s, S)) = ToSet(s) \cap S
BY AmongElements DEF IsSeq

(* An object's keys in the document's order and in that of the columns.    *)
LEMMA KeysAlike ==
  ASSUME NEW v, NEW columns, KnownKeys(v, columns), Distinct(columns)
  PROVE  LET s == GoKeys(v, columns, TRUE)
             t == GoKeys(v, columns, FALSE)
         IN /\ s = Keys(v)
            /\ Distinct(s) /\ Distinct(t) /\ ToSet(s) = ToSet(t) /\ Alike(s, t)
<1> DEFINE s == GoKeys(v, columns, TRUE)
           t == GoKeys(v, columns, FALSE)
           S == {c \in ToSet(columns) : Has(v, c)}
<1>1. s = Keys(v) /\ Distinct(s) /\ ToSet(s) \subseteq ToSet(columns)
  BY DEF GoKeys, KnownKeys
<1>2. t = Among(columns, S)
  BY DEF GoKeys, Those
<1>3. S = ToSet(s)
  BY <1>1, KeysFacts
<1> HIDE DEF S, s
<1>3a. columns \in Seq(ToSet(columns))
  BY DEF Distinct
<1>3b. ToSet(columns) \cap S = ToSet(s)
  BY <1>1, <1>3
<1>3c. ToSet(t) = ToSet(columns) \cap S /\ Distinct(t)
  BY <1>2, <1>3a, AmongElements
<1>4. Distinct(t) /\ ToSet(t) = ToSet(s)
  BY <1>3b, <1>3c
<1> HIDE DEF t
<1>5. Alike(s, t)
  BY <1>1, <1>4, RearrangedDistinct DEF Alike, Distinct, IsSeq
<1> QED
  BY <1>1, <1>4, <1>5 DEF s, t

(* Column lists and lists of placeholders are sequences of pieces.         *)
LEMMA ListsSeq ==
  ASSUME NEW s, IsSeq(s)
  PROVE  IsSeq(Columns(s)) /\ IsSeq(Binds(s))
<1>1. /\ Each(s, Col) = [i \in DOMAIN s |-> Each(s, Col)[i]] /\ \A i \in DOMAIN s : IsSeq(Each(s, Col)[i])
      /\ Each(s, Bind) = [i \in DOMAIN s |-> Each(s, Bind)[i]] /\ \A i \in DOMAIN s : IsSeq(Each(s, Bind)[i])
  BY PieceSeqs DEF Each
<1> QED
  BY <1>1, JoinSeq DEF Columns, Binds

(* So are the tuples of the inserted rows,                                 *)
LEMMA TuplesSeq ==
  ASSUME NEW keys, IsSeq(keys), NEW rows, IsSeq(rows)
  PROVE  IsSeq(GoTuples(keys, rows))
<1> DEFINE Values(row) == Each(keys, LAMBDA k : GoBind(Get(row, k)))
           Tuple(row) == Sql("(") \o Join(Values(row), ",") \o Sql(")")
<1>1. ASSUME NEW row PROVE IsSeq(Join(Values(row), ","))
  <2>1. Values(row) = [i \in DOMAIN keys |-> Values(row)[i]] /\ \A i \in DOMAIN keys : IsSeq(Values(row)[i])
    BY PieceSeqs DEF Each, GoBind
  <2> HIDE DEF Values
  <2> QED
    BY <2>1, JoinSeq
<1> HIDE DEF Values
<1>2. \A row : IsSeq(Tuple(row))
  BY <1>1, SeqConcat, PieceSeqs
<1>3. GoTuples(keys, rows) = Join([i \in DOMAIN rows |-> Tuple(rows[i])], ",")
  BY DEF GoTuples, Each, Values
<1> HIDE DEF Tuple
<1> DEFINE parts == [i \in DOMAIN rows |-> Tuple(rows[i])]
<1>4. parts = [i \in DOMAIN rows |-> parts[i]] /\ \A i \in DOMAIN rows : IsSeq(parts[i])
  BY <1>2
<1> HIDE DEF parts
<1>5. IsSeq(Join(parts, ","))
  BY <1>4, JoinSeq
<1> QED
  BY <1>3, <1>5 DEF parts

(* the column list the rows are written under,                             *)
LEMMA RowsSeq ==
  ASSUME NEW columns, Distinct(columns), NEW v, IsList(v) => IsSeq(v.items)
  PROVE  LET rows == GoCoerceRowList(v)
             keys == GoCanonicalKeys(columns, rows[1])
         IN /\ IsSeq(keys) /\ IsSeq(rows)
            /\ IsSeq(Columns(keys)) /\ IsSeq(GoTuples(keys, rows))
<1> DEFINE rows == GoCoerceRowList(v)
           keys == GoCanonicalKeys(columns, rows[1])
<1>1. IsSeq(rows)
  BY AmongSeq, PieceSeqs DEF GoCoerceRowList, Objects, Those
<1>2. IsSeq(columns)
  BY DEF Distinct, IsSeq
<1>3. IsSeq(keys)
  BY <1>2, AmongSeq DEF GoCanonicalKeys, Those
<1> HIDE DEF rows, keys
<1>4. IsSeq(Columns(keys)) /\ IsSeq(GoTuples(keys, rows))
  BY <1>1, <1>3, ListsSeq, TuplesSeq
<1> QED
  BY <1>1, <1>3, <1>4 DEF rows, keys

(* what the insert operators emit,                                         *)
LEMMA InsertSeq ==
  ASSUME NEW node, NEW params, Distinct(node.columns),
         LET v == Get(params, node.param) IN IsList(v) => IsSeq(v.items)
  PROVE  /\ IsSeq(GoInsert(node, params)) /\ IsSeq(GoInsertCols(node, params))
         /\ IsSeq(GoInsertValues(node, params))
<1> DEFINE v == Get(params, node.param)
           rows == GoCoerceRowList(v)
           keys == GoCanonicalKeys(node.columns, rows[1])
<1>1. IsSeq(Columns(keys)) /\ IsSeq(GoTuples(keys, rows))
  BY RowsSeq
<1>2. /\ GoInsert(node, params) \in {Nothing, Fail, Sql("(") \o Columns(keys) \o Sql(") values") \o GoTuples(keys, rows)}
      /\ GoInsertCols(node, params) \in {Nothing, Fail, Columns(keys)}
      /\ GoInsertValues(node, params) \in {Nothing, Fail, GoTuples(keys, rows)}
  BY DEF GoInsert, GoInsertCols, GoInsertValues, GoRows
<1> HIDE DEF keys, rows
<1>3. IsSeq(Sql("(") \o Columns(keys) \o Sql(") values") \o GoTuples(keys, rows))
  BY <1>1, SeqConcat, PieceSeqs
<1> QED
  BY <1>1, <1>2, <1>3, PieceSeqs DEF Nothing

(* what an upsert emits in either dialect,                                 *)
LEMMA UpsertSeq ==
  ASSUME NEW node, NEW params, NEW dialect, Distinct(node.columns), Distinct(node.conflict),
         LET v == Get(params, node.param) IN IsList(v) => IsSeq(v.items)
  PROVE  IsSeq(GoUpsert(node, params, dialect))
<1> DEFINE v == Get(params, node.param)
           rows == GoCoerceRowList(v)
           keys == GoCanonicalKeys(node.columns, rows[1])
           updated == Those(keys, LAMBDA k : k \notin ToSet(node.conflict))
           Put(source) == Each(updated, LAMBDA k : Col(k) \o Sql(source) \o Col(k))
           on == Each(node.conflict, LAMBDA k : Col(k) \o Sql("= src") \o Col(k))
<1>1. IsSeq(Columns(keys)) /\ IsSeq(GoTuples(keys, rows)) /\ IsSeq(keys)
  BY RowsSeq
<1>2. IsSeq(node.conflict)
  BY DEF Distinct, IsSeq
<1>3. IsSeq(Columns(node.conflict))
  BY <1>2, ListsSeq
<1> HIDE DEF keys, rows
<1>4. IsSeq(updated)
  BY <1>1, AmongSeq DEF Those
<1>5. GoAssignFrom(updated, "= excluded") = Join(Put("= excluded"), ",") /\ GoAssignFrom(updated, "= src") = Join(Put("= src"), ",")
  BY DEF GoAssignFrom
<1> HIDE DEF updated
<1>6. ASSUME NEW source PROVE IsSeq(Join(Put(source), ","))
  <2>1. Put(source) = [i \in DOMAIN updated |-> Put(source)[i]] /\ \A i \in DOMAIN updated : IsSeq(Put(source)[i])
    BY PieceSeqs, SeqConcat DEF Each
  <2> HIDE DEF Put
  <2> QED
    BY <1>4, <2>1, JoinSeq
<1> HIDE DEF Put
<1>7. IsSeq(Join(on, "and"))
  <2>1. on = [i \in DOMAIN node.conflict |-> on[i]] /\ \A i \in DOMAIN node.conflict : IsSeq(on[i])
    BY PieceSeqs, SeqConcat DEF Each
  <2> HIDE DEF on
  <2> QED
    BY <1>2, <2>1, JoinSeq
<1>8. IsSeq(GoUpsertPgSqlite(node, keys, rows))
  <2>1. GoUpsertPgSqlite(node, keys, rows)
          = Sql("(") \o Columns(keys) \o Sql(") values") \o GoTuples(keys, rows)
            \o Sql("on conflict") \o Columns(node.conflict)
            \o (Sql("do update set") \o Join(Put("= excluded"), ","))
    BY <1>5 DEF GoUpsertPgSqlite, updated
  <2> QED
    BY <1>1, <1>3, <1>6, <2>1, SeqConcat, PieceSeqs
<1>9. IsSeq(GoUpsertMssql(node, keys, rows))
  <2>1. GoUpsertMssql(node, keys, rows)
          = Sql("using values") \o GoTuples(keys, rows) \o Sql("as src") \o Columns(keys) \o Sql("on")
            \o Join(on, "and")
            \o (Sql("when matched then update set") \o Join(Put("= src"), ","))
            \o Sql("when not matched then insert") \o Columns(keys)
            \o Sql("values src") \o Columns(keys)
    BY <1>5 DEF GoUpsertMssql, updated
  <2> HIDE DEF on
  <2> QED
    BY <1>1, <1>6, <1>7, <2>1, SeqConcat, PieceSeqs
<1>10. GoUpsert(node, params, dialect) \in {Nothing, Fail, GoUpsertMssql(node, keys, rows), GoUpsertPgSqlite(node, keys, rows)}
  BY DEF GoUpsert, GoRows, keys, rows
<1> QED
  BY <1>8, <1>9, <1>10, PieceSeqs DEF Nothing

(* a placeholder or a list of these,                                       *)
LEMMA ValuesSeq ==
  ASSUME NEW node, NEW params,
         LET v == Get(params, node.param) IN IsList(v) => IsSeq(v.items)
  PROVE  IsSeq(GoParam(node, params)) /\ IsSeq(GoEach(node, params))
<1>1. \A x : IsSeq(GoBind(x))
  BY PieceSeqs DEF GoBind
<1> QED
  BY <1>1, ListsSeq DEF GoParam, GoEach

(* limit and offset,                                                       *)
LEMMA PaginationSeq ==
  ASSUME NEW params
  PROVE  IsSeq(GoPagination(params))
BY PieceSeqs, SeqConcat DEF GoPagination, Nothing

(* and all columns of a table.                                             *)
LEMMA ProjectionSeq ==
  ASSUME NEW node, NEW params, Distinct(node.columns),
         LET v == Get(params, node.param) IN Missing(v) \/ (IsList(v) /\ v.items = <<>>)
  PROVE  IsSeq(GoProjection(node, params))
<1>1. GoProjection(node, params) = Columns(node.columns)
  BY DEF GoProjection, Missing, IsList
<1>2. IsSeq(node.columns)
  BY DEF Distinct, IsSeq
<1> QED
  BY <1>1, <1>2, ListsSeq

(* The parts an operator writes for the elements of two alike sequences.   *)
LEMMA AlikeElements ==
  ASSUME NEW s, NEW t, Alike(s, t)
  PROVE  (\A i \in DOMAIN s : s[i] \in ToSet(s)) /\ (\A i \in DOMAIN t : t[i] \in ToSet(s))
BY DEF Alike, Rearranged, OneToOne, ToSet

(* Both of the above for a function of the elements.                       *)
LEMMA AlikeParts ==
  ASSUME NEW s, NEW t, Alike(s, t), NEW f, \A x \in ToSet(s) : IsSeq(f[x]),
         NEW A, NEW B, A = [i \in DOMAIN s |-> f[s[i]]], B = [i \in DOMAIN t |-> f[t[i]]], NEW separator
  PROVE  /\ Alike(Join(A, separator), Join(B, separator))
         /\ Alike(FlattenSeq(A), FlattenSeq(B))
<1>1. \A i \in DOMAIN s : IsSeq(f[s[i]])
  BY AlikeElements
<1> QED
  BY <1>1, AlikeJoin, AlikeFlatten

(* set: the same assignments.                                              *)
LEMMA SetAlike ==
  ASSUME NEW node, NEW params, Distinct(node.columns),
         LET v == Get(params, node.param)
         IN IsObject(v) => KnownKeys(v, node.columns)
  PROVE  Alike(GoSet(node, params, TRUE), GoSet(node, params, FALSE))
<1> DEFINE v == Get(params, node.param)
           s == GoKeys(v, node.columns, TRUE)
           t == GoKeys(v, node.columns, FALSE)
           Part(k) == Col(k) \o Sql("=") \o Bind(Get(v, k))
<1>1. CASE ~IsObject(v) \/ v.entries = <<>>
  BY <1>1, AlikeSame, PieceSeqs DEF GoSet
<1>2. CASE IsObject(v) /\ v.entries # <<>>
  <2>1. KnownKeys(v, node.columns)
    BY <1>2
  <2>2. Alike(s, t) /\ ToSet(s) = ToSet(t) /\ s = Keys(v)
    BY <2>1, KeysAlike
  <2>3. ToSet(s) \subseteq ToSet(node.columns)
    BY <2>1, <2>2 DEF KnownKeys
  <2> DEFINE S == {k \in ToSet(s) : Known(node.columns, k)}
             T == {k \in ToSet(t) : Known(node.columns, k)}
  <2>4. Those(s, LAMBDA k : Known(node.columns, k)) = Among(s, S) /\ Those(t, LAMBDA k : Known(node.columns, k)) = Among(t, T)
    BY DEF Those
  <2>5. (\A i \in DOMAIN s : s[i] \in S) /\ (\A i \in DOMAIN t : t[i] \in T)
    BY <2>2, <2>3 DEF ToSet, Known
  <2>6. Among(s, S) = s /\ Among(t, T) = t
    <3> HIDE DEF S, T, s, t
    <3> QED
      BY <2>5, AmongAll
  <2>7. /\ GoSet(node, params, TRUE) = Sql("set") \o Join(Each(s, Part), ",")
        /\ GoSet(node, params, FALSE) = Sql("set") \o Join(Each(t, Part), ",")
    BY <1>2, <2>4, <2>6 DEF GoSet
  <2>8. \A k : IsSeq(Part(k))
    BY PieceSeqs, SeqConcat
  <2> DEFINE f == [k \in ToSet(s) |-> Part(k)]
             A == Each(s, Part)
             B == Each(t, Part)
  <2> HIDE DEF s, t, Part
  <2>9a. \A k \in ToSet(s) : IsSeq(f[k])
    BY <2>8
  <2>9b. A = [i \in DOMAIN s |-> f[s[i]]] /\ B = [i \in DOMAIN t |-> f[t[i]]]
    BY <2>2, AlikeElements DEF Each
  <2> HIDE DEF f, A, B
  <2>9c. Alike(Join(A, ","), Join(B, ","))
    BY <2>2, <2>9a, <2>9b, AlikeParts
  <2>9. Alike(Join(Each(s, Part), ","), Join(Each(t, Part), ","))
    BY <2>9c DEF A, B
  <2>10. Alike(Sql("set"), Sql("set"))
    BY AlikeSame, PieceSeqs
  <2> QED
    BY <2>7, <2>9, <2>10, AlikeConcat
<1> QED
  BY <1>1, <1>2

(* orderBy: the same terms.                                                *)
LEMMA OrderAlike ==
  ASSUME NEW node, NEW params, Distinct(node.columns),
         LET v == Get(params, node.param)
         IN IsObject(v) => KnownKeys(v, node.columns)
  PROVE  Alike(GoOrderBy(node, params, TRUE), GoOrderBy(node, params, FALSE))
<1> DEFINE v == Get(params, node.param)
           s == GoKeys(v, node.columns, TRUE)
           t == GoKeys(v, node.columns, FALSE)
           Direction(k) == IF Text(Get(v, k)) = "" THEN "ASC" ELSE Get(v, k).str
           Term(k) == IF ~Known(node.columns, k) \/ Direction(k) \notin Directions THEN Fail
                      ELSE Col(k) \o Sql(Direction(k))
<1>1. CASE ~IsObject(v) \/ v.entries = <<>>
  BY <1>1, AlikeSame, PieceSeqs DEF GoOrderBy, Nothing
<1>2. CASE IsObject(v) /\ v.entries # <<>>
  <2>1. KnownKeys(v, node.columns)
    BY <1>2
  <2>2. Alike(s, t)
    BY <2>1, KeysAlike
  <2> DEFINE A == Each(s, Term)
             B == Each(t, Term)
             f == [k \in ToSet(s) |-> Term(k)]
  <2>3. /\ GoOrderBy(node, params, TRUE) = Sql("order by") \o Join(A, ",")
        /\ GoOrderBy(node, params, FALSE) = Sql("order by") \o Join(B, ",")
    BY <1>2 DEF GoOrderBy
  <2>4. \A k : IsSeq(Term(k))
    BY PieceSeqs, SeqConcat
  <2> HIDE DEF s, t, Term
  <2>5. \A k \in ToSet(s) : IsSeq(f[k])
    BY <2>4
  <2>6. A = [i \in DOMAIN s |-> f[s[i]]] /\ B = [i \in DOMAIN t |-> f[t[i]]]
    BY <2>2, AlikeElements DEF Each
  <2> HIDE DEF f, A, B
  <2>7. Alike(Join(A, ","), Join(B, ","))
    BY <2>2, <2>5, <2>6, AlikeParts
  <2>8. Alike(Sql("order by"), Sql("order by"))
    BY AlikeSame, PieceSeqs
  <2> QED
    BY <2>3, <2>7, <2>8, AlikeConcat
<1> QED
  BY <1>1, <1>2

(* The order of a join's aliases, in the document and sorted.              *)
LEMMA AliasesAlike ==
  ASSUME NEW v, Distinct(Keys(v)), ToSet(Keys(v)) \subseteq ToSet(AliasOrder), Distinct(AliasOrder)
  PROVE  Alike(GoKeys(v, AliasOrder, TRUE), GoKeys(v, AliasOrder, FALSE))
BY KeysAlike DEF KnownKeys

(* Choosing from two orders of the same elements gives two orders of the   *)
(* same elements.                                                          *)
LEMMA AmongAlike ==
  ASSUME NEW s, NEW t, Distinct(s), Distinct(t), ToSet(s) = ToSet(t), NEW S
  PROVE  Alike(Among(s, S), Among(t, S)) /\ ToSet(Among(s, S)) \subseteq ToSet(s)
<1>1. IsSeq(s) /\ IsSeq(t)
  BY DEF Distinct, IsSeq
<1> DEFINE a == Among(s, S)
           b == Among(t, S)
<1>2. IsSeq(a) /\ Distinct(a) /\ ToSet(a) = ToSet(s) \cap S
  BY <1>1, AmongElements DEF IsSeq
<1>3. IsSeq(b) /\ Distinct(b) /\ ToSet(b) = ToSet(t) \cap S
  BY <1>1, AmongElements DEF IsSeq
<1> HIDE DEF a, b
<1>4. Alike(a, b)
  BY <1>2, <1>3, RearrangedDistinct DEF Alike
<1> QED
  BY <1>2, <1>4 DEF a, b

(* A join with its conditions is a sequence of pieces.                     *)
LEMMA JoinColSeq ==
  ASSUME NEW node, NEW alias, NEW entry,
         LET on == Get(entry, "on") IN IsList(on) => IsSeq(on.items)
  PROVE  IsSeq(GoJoin(node, alias, entry))
<1> DEFINE on == Get(entry, "on")
           Part(c) == GoJoinCondition(node.joinMap, c)
           A == Each(on.items, Part)
<1>1. ASSUME NEW ref PROVE IsSeq(GoJoinColRef(node.joinMap, ref))
  BY PieceSeqs DEF GoJoinColRef
<1>2. ASSUME NEW c PROVE IsSeq(Part(c))
  BY <1>1, PieceSeqs, SeqConcat DEF GoJoinCondition
<1>3. CASE IsList(on)
  <2> HIDE DEF Part
  <2>1. A = [i \in DOMAIN on.items |-> A[i]] /\ \A i \in DOMAIN on.items : IsSeq(A[i])
    BY <1>2 DEF Each
  <2>2. IsSeq(on.items)
    BY <1>3
  <2> HIDE DEF A, on
  <2>3. IsSeq(Join(A, "and"))
    BY <2>1, <2>2, JoinSeq
  <2>4. \/ GoJoin(node, alias, entry) = Fail
        \/ \E kind : GoJoin(node, alias, entry) \in {Sql(kind) \o Table(alias),
                         Sql(kind) \o Table(alias) \o Sql("on") \o Join(A, "and")}
    BY DEF GoJoin, A, on, Part
  <2> QED
    BY <2>3, <2>4, PieceSeqs, SeqConcat
<1>4. CASE ~IsList(on)
  <2>1. \/ GoJoin(node, alias, entry) = Fail
        \/ \E kind : GoJoin(node, alias, entry) = Sql(kind) \o Table(alias)
    BY <1>4 DEF GoJoin
  <2> QED
    BY <2>1, PieceSeqs, SeqConcat
<1> QED
  BY <1>3, <1>4

(* What a value contains is well formed as well.                           *)
LEMMA GetInside ==
  ASSUME NEW values, WellFormed(values), NEW v, v \in values, IsObject(v), NEW k
  PROVE  LET x == Get(v, k)
         IN /\ x \in values \cup {Absent}
            /\ IsObject(x) => x \in values /\ IsSeq(x.entries)
            /\ IsList(x) => x \in values /\ IsSeq(x.items) /\ \A i \in DOMAIN x.items : x.items[i] \in values
<1> DEFINE x == Get(v, k)
<1>1. x \in values \cup {Absent}
  BY ObjectInside
<1>2. ~IsObject(Absent) /\ ~IsList(Absent)
  BY DEF IsObject, IsList, Absent
<1> HIDE DEF x
<1>3. IsObject(x) => x \in values /\ IsSeq(x.entries)
  BY <1>1, <1>2, ObjectInside
<1>4. IsList(x) => x \in values /\ IsSeq(x.items) /\ \A i \in DOMAIN x.items : x.items[i] \in values
  BY <1>1, <1>2, ListInside
<1> QED
  BY <1>1, <1>3, <1>4 DEF x

(* joinBy: the same joins, those of a plain map in the sorted order of the *)
(* aliases.                                                                *)
LEMMA JoinByAlike ==
  ASSUME NEW node, NEW params, NEW values, WellFormed(values), params \in values, IsObject(params),
         LET v == Get(params, node.param)
         IN IsObject(v) => Distinct(Keys(v)) /\ ToSet(Keys(v)) \subseteq ToSet(AliasOrder)
  PROVE  Alike(GoJoinBy(node, params, TRUE, AliasOrder), GoJoinBy(node, params, FALSE, AliasOrder))
<1> DEFINE v == Get(params, node.param)
           s == GoKeys(v, AliasOrder, TRUE)
           t == GoKeys(v, AliasOrder, FALSE)
           Part(a) == GoJoin(node, a, Get(v, a))
           S == {a \in ToSet(s) : IsObject(Get(v, a))}
           T == {a \in ToSet(t) : IsObject(Get(v, a))}
<1>1. CASE ~IsObject(v)
  BY <1>1, AlikeSame, PieceSeqs DEF GoJoinBy, Nothing
<1>2. CASE IsObject(v)
  <2>1. KnownKeys(v, AliasOrder) /\ Distinct(AliasOrder)
    BY <1>2, AliasOrderAssumption DEF KnownKeys
  <2>2. Distinct(s) /\ Distinct(t) /\ ToSet(s) = ToSet(t)
    BY <2>1, KeysAlike
  <2> DEFINE a == Among(s, S)
             b == Among(t, T)
             A == Each(a, Part)
             B == Each(b, Part)
             f == [k \in ToSet(a) |-> Part(k)]
  <2>3. /\ GoJoinBy(node, params, TRUE, AliasOrder) = FlattenSeq(A)
        /\ GoJoinBy(node, params, FALSE, AliasOrder) = FlattenSeq(B)
    BY <1>2 DEF GoJoinBy, Those
  <2>4. S = T
    BY <2>2
  <2>5. v \in values
    BY <1>2, GetInside
  <2>6. ASSUME NEW k \in S PROVE IsSeq(Part(k))
    <3>1. IsObject(Get(v, k))
      OBVIOUS
    <3>2. Get(v, k) \in values
      BY <1>2, <2>5, <3>1, GetInside
    <3> DEFINE on == Get(Get(v, k), "on")
    <3>3. IsList(on) => IsSeq(on.items)
      BY <3>1, <3>2, GetInside
    <3> HIDE DEF v
    <3> QED
      BY <3>3, JoinColSeq
  <2> HIDE DEF s, t, S, T, Part, v
  <2>7. Alike(a, b)
    BY <2>2, <2>4, AmongAlike
  <2>8. ToSet(a) \subseteq S
    BY <2>2, AmongElements DEF Distinct
  <2> HIDE DEF a, b
  <2>9. \A k \in ToSet(a) : IsSeq(f[k])
    BY <2>6, <2>8
  <2>10. A = [i \in DOMAIN a |-> f[a[i]]] /\ B = [i \in DOMAIN b |-> f[b[i]]]
    BY <2>7, AlikeElements DEF Each
  <2> HIDE DEF f, A, B
  <2>11. Alike(FlattenSeq(A), FlattenSeq(B))
    BY <2>7, <2>9, <2>10, AlikeParts
  <2> QED
    BY <2>3, <2>11
<1> QED
  BY <1>1, <1>2

(* The OVER clause: the same terms in its ORDER BY, the rest unchanged.    *)
LEMMA OverAlike ==
  ASSUME NEW columns, Distinct(columns), NEW over, NEW dialect,
         LET part == Get(over, "partitionBy") IN IsList(part) => IsSeq(part.items),
         LET sorts == Get(over, "orderBy") IN IsObject(sorts) => KnownKeys(sorts, columns)
  PROVE  Alike(GoOver(columns, over, dialect, TRUE), GoOver(columns, over, dialect, FALSE))
<1> DEFINE part == Get(over, "partitionBy")
           sorts == Get(over, "orderBy")
           start == Get(over, "start")
           end == Get(over, "end")
           frame == Text(Get(over, "frame"))
           Direction(k) == IF Text(Get(sorts, k)) = "" THEN "ASC" ELSE Get(sorts, k).str
           Term(k) == IF Direction(k) \notin Directions THEN Fail
                      ELSE GoWindowColumn(columns, k) \o Sql(Direction(k))
           s == IF IsObject(sorts) THEN GoKeys(sorts, columns, TRUE) ELSE <<>>
           t == IF IsObject(sorts) THEN GoKeys(sorts, columns, FALSE) ELSE <<>>
           Part(c) == GoWindowColumn(columns, Text(c))
           P == IF ~IsList(part) \/ part.items = <<>> THEN Nothing
                ELSE Sql("partition by") \o Join(Each(part.items, Part), ",")
           O(keys) == IF keys = <<>> THEN Nothing ELSE Sql("order by") \o Join(Each(keys, Term), ",")
           F == IF Missing(start) /\ Missing(end) THEN Nothing
                ELSE IF frame \notin {"rows", "range"} THEN Fail
                ELSE IF /\ frame = "range" /\ dialect = "transactsql"
                        /\ (start.is = "number" \/ end.is = "number") THEN Fail
                ELSE Sql(frame) \o GoFrameBound(start, "unbounded preceding", "preceding")
                     \o Sql("and") \o GoFrameBound(end, "unbounded following", "following")
<1>1. /\ GoOver(columns, over, dialect, TRUE) = P \o O(s) \o F
      /\ GoOver(columns, over, dialect, FALSE) = P \o O(t) \o F
  BY DEF GoOver
<1>2. \A k : IsSeq(GoWindowColumn(columns, k))
  BY PieceSeqs DEF GoWindowColumn
<1>3. IsSeq(P)
  <2>1. CASE IsList(part) /\ part.items # <<>>
    <3> DEFINE A == Each(part.items, Part)
    <3>1. A = [i \in DOMAIN part.items |-> A[i]] /\ \A i \in DOMAIN part.items : IsSeq(A[i])
      BY <1>2 DEF Each
    <3>2. IsSeq(part.items)
      BY <2>1
    <3>3. P = Sql("partition by") \o Join(A, ",")
      BY <2>1
    <3> HIDE DEF A, P, part, Part
    <3>4. IsSeq(Join(A, ","))
      BY <3>1, <3>2, JoinSeq
    <3> QED
      BY <3>3, <3>4, PieceSeqs, SeqConcat
  <2>2. CASE ~(IsList(part) /\ part.items # <<>>)
    BY <2>2, PieceSeqs DEF Nothing
  <2> QED
    BY <2>1, <2>2
<1>4. IsSeq(F)
  <2>1. \A x, y, z : IsSeq(GoFrameBound(x, y, z))
    BY PieceSeqs, SeqConcat DEF GoFrameBound, GoNumericBound
  <2> QED
    BY <2>1, PieceSeqs, SeqConcat DEF Nothing
<1> HIDE DEF P, F
<1>5. Alike(O(s), O(t))
  <2>1. CASE ~IsObject(sorts)
    BY <2>1, AlikeSame, PieceSeqs DEF Nothing
  <2>2. CASE IsObject(sorts)
    <3>1. KnownKeys(sorts, columns)
      BY <2>2
    <3>2. Alike(s, t) /\ ToSet(s) = ToSet(t)
      BY <2>2, <3>1, KeysAlike
    <3>3. s = <<>> <=> t = <<>>
      <4> HIDE DEF s, t
      <4> QED
        BY <3>2, RearrangedLen, EmptySequence DEF Alike
    <3>4. CASE s = <<>>
      BY <3>3, <3>4, AlikeSame, PieceSeqs DEF Nothing
    <3>5. CASE s # <<>>
      <4> DEFINE A == Each(s, Term)
                 B == Each(t, Term)
                 f == [k \in ToSet(s) |-> Term(k)]
      <4>1. O(s) = Sql("order by") \o Join(A, ",") /\ O(t) = Sql("order by") \o Join(B, ",")
        BY <3>3, <3>5
      <4>2. \A k : IsSeq(Term(k))
        BY <1>2, PieceSeqs, SeqConcat
      <4> HIDE DEF s, t, Term, O
      <4>3. \A k \in ToSet(s) : IsSeq(f[k])
        BY <4>2
      <4>4. A = [i \in DOMAIN s |-> f[s[i]]] /\ B = [i \in DOMAIN t |-> f[t[i]]]
        BY <3>2, AlikeElements DEF Each
      <4> HIDE DEF f, A, B
      <4>5. Alike(Join(A, ","), Join(B, ","))
        BY <3>2, <4>3, <4>4, AlikeParts
      <4>6. Alike(Sql("order by"), Sql("order by"))
        BY AlikeSame, PieceSeqs
      <4> QED
        BY <4>1, <4>5, <4>6, AlikeConcat
    <3> QED
      BY <3>4, <3>5
  <2> QED
    BY <2>1, <2>2
<1> HIDE DEF O, s, t
<1> QED
  BY <1>1, <1>3, <1>4, <1>5, AlikeConcat, AlikeSame

(* The call of a window function is a sequence of pieces.                  *)
LEMMA WindowCallSeq ==
  ASSUME NEW columns, NEW entry
  PROVE  Text(Get(entry, "fn")) \in WindowFunctions => IsSeq(GoWindowCall(columns, entry))
<1>1. \A k : IsSeq(GoWindowColumn(columns, k))
  BY PieceSeqs DEF GoWindowColumn
<1> DEFINE fn == Text(Get(entry, "fn"))
           col == Text(Get(entry, "col"))
           args == Get(entry, "args")
<1>2. GoWindowCall(columns, entry) \in
        {Sql(fn), Fail, Sql(fn) \o Literal(args), Sql(fn) \o Sql("*"), Sql(fn) \o GoWindowColumn(columns, col),
         Sql(fn) \o GoWindowColumn(columns, col) \o Literal(args),
         Sql(fn) \o GoWindowColumn(columns, col) \o Literal(Num(1))}
  BY DEF GoWindowCall
<1> QED
  BY <1>1, <1>2, PieceSeqs, SeqConcat

(* Two builds of the same elements, each element's parts alike.            *)
LEMMA AlikeEach ==
  ASSUME NEW s, IsSeq(s), NEW A, NEW B, A = [i \in DOMAIN s |-> A[i]], B = [i \in DOMAIN s |-> B[i]],
         \A i \in DOMAIN s : Alike(A[i], B[i])
  PROVE  Alike(FlattenSeq(A), FlattenSeq(B))
<1>1. IsSeq(A) /\ DOMAIN A = DOMAIN s
  BY ONLY IsSeq(s), A = [i \in DOMAIN s |-> A[i]], SeqOver
<1>2. IsSeq(B) /\ DOMAIN B = DOMAIN s
  BY ONLY IsSeq(s), B = [i \in DOMAIN s |-> B[i]], SeqOver
<1>3. \A i \in DOMAIN A : IsSeq(A[i]) /\ IsSeq(B[i]) /\ Rearranged(A[i], B[i])
  BY <1>1 DEF Alike
<1>4. Rearranged(FlattenSeq(A), FlattenSeq(B))
  BY <1>1, <1>2, <1>3, RearrangedEach
<1>5. IsSeq(FlattenSeq(A))
  BY <1>1, <1>3, FlattenFacts
<1>6. IsSeq(FlattenSeq(B))
  BY <1>1, <1>2, <1>3, FlattenFacts
<1> QED
  BY <1>4, <1>5, <1>6 DEF Alike

(* windowBy: the same windows in the same order, the OVER clauses alike.   *)
LEMMA WindowByAlike ==
  ASSUME NEW node, NEW params, NEW dialect, Distinct(node.columns),
         NEW values, WellFormed(values), params \in values, IsObject(params),
         LET v == Get(params, node.param)
         IN IsObject(v) => \A e \in ToSet(v.entries) :
              IsObject(e.value) /\ PortableWindow(e.value, node.columns)
  PROVE  Alike(GoWindowBy(node, params, dialect, TRUE), GoWindowBy(node, params, dialect, FALSE))
<1> DEFINE v == Get(params, node.param)
           columns == node.columns
           Over(e, ordered) == LET over == Get(e.value, "over")
                               IN IF IsObject(over) THEN GoOver(columns, over, dialect, ordered) ELSE Nothing
           Window(e, ordered) ==
             IF Text(Get(e.value, "fn")) \notin WindowFunctions THEN Fail
             ELSE Sql(",") \o GoWindowCall(columns, e.value) \o Sql("over (")
                  \o Over(e, ordered) \o Sql(")") \o As(e.key)
           s == Among(v.entries, {e \in ToSet(v.entries) : IsObject(e.value)})
           A == Each(s, LAMBDA e : Window(e, TRUE))
           B == Each(s, LAMBDA e : Window(e, FALSE))
<1>1. CASE ~IsObject(v)
  BY <1>1, AlikeSame, PieceSeqs DEF GoWindowBy, Nothing
<1>2. CASE IsObject(v)
  <2>1. /\ GoWindowBy(node, params, dialect, TRUE) = FlattenSeq(A)
        /\ GoWindowBy(node, params, dialect, FALSE) = FlattenSeq(B)
    BY <1>2 DEF GoWindowBy, Those
  <2>2. v \in values /\ IsSeq(v.entries)
    BY <1>2, GetInside
  <2>3. IsSeq(s) /\ ToSet(s) \subseteq ToSet(v.entries)
    BY <2>2, AmongSeq
  <2>4. ASSUME NEW e \in ToSet(v.entries) PROVE Alike(Window(e, TRUE), Window(e, FALSE))
    <3> DEFINE over == Get(e.value, "over")
    <3>1. IsObject(e.value) /\ PortableWindow(e.value, columns) /\ e.value \in values
      <4>1. e.value \in values
        BY <1>2, <2>2, ObjectInside DEF ToSet
      <4> QED
        BY <1>2, <4>1
    <3>2. IsObject(over) /\ PortableOver(over, columns) /\ over \in values
      BY <3>1, GetInside DEF PortableWindow
    <3> DEFINE part == Get(over, "partitionBy")
               sorts == Get(over, "orderBy")
    <3>3. IsObject(sorts) => KnownKeys(sorts, columns)
      BY <3>2 DEF PortableOver
    <3>4. IsList(part) => IsSeq(part.items)
      BY <3>2, GetInside
    <3> HIDE DEF over
    <3>5. Alike(GoOver(columns, over, dialect, TRUE), GoOver(columns, over, dialect, FALSE))
      <4> HIDE DEF columns
      <4>1. Distinct(columns)
        BY DEF columns
      <4> QED
        BY <3>3, <3>4, <4>1, OverAlike
    <3>6. Over(e, TRUE) = GoOver(columns, over, dialect, TRUE) /\ Over(e, FALSE) = GoOver(columns, over, dialect, FALSE)
      BY <3>2 DEF over
    <3>7. CASE Text(Get(e.value, "fn")) \in WindowFunctions
      <4>1. Alike(GoWindowCall(columns, e.value), GoWindowCall(columns, e.value))
        BY <3>7, WindowCallSeq, AlikeSame
      <4>2. \A x : Alike(Sql(x), Sql(x)) /\ Alike(As(x), As(x))
        BY PieceSeqs, AlikeSame
      <4>3. Alike(Over(e, TRUE), Over(e, FALSE))
        BY <3>5, <3>6
      <4> HIDE DEF Over, columns
      <4>4. Alike(Sql(",") \o GoWindowCall(columns, e.value) \o Sql("over (")
                    \o Over(e, TRUE) \o Sql(")") \o As(e.key),
                  Sql(",") \o GoWindowCall(columns, e.value) \o Sql("over (")
                    \o Over(e, FALSE) \o Sql(")") \o As(e.key))
        BY <4>1, <4>2, <4>3, AlikeConcat
      <4> QED
        BY <3>7, <4>4
    <3>8. CASE Text(Get(e.value, "fn")) \notin WindowFunctions
      BY <3>8, PieceSeqs, AlikeSame
    <3> QED
      BY <3>7, <3>8
  <2> HIDE DEF s, v, Window
  <2>5. /\ A = [i \in DOMAIN s |-> A[i]] /\ B = [i \in DOMAIN s |-> B[i]]
        /\ \A i \in DOMAIN s : A[i] = Window(s[i], TRUE) /\ B[i] = Window(s[i], FALSE)
    BY DEF Each
  <2>6. \A i \in DOMAIN s : s[i] \in ToSet(v.entries)
    BY <2>3 DEF ToSet
  <2>7. \A i \in DOMAIN s : Alike(A[i], B[i])
    BY <2>4, <2>5, <2>6
  <2> HIDE DEF A, B
  <2>8. Alike(FlattenSeq(A), FlattenSeq(B))
    BY <2>3, <2>5, <2>7, AlikeEach
  <2> QED
    BY <2>1, <2>8
<1> QED
  BY <1>1, <1>2

-----------------------------------------------------------------------------
(* Filters.  What an operator's arguments, a condition and an or-group come *)
(* to are sequences of pieces.                                             *)

(* The elements of flattened parts are elements of a part.                 *)
LEMMA FlattenElements ==
  ASSUME NEW parts, IsSeq(parts), \A i \in DOMAIN parts : IsSeq(parts[i]),
         \A i \in DOMAIN parts : \A j \in DOMAIN parts[i] : IsSeq(parts[i][j])
  PROVE  IsSeq(FlattenSeq(parts)) /\ \A k \in DOMAIN FlattenSeq(parts) : IsSeq(FlattenSeq(parts)[k])
<1>1. IsSeq(FlattenSeq(parts))
  BY FlattenFacts
<1>2. PICK g : /\ OneToOne(g, Places(parts), DOMAIN FlattenSeq(parts))
               /\ \A ij \in Places(parts) : FlattenSeq(parts)[g[ij]] = parts[ij[1]][ij[2]]
  BY FlattenFacts
<1>3. SUFFICES ASSUME NEW k \in DOMAIN FlattenSeq(parts) PROVE IsSeq(FlattenSeq(parts)[k])
  BY <1>1
<1>4. PICK ij \in Places(parts) : g[ij] = k
  BY <1>2 DEF OneToOne
<1>5. ij[1] \in DOMAIN parts /\ ij[2] \in DOMAIN parts[ij[1]]
  BY <1>4, PlacesFacts
<1> QED
  BY <1>2, <1>4, <1>5

(* What an entry of a condition comes to is a sequence of pieces, whatever *)
(* its value.                                                              *)
LEMMA EntrySeq ==
  ASSUME NEW values, WellFormed(values), NEW col, NEW value \in values \cup {Absent}
  PROVE  IsSeq(GoEntry(col, value))
<1> DEFINE tuple == IsList(value) /\ value.items # <<>> /\ value.items[1].is = "string"
           args == Tail(value.items)
           op == value.items[1].str
           list == IF 1 \in DOMAIN args /\ IsList(args[1]) THEN args[1].items ELSE args
<1>1. CASE ~tuple
  <2>1. GoEntry(col, value) = Col(col) \o Sql("=") \o Bind(value)
    BY <1>1 DEF GoEntry
  <2> QED
    BY <2>1, PieceSeqs, SeqConcat
<1>2. CASE tuple
  <2>1. value \in values /\ IsList(value)
    BY <1>2 DEF IsList, Absent
  <2>2. value.items \in Seq(values) /\ value.items # <<>>
    BY <1>2, <2>1 DEF WellFormed
  <2>3. args \in Seq(values)
    <3> HIDE DEF tuple
    <3> QED
      BY <2>2
  <2>4. IsSeq(args) /\ \A i \in DOMAIN args : args[i] \in values
    <3> HIDE DEF args
    <3> QED
      BY <2>3, SeqElements
  <2>5. IsSeq(list)
    <3> HIDE DEF args, tuple
    <3>1. CASE 1 \in DOMAIN args /\ IsList(args[1])
      <4>1. args[1] \in values
        BY <2>4, <3>1
      <4> QED
        BY <3>1, <4>1, ListInside
    <3>2. CASE ~(1 \in DOMAIN args /\ IsList(args[1]))
      BY <2>4, <3>2
    <3> QED
      BY <3>1, <3>2
  <2>6. IsSeq(Binds(list)) /\ \A i : IsSeq(GoArg(args, i))
    <3> HIDE DEF list, args
    <3> QED
      BY <2>5, ListsSeq, PieceSeqs DEF GoArg
  <2>7. GoOp(col, op, args) \in
          {Col(col) \o Sql("<>") \o GoArg(args, 1),
           Col(col) \o Sql("between") \o GoArg(args, 1) \o Sql("to") \o GoArg(args, 2),
           Sql("1=0"), Col(col) \o Sql("in") \o Binds(list) \o Sql("end"),
           Nothing, Col(col) \o Sql("not in") \o Binds(list) \o Sql("end"),
           Col(col) \o Sql("is null"), Col(col) \o Sql("is not null"),
           Col(col) \o Sql(op) \o GoArg(args, 1)}
    BY DEF GoOp
  <2>8. IsSeq(GoOp(col, op, args))
    <3> HIDE DEF list, args, op, tuple
    <3>1. \A x : IsSeq(Col(col)) /\ IsSeq(Sql(x)) /\ IsSeq(Nothing)
      BY PieceSeqs DEF Nothing
    <3> QED
      BY <2>6, <2>7, <3>1, SeqConcat
  <2>9. GoEntry(col, value) \in {Fail, GoOp(col, op, args)}
    BY <1>2 DEF GoEntry
  <2> QED
    BY <2>8, <2>9, PieceSeqs
<1> QED
  BY <1>1, <1>2

(* So are a list's parts, if what its or-groups come to is.                *)
LEMMA PartsSeq ==
  ASSUME NEW values, WellFormed(values), NEW columns, Distinct(columns),
         NEW conditions, IsSeq(conditions),
         \A c \in ToSet(conditions) : IsObject(c) => \A k : Get(c, k) \in values \cup {Absent},
         NEW group, \A g \in OrGroups(conditions) : IsSeq(group[g])
  PROVE  LET parts == GoParts(columns, conditions, group)
         IN IsSeq(parts) /\ \A i \in DOMAIN parts : IsSeq(parts[i])
<1> DEFINE Present(c) == Those(columns, LAMBDA k : ~Missing(Get(c, k)))
           Shown(c) == Each(Present(c), LAMBDA k : GoEntry(k, Get(c, k)))
           Group(c) == << Sql("(") \o group[Get(c, "or").items] \o Sql(")") >>
           Parts(c) ==
             IF ~Has(c, "or") THEN Shown(c)
             ELSE IF ~IsList(Get(c, "or")) THEN <<>>
             ELSE IF Objects(Get(c, "or").items) = <<>> THEN <<>>
             ELSE Group(c)
           kept == Objects(conditions)
           all == Each(kept, Parts)
<1>1. GoParts(columns, conditions, group) = FlattenSeq(all)
  BY DEF GoParts
<1>2. IsSeq(kept) /\ \A c \in ToSet(kept) : IsObject(c) /\ c \in ToSet(conditions)
  BY AmongSeq DEF Objects, Those
<1>3. ASSUME NEW c \in ToSet(kept)
      PROVE  IsSeq(Parts(c)) /\ \A j \in DOMAIN Parts(c) : IsSeq(Parts(c)[j])
  <2>1. IsObject(c) /\ c \in ToSet(conditions) /\ \A k : Get(c, k) \in values \cup {Absent}
    BY <1>2
  <2>2. IsSeq(Shown(c)) /\ \A j \in DOMAIN Shown(c) : IsSeq(Shown(c)[j])
    <3>1. IsSeq(Present(c))
      BY AmongSeq DEF Those, Distinct, IsSeq
    <3>2. \A k : IsSeq(GoEntry(k, Get(c, k)))
      BY <2>1, EntrySeq
    <3> HIDE DEF Present
    <3>3. /\ Shown(c) = [i \in DOMAIN Present(c) |-> Shown(c)[i]]
          /\ \A i \in DOMAIN Present(c) : IsSeq(Shown(c)[i])
      BY <3>2 DEF Each
    <3> HIDE DEF Shown
    <3> QED
      BY <3>1, <3>3, SeqOver
  <2>3. CASE IsList(Get(c, "or"))
    <3>1. Get(c, "or").items \in OrGroups(conditions)
      BY <2>1, <2>3 DEF OrGroups
    <3>2. IsSeq(group[Get(c, "or").items])
      BY <3>1
    <3>3. IsSeq(Sql("(") \o group[Get(c, "or").items] \o Sql(")"))
      BY <3>2, PieceSeqs, SeqConcat
    <3>4. IsSeq(Group(c)) /\ \A j \in DOMAIN Group(c) : IsSeq(Group(c)[j])
      <4> DEFINE text == Sql("(") \o group[Get(c, "or").items] \o Sql(")")
      <4>1. IsSeq(text) /\ Group(c) = << text >>
        BY <3>3
      <4> HIDE DEF text, Group
      <4>2. IsSeq(<< text >>) /\ DOMAIN << text >> = {1} /\ << text >>[1] = text
        BY PieceSeqs
      <4> QED
        BY <4>1, <4>2
    <3> HIDE DEF Shown, Group
    <3> QED
      BY <2>2, <3>4, PieceSeqs
  <2>4. CASE ~IsList(Get(c, "or"))
    <3> HIDE DEF Shown
    <3> QED
      BY <2>2, <2>4, PieceSeqs
  <2> QED
    BY <2>3, <2>4
<1> HIDE DEF kept, Parts
<1>4. all = [i \in DOMAIN kept |-> all[i]] /\ \A i \in DOMAIN kept : all[i] = Parts(kept[i]) /\ kept[i] \in ToSet(kept)
  BY DEF Each, ToSet
<1> HIDE DEF all
<1>5. IsSeq(all) /\ DOMAIN all = DOMAIN kept
  BY <1>2, <1>4, SeqOver
<1>6. \A i \in DOMAIN all : IsSeq(all[i]) /\ \A j \in DOMAIN all[i] : IsSeq(all[i][j])
  BY <1>3, <1>4, <1>5
<1>7. IsSeq(FlattenSeq(all)) /\ \A k \in DOMAIN FlattenSeq(all) : IsSeq(FlattenSeq(all)[k])
  BY <1>5, <1>6, FlattenElements
<1> QED
  BY <1>1, <1>7

(* The levels of nested or-groups, unfolded.                               *)
LEMMA LevelFunction ==
  ASSUME NEW conditions
  PROVE  LET level == OrLevels(conditions)
         IN /\ level[0] = OrGroups(conditions)
            /\ \A n \in 1..MaxNesting : level[n] = UNION {OrGroups(g) : g \in level[n - 1]}
<1> DEFINE Body(f, n) == IF n = 0 THEN OrGroups(conditions) ELSE UNION {OrGroups(g) : g \in f[n - 1]}
           Good(f, k) == DOMAIN f = 0..MaxNesting /\ \A n \in 0..k : f[n] = Body(f, n)
           bad == {k \in 0..MaxNesting : ~\E f : Good(f, k)}
<1>1. MaxNesting \in Nat
  BY MaxNestingAssumption
<1>2. bad = {}
  <2> SUFFICES ASSUME bad # {} PROVE FALSE
    OBVIOUS
  <2>1. PICK k \in bad : \A j \in bad : k <= j
    <3>1. bad \in SUBSET Nat
      BY <1>1
    <3> HIDE DEF bad
    <3> QED
      BY <3>1, SmallestNat
  <2>2. k \in 0..MaxNesting /\ ~\E f : Good(f, k)
    OBVIOUS
  <2>3. k # 0
    <3>1. Good([n \in 0..MaxNesting |-> OrGroups(conditions)], 0)
      BY <1>1
    <3> QED
      BY <2>2, <3>1
  <2>4. k - 1 \in 0..MaxNesting /\ ~(k <= k - 1) /\ k \in 0..MaxNesting
    BY <1>1, <2>2, <2>3
  <2>5. PICK f : Good(f, k - 1)
    BY <2>1, <2>4
  <2> DEFINE h == [n \in 0..MaxNesting |-> IF n = k THEN Body(f, k) ELSE f[n]]
  <2>6. ASSUME NEW n \in 0..k PROVE h[n] = Body(h, n)
    <3>1. n \in 0..MaxNesting /\ (n # k => n \in 0..(k - 1)) /\ k - 1 # k
      BY <1>1, <2>4
    <3>2. n # 0 => n - 1 \in 0..MaxNesting /\ n - 1 # k /\ h[n - 1] = f[n - 1]
      BY <1>1, <2>4
    <3>3. h[n] = Body(f, n)
      BY <2>5, <3>1
    <3>4. Body(f, n) = Body(h, n)
      <4> HIDE DEF h
      <4> QED
        BY <3>2
    <3> QED
      BY <3>3, <3>4
  <2>7. Good(h, k)
    <3>1. DOMAIN h = 0..MaxNesting
      OBVIOUS
    <3> HIDE DEF h, Body
    <3> QED
      BY <2>6, <3>1
  <2> QED
    BY <2>2, <2>7
<1>3. PICK f : Good(f, MaxNesting)
  <2>1. MaxNesting \in 0..MaxNesting
    BY <1>1
  <2> HIDE DEF Good
  <2> QED
    BY <1>2, <2>1
<1> DEFINE h == [n \in 0..MaxNesting |-> f[n]]
<1>4. \A n \in 0..MaxNesting : h[n] = Body(h, n)
  <2>1. \A n \in 0..MaxNesting : n # 0 => n - 1 \in 0..MaxNesting
    BY <1>1
  <2>2. ASSUME NEW n \in 0..MaxNesting PROVE h[n] = Body(h, n)
    <3>1. h[n] = Body(f, n)
      BY <1>3
    <3>2. n # 0 => h[n - 1] = f[n - 1]
      BY <2>1
    <3> HIDE DEF h
    <3>3. Body(f, n) = Body(h, n)
      BY <3>2
    <3> QED
      BY <3>1, <3>3
  <2> QED
    BY <2>2
<1>5. h = [n \in 0..MaxNesting |-> Body(h, n)]
  BY <1>4
<1>6. \E x : x = [n \in 0..MaxNesting |-> Body(x, n)]
  <2> HIDE DEF h, Body
  <2> QED
    BY <1>5
<1>7. OrLevels(conditions) = CHOOSE x : x = [n \in 0..MaxNesting |-> Body(x, n)]
  BY DEF OrLevels
<1> DEFINE level == OrLevels(conditions)
<1>8. level = [n \in 0..MaxNesting |-> Body(level, n)]
  <2> HIDE DEF Body
  <2> QED
    BY <1>6, <1>7
<1> HIDE DEF level
<1>9. 0 \in 0..MaxNesting /\ \A n \in 1..MaxNesting : n \in 0..MaxNesting /\ n # 0
  BY <1>1
<1>10. \A n \in 0..MaxNesting : level[n] = Body(level, n)
  <2> HIDE DEF Body
  <2> QED
    BY <1>8
<1>11. level[0] = OrGroups(conditions) /\ \A n \in 1..MaxNesting : level[n] = UNION {OrGroups(g) : g \in level[n - 1]}
  BY <1>9, <1>10
<1> QED
  BY <1>11 DEF level

(* The or-groups of values are lists of values,                            *)
LEMMA OrGroupsInside ==
  ASSUME NEW values, WellFormed(values), NEW conditions, ToSet(conditions) \subseteq values,
         NEW g \in OrGroups(conditions)
  PROVE  IsSeq(g) /\ ToSet(g) \subseteq values
<1>1. PICK c \in ToSet(conditions) : IsObject(c) /\ IsList(Get(c, "or")) /\ g = Get(c, "or").items
  BY DEF OrGroups
<1>2. c \in values
  BY <1>1
<1>3. IsSeq(g) /\ \A i \in DOMAIN g : g[i] \in values
  BY <1>1, <1>2, GetInside
<1> QED
  BY <1>3 DEF ToSet

(* at every level.                                                         *)
LEMMA LevelsInside ==
  ASSUME NEW values, WellFormed(values), NEW conditions, ToSet(conditions) \subseteq values
  PROVE  \A n \in 0..MaxNesting : \A g \in OrLevels(conditions)[n] : IsSeq(g) /\ ToSet(g) \subseteq values
<1> DEFINE level == OrLevels(conditions)
           Inside_(n) == \A g \in level[n] : IsSeq(g) /\ ToSet(g) \subseteq values
           bad == {n \in 0..MaxNesting : ~Inside_(n)}
<1>1. SUFFICES ASSUME bad # {} PROVE FALSE
  OBVIOUS
<1>2. MaxNesting \in Nat
  BY MaxNestingAssumption
<1>3. PICK n \in bad : \A j \in bad : n <= j
  <2>1. bad \in SUBSET Nat
    BY <1>2
  <2> HIDE DEF bad
  <2> QED
    BY <1>1, <2>1, SmallestNat
<1>4. n \in 0..MaxNesting /\ ~Inside_(n)
  OBVIOUS
<1>5. CASE n = 0
  <2>1. level[0] = OrGroups(conditions)
    BY LevelFunction
  <2> HIDE DEF level
  <2>2. Inside_(0)
    BY <2>1, OrGroupsInside
  <2> QED
    BY <1>4, <1>5, <2>2
<1>6. CASE n # 0
  <2>1. n \in 1..MaxNesting /\ n - 1 \in 0..MaxNesting /\ ~(n <= n - 1)
    BY <1>2, <1>4, <1>6
  <2>2. level[n] = UNION {OrGroups(g) : g \in level[n - 1]}
    BY <2>1, LevelFunction
  <2>3. Inside_(n - 1)
    BY <1>3, <2>1
  <2> HIDE DEF level
  <2>4. ASSUME NEW g \in level[n] PROVE IsSeq(g) /\ ToSet(g) \subseteq values
    <3>1. PICK d \in level[n - 1] : g \in OrGroups(d)
      BY <2>2
    <3> QED
      BY <2>3, <3>1, OrGroupsInside
  <2> QED
    BY <1>4, <2>4
<1> QED
  BY <1>5, <1>6

(* A list's parts depend on what its own or-groups come to, and on no      *)
(* others.                                                                 *)
LEMMA PartsLocal ==
  ASSUME NEW columns, NEW conditions, IsSeq(conditions), NEW f, NEW h,
         \A g \in OrGroups(conditions) : f[g] = h[g]
  PROVE  GoParts(columns, conditions, f) = GoParts(columns, conditions, h)
<1> DEFINE Present(c) == Those(columns, LAMBDA k : ~Missing(Get(c, k)))
           Parts(c, group) ==
             IF ~Has(c, "or") THEN Each(Present(c), LAMBDA k : GoEntry(k, Get(c, k)))
             ELSE IF ~IsList(Get(c, "or")) THEN <<>>
             ELSE IF Objects(Get(c, "or").items) = <<>> THEN <<>>
             ELSE << Sql("(") \o group[Get(c, "or").items] \o Sql(")") >>
           kept == Objects(conditions)
<1>1. \A group : GoParts(columns, conditions, group) = FlattenSeq(Each(kept, LAMBDA c : Parts(c, group)))
  BY DEF GoParts
<1>2. \A c \in ToSet(kept) : IsObject(c) /\ c \in ToSet(conditions)
  BY AmongSeq DEF Objects, Those
<1>3. ASSUME NEW c \in ToSet(kept) PROVE Parts(c, f) = Parts(c, h)
  <2>1. CASE IsList(Get(c, "or"))
    <3>1. Get(c, "or").items \in OrGroups(conditions)
      BY <1>2, <2>1 DEF OrGroups
    <3>2. f[Get(c, "or").items] = h[Get(c, "or").items]
      BY <3>1
    <3> QED
      BY <3>2
  <2>2. CASE ~IsList(Get(c, "or"))
    BY <2>2
  <2> QED
    BY <2>1, <2>2
<1> HIDE DEF kept, Parts
<1>4. \A i \in DOMAIN kept : kept[i] \in ToSet(kept)
  BY DEF ToSet
<1>5. Each(kept, LAMBDA c : Parts(c, f)) = Each(kept, LAMBDA c : Parts(c, h))
  BY <1>3, <1>4 DEF Each
<1> QED
  BY <1>1, <1>5

(* What the or-groups come to is defined, from the deepest on, and a       *)
(* sequence of pieces: the groups nest at most MaxNesting deep.            *)
LEMMA GroupTexts ==
  ASSUME NEW values, WellFormed(values), NEW columns, Distinct(columns),
         NEW conditions, ToSet(conditions) \subseteq values, OrLevels(conditions)[MaxNesting] = {}
  PROVE  LET group[g \in Nested(conditions)] == Join(GoParts(columns, g, group), "or")
         IN \A g \in Nested(conditions) : IsSeq(group[g])
<1> DEFINE M == MaxNesting
           N == Nested(conditions)
           level == OrLevels(conditions)
           Deep(n) == UNION {level[m] : m \in n..M}
           Body(f, g) == Join(GoParts(columns, g, f), "or")
           Good(f, n) == DOMAIN f = N /\ \A g \in Deep(n) : f[g] = Body(f, g)
           group == CHOOSE f : f = [g \in N |-> Body(f, g)]
<1>1. M \in Nat
  BY MaxNestingAssumption
<1>2. Deep(0) = N
  BY DEF Nested
<1>3. ASSUME NEW n \in 0..M PROVE Deep(n + 1) \subseteq Deep(n) /\ Deep(n) \subseteq N
  <2>1. (n + 1)..M \subseteq n..M /\ n..M \subseteq 0..M
    BY <1>1
  <2> HIDE DEF level, N, M
  <2> QED
    BY <1>2, <2>1
<1>4. ASSUME NEW n \in 0..M, NEW g \in Deep(n)
      PROVE  IsSeq(g) /\ ToSet(g) \subseteq values /\ OrGroups(g) \subseteq Deep(n + 1)
  <2>1. PICK m \in n..M : g \in level[m]
    OBVIOUS
  <2>2. m \in 0..M /\ level[M] = {}
    BY <1>1, <2>1
  <2>3. IsSeq(g) /\ ToSet(g) \subseteq values
    BY <2>1, <2>2, LevelsInside
  <2>4. m # M
    BY <2>1, <2>2
  <2>5. m + 1 \in 1..M /\ m + 1 \in (n + 1)..M /\ (m + 1) - 1 = m
    BY <1>1, <2>1, <2>4
  <2>6. level[m + 1] = UNION {OrGroups(d) : d \in level[m]}
    BY <2>5, LevelFunction
  <2> HIDE DEF level, M
  <2> QED
    BY <2>1, <2>3, <2>5, <2>6
<1>5. Deep(M + 1) = {}
  <2>1. (M + 1)..M = {}
    BY <1>1
  <2> QED
    BY <2>1
<1> HIDE DEF level, N, M, Deep, Body
(* The function exists: down from the deepest groups.                      *)
<1>6. \E f : Good(f, 0)
  <2> DEFINE bad == {d \in 0..(M + 1) : ~\E f : Good(f, M + 1 - d)}
  <2>1. CASE bad = {}
    <3>1. M + 1 \in 0..(M + 1) /\ M + 1 - (M + 1) = 0
      BY <1>1
    <3> HIDE DEF Good
    <3> QED
      BY <2>1, <3>1
  <2>2. CASE bad # {}
    <3>1. PICK d \in bad : \A j \in bad : d <= j
      <4>1. bad \in SUBSET Nat
        BY <1>1
      <4> HIDE DEF bad
      <4> QED
        BY <2>2, <4>1, SmallestNat
    <3>2. d \in 0..(M + 1) /\ ~\E f : Good(f, M + 1 - d)
      BY <3>1
    <3>3. d # 0
      <4>1. Good([g \in N |-> 0], M + 1)
        BY <1>5
      <4>2. M + 1 - 0 = M + 1
        BY <1>1
      <4> HIDE DEF Good
      <4> QED
        BY <3>2, <4>1, <4>2
    <3> DEFINE n == M + 1 - d
    <3>4. d - 1 \in 0..(M + 1) /\ ~(d <= d - 1) /\ n \in 0..M /\ M + 1 - (d - 1) = n + 1
      BY <1>1, <3>2, <3>3
    <3>5. PICK f : Good(f, n + 1)
      <4>1. d - 1 \notin bad
        BY <3>1, <3>4
      <4>2. \E f : Good(f, M + 1 - (d - 1))
        BY <3>4, <4>1
      <4> HIDE DEF Good, n
      <4> QED
        BY <3>4, <4>2
    <3> DEFINE h == [g \in N |-> IF g \in Deep(n + 1) THEN f[g] ELSE Body(f, g)]
    <3> HIDE DEF n
    <3>6. ASSUME NEW g \in Deep(n) PROVE h[g] = Body(h, g)
      <4>1. g \in N /\ IsSeq(g) /\ OrGroups(g) \subseteq Deep(n + 1) /\ Deep(n + 1) \subseteq N
        BY <1>3, <1>4, <3>4
      <4>2. h[g] = Body(f, g)
        BY <3>5, <4>1
      <4>3. \A x \in OrGroups(g) : f[x] = h[x]
        BY <4>1
      <4> HIDE DEF h
      <4>4. Body(f, g) = Body(h, g)
        BY <4>1, <4>3, PartsLocal DEF Body
      <4> QED
        BY <4>2, <4>4
    <3>7. DOMAIN h = N
      OBVIOUS
    <3>8. Good(h, n)
      <4> HIDE DEF h
      <4> QED
        BY <3>6, <3>7
    <3> QED
      <4> HIDE DEF Good
      <4> QED
        BY <3>2, <3>8 DEF n
  <2> QED
    BY <2>1, <2>2
<1>7. \E f : f = [g \in N |-> Body(f, g)]
  <2>1. PICK f : Good(f, 0)
    BY <1>6
  <2> DEFINE h == [g \in N |-> f[g]]
  <2>2. ASSUME NEW g \in N PROVE h[g] = Body(h, g)
    <3>0. 0 \in 0..M /\ 0 + 1 \in Nat
      BY <1>1
    <3>1. IsSeq(g) /\ OrGroups(g) \subseteq Deep(0 + 1) /\ Deep(0 + 1) \subseteq Deep(0)
      BY <1>2, <1>3, <1>4, <3>0
    <3>2. \A x \in OrGroups(g) : f[x] = h[x]
      BY <1>2, <3>1
    <3>3. h[g] = Body(f, g)
      BY <1>2, <2>1
    <3> HIDE DEF h
    <3>4. Body(f, g) = Body(h, g)
      BY <3>1, <3>2, PartsLocal DEF Body
    <3> QED
      BY <3>3, <3>4
  <2>3. h = [g \in N |-> Body(h, g)]
    BY <2>2
  <2> HIDE DEF h
  <2> QED
    BY <2>3
<1>8. group = [g \in N |-> Body(group, g)]
  BY <1>7
<1> HIDE DEF group, Good
<1>9. \A g \in N : group[g] = Body(group, g)
  BY <1>8
<1>10. \A g \in N : IsSeq(group[g])
  <2> DEFINE bad == {d \in 0..(M + 1) : \E g \in Deep(M + 1 - d) : ~IsSeq(group[g])}
  <2>1. CASE bad = {}
    <3>1. M + 1 \in 0..(M + 1) /\ M + 1 - (M + 1) = 0
      BY <1>1
    <3>2. ~\E g \in Deep(M + 1 - (M + 1)) : ~IsSeq(group[g])
      BY <2>1, <3>1
    <3> QED
      BY <1>2, <3>1, <3>2
  <2>2. CASE bad # {}
    <3>1. PICK d \in bad : \A j \in bad : d <= j
      <4>1. bad \in SUBSET Nat
        BY <1>1
      <4> HIDE DEF bad
      <4> QED
        BY <2>2, <4>1, SmallestNat
    <3>2. d \in 0..(M + 1)
      BY <3>1
    <3>3. PICK g \in Deep(M + 1 - d) : ~IsSeq(group[g])
      BY <3>1
    <3>4. d # 0
      <4>1. M + 1 - 0 = M + 1
        BY <1>1
      <4> QED
        BY <1>5, <3>3, <4>1
    <3> DEFINE n == M + 1 - d
    <3>5. d - 1 \in 0..(M + 1) /\ ~(d <= d - 1) /\ n \in 0..M /\ M + 1 - (d - 1) = n + 1
      BY <1>1, <3>2, <3>4
    <3>6. \A x \in Deep(n + 1) : IsSeq(group[x])
      <4>1. d - 1 \notin bad
        BY <3>1, <3>5
      <4>2. ~\E x \in Deep(M + 1 - (d - 1)) : ~IsSeq(group[x])
        BY <3>5, <4>1
      <4> QED
        BY <3>5, <4>2
    <3>7. g \in Deep(n)
      BY <3>3
    <3> HIDE DEF n
    <3>8. g \in N /\ IsSeq(g) /\ ToSet(g) \subseteq values /\ OrGroups(g) \subseteq Deep(n + 1)
      BY <1>3, <1>4, <3>5, <3>7
    <3> DEFINE parts == GoParts(columns, g, group)
    <3>9. IsSeq(parts) /\ \A i \in DOMAIN parts : IsSeq(parts[i])
      <4>1. \A c \in ToSet(g) : IsObject(c) => \A k : Get(c, k) \in values \cup {Absent}
        BY <3>8, GetInside
      <4>2. \A x \in OrGroups(g) : IsSeq(group[x])
        BY <3>6, <3>8
      <4> QED
        BY <3>8, <4>1, <4>2, PartsSeq
    <3>10. group[g] = Join(parts, "or")
      BY <1>9, <3>8 DEF Body
    <3> HIDE DEF parts
    <3>11. IsSeq(Join(parts, "or"))
      BY <3>9, JoinForm
    <3> QED
      BY <3>3, <3>10, <3>11
  <2> QED
    BY <2>1, <2>2
<1> QED
  BY <1>10 DEF group, N, Body

(* So are the conditions of a list.                                        *)
LEMMA ConditionsSeq ==
  ASSUME NEW values, WellFormed(values), NEW columns, Distinct(columns),
         NEW items, IsSeq(items), ToSet(items) \subseteq values, OrLevels(items)[MaxNesting] = {}
  PROVE  IsSeq(GoConditions(columns, Objects(items)))
<1> DEFINE conditions == Objects(items)
           N == Nested(conditions)
           group == CHOOSE f : f = [g \in N |-> Join(GoParts(columns, g, f), "or")]
           parts == GoParts(columns, conditions, group)
<1>1. IsSeq(conditions) /\ ToSet(conditions) = {c \in ToSet(items) : IsObject(c)}
  BY AmongSeq DEF Objects, Those
<1>2. OrGroups(conditions) = OrGroups(items)
  <2> HIDE DEF conditions
  <2> QED
    BY <1>1 DEF OrGroups
<1>3. OrLevels(conditions)[MaxNesting] = {}
  <2> HIDE DEF conditions
  <2>1. OrLevels(conditions) = OrLevels(items)
    BY <1>2 DEF OrLevels
  <2> QED
    BY <2>1
<1>4. GoConditions(columns, conditions) = Join(parts, "and")
  BY DEF GoConditions
<1>5. ToSet(conditions) \subseteq values
  <2> HIDE DEF conditions
  <2> QED
    BY <1>1
<1> HIDE DEF conditions
<1>6. \A g \in N : IsSeq(group[g])
  BY <1>3, <1>5, GroupTexts
<1>7. OrGroups(conditions) \subseteq N
  <2>1. 0 \in 0..MaxNesting
    BY MaxNestingAssumption
  <2>2. OrLevels(conditions)[0] = OrGroups(conditions)
    BY LevelFunction
  <2> QED
    BY <2>1, <2>2 DEF Nested
<1> HIDE DEF N, group
<1>8. \A c \in ToSet(conditions) : IsObject(c) => \A k : Get(c, k) \in values \cup {Absent}
  BY <1>5, GetInside
<1>9. IsSeq(parts) /\ \A i \in DOMAIN parts : IsSeq(parts[i])
  BY <1>1, <1>6, <1>7, <1>8, PartsSeq
<1> HIDE DEF parts
<1>10. IsSeq(Join(parts, "and"))
  BY <1>9, JoinForm
<1> QED
  BY <1>4, <1>10 DEF conditions

(* What the condition on one key of an object comes to.                    *)
ShownKey(columns, v, k) ==
  Each(Those(columns, LAMBDA l : ~Missing(Get(Obj1(k, Get(v, k)), l))),
       LAMBDA l : GoEntry(l, Get(Obj1(k, Get(v, k)), l)))

(* One condition for each key of an object, in the order the keys come.    *)
LEMMA KeyedParts ==
  ASSUME NEW values, WellFormed(values), NEW columns, Distinct(columns), NEW v,
         \A k : Get(v, k) \in values \cup {Absent},
         NEW s, IsSeq(s), "or" \notin ToSet(s), NEW group,
         NEW A, A = [i \in DOMAIN s |-> Obj1(s[i], Get(v, s[i]))]
  PROVE  LET parts == GoParts(columns, A, group)
         IN /\ parts = FlattenSeq([i \in DOMAIN s |-> ShownKey(columns, v, s[i])])
            /\ \A k : IsSeq(ShownKey(columns, v, k))
            /\ IsSeq(parts) /\ \A i \in DOMAIN parts : IsSeq(parts[i])
<1> DEFINE One(k) == Obj1(k, Get(v, k))
           Present(c) == Those(columns, LAMBDA l : ~Missing(Get(c, l)))
           Shown(k) == Each(Present(One(k)), LAMBDA l : GoEntry(l, Get(One(k), l)))
           Parts(c) ==
             IF ~Has(c, "or") THEN Each(Present(c), LAMBDA l : GoEntry(l, Get(c, l)))
             ELSE IF ~IsList(Get(c, "or")) THEN <<>>
             ELSE IF Objects(Get(c, "or").items) = <<>> THEN <<>>
             ELSE << Sql("(") \o group[Get(c, "or").items] \o Sql(")") >>
           parts == GoParts(columns, A, group)
<1>1. \A i \in DOMAIN s : s[i] \in ToSet(s) /\ A[i] = One(s[i])
  BY DEF ToSet
<1>2. A = [i \in DOMAIN s |-> A[i]]
  OBVIOUS
<1>3. \A k : IsObject(One(k)) /\ (\A l : Get(One(k), l) \in values \cup {Absent}) /\ (k # "or" => ~Has(One(k), "or"))
  <2>1. ASSUME NEW k PROVE IsObject(One(k))
    BY DEF Obj1, Object, IsObject
  <2>2. ASSUME NEW k, NEW l PROVE Get(One(k), l) \in {Get(v, k), Absent}
    <3> DEFINE x == Get(v, k)
               c == Obj1(k, x)
    <3> HIDE DEF x
    <3>1. Has(c, l) => Get(c, l) = x
      BY Obj1Facts
    <3> HIDE DEF c
    <3>2. ~Has(c, l) => Get(c, l) = Absent
      BY DEF Get
    <3>3. Get(c, l) \in {x, Absent}
      BY <3>1, <3>2
    <3> QED
      BY <3>3 DEF c, x
  <2>3. ASSUME NEW k, k # "or" PROVE ~Has(One(k), "or")
    <3> DEFINE x == Get(v, k)
               c == Obj1(k, x)
    <3> HIDE DEF x
    <3>1. DOMAIN c.entries = {1} /\ c.entries[1].key = k
      BY Obj1Facts
    <3> HIDE DEF c
    <3>2. ~Has(c, "or")
      BY <2>3, <3>1 DEF Has
    <3> QED
      BY <3>2 DEF c, x
  <2> HIDE DEF One
  <2> QED
    BY <2>1, <2>2, <2>3
<1>4. IsSeq(A) /\ DOMAIN A = DOMAIN s
  BY ONLY IsSeq(s), <1>2, SeqOver
<1>5. Objects(A) = A
  <2> DEFINE S == {x \in ToSet(A) : IsObject(x)}
  <2>1. \A i \in DOMAIN A : A[i] \in S
    BY <1>1, <1>3, <1>4 DEF ToSet
  <2> HIDE DEF S
  <2>2. Among(A, S) = A
    BY <2>1, AmongAll
  <2> QED
    BY <2>2 DEF Objects, Those, S
<1>6. parts = FlattenSeq(Each(A, Parts))
  BY <1>5 DEF GoParts
<1>7. \A k \in ToSet(s) : Parts(One(k)) = Shown(k)
  BY <1>3
<1>8. Each(A, Parts) = Each(s, Shown)
  <2> HIDE DEF Parts, Shown, One
  <2> QED
    BY <1>1, <1>4, <1>7 DEF Each
<1>9. \A k : IsSeq(Shown(k))
  <2> SUFFICES ASSUME NEW k PROVE IsSeq(Shown(k))
    OBVIOUS
  <2>1. IsSeq(Present(One(k)))
    BY AmongSeq DEF Those, Distinct, IsSeq
  <2> HIDE DEF Present, One
  <2>2. Shown(k) = [i \in DOMAIN Present(One(k)) |-> Shown(k)[i]]
    BY DEF Each
  <2> HIDE DEF Shown
  <2> QED
    BY <2>1, <2>2, SeqOver
<1>10. OrGroups(A) = {}
  <2>1. ASSUME NEW c \in ToSet(A) PROVE ~IsList(Get(c, "or"))
    <3>1. PICK i \in DOMAIN A : c = A[i]
      BY DEF ToSet
    <3>2. ~Has(c, "or")
      BY <1>1, <1>3, <1>4, <3>1
    <3> QED
      BY <3>2 DEF Get, IsList, Absent
  <2> QED
    BY <2>1 DEF OrGroups
<1>11. \A c \in ToSet(A) : IsObject(c) => \A l : Get(c, l) \in values \cup {Absent}
  BY <1>1, <1>3, <1>4 DEF ToSet
<1>12. IsSeq(parts) /\ \A i \in DOMAIN parts : IsSeq(parts[i])
  BY <1>4, <1>10, <1>11, PartsSeq
<1>13. \A k : Shown(k) = ShownKey(columns, v, k)
  BY DEF ShownKey
<1>14. parts = FlattenSeq([i \in DOMAIN s |-> ShownKey(columns, v, s[i])])
  <2> HIDE DEF Shown, parts
  <2> QED
    BY <1>6, <1>8, <1>13 DEF Each
<1>15. \A k : IsSeq(ShownKey(columns, v, k))
  <2> HIDE DEF Shown
  <2> QED
    BY <1>9, <1>13
<1> QED
  BY <1>12, <1>14, <1>15

(* filterBy: the same conditions; a list keeps its order, an object has    *)
(* that of the table.                                                      *)
LEMMA FilterAlike ==
  ASSUME NEW node, NEW params, Distinct(node.columns), IsSeq(node.prefix),
         NEW values, WellFormed(values), params \in values, IsObject(params),
         \A v \in values : IsList(v) => OrLevels(v.items)[MaxNesting] = {},
         PortableFilter(Get(params, node.param), node.columns)
  PROVE  Alike(GoFilter(node, params, TRUE), GoFilter(node, params, FALSE))
<1> DEFINE v == Get(params, node.param)
           columns == node.columns
<1>1. CASE ~IsList(v) /\ ~IsObject(v)
  BY <1>1, AlikeSame, PieceSeqs DEF GoFilter, Nothing
<1>2. CASE IsList(v)
  <2> DEFINE text == GoConditions(columns, Objects(v.items))
  <2>1. \A ordered : GoFilter(node, params, ordered) = IF Objects(v.items) = <<>> THEN Nothing ELSE node.prefix \o text
    BY <1>2 DEF GoFilter
  <2>2. v \in values /\ IsSeq(v.items) /\ ToSet(v.items) \subseteq values
    BY <1>2, GetInside DEF ToSet
  <2>3. OrLevels(v.items)[MaxNesting] = {}
    BY <1>2, <2>2
  <2> HIDE DEF v
  <2>4. IsSeq(text)
    BY <2>2, <2>3, ConditionsSeq
  <2> HIDE DEF text
  <2>5. IsSeq(node.prefix \o text) /\ IsSeq(Nothing)
    BY <2>4, SeqConcat, PieceSeqs DEF Nothing
  <2>6. GoFilter(node, params, TRUE) = GoFilter(node, params, FALSE) /\ IsSeq(GoFilter(node, params, TRUE))
    BY <2>1, <2>5
  <2> QED
    BY <2>6, AlikeSame
<1>3. CASE IsObject(v)
  <2>1. ~IsList(v) /\ ~Missing(v)
    BY <1>3 DEF IsList, IsObject, Missing
  <2>2. KnownKeys(v, columns) /\ ~Has(v, "or")
    BY <1>3, <2>1 DEF PortableFilter
  <2> DEFINE s == GoKeys(v, columns, TRUE)
             t == GoKeys(v, columns, FALSE)
             S == {k \in ToSet(s) : Get(v, k) # Null}
             T == {k \in ToSet(t) : Get(v, k) # Null}
             a == Among(s, S)
             b == Among(t, T)
             One(k) == Obj1(k, Get(v, k))
             A == Each(a, One)
             B == Each(b, One)
  <2>3. Distinct(s) /\ Distinct(t) /\ ToSet(s) = ToSet(t) /\ s = Keys(v)
    BY <2>2, KeysAlike
  <2>4. S = T
    BY <2>3
  <2>5. "or" \notin ToSet(s)
    BY <2>2, <2>3, KeysFacts
  <2>6. /\ GoFilter(node, params, TRUE) = IF A = <<>> THEN Nothing ELSE node.prefix \o GoConditions(columns, A)
        /\ GoFilter(node, params, FALSE) = IF B = <<>> THEN Nothing ELSE node.prefix \o GoConditions(columns, B)
    BY <1>3, <2>1 DEF GoFilter, Those
  <2>7. \A k : Get(v, k) \in values \cup {Absent}
    BY <1>3, GetInside
  <2>8. Distinct(columns)
    OBVIOUS
  <2> HIDE DEF s, t, S, T, v, columns
  <2>9. Alike(a, b) /\ ToSet(a) \subseteq ToSet(s)
    BY <2>3, <2>4, AmongAlike
  <2> HIDE DEF a, b
  <2>10. IsSeq(a) /\ IsSeq(b) /\ "or" \notin ToSet(a) /\ "or" \notin ToSet(b)
    BY <2>5, <2>9, AlikeElements DEF Alike, ToSet
  <2>11. A = <<>> <=> B = <<>>
    <3>1. A = [i \in DOMAIN a |-> A[i]] /\ B = [i \in DOMAIN b |-> B[i]]
      BY DEF Each
    <3> HIDE DEF A, B
    <3>2. IsSeq(A) /\ IsSeq(B) /\ DOMAIN A = DOMAIN a /\ DOMAIN B = DOMAIN b
      BY <2>10, <3>1, SeqOver
    <3>3. DOMAIN a = DOMAIN b
      BY <2>9, RearrangedLen DEF Alike
    <3> QED
      BY <3>2, <3>3, EmptySequence
  <2> DEFINE groupA == CHOOSE f : f = [g \in Nested(A) |-> Join(GoParts(columns, g, f), "or")]
             groupB == CHOOSE f : f = [g \in Nested(B) |-> Join(GoParts(columns, g, f), "or")]
             partsA == GoParts(columns, A, groupA)
             partsB == GoParts(columns, B, groupB)
  <2>12. GoConditions(columns, A) = Join(partsA, "and") /\ GoConditions(columns, B) = Join(partsB, "and")
    BY DEF GoConditions
  <2>13. /\ partsA = FlattenSeq([i \in DOMAIN a |-> ShownKey(columns, v, a[i])])
         /\ IsSeq(partsA) /\ \A i \in DOMAIN partsA : IsSeq(partsA[i])
    <3>1. A = [i \in DOMAIN a |-> Obj1(a[i], Get(v, a[i]))]
      BY DEF Each
    <3> HIDE DEF groupA, A
    <3> QED
      BY <2>7, <2>8, <2>10, <3>1, KeyedParts
  <2>14. /\ partsB = FlattenSeq([i \in DOMAIN b |-> ShownKey(columns, v, b[i])])
         /\ IsSeq(partsB)
    <3>1. B = [i \in DOMAIN b |-> Obj1(b[i], Get(v, b[i]))]
      BY DEF Each
    <3> HIDE DEF groupB, B
    <3> QED
      BY <2>7, <2>8, <2>10, <3>1, KeyedParts
  <2>15. \A k : IsSeq(ShownKey(columns, v, k))
    <3> DEFINE C == [i \in DOMAIN a |-> Obj1(a[i], Get(v, a[i]))]
    <3>1. C = [i \in DOMAIN a |-> Obj1(a[i], Get(v, a[i]))]
      OBVIOUS
    <3> HIDE DEF C
    <3> QED
      BY <2>7, <2>8, <2>10, <3>1, KeyedParts
  <2> HIDE DEF partsA, partsB, A, B
  <2>16. Alike(partsA, partsB)
    <3> DEFINE f == [k \in ToSet(a) |-> ShownKey(columns, v, k)]
               X == [i \in DOMAIN a |-> ShownKey(columns, v, a[i])]
               Y == [i \in DOMAIN b |-> ShownKey(columns, v, b[i])]
    <3>1. \A k \in ToSet(a) : IsSeq(f[k])
      BY <2>15
    <3>2. X = [i \in DOMAIN a |-> f[a[i]]] /\ Y = [i \in DOMAIN b |-> f[b[i]]]
      BY <2>9, AlikeElements
    <3> HIDE DEF f, X, Y
    <3>3. Alike(FlattenSeq(X), FlattenSeq(Y))
      BY <2>9, <3>1, <3>2, AlikeParts
    <3> QED
      BY <2>13, <2>14, <3>3 DEF X, Y
  <2>17. Alike(Join(partsA, "and"), Join(partsB, "and"))
    BY <2>13, <2>16, RearrangedJoin DEF Alike
  <2>18. Alike(node.prefix, node.prefix) /\ Alike(Nothing, Nothing)
    BY AlikeSame, PieceSeqs DEF Nothing
  <2>19. Alike(node.prefix \o GoConditions(columns, A), node.prefix \o GoConditions(columns, B))
    BY <2>12, <2>17, <2>18, AlikeConcat
  <2> QED
    BY <2>6, <2>11, <2>18, <2>19
<1> QED
  BY <1>1, <1>2, <1>3

-----------------------------------------------------------------------------
(* Nodes and blocks.                                                       *)

(* The Go builder writes alike for every portable node, given that the     *)
(* branches of a when are alike.                                           *)
LEMMA NodeAlike ==
  ASSUME NEW node, NEW params, NEW dialect, NEW a, NEW b, Portable(node, params),
         node.op \in OverTable => Distinct(node.columns),
         node.op = "upsert" => Distinct(node.conflict),
         node.op = "filter" => IsSeq(node.prefix),
         node.op = "when" => Alike(a[node.onTrue], b[node.onTrue]) /\ Alike(a[node.onFalse], b[node.onFalse]),
         node.op \notin {"text", "value", "pagination"} => "param" \in DOMAIN node,
         (node.op = "joinBy" /\ IsObject(Get(params, node.param))) =>
            ToSet(Keys(Get(params, node.param))) \subseteq ToSet(AliasOrder),
         NEW values, WellFormed(values), params \in values, IsObject(params),
         \A v \in values : IsList(v) => OrLevels(v.items)[MaxNesting] = {}
  PROVE  Alike(GoNode(node, params, dialect, TRUE, AliasOrder, a),
               GoNode(node, params, dialect, FALSE, AliasOrder, b))
<1> DEFINE v == Get(params, node.param)
           Out(ordered, branch) == GoNode(node, params, dialect, ordered, AliasOrder, branch)
<1>0. IsList(v) => IsSeq(v.items)
  BY GetInside
<1>1. CASE node.op = "text"
  <2>1. Out(TRUE, a) = Sql(node.text) /\ Out(FALSE, b) = Sql(node.text)
    BY ONLY <1>1 DEF GoNode
  <2> QED
    BY <2>1, PieceSeqs, AlikeSame
<1>2. CASE node.op = "value"
  <2>1. Out(TRUE, a) = Bind(node.value) /\ Out(FALSE, b) = Bind(node.value)
    BY ONLY <1>2 DEF GoNode
  <2> QED
    BY <2>1, PieceSeqs, AlikeSame
<1>3. CASE node.op = "param"
  <2>1. Out(TRUE, a) = GoParam(node, params) /\ Out(FALSE, b) = GoParam(node, params)
    BY ONLY <1>3 DEF GoNode
  <2> QED
    BY <1>0, <2>1, ValuesSeq, AlikeSame
<1>4. CASE node.op = "each"
  <2>1. Out(TRUE, a) = GoEach(node, params) /\ Out(FALSE, b) = GoEach(node, params)
    BY ONLY <1>4 DEF GoNode
  <2> QED
    BY <1>0, <2>1, ValuesSeq, AlikeSame
<1>5. CASE node.op = "when"
  <2>1. /\ Out(TRUE, a) = a[IF GoPresent(v) # node.negate THEN node.onTrue ELSE node.onFalse]
        /\ Out(FALSE, b) = b[IF GoPresent(v) # node.negate THEN node.onTrue ELSE node.onFalse]
    BY ONLY <1>5 DEF GoNode
  <2> QED
    BY <1>5, <2>1
<1>6. CASE node.op = "set"
  <2>1. Distinct(node.columns) /\ (IsObject(v) => KnownKeys(v, node.columns))
    BY <1>6 DEF Portable, OverTable
  <2>2. Out(TRUE, a) = GoSet(node, params, TRUE) /\ Out(FALSE, b) = GoSet(node, params, FALSE)
    BY ONLY <1>6 DEF GoNode
  <2> QED
    BY <2>1, <2>2, SetAlike
<1>7. CASE node.op = "insert"
  <2>1. Distinct(node.columns)
    BY <1>7 DEF OverTable
  <2>2. Out(TRUE, a) = GoInsert(node, params) /\ Out(FALSE, b) = GoInsert(node, params)
    BY ONLY <1>7 DEF GoNode
  <2> QED
    BY <1>0, <2>1, <2>2, InsertSeq, AlikeSame
<1>8. CASE node.op = "insertCols"
  <2>1. Distinct(node.columns)
    BY <1>8 DEF OverTable
  <2>2. Out(TRUE, a) = GoInsertCols(node, params) /\ Out(FALSE, b) = GoInsertCols(node, params)
    BY ONLY <1>8 DEF GoNode
  <2> QED
    BY <1>0, <2>1, <2>2, InsertSeq, AlikeSame
<1>9. CASE node.op = "insertValues"
  <2>1. Distinct(node.columns)
    BY <1>9 DEF OverTable
  <2>2. Out(TRUE, a) = GoInsertValues(node, params) /\ Out(FALSE, b) = GoInsertValues(node, params)
    BY ONLY <1>9 DEF GoNode
  <2> QED
    BY <1>0, <2>1, <2>2, InsertSeq, AlikeSame
<1>10. CASE node.op = "filter"
  <2>1. Distinct(node.columns) /\ IsSeq(node.prefix) /\ PortableFilter(v, node.columns)
    BY <1>10 DEF Portable, OverTable
  <2>2. Out(TRUE, a) = GoFilter(node, params, TRUE) /\ Out(FALSE, b) = GoFilter(node, params, FALSE)
    BY ONLY <1>10 DEF GoNode
  <2> QED
    BY <2>1, <2>2, FilterAlike
<1>11. CASE node.op = "orderBy"
  <2>1. Distinct(node.columns) /\ (IsObject(v) => KnownKeys(v, node.columns))
    BY <1>11 DEF Portable, OverTable, PortableOrder
  <2>2. Out(TRUE, a) = GoOrderBy(node, params, TRUE) /\ Out(FALSE, b) = GoOrderBy(node, params, FALSE)
    BY ONLY <1>11 DEF GoNode
  <2> QED
    BY <2>1, <2>2, OrderAlike
<1>12. CASE node.op = "projection"
  <2>1. Distinct(node.columns) /\ (Missing(v) \/ (IsList(v) /\ v.items = <<>>))
    BY <1>12 DEF Portable, OverTable
  <2>2. Out(TRUE, a) = GoProjection(node, params) /\ Out(FALSE, b) = GoProjection(node, params)
    BY ONLY <1>12 DEF GoNode
  <2> QED
    BY <2>1, <2>2, ProjectionSeq, AlikeSame
<1>13. CASE node.op = "pagination"
  <2>1. Out(TRUE, a) = GoPagination(params) /\ Out(FALSE, b) = GoPagination(params)
    BY ONLY <1>13 DEF GoNode
  <2> QED
    BY <2>1, PaginationSeq, AlikeSame
<1>14. CASE node.op = "joinBy"
  <2>1. IsObject(v) => Distinct(Keys(v)) /\ ToSet(Keys(v)) \subseteq ToSet(AliasOrder)
    BY <1>14 DEF Portable, PortableJoins
  <2>2. /\ Out(TRUE, a) = GoJoinBy(node, params, TRUE, AliasOrder)
        /\ Out(FALSE, b) = GoJoinBy(node, params, FALSE, AliasOrder)
    BY ONLY <1>14 DEF GoNode
  <2> QED
    BY <2>1, <2>2, JoinByAlike
<1>15. CASE node.op = "upsert"
  <2>1. Distinct(node.columns) /\ Distinct(node.conflict)
    BY <1>15 DEF OverTable
  <2>2. Out(TRUE, a) = GoUpsert(node, params, dialect) /\ Out(FALSE, b) = GoUpsert(node, params, dialect)
    BY ONLY <1>15 DEF GoNode
  <2> QED
    BY <1>0, <2>1, <2>2, UpsertSeq, AlikeSame
<1>16. CASE node.op = "windowBy"
  <2>1. /\ Distinct(node.columns)
        /\ IsObject(v) => \A e \in ToSet(v.entries) : IsObject(e.value) /\ PortableWindow(e.value, node.columns)
    BY <1>16 DEF Portable, OverTable
  <2>2. /\ Out(TRUE, a) = GoWindowBy(node, params, dialect, TRUE)
        /\ Out(FALSE, b) = GoWindowBy(node, params, dialect, FALSE)
    BY ONLY <1>16 DEF GoNode
  <2> QED
    BY <2>1, <2>2, WindowByAlike
<1>17. node.op \in {"text", "value", "param", "each", "when", "set", "insert", "insertCols", "insertValues",
                    "filter", "orderBy", "projection", "pagination", "joinBy", "upsert", "windowBy"}
  BY DEF Portable
<1> QED
  BY <1>1, <1>2, <1>3, <1>4, <1>5, <1>6, <1>7, <1>8, <1>9, <1>10, <1>11, <1>12, <1>13, <1>14, <1>15,
     <1>16, <1>17

(* So it does for the nodes of a block, given that later blocks are alike. *)
LEMMA NodesAlike ==
  ASSUME NEW q \in Cases, NEW b \in DOMAIN q.blocks, NEW f, NEW h,
         \A c \in (b + 1)..Len(q.blocks) : Alike(f[c], h[c]),
         NEW nodes, IsSeq(nodes), ToSet(nodes) \subseteq ToSet(q.blocks[b]),
         \A n \in ToSet(nodes) : Portable(n, q.params)
  PROVE  Alike(GoNodes(nodes, q.params, q.dialect, TRUE, AliasOrder, f),
               GoNodes(nodes, q.params, q.dialect, FALSE, AliasOrder, h))
<1> DEFINE Out(n, ordered, branch) == GoNode(n, q.params, q.dialect, ordered, AliasOrder, branch)
           A == [i \in DOMAIN nodes |-> Out(nodes[i], TRUE, f)]
           B == [i \in DOMAIN nodes |-> Out(nodes[i], FALSE, h)]
           values == Contents(q.params)
<1>1. ASSUME NEW n \in ToSet(nodes) PROVE Alike(Out(n, TRUE, f), Out(n, FALSE, h))
  <2>1. n \in ToSet(q.blocks[b]) /\ Portable(n, q.params)
    OBVIOUS
  <2>2. /\ WellFormed(values) /\ q.params \in values /\ IsObject(q.params)
        /\ \A v \in values : IsList(v) => OrLevels(v.items)[MaxNesting] = {}
        /\ n.op \notin {"text", "value", "pagination"} => "param" \in DOMAIN n
        /\ n.op \in OverTable => Distinct(n.columns)
        /\ n.op = "upsert" => Distinct(n.conflict)
        /\ n.op = "filter" => IsSeq(n.prefix)
        /\ n.op = "when" => {n.onTrue, n.onFalse} \subseteq (b + 1)..Len(q.blocks)
    BY <2>1, CaseFacts
  <2>3. (n.op = "joinBy" /\ IsObject(Get(q.params, n.param))) =>
           ToSet(Keys(Get(q.params, n.param))) \subseteq ToSet(AliasOrder)
    BY <2>1, AliasOrderAssumption
  <2>4. n.op = "when" => Alike(f[n.onTrue], h[n.onTrue]) /\ Alike(f[n.onFalse], h[n.onFalse])
    BY <2>2
  <2> HIDE DEF values
  <2> QED
    BY ONLY <2>1, <2>2, <2>3, <2>4, NodeAlike
<1> HIDE DEF Out
<1>2. \A i \in DOMAIN nodes : Alike(A[i], B[i])
  BY <1>1 DEF ToSet
<1>3. A = [i \in DOMAIN nodes |-> A[i]] /\ B = [i \in DOMAIN nodes |-> B[i]]
  OBVIOUS
<1>4. /\ GoNodes(nodes, q.params, q.dialect, TRUE, AliasOrder, f) = FlattenSeq(A)
      /\ GoNodes(nodes, q.params, q.dialect, FALSE, AliasOrder, h) = FlattenSeq(B)
  BY DEF GoNodes, Each, Out
<1> HIDE DEF A, B
<1>5. Alike(FlattenSeq(A), FlattenSeq(B))
  BY <1>2, <1>3, AlikeEach
<1> QED
  BY <1>4, <1>5

(* A block refers to later blocks, so what the blocks emit is defined from *)
(* the last one on.                                                        *)
LEMMA NodesLocal ==
  ASSUME NEW q \in Cases, NEW b \in DOMAIN q.blocks, NEW ordered, NEW f, NEW h,
         \A c \in (b + 1)..Len(q.blocks) : f[c] = h[c]
  PROVE  GoNodes(q.blocks[b], q.params, q.dialect, ordered, AliasOrder, f)
           = GoNodes(q.blocks[b], q.params, q.dialect, ordered, AliasOrder, h)
<1> DEFINE nodes == q.blocks[b]
           Out(n, branch) == GoNode(n, q.params, q.dialect, ordered, AliasOrder, branch)
<1>1. ASSUME NEW n \in ToSet(nodes) PROVE Out(n, f) = Out(n, h)
  <2>1. n.op = "when" => {n.onTrue, n.onFalse} \subseteq (b + 1)..Len(q.blocks)
    BY CaseFacts
  <2>2. CASE n.op = "when"
    <3>1. f[n.onTrue] = h[n.onTrue] /\ f[n.onFalse] = h[n.onFalse]
      BY <2>1, <2>2
    <3>2. \A branch : Out(n, branch) = branch[IF GoPresent(Get(q.params, n.param)) # n.negate THEN n.onTrue ELSE n.onFalse]
      BY ONLY <2>2 DEF GoNode
    <3> QED
      BY <3>1, <3>2
  <2>3. CASE n.op # "when"
    BY ONLY <2>3 DEF GoNode
  <2> QED
    BY <2>2, <2>3
<1>2. \A i \in DOMAIN nodes : Out(nodes[i], f) = Out(nodes[i], h)
  BY <1>1 DEF ToSet
<1> HIDE DEF Out, nodes
<1>3. Each(nodes, LAMBDA n : Out(n, f)) = Each(nodes, LAMBDA n : Out(n, h))
  BY <1>2 DEF Each
<1> QED
  BY <1>3 DEF GoNodes, Out, nodes

(* What the blocks emit is defined: from the last block on, a block        *)
(* referring to later ones.                                                *)
LEMMA BlocksDefined ==
  ASSUME NEW q \in Cases, NEW ordered
  PROVE  LET branch == GoBlocks(q.blocks, q.params, q.dialect, ordered, AliasOrder)
         IN \A b \in DOMAIN q.blocks :
              branch[b] = GoNodes(q.blocks[b], q.params, q.dialect, ordered, AliasOrder, branch)
<1> DEFINE m == Len(q.blocks)
           Body(f, b) == GoNodes(q.blocks[b], q.params, q.dialect, ordered, AliasOrder, f)
           Good(f, k) == \A b \in k..m : f[b] = Body(f, b)
           bad == {d \in 0..m : ~\E f : Good(f, m + 1 - d)}
<1>1. m \in Nat /\ DOMAIN q.blocks = 1..m
  BY CaseFacts, EmptySequence
<1>2. ASSUME NEW b \in 1..m, NEW f, NEW h, \A c \in (b + 1)..m : f[c] = h[c] PROVE Body(f, b) = Body(h, b)
  <2>1. b \in DOMAIN q.blocks
    BY <1>1
  <2>2. \A c \in (b + 1)..Len(q.blocks) : f[c] = h[c]
    BY <1>2
  <2> QED
    BY ONLY q \in Cases, <2>1, <2>2, NodesLocal
<1> HIDE DEF m, Body
<1>3. \E f : Good(f, 1)
  <2>1. CASE bad = {}
    <3>1. m \in 0..m /\ m + 1 - m = 1
      BY <1>1
    <3> HIDE DEF Good
    <3> QED
      BY <2>1, <3>1
  <2>2. CASE bad # {}
    <3>1. PICK d \in bad : \A j \in bad : d <= j
      <4>1. bad \in SUBSET Nat
        BY <1>1
      <4> HIDE DEF bad
      <4> QED
        BY <2>2, <4>1, SmallestNat
    <3>2. d \in 0..m /\ ~\E f : Good(f, m + 1 - d)
      BY <3>1
    <3>3. d # 0
      <4>1. Good(0, m + 1) /\ m + 1 - 0 = m + 1
        BY <1>1
      <4> HIDE DEF Good
      <4> QED
        BY <3>2, <4>1
    <3> DEFINE n == m + 1 - d
    <3>4. d - 1 \in 0..m /\ ~(d <= d - 1) /\ n \in 1..m /\ m + 1 - (d - 1) = n + 1
      BY <1>1, <3>2, <3>3
    <3>5. PICK f : Good(f, n + 1)
      <4>1. d - 1 \notin bad
        BY <3>1, <3>4
      <4>2. \E f : Good(f, m + 1 - (d - 1))
        BY <3>4, <4>1
      <4> HIDE DEF Good, n
      <4> QED
        BY <3>4, <4>2
    <3> DEFINE h == [b \in 1..m |-> IF b = n THEN Body(f, n) ELSE f[b]]
    <3> HIDE DEF n
    <3>6. ASSUME NEW b \in n..m PROVE h[b] = Body(h, b)
      <4>1. b \in 1..m /\ (b # n => b \in (n + 1)..m) /\ (b + 1)..m \subseteq 1..m /\ n \notin (b + 1)..m
        BY <1>1, <3>4
      <4>2. h[b] = Body(f, b)
        BY <3>5, <4>1
      <4>3. \A c \in (b + 1)..m : f[c] = h[c]
        BY <4>1
      <4> HIDE DEF h
      <4>4. Body(f, b) = Body(h, b)
        BY <1>2, <4>1, <4>3
      <4> QED
        BY <4>2, <4>4
    <3>7. Good(h, n)
      <4> HIDE DEF h
      <4> QED
        BY <3>6
    <3> QED
      <4> HIDE DEF Good
      <4> QED
        BY <3>2, <3>7 DEF n
  <2> QED
    BY <2>1, <2>2
<1>4. \E f : f = [b \in DOMAIN q.blocks |-> Body(f, b)]
  <2>1. PICK f : Good(f, 1)
    BY <1>3
  <2> DEFINE h == [b \in 1..m |-> f[b]]
  <2>2. ASSUME NEW b \in 1..m PROVE h[b] = Body(h, b)
    <3>1. (b + 1)..m \subseteq 1..m
      BY <1>1
    <3>2. \A c \in (b + 1)..m : f[c] = h[c]
      BY <3>1
    <3>3. h[b] = Body(f, b)
      BY <2>1
    <3> HIDE DEF h
    <3>4. Body(f, b) = Body(h, b)
      BY <1>2, <3>2
    <3> QED
      BY <3>3, <3>4
  <2>3. h = [b \in 1..m |-> Body(h, b)]
    BY <2>2
  <2> HIDE DEF h
  <2> QED
    BY <1>1, <2>3
<1> DEFINE branch == GoBlocks(q.blocks, q.params, q.dialect, ordered, AliasOrder)
<1>5. branch = CHOOSE f : f = [b \in DOMAIN q.blocks |-> Body(f, b)]
  BY DEF GoBlocks, Body
<1>6. branch = [b \in DOMAIN q.blocks |-> Body(branch, b)]
  BY <1>4, <1>5
<1> HIDE DEF branch
<1>7. \A b \in DOMAIN q.blocks : branch[b] = Body(branch, b)
  BY <1>6
<1> QED
  BY <1>7 DEF branch, Body

(* The blocks of a portable query are alike.                               *)
LEMMA BlocksAlike ==
  ASSUME NEW q \in Cases,
         \A b \in DOMAIN q.blocks : \A n \in ToSet(q.blocks[b]) : Portable(n, q.params)
  PROVE  LET f == GoBlocks(q.blocks, q.params, q.dialect, TRUE, AliasOrder)
             h == GoBlocks(q.blocks, q.params, q.dialect, FALSE, AliasOrder)
         IN \A b \in DOMAIN q.blocks : Alike(f[b], h[b])
<1> DEFINE m == Len(q.blocks)
           f == GoBlocks(q.blocks, q.params, q.dialect, TRUE, AliasOrder)
           h == GoBlocks(q.blocks, q.params, q.dialect, FALSE, AliasOrder)
           bad == {d \in 0..m : \E b \in (m + 1 - d)..m : ~Alike(f[b], h[b])}
<1>1. m \in Nat /\ DOMAIN q.blocks = 1..m
  BY CaseFacts, EmptySequence
<1>2. ASSUME NEW b \in DOMAIN q.blocks, \A c \in (b + 1)..m : Alike(f[c], h[c])
      PROVE  Alike(f[b], h[b])
  <2>1. IsSeq(q.blocks[b]) /\ \A n \in ToSet(q.blocks[b]) : Portable(n, q.params)
    BY CaseFacts
  <2>2. f[b] = GoNodes(q.blocks[b], q.params, q.dialect, TRUE, AliasOrder, f)
    BY BlocksDefined
  <2>3. h[b] = GoNodes(q.blocks[b], q.params, q.dialect, FALSE, AliasOrder, h)
    BY BlocksDefined
  <2> HIDE DEF f, h
  <2>4. Alike(GoNodes(q.blocks[b], q.params, q.dialect, TRUE, AliasOrder, f),
              GoNodes(q.blocks[b], q.params, q.dialect, FALSE, AliasOrder, h))
    BY <1>2, <2>1, NodesAlike
  <2> QED
    BY <2>2, <2>3, <2>4
<1> HIDE DEF m, f, h
<1>3. bad = {}
  <2> SUFFICES ASSUME bad # {} PROVE FALSE
    OBVIOUS
  <2>1. PICK d \in bad : \A j \in bad : d <= j
    <3>1. bad \in SUBSET Nat
      BY <1>1
    <3> HIDE DEF bad
    <3> QED
      BY <3>1, SmallestNat
  <2>2. d \in 0..m
    BY <2>1
  <2>3. PICK b \in (m + 1 - d)..m : ~Alike(f[b], h[b])
    BY <2>1
  <2>4. d - 1 \in 0..m /\ ~(d <= d - 1) /\ b \in 1..m
    BY <1>1, <2>2, <2>3
  <2>5. d - 1 \notin bad
    BY <2>1, <2>4
  <2>6. \A c \in (m + 1 - (d - 1))..m : Alike(f[c], h[c])
    BY <2>4, <2>5
  <2>7. (b + 1)..m \subseteq (m + 1 - (d - 1))..m
    BY <1>1, <2>2, <2>3
  <2> QED
    BY <1>1, <1>2, <2>3, <2>4, <2>6, <2>7
<1>4. m \in 0..m /\ m + 1 - m = 1
  BY <1>1
<1>5. ~\E b \in (m + 1 - m)..m : ~Alike(f[b], h[b])
  BY <1>3, <1>4
<1>6. \A b \in DOMAIN q.blocks : Alike(f[b], h[b])
  BY <1>1, <1>4, <1>5
<1> QED
  BY <1>6 DEF f, h

-----------------------------------------------------------------------------
(* What the Go builder emits, from an OrderedDict and from plain maps.     *)

(* A rearrangement has each piece as many times.                           *)
LEMMA RearrangedBag ==
  ASSUME NEW a, NEW b, IsSeq(a), IsSeq(b), Rearranged(a, b)
  PROVE  SameBag(a, b)
<1> SUFFICES ASSUME NEW p
             PROVE  Cardinality({i \in DOMAIN a : a[i] = p}) = Cardinality({i \in DOMAIN b : b[i] = p})
  BY DEF SameBag
<1> DEFINE S == {i \in DOMAIN a : a[i] = p}
           T == {i \in DOMAIN b : b[i] = p}
<1>1. PICK f : OneToOne(f, DOMAIN a, DOMAIN b) /\ \A i \in DOMAIN a : a[i] = b[f[i]]
  BY DEF Rearranged
<1>2. IsFiniteSet(S)
  <2>1. Len(a) \in Nat /\ DOMAIN a = 1..Len(a)
    BY EmptySequence
  <2>2. IsFiniteSet(DOMAIN a)
    BY <2>1, FS_Interval
  <2> QED
    BY <2>2, FS_Subset
<1> DEFINE h == [i \in S |-> f[i]]
<1>3. \A i \in S : h[i] = f[i] /\ f[i] \in T
  BY <1>1 DEF OneToOne
<1>4. h \in [S -> T]
  BY <1>3
<1>5. \A i, j \in S : h[i] = h[j] => i = j
  BY <1>1, <1>3 DEF OneToOne
<1>6. \A t \in T : \E i \in S : h[i] = t
  BY <1>1, <1>3 DEF OneToOne
<1> HIDE DEF S, T, h
<1>7. h \in Bijection(S, T)
  BY <1>4, <1>5, <1>6 DEF Bijection, Injection, Surjection, IsInjective
<1>8. ExistsBijection(S, T)
  BY <1>7 DEF ExistsBijection
<1>9. Cardinality(T) = Cardinality(S)
  BY <1>2, <1>8, FS_Bijection
<1> QED
  BY <1>9 DEF S, T

(* Emitting alike pieces after alike output is alike: both fail or neither *)
(* does.                                                                   *)
LEMMA EmitAlike ==
  ASSUME NEW a, NEW b, NEW c, NEW d, Alike(a, b), Alike(c, d)
  PROVE  Alike(Emit(a, c), Emit(b, d))
<1> DEFINE x == a \o c
           y == b \o d
<1>1. Alike(x, y)
  BY AlikeConcat
<1> HIDE DEF x, y
<1>2. Failed(x) <=> Failed(y)
  BY <1>1 DEF Alike, Rearranged, OneToOne, Failed
<1>3. Alike(Fail, Fail)
  BY PieceSeqs, AlikeSame
<1>4. Alike(IF Failed(x) THEN Fail ELSE x, IF Failed(y) THEN Fail ELSE y)
  BY <1>1, <1>2, <1>3
<1> QED
  BY <1>4 DEF Emit, x, y

PlainInv ==
  /\ query \in Cases
  /\ next \in Nat \ {0}
  /\ PortableQuery => Alike(go, plain)

(* RuntimesAgree: on a portable query the Go builder, given the params in  *)
(* document order, and the .NET builder emit what the TypeScript operators *)
(* emit; given plain maps, the Go builder emits each piece as many times,  *)
(* and refuses what it refuses otherwise.                                  *)
THEOREM RuntimesAgreeCorrect == BuildSpec => []RuntimesAgree
<1>1. BuildInit => PlainInv
  <2>1. Alike(Nothing, Nothing)
    BY PieceSeqs, AlikeSame DEF Nothing
  <2> QED
    BY <2>1 DEF BuildInit, PlainInv
<1>2. PlainInv /\ [BuildNext]_buildVars => PlainInv'
  <2> SUFFICES ASSUME PlainInv, [BuildNext]_buildVars PROVE PlainInv'
    OBVIOUS
  <2>1. CASE UNCHANGED buildVars
    BY <2>1 DEF PlainInv, buildVars, PortableQuery
  <2>2. CASE BuildNode
    <3> DEFINE node == << Template[next] >>
               f == GoBlocks(query.blocks, query.params, query.dialect, TRUE, AliasOrder)
               h == GoBlocks(query.blocks, query.params, query.dialect, FALSE, AliasOrder)
    <3>1. query' = query /\ next' = next + 1 /\ next <= Len(Template)
      BY <2>2 DEF BuildNode
    <3>2. query \in Cases /\ next \in Nat \ {0}
      BY DEF PlainInv
    <3>3. query' \in Cases /\ next' \in Nat \ {0}
      BY <3>1, <3>2
    <3>4. ASSUME PortableQuery PROVE Alike(go', plain')
      <4>1. /\ IsSeq(node) /\ ToSet(node) \subseteq ToSet(query.blocks[1]) /\ 1 \in DOMAIN query.blocks
            /\ \A b \in DOMAIN query.blocks : \A n \in ToSet(query.blocks[b]) : Portable(n, query.params)
            /\ \A n \in ToSet(node) : Portable(n, query.params)
            /\ Serialize(node) = node /\ Manifest = query.blocks
        BY <3>1, <3>2, <3>4, NextNode
      <4> HIDE DEF node
      <4>2. \A c \in DOMAIN query.blocks : Alike(f[c], h[c])
        BY <3>2, <4>1, BlocksAlike
      <4>3. /\ go' = Emit(go, GoNodes(node, query.params, query.dialect, TRUE, AliasOrder, f))
            /\ plain' = Emit(plain, GoNodes(node, query.params, query.dialect, FALSE, AliasOrder, h))
        BY <2>2, <4>1 DEF BuildNode, node
      <4> HIDE DEF f, h
      <4>4. (1 + 1)..Len(query.blocks) \subseteq DOMAIN query.blocks
        <5>1. IsSeq(query.blocks)
          BY <3>2, CaseFacts
        <5>2. Len(query.blocks) \in Nat /\ DOMAIN query.blocks = 1..Len(query.blocks)
          BY <5>1, EmptySequence
        <5> QED
          BY <5>2
      <4>5. Alike(GoNodes(node, query.params, query.dialect, TRUE, AliasOrder, f),
                  GoNodes(node, query.params, query.dialect, FALSE, AliasOrder, h))
        BY <3>2, <4>1, <4>2, <4>4, NodesAlike
      <4>6. Alike(go, plain)
        BY <3>4 DEF PlainInv
      <4> QED
        BY <4>3, <4>5, <4>6, EmitAlike
    <3> QED
      BY <3>1, <3>3, <3>4 DEF PlainInv, PortableQuery
  <2> QED
    BY <2>1, <2>2 DEF BuildNext
<1>3. PlainInv /\ (PortableQuery => go = ts /\ net = ts) => RuntimesAgree
  BY RearrangedBag DEF PlainInv, Alike, RuntimesAgree
<1> QED
  BY <1>1, <1>2, <1>3, BuildersAgree, PTL DEF BuildSpec

-----------------------------------------------------------------------------
Middle == Running \cup {"authorize", "hooks", "check", "before"}
Phases == Middle \cup {"idle", "init", "end", "done"}

Typed ==
  /\ runtime \in {"go", "net"}
  /\ order \in {<< "limiter", "custom" >>, << "custom", "limiter" >>}
  /\ maxConcurrent \in Limits /\ dictOf \in [Calls -> Dicts]
  /\ pc \in [Calls -> Phases] /\ at \in [Calls -> Nat]
  /\ outcome \in [Calls -> {"ok", "error", "panic"}]
  /\ inited \in [Calls -> SUBSET Plugins] /\ ended \in [Calls -> SUBSET Plugins]

(* What a call has told its plugins, phase by phase.                       *)
PhaseOK(c) ==
  /\ pc[c] = "idle" => at[c] = 1 /\ inited[c] = {} /\ ended[c] = {}
  /\ pc[c] = "init" => /\ ended[c] = {}
                       /\ \/ at[c] = 1 /\ inited[c] = {}
                          \/ at[c] = 2 /\ inited[c] = {order[1]}
  /\ pc[c] \in Middle => inited[c] = Plugins /\ ended[c] = {}
  /\ pc[c] = "check" => at[c] \in {1, 2}
  /\ pc[c] = "end" => /\ inited[c] = Plugins
                      /\ \/ at[c] = 1 /\ ended[c] = {}
                         \/ at[c] = 2 /\ ended[c] = {order[1]}
  /\ pc[c] = "done" => outcome[c] = "panic" \/ ended[c] = inited[c]

Told == Typed /\ \A c \in Calls : PhaseOK(c)

(* The calls the limiter counts, and those it let pass.                    *)
Open == {c \in Calls : "limiter" \in inited[c] \ ended[c]}
Passed(c) ==
  \/ pc[c] \in Running \cup {"before"}
  \/ pc[c] = "check" /\ at[c] = 2 /\ order[1] = "limiter"
Admitted == {c \in Calls : Passed(c)}

Counted == count = Cardinality(Open)
Limited == Cardinality(Admitted) <= maxConcurrent

(* A call's phase becomes p and its place there k, no other call moves.    *)
Moved(c, p, k) ==
  /\ pc' \in [Calls -> Phases] /\ at' \in [Calls -> Nat]
  /\ pc'[c] = p /\ at'[c] = k
  /\ \A d \in Calls \ {c} : pc'[d] = pc[d] /\ at'[d] = at[d]

Outcome(c, r) ==
  /\ outcome' \in [Calls -> {"ok", "error", "panic"}] /\ outcome'[c] = r
  /\ \A d \in Calls \ {c} : outcome'[d] = outcome[d]

(* Goto moves one call to the first place of a phase.                      *)
LEMMA GotoMoves ==
  ASSUME Typed, NEW c \in Calls, NEW p \in Phases, Goto(c, p)
  PROVE  Moved(c, p, 1)
<1>1. pc \in [Calls -> Phases] /\ at \in [Calls -> Nat]
  BY DEF Typed
<1>2. pc' = [pc EXCEPT ![c] = p] /\ at' = [at EXCEPT ![c] = 1]
  BY DEF Goto
<1>3. pc' \in [Calls -> Phases] /\ pc'[c] = p /\ \A d \in Calls \ {c} : pc'[d] = pc[d]
  BY <1>1, <1>2
<1>4. at' \in [Calls -> Nat] /\ at'[c] = 1 /\ \A d \in Calls \ {c} : at'[d] = at[d]
  BY <1>1, <1>2
<1> QED
  BY <1>3, <1>4 DEF Moved

(* Stay moves one call to the next place of its phase.                     *)
LEMMA StayMoves ==
  ASSUME Typed, NEW c \in Calls, Stay(c)
  PROVE  Moved(c, pc[c], at[c] + 1)
<1>1. pc \in [Calls -> Phases] /\ at \in [Calls -> Nat]
  BY DEF Typed
<1>2. pc' = pc /\ at' = [at EXCEPT ![c] = @ + 1]
  BY DEF Stay
<1>3. at' \in [Calls -> Nat] /\ at'[c] = at[c] + 1 /\ \A d \in Calls \ {c} : at'[d] = at[d]
  BY <1>1, <1>2
<1> QED
  BY <1>1, <1>2, <1>3 DEF Moved

(* Advance does the one at the last place of a loop, the other before.     *)
LEMMA AdvanceMoves ==
  ASSUME Typed, NEW c \in Calls, NEW last, NEW p \in Phases, Advance(c, last, p)
  PROVE  \/ at[c] = last /\ Moved(c, p, 1)
         \/ at[c] # last /\ Moved(c, pc[c], at[c] + 1)
BY GotoMoves, StayMoves DEF Advance

(* Set gives one call its outcome.                                         *)
LEMMA SetOutcome ==
  ASSUME Typed, NEW c \in Calls, NEW r \in {"ok", "error", "panic"}, Set(c, r)
  PROVE  Outcome(c, r)
<1>1. outcome \in [Calls -> {"ok", "error", "panic"}]
  BY DEF Typed
<1>2. outcome' = [outcome EXCEPT ![c] = r]
  BY DEF Set
<1> QED
  BY <1>1, <1>2 DEF Outcome

(* An outcome that is left alone is one of the three.                      *)
LEMMA SameOutcome ==
  ASSUME Typed, NEW c \in Calls, outcome' = outcome
  PROVE  Outcome(c, outcome[c])
BY DEF Typed, Outcome

(* A call that fails goes to the End loop with an error.                   *)
LEMMA FailsMoves ==
  ASSUME Typed, NEW c \in Calls, Fails(c)
  PROVE  Moved(c, "end", 1) /\ Outcome(c, "error")
<1>1. Set(c, "error") /\ Goto(c, "end") /\ "end" \in Phases
  BY DEF Fails, Phases
<1> QED
  BY <1>1, GotoMoves, SetOutcome

(* A throw is an error in .NET; a panic in Go, which leaves the pipeline.  *)
LEMMA ThrowsMoves ==
  ASSUME Typed, NEW c \in Calls, Throws(c)
  PROVE  \/ Moved(c, "end", 1) /\ Outcome(c, "error")
         \/ Moved(c, "done", 1) /\ Outcome(c, "panic") /\ runtime = "go"
<1>1. CASE runtime = "net"
  BY <1>1, FailsMoves DEF Throws
<1>2. CASE runtime # "net"
  <2>1. Set(c, "panic") /\ Goto(c, "done") /\ "done" \in Phases /\ runtime = "go"
    BY <1>2 DEF Throws, Phases, Typed
  <2> QED
    BY <2>1, GotoMoves, SetOutcome
<1> QED
  BY <1>1, <1>2

-----------------------------------------------------------------------------
(* The steps between the Init and the End phase                            *)

(* A call in the middle of the pipeline goes on, to the End phase, or out  *)
(* of it with a panic; it passes the limiter only below the limit.         *)
MiddleStep(c) ==
  /\ pc[c] \in Middle
  /\ UNCHANGED << inited, ended, count, fixed, dict >>
  /\ \E p \in Middle, k \in Nat, r \in {"ok", "error", "panic"} :
       \/ /\ Moved(c, p, k) /\ Outcome(c, r)
          /\ p = "check" => k \in {1, 2}
          /\ Passed(c)' => Passed(c) \/ count <= maxConcurrent
       \/ Moved(c, "end", 1) /\ Outcome(c, r)
       \/ Moved(c, "done", 1) /\ Outcome(c, "panic")

(* A failure between Init and End is a step that touches no plugin.        *)
LEMMA Ended ==
  ASSUME Typed, NEW c \in Calls, pc[c] \in Middle, UNCHANGED << inited, ended, count, fixed, dict >>,
         Fails(c) \/ Throws(c)
  PROVE  MiddleStep(c)
<1>1. \/ Moved(c, "end", 1) /\ Outcome(c, "error")
      \/ Moved(c, "done", 1) /\ Outcome(c, "panic")
  BY FailsMoves, ThrowsMoves
<1>2. "check" \in Middle /\ 1 \in Nat
  BY DEF Middle
<1> QED
  BY <1>1, <1>2 DEF MiddleStep

(* Going on between Init and End is one too, if who passes the limiter was *)
(* counted within the limit.                                               *)
LEMMA GoesOn ==
  ASSUME Typed, NEW c \in Calls, pc[c] \in Middle, UNCHANGED << inited, ended, count, fixed, dict >>,
         NEW p \in Middle, NEW k \in Nat, Moved(c, p, k), outcome' = outcome,
         p = "check" => k \in {1, 2},
         \/ pc[c] \in Running \cup {"before"}
         \/ p \in {"hooks"}
         \/ p = "check" /\ k = 1
         \/ count <= maxConcurrent
         \/ Passed(c)
  PROVE  MiddleStep(c)
<1>1. Outcome(c, outcome[c]) /\ outcome[c] \in {"ok", "error", "panic"}
  BY SameOutcome DEF Typed
<1>2. Passed(c)' => Passed(c) \/ count <= maxConcurrent
  BY DEF Moved, Passed, Middle, Running
<1> QED
  BY <1>1, <1>2 DEF MiddleStep

(* The hooks' loop touches no plugin.                                      *)
LEMMA AuthorizationSteps ==
  ASSUME Typed, NEW c \in Calls, BeginAuthorization(c) \/ RunHook(c) \/ HooksEnd(c)
  PROVE  MiddleStep(c)
<1>1. CASE BeginAuthorization(c)
  <2>1. /\ pc[c] \in Middle /\ UNCHANGED << inited, ended, count, fixed, dict >> /\ outcome' = outcome
        /\ Goto(c, "check") \/ Goto(c, "hooks")
    BY <1>1 DEF BeginAuthorization, Middle, fixed
  <2>2. "check" \in Phases /\ "hooks" \in Phases /\ "check" \in Middle /\ "hooks" \in Middle
    BY DEF Phases, Middle
  <2>3. Moved(c, "check", 1) \/ Moved(c, "hooks", 1)
    BY <2>1, <2>2, GotoMoves
  <2> QED
    BY <2>1, <2>2, <2>3, GoesOn
<1>2. CASE RunHook(c)
  <2>1. pc[c] = "hooks" /\ pc[c] \in Middle /\ UNCHANGED << inited, ended, count, fixed, dict >>
    BY <1>2 DEF RunHook, Middle, fixed
  <2>2. CASE Fails(c) \/ Throws(c)
    BY <2>1, <2>2, Ended
  <2>3. CASE (Advance(c, seen[c], "check") \/ Stay(c)) /\ outcome' = outcome
    <3>1. "check" \in Phases /\ "check" \in Middle
      BY DEF Phases, Middle
    <3>2. Moved(c, "check", 1) \/ Moved(c, "hooks", at[c] + 1)
      BY <2>1, <2>3, <3>1, AdvanceMoves, StayMoves
    <3>3. at[c] + 1 \in Nat
      BY DEF Typed
    <3> QED
      BY <2>1, <2>3, <3>1, <3>2, <3>3, GoesOn
  <2> QED
    BY <1>2, <2>2, <2>3 DEF RunHook
<1>3. CASE HooksEnd(c)
  <2>1. pc[c] \in Middle /\ UNCHANGED << inited, ended, count, fixed, dict >>
    BY <1>3 DEF HooksEnd, Middle, fixed
  <2>2. CASE Fails(c)
    BY <2>1, <2>2, Ended
  <2>3. CASE Goto(c, "check") /\ outcome' = outcome
    <3>1. "check" \in Phases /\ "check" \in Middle
      BY DEF Phases, Middle
    <3> QED
      BY <2>1, <2>3, <3>1, GotoMoves, GoesOn
  <2> QED
    BY <1>3, <2>2, <2>3 DEF HooksEnd
<1> QED
  BY <1>1, <1>2, <1>3

(* The loop of the checks calls neither Init nor End.                      *)
LEMMA CheckSteps ==
  ASSUME Typed, NEW c \in Calls, PhaseOK(c), CheckPlugin(c)
  PROVE  MiddleStep(c)
<1>1. /\ pc[c] = "check" /\ pc[c] \in Middle /\ UNCHANGED << inited, ended, count, fixed, dict >>
      /\ at[c] \in {1, 2} /\ Len(order) = 2 /\ order[at[c]] \in Plugins
  BY DEF CheckPlugin, Middle, fixed, PhaseOK, Typed, Plugins
<1>2. CASE Fails(c) \/ Throws(c)
  BY <1>1, <1>2, Ended
<1>3. CASE /\ order[at[c]] = "limiter" => count <= maxConcurrent
           /\ Advance(c, Len(order), "before") /\ outcome' = outcome
  <2>1. "before" \in Phases /\ "before" \in Middle /\ "check" \in Middle
    BY DEF Phases, Middle
  <2>2. \/ at[c] = 2 /\ Moved(c, "before", 1)
        \/ at[c] = 1 /\ Moved(c, "check", 2)
    BY <1>1, <1>3, <2>1, AdvanceMoves
  <2>3. CASE order[at[c]] = "limiter"
    BY <1>1, <1>3, <2>1, <2>2, <2>3, GoesOn
  <2>4. CASE order[at[c]] # "limiter" /\ at[c] = 2
    <3>1. Passed(c)
      BY <1>1, <2>4 DEF Passed, Typed
    <3> QED
      BY <1>1, <1>3, <2>1, <2>2, <2>4, <3>1, GoesOn
  <2>5. CASE order[at[c]] # "limiter" /\ at[c] = 1
    <3>1. Moved(c, "check", 2) /\ order[1] # "limiter"
      BY <2>2, <2>5
    <3>2. ~Passed(c)'
      BY <1>1, <3>1 DEF Moved, Passed, Running, fixed
    <3>3. Outcome(c, outcome[c]) /\ outcome[c] \in {"ok", "error", "panic"}
      BY <1>3, SameOutcome DEF Typed
    <3> QED
      BY <1>1, <2>1, <3>1, <3>2, <3>3 DEF MiddleStep
  <2> QED
    BY <1>1, <2>3, <2>4, <2>5
<1> QED
  BY <1>2, <1>3 DEF CheckPlugin

(* Building and executing call neither Init nor End.                       *)
LEMMA ExecutionSteps ==
  ASSUME Typed, NEW c \in Calls,
         \/ BeforePlugins(c) \/ Build(c) \/ GoQuery(c)
         \/ EnterGate(c) \/ Opened(c) \/ NetQuery(c)
  PROVE  MiddleStep(c)
<1>1. /\ pc[c] \in Running \cup {"before"} /\ UNCHANGED << inited, ended, count, fixed, dict >>
  BY DEF BeforePlugins, Build, GoQuery, EnterGate, Opened, NetQuery, Running, fixed
<1>2. pc[c] \in Middle
  BY <1>1 DEF Middle
<1>3. \/ Fails(c) \/ Throws(c)
      \/ Goto(c, "end") /\ outcome' = outcome
      \/ \E p \in Running : Goto(c, p) /\ outcome' = outcome
  BY DEF BeforePlugins, Build, GoQuery, EnterGate, Opened, NetQuery, Running
<1>4. CASE Fails(c) \/ Throws(c)
  BY <1>1, <1>2, <1>4, Ended
<1>5. CASE Goto(c, "end") /\ outcome' = outcome
  <2>1. Moved(c, "end", 1)
    <3>1. "end" \in Phases
      BY DEF Phases
    <3> QED
      BY <3>1, <1>5, GotoMoves
  <2>2. Outcome(c, outcome[c]) /\ outcome[c] \in {"ok", "error", "panic"}
    BY <1>5, SameOutcome DEF Typed
  <2>3. "check" \in Middle /\ 1 \in Nat
    BY DEF Middle
  <2> QED
    BY <1>1, <1>2, <2>1, <2>2, <2>3 DEF MiddleStep
<1>6. ASSUME NEW p \in Running, Goto(c, p), outcome' = outcome PROVE MiddleStep(c)
  <2>1. p \in Middle /\ p \in Phases /\ p # "check"
    BY <1>6 DEF Middle, Phases, Running
  <2>2. Moved(c, p, 1)
    BY <1>6, <2>1, GotoMoves
  <2> QED
    BY <1>1, <1>2, <1>6, <2>1, <2>2, GoesOn
<1> QED
  BY <1>3, <1>4, <1>5, <1>6

-----------------------------------------------------------------------------
(* What the plugins are told                                               *)

LEMMA ToldInit == Init => Told
<1> SUFFICES ASSUME Init PROVE Told
  OBVIOUS
<1>1. Typed
  <2>1. /\ runtime \in {"go", "net"} /\ order \in {<< "limiter", "custom" >>, << "custom", "limiter" >>}
        /\ maxConcurrent \in Limits /\ dictOf \in [Calls -> Dicts]
    BY Assumptions DEF Init
  <2>2. pc \in [Calls -> Phases] /\ at \in [Calls -> Nat]
    BY DEF Init, Phases
  <2>3. /\ outcome \in [Calls -> {"ok", "error", "panic"}]
        /\ inited \in [Calls -> SUBSET Plugins] /\ ended \in [Calls -> SUBSET Plugins]
    BY DEF Init
  <2> QED
    BY <2>1, <2>2, <2>3 DEF Typed
<1>2. ASSUME NEW c \in Calls PROVE PhaseOK(c)
  <2>1. pc[c] = "idle" /\ at[c] = 1 /\ inited[c] = {} /\ ended[c] = {}
    BY DEF Init
  <2> QED
    BY <2>1 DEF PhaseOK, Middle, Running
<1> QED
  BY <1>1, <1>2 DEF Told

(* A call of which nothing changed keeps its part.                         *)
LEMMA OtherKept ==
  ASSUME NEW d \in Calls, PhaseOK(d), order' = order,
         pc'[d] = pc[d], at'[d] = at[d], outcome'[d] = outcome[d],
         inited'[d] = inited[d], ended'[d] = ended[d]
  PROVE  PhaseOK(d)'
BY DEF PhaseOK

(* A step between Init and End leaves alone what plugins were told.        *)
LEMMA MiddleKeepsTold ==
  ASSUME Told, NEW c \in Calls, MiddleStep(c)
  PROVE  Told'
<1>1. UNCHANGED << inited, ended, fixed >> /\ pc[c] \in Middle
  BY DEF MiddleStep
<1>2. PICK p \in Phases, k \in Nat, r \in {"ok", "error", "panic"} :
        /\ Moved(c, p, k) /\ Outcome(c, r)
        /\ \/ p \in Middle /\ (p = "check" => k \in {1, 2})
           \/ p = "end" /\ k = 1
           \/ p = "done" /\ r = "panic"
  <2>1. "end" \in Phases /\ "done" \in Phases /\ Middle \subseteq Phases /\ 1 \in Nat
    BY DEF Phases
  <2> QED
    BY <2>1 DEF MiddleStep
<1>3. Typed'
  BY <1>1, <1>2 DEF Told, Typed, Moved, Outcome, fixed
<1>4. PhaseOK(c)'
  <2>1. inited[c] = Plugins /\ ended[c] = {}
    BY <1>1 DEF Told, PhaseOK
  <2>2. pc'[c] = p /\ at'[c] = k /\ outcome'[c] = r /\ inited'[c] = Plugins /\ ended'[c] = {}
    BY <1>1, <1>2, <2>1 DEF Moved, Outcome
  <2>3. CASE p \in Middle /\ (p = "check" => k \in {1, 2})
    BY <2>2, <2>3 DEF PhaseOK, Middle, Running
  <2>4. CASE p = "end" /\ k = 1
    BY <2>2, <2>4 DEF PhaseOK, Middle, Running
  <2>5. CASE p = "done" /\ r = "panic"
    BY <2>2, <2>5 DEF PhaseOK, Middle, Running
  <2> QED
    BY <1>2, <2>3, <2>4, <2>5
<1>5. ASSUME NEW d \in Calls \ {c} PROVE PhaseOK(d)'
  <2>1. PhaseOK(d) /\ pc'[d] = pc[d] /\ at'[d] = at[d] /\ outcome'[d] = outcome[d]
    BY <1>2 DEF Told, Moved, Outcome
  <2>2. order' = order /\ inited'[d] = inited[d] /\ ended'[d] = ended[d]
    BY <1>1 DEF fixed
  <2> QED
    BY <2>1, <2>2, OtherKept
<1> QED
  BY <1>3, <1>4, <1>5 DEF Told

(* The step into the registry, and the refusals there.                     *)
LEMMA EntryKeepsTold ==
  ASSUME Told, NEW c \in Calls, InjectContext(c) \/ Refuse(c)
  PROVE  Told'
<1>1. /\ UNCHANGED << inited, ended, fixed >> /\ pc[c] = "idle" /\ Typed
      /\ inited[c] = {} /\ ended[c] = {}
  BY DEF InjectContext, Refuse, Told, PhaseOK, fixed
<1>2. PICK r \in {"ok", "error", "panic"}, p \in {"init", "done"} : Moved(c, p, 1) /\ Outcome(c, r)
  <2>1. "init" \in Phases /\ "done" \in Phases
    BY DEF Phases
  <2>2. CASE InjectContext(c)
    <3>1. Goto(c, "init") /\ outcome' = outcome
      BY <2>2 DEF InjectContext
    <3>2. Outcome(c, outcome[c]) /\ outcome[c] \in {"ok", "error", "panic"}
      BY <1>1, <3>1, SameOutcome DEF Typed
    <3> QED
      BY <1>1, <2>1, <3>1, <3>2, GotoMoves
  <2>3. CASE Refuse(c)
    <3>1. Goto(c, "done") /\ Set(c, "error")
      BY <2>3 DEF Refuse
    <3> QED
      BY <1>1, <2>1, <3>1, GotoMoves, SetOutcome
  <2> QED
    BY <2>2, <2>3
<1>3. Typed'
  BY <1>1, <1>2 DEF Typed, Moved, Outcome, fixed
<1>4. PhaseOK(c)'
  <2>1. pc'[c] = p /\ at'[c] = 1 /\ inited'[c] = {} /\ ended'[c] = {}
    BY <1>1, <1>2 DEF Moved
  <2> QED
    BY <2>1 DEF PhaseOK, Middle, Running
<1>5. ASSUME NEW d \in Calls \ {c} PROVE PhaseOK(d)'
  <2>1. PhaseOK(d) /\ pc'[d] = pc[d] /\ at'[d] = at[d] /\ outcome'[d] = outcome[d]
    BY <1>2 DEF Told, Moved, Outcome
  <2>2. order' = order /\ inited'[d] = inited[d] /\ ended'[d] = ended[d]
    BY <1>1 DEF fixed
  <2> QED
    BY <2>1, <2>2, OtherKept
<1> QED
  BY <1>3, <1>4, <1>5 DEF Told

(* Init and End of one plugin.                                             *)
LEMMA InitKeepsTold ==
  ASSUME Told, NEW c \in Calls, InitPlugin(c)
  PROVE  Told'
<1> DEFINE plugin == order[at[c]]
<1>1. /\ UNCHANGED << ended, fixed >> /\ pc[c] = "init" /\ Typed /\ ended[c] = {}
      /\ inited' = [inited EXCEPT ![c] = @ \cup {plugin}]
      /\ \/ at[c] = 1 /\ inited[c] = {}
         \/ at[c] = 2 /\ inited[c] = {order[1]}
  BY DEF InitPlugin, Told, PhaseOK, fixed
<1>2. Len(order) = 2 /\ plugin \in Plugins /\ {order[1], order[2]} = Plugins
  BY <1>1 DEF Typed, Plugins
<1>3. \/ Advance(c, 2, "authorize") /\ outcome' = outcome
      \/ Advance(c, 2, "check") /\ outcome' = outcome
      \/ Set(c, "panic") /\ Goto(c, "done")
  <2>1. CASE Advance(c, Len(order), IF c \in Tagged THEN "authorize" ELSE "check") /\ outcome' = outcome
    BY <1>2, <2>1
  <2>2. CASE runtime = "go" /\ Throws(c)
    BY <2>2 DEF Throws
  <2> QED
    BY <2>1, <2>2 DEF InitPlugin
<1>4. PICK p \in Phases, k \in Nat, r \in {"ok", "error", "panic"} :
        /\ Moved(c, p, k) /\ Outcome(c, r)
        /\ \/ p \in {"authorize", "check"} /\ at[c] = 2 /\ k = 1
           \/ p = "init" /\ at[c] = 1 /\ k = 2
           \/ p = "done" /\ r = "panic"
  <2>1. {"authorize", "check", "init", "done"} \subseteq Phases /\ 1 \in Nat /\ 2 \in Nat
    BY DEF Phases, Middle
  <2>2. CASE Set(c, "panic") /\ Goto(c, "done")
    BY <1>1, <2>1, <2>2, GotoMoves, SetOutcome
  <2>3. ASSUME NEW q \in {"authorize", "check"}, Advance(c, 2, q), outcome' = outcome
        PROVE  \/ at[c] = 2 /\ Moved(c, q, 1) /\ Outcome(c, outcome[c])
               \/ at[c] = 1 /\ Moved(c, "init", 2) /\ Outcome(c, outcome[c])
    <3>1. q \in Phases
      BY <2>1
    <3>2. Outcome(c, outcome[c])
      BY <1>1, <2>3, SameOutcome
    <3> QED
      BY <1>1, <2>3, <3>1, <3>2, AdvanceMoves
  <2>4. outcome[c] \in {"ok", "error", "panic"}
    BY <1>1 DEF Typed
  <2> QED
    BY <1>3, <2>1, <2>2, <2>3, <2>4
<1>5. inited' \in [Calls -> SUBSET Plugins] /\ inited'[c] = inited[c] \cup {plugin}
      /\ \A d \in Calls \ {c} : inited'[d] = inited[d]
  BY <1>1, <1>2 DEF Typed
<1>6. Typed'
  BY <1>1, <1>4, <1>5 DEF Typed, Moved, Outcome, fixed
<1>7. PhaseOK(c)'
  <2>1. pc'[c] = p /\ at'[c] = k /\ outcome'[c] = r /\ ended'[c] = {} /\ order' = order
    BY <1>1, <1>4 DEF Moved, Outcome, fixed
  <2>2. CASE p \in {"authorize", "check"} /\ at[c] = 2 /\ k = 1
    <3>1. inited'[c] = Plugins
      BY <1>1, <1>2, <1>5, <2>2
    <3> QED
      BY <2>1, <2>2, <3>1 DEF PhaseOK, Middle, Running
  <2>3. CASE p = "init" /\ at[c] = 1 /\ k = 2
    <3>1. inited'[c] = {order[1]}
      BY <1>1, <1>5, <2>3
    <3> QED
      BY <2>1, <2>3, <3>1 DEF PhaseOK, Middle, Running
  <2>4. CASE p = "done" /\ r = "panic"
    BY <2>1, <2>4 DEF PhaseOK, Middle, Running
  <2> QED
    BY <1>4, <2>2, <2>3, <2>4
<1>8. ASSUME NEW d \in Calls \ {c} PROVE PhaseOK(d)'
  <2>1. PhaseOK(d) /\ pc'[d] = pc[d] /\ at'[d] = at[d] /\ outcome'[d] = outcome[d]
    BY <1>4 DEF Told, Moved, Outcome
  <2>2. order' = order /\ inited'[d] = inited[d] /\ ended'[d] = ended[d]
    BY <1>1, <1>5 DEF fixed
  <2> QED
    BY <2>1, <2>2, OtherKept
<1> QED
  BY <1>6, <1>7, <1>8 DEF Told

(* End is called of the plugin whose turn it is.                           *)
LEMMA EndKeepsTold ==
  ASSUME Told, NEW c \in Calls, EndPlugin(c)
  PROVE  Told'
<1> DEFINE plugin == order[at[c]]
<1>1. /\ UNCHANGED << inited, fixed >> /\ pc[c] = "end" /\ Typed /\ inited[c] = Plugins
      /\ ended' = [ended EXCEPT ![c] = @ \cup {plugin}]
      /\ \/ at[c] = 1 /\ ended[c] = {}
         \/ at[c] = 2 /\ ended[c] = {order[1]}
  BY DEF EndPlugin, Told, PhaseOK, fixed
<1>2. Len(order) = 2 /\ plugin \in Plugins /\ {order[1], order[2]} = Plugins
  BY <1>1 DEF Typed, Plugins
<1>3. \/ Advance(c, 2, "done") /\ outcome' = outcome
      \/ Set(c, "panic") /\ Goto(c, "done")
  <2>1. CASE Advance(c, Len(order), "done") /\ outcome' = outcome
    BY <1>2, <2>1
  <2>2. CASE runtime = "go" /\ Throws(c)
    BY <2>2 DEF Throws
  <2> QED
    BY <2>1, <2>2 DEF EndPlugin
<1>4. PICK p \in Phases, k \in Nat, r \in {"ok", "error", "panic"} :
        /\ Moved(c, p, k) /\ Outcome(c, r)
        /\ \/ p = "done" /\ at[c] = 2
           \/ p = "end" /\ at[c] = 1 /\ k = 2
           \/ p = "done" /\ r = "panic"
  <2>1. {"end", "done"} \subseteq Phases /\ 1 \in Nat /\ 2 \in Nat
    BY DEF Phases, Middle
  <2>2. CASE Set(c, "panic") /\ Goto(c, "done")
    BY <1>1, <2>1, <2>2, GotoMoves, SetOutcome
  <2>3. CASE Advance(c, 2, "done") /\ outcome' = outcome
    <3>1. Outcome(c, outcome[c]) /\ outcome[c] \in {"ok", "error", "panic"}
      BY <1>1, <2>3, SameOutcome DEF Typed
    <3>2. \/ at[c] = 2 /\ Moved(c, "done", 1)
          \/ at[c] = 1 /\ Moved(c, "end", 2)
      BY <1>1, <2>1, <2>3, AdvanceMoves
    <3> QED
      BY <2>1, <3>1, <3>2
  <2> QED
    BY <1>3, <2>2, <2>3
<1>5. ended' \in [Calls -> SUBSET Plugins] /\ ended'[c] = ended[c] \cup {plugin}
      /\ \A d \in Calls \ {c} : ended'[d] = ended[d]
  BY <1>1, <1>2 DEF Typed
<1>6. Typed'
  BY <1>1, <1>4, <1>5 DEF Typed, Moved, Outcome, fixed
<1>7. PhaseOK(c)'
  <2>1. pc'[c] = p /\ at'[c] = k /\ outcome'[c] = r /\ inited'[c] = Plugins /\ order' = order
    BY <1>1, <1>4 DEF Moved, Outcome, fixed
  <2>2. CASE p = "done" /\ at[c] = 2
    <3>1. ended'[c] = Plugins
      BY <1>1, <1>2, <1>5, <2>2
    <3> QED
      BY <2>1, <2>2, <3>1 DEF PhaseOK, Middle, Running
  <2>3. CASE p = "end" /\ at[c] = 1 /\ k = 2
    <3>1. ended'[c] = {order[1]}
      BY <1>1, <1>5, <2>3
    <3> QED
      BY <2>1, <2>3, <3>1 DEF PhaseOK, Middle, Running
  <2>4. CASE p = "done" /\ r = "panic"
    BY <2>1, <2>4 DEF PhaseOK, Middle, Running
  <2> QED
    BY <1>4, <2>2, <2>3, <2>4
<1>8. ASSUME NEW d \in Calls \ {c} PROVE PhaseOK(d)'
  <2>1. PhaseOK(d) /\ pc'[d] = pc[d] /\ at'[d] = at[d] /\ outcome'[d] = outcome[d]
    BY <1>4 DEF Told, Moved, Outcome
  <2>2. order' = order /\ inited'[d] = inited[d] /\ ended'[d] = ended[d]
    BY <1>1, <1>5 DEF fixed
  <2> QED
    BY <2>1, <2>2, OtherKept
<1> QED
  BY <1>6, <1>7, <1>8 DEF Told

(* Steps that move no call.                                                *)
LEMMA AsideKeepsTold ==
  ASSUME Told, UNCHANGED << pc, at, outcome, inited, ended, fixed >>
  PROVE  Told'
<1>1. Typed'
  BY DEF Told, Typed, fixed
<1>2. ASSUME NEW d \in Calls PROVE PhaseOK(d)'
  <2>1. PhaseOK(d) /\ order' = order
    BY DEF Told, fixed
  <2> QED
    BY <2>1, OtherKept
<1> QED
  BY <1>1, <1>2 DEF Told

(* The kinds of steps there are.                                           *)
LEMMA Steps ==
  ASSUME Told, [Next]_vars
  PROVE  \/ \E c \in Calls : MiddleStep(c)
         \/ \E c \in Calls : InjectContext(c) \/ Refuse(c) \/ InitPlugin(c) \/ EndPlugin(c)
         \/ UNCHANGED << callVars, fixed, count, dict >>
<1>1. ASSUME NEW c \in Calls, Step(c)
      PROVE  MiddleStep(c) \/ InjectContext(c) \/ Refuse(c) \/ InitPlugin(c) \/ EndPlugin(c)
  <2>1. Typed /\ PhaseOK(c)
    BY DEF Told
  <2> QED
    BY <1>1, <2>1, AuthorizationSteps, CheckSteps, ExecutionSteps DEF Step
<1>2. ASSUME NEW h \in MayUnregister, Unregister(h) PROVE UNCHANGED << callVars, fixed, count, dict >>
  BY <1>2 DEF Unregister
<1>3. CASE Dispose
  BY <1>3 DEF Dispose
<1>4. CASE UNCHANGED vars
  BY <1>4 DEF vars
<1> QED
  BY <1>1, <1>2, <1>3, <1>4 DEF Next

(* Told is inductive.                                                      *)
LEMMA ToldStep == Told /\ [Next]_vars => Told'
<1> SUFFICES ASSUME Told, [Next]_vars PROVE Told'
  OBVIOUS
<1>1. CASE UNCHANGED << callVars, fixed, count, dict >>
  BY <1>1, AsideKeepsTold DEF callVars
<1> QED
  BY <1>1, Steps, MiddleKeepsTold, EntryKeepsTold, InitKeepsTold, EndKeepsTold

(* In every state each call is in a phase that says which plugins have     *)
(* seen its Init and its End (pipeline.go:89-161,                          *)
(* QueryPipeline.cs:61-132).                                               *)
THEOREM ToldCorrect == Spec => []Told
BY ToldInit, ToldStep, PTL DEF Spec

(* Init and End pair: whatever failed, and wherever, a call that is over   *)
(* and did not panic has called End of exactly the plugins whose Init it   *)
(* called (pipeline.go:89-161, QueryPipeline.cs:61-132).                   *)
THEOREM InitEndPairCorrect == Spec => []InitEndPair
<1>1. Told => InitEndPair
  BY DEF Told, PhaseOK, InitEndPair
<1> QED
  BY <1>1, ToldCorrect, PTL

-----------------------------------------------------------------------------
(* The limiter                                                             *)

LEMMA OpenFinite == IsFiniteSet(Open) /\ Cardinality(Open) \in Nat
BY Assumptions, FS_Subset, FS_CardinalityType DEF Open

(* The call the step is of joins the counted calls, leaves them or neither. *)
LEMMA InitCounts ==
  ASSUME Told, Counted, NEW c \in Calls, InitPlugin(c)
  PROVE  Counted'
<1> DEFINE plugin == order[at[c]]
<1>1. /\ ended' = ended /\ pc[c] = "init" /\ Typed /\ ended[c] = {}
      /\ inited' = [inited EXCEPT ![c] = @ \cup {plugin}]
      /\ count' = IF plugin = "limiter" THEN count + 1 ELSE count
      /\ \/ at[c] = 1 /\ inited[c] = {}
         \/ at[c] = 2 /\ inited[c] = {order[1]}
  BY DEF InitPlugin, Told, PhaseOK
<1>2. /\ inited'[c] = inited[c] \cup {plugin}
      /\ \A d \in Calls \ {c} : inited'[d] = inited[d]
  BY <1>1 DEF Typed
<1>3. CASE plugin = "limiter"
  <2>1. "limiter" \notin inited[c]
    BY <1>1, <1>3 DEF Typed
  <2>2. Open' = Open \cup {c} /\ c \notin Open
    BY <1>1, <1>2, <1>3, <2>1 DEF Open
  <2>3. Cardinality(Open \cup {c}) = Cardinality(Open) + 1
    BY <2>2, OpenFinite, FS_AddElement
  <2> QED
    BY <1>1, <1>3, <2>2, <2>3 DEF Counted
<1>4. CASE plugin # "limiter"
  <2>1. Open' = Open
    BY <1>1, <1>2, <1>4 DEF Open
  <2> QED
    BY <1>1, <1>4, <2>1 DEF Counted
<1> QED
  BY <1>3, <1>4

(* End of the limiter uncounts its call.                                   *)
LEMMA EndCounts ==
  ASSUME Told, Counted, NEW c \in Calls, EndPlugin(c)
  PROVE  Counted'
<1> DEFINE plugin == order[at[c]]
<1>1. /\ inited' = inited /\ Typed /\ inited[c] = Plugins
      /\ ended' = [ended EXCEPT ![c] = @ \cup {plugin}]
      /\ count' = IF plugin = "limiter" /\ count > 0 THEN count - 1 ELSE count
      /\ \/ at[c] = 1 /\ ended[c] = {}
         \/ at[c] = 2 /\ ended[c] = {order[1]}
  BY DEF EndPlugin, Told, PhaseOK
<1>2. /\ ended'[c] = ended[c] \cup {plugin}
      /\ \A d \in Calls \ {c} : ended'[d] = ended[d]
  BY <1>1 DEF Typed
<1>3. CASE plugin = "limiter"
  <2>1. "limiter" \notin ended[c] /\ "limiter" \in inited[c]
    BY <1>1, <1>3 DEF Typed, Plugins
  <2>2. Open' = Open \ {c} /\ c \in Open
    BY <1>1, <1>2, <1>3, <2>1 DEF Open
  <2>3. Cardinality(Open \ {c}) = Cardinality(Open) - 1
    BY <2>2, OpenFinite, FS_RemoveElement
  <2>4. Cardinality(Open) # 0
    BY <2>2, OpenFinite, FS_EmptySet
  <2> QED
    BY <1>1, <1>3, <2>2, <2>3, <2>4, OpenFinite DEF Counted
<1>4. CASE plugin # "limiter"
  <2>1. Open' = Open
    BY <1>1, <1>2, <1>4 DEF Open
  <2> QED
    BY <1>1, <1>4, <2>1 DEF Counted
<1> QED
  BY <1>3, <1>4

(* The count stays exact: only Init and End of the limiter change it.      *)
LEMMA CountedStep == Told /\ Counted /\ [Next]_vars => Counted'
<1> SUFFICES ASSUME Told, Counted, [Next]_vars PROVE Counted'
  OBVIOUS
<1>1. CASE UNCHANGED << inited, ended, count >>
  BY <1>1 DEF Counted, Open
<1>2. ASSUME NEW c \in Calls, MiddleStep(c) \/ InjectContext(c) \/ Refuse(c)
      PROVE  UNCHANGED << inited, ended, count >>
  BY <1>2 DEF MiddleStep, InjectContext, Refuse
<1>3. CASE UNCHANGED << callVars, fixed, count, dict >>
  BY <1>1, <1>3 DEF callVars
<1> QED
  BY <1>1, <1>2, <1>3, Steps, InitCounts, EndCounts

(* At first no call is open and the count is zero.                         *)
LEMMA CountedInit == Init => Counted
<1> SUFFICES ASSUME Init PROVE Counted
  OBVIOUS
<1>1. Open = {}
  BY DEF Init, Open
<1> QED
  BY <1>1, FS_EmptySet DEF Init, Counted

(* The limiter's count is exact (rate_limiter.go:25-74,                    *)
(* TimeToLiveRateLimiter.cs): it is the number of calls between the        *)
(* limiter's Init and its End, panicked ones for good.                     *)
THEOREM CountExactCorrect == Spec => []CountExact
<1>1. Counted => CountExact
  BY DEF Counted, CountExact, Open
<1> QED
  BY <1>1, CountedInit, CountedStep, ToldCorrect, PTL DEF Spec

(* Steps that are not in the middle of the pipeline admit no call.         *)
LEMMA OutsideAdmitsNone ==
  ASSUME Told, NEW c \in Calls,
         InjectContext(c) \/ Refuse(c) \/ InitPlugin(c) \/ EndPlugin(c)
  PROVE  Admitted' \subseteq Admitted
<1>1. Typed /\ order' = order /\ Len(order) = 2
  BY DEF Told, Typed, InjectContext, Refuse, InitPlugin, EndPlugin, fixed
<1>2. \/ \E p \in {"init", "done", "authorize", "check", "end"} : Goto(c, p)
      \/ Stay(c) /\ pc[c] \in {"init", "end"}
  BY DEF InjectContext, Refuse, InitPlugin, EndPlugin, Advance, Throws, Fails
<1>3. PICK p \in {"init", "done", "authorize", "check", "end"}, k \in Nat :
        Moved(c, p, k) /\ (p = "check" => k = 1)
  <2>1. {"init", "done", "authorize", "check", "end"} \subseteq Phases /\ at[c] + 1 \in Nat /\ 1 \in Nat
    BY <1>1 DEF Phases, Middle, Typed
  <2>2. CASE Stay(c) /\ pc[c] \in {"init", "end"}
    BY <1>1, <2>1, <2>2, StayMoves
  <2>3. ASSUME NEW p \in {"init", "done", "authorize", "check", "end"}, Goto(c, p)
        PROVE  Moved(c, p, 1)
    BY <1>1, <2>1, <2>3, GotoMoves
  <2> QED
    BY <1>2, <2>1, <2>2, <2>3
<1>4. ~Passed(c)'
  BY <1>3 DEF Moved, Passed, Running
<1>5. ASSUME NEW d \in Calls \ {c}, Passed(d)' PROVE Passed(d)
  BY <1>1, <1>3, <1>5 DEF Moved, Passed
<1> QED
  BY <1>4, <1>5 DEF Admitted

(* A call that passed the limiter is counted by it.                        *)
LEMMA AdmittedOpen == Told => Admitted \subseteq Open
<1> SUFFICES ASSUME Told, NEW c \in Calls, Passed(c) PROVE c \in Open
  BY DEF Admitted
<1>1. pc[c] \in Middle
  BY DEF Passed, Middle
<1>2. inited[c] = Plugins /\ ended[c] = {}
  BY <1>1 DEF Told, PhaseOK
<1> QED
  BY <1>2 DEF Open, Plugins

(* The bound on the calls that passed is kept: one more passes only where  *)
(* the count allows it.                                                    *)
LEMMA LimitedStep == Told /\ Counted /\ Limited /\ [Next]_vars => Limited'
<1> SUFFICES ASSUME Told, Counted, Limited, [Next]_vars PROVE Limited'
  OBVIOUS
<1>1. maxConcurrent \in Nat /\ maxConcurrent' = maxConcurrent
  <2>1. maxConcurrent \in Nat
    BY Assumptions DEF Told, Typed
  <2>2. ASSUME NEW c \in Calls, MiddleStep(c) \/ InjectContext(c) \/ Refuse(c) \/ InitPlugin(c) \/ EndPlugin(c)
        PROVE  fixed' = fixed
    BY <2>2 DEF MiddleStep, InjectContext, Refuse, InitPlugin, EndPlugin
  <2>3. fixed' = fixed
    BY <2>2, Steps
  <2> QED
    BY <2>1, <2>3 DEF fixed
<1>2. IsFiniteSet(Admitted) /\ Cardinality(Admitted) \in Nat
  BY Assumptions, FS_Subset, FS_CardinalityType DEF Admitted
<1>3. CASE Admitted' \subseteq Admitted
  <2>1. Cardinality(Admitted') <= Cardinality(Admitted) /\ Cardinality(Admitted') \in Nat
    BY <1>2, <1>3, FS_Subset, FS_CardinalityType
  <2> QED
    BY <1>1, <1>2, <2>1 DEF Limited
<1>4. CASE UNCHANGED << callVars, fixed, count, dict >>
  <2>1. pc' = pc /\ at' = at /\ order' = order
    BY <1>4 DEF callVars, fixed
  <2>2. Admitted' \subseteq Admitted
    BY <2>1 DEF Admitted, Passed
  <2> QED
    BY <1>3, <2>2
<1>5. ASSUME NEW c \in Calls, MiddleStep(c) PROVE Limited'
  <2>1. ASSUME NEW d \in Calls \ {c}, Passed(d)' PROVE Passed(d)
    <3>1. pc'[d] = pc[d] /\ at'[d] = at[d] /\ order' = order
      BY <1>5 DEF MiddleStep, Moved, fixed
    <3> QED
      BY <2>1, <3>1 DEF Passed
  <2>2. CASE ~Passed(c)' \/ Passed(c)
    <3>1. Admitted' \subseteq Admitted
      BY <2>1, <2>2 DEF Admitted
    <3> QED
      BY <1>3, <3>1
  <2>3. CASE Passed(c)' /\ ~Passed(c)
    <3>1. count <= maxConcurrent
      <4>1. ASSUME NEW p \in {"end", "done"}, Moved(c, p, 1) PROVE FALSE
        BY <2>3, <4>1 DEF Moved, Passed, Running
      <4> QED
        BY <1>5, <2>3, <4>1 DEF MiddleStep
    <3>2. Told' /\ UNCHANGED << inited, ended, count >>
      BY <1>5, MiddleKeepsTold DEF MiddleStep
    <3>3. Admitted' \subseteq Open /\ count = Cardinality(Open)
      <4>1. Admitted' \subseteq Open'
        <5>1. (Told => Admitted \subseteq Open)'
          BY AdmittedOpen, PTL
        <5> QED
          BY <3>2, <5>1
      <4>2. Open' = Open
        BY <3>2 DEF Open
      <4> QED
        BY <4>1, <4>2 DEF Counted
    <3>4. Cardinality(Admitted') <= Cardinality(Open) /\ Cardinality(Admitted') \in Nat
      BY <3>3, OpenFinite, FS_Subset, FS_CardinalityType
    <3> QED
      BY <1>1, <3>1, <3>3, <3>4, OpenFinite DEF Limited
  <2> QED
    BY <2>2, <2>3
<1>6. ASSUME NEW c \in Calls, InjectContext(c) \/ Refuse(c) \/ InitPlugin(c) \/ EndPlugin(c)
      PROVE  Limited'
  <2>1. Admitted' \subseteq Admitted
    BY <1>6, OutsideAdmitsNone
  <2> QED
    BY <1>3, <2>1
<1> QED
  BY <1>4, <1>5, <1>6, Steps

(* At first no call has passed.                                            *)
LEMMA LimitedInit == Init => Limited
<1> SUFFICES ASSUME Init PROVE Limited
  OBVIOUS
<1>1. Admitted = {}
  BY DEF Init, Admitted, Passed, Running
<1>2. maxConcurrent \in Nat
  BY Assumptions DEF Init
<1> QED
  BY <1>1, <1>2, FS_EmptySet DEF Limited

(* No more calls build and execute at a time than the limit allows, though *)
(* the check reads a count other calls change between Init and Check.      *)
THEOREM LimitHoldsCorrect == Spec => []LimitHolds
<1>1. ASSUME Limited, Told PROVE LimitHolds
  <2> DEFINE R == {c \in Calls : pc[c] \in Running}
  <2>1. R \subseteq Admitted
    BY DEF Admitted, Passed
  <2>2. IsFiniteSet(Admitted)
    BY Assumptions, FS_Subset DEF Admitted
  <2>3. Cardinality(R) <= Cardinality(Admitted) /\ Cardinality(R) \in Nat /\ Cardinality(Admitted) \in Nat
    BY <2>1, <2>2, FS_Subset, FS_CardinalityType
  <2>4. maxConcurrent \in Nat
    BY <1>1, Assumptions DEF Told, Typed
  <2> QED
    BY <1>1, <2>3, <2>4 DEF LimitHolds, Limited
<1>2. Spec => [](Told /\ Counted)
  BY CountedInit, CountedStep, ToldCorrect, PTL DEF Spec
<1>3. Spec => []Limited
  BY <1>2, LimitedInit, LimitedStep, PTL DEF Spec
<1> QED
  BY <1>1, <1>2, <1>3, PTL

-----------------------------------------------------------------------------
(* Contexts                                                                *)

Entered(c) == pc[c] \notin {"idle", "done"}
Executing(c) == pc[c] \in {"gate", "opening", "query"}

(* What a caller passed under the name of the context value.               *)
Given(d) == IF d \in Own THEN CallersOwn ELSE NoCall

(* What a call's params hold once it entered: in Go, where callers' maps   *)
(* stay as they are, its own context or what its caller passed; in .NET    *)
(* the context of a call that passes the same dictionary.                  *)
InGo ==
  /\ \A d \in Dicts : dict[d] = Given(d)
  /\ \A c \in Calls : Entered(c) => dict[c] = IF Skips(c) THEN Given(dictOf[c]) ELSE c
InNet ==
  /\ \A d \in Dicts : dict[d] \in Calls => dictOf[dict[d]] = d
  /\ \A c \in Calls : Entered(c) => dict[dictOf[c]] \in Calls

Held ==
  /\ dict \in [Dicts \cup Calls -> Calls \cup {NoCall, CallersOwn}]
  /\ bound \in [Calls -> Calls \cup {NoCall, CallersOwn}]
  /\ runtime = "go" => InGo
  /\ runtime = "net" => InNet

(* What OwnContext says of one call that has been built.                   *)
OwnOf(c) ==
  \/ bound[c] = c
  \/ runtime = "net" /\ bound[c] \in Calls /\ dictOf[bound[c]] = dictOf[c]
  \/ Skips(c) /\ bound[c] = Given(dictOf[c])

LEMMA OwnContextByCall == OwnContext <=> \A c \in Calls : Executing(c) => OwnOf(c)
BY DEF OwnContext, Executing, OwnOf, Given

(* A call's context value goes into its copy, or into the dictionary that  *)
(* its caller gave.                                                        *)
LEMMA InjectHolds ==
  ASSUME Typed, Held, NEW c \in Calls, InjectContext(c)
  PROVE  Held'
<1> DEFINE x == ParamsOf(c)
           v == IF Skips(c) THEN dict[dictOf[c]] ELSE c
<1>1. /\ UNCHANGED << bound, fixed >> /\ dict' = [dict EXCEPT ![x] = v]
      /\ pc' = [pc EXCEPT ![c] = "init"] /\ pc[c] = "idle"
  BY DEF InjectContext, Goto
<1>2. /\ runtime' = runtime /\ dictOf' = dictOf /\ bound' = bound
      /\ \A d \in Calls : Skips(d)' <=> Skips(d)
  BY <1>1 DEF fixed, Skips
<1>3. /\ dictOf \in [Calls -> Dicts] /\ pc \in [Calls -> Phases] /\ runtime \in {"go", "net"}
      /\ dict \in [Dicts \cup Calls -> Calls \cup {NoCall, CallersOwn}]
  BY DEF Typed, Held
<1>4. \A d \in Calls \ {c} : Entered(d)' => Entered(d)
  BY <1>1, <1>3 DEF Entered
<1>5. x \in Dicts \cup Calls /\ v \in Calls \cup {NoCall, CallersOwn}
  BY <1>3 DEF ParamsOf
<1>6. /\ dict' \in [Dicts \cup Calls -> Calls \cup {NoCall, CallersOwn}]
      /\ dict'[x] = v /\ \A y \in (Dicts \cup Calls) \ {x} : dict'[y] = dict[y]
  BY <1>1, <1>3, <1>5
<1>7. ASSUME runtime = "go" PROVE InGo'
  <2>1. x = c /\ c \notin Dicts /\ InGo
    BY <1>7, Assumptions DEF ParamsOf, Held
  <2>2. v = IF Skips(c) THEN Given(dictOf[c]) ELSE c
    BY <1>3, <2>1 DEF InGo
  <2>3. ASSUME NEW d \in Dicts PROVE dict'[d] = Given(d)
    BY <1>6, <2>1, <2>3 DEF InGo
  <2>4. ASSUME NEW d \in Calls, Entered(d)'
        PROVE  dict'[d] = IF Skips(d) THEN Given(dictOf[d]) ELSE d
    <3>1. CASE d = c
      BY <1>6, <2>1, <2>2, <3>1
    <3>2. CASE d # c
      BY <1>4, <1>6, <2>1, <2>4, <3>2 DEF InGo
    <3> QED
      BY <3>1, <3>2
  <2> QED
    BY <1>2, <2>3, <2>4 DEF InGo, Given
<1>8. ASSUME runtime = "net" PROVE InNet'
  <2>1. x = dictOf[c] /\ x \in Dicts /\ v = c /\ InNet
    BY <1>3, <1>8 DEF ParamsOf, Skips, Held
  <2>2. ASSUME NEW d \in Dicts, dict'[d] \in Calls PROVE dictOf'[dict'[d]] = d
    BY <1>2, <1>6, <2>1, <2>2 DEF InNet
  <2>3. ASSUME NEW d \in Calls, Entered(d)' PROVE dict'[dictOf'[d]] \in Calls
    <3>1. CASE dictOf[d] = x
      BY <1>2, <1>6, <2>1, <3>1
    <3>2. CASE dictOf[d] # x
      BY <1>2, <1>3, <1>4, <1>6, <2>1, <2>3, <3>2 DEF InNet
    <3> QED
      BY <3>1, <3>2
  <2> QED
    BY <2>2, <2>3 DEF InNet
<1> HIDE DEF x, v
<1> QED
  BY <1>2, <1>6, <1>7, <1>8 DEF Held

(* It has not been built then.                                             *)
LEMMA InjectKeepsOwn ==
  ASSUME Typed, OwnContext, NEW c \in Calls, InjectContext(c)
  PROVE  OwnContext'
<1>1. /\ UNCHANGED << bound, fixed >> /\ pc' = [pc EXCEPT ![c] = "init"] /\ pc \in [Calls -> Phases]
  BY DEF InjectContext, Goto, Typed
<1>2. ASSUME NEW d \in Calls, Executing(d)' PROVE OwnOf(d)'
  <2>1. Executing(d)
    BY <1>1, <1>2 DEF Executing
  <2>2. OwnOf(d)
    BY <2>1, OwnContextByCall
  <2> QED
    BY <1>1, <2>2 DEF OwnOf, Given, Skips, fixed
<1>3. (OwnContext <=> \A d \in Calls : Executing(d) => OwnOf(d))'
  BY DEF OwnContext, Executing, OwnOf, Given
<1> QED
  BY <1>2, <1>3

(* A statement is built with what its call's params hold.                  *)
LEMMA BuildHolds ==
  ASSUME Typed, Held, OwnContext, NEW c \in Calls, Build(c)
  PROVE  Held' /\ OwnContext'
<1> DEFINE e == dict[ParamsOf(c)]
<1>1. /\ UNCHANGED << dict, fixed >> /\ bound' = [bound EXCEPT ![c] = e] /\ pc[c] = "build"
      /\ \E p \in {"query", "gate", "end", "done"} : pc' = [pc EXCEPT ![c] = p]
  BY DEF Build, Goto, Fails, Throws
<1>2. /\ ParamsOf(c) \in Dicts \cup Calls /\ e \in Calls \cup {NoCall, CallersOwn}
      /\ dictOf \in [Calls -> Dicts] /\ pc \in [Calls -> Phases]
  BY DEF ParamsOf, Typed, Held
<1>3. /\ bound' \in [Calls -> Calls \cup {NoCall, CallersOwn}]
      /\ bound'[c] = e /\ \A d \in Calls \ {c} : bound'[d] = bound[d]
  BY <1>1, <1>2 DEF Held
<1>4. \A d \in Calls : Entered(d)' => Entered(d)
  BY <1>1, <1>2 DEF Entered
<1>5. Held'
  <2>1. runtime = "go" => InGo'
    BY <1>1, <1>4 DEF Held, InGo, Given, Skips, fixed
  <2>2. runtime = "net" => InNet'
    BY <1>1, <1>4 DEF Held, InNet, fixed
  <2> QED
    BY <1>1, <1>3, <2>1, <2>2 DEF Held, fixed
<1>6. OwnOf(c)'
  <2>1. Entered(c)
    BY <1>1 DEF Entered
  <2>2. CASE runtime = "go"
    <3>1. e = IF Skips(c) THEN Given(dictOf[c]) ELSE c
      BY <2>1, <2>2 DEF Held, InGo, ParamsOf
    <3> QED
      BY <1>1, <1>3, <3>1 DEF OwnOf, Given, Skips, fixed
  <2>3. CASE runtime = "net"
    <3>1. e = dict[dictOf[c]] /\ dictOf[c] \in Dicts
      BY <1>2, <2>3 DEF ParamsOf
    <3>2. e \in Calls /\ dictOf[e] = dictOf[c]
      BY <2>1, <2>3, <3>1 DEF Held, InNet
    <3> QED
      BY <1>1, <1>3, <2>3, <3>2 DEF OwnOf, fixed
  <2> QED
    BY <2>2, <2>3 DEF Typed
<1>7. ASSUME NEW d \in Calls, Executing(d)', d # c PROVE OwnOf(d)'
  <2>1. OwnOf(d)
    BY <1>1, <1>2, <1>7, OwnContextByCall DEF Executing
  <2> QED
    BY <1>1, <1>3, <1>7, <2>1 DEF OwnOf, Given, Skips, fixed
<1>8. (OwnContext <=> \A d \in Calls : Executing(d) => OwnOf(d))'
  BY DEF OwnContext, Executing, OwnOf, Given
<1> QED
  BY <1>5, <1>6, <1>7, <1>8

(* A step that touches neither params nor statements, and lets a call      *)
(* neither enter nor begin to execute.                                     *)
Aside ==
  /\ UNCHANGED << dict, bound, fixed >>
  /\ \A d \in Calls : (Entered(d)' => Entered(d)) /\ (Executing(d)' => Executing(d))

LEMMA AsideSteps ==
  ASSUME Typed, NEW c \in Calls, Step(c), ~InjectContext(c), ~Build(c)
  PROVE  Aside
<1>1. UNCHANGED << dict, bound, fixed >>
  BY DEF Step, Refuse, InitPlugin, BeginAuthorization, RunHook, HooksEnd, CheckPlugin,
         BeforePlugins, GoQuery, EnterGate, Opened, NetQuery, EndPlugin
<1>2. \/ pc' = pc
      \/ \E p \in Phases :
           /\ pc' = [pc EXCEPT ![c] = p]
           /\ p = "done" \/ pc[c] \notin {"idle", "done"}
           /\ p \in {"gate", "opening", "query"} => pc[c] \in {"gate", "opening", "query"}
  <2>1. Phases = Running \cup {"idle", "init", "authorize", "hooks", "check", "before", "end", "done"}
    BY DEF Phases, Middle
  <2>2. CASE Refuse(c) \/ InitPlugin(c) \/ BeginAuthorization(c) \/ EndPlugin(c)
    <3>1. \/ pc' = pc
          \/ Goto(c, "done")
          \/ /\ pc[c] \notin {"idle", "done"}
             /\ \E p \in {"authorize", "check", "hooks", "end"} : Goto(c, p)
      BY <2>2 DEF Refuse, InitPlugin, BeginAuthorization, EndPlugin, Stay, Advance, Throws, Fails
    <3> QED
      BY <2>1, <3>1 DEF Goto
  <2>3. CASE RunHook(c) \/ HooksEnd(c) \/ CheckPlugin(c) \/ BeforePlugins(c)
    <3>1. \/ pc' = pc
          \/ /\ pc[c] \notin {"idle", "done"}
             /\ \E p \in {"check", "before", "build", "end", "done"} : Goto(c, p)
      BY <2>3 DEF RunHook, HooksEnd, CheckPlugin, BeforePlugins, Stay, Advance, Throws, Fails
    <3> QED
      BY <2>1, <3>1 DEF Goto, Running
  <2>4. CASE GoQuery(c) \/ EnterGate(c) \/ Opened(c) \/ NetQuery(c)
    <3>1. /\ pc[c] \in {"gate", "opening", "query"}
          /\ \E p \in {"opening", "query", "end", "done"} : Goto(c, p)
      BY <2>4 DEF GoQuery, EnterGate, Opened, NetQuery, Throws, Fails
    <3> QED
      BY <2>1, <3>1 DEF Goto, Running
  <2> QED
    BY <2>2, <2>3, <2>4 DEF Step
<1>3. pc \in [Calls -> Phases]
  BY DEF Typed
<1> QED
  BY <1>1, <1>2, <1>3 DEF Aside, Entered, Executing

LEMMA AsideHolds ==
  ASSUME Held, OwnContext, Aside
  PROVE  Held' /\ OwnContext'
<1>1. Held'
  <2>1. runtime = "go" => InGo'
    BY DEF Held, InGo, Given, Skips, Aside, fixed
  <2>2. runtime = "net" => InNet'
    BY DEF Held, InNet, Aside, fixed
  <2> QED
    BY <2>1, <2>2 DEF Held, Aside, fixed
<1>2. ASSUME NEW d \in Calls, Executing(d)' PROVE OwnOf(d)'
  <2>1. OwnOf(d)
    BY <1>2, OwnContextByCall DEF Aside
  <2> QED
    BY <2>1 DEF OwnOf, Given, Skips, Aside, fixed
<1>3. (OwnContext <=> \A d \in Calls : Executing(d) => OwnOf(d))'
  BY DEF OwnContext, Executing, OwnOf, Given
<1> QED
  BY <1>1, <1>2, <1>3

(* What params hold, and what statements were built with, is kept by every *)
(* step.                                                                   *)
LEMMA HeldStep == Typed /\ Held /\ OwnContext /\ [Next]_vars => Held' /\ OwnContext'
<1> SUFFICES ASSUME Typed, Held, OwnContext, [Next]_vars PROVE Held' /\ OwnContext'
  OBVIOUS
<1>1. ASSUME UNCHANGED << pc, dict, bound, fixed >> PROVE Aside
  BY <1>1 DEF Aside, Entered, Executing
<1>2. ASSUME NEW h \in MayUnregister, Unregister(h) PROVE Aside
  BY <1>1, <1>2 DEF Unregister, callVars
<1>3. ASSUME Dispose \/ UNCHANGED vars PROVE Aside
  BY <1>1, <1>3 DEF Dispose, callVars, vars
<1> QED
  BY <1>2, <1>3, AsideSteps, AsideHolds, InjectHolds, InjectKeepsOwn, BuildHolds DEF Next

(* A statement is built with its own call's context value; in .NET it may  *)
(* be that of a call given the same dictionary, and never a value of the   *)
(* caller's own (Registry.cs:80); in Go it is the caller's own value, or   *)
(* none, exactly where the context lacks an optional one (registry.go:61,  *)
(* 174-198).                                                               *)
THEOREM OwnContextCorrect == Spec => []OwnContext
<1>1. Init => Held /\ OwnContext
  <2> SUFFICES ASSUME Init PROVE Held /\ OwnContext
    OBVIOUS
  <2>1. /\ dict = [d \in Dicts \cup Calls |-> IF d \in Own THEN CallersOwn ELSE NoCall]
        /\ bound = [c \in Calls |-> NoCall] /\ pc = [c \in Calls |-> "idle"]
    BY DEF Init
  <2>2. \A c \in Calls : ~Entered(c) /\ ~Executing(c)
    BY <2>1 DEF Entered, Executing
  <2>3. InGo
    BY <2>1, <2>2 DEF InGo, Given
  <2>4. InNet
    BY <2>1, <2>2, Assumptions DEF InNet
  <2>5. Held
    BY <2>1, <2>3, <2>4 DEF Held
  <2> QED
    BY <2>2, <2>5, OwnContextByCall
<1>2. Told => Typed
  BY DEF Told
<1> QED
  BY <1>1, <1>2, ToldCorrect, HeldStep, PTL DEF Spec

-----------------------------------------------------------------------------
(* The connection of .NET's in-memory DuckDB executor                      *)

(* Whoever opens it or runs a command holds the gate; it is closed while   *)
(* no call opens it only after an open failed.                             *)
Gated ==
  /\ conn \in {"none", "closed", "open", "disposed"}
  /\ \A c \in Calls : pc[c] \in {"opening", "query"} => gate = c
  /\ \A c \in Calls : pc[c] = "opening" => conn = "closed"
  /\ \A c \in Calls : pc[c] = "query" => conn \in {"closed", "open"}
  /\ conn = "closed" => openFailed \/ \E c \in Calls : pc[c] = "opening"

NetGated == runtime = "net" => Gated

(* A step away from the connection moves a call that does not use it.      *)
LEMMA AwayKeepsGated ==
  ASSUME Gated, NEW c \in Calls, NEW p \in Phases, NEW k \in Nat, Moved(c, p, k), UNCHANGED connVars,
         pc[c] \notin {"opening", "query"}, p \notin {"opening", "query"}
  PROVE  Gated'
<1>1. gate' = gate /\ conn' = conn /\ openFailed' = openFailed
  BY DEF connVars
<1>2. \A d \in Calls : pc'[d] \in {"opening", "query"} \/ pc[d] \in {"opening", "query"} => pc'[d] = pc[d]
  BY DEF Moved
<1> QED
  BY <1>1, <1>2 DEF Gated

(* One call at a time passes the gate.                                     *)
LEMMA EnterKeepsGated ==
  ASSUME Typed, Gated, NEW c \in Calls, EnterGate(c)
  PROVE  Gated'
<1>1. pc[c] = "gate" /\ gate = NoCall /\ openFailed' = openFailed
  BY DEF EnterGate
<1>2. \A d \in Calls : pc[d] \notin {"opening", "query"}
  BY <1>1, Assumptions DEF Gated
<1>3. {"end", "opening", "query"} \subseteq Phases
  BY DEF Phases, Middle, Running
<1>4. CASE conn = "disposed"
  <2>1. Moved(c, "end", 1) /\ UNCHANGED connVars
    BY <1>1, <1>4, FailsMoves DEF EnterGate, connVars
  <2> QED
    BY <1>1, <1>3, <2>1, AwayKeepsGated
<1>5. CASE conn = "none"
  <2>1. Moved(c, "opening", 1) /\ gate' = c /\ conn' = "closed"
    BY <1>3, <1>5, GotoMoves DEF EnterGate
  <2>2. pc'[c] = "opening" /\ \A d \in Calls \ {c} : pc'[d] \notin {"opening", "query"}
    BY <1>2, <2>1 DEF Moved
  <2> QED
    BY <2>1, <2>2 DEF Gated
<1>6. CASE conn \in {"closed", "open"}
  <2>1. Moved(c, "query", 1) /\ gate' = c /\ conn' = conn
    BY <1>3, <1>6, GotoMoves DEF EnterGate
  <2>2. pc'[c] = "query" /\ \A d \in Calls \ {c} : pc'[d] \notin {"opening", "query"}
    BY <1>2, <2>1 DEF Moved
  <2>3. conn = "closed" => openFailed
    BY <1>2 DEF Gated
  <2> QED
    BY <1>1, <1>6, <2>1, <2>2, <2>3 DEF Gated
<1> QED
  BY <1>4, <1>5, <1>6 DEF Gated

(* Only the call past the gate opens and uses the connection.              *)
LEMMA UseKeepsGated ==
  ASSUME Typed, Gated, NEW c \in Calls, Opened(c) \/ NetQuery(c)
  PROVE  Gated'
<1>1. \A d \in Calls \ {c} : pc[d] \notin {"opening", "query"}
  BY Assumptions DEF Opened, NetQuery, Gated
<1>2. {"end", "query"} \subseteq Phases
  BY DEF Phases, Middle, Running
<1>3. CASE /\ Opened(c) /\ conn' = "open" /\ Goto(c, "query")
           /\ UNCHANGED << gate, openFailed >>
  <2>1. Moved(c, "query", 1) /\ gate' = c
    BY <1>2, <1>3, GotoMoves DEF Opened, Gated
  <2>2. pc'[c] = "query" /\ \A d \in Calls \ {c} : pc'[d] \notin {"opening", "query"}
    BY <1>1, <2>1 DEF Moved
  <2> QED
    BY <1>3, <2>1, <2>2 DEF Gated
<1>4. CASE Opened(c) /\ Fails(c) /\ gate' = NoCall /\ openFailed' = TRUE /\ conn' = conn
  <2>1. pc' \in [Calls -> Phases] /\ \A d \in Calls : pc'[d] \notin {"opening", "query"}
    BY <1>1, <1>4, FailsMoves DEF Moved
  <2> QED
    BY <1>4, <2>1 DEF Gated
<1>5. CASE NetQuery(c)
  <2>1. /\ Fails(c) \/ Goto(c, "end")
        /\ conn' = conn /\ openFailed' = openFailed /\ conn \in {"closed", "open"}
    BY <1>5 DEF NetQuery, Gated
  <2>2. Moved(c, "end", 1)
    BY <1>2, <2>1, FailsMoves, GotoMoves
  <2>3. \A d \in Calls : pc'[d] \notin {"opening", "query"}
    BY <1>1, <2>2 DEF Moved
  <2>4. pc[c] = "query"
    BY <1>5 DEF NetQuery
  <2>5. conn = "closed" => openFailed
    BY <1>1, <2>4 DEF Gated
  <2> QED
    BY <2>1, <2>3, <2>5 DEF Gated
<1> QED
  BY <1>3, <1>4, <1>5 DEF Opened

(* The steps of calls elsewhere leave gate and connection alone.           *)
LEMMA AwaySteps ==
  ASSUME Typed, NEW c \in Calls, Step(c), runtime = "net",
         ~EnterGate(c), ~Opened(c), ~NetQuery(c)
  PROVE  /\ UNCHANGED connVars /\ pc[c] \notin {"opening", "query"}
         /\ \E p \in Phases \ {"opening", "query"}, k \in Nat : Moved(c, p, k)
<1>1. UNCHANGED connVars /\ pc[c] \notin {"opening", "query"}
  BY DEF Step, InjectContext, Refuse, InitPlugin, BeginAuthorization, RunHook, HooksEnd, CheckPlugin,
         BeforePlugins, Build, GoQuery, EndPlugin
<1>2. Phases \ {"opening", "query"} =
        {"idle", "init", "authorize", "hooks", "check", "before", "build", "gate", "end", "done"}
  BY DEF Phases, Middle, Running
<1>3. \/ Fails(c) \/ Stay(c)
      \/ \E p \in Phases \ {"opening", "query"} : Goto(c, p)
  BY <1>2 DEF Step, InjectContext, Refuse, InitPlugin, BeginAuthorization, RunHook, HooksEnd, CheckPlugin,
         BeforePlugins, Build, GoQuery, EndPlugin, Advance, Throws
<1>4. 1 \in Nat /\ at[c] + 1 \in Nat /\ pc[c] \in Phases
  BY DEF Typed
<1> QED
  BY <1>1, <1>2, <1>3, <1>4, FailsMoves, StayMoves, GotoMoves

(* Each of them takes one call and, in .NET, keeps the gate's discipline.  *)
LEMMA GatedStep == Typed /\ NetGated /\ [Next]_vars => NetGated'
<1> SUFFICES ASSUME Typed, runtime = "net", Gated, [Next]_vars PROVE Gated'
  <2>1. [Next]_vars => runtime' = runtime
    BY DEF Next, Step, InjectContext, Refuse, InitPlugin, BeginAuthorization, RunHook, HooksEnd,
           CheckPlugin, BeforePlugins, Build, GoQuery, EnterGate, Opened, NetQuery, EndPlugin,
           Unregister, Dispose, vars, fixed
  <2> QED
    BY <2>1 DEF NetGated
<1>1. CASE UNCHANGED << pc, connVars >>
  BY <1>1 DEF Gated, connVars
<1>2. ASSUME NEW c \in Calls, Step(c) PROVE Gated'
  <2>1. CASE EnterGate(c) \/ Opened(c) \/ NetQuery(c)
    BY <2>1, EnterKeepsGated, UseKeepsGated
  <2>2. CASE ~EnterGate(c) /\ ~Opened(c) /\ ~NetQuery(c)
    BY <1>2, <2>2, AwaySteps, AwayKeepsGated
  <2> QED
    BY <2>1, <2>2
<1>3. ASSUME NEW h \in MayUnregister, Unregister(h) PROVE UNCHANGED << pc, connVars >>
  BY <1>3 DEF Unregister, callVars
<1>4. CASE Dispose
  <2>1. gate = NoCall /\ conn' = "disposed" /\ UNCHANGED << pc, gate, openFailed >>
    BY <1>4 DEF Dispose, callVars
  <2>2. \A c \in Calls : pc[c] \notin {"opening", "query"}
    BY <2>1, Assumptions DEF Gated
  <2> QED
    BY <2>1, <2>2 DEF Gated
<1>5. UNCHANGED vars => UNCHANGED << pc, connVars >>
  BY DEF vars, callVars
<1> QED
  BY <1>1, <1>2, <1>3, <1>4, <1>5 DEF Next

(* The in-memory connection serves one command at a time, an open one      *)
(* unless an open failed (DuckDBExecutor.cs:40-88).                        *)
THEOREM CommandsHaveConnectionCorrect == Spec => []CommandsHaveConnection
<1>1. Init => Gated
  BY DEF Init, Gated
<1>2. NetGated => CommandsHaveConnection
  <2> SUFFICES ASSUME Gated, NEW c \in Calls, pc[c] = "query"
               PROVE  /\ conn = "open" \/ openFailed
                      /\ \A d \in Calls \ {c} : pc[d] \notin {"opening", "query"}
    BY DEF CommandsHaveConnection, NetGated
  <2>1. gate = c /\ conn \in {"closed", "open"}
    BY DEF Gated
  <2> QED
    BY <2>1 DEF Gated
<1>3. Told => Typed
  BY DEF Told
<1>4. Init => NetGated
  BY <1>1 DEF NetGated
<1> QED
  BY <1>2, <1>3, <1>4, GatedStep, ToldCorrect, PTL DEF Spec

-----------------------------------------------------------------------------
(* Authorization while hooks are unregistered                              *)

(* No two hooks share their code, so Go removes the hook it was asked to.  *)
CodesDistinct == \A g, h \in ToSet(Hooks) : CodeOf[g] = CodeOf[h] => g = h
Removes == runtime = "net" \/ CodesDistinct

Present == {hooks[i] : i \in 1..len}

(* The list still has every hook that was not unregistered.                *)
HooksKept ==
  /\ hooks \in Seq(ToSet(Hooks)) /\ len \in 0..Len(hooks) /\ version \in Nat
  /\ seen \in [Calls -> Nat] /\ ran \in [Calls -> SUBSET ToSet(Hooks)]
  /\ due \in [Calls -> SUBSET ToSet(Hooks)]
  /\ ToSet(Hooks) \ removed \subseteq Present

(* A loop nobody removed a hook under has run those before its place.      *)
InStep(c) ==
  /\ at[c] \in 1..(len + 1) /\ due[c] \subseteq Present
  /\ \A i \in 1..(at[c] - 1) : hooks[i] \in ran[c]

NetLoop(c) == seen[c] <= version /\ (seen[c] = version => InStep(c))
GoLoop(c) == c \in disturbed \/ (seen[c] = len /\ at[c] <= len /\ InStep(c))

LoopOK(c) ==
  pc[c] = "hooks" => /\ at[c] >= 1
                     /\ runtime = "net" => NetLoop(c)
                     /\ runtime = "go" => GoLoop(c) /\ seen[c] <= Len(hooks)

Authorized == Running \cup {"check", "before"}
Excused(c) == runtime = "go" /\ c \in disturbed

AllowOK(c) == c \in Tagged /\ pc[c] \in Authorized => (due[c] \subseteq ran[c] \/ Excused(c))

Asked == HooksKept /\ \A c \in Calls : LoopOK(c) /\ AllowOK(c)
AskedIfRemoves == Removes => Asked

(* At first every hook is in the list and no call in its loop.             *)
LEMMA AskedInit == Init => Asked
<1> SUFFICES ASSUME Init PROVE Asked
  OBVIOUS
<1>1. hooks = Hooks /\ len = Len(Hooks) /\ version = 0 /\ removed = {} /\ Hooks \in Seq(ToSet(Hooks))
  BY Assumptions DEF Init
<1>2. Len(Hooks) \in Nat /\ DOMAIN Hooks = 1..Len(Hooks)
  BY <1>1
<1>3. ToSet(Hooks) \subseteq Present
  BY <1>1, <1>2 DEF Present, ToSet
<1>4. HooksKept
  BY <1>1, <1>2, <1>3 DEF HooksKept, Init
<1>5. ASSUME NEW c \in Calls PROVE LoopOK(c) /\ AllowOK(c)
  <2>1. pc[c] = "idle"
    BY DEF Init
  <2> QED
    BY <2>1 DEF LoopOK, AllowOK, Authorized, Running
<1> QED
  BY <1>4, <1>5 DEF Asked

(* Nothing of the hooks, nor of this call, changed.                        *)
ListSame == UNCHANGED << hooks, len, version, removed, runtime, disturbed >>

(* What was asked of a call is kept by steps of others that leave the list *)
(* alone.                                                                  *)
LEMMA CallKeepsAsked ==
  ASSUME NEW d \in Calls, LoopOK(d), AllowOK(d), ListSame,
         pc'[d] = pc[d], at'[d] = at[d], seen'[d] = seen[d], ran'[d] = ran[d], due'[d] = due[d]
  PROVE  LoopOK(d)' /\ AllowOK(d)'
<1>1. Present' = Present
  BY DEF Present, ListSame
<1>2. InStep(d) => InStep(d)'
  BY <1>1 DEF InStep, ListSame
<1>3. LoopOK(d)'
  BY <1>2 DEF LoopOK, NetLoop, GoLoop, ListSame
<1>4. AllowOK(d)'
  BY DEF AllowOK, Excused, ListSame
<1> QED
  BY <1>3, <1>4

(* The steps of a call outside the loop: into the phases that need an      *)
(* authorization a tagged call comes only from another of them.            *)
LEMMA OutsideSteps ==
  ASSUME Typed, NEW c \in Calls, Step(c),
         ~BeginAuthorization(c), ~RunHook(c), ~HooksEnd(c)
  PROVE  /\ ListSame /\ UNCHANGED << seen, ran, due >>
         /\ \E p \in Phases, k \in Nat :
              /\ Moved(c, p, k) /\ p # "hooks"
              /\ c \in Tagged /\ p \in Authorized => pc[c] \in Authorized
<1>1. ListSame /\ UNCHANGED << seen, ran, due >>
  BY DEF Step, InjectContext, Refuse, InitPlugin, CheckPlugin, BeforePlugins, Build, GoQuery,
         EnterGate, Opened, NetQuery, EndPlugin, ListSame, hookVars, fixed
<1>2. at[c] + 1 \in Nat /\ 1 \in Nat /\ pc[c] \in Phases
  BY DEF Typed
<1>3. /\ {"init", "end", "done", "authorize", "check", "before"} \cup Running \subseteq Phases
      /\ {"check", "before"} \cup Running = Authorized
      /\ {"init", "end", "done", "authorize"} \cap Authorized = {} /\ "hooks" \notin Authorized
  BY DEF Phases, Middle, Authorized, Running
<1>4. CASE Fails(c) \/ Throws(c)
  <2>1. Moved(c, "end", 1) \/ Moved(c, "done", 1)
    BY <1>4, FailsMoves, ThrowsMoves
  <2> QED
    BY <1>1, <1>2, <1>3, <2>1
<1>5. CASE pc[c] # "hooks" /\ Stay(c)
  BY <1>1, <1>2, <1>5, StayMoves
<1>6. ASSUME NEW p \in {"init", "end", "done", "authorize"}, Goto(c, p)
      PROVE  Moved(c, p, 1) /\ p \in Phases /\ p # "hooks" /\ p \notin Authorized
  BY <1>3, <1>6, GotoMoves
<1>7. ASSUME NEW p \in Authorized, Goto(c, p)
      PROVE  Moved(c, p, 1) /\ p \in Phases /\ p # "hooks"
  BY <1>3, <1>7, GotoMoves
<1>8. \/ Fails(c) \/ Throws(c)
      \/ pc[c] # "hooks" /\ Stay(c)
      \/ \E p \in {"init", "end", "done", "authorize"} : Goto(c, p)
      \/ \E p \in Authorized : Goto(c, p) /\ (c \notin Tagged \/ pc[c] \in Authorized)
  BY <1>3 DEF Step, InjectContext, Refuse, InitPlugin, CheckPlugin, BeforePlugins, Build, GoQuery,
         EnterGate, Opened, NetQuery, EndPlugin, Advance, Running
<1> QED
  BY <1>1, <1>2, <1>4, <1>5, <1>6, <1>7, <1>8

(* Steps outside the hooks' loop keep what was asked.                      *)
LEMMA OutsideKeepsAsked ==
  ASSUME Typed, Asked, NEW c \in Calls, Step(c),
         ~BeginAuthorization(c), ~RunHook(c), ~HooksEnd(c)
  PROVE  Asked'
<1>1. ListSame /\ UNCHANGED << seen, ran, due >>
  BY OutsideSteps
<1>2. PICK p \in Phases, k \in Nat :
        /\ Moved(c, p, k) /\ p # "hooks"
        /\ c \in Tagged /\ p \in Authorized => pc[c] \in Authorized
  BY OutsideSteps
<1>3. HooksKept'
  BY <1>1 DEF Asked, HooksKept, Present, ListSame
<1>4. ASSUME NEW d \in Calls \ {c} PROVE LoopOK(d)' /\ AllowOK(d)'
  <2>1. LoopOK(d) /\ AllowOK(d) /\ pc'[d] = pc[d] /\ at'[d] = at[d]
    BY <1>2 DEF Asked, Moved
  <2> QED
    BY <1>1, <2>1, CallKeepsAsked
<1>5. LoopOK(c)' /\ AllowOK(c)'
  <2>1. pc'[c] = p /\ AllowOK(c)
    BY <1>2 DEF Moved, Asked
  <2> QED
    BY <1>1, <1>2, <2>1 DEF LoopOK, AllowOK, Excused, ListSame
<1> QED
  BY <1>3, <1>4, <1>5 DEF Asked

(* A step of the loop itself; the rest of Asked then follows.              *)
LEMMA LoopKeepsAsked ==
  ASSUME Typed, Asked, NEW c \in Calls, ListSame, NEW p \in Phases, NEW k \in Nat, Moved(c, p, k),
         seen' \in [Calls -> Nat], ran' \in [Calls -> SUBSET ToSet(Hooks)],
         due' \in [Calls -> SUBSET ToSet(Hooks)],
         \A d \in Calls \ {c} : seen'[d] = seen[d] /\ ran'[d] = ran[d] /\ due'[d] = due[d],
         LoopOK(c)', AllowOK(c)'
  PROVE  Asked'
<1>1. HooksKept'
  BY DEF Asked, HooksKept, Present, ListSame
<1>2. ASSUME NEW d \in Calls \ {c} PROVE LoopOK(d)' /\ AllowOK(d)'
  <2>1. LoopOK(d) /\ AllowOK(d) /\ pc'[d] = pc[d] /\ at'[d] = at[d]
    BY DEF Asked, Moved
  <2> QED
    BY <2>1, CallKeepsAsked
<1> QED
  BY <1>1, <1>2 DEF Asked

(* A loop begins with all hooks present before it.                         *)
LEMMA BeginKeepsAsked ==
  ASSUME Typed, Asked, NEW c \in Calls, BeginAuthorization(c)
  PROVE  Asked'
<1> DEFINE empty == runtime = "go" /\ len = 0
<1>1. /\ seen' = [seen EXCEPT ![c] = IF runtime = "go" THEN len ELSE version]
      /\ due' = [due EXCEPT ![c] = ToSet(Hooks) \ removed] /\ ran' = ran
      /\ ListSame
  BY DEF BeginAuthorization, ListSame, hookVars, fixed
<1>2. /\ hooks \in Seq(ToSet(Hooks)) /\ len \in Nat /\ len <= Len(hooks) /\ version \in Nat
      /\ seen \in [Calls -> Nat] /\ ran \in [Calls -> SUBSET ToSet(Hooks)]
      /\ due \in [Calls -> SUBSET ToSet(Hooks)]
      /\ ToSet(Hooks) \ removed \subseteq Present
  BY DEF Asked, HooksKept
<1>3. /\ seen' \in [Calls -> Nat] /\ seen'[c] = (IF runtime = "go" THEN len ELSE version)
      /\ \A d \in Calls \ {c} : seen'[d] = seen[d]
  BY <1>1, <1>2
<1>4. /\ due' \in [Calls -> SUBSET ToSet(Hooks)] /\ due'[c] = ToSet(Hooks) \ removed
      /\ \A d \in Calls \ {c} : due'[d] = due[d]
  BY <1>1, <1>2
<1>5. Present' = Present /\ hooks' = hooks /\ len' = len /\ version' = version /\ runtime' = runtime
  BY <1>1 DEF Present, ListSame
<1>6. PICK p \in {"check", "hooks"} : Moved(c, p, 1) /\ (p = "check" <=> empty)
  <2>1. "check" \in Phases /\ "hooks" \in Phases
    BY DEF Phases, Middle
  <2>2. Goto(c, IF empty THEN "check" ELSE "hooks")
    BY DEF BeginAuthorization
  <2> QED
    BY <2>1, <2>2, GotoMoves
<1>7. pc'[c] = p /\ at'[c] = 1
  BY <1>6 DEF Moved
<1>8. InStep(c)'
  BY <1>2, <1>4, <1>5, <1>7 DEF InStep
<1>9. LoopOK(c)'
  <2>1. p = "hooks" /\ runtime = "go" => seen'[c] = len /\ at'[c] <= len /\ seen'[c] <= Len(hooks')
    BY <1>2, <1>3, <1>5, <1>6, <1>7
  <2>2. runtime = "net" => seen'[c] = version /\ version <= version
    BY <1>2, <1>3
  <2> QED
    BY <1>5, <1>7, <1>8, <2>1, <2>2 DEF LoopOK, NetLoop, GoLoop
<1>10. AllowOK(c)'
  <2>1. CASE empty
    <3>1. Present = {}
      BY <2>1 DEF Present
    <3> QED
      BY <1>2, <1>4, <3>1 DEF AllowOK
  <2>2. CASE ~empty
    BY <1>6, <1>7, <2>2 DEF AllowOK, Authorized, Running
  <2> QED
    BY <2>1, <2>2
<1>11. p \in Phases /\ 1 \in Nat
  BY DEF Phases, Middle
<1> QED
  BY <1>1, <1>2, <1>3, <1>4, <1>6, <1>9, <1>10, <1>11, LoopKeepsAsked

(* One hook more has run, the last one for a Go loop that ends.            *)
LEMMA AskKeepsAsked ==
  ASSUME Typed, Asked, NEW c \in Calls, RunHook(c), ran' = [ran EXCEPT ![c] = @ \cup {hooks[at[c]]}],
         IF runtime = "go" THEN Advance(c, seen[c], "check") ELSE Stay(c)
  PROVE  Asked'
<1>1. /\ ListSame /\ seen' = seen /\ due' = due /\ pc[c] = "hooks"
      /\ runtime = "net" => seen[c] = version
  BY DEF RunHook, ListSame, hookVars, fixed
<1>0. /\ runtime = "go" => at[c] <= seen[c]
      /\ runtime # "go" => at[c] <= len
  BY DEF RunHook
<1>2. /\ hooks \in Seq(ToSet(Hooks)) /\ len \in 0..Len(hooks) /\ version \in Nat
      /\ seen \in [Calls -> Nat] /\ ran \in [Calls -> SUBSET ToSet(Hooks)]
      /\ due \in [Calls -> SUBSET ToSet(Hooks)] /\ LoopOK(c)
  BY DEF Asked, HooksKept
<1>3. at \in [Calls -> Nat] /\ runtime \in {"go", "net"}
  BY DEF Typed
<1> DEFINE free == runtime = "net" \/ c \notin disturbed
<1>4. free => /\ InStep(c) /\ at[c] \in 1..len
              /\ runtime = "go" => seen[c] = len
  <2>1. ASSUME runtime = "net" PROVE InStep(c)
    BY <1>1, <1>2, <2>1 DEF LoopOK, NetLoop
  <2>2. ASSUME runtime = "go", c \notin disturbed PROVE InStep(c) /\ seen[c] = len /\ at[c] <= len
    BY <1>1, <1>2, <2>2 DEF LoopOK, GoLoop
  <2>3. at[c] \in Nat /\ 1 <= at[c] /\ len \in Nat
    BY <1>1, <1>2, <1>3 DEF LoopOK
  <2> QED
    BY <1>0, <1>3, <2>1, <2>2, <2>3
<1>5. /\ ran'[c] = ran[c] \cup {hooks[at[c]]} /\ \A d \in Calls \ {c} : ran'[d] = ran[d]
  BY <1>2
<1>6. /\ Present' = Present /\ hooks' = hooks /\ len' = len /\ version' = version
      /\ runtime' = runtime /\ disturbed' = disturbed
  BY <1>1 DEF Present, ListSame
<1>7. free => \A i \in 1..at[c] : hooks[i] \in ran'[c]
  BY <1>3, <1>4, <1>5 DEF InStep
<1>8. PICK p \in {"check", "hooks"}, k \in Nat :
        /\ Moved(c, p, k)
        /\ \/ p = "hooks" /\ k = at[c] + 1 /\ (runtime = "go" => at[c] # seen[c])
           \/ p = "check" /\ runtime = "go" /\ at[c] = seen[c]
  <2>1. "check" \in Phases /\ 1 \in Nat /\ at[c] + 1 \in Nat
    BY <1>3 DEF Phases, Middle
  <2>2. CASE runtime = "go"
    <3>1. Advance(c, seen[c], "check")
      BY <2>2
    <3> QED
      BY <1>1, <2>1, <2>2, <3>1, AdvanceMoves
  <2>3. CASE runtime # "go"
    <3>1. Stay(c)
      BY <2>3
    <3> QED
      BY <1>1, <2>1, <2>3, <3>1, StayMoves
  <2> QED
    BY <2>2, <2>3
<1>9. pc'[c] = p /\ at'[c] = k
  BY <1>8 DEF Moved
<1>10. LoopOK(c)' /\ AllowOK(c)'
  <2>1. CASE p = "hooks"
    <3>1. k = at[c] + 1 /\ at[c] \in Nat
      BY <1>3, <1>8, <2>1
    <3>2. free => InStep(c)'
      <4>1. free => k \in 1..(len + 1) /\ due[c] \subseteq Present
        BY <1>2, <1>4, <3>1 DEF InStep
      <4>2. 1..(k - 1) = 1..at[c]
        BY <3>1
      <4>3. due'[c] = due[c]
        BY <1>1
      <4> QED
        BY <1>6, <1>7, <1>9, <4>1, <4>2, <4>3 DEF InStep
    <3>3. runtime = "go" /\ free => k <= len
      <4> SUFFICES ASSUME runtime = "go", free PROVE k <= len
        OBVIOUS
      <4>1. at[c] # len /\ at[c] \in 1..len /\ len \in Nat
        BY <1>2, <1>4, <1>8, <2>1
      <4> QED
        BY <3>1, <4>1
    <3>4. LoopOK(c)'
      <4>1. seen'[c] = seen[c] /\ pc[c] = "hooks" /\ at'[c] >= 1
        BY <1>1, <1>9, <3>1
      <4>2. runtime = "go" => seen[c] <= Len(hooks)
        BY <1>2, <4>1 DEF LoopOK
      <4>3. runtime = "net" => NetLoop(c)'
        BY <1>1, <1>2, <1>6, <3>2, <4>1 DEF NetLoop, LoopOK
      <4>4. runtime = "go" => GoLoop(c)'
        BY <1>4, <1>6, <1>9, <3>2, <3>3, <4>1 DEF GoLoop
      <4> QED
        BY <1>6, <4>1, <4>2, <4>3, <4>4 DEF LoopOK
    <3> QED
      BY <1>9, <2>1, <3>4 DEF AllowOK, Authorized, Running
  <2>2. CASE p = "check"
    <3>1. runtime = "go" /\ at[c] = seen[c]
      BY <1>8, <2>2
    <3>2. c \notin disturbed => due[c] \subseteq ran'[c]
      BY <1>4, <1>7, <3>1 DEF InStep, Present
    <3> QED
      BY <1>1, <1>6, <1>9, <2>2, <3>1, <3>2 DEF LoopOK, AllowOK, Excused
  <2> QED
    BY <2>1, <2>2
<1>11. p \in Phases
  BY DEF Phases, Middle
<1>12. ran' \in [Calls -> SUBSET ToSet(Hooks)]
  <2>1. at[c] \in Nat /\ 1 <= at[c] /\ (runtime = "go" => seen[c] <= Len(hooks)) /\ seen[c] \in Nat
    BY <1>1, <1>2, <1>3 DEF LoopOK
  <2>2. at[c] \in 1..Len(hooks)
    BY <1>0, <1>2, <1>3, <2>1
  <2>3. hooks[at[c]] \in ToSet(Hooks)
    BY <1>2, <2>2
  <2> QED
    BY <1>2, <2>3
<1> QED
  BY <1>1, <1>2, <1>5, <1>8, <1>10, <1>11, <1>12, LoopKeepsAsked

(* A denied call, or one whose hook threw, is on its way out.              *)
LEMMA LeavingKeepsAsked ==
  ASSUME Typed, Asked, NEW c \in Calls, ListSame, UNCHANGED << seen, ran, due >>, Fails(c) \/ Throws(c)
  PROVE  Asked'
<1>1. Moved(c, "end", 1) \/ Moved(c, "done", 1)
  BY FailsMoves, ThrowsMoves
<1>2. LoopOK(c)' /\ AllowOK(c)'
  BY <1>1 DEF Moved, LoopOK, AllowOK, Authorized, Running
<1>3. "end" \in Phases /\ "done" \in Phases /\ 1 \in Nat
  BY DEF Phases
<1>4. /\ seen' \in [Calls -> Nat] /\ ran' \in [Calls -> SUBSET ToSet(Hooks)]
      /\ due' \in [Calls -> SUBSET ToSet(Hooks)]
  BY DEF Asked, HooksKept
<1> QED
  BY <1>1, <1>2, <1>3, <1>4, LoopKeepsAsked

(* A .NET loop that ends over an unchanged list has run all of it.         *)
LEMMA HooksEndKeepsAsked ==
  ASSUME Typed, Asked, NEW c \in Calls, HooksEnd(c)
  PROVE  Asked'
<1>1. ListSame /\ UNCHANGED << seen, ran, due >> /\ pc[c] = "hooks" /\ runtime = "net"
  BY DEF HooksEnd, ListSame, hookVars, fixed
<1>2. CASE Fails(c)
  BY <1>1, <1>2, LeavingKeepsAsked
<1>3. CASE seen[c] = version /\ at[c] > len /\ Goto(c, "check")
  <2>1. InStep(c) /\ len \in Nat /\ at[c] \in Nat
    BY <1>1, <1>3 DEF Asked, HooksKept, LoopOK, NetLoop, Typed
  <2>2. due[c] \subseteq ran[c]
    BY <1>3, <2>1 DEF InStep, Present
  <2>3. "check" \in Phases /\ 1 \in Nat
    BY DEF Phases, Middle
  <2>4. Moved(c, "check", 1)
    BY <1>3, <2>3, GotoMoves
  <2>5. LoopOK(c)' /\ AllowOK(c)'
    BY <1>1, <2>2, <2>4 DEF Moved, LoopOK, AllowOK
  <2>6. /\ seen' \in [Calls -> Nat] /\ ran' \in [Calls -> SUBSET ToSet(Hooks)]
        /\ due' \in [Calls -> SUBSET ToSet(Hooks)]
    BY <1>1 DEF Asked, HooksKept
  <2> QED
    BY <1>1, <2>3, <2>4, <2>5, <2>6, LoopKeepsAsked
<1> QED
  BY <1>2, <1>3 DEF HooksEnd

(* The first hook that is the one to unregister leaves the list, and only  *)
(* that one: the others are still in it.                                   *)
LEMMA UnregisterRemoves ==
  ASSUME Typed, Removes, Asked, NEW h \in MayUnregister, Unregister(h)
  PROVE  /\ hooks' \in Seq(ToSet(Hooks)) /\ len' \in 0..Len(hooks') /\ version' = version + 1
         /\ removed' = removed \cup {h} /\ Present \ {h} \subseteq Present'
         /\ runtime = "go" => Len(hooks') = Len(hooks)
<1> DEFINE same(i) == IF runtime = "go" THEN CodeOf[hooks[i]] = CodeOf[h] ELSE hooks[i] = h
           found == {i \in 1..len : same(i)}
           first == CHOOSE i \in found : \A j \in found : i <= j
           size == IF runtime = "go" THEN Len(hooks) ELSE len - 1
           left == [i \in 1..size |-> IF i >= first /\ i < len THEN hooks[i + 1] ELSE hooks[i]]
<1>1. /\ h \notin removed /\ removed' = removed \cup {h}
      /\ found # {} => hooks' = left /\ len' = len - 1 /\ version' = version + 1
  BY DEF Unregister
<1>2. /\ hooks \in Seq(ToSet(Hooks)) /\ len \in 0..Len(hooks) /\ version \in Nat
      /\ ToSet(Hooks) \ removed \subseteq Present /\ h \in ToSet(Hooks)
  BY Assumptions DEF Asked, HooksKept
<1>3. Len(hooks) \in Nat /\ len \in Nat /\ \A i \in 1..len : hooks[i] \in ToSet(Hooks)
  BY <1>2
<1>4. \A i \in 1..len : same(i) <=> hooks[i] = h
  BY <1>2, <1>3 DEF Removes, CodesDistinct, Typed
<1>5. found # {}
  <2>1. h \in Present
    BY <1>1, <1>2
  <2> QED
    BY <1>4, <2>1 DEF Present
<1>6. first \in found
  <2>1. \E i \in found : \A j \in found : i <= j
    <3>1. found \subseteq Nat
      BY <1>3
    <3> HIDE DEF found
    <3> QED
      BY <1>5, <3>1, SmallestNat
  <2> QED
    BY <2>1
<1>7. first \in 1..len /\ hooks[first] = h
  BY <1>4, <1>6
<1> HIDE DEF first, found
<1>8. size \in Nat /\ len - 1 \in 0..size /\ (runtime # "go" => size = len - 1) /\ size <= Len(hooks)
  BY <1>2, <1>3, <1>7
<1>9. hooks' = left /\ len' = len - 1 /\ version' = version + 1
  BY <1>1, <1>5
<1>10. left \in Seq(ToSet(Hooks)) /\ Len(left) = size
  <2>1. ASSUME NEW i \in 1..size PROVE left[i] \in ToSet(Hooks)
    <3>1. i \in 1..Len(hooks) /\ (i < len => i + 1 \in 1..Len(hooks))
      BY <1>2, <1>3, <1>8
    <3> QED
      BY <1>2, <3>1
  <2>2. left \in [1..size -> ToSet(Hooks)]
    BY <2>1
  <2> HIDE DEF left, size
  <2> QED
    BY <1>8, <2>2
<1>11. Present \ {h} \subseteq Present'
  <2> SUFFICES ASSUME NEW i \in 1..len, hooks[i] # h PROVE \E j \in 1..(len - 1) : left[j] = hooks[i]
    <3> HIDE DEF left
    <3>1. Present' = {left[j] : j \in 1..(len - 1)}
      BY <1>9 DEF Present
    <3> QED
      BY <3>1 DEF Present
  <2>1. i # first
    BY <1>7
  <2>2. CASE i < first
    <3>1. i \in 1..(len - 1) /\ i \in 1..size /\ ~(i >= first)
      BY <1>3, <1>7, <1>8, <2>2
    <3>2. left[i] = hooks[i]
      BY <3>1
    <3> QED
      BY <3>1, <3>2
  <2>3. CASE i > first
    <3>1. i - 1 \in 1..(len - 1) /\ i - 1 \in 1..size /\ i - 1 >= first /\ i - 1 < len /\ (i - 1) + 1 = i
      BY <1>3, <1>7, <1>8, <2>3
    <3>2. left[i - 1] = hooks[i]
      BY <3>1
    <3> QED
      BY <3>1, <3>2
  <2>4. i < first \/ i > first
    BY <1>3, <1>7, <2>1
  <2> QED
    BY <2>2, <2>3, <2>4
<1> QED
  BY <1>1, <1>8, <1>9, <1>10, <1>11

(* Unregistering takes its hook from what is due, and shifts no other out  *)
(* of the list.                                                            *)
LEMMA UnregisterKeepsAsked ==
  ASSUME Typed, Removes, Asked, NEW h \in MayUnregister, Unregister(h)
  PROVE  Asked'
<1>1. /\ hooks' \in Seq(ToSet(Hooks)) /\ len' \in 0..Len(hooks') /\ version' = version + 1
      /\ removed' = removed \cup {h} /\ Present \ {h} \subseteq Present'
      /\ runtime = "go" => Len(hooks') = Len(hooks)
  BY UnregisterRemoves
<1>2. /\ UNCHANGED << pc, at, seen, ran, runtime >>
      /\ due' = [c \in Calls |-> IF pc[c] = "hooks" THEN due[c] \ {h} ELSE due[c]]
      /\ disturbed' = disturbed \cup {c \in Calls : pc[c] = "hooks"}
  BY DEF Unregister, callVars, fixed
<1>3. HooksKept'
  <2>1. version \in Nat /\ ToSet(Hooks) \ removed \subseteq Present
    BY DEF Asked, HooksKept
  <2>2. due' \in [Calls -> SUBSET ToSet(Hooks)]
    BY <1>2 DEF Asked, HooksKept
  <2>3. ToSet(Hooks) \ removed' \subseteq Present'
    BY <1>1, <2>1
  <2>4. seen \in [Calls -> Nat] /\ ran \in [Calls -> SUBSET ToSet(Hooks)]
    BY DEF Asked, HooksKept
  <2> QED
    BY <1>1, <1>2, <2>1, <2>2, <2>3, <2>4 DEF HooksKept
<1>4. ASSUME NEW c \in Calls PROVE LoopOK(c)'
  <2> SUFFICES ASSUME pc[c] = "hooks"
               PROVE  /\ at[c] >= 1
                      /\ runtime = "net" => seen[c] < version'
                      /\ runtime = "go" => c \in disturbed' /\ seen[c] <= Len(hooks')
    <3>1. seen[c] \in Nat /\ version' \in Nat
      BY <1>3, <1>2 DEF HooksKept
    <3> QED
      BY <1>2, <3>1 DEF LoopOK, NetLoop, GoLoop
  <2>1. LoopOK(c) /\ seen[c] \in Nat /\ version \in Nat
    BY DEF Asked, HooksKept
  <2> QED
    BY <1>1, <1>2, <2>1 DEF LoopOK, NetLoop
<1>5. ASSUME NEW c \in Calls PROVE AllowOK(c)'
  <2>1. AllowOK(c) /\ due'[c] \subseteq due[c]
    BY <1>2 DEF Asked
  <2> QED
    BY <1>2, <2>1 DEF AllowOK, Excused
<1> QED
  BY <1>3, <1>4, <1>5 DEF Asked

(* Asked is inductive where unregistering removes the right hook.          *)
LEMMA AskedStep == Typed /\ Removes /\ Asked /\ [Next]_vars => Asked'
<1> SUFFICES ASSUME Typed, Removes, Asked, [Next]_vars PROVE Asked'
  OBVIOUS
<1>1. ASSUME NEW c \in Calls, Step(c) PROVE Asked'
  <2>1. CASE RunHook(c)
    <3>1. CASE Fails(c) \/ Throws(c)
      <4>1. ListSame /\ UNCHANGED << seen, due >>
        BY <2>1 DEF RunHook, ListSame, hookVars, fixed
      <4>2. CASE ran' = ran
        BY <3>1, <4>1, <4>2, LeavingKeepsAsked
      <4>3. CASE ran' # ran
        BY <2>1, <4>3, AskKeepsAsked DEF RunHook
      <4> QED
        BY <4>2, <4>3
    <3>2. CASE ~(Fails(c) \/ Throws(c))
      BY <2>1, <3>2, AskKeepsAsked DEF RunHook
    <3> QED
      BY <3>1, <3>2
  <2> QED
    BY <1>1, <2>1, BeginKeepsAsked, HooksEndKeepsAsked, OutsideKeepsAsked
<1>2. ASSUME NEW h \in MayUnregister, Unregister(h) PROVE Asked'
  BY <1>2, UnregisterKeepsAsked
<1>3. CASE Dispose \/ UNCHANGED vars
  <2>1. ListSame /\ UNCHANGED << pc, at, seen, ran, due >>
    BY <1>3 DEF Dispose, ListSame, vars, callVars, hookVars, fixed
  <2>2. HooksKept'
    BY <2>1 DEF Asked, HooksKept, Present, ListSame
  <2>3. ASSUME NEW d \in Calls PROVE LoopOK(d)' /\ AllowOK(d)'
    <3>1. LoopOK(d) /\ AllowOK(d)
      BY DEF Asked
    <3> QED
      BY <2>1, <3>1, CallKeepsAsked
  <2> QED
    BY <2>2, <2>3 DEF Asked
<1> QED
  BY <1>1, <1>2, <1>3 DEF Next

(* Whether it does is decided by constants and the runtime, which no step  *)
(* changes.                                                                *)
LEMMA AskedIfRemovesStep == Typed /\ AskedIfRemoves /\ [Next]_vars => AskedIfRemoves'
<1>1. [Next]_vars => runtime' = runtime
  BY DEF Next, Step, InjectContext, Refuse, InitPlugin, BeginAuthorization, RunHook, HooksEnd,
         CheckPlugin, BeforePlugins, Build, GoQuery, EnterGate, Opened, NetQuery, EndPlugin,
         Unregister, Dispose, vars, fixed
<1>2. [Next]_vars => (Removes' <=> Removes)
  BY <1>1 DEF Removes, CodesDistinct
<1> QED
  BY <1>2, AskedStep DEF AskedIfRemoves

(* A tagged call builds and executes only after every hook registered for  *)
(* all of its authorization allowed it, though others are unregistered     *)
(* meanwhile: in .NET always, in Go if hooks do not share their code and   *)
(* none was removed under the call's own loop (pipeline.go:40-54, 107-122, *)
(* QueryPipeline.cs:34-38, 88-91).                                         *)
THEOREM HooksAllow == Spec => [](Removes => EveryHookAllows)
<1>1. Asked => EveryHookAllows
  <2> SUFFICES ASSUME Asked, NEW c \in Tagged, pc[c] \in Running
               PROVE  due[c] \subseteq ran[c] \/ Excused(c)
    BY DEF EveryHookAllows, Excused
  <2>1. c \in Calls
    BY Assumptions
  <2> QED
    BY <2>1 DEF Asked, AllowOK, Authorized
<1>2. AskedIfRemoves => (Removes => EveryHookAllows)
  BY <1>1 DEF AskedIfRemoves
<1>3. Told => Typed
  BY DEF Told
<1>4. Init => AskedIfRemoves
  BY AskedInit DEF AskedIfRemoves
<1> QED
  BY <1>2, <1>3, <1>4, AskedIfRemovesStep, ToldCorrect, PTL DEF Spec

(* In Go, then, for hooks of different code.                               *)
THEOREM EveryHookAllowsCorrect == CodesDistinct => (Spec => []EveryHookAllows)
<1>1. CASE CodesDistinct
  <2>1. (Removes => EveryHookAllows) => EveryHookAllows
    BY <1>1 DEF Removes
  <2> QED
    BY <2>1, HooksAllow, PTL
<1>2. CASE ~CodesDistinct
  BY <1>2, PTL
<1> QED
  BY <1>1, <1>2
=============================================================================
