--------------------------- MODULE SequenceLemmas ---------------------------
(***************************************************************************)
(* Facts about sequences, and about the positions that are selected from   *)
(* them, that the proofs of several components need.                       *)
(***************************************************************************)
EXTENDS Integers, Sequences, Selections, SequenceTheorems, FiniteSetTheorems, TLAPS

(* A function on 1 .. n is a sequence of length n.                         *)
LEMMA FunctionIsSeq ==
  ASSUME NEW S, NEW n \in Nat, NEW f \in [1 .. n -> S]
  PROVE  f \in Seq(S) /\ Len(f) = n
<1>1. f \in UNION {[1 .. k -> S] : k \in Nat} OBVIOUS
<1>2. f \in Seq(S) BY <1>1, SeqDef
<1>3. DOMAIN f = 1 .. n /\ DOMAIN f = 1 .. Len(f) /\ Len(f) \in Nat
  BY <1>2, LenProperties
<1> QED BY <1>2, <1>3

(* Moving the head of a queue to the end of what was already taken from it *)
(* leaves the two together as they were.                                   *)
LEMMA MoveHead ==
  ASSUME NEW S, NEW s \in Seq(S), NEW t \in Seq(S), t # <<>>
  PROVE  Append(s, Head(t)) \o Tail(t) = s \o t
<1> DEFINE left == Append(s, Head(t)) \o Tail(t)
           right == s \o t
<1>1. Head(t) \in S /\ Tail(t) \in Seq(S) /\ Len(Tail(t)) = Len(t) - 1
  BY HeadTailProperties
<1>2. /\ Append(s, Head(t)) \in Seq(S)
      /\ Len(Append(s, Head(t))) = Len(s) + 1
  BY <1>1, AppendProperties
<1>3. /\ left \in Seq(S) /\ Len(left) = Len(s) + Len(t)
      /\ Len(s) \in Nat /\ Len(t) \in Nat /\ Len(t) > 0
  BY <1>1, <1>2, ConcatProperties, LenProperties, EmptySeq
<1>4. right \in Seq(S) /\ Len(right) = Len(s) + Len(t)
  BY ConcatProperties
<1>5. ASSUME NEW i \in 1 .. Len(left) PROVE left[i] = right[i]
  <2>1. CASE i <= Len(s)
    <3>1. left[i] = Append(s, Head(t))[i] BY <1>1, <1>2, <1>3, <2>1, ConcatProperties
    <3>2. Append(s, Head(t))[i] = s[i] BY <1>1, <1>3, <2>1, AppendProperties
    <3> QED BY <1>3, <2>1, <3>1, <3>2, ConcatProperties
  <2>2. CASE i = Len(s) + 1
    <3>1. left[i] = Append(s, Head(t))[i] BY <1>1, <1>2, <1>3, <2>2, ConcatProperties
    <3>2. Append(s, Head(t))[i] = Head(t) BY <1>1, <2>2, AppendProperties
    <3>3. right[i] = t[1] BY <1>3, <2>2, ConcatProperties
    <3> QED BY <3>1, <3>2, <3>3, <1>3
  <2>3. CASE i > Len(s) + 1
    <3>1. left[i] = Tail(t)[i - (Len(s) + 1)] BY <1>1, <1>2, <1>3, <2>3, ConcatProperties
    <3>2. i - (Len(s) + 1) \in 1 .. Len(Tail(t)) BY <1>1, <1>3, <2>3
    <3>3. Tail(t)[i - (Len(s) + 1)] = t[i - (Len(s) + 1) + 1]
      BY <3>2, HeadTailProperties
    <3>4. i - (Len(s) + 1) + 1 = i - Len(s) BY <1>3
    <3>5. right[i] = t[i - Len(s)] BY <1>3, <2>3, ConcatProperties
    <3> QED BY <3>1, <3>3, <3>4, <3>5
  <2> QED BY <1>3, <2>1, <2>2, <2>3
<1> QED
  <2> HIDE DEF left, right
  <2>1. left = right BY <1>3, <1>4, <1>5, SeqEqual
  <2> QED BY <2>1 DEF left, right

(* Appending an element and then more is appending all of it at once.      *)
LEMMA AppendThenConcat ==
  ASSUME NEW S, NEW s \in Seq(S), NEW x \in S, NEW t \in Seq(S)
  PROVE  Append(s, x) \o t = s \o (<<x>> \o t)
<1>1. <<x>> \in Seq(S)
  OBVIOUS
<1>2. Append(s, x) = s \o <<x>>
  BY AppendIsConcat
<1>3. (s \o <<x>>) \o t = s \o (<<x>> \o t)
  BY <1>1, ConcatAssociative
<1> QED
  BY <1>2, <1>3

(* What a sequence grows by does not change what it held.                  *)
LEMMA ConcatExtends ==
  ASSUME NEW S, NEW s \in Seq(S), NEW t \in Seq(S)
  PROVE  Len(s) <= Len(s \o t) /\ SubSeq(s \o t, 1, Len(s)) = s
<1>1. /\ s \o t \in Seq(S) /\ Len(s \o t) = Len(s) + Len(t)
      /\ Len(s) \in Nat /\ Len(t) \in Nat
      /\ \A i \in 1 .. Len(s) : (s \o t)[i] = s[i]
  BY ConcatProperties, LenProperties
<1>2. \A i \in 1 .. Len(s) : (s \o t)[i] \in S BY <1>1, ElementOfSeq
<1>3. /\ SubSeq(s \o t, 1, Len(s)) \in Seq(S)
      /\ Len(SubSeq(s \o t, 1, Len(s))) = Len(s)
      /\ \A i \in 1 .. Len(s) : SubSeq(s \o t, 1, Len(s))[i] = (s \o t)[i]
  <2>1. /\ SubSeq(s \o t, 1, Len(s)) \in Seq(S)
        /\ Len(SubSeq(s \o t, 1, Len(s))) = IF 1 <= Len(s) THEN Len(s) - 1 + 1 ELSE 0
        /\ \A i \in 1 .. Len(s) - 1 + 1 : SubSeq(s \o t, 1, Len(s))[i] = (s \o t)[1 + i - 1]
    BY <1>1, <1>2, SubSeqProperties
  <2> QED BY <1>1, <2>1
<1> QED BY <1>1, <1>3, SeqEqual

-----------------------------------------------------------------------------
(* Induction over the naturals, for a set in place of a predicate: an      *)
(* initial segment that ends outside of T and is minimal among those       *)
(* cannot exist.                                                           *)
LEMMA NatSetInduction ==
  ASSUME NEW T, 0 \in T, \A n \in Nat : n \in T => n + 1 \in T
  PROVE  Nat \subseteq T
<1> DEFINE segments == {0 .. n : n \in Nat \ T}
<1> SUFFICES ASSUME NEW m \in Nat \ T PROVE FALSE
  OBVIOUS
<1>1. segments \subseteq FiniteSubsetsOf(Nat)
  <2>1. \A n \in Nat : 0 .. n \in SUBSET Nat /\ IsFiniteSet(0 .. n)
    BY FS_Interval
  <2> QED
    BY <2>1 DEF FiniteSubsetsOf
<1>2. segments # {}
  OBVIOUS
<1>3. PICK U \in segments : \A V \in segments : ~ (<<V, U>> \in StrictSubsetOrdering(Nat))
  BY <1>1, <1>2, FS_StrictSubsetOrderingWellFounded, WFMin
<1>4. PICK k \in Nat \ T : U = 0 .. k
  BY <1>3
<1>5. k # 0 /\ k - 1 \in Nat \ T
  OBVIOUS
<1>6. 0 .. (k - 1) \in segments
  BY <1>5
<1>7. <<0 .. (k - 1), U>> \in StrictSubsetOrdering(Nat)
  BY <1>4, <1>5 DEF StrictSubsetOrdering
<1> QED
  BY <1>3, <1>6, <1>7

(* f lists the numbers of P in increasing order.                           *)
Lists(f, P) ==
  /\ f \in [1 .. Cardinality(P) -> P]
  /\ \A i, j \in 1 .. Cardinality(P) : i < j => f[i] < f[j]

(* Positions up to n: there are finitely many, and they can be listed.     *)
LEMMA PositionsFinite ==
  ASSUME NEW n \in Nat, NEW P \in SUBSET (1 .. n)
  PROVE  IsFiniteSet(P) /\ Cardinality(P) \in Nat /\ Cardinality(P) <= n
<1>1. IsFiniteSet(1 .. n) /\ Cardinality(1 .. n) = n
  BY FS_Interval
<1>2. IsFiniteSet(P) /\ Cardinality(P) <= n
  BY <1>1, FS_Subset
<1> QED
  BY <1>2, FS_CardinalityType

LEMMA ListExists ==
  ASSUME NEW n \in Nat, NEW P \in SUBSET (1 .. n)
  PROVE  \E f : Lists(f, P)
<1> DEFINE T == {m \in Nat : \A Q \in SUBSET (1 .. m) : \E f : Lists(f, Q)}
<1>1. 0 \in T
  <2> SUFFICES ASSUME NEW Q \in SUBSET (1 .. 0) PROVE \E f : Lists(f, Q)
    OBVIOUS
  <2>1. Q = {}
    OBVIOUS
  <2>2. Cardinality(Q) = 0
    BY <2>1, FS_EmptySet
  <2>3. Lists([i \in 1 .. 0 |-> i], Q)
    BY <2>1, <2>2 DEF Lists
  <2> QED
    BY <2>3
<1>2. ASSUME NEW m \in Nat, m \in T PROVE m + 1 \in T
  <2> SUFFICES ASSUME NEW Q \in SUBSET (1 .. m + 1) PROVE \E f : Lists(f, Q)
    OBVIOUS
  <2> DEFINE R == Q \ {m + 1}
  <2>1. R \in SUBSET (1 .. m)
    OBVIOUS
  <2>2. PICK g : Lists(g, R)
    BY <1>2, <2>1
  <2>3. IsFiniteSet(Q) /\ Cardinality(Q) \in Nat /\ Cardinality(R) \in Nat
    BY <2>1, PositionsFinite
  <2>4. CASE m + 1 \notin Q
    BY <2>2, <2>4
  <2>5. CASE m + 1 \in Q
    <3>1. Cardinality(R) = Cardinality(Q) - 1
      BY <2>3, <2>5, FS_RemoveElement
    <3> DEFINE f == [i \in 1 .. Cardinality(Q) |-> IF i = Cardinality(Q) THEN m + 1 ELSE g[i]]
    <3>2. \A i \in 1 .. Cardinality(Q) : i # Cardinality(Q) => i \in 1 .. Cardinality(R) /\ g[i] \in R
      <4> HIDE DEF R
      <4> QED
        BY <2>2, <2>3, <3>1 DEF Lists
    <3>3. f \in [1 .. Cardinality(Q) -> Q]
      BY <2>5, <3>2
    <3>4. ASSUME NEW i \in 1 .. Cardinality(Q), NEW j \in 1 .. Cardinality(Q), i < j
          PROVE  f[i] < f[j]
      <4>1. i # Cardinality(Q) /\ g[i] \in R
        BY <2>3, <3>2, <3>4
      <4>2. CASE j = Cardinality(Q)
        <5>1. g[i] \in 1 .. m /\ f[i] = g[i] /\ f[j] = m + 1
          BY <2>1, <4>1, <4>2
        <5> QED
          BY <5>1
      <4>3. CASE j # Cardinality(Q)
        <5>1. f[i] = g[i] /\ f[j] = g[j]
          BY <4>1, <4>3
        <5>2. i \in 1 .. Cardinality(R) /\ j \in 1 .. Cardinality(R)
          BY <3>2, <4>1, <4>3
        <5> HIDE DEF R, f
        <5> QED
          BY <2>2, <3>4, <5>1, <5>2 DEF Lists
      <4> QED
        BY <4>2, <4>3
    <3> HIDE DEF f
    <3>5. Lists(f, Q)
      BY <3>3, <3>4 DEF Lists
    <3> QED
      BY <3>5
  <2> QED
    BY <2>4, <2>5
<1> HIDE DEF T
<1>3. n \in T
  BY <1>1, <1>2, NatSetInduction
<1> QED
  BY <1>3 DEF T

(* A list misses nothing.                                                  *)
LEMMA ListIsOnto ==
  ASSUME NEW P \in SUBSET Nat, IsFiniteSet(P), NEW f, Lists(f, P)
  PROVE  \A p \in P : \E i \in 1 .. Cardinality(P) : f[i] = p
<1>1. Cardinality(P) \in Nat
  BY FS_CardinalityType
<1>2. \A i \in 1 .. Cardinality(P) : f[i] \in Nat
  BY DEF Lists
<1>3. \A i, j \in 1 .. Cardinality(P) : f[i] = f[j] => i = j
  BY <1>1, <1>2 DEF Lists
<1>4. f \in Injection(1 .. Cardinality(P), P)
  BY <1>3 DEF Lists, Injection, IsInjective
<1>5. Cardinality(1 .. Cardinality(P)) = Cardinality(P)
  BY <1>1, FS_Interval
<1>6. f \in Surjection(1 .. Cardinality(P), P)
  BY <1>4, <1>5, FS_Injection
<1> QED
  BY <1>6 DEF Surjection

(* There is one list only.                                                 *)
LEMMA ListIsUnique ==
  ASSUME NEW P \in SUBSET Nat, IsFiniteSet(P), NEW f, NEW g, Lists(f, P), Lists(g, P)
  PROVE  f = g
<1> DEFINE T == {m \in Nat : \A i \in 1 .. Cardinality(P) : i <= m => f[i] = g[i]}
<1>0. /\ Cardinality(P) \in Nat
      /\ \A i \in 1 .. Cardinality(P) : f[i] \in Nat /\ g[i] \in Nat /\ f[i] \in P /\ g[i] \in P
      /\ \A i, j \in 1 .. Cardinality(P) : i < j => f[i] < f[j] /\ g[i] < g[j]
      /\ \A p \in P : \E i \in 1 .. Cardinality(P) : f[i] = p
      /\ \A p \in P : \E i \in 1 .. Cardinality(P) : g[i] = p
  <2>1. Cardinality(P) \in Nat
    BY FS_CardinalityType
  <2>2. \A p \in P : \E i \in 1 .. Cardinality(P) : f[i] = p
    BY ListIsOnto
  <2>3. \A p \in P : \E i \in 1 .. Cardinality(P) : g[i] = p
    BY ListIsOnto
  <2>4. /\ \A i \in 1 .. Cardinality(P) : f[i] \in P /\ g[i] \in P
        /\ \A i, j \in 1 .. Cardinality(P) : i < j => f[i] < f[j] /\ g[i] < g[j]
    BY DEF Lists
  <2>5. \A p \in P : p \in Nat
    OBVIOUS
  <2> QED
    BY <2>1, <2>2, <2>3, <2>4, <2>5
<1>1. 0 \in T
  BY <1>0
<1>2. ASSUME NEW m \in Nat, m \in T PROVE m + 1 \in T
  <2> SUFFICES ASSUME m + 1 \in 1 .. Cardinality(P) PROVE f[m + 1] = g[m + 1]
    BY <1>0, <1>2
  <2> HIDE DEF T
  <2>0. \A i \in 1 .. Cardinality(P) : i <= m => f[i] = g[i]
    BY <1>2 DEF T
  <2>1. PICK j \in 1 .. Cardinality(P) : f[j] = g[m + 1]
    BY <1>0
  <2>2. PICK k \in 1 .. Cardinality(P) : g[k] = f[m + 1]
    BY <1>0
  <2>3. j >= m + 1
    <3>1. j <= m => g[j] = g[m + 1]
      BY <2>0, <2>1
    <3> QED
      BY <1>0, <2>1, <3>1
  <2>4. k >= m + 1
    <3>1. k <= m => f[k] = f[m + 1]
      BY <2>0, <2>2
    <3> QED
      BY <1>0, <2>2, <3>1
  <2>5. f[m + 1] <= f[j] /\ g[m + 1] <= g[k]
    BY <1>0, <2>3, <2>4
  <2> QED
    BY <1>0, <2>1, <2>2, <2>5
<1> HIDE DEF T
<1>3. Cardinality(P) \in T
  BY <1>0, <1>1, <1>2, NatSetInduction
<1>4. \A i \in 1 .. Cardinality(P) : f[i] = g[i]
  BY <1>0, <1>3 DEF T
<1>5. /\ f = [i \in 1 .. Cardinality(P) |-> f[i]]
      /\ g = [i \in 1 .. Cardinality(P) |-> g[i]]
  BY DEF Lists
<1> QED
  BY <1>4, <1>5, Zenon

(* The i-th of a list has i numbers up to it, and is the only one.         *)
LEMMA ListRanks ==
  ASSUME NEW P \in SUBSET Nat, IsFiniteSet(P), NEW f, Lists(f, P),
         NEW i \in 1 .. Cardinality(P)
  PROVE  Cardinality({q \in P : q <= f[i]}) = i
<1> DEFINE upto == {q \in P : q <= f[i]}
           g == [j \in 1 .. i |-> f[j]]
<1>1. /\ Cardinality(P) \in Nat /\ i \in Nat
      /\ \A j \in 1 .. i : j \in 1 .. Cardinality(P)
  BY FS_CardinalityType
<1>2. /\ \A j \in 1 .. Cardinality(P) : f[j] \in P /\ f[j] \in Nat
      /\ \A j, k \in 1 .. Cardinality(P) : j < k => f[j] < f[k]
  BY DEF Lists
<1>3. \A p \in P : \E j \in 1 .. Cardinality(P) : f[j] = p
  BY ListIsOnto
<1>4. g \in [1 .. i -> upto]
  <2>1. \A j \in 1 .. i : f[j] <= f[i]
    BY <1>1, <1>2
  <2> QED
    BY <1>1, <1>2, <2>1
<1>5. \A j, k \in 1 .. i : g[j] = g[k] => j = k
  BY <1>1, <1>2
<1>6. \A q \in upto : \E j \in 1 .. i : g[j] = q
  <2> SUFFICES ASSUME NEW q \in upto PROVE \E j \in 1 .. i : g[j] = q
    OBVIOUS
  <2>1. PICK j \in 1 .. Cardinality(P) : f[j] = q
    BY <1>3
  <2>2. j <= i
    BY <1>1, <1>2, <2>1
  <2>3. j \in 1 .. i /\ g[j] = q
    BY <1>1, <2>1, <2>2
  <2> QED
    BY <2>3
<1> HIDE DEF g, upto
<1>7. g \in Bijection(1 .. i, upto)
  BY <1>4, <1>5, <1>6 DEF Bijection, Injection, Surjection, IsInjective
<1>8. IsFiniteSet(1 .. i) /\ Cardinality(1 .. i) = i
  BY <1>1, FS_Interval
<1>9. Cardinality(upto) = i
  BY <1>7, <1>8, FS_Bijection, Zenon DEF ExistsBijection
<1> QED
  BY <1>9 DEF upto

LEMMA AscendingLists ==
  ASSUME NEW n \in Nat, NEW P \in SUBSET (1 .. n)
  PROVE  Lists(Ascending(P), P)
<1>1. PICK f : Lists(f, P)
  BY ListExists
<1>2. IsFiniteSet(P) /\ P \in SUBSET Nat
  BY PositionsFinite
<1>3. ASSUME NEW i \in 1 .. Cardinality(P)
      PROVE  f[i] = CHOOSE p \in P : Cardinality({q \in P : q <= p}) = i
  <2>1. f[i] \in P /\ Cardinality({q \in P : q <= f[i]}) = i
    BY <1>1, <1>2, ListRanks DEF Lists
  <2>2. ASSUME NEW p \in P, Cardinality({q \in P : q <= p}) = i PROVE p = f[i]
    <3>1. PICK j \in 1 .. Cardinality(P) : f[j] = p
      BY <1>1, <1>2, ListIsOnto
    <3>2. Cardinality({q \in P : q <= f[j]}) = j
      BY <1>1, <1>2, ListRanks
    <3> QED
      BY <2>2, <3>1, <3>2
  <2> QED
    BY <2>1, <2>2
<1>4. f = [i \in 1 .. Cardinality(P) |-> f[i]]
  BY <1>1 DEF Lists
<1>5. f = Ascending(P)
  BY <1>3, <1>4, Zenon DEF Ascending
<1> QED
  BY <1>1, <1>5

LEMMA AscendingOnto ==
  ASSUME NEW n \in Nat, NEW P \in SUBSET (1 .. n)
  PROVE  \A p \in P : \E i \in 1 .. Cardinality(P) : Ascending(P)[i] = p
<1>1. PICK f : f = Ascending(P) /\ Lists(f, P)
  BY AscendingLists
<1>0. IsFiniteSet(P)
  BY PositionsFinite
<1>2. \A p \in P : \E i \in 1 .. Cardinality(P) : f[i] = p
  BY <1>0, <1>1, ListIsOnto
<1> QED
  BY <1>1, <1>2

(* t is what s has at the positions P, taken in the order given.           *)
Picks(order, t, s, P) ==
  /\ \A i \in 1 .. Len(t) : t[i] = s[order[i]] /\ order[i] \in P
  /\ \A i, j \in 1 .. Len(t) : i < j => order[i] < order[j]
  /\ \A p \in P : \E i \in 1 .. Len(t) : order[i] = p

LEMMA SelectionProperties ==
  ASSUME NEW S, NEW s \in Seq(S), NEW P \in SUBSET (1 .. Len(s)),
         NEW t, t = SelectAt(s, P), NEW order, order = Ascending(P)
  PROVE  /\ t \in Seq(S) /\ Len(t) \in Nat /\ Len(t) = Cardinality(P)
         /\ t = <<>> <=> P = {}
         /\ Picks(order, t, s, P)
<1>0. Len(s) \in Nat
  OBVIOUS
<1>1. Lists(Ascending(P), P)
  BY <1>0, AscendingLists
<1>2. IsFiniteSet(P) /\ Cardinality(P) \in Nat
  BY <1>0, PositionsFinite
<1>3. \A p \in P : \E i \in 1 .. Cardinality(P) : Ascending(P)[i] = p
  BY <1>0, AscendingOnto
<1>4. /\ \A i \in 1 .. Cardinality(P) : Ascending(P)[i] \in P
      /\ \A i, j \in 1 .. Cardinality(P) : i < j => Ascending(P)[i] < Ascending(P)[j]
  BY <1>1 DEF Lists
<1>5. SelectAt(s, P) = [i \in 1 .. Cardinality(P) |-> s[Ascending(P)[i]]]
  BY DEF SelectAt
<1>6. \A i \in 1 .. Cardinality(P) : s[Ascending(P)[i]] \in S
  BY <1>4, ElementOfSeq
<1>7. SelectAt(s, P) \in [1 .. Cardinality(P) -> S]
  BY <1>5, <1>6
<1>8. SelectAt(s, P) \in Seq(S) /\ Len(SelectAt(s, P)) = Cardinality(P)
  BY <1>2, <1>7, FunctionIsSeq
<1>9. SelectAt(s, P) = <<>> <=> P = {}
  <2>1. Cardinality(P) = 0 <=> P = {}
    BY <1>2, FS_EmptySet
  <2>2. SelectAt(s, P) = <<>> <=> Len(SelectAt(s, P)) = 0
    BY <1>8, EmptySeq
  <2> QED
    BY <1>8, <2>1, <2>2
<1> QED
  BY <1>2, <1>3, <1>4, <1>5, <1>8, <1>9 DEF Picks

(* U is P, and Q moved up by n.                                            *)
Joins(U, P, n, Q) == \A i : i \in U <=> i \in P \/ \E q \in Q : i = n + q

(* What is selected from a concatenation is what is selected from either   *)
(* part, one after the other.                                              *)
LEMMA SelectionOfConcat ==
  ASSUME NEW S, NEW s \in Seq(S), NEW t \in Seq(S),
         NEW P \in SUBSET (1 .. Len(s)), NEW Q \in SUBSET (1 .. Len(t)),
         NEW U, Joins(U, P, Len(s), Q)
  PROVE  SelectAt(s \o t, U) = SelectAt(s, P) \o SelectAt(t, Q)
<1> DEFINE R == {Len(s) + q : q \in Q}
<1>0. U = P \cup R
  BY DEF Joins
<1>1. PICK n \in Nat, m \in Nat, a \in Nat, b \in Nat :
        n = Len(s) /\ m = Len(t) /\ a = Cardinality(P) /\ b = Cardinality(Q)
  BY LenProperties, PositionsFinite
<1>2. PICK f, g : f = Ascending(P) /\ Lists(f, P) /\ g = Ascending(Q) /\ Lists(g, Q)
  BY <1>1, AscendingLists
<1>3. /\ \A i \in 1 .. a : f[i] \in P /\ f[i] \in 1 .. n
      /\ \A i, j \in 1 .. a : i < j => f[i] < f[j]
      /\ \A i \in 1 .. b : g[i] \in Q /\ g[i] \in 1 .. m
      /\ \A i, j \in 1 .. b : i < j => g[i] < g[j]
  BY <1>1, <1>2 DEF Lists
<1>4. IsFiniteSet(P) /\ IsFiniteSet(Q) /\ IsFiniteSet(R) /\ Cardinality(R) = b
  <2>1. IsFiniteSet(P) /\ IsFiniteSet(Q)
    BY <1>1, PositionsFinite
  <2> DEFINE h == [q \in Q |-> Len(s) + q]
  <2>2. h \in [Q -> R] /\ \A r \in R : \E q \in Q : h[q] = r
    OBVIOUS
  <2>3. \A p, q \in Q : h[p] = h[q] => p = q
    BY <1>1
  <2> HIDE DEF h, R
  <2>4. h \in Bijection(Q, R)
    BY <2>2, <2>3 DEF Bijection, Injection, Surjection, IsInjective
  <2>5. IsFiniteSet(R) /\ Cardinality(R) = Cardinality(Q)
    BY <2>1, <2>4, FS_Bijection, Zenon DEF ExistsBijection
  <2> QED
    BY <1>1, <2>1, <2>5
<1>5. P \cap R = {} /\ P \cup R \in SUBSET (1 .. n + m) /\ P \cup R \in SUBSET Nat
  <2>1. \A p \in P : p \in 1 .. n
    BY <1>1
  <2>2. \A r \in R : r \in n + 1 .. n + m
    <3>1. \A q \in Q : q \in 1 .. m /\ Len(s) + q = n + q
      BY <1>1
    <3>2. \A q \in 1 .. m : n + q \in n + 1 .. n + m
      OBVIOUS
    <3> QED
      BY <3>1, <3>2
  <2>3. \A i \in 1 .. n : i \notin n + 1 .. n + m /\ i \in 1 .. n + m /\ i \in Nat
    OBVIOUS
  <2>4. \A i \in n + 1 .. n + m : i \in 1 .. n + m /\ i \in Nat
    OBVIOUS
  <2> HIDE DEF R
  <2>5. P \cap R = {}
    BY <2>1, <2>2, <2>3
  <2>6. P \cup R \in SUBSET (1 .. n + m) /\ P \cup R \in SUBSET Nat
    BY <2>1, <2>2, <2>3, <2>4
  <2> QED
    BY <2>5, <2>6
<1> HIDE DEF R
<1>6. IsFiniteSet(P \cup R) /\ Cardinality(P \cup R) = a + b
  <2>1. P \cap R = {} /\ Cardinality(P) \in Nat /\ Cardinality(R) \in Nat
    BY <1>1, <1>4, <1>5
  <2>2. IsFiniteSet(P \cup R) /\ Cardinality(P \cup R) = Cardinality(P) + Cardinality(R) - Cardinality(P \cap R)
    BY <1>4, FS_Union
  <2>3. Cardinality(P \cap R) = 0
    BY <2>1, FS_EmptySet
  <2> QED
    BY <1>1, <1>4, <2>1, <2>2, <2>3
<1> DEFINE h == [i \in 1 .. a + b |-> IF i <= a THEN f[i] ELSE n + g[i - a]]
<1>7. \A i \in 1 .. a + b :
        \/ i \in 1 .. a /\ h[i] = f[i] /\ h[i] \in P
        \/ i > a /\ i - a \in 1 .. b /\ h[i] = n + g[i - a] /\ h[i] \in R
  <2> SUFFICES ASSUME NEW i \in 1 .. a + b
               PROVE  \/ i \in 1 .. a /\ h[i] = f[i] /\ h[i] \in P
                      \/ i > a /\ i - a \in 1 .. b /\ h[i] = n + g[i - a] /\ h[i] \in R
    OBVIOUS
  <2>1. CASE i <= a
    BY <1>3, <2>1
  <2>2. CASE i > a
    <3>1. i - a \in 1 .. b /\ h[i] = n + g[i - a] /\ g[i - a] \in Q
      BY <1>3, <2>2
    <3> QED
      BY <1>1, <2>2, <3>1 DEF R
  <2> QED
    BY <2>1, <2>2
<1>8. h \in [1 .. a + b -> P \cup R]
  BY <1>7
<1>9. ASSUME NEW i \in 1 .. a + b, NEW j \in 1 .. a + b, i < j PROVE h[i] < h[j]
  <2>1. CASE i <= a /\ j <= a
    BY <1>3, <1>9, <2>1
  <2>2. CASE i <= a /\ j > a
    <3>1. h[i] \in 1 .. n /\ h[j] = n + g[j - a] /\ g[j - a] \in 1 .. m
      BY <1>3, <1>7, <2>2
    <3> QED
      BY <3>1
  <2>3. CASE i > a
    <3>1. /\ i - a \in 1 .. b /\ j - a \in 1 .. b /\ i - a < j - a
          /\ h[i] = n + g[i - a] /\ h[j] = n + g[j - a]
      BY <1>9, <2>3
    <3>2. g[i - a] < g[j - a] /\ g[i - a] \in 1 .. m /\ g[j - a] \in 1 .. m
      BY <1>3, <3>1
    <3> HIDE DEF h
    <3> QED
      BY <3>1, <3>2
  <2> QED
    BY <2>1, <2>2, <2>3
<1> HIDE DEF h
<1>10. Lists(h, P \cup R)
  BY <1>6, <1>8, <1>9 DEF Lists
<1>11. Lists(Ascending(P \cup R), P \cup R)
  <2>1. n + m \in Nat
    OBVIOUS
  <2> QED
    BY <1>5, <2>1, AscendingLists
<1>12. h = Ascending(P \cup R)
  BY <1>5, <1>6, <1>10, <1>11, ListIsUnique
<1> DEFINE left == SelectAt(s \o t, P \cup R)
           right == SelectAt(s, P) \o SelectAt(t, Q)
<1>13. left = [i \in 1 .. a + b |-> (s \o t)[h[i]]]
  BY <1>6, <1>12 DEF SelectAt
<1>14. /\ SelectAt(s, P) \in Seq(S) /\ Len(SelectAt(s, P)) = a
       /\ SelectAt(t, Q) \in Seq(S) /\ Len(SelectAt(t, Q)) = b
       /\ \A i \in 1 .. a : SelectAt(s, P)[i] = s[f[i]]
       /\ \A i \in 1 .. b : SelectAt(t, Q)[i] = t[g[i]]
  <2>1. PICK x, y : x = SelectAt(s, P) /\ y = SelectAt(t, Q)
    OBVIOUS
  <2>2. x \in Seq(S) /\ Len(x) = a /\ \A i \in 1 .. a : x[i] = s[f[i]]
    BY <1>1, <1>2, <2>1, SelectionProperties, SMTT(30) DEF Picks
  <2>3. y \in Seq(S) /\ Len(y) = b /\ \A i \in 1 .. b : y[i] = t[g[i]]
    BY <1>1, <1>2, <2>1, SelectionProperties, SMTT(30) DEF Picks
  <2> QED
    BY <2>1, <2>2, <2>3
<1>15. /\ s \o t \in Seq(S) /\ Len(s \o t) = n + m
       /\ \A i \in 1 .. n : (s \o t)[i] = s[i]
       /\ \A i \in n + 1 .. n + m : (s \o t)[i] = t[i - n]
  BY <1>1, ConcatProperties
<1>16. \A i \in 1 .. a + b : h[i] \in 1 .. n + m
  BY <1>5, <1>8
<1>17. \A i \in 1 .. a + b : (s \o t)[h[i]] \in S
  BY <1>15, <1>16, ElementOfSeq
<1>18. left \in Seq(S) /\ Len(left) = a + b
  <2>1. a + b \in Nat
    OBVIOUS
  <2>2. left \in [1 .. a + b -> S]
    BY <1>13, <1>17
  <2> QED
    BY <2>1, <2>2, FunctionIsSeq
<1>19. right \in Seq(S) /\ Len(right) = a + b
  BY <1>1, <1>14, ConcatProperties
<1>20. ASSUME NEW i \in 1 .. a + b PROVE left[i] = right[i]
  <2>1. CASE i <= a
    <3>1. i \in 1 .. a /\ h[i] = f[i] /\ f[i] \in 1 .. n
      BY <1>3, <1>7, <2>1
    <3>2. right[i] = SelectAt(s, P)[i]
      BY <1>1, <1>14, <2>1, ConcatProperties
    <3>3. left[i] = (s \o t)[f[i]]
      BY <1>13, <3>1
    <3> QED
      BY <1>14, <1>15, <3>1, <3>2, <3>3
  <2>2. CASE i > a
    <3>1. i - a \in 1 .. b /\ h[i] = n + g[i - a] /\ g[i - a] \in 1 .. m
      BY <1>3, <1>7, <2>2
    <3>2. right[i] = SelectAt(t, Q)[i - a]
      BY <1>1, <1>14, <2>2, ConcatProperties
    <3>3. left[i] = (s \o t)[n + g[i - a]]
      BY <1>13, <3>1
    <3>4. PICK k \in 1 .. m : k = g[i - a]
      BY <3>1
    <3>5. n + k \in n + 1 .. n + m /\ (n + k) - n = k
      OBVIOUS
    <3>6. (s \o t)[n + k] = t[k]
      BY <1>15, <3>5
    <3>7. SelectAt(t, Q)[i - a] = t[k]
      BY <1>14, <3>1, <3>4
    <3> QED
      BY <3>2, <3>3, <3>4, <3>6, <3>7
  <2>3. i <= a \/ i > a
    OBVIOUS
  <2> QED
    BY <2>1, <2>2, <2>3, Zenon
<1> HIDE DEF left, right
<1>21. left = right
  BY <1>18, <1>19, <1>20, SeqEqual
<1> QED
  BY <1>0, <1>21 DEF left, right
=============================================================================
