--------------------------- MODULE OrderStateProofs ---------------------------
(***************************************************************************)
(* For all order messages and every number of messages: the graph of the   *)
(* order manager stays well formed, the base is announced to the AGV       *)
(* without a gap and without a repetition, and only an action that a later *)
(* order cleared ends the order event thread.  While the master control    *)
(* waits for its orders to be handled, the state tells it what is left.    *)
(***************************************************************************)
EXTENDS OrderState, FiniteSetTheorems, TLAPS

-------------------------------------------------------------------------------
(* Sets of numbers *)

\* A nonempty set of natural numbers has a least one.
LEMMA LeastNatural ==
  ASSUME NEW T \in SUBSET Nat, T # {}
  PROVE  \E x \in T : \A y \in T : x <= y
<1>1. PICK x \in T : \A y \in T : <<y, x>> \notin OpToRel(<, Nat)
  BY NatLessThanWellFounded, WFMin
<1>2. ASSUME NEW y \in T, y < x PROVE FALSE
  <2>1. <<y, x>> \in OpToRel(<, Nat)
    BY <1>2 DEF OpToRel
  <2>. QED
    BY <1>1, <2>1
<1>. QED
  BY <1>2

\* A nonempty set of natural numbers with an upper bound has a greatest one.
LEMMA GreatestNatural ==
  ASSUME NEW T \in SUBSET Nat, T # {}, NEW n \in Nat, \A y \in T : y <= n
  PROVE  \E x \in T : \A y \in T : y <= x
<1>. DEFINE D == {k \in Nat : n - k \in T}
<1>1. \A y \in T : n - y \in D
  <2>1. \A y \in T : n - y \in Nat /\ n - (n - y) = y
    OBVIOUS
  <2>. QED
    BY <2>1
<1>2. PICK x \in D : \A y \in D : x <= y
  BY <1>1, LeastNatural
<1>3. \A y \in T : y <= n - x
  BY <1>1, <1>2
<1>. QED
  BY <1>3

\* A set that holds 0 and the successor of each of its members is Nat.
LEMMA NatSetInduction ==
  ASSUME NEW T \in SUBSET Nat, 0 \in T, \A n \in T : n + 1 \in T
  PROVE  T = Nat
<1>. DEFINE C == Nat \ T
<1>1. SUFFICES ASSUME C # {} PROVE FALSE
  OBVIOUS
<1>2. PICK x \in C : \A y \in C : x <= y
  BY <1>1, LeastNatural
<1>3. x # 0 /\ x - 1 \in Nat
  OBVIOUS
<1>4. x - 1 \in T
  BY <1>2, <1>3
<1>5. (x - 1) + 1 \in T
  BY <1>4
<1>. QED
  BY <1>3, <1>5

\* A finite set of natural numbers has an upper bound.
LEMMA FiniteIsBounded ==
  ASSUME NEW T \in SUBSET Nat, IsFiniteSet(T)
  PROVE  \E n \in Nat : \A y \in T : y <= n
<1>1. PICK k \in Nat : ExistsSurjection(1..k, T)
  BY FS_NatSurjection
<1>2. PICK f \in [1..k -> T] : \A y \in T : \E i \in 1..k : f[i] = y
  BY <1>1 DEF ExistsSurjection, Surjection
<1>. DEFINE D == {i \in Nat : i <= k => \E n \in Nat : \A j \in 1..i : f[j] <= n}
<1>3. 0 \in D
  <2>1. \A j \in 1..0 : f[j] <= 0
    OBVIOUS
  <2>. QED
    BY <2>1
<1>4. ASSUME NEW i \in D PROVE i + 1 \in D
  <2>0. i \in Nat
    OBVIOUS
  <2>1. SUFFICES ASSUME i + 1 <= k
                 PROVE  \E n \in Nat : \A j \in 1..(i + 1) : f[j] <= n
    BY <2>0
  <2>2. PICK n \in Nat : \A j \in 1..i : f[j] <= n
    BY <2>0, <2>1
  <2>3. i + 1 \in 1..k /\ f[i + 1] \in Nat
    <3>1. i + 1 \in 1..k
      BY <2>0, <2>1
    <3>. QED
      BY <3>1
  <2>4. CASE f[i + 1] <= n
    <3>1. \A j \in 1..(i + 1) : j \in 1..i \/ j = i + 1
      BY <2>0
    <3>. QED
      BY <2>2, <2>4, <3>1
  <2>5. CASE n < f[i + 1]
    <3>1. ASSUME NEW j \in 1..(i + 1) PROVE f[j] <= f[i + 1]
      <4>1. j \in 1..k /\ (j \in 1..i \/ j = i + 1)
        BY <2>0, <2>1
      <4>2. f[j] \in Nat
        BY <4>1
      <4>. QED
        BY <2>2, <2>3, <2>5, <4>1, <4>2
    <3>. QED
      BY <2>3, <3>1
  <2>. QED
    BY <2>3, <2>4, <2>5
<1>5. D = Nat
  <2>. HIDE DEF D
  <2>1. D \subseteq Nat
    BY DEF D
  <2>. QED
    BY <1>3, <1>4, <2>1, NatSetInduction
<1>6. PICK n \in Nat : \A j \in 1..k : f[j] <= n
  <2>. HIDE DEF D
  <2>1. k \in D
    BY <1>5
  <2>. USE DEF D
  <2>. QED
    BY <2>1
<1>. QED
  BY <1>2, <1>6

\* What the least and the greatest number of a set are.
LEMMA MinIs ==
  ASSUME NEW T \in SUBSET Int, NEW x \in T, \A y \in T : x <= y
  PROVE  Min(T) = x
<1>1. \A z \in T : (\A y \in T : z <= y) => z = x
  OBVIOUS
<1>. QED
  BY <1>1 DEF Min

LEMMA MaxIs ==
  ASSUME NEW T \in SUBSET Int, NEW x \in T, \A y \in T : y <= x
  PROVE  Max(T) = x
<1>1. \A z \in T : (\A y \in T : z >= y) => z = x
  OBVIOUS
<1>2. \A y \in T : x >= y
  OBVIOUS
<1>. QED
  BY <1>1, <1>2 DEF Max

\* The bounds of an interval.
LEMMA IntervalBounds ==
  ASSUME NEW a \in Int, NEW b \in Int, a <= b
  PROVE  Min(a..b) = a /\ Max(a..b) = b
<1>. DEFINE T == a..b
<1>1. T \in SUBSET Int /\ a \in T /\ b \in T /\ \A y \in T : a <= y /\ y <= b
  OBVIOUS
<1>. HIDE DEF T
<1>2. Min(T) = a /\ Max(T) = b
  BY <1>1, MinIs, MaxIs
<1>. QED
  BY <1>2 DEF T

\* Numbers in ascending order, as many as a set has, are all of the set.
LEMMA RisingIsOnto ==
  ASSUME NEW S \in SUBSET Nat, IsFiniteSet(S), NEW n \in Nat, Cardinality(S) = n,
         NEW q \in [1..n -> S], \A i, j \in 1..n : i < j => q[i] < q[j]
  PROVE  \A s \in S : \E i \in 1..n : q[i] = s
<1>1. IsFiniteSet(1..n) /\ Cardinality(1..n) = n
  BY FS_Interval
<1>2. ASSUME NEW i \in 1..n, NEW j \in 1..n, q[i] = q[j] PROVE i = j
  <2>1. i \in Nat /\ j \in Nat /\ q[i] \in Nat /\ q[j] \in Nat
    <3>1. i \in Nat /\ j \in Nat
      OBVIOUS
    <3>2. q[i] \in S /\ q[j] \in S
      OBVIOUS
    <3>. QED
      BY <3>1, <3>2
  <2>2. ~(i < j) /\ ~(j < i)
    BY <1>2, <2>1
  <2>. QED
    BY <2>1, <2>2
<1>3. q \in Injection(1..n, S)
  BY <1>2 DEF Injection, IsInjective
<1>4. q \in Surjection(1..n, S)
  BY <1>1, <1>3, FS_Injection
<1>. QED
  BY <1>4 DEF Surjection

\* There is one way only to put the numbers of a set in ascending order.
LEMMA RisingIsUnique ==
  ASSUME NEW S \in SUBSET Nat, IsFiniteSet(S), NEW n \in Nat, Cardinality(S) = n,
         NEW q \in [1..n -> S], \A i, j \in 1..n : i < j => q[i] < q[j],
         NEW h \in [1..n -> S], \A i, j \in 1..n : i < j => h[i] < h[j]
  PROVE  q = h
<1>. DEFINE D == {i \in 1..n : q[i] # h[i]}
<1>1. SUFFICES ASSUME D # {} PROVE FALSE
  <2>1. \A i \in 1..n : q[i] = h[i]
    BY <1>1
  <2>. QED
    BY <2>1
<1>2. PICK i \in D : \A j \in D : i <= j
  <2>1. D \in SUBSET Nat
    OBVIOUS
  <2>. HIDE DEF D
  <2>. QED
    BY <1>1, <2>1, LeastNatural
<1>3. i \in 1..n /\ q[i] # h[i] /\ \A j \in 1..n : j < i => q[j] = h[j]
  <2>1. \A j \in 1..n : j < i => j \notin D
    BY <1>2
  <2>. QED
    BY <2>1
<1>. DEFINE Onto(f) == \A s \in S : \E m \in 1..n : f[m] = s
<1>4. PICK j \in 1..n : h[j] = q[i]
  <2>1. Onto(h)
    BY RisingIsOnto
  <2>. QED
    BY <1>3, <2>1
<1>5. PICK k \in 1..n : q[k] = h[i]
  <2>1. Onto(q)
    BY RisingIsOnto
  <2>. QED
    BY <1>3, <2>1
<1>6. j # i /\ k # i
  BY <1>3, <1>4, <1>5
<1>7. ~(j < i)
  <2>1. SUFFICES ASSUME j < i PROVE FALSE
    OBVIOUS
  <2>2. q[j] = q[i] /\ q[j] < q[i]
    BY <1>3, <1>4, <2>1
  <2>3. q[i] \in Nat
    BY <1>3
  <2>. QED
    BY <2>2, <2>3
<1>8. ~(k < i)
  <2>1. SUFFICES ASSUME k < i PROVE FALSE
    OBVIOUS
  <2>2. h[k] = h[i] /\ h[k] < h[i]
    BY <1>3, <1>5, <2>1
  <2>3. h[i] \in Nat
    BY <1>3
  <2>. QED
    BY <2>2, <2>3
<1>9. i < j /\ i < k
  BY <1>3, <1>6, <1>7, <1>8
<1>10. h[i] < q[i] /\ q[i] < h[i]
  BY <1>3, <1>4, <1>5, <1>9
<1>11. q[i] \in Nat /\ h[i] \in Nat
  BY <1>3
<1>. QED
  BY <1>10, <1>11

\* The numbers of a finite set in ascending order are what the model takes them to be.
LEMMA AscendingIs ==
  ASSUME NEW S \in SUBSET Nat, IsFiniteSet(S), NEW n \in Nat, Cardinality(S) = n,
         NEW h \in [1..n -> S], \A i, j \in 1..n : i < j => h[i] < h[j]
  PROVE  Ascending(S) = h
<1>1. \A q \in [1..n -> S] : (\A i, j \in DOMAIN q : i < j => q[i] < q[j]) => q = h
  <2>1. ASSUME NEW q \in [1..n -> S], \A i, j \in DOMAIN q : i < j => q[i] < q[j]
        PROVE  q = h
    <3>1. \A i, j \in 1..n : i < j => q[i] < q[j]
      BY <2>1
    <3>. QED
      BY <3>1, RisingIsUnique
  <2>. QED
    BY <2>1
<1>2. \A i, j \in DOMAIN h : i < j => h[i] < h[j]
  OBVIOUS
<1>. QED
  BY <1>1, <1>2 DEF Ascending

\* An interval in ascending order.
LEMMA AscendingInterval ==
  ASSUME NEW a \in Nat, NEW b \in Int, a <= b + 1
  PROVE  Ascending(a..b) = [i \in 1..(b - a + 1) |-> a + i - 1]
<1>. DEFINE S == a..b
            h == [i \in 1..(b - a + 1) |-> a + i - 1]
<1>1. IsFiniteSet(S) /\ Cardinality(S) = b - a + 1
  BY FS_Interval
<1>2. S \in SUBSET Nat
  OBVIOUS
<1>. DEFINE n == b - a + 1
<1>3. n \in Nat /\ h \in [1..n -> S] /\ \A i, j \in 1..n : i < j => h[i] < h[j]
  OBVIOUS
<1>4. Ascending(S) = h
  <2>1. Cardinality(S) = n
    BY <1>1
  <2>. HIDE DEF S, h, n
  <2>. QED
    BY <1>1, <1>2, <1>3, <2>1, AscendingIs
<1>. QED
  BY <1>4

-------------------------------------------------------------------------------
(* What the checks make sure of a message *)

\* The graph of a message that has no gap and whose base comes first.
Span(a, l, b) == [s \in a..l |-> s <= b]

\* The sequence ids of a message are finitely many numbers.
LEMMA FiniteIds ==
  ASSUME NEW P \in SUBSET Element, IsFiniteSet(P)
  PROVE  {e.seq : e \in P} \in SUBSET Nat /\ IsFiniteSet({e.seq : e \in P})
<1>. DEFINE T == {e.seq : e \in P}
            f == [e \in P |-> e.seq]
<1>1. T \in SUBSET Nat
  BY DEF Element
<1>2. f \in Surjection(P, T)
  BY DEF Surjection
<1>3. IsFiniteSet(T)
  <2>. HIDE DEF T, f
  <2>. QED
    BY <1>2, FS_Surjection
<1>. QED
  BY <1>1, <1>3

\* The fields of a message.
LEMMA MessageType ==
  ASSUME NEW n \in DOMAIN Messages
  PROVE  /\ Messages[n].id \in Nat \ {0} /\ Messages[n].update \in Nat
         /\ Messages[n].nodes \in SUBSET Element /\ IsFiniteSet(Messages[n].nodes)
         /\ Messages[n].edges \in SUBSET Element /\ IsFiniteSet(Messages[n].edges)
         /\ Messages[n].actions \in SUBSET Action
  BY MessagesAssumption

\* Two sets without a gap between them, the first before the second.
LEMMA LowerPart ==
  ASSUME NEW a \in Nat, NEW l \in Nat, a <= l, NEW B \in SUBSET Nat, NEW H \in SUBSET Nat,
         B \cup H = a..l, B \cap H = {}, B # {} /\ H # {} => Max(B) < Min(H)
  PROVE  \E b \in Int : a <= b + 1 /\ b <= l /\ B = a..b
<1>1. CASE B = {}
  <2>1. a..(a - 1) = {} /\ a - 1 \in Int /\ a <= (a - 1) + 1 /\ a - 1 <= l
    OBVIOUS
  <2>. QED
    BY <1>1, <2>1
<1>2. CASE H = {}
  <2>1. l \in Int /\ a <= l + 1 /\ l <= l
    OBVIOUS
  <2>. QED
    BY <1>2, <2>1
<1>3. CASE B # {} /\ H # {}
  <2>1. \A s \in B \cup H : s \in a..l
    OBVIOUS
  <2>2. PICK b \in B : \A s \in B : s <= b
    <3>1. \A s \in B : s <= l
      BY <2>1
    <3>. QED
      BY <1>3, <3>1, GreatestNatural
  <2>3. PICK h \in H : \A s \in H : h <= s
    BY <1>3, LeastNatural
  <2>4. Max(B) = b
    <3>1. B \in SUBSET Int
      OBVIOUS
    <3>. QED
      BY <2>2, <3>1, MaxIs
  <2>5. Min(H) = h
    <3>1. H \in SUBSET Int
      OBVIOUS
    <3>. QED
      BY <2>3, <3>1, MinIs
  <2>6. b < h
    BY <1>3, <2>4, <2>5
  <2>7. b \in Int /\ a <= b /\ b <= l
    BY <2>1
  <2>8. ASSUME NEW s \in B PROVE s \in a..b
    BY <2>1, <2>2, <2>7
  <2>9. ASSUME NEW s \in a..b PROVE s \in B
    <3>1. s \in a..l
      BY <2>7
    <3>2. s \in B \cup H
      BY <3>1
    <3>3. s \notin H
      BY <2>3, <2>6, <2>7
    <3>. QED
      BY <3>2, <3>3
  <2>10. B = a..b
    BY <2>8, <2>9
  <2>. QED
    BY <2>7, <2>10
<1>. QED
  BY <1>1, <1>2, <1>3

\* A message that passes checkOrderGraphConsistency has no gap, and its base comes first.
LEMMA MessageShape ==
  ASSUME NEW n \in DOMAIN Messages, checkOrderGraphConsistency(Messages[n])
  PROVE  \E a \in Nat, l \in Nat, b \in Int :
           /\ a <= l /\ a <= b + 1 /\ b <= l
           /\ SeqIds(Messages[n]) = a..l
           /\ Released(Parts(Messages[n])) = a..b
           /\ Elem(Messages[n]) = Span(a, l, b)
<1>. DEFINE m == Messages[n]
            P == Parts(m)
            B == Released(P)
            H == {e.seq : e \in {p \in P : ~p.released}}
            T == SeqIds(m)
<1>1. P \in SUBSET Element /\ IsFiniteSet(P)
  BY MessageType, FS_Union DEF Parts
<1>2. T = B \cup H
  BY <1>1 DEF SeqIds, Released, Element
<1>3. T \in SUBSET Nat /\ IsFiniteSet(T)
  BY <1>1, FiniteIds DEF SeqIds
<1>4. B \in SUBSET Nat /\ H \in SUBSET Nat /\ IsFiniteSet(B) /\ IsFiniteSet(H)
  BY <1>2, <1>3, FS_Subset
<1>5. /\ m.nodes # {}
      /\ B \cap H = {}
      /\ Max(T) - Min(T) + 1 = Cardinality(B) + Cardinality(H)
      /\ B # {} /\ H # {} => Max(B) < Min(H)
  BY DEF checkOrderGraphConsistency, Released
<1>6. T # {}
  <2>1. PICK e \in m.nodes : TRUE
    BY <1>5
  <2>2. e.seq \in T
    BY <2>1 DEF SeqIds, Parts
  <2>. QED
    BY <2>2
<1>7. \A s \in T : s \in B <=> \E e \in P : e.seq = s /\ e.released
  BY DEF Released
<1>8. Elem(m) = [s \in T |-> \E e \in P : e.seq = s /\ e.released]
  BY DEF Elem
<1>. HIDE DEF P, B, H, T
<1>9. PICK a \in T : \A s \in T : a <= s
  BY <1>3, <1>6, LeastNatural
<1>10. PICK l \in T : \A s \in T : s <= l
  <2>1. PICK k \in Nat : \A s \in T : s <= k
    BY <1>3, FiniteIsBounded
  <2>. QED
    BY <1>3, <1>6, <2>1, GreatestNatural
<1>11. a \in Nat /\ l \in Nat /\ a <= l /\ Min(T) = a /\ Max(T) = l
  <2>1. T \in SUBSET Int
    BY <1>3
  <2>. QED
    BY <1>3, <1>9, <1>10, <2>1, MinIs, MaxIs
<1>12. T = a..l
  <2>1. T \subseteq a..l
    BY <1>3, <1>9, <1>10, <1>11
  <2>2. IsFiniteSet(a..l) /\ Cardinality(a..l) = l - a + 1
    BY <1>11, FS_Interval
  <2>3. Cardinality(T) = l - a + 1
    <3>1. Cardinality(T) = Cardinality(B) + Cardinality(H) - Cardinality(B \cap H)
      BY <1>2, <1>4, FS_Union
    <3>2. Cardinality(B \cap H) = 0
      BY <1>5, FS_EmptySet
    <3>3. Cardinality(B) \in Nat /\ Cardinality(H) \in Nat
      BY <1>4, FS_CardinalityType
    <3>. QED
      BY <1>5, <1>11, <3>1, <3>2, <3>3
  <2>. QED
    BY <2>1, <2>2, <2>3, FS_Subset
<1>13. PICK b \in Int : a <= b + 1 /\ b <= l /\ B = a..b
  <2>1. B \cup H = a..l /\ (B # {} /\ H # {} => Max(B) < Min(H))
    BY <1>2, <1>5, <1>12
  <2>2. B \in SUBSET Nat /\ H \in SUBSET Nat /\ B \cap H = {}
    BY <1>4, <1>5
  <2>. QED
    BY <1>11, <2>1, <2>2, LowerPart
<1>14. Elem(m) = Span(a, l, b)
  <2>1. \A s \in T : s \in B <=> s <= b
    BY <1>11, <1>12, <1>13
  <2>2. \A s \in T : (s <= b) <=> (\E e \in P : e.seq = s /\ e.released)
    BY <1>7, <2>1
  <2>3. ASSUME NEW s \in T PROVE (s <= b) = (\E e \in P : e.seq = s /\ e.released)
    <3>1. s \in Int
      BY <1>3
    <3>2. CASE s <= b
      BY <2>2, <3>1, <3>2
    <3>3. CASE ~(s <= b)
      <4>1. (s <= b) = FALSE
        BY <3>1, <3>3
      <4>2. (\E e \in P : e.seq = s /\ e.released) = FALSE
        BY <2>2, <3>3
      <4>. QED
        BY <4>1, <4>2
    <3>. QED
      BY <3>2, <3>3
  <2>. QED
    BY <1>8, <1>12, <2>3 DEF Span
<1>. QED
  BY <1>11, <1>12, <1>13, <1>14 DEF T, B, P

\* What an order that is interpreted to its end has besides: its base ends in a node.
LEMMA WholeShape ==
  ASSUME NEW n \in DOMAIN Messages, checkOrderGraphConsistency(Messages[n]),
         ~EndsInEdge(Messages[n])
  PROVE  \E a \in Nat, l \in Nat, b \in Int :
           /\ a <= l /\ a <= b + 1 /\ b <= l /\ (a <= b => IsNode(b))
           /\ SeqIds(Messages[n]) = a..l
           /\ Released(Parts(Messages[n])) = a..b
           /\ Elem(Messages[n]) = Span(a, l, b)
<1>1. PICK a \in Nat, l \in Nat, b \in Int :
        /\ a <= l /\ a <= b + 1 /\ b <= l
        /\ SeqIds(Messages[n]) = a..l
        /\ Released(Parts(Messages[n])) = a..b
        /\ Elem(Messages[n]) = Span(a, l, b)
  BY MessageShape
<1>2. ASSUME a <= b PROVE IsNode(b)
  <2>1. a..b # {} /\ Max(a..b) = b
    BY <1>2, IntervalBounds
  <2>2. b % 2 # 1
    BY <1>1, <2>1 DEF EndsInEdge
  <2>. QED
    BY <2>2 DEF IsNode
<1>. QED
  BY <1>1, <1>2

-------------------------------------------------------------------------------
(* The graph *)

\* The ids, the bounds and the base of a graph without a gap.
LEMMA SpanFacts ==
  ASSUME NEW a \in Nat, NEW l \in Nat, NEW b \in Int, a <= l, a <= b + 1, b <= l,
         NEW g, g.elem = Span(a, l, b)
  PROVE  /\ Ids(g) = a..l /\ FirstId(g) = a /\ LastId(g) = l
         /\ \A s \in a..l : g.elem[s] <=> s <= b
         /\ BaseIds(g) = a..b
         /\ a <= b => BaseLast(g) = b
         /\ HasHorizon(g) <=> b < l
         /\ \A s : CanStandOn(g, s) <=> s \in a..b /\ IsNode(s)
<1>1. Ids(g) = a..l
  BY DEF Ids, Span
<1>2. FirstId(g) = a /\ LastId(g) = l
  BY <1>1, IntervalBounds DEF FirstId, LastId
<1>3. \A s \in a..l : g.elem[s] <=> s <= b
  BY DEF Span
<1>4. BaseIds(g) = a..b
  BY <1>1, <1>3 DEF BaseIds
<1>5. a <= b => BaseLast(g) = b
  BY <1>4, IntervalBounds DEF BaseLast
<1>6. HasHorizon(g) <=> b < l
  BY <1>2, <1>3 DEF HasHorizon
<1>7. \A s : CanStandOn(g, s) <=> s \in a..b /\ IsNode(s)
  BY <1>1, <1>3 DEF CanStandOn
<1>. QED
  BY <1>1, <1>2, <1>3, <1>4, <1>5, <1>6, <1>7

\* The AGV stands on the first node a, the base ends in node b and the horizon in l.
Standing(g, a, b, l) ==
  /\ a \in Nat /\ b \in Nat /\ l \in Nat
  /\ a <= b /\ b <= l /\ IsNode(a) /\ IsNode(b)
  /\ g = [elem |-> Span(a, l, b), pos |-> a]

\* What is known of such a graph, and that it is well formed.
LEMMA StandingFacts ==
  ASSUME NEW g, NEW a, NEW b, NEW l, Standing(g, a, b, l)
  PROVE  /\ g # NoGraph /\ g.pos = a
         /\ Ids(g) = a..l /\ FirstId(g) = a /\ LastId(g) = l
         /\ \A s \in a..l : g.elem[s] <=> s <= b
         /\ BaseIds(g) = a..b /\ BaseLast(g) = b
         /\ HasHorizon(g) <=> b < l
         /\ \A s : CanStandOn(g, s) <=> s \in a..b /\ IsNode(s)
         /\ Buildable(g.elem)
<1>1. g.elem = Span(a, l, b) /\ g.pos = a /\ a \in Nat /\ b \in Nat /\ l \in Nat
  BY DEF Standing
<1>2. a <= l /\ a <= b + 1 /\ b <= l /\ a <= b /\ b \in Int
  BY DEF Standing
<1>3. g # NoGraph
  BY <1>1 DEF NoGraph, Nowhere
<1>4. Buildable(g.elem)
  <2>1. DOMAIN g.elem = a..l /\ \A s \in a..l : g.elem[s] <=> s <= b
    BY <1>1 DEF Span
  <2>. QED
    BY <1>1, <2>1 DEF Buildable
<1>. HIDE DEF Standing
<1>. QED
  BY <1>1, <1>2, <1>3, <1>4, SpanFacts

\* Only the elements of a smaller interval are left.
LEMMA OnlySpan ==
  ASSUME NEW a \in Nat, NEW l \in Nat, NEW b \in Int, NEW p, NEW c \in Nat, NEW k \in Nat,
         a <= c, k <= l
  PROVE  Only([elem |-> Span(a, l, b), pos |-> p], c..k) = [elem |-> Span(c, k, b), pos |-> p]
<1>1. \A s \in c..k : s \in a..l
  OBVIOUS
<1>2. [s \in c..k |-> Span(a, l, b)[s]] = Span(c, k, b)
  BY <1>1 DEF Span
<1>. QED
  BY <1>2 DEF Only

\* The AGV reaches a node of the base: what is before it goes.
LEMMA TrimStands ==
  ASSUME NEW g, NEW a, NEW b, NEW l, Standing(g, a, b, l), NEW s, CanStandOn(g, s)
  PROVE  Standing(Trim(StandOn(g, s)), s, b, l)
<1>1. s \in a..b /\ IsNode(s) /\ Ids(g) = a..l
  BY StandingFacts
<1>2. /\ a \in Nat /\ b \in Nat /\ l \in Nat /\ a <= b /\ b <= l /\ IsNode(b)
      /\ g = [elem |-> Span(a, l, b), pos |-> a]
  BY DEF Standing
<1>3. s \in Nat /\ a <= s /\ s <= b
  BY <1>1, <1>2
<1>4. StandOn(g, s) = [elem |-> Span(a, l, b), pos |-> s]
  BY <1>2 DEF StandOn
<1>5. {t \in Ids(StandOn(g, s)) : t >= StandOn(g, s).pos} = s..l
  <2>1. Ids(StandOn(g, s)) = a..l /\ StandOn(g, s).pos = s
    BY <1>1, <1>2, <1>4 DEF Ids
  <2>2. {t \in a..l : t >= s} = s..l
    BY <1>2, <1>3
  <2>. QED
    BY <2>1, <2>2
<1>6. Trim(StandOn(g, s)) = [elem |-> Span(s, l, b), pos |-> s]
  <2>1. Trim(StandOn(g, s)) = Only(StandOn(g, s), s..l)
    BY <1>5 DEF Trim
  <2>2. b \in Int /\ l <= l
    BY <1>2
  <2>3. Only(StandOn(g, s), s..l) = [elem |-> Span(s, l, b), pos |-> s]
    <3>1. Only([elem |-> Span(a, l, b), pos |-> s], s..l) = [elem |-> Span(s, l, b), pos |-> s]
      BY <1>2, <1>3, <2>2, OnlySpan
    <3>. QED
      BY <1>4, <3>1
  <2>. QED
    BY <2>1, <2>3
<1>. QED
  BY <1>1, <1>2, <1>3, <1>6 DEF Standing

\* A new order whose base begins at node 0.
LEMMA NewStands ==
  ASSUME NEW n \in DOMAIN Messages, checkOrderGraphConsistency(Messages[n]),
         ~EndsInEdge(Messages[n]), NEW g, g = NewGraph(Elem(Messages[n])),
         BaseIds(g) # {}, CanStandOn(g, 0)
  PROVE  \E b, l : /\ Standing(StandOn(g, 0), 0, b, l)
                   /\ BaseIds(g) = 0..b /\ SeqIds(Messages[n]) = 0..l
                   /\ Released(Parts(Messages[n])) = 0..b
<1>1. PICK a \in Nat, l \in Nat, b \in Int :
        /\ a <= l /\ a <= b + 1 /\ b <= l /\ (a <= b => IsNode(b))
        /\ SeqIds(Messages[n]) = a..l
        /\ Released(Parts(Messages[n])) = a..b
        /\ Elem(Messages[n]) = Span(a, l, b)
  BY WholeShape
<1>2. g = [elem |-> Span(a, l, b), pos |-> Nowhere] /\ g.elem = Span(a, l, b)
  BY <1>1 DEF NewGraph
<1>3. BaseIds(g) = a..b /\ (CanStandOn(g, 0) => 0 \in a..b)
  BY <1>1, <1>2, SpanFacts
<1>4. a = 0 /\ b \in Nat /\ a <= b
  BY <1>3
<1>5. IsNode(0)
  BY DEF IsNode
<1>6. StandOn(g, 0) = [elem |-> Span(a, l, b), pos |-> 0]
  BY <1>2 DEF StandOn
<1>. QED
  BY <1>1, <1>3, <1>4, <1>5, <1>6 DEF Standing

\* An extension begins where the base ends, or right behind it: the horizon goes, and the
\* new base ends where that of the extension does.
LEMMA ExtendStands ==
  ASSUME NEW n \in DOMAIN Messages, checkOrderGraphConsistency(Messages[n]),
         ~EndsInEdge(Messages[n]), NEW g, NEW a, NEW b, NEW l, Standing(g, a, b, l),
         NEW other, other = NewGraph(Elem(Messages[n])), CanExtend(g, other),
         BaseIds(other) # {}
  PROVE  \E c, k, f :
           /\ Standing(Extend(g, other), a, c, k) /\ b <= c
           /\ f \in {b, b + 1} /\ BaseIds(other) = f..c /\ SeqIds(Messages[n]) = f..k
           /\ {s \in BaseIds(other) : s >= DeltaFirst(g, other)} = (b + 1)..c
           /\ Released(Parts(Messages[n])) = f..c
<1>1. PICK f \in Nat, k \in Nat, c \in Int :
        /\ f <= k /\ f <= c + 1 /\ c <= k /\ (f <= c => IsNode(c))
        /\ SeqIds(Messages[n]) = f..k
        /\ Released(Parts(Messages[n])) = f..c
        /\ Elem(Messages[n]) = Span(f, k, c)
  BY WholeShape
<1>2. other = [elem |-> Span(f, k, c), pos |-> Nowhere] /\ other.elem = Span(f, k, c)
  BY <1>1 DEF NewGraph
<1>3. Ids(other) = f..k /\ FirstId(other) = f /\ BaseIds(other) = f..c
  BY <1>1, <1>2, SpanFacts
<1>4. /\ Ids(g) = a..l /\ BaseLast(g) = b /\ (HasHorizon(g) <=> b < l) /\ g.pos = a
      /\ a \in Nat /\ b \in Nat /\ l \in Nat /\ a <= b /\ b <= l /\ IsNode(a)
      /\ g = [elem |-> Span(a, l, b), pos |-> a]
  BY StandingFacts DEF Standing
<1>5. f \in {b, b + 1}
  BY <1>3, <1>4 DEF CanExtend
<1>6. f <= c /\ c \in Nat /\ IsNode(c) /\ b <= c
  BY <1>1, <1>3, <1>4, <1>5
<1>7. CleanHorizon(g).elem = Span(a, b, b)
  <2>1. CASE b < l
    <3>1. {s \in Ids(g) : s <= BaseLast(g)} = a..b
      BY <1>4
    <3>2. BaseLast(g) + 1 \in Ids(g) /\ HasHorizon(g)
      BY <1>4, <2>1
    <3>3. CleanHorizon(g) = Only(g, a..b)
      BY <3>1, <3>2 DEF CleanHorizon
    <3>4. Only(g, a..b) = [elem |-> Span(a, b, b), pos |-> a]
      <4>1. b \in Int /\ a <= a
        BY <1>4
      <4>. QED
        <5>1. Only([elem |-> Span(a, l, b), pos |-> a], a..b)
                = [elem |-> Span(a, b, b), pos |-> a]
          BY <1>4, <4>1, OnlySpan
        <5>. QED
          BY <1>4, <5>1
    <3>. QED
      BY <3>3, <3>4
  <2>2. CASE b = l
    BY <1>4, <2>2 DEF CleanHorizon
  <2>. QED
    BY <1>4, <2>1, <2>2
<1>8. Ids(CleanHorizon(g)) = a..b
  BY <1>7 DEF Ids, Span
<1>9. Extend(g, other).elem = Span(a, k, c)
  <2>1. (f..k) \cup (a..b) = a..k
    BY <1>1, <1>4, <1>5, <1>6
  <2>2. Extend(g, other).elem =
          [s \in a..k |-> IF s \in f..k THEN other.elem[s] ELSE CleanHorizon(g).elem[s]]
    BY <1>3, <1>8, <2>1 DEF Extend
  <2>3. ASSUME NEW s \in a..k
        PROVE  (IF s \in f..k THEN other.elem[s] ELSE CleanHorizon(g).elem[s]) = (s <= c)
    <3>1. CASE s \in f..k
      BY <1>2, <3>1 DEF Span
    <3>2. CASE s \notin f..k
      <4>1. s \in a..b /\ s <= c
        BY <1>1, <1>4, <1>5, <1>6, <3>2
      <4>2. CleanHorizon(g).elem[s] = (s <= b)
        BY <1>7, <4>1 DEF Span
      <4>. QED
        BY <3>2, <4>1, <4>2
    <3>. QED
      BY <3>1, <3>2
  <2>. QED
    BY <2>2, <2>3 DEF Span
<1>10. Extend(g, other) = [elem |-> Span(a, k, c), pos |-> a]
  <2>1. Extend(g, other) = [elem |-> Extend(g, other).elem, pos |-> Extend(g, other).pos]
    BY DEF Extend
  <2>2. Extend(g, other).pos = a
    BY <1>4 DEF Extend, Nowhere
  <2>. QED
    BY <1>9, <2>1, <2>2
<1>11. Standing(Extend(g, other), a, c, k)
  BY <1>1, <1>4, <1>6, <1>10 DEF Standing
<1>12. {s \in BaseIds(other) : s >= DeltaFirst(g, other)} = (b + 1)..c
  <2>1. DeltaFirst(g, other) = b + 1
    BY <1>3, <1>4, <1>5 DEF DeltaFirst
  <2>. QED
    BY <1>3, <1>4, <1>5, <1>6, <2>1
<1>. QED
  BY <1>1, <1>3, <1>5, <1>6, <1>11, <1>12

\* Numbers of a finite set can be put in ascending order.
LEMMA AscendingType ==
  ASSUME NEW S \in SUBSET Nat, IsFiniteSet(S)
  PROVE  Ascending(S) \in [1..Cardinality(S) -> S]
<1>. DEFINE Rising(q, n) == \A i, j \in 1..n : i < j => q[i] < q[j]
            D == {n \in Nat : \A T \in SUBSET Nat : IsFiniteSet(T) /\ Cardinality(T) = n =>
                                \E q \in [1..n -> T] : Rising(q, n)}
<1>1. 0 \in D
  <2>1. ASSUME NEW T \in SUBSET Nat PROVE \E q \in [1..0 -> T] : Rising(q, 0)
    <3>1. [i \in 1..0 |-> 0] \in [1..0 -> T]
      OBVIOUS
    <3>2. \A q : Rising(q, 0)
      OBVIOUS
    <3>. HIDE DEF Rising
    <3>. QED
      BY <3>1, <3>2
  <2>. QED
    BY <2>1
<1>2. ASSUME NEW n \in D PROVE n + 1 \in D
  <2>0. n \in Nat
    OBVIOUS
  <2>1. SUFFICES ASSUME NEW T \in SUBSET Nat, IsFiniteSet(T), Cardinality(T) = n + 1
                 PROVE  \E q \in [1..(n + 1) -> T] : Rising(q, n + 1)
    BY <2>0
  <2>2. T # {}
    BY <2>0, <2>1, FS_EmptySet
  <2>3. PICK x \in T : \A y \in T : y <= x
    BY <2>1, <2>2, FiniteIsBounded, GreatestNatural
  <2>4. IsFiniteSet(T \ {x}) /\ Cardinality(T \ {x}) = n
    BY <2>0, <2>1, <2>3, FS_RemoveElement
  <2>5. PICK q \in [1..n -> T \ {x}] : Rising(q, n)
    BY <2>4
  <2>. DEFINE r == [i \in 1..(n + 1) |-> IF i = n + 1 THEN x ELSE q[i]]
  <2>6. \A i \in 1..(n + 1) : i = n + 1 \/ (i \in 1..n /\ i < n + 1)
    BY <2>0
  <2>7. r \in [1..(n + 1) -> T]
    BY <2>3, <2>5, <2>6
  <2>8. ASSUME NEW i \in 1..(n + 1), NEW j \in 1..(n + 1), i < j PROVE r[i] < r[j]
    <3>1. i \in 1..n /\ i # n + 1
      BY <2>0, <2>8
    <3>2. r[i] = q[i] /\ q[i] \in T \ {x}
      BY <2>5, <3>1
    <3>3. CASE j = n + 1
      <4>1. r[j] = x
        BY <3>3
      <4>2. q[i] <= x /\ q[i] # x /\ q[i] \in Nat /\ x \in Nat
        BY <2>3, <3>2
      <4>. QED
        BY <3>2, <4>1, <4>2
    <3>4. CASE j # n + 1
      <4>1. j \in 1..n
        BY <2>6, <3>4
      <4>2. r[j] = q[j]
        BY <3>4
      <4>. QED
        BY <2>5, <2>8, <3>1, <3>2, <4>1, <4>2
    <3>. QED
      BY <3>3, <3>4
  <2>. QED
    BY <2>7, <2>8
<1>3. D = Nat
  <2>1. D \subseteq Nat
    OBVIOUS
  <2>. HIDE DEF D
  <2>. QED
    BY <1>1, <1>2, <2>1, NatSetInduction
<1>4. Cardinality(S) \in Nat
  BY FS_CardinalityType
<1>5. PICK q \in [1..Cardinality(S) -> S] : Rising(q, Cardinality(S))
  <2>1. Cardinality(S) \in D
    <3>. HIDE DEF D
    <3>. QED
      BY <1>3, <1>4
  <2>. QED
    BY <2>1
<1>6. Ascending(S) = q
  BY <1>4, <1>5, AscendingIs
<1>. QED
  BY <1>5, <1>6

-------------------------------------------------------------------------------
(* Types *)

Names       == DOMAIN Messages
SoundNames  == {n \in Names : checkOrderGraphConsistency(Messages[n])}
WholeNames  == {n \in SoundNames : ~EndsInEdge(Messages[n])}
OrderStates == {"idle", "active", "canceling"}
PlaceType   == [order : Nat, seq : Nat]
GraphType   == [elem : UNION {[S -> BOOLEAN] : S \in SUBSET Nat}, pos : Int]
StatesType  == UNION {[A -> Status] : A \in SUBSET Action}

OrderManagerType ==
  [id : Nat, update : Nat, graph : GraphType, last : Nat, states : StatesType,
   status : OrderStates]

\* A message is valid when its graph has been checked, and its graph is handled when it has
\* been interpreted to the end.
MsgType ==
  [kind : {"order", "validating"}, name : Names] \cup [kind : {"valid"}, name : SoundNames]
    \cup [kind : {"instant", "validInstant"}, action : Instants]
    \cup [kind : {"cancel", "validCancel"}]

InboxType ==
  [kind : {"clear", "cancel"}] \cup [kind : {"new"}, name : Names]
    \cup [kind : {"graph", "done"}, name : WholeNames]
    \cup [kind : {"group"}, action : Instants]

EventType ==
  [kind : {"action"}, action : Action, status : {"RUNNING", Finished}]
    \cup [kind : {"status"}, status : OrderStates]

NavType ==
  [kind : {"position"}, at : PlaceType] \cup [kind : {"reached"}, seq : Nat]
    \cup [kind : {"failed"}]

SchedulerType ==
  [goals : Seq(PlaceType), tasks : SUBSET Action, begun : SUBSET Action, said : OrderStates]

TypeOK ==
  /\ om \in OrderManagerType /\ latches \in Nat
  /\ msgs \in Seq(MsgType) /\ inbox \in Seq(InboxType)
  /\ events \in Seq(EventType) /\ navs \in Seq(NavType)
  /\ sched \in SchedulerType /\ alive \subseteq Thread
  /\ told \in Seq(Nat) /\ cleared \subseteq Action /\ agv \in PlaceType

\* The queues hold what their threads can take.
LEMMA MessageTaken ==
  ASSUME NEW e \in MsgType
  PROVE  /\ e.kind \in {"order", "validating"} => e.name \in Names
         /\ e.kind = "valid" => e.name \in SoundNames
         /\ e.kind \in {"instant", "validInstant"} => e.action \in Instants
  BY DEF MsgType

LEMMA InboxTaken ==
  ASSUME NEW e \in InboxType
  PROVE  /\ e.kind = "new" => e.name \in Names
         /\ e.kind \in {"graph", "done"} => e.name \in WholeNames
         /\ e.kind = "group" => e.action \in Instants
  BY DEF InboxType

LEMMA EventTaken ==
  ASSUME NEW e \in EventType
  PROVE  /\ e.kind = "action" => e.action \in Action /\ e.status \in {"RUNNING", Finished}
         /\ e.kind = "status" => e.status \in OrderStates
  BY DEF EventType

LEMMA NavTaken ==
  ASSUME NEW e \in NavType
  PROVE  /\ e.kind = "position" => e.at \in PlaceType
         /\ e.kind = "reached" => e.seq \in Nat
  BY DEF NavType

\* What is put into the queues.
LEMMA MessagePut ==
  /\ \A n \in Names : Order(n) \in MsgType /\ Validating(n) \in MsgType
  /\ \A n \in SoundNames : ValidOrder(n) \in MsgType
  /\ \A a \in Instants : Instant(a) \in MsgType /\ ValidInstant(a) \in MsgType
  /\ Cancel \in MsgType /\ ValidCancel \in MsgType
  BY DEF MsgType, Order, Validating, ValidOrder, Instant, ValidInstant, Cancel, ValidCancel

LEMMA InboxPut ==
  /\ [kind |-> "clear"] \in InboxType /\ [kind |-> "cancel"] \in InboxType
  /\ \A n \in Names : [kind |-> "new", name |-> n] \in InboxType
  /\ \A n \in WholeNames : /\ [kind |-> "graph", name |-> n] \in InboxType
                           /\ [kind |-> "done", name |-> n] \in InboxType
  /\ \A a \in Instants : [kind |-> "group", action |-> a] \in InboxType
  BY DEF InboxType

LEMMA EventPut ==
  /\ \A a \in Action : \A st \in {"RUNNING", Finished} : ActionChanged(a, st) \in EventType
  /\ \A st \in OrderStates : OrderStatus(st) \in EventType
  BY DEF EventType, ActionChanged, OrderStatus

LEMMA NavPut ==
  /\ agv \in PlaceType => Position \in NavType
  /\ \A s \in Nat : NodeReached(s) \in NavType
  /\ NavigationFailed \in NavType
  BY DEF NavType, Position, NodeReached, NavigationFailed

\* The first element of a queue and the others.
LEMMA QueueTaken ==
  ASSUME NEW S, NEW q \in Seq(S), q # <<>>
  PROVE  /\ Head(q) \in S /\ Tail(q) \in Seq(S) /\ Head(q) = q[1] /\ 1 \in DOMAIN q
         /\ Len(Tail(q)) = Len(q) - 1 /\ Len(q) \in Nat \ {0}
         /\ \A i \in DOMAIN Tail(q) : i + 1 \in DOMAIN q /\ Tail(q)[i] = q[i + 1]
  OBVIOUS

LEMMA QueuePut ==
  ASSUME NEW S, NEW q \in Seq(S), NEW e \in S
  PROVE  /\ Append(q, e) \in Seq(S) /\ Len(Append(q, e)) = Len(q) + 1
         /\ DOMAIN Append(q, e) = DOMAIN q \cup {Len(q) + 1}
         /\ \A i \in DOMAIN q : Append(q, e)[i] = q[i]
         /\ Append(q, e)[Len(q) + 1] = e
  OBVIOUS

\* The functions of the graph keep its type.
LEMMA NewGraphType ==
  ASSUME NEW n \in Names
  PROVE  NewGraph(Elem(Messages[n])) \in GraphType
<1>1. Parts(Messages[n]) \in SUBSET Element
  BY MessageType DEF Parts, Names
<1>2. SeqIds(Messages[n]) \in SUBSET Nat
  BY <1>1 DEF SeqIds, Element
<1>3. Elem(Messages[n]) \in [SeqIds(Messages[n]) -> BOOLEAN]
  BY DEF Elem
<1>. QED
  BY <1>2, <1>3 DEF NewGraph, GraphType, Nowhere

LEMMA GraphFields ==
  ASSUME NEW g \in GraphType
  PROVE  /\ Ids(g) \in SUBSET Nat /\ g.elem \in [Ids(g) -> BOOLEAN] /\ g.pos \in Int
         /\ g = [elem |-> g.elem, pos |-> g.pos]
<1>1. PICK S \in SUBSET Nat : g.elem \in [S -> BOOLEAN]
  BY DEF GraphType
<1>2. Ids(g) = S
  BY <1>1 DEF Ids
<1>. QED
  BY <1>1, <1>2 DEF GraphType

LEMMA GraphTyped ==
  ASSUME NEW S \in SUBSET Nat, NEW f \in [S -> BOOLEAN], NEW p \in Int
  PROVE  [elem |-> f, pos |-> p] \in GraphType
  BY DEF GraphType

LEMMA StandOnType ==
  ASSUME NEW g \in GraphType, NEW s \in Int
  PROVE  StandOn(g, s) \in GraphType
<1>1. StandOn(g, s) = [elem |-> g.elem, pos |-> s]
  BY GraphFields DEF StandOn
<1>. QED
  BY <1>1, GraphFields, GraphTyped

LEMMA OnlyType ==
  ASSUME NEW g \in GraphType, NEW S \in SUBSET Ids(g)
  PROVE  Only(g, S) \in GraphType
<1>1. S \in SUBSET Nat /\ [s \in S |-> g.elem[s]] \in [S -> BOOLEAN]
  BY GraphFields
<1>2. Only(g, S) = [elem |-> [s \in S |-> g.elem[s]], pos |-> g.pos]
  BY GraphFields DEF Only
<1>. QED
  BY <1>1, <1>2, GraphFields, GraphTyped

LEMMA TrimType ==
  ASSUME NEW g \in GraphType
  PROVE  Trim(g) \in GraphType
  BY OnlyType DEF Trim

LEMMA ExtendType ==
  ASSUME NEW g \in GraphType, NEW other \in GraphType
  PROVE  Extend(g, other) \in GraphType
<1>1. CleanHorizon(g) \in GraphType
  BY OnlyType DEF CleanHorizon
<1>. DEFINE kept == CleanHorizon(g)
            S == Ids(other) \cup Ids(kept)
            f == [s \in S |-> IF s \in Ids(other) THEN other.elem[s] ELSE kept.elem[s]]
            p == IF g.pos = Nowhere THEN other.pos ELSE g.pos
<1>2. S \in SUBSET Nat /\ f \in [S -> BOOLEAN] /\ p \in Int
  <2>. HIDE DEF kept
  <2>. QED
    BY <1>1, GraphFields DEF kept
<1>3. Extend(g, other) = [elem |-> f, pos |-> p]
  BY DEF Extend
<1>. QED
  BY <1>2, <1>3, GraphTyped

LEMMA NoGraphType == NoGraph \in GraphType
<1>1. <<>> \in [{} -> BOOLEAN]
  OBVIOUS
<1>2. {} \in SUBSET Nat /\ Nowhere \in Int
  BY DEF Nowhere
<1>3. [elem |-> <<>>, pos |-> Nowhere] \in GraphType
  BY <1>1, <1>2, GraphTyped
<1>. QED
  BY <1>3 DEF NoGraph

\* The goal of the AGV is a node of the graph.
LEMMA GoalType ==
  ASSUME NEW g \in GraphType, CurrentGoal(g) # NoNode
  PROVE  CurrentGoal(g) \in Nat
  BY GraphFields DEF CurrentGoal, CanStandOn

\* The action states, as the handlers change them.
LEMMA StatesFields ==
  ASSUME NEW st \in StatesType
  PROVE  DOMAIN st \in SUBSET Action /\ st \in [DOMAIN st -> Status]
  BY DEF StatesType

LEMMA StatesTyped ==
  ASSUME NEW A \in SUBSET Action, NEW st \in [A -> Status]
  PROVE  st \in StatesType
  BY DEF StatesType

LEMMA NoStatesType == <<>> \in StatesType
<1>1. <<>> \in [{} -> Status]
  OBVIOUS
<1>. QED
  BY <1>1, StatesTyped

LEMMA CancelWaitingType ==
  ASSUME NEW st \in StatesType
  PROVE  CancelWaiting(st) \in StatesType
<1>1. CancelWaiting(st) \in [DOMAIN st -> Status]
  BY StatesFields DEF CancelWaiting, Status, Failed
<1>. QED
  BY <1>1, StatesFields, StatesTyped

\* The fields of the order manager.
LEMMA ManagerFields ==
  ASSUME NEW o \in OrderManagerType
  PROVE  /\ o.id \in Nat /\ o.update \in Nat /\ o.graph \in GraphType /\ o.last \in Nat
         /\ o.states \in StatesType /\ o.status \in OrderStates
  BY DEF OrderManagerType

LEMMA ManagerSet ==
  ASSUME NEW o \in OrderManagerType
  PROVE  /\ \A st \in StatesType : [o EXCEPT !.states = st] \in OrderManagerType
         /\ \A x \in OrderStates : [o EXCEPT !.status = x] \in OrderManagerType
         /\ \A u \in Nat : \A g \in GraphType :
              [o EXCEPT !.update = u, !.graph = g] \in OrderManagerType
         /\ \A g \in GraphType : \A s \in Nat :
              [o EXCEPT !.graph = g, !.last = s] \in OrderManagerType
         /\ \A n \in Nat : \A g \in GraphType :
              [o EXCEPT !.id = n, !.update = 0, !.last = 0, !.graph = g] \in OrderManagerType
         /\ \A g \in GraphType : [o EXCEPT !.graph = g] \in OrderManagerType
  BY DEF OrderManagerType

LEMMA WithNewType ==
  ASSUME om \in OrderManagerType, NEW A \in SUBSET Action
  PROVE  /\ WithNew(A) \in OrderManagerType
         /\ WithNew(A) = [om EXCEPT !.states = WithNew(A).states]
         /\ DOMAIN WithNew(A).states = DOMAIN om.states \cup A
         /\ \A a \in DOMAIN om.states : WithNew(A).states[a] = om.states[a]
         /\ \A a \in A \ DOMAIN om.states : WithNew(A).states[a] = Waiting
<1>. DEFINE st == [a \in DOMAIN om.states \cup A |->
                     IF a \in DOMAIN om.states THEN om.states[a] ELSE Waiting]
<1>1. st \in StatesType
  <2>1. om.states \in StatesType
    BY ManagerFields
  <2>2. DOMAIN om.states \cup A \in SUBSET Action /\ st \in [DOMAIN om.states \cup A -> Status]
    BY <2>1, StatesFields DEF Status
  <2>. QED
    BY <2>2, StatesTyped
<1>2. WithNew(A) = [om EXCEPT !.states = st]
  BY DEF WithNew
<1>3. WithNew(A) \in OrderManagerType
  BY <1>1, <1>2, ManagerSet
<1>4. WithNew(A).states = st
  BY <1>2 DEF OrderManagerType
<1>. QED
  BY <1>2, <1>3, <1>4

\* The ids of a message, of its base and of its goals can be listed.
LEMMA AscendingSeq ==
  ASSUME NEW n \in Names, NEW S \in SUBSET SeqIds(Messages[n])
  PROVE  Ascending(S) \in Seq(Nat) /\ IsFiniteSet(S) /\ S \in SUBSET Nat
<1>1. Parts(Messages[n]) \in SUBSET Element /\ IsFiniteSet(Parts(Messages[n]))
  BY MessageType, FS_Union DEF Parts, Names
<1>2. SeqIds(Messages[n]) \in SUBSET Nat /\ IsFiniteSet(SeqIds(Messages[n]))
  BY <1>1, FiniteIds DEF SeqIds
<1>3. S \in SUBSET Nat /\ IsFiniteSet(S)
  BY <1>2, FS_Subset
<1>4. Cardinality(S) \in Nat /\ Ascending(S) \in [1..Cardinality(S) -> S]
  BY <1>3, AscendingType, FS_CardinalityType
<1>5. Ascending(S) \in [1..Cardinality(S) -> Nat]
  BY <1>3, <1>4
<1>. QED
  BY <1>3, <1>4, <1>5

LEMMA AscendingPlaces ==
  ASSUME NEW q \in Seq(Nat), NEW id \in Nat
  PROVE  [i \in DOMAIN q |-> Place(id, q[i])] \in Seq(PlaceType)
<1>1. \A i \in DOMAIN q : Place(id, q[i]) \in PlaceType
  BY DEF Place, PlaceType
<1>2. DOMAIN q = 1..Len(q) /\ Len(q) \in Nat
  OBVIOUS
<1>. QED
  BY <1>1, <1>2

LEMMA BaseOfMessage ==
  ASSUME NEW n \in Names
  PROVE  /\ BaseIds(NewGraph(Elem(Messages[n]))) \in SUBSET SeqIds(Messages[n])
         /\ Released(Messages[n].nodes) \in SUBSET SeqIds(Messages[n])
<1>1. BaseIds(NewGraph(Elem(Messages[n]))) \in SUBSET SeqIds(Messages[n])
  BY DEF BaseIds, Ids, NewGraph, Elem
<1>2. Released(Messages[n].nodes) \in SUBSET SeqIds(Messages[n])
  BY DEF Released, SeqIds, Parts
<1>. QED
  BY <1>1, <1>2

\* The fields of the scheduler.
LEMMA SchedulerFields ==
  ASSUME NEW s \in SchedulerType
  PROVE  /\ s.goals \in Seq(PlaceType) /\ s.tasks \in SUBSET Action
         /\ s.begun \in SUBSET Action /\ s.said \in OrderStates
  BY DEF SchedulerType

LEMMA SchedulerSet ==
  ASSUME NEW s \in SchedulerType
  PROVE  /\ \A G \in Seq(PlaceType) : \A T \in SUBSET Action : \A x \in OrderStates :
              [s EXCEPT !.goals = G, !.tasks = T, !.said = x] \in SchedulerType
         /\ \A T, B \in SUBSET Action : [s EXCEPT !.tasks = T, !.begun = B] \in SchedulerType
         /\ \A B \in SUBSET Action : [s EXCEPT !.begun = B] \in SchedulerType
         /\ \A G \in Seq(PlaceType) : \A T \in SUBSET Action :
              [s EXCEPT !.goals = G, !.tasks = T] \in SchedulerType
         /\ \A G \in Seq(PlaceType) : [s EXCEPT !.goals = G] \in SchedulerType
         /\ \A x \in OrderStates : [s EXCEPT !.said = x] \in SchedulerType
  BY DEF SchedulerType

\* The scheduler with new work is one, and says so once.
LEMMA WorkType ==
  ASSUME sched \in SchedulerType, events \in Seq(EventType), NEW G \in Seq(PlaceType),
         NEW A \in SUBSET Action, Work(G, A)
  PROVE  sched' \in SchedulerType /\ events' \in Seq(EventType)
<1>1. CASE G = <<>> /\ A = {}
  BY <1>1 DEF Work
<1>2. CASE ~(G = <<>> /\ A = {})
  <2>1. sched' \in SchedulerType
    <3>1. sched.goals \o G \in Seq(PlaceType) /\ sched.tasks \cup A \in SUBSET Action
      BY SchedulerFields
    <3>2. (IF sched.said = "idle" THEN "active" ELSE sched.said) \in OrderStates
      BY SchedulerFields DEF OrderStates
    <3>. DEFINE x == IF sched.said = "idle" THEN "active" ELSE sched.said
    <3>3. sched' = [sched EXCEPT !.goals = sched.goals \o G, !.tasks = sched.tasks \cup A,
                                 !.said = x]
      BY <1>2 DEF Work
    <3>. HIDE DEF x
    <3>4. x \in OrderStates
      BY <3>2 DEF x
    <3>. QED
      BY <3>1, <3>3, <3>4, SchedulerSet
  <2>2. events' \in Seq(EventType)
    <3>1. OrderStatus("active") \in EventType
      BY EventPut DEF OrderStates
    <3>. QED
      BY <1>2, <3>1, QueuePut DEF Work
  <2>. QED
    BY <2>1, <2>2
<1>. QED
  BY <1>1, <1>2

LEMMA TypeInit == Init => TypeOK
<1>. SUFFICES ASSUME Init PROVE TypeOK
  OBVIOUS
<1>1. om \in OrderManagerType
  BY NoGraphType, NoStatesType DEF Init, OrderManagerType, OrderStates, NoOrder
<1>2. sched \in SchedulerType
  BY DEF Init, SchedulerType, OrderStates
<1>3. agv \in PlaceType
  BY DEF Init, Place, PlaceType, NoOrder
<1>. QED
  BY <1>1, <1>2, <1>3 DEF Init, TypeOK

\* The events of a message that was checked can be taken.
LEMMA EventsType ==
  ASSUME NEW n \in SoundNames
  PROVE  Events(n) \in Seq(InboxType)
<1>1. n \in Names /\ (~EndsInEdge(Messages[n]) => n \in WholeNames)
  BY DEF SoundNames, WholeNames
<1>2. /\ [kind |-> "new", name |-> n] \in InboxType /\ [kind |-> "clear"] \in InboxType
      /\ ~EndsInEdge(Messages[n]) => /\ [kind |-> "graph", name |-> n] \in InboxType
                                     /\ [kind |-> "done", name |-> n] \in InboxType
  BY <1>1, InboxPut
<1>. DEFINE first  == IF Messages[n].update = 0 THEN <<[kind |-> "clear"]>> ELSE <<>>
            middle == <<[kind |-> "new", name |-> n]>>
            last   == IF EndsInEdge(Messages[n]) THEN <<>>
                      ELSE <<[kind |-> "graph", name |-> n], [kind |-> "done", name |-> n]>>
<1>3. first \in Seq(InboxType) /\ last \in Seq(InboxType) /\ middle \in Seq(InboxType)
  BY <1>2
<1>4. first \o middle \o last \in Seq(InboxType)
  <2>. HIDE DEF first, middle, last
  <2>. QED
    BY <1>3
<1>. QED
  BY <1>4 DEF Events

\* What the master control sends and the message event thread does keeps the types.
LEMMA TypeMessages ==
  ASSUME TypeOK, (\E n \in DOMAIN Messages : ReceiveOrder(n))
                   \/ (\E a \in Instants : ReceiveInstant(a)) \/ ReceiveCancel \/ MessageThread
  PROVE  TypeOK'
<1>. USE DEF TypeOK
<1>1. CASE \E n \in DOMAIN Messages : ReceiveOrder(n)
  <2>1. PICK n \in Names : ReceiveOrder(n)
    BY <1>1 DEF Names
  <2>2. Order(n) \in MsgType
    BY MessagePut
  <2>3. msgs' \in Seq(MsgType)
    BY <2>1, <2>2, QueuePut DEF ReceiveOrder, Receive
  <2>. QED
    BY <2>1, <2>3 DEF ReceiveOrder, Receive
<1>2. CASE \E a \in Instants : ReceiveInstant(a)
  BY <1>2, MessagePut, QueuePut DEF ReceiveInstant, Receive
<1>3. CASE ReceiveCancel
  BY <1>3, MessagePut, QueuePut DEF ReceiveCancel, Receive
<1>4. CASE MessageThread
  <2>. DEFINE e == Head(msgs)
  <2>0. msgs # <<>> /\ e \in MsgType /\ Tail(msgs) \in Seq(MsgType)
    <3>1. msgs # <<>>
      BY <1>4 DEF MessageThread, TakesMessage, handleOrderMessage, handleValidateOrder,
        handleValidOrder, handleInstantActionsMessage, handleValidInstantActions,
        handleCancelMessage, handleValidCancel
    <3>. QED
      BY <3>1, QueueTaken
  <2>1. UNCHANGED <<events, navs, sched, told, cleared, agv, sent>>
    BY <1>4 DEF MessageThread, TakesMessage, handleOrderMessage, handleValidateOrder,
      handleValidOrder, handleInstantActionsMessage, handleValidInstantActions,
      handleCancelMessage, handleValidCancel
  <2>2. CASE handleOrderMessage
    <3>1. e.kind = "order" /\ UNCHANGED <<om, latches, inbox, alive>>
      BY <2>2 DEF handleOrderMessage, TakesMessage
    <3>2. Validating(e.name) \in MsgType
      BY <2>0, <3>1, MessageTaken, MessagePut
    <3>3. <<Validating(e.name)>> \o Tail(msgs) \in Seq(MsgType)
      BY <2>0, <3>2
    <3>4. msgs' \in Seq(MsgType)
      BY <2>0, <2>2, <3>3 DEF handleOrderMessage
    <3>. QED
      BY <2>1, <3>1, <3>4
  <2>3. CASE handleValidateOrder
    <3>1. e.kind = "validating" /\ UNCHANGED <<om, latches, inbox>>
      BY <2>3 DEF handleValidateOrder, TakesMessage
    <3>2. e.name \in Names
      BY <2>0, <3>1, MessageTaken
    <3>3. checkOrderGraphConsistency(Messages[e.name]) => ValidOrder(e.name) \in MsgType
      BY <3>2, MessagePut DEF SoundNames
    <3>4. msgs' \in Seq(MsgType)
      <4>1. msgs' = Tail(msgs) \/ ThenValid(ValidOrder(e.name),
                /\ checkOrderId(Messages[e.name])
                /\ checkOrderGraphConsistency(Messages[e.name])
                /\ checkOrderAppend(Messages[e.name])
                /\ uniqueActionIds(Messages[e.name].actions))
        BY <2>3 DEF handleValidateOrder
      <4>2. \/ msgs' = Tail(msgs)
            \/ /\ msgs' = Append(Tail(msgs), ValidOrder(e.name))
               /\ checkOrderGraphConsistency(Messages[e.name])
        BY <4>1 DEF ThenValid
      <4>3. ASSUME ValidOrder(e.name) \in MsgType
            PROVE  Append(Tail(msgs), ValidOrder(e.name)) \in Seq(MsgType)
        BY <2>0, <4>3, QueuePut
      <4>. QED
        BY <2>0, <3>3, <4>2, <4>3
    <3>5. alive' \subseteq Thread
      BY <2>3 DEF handleValidateOrder
    <3>. QED
      BY <2>1, <3>1, <3>4, <3>5
  <2>4. CASE handleValidOrder
    <3>1. e.kind = "valid" /\ UNCHANGED <<om, latches>> /\ msgs' = Tail(msgs)
      BY <2>4 DEF handleValidOrder, TakesMessage
    <3>2. e.name \in SoundNames /\ e.name \in Names
      BY <2>0, <3>1, MessageTaken DEF SoundNames
    <3>3. Events(e.name) \in Seq(InboxType)
      BY <3>2, EventsType
    <3>4. inbox' = inbox \o Events(e.name) /\ alive' \subseteq Thread
      BY <2>4 DEF handleValidOrder
    <3>5. inbox' \in Seq(InboxType)
      BY <3>3, <3>4
    <3>. QED
      BY <2>0, <2>1, <3>1, <3>4, <3>5
  <2>5. CASE handleInstantActionsMessage
    <3>1. e.kind = "instant" /\ UNCHANGED <<om, latches, inbox, alive>>
      BY <2>5 DEF handleInstantActionsMessage, TakesMessage
    <3>2. ValidInstant(e.action) \in MsgType
      BY <2>0, <3>1, MessageTaken, MessagePut
    <3>3. msgs' \in Seq(MsgType)
      BY <2>0, <2>5, <3>2, QueuePut DEF handleInstantActionsMessage, ThenValid
    <3>. QED
      BY <2>1, <3>1, <3>3
  <2>6. CASE handleValidInstantActions
    <3>1. e.kind = "validInstant" /\ UNCHANGED latches /\ msgs' = Tail(msgs)
      BY <2>6 DEF handleValidInstantActions, TakesMessage
    <3>2. e.action \in Instants /\ {e.action} \in SUBSET Action
      BY <2>0, <3>1, MessageTaken, MessagesAssumption
    <3>3. [kind |-> "group", action |-> e.action] \in InboxType
      BY <3>2, InboxPut
    <3>4. inbox' \in Seq(InboxType)
      <4>1. \/ inbox' = inbox
            \/ inbox' = Append(inbox, [kind |-> "group", action |-> e.action])
        BY <2>6 DEF handleValidInstantActions
      <4>2. Append(inbox, [kind |-> "group", action |-> e.action]) \in Seq(InboxType)
        BY <3>3, QueuePut
      <4>. QED
        BY <4>1, <4>2
    <3>5. om' \in OrderManagerType
      BY <2>6, <3>2, WithNewType DEF handleValidInstantActions
    <3>6. alive' \subseteq Thread
      BY <2>6 DEF handleValidInstantActions
    <3>. QED
      BY <2>0, <2>1, <3>1, <3>4, <3>5, <3>6
  <2>7. CASE handleCancelMessage
    <3>1. UNCHANGED <<om, latches, inbox, alive>>
      BY <2>7 DEF handleCancelMessage
    <3>2. msgs' \in Seq(MsgType)
      BY <2>0, <2>7, MessagePut, QueuePut DEF handleCancelMessage, ThenValid
    <3>. QED
      BY <2>1, <3>1, <3>2
  <2>8. CASE handleValidCancel
    <3>1. UNCHANGED <<om, alive>> /\ msgs' = Tail(msgs) /\ latches' \in Nat
      BY <2>8 DEF handleValidCancel
    <3>2. inbox' \in Seq(InboxType)
      BY <2>8, InboxPut, QueuePut DEF handleValidCancel
    <3>. QED
      BY <2>0, <2>1, <3>1, <3>2
  <2>. QED
    BY <1>4, <2>2, <2>3, <2>4, <2>5, <2>6, <2>7, <2>8 DEF MessageThread
<1>. QED
  BY <1>1, <1>2, <1>3, <1>4

\* What the interpreter event thread takes.
LEMMA InterpreterTakes ==
  ASSUME InterpreterThread
  PROVE  /\ "interpreter" \in alive /\ inbox # <<>> /\ inbox' = Tail(inbox)
         /\ UNCHANGED <<latches, msgs, navs, agv, sent>>
  BY DEF InterpreterThread, handleClearActions, handleNewActionEvent,
    handleGraphReplacementEvent, handleGraphExtensionEvent, handleInterpreterDone,
    handleYieldInstantActionGroup, handleOrderControl, Takes

\* What the interpreter event thread does keeps the types.
LEMMA TypeInterpreter ==
  ASSUME TypeOK, InterpreterThread
  PROVE  TypeOK'
<1>. USE DEF TypeOK
<1>. DEFINE e == Head(inbox)
            m == Messages[e.name]
            g == NewGraph(Elem(m))
<1>1. /\ inbox # <<>> /\ e \in InboxType /\ inbox' \in Seq(InboxType)
      /\ UNCHANGED <<latches, msgs, navs, agv, sent>>
  BY InterpreterTakes, QueueTaken
<1>2. CASE handleClearActions
  <2>1. om' \in OrderManagerType
    BY <1>2, NoStatesType, ManagerSet DEF handleClearActions
  <2>2. om.states \in StatesType
    BY ManagerFields
  <2>3. cleared' \subseteq Action
    BY <1>2, <2>2, StatesFields DEF handleClearActions
  <2>. QED
    BY <1>1, <1>2, <2>1, <2>3 DEF handleClearActions
<1>3. CASE handleNewActionEvent
  <2>1. e.kind = "new" /\ UNCHANGED <<events, sched, told, cleared>>
    BY <1>3 DEF handleNewActionEvent, Takes
  <2>2. m.actions \in SUBSET Action
    BY <1>1, <2>1, InboxTaken, MessageType DEF Names
  <2>3. om' \in OrderManagerType
    BY <1>3, <2>2, WithNewType DEF handleNewActionEvent
  <2>4. alive' \subseteq Thread
    BY <1>3 DEF handleNewActionEvent, InterpreterThrows
  <2>. QED
    BY <1>1, <2>1, <2>3, <2>4
<1>4. CASE handleGraphReplacementEvent \/ handleGraphExtensionEvent
  <2>1. e.kind = "graph" /\ UNCHANGED <<events, sched, cleared>>
    BY <1>4 DEF handleGraphReplacementEvent, handleGraphExtensionEvent, Takes
  <2>2. e.name \in Names
    BY <1>1, <2>1, InboxTaken DEF WholeNames, SoundNames
  <2>3. g \in GraphType /\ m.id \in Nat /\ m.update \in Nat
    BY <2>2, NewGraphType, MessageType DEF Names
  <2>4. \A S \in SUBSET BaseIds(g) : Ascending(S) \in Seq(Nat)
    BY <2>2, BaseOfMessage, AscendingSeq
  <2>5. alive' \subseteq Thread
    BY <1>4 DEF handleGraphReplacementEvent, handleGraphExtensionEvent, InterpreterThrows
  <2>. HIDE DEF g
  <2>6. om' \in OrderManagerType
    <3>1. CASE handleGraphReplacementEvent
      <4>1. StandOn(g, 0) \in GraphType
        BY <2>3, StandOnType
      <4>. DEFINE new == [om EXCEPT !.id = m.id, !.update = 0, !.last = 0, !.graph = g]
      <4>2. om' \in {om, new, [new EXCEPT !.graph = StandOn(g, 0)]}
        BY <3>1 DEF handleGraphReplacementEvent, g
      <4>3. new \in OrderManagerType
        BY <2>3, ManagerSet
      <4>4. [new EXCEPT !.graph = StandOn(g, 0)] \in OrderManagerType
        <5>. HIDE DEF new
        <5>. QED
          BY <4>1, <4>3, ManagerSet
      <4>. QED
        BY <4>2, <4>3, <4>4
    <3>2. CASE handleGraphExtensionEvent
      <4>. DEFINE h == IF HasGraph /\ CanExtend(om.graph, g) THEN Extend(om.graph, g) ELSE om.graph
      <4>1. h \in GraphType
        BY <2>3, ManagerFields, ExtendType
      <4>2. om' = [om EXCEPT !.update = m.update, !.graph = h]
        BY <3>2 DEF handleGraphExtensionEvent, g
      <4>. HIDE DEF h
      <4>. QED
        BY <2>3, <4>1, <4>2, ManagerSet
    <3>. QED
      BY <1>4, <3>1, <3>2
  <2>7. told' \in Seq(Nat)
    <3>1. CASE handleGraphReplacementEvent
      <4>1. told' \in {told, Ascending(BaseIds(g))}
        BY <3>1 DEF handleGraphReplacementEvent, g
      <4>2. Ascending(BaseIds(g)) \in Seq(Nat)
        BY <2>4
      <4>. QED
        BY <4>1, <4>2
    <3>2. CASE handleGraphExtensionEvent
      <4>. DEFINE S == {s \in BaseIds(g) : s >= DeltaFirst(om.graph, g)}
      <4>1. told' \in {told, told \o Ascending(S)}
        BY <3>2 DEF handleGraphExtensionEvent, g
      <4>2. Ascending(S) \in Seq(Nat)
        <5>1. S \in SUBSET BaseIds(g)
          OBVIOUS
        <5>. QED
          BY <2>4, <5>1
      <4>. HIDE DEF S
      <4>3. told \o Ascending(S) \in Seq(Nat)
        BY <4>2
      <4>. QED
        BY <4>1, <4>3
    <3>. QED
      BY <1>4, <3>1, <3>2
  <2>. QED
    BY <1>1, <2>1, <2>5, <2>6, <2>7
<1>5. CASE handleInterpreterDone
  <2>. DEFINE q == Ascending(Released(m.nodes) \ {Min(SeqIds(m))})
              G == [i \in DOMAIN q |-> Place(m.id, q[i])]
  <2>1. e.kind = "done" /\ UNCHANGED <<om, alive, told, cleared>> /\ Work(G, m.actions)
    BY <1>5 DEF handleInterpreterDone, Takes
  <2>2. e.name \in Names
    BY <1>1, <2>1, InboxTaken DEF WholeNames, SoundNames
  <2>3. m.actions \in SUBSET Action /\ m.id \in Nat
    BY <2>2, MessageType DEF Names
  <2>4. q \in Seq(Nat)
    <3>1. Released(m.nodes) \ {Min(SeqIds(m))} \in SUBSET SeqIds(m)
      BY <2>2, BaseOfMessage
    <3>. QED
      BY <2>2, <3>1, AscendingSeq
  <2>5. G \in Seq(PlaceType)
    <3>. HIDE DEF q
    <3>. QED
      BY <2>3, <2>4, AscendingPlaces
  <2>6. sched' \in SchedulerType /\ events' \in Seq(EventType)
    <3>. HIDE DEF G
    <3>. QED
      BY <2>1, <2>3, <2>5, WorkType
  <2>. QED
    BY <1>1, <2>1, <2>6
<1>6. CASE handleYieldInstantActionGroup
  <2>1. e.kind = "group" /\ UNCHANGED <<om, alive, told, cleared>>
    BY <1>6 DEF handleYieldInstantActionGroup, Takes
  <2>2. {e.action} \in SUBSET Action /\ <<>> \in Seq(PlaceType)
    BY <1>1, <2>1, InboxTaken, MessagesAssumption
  <2>3. UNCHANGED <<sched, events>> \/ Work(<<>>, {e.action})
    BY <1>6 DEF handleYieldInstantActionGroup
  <2>4. sched' \in SchedulerType /\ events' \in Seq(EventType)
    BY <2>2, <2>3, WorkType
  <2>. QED
    BY <1>1, <2>1, <2>4
<1>7. CASE handleOrderControl
  <2>1. UNCHANGED <<om, told, cleared>>
    BY <1>7 DEF handleOrderControl
  <2>. DEFINE G == IF sched.goals = <<>> THEN sched.goals ELSE <<Head(sched.goals)>>
  <2>2. /\ \/ sched' = sched
           \/ sched' = [sched EXCEPT !.goals = G, !.tasks = {}, !.said = "canceling"]
        /\ \/ events' = events
           \/ events' = Append(events, OrderStatus("idle"))
           \/ events' = Append(events, OrderStatus("canceling"))
        /\ alive' \subseteq Thread
    BY <1>7 DEF handleOrderControl, InterpreterThrows
  <2>3. G \in Seq(PlaceType)
    <3>1. sched.goals \in Seq(PlaceType)
      BY SchedulerFields
    <3>2. sched.goals # <<>> => Head(sched.goals) \in PlaceType
      BY <3>1, QueueTaken
    <3>. QED
      BY <3>1, <3>2
  <2>. HIDE DEF G
  <2>4. [sched EXCEPT !.goals = G, !.tasks = {}, !.said = "canceling"] \in SchedulerType
    <3>1. "canceling" \in OrderStates /\ {} \in SUBSET Action
      BY DEF OrderStates
    <3>. QED
      BY <2>3, <3>1, SchedulerSet
  <2>5. /\ Append(events, OrderStatus("idle")) \in Seq(EventType)
        /\ Append(events, OrderStatus("canceling")) \in Seq(EventType)
    BY EventPut, QueuePut DEF OrderStates
  <2>. QED
    BY <1>1, <2>1, <2>2, <2>4, <2>5
<1>. QED
  BY <1>2, <1>3, <1>4, <1>5, <1>6, <1>7 DEF InterpreterThread

\* What the scheduler, the AGV and the other event threads do keeps the types.
LEMMA TypeOthers ==
  ASSUME TypeOK, \/ OrderThread \/ NavigationThread
                 \/ (\E a \in Action : BeginAction(a) \/ EndAction(a))
                 \/ BecomeIdle \/ Drive \/ evalPosition \/ setFailed
  PROVE  TypeOK'
<1>. USE DEF TypeOK
<1>1. ASSUME NEW a \in Action, BeginAction(a) \/ EndAction(a) PROVE TypeOK'
  <2>1. events' \in Seq(EventType)
    <3>1. ActionChanged(a, "RUNNING") \in EventType /\ ActionChanged(a, Finished) \in EventType
      BY EventPut
    <3>2. /\ Append(events, ActionChanged(a, "RUNNING")) \in Seq(EventType)
          /\ Append(events, ActionChanged(a, Finished)) \in Seq(EventType)
      BY <3>1, QueuePut
    <3>. QED
      BY <1>1, <3>2 DEF BeginAction, EndAction, Reports
  <2>2. sched' \in SchedulerType
    <3>1. /\ sched.tasks \ {a} \in SUBSET Action /\ sched.begun \cup {a} \in SUBSET Action
          /\ sched.begun \ {a} \in SUBSET Action
      BY SchedulerFields
    <3>2. \/ sched' = [sched EXCEPT !.tasks = sched.tasks \ {a}, !.begun = sched.begun \cup {a}]
          \/ sched' = [sched EXCEPT !.begun = sched.begun \ {a}]
      BY <1>1 DEF BeginAction, EndAction
    <3>. QED
      BY <3>1, <3>2 DEF SchedulerType
  <2>. QED
    BY <1>1, <2>1, <2>2 DEF BeginAction, EndAction, Reports
<1>2. CASE BecomeIdle
  <2>1. OrderStatus("idle") \in EventType /\ "idle" \in OrderStates
    BY EventPut DEF OrderStates
  <2>2. events' \in Seq(EventType) /\ sched' \in SchedulerType
    BY <1>2, <2>1, QueuePut, SchedulerSet DEF BecomeIdle, Reports
  <2>. QED
    BY <1>2, <2>2 DEF BecomeIdle, Reports
<1>3. CASE Drive
  <2>1. sched.goals \in Seq(PlaceType)
    BY SchedulerFields
  <2>2. agv' \in PlaceType
    BY <1>3, <2>1, QueueTaken DEF Drive
  <2>. QED
    BY <1>3, <2>2 DEF Drive
<1>4. CASE evalPosition \/ setFailed
  <2>1. navs' \in Seq(NavType)
    <3>1. Position \in NavType /\ NavigationFailed \in NavType
      BY NavPut
    <3>2. Append(navs, Position) \in Seq(NavType) /\ Append(navs, NavigationFailed) \in Seq(NavType)
      BY <3>1, QueuePut
    <3>. QED
      BY <1>4, <3>2 DEF evalPosition, setFailed, Reported
  <2>. QED
    BY <1>4, <2>1 DEF evalPosition, setFailed, Reported
<1>5. CASE handleOrderActionStatusChanged
  <2>. DEFINE e == Head(events)
              st == [om.states EXCEPT ![e.action] = e.status]
  <2>1. e \in EventType /\ e.kind = "action" /\ events' \in Seq(EventType)
    BY <1>5, QueueTaken DEF handleOrderActionStatusChanged, TakesEvent
  <2>2. e.action \in Action /\ e.status \in {"RUNNING", Finished}
    BY <2>1, EventTaken
  <2>3. st \in StatesType
    <3>1. om.states \in StatesType /\ e.status \in Status
      BY <2>2, ManagerFields DEF Status
    <3>2. st \in [DOMAIN om.states -> Status]
      BY <3>1, StatesFields
    <3>. QED
      BY <3>1, <3>2, StatesFields, StatesTyped
  <2>4. om' = om \/ om' = [om EXCEPT !.states = st]
    BY <1>5 DEF handleOrderActionStatusChanged
  <2>5. om' \in OrderManagerType
    <3>. HIDE DEF st
    <3>. QED
      BY <2>3, <2>4, ManagerSet
  <2>6. alive' \subseteq Thread
    BY <1>5 DEF handleOrderActionStatusChanged
  <2>. QED
    BY <1>5, <2>1, <2>5, <2>6 DEF handleOrderActionStatusChanged, TakesEvent
<1>6. CASE handleOrderStatus
  <2>. DEFINE e == Head(events)
              st == CancelWaiting(om.states)
  <2>1. e \in EventType /\ e.kind = "status" /\ events' \in Seq(EventType)
    BY <1>6, QueueTaken DEF handleOrderStatus, TakesEvent
  <2>2. e.status \in OrderStates
    BY <2>1, EventTaken
  <2>3. \/ om' = [om EXCEPT !.status = e.status]
        \/ om' = [om EXCEPT !.status = e.status, !.graph = NoGraph, !.states = st]
    BY <1>6 DEF handleOrderStatus
  <2>4. st \in StatesType
    BY ManagerFields, CancelWaitingType
  <2>. HIDE DEF st
  <2>5. [om EXCEPT !.status = e.status, !.graph = NoGraph, !.states = st] \in OrderManagerType
    BY <2>2, <2>4, NoGraphType DEF OrderManagerType
  <2>6. om' \in OrderManagerType
    BY <2>2, <2>3, <2>5, ManagerSet
  <2>7. latches' \in Nat
    BY <1>6 DEF handleOrderStatus
  <2>. QED
    BY <1>6, <2>1, <2>6, <2>7 DEF handleOrderStatus, TakesEvent
<1>7. CASE NavigationThread
  <2>. DEFINE e == Head(navs)
  <2>1. /\ navs # <<>> /\ e \in NavType /\ Tail(navs) \in Seq(NavType)
        /\ UNCHANGED <<latches, msgs, inbox, events, alive, told, cleared, agv, sent>>
    <3>1. navs # <<>> /\ UNCHANGED <<latches, msgs, inbox, events, alive, told, cleared, agv, sent>>
      BY <1>7 DEF NavigationThread, handleNavigationStatusPosition, handleNavigationNode,
        handleNavigationControl, TakesStatus
    <3>. QED
      BY <3>1, QueueTaken
  <2>2. CASE handleNavigationStatusPosition
    <3>. DEFINE goal == CurrentGoal(om.graph)
    <3>1. goal # NoNode => NodeReached(goal) \in NavType
      BY GoalType, ManagerFields, NavPut
    <3>2. navs' = Tail(navs) \/ (goal # NoNode /\ navs' = Append(Tail(navs), NodeReached(goal)))
      BY <2>2 DEF handleNavigationStatusPosition
    <3>3. navs' \in Seq(NavType)
      <4>. HIDE DEF goal
      <4>1. goal # NoNode => Append(Tail(navs), NodeReached(goal)) \in Seq(NavType)
        BY <2>1, <3>1, QueuePut
      <4>. QED
        BY <2>1, <3>2, <4>1
    <3>. QED
      BY <2>1, <2>2, <3>3 DEF handleNavigationStatusPosition
  <2>3. CASE handleNavigationNode
    <3>1. e.kind = "reached" /\ navs' = Tail(navs)
      BY <2>3 DEF handleNavigationNode, TakesStatus
    <3>2. e.seq \in Nat
      BY <2>1, <3>1, NavTaken
    <3>3. sched' = sched \/ (sched.goals # <<>> /\ sched' = [sched EXCEPT !.goals = Tail(sched.goals)])
      BY <2>3 DEF handleNavigationNode
    <3>4. sched' \in SchedulerType
      <4>1. sched.goals \in Seq(PlaceType)
        BY SchedulerFields
      <4>2. sched.goals # <<>> => Tail(sched.goals) \in Seq(PlaceType)
        BY <4>1, QueueTaken
      <4>. QED
        BY <3>3, <4>2, SchedulerSet
    <3>5. om' = om \/ om' = Recorded(e.seq)
      BY <2>3 DEF handleNavigationNode
    <3>6. Recorded(e.seq) \in OrderManagerType
      <4>. DEFINE h == Trim(StandOn(om.graph, e.seq))
      <4>1. h \in GraphType
        BY <3>2, ManagerFields, StandOnType, TrimType
      <4>2. Recorded(e.seq) = [om EXCEPT !.graph = h, !.last = e.seq]
        BY DEF Recorded
      <4>. HIDE DEF h
      <4>. QED
        BY <3>2, <4>1, <4>2 DEF OrderManagerType
    <3>. QED
      BY <2>1, <3>1, <3>4, <3>5, <3>6
  <2>4. CASE handleNavigationControl
    <3>1. sched' = sched \/ sched' = [sched EXCEPT !.goals = <<>>, !.tasks = {}]
      BY <2>4 DEF handleNavigationControl
    <3>2. sched' \in SchedulerType
      <4>1. <<>> \in Seq(PlaceType) /\ {} \in SUBSET Action
        OBVIOUS
      <4>. QED
        BY <3>1, <4>1 DEF SchedulerType
    <3>. QED
      BY <2>1, <2>4, <3>2 DEF handleNavigationControl
  <2>. QED
    BY <1>7, <2>2, <2>3, <2>4 DEF NavigationThread
<1>. QED
  BY <1>1, <1>2, <1>3, <1>4, <1>5, <1>6, <1>7 DEF OrderThread

LEMMA TypeNext == TypeOK /\ [Next]_vars => TypeOK'
<1>. SUFFICES ASSUME TypeOK, [Next]_vars PROVE TypeOK'
  OBVIOUS
<1>1. CASE UNCHANGED vars
  BY <1>1 DEF TypeOK, vars
<1>. QED
  BY <1>1, TypeMessages, TypeInterpreter, TypeOthers DEF Next

-------------------------------------------------------------------------------
(* The graph, and what the AGV was told of it *)

\* As long as the interpreter event thread lives, the AGV stands at the front of the graph
\* and was told of its base to the end.
Stands ==
  "interpreter" \in alive /\ HasGraph =>
    \E a, b, l : Standing(om.graph, a, b, l) /\ Len(told) = b + 1

\* The AGV was told of the nodes of the base one after the other.
Ascends == \A i \in DOMAIN told : told[i] = i - 1

\* Everything else leaves the graph and what was told as they are.
LEMMA GraphStays ==
  ASSUME TypeOK, Next,
         ~handleGraphReplacementEvent, ~handleGraphExtensionEvent,
         ~handleOrderStatus, ~handleNavigationNode
  PROVE  om'.graph = om.graph /\ told' = told /\ ("interpreter" \in alive' => "interpreter" \in alive)
<1>1. om \in OrderManagerType
  BY DEF TypeOK
<1>2. CASE (\E n \in DOMAIN Messages : ReceiveOrder(n)) \/ (\E a \in Instants : ReceiveInstant(a))
             \/ ReceiveCancel
  BY <1>2 DEF ReceiveOrder, ReceiveInstant, ReceiveCancel, Receive
<1>3. CASE MessageThread
  <2>1. told' = told /\ ("interpreter" \in alive' => "interpreter" \in alive)
    BY <1>3 DEF MessageThread, TakesMessage, handleOrderMessage, handleValidateOrder,
      handleValidOrder, handleInstantActionsMessage, handleValidInstantActions,
      handleCancelMessage, handleValidCancel
  <2>2. om' = om \/ \E st : om' = [om EXCEPT !.states = st]
    BY <1>3 DEF MessageThread, handleOrderMessage, handleValidateOrder,
      handleValidOrder, handleInstantActionsMessage, handleValidInstantActions,
      handleCancelMessage, handleValidCancel, WithNew
  <2>3. om'.graph = om.graph
    BY <1>1, <2>2 DEF OrderManagerType
  <2>. QED
    BY <2>1, <2>3
<1>4. CASE handleClearActions \/ handleNewActionEvent
  <2>1. \E st : om' = [om EXCEPT !.states = st] \/ om' = om
    BY <1>4 DEF handleClearActions, handleNewActionEvent, WithNew
  <2>2. om'.graph = om.graph
    BY <1>1, <2>1 DEF OrderManagerType
  <2>. QED
    BY <1>4, <2>2 DEF handleClearActions, handleNewActionEvent, InterpreterThrows
<1>5. CASE handleInterpreterDone \/ handleYieldInstantActionGroup \/ handleOrderControl
  BY <1>5 DEF handleInterpreterDone, handleYieldInstantActionGroup, handleOrderControl,
    InterpreterThrows
<1>6. CASE handleOrderActionStatusChanged
  <2>1. om' = om \/ \E st : om' = [om EXCEPT !.states = st]
    BY <1>6 DEF handleOrderActionStatusChanged
  <2>2. om'.graph = om.graph
    BY <1>1, <2>1 DEF OrderManagerType
  <2>. QED
    BY <1>6, <2>2 DEF handleOrderActionStatusChanged, TakesEvent
<1>7. CASE handleNavigationStatusPosition \/ handleNavigationControl
  BY <1>7 DEF handleNavigationStatusPosition, handleNavigationControl, TakesStatus
<1>8. CASE (\E a \in Action : BeginAction(a) \/ EndAction(a)) \/ BecomeIdle
  BY <1>8 DEF BeginAction, EndAction, BecomeIdle, Reports
<1>9. CASE Drive \/ evalPosition \/ setFailed
  BY <1>9 DEF Drive, evalPosition, setFailed, Reported
<1>. QED
  BY <1>2, <1>3, <1>4, <1>5, <1>6, <1>7, <1>8, <1>9
     DEF Next, InterpreterThread, OrderThread, NavigationThread

LEMMA StandsInit == Init => Stands /\ Ascends
  BY DEF Init, Stands, Ascends, HasGraph

\* A new order.
LEMMA ReplacementStands ==
  ASSUME TypeOK, Stands, Ascends, handleGraphReplacementEvent
  PROVE  Stands' /\ Ascends'
<1>. DEFINE e == Head(inbox)
            m == Messages[e.name]
            g == NewGraph(Elem(m))
            new == [om EXCEPT !.id = m.id, !.update = 0, !.last = 0, !.graph = g]
<1>1. e.name \in WholeNames
  <2>1. inbox \in Seq(InboxType) /\ inbox # <<>> /\ e.kind = "graph"
    BY DEF TypeOK, handleGraphReplacementEvent, Takes
  <2>. QED
    BY <2>1, QueueTaken, InboxTaken
<1>2. /\ e.name \in DOMAIN Messages /\ checkOrderGraphConsistency(Messages[e.name])
      /\ ~EndsInEdge(Messages[e.name])
  BY <1>1 DEF WholeNames, SoundNames, Names
<1>3. om \in OrderManagerType
  BY DEF TypeOK
<1>4. CASE BaseIds(g) # {} /\ CanStandOn(g, 0)
  <2>1. PICK b, l : Standing(StandOn(g, 0), 0, b, l) /\ BaseIds(g) = 0..b
    BY <1>2, <1>4, NewStands
  <2>2. om' = [new EXCEPT !.graph = StandOn(g, 0)] /\ told' = Ascending(BaseIds(g))
    BY <1>4 DEF handleGraphReplacementEvent
  <2>3. om'.graph = StandOn(g, 0)
    <3>. HIDE DEF g
    <3>. QED
      BY <1>3, <2>2 DEF OrderManagerType
  <2>4. b \in Nat
    BY <2>1 DEF Standing
  <2>5. told' = [i \in 1..(b - 0 + 1) |-> 0 + i - 1]
    <3>1. 0 \in Nat /\ b \in Int /\ 0 <= b + 1
      BY <2>4
    <3>2. Ascending(0..b) = [i \in 1..(b - 0 + 1) |-> 0 + i - 1]
      BY <3>1, AscendingInterval
    <3>. QED
      BY <2>1, <2>2, <3>2
  <2>6. Len(told') = b + 1 /\ \A i \in DOMAIN told' : told'[i] = i - 1
    BY <2>4, <2>5
  <2>. QED
    BY <2>1, <2>3, <2>6 DEF Stands, Ascends
<1>5. CASE BaseIds(g) = {} \/ ~CanStandOn(g, 0)
  <2>1. "interpreter" \notin alive' /\ told' = told
    BY <1>5 DEF handleGraphReplacementEvent, InterpreterThrows
  <2>. QED
    BY <2>1 DEF Stands, Ascends
<1>. QED
  BY <1>4, <1>5

\* An update of the order.
LEMMA ExtensionStands ==
  ASSUME TypeOK, Stands, Ascends, handleGraphExtensionEvent
  PROVE  Stands' /\ Ascends'
<1>. DEFINE e == Head(inbox)
            m == Messages[e.name]
            g == NewGraph(Elem(m))
            extends == HasGraph /\ CanExtend(om.graph, g)
<1>1. e.name \in WholeNames /\ "interpreter" \in alive
  <2>1. inbox \in Seq(InboxType) /\ inbox # <<>> /\ e.kind = "graph" /\ "interpreter" \in alive
    BY DEF TypeOK, handleGraphExtensionEvent, Takes
  <2>. QED
    BY <2>1, QueueTaken, InboxTaken
<1>2. /\ e.name \in DOMAIN Messages /\ checkOrderGraphConsistency(Messages[e.name])
      /\ ~EndsInEdge(Messages[e.name])
  BY <1>1 DEF WholeNames, SoundNames, Names
<1>3. om \in OrderManagerType /\ told \in Seq(Nat)
  BY DEF TypeOK
<1>4. CASE extends /\ BaseIds(g) # {}
  <2>1. PICK a, b, l : Standing(om.graph, a, b, l) /\ Len(told) = b + 1
    BY <1>1, <1>4 DEF Stands
  <2>. HIDE DEF g
  <2>2. PICK c, k : /\ Standing(Extend(om.graph, g), a, c, k) /\ b <= c
                    /\ {s \in BaseIds(g) : s >= DeltaFirst(om.graph, g)} = (b + 1)..c
    BY <1>2, <1>4, <2>1, ExtendStands DEF g
  <2>3. /\ om' = [om EXCEPT !.update = m.update, !.graph = Extend(om.graph, g)]
        /\ told' = told \o Ascending({s \in BaseIds(g) : s >= DeltaFirst(om.graph, g)})
    BY <1>4 DEF handleGraphExtensionEvent, g
  <2>4. om'.graph = Extend(om.graph, g)
    BY <1>3, <2>3 DEF OrderManagerType
  <2>5. b \in Nat /\ c \in Nat
    BY <2>1, <2>2 DEF Standing
  <2>. DEFINE n == c - (b + 1) + 1
              d == [i \in 1..n |-> (b + 1) + i - 1]
  <2>6. told' = told \o d
    <3>1. b + 1 \in Nat /\ c \in Int /\ b + 1 <= c + 1
      BY <2>2, <2>5
    <3>2. Ascending((b + 1)..c) = d
      BY <3>1, AscendingInterval
    <3>. QED
      BY <2>2, <2>3, <3>2
  <2>7. n \in Nat /\ n = c - b /\ d \in Seq(Nat) /\ Len(d) = n /\ \A i \in 1..n : d[i] = b + i
    BY <2>2, <2>5
  <2>8. Len(told') = c + 1
    <3>. HIDE DEF d, n
    <3>1. Len(told \o d) = Len(told) + Len(d)
      BY <1>3, <2>7
    <3>. QED
      BY <2>1, <2>5, <2>6, <2>7, <3>1
  <2>9. ASSUME NEW i \in DOMAIN told' PROVE told'[i] = i - 1
    <3>1. i \in 1..(c + 1)
      <4>1. told' \in Seq(Nat)
        <5>. HIDE DEF d, n
        <5>. QED
          BY <1>3, <2>6, <2>7
      <4>. QED
        BY <2>8, <2>9, <4>1
    <3>2. CASE i <= b + 1
      <4>1. i \in DOMAIN told
        BY <1>3, <2>1, <2>5, <3>1, <3>2
      <4>2. told'[i] = told[i]
        <5>. HIDE DEF d, n
        <5>. QED
          BY <1>3, <2>6, <2>7, <4>1
      <4>. QED
        BY <4>1, <4>2 DEF Ascends
    <3>3. CASE ~(i <= b + 1)
      <4>1. i - (b + 1) \in 1..n /\ i = Len(told) + (i - (b + 1))
        BY <2>1, <2>5, <2>7, <3>1, <3>3
      <4>2. told'[i] = d[i - (b + 1)]
        <5>. HIDE DEF d, n
        <5>. QED
          BY <1>3, <2>6, <2>7, <4>1
      <4>3. d[i - (b + 1)] = b + (i - (b + 1))
        <5>. HIDE DEF d, n
        <5>. QED
          BY <2>7, <4>1
      <4>. QED
        BY <2>5, <3>1, <4>2, <4>3
    <3>. QED
      BY <3>2, <3>3
  <2>. QED
    BY <2>2, <2>4, <2>8, <2>9 DEF Stands, Ascends
<1>5. CASE ~(extends /\ BaseIds(g) # {})
  <2>1. "interpreter" \notin alive' /\ told' = told
    BY <1>5 DEF handleGraphExtensionEvent, InterpreterThrows
  <2>. QED
    BY <2>1 DEF Stands, Ascends
<1>. QED
  BY <1>4, <1>5

\* A latch lets go of the graph, or it stays.
LEMMA StatusStands ==
  ASSUME TypeOK, Stands, Ascends, handleOrderStatus
  PROVE  Stands' /\ Ascends'
<1>1. alive' = alive /\ told' = told
  BY DEF handleOrderStatus, TakesEvent
<1>2. om'.graph \in {om.graph, NoGraph}
  <2>1. om \in OrderManagerType
    BY DEF TypeOK
  <2>. QED
    BY <2>1 DEF handleOrderStatus, OrderManagerType
<1>. QED
  BY <1>1, <1>2 DEF Stands, Ascends, HasGraph

\* A node is reached.
LEMMA NodeStands ==
  ASSUME TypeOK, Stands, Ascends, handleNavigationNode
  PROVE  Stands' /\ Ascends'
<1>. DEFINE s == Head(navs).seq
<1>1. alive' = alive /\ told' = told
  BY DEF handleNavigationNode, TakesStatus
<1>2. CASE om' = om
  BY <1>1, <1>2 DEF Stands, Ascends, HasGraph
<1>3. CASE om' = Recorded(s) /\ HasGraph /\ CanStandOn(om.graph, s)
  <2>1. om'.graph = Trim(StandOn(om.graph, s))
    <3>1. om \in OrderManagerType
      BY DEF TypeOK
    <3>. QED
      BY <1>3, <3>1 DEF Recorded, OrderManagerType
  <2>2. ASSUME "interpreter" \in alive
        PROVE  \E a, b, l : Standing(om'.graph, a, b, l) /\ Len(told') = b + 1
    <3>1. PICK a, b, l : Standing(om.graph, a, b, l) /\ Len(told) = b + 1
      BY <1>3, <2>2 DEF Stands
    <3>2. Standing(om'.graph, s, b, l)
      BY <1>3, <2>1, <3>1, TrimStands
    <3>. QED
      BY <1>1, <3>1, <3>2
  <2>. QED
    BY <1>1, <2>2 DEF Stands, Ascends
<1>. QED
  BY <1>2, <1>3 DEF handleNavigationNode

LEMMA StandsNext == TypeOK /\ Stands /\ Ascends /\ [Next]_vars => Stands' /\ Ascends'
<1>. SUFFICES ASSUME TypeOK, Stands, Ascends, [Next]_vars PROVE Stands' /\ Ascends'
  OBVIOUS
<1>1. CASE UNCHANGED vars
  BY <1>1 DEF vars, Stands, Ascends, HasGraph
<1>2. CASE Next /\ ~handleGraphReplacementEvent /\ ~handleGraphExtensionEvent
             /\ ~handleOrderStatus /\ ~handleNavigationNode
  <2>1. /\ om'.graph = om.graph /\ told' = told
        /\ "interpreter" \in alive' => "interpreter" \in alive
    BY <1>2, GraphStays
  <2>. QED
    BY <2>1 DEF Stands, Ascends, HasGraph
<1>. QED
  BY <1>1, <1>2, ReplacementStands, ExtensionStands, StatusStands, NodeStands DEF Next

\* graph.cpp, order_manager.cpp: cleanHorizon, merge, trim and the checks of a message keep
\* the graph without a gap, the base before the horizon, and the AGV on its first node.
THEOREM GraphIsWellFormed == Spec => []GraphWellFormed
<1>. DEFINE IInv == TypeOK /\ Stands /\ Ascends
<1>1. Init => IInv
  BY TypeInit, StandsInit
<1>2. IInv /\ [Next]_vars => IInv'
  BY TypeNext, StandsNext
<1>3. IInv => GraphWellFormed
  <2>. SUFFICES ASSUME IInv, HasGraph, "interpreter" \in alive
                PROVE  /\ Ids(om.graph) = FirstId(om.graph)..LastId(om.graph)
                       /\ Buildable(om.graph.elem)
                       /\ CanStandOn(om.graph, om.graph.pos)
                       /\ om.graph.pos = FirstId(om.graph)
                       /\ IsNode(BaseLast(om.graph))
    BY DEF GraphWellFormed
  <2>1. PICK a, b, l : Standing(om.graph, a, b, l)
    BY DEF Stands
  <2>2. a \in a..b /\ IsNode(a) /\ IsNode(b)
    BY <2>1 DEF Standing
  <2>. QED
    BY <2>1, <2>2, StandingFacts
<1>. QED
  BY <1>1, <1>2, <1>3, PTL DEF Spec

\* base_navigation_handler.h: over all updates of an order the AGV is told of its base
\* without a gap and without a repetition, up to where the base ends.
THEOREM BaseIsAnnouncedOnce == Spec => []BaseAnnouncedOnce
<1>. DEFINE IInv == TypeOK /\ Stands /\ Ascends
<1>1. Init => IInv
  BY TypeInit, StandsInit
<1>2. IInv /\ [Next]_vars => IInv'
  BY TypeNext, StandsNext
<1>3. IInv => BaseAnnouncedOnce
  <2>. SUFFICES ASSUME IInv
                PROVE  HasGraph /\ "interpreter" \in alive => told[Len(told)] = BaseLast(om.graph)
    BY DEF BaseAnnouncedOnce, Ascends
  <2>. SUFFICES ASSUME HasGraph, "interpreter" \in alive
                PROVE  told[Len(told)] = BaseLast(om.graph)
    OBVIOUS
  <2>1. PICK a, b, l : Standing(om.graph, a, b, l) /\ Len(told) = b + 1
    BY DEF Stands
  <2>2. BaseLast(om.graph) = b /\ b \in Nat
    BY <2>1, StandingFacts DEF Standing
  <2>3. told \in Seq(Nat)
    BY DEF TypeOK
  <2>4. Len(told) \in DOMAIN told
    BY <2>1, <2>2, <2>3
  <2>. QED
    BY <2>1, <2>2, <2>4 DEF Ascends
<1>. QED
  BY <1>1, <1>2, <1>3, PTL DEF Spec

-------------------------------------------------------------------------------
(* The actions that were made known *)

\* The actions the order manager knows or has known.
Made == DOMAIN om.states \cup cleared

\* A report, a task and a group are about actions of K.
EventsAmong(K, q) == \A i \in DOMAIN q : q[i].kind = "action" => q[i].action \in K
WorkAmong(K, s)   == s.tasks \cup s.begun \subseteq K
GroupsAmong(K, q) == \A i \in DOMAIN q : q[i].kind = "group" => q[i].action \in K

\* The actions of an order are in K before its end is taken from the queue.
OrdersAmong(K, q) ==
  \A i \in DOMAIN q : q[i].kind = "done" =>
    \/ Messages[q[i].name].actions \subseteq K
    \/ \E j \in DOMAIN q : j < i /\ q[j].kind = "new" /\ q[j].name = q[i].name

\* Nothing is about an action that was not made known.
AllMade ==
  /\ EventsAmong(Made, events) /\ WorkAmong(Made, sched) /\ GroupsAmong(Made, inbox)
  /\ "interpreter" \in alive => OrdersAmong(Made, inbox)

\* The queues, when they are put into and taken from.
LEMMA EventsGrow ==
  ASSUME NEW q \in Seq(EventType), NEW K, NEW L, K \subseteq L, EventsAmong(K, q)
  PROVE  /\ EventsAmong(L, q)
         /\ q # <<>> => EventsAmong(L, Tail(q))
         /\ \A a \in K : \A st : EventsAmong(L, Append(q, ActionChanged(a, st)))
         /\ \A st : EventsAmong(L, Append(q, OrderStatus(st)))
<1>1. EventsAmong(L, q)
  BY DEF EventsAmong
<1>2. q # <<>> => EventsAmong(L, Tail(q))
  BY <1>1, QueueTaken DEF EventsAmong
<1>3. ASSUME NEW a \in K, NEW st PROVE EventsAmong(L, Append(q, ActionChanged(a, st)))
  BY <1>1 DEF EventsAmong, ActionChanged
<1>4. ASSUME NEW st PROVE EventsAmong(L, Append(q, OrderStatus(st)))
  BY <1>1 DEF EventsAmong, OrderStatus
<1>. QED
  BY <1>1, <1>2, <1>3, <1>4

LEMMA InboxGrows ==
  ASSUME NEW q \in Seq(InboxType), NEW K, NEW L, K \subseteq L, GroupsAmong(K, q)
  PROVE  /\ GroupsAmong(L, q)
         /\ q # <<>> => GroupsAmong(L, Tail(q))
         /\ \A a \in L : GroupsAmong(L, Append(q, [kind |-> "group", action |-> a]))
         /\ GroupsAmong(L, Append(q, [kind |-> "cancel"]))
<1>1. GroupsAmong(L, q)
  BY DEF GroupsAmong
<1>2. q # <<>> => GroupsAmong(L, Tail(q))
  BY <1>1, QueueTaken DEF GroupsAmong
<1>3. ASSUME NEW a \in L PROVE GroupsAmong(L, Append(q, [kind |-> "group", action |-> a]))
  BY <1>1 DEF GroupsAmong
<1>4. GroupsAmong(L, Append(q, [kind |-> "cancel"]))
  BY <1>1 DEF GroupsAmong
<1>. QED
  BY <1>1, <1>2, <1>3, <1>4

LEMMA OrdersGrow ==
  ASSUME NEW q \in Seq(InboxType), NEW K, NEW L, K \subseteq L, OrdersAmong(K, q)
  PROVE  /\ OrdersAmong(L, q)
         /\ \A a : OrdersAmong(L, Append(q, [kind |-> "group", action |-> a]))
         /\ OrdersAmong(L, Append(q, [kind |-> "cancel"]))
<1>1. OrdersAmong(L, q)
  BY DEF OrdersAmong
<1>2. ASSUME NEW e, e.kind # "done" PROVE OrdersAmong(L, Append(q, e))
  <2>. SUFFICES ASSUME NEW i \in DOMAIN Append(q, e), Append(q, e)[i].kind = "done"
                PROVE  \/ Messages[Append(q, e)[i].name].actions \subseteq L
                       \/ \E j \in DOMAIN Append(q, e) : /\ j < i
                                                         /\ Append(q, e)[j].kind = "new"
                                                         /\ Append(q, e)[j].name = Append(q, e)[i].name
    BY DEF OrdersAmong
  <2>1. DOMAIN q = 1..Len(q) /\ Len(q) \in Nat /\ DOMAIN Append(q, e) = 1..(Len(q) + 1)
    OBVIOUS
  <2>2. i \in DOMAIN q /\ Append(q, e)[i] = q[i]
    BY <1>2, <2>1
  <2>3. \A j \in DOMAIN q : j \in DOMAIN Append(q, e) /\ Append(q, e)[j] = q[j]
    BY <2>1
  <2>. QED
    BY <1>1, <2>2, <2>3 DEF OrdersAmong
<1>. QED
  BY <1>1, <1>2

\* An event is taken; the actions of a new order are in L from then on.
LEMMA OrdersTaken ==
  ASSUME NEW q \in Seq(InboxType), q # <<>>, NEW K, NEW L, K \subseteq L, OrdersAmong(K, q),
         Head(q).kind = "new" => Messages[Head(q).name].actions \subseteq L
  PROVE  OrdersAmong(L, Tail(q))
<1>. DEFINE t == Tail(q)
<1>. SUFFICES ASSUME NEW i \in DOMAIN t, t[i].kind = "done"
              PROVE  \/ Messages[t[i].name].actions \subseteq L
                     \/ \E j \in DOMAIN t : j < i /\ t[j].kind = "new" /\ t[j].name = t[i].name
  BY DEF OrdersAmong
<1>1. i + 1 \in DOMAIN q /\ t[i] = q[i + 1] /\ i \in Nat
  BY QueueTaken
<1>2. \/ Messages[q[i + 1].name].actions \subseteq K
      \/ \E j \in DOMAIN q : j < i + 1 /\ q[j].kind = "new" /\ q[j].name = q[i + 1].name
  BY <1>1 DEF OrdersAmong
<1>3. CASE Messages[q[i + 1].name].actions \subseteq K
  BY <1>1, <1>3
<1>4. ASSUME NEW j \in DOMAIN q, j < i + 1, q[j].kind = "new", q[j].name = q[i + 1].name
      PROVE  \/ Messages[t[i].name].actions \subseteq L
             \/ \E k \in DOMAIN t : k < i /\ t[k].kind = "new" /\ t[k].name = t[i].name
  <2>1. CASE j = 1
    <3>1. q[1] = Head(q)
      BY QueueTaken
    <3>. QED
      BY <1>1, <1>4, <2>1, <3>1
  <2>2. CASE j # 1
    <3>1. j - 1 \in DOMAIN t /\ j - 1 < i /\ (j - 1) + 1 = j
      BY <1>1, <1>4, <2>2
    <3>2. t[j - 1] = q[j]
      BY <3>1, QueueTaken
    <3>. QED
      BY <1>1, <1>4, <3>1, <3>2
  <2>. QED
    BY <2>1, <2>2
<1>. QED
  BY <1>2, <1>3, <1>4

\* One queue behind the other.
LEMMA QueueJoined ==
  ASSUME NEW S, NEW q \in Seq(S), NEW r \in Seq(S)
  PROVE  /\ q \o r \in Seq(S) /\ Len(q \o r) = Len(q) + Len(r) /\ Len(q) \in Nat /\ Len(r) \in Nat
         /\ DOMAIN q = 1..Len(q) /\ DOMAIN r = 1..Len(r) /\ DOMAIN (q \o r) = 1..(Len(q) + Len(r))
         /\ \A i \in DOMAIN q : (q \o r)[i] = q[i]
         /\ \A i \in DOMAIN r : (q \o r)[Len(q) + i] = r[i]
         /\ \A i \in DOMAIN (q \o r) :
              \/ i \in DOMAIN q
              \/ i - Len(q) \in DOMAIN r /\ (q \o r)[i] = r[i - Len(q)]
  OBVIOUS

\* The events of an order: whether they begin with clear, and whether they are complete.
LEMMA EventsOfOrder ==
  ASSUME NEW n
  PROVE  \E p \in {0, 1}, w \in {0, 2} :
           /\ Messages[n].update = 0 <=> p = 1
           /\ EndsInEdge(Messages[n]) <=> w = 0
           /\ Events(n) \in Seq([kind : {"clear"}] \cup [kind : {"new", "graph", "done"}, name : {n}])
           /\ Len(Events(n)) = p + 1 + w /\ DOMAIN Events(n) = 1..(p + 1 + w)
           /\ p = 1 => Events(n)[1] = [kind |-> "clear"]
           /\ Events(n)[p + 1] = [kind |-> "new", name |-> n]
           /\ w = 2 => /\ Events(n)[p + 2] = [kind |-> "graph", name |-> n]
                       /\ Events(n)[p + 3] = [kind |-> "done", name |-> n]
<1>. DEFINE S     == [kind : {"clear"}] \cup [kind : {"new", "graph", "done"}, name : {n}]
            a == IF Messages[n].update = 0 THEN <<[kind |-> "clear"]>> ELSE <<>>
            b == <<[kind |-> "new", name |-> n]>>
            c == IF EndsInEdge(Messages[n]) THEN <<>>
                 ELSE <<[kind |-> "graph", name |-> n], [kind |-> "done", name |-> n]>>
            p == IF Messages[n].update = 0 THEN 1 ELSE 0
            w == IF EndsInEdge(Messages[n]) THEN 0 ELSE 2
<1>1. /\ a \in Seq(S) /\ Len(a) = p /\ DOMAIN a = 1..p /\ p \in {0, 1}
      /\ p = 1 => a[1] = [kind |-> "clear"]
  <2>1. [kind |-> "clear"] \in S
    OBVIOUS
  <2>. HIDE DEF S
  <2>2. CASE Messages[n].update = 0
    BY <2>1, <2>2
  <2>3. CASE Messages[n].update # 0
    BY <2>3
  <2>. QED
    BY <2>2, <2>3
<1>2. b \in Seq(S) /\ Len(b) = 1 /\ 1 \in DOMAIN b /\ b[1] = [kind |-> "new", name |-> n]
  OBVIOUS
<1>3. /\ c \in Seq(S) /\ Len(c) = w /\ DOMAIN c = 1..w /\ w \in {0, 2}
      /\ w = 2 => c[1] = [kind |-> "graph", name |-> n] /\ c[2] = [kind |-> "done", name |-> n]
  <2>1. [kind |-> "graph", name |-> n] \in S /\ [kind |-> "done", name |-> n] \in S
    OBVIOUS
  <2>. HIDE DEF S
  <2>2. CASE EndsInEdge(Messages[n])
    BY <2>2
  <2>3. CASE ~EndsInEdge(Messages[n])
    <3>. DEFINE g == [kind |-> "graph", name |-> n]
                d == [kind |-> "done", name |-> n]
    <3>1. c = <<g, d>> /\ w = 2
      BY <2>3
    <3>2. g \in S /\ d \in S
      BY <2>1
    <3>3. <<g, d>> \in Seq(S) /\ Len(<<g, d>>) = 2 /\ <<g, d>>[1] = g /\ <<g, d>>[2] = d
      <4>. HIDE DEF g, d
      <4>. QED
        BY <3>2
    <3>4. DOMAIN <<g, d>> = 1..2
      OBVIOUS
    <3>. HIDE DEF c, w
    <3>. QED
      BY <3>1, <3>3, <3>4
  <2>. QED
    BY <2>2, <2>3
<1>4. (Messages[n].update = 0 <=> p = 1) /\ (EndsInEdge(Messages[n]) <=> w = 0)
  OBVIOUS
<1>5. Events(n) = (a \o b) \o c
  BY DEF Events
<1>. HIDE DEF S, a, b, c, p, w
<1>6. /\ a \o b \in Seq(S) /\ Len(a \o b) = p + 1 /\ DOMAIN (a \o b) = 1..(p + 1)
      /\ p = 1 => (a \o b)[1] = a[1]
      /\ (a \o b)[p + 1] = b[1]
  BY <1>1, <1>2, QueueJoined
<1>7. /\ Events(n) \in Seq(S) /\ Len(Events(n)) = p + 1 + w /\ DOMAIN Events(n) = 1..(p + 1 + w)
      /\ \A i \in 1..(p + 1) : Events(n)[i] = (a \o b)[i]
      /\ \A i \in 1..w : Events(n)[p + 1 + i] = c[i]
  <2>. DEFINE ab == a \o b
  <2>1. ab \in Seq(S) /\ c \in Seq(S) /\ Len(ab) = p + 1 /\ Len(c) = w
    BY <1>3, <1>6
  <2>2. DOMAIN ab = 1..(p + 1) /\ DOMAIN c = 1..w
    BY <1>3, <1>6
  <2>3. Events(n) = ab \o c
    BY <1>5
  <2>. HIDE DEF ab
  <2>4. /\ ab \o c \in Seq(S) /\ Len(ab \o c) = p + 1 + w /\ DOMAIN (ab \o c) = 1..(p + 1 + w)
        /\ \A i \in DOMAIN ab : (ab \o c)[i] = ab[i]
        /\ \A i \in DOMAIN c : (ab \o c)[p + 1 + i] = c[i]
    <3>1. /\ ab \o c \in Seq(S) /\ Len(ab \o c) = Len(ab) + Len(c)
          /\ DOMAIN (ab \o c) = 1..(Len(ab) + Len(c))
          /\ \A i \in DOMAIN ab : (ab \o c)[i] = ab[i]
          /\ \A i \in DOMAIN c : (ab \o c)[Len(ab) + i] = c[i]
      <4>1. ab \in Seq(S) /\ c \in Seq(S)
        BY <2>1
      <4>. QED
        BY ONLY <4>1, QueueJoined
    <3>. QED
      BY <2>1, <3>1
  <2>. QED
    BY <2>2, <2>3, <2>4 DEF ab
<1>8. /\ p = 1 => Events(n)[1] = [kind |-> "clear"]
      /\ Events(n)[p + 1] = [kind |-> "new", name |-> n]
  <2>1. p + 1 \in 1..(p + 1) /\ (p = 1 => 1 \in 1..(p + 1))
    BY <1>1
  <2>. QED
    BY <1>1, <1>2, <1>6, <1>7, <2>1
<1>9. w = 2 => /\ Events(n)[p + 2] = [kind |-> "graph", name |-> n]
               /\ Events(n)[p + 3] = [kind |-> "done", name |-> n]
  <2>1. p \in Nat /\ p + 1 + 1 = p + 2 /\ p + 1 + 2 = p + 3
    BY <1>1
  <2>. QED
    BY <1>3, <1>7, <2>1
<1>. QED
  BY <1>1, <1>3, <1>4, <1>7, <1>8, <1>9 DEF S

\* The events of an order bring its actions before its end.
LEMMA OrderEvents ==
  ASSUME NEW q \in Seq(InboxType), NEW K, NEW n, Events(n) \in Seq(InboxType)
  PROVE  /\ OrdersAmong(K, q) => OrdersAmong(K, q \o Events(n))
         /\ GroupsAmong(K, q) => GroupsAmong(K, q \o Events(n))
<1>. DEFINE x == Events(n)
            r == q \o x
<1>1. /\ Len(q) \in Nat /\ DOMAIN q = 1..Len(q)
      /\ \A i \in DOMAIN q : i \in DOMAIN r /\ r[i] = q[i]
      /\ \A i \in DOMAIN x : Len(q) + i \in DOMAIN r /\ r[Len(q) + i] = x[i]
      /\ \A i \in DOMAIN r : i \in DOMAIN q \/ (i - Len(q) \in DOMAIN x /\ r[i] = x[i - Len(q)])
  BY QueueJoined
<1>2. PICK p \in {0, 1}, w \in {0, 2} :
        /\ x \in Seq([kind : {"clear"}] \cup [kind : {"new", "graph", "done"}, name : {n}])
        /\ DOMAIN x = 1..(p + 1 + w)
        /\ p = 1 => x[1] = [kind |-> "clear"]
        /\ x[p + 1] = [kind |-> "new", name |-> n]
        /\ w = 2 => /\ x[p + 2] = [kind |-> "graph", name |-> n]
                    /\ x[p + 3] = [kind |-> "done", name |-> n]
  BY EventsOfOrder
<1>. HIDE DEF x, r
<1>3. \A i \in DOMAIN x : x[i].kind # "group"
  BY <1>2
<1>4. ASSUME NEW i \in DOMAIN x, x[i].kind = "done"
      PROVE  x[i].name = n /\ p + 1 < i /\ p + 1 \in DOMAIN x
  <2>1. i \in Int /\ 1 <= i /\ i <= p + 1 + w
    BY <1>2
  <2>2. i # p + 1 /\ (p = 1 => i # 1)
    BY <1>2, <1>4
  <2>3. p + 1 < i
    BY <2>1, <2>2
  <2>4. w = 2 /\ x[i].name = n
    BY <1>2, <1>4, <2>1, <2>3
  <2>. QED
    BY <1>2, <2>3, <2>4
<1>5. ASSUME OrdersAmong(K, q), NEW i \in DOMAIN r, r[i].kind = "done"
      PROVE  \/ Messages[r[i].name].actions \subseteq K
             \/ \E j \in DOMAIN r : j < i /\ r[j].kind = "new" /\ r[j].name = r[i].name
  <2>1. CASE i \in DOMAIN q
    BY <1>1, <1>5, <2>1 DEF OrdersAmong
  <2>2. CASE i - Len(q) \in DOMAIN x /\ r[i] = x[i - Len(q)]
    <3>1. x[i - Len(q)].name = n /\ p + 1 < i - Len(q) /\ p + 1 \in DOMAIN x
      BY <1>4, <1>5, <2>2
    <3>2. Len(q) + (p + 1) \in DOMAIN r /\ r[Len(q) + (p + 1)] = x[p + 1]
      BY <1>1, <3>1
    <3>3. Len(q) + (p + 1) < i
      <4>1. i \in Int /\ Len(q) \in Int /\ p \in Int
        <5>1. i - Len(q) \in 1..(p + 1 + w)
          BY <1>2, <2>2
        <5>2. DOMAIN r = 1..(Len(q) + Len(x))
          BY <1>2, QueueJoined DEF r, x
        <5>. QED
          BY <1>1, <5>2
      <4>. QED
        BY <3>1, <4>1
    <3>. QED
      BY <1>2, <2>2, <3>1, <3>2, <3>3
  <2>. QED
    BY <1>1, <2>1, <2>2
<1>6. GroupsAmong(K, q) => GroupsAmong(K, r)
  BY <1>1, <1>3 DEF GroupsAmong
<1>. QED
  BY <1>5, <1>6 DEF OrdersAmong, r, x

LEMMA MadeInit == Init => AllMade
  BY DEF Init, AllMade, EventsAmong, WorkAmong, GroupsAmong, OrdersAmong

\* What the order manager has known it has known for good.
LEMMA MadeGrows ==
  ASSUME TypeOK, Next
  PROVE  Made \subseteq Made'
<1>1. om \in OrderManagerType
  BY DEF TypeOK
<1>3. CASE handleValidInstantActions \/ handleNewActionEvent
  <2>1. cleared' = cleared
    BY <1>3 DEF handleValidInstantActions, handleNewActionEvent, TakesMessage
  <2>2. om' = om \/ \E A : om' = WithNew(A)
    BY <1>3 DEF handleValidInstantActions, handleNewActionEvent
  <2>3. \A A : DOMAIN om.states \subseteq DOMAIN WithNew(A).states
    BY <1>1 DEF WithNew, OrderManagerType
  <2>. QED
    BY <2>1, <2>2, <2>3 DEF Made
<1>4. CASE handleClearActions
  BY <1>4 DEF handleClearActions, Made
<1>5. CASE handleOrderActionStatusChanged
  <2>1. cleared' = cleared /\ (om' = om \/ \E a, x : om' = [om EXCEPT !.states[a] = x])
    BY <1>5 DEF handleOrderActionStatusChanged, TakesEvent
  <2>2. \A a, x : DOMAIN [om EXCEPT !.states[a] = x].states = DOMAIN om.states
    BY <1>1 DEF OrderManagerType
  <2>. QED
    BY <2>1, <2>2 DEF Made
<1>6. CASE handleOrderStatus
  <2>1. cleared' = cleared
    BY <1>6 DEF handleOrderStatus, TakesEvent
  <2>2. om'.states = om.states \/ om'.states = CancelWaiting(om.states)
    BY <1>1, <1>6 DEF handleOrderStatus, OrderManagerType
  <2>3. DOMAIN om'.states = DOMAIN om.states
    BY <2>2 DEF CancelWaiting
  <2>. QED
    BY <2>1, <2>3 DEF Made
<1>7. CASE handleGraphReplacementEvent \/ handleGraphExtensionEvent
  <2>1. cleared' = cleared
    BY <1>7 DEF handleGraphReplacementEvent, handleGraphExtensionEvent
  <2>2. om'.states = om.states
    <3>1. CASE handleGraphReplacementEvent
      BY <1>1, <3>1 DEF handleGraphReplacementEvent, OrderManagerType
    <3>2. CASE handleGraphExtensionEvent
      BY <1>1, <3>2 DEF handleGraphExtensionEvent, OrderManagerType
    <3>. QED
      BY <1>7, <3>1, <3>2
  <2>. QED
    BY <2>1, <2>2 DEF Made
<1>8. CASE handleNavigationNode
  <2>1. cleared' = cleared
    BY <1>8 DEF handleNavigationNode, TakesStatus
  <2>2. om' = om \/ \E s : om' = Recorded(s)
    BY <1>8 DEF handleNavigationNode
  <2>3. om'.states = om.states
    BY <1>1, <2>2 DEF Recorded, OrderManagerType
  <2>. QED
    BY <2>1, <2>3 DEF Made
<1>9. CASE \/ (\E n \in DOMAIN Messages : ReceiveOrder(n)) \/ (\E a \in Instants : ReceiveInstant(a))
           \/ ReceiveCancel
  <2>1. om' = om /\ cleared' = cleared
    BY <1>9 DEF ReceiveOrder, ReceiveInstant, ReceiveCancel, Receive
  <2>. QED
    BY <2>1 DEF Made
<1>10. CASE \/ handleOrderMessage \/ handleValidateOrder \/ handleValidOrder
            \/ handleInstantActionsMessage \/ handleCancelMessage \/ handleValidCancel
  <2>1. om' = om /\ cleared' = cleared
    BY <1>10 DEF handleOrderMessage, handleValidateOrder, handleValidOrder,
      handleInstantActionsMessage, handleCancelMessage, handleValidCancel, TakesMessage
  <2>. QED
    BY <2>1 DEF Made
<1>11. CASE handleInterpreterDone \/ handleYieldInstantActionGroup \/ handleOrderControl
  <2>1. om' = om /\ cleared' = cleared
    BY <1>11 DEF handleInterpreterDone, handleYieldInstantActionGroup, handleOrderControl
  <2>. QED
    BY <2>1 DEF Made
<1>12. CASE handleNavigationStatusPosition \/ handleNavigationControl
  <2>1. om' = om /\ cleared' = cleared
    BY <1>12 DEF handleNavigationStatusPosition, handleNavigationControl, TakesStatus
  <2>. QED
    BY <2>1 DEF Made
<1>13. CASE \/ (\E a \in Action : BeginAction(a) \/ EndAction(a)) \/ BecomeIdle
            \/ Drive \/ evalPosition \/ setFailed
  <2>1. om' = om /\ cleared' = cleared
    BY <1>13 DEF BeginAction, EndAction, BecomeIdle, Reports, Drive, evalPosition, setFailed,
      Reported
  <2>. QED
    BY <2>1 DEF Made
<1>. QED
  BY <1>3, <1>4, <1>5, <1>6, <1>7, <1>8, <1>9, <1>10, <1>11, <1>12, <1>13
     DEF Next, MessageThread, InterpreterThread, OrderThread, NavigationThread

\* The message event thread makes an action known when it passes it on.
LEMMA MadeMessages ==
  ASSUME TypeOK, AllMade, Next, MessageThread
  PROVE  AllMade'
<1>1. Made \subseteq Made' /\ inbox \in Seq(InboxType) /\ events \in Seq(EventType)
  BY MadeGrows DEF TypeOK
<1>2. /\ events' = events /\ sched' = sched
      /\ ("interpreter" \in alive' <=> "interpreter" \in alive)
  BY DEF MessageThread, TakesMessage, handleOrderMessage, handleValidateOrder,
    handleValidOrder, handleInstantActionsMessage, handleValidInstantActions,
    handleCancelMessage, handleValidCancel
<1>3. EventsAmong(Made', events') /\ WorkAmong(Made', sched')
  <2>1. EventsAmong(Made', events)
    BY <1>1, EventsGrow DEF AllMade
  <2>2. WorkAmong(Made', sched)
    BY <1>1 DEF AllMade, WorkAmong
  <2>. QED
    BY <1>2, <2>1, <2>2
<1>4. /\ GroupsAmong(Made', inbox) /\ GroupsAmong(Made', Append(inbox, [kind |-> "cancel"]))
      /\ "interpreter" \in alive =>
           /\ OrdersAmong(Made', inbox)
           /\ OrdersAmong(Made', Append(inbox, [kind |-> "cancel"]))
           /\ \A a : OrdersAmong(Made', Append(inbox, [kind |-> "group", action |-> a]))
  BY <1>1, InboxGrows, OrdersGrow DEF AllMade
<1>5. GroupsAmong(Made', inbox') /\ ("interpreter" \in alive => OrdersAmong(Made', inbox'))
  <2>1. CASE handleValidOrder
    <3>. DEFINE n == Head(msgs).name
    <3>1. inbox' = inbox \o Events(n)
      BY <2>1 DEF handleValidOrder
    <3>2. Events(n) \in Seq(InboxType)
      <4>1. msgs \in Seq(MsgType) /\ msgs # <<>> /\ Head(msgs).kind = "valid"
        BY <2>1 DEF TypeOK, handleValidOrder, TakesMessage
      <4>. QED
        BY <4>1, QueueTaken, MessageTaken, EventsType
    <3>3. /\ GroupsAmong(Made', inbox \o Events(n))
          /\ "interpreter" \in alive => OrdersAmong(Made', inbox \o Events(n))
      BY <1>1, <1>4, <3>2, OrderEvents
    <3>. QED
      BY <3>1, <3>3
  <2>2. CASE handleValidInstantActions
    <3>. DEFINE a == Head(msgs).action
    <3>1. CASE inbox' = inbox
      BY <1>4, <3>1
    <3>2. CASE om' = WithNew({a}) /\ inbox' = Append(inbox, [kind |-> "group", action |-> a])
      <4>1. om \in OrderManagerType /\ cleared' = cleared
        BY <2>2 DEF TypeOK, handleValidInstantActions, TakesMessage
      <4>2. a \in DOMAIN om'.states
        BY <3>2, <4>1 DEF WithNew, OrderManagerType
      <4>3. a \in Made'
        BY <4>2 DEF Made
      <4>4. GroupsAmong(Made', Append(inbox, [kind |-> "group", action |-> a]))
        BY <1>1, <4>3, InboxGrows DEF AllMade
      <4>. QED
        BY <1>4, <3>2, <4>4
    <3>. QED
      BY <2>2, <3>1, <3>2 DEF handleValidInstantActions
  <2>3. CASE handleValidCancel
    BY <1>4, <2>3 DEF handleValidCancel
  <2>4. CASE inbox' = inbox
    BY <1>4, <2>4
  <2>. QED
    BY <2>1, <2>2, <2>3, <2>4 DEF MessageThread, handleOrderMessage, handleValidateOrder,
      handleInstantActionsMessage, handleCancelMessage
<1>. QED
  BY <1>2, <1>3, <1>5 DEF AllMade

\* The work of the scheduler, when it gets more.
LEMMA WorkMade ==
  ASSUME sched \in SchedulerType, events \in Seq(EventType), NEW K, NEW L, K \subseteq L,
         EventsAmong(K, events), WorkAmong(K, sched), NEW G, NEW A \in SUBSET L, Work(G, A)
  PROVE  EventsAmong(L, events') /\ WorkAmong(L, sched')
<1>1. /\ EventsAmong(L, events) /\ EventsAmong(L, Append(events, OrderStatus("active")))
      /\ WorkAmong(L, sched)
  BY EventsGrow DEF WorkAmong
<1>2. EventsAmong(L, events')
  BY <1>1 DEF Work
<1>3. CASE sched' = sched
  BY <1>1, <1>3, <1>2
<1>4. CASE sched' # sched
  <2>1. sched'.tasks = sched.tasks \cup A /\ sched'.begun = sched.begun
    BY <1>4 DEF Work, SchedulerType
  <2>. QED
    BY <1>1, <1>2, <2>1 DEF WorkAmong
<1>. QED
  BY <1>3, <1>4

\* The interpreter event thread makes the actions of an order known before it passes
\* them on.
LEMMA MadeInterpreter ==
  ASSUME TypeOK, AllMade, Next, InterpreterThread
  PROVE  AllMade'
<1>. DEFINE e == Head(inbox)
            A == Messages[e.name].actions
<1>1. /\ Made \subseteq Made' /\ inbox \in Seq(InboxType) /\ events \in Seq(EventType)
      /\ sched \in SchedulerType /\ inbox # <<>> /\ inbox' = Tail(inbox) /\ "interpreter" \in alive
      /\ EventsAmong(Made, events) /\ WorkAmong(Made, sched)
      /\ GroupsAmong(Made, inbox) /\ OrdersAmong(Made, inbox)
  BY MadeGrows, InterpreterTakes DEF TypeOK, AllMade
<1>2. GroupsAmong(Made', inbox')
  BY <1>1, InboxGrows
<1>3. "interpreter" \in alive' => OrdersAmong(Made', inbox')
  <2>. SUFFICES ASSUME "interpreter" \in alive', e.kind = "new" PROVE A \subseteq Made'
    BY <1>1, OrdersTaken
  <2>1. handleNewActionEvent
    BY DEF InterpreterThread, handleClearActions, handleGraphReplacementEvent,
      handleGraphExtensionEvent, handleInterpreterDone, handleYieldInstantActionGroup,
      handleOrderControl, Takes
  <2>2. om' = WithNew(A)
    BY <2>1 DEF handleNewActionEvent, InterpreterThrows
  <2>3. A \subseteq DOMAIN om'.states
    <3>1. om \in OrderManagerType
      BY DEF TypeOK
    <3>. QED
      BY <2>2, <3>1 DEF WithNew, OrderManagerType
  <2>. QED
    BY <2>3 DEF Made
<1>4. /\ EventsAmong(Made', events) /\ WorkAmong(Made', sched)
      /\ \A st : EventsAmong(Made', Append(events, OrderStatus(st)))
  BY <1>1, EventsGrow DEF WorkAmong
<1>5. EventsAmong(Made', events') /\ WorkAmong(Made', sched')
  <2>1. CASE handleInterpreterDone
    <3>1. e.kind = "done"
      BY <2>1 DEF handleInterpreterDone, Takes
    <3>2. A \in SUBSET Made'
      <4>1. e = inbox[1] /\ 1 \in DOMAIN inbox /\ \A j \in DOMAIN inbox : ~(j < 1)
        BY <1>1, QueueTaken
      <4>2. A \subseteq Made
        BY <1>1, <3>1, <4>1 DEF OrdersAmong
      <4>. QED
        BY <1>1, <4>2
    <3>3. \E G : Work(G, A)
      BY <2>1 DEF handleInterpreterDone
    <3>. HIDE DEF A
    <3>. QED
      BY <1>1, <3>2, <3>3, WorkMade
  <2>2. CASE handleYieldInstantActionGroup
    <3>1. e.kind = "group"
      BY <2>2 DEF handleYieldInstantActionGroup, Takes
    <3>2. {e.action} \in SUBSET Made'
      <4>1. e = inbox[1] /\ 1 \in DOMAIN inbox
        BY <1>1, QueueTaken
      <4>. QED
        BY <1>1, <3>1, <4>1 DEF GroupsAmong
    <3>3. CASE Work(<<>>, {e.action})
      BY <1>1, <3>2, <3>3, WorkMade
    <3>4. CASE UNCHANGED <<sched, events>>
      BY <1>4, <3>4
    <3>. QED
      BY <2>2, <3>3, <3>4 DEF handleYieldInstantActionGroup
  <2>3. CASE handleOrderControl
    <3>1. EventsAmong(Made', events')
      BY <1>4, <2>3 DEF handleOrderControl
    <3>2. sched' = sched \/ (sched'.tasks = {} /\ sched'.begun = sched.begun)
      BY <1>1, <2>3 DEF handleOrderControl, SchedulerType
    <3>. QED
      BY <1>4, <3>1, <3>2 DEF WorkAmong
  <2>4. CASE UNCHANGED <<events, sched>>
    BY <1>4, <2>4
  <2>. QED
    BY <2>1, <2>2, <2>3, <2>4 DEF InterpreterThread, handleClearActions, handleNewActionEvent,
      handleGraphReplacementEvent, handleGraphExtensionEvent
<1>. QED
  BY <1>2, <1>3, <1>5 DEF AllMade

\* The scheduler reports the actions it was given.
LEMMA MadeOthers ==
  ASSUME TypeOK, AllMade, Next, ~MessageThread, ~InterpreterThread
  PROVE  AllMade'
<1>1. /\ Made \subseteq Made' /\ inbox \in Seq(InboxType) /\ events \in Seq(EventType)
      /\ sched \in SchedulerType
      /\ EventsAmong(Made, events) /\ WorkAmong(Made, sched) /\ GroupsAmong(Made, inbox)
      /\ "interpreter" \in alive => OrdersAmong(Made, inbox)
  BY MadeGrows DEF TypeOK, AllMade
<1>2. inbox' = inbox /\ ("interpreter" \in alive' <=> "interpreter" \in alive)
  BY DEF Next, ReceiveOrder, ReceiveInstant, ReceiveCancel, Receive, OrderThread,
    NavigationThread, handleOrderActionStatusChanged, handleOrderStatus, TakesEvent,
    handleNavigationStatusPosition, handleNavigationNode, handleNavigationControl, TakesStatus,
    BeginAction, EndAction, BecomeIdle, Reports, Drive, evalPosition, setFailed, Reported
<1>3. GroupsAmong(Made', inbox') /\ ("interpreter" \in alive' => OrdersAmong(Made', inbox'))
  BY <1>1, <1>2, InboxGrows, OrdersGrow
<1>4. /\ EventsAmong(Made', events) /\ WorkAmong(Made', sched)
      /\ events # <<>> => EventsAmong(Made', Tail(events))
      /\ \A st : EventsAmong(Made', Append(events, OrderStatus(st)))
      /\ \A a \in Made : \A st : EventsAmong(Made', Append(events, ActionChanged(a, st)))
  BY <1>1, EventsGrow DEF WorkAmong
<1>5. EventsAmong(Made', events') /\ WorkAmong(Made', sched')
  <2>1. ASSUME NEW a \in Action, BeginAction(a) \/ EndAction(a)
        PROVE  EventsAmong(Made', events') /\ WorkAmong(Made', sched')
    <3>1. a \in Made
      BY <1>1, <2>1 DEF BeginAction, EndAction, WorkAmong
    <3>2. sched'.tasks \cup sched'.begun \subseteq sched.tasks \cup sched.begun
      BY <1>1, <2>1 DEF BeginAction, EndAction, SchedulerType
    <3>3. EventsAmong(Made', events')
      BY <1>4, <2>1, <3>1 DEF BeginAction, EndAction, Reports
    <3>. QED
      BY <1>4, <3>2, <3>3 DEF WorkAmong
  <2>2. CASE BecomeIdle
    <3>1. sched'.tasks = sched.tasks /\ sched'.begun = sched.begun
      BY <1>1, <2>2 DEF BecomeIdle, SchedulerType
    <3>. QED
      BY <1>4, <2>2, <3>1 DEF BecomeIdle, Reports, WorkAmong
  <2>3. CASE OrderThread
    BY <1>4, <2>3 DEF OrderThread, handleOrderActionStatusChanged, handleOrderStatus, TakesEvent
  <2>4. CASE NavigationThread
    <3>1. events' = events /\ sched'.tasks \subseteq sched.tasks /\ sched'.begun = sched.begun
      BY <1>1, <2>4 DEF NavigationThread, handleNavigationStatusPosition, handleNavigationNode,
        handleNavigationControl, TakesStatus, SchedulerType
    <3>. QED
      BY <1>4, <3>1 DEF WorkAmong
  <2>5. CASE events' = events /\ sched' = sched
    BY <1>4, <2>5
  <2>. QED
    BY <2>1, <2>2, <2>3, <2>4, <2>5 DEF Next, ReceiveOrder, ReceiveInstant, ReceiveCancel, Receive,
      Drive, evalPosition, setFailed, Reported
<1>. QED
  BY <1>3, <1>5 DEF AllMade

LEMMA MadeNext == TypeOK /\ AllMade /\ [Next]_vars => AllMade'
<1>. SUFFICES ASSUME TypeOK, AllMade, [Next]_vars PROVE AllMade'
  OBVIOUS
<1>1. CASE UNCHANGED vars
  BY <1>1 DEF vars, AllMade, Made, EventsAmong, WorkAmong, GroupsAmong, OrdersAmong
<1>. QED
  BY <1>1, MadeMessages, MadeInterpreter, MadeOthers

\* state_event_handler.cpp:98: a report of an action ends the order event thread only when
\* a later order cleared the state of the action, never because it was not made known.
THEOREM OnlyAClearedActionEndsTheThread == Spec => OnlyClearedActionsEndThread
<1>. DEFINE IInv == TypeOK /\ AllMade
<1>1. Init => IInv
  BY TypeInit, MadeInit
<1>2. IInv /\ [Next]_vars => IInv'
  BY TypeNext, MadeNext
<1>3. IInv => [handleOrderActionStatusChanged /\ alive' # alive
                 => Head(events).action \in cleared]_vars
  <2>. SUFFICES ASSUME IInv, handleOrderActionStatusChanged, alive' # alive
                PROVE  Head(events).action \in cleared
    OBVIOUS
  <2>1. ~Known({Head(events).action})
    BY DEF handleOrderActionStatusChanged
  <2>2. Head(events).action \notin DOMAIN om.states
    BY <2>1 DEF Known
  <2>3. Head(events).action \in Made
    <3>1. events \in Seq(EventType) /\ events # <<>> /\ Head(events).kind = "action"
      BY DEF TypeOK, handleOrderActionStatusChanged, TakesEvent
    <3>2. Head(events) = events[1] /\ 1 \in DOMAIN events
      BY <3>1, QueueTaken
    <3>. QED
      BY <3>1, <3>2 DEF AllMade, EventsAmong
  <2>. QED
    BY <2>2, <2>3 DEF Made
<1>. QED
  BY <1>1, <1>2, <1>3, PTL DEF Spec, OnlyClearedActionsEndThread

-------------------------------------------------------------------------------
(* What is left, when the master control waits for its last order to be handled *)

OrderKinds == {"order", "validating", "valid"}
Fresh == {"instant", "cancel"}
IdleNotice(e) == e.kind = "status" /\ e.status = "idle"
OrderInMsgs == \E i \in DOMAIN msgs : msgs[i].kind \in OrderKinds
Duplicate(n) == Messages[n].id = om.id /\ Messages[n].update = om.update

\* An order among the messages is alone: the interpreter event queue is empty, and what is
\* before it came behind it and has not been looked at.
OneOrder ==
  \A i \in DOMAIN msgs : msgs[i].kind \in OrderKinds =>
    /\ inbox = <<>>
    /\ \A j \in DOMAIN msgs : j < i => msgs[j].kind \in Fresh
    /\ \A j \in DOMAIN msgs : j > i => msgs[j].kind \notin OrderKinds
    /\ msgs[i].kind # "valid" => i = 1 /\ \A j \in DOMAIN msgs : j > i => msgs[j].kind \in Fresh
    /\ msgs[i].kind = "validating" => ~Duplicate(msgs[i].name)

\* The first p events of the interpreter event queue are the last p of order n, the others
\* are of no order.
Pending(n, p, q) ==
  /\ p \in 0..Len(q)
  /\ \A i \in DOMAIN q : i > p => q[i].kind \in {"group", "cancel"}
  /\ p > 0 => n \in WholeNames /\ q[p] = [kind |-> "done", name |-> n]
  /\ p > 1 => q[p - 1] = [kind |-> "graph", name |-> n]
  /\ p > 2 => q[p - 2] = [kind |-> "new", name |-> n]
  /\ p > 3 => p = 4 /\ q[1] = [kind |-> "clear"]

Staged == \E n : \E p \in 0..4 : Pending(n, p, inbox)

\* The scheduler has told last what it is.
SaidLast ==
  \/ \E i \in DOMAIN events : /\ events[i].kind = "status" /\ events[i].status = sched.said
                              /\ \A j \in DOMAIN events : j > i => events[j].kind # "status"
  \/ om.status = sched.said /\ \A j \in DOMAIN events : events[j].kind # "status"

\* While an order is checked the scheduler gets nothing new: when it is idle, that is the
\* last it says.
IdleLast ==
  OrderInMsgs =>
    /\ \A i \in DOMAIN events : IdleNotice(events[i]) => i = Len(events) /\ sched.said = "idle"
    /\ om.status = "idle" => sched.said = "idle" /\ events = <<>>

\* An idle scheduler has no work.
IdleIsEmpty ==
  sched.said = "idle" => sched.goals = <<>> /\ sched.tasks = {} /\ sched.begun = {}

\* An order that replaces the one before finds the scheduler at rest.
AtRest == sched.said = "idle" /\ events = <<>>
Replaces(n) == Messages[n].update = 0
ReplacesAtRest ==
  /\ \A i \in DOMAIN msgs : msgs[i].kind = "valid" /\ Replaces(msgs[i].name) => AtRest
  /\ \A i \in DOMAIN inbox : inbox[i].kind = "done" /\ Replaces(inbox[i].name) => AtRest

\* The actions of orders that wait.
Waits == {a \in DOMAIN om.states \ Instants : om.states[a] = Waiting}

\* Nothing is left to cancel: what waits is of an update that finds no graph.
Hollow ==
  /\ ~HasGraph
  /\ \A i \in DOMAIN inbox : inbox[i].kind = "done" => ~Replaces(inbox[i].name)
  /\ \A a \in Waits : \E i \in DOMAIN inbox :
       inbox[i].kind = "graph" /\ a \in Messages[inbox[i].name].actions

\* A cancel that finds no latch, because an earlier idle took it, finds nothing else.
Canceling == sched.said = "canceling" \/ \E i \in DOMAIN inbox : inbox[i].kind = "cancel"
CancelHasLatch == latches = 0 /\ Canceling => Hollow

\* A latch is going to let go of the graph and of the waiting actions.
Doomed ==
  /\ latches > 0
  /\ sched.said = "canceling" \/ \E i \in DOMAIN events : IdleNotice(events[i])

\* The graph of the next order or update is known, its goals are not.
Owed == inbox # <<>> /\ Head(inbox).kind = "done"

\* The goals are the nodes of the base behind the AGV's, in their order.
Matches(g, goals, a, b, l) ==
  /\ Standing(g, a, b, l)
  /\ \A i \in DOMAIN goals : goals[i].seq = a + 2 * i
  /\ a + 2 * Len(goals) <= b
  /\ IF Owed
     THEN \E f, c \in Nat :
            /\ f \in {a + 2 * Len(goals), a + 2 * Len(goals) + 1} /\ f <= b /\ f <= c
            /\ SeqIds(Messages[Head(inbox).name]) = f..c
            /\ Released(Parts(Messages[Head(inbox).name])) = f..b
     ELSE a + 2 * Len(goals) = b

GoalsMatch == HasGraph => Doomed \/ \E a, b, l : Matches(om.graph, sched.goals, a, b, l)

\* What waits is going to be begun, has been, or is going to be cancelled.
Cared(a) ==
  \/ Doomed
  \/ a \in sched.tasks
  \/ \E i \in DOMAIN events : events[i].kind = "action" /\ events[i].action = a
  \/ \E i \in DOMAIN inbox : /\ inbox[i].kind = "done"
                             /\ a \in Messages[inbox[i].name].actions
WaitsMatch == \A a \in Waits : Cared(a)

\* The AGV fails its drive when it is told to end it.
FailsWhenCanceled ==
  \A i \in DOMAIN navs : navs[i].kind = "failed" =>
    i = 1 /\ sched.said = "canceling" /\ sched.goals # <<>>

Live == alive = Thread

Left ==
  /\ OneOrder /\ Staged /\ SaidLast /\ IdleLast /\ IdleIsEmpty /\ ReplacesAtRest
  /\ CancelHasLatch /\ GoalsMatch /\ WaitsMatch /\ FailsWhenCanceled

-------------------------------------------------------------------------------
(* The interpreter event queue *)

\* All that is pending, one taken.
LEMMA PendingTaken ==
  ASSUME NEW q \in Seq(InboxType), q # <<>>, NEW n, NEW p \in 0..4, Pending(n, p, q)
  PROVE  IF p = 0 THEN Pending(n, 0, Tail(q)) ELSE Pending(n, p - 1, Tail(q))
<1>. DEFINE t == Tail(q)
<1>1. /\ t \in Seq(InboxType) /\ Len(t) = Len(q) - 1 /\ Len(q) \in Nat \ {0}
      /\ \A i \in DOMAIN t : i + 1 \in DOMAIN q /\ t[i] = q[i + 1]
      /\ DOMAIN q = 1..Len(q) /\ DOMAIN t = 1..Len(t)
  BY QueueTaken
<1>2. p \in 0..Len(q)
  BY DEF Pending
<1>. HIDE DEF t
<1>3. CASE p = 0
  <2>1. \A i \in DOMAIN t : t[i].kind \in {"group", "cancel"}
    BY <1>1, <1>3 DEF Pending
  <2>. QED
    BY <1>1, <1>3, <2>1 DEF Pending, t
<1>4. CASE p \in 1..4
  <2>. DEFINE r == p - 1
  <2>1. r \in 0..Len(t)
    BY <1>1, <1>2, <1>4
  <2>2. \A i \in DOMAIN t : i > r => t[i].kind \in {"group", "cancel"}
    <3>. SUFFICES ASSUME NEW i \in DOMAIN t, i > r PROVE t[i].kind \in {"group", "cancel"}
      OBVIOUS
    <3>1. i + 1 \in DOMAIN q /\ i + 1 > p /\ t[i] = q[i + 1]
      BY <1>1, <1>4
    <3>. QED
      BY <3>1 DEF Pending
  <2>3. r > 0 => n \in WholeNames /\ t[r] = [kind |-> "done", name |-> n]
    <3>. SUFFICES ASSUME r > 0 PROVE n \in WholeNames /\ t[r] = [kind |-> "done", name |-> n]
      OBVIOUS
    <3>1. r \in DOMAIN t /\ r + 1 = p
      BY <1>1, <1>4, <2>1
    <3>. QED
      BY <1>1, <1>4, <3>1 DEF Pending
  <2>4. r > 1 => t[r - 1] = [kind |-> "graph", name |-> n]
    <3>. SUFFICES ASSUME r > 1 PROVE t[r - 1] = [kind |-> "graph", name |-> n]
      OBVIOUS
    <3>1. r - 1 \in DOMAIN t /\ (r - 1) + 1 = p - 1
      BY <1>1, <1>4, <2>1
    <3>2. t[r - 1] = q[p - 1]
      BY <1>1, <3>1
    <3>. QED
      BY <1>4, <3>2 DEF Pending
  <2>5. r > 2 => t[r - 2] = [kind |-> "new", name |-> n]
    <3>. SUFFICES ASSUME r > 2 PROVE t[r - 2] = [kind |-> "new", name |-> n]
      OBVIOUS
    <3>1. r - 2 \in DOMAIN t /\ (r - 2) + 1 = p - 2
      BY <1>1, <1>4, <2>1
    <3>2. t[r - 2] = q[p - 2]
      BY <1>1, <3>1
    <3>. QED
      BY <1>4, <3>2 DEF Pending
  <2>6. ~(r > 3)
    BY <1>4
  <2>7. Pending(n, r, t)
    BY <2>1, <2>2, <2>3, <2>4, <2>5, <2>6 DEF Pending
  <2>. QED
    BY <1>4, <2>7 DEF t
<1>. QED
  BY <1>3, <1>4

\* What is before and behind the first event.
LEMMA PendingHead ==
  ASSUME NEW q \in Seq(InboxType), q # <<>>, NEW n, NEW p \in 0..4, Pending(n, p, q)
  PROVE  /\ Head(q) = q[1] /\ 1 \in DOMAIN q
         /\ Head(q).kind \in {"group", "cancel"} => p = 0
         /\ Head(q).kind = "done" => p = 1
         /\ Head(q).kind = "graph" => p = 2
         /\ Head(q).kind = "new" => p = 3
         /\ Head(q).kind = "clear" => p = 4
         /\ p > 0 => p \in DOMAIN q
         /\ p > 1 => p - 1 \in DOMAIN q
<1>1. DOMAIN q = 1..Len(q) /\ Len(q) \in Nat \ {0} /\ Head(q) = q[1] /\ 1 \in DOMAIN q
  BY QueueTaken
<1>2. p \in 0..Len(q)
  BY DEF Pending
<1>3. p = 0 => q[1].kind \in {"group", "cancel"}
  BY <1>1 DEF Pending
<1>4. p = 1 => q[1].kind = "done"
  BY DEF Pending
<1>5. p = 2 => q[1].kind = "graph"
  BY DEF Pending
<1>6. p = 3 => q[1].kind = "new"
  BY DEF Pending
<1>7. p = 4 => q[1].kind = "clear"
  BY DEF Pending
<1>8. (p > 0 => p \in DOMAIN q) /\ (p > 1 => p - 1 \in DOMAIN q)
  BY <1>1, <1>2
<1>9. p \in {0, 1, 2, 3, 4}
  OBVIOUS
<1>. QED
  BY <1>1, <1>3, <1>4, <1>5, <1>6, <1>7, <1>8, <1>9

\* An event of no order joins.
LEMMA PendingPut ==
  ASSUME NEW q \in Seq(InboxType), NEW n, NEW p \in 0..4, Pending(n, p, q),
         NEW e \in InboxType, e.kind \in {"group", "cancel"}
  PROVE  Pending(n, p, Append(q, e))
<1>. DEFINE r == Append(q, e)
<1>1. /\ r \in Seq(InboxType) /\ Len(r) = Len(q) + 1 /\ Len(q) \in Nat
      /\ DOMAIN r = DOMAIN q \cup {Len(q) + 1} /\ DOMAIN q = 1..Len(q)
      /\ \A i \in DOMAIN q : r[i] = q[i]
      /\ r[Len(q) + 1] = e
  BY QueuePut
<1>2. p \in 0..Len(q)
  BY DEF Pending
<1>3. /\ p > 0 => p \in DOMAIN q
      /\ p > 1 => p - 1 \in DOMAIN q
      /\ p > 2 => p - 2 \in DOMAIN q
      /\ p > 3 => 1 \in DOMAIN q
  BY <1>1, <1>2
<1>. HIDE DEF r
<1>4. \A i \in DOMAIN r : i > p => r[i].kind \in {"group", "cancel"}
  BY <1>1 DEF Pending
<1>5. p \in 0..Len(r)
  BY <1>1, <1>2
<1>. QED
  BY <1>1, <1>3, <1>4, <1>5 DEF Pending, r

\* The events of an order that is interpreted to its end.
LEMMA PendingOrder ==
  ASSUME NEW n \in WholeNames
  PROVE  /\ Events(n) \in Seq(InboxType)
         /\ \E p \in 3..4 : Pending(n, p, Events(n)) /\ Len(Events(n)) = p
<1>1. Events(n) \in Seq(InboxType) /\ ~EndsInEdge(Messages[n])
  BY EventsType DEF WholeNames
<1>2. PICK p \in {0, 1}, w \in {0, 2} :
           /\ Messages[n].update = 0 <=> p = 1
           /\ EndsInEdge(Messages[n]) <=> w = 0
           /\ Events(n) \in Seq([kind : {"clear"}] \cup [kind : {"new", "graph", "done"}, name : {n}])
           /\ Len(Events(n)) = p + 1 + w /\ DOMAIN Events(n) = 1..(p + 1 + w)
           /\ p = 1 => Events(n)[1] = [kind |-> "clear"]
           /\ Events(n)[p + 1] = [kind |-> "new", name |-> n]
           /\ w = 2 => /\ Events(n)[p + 2] = [kind |-> "graph", name |-> n]
                       /\ Events(n)[p + 3] = [kind |-> "done", name |-> n]
  BY EventsOfOrder
<1>. DEFINE x == Events(n)
            r == p + 3
<1>3. w = 2 /\ r \in 3..4 /\ r - 1 = p + 2 /\ r - 2 = p + 1 /\ (r > 3 => r = 4 /\ p = 1)
  BY <1>1, <1>2
<1>4. Len(x) = r /\ DOMAIN x = 1..r
  BY <1>2, <1>3
<1>5. x[r] = [kind |-> "done", name |-> n] /\ x[r - 1] = [kind |-> "graph", name |-> n]
      /\ x[r - 2] = [kind |-> "new", name |-> n] /\ (r > 3 => x[1] = [kind |-> "clear"])
  BY <1>2, <1>3
<1>. HIDE DEF x, r
<1>6. Pending(n, r, x)
  BY <1>3, <1>4, <1>5 DEF Pending
<1>. QED
  BY <1>1, <1>3, <1>4, <1>6 DEF x

-------------------------------------------------------------------------------
(* What the message event thread does to what is left *)

\* A message that joins the queue.
LEMMA Joins ==
  ASSUME NEW S, NEW q \in Seq(S), NEW e \in S, NEW r, r = Append(q, e)
  PROVE  /\ DOMAIN r = 1..(Len(q) + 1) /\ DOMAIN q = 1..Len(q) /\ Len(q) \in Nat
         /\ \A i \in DOMAIN r : (i \in DOMAIN q /\ r[i] = q[i]) \/ (i = Len(q) + 1 /\ r[i] = e)
         /\ \A i \in DOMAIN q : i \in DOMAIN r /\ r[i] = q[i]
         /\ Len(q) + 1 \in DOMAIN r /\ r[Len(q) + 1] = e /\ r \in Seq(S)
<1>1. /\ r \in Seq(S) /\ Len(r) = Len(q) + 1 /\ Len(q) \in Nat
      /\ DOMAIN r = DOMAIN q \cup {Len(q) + 1} /\ DOMAIN q = 1..Len(q)
      /\ \A i \in DOMAIN q : r[i] = q[i]
      /\ r[Len(q) + 1] = e
  BY QueuePut
<1>2. DOMAIN r = 1..(Len(q) + 1)
  BY <1>1
<1>3. Len(q) + 1 \in DOMAIN r /\ \A i \in DOMAIN q : i \in DOMAIN r
  BY <1>1
<1>4. \A i \in DOMAIN r : i \in DOMAIN q \/ i = Len(q) + 1
  BY <1>1
<1>. QED
  BY <1>1, <1>2, <1>3, <1>4

\* A message that leaves the queue.
LEMMA Leaves ==
  ASSUME NEW S, NEW q \in Seq(S), q # <<>>, NEW r, r = Tail(q)
  PROVE  /\ DOMAIN r = 1..(Len(q) - 1) /\ DOMAIN q = 1..Len(q) /\ Len(q) \in Nat \ {0}
         /\ \A i \in DOMAIN r : i + 1 \in DOMAIN q /\ r[i] = q[i + 1]
         /\ \A i \in DOMAIN q : i > 1 => i - 1 \in DOMAIN r /\ r[i - 1] = q[i]
         /\ Head(q) = q[1] /\ 1 \in DOMAIN q /\ r \in Seq(S) /\ Len(r) = Len(q) - 1
<1>1. /\ r \in Seq(S) /\ Len(r) = Len(q) - 1 /\ Len(q) \in Nat \ {0} /\ Head(q) = q[1]
      /\ DOMAIN r = 1..Len(r) /\ DOMAIN q = 1..Len(q)
      /\ \A i \in DOMAIN r : i + 1 \in DOMAIN q /\ r[i] = q[i + 1]
  BY QueueTaken
<1>2. ASSUME NEW i \in DOMAIN q, i > 1 PROVE i - 1 \in DOMAIN r /\ r[i - 1] = q[i]
  <2>1. i - 1 \in DOMAIN r /\ (i - 1) + 1 = i
    BY <1>1, <1>2
  <2>. QED
    BY <1>1, <2>1
<1>. QED
  BY <1>1, <1>2

\* The ways a message goes on: it is dropped, looked at, found valid, or its events are put
\* into the interpreter event queue.
Dropped == msgs' = Tail(msgs) /\ UNCHANGED <<inbox, latches>>
Forwarded ==
  /\ Head(msgs).kind \in Fresh
  /\ \E e \in MsgType :
       e.kind \in {"validInstant", "validCancel"} /\ msgs' = Append(Tail(msgs), e)
  /\ UNCHANGED <<inbox, latches>>
LookedAt(n) ==
  /\ Head(msgs).kind = "order" /\ ~Duplicate(n) /\ n \in Names
  /\ msgs' = <<Validating(n)>> \o Tail(msgs)
  /\ UNCHANGED <<inbox, latches>>
Accepted(n) ==
  /\ Head(msgs).kind = "validating" /\ Head(msgs).name = n /\ n \in SoundNames
  /\ checkOrderId(Messages[n]) /\ checkOrderAppend(Messages[n])
  /\ msgs' = Append(Tail(msgs), ValidOrder(n))
  /\ UNCHANGED <<inbox, latches>>
Grouped(a) ==
  /\ Head(msgs).kind = "validInstant" /\ a \in Instants
  /\ msgs' = Tail(msgs) /\ latches' = latches
  /\ inbox' = Append(inbox, [kind |-> "group", action |-> a])
Latched ==
  /\ Head(msgs).kind = "validCancel"
  /\ msgs' = Tail(msgs) /\ latches' = latches + 1
  /\ inbox' = Append(inbox, [kind |-> "cancel"])
Interpreted(n) ==
  /\ Head(msgs).kind = "valid" /\ Head(msgs).name = n /\ n \in WholeNames
  /\ msgs' = Tail(msgs) /\ latches' = latches /\ inbox' = inbox \o Events(n)

MessageStep ==
  \/ Dropped \/ Forwarded \/ Latched
  \/ \E n : LookedAt(n) \/ Accepted(n) \/ Interpreted(n)
  \/ \E a : Grouped(a)

\* What is not the message event thread's.
MessageFrame ==
  /\ UNCHANGED <<events, navs, sched>>
  /\ om'.id = om.id /\ om'.update = om.update /\ om'.graph = om.graph /\ om'.status = om.status
  /\ Waits' = Waits

\* An instant action does not wait for an order.
LEMMA InstantWaits ==
  ASSUME TypeOK, NEW a \in Instants, om' = WithNew({a})
  PROVE  /\ om'.id = om.id /\ om'.update = om.update /\ om'.graph = om.graph
         /\ om'.status = om.status /\ Waits' = Waits
<1>1. om \in OrderManagerType /\ {a} \in SUBSET Action
  BY MessagesAssumption DEF TypeOK
<1>2. /\ om' = [om EXCEPT !.states = WithNew({a}).states]
      /\ DOMAIN om'.states = DOMAIN om.states \cup {a}
      /\ \A b \in DOMAIN om.states : om'.states[b] = om.states[b]
  BY <1>1, WithNewType
<1>3. /\ om'.id = om.id /\ om'.update = om.update /\ om'.graph = om.graph
      /\ om'.status = om.status
  BY <1>1, <1>2 DEF OrderManagerType
<1>. QED
  BY <1>2, <1>3 DEF Waits

LEMMA MessageSteps ==
  ASSUME TypeOK, Live, Live', MessageThread
  PROVE  msgs # <<>> /\ MessageStep /\ MessageFrame
<1>1. msgs \in Seq(MsgType) /\ om \in OrderManagerType
  BY DEF TypeOK
<1>2. msgs # <<>> /\ UNCHANGED <<events, navs, sched>>
  BY DEF MessageThread, handleOrderMessage, handleValidateOrder, handleValidOrder,
    handleInstantActionsMessage, handleValidInstantActions, handleCancelMessage,
    handleValidCancel, TakesMessage
<1>3. Head(msgs) \in MsgType
  BY <1>1, <1>2, QueueTaken
<1>4. ASSUME om' = om PROVE MessageFrame
  BY <1>2, <1>4 DEF MessageFrame, Waits
<1>. DEFINE n == Head(msgs).name
            a == Head(msgs).action
<1>5. CASE handleOrderMessage
  <2>1. n \in Names /\ Head(msgs).kind = "order"
    BY <1>3, <1>5, MessageTaken DEF handleOrderMessage, TakesMessage
  <2>2. Dropped \/ LookedAt(n)
    BY <1>5, <2>1 DEF handleOrderMessage, Dropped, LookedAt, Duplicate
  <2>. QED
    BY <1>2, <1>4, <1>5, <2>2 DEF MessageStep, handleOrderMessage
<1>6. CASE handleValidateOrder
  <2>1. n \in Names /\ Head(msgs).kind = "validating"
    BY <1>3, <1>6, MessageTaken DEF handleValidateOrder, TakesMessage
  <2>2. ~AppendThrows(Messages[n])
    BY <1>6 DEF handleValidateOrder, Live, Thread
  <2>3. Dropped \/ Accepted(n)
    BY <1>6, <2>1, <2>2 DEF handleValidateOrder, ThenValid, Dropped, Accepted, SoundNames
  <2>. QED
    BY <1>2, <1>4, <1>6, <2>3 DEF MessageStep, handleValidateOrder
<1>7. CASE handleValidOrder
  <2>1. n \in SoundNames /\ Head(msgs).kind = "valid"
    BY <1>3, <1>7, MessageTaken DEF handleValidOrder, TakesMessage
  <2>2. ~EndsInEdge(Messages[n])
    BY <1>7 DEF handleValidOrder, Live, Thread
  <2>3. Interpreted(n)
    BY <1>7, <2>1, <2>2 DEF handleValidOrder, Interpreted, WholeNames
  <2>. QED
    BY <1>2, <1>4, <1>7, <2>3 DEF MessageStep, handleValidOrder
<1>8. CASE handleInstantActionsMessage
  <2>1. a \in Instants /\ Head(msgs).kind = "instant"
    BY <1>3, <1>8, MessageTaken DEF handleInstantActionsMessage, TakesMessage
  <2>2. ValidInstant(a) \in MsgType /\ ValidInstant(a).kind = "validInstant"
    BY <2>1, MessagePut DEF ValidInstant
  <2>3. Dropped \/ Forwarded
    BY <1>8, <2>1, <2>2 DEF handleInstantActionsMessage, ThenValid, Dropped, Forwarded, Fresh
  <2>. QED
    BY <1>2, <1>4, <1>8, <2>3 DEF MessageStep, handleInstantActionsMessage
<1>9. CASE handleValidInstantActions
  <2>1. a \in Instants /\ Head(msgs).kind = "validInstant"
    BY <1>3, <1>9, MessageTaken DEF handleValidInstantActions, TakesMessage
  <2>2. ~Known({a})
    BY <1>9 DEF handleValidInstantActions, Live, Thread
  <2>3. om' = WithNew({a}) /\ Grouped(a)
    BY <1>9, <2>1, <2>2 DEF handleValidInstantActions, Grouped
  <2>. QED
    BY <1>2, <2>1, <2>3, InstantWaits DEF MessageStep, MessageFrame
<1>10. CASE handleCancelMessage
  <2>1. Head(msgs).kind = "cancel" /\ ValidCancel \in MsgType /\ ValidCancel.kind = "validCancel"
    BY <1>10, MessagePut DEF handleCancelMessage, TakesMessage, ValidCancel
  <2>2. Dropped \/ Forwarded
    BY <1>10, <2>1 DEF handleCancelMessage, ThenValid, Dropped, Forwarded, Fresh
  <2>. QED
    BY <1>2, <1>4, <1>10, <2>2 DEF MessageStep, handleCancelMessage
<1>11. CASE handleValidCancel
  <2>1. Latched
    BY <1>11 DEF handleValidCancel, TakesMessage, Latched
  <2>. QED
    BY <1>2, <1>4, <1>11, <2>1 DEF MessageStep, handleValidCancel
<1>. QED
  BY <1>5, <1>6, <1>7, <1>8, <1>9, <1>10, <1>11 DEF MessageThread

\* An order that is looked at is in front of the others.
LEMMA LookedAtFirst ==
  ASSUME TypeOK, msgs # <<>>, NEW n \in Names, msgs' = <<Validating(n)>> \o Tail(msgs)
  PROVE  /\ DOMAIN msgs' = DOMAIN msgs /\ DOMAIN msgs = 1..Len(msgs) /\ Len(msgs) \in Nat
         /\ msgs'[1] = Validating(n)
         /\ \A i \in DOMAIN msgs : i > 1 => msgs'[i] = msgs[i]
<1>1. msgs \in Seq(MsgType) /\ <<Validating(n)>> \in Seq(MsgType) /\ Len(<<Validating(n)>>) = 1
      /\ DOMAIN <<Validating(n)>> = {1} /\ <<Validating(n)>>[1] = Validating(n)
  BY MessagePut DEF TypeOK
<1>. DEFINE q == <<Validating(n)>>
            t == Tail(msgs)
<1>2. /\ t \in Seq(MsgType) /\ Len(t) = Len(msgs) - 1 /\ Len(msgs) \in Nat \ {0}
      /\ DOMAIN t = 1..(Len(msgs) - 1) /\ DOMAIN msgs = 1..Len(msgs)
      /\ \A i \in DOMAIN msgs : i > 1 => i - 1 \in DOMAIN t /\ t[i - 1] = msgs[i]
  BY <1>1, Leaves
<1>. HIDE DEF q, t
<1>3. /\ DOMAIN (q \o t) = 1..(Len(q) + Len(t))
      /\ \A i \in DOMAIN q : (q \o t)[i] = q[i]
      /\ \A i \in DOMAIN t : (q \o t)[Len(q) + i] = t[i]
  <2>1. q \in Seq(MsgType) /\ t \in Seq(MsgType)
    BY <1>1, <1>2 DEF q
  <2>. QED
    BY ONLY <2>1, QueueJoined
<1>4. Len(q) = 1 /\ DOMAIN q = {1} /\ q[1] = Validating(n)
  BY <1>1 DEF q
<1>5. msgs' = q \o t
  BY DEF q, t
<1>6. DOMAIN msgs' = DOMAIN msgs
  BY <1>2, <1>3, <1>4, <1>5
<1>7. ASSUME NEW i \in DOMAIN msgs, i > 1 PROVE msgs'[i] = msgs[i]
  <2>1. i - 1 \in DOMAIN t /\ t[i - 1] = msgs[i] /\ 1 + (i - 1) = i
    BY <1>2, <1>7
  <2>. QED
    BY <1>3, <1>4, <1>5, <2>1
<1>. QED
  BY <1>2, <1>3, <1>4, <1>5, <1>6, <1>7

\* What is valid among the messages was, or has just been accepted.
ValidBefore ==
  \A i \in DOMAIN msgs' : msgs'[i].kind = "valid" =>
    (\E j \in DOMAIN msgs : msgs'[i] = msgs[j]) \/ Accepted(msgs'[i].name)

LEMMA MessagesAlone ==
  ASSUME TypeOK, OneOrder, msgs # <<>>, MessageStep, MessageFrame
  PROVE  OneOrder' /\ (OrderInMsgs' => OrderInMsgs) /\ ValidBefore
<1>. DEFINE t == Tail(msgs)
<1>1. msgs \in Seq(MsgType)
  BY DEF TypeOK
<1>2. /\ DOMAIN t = 1..(Len(msgs) - 1) /\ DOMAIN msgs = 1..Len(msgs) /\ Len(msgs) \in Nat \ {0}
      /\ \A i \in DOMAIN t : i + 1 \in DOMAIN msgs /\ t[i] = msgs[i + 1]
      /\ Head(msgs) = msgs[1] /\ 1 \in DOMAIN msgs /\ t \in Seq(MsgType) /\ Len(t) = Len(msgs) - 1
  BY <1>1, Leaves
<1>. HIDE DEF t
<1>3. \A n : Duplicate(n)' <=> Duplicate(n)
  BY DEF Duplicate, MessageFrame
<1>4. CASE msgs' = t /\ inbox' = inbox
  <2>1. OneOrder'
    <3>. SUFFICES ASSUME NEW i \in DOMAIN t, t[i].kind \in OrderKinds
                  PROVE  /\ inbox = <<>>
                         /\ \A j \in DOMAIN t : j < i => t[j].kind \in Fresh
                         /\ \A j \in DOMAIN t : j > i => t[j].kind \notin OrderKinds
                         /\ t[i].kind = "valid"
      BY <1>4 DEF OneOrder, OrderKinds
    <3>1. i + 1 \in DOMAIN msgs /\ msgs[i + 1].kind \in OrderKinds /\ i + 1 # 1
      BY <1>2
    <3>2. \A j \in DOMAIN t : j + 1 \in DOMAIN msgs /\ t[j] = msgs[j + 1]
                              /\ (j < i => j + 1 < i + 1) /\ (j > i => j + 1 > i + 1)
      BY <1>2
    <3>. QED
      BY <1>2, <3>1, <3>2 DEF OneOrder
  <2>2. (OrderInMsgs' => OrderInMsgs) /\ ValidBefore
    BY <1>2, <1>4 DEF OrderInMsgs, ValidBefore
  <2>. QED
    BY <2>1, <2>2
<1>5. CASE Forwarded
  <2>1. PICK e \in MsgType : e.kind \in {"validInstant", "validCancel"} /\ msgs' = Append(t, e)
    BY <1>5 DEF Forwarded, t
  <2>2. /\ DOMAIN msgs' = 1..(Len(t) + 1)
        /\ \A i \in DOMAIN msgs' : (i \in DOMAIN t /\ msgs'[i] = t[i])
                                     \/ (i = Len(t) + 1 /\ msgs'[i] = e)
    <3>1. t \in Seq(MsgType) /\ msgs' = Append(t, e)
      BY <1>2, <2>1
    <3>. QED
      BY ONLY <3>1, Joins, e \in MsgType
  <2>3. inbox' = inbox /\ Head(msgs).kind \in Fresh
    BY <1>5 DEF Forwarded
  <2>4. e.kind \notin OrderKinds
    BY <2>1 DEF OrderKinds
  <2>5. OneOrder'
    <3>. SUFFICES ASSUME NEW i \in DOMAIN msgs', msgs'[i].kind \in OrderKinds
                  PROVE  /\ inbox = <<>>
                         /\ \A j \in DOMAIN msgs' : j < i => msgs'[j].kind \in Fresh
                         /\ \A j \in DOMAIN msgs' : j > i => msgs'[j].kind \notin OrderKinds
                         /\ msgs'[i].kind = "valid"
      BY <2>3 DEF OneOrder, OrderKinds
    <3>1. i \in DOMAIN t /\ msgs'[i] = t[i]
      BY <2>2, <2>4
    <3>2. i + 1 \in DOMAIN msgs /\ msgs[i + 1].kind \in OrderKinds /\ i + 1 # 1 /\ i \in Int
      BY <1>2, <3>1
    <3>3. ASSUME NEW j \in DOMAIN msgs', j < i PROVE msgs'[j].kind \in Fresh
      <4>1. j \in DOMAIN t /\ msgs'[j] = t[j]
        BY <1>2, <2>2, <3>1, <3>3
      <4>2. j + 1 \in DOMAIN msgs /\ j + 1 < i + 1 /\ t[j] = msgs[j + 1]
        BY <1>2, <3>2, <3>3, <4>1
      <4>. QED
        BY <3>2, <4>1, <4>2 DEF OneOrder
    <3>4. ASSUME NEW j \in DOMAIN msgs', j > i PROVE msgs'[j].kind \notin OrderKinds
      <4>1. CASE j \in DOMAIN t /\ msgs'[j] = t[j]
        <5>1. j + 1 \in DOMAIN msgs /\ j + 1 > i + 1 /\ t[j] = msgs[j + 1]
          BY <1>2, <3>2, <3>4, <4>1
        <5>. QED
          BY <3>2, <4>1, <5>1 DEF OneOrder
      <4>. QED
        BY <2>2, <2>4, <4>1
    <3>5. msgs[i + 1].kind = "valid" /\ inbox = <<>>
      BY <3>2 DEF OneOrder
    <3>. QED
      BY <1>2, <3>1, <3>3, <3>4, <3>5
  <2>6. OrderInMsgs' => OrderInMsgs
    BY <1>2, <2>2, <2>4 DEF OrderInMsgs
  <2>7. ValidBefore
    BY <1>2, <2>1, <2>2 DEF ValidBefore
  <2>. QED
    BY <2>5, <2>6, <2>7
<1>6. ASSUME NEW n, LookedAt(n) PROVE OneOrder' /\ OrderInMsgs /\ ValidBefore
  <2>1. /\ DOMAIN msgs' = DOMAIN msgs /\ msgs'[1] = Validating(n)
        /\ \A i \in DOMAIN msgs : i > 1 => msgs'[i] = msgs[i]
        /\ inbox' = inbox /\ msgs[1].kind = "order" /\ ~Duplicate(n)
    BY <1>2, <1>6, LookedAtFirst DEF LookedAt
  <2>2. inbox = <<>> /\ \A j \in DOMAIN msgs : j > 1 => msgs[j].kind \in Fresh
    BY <1>2, <2>1 DEF OneOrder, OrderKinds
  <2>3. \A x \in Fresh : x \notin OrderKinds
    BY DEF Fresh, OrderKinds
  <2>4. \A i \in DOMAIN msgs' : i = 1 \/ i > 1
    BY <1>2, <2>1
  <2>5. OneOrder'
    <3>. SUFFICES ASSUME NEW i \in DOMAIN msgs', msgs'[i].kind \in OrderKinds
                  PROVE  i = 1
      BY <1>3, <2>1, <2>2, <2>3, <2>4 DEF OneOrder, Validating
    <3>. QED
      BY <2>1, <2>2, <2>3, <2>4
  <2>6. OrderInMsgs
    BY <1>2, <2>1 DEF OrderInMsgs, OrderKinds
  <2>7. ValidBefore
    BY <2>1, <2>4 DEF ValidBefore, Validating
  <2>. QED
    BY <2>5, <2>6, <2>7
<1>7. ASSUME NEW n, Accepted(n) PROVE OneOrder' /\ OrderInMsgs /\ ValidBefore
  <2>1. msgs' = Append(t, ValidOrder(n)) /\ ValidOrder(n) \in MsgType /\ inbox' = inbox
        /\ msgs[1].kind = "validating"
    BY <1>2, <1>7, MessagePut DEF Accepted, t
  <2>2. /\ DOMAIN msgs' = 1..(Len(t) + 1)
        /\ \A i \in DOMAIN msgs' : (i \in DOMAIN t /\ msgs'[i] = t[i])
                                     \/ (i = Len(t) + 1 /\ msgs'[i] = ValidOrder(n))
    <3>1. t \in Seq(MsgType) /\ msgs' = Append(t, ValidOrder(n)) /\ ValidOrder(n) \in MsgType
      BY <1>2, <2>1
    <3>. QED
      BY ONLY <3>1, Joins
  <2>3. inbox = <<>> /\ \A j \in DOMAIN msgs : j > 1 => msgs[j].kind \in Fresh
    BY <1>2, <2>1 DEF OneOrder, OrderKinds
  <2>4. \A x \in Fresh : x \notin OrderKinds
    BY DEF Fresh, OrderKinds
  <2>5. \A j \in DOMAIN t : t[j].kind \in Fresh /\ j < Len(t) + 1
    <3>. SUFFICES ASSUME NEW j \in DOMAIN t PROVE t[j].kind \in Fresh /\ j < Len(t) + 1
      OBVIOUS
    <3>1. j + 1 \in DOMAIN msgs /\ j + 1 > 1 /\ t[j] = msgs[j + 1] /\ j < Len(t) + 1
      BY <1>2
    <3>. QED
      BY <2>3, <3>1
  <2>6. OneOrder'
    <3>1. \A i \in DOMAIN msgs' : msgs'[i].kind \in OrderKinds =>
            i = Len(t) + 1 /\ msgs'[i].kind = "valid"
      BY <2>2, <2>4, <2>5 DEF ValidOrder
    <3>2. \A j \in DOMAIN msgs' : /\ ~(j > Len(t) + 1)
                                  /\ j < Len(t) + 1 => msgs'[j].kind \in Fresh
      BY <1>2, <2>2, <2>5
    <3>. QED
      BY <2>1, <2>3, <3>1, <3>2 DEF OneOrder
  <2>7. OrderInMsgs
    BY <1>2, <2>1 DEF OrderInMsgs, OrderKinds
  <2>8. ValidBefore
    <3>1. ValidOrder(n).kind = "valid" /\ ValidOrder(n).name = n
      BY DEF ValidOrder
    <3>. QED
      BY <1>2, <1>7, <2>2, <3>1 DEF ValidBefore
  <2>. QED
    BY <2>6, <2>7, <2>8
<1>8. CASE msgs' = t /\ Head(msgs).kind \in {"valid", "validInstant", "validCancel"}
  <2>1. ASSUME NEW i \in DOMAIN t PROVE t[i].kind \notin OrderKinds
    <3>1. i + 1 \in DOMAIN msgs /\ i + 1 > 1 /\ t[i] = msgs[i + 1]
      BY <1>2, <2>1
    <3>. QED
      BY <1>2, <1>8, <3>1 DEF OneOrder, OrderKinds, Fresh
  <2>. QED
    BY <1>2, <1>8, <2>1 DEF OneOrder, OrderInMsgs, ValidBefore
<1>. QED
  BY <1>4, <1>5, <1>6, <1>7, <1>8
     DEF MessageStep, Dropped, Interpreted, Grouped, Latched, t

\* Where the events of an order are.
LEMMA PendingIs ==
  ASSUME NEW q \in Seq(InboxType), NEW n, NEW p \in 0..4, Pending(n, p, q), NEW i \in DOMAIN q
  PROVE  /\ q[i].kind = "done" => i = p /\ q[i].name = n
         /\ q[i].kind = "graph" => i = p - 1 /\ q[i].name = n
         /\ i > p <=> q[i].kind \in {"group", "cancel"}
<1>1. DOMAIN q = 1..Len(q) /\ Len(q) \in Nat
  OBVIOUS
<1>2. p \in 0..Len(q)
  BY DEF Pending
<1>3. i > p => q[i].kind \in {"group", "cancel"}
  BY DEF Pending
<1>4. i = p => q[i].kind = "done" /\ q[i].name = n
  BY <1>1 DEF Pending
<1>5. i = p - 1 => q[i].kind = "graph" /\ q[i].name = n
  BY <1>1 DEF Pending
<1>6. i = p - 2 => q[i].kind = "new"
  BY <1>1 DEF Pending
<1>7. i = p - 3 => q[i].kind = "clear"
  BY <1>1, <1>2 DEF Pending
<1>8. i > p \/ i = p \/ i = p - 1 \/ i = p - 2 \/ i = p - 3
  BY <1>1, <1>2
<1>. QED
  BY <1>3, <1>4, <1>5, <1>6, <1>7, <1>8

\* All of a queue is in another one.
Kept(q, r) == \A i \in DOMAIN q : \E j \in DOMAIN r : r[j] = q[i]

\* The events of an order join an empty queue, others any.
InboxGrown ==
  \/ inbox' = inbox
  \/ \E e \in InboxType : /\ e.kind \in {"group", "cancel"} /\ inbox' = Append(inbox, e)
                          /\ e.kind = "cancel" => latches' = latches + 1
  \/ \E n \in WholeNames : /\ inbox = <<>> /\ inbox' = Events(n)
                           /\ 1 \in DOMAIN msgs /\ msgs[1].kind = "valid" /\ msgs[1].name = n

LEMMA MessagesGrow ==
  ASSUME TypeOK, OneOrder, msgs # <<>>, MessageStep
  PROVE  InboxGrown /\ latches' \in {latches, latches + 1}
<1>1. msgs \in Seq(MsgType) /\ Head(msgs) = msgs[1] /\ 1 \in DOMAIN msgs
  BY QueueTaken DEF TypeOK
<1>2. CASE UNCHANGED <<inbox, latches>>
  BY <1>2 DEF InboxGrown
<1>3. CASE Latched
  BY <1>3, InboxPut DEF Latched, InboxGrown
<1>4. ASSUME NEW a, Grouped(a) PROVE InboxGrown /\ latches' = latches
  BY <1>4, InboxPut DEF Grouped, InboxGrown
<1>5. ASSUME NEW n, Interpreted(n) PROVE InboxGrown /\ latches' = latches
  <2>1. msgs[1].kind = "valid" /\ msgs[1].name = n /\ n \in WholeNames
        /\ inbox' = inbox \o Events(n) /\ latches' = latches
    BY <1>1, <1>5 DEF Interpreted
  <2>2. inbox = <<>>
    BY <1>1, <2>1 DEF OneOrder, OrderKinds
  <2>3. Events(n) \in Seq(InboxType)
    BY <2>1, PendingOrder
  <2>4. inbox' = Events(n)
    BY <2>1, <2>2, <2>3
  <2>. QED
    BY <1>1, <2>1, <2>2, <2>4 DEF InboxGrown
<1>. QED
  BY <1>2, <1>3, <1>4, <1>5
     DEF MessageStep, Dropped, Forwarded, LookedAt, Accepted

\* What a queue that grows keeps.
LEMMA GrownKeeps ==
  ASSUME TypeOK, Staged, InboxGrown
  PROVE  /\ Staged' /\ Kept(inbox, inbox')
         /\ Owed' <=> Owed
         /\ Owed => Head(inbox') = Head(inbox)
         /\ \A i \in DOMAIN inbox' :
              \/ \E j \in DOMAIN inbox : inbox'[i] = inbox[j]
              \/ inbox'[i].kind = "group"
              \/ inbox'[i].kind = "cancel" /\ latches' = latches + 1
              \/ /\ inbox = <<>> /\ inbox'[i].kind # "cancel"
                 /\ inbox'[i].kind = "done" =>
                      /\ 1 \in DOMAIN msgs /\ msgs[1].kind = "valid"
                      /\ msgs[1].name = inbox'[i].name
<1>1. inbox \in Seq(InboxType)
  BY DEF TypeOK
<1>2. CASE inbox' = inbox
  BY <1>2 DEF Staged, Pending, Kept, Owed
<1>3. ASSUME NEW e \in InboxType, e.kind \in {"group", "cancel"}, inbox' = Append(inbox, e),
             e.kind = "cancel" => latches' = latches + 1
      PROVE  /\ Staged' /\ Kept(inbox, inbox')
             /\ Owed' <=> Owed
             /\ Owed => Head(inbox') = Head(inbox)
             /\ \A i \in DOMAIN inbox' :
                  \/ \E j \in DOMAIN inbox : inbox'[i] = inbox[j]
                  \/ inbox'[i].kind = "group"
                  \/ inbox'[i].kind = "cancel" /\ latches' = latches + 1
  <2>1. PICK n : \E p \in 0..4 : Pending(n, p, inbox)
    BY DEF Staged
  <2>2. PICK p \in 0..4 : Pending(n, p, inbox)
    BY <2>1
  <2>3. Pending(n, p, inbox')
    BY <1>1, <1>3, <2>2, PendingPut
  <2>4. Staged'
    BY <2>3 DEF Staged, Pending
  <2>5. /\ DOMAIN inbox' = 1..(Len(inbox) + 1) /\ DOMAIN inbox = 1..Len(inbox)
        /\ \A i \in DOMAIN inbox' : (i \in DOMAIN inbox /\ inbox'[i] = inbox[i])
                                      \/ (i = Len(inbox) + 1 /\ inbox'[i] = e)
        /\ \A i \in DOMAIN inbox : i \in DOMAIN inbox' /\ inbox'[i] = inbox[i]
        /\ inbox'[Len(inbox) + 1] = e
    BY ONLY <1>1, inbox' = Append(inbox, e), e \in InboxType, Joins
  <2>6. inbox' # <<>> /\ Head(inbox') = IF inbox = <<>> THEN e ELSE Head(inbox)
    BY <1>1, <1>3
  <2>7. (Owed' <=> Owed) /\ (Owed => Head(inbox') = Head(inbox))
    BY <1>3, <2>6 DEF Owed
  <2>8. Kept(inbox, inbox')
    BY <2>5 DEF Kept
  <2>. QED
    BY <1>3, <2>4, <2>5, <2>7, <2>8
<1>4. ASSUME NEW n \in WholeNames, inbox = <<>>, inbox' = Events(n),
             1 \in DOMAIN msgs, msgs[1].kind = "valid", msgs[1].name = n
      PROVE  /\ Staged' /\ Kept(inbox, inbox') /\ ~Owed' /\ ~Owed
             /\ \A i \in DOMAIN inbox' : /\ inbox'[i].kind # "cancel"
                                         /\ inbox'[i].kind = "done" => inbox'[i].name = n
  <2>1. PICK p \in 3..4 : Pending(n, p, Events(n)) /\ Len(Events(n)) = p
    BY <1>4, PendingOrder
  <2>2. p \in 0..4 /\ inbox' \in Seq(InboxType) /\ Pending(n, p, inbox') /\ Len(inbox') = p
    BY <1>4, <2>1, PendingOrder
  <2>3. Staged'
    BY <2>2 DEF Staged, Pending
  <2>4. inbox' # <<>>
    BY <2>1, <2>2
  <2>5. Head(inbox').kind # "done"
    BY <2>1, <2>2, <2>4, PendingHead
  <2>6. ASSUME NEW i \in DOMAIN inbox'
        PROVE  inbox'[i].kind # "cancel" /\ (inbox'[i].kind = "done" => inbox'[i].name = n)
    <3>1. ~(i > p)
      BY <2>2
    <3>. QED
      BY <2>2, <3>1, PendingIs
  <2>. QED
    BY <1>4, <2>3, <2>5, <2>6 DEF Owed, Kept
<1>. QED
  BY <1>2, <1>3, <1>4 DEF InboxGrown

\* The goals match as long as neither they nor the graph change.
LEMMA GoalsKept ==
  ASSUME GoalsMatch, om'.graph = om.graph, sched'.goals = sched.goals,
         Doomed => Doomed', Owed' <=> Owed, Owed => Head(inbox') = Head(inbox)
  PROVE  GoalsMatch'
<1>. SUFFICES ASSUME HasGraph', ~Doomed'
              PROVE  \E a, b, l : Matches(om.graph, sched.goals, a, b, l)'
  BY DEF GoalsMatch
<1>1. HasGraph /\ ~Doomed
  BY DEF HasGraph
<1>2. PICK a, b, l : Matches(om.graph, sched.goals, a, b, l)
  BY <1>1 DEF GoalsMatch
<1>3. Matches(om.graph, sched.goals, a, b, l)'
  BY <1>2 DEF Matches, Standing
<1>. QED
  BY <1>3

\* What waits is cared for as long as neither a task nor an event goes.
LEMMA WaitsKept ==
  ASSUME WaitsMatch, Waits' \subseteq Waits, Doomed => Doomed',
         sched.tasks \subseteq sched'.tasks, Kept(events, events'), Kept(inbox, inbox')
  PROVE  WaitsMatch'
<1>. SUFFICES ASSUME NEW a \in Waits' PROVE Cared(a)'
  BY DEF WaitsMatch
<1>1. Cared(a)
  BY DEF WaitsMatch
<1>2. (\E i \in DOMAIN events : events[i].kind = "action" /\ events[i].action = a)
        => \E i \in DOMAIN events' : events'[i].kind = "action" /\ events'[i].action = a
  BY DEF Kept
<1>3. (\E i \in DOMAIN inbox :
         inbox[i].kind = "done" /\ a \in Messages[inbox[i].name].actions)
        => \E i \in DOMAIN inbox' :
             inbox'[i].kind = "done" /\ a \in Messages[inbox'[i].name].actions
  BY DEF Kept
<1>. QED
  BY <1>1, <1>2, <1>3 DEF Cared

LEMMA SameKept == \A q : Kept(q, q)
  BY DEF Kept

\* A valid order that replaces another one finds the scheduler at rest.
LEMMA AcceptedAtRest ==
  ASSUME TypeOK, OneOrder, IdleLast, msgs # <<>>, NEW n, Accepted(n), Replaces(n)
  PROVE  AtRest
<1>1. msgs \in Seq(MsgType) /\ om \in OrderManagerType /\ n \in Names
  BY DEF TypeOK, Accepted, SoundNames
<1>2. Head(msgs) = msgs[1] /\ 1 \in DOMAIN msgs
  BY <1>1, QueueTaken
<1>3. msgs[1].kind = "validating" /\ msgs[1].name = n
  BY <1>2 DEF Accepted
<1>4. ~Duplicate(n) /\ OrderInMsgs
  BY <1>2, <1>3 DEF OneOrder, OrderKinds, OrderInMsgs
<1>5. Messages[n].update = 0 /\ om.update \in Nat
  BY <1>1 DEF Replaces, OrderManagerType
<1>6. Messages[n].id # om.id
  BY <1>4, <1>5 DEF Accepted, checkOrderId, Duplicate
<1>7. om.status = "idle"
  BY <1>6 DEF Accepted, checkOrderAppend, NotAppending
<1>. QED
  BY <1>4, <1>7 DEF IdleLast, AtRest

LEMMA MessagesRest ==
  ASSUME TypeOK, Left, msgs # <<>>, MessageStep, MessageFrame
  PROVE  ReplacesAtRest'
<1>1. OneOrder /\ Staged /\ IdleLast /\ ReplacesAtRest
  BY DEF Left
<1>2. AtRest' <=> AtRest
  BY DEF AtRest, MessageFrame
<1>3. ASSUME NEW i \in DOMAIN msgs', msgs'[i].kind = "valid", Replaces(msgs'[i].name)
      PROVE  AtRest
  <2>1. (\E j \in DOMAIN msgs : msgs'[i] = msgs[j]) \/ Accepted(msgs'[i].name)
    BY <1>1, <1>3, MessagesAlone DEF ValidBefore
  <2>2. CASE \E j \in DOMAIN msgs : msgs'[i] = msgs[j]
    BY <1>1, <1>3, <2>2 DEF ReplacesAtRest
  <2>3. CASE Accepted(msgs'[i].name)
    BY <1>1, <1>3, <2>3, AcceptedAtRest
  <2>. QED
    BY <2>1, <2>2, <2>3
<1>4. InboxGrown
  BY <1>1, MessagesGrow
<1>5. ASSUME NEW i \in DOMAIN inbox', inbox'[i].kind = "done", Replaces(inbox'[i].name)
      PROVE  AtRest
  <2>1. \/ \E j \in DOMAIN inbox : inbox'[i] = inbox[j]
        \/ /\ 1 \in DOMAIN msgs /\ msgs[1].kind = "valid" /\ msgs[1].name = inbox'[i].name
    BY <1>1, <1>4, <1>5, GrownKeeps
  <2>. QED
    BY <1>1, <1>5, <2>1 DEF ReplacesAtRest
<1>. QED
  BY <1>2, <1>3, <1>5 DEF ReplacesAtRest, Replaces

LEMMA MessagesLatched ==
  ASSUME TypeOK, Left, msgs # <<>>, MessageStep, MessageFrame
  PROVE  CancelHasLatch'
<1>1. OneOrder /\ Staged /\ ReplacesAtRest /\ CancelHasLatch /\ InboxGrown
      /\ latches' \in {latches, latches + 1} /\ latches \in Nat
  BY MessagesGrow DEF Left, TypeOK
<1>2. /\ Kept(inbox, inbox')
      /\ \A i \in DOMAIN inbox' :
              \/ \E j \in DOMAIN inbox : inbox'[i] = inbox[j]
              \/ inbox'[i].kind = "group"
              \/ inbox'[i].kind = "cancel" /\ latches' = latches + 1
              \/ /\ inbox = <<>> /\ inbox'[i].kind # "cancel"
                 /\ inbox'[i].kind = "done" =>
                      /\ 1 \in DOMAIN msgs /\ msgs[1].kind = "valid"
                      /\ msgs[1].name = inbox'[i].name
  BY <1>1, GrownKeeps
<1>. SUFFICES ASSUME latches' = 0, Canceling' PROVE Hollow'
  BY DEF CancelHasLatch
<1>3. latches = 0
  BY <1>1
<1>4. Canceling
  BY <1>1, <1>2, <1>3 DEF Canceling, MessageFrame
<1>5. Hollow
  BY <1>1, <1>3, <1>4 DEF CancelHasLatch
<1>6. ~HasGraph' /\ Waits' = Waits
  BY <1>5 DEF Hollow, HasGraph, MessageFrame
<1>7. ASSUME NEW i \in DOMAIN inbox', inbox'[i].kind = "done" PROVE ~Replaces(inbox'[i].name)
  <2>1. CASE \E j \in DOMAIN inbox : inbox'[i] = inbox[j]
    BY <1>5, <1>7, <2>1 DEF Hollow
  <2>2. CASE ~\E j \in DOMAIN inbox : inbox'[i] = inbox[j]
    <3>1. /\ inbox = <<>> /\ 1 \in DOMAIN msgs /\ msgs[1].kind = "valid"
          /\ msgs[1].name = inbox'[i].name
      BY <1>2, <1>7, <2>2
    <3>2. sched.said = "canceling"
      BY <1>4, <3>1 DEF Canceling
    <3>. QED
      BY <1>1, <3>1, <3>2 DEF ReplacesAtRest, AtRest
  <2>. QED
    BY <2>1, <2>2
<1>8. ASSUME NEW a \in Waits'
      PROVE  \E i \in DOMAIN inbox' :
               inbox'[i].kind = "graph" /\ a \in Messages[inbox'[i].name].actions
  BY <1>2, <1>5, <1>6 DEF Hollow, Kept
<1>. QED
  BY <1>6, <1>7, <1>8 DEF Hollow, Replaces

LEMMA MessagesLeft ==
  ASSUME TypeOK, Left, msgs # <<>>, MessageStep, MessageFrame
  PROVE  Left'
<1>1. OneOrder /\ Staged /\ WaitsMatch /\ GoalsMatch /\ InboxGrown
      /\ latches' \in {latches, latches + 1} /\ latches \in Nat
  BY MessagesGrow DEF Left, TypeOK
<1>2. OneOrder' /\ (OrderInMsgs' => OrderInMsgs)
  BY <1>1, MessagesAlone
<1>3. Staged' /\ Kept(inbox, inbox') /\ (Owed' <=> Owed) /\ (Owed => Head(inbox') = Head(inbox))
  BY <1>1, GrownKeeps
<1>4. /\ events' = events /\ navs' = navs /\ sched' = sched /\ om'.graph = om.graph
      /\ om'.status = om.status /\ Waits' = Waits
  BY DEF MessageFrame
<1>5. Doomed => Doomed'
  BY <1>1, <1>4 DEF Doomed
<1>6. SaidLast' /\ IdleLast' /\ IdleIsEmpty' /\ FailsWhenCanceled'
  BY <1>2, <1>4 DEF Left, SaidLast, IdleLast, IdleIsEmpty, FailsWhenCanceled
<1>7. ReplacesAtRest' /\ CancelHasLatch'
  BY MessagesRest, MessagesLatched
<1>8. GoalsMatch'
  BY <1>1, <1>3, <1>4, <1>5, GoalsKept
<1>9. WaitsMatch'
  BY <1>1, <1>3, <1>4, <1>5, WaitsKept, SameKept
<1>. QED
  BY <1>2, <1>3, <1>6, <1>7, <1>8, <1>9 DEF Left

\* What the master control sends.
LEMMA ReceiveLeft ==
  ASSUME TypeOK, Left, Patient,
         (\E n \in DOMAIN Messages : ReceiveOrder(n)) \/ (\E a \in Instants : ReceiveInstant(a))
           \/ ReceiveCancel
  PROVE  Left'
<1>1. UNCHANGED <<om, latches, inbox, events, navs, sched>>
  BY DEF ReceiveOrder, ReceiveInstant, ReceiveCancel, Receive
<1>2. \E e \in MsgType :
        /\ msgs' = Append(msgs, e)
        /\ e.kind \in Fresh \/ (e.kind = "order" /\ msgs = <<>> /\ inbox = <<>> /\ events = <<>>)
  <2>1. ASSUME NEW n \in DOMAIN Messages, ReceiveOrder(n)
        PROVE  /\ Order(n) \in MsgType /\ Order(n).kind = "order" /\ msgs' = Append(msgs, Order(n))
               /\ msgs = <<>> /\ inbox = <<>> /\ events = <<>>
    BY <2>1, MessagePut DEF ReceiveOrder, Receive, Order, Names
  <2>2. ASSUME NEW a \in Instants, ReceiveInstant(a)
        PROVE  /\ Instant(a) \in MsgType /\ Instant(a).kind \in Fresh
               /\ msgs' = Append(msgs, Instant(a))
    BY <2>2, MessagePut DEF ReceiveInstant, Receive, Instant, Fresh
  <2>3. ASSUME ReceiveCancel
        PROVE  Cancel \in MsgType /\ Cancel.kind \in Fresh /\ msgs' = Append(msgs, Cancel)
    BY <2>3, MessagePut DEF ReceiveCancel, Receive, Cancel, Fresh
  <2>. QED
    BY <2>1, <2>2, <2>3
<1>3. PICK e \in MsgType :
        /\ msgs' = Append(msgs, e)
        /\ e.kind \in Fresh \/ (e.kind = "order" /\ msgs = <<>> /\ inbox = <<>> /\ events = <<>>)
  BY <1>2
<1>4. msgs \in Seq(MsgType)
  BY DEF TypeOK
<1>5. /\ DOMAIN msgs' = 1..(Len(msgs) + 1) /\ DOMAIN msgs = 1..Len(msgs) /\ Len(msgs) \in Nat
      /\ \A i \in DOMAIN msgs' :
           (i \in DOMAIN msgs /\ msgs'[i] = msgs[i]) \/ (i = Len(msgs) + 1 /\ msgs'[i] = e)
      /\ \A i \in DOMAIN msgs : i \in DOMAIN msgs' /\ msgs'[i] = msgs[i]
  BY ONLY <1>3, <1>4, Joins
<1>6. /\ OneOrder'
      /\ OrderInMsgs' => OrderInMsgs \/ e.kind = "order"
      /\ \A i \in DOMAIN msgs' :
           msgs'[i].kind = "valid" => \E j \in DOMAIN msgs : msgs'[i] = msgs[j]
  <2>1. OneOrder /\ Fresh \cap OrderKinds = {} /\ "valid" \notin Fresh
    BY DEF Left, Fresh, OrderKinds
  <2>2. CASE e.kind \in Fresh
    <3>1. OneOrder'
      <4>. SUFFICES ASSUME NEW i \in DOMAIN msgs, msgs[i].kind \in OrderKinds,
                           \A j \in DOMAIN msgs' : j \notin DOMAIN msgs => msgs'[j] = e /\ j > i
                    PROVE  /\ inbox = <<>>
                           /\ \A j \in DOMAIN msgs' : j < i => msgs'[j].kind \in Fresh
                           /\ \A j \in DOMAIN msgs' : j > i => msgs'[j].kind \notin OrderKinds
                           /\ msgs[i].kind # "valid" =>
                                i = 1 /\ \A j \in DOMAIN msgs' : j > i => msgs'[j].kind \in Fresh
                           /\ msgs[i].kind = "validating" => ~Duplicate(msgs[i].name)
        BY <1>1, <1>5, <2>1, <2>2 DEF OneOrder, Duplicate
      <4>. QED
        BY <1>5, <2>1, <2>2 DEF OneOrder
    <3>. QED
      BY <1>5, <2>1, <2>2, <3>1 DEF OrderInMsgs
  <2>3. CASE e.kind = "order" /\ msgs = <<>> /\ inbox = <<>>
    <3>1. DOMAIN msgs' = {1} /\ msgs'[1] = e
      BY <1>5, <2>3
    <3>. QED
      BY <1>1, <2>3, <3>1 DEF OneOrder
  <2>. QED
    BY <1>3, <2>2, <2>3
<1>7. IdleLast'
  <2>1. CASE OrderInMsgs
    BY <1>1, <2>1 DEF Left, IdleLast
  <2>2. CASE events = <<>>
    BY <1>1, <2>2 DEF Left, IdleLast, SaidLast
  <2>3. CASE ~OrderInMsgs'
    BY <2>3 DEF IdleLast
  <2>. QED
    BY <1>3, <1>6, <2>1, <2>2, <2>3 DEF Fresh
<1>8. ReplacesAtRest'
  BY <1>1, <1>6 DEF Left, ReplacesAtRest, AtRest, Replaces
<1>9. Staged' /\ SaidLast' /\ IdleIsEmpty' /\ CancelHasLatch' /\ FailsWhenCanceled'
  BY <1>1 DEF Left, Staged, Pending, SaidLast, IdleIsEmpty, CancelHasLatch, Canceling,
    Hollow, HasGraph,
    Waits, Replaces, FailsWhenCanceled
<1>10. Doomed => Doomed'
  BY <1>1 DEF Doomed
<1>11. GoalsMatch'
  BY <1>1, <1>10, GoalsKept DEF Left, Owed
<1>12. WaitsMatch'
  BY <1>1, <1>10, WaitsKept, SameKept DEF Left, Waits
<1>. QED
  BY <1>6, <1>7, <1>8, <1>9, <1>11, <1>12 DEF Left

-------------------------------------------------------------------------------
(* What the scheduler's tasks do to what is left *)

\* The scheduler reports, and says what it is.
LEMMA SaidPut ==
  ASSUME TypeOK, SaidLast, NEW e \in EventType, events' = Append(events, e),
         om'.status = om.status,
         \/ e.kind = "action" /\ sched'.said = sched.said
         \/ e.kind = "status" /\ e.status = sched'.said
  PROVE  SaidLast'
<1>1. events \in Seq(EventType)
  BY DEF TypeOK
<1>2. /\ DOMAIN events' = 1..(Len(events) + 1) /\ DOMAIN events = 1..Len(events)
      /\ Len(events) \in Nat
      /\ \A i \in DOMAIN events' : (i \in DOMAIN events /\ events'[i] = events[i])
                                     \/ (i = Len(events) + 1 /\ events'[i] = e)
      /\ \A i \in DOMAIN events : i \in DOMAIN events' /\ events'[i] = events[i]
      /\ Len(events) + 1 \in DOMAIN events' /\ events'[Len(events) + 1] = e
  BY ONLY <1>1, events' = Append(events, e), e \in EventType, Joins
<1>3. CASE e.kind = "status" /\ e.status = sched'.said
  BY <1>2, <1>3 DEF SaidLast
<1>4. CASE e.kind = "action" /\ sched'.said = sched.said
  <2>1. e.kind # "status"
    BY <1>4
  <2>2. CASE \E i \in DOMAIN events :
               /\ events[i].kind = "status" /\ events[i].status = sched.said
               /\ \A j \in DOMAIN events : j > i => events[j].kind # "status"
    BY <1>2, <1>4, <2>1, <2>2 DEF SaidLast
  <2>3. CASE om.status = sched.said /\ \A j \in DOMAIN events : events[j].kind # "status"
    BY <1>2, <1>4, <2>1, <2>3 DEF SaidLast
  <2>. QED
    BY <2>2, <2>3 DEF SaidLast
<1>. QED
  BY <1>3, <1>4

\* A scheduler that works reports.
LEMMA WorkReports ==
  ASSUME TypeOK, Left, NEW e \in EventType, Reports(e), sched.said # "idle",
         \/ e.kind = "action" /\ sched'.said = sched.said
         \/ e.kind = "status" /\ e.status = sched'.said /\ sched'.said = "idle"
  PROVE  /\ OneOrder' /\ Staged' /\ SaidLast' /\ IdleLast' /\ ReplacesAtRest' /\ CancelHasLatch'
         /\ Doomed => Doomed'
         /\ Kept(events, events') /\ \E i \in DOMAIN events' : events'[i] = e
<1>1. events \in Seq(EventType) /\ events' = Append(events, e)
      /\ UNCHANGED <<om, latches, msgs, inbox, navs, alive>>
  BY DEF TypeOK, Reports
<1>2. /\ DOMAIN events' = 1..(Len(events) + 1) /\ DOMAIN events = 1..Len(events)
      /\ Len(events) \in Nat
      /\ \A i \in DOMAIN events' : (i \in DOMAIN events /\ events'[i] = events[i])
                                     \/ (i = Len(events) + 1 /\ events'[i] = e)
      /\ \A i \in DOMAIN events : i \in DOMAIN events' /\ events'[i] = events[i]
      /\ Len(events) + 1 \in DOMAIN events' /\ events'[Len(events) + 1] = e
  BY ONLY <1>1, e \in EventType, Joins
<1>3. OneOrder' /\ Staged'
  BY <1>1 DEF Left, OneOrder, Duplicate, Staged, Pending
<1>4. SaidLast'
  BY <1>1, SaidPut DEF Left
<1>5. IdleLast'
  <2>. SUFFICES ASSUME OrderInMsgs
                PROVE  /\ \A i \in DOMAIN events' :
                            IdleNotice(events'[i]) => i = Len(events') /\ sched'.said = "idle"
                       /\ om.status # "idle"
    BY <1>1 DEF IdleLast, OrderInMsgs, IdleNotice
  <2>1. om.status # "idle" /\ \A i \in DOMAIN events : ~IdleNotice(events[i])
    BY DEF Left, IdleLast
  <2>2. Len(events') = Len(events) + 1
    BY <1>1
  <2>3. IdleNotice(e) => sched'.said = "idle"
    BY DEF IdleNotice
  <2>. QED
    BY <1>2, <2>1, <2>2, <2>3
<1>6. ReplacesAtRest'
  BY <1>1 DEF Left, ReplacesAtRest, AtRest, Replaces
<1>7. CancelHasLatch'
  <2>1. Canceling' => Canceling
    BY <1>1 DEF Canceling
  <2>. QED
    BY <1>1, <2>1 DEF Left, CancelHasLatch, Hollow, HasGraph, Waits, Replaces
<1>8. Doomed => Doomed'
  <2>1. sched.said = "canceling" /\ sched'.said # "canceling" => IdleNotice(e)
    BY DEF IdleNotice
  <2>. QED
    BY <1>1, <1>2, <2>1 DEF Doomed
<1>9. Kept(events, events') /\ \E i \in DOMAIN events' : events'[i] = e
  BY <1>2 DEF Kept
<1>. QED
  BY <1>3, <1>4, <1>5, <1>6, <1>7, <1>8, <1>9

LEMMA SchedulerLeft ==
  ASSUME TypeOK, Left, (\E a \in Action : BeginAction(a) \/ EndAction(a)) \/ BecomeIdle
  PROVE  Left'
<1>0. sched \in SchedulerType /\ GoalsMatch /\ WaitsMatch /\ IdleIsEmpty /\ FailsWhenCanceled
  BY DEF TypeOK, Left
<1>1. ASSUME NEW a \in Action, BeginAction(a) PROVE Left'
  <2>. DEFINE e == ActionChanged(a, "RUNNING")
  <2>1. e \in EventType /\ e.kind = "action" /\ e.action = a
    BY EventPut DEF ActionChanged
  <2>2. /\ sched'.said = sched.said /\ sched'.goals = sched.goals
        /\ sched'.tasks = sched.tasks \ {a} /\ a \in sched.tasks
        /\ UNCHANGED <<om, latches, msgs, inbox, navs, alive>> /\ Reports(e)
    BY <1>0, <1>1 DEF BeginAction, Reports, SchedulerType
  <2>3. sched.said # "idle"
    BY <1>0, <2>2 DEF IdleIsEmpty
  <2>. HIDE DEF e
  <2>4. /\ OneOrder' /\ Staged' /\ SaidLast' /\ IdleLast' /\ ReplacesAtRest' /\ CancelHasLatch'
        /\ Doomed => Doomed'
        /\ Kept(events, events') /\ \E i \in DOMAIN events' : events'[i] = e
    BY <2>1, <2>2, <2>3, WorkReports
  <2>5. GoalsMatch'
    BY <1>0, <2>2, <2>4, GoalsKept DEF Owed
  <2>6. WaitsMatch'
    <3>. SUFFICES ASSUME NEW w \in Waits PROVE Cared(w)'
      BY <2>2 DEF WaitsMatch, Waits
    <3>1. Cared(w)
      BY <1>0 DEF WaitsMatch
    <3>2. CASE w = a
      BY <2>1, <2>4, <3>2 DEF Cared
    <3>3. CASE w # a
      <4>1. w \in sched.tasks => w \in sched'.tasks
        BY <2>2, <3>3
      <4>2. (\E i \in DOMAIN events : events[i].kind = "action" /\ events[i].action = w)
              => \E i \in DOMAIN events' : events'[i].kind = "action" /\ events'[i].action = w
        BY <2>4 DEF Kept
      <4>. QED
        BY <2>2, <2>4, <3>1, <4>1, <4>2 DEF Cared
    <3>. QED
      BY <3>2, <3>3
  <2>7. IdleIsEmpty' /\ FailsWhenCanceled'
    BY <1>0, <2>2, <2>3 DEF IdleIsEmpty, FailsWhenCanceled
  <2>. QED
    BY <2>4, <2>5, <2>6, <2>7 DEF Left
<1>2. ASSUME NEW a \in Action, EndAction(a) PROVE Left'
  <2>. DEFINE e == ActionChanged(a, Finished)
  <2>1. e \in EventType /\ e.kind = "action"
    BY EventPut DEF ActionChanged
  <2>2. /\ sched'.said = sched.said /\ sched'.goals = sched.goals
        /\ sched'.tasks = sched.tasks /\ a \in sched.begun
        /\ UNCHANGED <<om, latches, msgs, inbox, navs, alive>> /\ Reports(e)
    BY <1>0, <1>2 DEF EndAction, Reports, SchedulerType
  <2>3. sched.said # "idle"
    BY <1>0, <2>2 DEF IdleIsEmpty
  <2>. HIDE DEF e
  <2>4. /\ OneOrder' /\ Staged' /\ SaidLast' /\ IdleLast' /\ ReplacesAtRest' /\ CancelHasLatch'
        /\ Doomed => Doomed'
        /\ Kept(events, events')
    BY <2>1, <2>2, <2>3, WorkReports
  <2>5. GoalsMatch'
    BY <1>0, <2>2, <2>4, GoalsKept DEF Owed
  <2>6. WaitsMatch'
    BY <1>0, <2>2, <2>4, WaitsKept, SameKept DEF Waits
  <2>7. IdleIsEmpty' /\ FailsWhenCanceled'
    BY <1>0, <2>2, <2>3 DEF IdleIsEmpty, FailsWhenCanceled
  <2>. QED
    BY <2>4, <2>5, <2>6, <2>7 DEF Left
<1>3. CASE BecomeIdle
  <2>. DEFINE e == OrderStatus("idle")
  <2>1. e \in EventType /\ e.kind = "status" /\ e.status = "idle"
    BY EventPut DEF OrderStatus, OrderStates
  <2>2. /\ sched'.said = "idle" /\ sched'.goals = <<>> /\ sched'.tasks = {} /\ sched'.begun = {}
        /\ sched.said # "idle" /\ sched.goals = <<>> /\ sched.tasks = {}
        /\ UNCHANGED <<om, latches, msgs, inbox, navs, alive>> /\ Reports(e)
    BY <1>0, <1>3 DEF BecomeIdle, Reports, SchedulerType
  <2>. HIDE DEF e
  <2>4. /\ OneOrder' /\ Staged' /\ SaidLast' /\ IdleLast' /\ ReplacesAtRest' /\ CancelHasLatch'
        /\ Doomed => Doomed'
        /\ Kept(events, events')
    BY <2>1, <2>2, WorkReports
  <2>5. GoalsMatch'
    BY <1>0, <2>2, <2>4, GoalsKept DEF Owed
  <2>6. WaitsMatch'
    BY <1>0, <2>2, <2>4, WaitsKept, SameKept DEF Waits
  <2>7. IdleIsEmpty' /\ FailsWhenCanceled'
    BY <1>0, <2>2 DEF IdleIsEmpty, FailsWhenCanceled
  <2>. QED
    BY <2>4, <2>5, <2>6, <2>7 DEF Left
<1>. QED
  BY <1>1, <1>2, <1>3

-------------------------------------------------------------------------------
(* What the order event thread does to what is left *)

\* A report is taken.
LEMMA EventTakenLeft ==
  ASSUME TypeOK, Left, events # <<>>, events' = Tail(events),
         UNCHANGED <<msgs, inbox, navs, sched>>,
         om'.id = om.id, om'.update = om.update,
         om'.status = IF Head(events).kind = "status" THEN Head(events).status ELSE om.status
  PROVE  /\ OneOrder' /\ Staged' /\ SaidLast' /\ IdleLast' /\ IdleIsEmpty' /\ ReplacesAtRest'
         /\ FailsWhenCanceled'
         /\ \A i \in DOMAIN inbox : inbox[i].kind = "done" => ~Replaces(inbox[i].name)
<1>. DEFINE t == Tail(events)
<1>1. /\ DOMAIN t = 1..(Len(events) - 1) /\ DOMAIN events = 1..Len(events)
      /\ Len(events) \in Nat \ {0}
      /\ \A i \in DOMAIN t : i + 1 \in DOMAIN events /\ t[i] = events[i + 1]
      /\ \A i \in DOMAIN events : i > 1 => i - 1 \in DOMAIN t /\ t[i - 1] = events[i]
      /\ Head(events) = events[1] /\ 1 \in DOMAIN events
      /\ t \in Seq(EventType) /\ Len(t) = Len(events) - 1
  BY Leaves DEF TypeOK
<1>2. events' = t
  OBVIOUS
<1>. HIDE DEF t
<1>3. OneOrder' /\ Staged' /\ IdleIsEmpty' /\ FailsWhenCanceled'
  BY DEF Left, OneOrder, Duplicate, Staged, Pending, IdleIsEmpty, FailsWhenCanceled
<1>4. ~AtRest
  BY DEF AtRest
<1>5. /\ \A i \in DOMAIN inbox : inbox[i].kind = "done" => ~Replaces(inbox[i].name)
      /\ \A i \in DOMAIN msgs : msgs[i].kind = "valid" => ~Replaces(msgs[i].name)
  BY <1>4 DEF Left, ReplacesAtRest
<1>6. ReplacesAtRest'
  BY <1>5 DEF ReplacesAtRest, Replaces
<1>7. SaidLast'
  <2>1. CASE \E i \in DOMAIN events :
               /\ events[i].kind = "status" /\ events[i].status = sched.said
               /\ \A j \in DOMAIN events : j > i => events[j].kind # "status"
    <3>1. PICK i \in DOMAIN events :
                /\ events[i].kind = "status" /\ events[i].status = sched.said
                /\ \A j \in DOMAIN events : j > i => events[j].kind # "status"
      BY <2>1
    <3>2. CASE i = 1
      <4>1. \A j \in DOMAIN t : t[j].kind # "status"
        <5>. SUFFICES ASSUME NEW j \in DOMAIN t PROVE t[j].kind # "status"
          OBVIOUS
        <5>1. j + 1 \in DOMAIN events /\ j + 1 > i /\ t[j] = events[j + 1]
          BY <1>1, <3>2
        <5>. QED
          BY <3>1, <5>1
      <4>2. om'.status = sched.said
        BY <1>1, <3>1, <3>2
      <4>. QED
        BY <1>2, <4>1, <4>2 DEF SaidLast
    <3>3. CASE i > 1
      <4>1. i - 1 \in DOMAIN t /\ t[i - 1] = events[i]
        BY <1>1, <3>3
      <4>2. ASSUME NEW j \in DOMAIN t, j > i - 1 PROVE t[j].kind # "status"
        <5>1. j + 1 \in DOMAIN events /\ j + 1 > i /\ t[j] = events[j + 1]
          BY <1>1, <4>2
        <5>. QED
          BY <3>1, <5>1
      <4>. QED
        BY <1>2, <3>1, <4>1, <4>2 DEF SaidLast
    <3>4. i = 1 \/ i > 1
      BY <1>1
    <3>. QED
      BY <3>2, <3>3, <3>4
  <2>2. CASE om.status = sched.said /\ \A j \in DOMAIN events : events[j].kind # "status"
    <3>1. om'.status = om.status
      BY <1>1, <2>2
    <3>. QED
      BY <1>1, <1>2, <2>2, <3>1 DEF SaidLast
  <2>. QED
    BY <2>1, <2>2 DEF Left, SaidLast
<1>8. IdleLast'
  <2>. SUFFICES ASSUME OrderInMsgs
                PROVE  /\ \A i \in DOMAIN t : IdleNotice(t[i]) => i = Len(t) /\ sched.said = "idle"
                       /\ om'.status = "idle" => sched.said = "idle" /\ t = <<>>
    BY <1>2 DEF IdleLast, OrderInMsgs, IdleNotice
  <2>1. om.status # "idle"
    BY DEF Left, IdleLast
  <2>2. \A i \in DOMAIN events :
          IdleNotice(events[i]) => i = Len(events) /\ sched.said = "idle"
    BY DEF Left, IdleLast
  <2>3. \A i \in DOMAIN t : IdleNotice(t[i]) => i = Len(t) /\ sched.said = "idle"
    <3>. SUFFICES ASSUME NEW i \in DOMAIN t, IdleNotice(t[i])
                  PROVE  i = Len(t) /\ sched.said = "idle"
      OBVIOUS
    <3>1. i + 1 \in DOMAIN events /\ IdleNotice(events[i + 1])
      BY <1>1
    <3>2. i + 1 = Len(events) /\ sched.said = "idle"
      BY <2>2, <3>1
    <3>. QED
      BY <1>1, <3>2
  <2>4. om'.status = "idle" => sched.said = "idle" /\ t = <<>>
    <3>. SUFFICES ASSUME om'.status = "idle" PROVE sched.said = "idle" /\ t = <<>>
      OBVIOUS
    <3>1. IdleNotice(events[1])
      BY <1>1, <2>1 DEF IdleNotice
    <3>2. 1 = Len(events) /\ sched.said = "idle"
      BY <1>1, <2>2, <3>1
    <3>3. Len(t) = Len(events) - 1 /\ t \in Seq(EventType) /\ Len(events) = 1
      BY <1>1, <3>2
    <3>4. \A n \in Nat : n = 1 => n - 1 = 0
      OBVIOUS
    <3>5. Len(events) \in Nat
      BY <1>1
    <3>6. Len(t) = 0
      BY ONLY <3>3, <3>4, <3>5
    <3>7. t = <<>>
      BY ONLY <3>3, <3>6
    <3>. QED
      BY <3>2, <3>7
  <2>. QED
    BY <2>3, <2>4
<1>. QED
  BY <1>3, <1>5, <1>6, <1>7, <1>8

\* A report that is taken was about an action that waits no longer.
LEMMA ReportTaken ==
  ASSUME TypeOK, WaitsMatch, events # <<>>, events' = Tail(events), UNCHANGED <<sched, inbox>>,
         Waits' \subseteq Waits, Doomed => Doomed',
         Head(events).kind = "action" => Head(events).action \notin Waits'
  PROVE  WaitsMatch'
<1>. SUFFICES ASSUME NEW a \in Waits' PROVE Cared(a)'
  BY DEF WaitsMatch
<1>1. Cared(a)
  BY DEF WaitsMatch
<1>2. /\ \A i \in DOMAIN events : i > 1 => i - 1 \in DOMAIN events' /\ events'[i - 1] = events[i]
      /\ Head(events) = events[1] /\ DOMAIN events = 1..Len(events) /\ Len(events) \in Nat
  BY Leaves DEF TypeOK
<1>3. ASSUME NEW i \in DOMAIN events, events[i].kind = "action", events[i].action = a
      PROVE  \E j \in DOMAIN events' : events'[j].kind = "action" /\ events'[j].action = a
  <2>1. i # 1
    BY <1>2, <1>3
  <2>2. i > 1
    BY <1>2, <2>1
  <2>. QED
    BY <1>2, <1>3, <2>2
<1>. QED
  BY <1>1, <1>3 DEF Cared

\* An idle that is not the first report stays behind the one taken.
LEMMA IdleBehind ==
  ASSUME TypeOK, events # <<>>, events' = Tail(events), UNCHANGED <<sched, latches>>,
         IdleNotice(Head(events)) => latches = 0
  PROVE  Doomed => Doomed'
<1>. SUFFICES ASSUME Doomed PROVE Doomed'
  OBVIOUS
<1>1. latches > 0 /\ ~IdleNotice(Head(events))
  BY DEF Doomed
<1>2. /\ \A i \in DOMAIN events : i > 1 => i - 1 \in DOMAIN events' /\ events'[i - 1] = events[i]
      /\ Head(events) = events[1] /\ DOMAIN events = 1..Len(events) /\ Len(events) \in Nat
  BY Leaves DEF TypeOK
<1>3. ASSUME NEW i \in DOMAIN events, IdleNotice(events[i])
      PROVE  \E j \in DOMAIN events' : IdleNotice(events'[j])
  <2>1. i # 1
    BY <1>1, <1>2, <1>3
  <2>2. i > 1
    BY <1>2, <2>1
  <2>. QED
    BY <1>2, <1>3, <2>2
<1>. QED
  BY <1>1, <1>3 DEF Doomed, IdleNotice

\* The report of an action.
LEMMA ActionReportLeft ==
  ASSUME TypeOK, Left, Live, Live', handleOrderActionStatusChanged
  PROVE  Left'
<1>. DEFINE e == Head(events)
<1>1. /\ events # <<>> /\ e.kind = "action" /\ events' = Tail(events)
      /\ UNCHANGED <<msgs, inbox, navs, sched, latches>>
  BY DEF handleOrderActionStatusChanged, TakesEvent
<1>2. om \in OrderManagerType /\ e \in EventType
  BY <1>1, QueueTaken DEF TypeOK
<1>3. e.status # Waiting
  BY <1>1, <1>2, EventTaken DEF Waiting, Finished
<1>4. om' = [om EXCEPT !.states[e.action] = e.status]
  BY DEF handleOrderActionStatusChanged, Live, Thread
<1>5. /\ om'.id = om.id /\ om'.update = om.update /\ om'.status = om.status
      /\ om'.graph = om.graph /\ om'.states = [om.states EXCEPT ![e.action] = e.status]
  <2>. HIDE DEF e
  <2>. QED
    BY <1>2, <1>4 DEF OrderManagerType
<1>6. Waits' \subseteq Waits /\ e.action \notin Waits'
  <2>1. DOMAIN om'.states = DOMAIN om.states
    BY <1>5
  <2>2. \A a \in DOMAIN om.states : om'.states[a] = IF a = e.action THEN e.status ELSE om.states[a]
    BY <1>5
  <2>. HIDE DEF e
  <2>. QED
    BY <1>3, <2>1, <2>2 DEF Waits
<1>7. Doomed => Doomed'
  <2>1. ~IdleNotice(e)
    BY <1>1 DEF IdleNotice
  <2>. QED
    BY <1>1, <2>1, IdleBehind
<1>8. /\ OneOrder' /\ Staged' /\ SaidLast' /\ IdleLast' /\ IdleIsEmpty' /\ ReplacesAtRest'
      /\ FailsWhenCanceled'
  BY <1>1, <1>5, EventTakenLeft
<1>9. CancelHasLatch'
  <2>1. Hollow => Hollow'
    BY <1>1, <1>5, <1>6 DEF Hollow, HasGraph, Replaces
  <2>2. Canceling' <=> Canceling
    BY <1>1 DEF Canceling
  <2>. QED
    BY <1>1, <2>1, <2>2 DEF Left, CancelHasLatch
<1>10. GoalsMatch'
  BY <1>1, <1>5, <1>7, GoalsKept DEF Left, Owed
<1>11. WaitsMatch'
  BY <1>1, <1>6, <1>7, ReportTaken DEF Left
<1>. QED
  BY <1>8, <1>9, <1>10, <1>11 DEF Left

\* What the scheduler says.
LEMMA StatusReportLeft ==
  ASSUME TypeOK, Left, handleOrderStatus
  PROVE  Left'
<1>. DEFINE st == Head(events).status
            clears == st = "idle" /\ latches > 0
<1>1. /\ events # <<>> /\ Head(events).kind = "status" /\ events' = Tail(events)
      /\ UNCHANGED <<msgs, inbox, navs, sched>>
  BY DEF handleOrderStatus, TakesEvent
<1>2. om \in OrderManagerType /\ latches \in Nat
  BY DEF TypeOK
<1>3. CASE clears
  <2>1. /\ latches' = 0
        /\ om' = [om EXCEPT !.status = st, !.graph = NoGraph, !.states = CancelWaiting(@)]
    BY <1>3 DEF handleOrderStatus
  <2>2. /\ om'.id = om.id /\ om'.update = om.update /\ om'.status = st
        /\ om'.graph = NoGraph /\ om'.states = CancelWaiting(om.states)
    BY <1>2, <2>1 DEF OrderManagerType
  <2>3. Waits' = {}
    BY <2>2 DEF Waits, CancelWaiting, Waiting, Failed
  <2>4. /\ OneOrder' /\ Staged' /\ SaidLast' /\ IdleLast' /\ IdleIsEmpty' /\ ReplacesAtRest'
        /\ FailsWhenCanceled'
        /\ \A i \in DOMAIN inbox : inbox[i].kind = "done" => ~Replaces(inbox[i].name)
    BY <1>1, <2>2, EventTakenLeft
  <2>5. Hollow'
    BY <1>1, <2>2, <2>3, <2>4 DEF Hollow, HasGraph, Replaces
  <2>. QED
    BY <2>2, <2>3, <2>4, <2>5 DEF Left, CancelHasLatch, GoalsMatch, WaitsMatch, HasGraph
<1>4. CASE ~clears
  <2>1. latches' = latches /\ om' = [om EXCEPT !.status = st]
    BY <1>4 DEF handleOrderStatus
  <2>2. /\ om'.id = om.id /\ om'.update = om.update /\ om'.status = st
        /\ om'.graph = om.graph /\ om'.states = om.states
    BY <1>2, <2>1 DEF OrderManagerType
  <2>3. Waits' = Waits
    BY <2>2 DEF Waits
  <2>4. /\ OneOrder' /\ Staged' /\ SaidLast' /\ IdleLast' /\ IdleIsEmpty' /\ ReplacesAtRest'
        /\ FailsWhenCanceled'
    BY <1>1, <2>2, EventTakenLeft
  <2>5. Doomed => Doomed'
    <3>1. IdleNotice(Head(events)) => latches = 0
      BY <1>2, <1>4 DEF IdleNotice
    <3>. QED
      BY <1>1, <2>1, <3>1, IdleBehind
  <2>6. CancelHasLatch'
    <3>1. Hollow => Hollow'
      BY <1>1, <2>2, <2>3 DEF Hollow, HasGraph, Replaces
    <3>2. Canceling' <=> Canceling
      BY <1>1 DEF Canceling
    <3>. QED
      BY <2>1, <3>1, <3>2 DEF Left, CancelHasLatch
  <2>7. GoalsMatch'
    BY <1>1, <2>2, <2>5, GoalsKept DEF Left, Owed
  <2>8. WaitsMatch'
    BY <1>1, <2>3, <2>5, ReportTaken DEF Left
  <2>. QED
    BY <2>4, <2>6, <2>7, <2>8 DEF Left
<1>. QED
  BY <1>3, <1>4


-------------------------------------------------------------------------------
(* What the interpreter event thread does to what is left *)

\* Something is taken from the interpreter event queue: no order is among the messages.
LEMMA InterpreterAlone ==
  ASSUME TypeOK, Left, inbox # <<>>, inbox' = Tail(inbox), UNCHANGED msgs
  PROVE  /\ \A i \in DOMAIN msgs : msgs[i].kind \notin OrderKinds
         /\ OneOrder' /\ IdleLast' /\ Staged'
         /\ Head(inbox) = inbox[1] /\ Head(inbox) \in InboxType
         /\ \A i \in DOMAIN inbox' : \E j \in DOMAIN inbox : inbox'[i] = inbox[j]
         /\ \A i \in DOMAIN inbox : i # 1 => \E j \in DOMAIN inbox' : inbox[i] = inbox'[j]
<1>1. \A i \in DOMAIN msgs : msgs[i].kind \notin OrderKinds
  BY DEF Left, OneOrder
<1>2. OneOrder' /\ IdleLast'
  BY <1>1 DEF OneOrder, IdleLast, OrderInMsgs
<1>3. /\ \A i \in DOMAIN inbox' : i + 1 \in DOMAIN inbox /\ inbox'[i] = inbox[i + 1]
      /\ \A i \in DOMAIN inbox : i > 1 => i - 1 \in DOMAIN inbox' /\ inbox'[i - 1] = inbox[i]
      /\ Head(inbox) = inbox[1] /\ DOMAIN inbox = 1..Len(inbox) /\ Len(inbox) \in Nat
  BY Leaves DEF TypeOK
<1>4. Head(inbox) \in InboxType
  BY QueueTaken DEF TypeOK
<1>5. ASSUME NEW i \in DOMAIN inbox, i # 1
      PROVE  \E j \in DOMAIN inbox' : inbox[i] = inbox'[j]
  <2>1. i > 1
    BY <1>3, <1>5
  <2>. QED
    BY <1>3, <2>1
<1>6. Staged'
  <2>0. PICK n : \E p \in 0..4 : Pending(n, p, inbox)
    BY DEF Left, Staged
  <2>1. PICK p \in 0..4 : Pending(n, p, inbox)
    BY <2>0
  <2>2. inbox \in Seq(InboxType)
    BY DEF TypeOK
  <2>3. IF p = 0 THEN Pending(n, 0, Tail(inbox)) ELSE Pending(n, p - 1, Tail(inbox))
    BY <2>1, <2>2, PendingTaken
  <2>4. p # 0 => p - 1 \in 0..4
    OBVIOUS
  <2>. QED
    BY <2>3, <2>4 DEF Staged, Pending
<1>. QED
  BY <1>1, <1>2, <1>3, <1>4, <1>5, <1>6

\* What is behind an event of an order.
LEMMA Behind ==
  ASSUME TypeOK, Left, inbox # <<>>, inbox' = Tail(inbox)
  PROVE  /\ Head(inbox).kind \in {"done", "group", "cancel"} =>
              /\ \A i \in DOMAIN inbox' : inbox'[i].kind \in {"group", "cancel"}
              /\ \A i \in DOMAIN inbox : inbox[i].kind # "graph"
              /\ ~Owed'
         /\ Head(inbox).kind = "graph" =>
              /\ inbox' # <<>> /\ Owed' /\ ~Owed
              /\ Head(inbox') = [kind |-> "done", name |-> Head(inbox).name]
              /\ \E i \in DOMAIN inbox : inbox[i] = [kind |-> "done", name |-> Head(inbox).name]
         /\ Head(inbox).kind = "new" =>
              /\ \E i \in DOMAIN inbox' : inbox'[i] = [kind |-> "graph", name |-> Head(inbox).name]
              /\ \E i \in DOMAIN inbox' : inbox'[i] = [kind |-> "done", name |-> Head(inbox).name]
              /\ ~Owed /\ ~Owed'
         /\ Head(inbox).kind = "clear" => ~Owed /\ ~Owed'
<1>. DEFINE q == inbox
            t == Tail(inbox)
<1>0. q \in Seq(InboxType) /\ q # <<>>
  BY DEF TypeOK
<1>00. PICK n : \E p \in 0..4 : Pending(n, p, q)
  BY DEF Left, Staged
<1>1. PICK p \in 0..4 : Pending(n, p, q)
  BY <1>00
<1>2. /\ Head(q) = q[1] /\ 1 \in DOMAIN q
      /\ Head(q).kind \in {"group", "cancel"} => p = 0
      /\ Head(q).kind = "done" => p = 1
      /\ Head(q).kind = "graph" => p = 2
      /\ Head(q).kind = "new" => p = 3
      /\ Head(q).kind = "clear" => p = 4
      /\ p > 0 => p \in DOMAIN q
      /\ p > 1 => p - 1 \in DOMAIN q
  BY <1>0, <1>1, PendingHead
<1>3. /\ t \in Seq(InboxType) /\ Len(t) = Len(q) - 1 /\ Len(q) \in Nat \ {0}
      /\ DOMAIN t = 1..(Len(q) - 1) /\ DOMAIN q = 1..Len(q)
      /\ \A i \in DOMAIN t : i + 1 \in DOMAIN q /\ t[i] = q[i + 1]
      /\ \A i \in DOMAIN q : i > 1 => i - 1 \in DOMAIN t /\ t[i - 1] = q[i]
  BY <1>0, Leaves
<1>4. IF p = 0 THEN Pending(n, 0, t) ELSE Pending(n, p - 1, t)
  BY <1>0, <1>1, PendingTaken
<1>5. \A r \in 0..4 : Pending(n, r, t) /\ t # <<>> /\ Head(t).kind = "done" => r = 1
  BY <1>3, PendingHead
<1>6. inbox' = t /\ q = inbox
  OBVIOUS
<1>. HIDE DEF t, q
<1>7. ASSUME Head(q).kind \in {"done", "group", "cancel"}
      PROVE  /\ \A i \in DOMAIN t : t[i].kind \in {"group", "cancel"}
             /\ \A i \in DOMAIN q : q[i].kind # "graph"
             /\ ~(t # <<>> /\ Head(t).kind = "done")
  <2>1. p \in {0, 1} /\ Pending(n, 0, t)
    BY <1>2, <1>4, <1>7
  <2>2. \A i \in DOMAIN t : t[i].kind \in {"group", "cancel"}
    <3>. SUFFICES ASSUME NEW i \in DOMAIN t PROVE t[i].kind \in {"group", "cancel"}
      OBVIOUS
    <3>1. i > 0
      BY <1>3
    <3>. QED
      BY <2>1, <3>1 DEF Pending
  <2>3. \A i \in DOMAIN q : q[i].kind = "graph" => i = p - 1
    BY <1>0, <1>1, PendingIs
  <2>4. \A i \in DOMAIN q : q[i].kind # "graph"
    BY <1>3, <2>1, <2>3
  <2>5. ~(t # <<>> /\ Head(t).kind = "done")
    BY <1>5, <2>1
  <2>. QED
    BY <2>2, <2>4, <2>5
<1>8. ASSUME Head(q).kind = "graph"
      PROVE  /\ t # <<>> /\ Head(t) = [kind |-> "done", name |-> Head(q).name]
             /\ \E i \in DOMAIN q : q[i] = [kind |-> "done", name |-> Head(q).name]
  <2>1. p = 2
    BY <1>2, <1>8
  <2>2. q[2] = [kind |-> "done", name |-> n] /\ q[1] = [kind |-> "graph", name |-> n]
        /\ 2 \in DOMAIN q
    BY <1>1, <1>2, <2>1 DEF Pending
  <2>3. 1 \in DOMAIN t /\ t[1] = q[2]
    BY <1>3, <2>2
  <2>4. t # <<>> /\ Head(t) = t[1]
    BY <1>3, <2>3
  <2>. QED
    BY <1>2, <2>2, <2>3, <2>4
<1>9. ASSUME Head(q).kind = "new"
      PROVE  /\ \E i \in DOMAIN t : t[i] = [kind |-> "graph", name |-> Head(q).name]
             /\ \E i \in DOMAIN t : t[i] = [kind |-> "done", name |-> Head(q).name]
             /\ ~(t # <<>> /\ Head(t).kind = "done")
  <2>1. p = 3
    BY <1>2, <1>9
  <2>2. /\ q[3] = [kind |-> "done", name |-> n] /\ q[2] = [kind |-> "graph", name |-> n]
        /\ q[1] = [kind |-> "new", name |-> n] /\ 2 \in DOMAIN q /\ 3 \in DOMAIN q
    BY <1>1, <1>2, <2>1 DEF Pending
  <2>3. 1 \in DOMAIN t /\ t[1] = q[2] /\ 2 \in DOMAIN t /\ t[2] = q[3]
    BY <1>3, <2>2
  <2>4. Pending(n, 2, t)
    BY <1>4, <2>1
  <2>. QED
    BY <1>2, <1>5, <2>2, <2>3, <2>4
<1>10. ASSUME Head(q).kind = "clear" PROVE ~(t # <<>> /\ Head(t).kind = "done")
  <2>1. Pending(n, 3, t)
    BY <1>2, <1>4, <1>10
  <2>. QED
    BY <1>5, <2>1
<1>. QED
  BY <1>6, <1>7, <1>8, <1>9, <1>10 DEF Owed

\* What waits is still cared for.
LEMMA TakenCares ==
  ASSUME TypeOK, Left, inbox # <<>>, inbox' = Tail(inbox), UNCHANGED msgs,
         \A a \in Waits' : a \in Waits \/ Cared(a)', Doomed => Doomed',
         sched.tasks \subseteq sched'.tasks, Kept(events, events'),
         Head(inbox).kind = "done" => Messages[Head(inbox).name].actions \subseteq sched'.tasks
  PROVE  WaitsMatch'
<1>. SUFFICES ASSUME NEW a \in Waits', a \in Waits PROVE Cared(a)'
  BY DEF WaitsMatch
<1>1. Cared(a)
  BY DEF Left, WaitsMatch
<1>2. (\E i \in DOMAIN events : events[i].kind = "action" /\ events[i].action = a)
        => \E i \in DOMAIN events' : events'[i].kind = "action" /\ events'[i].action = a
  BY DEF Kept
<1>3. ASSUME NEW i \in DOMAIN inbox, inbox[i].kind = "done",
             a \in Messages[inbox[i].name].actions
      PROVE  \/ a \in sched'.tasks
             \/ \E j \in DOMAIN inbox' : inbox'[j].kind = "done"
                                           /\ a \in Messages[inbox'[j].name].actions
  <2>1. CASE i = 1
    BY <1>3, <2>1, InterpreterAlone
  <2>2. CASE i # 1
    BY <1>3, <2>2, InterpreterAlone
  <2>. QED
    BY <2>1, <2>2
<1>. QED
  BY <1>1, <1>2, <1>3 DEF Cared

\* Nothing is left to cancel afterwards, either.
LEMMA HollowTaken ==
  ASSUME TypeOK, Left, inbox # <<>>, inbox' = Tail(inbox), UNCHANGED msgs,
         Head(inbox).kind # "graph", om'.graph = om.graph,
         \A a \in Waits' : \/ a \in Waits
                           \/ \E i \in DOMAIN inbox' :
                                inbox'[i].kind = "graph" /\ a \in Messages[inbox'[i].name].actions
  PROVE  Hollow => Hollow'
<1>. SUFFICES ASSUME Hollow PROVE Hollow'
  OBVIOUS
<1>1. \A i \in DOMAIN inbox' : inbox'[i].kind = "done" => ~Replaces(inbox'[i].name)
  BY InterpreterAlone DEF Hollow
<1>2. ASSUME NEW a \in Waits
      PROVE  \E i \in DOMAIN inbox' :
               inbox'[i].kind = "graph" /\ a \in Messages[inbox'[i].name].actions
  <2>1. PICK i \in DOMAIN inbox : inbox[i].kind = "graph" /\ a \in Messages[inbox[i].name].actions
    BY <1>2 DEF Hollow
  <2>2. i # 1
    BY <2>1, InterpreterAlone
  <2>. QED
    BY <2>1, <2>2, InterpreterAlone
<1>. QED
  BY <1>1, <1>2 DEF Hollow, HasGraph, Replaces


\* Handlers that leave the scheduler and its reports alone.
LEMMA QuietTaken ==
  ASSUME TypeOK, Left, inbox # <<>>, inbox' = Tail(inbox),
         UNCHANGED <<latches, msgs, navs, events, sched>>, om'.status = om.status
  PROVE  /\ OneOrder' /\ IdleLast' /\ Staged' /\ SaidLast' /\ IdleIsEmpty' /\ ReplacesAtRest'
         /\ FailsWhenCanceled' /\ (Doomed <=> Doomed') /\ (Canceling' => Canceling)
         /\ Kept(events, events')
<1>1. SaidLast' /\ IdleIsEmpty' /\ FailsWhenCanceled'
  BY DEF Left, SaidLast, IdleIsEmpty, FailsWhenCanceled
<1>2. /\ OneOrder' /\ IdleLast' /\ Staged'
      /\ \A i \in DOMAIN inbox' : \E j \in DOMAIN inbox : inbox'[i] = inbox[j]
  BY InterpreterAlone
<1>3. ReplacesAtRest'
  BY <1>2 DEF Left, ReplacesAtRest, AtRest, Replaces
<1>4. Doomed <=> Doomed'
  BY DEF Doomed
<1>5. Canceling' => Canceling
  BY <1>2 DEF Canceling
<1>. QED
  BY <1>1, <1>2, <1>3, <1>4, <1>5, SameKept

LEMMA ClearLeft ==
  ASSUME TypeOK, Left, handleClearActions
  PROVE  Left'
<1>1. /\ inbox # <<>> /\ inbox' = Tail(inbox) /\ Head(inbox).kind = "clear"
      /\ UNCHANGED <<latches, msgs, navs, events, sched>>
  BY DEF handleClearActions, Takes
<1>2. om'.status = om.status /\ om'.graph = om.graph /\ Waits' = {}
  <2>1. om \in OrderManagerType /\ om' = [om EXCEPT !.states = <<>>]
    BY DEF TypeOK, handleClearActions
  <2>2. om'.status = om.status /\ om'.graph = om.graph /\ om'.states = <<>>
    BY <2>1 DEF OrderManagerType
  <2>. QED
    BY <2>2 DEF Waits
<1>3. /\ OneOrder' /\ IdleLast' /\ Staged' /\ SaidLast' /\ IdleIsEmpty' /\ ReplacesAtRest'
      /\ FailsWhenCanceled' /\ (Doomed <=> Doomed') /\ (Canceling' => Canceling)
  BY <1>1, <1>2, QuietTaken
<1>4. GoalsMatch'
  <2>1. ~Owed /\ ~Owed'
    BY <1>1, Behind
  <2>. QED
    BY <1>1, <1>2, <1>3, <2>1, GoalsKept DEF Left
<1>5. WaitsMatch'
  BY <1>2 DEF WaitsMatch
<1>6. CancelHasLatch'
  <2>1. Hollow => Hollow'
    BY <1>1, <1>2, HollowTaken
  <2>. QED
    BY <1>1, <1>3, <2>1 DEF Left, CancelHasLatch
<1>. QED
  BY <1>3, <1>4, <1>5, <1>6 DEF Left

LEMMA NewLeft ==
  ASSUME TypeOK, Left, Live, Live', handleNewActionEvent
  PROVE  Left'
<1>. DEFINE e == Head(inbox)
            A == Messages[e.name].actions
<1>1. /\ inbox # <<>> /\ inbox' = Tail(inbox) /\ e.kind = "new"
      /\ UNCHANGED <<latches, msgs, navs, events, sched>>
  BY DEF handleNewActionEvent, Takes
<1>2. om' = WithNew(A)
  BY DEF handleNewActionEvent, InterpreterThrows, Live, Thread
<1>3. A \in SUBSET Action
  BY <1>1, InterpreterAlone, InboxTaken, MessageType DEF Names
<1>. HIDE DEF e, A
<1>4. /\ om'.status = om.status /\ om'.graph = om.graph
      /\ DOMAIN om'.states = DOMAIN om.states \cup A
      /\ \A a \in DOMAIN om.states : om'.states[a] = om.states[a]
  <2>1. om \in OrderManagerType
    BY DEF TypeOK
  <2>2. /\ om' = [om EXCEPT !.states = WithNew(A).states]
        /\ DOMAIN WithNew(A).states = DOMAIN om.states \cup A
        /\ \A a \in DOMAIN om.states : WithNew(A).states[a] = om.states[a]
    BY <1>2, <1>3, <2>1, WithNewType
  <2>. QED
    BY <1>2, <2>1, <2>2 DEF OrderManagerType
<1>5. \A a \in Waits' : a \in Waits \/ a \in A
  BY <1>4 DEF Waits
<1>6. /\ \E i \in DOMAIN inbox' : inbox'[i] = [kind |-> "graph", name |-> e.name]
      /\ \E i \in DOMAIN inbox' : inbox'[i] = [kind |-> "done", name |-> e.name]
      /\ ~Owed /\ ~Owed'
  BY <1>1, Behind DEF e
<1>7. /\ OneOrder' /\ IdleLast' /\ Staged' /\ SaidLast' /\ IdleIsEmpty' /\ ReplacesAtRest'
      /\ FailsWhenCanceled' /\ (Doomed <=> Doomed') /\ (Canceling' => Canceling)
      /\ Kept(events, events')
  BY <1>1, <1>4, QuietTaken
<1>8. GoalsMatch'
  BY <1>1, <1>4, <1>6, <1>7, GoalsKept DEF Left
<1>9. WaitsMatch'
  <2>1. \A a \in A : Cared(a)'
    BY <1>6 DEF Cared, A
  <2>2. \A a \in Waits' : a \in Waits \/ Cared(a)'
    BY <1>5, <2>1
  <2>3. sched.tasks \subseteq sched'.tasks /\ Head(inbox).kind # "done"
    BY <1>1 DEF e
  <2>. QED
    BY <1>1, <1>7, <2>2, <2>3, TakenCares
<1>10. CancelHasLatch'
  <2>1. \A a \in A : \E i \in DOMAIN inbox' :
          inbox'[i].kind = "graph" /\ a \in Messages[inbox'[i].name].actions
    BY <1>6 DEF A
  <2>2. Hollow => Hollow'
    <3>1. Head(inbox).kind # "graph"
      BY <1>1 DEF e
    <3>. QED
      BY <1>1, <1>4, <1>5, <2>1, <3>1, HollowTaken
  <2>. QED
    BY <1>1, <1>7, <2>2 DEF Left, CancelHasLatch
<1>. QED
  BY <1>7, <1>8, <1>9, <1>10 DEF Left

\* A graph joins: the next event gives the scheduler its goals.
LEMMA GraphTaken ==
  ASSUME TypeOK, Left, inbox # <<>>, inbox' = Tail(inbox), Head(inbox).kind = "graph",
         UNCHANGED <<latches, msgs, navs, events, sched>>,
         om'.status = om.status, om'.states = om.states, GoalsMatch', CancelHasLatch'
  PROVE  Left'
<1>1. /\ OneOrder' /\ IdleLast' /\ Staged' /\ SaidLast' /\ IdleIsEmpty' /\ ReplacesAtRest'
      /\ FailsWhenCanceled' /\ (Doomed <=> Doomed') /\ Kept(events, events')
  BY QuietTaken
<1>2. WaitsMatch'
  <2>1. Waits' = Waits
    BY DEF Waits
  <2>2. sched.tasks \subseteq sched'.tasks
    OBVIOUS
  <2>. QED
    BY <1>1, <2>1, <2>2, TakenCares
<1>. QED
  BY <1>1, <1>2 DEF Left

LEMMA ReplacementLeft ==
  ASSUME TypeOK, Left, Live, Live', handleGraphReplacementEvent
  PROVE  Left'
<1>. DEFINE e == Head(inbox)
            m == Messages[e.name]
            g == NewGraph(Elem(m))
            new == [om EXCEPT !.id = m.id, !.update = 0, !.last = 0, !.graph = g]
<1>1. /\ inbox # <<>> /\ inbox' = Tail(inbox) /\ e.kind = "graph" /\ Replaces(e.name)
      /\ UNCHANGED <<latches, msgs, navs, events, sched>>
  BY DEF handleGraphReplacementEvent, Takes, Replaces
<1>2. /\ e.name \in DOMAIN Messages /\ checkOrderGraphConsistency(Messages[e.name])
      /\ ~EndsInEdge(Messages[e.name])
  <2>1. e \in InboxType
    BY <1>1, InterpreterAlone
  <2>2. e.name \in WholeNames
    BY <1>1, <2>1, InboxTaken
  <2>. QED
    BY <2>2 DEF WholeNames, SoundNames, Names
<1>3. BaseIds(g) # {} /\ CanStandOn(g, 0) /\ om' = [new EXCEPT !.graph = StandOn(g, 0)]
  BY DEF handleGraphReplacementEvent, InterpreterThrows, Live, Thread
<1>4. om'.graph = StandOn(g, 0) /\ om'.status = om.status /\ om'.states = om.states
  <2>1. om \in OrderManagerType
    BY DEF TypeOK
  <2>. HIDE DEF g
  <2>. QED
    BY <1>3, <2>1 DEF OrderManagerType
<1>5. PICK b, l : /\ Standing(StandOn(g, 0), 0, b, l)
                  /\ BaseIds(g) = 0..b /\ SeqIds(Messages[e.name]) = 0..l
                  /\ Released(Parts(Messages[e.name])) = 0..b
  BY <1>2, <1>3, NewStands
<1>. HIDE DEF g, new
<1>6. /\ inbox' # <<>> /\ Owed' /\ Head(inbox') = [kind |-> "done", name |-> e.name]
      /\ \E i \in DOMAIN inbox : inbox[i] = [kind |-> "done", name |-> e.name]
  BY <1>1, Behind
<1>7. AtRest
  BY <1>1, <1>6 DEF Left, ReplacesAtRest
<1>8. sched.goals = <<>>
  BY <1>7 DEF Left, IdleIsEmpty, AtRest
<1>. HIDE DEF e, m
<1>9. GoalsMatch'
  <2>1. b \in Nat /\ l \in Nat /\ 0 <= b /\ 0 <= l
    BY <1>5 DEF Standing
  <2>2. Standing(om'.graph, 0, b, l)
    BY <1>4, <1>5
  <2>3. sched'.goals = <<>> /\ Len(<<>>) = 0 /\ DOMAIN (sched'.goals) = {}
    BY <1>1, <1>8
  <2>4. Head(inbox').name = e.name
    BY <1>6
  <2>5. 0 \in {0 + 2 * Len(sched'.goals), 0 + 2 * Len(sched'.goals) + 1}
        /\ 0 + 2 * Len(sched'.goals) <= b
    BY <2>1, <2>3
  <2>6. Matches(om.graph, sched.goals, 0, b, l)'
    BY <1>5, <1>6, <2>1, <2>2, <2>3, <2>4, <2>5 DEF Matches, Standing
  <2>. QED
    BY <2>6 DEF GoalsMatch
<1>10. CancelHasLatch'
  <2>1. ~Hollow
    BY <1>1, <1>6 DEF Hollow
  <2>2. Canceling' => Canceling
    BY <1>1, <1>4, QuietTaken
  <2>. QED
    BY <1>1, <2>1, <2>2 DEF Left, CancelHasLatch
<1>. QED
  BY <1>1, <1>4, <1>9, <1>10, GraphTaken DEF e


LEMMA ExtensionLeft ==
  ASSUME TypeOK, Left, Live, Live', handleGraphExtensionEvent
  PROVE  Left'
<1>. DEFINE e == Head(inbox)
            m == Messages[e.name]
            g == NewGraph(Elem(m))
<1>1. /\ inbox # <<>> /\ inbox' = Tail(inbox) /\ e.kind = "graph"
      /\ UNCHANGED <<latches, msgs, navs, events, sched>>
  BY DEF handleGraphExtensionEvent, Takes
<1>2. /\ e.name \in DOMAIN Messages /\ checkOrderGraphConsistency(Messages[e.name])
      /\ ~EndsInEdge(Messages[e.name])
  <2>1. e \in InboxType
    BY <1>1, InterpreterAlone
  <2>2. e.name \in WholeNames
    BY <1>1, <2>1, InboxTaken
  <2>. QED
    BY <2>2 DEF WholeNames, SoundNames, Names
<1>3. HasGraph /\ CanExtend(om.graph, g) /\ BaseIds(g) # {}
  BY DEF handleGraphExtensionEvent, InterpreterThrows, Live, Thread
<1>4. om' = [om EXCEPT !.update = m.update, !.graph = Extend(om.graph, g)]
  BY <1>3 DEF handleGraphExtensionEvent
<1>5. om'.graph = Extend(om.graph, g) /\ om'.status = om.status /\ om'.states = om.states
  <2>1. om \in OrderManagerType
    BY DEF TypeOK
  <2>. HIDE DEF g
  <2>. QED
    BY <1>4, <2>1 DEF OrderManagerType
<1>. HIDE DEF g
<1>6. /\ inbox' # <<>> /\ Owed' /\ ~Owed /\ Head(inbox') = [kind |-> "done", name |-> e.name]
  BY <1>1, Behind
<1>7. (Doomed <=> Doomed') /\ (Canceling' => Canceling)
  BY <1>1, <1>5, QuietTaken
<1>8. GoalsMatch'
  <2>. SUFFICES ASSUME ~Doomed'
                PROVE  \E a, b, l : Matches(om.graph, sched.goals, a, b, l)'
    BY DEF GoalsMatch
  <2>1. PICK a, b, l : Matches(om.graph, sched.goals, a, b, l)
    BY <1>3, <1>7 DEF Left, GoalsMatch
  <2>2. /\ Standing(om.graph, a, b, l) /\ a + 2 * Len(sched.goals) = b
        /\ \A i \in DOMAIN sched.goals : sched.goals[i].seq = a + 2 * i
    BY <1>6, <2>1 DEF Matches
  <2>3. PICK c, k, f :
           /\ Standing(Extend(om.graph, g), a, c, k) /\ b <= c
           /\ f \in {b, b + 1} /\ BaseIds(g) = f..c /\ SeqIds(Messages[e.name]) = f..k
           /\ {s \in BaseIds(g) : s >= DeltaFirst(om.graph, g)} = (b + 1)..c
           /\ Released(Parts(Messages[e.name])) = f..c
    BY <1>2, <1>3, <2>2, ExtendStands DEF g
  <2>4. b \in Nat /\ c \in Nat /\ k \in Nat /\ c <= k
    BY <2>2, <2>3 DEF Standing
  <2>5. f \in Nat /\ f <= c /\ f <= k
    <3>1. f..c # {}
      BY <1>3, <2>3
    <3>. QED
      BY <2>3, <2>4, <3>1
  <2>6. sched'.goals = sched.goals /\ Head(inbox').name = e.name
    BY <1>1, <1>6
  <2>. HIDE DEF e, m
  <2>7. Matches(om.graph, sched.goals, a, c, k)'
    <3>1. Standing(om'.graph, a, c, k)
      BY <1>5, <2>3
    <3>2. f \in {a + 2 * Len(sched'.goals), a + 2 * Len(sched'.goals) + 1}
      BY <2>2, <2>3, <2>6
    <3>3. a + 2 * Len(sched'.goals) <= c
      BY <2>2, <2>3, <2>6
    <3>4. \A i \in DOMAIN sched'.goals : sched'.goals[i].seq = a + 2 * i
      BY <2>2, <2>6
    <3>. QED
      BY <1>6, <2>3, <2>4, <2>5, <2>6, <3>1, <3>2, <3>3, <3>4 DEF Matches
  <2>. QED
    BY <2>7
<1>9. CancelHasLatch'
  <2>1. ~Hollow
    BY <1>3 DEF Hollow
  <2>. QED
    BY <1>1, <1>7, <2>1 DEF Left, CancelHasLatch
<1>. QED
  BY <1>1, <1>5, <1>8, <1>9, GraphTaken

\* What the scheduler makes of new work.
LEMMA WorkDone ==
  ASSUME TypeOK, NEW G \in Seq(PlaceType), NEW A \in SUBSET Action, Work(G, A)
  PROVE  /\ sched'.goals = sched.goals \o G /\ sched'.tasks = sched.tasks \cup A
         /\ sched'.begun = sched.begun
         /\ \/ events' = events /\ sched'.said = sched.said /\ (sched.said = "idle" => sched' = sched)
            \/ /\ sched.said = "idle" /\ sched'.said = "active"
               /\ events' = Append(events, OrderStatus("active"))
<1>1. sched \in SchedulerType /\ sched.goals \in Seq(PlaceType)
  BY SchedulerFields DEF TypeOK
<1>2. CASE G = <<>> /\ A = {}
  BY <1>1, <1>2 DEF Work
<1>3. CASE ~(G = <<>> /\ A = {})
  <2>. DEFINE x == IF sched.said = "idle" THEN "active" ELSE sched.said
              H == sched.goals \o G
              T == sched.tasks \cup A
  <2>1. sched' = [sched EXCEPT !.goals = H, !.tasks = T, !.said = x]
    BY <1>3 DEF Work
  <2>2. events' = IF sched.said = "idle" THEN Append(events, OrderStatus("active")) ELSE events
    BY <1>3 DEF Work
  <2>3. sched'.goals = H /\ sched'.tasks = T /\ sched'.begun = sched.begun /\ sched'.said = x
    <3>. HIDE DEF x, H, T
    <3>. QED
      BY <1>1, <2>1 DEF SchedulerType
  <2>. QED
    BY <2>2, <2>3
<1>. QED
  BY <1>2, <1>3

\* The even numbers from behind e on.
LEMMA EvenNumbers ==
  ASSUME NEW e \in Nat, NEW k \in Nat
  PROVE  Ascending({e + 2 * i : i \in 1..k}) = [i \in 1..k |-> e + 2 * i]
<1>. DEFINE S == {e + 2 * i : i \in 1..k}
            h == [i \in 1..k |-> e + 2 * i]
<1>1. S \in SUBSET Nat
  OBVIOUS
<1>2. h \in [1..k -> S] /\ \A i, j \in 1..k : i < j => h[i] < h[j]
  OBVIOUS
<1>3. ExistsBijection(1..k, S)
  <2>1. \A i, j \in 1..k : h[i] = h[j] => i = j
    OBVIOUS
  <2>2. \A y \in S : \E i \in 1..k : h[i] = y
    OBVIOUS
  <2>. QED
    BY <1>2, <2>1, <2>2 DEF ExistsBijection, Bijection, Injection, Surjection,
      IsInjective
<1>4. IsFiniteSet(S) /\ Cardinality(S) = k
  <2>. HIDE DEF S
  <2>. QED
    BY <1>3, FS_CountingElements, FS_NatBijection
<1>. HIDE DEF S, h
<1>5. Ascending(S) = h
  BY <1>1, <1>2, <1>4, AscendingIs
<1>. QED
  BY <1>5 DEF S, h

\* The nodes that a message gives to the scheduler, behind place x.
NodesBehind(n, x, k) ==
  Ascending(Released(Messages[n].nodes) \ {Min(SeqIds(Messages[n]))}) = [i \in 1..k |-> x + 2 * i]

\* The nodes of a base f..b behind the first one, which is e or right behind it.
LEMMA GoalsOfBase ==
  ASSUME NEW n \in DOMAIN Messages, checkOrderGraphConsistency(Messages[n]),
         NEW e \in Nat, NEW b \in Nat, NEW f \in Nat, NEW c \in Nat,
         IsNode(e), IsNode(b), e <= b, f \in {e, e + 1}, f <= b, f <= c,
         SeqIds(Messages[n]) = f..c, Released(Parts(Messages[n])) = f..b
  PROVE  \E k \in Nat : e + 2 * k = b /\ NodesBehind(n, e, k)
<1>. DEFINE m == Messages[n]
            S == Released(m.nodes) \ {f}
<1>1. Min(SeqIds(m)) = f
  BY IntervalBounds
<1>2. m.nodes \in SUBSET Element /\ m.edges \in SUBSET Element
  BY MessageType
<1>3. (\A x \in m.nodes : x.seq % 2 = 0) /\ (\A x \in m.edges : x.seq % 2 = 1)
  BY DEF checkOrderGraphConsistency
<1>. HIDE DEF m
<1>4. \A s : s \in Released(m.nodes) <=> s \in f..b /\ s % 2 = 0
  <2>1. ASSUME NEW s \in Released(m.nodes) PROVE s \in f..b /\ s % 2 = 0
    <3>1. s \in Released(Parts(m))
      BY <2>1 DEF Released, Parts
    <3>. QED
      BY <1>3, <2>1, <3>1 DEF Released, m
  <2>2. ASSUME NEW s \in f..b, s % 2 = 0 PROVE s \in Released(m.nodes)
    <3>1. s \in Released(Parts(m))
      BY <2>2 DEF m
    <3>2. PICK x \in Parts(m) : x.released /\ x.seq = s
      BY <3>1 DEF Released
    <3>3. x \in m.nodes
      BY <1>3, <2>2, <3>2 DEF Parts
    <3>. QED
      BY <3>2, <3>3 DEF Released
  <2>. QED
    BY <2>1, <2>2
<1>5. PICK k \in Nat : e + 2 * k = b
  <2>1. PICK i \in Nat : e = 2 * i
    BY DEF IsNode
  <2>2. PICK j \in Nat : b = 2 * j
    BY DEF IsNode
  <2>3. j - i \in Nat /\ e + 2 * (j - i) = b
    BY <2>1, <2>2
  <2>. QED
    BY <2>3
<1>6. S = {e + 2 * i : i \in 1..k}
  <2>1. ASSUME NEW s \in S PROVE \E i \in 1..k : s = e + 2 * i
    <3>1. s \in f..b /\ s % 2 = 0 /\ s # f
      BY <1>4, <2>1
    <3>2. s \in Nat /\ s > e /\ s <= b
      BY <3>1
    <3>3. PICK i \in Nat : e = 2 * i
      BY DEF IsNode
    <3>4. PICK j \in Nat : s = 2 * j
      BY <3>1, <3>2
    <3>5. j - i \in 1..k /\ s = e + 2 * (j - i)
      BY <1>5, <3>2, <3>3, <3>4
    <3>. QED
      BY <3>5
  <2>2. ASSUME NEW i \in 1..k PROVE e + 2 * i \in S
    <3>1. e + 2 * i \in Nat /\ e + 2 * i > e + 1 /\ e + 2 * i <= b
      BY <1>5
    <3>2. (e + 2 * i) % 2 = 0
      BY DEF IsNode
    <3>3. e + 2 * i \in f..b /\ e + 2 * i # f
      BY <3>1
    <3>. QED
      BY <1>4, <3>2, <3>3
  <2>. QED
    BY <2>1, <2>2
<1>7. Ascending(S) = [i \in 1..k |-> e + 2 * i]
  <2>. HIDE DEF S
  <2>. QED
    BY <1>6, EvenNumbers
<1>. QED
  BY <1>1, <1>5, <1>7 DEF m, NodesBehind


\* New work is for the scheduler to do.
LEMMA WorkLeft ==
  ASSUME TypeOK, Left, inbox # <<>>, inbox' = Tail(inbox),
         Head(inbox).kind \in {"done", "group"}, UNCHANGED <<latches, msgs, navs, om>>,
         NEW G \in Seq(PlaceType), NEW A \in SUBSET Action, Work(G, A),
         Head(inbox).kind = "done" => Messages[Head(inbox).name].actions \subseteq A
  PROVE  /\ sched'.goals = sched.goals \o G
         /\ Doomed => Doomed'
         /\ GoalsMatch' => Left'
<1>1. /\ sched'.goals = sched.goals \o G /\ sched'.tasks = sched.tasks \cup A
      /\ sched'.begun = sched.begun
      /\ \/ events' = events /\ sched'.said = sched.said /\ (sched.said = "idle" => sched' = sched)
         \/ /\ sched.said = "idle" /\ sched'.said = "active"
            /\ events' = Append(events, OrderStatus("active"))
  BY WorkDone
<1>2. /\ \A i \in DOMAIN inbox' : inbox'[i].kind \in {"group", "cancel"}
      /\ \A i \in DOMAIN inbox : inbox[i].kind # "graph"
  BY Behind
<1>3. /\ \A i \in DOMAIN msgs : msgs[i].kind \notin OrderKinds
      /\ OneOrder' /\ IdleLast' /\ Staged'
      /\ \A i \in DOMAIN inbox' : \E j \in DOMAIN inbox : inbox'[i] = inbox[j]
  BY InterpreterAlone
<1>4. OrderStatus("active") \in EventType /\ OrderStatus("active").kind = "status"
      /\ OrderStatus("active").status = "active"
  BY EventPut DEF OrderStates, OrderStatus
<1>. DEFINE e == OrderStatus("active")
<1>. HIDE DEF e
<1>5. SaidLast'
  <2>1. CASE events' = events /\ sched'.said = sched.said
    BY <2>1 DEF Left, SaidLast
  <2>2. CASE events' = Append(events, e) /\ sched'.said = "active"
    BY <1>4, <2>2, SaidPut DEF Left, e
  <2>. QED
    BY <1>1, <2>1, <2>2 DEF e
<1>6. Kept(events, events')
  <2>1. CASE events' = events
    BY <2>1, SameKept
  <2>2. CASE events' = Append(events, e)
    <3>1. events \in Seq(EventType) /\ e \in EventType
      BY <1>4 DEF TypeOK, e
    <3>2. \A i \in DOMAIN events : i \in DOMAIN events' /\ events'[i] = events[i]
      BY ONLY <2>2, <3>1, Joins
    <3>. QED
      BY <3>2 DEF Kept
  <2>. QED
    BY <1>1, <2>1, <2>2 DEF e
<1>7. Doomed => Doomed'
  <2>1. sched.said = "canceling" => sched'.said = "canceling"
    BY <1>1
  <2>2. (\E i \in DOMAIN events : IdleNotice(events[i]))
          => \E i \in DOMAIN events' : IdleNotice(events'[i])
    BY <1>6 DEF Kept
  <2>. QED
    BY <2>1, <2>2 DEF Doomed, IdleNotice
<1>8. IdleIsEmpty' /\ ReplacesAtRest'
  BY <1>1, <1>2, <1>3 DEF Left, IdleIsEmpty, ReplacesAtRest, OrderKinds
<1>9. FailsWhenCanceled'
  <2>1. sched.goals \in Seq(PlaceType)
    BY SchedulerFields DEF TypeOK
  <2>2. sched.goals # <<>> => sched.goals \o G # <<>>
    BY <2>1
  <2>. QED
    BY <1>1, <2>2 DEF Left, FailsWhenCanceled
<1>10. CancelHasLatch'
  <2>1. Canceling' => Canceling
    BY <1>1, <1>3 DEF Canceling
  <2>2. Hollow => Hollow'
    <3>1. \A a \in Waits' : a \in Waits
      BY DEF Waits
    <3>. QED
      BY <3>1, HollowTaken
  <2>. QED
    BY <2>1, <2>2 DEF Left, CancelHasLatch
<1>11. WaitsMatch'
  <2>1. Waits' = Waits
    BY DEF Waits
  <2>2. sched.tasks \subseteq sched'.tasks
    BY <1>1
  <2>3. Head(inbox).kind = "done" => Messages[Head(inbox).name].actions \subseteq sched'.tasks
    BY <1>1
  <2>. QED
    BY <1>6, <1>7, <2>1, <2>2, <2>3, TakenCares
<1>. QED
  BY <1>1, <1>3, <1>5, <1>7, <1>8, <1>9, <1>10, <1>11 DEF Left

LEMMA DoneLeft ==
  ASSUME TypeOK, Left, handleInterpreterDone
  PROVE  Left'
<1>. DEFINE e == Head(inbox)
            m == Messages[e.name]
            q == Ascending(Released(m.nodes) \ {Min(SeqIds(m))})
            G == [i \in DOMAIN q |-> Place(m.id, q[i])]
<1>1. /\ inbox # <<>> /\ inbox' = Tail(inbox) /\ e.kind = "done"
      /\ UNCHANGED <<latches, msgs, navs, om>> /\ Work(G, m.actions)
  BY DEF handleInterpreterDone, Takes
<1>2. /\ e.name \in DOMAIN Messages /\ e.name \in Names
      /\ checkOrderGraphConsistency(Messages[e.name])
  <2>1. e \in InboxType
    BY <1>1, InterpreterAlone
  <2>2. e.name \in WholeNames
    BY <1>1, <2>1, InboxTaken
  <2>. QED
    BY <2>2 DEF WholeNames, SoundNames, Names
<1>3. m.actions \in SUBSET Action /\ m.id \in Nat
  BY <1>2, MessageType
<1>4. q \in Seq(Nat) /\ G \in Seq(PlaceType)
  <2>1. Released(m.nodes) \ {Min(SeqIds(m))} \in SUBSET SeqIds(m)
    BY <1>2, BaseOfMessage
  <2>2. q \in Seq(Nat)
    BY <1>2, <2>1, AscendingSeq
  <2>. HIDE DEF q
  <2>. QED
    BY <1>3, <2>2, AscendingPlaces
<1>5. DOMAIN G = DOMAIN q /\ \A i \in DOMAIN q : G[i].seq = q[i]
  BY DEF Place
<1>. HIDE DEF G
<1>6. sched'.goals = sched.goals \o G /\ (Doomed => Doomed') /\ (GoalsMatch' => Left')
  <2>1. /\ Head(inbox).kind \in {"done", "group"}
        /\ Head(inbox).kind = "done" => Messages[Head(inbox).name].actions \subseteq m.actions
    BY <1>1
  <2>. HIDE DEF e, m
  <2>. QED
    BY <1>1, <1>3, <1>4, <2>1, WorkLeft
<1>7. Owed /\ ~Owed'
  <2>1. ~Owed'
    BY <1>1, Behind
  <2>. QED
    BY <1>1, <2>1 DEF Owed
<1>8. GoalsMatch'
  <2>. SUFFICES ASSUME HasGraph', ~Doomed'
                PROVE  \E a, b, l : Matches(om.graph, sched.goals, a, b, l)'
    BY DEF GoalsMatch
  <2>1. HasGraph /\ ~Doomed
    BY <1>1, <1>6 DEF HasGraph
  <2>2. PICK a, b, l : Matches(om.graph, sched.goals, a, b, l)
    BY <2>1 DEF Left, GoalsMatch
  <2>. DEFINE g == sched.goals
              x == a + 2 * Len(g)
  <2>3. /\ Standing(om.graph, a, b, l) /\ x <= b
        /\ \A i \in DOMAIN g : g[i].seq = a + 2 * i
    BY <2>2 DEF Matches
  <2>4. PICK f, c \in Nat : /\ f \in {x, x + 1} /\ f <= b /\ f <= c
                            /\ SeqIds(Messages[e.name]) = f..c
                            /\ Released(Parts(Messages[e.name])) = f..b
    BY <1>7, <2>2 DEF Matches
  <2>5. g \in Seq(PlaceType) /\ Len(g) \in Nat /\ DOMAIN g = 1..Len(g)
    BY SchedulerFields DEF TypeOK
  <2>6. a \in Nat /\ b \in Nat /\ IsNode(a) /\ IsNode(b)
    BY <2>3 DEF Standing
  <2>. HIDE DEF g
  <2>7. x \in Nat /\ IsNode(x)
    BY <2>5, <2>6 DEF IsNode
  <2>. HIDE DEF x
  <2>. HIDE DEF e
  <2>8. PICK k \in Nat : x + 2 * k = b /\ q = [i \in 1..k |-> x + 2 * i]
    <3>1. \E k \in Nat : x + 2 * k = b /\ NodesBehind(e.name, x, k)
      <4>1. /\ e.name \in DOMAIN Messages /\ checkOrderGraphConsistency(Messages[e.name])
            /\ x \in Nat /\ b \in Nat /\ f \in Nat /\ c \in Nat
            /\ IsNode(x) /\ IsNode(b) /\ x <= b /\ f \in {x, x + 1} /\ f <= b /\ f <= c
            /\ SeqIds(Messages[e.name]) = f..c /\ Released(Parts(Messages[e.name])) = f..b
        BY <1>2, <2>3, <2>4, <2>6, <2>7
      <4>. QED
        BY ONLY <4>1, GoalsOfBase
    <3>2. ASSUME NEW k \in Nat, NodesBehind(e.name, x, k)
          PROVE  q = [i \in 1..k |-> x + 2 * i]
      BY <3>2 DEF NodesBehind
    <3>. QED
      BY <3>1, <3>2
  <2>. HIDE DEF q, m
  <2>9. DOMAIN G = 1..k /\ Len(G) = k /\ \A i \in 1..k : G[i].seq = x + 2 * i
    BY <1>4, <1>5, <2>8
  <2>10. /\ g \o G \in Seq(PlaceType) /\ Len(g \o G) = Len(g) + k
         /\ \A i \in DOMAIN g : (g \o G)[i] = g[i]
         /\ \A i \in 1..k : (g \o G)[Len(g) + i] = G[i]
    <3>1. g \in Seq(PlaceType) /\ G \in Seq(PlaceType)
      BY <1>4, <2>5
    <3>2. /\ g \o G \in Seq(PlaceType) /\ Len(g \o G) = Len(g) + Len(G)
          /\ \A i \in DOMAIN g : (g \o G)[i] = g[i]
          /\ \A i \in DOMAIN G : (g \o G)[Len(g) + i] = G[i]
      BY ONLY <3>1, QueueJoined
    <3>. QED
      BY <2>9, <3>2
  <2>11. ASSUME NEW i \in DOMAIN (g \o G) PROVE (g \o G)[i].seq = a + 2 * i
    <3>1. i \in 1..(Len(g) + k)
      BY <2>10
    <3>2. CASE i \in DOMAIN g
      BY <2>3, <2>10, <3>2
    <3>3. CASE i \notin DOMAIN g
      <4>1. i - Len(g) \in 1..k /\ i = Len(g) + (i - Len(g))
        BY <2>5, <3>1, <3>3
      <4>2. (g \o G)[i] = G[i - Len(g)]
        BY <2>10, <4>1
      <4>3. (g \o G)[i].seq = x + 2 * (i - Len(g))
        BY <2>9, <4>1, <4>2
      <4>. QED
        BY <2>5, <2>6, <3>1, <4>3 DEF x
    <3>. QED
      BY <3>2, <3>3
  <2>12. a + 2 * Len(g \o G) = b
    BY <2>5, <2>6, <2>8, <2>10 DEF x
  <2>13. sched'.goals = g \o G /\ om' = om
    BY <1>1, <1>6 DEF g
  <2>14. Standing(om'.graph, a, b, l) /\ a + 2 * Len(sched'.goals) <= b
    BY <2>3, <2>6, <2>12, <2>13
  <2>15. Matches(om.graph, sched.goals, a, b, l)'
    BY <1>7, <2>11, <2>12, <2>13, <2>14 DEF Matches, Standing
  <2>. QED
    BY <2>15
<1>. QED
  BY <1>6, <1>8

LEMMA GroupLeft ==
  ASSUME TypeOK, Left, handleYieldInstantActionGroup
  PROVE  Left'
<1>. DEFINE e == Head(inbox)
<1>1. /\ inbox # <<>> /\ inbox' = Tail(inbox) /\ e.kind = "group"
      /\ UNCHANGED <<latches, msgs, navs, om>>
  BY DEF handleYieldInstantActionGroup, Takes
<1>2. ~Owed /\ ~Owed'
  <2>1. ~Owed'
    BY <1>1, Behind
  <2>. QED
    BY <1>1, <2>1 DEF Owed
<1>3. CASE UNCHANGED <<sched, events>>
  <2>1. /\ OneOrder' /\ IdleLast' /\ Staged' /\ SaidLast' /\ IdleIsEmpty' /\ ReplacesAtRest'
        /\ FailsWhenCanceled' /\ (Doomed <=> Doomed') /\ (Canceling' => Canceling)
        /\ Kept(events, events')
    BY <1>1, <1>3, QuietTaken
  <2>2. GoalsMatch'
    BY <1>1, <1>2, <1>3, <2>1, GoalsKept DEF Left
  <2>3. Waits' = Waits
    BY <1>1 DEF Waits
  <2>4. WaitsMatch'
    BY <1>1, <1>3, <2>1, <2>3, TakenCares
  <2>5. CancelHasLatch'
    <3>1. Hollow => Hollow'
      BY <1>1, <2>3, HollowTaken
    <3>. QED
      BY <1>1, <2>1, <3>1 DEF Left, CancelHasLatch
  <2>. QED
    BY <2>1, <2>2, <2>4, <2>5 DEF Left
<1>4. CASE Work(<<>>, {e.action})
  <2>1. {e.action} \in SUBSET Action /\ <<>> \in Seq(PlaceType)
    <3>1. e \in InboxType
      BY <1>1, InterpreterAlone
    <3>. QED
      BY <1>1, <3>1, InboxTaken, MessagesAssumption
  <2>2. sched'.goals = sched.goals \o <<>> /\ (Doomed => Doomed') /\ (GoalsMatch' => Left')
    <3>. DEFINE A == {e.action}
    <3>. HIDE DEF A
    <3>1. Head(inbox).kind \in {"done", "group"} /\ Head(inbox).kind # "done"
      BY <1>1
    <3>. QED
      BY <1>1, <1>4, <2>1, <3>1, WorkLeft DEF A
  <2>3. sched'.goals = sched.goals
    <3>1. sched.goals \in Seq(PlaceType)
      BY SchedulerFields DEF TypeOK
    <3>. QED
      BY <2>2, <3>1
  <2>4. GoalsMatch'
    BY <1>1, <1>2, <2>2, <2>3, GoalsKept DEF Left
  <2>. QED
    BY <2>2, <2>4
<1>. QED
  BY <1>3, <1>4 DEF handleYieldInstantActionGroup


LEMMA ControlLeft ==
  ASSUME TypeOK, Left, Live, Live', handleOrderControl
  PROVE  Left'
<1>. DEFINE e == Head(inbox)
            G == IF sched.goals = <<>> THEN sched.goals ELSE <<Head(sched.goals)>>
<1>1. /\ inbox # <<>> /\ inbox' = Tail(inbox) /\ e.kind = "cancel"
      /\ UNCHANGED <<latches, msgs, navs, om>>
  BY DEF handleOrderControl, Takes
<1>2. /\ \A i \in DOMAIN inbox' : inbox'[i].kind \in {"group", "cancel"}
      /\ \A i \in DOMAIN inbox : inbox[i].kind # "graph"
      /\ ~Owed /\ ~Owed'
  <2>1. ~Owed
    BY <1>1 DEF Owed
  <2>. QED
    BY <1>1, <2>1, Behind
<1>3. /\ \A i \in DOMAIN msgs : msgs[i].kind \notin OrderKinds
      /\ OneOrder' /\ IdleLast' /\ Staged'
      /\ Head(inbox) = inbox[1]
      /\ \A i \in DOMAIN inbox' : \E j \in DOMAIN inbox : inbox'[i] = inbox[j]
  BY <1>1, InterpreterAlone
<1>4. Canceling
  <2>1. 1 \in DOMAIN inbox
    BY <1>1, QueueTaken DEF TypeOK
  <2>. QED
    BY <1>1, <1>3, <2>1 DEF Canceling
<1>5. Waits' = Waits /\ (Hollow => Hollow')
  <2>1. Waits' = Waits
    BY <1>1 DEF Waits
  <2>. QED
    BY <1>1, <2>1, HollowTaken
<1>6. ReplacesAtRest' /\ CancelHasLatch'
  <2>1. ReplacesAtRest'
    BY <1>1, <1>2, <1>3 DEF ReplacesAtRest, OrderKinds
  <2>. QED
    BY <1>1, <1>4, <1>5, <2>1 DEF Left, CancelHasLatch
<1>7. \A st \in OrderStates : /\ OrderStatus(st) \in EventType /\ OrderStatus(st).kind = "status"
                              /\ OrderStatus(st).status = st
  BY EventPut DEF OrderStatus
<1>8. CASE sched.said = "idle"
  <2>. DEFINE n == OrderStatus("idle")
  <2>1. n \in EventType /\ n.kind = "status" /\ n.status = "idle"
    BY <1>7 DEF OrderStates
  <2>2. events' = Append(events, n) /\ sched' = sched
    BY <1>8 DEF handleOrderControl
  <2>. HIDE DEF n
  <2>3. SaidLast' /\ IdleIsEmpty' /\ FailsWhenCanceled'
    <3>1. SaidLast'
      BY <1>1, <1>8, <2>1, <2>2, SaidPut DEF Left
    <3>. QED
      BY <1>1, <2>2, <3>1 DEF Left, IdleIsEmpty, FailsWhenCanceled
  <2>4. Kept(events, events')
    <3>1. events \in Seq(EventType)
      BY DEF TypeOK
    <3>2. \A i \in DOMAIN events : i \in DOMAIN events' /\ events'[i] = events[i]
      BY ONLY <2>1, <2>2, <3>1, Joins
    <3>. QED
      BY <3>2 DEF Kept
  <2>5. Doomed => Doomed'
    <3>1. (\E i \in DOMAIN events : IdleNotice(events[i]))
            => \E i \in DOMAIN events' : IdleNotice(events'[i])
      BY <2>4 DEF Kept
    <3>. QED
      BY <1>1, <2>2, <3>1 DEF Doomed, IdleNotice
  <2>6. GoalsMatch'
    BY <1>1, <1>2, <2>2, <2>5, GoalsKept DEF Left
  <2>7. WaitsMatch'
    BY <1>1, <1>5, <2>2, <2>4, <2>5, TakenCares
  <2>. QED
    BY <1>3, <1>6, <2>3, <2>6, <2>7 DEF Left
<1>9. CASE sched.said = "active"
  <2>. DEFINE n == OrderStatus("canceling")
  <2>1. n \in EventType /\ n.kind = "status" /\ n.status = "canceling"
    BY <1>7 DEF OrderStates
  <2>2. /\ events' = Append(events, n)
        /\ sched' = [sched EXCEPT !.goals = G, !.tasks = {}, !.said = "canceling"]
    BY <1>9 DEF handleOrderControl
  <2>3. sched'.said = "canceling"
    <3>1. sched \in SchedulerType
      BY DEF TypeOK
    <3>. HIDE DEF G
    <3>. QED
      BY <2>2, <3>1 DEF SchedulerType
  <2>. HIDE DEF n, G
  <2>4. SaidLast' /\ IdleIsEmpty' /\ FailsWhenCanceled'
    <3>1. SaidLast'
      BY <1>1, <2>1, <2>2, <2>3, SaidPut DEF Left
    <3>. QED
      BY <1>1, <1>9, <2>3, <3>1 DEF Left, IdleIsEmpty, FailsWhenCanceled
  <2>5. Doomed' \/ (~HasGraph' /\ Waits' = {})
    <3>1. CASE latches > 0
      BY <1>1, <2>3, <3>1 DEF Doomed
    <3>2. CASE latches = 0
      BY <1>1, <1>2, <1>4, <1>5, <3>2 DEF Left, CancelHasLatch, Hollow, HasGraph
    <3>3. latches > 0 \/ latches = 0
      BY DEF TypeOK
    <3>. QED
      BY <3>1, <3>2, <3>3
  <2>. QED
    BY <1>3, <1>6, <2>4, <2>5 DEF Left, GoalsMatch, WaitsMatch, Cared
<1>10. sched.said \in {"idle", "active"}
  BY DEF handleOrderControl, InterpreterThrows, Live, Thread
<1>. QED
  BY <1>8, <1>9, <1>10

LEMMA InterpreterLeft ==
  ASSUME TypeOK, Left, Live, Live', InterpreterThread
  PROVE  Left'
  BY ClearLeft, NewLeft, ReplacementLeft, ExtensionLeft, DoneLeft, GroupLeft, ControlLeft
    DEF InterpreterThread

-------------------------------------------------------------------------------
(* What the AGV and the navigation status thread do to what is left *)

LEMMA NavigationKeeps ==
  ASSUME Left, UNCHANGED <<latches, msgs, inbox, events>>,
         om'.id = om.id, om'.update = om.update, om'.status = om.status,
         sched'.said = sched.said,
         IdleIsEmpty', GoalsMatch', WaitsMatch', FailsWhenCanceled', Hollow => Hollow'
  PROVE  Left'
<1>1. OneOrder' /\ Staged'
  BY DEF Left, OneOrder, Duplicate, Staged, Pending
<1>2. SaidLast' /\ IdleLast'
  BY DEF Left, SaidLast, IdleLast, OrderInMsgs, IdleNotice
<1>3. ReplacesAtRest' /\ CancelHasLatch'
  BY DEF Left, ReplacesAtRest, AtRest, Replaces, CancelHasLatch, Canceling
<1>. QED
  BY <1>1, <1>2, <1>3 DEF Left

\* Nothing but the navigation status queue changes.
LEMMA OnlyNavigation ==
  ASSUME Left, UNCHANGED <<om, latches, msgs, inbox, events, sched>>, FailsWhenCanceled'
  PROVE  Left'
<1>1. IdleIsEmpty' /\ (Doomed <=> Doomed') /\ Waits' = Waits
  BY DEF Left, IdleIsEmpty, Doomed, Waits
<1>2. GoalsMatch'
  BY <1>1, GoalsKept DEF Left, Owed
<1>3. WaitsMatch'
  BY <1>1, WaitsKept, SameKept DEF Left
<1>4. Hollow => Hollow'
  BY <1>1 DEF Hollow, HasGraph, Replaces
<1>. QED
  BY <1>1, <1>2, <1>3, <1>4, NavigationKeeps

\* Behind the first event of the navigation no failure is reported.
LEMMA NoFailureBehind ==
  ASSUME TypeOK, Left, navs # <<>>
  PROVE  \A i \in DOMAIN Tail(navs) : Tail(navs)[i].kind # "failed"
<1>1. /\ DOMAIN Tail(navs) = 1..(Len(navs) - 1) /\ Len(navs) \in Nat
      /\ \A i \in DOMAIN Tail(navs) : i + 1 \in DOMAIN navs /\ Tail(navs)[i] = navs[i + 1]
  BY Leaves DEF TypeOK
<1>2. ASSUME NEW i \in DOMAIN Tail(navs) PROVE Tail(navs)[i].kind # "failed"
  <2>1. i + 1 # 1 /\ i + 1 \in DOMAIN navs /\ Tail(navs)[i] = navs[i + 1]
    BY <1>1
  <2>. QED
    BY <2>1 DEF Left, FailsWhenCanceled
<1>. QED
  BY <1>2

LEMMA PositionLeft ==
  ASSUME TypeOK, Left,
         handleNavigationStatusPosition \/ Drive \/ evalPosition \/ setFailed \/ UNCHANGED vars
  PROVE  Left'
<1>1. UNCHANGED <<om, latches, msgs, inbox, events, sched>>
  BY DEF handleNavigationStatusPosition, TakesStatus, Drive, evalPosition, setFailed, Reported, vars
<1>2. navs \in Seq(NavType)
  BY DEF TypeOK
<1>3. FailsWhenCanceled'
  <2>1. CASE navs' = navs
    BY <1>1, <2>1 DEF Left, FailsWhenCanceled
  <2>2. CASE handleNavigationStatusPosition
    <3>. DEFINE n == NodeReached(CurrentGoal(om.graph))
    <3>1. navs # <<>> /\ navs' \in {Tail(navs), Append(Tail(navs), n)}
      BY <2>2 DEF handleNavigationStatusPosition, TakesStatus
    <3>2. n.kind = "reached"
      BY DEF NodeReached
    <3>. HIDE DEF n
    <3>3. \A i \in DOMAIN Tail(navs) : Tail(navs)[i].kind # "failed"
      BY <3>1, NoFailureBehind
    <3>4. Tail(navs) \in Seq(NavType)
      BY <1>2, <3>1, QueueTaken
    <3>5. \A i \in DOMAIN navs' : navs'[i].kind # "failed"
      <4>1. CASE navs' = Tail(navs)
        BY <3>3, <4>1
      <4>2. CASE navs' = Append(Tail(navs), n)
        <5>. DEFINE t == Tail(navs)
        <5>. HIDE DEF t
        <5>1. t \in Seq(NavType) /\ navs' = Append(t, n)
          BY <3>4, <4>2 DEF t
        <5>2. \A i \in DOMAIN navs' : (i \in DOMAIN t /\ navs'[i] = t[i]) \/ navs'[i] = n
          BY ONLY <5>1
        <5>. QED
          BY <3>2, <3>3, <5>2 DEF t
      <4>. QED
        BY <3>1, <4>1, <4>2
    <3>. QED
      BY <3>5 DEF FailsWhenCanceled
  <2>3. CASE evalPosition
    <3>1. navs' = Append(navs, Position) /\ Position.kind = "position"
      BY <2>3 DEF evalPosition, Reported, Position
    <3>. DEFINE n == Position
    <3>. HIDE DEF n
    <3>2. navs' = Append(navs, n)
      BY <3>1 DEF n
    <3>3. \A i \in DOMAIN navs' : (i \in DOMAIN navs /\ navs'[i] = navs[i]) \/ navs'[i] = n
      BY ONLY <1>2, <3>2
    <3>. QED
      BY <1>1, <3>1, <3>3 DEF Left, FailsWhenCanceled, n
  <2>4. CASE setFailed
    <3>1. navs' = <<NavigationFailed>> /\ sched.said = "canceling" /\ sched.goals # <<>>
      BY <2>4 DEF setFailed, Reported
    <3>. QED
      BY <1>1, <3>1 DEF FailsWhenCanceled
  <2>5. Drive \/ UNCHANGED vars => navs' = navs
    BY DEF Drive, vars
  <2>. QED
    BY <2>1, <2>2, <2>3, <2>4, <2>5
<1>. QED
  BY <1>1, <1>3, OnlyNavigation


\* A node is reached: the scheduler takes its goal, and the graph goes on from there.
LEMMA NodeLeft ==
  ASSUME TypeOK, Left, handleNavigationNode
  PROVE  Left'
<1>. DEFINE s == Head(navs).seq
            q == sched.goals
<1>1. /\ navs # <<>> /\ navs' = Tail(navs)
      /\ UNCHANGED <<latches, msgs, inbox, events>>
  BY DEF handleNavigationNode, TakesStatus
<1>2. FailsWhenCanceled'
  BY <1>1, NoFailureBehind DEF FailsWhenCanceled
<1>3. CASE q = <<>> \/ Head(q).seq # s
  <2>1. UNCHANGED <<om, sched>>
    BY <1>3 DEF handleNavigationNode
  <2>. QED
    BY <1>1, <1>2, <2>1, OnlyNavigation
<1>4. CASE q # <<>> /\ Head(q).seq = s
  <2>1. /\ sched' = [sched EXCEPT !.goals = Tail(q)]
        /\ om' = IF HasGraph /\ CanStandOn(om.graph, s) THEN Recorded(s) ELSE om
    BY <1>4 DEF handleNavigationNode
  <2>2. sched \in SchedulerType /\ om \in OrderManagerType /\ q \in Seq(PlaceType)
    BY SchedulerFields DEF TypeOK
  <2>. HIDE DEF s, q
  <2>3. /\ sched'.goals = Tail(q) /\ sched'.said = sched.said /\ sched'.tasks = sched.tasks
    BY <2>1, <2>2 DEF SchedulerType
  <2>4. /\ om'.id = om.id /\ om'.update = om.update /\ om'.status = om.status
        /\ om'.states = om.states
        /\ HasGraph /\ CanStandOn(om.graph, s) => om'.graph = Trim(StandOn(om.graph, s))
        /\ ~HasGraph => om'.graph = om.graph
        /\ HasGraph' => HasGraph
    <3>1. CASE HasGraph /\ CanStandOn(om.graph, s)
      <4>1. om' = [om EXCEPT !.graph = Trim(StandOn(om.graph, s)), !.last = s]
        BY <2>1, <3>1 DEF Recorded
      <4>. QED
        BY <2>2, <3>1, <4>1 DEF OrderManagerType
    <3>2. CASE ~(HasGraph /\ CanStandOn(om.graph, s))
      BY <2>1, <3>2 DEF HasGraph
    <3>. QED
      BY <3>1, <3>2
  <2>5. Waits' = Waits /\ (Doomed <=> Doomed') /\ (Owed <=> Owed')
    BY <1>1, <2>3, <2>4 DEF Waits, Doomed, Owed
  <2>6. IdleIsEmpty'
    <3>1. sched.said # "idle"
      BY <1>4 DEF Left, IdleIsEmpty, q
    <3>. QED
      BY <2>3, <3>1 DEF IdleIsEmpty
  <2>7. WaitsMatch'
    BY <1>1, <2>3, <2>5, WaitsKept, SameKept DEF Left
  <2>8. Hollow => Hollow'
    BY <1>1, <2>4, <2>5 DEF Hollow, HasGraph, Replaces
  <2>9. GoalsMatch'
    <3>. SUFFICES ASSUME HasGraph', ~Doomed'
                  PROVE  \E a, b, l : Matches(om.graph, sched.goals, a, b, l)'
      BY DEF GoalsMatch
    <3>1. HasGraph /\ ~Doomed
      BY <2>4, <2>5
    <3>2. PICK a, b, l : Matches(om.graph, q, a, b, l)
      BY <3>1 DEF Left, GoalsMatch, q
    <3>3. /\ Standing(om.graph, a, b, l) /\ a + 2 * Len(q) <= b
          /\ \A i \in DOMAIN q : q[i].seq = a + 2 * i
          /\ a \in Nat /\ b \in Nat /\ IsNode(a)
      BY <3>2 DEF Matches, Standing
    <3>4. /\ DOMAIN Tail(q) = 1..(Len(q) - 1) /\ Len(q) \in Nat \ {0}
          /\ \A i \in DOMAIN Tail(q) : i + 1 \in DOMAIN q /\ Tail(q)[i] = q[i + 1]
          /\ Head(q) = q[1] /\ 1 \in DOMAIN q /\ Len(Tail(q)) = Len(q) - 1
      BY <1>4, <2>2, Leaves
    <3>5. s = a + 2
      BY <1>4, <3>3, <3>4
    <3>6. CanStandOn(om.graph, s)
      <4>1. s \in a..b
        BY <3>3, <3>4, <3>5
      <4>2. IsNode(s)
        BY <3>3, <3>5 DEF IsNode
      <4>. QED
        BY <3>3, <4>1, <4>2, StandingFacts
    <3>. DEFINE c == a + 2
    <3>7. Standing(om'.graph, c, b, l)
      BY <2>4, <3>1, <3>3, <3>5, <3>6, TrimStands
    <3>8. ASSUME NEW i \in DOMAIN sched'.goals PROVE sched'.goals[i].seq = c + 2 * i
      <4>1. i \in 1..(Len(q) - 1) /\ i + 1 \in DOMAIN q /\ sched'.goals[i] = q[i + 1]
        BY <2>3, <3>4
      <4>2. sched'.goals[i].seq = a + 2 * (i + 1)
        BY <3>3, <4>1
      <4>. QED
        BY <3>3, <3>4, <4>1, <4>2
    <3>9. c + 2 * Len(sched'.goals) = a + 2 * Len(q)
      BY <2>3, <3>3, <3>4
    <3>. HIDE DEF c
    <3>10. IF Owed
           THEN \E f, k \in Nat :
                  /\ f \in {a + 2 * Len(q), a + 2 * Len(q) + 1} /\ f <= b /\ f <= k
                  /\ SeqIds(Messages[Head(inbox).name]) = f..k
                  /\ Released(Parts(Messages[Head(inbox).name])) = f..b
           ELSE a + 2 * Len(q) = b
      BY <3>2 DEF Matches
    <3>11. Matches(om.graph, sched.goals, c, b, l)'
      BY <1>1, <2>5, <3>3, <3>7, <3>8, <3>9, <3>10 DEF Matches
    <3>. QED
      BY <3>11
  <2>. QED
    BY <1>1, <1>2, <2>3, <2>4, <2>6, <2>7, <2>8, <2>9, NavigationKeeps
<1>. QED
  BY <1>3, <1>4

\* The drive has failed: what a latch does not let go of was of no order any more.
LEMMA FailedLeft ==
  ASSUME TypeOK, Left, handleNavigationControl
  PROVE  Left'
<1>1. /\ navs # <<>> /\ navs' = Tail(navs) /\ Head(navs).kind = "failed"
      /\ UNCHANGED <<om, latches, msgs, inbox, events>>
  BY DEF handleNavigationControl, TakesStatus
<1>2. FailsWhenCanceled'
  BY <1>1, NoFailureBehind DEF FailsWhenCanceled
<1>3. sched.said = "canceling" /\ sched.goals # <<>>
  <2>1. Head(navs) = navs[1] /\ 1 \in DOMAIN navs
    BY <1>1, QueueTaken DEF TypeOK
  <2>. QED
    BY <1>1, <2>1 DEF Left, FailsWhenCanceled
<1>4. sched'.said = "canceling"
  <2>1. sched \in SchedulerType
    BY DEF TypeOK
  <2>2. sched' = [sched EXCEPT !.goals = <<>>, !.tasks = {}]
    BY <1>3 DEF handleNavigationControl
  <2>. QED
    BY <1>3, <2>1, <2>2 DEF SchedulerType
<1>5. IdleIsEmpty'
  BY <1>4 DEF IdleIsEmpty
<1>6. Waits' = Waits /\ (Hollow => Hollow')
  BY <1>1 DEF Waits, Hollow, HasGraph, Replaces
<1>7. GoalsMatch' /\ WaitsMatch'
  <2>1. CASE latches > 0
    <3>1. Doomed'
      BY <1>1, <1>4, <2>1 DEF Doomed
    <3>. QED
      BY <3>1 DEF GoalsMatch, WaitsMatch, Cared
  <2>2. CASE latches = 0
    <3>1. Hollow
      BY <1>3, <2>2 DEF Left, CancelHasLatch, Canceling
    <3>2. GoalsMatch'
      BY <1>1, <3>1 DEF Hollow, GoalsMatch, HasGraph
    <3>3. ASSUME NEW a \in Waits PROVE Cared(a)'
      <4>1. PICK i \in DOMAIN inbox : inbox[i].kind = "graph" /\ a \in Messages[inbox[i].name].actions
        BY <3>1 DEF Hollow
      <4>2. PICK n : \E p \in 0..4 : Pending(n, p, inbox)
        BY DEF Left, Staged
      <4>3. PICK p \in 0..4 : Pending(n, p, inbox)
        BY <4>2
      <4>4. inbox \in Seq(InboxType) /\ DOMAIN inbox = 1..Len(inbox) /\ Len(inbox) \in Nat
        BY DEF TypeOK
      <4>5. i = p - 1 /\ inbox[i].name = n
        BY <4>1, <4>3, <4>4, PendingIs
      <4>6. p > 0 /\ p \in DOMAIN inbox
        BY <4>3, <4>4, <4>5 DEF Pending
      <4>7. inbox[p] = [kind |-> "done", name |-> n]
        BY <4>3, <4>6 DEF Pending
      <4>. QED
        BY <1>1, <4>1, <4>5, <4>6, <4>7 DEF Cared
    <3>. QED
      BY <1>6, <3>2, <3>3 DEF WaitsMatch
  <2>3. latches > 0 \/ latches = 0
    BY DEF TypeOK
  <2>. QED
    BY <2>1, <2>2, <2>3
<1>. QED
  BY <1>1, <1>2, <1>3, <1>4, <1>5, <1>6, <1>7, NavigationKeeps

-------------------------------------------------------------------------------
(* What is left is told *)

LEMMA LeftInit == Init => Left
<1>. SUFFICES ASSUME Init PROVE Left
  OBVIOUS
<1>1. /\ msgs = <<>> /\ inbox = <<>> /\ events = <<>> /\ navs = <<>> /\ latches = 0
      /\ om.status = "idle" /\ om.states = <<>> /\ ~HasGraph
      /\ sched.said = "idle" /\ sched.goals = <<>> /\ sched.tasks = {} /\ sched.begun = {}
  BY DEF Init, HasGraph
<1>2. OneOrder /\ IdleLast /\ SaidLast /\ IdleIsEmpty /\ FailsWhenCanceled /\ ReplacesAtRest
  BY <1>1 DEF OneOrder, IdleLast, OrderInMsgs, SaidLast, IdleIsEmpty, FailsWhenCanceled,
    ReplacesAtRest
<1>3. Staged
  <2>1. \A n : Pending(n, 0, inbox)
    BY <1>1 DEF Pending
  <2>. QED
    BY <2>1 DEF Staged
<1>4. Waits = {}
  BY <1>1 DEF Waits
<1>5. CancelHasLatch /\ GoalsMatch /\ WaitsMatch
  BY <1>1, <1>4 DEF CancelHasLatch, Canceling, GoalsMatch, WaitsMatch
<1>. QED
  BY <1>2, <1>3, <1>5 DEF Left

\* No thread comes back.
LEMMA ThreadsEnd == TypeOK /\ [Next]_vars => (Live' => Live)
<1>. SUFFICES ASSUME TypeOK, [Next]_vars PROVE alive' \subseteq alive
  BY DEF TypeOK, Live
<1>1. CASE UNCHANGED vars
  BY <1>1 DEF vars
<1>2. CASE (\E n \in DOMAIN Messages : ReceiveOrder(n)) \/ (\E a \in Instants : ReceiveInstant(a))
             \/ ReceiveCancel
  BY <1>2 DEF ReceiveOrder, ReceiveInstant, ReceiveCancel, Receive
<1>3. CASE MessageThread
  BY <1>3 DEF MessageThread, handleOrderMessage, handleValidateOrder,
    handleValidOrder, handleInstantActionsMessage, handleValidInstantActions,
    handleCancelMessage, handleValidCancel
<1>4. CASE InterpreterThread
  BY <1>4 DEF InterpreterThread, handleClearActions, handleNewActionEvent,
    handleGraphReplacementEvent, handleGraphExtensionEvent, handleInterpreterDone,
    handleYieldInstantActionGroup, handleOrderControl, InterpreterThrows
<1>5. CASE OrderThread
  BY <1>5 DEF OrderThread, handleOrderActionStatusChanged, handleOrderStatus
<1>6. CASE NavigationThread
  BY <1>6 DEF NavigationThread, handleNavigationStatusPosition, handleNavigationNode,
    handleNavigationControl, TakesStatus
<1>7. CASE (\E a \in Action : BeginAction(a) \/ EndAction(a)) \/ BecomeIdle
  BY <1>7 DEF BeginAction, EndAction, BecomeIdle, Reports
<1>8. CASE Drive \/ evalPosition \/ setFailed
  BY <1>8 DEF Drive, evalPosition, setFailed, Reported
<1>. QED
  BY <1>1, <1>2, <1>3, <1>4, <1>5, <1>6, <1>7, <1>8 DEF Next

LEMMA LeftNext ==
  ASSUME Patient, TypeOK, Live => Left, [Next]_vars
  PROVE  Live' => Left'
<1>. SUFFICES ASSUME Live' PROVE Left'
  OBVIOUS
<1>1. Live /\ Left
  BY ThreadsEnd
<1>2. CASE (\E n \in DOMAIN Messages : ReceiveOrder(n)) \/ (\E a \in Instants : ReceiveInstant(a))
             \/ ReceiveCancel
  BY <1>1, <1>2, ReceiveLeft
<1>3. CASE MessageThread
  BY <1>1, <1>3, MessageSteps, MessagesLeft
<1>4. CASE InterpreterThread
  BY <1>1, <1>4, InterpreterLeft
<1>5. CASE OrderThread
  BY <1>1, <1>5, ActionReportLeft, StatusReportLeft DEF OrderThread
<1>6. CASE handleNavigationNode
  BY <1>1, <1>6, NodeLeft
<1>7. CASE handleNavigationControl
  BY <1>1, <1>7, FailedLeft
<1>8. CASE (\E a \in Action : BeginAction(a) \/ EndAction(a)) \/ BecomeIdle
  BY <1>1, <1>8, SchedulerLeft
<1>9. CASE handleNavigationStatusPosition \/ Drive \/ evalPosition \/ setFailed \/ UNCHANGED vars
  BY <1>1, <1>9, PositionLeft
<1>. QED
  BY <1>2, <1>3, <1>4, <1>5, <1>6, <1>7, <1>8, <1>9 DEF Next, NavigationThread

\* state_updater.cpp: while the master control sends an order only when the one before has
\* been handled, the state tells it what is left whenever nothing is on its way: the nodes
\* that the scheduler has yet to reach, and actions that wait only where the scheduler has
\* yet to begin them, over all cancels and updates.
THEOREM WhatIsLeftIsTold ==
  ASSUME Patient
  PROVE  Spec => []StateIsWhatIsLeft
<1>. DEFINE IInv == TypeOK /\ (Live => Left)
<1>1. Init => IInv
  BY TypeInit, LeftInit
<1>2. IInv /\ [Next]_vars => IInv'
  BY TypeNext, LeftNext
<1>3. IInv => StateIsWhatIsLeft
  <2>. SUFFICES ASSUME IInv, Quiet
                PROVE  /\ HasGraph =>
                            {s \in DOMAIN Dump(om.graph) : IsNode(s) /\ Dump(om.graph)[s]}
                              = {p.seq : p \in ToSet(sched.goals)}
                       /\ Waits \subseteq sched.tasks
    BY DEF StateIsWhatIsLeft, Waits
  <2>1. Left /\ ~Doomed /\ ~Owed /\ inbox = <<>> /\ events = <<>>
    BY DEF Quiet, Live, Doomed, Owed
  <2>2. Waits \subseteq sched.tasks
    BY <2>1 DEF Left, WaitsMatch, Cared
  <2>3. ASSUME HasGraph
        PROVE  {s \in DOMAIN Dump(om.graph) : IsNode(s) /\ Dump(om.graph)[s]}
                 = {p.seq : p \in ToSet(sched.goals)}
    <3>. DEFINE q == sched.goals
                g == om.graph
    <3>1. PICK a, b, l : Matches(g, q, a, b, l)
      BY <2>1, <2>3 DEF Left, GoalsMatch
    <3>2. /\ Standing(g, a, b, l) /\ a + 2 * Len(q) = b
          /\ \A i \in DOMAIN q : q[i].seq = a + 2 * i
          /\ a \in Nat /\ b \in Nat /\ l \in Nat /\ b <= l /\ IsNode(a)
      BY <2>1, <3>1 DEF Matches, Standing
    <3>3. q \in Seq(PlaceType) /\ DOMAIN q = 1..Len(q) /\ Len(q) \in Nat
      BY SchedulerFields DEF TypeOK
    <3>4. /\ DOMAIN Dump(g) = (a..l) \ {a}
          /\ \A s \in (a..l) \ {a} : Dump(g)[s] <=> s <= b
      BY <3>2, StandingFacts DEF Dump
    <3>. HIDE DEF q, g
    <3>5. ASSUME NEW i \in DOMAIN q
          PROVE  /\ q[i].seq \in DOMAIN Dump(g) /\ IsNode(q[i].seq) /\ Dump(g)[q[i].seq]
      <4>1. q[i].seq \in (a..l) \ {a} /\ q[i].seq <= b
        BY <3>2, <3>3
      <4>2. IsNode(a + 2 * i)
        <5>1. i \in Nat /\ a % 2 = 0
          BY <3>2, <3>3 DEF IsNode
        <5>2. (a + 2 * i) % 2 = 0
          BY <3>2, <5>1
        <5>. QED
          BY <5>2 DEF IsNode
      <4>. QED
        BY <3>2, <3>4, <4>1, <4>2
    <3>6. ASSUME NEW s \in DOMAIN Dump(g), IsNode(s), Dump(g)[s]
          PROVE  \E i \in DOMAIN q : q[i].seq = s
      <4>1. s \in Nat /\ s > a /\ s <= b
        BY <3>2, <3>4, <3>6
      <4>2. PICK i \in Nat : a = 2 * i
        BY <3>2 DEF IsNode
      <4>3. PICK j \in Nat : s = 2 * j
        BY <3>6, <4>1 DEF IsNode
      <4>4. j - i \in 1..Len(q) /\ s = a + 2 * (j - i)
        BY <3>2, <3>3, <4>1, <4>2, <4>3
      <4>. QED
        BY <3>2, <3>3, <4>4
    <3>7. {s \in DOMAIN Dump(g) : IsNode(s) /\ Dump(g)[s]} = {p.seq : p \in ToSet(q)}
      BY <3>5, <3>6 DEF ToSet
    <3>. QED
      BY <3>7 DEF q, g
  <2>. QED
    BY <2>2, <2>3
<1>. QED
  BY <1>1, <1>2, <1>3, PTL DEF Spec
===============================================================================
