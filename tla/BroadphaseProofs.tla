-------------------------- MODULE BroadphaseProofs --------------------------
(* Proofs about Broadphase, for every fan-out, every set of boxes and probes,
   and every code. *)
EXTENDS Broadphase, FiniteSetTheorems, SequenceTheorems, WellFoundedInduction, TLAPS

USE FanAssumption

-----------------------------------------------------------------------------
(* Least and greatest *)

(* The order of the natural numbers, as a relation, is well-founded. *)
LEMMA LessIsWellFounded ==
  \E less : /\ IsWellFoundedOn(less, Nat)
            /\ \A x, y \in Nat : <<x, y>> \in less <=> x < y
<1>1. \A x, y \in Nat : <<x, y>> \in OpToRel(<, Nat) <=> x < y
  BY DEF OpToRel
<1> QED BY <1>1, NatLessThanWellFounded, Zenon

(* A set of natural numbers that is not empty has a least element. *)
LEMMA LeastNumber ==
  ASSUME NEW S \in SUBSET Nat, S # {}
  PROVE  \E x \in S : \A y \in S : ~ y < x
<1>1. PICK less : /\ IsWellFoundedOn(less, Nat)
                  /\ \A x, y \in Nat : <<x, y>> \in less <=> x < y
  BY LessIsWellFounded
<1>2. IsWellFoundedOn(less, Nat) /\ S \subseteq Nat /\ S # {}
  BY <1>1
<1>3. PICK x \in S : \A y \in S : ~ (<<y, x>> \in less)
  BY <1>2, WFMin, Zenon
<1> QED BY <1>1, <1>3

(* A finite set of integers that is not empty has a least element. *)
LEMMA HasLeast ==
  ASSUME NEW S \in SUBSET Int, IsFiniteSet(S), S # {}
  PROVE  \E x \in S : \A y \in S : x <= y
<1> DEFINE Lacks(T) == T # {} /\ ~ \E x \in T : \A y \in T : x <= y
           Sizes == {c \in Nat : \E T \in SUBSET S : Lacks(T) /\ Cardinality(T) = c}
<1> SUFFICES ASSUME Lacks(S) PROVE FALSE
  OBVIOUS
<1>1. Sizes # {}
  <2>1. Cardinality(S) \in Nat
    BY FS_CardinalityType
  <2> QED BY <2>1
<1>2. Sizes \in SUBSET Nat
  OBVIOUS
<1>3. PICK c \in Sizes : \A d \in Sizes : ~ d < c
  <2> HIDE DEF Sizes
  <2> QED BY <1>1, <1>2, LeastNumber
<1>4. PICK T \in SUBSET S : Lacks(T) /\ Cardinality(T) = c
  OBVIOUS
<1>5. PICK x \in T : TRUE
  BY <1>4
<1>6. /\ IsFiniteSet(T) /\ IsFiniteSet(T \ {x})
      /\ Cardinality(T) \in Nat /\ Cardinality(T \ {x}) = Cardinality(T) - 1
      /\ Cardinality(T \ {x}) \in Nat
  BY FS_Subset, FS_RemoveElement, FS_CardinalityType
<1>7. ~ Lacks(T \ {x})
  <2>1. Cardinality(T \ {x}) \notin Sizes
    <3>1. c \in Nat /\ Cardinality(T \ {x}) < c
      BY <1>4, <1>6
    <3> HIDE DEF Sizes
    <3> QED BY <1>2, <1>3, <1>6, <3>1
  <2> QED BY <2>1, <1>6
<1>8. CASE T \ {x} = {}
  BY <1>4, <1>8
<1>9. CASE T \ {x} # {}
  <2>1. PICK m \in T \ {x} : \A y \in T \ {x} : m <= y
    BY <1>7, <1>9
  <2>2. CASE x <= m
    BY <1>4, <2>1, <2>2
  <2>3. CASE m < x
    BY <1>4, <2>1, <2>3
  <2> QED BY <2>2, <2>3
<1> QED BY <1>8, <1>9

(* What Min and Max are, for the values of a function on a finite set. *)
LEMMA LeastValue ==
  ASSUME NEW S, IsFiniteSet(S), S # {}, NEW f \in [S -> Int]
  PROVE  LET T == {f[x] : x \in S}
         IN  /\ Min(T) \in Int /\ \A x \in S : Min(T) <= f[x]
             /\ Max(T) \in Int /\ \A x \in S : Max(T) >= f[x]
<1> DEFINE T == {f[x] : x \in S}
           U == {0 - f[x] : x \in S}
           g == [x \in S |-> 0 - f[x]]
<1>1. IsFiniteSet(T) /\ IsFiniteSet(U)
  <2>1. f \in Surjection(S, T)
    BY DEF Surjection
  <2>2. g \in Surjection(S, U)
    BY DEF Surjection
  <2> QED BY <2>1, <2>2, FS_Surjection
<1>2. T # {} /\ U # {} /\ T \in SUBSET Int /\ U \in SUBSET Int
  OBVIOUS
<1>3. PICK l \in T : \A y \in T : l <= y
  BY <1>1, <1>2, HasLeast
<1>4. PICK m \in U : \A y \in U : m <= y
  BY <1>1, <1>2, HasLeast
<1>5. 0 - m \in T /\ \A y \in T : 0 - m >= y
  <2>1. PICK x \in S : m = 0 - f[x]
    OBVIOUS
  <2>2. ASSUME NEW y \in S PROVE 0 - m >= f[y]
    <3>1. 0 - f[y] \in U /\ f[y] \in Int /\ m \in Int
      BY <1>2
    <3> QED BY <1>4, <3>1
  <2>3. 0 - m = f[x]
    BY <2>1
  <2> QED BY <2>2, <2>3
<1>6. Min(T) \in T /\ \A y \in T : Min(T) <= y
  BY <1>3 DEF Min
<1>7. Max(T) \in T /\ \A y \in T : Max(T) >= y
  BY <1>5 DEF Max
<1> QED BY <1>2, <1>6, <1>7

(* The lowest lane of a mask. *)
LEMMA LowestLane ==
  ASSUME NEW n \in Nat, NEW m \in SUBSET (1..n), m # {}
  PROVE  Min(m) \in m
<1>1. IsFiniteSet(1..n) /\ m \in SUBSET Int
  BY FS_Interval
<1>2. IsFiniteSet(m)
  BY <1>1, FS_Subset
<1>3. PICK l \in m : \A y \in m : l <= y
  BY <1>1, <1>2, HasLeast
<1> QED BY <1>3 DEF Min

-----------------------------------------------------------------------------
(* Sets in order *)

(* How many members of S the relation R puts before each. *)
Ahead(S, R) == [x \in S |-> Cardinality({y \in S : <<y, x>> \in R})]

Orders(R, S) ==
  /\ \A x \in S : <<x, x>> \notin R
  /\ \A x, y, z \in S : <<x, y>> \in R /\ <<y, z>> \in R => <<x, z>> \in R
  /\ \A x, y \in S : x = y \/ <<x, y>> \in R \/ <<y, x>> \in R

(* In a strict order of a finite set each place is that of one member. *)
LEMMA PlacesTaken ==
  ASSUME NEW S, IsFiniteSet(S), NEW R, Orders(R, S)
  PROVE  /\ \A x \in S : Ahead(S, R)[x] \in 0..Cardinality(S) - 1
         /\ \A x, y \in S : Ahead(S, R)[x] = Ahead(S, R)[y] => x = y
         /\ \A k \in 0..Cardinality(S) - 1 : \E x \in S : Ahead(S, R)[x] = k
<1> DEFINE Before(x) == {y \in S : <<y, x>> \in R}
           f == Ahead(S, R)
           n == Cardinality(S)
<1>1. n \in Nat
  BY FS_CardinalityType
<1>2. ASSUME NEW x \in S
      PROVE  /\ IsFiniteSet(Before(x)) /\ Cardinality(Before(x)) \in 0..n - 1
             /\ f[x] = Cardinality(Before(x))
  <2>1. Before(x) \in SUBSET S /\ Before(x) # S
    BY DEF Orders
  <2>2. /\ IsFiniteSet(Before(x)) /\ Cardinality(Before(x)) <= n
        /\ Cardinality(Before(x)) # n
    BY <2>1, FS_Subset
  <2>3. Cardinality(Before(x)) \in Nat
    BY <2>2, FS_CardinalityType
  <2> QED BY <1>1, <2>2, <2>3 DEF Ahead
<1>3. ASSUME NEW x \in S, NEW y \in S, <<x, y>> \in R
      PROVE  f[x] # f[y]
  <2>1. Before(x) \in SUBSET Before(y) /\ x \in Before(y) /\ x \notin Before(x)
    BY <1>3 DEF Orders
  <2>2. Cardinality(Before(x)) # Cardinality(Before(y))
    BY <1>2, <2>1, FS_Subset
  <2> QED BY <1>2, <2>2
<1>4. \A x, y \in S : f[x] = f[y] => x = y
  BY <1>3 DEF Orders
<1>5. f \in Injection(S, 0..n - 1)
  <2>1. f \in [S -> 0..n - 1]
    <3>1. DOMAIN f = S /\ f = [x \in S |-> f[x]]
      BY DEF Ahead
    <3> HIDE DEF f
    <3> QED BY <1>2, <3>1
  <2> HIDE DEF f
  <2> QED BY <1>4, <2>1 DEF Injection, IsInjective
<1>6. IsFiniteSet(0..n - 1) /\ Cardinality(0..n - 1) = n
  BY SMTT(30), <1>1, FS_Interval
<1>7. f \in Surjection(S, 0..n - 1)
  BY <1>5, <1>6, FS_Injection
<1> HIDE DEF f, n
<1>8. \A k \in 0..n - 1 : \E x \in S : f[x] = k
  BY <1>7 DEF Surjection
<1> QED BY <1>2, <1>4, <1>8 DEF f, n

(* The items in the order of the sort: each of them once. *)
LEMMA SortedPermutes ==
  ASSUME items \in Seq(Box)
  PROVE  /\ Sorted \in [1..Len(items) -> 1..Len(items)]
         /\ \A x, y \in 1..Len(items) : Sorted[x] = Sorted[y] => x = y
         /\ \A i \in 1..Len(items) : \E x \in 1..Len(items) : Sorted[x] = i
<1> DEFINE n == Len(items)
           S == 1..n
           R == {p \in S \X S : Sooner(p[1], p[2])}
           f == Ahead(S, R)
<1>1. /\ n \in Nat /\ DOMAIN items = S /\ IsFiniteSet(S) /\ Cardinality(S) = n
  <2>1. n \in Nat /\ DOMAIN items = S
    OBVIOUS
  <2> HIDE DEF n
  <2> QED BY <2>1, FS_Interval
<1>2. \A x \in S : Code[items[x]] \in Nat
  BY CodeAssumption
<1>3. Orders(R, S)
  <2>1. \A x \in S : ~ Sooner(x, x)
    BY <1>2 DEF Sooner
  <2>2. \A x, y, z \in S : Sooner(x, y) /\ Sooner(y, z) => Sooner(x, z)
    BY <1>2 DEF Sooner
  <2>3. \A x, y \in S : x = y \/ Sooner(x, y) \/ Sooner(y, x)
    BY <1>2 DEF Sooner
  <2>4. \A x, y \in S : <<x, y>> \in R <=> Sooner(x, y)
    OBVIOUS
  <2> HIDE DEF R, S
  <2> QED BY <2>1, <2>2, <2>3, <2>4 DEF Orders
<1>4. /\ \A x \in S : f[x] \in 0..n - 1
      /\ \A x, y \in S : f[x] = f[y] => x = y
      /\ \A k \in 0..n - 1 : \E x \in S : f[x] = k
  <2> HIDE DEF R, S, n
  <2> QED BY SMTT(30), <1>1, <1>3, PlacesTaken
<1>5. [x \in S |-> Cardinality({y \in S : Sooner(y, x)})] = f
  <2>1. \A x \in S : {y \in S : Sooner(y, x)} = {y \in S : <<y, x>> \in R}
    OBVIOUS
  <2> HIDE DEF R, S
  <2> QED BY <2>1 DEF Ahead
<1>6. Sorted = [k \in S |-> CHOOSE x \in S : f[x] = k - 1]
  <2> HIDE DEF f
  <2> QED BY SMTT(30), <1>1, <1>5 DEF Sorted, InOrder
<1> HIDE DEF f, R
<1>7. ASSUME NEW k \in S
      PROVE  Sorted[k] \in S /\ f[Sorted[k]] = k - 1
  <2>1. \E x \in S : f[x] = k - 1
    BY <1>1, <1>4
  <2> QED BY <1>6, <2>1
<1>8. Sorted \in [S -> S]
  BY <1>6, <1>7
<1>9. \A x, y \in S : Sorted[x] = Sorted[y] => x = y
  BY <1>1, <1>7
<1>10. ASSUME NEW i \in S
       PROVE  \E x \in S : Sorted[x] = i
  <2>1. f[i] + 1 \in S /\ f[i] \in Nat
    BY <1>1, <1>4
  <2>2. f[Sorted[f[i] + 1]] = f[i] /\ Sorted[f[i] + 1] \in S
    BY <1>7, <2>1
  <2>3. Sorted[f[i] + 1] = i
    BY <1>4, <2>2
  <2> QED BY <2>1, <2>3
<1> QED BY <1>8, <1>9, <1>10

(* Lanes in ascending order: each of them once. *)
LEMMA LanesInOrder ==
  ASSUME NEW n \in Nat, NEW S \in SUBSET (1..n)
  PROVE  /\ Cardinality(S) \in 0..n
         /\ InOrder(S, <) \in [1..Cardinality(S) -> S]
         /\ \A x, y \in 1..Cardinality(S) : InOrder(S, <)[x] = InOrder(S, <)[y] => x = y
         /\ \A i \in S : \E x \in 1..Cardinality(S) : InOrder(S, <)[x] = i
<1> DEFINE m == Cardinality(S)
           R == {p \in S \X S : p[1] < p[2]}
           f == Ahead(S, R)
           g == [z \in S |-> Cardinality({y \in S : y < z})]
           order == InOrder(S, <)
<1>1. IsFiniteSet(S) /\ m \in 0..n
  <2>1. IsFiniteSet(1..n) /\ Cardinality(1..n) = n
    BY FS_Interval
  <2>2. IsFiniteSet(S) /\ m <= n
    BY <2>1, FS_Subset
  <2> QED BY <2>2, FS_CardinalityType
<1>2. Orders(R, S)
  BY DEF Orders
<1>3. g = f
  <2>1. \A x \in S : {y \in S : y < x} = {y \in S : <<y, x>> \in R}
    OBVIOUS
  <2> HIDE DEF R
  <2> QED BY <2>1 DEF Ahead
<1>4. order = [k \in 1..m |-> CHOOSE x \in S : g[x] = k - 1]
  BY DEF InOrder
<1> HIDE DEF R, g, order
<1>5. /\ \A x \in S : g[x] \in 0..m - 1
      /\ \A x, y \in S : g[x] = g[y] => x = y
      /\ \A k \in 0..m - 1 : \E x \in S : g[x] = k
  <2>1. /\ \A x \in S : Ahead(S, R)[x] \in 0..Cardinality(S) - 1
        /\ \A x, y \in S : Ahead(S, R)[x] = Ahead(S, R)[y] => x = y
        /\ \A k \in 0..Cardinality(S) - 1 : \E x \in S : Ahead(S, R)[x] = k
    <3> DEFINE T == S
    <3>1. IsFiniteSet(T) /\ Orders(R, T) /\ Cardinality(T) \in Nat
      BY <1>1, <1>2
    <3> HIDE DEF T
    <3>2. /\ \A x \in T : Ahead(T, R)[x] \in 0..Cardinality(T) - 1
          /\ \A x, y \in T : Ahead(T, R)[x] = Ahead(T, R)[y] => x = y
          /\ \A k \in 0..Cardinality(T) - 1 : \E x \in T : Ahead(T, R)[x] = k
      BY <3>1, PlacesTaken
    <3> QED BY <3>2 DEF T
  <2> QED BY <1>3, <2>1
<1>6. ASSUME NEW k \in 1..m
      PROVE  order[k] \in S /\ g[order[k]] = k - 1
  <2>1. \E x \in S : g[x] = k - 1
    BY <1>1, <1>5
  <2> QED BY <1>4, <2>1
<1>7. order \in [1..m -> S]
  BY <1>4, <1>6
<1>8. \A x, y \in 1..m : order[x] = order[y] => x = y
  BY <1>1, <1>6
<1>9. ASSUME NEW i \in S
       PROVE  \E x \in 1..m : order[x] = i
  <2>1. g[i] + 1 \in 1..m /\ g[i] \in Nat
    BY <1>1, <1>5
  <2>2. g[order[g[i] + 1]] = g[i] /\ order[g[i] + 1] \in S
    BY <1>6, <2>1
  <2>3. order[g[i] + 1] = i
    BY <1>5, <2>2
  <2> QED BY <2>1, <2>3
<1> QED BY <1>1, <1>7, <1>8, <1>9 DEF order

-----------------------------------------------------------------------------
(* Nodes of Fan lanes *)

(* Multiples of Fan are in the order of their factors. *)
LEMMA FanTimes ==
  ASSUME NEW a \in Int, NEW b \in Int, a <= b
  PROVE  Fan * a <= Fan * b
OBVIOUS

(* Place j of a level is lane k of node x for one x and k. *)
LEMMA LanePlaces ==
  \A x, y \in Nat \ {0} : \A k, m \in 1..Fan :
    (x - 1) * Fan + k = (y - 1) * Fan + m => x = y /\ k = m
<1> SUFFICES ASSUME NEW x \in Nat \ {0}, NEW y \in Nat \ {0},
                    NEW k \in 1..Fan, NEW m \in 1..Fan,
                    (x - 1) * Fan + k = (y - 1) * Fan + m
             PROVE  x = y /\ k = m
  OBVIOUS
<1>1. ~ x < y
  <2> SUFFICES ASSUME x < y PROVE FALSE
    OBVIOUS
  <2>1. x * Fan <= (y - 1) * Fan
    OBVIOUS
  <2>2. x * Fan = (x - 1) * Fan + Fan
    OBVIOUS
  <2> QED BY <2>1, <2>2
<1>2. ~ y < x
  <2> SUFFICES ASSUME y < x PROVE FALSE
    OBVIOUS
  <2>1. y * Fan <= (x - 1) * Fan
    OBVIOUS
  <2>2. y * Fan = (y - 1) * Fan + Fan
    OBVIOUS
  <2> QED BY <2>1, <2>2
<1>3. x = y
  BY <1>1, <1>2
<1> QED BY <1>3

(* The number of nodes that n lanes take. *)
LEMMA NodesFor ==
  ASSUME NEW n \in Nat \ {0}
  PROVE  LET q == (n + Fan - 1) \div Fan
         IN  q \in Nat \ {0} /\ Fan * q <= n + Fan - 1 /\ n <= Fan * q
<1> DEFINE a == n + Fan - 1
           q == a \div Fan
           r == a % Fan
<1>1. a \in Nat /\ q \in Int /\ r \in 0..Fan - 1 /\ a = Fan * q + r
  OBVIOUS
<1> HIDE DEF q, r
<1>2. Fan * q <= a /\ n <= Fan * q
  BY <1>1
<1>3. q >= 1
  <2> SUFFICES ASSUME q <= 0 PROVE FALSE
    BY <1>1
  <2>1. Fan * q <= Fan * 0
    BY <1>1, FanTimes
  <2> QED BY <1>1, <1>2, <2>1
<1> QED BY <1>1, <1>2, <1>3 DEF q

(* Packing puts each lane in one place of one node, and no node is empty or
   has more than Fan. *)
LEMMA PackedGroups ==
  ASSUME NEW L, NEW lanes \in Seq(L), lanes # <<>>
  PROVE  LET P == Packed(lanes)
         IN  /\ P \in Seq(Seq(L)) /\ Len(P) \in Nat \ {0}
             /\ Fan * Len(P) <= Len(lanes) + Fan - 1
             /\ \A x \in 1..Len(P) :
                  /\ Len(P[x]) \in 1..Fan
                  /\ \A k \in 1..Len(P[x]) :
                       /\ (x - 1) * Fan + k \in 1..Len(lanes)
                       /\ P[x][k] = lanes[(x - 1) * Fan + k]
             /\ \A j \in 1..Len(lanes) :
                  \E x \in 1..Len(P), k \in 1..Fan :
                    k \in 1..Len(P[x]) /\ j = (x - 1) * Fan + k
<1> DEFINE n == Len(lanes)
           q == (n + Fan - 1) \div Fan
           P == Packed(lanes)
           width(x) == Min({Fan, n - (x - 1) * Fan})
<1>1. n \in Nat \ {0} /\ q \in Nat \ {0} /\ Fan * q <= n + Fan - 1 /\ n <= Fan * q
  <2>1. n \in Nat \ {0}
    OBVIOUS
  <2> HIDE DEF n
  <2> QED BY <2>1, NodesFor
<1>2. P = [x \in 1..q |-> [k \in 1..width(x) |-> lanes[(x - 1) * Fan + k]]]
  BY DEF Packed
<1> HIDE DEF q, n
<1>3. ASSUME NEW x \in 1..q
      PROVE  /\ width(x) \in 1..Fan /\ width(x) <= n - (x - 1) * Fan
             /\ width(x) = Fan \/ width(x) = n - (x - 1) * Fan
  <2>1. (x - 1) * Fan + Fan <= Fan * q
    BY <1>1
  <2>2. (x - 1) * Fan \in Nat /\ n - (x - 1) * Fan >= 1
    BY <1>1, <2>1
  <2> DEFINE y == (x - 1) * Fan
  <2> HIDE DEF y
  <2>3. Min({Fan, n - y}) = IF Fan <= n - y THEN Fan ELSE n - y
    BY <1>1, <2>2 DEF Min, y
  <2> QED BY <1>1, <2>2, <2>3 DEF y
<1> HIDE DEF width
<1>4. ASSUME NEW x \in 1..q, NEW k \in 1..width(x)
      PROVE  (x - 1) * Fan + k \in 1..n /\ k \in 1..Fan
  <2>1. (x - 1) * Fan \in Nat
    BY <1>1
  <2> QED BY <1>1, <1>3, <2>1
<1>5. ASSUME NEW x \in 1..q
      PROVE  /\ P[x] \in Seq(L) /\ Len(P[x]) = width(x)
             /\ \A k \in 1..width(x) : P[x][k] = lanes[(x - 1) * Fan + k]
  <2>1. P[x] = [k \in 1..width(x) |-> lanes[(x - 1) * Fan + k]]
    BY <1>2
  <2>2. \A k \in 1..width(x) : lanes[(x - 1) * Fan + k] \in L
    BY <1>4 DEF n
  <2>3. P[x] \in [1..width(x) -> L] /\ width(x) \in Nat
    BY <1>3, <2>1, <2>2
  <2>4. \A k \in 1..width(x) : P[x][k] = lanes[(x - 1) * Fan + k]
    BY <2>1
  <2> DEFINE g == P[x]
             w == width(x)
  <2>5. g \in [1..w -> L] /\ w \in Nat
    BY <2>3
  <2> HIDE DEF g, w
  <2>6. g \in Seq(L) /\ Len(g) = w
    BY <2>5
  <2> USE DEF g, w
  <2> QED BY <2>4, <2>6
<1>6. P \in Seq(Seq(L)) /\ Len(P) = q
  <2>1. P \in [1..q -> Seq(L)]
    BY <1>2, <1>5
  <2> HIDE DEF P
  <2> QED BY <1>1, <2>1
<1>7. ASSUME NEW j \in 1..n
      PROVE  \E x \in 1..q, k \in 1..Fan : k \in 1..width(x) /\ j = (x - 1) * Fan + k
  <2>1. PICK p \in Int, r \in 0..Fan - 1 : j - 1 = Fan * p + r
    <3>1. /\ (j - 1) \div Fan \in Int /\ (j - 1) % Fan \in 0..Fan - 1
          /\ j - 1 = Fan * ((j - 1) \div Fan) + ((j - 1) % Fan)
      BY <1>1
    <3> QED BY <3>1
  <2>2. p >= 0
    <3> SUFFICES ASSUME p <= -1 PROVE FALSE
      BY <2>1
    <3>1. Fan * p <= Fan * (-1)
      BY <2>1, FanTimes
    <3> QED BY <2>1, <3>1
  <2>3. p < q
    <3> SUFFICES ASSUME q <= p PROVE FALSE
      BY <1>1, <2>1
    <3>1. Fan * q <= Fan * p
      BY <1>1, <2>1, FanTimes
    <3> QED BY <1>1, <2>1, <3>1
  <2>4. p + 1 \in 1..q /\ r + 1 \in 1..Fan /\ (p + 1 - 1) * Fan = Fan * p
    BY <1>1, <2>1, <2>2, <2>3
  <2>5. r + 1 \in 1..width(p + 1)
    <3>1. /\ width(p + 1) \in 1..Fan
          /\ width(p + 1) = Fan \/ width(p + 1) = n - (p + 1 - 1) * Fan
      BY <1>3, <2>4
    <3> DEFINE w == width(p + 1)
               y == (p + 1 - 1) * Fan
               z == Fan * p
    <3>2. y = z /\ w \in Int /\ j - 1 = z + r
      BY <2>1, <2>4, <3>1
    <3>3. w \in 1..Fan /\ (w = Fan \/ w = n - y) /\ z \in Int
      BY <2>1, <3>1
    <3> HIDE DEF w, y, z
    <3>4. r + 1 \in 1..w
      BY <1>1, <2>1, <3>2, <3>3
    <3> QED BY <3>4 DEF w
  <2>6. j = (p + 1 - 1) * Fan + (r + 1)
    BY <2>1, <2>4
  <2> DEFINE x == p + 1
             k == r + 1
  <2>7. x \in 1..q /\ k \in 1..Fan /\ k \in 1..width(x) /\ j = (x - 1) * Fan + k
    BY <2>4, <2>5, <2>6
  <2> HIDE DEF x, k
  <2> QED BY <2>7
<1> HIDE DEF P
<1>8. \A x \in 1..q : Len(P[x]) \in 1..Fan /\ 1..Len(P[x]) = 1..width(x)
  BY <1>3, <1>5
<1>9. ASSUME NEW x \in 1..q
      PROVE  /\ Len(P[x]) \in 1..Fan
             /\ \A k \in 1..Len(P[x]) : /\ (x - 1) * Fan + k \in 1..n
                                          /\ P[x][k] = lanes[(x - 1) * Fan + k]
  BY <1>4, <1>5, <1>8
<1>10. ASSUME NEW j \in 1..n
       PROVE  \E x \in 1..q, k \in 1..Fan :
                k \in 1..Len(P[x]) /\ j = (x - 1) * Fan + k
  BY <1>7, <1>8
<1> QED BY <1>1, <1>6, <1>9, <1>10 DEF P, n

-----------------------------------------------------------------------------
(* The inductive invariant *)

Interval == [min : Int, max : Int]
Lane == [box : Interval, object : BOOLEAN, id : Nat]
Item == 1..Len(items)

(* The items under a lane, when u[x] are those under node x. *)
Below(u, lane) == IF lane.object THEN {lane.id} ELSE u[lane.id]

Covers(box, i) == box.min <= items[i].min /\ items[i].max <= box.max

(* Node x, of level v[x], parts the items under it among its lanes, and each
   lane's box covers those under the lane. *)
NodeOK(ns, u, v, x) ==
  /\ Len(ns[x]) \in 1..Fan
  /\ \A l \in 1..Len(ns[x]) :
       /\ ns[x][l].object => /\ ns[x][l].id \in Item
                             /\ ns[x][l].box = items[ns[x][l].id]
       /\ ~ ns[x][l].object => /\ ns[x][l].id \in 1..Len(ns)
                               /\ v[ns[x][l].id] = v[x] - 1
       /\ \A i \in Below(u, ns[x][l]) : Covers(ns[x][l].box, i)
  /\ \A l, m \in 1..Len(ns[x]) :
       l # m => Below(u, ns[x][l]) \cap Below(u, ns[x][m]) = {}
  /\ \A i \in Item : i \in u[x] <=> \E l \in 1..Len(ns[x]) : i \in Below(u, ns[x][l])

Tree(ns, u, v) ==
  /\ u \in [1..Len(ns) -> SUBSET Item] /\ v \in [1..Len(ns) -> Nat \ {0}]
  /\ \A x \in 1..Len(ns) : NodeOK(ns, u, v, x)

(* The nodes of the last level part all the items. *)
Top(ns, lo, hi, h, u, v) ==
  /\ lo < hi /\ hi = Len(ns)
  /\ \A x \in lo + 1..hi : v[x] = h
  /\ \A i \in Item : \E x \in lo + 1..hi : i \in u[x]
  /\ \A x, y \in lo + 1..hi : x # y => u[x] \cap u[y] = {}

(* The items whose hits are left in the mask. *)
Stashed == {nodes[at][l].id : l \in mask}

(* Each item of the answer is returned, in the mask, or under one node of the
   stack, and a node waits no higher than its level allows. *)
Walk(u, v) ==
  /\ stack \in Seq(1..Len(nodes))
  /\ \A x \in 1..Len(stack) : x - 1 <= (Fan - 1) * (height - v[stack[x]])
  /\ \A x, y \in 1..Len(stack) : x # y => u[stack[x]] \cap u[stack[y]] = {}
  /\ \A x \in 1..Len(stack) : u[stack[x]] \cap (yielded \cup Stashed) = {}
  /\ Stashed \cap yielded = {} /\ yielded \cup Stashed \subseteq expected
  /\ \A i \in expected : \/ i \in yielded \cup Stashed
                         \/ \E x \in 1..Len(stack) : i \in u[stack[x]]
  /\ mask # {} => /\ at \in 1..Len(nodes) /\ mask \subseteq 1..Len(nodes[at])
                  /\ \A l \in mask : nodes[at][l].object
  /\ expected = {i \in Item : Overlap(items[i], probe)} /\ ~ again

TypeInv ==
  /\ items \in Seq(Box) /\ itemCap \in Nat \ {0} /\ Len(items) <= itemCap
  /\ nodes \in Seq(Seq(Lane)) /\ level \in Nat \X Nat /\ height \in Nat
  /\ hasTree \in BOOLEAN /\ pc \in {"idle", "pack", "query", "drained"}
  /\ probe \in Probe /\ again \in BOOLEAN
  /\ pc = "pack" => ~ hasTree

(* Each node but those of the last level is a lane of another.  The leaves fit
   in a capacity that is a multiple of the fan-out, and each level over them
   has at most one node that is not full. *)
ArenaInv ==
  /\ level[1] <= level[2] /\ \E c \in Nat : itemCap = Fan * c
  /\ (Fan - 1) * Len(nodes) + (level[2] - level[1])
       <= itemCap + (Fan - 1) * (IF height = 0 THEN 0 ELSE height - 1)

Answered == yielded = {} /\ expected = {} /\ ~ again

TreeInv ==
  hasTree \/ pc = "pack" =>
    \E u, v : /\ Tree(nodes, u, v)
              /\ Top(nodes, level[1], level[2], height, u, v)
              /\ hasTree => level[2] = level[1] + 1
              /\ pc \in {"query", "drained"} => Walk(u, v)

WalkInv ==
  /\ pc \in {"idle", "pack"} => Answered
  /\ pc \in {"query", "drained"} /\ ~ hasTree => Answered /\ stack = <<>> /\ mask = {}
  /\ pc = "drained" => stack = <<>> /\ mask = {}

IInv == TypeInv /\ ArenaInv /\ TreeInv /\ WalkInv

-----------------------------------------------------------------------------
(* Building *)

(* Lanes that part the items, over nodes of level h or over items. *)
Parted(ns, u, v, h, lanes) ==
  /\ \A j \in 1..Len(lanes) :
       /\ lanes[j].object => /\ lanes[j].id \in Item
                             /\ lanes[j].box = items[lanes[j].id]
       /\ ~ lanes[j].object => lanes[j].id \in 1..Len(ns) /\ v[lanes[j].id] = h
       /\ \A i \in Below(u, lanes[j]) : Covers(lanes[j].box, i)
  /\ \A j, m \in 1..Len(lanes) :
       j # m => Below(u, lanes[j]) \cap Below(u, lanes[m]) = {}
  /\ \A i \in Item : \E j \in 1..Len(lanes) : i \in Below(u, lanes[j])

(* A level packed over such lanes parts the items too. *)
LEMMA LevelPacked ==
  ASSUME NEW ns \in Seq(Seq(Lane)), NEW u, NEW v, Tree(ns, u, v), NEW h \in Nat,
         NEW lanes \in Seq(Lane), lanes # <<>>, Parted(ns, u, v, h, lanes)
  PROVE  LET ms == ns \o Packed(lanes)
         IN  /\ ms \in Seq(Seq(Lane))
             /\ \E a, b : Tree(ms, a, b) /\ Top(ms, Len(ns), Len(ms), h + 1, a, b)
<1> DEFINE N == Len(ns)
           P == Packed(lanes)
           q == Len(P)
           ms == ns \o P
           a == [x \in 1..N + q |->
                   IF x <= N THEN u[x]
                   ELSE {i \in Item : \E k \in 1..Len(P[x - N]) : i \in Below(u, P[x - N][k])}]
           b == [x \in 1..N + q |-> IF x <= N THEN v[x] ELSE h + 1]
           pl(x, k) == (x - 1) * Fan + k
<1>1. /\ P \in Seq(Seq(Lane)) /\ q \in Nat \ {0}
      /\ \A x \in 1..q :
           /\ Len(P[x]) \in 1..Fan
           /\ \A k \in 1..Len(P[x]) :
                pl(x, k) \in 1..Len(lanes) /\ P[x][k] = lanes[pl(x, k)]
      /\ \A j \in 1..Len(lanes) :
           \E x \in 1..q, k \in 1..Fan : k \in 1..Len(P[x]) /\ j = pl(x, k)
  BY ZenonT(60), PackedGroups
<1>2. \A x, y \in 1..q, k, m \in 1..Fan : pl(x, k) = pl(y, m) => x = y /\ k = m
  <2>1. 1..q \subseteq Nat \ {0}
    BY <1>1
  <2> HIDE DEF P, q
  <2> QED BY <2>1, LanePlaces, Zenon
<1> HIDE DEF P, pl
<1>3. /\ N \in Nat /\ ms \in Seq(Seq(Lane)) /\ Len(ms) = N + q
      /\ \A x \in 1..N : ms[x] = ns[x]
      /\ \A y \in 1..q : ms[N + y] = P[y]
  <2>1. N \in Nat /\ ms \in Seq(Seq(Lane)) /\ Len(ms) = N + q
    BY <1>1
  <2>2. ASSUME NEW x \in 1..N PROVE ms[x] = ns[x]
    BY <1>1, <2>1
  <2>3. ASSUME NEW y \in 1..q PROVE ms[N + y] = P[y]
    BY <1>1, <2>1
  <2> QED BY <2>1, <2>2, <2>3
<1> HIDE DEF N, q, ms
<1>4. /\ a \in [1..N + q -> SUBSET Item] /\ b \in [1..N + q -> Nat \ {0}]
      /\ \A x \in 1..N : a[x] = u[x] /\ b[x] = v[x]
      /\ \A y \in 1..q : b[N + y] = h + 1
      /\ \A y \in 1..q, i \in Item :
           i \in a[N + y] <=> \E k \in 1..Len(P[y]) : i \in Below(u, P[y][k])
  <2>1. u \in [1..N -> SUBSET Item] /\ v \in [1..N -> Nat \ {0}]
    BY DEF Tree, N
  <2>2. a \in [1..N + q -> SUBSET Item] /\ b \in [1..N + q -> Nat \ {0}]
    BY <1>1, <1>3, <2>1
  <2>3. \A x \in 1..N : a[x] = u[x] /\ b[x] = v[x]
    BY <1>1, <1>3
  <2>4. ASSUME NEW y \in 1..q
        PROVE  /\ b[N + y] = h + 1
               /\ a[N + y] = {i \in Item : \E k \in 1..Len(P[y]) : i \in Below(u, P[y][k])}
    <3>1. N + y \in 1..N + q /\ ~ N + y <= N /\ (N + y) - N = y
      BY <1>1, <1>3
    <3> QED BY <3>1
  <2>5. \A y \in 1..q : b[N + y] = h + 1
    BY <2>4
  <2>6. \A y \in 1..q, i \in Item :
          i \in a[N + y] <=> \E k \in 1..Len(P[y]) : i \in Below(u, P[y][k])
    <3> SUFFICES ASSUME NEW y \in 1..q, NEW i \in Item
                 PROVE  i \in a[N + y] <=> \E k \in 1..Len(P[y]) : i \in Below(u, P[y][k])
      OBVIOUS
    <3> HIDE DEF a
    <3> QED BY <2>4
  <2> HIDE DEF a, b
  <2> QED BY <2>2, <2>3, <2>5, <2>6
<1> HIDE DEF a, b
<1>5. ASSUME NEW lane, ~ lane.object => lane.id \in 1..N
      PROVE  Below(a, lane) = Below(u, lane)
  BY <1>4, <1>5 DEF Below
<1>6. ASSUME NEW x \in 1..N
      PROVE  NodeOK(ms, a, b, x)
  <2>1. NodeOK(ns, u, v, x) /\ ms[x] = ns[x] /\ b[x] = v[x] /\ a[x] = u[x]
    BY <1>3, <1>4 DEF Tree, N
  <2>2. \A l \in 1..Len(ns[x]) :
          /\ Below(a, ns[x][l]) = Below(u, ns[x][l])
          /\ ~ ns[x][l].object =>
               ns[x][l].id \in 1..N /\ b[ns[x][l].id] = v[ns[x][l].id]
    BY <1>4, <1>5, <2>1 DEF NodeOK, N
  <2>3. 1..N \subseteq 1..Len(ms)
    BY <1>1, <1>3
  <2>4. \A l \in 1..Len(ns[x]) :
          /\ ns[x][l].object => /\ ns[x][l].id \in Item
                                /\ ns[x][l].box = items[ns[x][l].id]
          /\ ~ ns[x][l].object => /\ ns[x][l].id \in 1..Len(ms)
                                  /\ b[ns[x][l].id] = b[x] - 1
          /\ \A i \in Below(a, ns[x][l]) : Covers(ns[x][l].box, i)
    BY <2>1, <2>2, <2>3 DEF NodeOK
  <2>5. \A l, m \in 1..Len(ns[x]) :
          l # m => Below(a, ns[x][l]) \cap Below(a, ns[x][m]) = {}
    BY <2>1, <2>2 DEF NodeOK
  <2>6. \A i \in Item : i \in a[x] <=> \E l \in 1..Len(ns[x]) : i \in Below(a, ns[x][l])
    BY <2>1, <2>2 DEF NodeOK
  <2>7. Len(ns[x]) \in 1..Fan
    BY <2>1 DEF NodeOK
  <2> DEFINE row == ns[x]
  <2>8. ms[x] = row
    BY <2>1
  <2> HIDE DEF row
  <2>9. NodeOK(ms, a, b, x) <=>
          /\ Len(row) \in 1..Fan
          /\ \A l \in 1..Len(row) :
               /\ row[l].object => /\ row[l].id \in Item
                                   /\ row[l].box = items[row[l].id]
               /\ ~ row[l].object => /\ row[l].id \in 1..Len(ms)
                                     /\ b[row[l].id] = b[x] - 1
               /\ \A i \in Below(a, row[l]) : Covers(row[l].box, i)
          /\ \A l, m \in 1..Len(row) :
               l # m => Below(a, row[l]) \cap Below(a, row[m]) = {}
          /\ \A i \in Item : i \in a[x] <=> \E l \in 1..Len(row) : i \in Below(a, row[l])
    BY <2>8, Zenon DEF NodeOK
  <2> USE DEF row
  <2> QED BY <2>4, <2>5, <2>6, <2>7, <2>9, Zenon
<1>7. ASSUME NEW y \in 1..q, NEW k \in 1..Len(P[y])
      PROVE  /\ P[y][k] = lanes[pl(y, k)] /\ pl(y, k) \in 1..Len(lanes)
             /\ P[y][k].object => /\ P[y][k].id \in Item
                                  /\ P[y][k].box = items[P[y][k].id]
             /\ ~ P[y][k].object => P[y][k].id \in 1..N /\ b[P[y][k].id] = h
             /\ \A i \in Below(u, P[y][k]) : Covers(P[y][k].box, i)
             /\ Below(a, P[y][k]) = Below(u, P[y][k])
  <2>1. P[y][k] = lanes[pl(y, k)] /\ pl(y, k) \in 1..Len(lanes)
    BY <1>1
  <2>2. /\ P[y][k].object => /\ P[y][k].id \in Item
                             /\ P[y][k].box = items[P[y][k].id]
        /\ ~ P[y][k].object => P[y][k].id \in 1..N /\ v[P[y][k].id] = h
        /\ \A i \in Below(u, P[y][k]) : Covers(P[y][k].box, i)
    BY <2>1 DEF Parted, N
  <2>3. ~ P[y][k].object => b[P[y][k].id] = h
    BY <1>4, <2>2
  <2> QED BY <1>5, <2>1, <2>2, <2>3
<1>8. ASSUME NEW y \in 1..q, NEW z \in 1..q, NEW k \in 1..Len(P[y]), NEW m \in 1..Len(P[z]),
             y # z \/ k # m
      PROVE  Below(u, P[y][k]) \cap Below(u, P[z][m]) = {}
  <2>1. k \in 1..Fan /\ m \in 1..Fan
    <3>1. Len(P[y]) \in 1..Fan /\ Len(P[z]) \in 1..Fan
      BY <1>1
    <3> QED BY <3>1
  <2>2. pl(y, k) # pl(z, m)
    BY <1>2, <1>8, <2>1
  <2>3. pl(y, k) \in 1..Len(lanes) /\ pl(z, m) \in 1..Len(lanes)
    BY <1>1
  <2>4. Below(u, lanes[pl(y, k)]) \cap Below(u, lanes[pl(z, m)]) = {}
    BY <2>2, <2>3 DEF Parted
  <2>5. P[y][k] = lanes[pl(y, k)] /\ P[z][m] = lanes[pl(z, m)]
    BY <1>1
  <2> QED BY <2>4, <2>5
<1>9. ASSUME NEW y \in 1..q
      PROVE  NodeOK(ms, a, b, N + y)
  <2>1. /\ ms[N + y] = P[y] /\ Len(P[y]) \in 1..Fan /\ b[N + y] = h + 1
        /\ 1..N \subseteq 1..Len(ms)
    <3>1. ms[N + y] = P[y] /\ b[N + y] = h + 1
      BY <1>3, <1>4
    <3>2. Len(P[y]) \in 1..Fan
      BY <1>1
    <3>3. 1..N \subseteq 1..Len(ms)
      BY <1>1, <1>3
    <3> QED BY <3>1, <3>2, <3>3
  <2>2. \A l \in 1..Len(P[y]) :
          /\ P[y][l].object => /\ P[y][l].id \in Item
                               /\ P[y][l].box = items[P[y][l].id]
          /\ ~ P[y][l].object => P[y][l].id \in 1..Len(ms) /\ b[P[y][l].id] = b[N + y] - 1
          /\ \A i \in Below(a, P[y][l]) : Covers(P[y][l].box, i)
    <3> SUFFICES ASSUME NEW l \in 1..Len(P[y])
                 PROVE  /\ P[y][l].object => /\ P[y][l].id \in Item
                                             /\ P[y][l].box = items[P[y][l].id]
                        /\ ~ P[y][l].object => /\ P[y][l].id \in 1..Len(ms)
                                               /\ b[P[y][l].id] = b[N + y] - 1
                        /\ \A i \in Below(a, P[y][l]) : Covers(P[y][l].box, i)
      OBVIOUS
    <3> DEFINE lane == P[y][l]
    <3>1. /\ lane.object => lane.id \in Item /\ lane.box = items[lane.id]
          /\ ~ lane.object => lane.id \in 1..N /\ b[lane.id] = h
          /\ \A i \in Below(u, lane) : Covers(lane.box, i)
          /\ Below(a, lane) = Below(u, lane)
      BY <1>7
    <3> HIDE DEF lane
    <3>2. /\ lane.object => lane.id \in Item /\ lane.box = items[lane.id]
          /\ ~ lane.object => lane.id \in 1..Len(ms) /\ b[lane.id] = b[N + y] - 1
          /\ \A i \in Below(a, lane) : Covers(lane.box, i)
      <4>1. b[N + y] - 1 = h
        BY <2>1
      <4> QED BY <2>1, <3>1, <4>1
    <3> QED BY <3>2 DEF lane
  <2>3. \A l, m \in 1..Len(P[y]) :
          l # m => Below(a, P[y][l]) \cap Below(a, P[y][m]) = {}
    BY <1>7, <1>8
  <2>4. \A i \in Item : i \in a[N + y] <=> \E l \in 1..Len(P[y]) : i \in Below(a, P[y][l])
    BY <1>4, <1>7
  <2> QED BY <2>1, <2>2, <2>3, <2>4 DEF NodeOK
<1>10. Tree(ms, a, b)
  <2>1. ASSUME NEW x \in 1..Len(ms)
        PROVE  NodeOK(ms, a, b, x)
    <3>1. CASE x <= N
      BY <1>3, <1>6, <2>1, <3>1
    <3>2. CASE x > N
      <4>1. x - N \in 1..q /\ x = N + (x - N)
        BY <1>1, <1>3, <2>1, <3>2
      <4> QED BY <1>9, <4>1
    <3> QED BY <1>3, <2>1, <3>1, <3>2
  <2> QED BY <1>3, <1>4, <2>1 DEF Tree
<1>11. Top(ms, N, Len(ms), h + 1, a, b)
  <2>1. N < Len(ms)
    BY <1>1, <1>3
  <2>2. \A x \in N + 1..Len(ms) : x - N \in 1..q /\ x = N + (x - N)
    BY <1>1, <1>3
  <2>3. \A x \in N + 1..Len(ms) : b[x] = h + 1
    BY <1>4, <2>2
  <2>4. ASSUME NEW i \in Item
        PROVE  \E x \in N + 1..Len(ms) : i \in a[x]
    <3>1. PICK j \in 1..Len(lanes) : i \in Below(u, lanes[j])
      BY DEF Parted
    <3>2. PICK y \in 1..q, k \in 1..Fan : k \in 1..Len(P[y]) /\ j = pl(y, k)
      BY <1>1
    <3>3. i \in a[N + y]
      BY <1>4, <1>7, <3>1, <3>2
    <3>4. N + y \in N + 1..Len(ms)
      BY <1>1, <1>3
    <3> QED BY <3>3, <3>4
  <2>5. ASSUME NEW x \in N + 1..Len(ms), NEW y \in N + 1..Len(ms), x # y
        PROVE  a[x] \cap a[y] = {}
    <3> SUFFICES ASSUME NEW i, i \in a[x], i \in a[y] PROVE FALSE
      OBVIOUS
    <3>1. /\ x - N \in 1..q /\ y - N \in 1..q /\ x - N # y - N
          /\ x = N + (x - N) /\ y = N + (y - N)
      BY <1>3, <2>2, <2>5
    <3>2. i \in Item
      <4>1. x \in 1..N + q
        BY <1>3
      <4> QED BY <1>4, <4>1
    <3>3. PICK k \in 1..Len(P[x - N]) : i \in Below(u, P[x - N][k])
      BY <1>4, <3>1, <3>2
    <3>4. PICK m \in 1..Len(P[y - N]) : i \in Below(u, P[y - N][m])
      BY <1>4, <3>1, <3>2
    <3> QED BY <1>8, <3>1, <3>3, <3>4
  <2> QED BY <2>1, <2>3, <2>4, <2>5 DEF Top
<1> QED BY <1>3, <1>10, <1>11 DEF ms, P, N

(* The box of a parent's lane is around the lanes of the child. *)
LEMMA AroundCovers ==
  ASSUME NEW node \in Seq(Lane), Len(node) \in 1..Fan
  PROVE  /\ Around(node) \in Interval
         /\ \A l \in 1..Len(node) : /\ Around(node).min <= node[l].box.min
                                     /\ Around(node).max >= node[l].box.max
<1> DEFINE S == DOMAIN node
           f == [x \in S |-> node[x].box.min]
           g == [x \in S |-> node[x].box.max]
           low == Min({f[x] : x \in S})
           high == Max({g[x] : x \in S})
<1>1. S = 1..Len(node) /\ Len(node) \in Nat
  OBVIOUS
<1>2. IsFiniteSet(S) /\ S # {}
  <2>1. IsFiniteSet(1..Len(node))
    BY <1>1, FS_Interval
  <2> QED BY <1>1, <2>1
<1>3. \A x \in S : node[x].box \in Interval
  <2>1. \A x \in S : node[x] \in Lane
    BY <1>1
  <2>2. \A lane \in Lane : lane.box \in Interval
    BY DEF Lane
  <2> QED BY <2>1, <2>2
<1>4. f \in [S -> Int] /\ g \in [S -> Int]
  BY <1>3 DEF Interval
<1>5. low \in Int /\ \A x \in S : low <= f[x]
  <2> HIDE DEF f, S
  <2> QED BY <1>2, <1>4, LeastValue
<1>6. high \in Int /\ \A x \in S : high >= g[x]
  <2> HIDE DEF g, S
  <2> QED BY <1>2, <1>4, LeastValue
<1>7. Around(node) = [min |-> low, max |-> high]
  <2>1. /\ {f[x] : x \in S} = {node[x].box.min : x \in DOMAIN node}
        /\ {g[x] : x \in S} = {node[x].box.max : x \in DOMAIN node}
    OBVIOUS
  <2> QED BY <2>1 DEF Around
<1> HIDE DEF low, high
<1>8. \A x \in 1..Len(node) : low <= node[x].box.min /\ high >= node[x].box.max
  BY <1>1, <1>5, <1>6
<1> QED BY <1>5, <1>6, <1>7, <1>8 DEF Interval

(* The leaves, over the items in their order. *)
LEMMA LeavesParted ==
  ASSUME items \in Seq(Box), items # <<>>
  PROVE  LET lanes == [x \in DOMAIN Sorted |->
                         [box |-> items[Sorted[x]], object |-> TRUE, id |-> Sorted[x]]]
             none == [x \in 1..0 |-> {}]
         IN  /\ lanes \in Seq(Lane) /\ Len(lanes) = Len(items) /\ lanes # <<>>
             /\ <<>> \in Seq(Seq(Lane)) /\ Tree(<<>>, none, none)
             /\ Parted(<<>>, none, none, 0, lanes)
<1> DEFINE n == Len(items)
           order == Sorted
           lanes == [x \in DOMAIN order |->
                       [box |-> items[order[x]], object |-> TRUE, id |-> order[x]]]
           none == [x \in 1..0 |-> {}]
<1>1. n \in Nat \ {0} /\ \A i \in 1..n : items[i] \in Interval
  <2>1. Box \subseteq Interval
    BY BoxAssumption DEF Interval
  <2>2. n \in Nat /\ n # 0 /\ \A i \in 1..n : items[i] \in Box
    OBVIOUS
  <2> QED BY <2>1, <2>2
<1>2. /\ order \in [1..n -> 1..n]
      /\ \A x, y \in 1..n : order[x] = order[y] => x = y
      /\ \A i \in 1..n : \E x \in 1..n : order[x] = i
  BY SortedPermutes
<1> HIDE DEF order, n
<1>3. \A x \in 1..n : lanes[x] = [box |-> items[order[x]], object |-> TRUE, id |-> order[x]]
  BY <1>2
<1>4. \A x \in 1..n : lanes[x] \in Lane
  <2>1. \A x \in 1..n : order[x] \in Nat /\ items[order[x]] \in Interval
    <3> HIDE DEF lanes
    <3>1. \A x \in 1..n : order[x] \in 1..n
      BY <1>2
    <3> QED BY <1>1, <3>1
  <2>2. \A b \in Interval, k \in Nat : [box |-> b, object |-> TRUE, id |-> k] \in Lane
    BY DEF Lane
  <2> HIDE DEF lanes
  <2> QED BY <1>3, <2>1, <2>2
<1>5. lanes \in Seq(Lane) /\ Len(lanes) = n
  <2>1. lanes \in [1..n -> Lane]
    BY <1>2, <1>4
  <2> HIDE DEF lanes
  <2> QED BY <1>1, <2>1
<1>6. <<>> \in Seq(Seq(Lane)) /\ Tree(<<>>, none, none)
  <2>1. Len(<<>>) = 0 /\ 1..0 = {}
    OBVIOUS
  <2> QED BY <2>1 DEF Tree
<1> HIDE DEF none, lanes
<1>7. ASSUME NEW x \in 1..n
      PROVE  /\ lanes[x].object /\ lanes[x].id = order[x] /\ order[x] \in Item
             /\ lanes[x].box = items[order[x]]
             /\ Below(none, lanes[x]) = {order[x]}
             /\ Covers(lanes[x].box, order[x])
  <2>1. /\ lanes[x].object /\ lanes[x].id = order[x] /\ order[x] \in 1..n
        /\ lanes[x].box = items[order[x]]
    <3>1. lanes[x] = [box |-> items[order[x]], object |-> TRUE, id |-> order[x]]
      BY <1>3
    <3>2. lanes[x].object = TRUE
      BY <3>1
    <3> QED BY <1>2, <3>1, <3>2
  <2>2. /\ items[order[x]].min <= items[order[x]].min
        /\ items[order[x]].max <= items[order[x]].max
    BY <1>1, <2>1 DEF Interval
  <2> QED BY <2>1, <2>2 DEF Item, n, Below, Covers
<1>8. Parted(<<>>, none, none, 0, lanes)
  <2>1. \A j, m \in 1..n : j # m => Below(none, lanes[j]) \cap Below(none, lanes[m]) = {}
    <3> SUFFICES ASSUME NEW j \in 1..n, NEW m \in 1..n, j # m
                 PROVE  Below(none, lanes[j]) \cap Below(none, lanes[m]) = {}
      OBVIOUS
    <3>1. Below(none, lanes[j]) = {order[j]} /\ Below(none, lanes[m]) = {order[m]}
      BY <1>7
    <3>2. order[j] # order[m]
      BY <1>2
    <3> QED BY <3>1, <3>2
  <2>2. \A i \in Item : \E j \in 1..n : i \in Below(none, lanes[j])
    BY <1>2, <1>7 DEF Item, n
  <2> QED BY <1>5, <1>7, <2>1, <2>2 DEF Parted
<1> QED BY <1>1, <1>5, <1>6, <1>8 DEF lanes, none, n, order

(* The parents of a level, over its nodes in their order. *)
LEMMA ParentsParted ==
  ASSUME items \in Seq(Box), NEW ns \in Seq(Seq(Lane)), NEW u, NEW v, Tree(ns, u, v),
         NEW lo \in Nat, NEW hi \in Nat, NEW h \in Nat, Top(ns, lo, hi, h, u, v)
  PROVE  LET lanes == [x \in 1..hi - lo |->
                         [box |-> Around(ns[lo + x]), object |-> FALSE, id |-> lo + x]]
         IN  /\ lanes \in Seq(Lane) /\ Len(lanes) = hi - lo /\ lanes # <<>>
             /\ Parted(ns, u, v, h, lanes)
<1> DEFINE w == hi - lo
           lanes == [x \in 1..w |->
                       [box |-> Around(ns[lo + x]), object |-> FALSE, id |-> lo + x]]
<1>1. w \in Nat \ {0} /\ hi = Len(ns) /\ \A x \in 1..w : lo + x \in lo + 1..hi /\ lo + x \in 1..hi
  BY DEF Top
<1>2. \A x \in 1..w : ns[lo + x] \in Seq(Lane) /\ NodeOK(ns, u, v, lo + x)
  BY <1>1 DEF Tree
<1>3. \A x \in 1..w :
        /\ Around(ns[lo + x]) \in Interval
        /\ \A l \in 1..Len(ns[lo + x]) :
             /\ Around(ns[lo + x]).min <= ns[lo + x][l].box.min
             /\ Around(ns[lo + x]).max >= ns[lo + x][l].box.max
  <2> SUFFICES ASSUME NEW x \in 1..w
               PROVE  /\ Around(ns[lo + x]) \in Interval
                      /\ \A l \in 1..Len(ns[lo + x]) :
                           /\ Around(ns[lo + x]).min <= ns[lo + x][l].box.min
                           /\ Around(ns[lo + x]).max >= ns[lo + x][l].box.max
    OBVIOUS
  <2>1. ns[lo + x] \in Seq(Lane) /\ Len(ns[lo + x]) \in 1..Fan
    BY <1>2 DEF NodeOK
  <2> QED BY <2>1, AroundCovers
<1>4. \A x \in 1..w : /\ lanes[x].box = Around(ns[lo + x]) /\ ~ lanes[x].object
                      /\ lanes[x].id = lo + x /\ lanes[x] \in Lane
  <2> SUFFICES ASSUME NEW x \in 1..w
               PROVE  /\ lanes[x].box = Around(ns[lo + x]) /\ ~ lanes[x].object
                      /\ lanes[x].id = lo + x /\ lanes[x] \in Lane
    OBVIOUS
  <2>1. lanes[x] = [box |-> Around(ns[lo + x]), object |-> FALSE, id |-> lo + x]
    OBVIOUS
  <2>2. Around(ns[lo + x]) \in Interval /\ lo + x \in Nat
    <3> HIDE DEF lanes
    <3>1. lo + x \in Nat
      BY <1>1
    <3> QED BY <1>3, <3>1
  <2>3. lanes[x].object = FALSE
    BY <2>1
  <2> HIDE DEF lanes
  <2> QED BY <2>1, <2>2, <2>3 DEF Lane
<1>5. lanes \in Seq(Lane) /\ Len(lanes) = w
  <2>1. lanes \in [1..w -> Lane]
    BY <1>4
  <2> HIDE DEF lanes, w
  <2> QED BY <1>1, <2>1
<1> HIDE DEF lanes, w
<1>6. \A x \in 1..w : Below(u, lanes[x]) = u[lo + x]
  BY <1>4 DEF Below
<1>7. ASSUME NEW x \in 1..w, NEW i \in u[lo + x]
      PROVE  Covers(lanes[x].box, i)
  <2>1. i \in Item /\ items[i] \in Interval
    <3>1. u[lo + x] \in SUBSET Item
      BY <1>1 DEF Tree
    <3>2. Box \subseteq Interval
      BY BoxAssumption DEF Interval
    <3> QED BY <3>1, <3>2 DEF Item
  <2>2. PICK l \in 1..Len(ns[lo + x]) : i \in Below(u, ns[lo + x][l])
    BY <1>2, <2>1 DEF NodeOK
  <2>3. Covers(ns[lo + x][l].box, i)
    BY <1>2, <2>2 DEF NodeOK
  <2>4. ns[lo + x][l].box \in Interval
    <3>1. ns[lo + x][l] \in Lane
      BY <1>2, <2>2
    <3> QED BY <3>1 DEF Lane
  <2> DEFINE inner == ns[lo + x][l].box
             outer == Around(ns[lo + x])
  <2>5. /\ outer \in Interval /\ outer.min <= inner.min /\ outer.max >= inner.max
        /\ inner \in Interval /\ inner.min <= items[i].min /\ items[i].max <= inner.max
        /\ lanes[x].box = outer
    BY <1>3, <1>4, <2>2, <2>3, <2>4 DEF Covers
  <2> HIDE DEF inner, outer
  <2>6. /\ outer.min \in Int /\ outer.max \in Int /\ inner.min \in Int
        /\ inner.max \in Int /\ items[i].min \in Int /\ items[i].max \in Int
    BY <2>1, <2>5 DEF Interval
  <2>7. outer.min <= items[i].min /\ items[i].max <= outer.max
    <3> DEFINE lo1 == outer.min
               lo2 == inner.min
               lo3 == items[i].min
               hi1 == outer.max
               hi2 == inner.max
               hi3 == items[i].max
    <3>1. /\ lo1 \in Int /\ lo2 \in Int /\ lo3 \in Int /\ lo1 <= lo2 /\ lo2 <= lo3
          /\ hi1 \in Int /\ hi2 \in Int /\ hi3 \in Int /\ hi1 >= hi2 /\ hi3 <= hi2
      BY <2>5, <2>6, Zenon
    <3> HIDE DEF lo1, lo2, lo3, hi1, hi2, hi3
    <3>2. lo1 <= lo3 /\ hi3 <= hi1
      BY <3>1
    <3> QED BY <3>2 DEF lo1, lo3, hi1, hi3
  <2> QED BY <2>5, <2>7 DEF Covers
<1>8. Parted(ns, u, v, h, lanes)
  <2>1. \A j \in 1..w : v[lo + j] = h /\ lo + j \in 1..Len(ns)
    BY <1>1 DEF Top
  <2>2. \A j, m \in 1..w : j # m => u[lo + j] \cap u[lo + m] = {}
    <3> SUFFICES ASSUME NEW j \in 1..w, NEW m \in 1..w, j # m
                 PROVE  u[lo + j] \cap u[lo + m] = {}
      OBVIOUS
    <3>1. lo + j \in lo + 1..hi /\ lo + m \in lo + 1..hi
      BY <1>1
    <3>2. lo + j # lo + m
      BY <1>1
    <3> QED BY <3>1, <3>2 DEF Top
  <2>3. ASSUME NEW i \in Item
        PROVE  \E j \in 1..w : i \in Below(u, lanes[j])
    <3>1. PICK x \in lo + 1..hi : i \in u[x]
      BY DEF Top
    <3>2. x - lo \in 1..w /\ lo + (x - lo) = x
      BY DEF w
    <3> QED BY <1>6, <3>1, <3>2
  <2>4. \A j \in 1..w : \A i \in Below(u, lanes[j]) : Covers(lanes[j].box, i)
    BY <1>6, <1>7
  <2>5. \A j, m \in 1..w : j # m => Below(u, lanes[j]) \cap Below(u, lanes[m]) = {}
    BY <1>6, <2>2
  <2> QED BY SMTT(30), <1>4, <1>5, <2>1, <2>3, <2>4, <2>5 DEF Parted
<1> QED BY <1>1, <1>5, <1>8 DEF lanes, w

-----------------------------------------------------------------------------
(* Every action keeps the invariant *)

(* No tree and no query. *)
LEMMA InitKeeps == Init => IInv
<1> SUFFICES ASSUME Init PROVE IInv
  OBVIOUS
<1>1. TypeInv
  <2>1. /\ items = <<>> /\ Len(items) = 0 /\ items \in Seq(Box)
        /\ nodes = <<>> /\ nodes \in Seq(Seq(Lane))
    BY DEF Init
  <2>2. itemCap \in Nat \ {0} /\ Len(items) <= itemCap
    BY <2>1, CapAssumption DEF Init
  <2>3. level \in Nat \X Nat /\ height \in Nat /\ hasTree = FALSE /\ again = FALSE
    BY DEF Init
  <2>4. pc = "idle" /\ probe \in Probe
    BY DEF Init
  <2> QED BY <2>1, <2>2, <2>3, <2>4 DEF TypeInv
<1>2. ArenaInv
  <2>1. Len(nodes) = 0 /\ level[1] = 0 /\ level[2] = 0 /\ height = 0
    BY DEF Init
  <2>2. itemCap \in Nat /\ \E c \in Nat : itemCap = Fan * c
    <3>1. itemCap \in Nat /\ itemCap = Fan * (itemCap \div Fan) /\ itemCap \div Fan \in Nat
      BY CapAssumption DEF Init
    <3> QED BY <3>1
  <2>3. (Fan - 1) * 0 = 0
    OBVIOUS
  <2>4. /\ level[1] <= level[2]
        /\ (Fan - 1) * Len(nodes) + (level[2] - level[1])
             <= itemCap + (Fan - 1) * (IF height = 0 THEN 0 ELSE height - 1)
    BY <2>1, <2>2, <2>3
  <2> QED BY <2>2, <2>4 DEF ArenaInv
<1>3. TreeInv /\ WalkInv
  BY DEF Init, TreeInv, WalkInv, Answered
<1> QED BY <1>1, <1>2, <1>3 DEF IInv

(* An item more, and no tree over it. *)
LEMMA InsertKeeps ==
  ASSUME IInv, NEW b \in Box, Insert(b)
  PROVE  IInv'
<1>1. /\ items' = Append(items, b) /\ hasTree' = FALSE /\ pc = "idle"
      /\ itemCap' = IF Len(items) >= itemCap THEN 2 * itemCap ELSE itemCap
      /\ UNCHANGED <<nodes, level, height, pc, cursor>>
  BY DEF Insert
<1>2. /\ items \in Seq(Box) /\ Len(items) \in Nat /\ itemCap \in Nat
      /\ Len(items) <= itemCap /\ itemCap > 0
  BY DEF IInv, TypeInv
<1>3. items' \in Seq(Box) /\ Len(items') = Len(items) + 1
  BY <1>1, <1>2
<1>4. itemCap' \in Nat \ {0} /\ Len(items') <= itemCap'
  BY <1>1, <1>2, <1>3
<1>5. TypeInv'
  BY <1>1, <1>3, <1>4 DEF IInv, TypeInv, cursor
<1>6. ArenaInv'
  <2>1. Len(nodes) \in Nat /\ height \in Nat /\ level[1] \in Nat /\ level[2] \in Nat
    BY DEF IInv, TypeInv
  <2> DEFINE p == (Fan - 1) * Len(nodes)
             q == (Fan - 1) * (IF height = 0 THEN 0 ELSE height - 1)
  <2>2. p \in Nat /\ q \in Nat
    BY <2>1
  <2>3. level[1] <= level[2] /\ p + (level[2] - level[1]) <= itemCap + q
    BY DEF IInv, ArenaInv
  <2>4. \E c \in Nat : itemCap' = Fan * c
    <3>1. PICK c \in Nat : itemCap = Fan * c
      BY DEF IInv, ArenaInv
    <3>2. Fan * (2 * c) = 2 * itemCap /\ 2 * c \in Nat
      BY <3>1
    <3> QED BY <1>1, <3>1, <3>2
  <2> HIDE DEF p, q
  <2>5. itemCap' \in Nat /\ itemCap <= itemCap'
    BY <1>1, <1>2
  <2>6. p + (level[2] - level[1]) <= itemCap' + q
    BY <1>2, <2>1, <2>2, <2>3, <2>5
  <2> QED BY <1>1, <2>3, <2>4, <2>6 DEF ArenaInv, p, q
<1>7. TreeInv' /\ WalkInv'
  BY <1>1 DEF IInv, TreeInv, WalkInv, Answered, cursor
<1> QED BY <1>5, <1>6, <1>7 DEF IInv

(* No item and no tree. *)
LEMMA EmptyKeeps ==
  ASSUME IInv, NoTree, items' = <<>>, pc = "idle", UNCHANGED <<itemCap, pc, cursor>>
  PROVE  IInv'
<1>1. nodes' = <<>> /\ level' = <<0, 0>> /\ height' = 0 /\ hasTree' = FALSE
  BY DEF NoTree
<1>2. TypeInv'
  <2>1. items' \in Seq(Box) /\ nodes' \in Seq(Seq(Lane)) /\ Len(items') = 0
    BY <1>1
  <2>2. itemCap' \in Nat \ {0} /\ Len(items') <= itemCap'
    BY <2>1 DEF IInv, TypeInv
  <2>3. level' \in Nat \X Nat /\ height' \in Nat
    BY <1>1
  <2>4. pc' = "idle" /\ probe' \in Probe /\ again' \in BOOLEAN
    BY DEF IInv, TypeInv, cursor
  <2> QED BY <1>1, <2>1, <2>2, <2>3, <2>4 DEF TypeInv
<1>3. ArenaInv'
  <2>1. /\ Len(nodes') = 0 /\ level'[1] = 0 /\ level'[2] = 0 /\ height' = 0
        /\ (Fan - 1) * 0 = 0
    BY <1>1
  <2>2. itemCap' = itemCap /\ itemCap \in Nat /\ \E c \in Nat : itemCap = Fan * c
    BY DEF IInv, TypeInv, ArenaInv
  <2> QED BY <2>1, <2>2 DEF ArenaInv
<1>4. TreeInv' /\ WalkInv'
  BY <1>1 DEF IInv, TreeInv, WalkInv, Answered, cursor
<1> QED BY <1>2, <1>3, <1>4 DEF IInv

(* A tree is one after a step, too, if the items are the same. *)
LEMMA TreeAfter ==
  ASSUME NEW its, NEW ns, NEW lo, NEW hi, NEW h, NEW u, NEW v,
         items = its, items' = its, nodes' = ns,
         level'[1] = lo, level'[2] = hi, height' = h,
         Tree(ns, u, v), Top(ns, lo, hi, h, u, v)
  PROVE  Tree(nodes, u, v)' /\ Top(nodes, level[1], level[2], height, u, v)'
<1>1. \A x \in 1..Len(ns) : NodeOK(nodes, u, v, x)'
  <2> SUFFICES ASSUME NEW x \in 1..Len(ns) PROVE NodeOK(nodes, u, v, x)'
    OBVIOUS
  <2>1. NodeOK(ns, u, v, x)
    BY DEF Tree
  <2> QED BY <2>1 DEF NodeOK, Item, Covers, Below
<1>2. Tree(nodes, u, v)'
  BY <1>1 DEF Tree, Item
<1>3. Top(nodes, level[1], level[2], height, u, v)'
  BY DEF Top, Item
<1> QED BY <1>2, <1>3

(* A step that leaves items and nodes alone leaves the tree a tree. *)
LEMMA TreeStays ==
  ASSUME items' = items, UNCHANGED <<nodes, level, height>>, NEW u, NEW v,
         Tree(nodes, u, v), Top(nodes, level[1], level[2], height, u, v)
  PROVE  Tree(nodes, u, v)' /\ Top(nodes, level[1], level[2], height, u, v)'
<1>1. PICK its, ns, lo, hi, h : /\ its = items /\ ns = nodes /\ lo = level[1]
                                /\ hi = level[2] /\ h = height
  OBVIOUS
<1>2. Tree(ns, u, v) /\ Top(ns, lo, hi, h, u, v)
  BY <1>1
<1>3. items = its /\ items' = its /\ nodes' = ns /\ level'[1] = lo /\ level'[2] = hi /\ height' = h
  BY <1>1
<1> QED BY <1>2, <1>3, TreeAfter

(* A level more. *)
LEMMA PackedKeeps ==
  ASSUME IInv, UNCHANGED <<items, itemCap, cursor>>, Answered,
         NEW ns \in Seq(Seq(Lane)), NEW u, NEW v, Tree(ns, u, v), NEW h \in Nat,
         NEW lanes \in Seq(Lane), lanes # <<>>, Parted(ns, u, v, h, lanes),
         (Fan - 1) * Len(ns) + Fan * Len(Packed(lanes)) <= itemCap + (Fan - 1) * h,
         nodes' = ns \o Packed(lanes),
         level' = <<Len(ns), Len(ns) + Len(Packed(lanes))>>,
         height' = h + 1, hasTree' = FALSE, pc' = "pack"
  PROVE  IInv'
<1> DEFINE P == Packed(lanes)
           q == Len(P)
           N == Len(ns)
<1>1. /\ nodes' \in Seq(Seq(Lane))
      /\ \E a, b : Tree(nodes', a, b) /\ Top(nodes', N, Len(nodes'), h + 1, a, b)
  BY LevelPacked
<1>2. q \in Nat \ {0} /\ P \in Seq(Seq(Lane))
  BY PackedGroups
<1>3. N \in Nat /\ Len(items) \in Nat
  BY DEF IInv, TypeInv
<1> HIDE DEF P
<1>4. Len(nodes') = N + q
  <2>1. nodes' = ns \o P
    BY DEF P
  <2> QED BY <1>2, <1>3, <2>1
<1> HIDE DEF q, N
<1>5. level' = <<N, N + q>> /\ level'[1] = N /\ level'[2] = N + q
  BY DEF P, q, N
<1>6. TypeInv'
  <2>1. level' \in Nat \X Nat /\ height' \in Nat
    BY <1>2, <1>3, <1>5
  <2>2. items' \in Seq(Box) /\ itemCap' \in Nat \ {0} /\ Len(items') <= itemCap'
    BY DEF IInv, TypeInv
  <2>3. probe' \in Probe /\ again' \in BOOLEAN
    BY DEF IInv, TypeInv, cursor
  <2> QED BY <1>1, <2>1, <2>2, <2>3 DEF TypeInv
<1>7. ArenaInv'
  <2>1. (Fan - 1) * N + Fan * q <= itemCap + (Fan - 1) * h
    BY DEF N, P, q
  <2>2. (Fan - 1) * (N + q) + q = (Fan - 1) * N + Fan * q
    BY <1>2, <1>3
  <2>3. (N + q) - N = q /\ N <= N + q /\ height' # 0 /\ height' - 1 = h
    BY <1>2, <1>3
  <2>4. itemCap' = itemCap /\ \E c \in Nat : itemCap = Fan * c
    BY DEF IInv, ArenaInv
  <2> QED BY <1>4, <1>5, <2>1, <2>2, <2>3, <2>4 DEF ArenaInv
<1>8. TreeInv'
  <2>1. PICK a, b : Tree(nodes', a, b) /\ Top(nodes', N, Len(nodes'), h + 1, a, b)
    BY <1>1
  <2>2. PICK its, ms, lo, hi, k : /\ its = items /\ ms = nodes' /\ lo = N
                                  /\ hi = Len(nodes') /\ k = h + 1
    OBVIOUS
  <2>3. Tree(ms, a, b) /\ Top(ms, lo, hi, k, a, b)
    BY <2>1, <2>2
  <2>4. /\ items = its /\ items' = its /\ nodes' = ms
        /\ level'[1] = lo /\ level'[2] = hi /\ height' = k
    BY <1>4, <1>5, <2>2
  <2>5. Tree(nodes, a, b)' /\ Top(nodes, level[1], level[2], height, a, b)'
    BY <2>3, <2>4, TreeAfter
  <2> QED BY <2>5 DEF TreeInv
<1>9. WalkInv'
  BY DEF WalkInv, Answered, cursor
<1> QED BY <1>6, <1>7, <1>8, <1>9 DEF IInv

(* The leaves. *)
LEMMA BuildKeeps ==
  ASSUME IInv, Build
  PROVE  IInv'
<1> DEFINE lanes == [x \in DOMAIN Sorted |->
                       [box |-> items[Sorted[x]], object |-> TRUE, id |-> Sorted[x]]]
           none == [x \in 1..0 |-> {}]
<1>1. pc = "idle" /\ UNCHANGED <<items, itemCap, cursor>> /\ Answered /\ items \in Seq(Box)
  BY DEF Build, IInv, WalkInv, TypeInv
<1>2. CASE items = <<>>
  BY <1>1, <1>2, EmptyKeeps DEF Build
<1>3. CASE items # <<>>
  <2>1. /\ nodes' = Packed(lanes) /\ level' = <<0, Len(Packed(lanes))>>
        /\ height' = 1 /\ hasTree' = FALSE /\ pc' = "pack"
    BY <1>3 DEF Build
  <2>2. /\ lanes \in Seq(Lane) /\ Len(lanes) = Len(items) /\ lanes # <<>>
        /\ <<>> \in Seq(Seq(Lane)) /\ Tree(<<>>, none, none)
        /\ Parted(<<>>, none, none, 0, lanes)
    BY <1>1, <1>3, LeavesParted
  <2> HIDE DEF lanes, none
  <2>3. Packed(lanes) \in Seq(Seq(Lane)) /\ Len(Packed(lanes)) \in Nat
    BY <2>2, PackedGroups
  <2>4. /\ nodes' = <<>> \o Packed(lanes)
        /\ level' = <<Len(<<>>), Len(<<>>) + Len(Packed(lanes))>>
        /\ height' = 0 + 1
    BY <2>1, <2>3
  <2> DEFINE q == Len(Packed(lanes))
  <2>5. q \in Nat /\ Fan * q <= Len(items) + Fan - 1
    BY <2>2, PackedGroups
  <2>6. Len(items) \in Nat /\ Len(items) <= itemCap /\ itemCap \in Nat
    BY DEF IInv, TypeInv
  <2> HIDE DEF q
  <2>7. Fan * q <= itemCap
    <3>1. PICK c \in Nat : itemCap = Fan * c
      BY DEF IInv, ArenaInv
    <3> SUFFICES ASSUME q >= c + 1 PROVE FALSE
      <4>1. ~ q >= c + 1 => q <= c
        BY <2>5, <3>1
      <4> QED BY <2>5, <3>1, <4>1, FanTimes
    <3>2. Fan * (c + 1) <= Fan * q
      BY <2>5, <3>1, FanTimes
    <3>3. Fan * (c + 1) = itemCap + Fan
      BY <3>1
    <3>4. Fan * q \in Int
      BY <2>5
    <3> QED BY <2>5, <2>6, <3>2, <3>3, <3>4
  <2>8. (Fan - 1) * Len(<<>>) + Fan * Len(Packed(lanes)) <= itemCap + (Fan - 1) * 0
    <3>1. Len(<<>>) = 0 /\ (Fan - 1) * 0 = 0
      OBVIOUS
    <3> QED BY <2>5, <2>6, <2>7, <3>1 DEF q
  <2> QED BY <1>1, <1>3, <2>1, <2>2, <2>4, <2>8, PackedKeeps
<1> QED BY <1>2, <1>3

(* A level, or the root. *)
LEMMA PackKeeps ==
  ASSUME IInv, Pack
  PROVE  IInv'
<1> DEFINE lo == level[1]
           hi == level[2]
           lanes == [x \in 1..hi - lo |->
                       [box |-> Around(nodes[lo + x]), object |-> FALSE, id |-> lo + x]]
<1>1. /\ pc = "pack" /\ UNCHANGED <<items, itemCap, cursor>> /\ Answered
      /\ items \in Seq(Box) /\ nodes \in Seq(Seq(Lane))
      /\ lo \in Nat /\ hi \in Nat /\ height \in Nat /\ level = <<lo, hi>>
  BY DEF Pack, IInv, WalkInv, TypeInv
<1>2. PICK u, v : Tree(nodes, u, v) /\ Top(nodes, lo, hi, height, u, v)
  BY <1>1 DEF IInv, TreeInv
<1>3. lo < hi /\ hi = Len(nodes)
  BY <1>2 DEF Top
<1>4. CASE hi - lo > 1
  <2>1. /\ nodes' = nodes \o Packed(lanes) /\ level' = <<hi, hi + Len(Packed(lanes))>>
        /\ height' = height + 1 /\ hasTree' = hasTree /\ pc' = pc
    BY <1>4 DEF Pack
  <2>2. lanes \in Seq(Lane) /\ Len(lanes) = hi - lo /\ lanes # <<>>
        /\ Parted(nodes, u, v, height, lanes)
    BY <1>1, <1>2, ParentsParted
  <2>3. hasTree = FALSE
    BY <1>1 DEF IInv, TypeInv
  <2> HIDE DEF lanes, lo, hi
  <2>4. height \in Nat \ {0}
    <3>1. lo + 1 \in lo + 1..hi /\ lo + 1 \in 1..Len(nodes)
      BY <1>1, <1>3
    <3> QED BY <1>2, <3>1 DEF Top, Tree
  <2>5. (Fan - 1) * Len(nodes) + Fan * Len(Packed(lanes)) <= itemCap + (Fan - 1) * height
    <3> DEFINE a == (Fan - 1) * Len(nodes)
               b == (Fan - 1) * (height - 1)
               e == Fan * Len(Packed(lanes))
    <3>1. a + Len(lanes) <= itemCap + b
      BY <2>2, <2>4 DEF IInv, ArenaInv, lo, hi
    <3>2. e <= Len(lanes) + Fan - 1 /\ Len(Packed(lanes)) \in Nat
      BY <2>2, PackedGroups
    <3>3. a \in Int /\ b \in Int /\ e \in Int /\ itemCap \in Int /\ Len(lanes) \in Int
      BY <1>1, <2>2, <2>4, <3>2 DEF IInv, TypeInv
    <3>4. (Fan - 1) * height = b + Fan - 1
      BY <2>4
    <3> HIDE DEF a, b, e
    <3>5. a + e <= itemCap + (b + Fan - 1)
      BY <3>1, <3>2, <3>3
    <3> QED BY <3>4, <3>5 DEF a, e
  <2> QED BY <1>1, <1>2, <1>3, <2>1, <2>2, <2>3, <2>5, PackedKeeps
<1>5. CASE ~ hi - lo > 1
  <2>1. hasTree' = TRUE /\ pc' = "idle" /\ UNCHANGED <<nodes, level, height>>
    BY <1>5 DEF Pack
  <2>2. hi = lo + 1
    BY <1>1, <1>3, <1>5
  <2>3. TypeInv' /\ ArenaInv'
    BY <1>1, <2>1 DEF IInv, TypeInv, ArenaInv, cursor
  <2>4. Tree(nodes, u, v)' /\ Top(nodes, level[1], level[2], height, u, v)'
    BY <1>1, <1>2, <2>1, TreeStays
  <2>5. TreeInv'
    BY <2>1, <2>2, <2>4 DEF TreeInv
  <2>6. WalkInv'
    BY <1>1, <2>1 DEF WalkInv, Answered, cursor
  <2> QED BY <2>3, <2>5, <2>6 DEF IInv
<1> QED BY <1>4, <1>5

-----------------------------------------------------------------------------
(* Asking *)

(* What is under a lane is under its node. *)
LEMMA UnderLanes ==
  ASSUME NEW u, NEW v, Tree(nodes, u, v), NEW n \in 1..Len(nodes),
         NEW l \in 1..Len(nodes[n])
  PROVE  /\ Below(u, nodes[n][l]) \subseteq u[n] /\ u[n] \subseteq Item
         /\ \A m \in 1..Len(nodes[n]) :
              l # m => Below(u, nodes[n][l]) \cap Below(u, nodes[n][m]) = {}
         /\ nodes[n][l].object => /\ nodes[n][l].id \in Item
                                  /\ Below(u, nodes[n][l]) = {nodes[n][l].id}
                                  /\ nodes[n][l].box = items[nodes[n][l].id]
         /\ ~ nodes[n][l].object => /\ nodes[n][l].id \in 1..Len(nodes)
                                    /\ Below(u, nodes[n][l]) = u[nodes[n][l].id]
                                    /\ v[nodes[n][l].id] = v[n] - 1
<1>1. NodeOK(nodes, u, v, n) /\ u \in [1..Len(nodes) -> SUBSET Item]
  BY DEF Tree
<1>2. nodes[n][l].object => /\ nodes[n][l].id \in Item
                            /\ Below(u, nodes[n][l]) = {nodes[n][l].id}
                            /\ nodes[n][l].box = items[nodes[n][l].id]
  BY <1>1 DEF NodeOK, Below
<1>3. ~ nodes[n][l].object => /\ nodes[n][l].id \in 1..Len(nodes)
                              /\ Below(u, nodes[n][l]) = u[nodes[n][l].id]
                              /\ v[nodes[n][l].id] = v[n] - 1
  BY <1>1 DEF NodeOK, Below
<1>4. Below(u, nodes[n][l]) \subseteq Item
  BY <1>1, <1>2, <1>3
<1>5. Below(u, nodes[n][l]) \subseteq u[n]
  BY <1>1, <1>4 DEF NodeOK
<1>6. \A m \in 1..Len(nodes[n]) :
        l # m => Below(u, nodes[n][l]) \cap Below(u, nodes[n][m]) = {}
  BY <1>1 DEF NodeOK
<1>7. u[n] \subseteq Item
  BY <1>1
<1> QED BY <1>2, <1>3, <1>5, <1>6, <1>7

(* A lane over an item that the probe overlaps is a hit. *)
LEMMA LaneIsHit ==
  ASSUME TypeInv, NEW u, NEW v, Tree(nodes, u, v), NEW n \in 1..Len(nodes),
         NEW i \in u[n], Overlap(items[i], probe)
  PROVE  \E l \in Hits(nodes[n]) : i \in Below(u, nodes[n][l])
<1>1. /\ NodeOK(nodes, u, v, n) /\ i \in Item /\ items[i] \in Interval
      /\ probe \in Interval /\ nodes[n] \in Seq(Lane)
  <2>1. u \in [1..Len(nodes) -> SUBSET Item]
    BY DEF Tree
  <2>2. i \in Item
    BY <2>1
  <2>3. Box \subseteq Interval /\ Probe \subseteq Interval
    BY BoxAssumption DEF Interval
  <2>4. items[i] \in Box
    BY <2>2 DEF TypeInv, Item
  <2> QED BY <2>2, <2>3, <2>4 DEF Tree, TypeInv
<1>2. PICK l \in 1..Len(nodes[n]) : i \in Below(u, nodes[n][l])
  BY <1>1 DEF NodeOK
<1>3. Covers(nodes[n][l].box, i)
  BY <1>1, <1>2 DEF NodeOK
<1>4. nodes[n][l].box \in Interval
  <2>1. nodes[n][l] \in Lane
    BY <1>1, <1>2
  <2> QED BY <2>1 DEF Lane
<1>5. Overlap(nodes[n][l].box, probe)
  <2> DEFINE box == nodes[n][l].box
             it == items[i]
  <2>1. box \in Interval /\ it \in Interval /\ probe \in Interval
        /\ box.min <= it.min /\ it.max <= box.max
        /\ it.min <= probe.max /\ it.max >= probe.min
    BY <1>1, <1>3, <1>4 DEF Covers, Overlap
  <2> HIDE DEF box, it
  <2>2. box.min <= probe.max /\ box.max >= probe.min
    BY <2>1 DEF Interval
  <2> QED BY <2>2 DEF Overlap, box
<1> QED BY <1>1, <1>2, <1>5 DEF Hits

(* A query starts at the root, which has all items under it. *)
LEMMA BeginKeeps ==
  ASSUME IInv, NEW b \in Probe, Begin(b)
  PROVE  IInv'
<1>1. /\ pc = "idle" /\ pc' = "query" /\ probe' = b /\ mask' = {} /\ yielded' = {}
      /\ again' = FALSE /\ at' = 0
      /\ stack' = IF hasTree THEN <<level[1] + 1>> ELSE <<>>
      /\ expected' = IF hasTree THEN {x \in DOMAIN items : Overlap(items[x], b)} ELSE {}
      /\ items' = items /\ itemCap' = itemCap /\ nodes' = nodes /\ level' = level
      /\ height' = height /\ hasTree' = hasTree
  BY DEF Begin, tree
<1>2. TypeInv'
  <2>1. TypeInv
    BY DEF IInv
  <2> QED BY <1>1, <2>1 DEF TypeInv
<1>3. ArenaInv'
  <2>1. ArenaInv
    BY DEF IInv
  <2> QED BY <1>1, <2>1 DEF ArenaInv
<1>4. CASE hasTree
  <2>1. PICK u, v : /\ Tree(nodes, u, v) /\ Top(nodes, level[1], level[2], height, u, v)
                    /\ level[2] = level[1] + 1
    BY <1>4 DEF IInv, TreeInv
  <2>2. Tree(nodes, u, v)' /\ Top(nodes, level[1], level[2], height, u, v)'
    BY <1>1, <2>1, TreeStays
  <2> DEFINE r == level[1] + 1
  <2>3. r \in 1..Len(nodes) /\ \A x \in level[1] + 1..level[2] : x = r
    BY <2>1 DEF IInv, TypeInv, Top
  <2>4. v[r] = height /\ \A i \in Item : i \in u[r]
    BY <2>1, <2>3 DEF Top
  <2>5. /\ stack' = <<r>> /\ Len(stack') = 1 /\ stack' \in Seq(1..Len(nodes'))
        /\ \A x \in 1..Len(stack') : x = 1 /\ stack'[x] = r
    BY <1>1, <1>4, <2>3
  <2>6. Stashed' = {}
    BY <1>1 DEF Stashed
  <2>7. expected' = {i \in Item : Overlap(items[i], probe)}'
    <3>1. DOMAIN items = Item
      BY DEF IInv, TypeInv, Item
    <3>2. Item' = Item
      BY <1>1 DEF Item
    <3>3. expected' = {x \in Item : Overlap(items[x], b)}
      BY <1>1, <1>4, <3>1
    <3> QED BY <1>1, <3>2, <3>3 DEF Overlap
  <2>8. expected' \subseteq Item
    <3>1. DOMAIN items = Item
      BY DEF IInv, TypeInv, Item
    <3> QED BY <1>1, <1>4, <3>1
  <2>9. \A x \in 1..Len(stack') : x - 1 <= (Fan - 1) * (height - v[stack'[x]])
    <3>1. height \in Nat
      BY DEF IInv, TypeInv
    <3>2. (Fan - 1) * 0 = 0 /\ 1 - 1 = 0 /\ height - height = 0
      BY <3>1
    <3> QED BY <2>4, <2>5, <3>2
  <2>10. Walk(u, v)'
    <3>1. height' = height /\ again' = FALSE /\ mask' = {} /\ yielded' = {}
      BY <1>1
    <3> QED BY <2>4, <2>5, <2>6, <2>7, <2>8, <2>9, <3>1 DEF Walk
  <2>11. TreeInv'
    <3>1. level'[2] = level'[1] + 1
      BY <1>1, <2>1
    <3> QED BY <2>2, <2>10, <3>1 DEF TreeInv
  <2>12. WalkInv'
    BY <1>1, <1>4 DEF WalkInv
  <2> QED BY <1>2, <1>3, <2>11, <2>12 DEF IInv
<1>5. CASE ~ hasTree
  <2>1. TreeInv'
    BY <1>1, <1>5 DEF TreeInv
  <2>2. WalkInv'
    BY <1>1, <1>5 DEF WalkInv, Answered
  <2> QED BY <1>2, <1>3, <2>1, <2>2 DEF IInv
<1> QED BY <1>4, <1>5

(* A walk goes on only in a tree. *)
LEMMA WalkGiven ==
  ASSUME IInv, pc \in {"query", "drained"}, mask # {} \/ stack # <<>>
  PROVE  /\ hasTree
         /\ \E u, v : /\ Tree(nodes, u, v)
                      /\ Top(nodes, level[1], level[2], height, u, v)
                      /\ level[2] = level[1] + 1 /\ Walk(u, v)
<1>1. hasTree
  BY DEF IInv, WalkInv
<1> QED BY <1>1 DEF IInv, TreeInv

(* A step of a query that leaves a walk leaves the invariant. *)
LEMMA WalkKeeps ==
  ASSUME IInv, UNCHANGED <<items, itemCap, tree>>, pc = "query", pc' = "query",
         probe' = probe, again' = FALSE, hasTree, NEW u, NEW v, Tree(nodes, u, v),
         Top(nodes, level[1], level[2], height, u, v), Walk(u, v)'
  PROVE  IInv'
<1>1. /\ items' = items /\ itemCap' = itemCap /\ nodes' = nodes /\ level' = level
      /\ height' = height /\ hasTree' = hasTree
  BY DEF tree
<1>2. TypeInv' /\ ArenaInv'
  <2>1. TypeInv /\ ArenaInv
    BY DEF IInv
  <2>2. TypeInv'
    BY <1>1, <2>1 DEF TypeInv
  <2>3. ArenaInv'
    BY <1>1, <2>1 DEF ArenaInv
  <2> QED BY <2>2, <2>3
<1>3. Tree(nodes, u, v)' /\ Top(nodes, level[1], level[2], height, u, v)'
  BY <1>1, TreeStays
<1>4. TreeInv'
  <2>1. level'[2] = level'[1] + 1
    BY <1>1 DEF IInv, TreeInv
  <2> QED BY <1>3, <2>1 DEF TreeInv
<1>5. WalkInv'
  BY <1>1 DEF WalkInv
<1> QED BY <1>2, <1>4, <1>5 DEF IInv

(* A hit left in the mask is returned. *)
LEMMA NextHitKeeps ==
  ASSUME IInv, NextHit
  PROVE  IInv'
<1> DEFINE m == Min(mask)
           node == nodes[at]
           id == node[m].id
<1>1. /\ pc = "query" /\ mask # {} /\ yielded' = yielded \cup {id}
      /\ again' = (again \/ id \in yielded) /\ mask' = mask \ {m}
      /\ UNCHANGED <<items, itemCap, tree>> /\ pc' = pc /\ stack' = stack /\ at' = at
      /\ probe' = probe /\ expected' = expected
  BY DEF NextHit, Yield
<1>2. nodes' = nodes /\ height' = height /\ items' = items
  BY <1>1 DEF tree
<1>3. /\ hasTree
      /\ \E u, v : /\ Tree(nodes, u, v)
                   /\ Top(nodes, level[1], level[2], height, u, v) /\ Walk(u, v)
  BY <1>1, WalkGiven
<1>4. PICK u, v : /\ Tree(nodes, u, v)
                  /\ Top(nodes, level[1], level[2], height, u, v) /\ Walk(u, v)
  BY <1>3
<1>5. at \in 1..Len(nodes) /\ mask \subseteq 1..Len(node) /\ \A l \in mask : node[l].object
  BY <1>1, <1>4 DEF Walk
<1>6. Len(node) \in Nat
  BY <1>4, <1>5 DEF Tree, NodeOK
<1>7. m \in mask
  BY <1>1, <1>5, <1>6, LowestLane
<1> HIDE DEF m
<1>8. \A l, k \in mask : l # k => node[l].id # node[k].id
  <2> SUFFICES ASSUME NEW l \in mask, NEW k \in mask, l # k
               PROVE  node[l].id # node[k].id
    OBVIOUS
  <2>1. /\ l \in 1..Len(nodes[at]) /\ nodes[at][l].object
        /\ k \in 1..Len(nodes[at]) /\ nodes[at][k].object
    BY <1>5
  <2>2. Below(u, nodes[at][l]) = {nodes[at][l].id}
    BY <1>4, <1>5, <2>1, UnderLanes
  <2>3. Below(u, nodes[at][k]) = {nodes[at][k].id}
    BY <1>4, <1>5, <2>1, UnderLanes
  <2>4. Below(u, nodes[at][l]) \cap Below(u, nodes[at][k]) = {}
    BY <1>4, <1>5, <2>1, UnderLanes
  <2> QED BY <2>2, <2>3, <2>4
<1> HIDE DEF node
<1>9. Stashed = {node[l].id : l \in mask} /\ Stashed' = {node[l].id : l \in mask \ {m}}
  BY <1>1, <1>2 DEF Stashed, node
<1>10. id \in Stashed /\ Stashed' = Stashed \ {id}
  BY <1>7, <1>8, <1>9
<1>11. id \notin yielded /\ ~ again /\ again' = FALSE
  BY <1>1, <1>4, <1>10 DEF Walk
<1> HIDE DEF id
<1>12. /\ yielded' \cup Stashed' = yielded \cup Stashed
       /\ yielded' \cap Stashed' = {}
  BY <1>1, <1>4, <1>10 DEF Walk
<1>13. Walk(u, v)'
  <2>1. /\ stack' \in Seq(1..Len(nodes'))
        /\ \A x \in 1..Len(stack') : x - 1 <= (Fan - 1) * (height' - v[stack'[x]])
        /\ \A x, y \in 1..Len(stack') : x # y => u[stack'[x]] \cap u[stack'[y]] = {}
        /\ expected' = {i \in Item : Overlap(items[i], probe)}
    BY <1>1, <1>2, <1>4 DEF Walk
  <2>2. {i \in Item : Overlap(items[i], probe)}' = {i \in Item : Overlap(items[i], probe)}
    BY <1>1, <1>2 DEF Item, Overlap
  <2>3. /\ \A x \in 1..Len(stack') : u[stack'[x]] \cap (yielded' \cup Stashed') = {}
        /\ yielded' \cup Stashed' \subseteq expected'
        /\ \A i \in expected' : \/ i \in yielded' \cup Stashed'
                                \/ \E x \in 1..Len(stack') : i \in u[stack'[x]]
    BY <1>1, <1>4, <1>12 DEF Walk
  <2>4. mask' # {} => /\ at' \in 1..Len(nodes') /\ mask' \subseteq 1..Len(nodes'[at'])
                      /\ \A l \in mask' : nodes'[at'][l].object
    BY <1>1, <1>2, <1>5 DEF node
  <2> QED BY <1>11, <1>12, <2>1, <2>2, <2>3, <2>4 DEF Walk
<1> QED BY <1>1, <1>3, <1>4, <1>11, <1>13, WalkKeeps

(* A node taken from the stack: its children that hit take its place, and its
   objects that hit are returned or left in the mask. *)
LEMMA DescendKeeps ==
  ASSUME IInv, Descend
  PROVE  IInv'
<1> DEFINE d == Len(stack)
           n == stack[d]
           node == nodes[n]
           w == Len(node)
           objects == {x \in Hits(node) : node[x].object}
           C == Hits(node) \ objects
           c == InOrder(C, <)
           k == Cardinality(C)
           sn == Front(stack) \o [j \in DOMAIN c |-> node[c[j]].id]
           I == {node[l].id : l \in objects}
<1>1. /\ pc = "query" /\ mask = {} /\ stack # <<>> /\ stack' = sn
      /\ UNCHANGED <<items, itemCap, tree>> /\ pc' = pc
      /\ probe' = probe /\ expected' = expected
      /\ IF objects = {} THEN UNCHANGED <<at, mask, yielded, again>>
         ELSE /\ yielded' = yielded \cup {node[Min(objects)].id}
              /\ again' = (again \/ node[Min(objects)].id \in yielded)
              /\ at' = n /\ mask' = objects \ {Min(objects)}
  BY DEF Descend, Pushed, Yield, Last
<1>2. /\ items' = items /\ nodes' = nodes /\ height' = height /\ hasTree' = hasTree
      /\ TypeInv
  BY <1>1 DEF tree, IInv
<1>3. /\ hasTree
      /\ \E u, v : /\ Tree(nodes, u, v)
                   /\ Top(nodes, level[1], level[2], height, u, v) /\ Walk(u, v)
  BY <1>1, WalkGiven
<1>4. PICK u, v : /\ Tree(nodes, u, v)
                  /\ Top(nodes, level[1], level[2], height, u, v) /\ Walk(u, v)
  BY <1>3
<1>5. stack \in Seq(1..Len(nodes)) /\ d \in Nat \ {0} /\ n \in 1..Len(nodes)
  <2> DEFINE T == 1..Len(nodes)
  <2>1. stack \in Seq(T)
    BY <1>4 DEF Walk
  <2> HIDE DEF T
  <2>2. stack # <<>>
    BY <1>1
  <2>3. Len(stack) \in Nat \ {0} /\ stack[Len(stack)] \in T
    BY <2>1, <2>2
  <2> QED BY <2>1, <2>3 DEF T
<1>6. w \in 1..Fan /\ DOMAIN node = 1..w /\ height \in Nat /\ v[n] \in Nat
  <2>1. node \in Seq(Lane) /\ height \in Nat
    BY <1>2, <1>5 DEF TypeInv
  <2>2. w \in 1..Fan /\ v[n] \in Nat
    BY <1>4, <1>5 DEF Tree, NodeOK
  <2> QED BY <2>1, <2>2
<1> HIDE DEF w
<1>7. /\ Hits(node) \subseteq 1..w /\ C \in SUBSET (1..w) /\ objects \in SUBSET (1..w)
      /\ \A l \in objects : node[l].object /\ Overlap(node[l].box, probe)
      /\ \A l \in C : ~ node[l].object
      /\ \A l \in Hits(node) : l \in C \/ l \in objects
  BY <1>6 DEF Hits
<1>8. /\ k \in 0..w /\ c \in [1..k -> C]
      /\ \A x, y \in 1..k : c[x] = c[y] => x = y
      /\ \A l \in C : \E x \in 1..k : c[x] = l
  <2>1. w \in Nat /\ C \in SUBSET (1..w)
    BY <1>6, <1>7
  <2> HIDE DEF C
  <2> QED BY <2>1, LanesInOrder, Zenon
<1>9. \A l \in 1..w :
        /\ Below(u, node[l]) \subseteq u[n] /\ u[n] \subseteq Item
        /\ \A m \in 1..w : l # m => Below(u, node[l]) \cap Below(u, node[m]) = {}
        /\ node[l].object => /\ node[l].id \in Item
                             /\ Below(u, node[l]) = {node[l].id}
                             /\ node[l].box = items[node[l].id]
        /\ ~ node[l].object => /\ node[l].id \in 1..Len(nodes)
                               /\ Below(u, node[l]) = u[node[l].id]
                               /\ v[node[l].id] = v[n] - 1
  <2> HIDE DEF n
  <2> HIDE DEF objects, C, c, k, sn, I, node, d
  <2>1. Tree(nodes, u, v) /\ n \in 1..Len(nodes)
    BY <1>4, <1>5
  <2>2. \A l \in 1..Len(nodes[n]) :
          /\ Below(u, nodes[n][l]) \subseteq u[n] /\ u[n] \subseteq Item
          /\ \A m \in 1..Len(nodes[n]) :
               l # m => Below(u, nodes[n][l]) \cap Below(u, nodes[n][m]) = {}
          /\ nodes[n][l].object => /\ nodes[n][l].id \in Item
                                   /\ Below(u, nodes[n][l]) = {nodes[n][l].id}
                                   /\ nodes[n][l].box = items[nodes[n][l].id]
          /\ ~ nodes[n][l].object => /\ nodes[n][l].id \in 1..Len(nodes)
                                     /\ Below(u, nodes[n][l]) = u[nodes[n][l].id]
                                     /\ v[nodes[n][l].id] = v[n] - 1
    <3>1. ASSUME NEW l \in 1..Len(nodes[n])
          PROVE  /\ Below(u, nodes[n][l]) \subseteq u[n] /\ u[n] \subseteq Item
                 /\ \A m \in 1..Len(nodes[n]) :
                      l # m => Below(u, nodes[n][l]) \cap Below(u, nodes[n][m]) = {}
      BY <2>1, UnderLanes
    <3>2. ASSUME NEW l \in 1..Len(nodes[n])
          PROVE  nodes[n][l].object => /\ nodes[n][l].id \in Item
                                       /\ Below(u, nodes[n][l]) = {nodes[n][l].id}
                                       /\ nodes[n][l].box = items[nodes[n][l].id]
      BY <2>1, UnderLanes
    <3>3. ASSUME NEW l \in 1..Len(nodes[n])
          PROVE  ~ nodes[n][l].object => /\ nodes[n][l].id \in 1..Len(nodes)
                                         /\ Below(u, nodes[n][l]) = u[nodes[n][l].id]
                                         /\ v[nodes[n][l].id] = v[n] - 1
      BY <2>1, UnderLanes
    <3> QED BY <3>1, <3>2, <3>3
  <2> QED BY <2>2 DEF node, w
<1>10. \A i \in u[n] : Overlap(items[i], probe) => \E l \in Hits(node) : i \in Below(u, node[l])
  BY <1>2, <1>4, <1>5, LaneIsHit
<1> HIDE DEF n, node, objects, C, c, k
(* The new stack *)
<1>11. /\ sn \in Seq(1..Len(nodes)) /\ Len(sn) = d - 1 + k
       /\ \A y \in 1..d - 1 : sn[y] = stack[y]
       /\ \A j \in 1..k : sn[d - 1 + j] = node[c[j]].id
  <2> DEFINE ids == [j \in DOMAIN c |-> node[c[j]].id]
             T == 1..Len(nodes)
  <2>1. k \in Nat /\ DOMAIN c = 1..k
    BY <1>6, <1>8
  <2>2. \A j \in 1..k : node[c[j]].id \in T
    <3> SUFFICES ASSUME NEW j \in 1..k PROVE node[c[j]].id \in T
      OBVIOUS
    <3>1. c[j] \in C
      BY <1>8
    <3>2. c[j] \in 1..w /\ ~ node[c[j]].object
      BY <1>7, <3>1
    <3> QED BY <1>9, <3>2
  <2> HIDE DEF T
  <2>3. /\ ids \in [1..k -> T] /\ \A j \in 1..k : ids[j] = node[c[j]].id
    BY <2>1, <2>2
  <2> HIDE DEF ids
  <2>4. ids \in Seq(T) /\ Len(ids) = k
    BY <2>1, <2>3
  <2>5. stack \in Seq(T) /\ d \in Nat \ {0}
    BY <1>5 DEF T
  <2> DEFINE front == Front(stack)
  <2>6. /\ front \in Seq(T) /\ Len(front) = d - 1
        /\ \A y \in 1..d - 1 : front[y] = stack[y]
    <3>1. front = SubSeq(stack, 1, d - 1)
      BY DEF Front
    <3> HIDE DEF front, d
    <3>2. 1 \in Int /\ d - 1 \in Int /\ d - 1 - 1 + 1 = d - 1 /\ (1 > d - 1 => d - 1 = 0)
      BY <2>5
    <3>3. \A y \in 1..d - 1 : stack[y] \in T
      BY <2>5 DEF d
    <3>4. /\ front \in Seq(T) /\ Len(front) = IF 1 <= d - 1 THEN d - 1 - 1 + 1 ELSE 0
          /\ \A y \in 1..d - 1 - 1 + 1 : front[y] = stack[1 + y - 1]
      BY <3>1, <3>2, <3>3, SubSeqProperties
    <3>5. \A y \in 1..d - 1 : 1 + y - 1 = y
      OBVIOUS
    <3> QED BY <3>2, <3>4, <3>5
  <2>7. sn = front \o ids
    BY DEF ids
  <2> HIDE DEF sn, front, d
  <2>8. d - 1 \in Nat
    BY <2>5
  <2>9. /\ sn \in Seq(T) /\ Len(sn) = d - 1 + k
        /\ \A i \in 1..d - 1 + k : sn[i] = IF i <= d - 1 THEN front[i] ELSE ids[i - (d - 1)]
    <3>1. /\ front \o ids \in Seq(T) /\ Len(front \o ids) = Len(front) + Len(ids)
          /\ \A i \in 1..Len(front) + Len(ids) :
               (front \o ids)[i] = IF i <= Len(front) THEN front[i]
                                   ELSE ids[i - Len(front)]
      BY <2>4, <2>6, ConcatProperties
    <3> QED BY <2>4, <2>6, <2>7, <3>1
  <2>10. \A y \in 1..d - 1 : sn[y] = stack[y]
    BY <2>1, <2>6, <2>8, <2>9
  <2>11. \A j \in 1..k : sn[d - 1 + j] = node[c[j]].id
    <3> SUFFICES ASSUME NEW j \in 1..k PROVE sn[d - 1 + j] = node[c[j]].id
      OBVIOUS
    <3>1. d - 1 + j \in 1..d - 1 + k /\ ~ d - 1 + j <= d - 1 /\ d - 1 + j - (d - 1) = j
      BY <2>1, <2>8
    <3>2. sn[d - 1 + j] = ids[j]
      <4> DEFINE i == d - 1 + j
      <4>1. i \in 1..d - 1 + k /\ ~ i <= d - 1 /\ i - (d - 1) = j
        BY <2>1, <2>8, <3>1
      <4> HIDE DEF i
      <4>2. sn[i] = ids[j]
        BY <2>9, <4>1
      <4> QED BY <4>2 DEF i
    <3> QED BY <2>3, <3>2
  <2> QED BY <2>9, <2>10, <2>11 DEF T
<1> HIDE DEF sn, d
<1>12. \A y \in 1..Len(sn) : \/ y \in 1..d - 1 /\ sn[y] = stack[y]
                             \/ \E j \in 1..k : y = d - 1 + j /\ sn[y] = node[c[j]].id
  <2> SUFFICES ASSUME NEW y \in 1..Len(sn), ~ y \in 1..d - 1
               PROVE  \E j \in 1..k : y = d - 1 + j /\ sn[y] = node[c[j]].id
    BY <1>11
  <2>1. k \in Nat /\ d \in Nat \ {0}
    BY <1>5, <1>6, <1>8
  <2>2. y - (d - 1) \in 1..k /\ y = d - 1 + (y - (d - 1))
    BY <1>11, <2>1
  <2> QED BY <1>11, <2>2
<1>13. \A j \in 1..k : /\ c[j] \in 1..w /\ u[node[c[j]].id] = Below(u, node[c[j]])
                       /\ u[node[c[j]].id] \subseteq u[n] /\ v[node[c[j]].id] = v[n] - 1
  <2> SUFFICES ASSUME NEW j \in 1..k
               PROVE  /\ c[j] \in 1..w /\ u[node[c[j]].id] = Below(u, node[c[j]])
                      /\ u[node[c[j]].id] \subseteq u[n] /\ v[node[c[j]].id] = v[n] - 1
    OBVIOUS
  <2>1. c[j] \in C
    BY <1>8
  <2>2. c[j] \in 1..w /\ ~ node[c[j]].object
    BY <1>7, <2>1
  <2> QED BY <1>9, <2>2
<1>14. \A x, y \in 1..Len(sn) : x # y => u[sn[x]] \cap u[sn[y]] = {}
  <2>1. ASSUME NEW x \in 1..d - 1, NEW y \in 1..d
        PROVE  x # y => u[stack[x]] \cap u[stack[y]] = {}
    <3>1. x \in 1..d
      BY <1>5
    <3>2. \A i, j \in 1..d : i # j => u[stack[i]] \cap u[stack[j]] = {}
      BY <1>4 DEF Walk, d
    <3> QED BY <3>1, <3>2
  <2>2. d \in 1..d /\ stack[d] = n /\ \A x \in 1..d - 1 : x # d
    BY <1>5 DEF n
  <2>3. \A x \in 1..d - 1 : u[stack[x]] \cap u[n] = {}
    BY <2>1, <2>2
  <2>4. \A x \in 1..d - 1 : \A j \in 1..k : u[stack[x]] \cap u[node[c[j]].id] = {}
    BY <1>13, <2>3
  <2>5. \A j, m \in 1..k : j # m => u[node[c[j]].id] \cap u[node[c[m]].id] = {}
    <3> SUFFICES ASSUME NEW j \in 1..k, NEW m \in 1..k, j # m
                 PROVE  u[node[c[j]].id] \cap u[node[c[m]].id] = {}
      OBVIOUS
    <3>1. c[j] # c[m] /\ c[j] \in 1..w /\ c[m] \in 1..w
      BY <1>8, <1>13
    <3>2. Below(u, node[c[j]]) \cap Below(u, node[c[m]]) = {}
      BY <1>9, <3>1
    <3> QED BY <1>13, <3>2
  <2>6. \A x, y \in 1..d - 1 : x # y => u[stack[x]] \cap u[stack[y]] = {}
    <3>1. \A x \in 1..d - 1 : x \in 1..d
      BY <1>5
    <3> QED BY <2>1, <3>1
  <2> SUFFICES ASSUME NEW x \in 1..Len(sn), NEW y \in 1..Len(sn), x # y
               PROVE  u[sn[x]] \cap u[sn[y]] = {}
    OBVIOUS
  <2>7. CASE x \in 1..d - 1 /\ sn[x] = stack[x]
    <3>1. CASE y \in 1..d - 1 /\ sn[y] = stack[y]
      BY <2>6, <2>7, <3>1
    <3>2. CASE \E j \in 1..k : y = d - 1 + j /\ sn[y] = node[c[j]].id
      BY <2>4, <2>7, <3>2
    <3> QED BY <1>12, <3>1, <3>2
  <2>8. CASE \E j \in 1..k : x = d - 1 + j /\ sn[x] = node[c[j]].id
    <3>1. CASE y \in 1..d - 1 /\ sn[y] = stack[y]
      BY <2>4, <2>8, <3>1
    <3>2. CASE \E j \in 1..k : y = d - 1 + j /\ sn[y] = node[c[j]].id
      <4>1. PICK j \in 1..k : x = d - 1 + j /\ sn[x] = node[c[j]].id
        BY <2>8
      <4>2. PICK m \in 1..k : y = d - 1 + m /\ sn[y] = node[c[m]].id
        BY <3>2
      <4>3. j # m
        BY <4>1, <4>2
      <4> QED BY <2>5, <4>1, <4>2, <4>3
    <3> QED BY <1>12, <3>1, <3>2
  <2> QED BY <1>12, <2>7, <2>8
<1>15. \A y \in 1..Len(sn) : y - 1 <= (Fan - 1) * (height - v[sn[y]])
  <2> SUFFICES ASSUME NEW y \in 1..Len(sn)
               PROVE  y - 1 <= (Fan - 1) * (height - v[sn[y]])
    OBVIOUS
  <2>1. \A x \in 1..d : x - 1 <= (Fan - 1) * (height - v[stack[x]])
    BY <1>4 DEF Walk, d
  <2>2. CASE y \in 1..d - 1 /\ sn[y] = stack[y]
    <3>1. y \in 1..d
      BY <1>5, <2>2
    <3> QED BY <2>1, <2>2, <3>1
  <2>3. CASE \E j \in 1..k : y = d - 1 + j /\ sn[y] = node[c[j]].id
    <3>1. PICK j \in 1..k : y = d - 1 + j /\ sn[y] = node[c[j]].id
      BY <2>3
    <3>2. d - 1 <= (Fan - 1) * (height - v[n])
      BY <1>5, <2>1 DEF n
    <3>3. v[sn[y]] = v[n] - 1
      BY <1>13, <3>1
    <3> DEFINE e == height - v[n]
               g == (Fan - 1) * e
    <3>4. e \in Int /\ g \in Int /\ height - (v[n] - 1) = e + 1
          /\ (Fan - 1) * (e + 1) = g + (Fan - 1)
      BY <1>6
    <3>5. j \in Int /\ j - 1 <= Fan - 1 /\ d \in Int
      BY <1>5, <1>6, <1>8
    <3>6. (Fan - 1) * (height - v[sn[y]]) = g + (Fan - 1)
      BY <3>3, <3>4
    <3> HIDE DEF g, e
    <3>7. d - 1 <= g
      BY <3>2 DEF g, e
    <3>8. y - 1 <= g + (Fan - 1)
      BY <3>1, <3>4, <3>5, <3>7
    <3> QED BY <3>6, <3>8
  <2> QED BY <1>12, <2>2, <2>3
(* What is returned or left *)
<1>16. I \subseteq u[n] /\ I \subseteq expected /\ I \cap yielded = {} /\ Stashed = {}
  <2>1. Stashed = {}
    BY <1>1 DEF Stashed
  <2>2. u[n] \cap yielded = {}
    BY <1>4, <1>5, <2>1 DEF Walk, n, d
  <2>3. ASSUME NEW l \in objects
        PROVE  node[l].id \in u[n] /\ node[l].id \in expected
    <3>1. /\ node[l].id \in Item /\ Below(u, node[l]) = {node[l].id}
          /\ node[l].box = items[node[l].id] /\ Below(u, node[l]) \subseteq u[n]
      BY <1>7, <1>9
    <3>2. Overlap(items[node[l].id], probe)
      BY <1>7, <3>1
    <3>3. expected = {i \in Item : Overlap(items[i], probe)}
      BY <1>4 DEF Walk
    <3> QED BY <3>1, <3>2, <3>3
  <2> QED BY <2>1, <2>2, <2>3
<1>17. \A y \in 1..Len(sn) : u[sn[y]] \cap (yielded \cup I) = {}
  <2>1. \A x \in 1..d : u[stack[x]] \cap yielded = {}
    BY <1>4 DEF Walk, d
  <2>2. d \in 1..d /\ stack[d] = n /\ \A x \in 1..d - 1 : x # d /\ x \in 1..d
    BY <1>5 DEF n
  <2>3. \A x, y \in 1..d : x # y => u[stack[x]] \cap u[stack[y]] = {}
    BY <1>4 DEF Walk, d
  <2>4. \A x \in 1..d - 1 : u[stack[x]] \cap u[n] = {}
    BY <2>2, <2>3
  <2>5. \A x \in 1..d - 1 : u[stack[x]] \cap (yielded \cup I) = {}
    BY <1>16, <2>1, <2>2, <2>4
  <2>6. u[n] \cap yielded = {}
    BY <2>1, <2>2
  <2>7. ASSUME NEW j \in 1..k, NEW l \in objects
        PROVE  node[l].id \notin u[node[c[j]].id]
    <3>1. c[j] \in C /\ c[j] \in 1..w
      BY <1>8, <1>13
    <3>2. l \in 1..w /\ node[l].object /\ ~ node[c[j]].object
      BY <1>7, <3>1
    <3>3. Below(u, node[l]) \cap Below(u, node[c[j]]) = {}
      <4>1. l # c[j]
        BY <3>2
      <4> QED BY <1>9, <3>1, <3>2, <4>1
    <3>4. Below(u, node[l]) = {node[l].id}
      BY <1>9, <3>2
    <3> QED BY <1>13, <3>3, <3>4
  <2>8. \A j \in 1..k : u[node[c[j]].id] \cap (yielded \cup I) = {}
    BY <1>13, <2>6, <2>7
  <2> HIDE DEF I
  <2> QED BY <1>12, <2>5, <2>8
<1>18. \A i \in expected : \/ i \in yielded \cup I
                           \/ \E y \in 1..Len(sn) : i \in u[sn[y]]
  <2> SUFFICES ASSUME NEW i \in expected, i \notin yielded \cup I
               PROVE  \E y \in 1..Len(sn) : i \in u[sn[y]]
    OBVIOUS
  <2>1. PICK x \in 1..d : i \in u[stack[x]]
    BY <1>4, <1>16 DEF Walk, d
  <2>2. Overlap(items[i], probe)
    BY <1>4 DEF Walk
  <2>3. CASE x # d
    <3>1. x \in 1..d - 1 /\ x \in 1..Len(sn)
      BY <1>5, <1>6, <1>8, <1>11, <2>3
    <3> QED BY <1>11, <2>1, <3>1
  <2>4. CASE x = d
    <3>1. i \in u[n]
      BY <2>1, <2>4 DEF n
    <3>2. PICK l \in Hits(node) : i \in Below(u, node[l])
      BY <1>10, <2>2, <3>1
    <3>3. l \notin objects
      BY <1>7, <1>9, <3>2
    <3>4. l \in C
      BY <1>7, <3>3
    <3>5. PICK j \in 1..k : c[j] = l
      BY <1>8, <3>4
    <3>6. i \in u[node[c[j]].id]
      BY <1>13, <3>2, <3>5
    <3>7. d - 1 + j \in 1..Len(sn)
      BY <1>5, <1>6, <1>8, <1>11
    <3> QED BY <1>11, <3>6, <3>7
  <2> QED BY <2>3, <2>4
<1>19. /\ yielded' \cup Stashed' = yielded \cup I /\ Stashed' \cap yielded' = {}
       /\ again' = FALSE
       /\ mask' # {} => /\ at' \in 1..Len(nodes') /\ mask' \subseteq 1..Len(nodes'[at'])
                        /\ \A l \in mask' : nodes'[at'][l].object
  <2>1. ~ again
    BY <1>4 DEF Walk
  <2>2. CASE objects = {}
    <3>1. I = {}
      BY <2>2
    <3>2. yielded' = yielded /\ mask' = {} /\ again' = again
      BY <1>1, <2>2
    <3>3. Stashed' = {}
      BY <3>2 DEF Stashed
    <3> QED BY SMTT(30), <2>1, <3>1, <3>2, <3>3
  <2>3. CASE objects # {}
    <3> DEFINE o == Min(objects)
    <3>1. o \in objects
      <4>1. w \in Nat
        BY <1>6
      <4> QED BY <1>7, <2>3, <4>1, LowestLane
    <3>2. /\ yielded' = yielded \cup {node[o].id} /\ mask' = objects \ {o} /\ at' = n
          /\ again' = (again \/ node[o].id \in yielded)
      BY <1>1, <2>3
    <3> HIDE DEF o
    <3>3. Stashed' = {node[l].id : l \in objects \ {o}}
      BY <1>2, <3>2 DEF Stashed, node
    <3>4. \A l \in objects : l # o => node[l].id # node[o].id
      <4> SUFFICES ASSUME NEW l \in objects, l # o PROVE node[l].id # node[o].id
        OBVIOUS
      <4>1. /\ Below(u, node[l]) = {node[l].id} /\ Below(u, node[o]) = {node[o].id}
            /\ Below(u, node[l]) \cap Below(u, node[o]) = {}
        BY <1>7, <1>9, <3>1
      <4> QED BY <4>1
    <3>5. /\ I = {node[o].id} \cup Stashed' /\ node[o].id \notin Stashed'
          /\ node[o].id \in I
      BY <3>1, <3>3, <3>4
    <3> HIDE DEF I
    <3>6. again' = FALSE
      BY <1>16, <2>1, <3>2, <3>5
    <3>7. /\ yielded' \cup Stashed' = yielded \cup I /\ Stashed' \cap yielded' = {}
      BY <1>16, <3>2, <3>5
    <3>8. /\ at' \in 1..Len(nodes') /\ mask' \subseteq 1..Len(nodes'[at'])
          /\ \A l \in mask' : nodes'[at'][l].object
      <4>1. nodes'[at'] = node /\ mask' \subseteq objects /\ Len(node) = w
        BY <1>2, <3>2 DEF node, w
      <4> QED BY <1>2, <1>5, <1>7, <3>2, <4>1
    <3> QED BY <3>6, <3>7, <3>8
  <2> QED BY <2>2, <2>3
<1> HIDE DEF I
<1>20. Walk(u, v)'
  <2>1. /\ stack' \in Seq(1..Len(nodes'))
        /\ \A x \in 1..Len(stack') : x - 1 <= (Fan - 1) * (height' - v[stack'[x]])
        /\ \A x, y \in 1..Len(stack') : x # y => u[stack'[x]] \cap u[stack'[y]] = {}
    BY <1>1, <1>2, <1>11, <1>14, <1>15
  <2>2. /\ \A x \in 1..Len(stack') : u[stack'[x]] \cap (yielded' \cup Stashed') = {}
        /\ \A i \in expected' : \/ i \in yielded' \cup Stashed'
                                \/ \E x \in 1..Len(stack') : i \in u[stack'[x]]
    BY <1>1, <1>17, <1>18, <1>19
  <2>3. yielded' \cup Stashed' \subseteq expected'
    BY <1>1, <1>4, <1>16, <1>19 DEF Walk
  <2>4. expected' = {i \in Item : Overlap(items[i], probe)}'
    <3>1. {i \in Item : Overlap(items[i], probe)}' = {i \in Item : Overlap(items[i], probe)}
      BY <1>1, <1>2 DEF Item, Overlap
    <3> QED BY <1>1, <1>4, <3>1 DEF Walk
  <2> QED BY <1>19, <2>1, <2>2, <2>3, <2>4 DEF Walk
<1> QED BY <1>1, <1>3, <1>4, <1>19, <1>20, WalkKeeps

(* The query has found all there is. *)
LEMMA DrainKeeps ==
  ASSUME IInv, Drain
  PROVE  IInv'
<1>1. /\ pc = "query" /\ pc' = "drained" /\ mask = {} /\ stack = <<>> /\ at' = 0
      /\ mask' = mask /\ stack' = stack /\ items' = items /\ itemCap' = itemCap
      /\ nodes' = nodes /\ level' = level /\ height' = height /\ hasTree' = hasTree
      /\ probe' = probe /\ yielded' = yielded /\ expected' = expected /\ again' = again
  BY DEF Drain, tree
<1>2. TypeInv' /\ ArenaInv'
  <2>1. TypeInv /\ ArenaInv
    BY DEF IInv
  <2>2. TypeInv'
    BY <1>1, <2>1 DEF TypeInv
  <2>3. ArenaInv'
    BY <1>1, <2>1 DEF ArenaInv
  <2> QED BY <2>2, <2>3
<1>3. TreeInv'
  <2>1. CASE hasTree
    <3>1. PICK u, v : /\ Tree(nodes, u, v)
                      /\ Top(nodes, level[1], level[2], height, u, v)
                      /\ level[2] = level[1] + 1 /\ Walk(u, v)
      BY <1>1, <2>1 DEF IInv, TreeInv
    <3>2. Tree(nodes, u, v)' /\ Top(nodes, level[1], level[2], height, u, v)'
      BY <1>1, <3>1, TreeStays
    <3>3. Stashed = {} /\ Stashed' = {}
      BY <1>1 DEF Stashed
    <3>4. {i \in Item : Overlap(items[i], probe)}' = {i \in Item : Overlap(items[i], probe)}
      BY <1>1 DEF Item, Overlap
    <3>5. Walk(u, v)'
      BY <1>1, <3>1, <3>3, <3>4 DEF Walk
    <3>6. level'[2] = level'[1] + 1
      BY <1>1, <3>1
    <3> QED BY <3>2, <3>5, <3>6 DEF TreeInv
  <2>2. CASE ~ hasTree
    BY <1>1, <2>2 DEF TreeInv
  <2> QED BY <2>1, <2>2
<1>4. WalkInv'
  <2>1. ~ hasTree => Answered
    BY <1>1 DEF IInv, WalkInv
  <2> QED BY <1>1, <2>1 DEF WalkInv, Answered
<1> QED BY <1>2, <1>3, <1>4 DEF IInv

(* The caller is done with the answer. *)
LEMMA EndKeeps ==
  ASSUME IInv, End
  PROVE  IInv'
<1>1. /\ pc = "drained" /\ pc' = "idle" /\ yielded' = {} /\ expected' = {}
      /\ again' = FALSE /\ items' = items /\ itemCap' = itemCap
      /\ nodes' = nodes /\ level' = level /\ height' = height /\ hasTree' = hasTree
      /\ probe' = probe
  BY DEF End, tree
<1>2. TypeInv' /\ ArenaInv'
  <2>1. TypeInv /\ ArenaInv
    BY DEF IInv
  <2>2. TypeInv'
    BY <1>1, <2>1 DEF TypeInv
  <2>3. ArenaInv'
    BY <1>1, <2>1 DEF ArenaInv
  <2> QED BY <2>2, <2>3
<1>3. TreeInv'
  <2>1. CASE hasTree
    <3>1. PICK u, v : /\ Tree(nodes, u, v)
                      /\ Top(nodes, level[1], level[2], height, u, v)
                      /\ level[2] = level[1] + 1
      BY <2>1 DEF IInv, TreeInv
    <3>2. Tree(nodes, u, v)' /\ Top(nodes, level[1], level[2], height, u, v)'
      BY <1>1, <3>1, TreeStays
    <3>3. level'[2] = level'[1] + 1
      BY <1>1, <3>1
    <3> QED BY <1>1, <3>2, <3>3 DEF TreeInv
  <2>2. CASE ~ hasTree
    BY <1>1, <2>2 DEF TreeInv
  <2> QED BY <2>1, <2>2
<1>4. WalkInv'
  BY <1>1 DEF WalkInv, Answered
<1> QED BY <1>2, <1>3, <1>4 DEF IInv

-----------------------------------------------------------------------------
(* The theorems *)

(* The invariant is kept by every step. *)
LEMMA NextKeeps == IInv /\ [Next]_vars => IInv'
<1> SUFFICES ASSUME IInv, [Next]_vars PROVE IInv'
  OBVIOUS
<1>1. CASE \E b \in Box : Insert(b)
  BY <1>1, InsertKeeps
<1>2. CASE \E b \in Probe : Begin(b)
  BY <1>2, BeginKeeps
<1>3. CASE Clear
  BY <1>3, EmptyKeeps DEF Clear
<1>4. CASE Build
  BY <1>4, BuildKeeps
<1>5. CASE Pack
  BY <1>5, PackKeeps
<1>6. CASE NextHit
  BY <1>6, NextHitKeeps
<1>7. CASE Descend
  BY <1>7, DescendKeeps
<1>8. CASE Drain
  BY <1>8, DrainKeeps
<1>9. CASE End
  BY <1>9, EndKeeps
<1>10. CASE UNCHANGED vars
  <2>1. /\ items' = items /\ itemCap' = itemCap /\ nodes' = nodes /\ level' = level
        /\ height' = height /\ hasTree' = hasTree /\ pc' = pc /\ stack' = stack
        /\ at' = at /\ mask' = mask /\ probe' = probe /\ yielded' = yielded
        /\ expected' = expected /\ again' = again
    BY <1>10 DEF vars, tree, cursor
  <2>2. TypeInv' /\ ArenaInv' /\ WalkInv'
    BY <2>1 DEF IInv, TypeInv, ArenaInv, WalkInv, Answered
  <2>3. TreeInv'
    <3> SUFFICES ASSUME hasTree \/ pc = "pack"
                 PROVE  \E u, v : /\ Tree(nodes, u, v)'
                                  /\ Top(nodes, level[1], level[2], height, u, v)'
                                  /\ hasTree' => level'[2] = level'[1] + 1
                                  /\ pc' \in {"query", "drained"} => Walk(u, v)'
      BY <2>1 DEF TreeInv
    <3>1. PICK u, v : /\ Tree(nodes, u, v)
                      /\ Top(nodes, level[1], level[2], height, u, v)
                      /\ hasTree => level[2] = level[1] + 1
                      /\ pc \in {"query", "drained"} => Walk(u, v)
      BY DEF IInv, TreeInv
    <3>2. Tree(nodes, u, v)' /\ Top(nodes, level[1], level[2], height, u, v)'
      BY <2>1, <3>1, TreeStays
    <3>3. Stashed' = Stashed
      BY <2>1 DEF Stashed
    <3>4. {i \in Item : Overlap(items[i], probe)}' = {i \in Item : Overlap(items[i], probe)}
      BY <2>1 DEF Item, Overlap
    <3>5. pc' \in {"query", "drained"} => Walk(u, v)'
      BY <2>1, <3>1, <3>3, <3>4 DEF Walk
    <3>6. hasTree' => level'[2] = level'[1] + 1
      BY <2>1, <3>1
    <3> QED BY <3>2, <3>5, <3>6
  <2> QED BY <2>2, <2>3 DEF IInv
<1> QED BY <1>1, <1>2, <1>3, <1>4, <1>5, <1>6, <1>7, <1>8, <1>9, <1>10 DEF Next

(* Every state a caller can reach has the invariant. *)
LEMMA Invariance == Spec => []IInv
<1> QED BY InitKeeps, NextKeeps, PTL DEF Spec

(* A query returns each item it should, once, and no other: as its walk ends,
   nothing is left in the mask or on the stack (broadphase_query_next). *)
THEOREM AnswersExact == Spec => []YieldsOverlaps
<1>1. IInv => YieldsOverlaps
  <2> SUFFICES ASSUME IInv PROVE YieldsOverlaps
    OBVIOUS
  <2>1. CASE pc \in {"idle", "pack"}
    BY <2>1 DEF IInv, WalkInv, Answered, YieldsOverlaps
  <2>2. CASE pc \in {"query", "drained"} /\ ~ hasTree
    BY <2>2 DEF IInv, WalkInv, Answered, YieldsOverlaps
  <2>3. CASE pc \in {"query", "drained"} /\ hasTree
    <3>1. PICK u, v : Walk(u, v)
      BY <2>3 DEF IInv, TreeInv
    <3>2. ~ again /\ yielded \subseteq expected
      BY <3>1 DEF Walk
    <3>3. ASSUME pc = "drained"
          PROVE  expected \subseteq yielded
      <4>1. stack = <<>> /\ mask = {}
        BY <3>3 DEF IInv, WalkInv
      <4>2. Stashed = {} /\ 1..Len(stack) = {}
        BY <4>1 DEF Stashed
      <4> QED BY <3>1, <4>2 DEF Walk
    <3> QED BY <3>2, <3>3 DEF YieldsOverlaps
  <2> QED BY <2>1, <2>2, <2>3 DEF IInv, TypeInv
<1> QED BY <1>1, Invariance, PTL

(* The stack of a query holds the siblings that wait at each level but the
   last, and no more (broadphase_iter_t). *)
THEOREM StackSuffices == Spec => []StackBounded
<1>1. IInv => StackBounded
  <2> SUFFICES ASSUME IInv, pc = "query" PROVE StackBounded
    BY DEF StackBounded
  <2>1. CASE ~ hasTree
    <3>1. stack = <<>>
      BY <2>1 DEF IInv, WalkInv
    <3> QED BY <2>1, <3>1 DEF StackBounded
  <2>2. CASE hasTree
    <3>1. PICK u, v : /\ Tree(nodes, u, v)
                      /\ Top(nodes, level[1], level[2], height, u, v)
                      /\ level[2] = level[1] + 1 /\ Walk(u, v)
      BY <2>2 DEF IInv, TreeInv
    <3> DEFINE L == Len(stack)
    <3>2. L \in Nat /\ height \in Nat /\ \A x \in 1..L : stack[x] \in 1..Len(nodes)
      <4> DEFINE T == 1..Len(nodes)
      <4>1. stack \in Seq(T)
        BY <3>1 DEF Walk
      <4> HIDE DEF T
      <4>2. L \in Nat /\ \A x \in 1..L : stack[x] \in T
        BY <4>1
      <4> QED BY <4>2 DEF IInv, TypeInv, T
    <3>3. \A x \in 1..Len(nodes) : v[x] \in Nat \ {0}
      BY <3>1 DEF Tree
    <3>4. height \in Nat \ {0}
      <4>1. level[1] + 1 \in 1..Len(nodes) /\ level[1] + 1 \in level[1] + 1..level[2]
        BY <3>1 DEF IInv, TypeInv, Top
      <4>2. v[level[1] + 1] = height
        BY <3>1, <4>1 DEF Top
      <4> QED BY <3>3, <4>1, <4>2
    <3>5. L <= 1 + (Fan - 1) * (height - 1)
      <4>1. CASE L = 0
        <5>1. (Fan - 1) * (height - 1) \in Nat
          BY <3>4
        <5> QED BY <4>1, <5>1
      <4>2. CASE L > 0
        <5> DEFINE k == v[stack[L]]
        <5>1. L \in 1..L /\ k \in Nat \ {0}
          BY <3>2, <3>3, <4>2
        <5>2. L - 1 <= (Fan - 1) * (height - k)
          BY <3>1, <5>1 DEF Walk
        <5> HIDE DEF k
        <5>3. (Fan - 1) * (k - 1) \in Nat
          BY <5>1
        <5>4. (Fan - 1) * (height - 1) = (Fan - 1) * (height - k) + (Fan - 1) * (k - 1)
          BY <3>4, <5>1
        <5>5. (Fan - 1) * (height - k) \in Int
          BY <3>4, <5>1
        <5> QED BY <3>2, <5>2, <5>3, <5>4, <5>5
      <4> QED BY <3>2, <4>1, <4>2
    <3> QED BY <2>2, <3>5 DEF StackBounded
  <2> QED BY <2>1, <2>2
<1> QED BY <1>1, Invariance, PTL

(* With the eight lanes of the code, the stack of 32 holds what a query leaves
   waiting in a tree of up to five levels, and its assertion cannot fail there
   (broadphase.c:457). *)
THEOREM FiveLevelsFit ==
  ASSUME Fan = 8
  PROVE  Spec => [](pc = "query" /\ height <= 5 => Len(stack) <= StackMax)
<1>1. IInv /\ StackBounded => (pc = "query" /\ height <= 5 => Len(stack) <= StackMax)
  <2> SUFFICES ASSUME IInv, pc = "query", height <= 5,
                      Len(stack) <= IF hasTree THEN 1 + (Fan - 1) * (height - 1) ELSE 0
               PROVE  Len(stack) <= StackMax
    BY DEF StackBounded
  <2>1. Len(stack) \in Nat
    <3>1. CASE ~ hasTree
      <4>1. stack = <<>>
        BY <3>1 DEF IInv, WalkInv
      <4> QED BY <4>1
    <3>2. CASE hasTree
      BY <3>2 DEF IInv, TreeInv, Walk
    <3> QED BY <3>1, <3>2
  <2>2. height \in Nat
    BY DEF IInv, TypeInv
  <2> QED BY <2>1, <2>2 DEF StackMax
<1> QED BY <1>1, Invariance, StackSuffices, PTL

(* The arena holds the nodes of a tree that has no more levels over its leaves
   than a node has lanes, whatever each level left over: the assertion of
   bp_pack_level. *)
THEOREM ArenaSuffices == Spec => [](height <= Fan + 1 => NodesFit)
<1>1. IInv => (height <= Fan + 1 => NodesFit)
  <2> SUFFICES ASSUME IInv, height <= Fan + 1 PROVE NodesFit
    OBVIOUS
  <2> DEFINE N == Len(nodes)
             f == Fan - 1
             a == f * N
             h == IF height = 0 THEN 0 ELSE height - 1
             b == f * h
  <2>1. /\ N \in Nat /\ h \in Nat /\ h <= Fan /\ itemCap \in Nat
        /\ level[1] \in Nat /\ level[2] \in Nat
        /\ level[1] <= level[2] /\ a + (level[2] - level[1]) <= itemCap + b
    BY DEF IInv, TypeInv, ArenaInv
  <2>2. f \in Nat \ {0} /\ a \in Int /\ b \in Int
    BY <2>1
  <2>3. b <= f * Fan
    <3>1. f * (Fan - h) \in Nat
      BY <2>1, <2>2
    <3> HIDE DEF h, f
    <3>2. f * Fan = b + f * (Fan - h)
      BY <2>1, <2>2
    <3>3. f * (Fan - h) \in Int /\ f * Fan \in Int
      BY <2>1, <2>2
    <3> QED BY <2>2, <3>1, <3>2, <3>3
  <2>4. f * (N - Fan) = a - f * Fan
    BY <2>1, <2>2
  <2> HIDE DEF a, b, N, f, h
  <2>5. f * (N - Fan) <= itemCap
    <3>1. f * Fan \in Int
      BY <2>2
    <3> QED BY <2>1, <2>2, <2>3, <2>4, <3>1
  <2> DEFINE q == itemCap \div f
  <2>6. q \in Int /\ itemCap < f * (q + 1)
    BY <2>1, <2>2
  <2> HIDE DEF q
  <2>7. N - Fan <= q
    <3> SUFFICES ASSUME N - Fan >= q + 1 PROVE FALSE
      BY <2>1, <2>6
    <3>1. f * (N - Fan - (q + 1)) \in Nat
      BY <2>1, <2>2, <2>6
    <3>2. f * (N - Fan) = f * (q + 1) + f * (N - Fan - (q + 1))
      BY <2>1, <2>2, <2>6
    <3>3. f * (q + 1) \in Int /\ f * (N - Fan) \in Int
      BY <2>1, <2>2, <2>6
    <3> QED BY <2>1, <2>5, <2>6, <3>1, <3>2, <3>3
  <2>8. N <= q + Fan
    BY <2>1, <2>6, <2>7
  <2> QED BY <2>8 DEF NodesFit, NodeCap, N, q, f
<1> QED BY <1>1, Invariance, PTL
=============================================================================
