---------------------------- MODULE InputProofs ----------------------------
(* Proofs about InputRing and InputSync, for every number of players, every
   size of ring and cap, every redundancy and size of a packet, and every set
   of inputs and commands. *)
EXTENDS InputRing, InputSync, FiniteSetTheorems, SequenceTheorems,
        WellFoundedInduction, TLAPS

USE PlayerAssumption, BufAssumption, EmptyAssumption, TickAssumption

-----------------------------------------------------------------------------
(* Arithmetic: the position of a tick in a ring *)

(* Division with remainder. *)
LEMMA Division ==
  ASSUME NEW a \in Nat, NEW n \in Nat \ {0}
  PROVE  /\ a % n \in 0..n - 1 /\ a \div n \in Int
         /\ a = n * (a \div n) + (a % n)
OBVIOUS

(* A multiple of n, unless it is 0, is at least n. *)
LEMMA MultipleIsLarge ==
  ASSUME NEW n \in Nat, NEW k \in Int, k >= 1
  PROVE  n * k >= n
OBVIOUS

(* Two ticks less than n apart have different positions. *)
LEMMA NearApart ==
  ASSUME NEW n \in Nat \ {0}, NEW a \in Nat, NEW b \in Nat,
         a < b, b - a < n
  PROVE  a % n # b % n
<1> DEFINE p == a \div n
           q == b \div n
<1>1. /\ p \in Int /\ q \in Int /\ a = n * p + (a % n) /\ b = n * q + (b % n)
  BY Division
<1> HIDE DEF p, q
<1> SUFFICES ASSUME a % n = b % n PROVE FALSE
  OBVIOUS
<1>2. b - a = n * (q - p)
  BY <1>1
<1>3. q - p >= 1 => n * (q - p) >= n
  BY <1>1, MultipleIsLarge
<1>4. p - q >= 0 => n * (p - q) >= 0
  BY <1>1
<1>5. n * (q - p) = 0 - n * (p - q)
  BY <1>1
<1> QED BY <1>1, <1>2, <1>3, <1>4, <1>5

(* A number from its quotient and its remainder. *)
LEMMA RemainderOf ==
  ASSUME NEW n \in Nat \ {0}, NEW a \in Nat, NEW q \in Int, NEW s \in 0..n - 1,
         a = n * q + s
  PROVE  a % n = s
<1> DEFINE p == a \div n
           r == a % n
<1>1. p \in Int /\ r \in 0..n - 1 /\ a = n * p + r
  BY Division
<1> HIDE DEF p, r
<1>2. n * (p - q) = s - r /\ n * (q - p) = r - s
  <2>1. n * (p - q) = n * p - n * q /\ n * (q - p) = n * q - n * p
    BY <1>1
  <2> QED BY <1>1, <2>1
<1>3. ~ p - q >= 1 /\ ~ q - p >= 1
  <2>1. p - q >= 1 => n * (p - q) >= n
    BY <1>1, MultipleIsLarge
  <2>2. q - p >= 1 => n * (q - p) >= n
    BY <1>1, MultipleIsLarge
  <2> QED BY <1>1, <1>2, <2>1, <2>2
<1>4. p = q
  BY <1>1, <1>3
<1> QED BY <1>1, <1>4 DEF r

(* The remainder by a divisor n of m is that of the remainder by m. *)
LEMMA RemainderTwice ==
  ASSUME NEW n \in Nat \ {0}, NEW m \in Nat \ {0}, m % n = 0, NEW a \in Nat
  PROVE  a % n = (a % m) % n
<1> DEFINE c == m \div n
           p == a \div m
           r == a % m
           k == r \div n
           x == r % n
           q == c * p + k
<1>1. c \in Int /\ m = n * c
  BY Division
<1>2. p \in Int /\ r \in Nat /\ a = m * p + r
  BY Division
<1>3. k \in Int /\ x \in 0..n - 1 /\ r = n * k + x
  BY <1>2, Division
<1> HIDE DEF c, p, k, x, r
<1>4. a = (n * c) * p + (n * k + x)
  BY <1>1, <1>2, <1>3
<1>5. (n * c) * p = n * (c * p)
  BY <1>1, <1>2
<1>6. q \in Int /\ c * p \in Int /\ n * q = n * (c * p) + n * k
  BY <1>1, <1>2, <1>3
<1>7. a = n * q + x
  BY <1>1, <1>2, <1>3, <1>4, <1>5, <1>6
<1> HIDE DEF q
<1>8. a % n = x
  BY <1>3, <1>6, <1>7, RemainderOf
<1> QED BY <1>8 DEF x, r

(* Ticks that share a position in a ring share it in each ring whose size
   divides it. *)
LEMMA CoarserPosition ==
  ASSUME NEW n \in Nat \ {0}, NEW m \in Nat \ {0}, m % n = 0,
         NEW a \in Nat, NEW b \in Nat, a % m = b % m
  PROVE  a % n = b % n
<1>1. a % n = (a % m) % n /\ b % n = (b % m) % n
  BY RemainderTwice
<1> QED BY <1>1

(* A doubling of a doubling is one. *)
LEMMA DoubledTwice ==
  ASSUME NEW n \in Nat \ {0}, NEW m \in Doubled(n), NEW w \in Doubled(m)
  PROVE  w \in Doubled(n)
<1>1. m \in Nat \ {0} /\ w \in Nat \ {0} /\ n <= m /\ m <= w /\ w <= BufMax
      /\ m % n = 0 /\ w % m = 0 /\ BufMax % w = 0
  BY DEF Doubled
<1>2. 0 % m = 0 /\ 0 % n = 0
  BY <1>1
<1>3. w % n = 0 % n
  BY <1>1, <1>2, CoarserPosition
<1> QED BY <1>1, <1>2, <1>3 DEF Doubled

(* The order of the natural numbers, as a relation, is well-founded. *)
LEMMA LessIsWellFounded ==
  \E less : /\ IsWellFoundedOn(less, Nat)
            /\ \A x, y \in Nat : <<x, y>> \in less <=> x < y
<1>1. \A x, y \in Nat : <<x, y>> \in OpToRel(<, Nat) <=> x < y
  BY DEF OpToRel
<1> QED BY <1>1, NatLessThanWellFounded, Zenon

(* A set of natural numbers that is not empty has a least element. *)
LEMMA LeastNumber ==
  ASSUME NEW S \in SUBSET Nat, S # {}
  PROVE  /\ Min(S) \in S
         /\ \A x \in S : Min(S) <= x
<1>1. PICK less : /\ IsWellFoundedOn(less, Nat)
                  /\ \A x, y \in Nat : <<x, y>> \in less <=> x < y
  BY LessIsWellFounded
<1>2. PICK x \in S : \A y \in S : <<y, x>> \notin less
  BY ZenonT(40), <1>1, WFMin
<1>3. ASSUME NEW y \in S
      PROVE  x <= y
  <2>1. x \in Nat /\ y \in Nat
    OBVIOUS
  <2>2. ~ y < x
    BY <1>1, <1>2, <2>1
  <2> QED BY <2>1, <2>2
<1> QED BY <1>3 DEF Min

(* A set that has 0 and from each number the next one has all numbers up to N. *)
LEMMA Climb ==
  ASSUME NEW N \in Nat, NEW S, 0 \in S,
         \A k \in 0..N - 1 : k \in S => k + 1 \in S
  PROVE  N \in S /\ \A k \in 0..N : k \in S
<1> DEFINE D == {k \in 0..N : k \notin S}
<1> SUFFICES ASSUME D # {} PROVE FALSE
  OBVIOUS
<1>1. D \in SUBSET Nat
  OBVIOUS
<1>2. Min(D) \in D /\ \A x \in D : Min(D) <= x
  <2> HIDE DEF D
  <2> QED BY <1>1, LeastNumber
<1>3. PICK k \in D : \A x \in D : k <= x
  BY <1>2
<1>4. k # 0 /\ k - 1 \in 0..N - 1 /\ k - 1 \notin D /\ k - 1 \in 0..N
  BY <1>3
<1>5. k - 1 \in S => (k - 1) + 1 \in S
  BY <1>4
<1> QED BY <1>3, <1>4, <1>5

(* Numbers up to N have a greatest one. *)
LEMMA GreatestNumber ==
  ASSUME NEW N \in Nat, NEW S \in SUBSET (0..N), S # {}
  PROVE  /\ Max(S) \in S
         /\ \A x \in S : x <= Max(S)
<1> DEFINE D == {N - x : x \in S}
<1>1. D \in SUBSET Nat /\ D # {}
  <2>1. \A x \in S : N - x \in Nat
    OBVIOUS
  <2>2. PICK x \in S : TRUE
    OBVIOUS
  <2>3. N - x \in D
    OBVIOUS
  <2> QED BY <2>1, <2>3
<1>2. Min(D) \in D /\ \A d \in D : Min(D) <= d
  <2> HIDE DEF D
  <2> QED BY <1>1, LeastNumber
<1>3. PICK d \in D : \A e \in D : d <= e
  BY <1>2
<1>4. PICK x \in S : d = N - x
  BY <1>3
<1>5. ASSUME NEW y \in S
      PROVE  y <= x
  <2>1. N - y \in D
    OBVIOUS
  <2>2. N - x <= N - y
    BY <1>3, <1>4, <2>1
  <2> QED BY <2>2
<1> QED BY <1>5 DEF Max

(* The least of two numbers. *)
LEMMA LeastOfTwo ==
  ASSUME NEW a \in Nat, NEW b \in Nat
  PROVE  Min({a, b}) \in Nat /\ Min({a, b}) <= a /\ Min({a, b}) <= b
<1> DEFINE S == {a, b}
<1>1. S \in SUBSET Nat /\ S # {}
  OBVIOUS
<1>2. Min(S) \in S /\ \A x \in S : Min(S) <= x
  <2> HIDE DEF S
  <2> QED BY <1>1, LeastNumber
<1>3. a \in S /\ b \in S
  OBVIOUS
<1>4. Min(S) \in Nat /\ Min(S) <= a /\ Min(S) <= b
  <2> HIDE DEF S
  <2> QED BY <1>1, <1>2, <1>3
<1> QED BY <1>4

(* A sequence of n elements, given as a function. *)
LEMMA LengthOf ==
  ASSUME NEW n \in Nat, NEW f, f = [i \in 1..n |-> f[i]]
  PROVE  f \in Seq({f[i] : i \in 1..n}) /\ Len(f) = n
<1> DEFINE S == {f[i] : i \in 1..n}
<1>1. f \in [1..n -> S]
  OBVIOUS
<1> HIDE DEF S
<1>2. f \in Seq(S)
  BY <1>1, SeqDef
<1>3. DOMAIN f = 1..n
  BY <1>1
<1>4. Len(f) = n
  BY <1>2, <1>3
<1> QED BY <1>2, <1>4 DEF S

-----------------------------------------------------------------------------
(* Rings *)

(* The sizes a ring can have. *)
Size == Doubled(BufInit)

(* The rings of n rows: each row at the position of its tick, if it has one. *)
RingOf(n) ==
  {ring \in [0..n - 1 -> Row] :
     \A t \in 0..n - 1 : IF ring[t].tick = Nil THEN ring[t] = NoRow
                                               ELSE ring[t].tick % n = t}

(* The row of tick T, wherever it is. *)
RowOf(ring, T) == IF At(ring, T).tick = T THEN At(ring, T) ELSE NoRow

(* Every size is a divisor of the cap, and at most the cap. *)
LEMMA SizeType ==
  ASSUME NEW n \in Size
  PROVE  /\ n \in Nat \ {0} /\ n <= BufMax /\ BufMax \in Doubled(n)
         /\ Doubled(n) \subseteq Size
<1>1. n \in Nat \ {0} /\ n <= BufMax /\ BufMax % n = 0
  BY DEF Size, Doubled
<1>2. BufMax % BufMax = 0
  <2>1. BufMax = BufMax * 1 + 0
    OBVIOUS
  <2> QED BY <2>1, RemainderOf
<1>3. \A m \in Doubled(n) : m \in Size
  BY <1>1, DoubledTwice DEF Size
<1> QED BY <1>1, <1>2, <1>3 DEF Doubled

(* The first size is one. *)
LEMMA InitSize == BufInit \in Size
<1>1. BufInit % BufInit = 0
  <2>1. BufInit = BufInit * 1 + 0
    OBVIOUS
  <2> QED BY <2>1, RemainderOf
<1>2. BufInit <= BufMax
  <2>1. BufMax = BufInit * (BufMax \div BufInit) + 0 /\ BufMax \div BufInit \in Int
    BY Division
  <2>2. BufMax \div BufInit >= 1
    <3>1. BufMax \div BufInit <= 0 => BufInit * (BufMax \div BufInit) <= 0
      BY <2>1
    <3> QED BY <2>1, <3>1
  <2> QED BY <2>1, <2>2, MultipleIsLarge
<1> QED BY <1>1, <1>2 DEF Size, Doubled

(* The row without a tick is a row. *)
LEMMA NoRowType == NoRow \in Row
BY DEF NoRow, Row

(* A tick is a number and not the sentinel. *)
LEMMA TickType ==
  ASSUME NEW T \in Tick
  PROVE  T \in Nat /\ T # Nil
BY DEF Tick, Nil

(* The size of a ring. *)
LEMMA RingSize ==
  ASSUME NEW n \in Nat \ {0}, NEW ring \in [0..n - 1 -> Row]
  PROVE  DOMAIN ring = 0..n - 1 /\ Cardinality(DOMAIN ring) = n
<1>1. Cardinality(0..n - 1) = n
  BY FS_Interval
<1> QED BY <1>1

(* The rows of a ring are in place. *)
LEMMA RingInPlace ==
  ASSUME NEW n \in Size, NEW ring \in RingOf(n)
  PROVE  InPlace(ring)
<1>1. ring \in [0..n - 1 -> Row] /\ n \in Nat \ {0}
  BY SizeType DEF RingOf
<1>2. DOMAIN ring = 0..n - 1 /\ Cardinality(DOMAIN ring) = n
  BY <1>1, RingSize
<1>3. \A t \in DOMAIN ring : ring[t].tick # Nil => ring[t].tick % n = t
  BY <1>2 DEF RingOf
<1> QED BY <1>1, <1>2, <1>3 DEF InPlace, Size

(* Where a ring keeps tick T. *)
LEMMA RingAt ==
  ASSUME NEW n \in Nat \ {0}, NEW ring \in [0..n - 1 -> Row], NEW T \in Nat
  PROVE  /\ T % n \in 0..n - 1 /\ At(ring, T) = ring[T % n]
         /\ At(ring, T) \in Row
<1>1. T % n \in 0..n - 1
  BY Division
<1>2. At(ring, T) = ring[T % n]
  BY RingSize DEF At
<1>3. \A t \in 0..n - 1 : ring[t] \in Row
  OBVIOUS
<1>4. At(ring, T) \in Row
  BY <1>1, <1>2, <1>3, Zenon
<1> QED BY <1>1, <1>2, <1>4

(* A tick is resident when the row found for it has one. *)
LEMMA RowOfType ==
  ASSUME NEW n \in Nat \ {0}, NEW ring \in [0..n - 1 -> Row], NEW T \in Tick
  PROVE  /\ RowOf(ring, T) \in Row /\ T # Nil
         /\ RowOf(ring, T).tick = T <=> At(ring, T).tick = T
         /\ RowOf(ring, T).tick # T => RowOf(ring, T) = NoRow
         /\ RowOf(ring, T).tick = T => RowOf(ring, T) = At(ring, T)
<1>1. At(ring, T) \in Row
  BY TickType, RingAt
<1>2. NoRow \in Row /\ NoRow.tick = Nil
  BY NoRowType DEF NoRow
<1>3. T # Nil
  BY DEF Tick, Nil
<1> QED BY <1>1, <1>2, <1>3 DEF RowOf

(* Ticks at one position have one row. *)
LEMMA SamePosition ==
  ASSUME NEW n \in Nat \ {0}, NEW ring \in [0..n - 1 -> Row],
         NEW P \in Tick, NEW T \in Tick, P % n = T % n
  PROVE  At(ring, P) = At(ring, T)
<1>1. P \in Nat /\ T \in Nat
  BY TickType
<1>2. At(ring, P) = ring[P % n]
  BY <1>1, RingAt
<1>3. At(ring, T) = ring[T % n]
  BY <1>1, RingAt
<1> QED BY <1>2, <1>3

(* `new' is the ring `old' with row w at the position of T. *)
Replaced(old, new, n, T, w) ==
  /\ new \in [0..n - 1 -> Row] /\ new[T % n] = w
  /\ \A t \in 0..n - 1 : t # T % n => new[t] = old[t]

(* A row put at its place: another tick there is gone, and nothing else. *)
LEMMA PutRow ==
  ASSUME NEW n \in Nat \ {0}, NEW ring \in RingOf(n), NEW T \in Tick,
         NEW w \in Row, w.tick = T, NEW q, Replaced(ring, q, n, T, w)
  PROVE  /\ q \in RingOf(n) /\ RowOf(q, T) = w
         /\ \A P \in Tick \ {T} :
              RowOf(q, P) = IF P % n = T % n THEN NoRow ELSE RowOf(ring, P)
<1>1. /\ ring \in [0..n - 1 -> Row] /\ T % n \in 0..n - 1 /\ T # Nil
      /\ q \in [0..n - 1 -> Row] /\ q[T % n] = w
      /\ \A t \in 0..n - 1 : t # T % n => q[t] = ring[t]
  BY TickType, RingAt DEF RingOf, Replaced
<1>2. q \in RingOf(n)
  BY <1>1 DEF RingOf
<1>3. ASSUME NEW P \in Tick
      PROVE  /\ P % n \in 0..n - 1 /\ At(q, P) = q[P % n]
             /\ At(ring, P) = ring[P % n]
  <2>1. P \in Nat
    BY TickType
  <2>2. P % n \in 0..n - 1
    BY <2>1, Division
  <2>3. At(q, P) = q[P % n]
    BY <1>1, <2>1, RingAt
  <2>4. At(ring, P) = ring[P % n]
    BY ZenonT(40), <1>1, <2>1, RingAt
  <2> QED BY <2>2, <2>3, <2>4
<1>4. RowOf(q, T) = w
  BY <1>1, <1>3 DEF RowOf
<1>5. ASSUME NEW P \in Tick \ {T}
      PROVE  RowOf(q, P) = IF P % n = T % n THEN NoRow ELSE RowOf(ring, P)
  BY <1>1, <1>3 DEF RowOf
<1> QED BY <1>2, <1>4, <1>5

(* Such a ring, as the code writes it. *)
LEMMA ExceptReplaces ==
  ASSUME NEW n \in Nat \ {0}, NEW ring \in [0..n - 1 -> Row], NEW T \in Tick,
         NEW w \in Row
  PROVE  \A q : q = [ring EXCEPT ![T % n] = w] => Replaced(ring, q, n, T, w)
<1>1. T % n \in 0..n - 1
  BY TickType, Division
<1> QED BY <1>1 DEF Replaced

-----------------------------------------------------------------------------
(* Growth *)

(* The row a wider ring has where T belongs: the one that was there before,
   if it stays at the position of T. *)
LEMMA GrownAt ==
  ASSUME NEW n \in Nat \ {0}, NEW ring \in RingOf(n), NEW m \in Doubled(n),
         NEW t \in 0..m - 1
  PROVE  /\ Grown(ring, m)[t] = IF /\ ring[t % n].tick # Nil
                                   /\ ring[t % n].tick % m = t
                                  THEN ring[t % n] ELSE NoRow
         /\ t % n \in 0..n - 1
<1> DEFINE Shifts(r) == ring[r].tick # Nil /\ ring[r].tick % m = t
<1>1. /\ m \in Nat \ {0} /\ m % n = 0 /\ ring \in [0..n - 1 -> Row]
      /\ t \in Nat /\ t % n \in 0..n - 1 /\ DOMAIN ring = 0..n - 1
  BY Division DEF Doubled, RingOf
<1>2. ASSUME NEW r \in 0..n - 1, Shifts(r)
      PROVE  r = t % n
  <2>1. ring[r].tick \in Nat /\ ring[r].tick % n = r
    BY <1>1, <1>2 DEF RingOf, Row, Tick, Nil
  <2>2. ring[r].tick % n = (ring[r].tick % m) % n
    BY <1>1, <2>1, RemainderTwice
  <2> QED BY <1>2, <2>1, <2>2
<1>3. Grown(ring, m)[t] = IF \E r \in 0..n - 1 : Shifts(r)
                            THEN ring[CHOOSE r \in 0..n - 1 : Shifts(r)] ELSE NoRow
  BY <1>1 DEF Grown
<1>4. CASE Shifts(t % n)
  <2>1. (CHOOSE r \in 0..n - 1 : Shifts(r)) = t % n
    BY <1>1, <1>2, <1>4
  <2> QED BY <1>1, <1>3, <1>4, <2>1
<1>5. CASE ~ Shifts(t % n)
  <2>1. ~ \E r \in 0..n - 1 : Shifts(r)
    BY <1>2, <1>5
  <2> QED BY <1>1, <1>3, <1>5, <2>1
<1> QED BY <1>4, <1>5

(* Growth moves every row to its place and keeps all of it. *)
LEMMA GrownKeeps ==
  ASSUME NEW n \in Size, NEW ring \in RingOf(n), NEW m \in Doubled(n)
  PROVE  /\ m \in Size /\ Grown(ring, m) \in RingOf(m)
         /\ \A T \in Tick : RowOf(Grown(ring, m), T) = RowOf(ring, T)
         /\ \A T \in Tick : At(ring, T).tick % m # T % m =>
                             At(Grown(ring, m), T) = NoRow
<1> DEFINE q == Grown(ring, m)
<1>1. /\ n \in Nat \ {0} /\ m \in Nat \ {0} /\ m \in Size /\ m % n = 0
      /\ ring \in [0..n - 1 -> Row]
  BY SizeType DEF Doubled, RingOf
<1>2. \A t \in 0..m - 1 : /\ q[t] = IF /\ ring[t % n].tick # Nil
                                       /\ ring[t % n].tick % m = t
                                      THEN ring[t % n] ELSE NoRow
                          /\ t % n \in 0..n - 1
  BY <1>1, GrownAt
<1>3. q = [t \in 0..m - 1 |-> q[t]]
  BY DEF Grown
<1> HIDE DEF q
<1>4. NoRow \in Row /\ NoRow.tick = Nil
  BY NoRowType DEF NoRow
<1>5. q \in [0..m - 1 -> Row]
  <2>1. \A t \in 0..m - 1 : q[t] \in Row
    BY <1>1, <1>2, <1>4
  <2> QED BY <1>3, <2>1
<1>6. q \in RingOf(m)
  BY <1>2, <1>4, <1>5 DEF RingOf
<1>7. ASSUME NEW T \in Tick
      PROVE  At(q, T) = IF /\ At(ring, T).tick # Nil
                           /\ At(ring, T).tick % m = T % m
                          THEN At(ring, T) ELSE NoRow
  <2> T \in Nat
    BY TickType
  <2>1. T % m \in 0..m - 1 /\ At(q, T) = q[T % m] /\ At(ring, T) = ring[T % n]
    BY <1>1, <1>5, RingAt
  <2>2. (T % m) % n = T % n
    BY <1>1, RemainderTwice
  <2> QED BY <1>2, <2>1, <2>2
<1>8. ASSUME NEW T \in Tick
      PROVE  RowOf(q, T) = RowOf(ring, T)
  <2>1. T # Nil
    BY DEF Tick, Nil
  <2> QED BY <1>4, <1>7, <2>1 DEF RowOf
<1>9. \A T \in Tick : At(ring, T).tick % m # T % m => At(q, T) = NoRow
  BY <1>7
<1> QED BY <1>1, <1>6, <1>8, <1>9 DEF q

(* May tick T take its place in the ring? *)
FreeFor(ring, upto, T) ==
  \/ At(ring, T).tick = T
  \/ T > upto /\ (At(ring, T).tick = Nil \/ At(ring, T).tick <= upto)

(* The gate leaves every row where it can be found, and room for T. *)
LEMMA MakeRoomKeeps ==
  ASSUME NEW n \in Size, NEW ring \in RingOf(n), NEW T \in Tick,
         NEW upto \in 0..MaxTick, MayTouch(ring, upto, T)
  PROVE  \E m \in Size :
           /\ MakeRoom(ring, upto, T) \in RingOf(m)
           /\ \A P \in Tick : RowOf(MakeRoom(ring, upto, T), P) = RowOf(ring, P)
           /\ FreeFor(MakeRoom(ring, upto, T), upto, T)
<1> DEFINE prev == At(ring, T).tick
           q == MakeRoom(ring, upto, T)
           size == SizeFor(n, T, prev)
           evicts == prev # Nil /\ prev # T /\ prev > upto
<1>1. /\ n \in Nat \ {0} /\ BufMax \in Doubled(n) /\ ring \in [0..n - 1 -> Row]
      /\ Cardinality(DOMAIN ring) = n /\ T % n \in 0..n - 1
      /\ DOMAIN ring = 0..n - 1 /\ At(ring, T) = ring[T % n]
      /\ prev \in Tick \cup {Nil}
  <2>1. T \in Nat /\ n \in Nat \ {0} /\ BufMax \in Doubled(n)
    BY TickType, SizeType
  <2>2. ring \in [0..n - 1 -> Row]
    BY DEF RingOf
  <2>3. /\ Cardinality(DOMAIN ring) = n /\ T % n \in 0..n - 1
        /\ DOMAIN ring = 0..n - 1 /\ At(ring, T) = ring[T % n]
        /\ At(ring, T) \in Row
    BY <2>1, <2>2, RingSize, RingAt
  <2> QED BY <2>1, <2>2, <2>3 DEF Row
<1>2. q = IF evicts /\ Distance(T, prev) < BufMax /\ size <= BufMax
            THEN Grown(ring, size) ELSE ring
  BY <1>1 DEF MakeRoom
<1>3. prev = T \/ T > upto
  BY DEF MayTouch
<1>4. CASE ~ evicts
  <2>1. q = ring
    BY <1>2, <1>4
  <2>2. FreeFor(ring, upto, T)
    BY <1>1, <1>3, <1>4 DEF FreeFor, Tick, Nil
  <2> QED BY <2>1, <2>2
<1>5. CASE evicts
  <2>1. Distance(T, prev) < BufMax /\ prev \in Tick /\ T \in Nat /\ prev \in Nat
    BY <1>1, <1>5 DEF MayTouch, Tick
  <2> DEFINE S == {k \in Doubled(n) : k > Distance(T, prev)}
  <2>2. S \in SUBSET Nat /\ BufMax \in S
    BY <1>1, <2>1 DEF Doubled
  <2>3. size = Min(S)
    BY DEF SizeFor
  <2>4. size \in S
    <3> HIDE DEF S, size
    <3> QED BY <2>2, <2>3, LeastNumber
  <2>5. size \in Doubled(n) /\ size > Distance(T, prev) /\ size <= BufMax
        /\ size \in Nat \ {0}
    BY <1>1, <2>4 DEF Doubled
  <2> HIDE DEF S, size, prev
  <2>6. prev % size # T % size
    <3>1. CASE T > prev
      BY <2>1, <2>5, <3>1, NearApart DEF Distance
    <3>2. CASE prev > T
      BY <2>1, <2>5, <3>2, NearApart DEF Distance
    <3> QED BY <1>5, <2>1, <3>1, <3>2
  <2>7. q = Grown(ring, size)
    BY <1>2, <1>5, <2>1, <2>5
  <2> HIDE DEF q
  <2>8. /\ size \in Size /\ q \in RingOf(size)
        /\ \A P \in Tick : RowOf(q, P) = RowOf(ring, P)
        /\ At(q, T) = NoRow
    BY <2>5, <2>6, <2>7, GrownKeeps DEF prev
  <2>9. FreeFor(q, upto, T)
    BY <1>3, <1>5, <2>8 DEF FreeFor, NoRow
  <2> QED BY <2>8, <2>9 DEF q
<1> QED BY <1>4, <1>5

-----------------------------------------------------------------------------
(* What a call may do to the rows it is not about *)

(* Player z has nothing in the row. *)
Silent(row, z) ==
  row.input[z] = Empty /\ z \notin row.confirmed /\ row.cmds[z] = <<>>

Hushed(ring, z) == \A P \in Tick : Silent(RowOf(ring, P), z)

SameCell(a, b, z) ==
  /\ b.tick = a.tick /\ b.input[z] = a.input[z] /\ b.cmds[z] = a.cmds[z]
  /\ z \in b.confirmed <=> z \in a.confirmed

(* A tick that is sealed gave way to another one. *)
GaveWay(upto, P, b) == P <= upto /\ b = NoRow

(* A tick that is not sealed was touched for the first time. *)
Opened(upto, P, a, b, z) ==
  P > upto /\ a = NoRow /\ b.tick = P /\ z \notin b.confirmed /\ b.cmds[z] = <<>>

(* Where there was no input of z there is a prediction. *)
Guessed(a, b, z) ==
  /\ b.tick = a.tick /\ a.input[z] = Empty /\ b.cmds[z] = a.cmds[z]
  /\ z \in b.confirmed <=> z \in a.confirmed

Evolves(upto, old, new) ==
  \A P \in Tick, z \in Slot :
    \/ SameCell(RowOf(old, P), RowOf(new, P), z)
    \/ GaveWay(upto, P, RowOf(new, P))
    \/ Opened(upto, P, RowOf(old, P), RowOf(new, P), z)
    \/ Guessed(RowOf(old, P), RowOf(new, P), z)

(* A ring with the same rows has the same cells. *)
LEMMA SameRows ==
  ASSUME NEW old, NEW new, NEW upto,
         \A P \in Tick : RowOf(new, P) = RowOf(old, P)
  PROVE  /\ Evolves(upto, old, new)
         /\ \A z \in Slot : Hushed(old, z) => Hushed(new, z)
BY DEF Evolves, SameCell, Hushed

(* The row without a tick has nothing of anybody. *)
LEMMA NoRowSilent ==
  ASSUME NEW z \in Slot
  PROVE  Silent(NoRow, z)
BY DEF Silent, NoRow

(* A fresh row has no commands, nothing confirmed, and only such inputs as the
   row of the tick before it had. *)
LEMMA AdvancedRow ==
  ASSUME NEW n \in Nat \ {0}, NEW ring \in RingOf(n), NEW players, NEW T \in Tick
  PROVE  /\ Advanced(ring, players, T) \in Row
         /\ Advanced(ring, players, T).tick = T /\ Advanced(ring, players, T).confirmed = {}
         /\ \A z \in Slot : Advanced(ring, players, T).cmds[z] = <<>>
         /\ \A z \in Slot : Hushed(ring, z) => Silent(Advanced(ring, players, T), z)
<1> DEFINE prev == At(ring, T - 1)
           Carried(z) == T > 1 /\ prev.tick = T - 1 /\ z \in players
           input == [z \in Slot |-> IF Carried(z) THEN prev.input[z] ELSE Empty]
           w == Advanced(ring, players, T)
<1>1. w = [tick |-> T, input |-> input, confirmed |-> {},
           cmds |-> [z \in Slot |-> <<>>]]
  <2>1. w = [NoRow EXCEPT !.tick = T, !.input = input]
    BY DEF Advanced
  <2> HIDE DEF input, w
  <2> QED BY <2>1 DEF NoRow
<1>2. ring \in [0..n - 1 -> Row] /\ T - 1 \in Nat /\ T \in Nat /\ T <= MaxTick
  BY DEF RingOf, Tick
<1>3. prev \in Row
  BY <1>2, RingAt
<1>4. input \in [Slot -> Value \cup {Empty}]
  <2> HIDE DEF prev
  <2> QED BY <1>3 DEF Row
<1>5. ASSUME NEW z \in Slot, Hushed(ring, z)
      PROVE  input[z] = Empty
  <2>1. CASE Carried(z)
    <3>1. T - 1 \in Tick
      BY <1>2, <2>1 DEF Tick
    <3>2. RowOf(ring, T - 1) = prev
      BY <2>1 DEF RowOf
    <3> QED BY <1>5, <2>1, <3>1, <3>2 DEF Hushed, Silent
  <2>2. CASE ~ Carried(z)
    BY <2>2
  <2> QED BY <2>1, <2>2
<1> HIDE DEF input
<1>6. w \in Row
  BY <1>1, <1>4 DEF Row
<1>7. w.tick = T /\ w.confirmed = {} /\ \A z \in Slot : w.cmds[z] = <<>>
  BY <1>1
<1>8. \A z \in Slot : Hushed(ring, z) => Silent(w, z)
  BY <1>1, <1>5 DEF Silent
<1> QED BY <1>6, <1>7, <1>8

(* The first touch of a tick that may take its place. *)
LEMMA TouchedKeeps ==
  ASSUME NEW n \in Nat \ {0}, NEW ring \in RingOf(n), NEW T \in Tick,
         NEW players, NEW upto \in 0..MaxTick, FreeFor(ring, upto, T)
  PROVE  /\ Touched(ring, players, T) \in RingOf(n)
         /\ RowOf(Touched(ring, players, T), T).tick = T
         /\ Evolves(upto, ring, Touched(ring, players, T))
         /\ \A z \in Slot : Hushed(ring, z) => Hushed(Touched(ring, players, T), z)
<1> DEFINE q == Touched(ring, players, T)
           w == Advanced(ring, players, T)
<1>1. /\ ring \in [0..n - 1 -> Row] /\ Cardinality(DOMAIN ring) = n
      /\ T # Nil /\ T \in Nat
  BY RingSize, TickType DEF RingOf
<1>2. CASE At(ring, T).tick = T
  <2>1. q = ring
    BY <1>2 DEF Touched
  <2>2. RowOf(ring, T).tick = T
    BY <1>2 DEF RowOf
  <2> QED BY <2>1, <2>2, SameRows
<1>3. CASE At(ring, T).tick # T
  <2>1. /\ w \in Row /\ w.tick = T /\ w.confirmed = {}
        /\ \A z \in Slot : w.cmds[z] = <<>>
        /\ \A z \in Slot : Hushed(ring, z) => Silent(w, z)
    BY AdvancedRow
  <2>2. q = [ring EXCEPT ![T % n] = w]
    BY <1>1, <1>3 DEF Touched
  <2> HIDE DEF w, q
  <2>9. Replaced(ring, q, n, T, w)
    BY <1>1, <2>1, <2>2, ExceptReplaces
  <2>3. /\ q \in RingOf(n) /\ RowOf(q, T) = w
        /\ \A P \in Tick \ {T} :
             RowOf(q, P) = IF P % n = T % n THEN NoRow ELSE RowOf(ring, P)
    BY <2>1, <2>9, PutRow
  <2>4. RowOf(ring, T) = NoRow /\ T > upto
    BY <1>3 DEF RowOf, FreeFor
  <2>5. ASSUME NEW P \in Tick, NEW z \in Slot
        PROVE  \/ SameCell(RowOf(ring, P), RowOf(q, P), z)
               \/ GaveWay(upto, P, RowOf(q, P))
               \/ Opened(upto, P, RowOf(ring, P), RowOf(q, P), z)
    <3>1. CASE P = T
      BY <2>1, <2>3, <2>4, <3>1 DEF Opened
    <3>2. CASE P # T /\ P % n # T % n
      BY <2>3, <3>2 DEF SameCell
    <3>3. CASE P # T /\ P % n = T % n
      <4>1. RowOf(q, P) = NoRow
        BY <2>3, <3>3
      <4>2. At(ring, P) = At(ring, T)
        BY <1>1, <3>3, SamePosition
      <4>3. CASE At(ring, T).tick = P
        <5>1. P # Nil
          BY TickType
        <5>2. P <= upto
          BY <1>3, <4>3, <5>1 DEF FreeFor
        <5> QED BY <4>1, <5>2 DEF GaveWay
      <4>4. CASE At(ring, T).tick # P
        BY <4>1, <4>2, <4>4 DEF RowOf, SameCell
      <4> QED BY <4>3, <4>4
    <3> QED BY <3>1, <3>2, <3>3
  <2>6. Evolves(upto, ring, q)
    BY <2>5 DEF Evolves
  <2>7. ASSUME NEW z \in Slot, Hushed(ring, z), NEW P \in Tick
        PROVE  Silent(RowOf(q, P), z)
    <3>1. Silent(w, z) /\ Silent(NoRow, z) /\ Silent(RowOf(ring, P), z)
      BY <2>1, <2>7, NoRowSilent DEF Hushed
    <3> QED BY <2>3, <3>1
  <2>8. \A z \in Slot : Hushed(ring, z) => Hushed(q, z)
    BY <2>7 DEF Hushed
  <2> QED BY <2>1, <2>3, <2>6, <2>8 DEF q
<1> QED BY <1>2, <1>3

(* A row rewritten in place, where its tick already is. *)
LEMMA RewrittenKeeps ==
  ASSUME NEW n \in Nat \ {0}, NEW ring \in RingOf(n), NEW T \in Tick,
         RowOf(ring, T).tick = T, NEW w \in Row, w.tick = T,
         NEW q, Replaced(ring, q, n, T, w)
  PROVE  /\ q \in RingOf(n) /\ RowOf(q, T) = w
         /\ \A P \in Tick \ {T} : RowOf(q, P) = RowOf(ring, P)
<1>1. ring \in [0..n - 1 -> Row]
  BY DEF RingOf
<1>3. /\ q \in RingOf(n) /\ RowOf(q, T) = w
      /\ \A P \in Tick \ {T} :
           RowOf(q, P) = IF P % n = T % n THEN NoRow ELSE RowOf(ring, P)
  BY PutRow
<1>4. ASSUME NEW P \in Tick \ {T}, P % n = T % n
      PROVE  RowOf(ring, P) = NoRow
  <2>1. At(ring, P) = At(ring, T)
    BY <1>1, <1>4, SamePosition
  <2>2. At(ring, T).tick = T
    BY <1>1, RowOfType
  <2> QED BY <2>1, <2>2 DEF RowOf
<1> QED BY <1>3, <1>4

(* The input that is stored, and the row it is stored in. *)
WithStored(row, s, v, conf) ==
  [row EXCEPT !.input[s] = v,
              !.confirmed = IF conf THEN @ \cup {s} ELSE @]

(* Storing an input changes one cell. *)
LEMMA StoredKeeps ==
  ASSUME NEW n \in Nat \ {0}, NEW ring \in RingOf(n), NEW T \in Tick,
         RowOf(ring, T).tick = T,
         NEW s \in Slot, NEW v \in Value, NEW conf \in BOOLEAN
  PROVE  /\ Stored(ring, s, T, v, conf) \in RingOf(n)
         /\ RowOf(Stored(ring, s, T, v, conf), T) =
              WithStored(RowOf(ring, T), s, v, conf)
         /\ WithStored(RowOf(ring, T), s, v, conf) \in Row
         /\ WithStored(RowOf(ring, T), s, v, conf).tick = T
         /\ \A P \in Tick \ {T} :
              RowOf(Stored(ring, s, T, v, conf), P) = RowOf(ring, P)
<1> DEFINE w == WithStored(RowOf(ring, T), s, v, conf)
           q == Stored(ring, s, T, v, conf)
<1>1. ring \in [0..n - 1 -> Row] /\ T \in Nat /\ Cardinality(DOMAIN ring) = n
  BY TickType, RingSize DEF RingOf
<1>2. RowOf(ring, T) \in Row /\ RowOf(ring, T) = At(ring, T)
  BY <1>1, RowOfType
<1>3. T % n \in 0..n - 1 /\ At(ring, T) = ring[T % n]
  BY ZenonT(40), <1>1, RingAt
<1>4. w \in Row /\ w.tick = T
  BY <1>2 DEF WithStored, Row
<1>5. q = [ring EXCEPT ![T % n] = w]
  <2>1. q = [ring EXCEPT ![T % Cardinality(DOMAIN ring)] =
                            WithStored(At(ring, T), s, v, conf)]
    BY Zenon DEF Stored, WithStored
  <2> HIDE DEF q
  <2> QED BY <1>1, <1>2, <2>1
<1> HIDE DEF w, q
<1>7. Replaced(ring, q, n, T, w)
  BY <1>1, <1>4, <1>5, ExceptReplaces
<1>6. /\ q \in RingOf(n) /\ RowOf(q, T) = w
      /\ \A P \in Tick \ {T} : RowOf(q, P) = RowOf(ring, P)
  BY <1>4, <1>7, RewrittenKeeps
<1> QED BY <1>4, <1>6 DEF w, q

(* A tick the backfill may reach is not sealed, and its row is open. *)
LEMMA GapTick ==
  ASSUME NEW ring, NEW upto, NEW s, NEW T \in Tick,
         NEW P \in Gap(ring, upto, s, T)
  PROVE  P \in Tick /\ P > upto /\ Open(ring, upto, s, P)
<1>1. P \in 1..T - 1 /\ P > upto /\ \A Q \in P..T - 1 : Open(ring, upto, s, Q)
  BY DEF Gap
<1>2. P \in P..T - 1 /\ P \in Tick
  BY <1>1 DEF Tick
<1> QED BY <1>1, <1>2

(* The row that the backfill puts at P. *)
Filled(ring, players, s, P, v) ==
  [IF At(ring, P).tick = P THEN At(ring, P) ELSE Advanced(ring, players, P)
     EXCEPT !.input[s] = v]

(* What the backfill does to one position. *)
LEMMA BackfilledAt ==
  ASSUME NEW n \in Nat \ {0}, NEW ring \in RingOf(n), NEW T \in Tick,
         NEW players, NEW upto, NEW s \in Slot, NEW v \in Value, NEW t \in 0..n - 1
  PROVE  \/ Backfilled(ring, players, upto, s, T, v)[t] = ring[t]
         \/ \E P \in Gap(ring, upto, s, T) :
              P % n = t /\ Backfilled(ring, players, upto, s, T, v)[t] = Filled(ring, players, s, P, v)
<1> DEFINE S == {P \in Gap(ring, upto, s, T) : P % n = t}
<1>1. DOMAIN ring = 0..n - 1 /\ Cardinality(DOMAIN ring) = n
  BY RingSize DEF RingOf
<1>2. Backfilled(ring, players, upto, s, T, v)[t] =
        IF S = {} THEN ring[t] ELSE Filled(ring, players, s, Min(S), v)
  BY <1>1 DEF Backfilled, Filled
<1>3. S \in SUBSET Nat
  BY DEF Gap
<1>4. S # {} => Min(S) \in S
  <2> HIDE DEF S
  <2> QED BY <1>3, LeastNumber
<1>5. CASE S = {}
  BY <1>2, <1>5
<1>6. CASE S # {}
  <2>1. Min(S) \in Gap(ring, upto, s, T) /\ Min(S) % n = t
    BY <1>4, <1>6
  <2> HIDE DEF S
  <2> QED BY <1>2, <1>6, <2>1
<1> QED BY <1>5, <1>6

(* The row put there is a row of its tick; it differs from the one before in
   the input of s, or is a fresh one. *)
LEMMA FilledRow ==
  ASSUME NEW n \in Nat \ {0}, NEW ring \in RingOf(n), NEW P \in Tick,
         NEW players, NEW upto, NEW s \in Slot, NEW v \in Value,
         P > upto, Open(ring, upto, s, P)
  PROVE  /\ Filled(ring, players, s, P, v) \in Row /\ Filled(ring, players, s, P, v).tick = P
         /\ \A z \in Slot :
              \/ SameCell(RowOf(ring, P), Filled(ring, players, s, P, v), z)
              \/ Opened(upto, P, RowOf(ring, P), Filled(ring, players, s, P, v), z)
              \/ Guessed(RowOf(ring, P), Filled(ring, players, s, P, v), z)
         /\ \A z \in Slot \ {s} :
              Hushed(ring, z) => Silent(Filled(ring, players, s, P, v), z)
<1> DEFINE a == At(ring, P)
           w == Filled(ring, players, s, P, v)
<1>1. ring \in [0..n - 1 -> Row] /\ P \in Nat
  BY TickType DEF RingOf
<1>2. a \in Row
  BY <1>1, RingAt
<1>3. CASE a.tick = P
  <2>1. w = [a EXCEPT !.input[s] = v] /\ RowOf(ring, P) = a
    BY <1>3 DEF Filled, RowOf
  <2>2. a.input[s] = Empty
    BY <1>3 DEF Open
  <2> HIDE DEF a, w
  <2>3. /\ w \in Row /\ w.tick = P /\ w.confirmed = a.confirmed
        /\ w.cmds = a.cmds /\ \A z \in Slot \ {s} : w.input[z] = a.input[z]
    BY <1>2, <1>3, <2>1 DEF Row
  <2>4. \A z \in Slot : SameCell(a, w, z) \/ Guessed(a, w, z)
    BY <1>3, <2>2, <2>3 DEF SameCell, Guessed
  <2>5. ASSUME NEW z \in Slot \ {s}, Hushed(ring, z)
        PROVE  Silent(w, z)
    BY <2>1, <2>3, <2>5 DEF Hushed, Silent
  <2> QED BY <2>1, <2>3, <2>4, <2>5 DEF w
<1>4. CASE a.tick # P
  <2> DEFINE b == Advanced(ring, players, P)
  <2>1. w = [b EXCEPT !.input[s] = v] /\ RowOf(ring, P) = NoRow
    BY <1>4 DEF Filled, RowOf
  <2>2. /\ b \in Row /\ b.tick = P /\ b.confirmed = {}
        /\ \A z \in Slot : b.cmds[z] = <<>>
        /\ \A z \in Slot : Hushed(ring, z) => Silent(b, z)
    BY AdvancedRow
  <2> HIDE DEF a, b, w
  <2>3. /\ w \in Row /\ w.tick = P /\ w.confirmed = b.confirmed
        /\ w.cmds = b.cmds /\ \A z \in Slot \ {s} : w.input[z] = b.input[z]
    BY <2>1, <2>2 DEF Row
  <2>4. \A z \in Slot : Opened(upto, P, NoRow, w, z)
    BY <2>2, <2>3 DEF Opened
  <2>5. ASSUME NEW z \in Slot \ {s}, Hushed(ring, z)
        PROVE  Silent(w, z)
    BY <2>2, <2>3, <2>5 DEF Silent
  <2> QED BY <2>1, <2>3, <2>4, <2>5 DEF w
<1> QED BY <1>3, <1>4

(* The backfill makes predictions, and nothing else, of open rows. *)
LEMMA BackfilledKeeps ==
  ASSUME NEW n \in Nat \ {0}, NEW ring \in RingOf(n), NEW T \in Tick,
         NEW players, NEW upto \in 0..MaxTick, NEW s \in Slot, NEW v \in Value
  PROVE  /\ Backfilled(ring, players, upto, s, T, v) \in RingOf(n)
         /\ Evolves(upto, ring, Backfilled(ring, players, upto, s, T, v))
         /\ \A z \in Slot \ {s} :
              Hushed(ring, z) => Hushed(Backfilled(ring, players, upto, s, T, v), z)
<1> DEFINE q == Backfilled(ring, players, upto, s, T, v)
<1>1. ring \in [0..n - 1 -> Row] /\ DOMAIN ring = 0..n - 1
  BY RingSize DEF RingOf
<1>2. \A t \in 0..n - 1 :
        q[t] = ring[t] \/ \E P \in Gap(ring, upto, s, T) :
                            P % n = t /\ q[t] = Filled(ring, players, s, P, v)
  BY BackfilledAt
<1>3. q = [t \in 0..n - 1 |-> q[t]]
  BY <1>1 DEF Backfilled
<1> HIDE DEF q
<1>4. ASSUME NEW P \in Gap(ring, upto, s, T)
      PROVE  /\ P \in Tick /\ P > upto /\ P # Nil /\ Open(ring, upto, s, P)
             /\ Filled(ring, players, s, P, v) \in Row /\ Filled(ring, players, s, P, v).tick = P
             /\ \A z \in Slot :
                  \/ SameCell(RowOf(ring, P), Filled(ring, players, s, P, v), z)
                  \/ Opened(upto, P, RowOf(ring, P), Filled(ring, players, s, P, v), z)
                  \/ Guessed(RowOf(ring, P), Filled(ring, players, s, P, v), z)
             /\ \A z \in Slot \ {s} :
                  Hushed(ring, z) => Silent(Filled(ring, players, s, P, v), z)
  <2>1. P \in Tick /\ P > upto /\ Open(ring, upto, s, P)
    BY GapTick
  <2>2. P # Nil
    BY <2>1, TickType
  <2>3. /\ Filled(ring, players, s, P, v) \in Row /\ Filled(ring, players, s, P, v).tick = P
        /\ \A z \in Slot :
             \/ SameCell(RowOf(ring, P), Filled(ring, players, s, P, v), z)
             \/ Opened(upto, P, RowOf(ring, P), Filled(ring, players, s, P, v), z)
             \/ Guessed(RowOf(ring, P), Filled(ring, players, s, P, v), z)
        /\ \A z \in Slot \ {s} :
             Hushed(ring, z) => Silent(Filled(ring, players, s, P, v), z)
    BY ZenonT(60), <2>1, FilledRow
  <2> QED BY <2>1, <2>2, <2>3
<1>5. \A t \in 0..n - 1 : q[t] \in Row
  BY <1>1, <1>2, <1>4
<1>6. q \in [0..n - 1 -> Row]
  BY <1>3, <1>5
<1>7. q \in RingOf(n)
  BY <1>2, <1>4, <1>6 DEF RingOf
<1>8. ASSUME NEW X \in Tick
      PROVE  \/ RowOf(q, X) = RowOf(ring, X)
             \/ GaveWay(upto, X, RowOf(q, X))
             \/ X \in Gap(ring, upto, s, T) /\ RowOf(q, X) = Filled(ring, players, s, X, v)
  <2>1. X \in Nat /\ X # Nil
    BY TickType
  <2>2. X % n \in 0..n - 1 /\ At(ring, X) = ring[X % n]
    BY <1>1, <2>1, RingAt
  <2>3. At(q, X) = q[X % n]
    BY <1>6, <2>1, RingAt
  <2>4. CASE q[X % n] = ring[X % n]
    BY <2>2, <2>3, <2>4 DEF RowOf
  <2>5. ASSUME NEW P \in Gap(ring, upto, s, T), P % n = X % n,
               q[X % n] = Filled(ring, players, s, P, v)
        PROVE  \/ RowOf(q, X) = RowOf(ring, X)
               \/ GaveWay(upto, X, RowOf(q, X))
               \/ X \in Gap(ring, upto, s, T) /\ RowOf(q, X) = Filled(ring, players, s, X, v)
    <3>1. CASE P = X
      BY <1>4, <2>3, <2>5, <3>1 DEF RowOf
    <3>2. CASE P # X
      <4>1. RowOf(q, X) = NoRow
        BY <1>4, <2>3, <2>5, <3>2 DEF RowOf
      <4>2. At(ring, P) = At(ring, X)
        BY <1>1, <1>4, <2>5, SamePosition
      <4>3. CASE At(ring, X).tick = X
        <5>1. X <= upto
          BY <1>4, <2>1, <3>2, <4>2, <4>3 DEF Open
        <5> QED BY <4>1, <5>1 DEF GaveWay
      <4>4. CASE At(ring, X).tick # X
        BY <4>1, <4>4 DEF RowOf
      <4> QED BY <4>3, <4>4
    <3> QED BY <3>1, <3>2
  <2> QED BY <1>2, <2>2, <2>4, <2>5
<1>9. Evolves(upto, ring, q)
  <2>1. \A P \in Tick, z \in Slot : SameCell(RowOf(ring, P), RowOf(ring, P), z)
    BY DEF SameCell
  <2> QED BY <1>4, <1>8, <2>1 DEF Evolves
<1>10. ASSUME NEW z \in Slot \ {s}, Hushed(ring, z), NEW X \in Tick
       PROVE  Silent(RowOf(q, X), z)
  <2>1. Silent(NoRow, z) /\ Silent(RowOf(ring, X), z)
    BY <1>10, NoRowSilent DEF Hushed
  <2> QED BY <1>4, <1>8, <1>10, <2>1 DEF GaveWay
<1>11. \A z \in Slot \ {s} : Hushed(ring, z) => Hushed(q, z)
  BY <1>10 DEF Hushed
<1> QED BY <1>7, <1>9, <1>11 DEF q

-----------------------------------------------------------------------------
(* What the ring knows of the watched tick and player *)

(* h is the input last confirmed, and q are the commands sent, for the watched
   tick and player: they are in its row, which is there if it is not sealed. *)
Known(ring, h, q) ==
  LET T == watch[1]
      s == watch[2]
      row == RowOf(ring, T)
  IN /\ T > frontier /\ row.tick # T => h = Empty /\ q = <<>>
     /\ T > frontier /\ h # Empty => s \in row.confirmed
     /\ row.tick = T => row.cmds[s] = q
     /\ s \in row.confirmed => h # Empty /\ row.input[s] = h

(* Ticks that are not sealed stay. *)
Stay(upto, old, new) ==
  \A P \in Tick : P > upto /\ RowOf(old, P).tick = P => RowOf(new, P).tick = P

(* Nothing that a call does to other rows changes what is known. *)
LEMMA EvolvesKnown ==
  ASSUME NEW old, NEW new, Evolves(frontier, old, new), watch \in Tick \X Slot,
         NEW h, NEW q, Known(old, h, q), frontier \in 0..MaxTick
  PROVE  Known(new, h, q)
<1> DEFINE T == watch[1]
           s == watch[2]
           a == RowOf(old, T)
           b == RowOf(new, T)
<1>1. T \in Tick /\ s \in Slot /\ T \in Nat /\ T # Nil
  BY TickType
<1>2. /\ T > frontier /\ a.tick # T => h = Empty /\ q = <<>>
      /\ T > frontier /\ h # Empty => s \in a.confirmed
      /\ a.tick = T => a.cmds[s] = q
      /\ s \in a.confirmed => h # Empty /\ a.input[s] = h
  BY DEF Known
<1>3. \/ SameCell(a, b, s) \/ GaveWay(frontier, T, b) \/ Opened(frontier, T, a, b, s)
      \/ Guessed(a, b, s)
  BY <1>1 DEF Evolves
<1> SUFFICES /\ T > frontier /\ b.tick # T => h = Empty /\ q = <<>>
             /\ T > frontier /\ h # Empty => s \in b.confirmed
             /\ b.tick = T => b.cmds[s] = q
             /\ s \in b.confirmed => h # Empty /\ b.input[s] = h
  BY DEF Known
<1> HIDE DEF T, s, a, b
<1>4. CASE SameCell(a, b, s)
  BY <1>2, <1>4 DEF SameCell
<1>5. CASE GaveWay(frontier, T, b)
  BY <1>1, <1>5 DEF GaveWay, NoRow
<1>6. CASE Opened(frontier, T, a, b, s)
  BY <1>1, <1>2, <1>6 DEF Opened, NoRow
<1>7. CASE Guessed(a, b, s)
  BY <1>2, <1>7 DEF Guessed
<1> QED BY <1>3, <1>4, <1>5, <1>6, <1>7

(* And no tick that is not sealed goes. *)
LEMMA EvolvesStay ==
  ASSUME NEW old, NEW new, Evolves(frontier, old, new), frontier \in 0..MaxTick
  PROVE  Stay(frontier, old, new)
<1> SUFFICES ASSUME NEW P \in Tick, P > frontier, RowOf(old, P).tick = P
             PROVE  RowOf(new, P).tick = P
  BY DEF Stay
<1>1. 0 \in Slot /\ P # Nil /\ P \in Nat
  BY TickType DEF Slot
<1>2. \/ SameCell(RowOf(old, P), RowOf(new, P), 0)
      \/ GaveWay(frontier, P, RowOf(new, P))
      \/ Opened(frontier, P, RowOf(old, P), RowOf(new, P), 0)
      \/ Guessed(RowOf(old, P), RowOf(new, P), 0)
  BY <1>1 DEF Evolves
<1>3. ~ GaveWay(frontier, P, RowOf(new, P))
  BY <1>1 DEF GaveWay
<1> QED BY <1>2, <1>3 DEF SameCell, Opened, Guessed

(* What precedes every store. *)
Ready(ring, players, upto, T) == Touched(MakeRoom(ring, upto, T), players, T)

(* The row of T is there, and what made room for it is what a call may do. *)
LEMMA ReadyKeeps ==
  ASSUME NEW n \in Size, NEW ring \in RingOf(n), NEW T \in Tick,
         NEW players, NEW upto \in 0..MaxTick, MayTouch(ring, upto, T)
  PROVE  \E m \in Size :
           /\ Ready(ring, players, upto, T) \in RingOf(m) /\ RowOf(Ready(ring, players, upto, T), T).tick = T
           /\ Evolves(upto, ring, Ready(ring, players, upto, T))
           /\ \A z \in Slot : Hushed(ring, z) => Hushed(Ready(ring, players, upto, T), z)
<1> DEFINE r == MakeRoom(ring, upto, T)
           q == Ready(ring, players, upto, T)
<1>1. PICK m \in Size : /\ r \in RingOf(m)
                        /\ \A P \in Tick : RowOf(r, P) = RowOf(ring, P)
                        /\ FreeFor(r, upto, T)
  BY MakeRoomKeeps
<1>2. m \in Nat \ {0}
  BY SizeType
<1>3. q = Touched(r, players, T)
  BY DEF Ready
<1> HIDE DEF r, q
<1>4. /\ q \in RingOf(m) /\ RowOf(q, T).tick = T /\ Evolves(upto, r, q)
      /\ \A z \in Slot : Hushed(r, z) => Hushed(q, z)
  BY <1>1, <1>2, <1>3, TouchedKeeps
<1>5. Evolves(upto, ring, q)
  BY <1>1, <1>4 DEF Evolves
<1>6. \A z \in Slot : Hushed(ring, z) => Hushed(q, z)
  BY <1>1, <1>4 DEF Hushed
<1> QED BY <1>4, <1>5, <1>6 DEF q

(* What is known after an input of player s for T, and nothing else, is. *)
HeardAfter(s, T, v, conf) == IF conf /\ watch = <<T, s>> THEN v ELSE heard

(* Storing an input keeps what is known, unless it is a prediction that would
   take the place of a confirmed one. *)
LEMMA StoredKnown ==
  ASSUME NEW n \in Nat \ {0}, NEW ring \in RingOf(n), NEW T \in Tick,
         RowOf(ring, T).tick = T, NEW s \in Slot, NEW v \in Value,
         NEW conf \in BOOLEAN, conf \/ s \notin RowOf(ring, T).confirmed,
         watch \in Tick \X Slot, Known(ring, heard, sent)
  PROVE  /\ Known(Stored(ring, s, T, v, conf), HeardAfter(s, T, v, conf), sent)
         /\ Stay(frontier, ring, Stored(ring, s, T, v, conf))
         /\ \A z \in Slot \ {s} :
              Hushed(ring, z) => Hushed(Stored(ring, s, T, v, conf), z)
<1> DEFINE q == Stored(ring, s, T, v, conf)
           a == RowOf(ring, T)
           w == WithStored(a, s, v, conf)
           h == HeardAfter(s, T, v, conf)
<1>1. /\ RowOf(q, T) = w /\ w \in Row /\ w.tick = T
      /\ \A P \in Tick \ {T} : RowOf(q, P) = RowOf(ring, P)
  BY StoredKeeps
<1>2. a \in Row
  <2>1. ring \in [0..n - 1 -> Row]
    BY DEF RingOf
  <2> QED BY <2>1, RowOfType
<1> HIDE DEF q, a
<1>3. /\ w.cmds = a.cmds /\ w.input[s] = v
      /\ w.confirmed = IF conf THEN a.confirmed \cup {s} ELSE a.confirmed
      /\ \A z \in Slot \ {s} : w.input[z] = a.input[z]
  BY <1>2 DEF WithStored, Row
<1> HIDE DEF w
<1>4. PICK W \in Tick, z \in Slot : watch = <<W, z>>
  OBVIOUS
<1>5. /\ W > frontier /\ RowOf(ring, W).tick # W => heard = Empty /\ sent = <<>>
      /\ W > frontier /\ heard # Empty => z \in RowOf(ring, W).confirmed
      /\ RowOf(ring, W).tick = W => RowOf(ring, W).cmds[z] = sent
      /\ z \in RowOf(ring, W).confirmed =>
           heard # Empty /\ RowOf(ring, W).input[z] = heard
  BY <1>4 DEF Known
<1>6. h = IF conf /\ W = T /\ z = s THEN v ELSE heard
  BY <1>4 DEF HeardAfter
<1> HIDE DEF h
<1>7. /\ W > frontier /\ RowOf(q, W).tick # W => h = Empty /\ sent = <<>>
      /\ W > frontier /\ h # Empty => z \in RowOf(q, W).confirmed
      /\ RowOf(q, W).tick = W => RowOf(q, W).cmds[z] = sent
      /\ z \in RowOf(q, W).confirmed => h # Empty /\ RowOf(q, W).input[z] = h
  <2>1. CASE W # T
    BY <1>1, <1>5, <1>6, <2>1
  <2>2. CASE W = T /\ z # s
    BY <1>1, <1>3, <1>5, <1>6, <2>2 DEF a
  <2>3. CASE W = T /\ z = s
    BY <1>1, <1>3, <1>5, <1>6, <2>3 DEF a
  <2> QED BY <2>1, <2>2, <2>3
<1>8. Known(q, h, sent)
  BY <1>4, <1>7 DEF Known
<1>9. Stay(frontier, ring, q)
  BY <1>1 DEF Stay
<1>10. ASSUME NEW y \in Slot \ {s}, Hushed(ring, y), NEW P \in Tick
       PROVE  Silent(RowOf(q, P), y)
  <2>1. Silent(RowOf(ring, P), y)
    BY <1>10 DEF Hushed
  <2>2. Silent(a, y) => Silent(w, y)
    BY <1>3 DEF Silent
  <2> QED BY <1>1, <2>1, <2>2 DEF a
<1>11. \A y \in Slot \ {s} : Hushed(ring, y) => Hushed(q, y)
  BY <1>10 DEF Hushed
<1> QED BY <1>8, <1>9, <1>11 DEF q, h

(* ecs_input_set keeps what is known. *)
LEMMA InputKeeps ==
  ASSUME NEW n \in Size, NEW ring \in RingOf(n), NEW T \in Tick,
         NEW s \in Slot, NEW v \in Value, NEW conf \in BOOLEAN,
         frontier \in 0..MaxTick, MayTouch(ring, frontier, T),
         watch \in Tick \X Slot, Known(ring, heard, sent)
  PROVE  /\ \E m \in Size : WithInput(ring, live, frontier, s, T, v, conf) \in RingOf(m)
         /\ Known(WithInput(ring, live, frontier, s, T, v, conf), HeardAfter(s, T, v, conf), sent)
         /\ Stay(frontier, ring, WithInput(ring, live, frontier, s, T, v, conf))
         /\ \A z \in Slot \ {s} :
              Hushed(ring, z) => Hushed(WithInput(ring, live, frontier, s, T, v, conf), z)
<1> DEFINE r == Ready(ring, live, frontier, T)
           u == Stored(r, s, T, v, conf)
           w == Backfilled(u, live, frontier, s, T, v)
           q == WithInput(ring, live, frontier, s, T, v, conf)
           h == HeardAfter(s, T, v, conf)
           kept == ~ conf /\ s \in At(r, T).confirmed
<1>1. PICK m \in Size : /\ r \in RingOf(m) /\ RowOf(r, T).tick = T
                        /\ Evolves(frontier, ring, r)
                        /\ \A z \in Slot : Hushed(ring, z) => Hushed(r, z)
  BY ReadyKeeps
<1>2. q = IF kept THEN r ELSE w
  BY DEF WithInput, Ready
<1> HIDE DEF r
<1>3. m \in Nat \ {0} /\ At(r, T) = RowOf(r, T)
  <2>1. m \in Nat \ {0}
    BY SizeType
  <2>2. r \in [0..m - 1 -> Row]
    BY <1>1 DEF RingOf
  <2> QED BY <1>1, <2>1, <2>2, RowOfType
<1>4. Known(r, heard, sent) /\ Stay(frontier, ring, r)
  BY <1>1, EvolvesKnown, EvolvesStay
<1>5. CASE kept
  <2>1. h = heard /\ q = r
    BY <1>2, <1>5 DEF HeardAfter
  <2> QED BY <1>1, <1>4, <2>1
<1>6. CASE ~ kept
  <2>1. conf \/ s \notin RowOf(r, T).confirmed
    BY <1>3, <1>6
  <2>2. u \in RingOf(m)
    BY <1>1, <1>3, StoredKeeps
  <2>3. /\ Known(u, h, sent) /\ Stay(frontier, r, u)
        /\ \A z \in Slot \ {s} : Hushed(r, z) => Hushed(u, z)
    BY <1>1, <1>3, <1>4, <2>1, StoredKnown
  <2> HIDE DEF u, h
  <2>4. /\ w \in RingOf(m) /\ Evolves(frontier, u, w)
        /\ \A z \in Slot \ {s} : Hushed(u, z) => Hushed(w, z)
    BY <1>3, <2>2, BackfilledKeeps
  <2>5. q = w
    BY <1>2, <1>6
  <2> HIDE DEF w, q
  <2>6. Known(w, h, sent) /\ Stay(frontier, u, w)
    BY <2>3, <2>4, EvolvesKnown, EvolvesStay
  <2>7. Stay(frontier, ring, w)
    BY <1>4, <2>3, <2>6 DEF Stay
  <2> QED BY <1>1, <2>3, <2>4, <2>5, <2>6, <2>7 DEF q, h
<1> QED BY <1>5, <1>6

(* The ring with command c appended where T belongs. *)
Appended(ring, s, T, c) ==
  [ring EXCEPT ![T % Cardinality(DOMAIN ring)].cmds[s] = Append(@, c)]

(* Only the chain of s at tick T is another one. *)
OnlyChain(m, old, new, T, s, chain) ==
  /\ new \in RingOf(m)
  /\ RowOf(new, T).tick = T /\ RowOf(new, T).input = RowOf(old, T).input
  /\ RowOf(new, T).confirmed = RowOf(old, T).confirmed
  /\ RowOf(new, T).cmds[s] = chain
  /\ \A z \in Slot \ {s} : RowOf(new, T).cmds[z] = RowOf(old, T).cmds[z]
  /\ \A P \in Tick \ {T} : RowOf(new, P) = RowOf(old, P)

(* A command appended to a row that is there changes one chain. *)
LEMMA AppendedRow ==
  ASSUME NEW m \in Nat \ {0}, NEW r \in RingOf(m), NEW T \in Tick,
         RowOf(r, T).tick = T, NEW s \in Slot, NEW c \in Command,
         NEW q, q = Appended(r, s, T, c)
  PROVE  OnlyChain(m, r, q, T, s, Append(RowOf(r, T).cmds[s], c))
<1> DEFINE a == RowOf(r, T)
           cmds == [a.cmds EXCEPT ![s] = Append(a.cmds[s], c)]
           w == [a EXCEPT !.cmds = cmds]
<1>1. /\ r \in [0..m - 1 -> Row] /\ Cardinality(DOMAIN r) = m /\ T \in Nat
  BY RingSize, TickType DEF RingOf
<1>2. T % m \in 0..m - 1 /\ At(r, T) = r[T % m]
  BY <1>1, RingAt
<1>3. a \in Row /\ a = r[T % m]
  BY <1>1, <1>2, RowOfType
<1> HIDE DEF a
<1>4. a.cmds \in [Slot -> Seq(Command)]
  BY <1>3 DEF Row
<1>5. Append(a.cmds[s], c) \in Seq(Command)
  BY <1>4
<1>6. /\ cmds \in [Slot -> Seq(Command)] /\ cmds[s] = Append(a.cmds[s], c)
      /\ \A z \in Slot \ {s} : cmds[z] = a.cmds[z]
  BY <1>4, <1>5
<1>7. q = [r EXCEPT ![T % m] = w]
  <2>1. q = [r EXCEPT ![T % m].cmds[s] = Append(@, c)]
    BY <1>1 DEF Appended
  <2>2. w = [a EXCEPT !.cmds[s] = Append(@, c)]
    BY <1>3 DEF Row
  <2> QED BY <1>1, <1>2, <1>3, <2>1, <2>2
<1> HIDE DEF cmds
<1>8. /\ w \in Row /\ w.tick = a.tick /\ w.input = a.input
      /\ w.confirmed = a.confirmed /\ w.cmds = cmds
  BY <1>3, <1>6 DEF Row
<1> HIDE DEF w
<1>9. Replaced(r, q, m, T, w)
  BY <1>1, <1>7, <1>8, ExceptReplaces
<1>10. a.tick = T /\ w.tick = T
  BY <1>8 DEF a
<1>11. /\ q \in RingOf(m) /\ RowOf(q, T) = w
       /\ \A P \in Tick \ {T} : RowOf(q, P) = RowOf(r, P)
  BY <1>8, <1>9, <1>10, RewrittenKeeps
<1> QED BY <1>6, <1>8, <1>10, <1>11 DEF a, OnlyChain

(* The commands sent, after command c of player s for T. *)
SentAfter(s, T, c) == IF watch = <<T, s>> THEN Append(sent, c) ELSE sent

(* ecs_input_cmd_append keeps what is known. *)
LEMMA CommandKeeps ==
  ASSUME NEW n \in Size, NEW ring \in RingOf(n), NEW T \in Tick,
         NEW s \in Slot, NEW c \in Command, T > frontier,
         frontier \in 0..MaxTick, MayTouch(ring, frontier, T),
         watch \in Tick \X Slot, Known(ring, heard, sent)
  PROVE  /\ \E m \in Size : WithCommand(ring, live, frontier, s, T, c) \in RingOf(m)
         /\ Known(WithCommand(ring, live, frontier, s, T, c), heard, SentAfter(s, T, c))
         /\ Stay(frontier, ring, WithCommand(ring, live, frontier, s, T, c))
         /\ \A z \in Slot \ {s} :
              Hushed(ring, z) => Hushed(WithCommand(ring, live, frontier, s, T, c), z)
<1> DEFINE r == Ready(ring, live, frontier, T)
           a == RowOf(r, T)
           q == WithCommand(ring, live, frontier, s, T, c)
           b == RowOf(q, T)
           e == SentAfter(s, T, c)
<1>1. PICK m \in Size : /\ r \in RingOf(m) /\ a.tick = T
                        /\ Evolves(frontier, ring, r)
                        /\ \A z \in Slot : Hushed(ring, z) => Hushed(r, z)
  BY ReadyKeeps
<1>2. m \in Nat \ {0} /\ T \in Nat
  BY SizeType, TickType
<1>3. q = Appended(r, s, T, c)
  BY <1>2 DEF WithCommand, Ready, Appended
<1> HIDE DEF r, q
<1>4. OnlyChain(m, r, q, T, s, Append(a.cmds[s], c))
  BY <1>1, <1>2, <1>3, AppendedRow
<1>5. /\ q \in RingOf(m) /\ b.tick = T /\ b.input = a.input
      /\ b.confirmed = a.confirmed /\ b.cmds[s] = Append(a.cmds[s], c)
      /\ \A z \in Slot \ {s} : b.cmds[z] = a.cmds[z]
      /\ \A P \in Tick \ {T} : RowOf(q, P) = RowOf(r, P)
  BY <1>4 DEF OnlyChain
<1>6. Known(r, heard, sent) /\ Stay(frontier, ring, r)
  BY <1>1, EvolvesKnown, EvolvesStay
<1>7. PICK W \in Tick, z \in Slot : watch = <<W, z>>
  OBVIOUS
<1>8. /\ W > frontier /\ RowOf(r, W).tick # W => heard = Empty /\ sent = <<>>
      /\ W > frontier /\ heard # Empty => z \in RowOf(r, W).confirmed
      /\ RowOf(r, W).tick = W => RowOf(r, W).cmds[z] = sent
      /\ z \in RowOf(r, W).confirmed =>
           heard # Empty /\ RowOf(r, W).input[z] = heard
  BY <1>6, <1>7 DEF Known
<1>9. e = IF W = T /\ z = s THEN Append(sent, c) ELSE sent
  BY <1>7 DEF SentAfter
<1> HIDE DEF e
<1>10. /\ W > frontier /\ RowOf(q, W).tick # W => heard = Empty /\ e = <<>>
       /\ W > frontier /\ heard # Empty => z \in RowOf(q, W).confirmed
       /\ RowOf(q, W).tick = W => RowOf(q, W).cmds[z] = e
       /\ z \in RowOf(q, W).confirmed =>
            heard # Empty /\ RowOf(q, W).input[z] = heard
  <2>1. CASE W # T
    <3>1. RowOf(q, W) = RowOf(r, W) /\ e = sent
      BY <1>5, <1>9, <2>1
    <3> QED BY <1>8, <3>1
  <2>2. CASE W = T
    <3>1. RowOf(q, W) = b /\ RowOf(r, W) = a
      BY <2>2
    <3>2. e = IF z = s THEN Append(sent, c) ELSE sent
      BY <1>9, <2>2
    <3> HIDE DEF a, b
    <3>3. CASE z = s
      BY <1>1, <1>5, <1>8, <2>2, <3>1, <3>2, <3>3
    <3>4. CASE z # s
      BY <1>1, <1>5, <1>8, <2>2, <3>1, <3>2, <3>4
    <3> QED BY <3>3, <3>4
  <2> QED BY <2>1, <2>2
<1>11. Known(q, heard, e)
  BY <1>7, <1>10 DEF Known
<1>12. Stay(frontier, ring, q)
  BY <1>1, <1>5, <1>6 DEF Stay
<1>13. ASSUME NEW y \in Slot \ {s}, Hushed(ring, y), NEW P \in Tick
       PROVE  Silent(RowOf(q, P), y)
  <2>1. Silent(RowOf(r, P), y)
    BY <1>1, <1>13 DEF Hushed
  <2>2. Silent(a, y) => Silent(b, y)
    BY <1>5 DEF Silent
  <2> QED BY <1>5, <2>1, <2>2
<1>14. \A y \in Slot \ {s} : Hushed(ring, y) => Hushed(q, y)
  BY <1>13 DEF Hushed
<1> QED BY <1>5, <1>11, <1>12, <1>14 DEF q, e

(* A recycled column: every row is scrubbed, and none moves. *)
LEMMA ScrubbedRows ==
  ASSUME NEW n \in Nat \ {0}, NEW ring \in RingOf(n), NEW s \in Slot,
         NEW q, q = [t \in DOMAIN ring |-> Scrubbed(ring[t], s)]
  PROVE  /\ q \in RingOf(n)
         /\ \A P \in Tick : RowOf(q, P) = Scrubbed(RowOf(ring, P), s)
         /\ \A P \in Tick : /\ RowOf(q, P).tick = RowOf(ring, P).tick
                             /\ Silent(RowOf(q, P), s)
                             /\ \A z \in Slot \ {s} :
                                  SameCell(RowOf(ring, P), RowOf(q, P), z)
<1>1. ring \in [0..n - 1 -> Row] /\ DOMAIN ring = 0..n - 1
  BY RingSize DEF RingOf
<1>2. ASSUME NEW row \in Row
      PROVE  /\ Scrubbed(row, s) \in Row /\ Scrubbed(row, s).tick = row.tick
             /\ row = NoRow => Scrubbed(row, s) = NoRow
             /\ row.tick # Nil \/ row = NoRow => Silent(Scrubbed(row, s), s)
             /\ \A z \in Slot \ {s} : SameCell(row, Scrubbed(row, s), z)
  <2>1. CASE row.tick = Nil
    BY <2>1, NoRowSilent DEF Scrubbed, SameCell
  <2>2. CASE row.tick # Nil
    <3> DEFINE w == Scrubbed(row, s)
    <3> DEFINE input == [row.input EXCEPT ![s] = Empty]
               cmds == [row.cmds EXCEPT ![s] = <<>>]
    <3>4. w = [row EXCEPT !.input = input, !.confirmed = row.confirmed \ {s},
                          !.cmds = cmds]
      BY <2>2 DEF Scrubbed, Row
    <3>5. row.input \in [Slot -> Value \cup {Empty}] /\ row.cmds \in [Slot -> Seq(Command)]
      BY DEF Row
    <3>1. /\ input \in [Slot -> Value \cup {Empty}] /\ input[s] = Empty
          /\ cmds \in [Slot -> Seq(Command)] /\ cmds[s] = <<>>
          /\ \A z \in Slot \ {s} : input[z] = row.input[z] /\ cmds[z] = row.cmds[z]
      BY <3>5
    <3> HIDE DEF w, input, cmds
    <3>2. /\ w \in Row /\ w.tick = row.tick /\ w.confirmed = row.confirmed \ {s}
          /\ w.input[s] = Empty /\ w.cmds[s] = <<>>
          /\ \A z \in Slot \ {s} : w.input[z] = row.input[z] /\ w.cmds[z] = row.cmds[z]
      BY <3>1, <3>4 DEF Row
    <3>3. row # NoRow
      BY <2>2 DEF NoRow
    <3> QED BY <3>2, <3>3 DEF SameCell, Silent, w
  <2> QED BY <2>1, <2>2
<1>3. /\ q \in [0..n - 1 -> Row]
      /\ \A t \in 0..n - 1 : q[t] = Scrubbed(ring[t], s)
  BY <1>1, <1>2
<1>4. q \in RingOf(n)
  BY <1>1, <1>2, <1>3 DEF RingOf
<1>5. ASSUME NEW P \in Tick
      PROVE  RowOf(q, P) = Scrubbed(RowOf(ring, P), s)
  <2>1. P \in Nat
    BY TickType
  <2>2. P % n \in 0..n - 1 /\ At(ring, P) = ring[P % n]
    BY <1>1, <2>1, RingAt
  <2>3. At(q, P) = q[P % n]
    BY ZenonT(40), <1>3, <2>1, RingAt
  <2>4. ring[P % n] \in Row /\ q[P % n] = Scrubbed(ring[P % n], s)
    BY <1>1, <1>3, <2>2
  <2> QED BY <1>2, <2>2, <2>3, <2>4, NoRowType DEF RowOf
<1>6. ASSUME NEW P \in Tick
      PROVE  /\ RowOf(ring, P) \in Row
             /\ RowOf(ring, P).tick # Nil \/ RowOf(ring, P) = NoRow
  BY <1>1, RowOfType
<1> QED BY <1>2, <1>4, <1>5, <1>6

(* One position is emptied. *)
LEMMA ClearedRows ==
  ASSUME NEW n \in Nat \ {0}, NEW ring \in RingOf(n), NEW T \in Tick,
         NEW q, Replaced(ring, q, n, T, NoRow)
  PROVE  /\ q \in RingOf(n)
         /\ \A P \in Tick : RowOf(q, P) =
              IF P % n = T % n THEN NoRow ELSE RowOf(ring, P)
         /\ At(ring, T).tick # Nil => At(ring, T).tick % n = T % n
<1>1. /\ ring \in [0..n - 1 -> Row] /\ T % n \in 0..n - 1
      /\ At(ring, T) = ring[T % n]
  BY ZenonT(40), TickType, RingAt DEF RingOf
<1>2. /\ q \in [0..n - 1 -> Row] /\ q[T % n] = NoRow
      /\ \A t \in 0..n - 1 : t # T % n => q[t] = ring[t]
  BY DEF Replaced
<1>3. q \in RingOf(n)
  BY <1>2 DEF RingOf, NoRow
<1>4. ASSUME NEW P \in Tick
      PROVE  RowOf(q, P) = IF P % n = T % n THEN NoRow ELSE RowOf(ring, P)
  <2>1. P \in Nat
    BY TickType
  <2>2. P % n \in 0..n - 1 /\ At(ring, P) = ring[P % n]
    BY <1>1, <2>1, RingAt
  <2>3. At(q, P) = q[P % n]
    BY <1>2, <2>1, RingAt
  <2> QED BY <1>2, <2>2, <2>3 DEF RowOf
<1>5. At(ring, T).tick # Nil => At(ring, T).tick % n = T % n
  BY <1>1 DEF RingOf
<1> QED BY <1>3, <1>4, <1>5

-----------------------------------------------------------------------------
(* The inductive invariant of a table under any calls *)

RingInv == \E n \in Size : rows \in RingOf(n)

OwnerInv ==
  /\ live \subseteq Slot /\ quiet \subseteq Slot /\ frontier \in 0..MaxTick
  /\ watch \in Tick \X Slot

KnownInv == Known(rows, heard, sent)

HushInv == \A z \in quiet : Hushed(rows, z)

IInv == RingInv /\ OwnerInv /\ KnownInv /\ HushInv

(* No tick has a row in the first ring. *)
LEMMA EmptyRingRows ==
  /\ EmptyRing \in RingOf(BufInit)
  /\ \A P \in Tick : RowOf(EmptyRing, P) = NoRow
<1>1. BufInit \in Nat \ {0} /\ NoRow \in Row /\ NoRow.tick = Nil
  BY NoRowType DEF NoRow
<1>2. EmptyRing \in [0..BufInit - 1 -> Row] /\ EmptyRing \in RingOf(BufInit)
  BY <1>1 DEF EmptyRing, RingOf
<1>3. ASSUME NEW P \in Tick
      PROVE  RowOf(EmptyRing, P) = NoRow
  <2>1. P \in Nat
    BY TickType
  <2>2. P % BufInit \in 0..BufInit - 1 /\ At(EmptyRing, P) = EmptyRing[P % BufInit]
    BY <1>1, <1>2, <2>1, RingAt
  <2> QED BY <2>2 DEF RowOf, EmptyRing
<1> QED BY <1>2, <1>3

(* An empty ring, and nothing heard. *)
LEMMA InitKeeps == Init => IInv
<1> SUFFICES ASSUME Init PROVE IInv
  OBVIOUS
<1>1. BufInit \in Size /\ rows \in RingOf(BufInit)
  BY InitSize, EmptyRingRows DEF Init
<1>2. \A P \in Tick : RowOf(rows, P) = NoRow
  BY EmptyRingRows DEF Init
<1>3. OwnerInv /\ HushInv
  BY DEF Init, OwnerInv, HushInv
<1>4. KnownInv
  <2>1. watch[1] \in Tick /\ watch[1] # Nil
    BY <1>3, TickType DEF OwnerInv
  <2>2. heard = Empty /\ sent = <<>> /\ RowOf(rows, watch[1]) = NoRow
    BY <1>2, <2>1 DEF Init
  <2>3. NoRow.tick = Nil /\ NoRow.confirmed = {}
    BY DEF NoRow
  <2> QED BY <2>1, <2>2, <2>3 DEF KnownInv, Known
<1> QED BY <1>1, <1>3, <1>4 DEF IInv, RingInv

(* An input, at whatever tick and for whatever player. *)
LEMMA SetKeeps ==
  ASSUME IInv, NEW s \in Slot, NEW T \in Tick, NEW v \in Value,
         NEW conf \in BOOLEAN, Set(s, T, v, conf)
  PROVE  IInv' /\ Stay(frontier, rows, rows')
<1>1. PICK n \in Size : rows \in RingOf(n)
  BY DEF IInv, RingInv
<1>2. /\ rows' = WithInput(rows, live, frontier, s, T, v, conf) /\ MayTouch(rows, frontier, T)
      /\ heard' = HeardAfter(s, T, v, conf) /\ quiet' = quiet \ {s}
      /\ UNCHANGED <<live, frontier, watch, sent>>
  BY DEF Set, HeardAfter
<1>3. /\ \E m \in Size : rows' \in RingOf(m)
      /\ Known(rows', heard', sent) /\ Stay(frontier, rows, rows')
      /\ \A z \in Slot \ {s} : Hushed(rows, z) => Hushed(rows', z)
  BY <1>1, <1>2, InputKeeps DEF IInv, OwnerInv, KnownInv
<1>4. RingInv' /\ OwnerInv'
  BY <1>2, <1>3 DEF IInv, RingInv, OwnerInv
<1>5. KnownInv'
  BY <1>2, <1>3 DEF KnownInv, Known
<1>6. HushInv'
  BY <1>2, <1>3 DEF IInv, OwnerInv, HushInv
<1> QED BY <1>3, <1>4, <1>5, <1>6 DEF IInv

(* A command, at whatever tick that is not sealed. *)
LEMMA CmdAppendKeeps ==
  ASSUME IInv, NEW s \in Slot, NEW T \in Tick, NEW c \in Command,
         CmdAppend(s, T, c)
  PROVE  IInv' /\ Stay(frontier, rows, rows')
<1>1. PICK n \in Size : rows \in RingOf(n)
  BY DEF IInv, RingInv
<1>2. /\ rows' = WithCommand(rows, live, frontier, s, T, c) /\ MayTouch(rows, frontier, T) /\ T > frontier
      /\ sent' = SentAfter(s, T, c) /\ quiet' = quiet \ {s}
      /\ UNCHANGED <<live, frontier, watch, heard>>
  BY DEF CmdAppend, SentAfter
<1>3. /\ \E m \in Size : rows' \in RingOf(m)
      /\ Known(rows', heard, sent') /\ Stay(frontier, rows, rows')
      /\ \A z \in Slot \ {s} : Hushed(rows, z) => Hushed(rows', z)
  BY <1>1, <1>2, CommandKeeps DEF IInv, OwnerInv, KnownInv
<1>4. RingInv' /\ OwnerInv'
  BY <1>2, <1>3 DEF IInv, RingInv, OwnerInv
<1>5. KnownInv'
  BY <1>2, <1>3 DEF KnownInv, Known
<1>6. HushInv'
  BY <1>2, <1>3 DEF IInv, OwnerInv, HushInv
<1> QED BY <1>3, <1>4, <1>5, <1>6 DEF IInv

(* The slot given to the next player is a free one. *)
LEMMA LowestFreeType ==
  ASSUME NEW players, players \subseteq Slot, players # Slot
  PROVE  LowestFree(players) \in Slot
<1> DEFINE S == Slot \ players
<1>1. S \in SUBSET Nat /\ S # {}
  <2>1. S # {}
    OBVIOUS
  <2> QED BY <2>1 DEF Slot
<1>2. LowestFree(players) = Min(S)
  BY DEF LowestFree
<1> HIDE DEF S
<1>3. Min(S) \in S
  BY <1>1, LeastNumber
<1> QED BY <1>2, <1>3 DEF S

(* A slot changes hands: its new owner has sent nothing and has nothing. *)
LEMMA AllocKeeps ==
  ASSUME IInv, AllocSlot
  PROVE  IInv' /\ Stay(frontier, rows, rows')
<1> DEFINE s == LowestFree(live)
<1>1. PICK n \in Size : rows \in RingOf(n)
  BY DEF IInv, RingInv
<1>2. n \in Nat \ {0}
  BY SizeType
<1>3. s \in Slot
  BY LowestFreeType DEF AllocSlot, IInv, OwnerInv
<1>4. /\ rows' = [t \in DOMAIN rows |-> Scrubbed(rows[t], s)]
      /\ live' = live \cup {s} /\ quiet' = quiet \cup {s}
      /\ heard' = (IF watch[2] = s THEN Empty ELSE heard)
      /\ sent' = (IF watch[2] = s THEN <<>> ELSE sent)
      /\ UNCHANGED <<frontier, watch>>
  BY DEF AllocSlot, Joined
<1> HIDE DEF s
<1>5. /\ rows' \in RingOf(n)
      /\ \A P \in Tick : /\ RowOf(rows', P).tick = RowOf(rows, P).tick
                          /\ Silent(RowOf(rows', P), s)
                          /\ \A z \in Slot \ {s} :
                               SameCell(RowOf(rows, P), RowOf(rows', P), z)
  BY <1>1, <1>2, <1>3, <1>4, ScrubbedRows
<1>7. Stay(frontier, rows, rows')
  BY <1>5 DEF Stay
<1>8. RingInv' /\ OwnerInv'
  BY <1>3, <1>4, <1>5 DEF IInv, RingInv, OwnerInv
<1>9. KnownInv'
  <2>1. PICK W \in Tick, z \in Slot : watch = <<W, z>>
    BY DEF IInv, OwnerInv
  <2> DEFINE a == RowOf(rows, W)
             b == RowOf(rows', W)
  <2>2. /\ W > frontier /\ a.tick # W => heard = Empty /\ sent = <<>>
        /\ W > frontier /\ heard # Empty => z \in a.confirmed
        /\ a.tick = W => a.cmds[z] = sent
        /\ z \in a.confirmed => heard # Empty /\ a.input[z] = heard
    BY <2>1 DEF IInv, KnownInv, Known
  <2>3. b.tick = a.tick /\ Silent(b, s) /\ (z # s => SameCell(a, b, z))
    BY <1>5
  <2> HIDE DEF a, b
  <2>4. /\ W > frontier /\ b.tick # W => heard' = Empty /\ sent' = <<>>
        /\ W > frontier /\ heard' # Empty => z \in b.confirmed
        /\ b.tick = W => b.cmds[z] = sent'
        /\ z \in b.confirmed => heard' # Empty /\ b.input[z] = heard'
    <3>1. CASE z = s
      BY <1>4, <2>1, <2>3, <3>1 DEF Silent
    <3>2. CASE z # s
      BY <1>4, <2>1, <2>2, <2>3, <3>2 DEF SameCell
    <3> QED BY <3>1, <3>2
  <2> QED BY <1>4, <2>1, <2>4 DEF KnownInv, Known, b
<1>10. HushInv'
  <2> SUFFICES ASSUME NEW z \in quiet', NEW P \in Tick
               PROVE  Silent(RowOf(rows', P), z)
    BY DEF HushInv, Hushed
  <2>1. CASE z = s
    BY <1>5, <2>1
  <2>2. CASE z # s
    <3>1. z \in Slot \ {s} /\ Silent(RowOf(rows, P), z)
      BY <1>4, <2>2 DEF IInv, OwnerInv, HushInv, Hushed
    <3> QED BY <1>5, <3>1 DEF SameCell, Silent
  <2> QED BY <2>1, <2>2
<1> QED BY <1>7, <1>8, <1>9, <1>10 DEF IInv

(* A position is emptied: what its tick was known for is forgotten. *)
LEMMA ClearKeeps ==
  ASSUME IInv, NEW T \in Tick, Clear(T)
  PROVE  IInv'
<1>1. PICK n \in Size : rows \in RingOf(n)
  BY DEF IInv, RingInv
<1>2. n \in Nat \ {0} /\ bufSize = n
  <2>1. n \in Nat \ {0}
    BY SizeType
  <2>2. rows \in [0..n - 1 -> Row]
    BY <1>1 DEF RingOf
  <2> QED BY <2>1, <2>2, RingSize DEF bufSize
<1>3. /\ rows' = [rows EXCEPT ![T % n] = NoRow]
      /\ UNCHANGED <<live, frontier, watch, quiet>>
      /\ At(rows, T).tick = watch[1] => heard' = Empty /\ sent' = <<>>
      /\ At(rows, T).tick # watch[1] => heard' = heard /\ sent' = sent
  BY <1>2 DEF Clear
<1>4. /\ rows' \in RingOf(n)
      /\ \A P \in Tick : RowOf(rows', P) =
           IF P % n = T % n THEN NoRow ELSE RowOf(rows, P)
      /\ At(rows, T).tick # Nil => At(rows, T).tick % n = T % n
  <2>1. Replaced(rows, rows', n, T, NoRow)
    BY <1>1, <1>2, <1>3, ExceptReplaces, NoRowType DEF RingOf
  <2> QED BY <1>1, <1>2, <2>1, ClearedRows
<1>5. RingInv' /\ OwnerInv'
  BY <1>3, <1>4 DEF IInv, RingInv, OwnerInv
<1>6. KnownInv'
  <2>1. PICK W \in Tick, z \in Slot : watch = <<W, z>>
    BY DEF IInv, OwnerInv
  <2> DEFINE a == RowOf(rows, W)
             b == RowOf(rows', W)
  <2>2. /\ W > frontier /\ a.tick # W => heard = Empty /\ sent = <<>>
        /\ W > frontier /\ heard # Empty => z \in a.confirmed
        /\ a.tick = W => a.cmds[z] = sent
        /\ z \in a.confirmed => heard # Empty /\ a.input[z] = heard
    BY <2>1 DEF IInv, KnownInv, Known
  <2>3. W # Nil /\ NoRow.tick = Nil /\ NoRow.confirmed = {}
    BY TickType DEF NoRow
  <2>4. CASE At(rows, T).tick = W
    <3>1. b = NoRow
      BY <1>4, <2>3, <2>4
    <3> QED BY <1>3, <2>1, <2>3, <2>4, <3>1 DEF KnownInv, Known, b
  <2>5. CASE At(rows, T).tick # W
    <3>1. heard' = heard /\ sent' = sent
      BY <1>3, <2>1, <2>5
    <3>2. CASE W % n = T % n
      <4>1. b = NoRow
        BY <1>4, <3>2
      <4>2. At(rows, W) = At(rows, T)
        BY <1>1, <1>2, <3>2, SamePosition DEF RingOf
      <4>3. a = NoRow
        BY <2>5, <4>2 DEF RowOf
      <4> QED BY <1>3, <2>1, <2>2, <2>3, <3>1, <4>1, <4>3 DEF KnownInv, Known, b
    <3>3. CASE W % n # T % n
      <4>1. b = a
        BY <1>4, <3>3
      <4> QED BY <1>3, <2>1, <2>2, <3>1, <4>1 DEF KnownInv, Known, b
    <3> QED BY <3>2, <3>3
  <2> QED BY <2>4, <2>5
<1>7. HushInv'
  <2> SUFFICES ASSUME NEW z \in quiet', NEW P \in Tick
               PROVE  Silent(RowOf(rows', P), z)
    BY DEF HushInv, Hushed
  <2>1. z \in Slot /\ Silent(RowOf(rows, P), z)
    BY <1>3 DEF IInv, OwnerInv, HushInv, Hushed
  <2> QED BY <1>4, <2>1, NoRowSilent
<1> QED BY <1>5, <1>6, <1>7 DEF IInv

(* Growth asked for by the caller. *)
LEMMA GrowKeeps ==
  ASSUME IInv, NEW size \in 1..BufMax, GrowBuf(size)
  PROVE  IInv' /\ Stay(frontier, rows, rows')
<1>1. PICK n \in Size : rows \in RingOf(n)
  BY DEF IInv, RingInv
<1>2. n \in Nat \ {0} /\ Cardinality(DOMAIN rows) = n
  <2>1. n \in Nat \ {0}
    BY SizeType
  <2>2. rows \in [0..n - 1 -> Row]
    BY <1>1 DEF RingOf
  <2> QED BY <2>1, <2>2, RingSize
<1>3. /\ rows' = Grown(rows, size) /\ size \in Doubled(n)
      /\ UNCHANGED <<live, frontier, watch, heard, sent, quiet>>
  BY <1>2 DEF GrowBuf, Wider, history
<1>4. /\ size \in Size /\ rows' \in RingOf(size)
      /\ \A P \in Tick : RowOf(rows', P) = RowOf(rows, P)
  BY <1>1, <1>3, GrownKeeps
<1>5. RingInv' /\ OwnerInv' /\ HushInv' /\ Stay(frontier, rows, rows')
  BY <1>3, <1>4 DEF IInv, RingInv, OwnerInv, HushInv, Hushed, Stay
<1>6. KnownInv'
  <2>1. watch[1] \in Tick
    BY DEF IInv, OwnerInv
  <2>2. RowOf(rows', watch[1]) = RowOf(rows, watch[1])
    BY <1>4, <2>1
  <2> QED BY <1>3, <2>2 DEF IInv, KnownInv, Known
<1> QED BY <1>5, <1>6 DEF IInv

(* A player leaves: the ring stays. *)
LEMMA FreeKeeps ==
  ASSUME IInv, NEW s \in Slot, FreeSlot(s)
  PROVE  IInv' /\ Stay(frontier, rows, rows')
<1>1. /\ live' = live \ {s}
      /\ UNCHANGED <<rows, frontier, watch, heard, sent, quiet>>
  BY DEF FreeSlot, history
<1> QED BY <1>1 DEF IInv, RingInv, OwnerInv, KnownInv, Known, HushInv, Hushed, Stay

(* The simulation seals ticks: the ring stays. *)
LEMMA AdvanceKeeps ==
  ASSUME IInv, NEW T \in Tick, AdvanceToTick(T)
  PROVE  IInv' /\ Stay(frontier, rows, rows')
<1>1. /\ frontier' = T /\ T >= frontier
      /\ UNCHANGED <<rows, live, watch, heard, sent, quiet>>
  BY DEF AdvanceToTick, history
<1>2. frontier' \in 0..MaxTick
  BY <1>1 DEF Tick
<1>3. RingInv' /\ OwnerInv' /\ HushInv' /\ Stay(frontier, rows, rows')
  BY <1>1, <1>2 DEF IInv, RingInv, OwnerInv, HushInv, Hushed, Stay
<1>4. KnownInv'
  <2>1. watch[1] \in Tick /\ frontier \in Nat /\ T \in Nat
    BY DEF IInv, OwnerInv, Tick
  <2>2. \A W \in Tick : W > frontier' => W > frontier
    BY <1>1, <2>1 DEF Tick
  <2> QED BY <1>1, <2>1, <2>2 DEF IInv, KnownInv, Known
<1> QED BY <1>3, <1>4 DEF IInv

(* Every step preserves the invariant, and only ecs_input_clear takes a tick
   that is not sealed out of the ring. *)
LEMMA NextKeeps ==
  ASSUME IInv, [Next]_vars
  PROVE  IInv' /\ (Stay(frontier, rows, rows') \/ \E T \in Tick : Clear(T))
<1>1. ASSUME NEW s \in Slot, NEW T \in Tick, NEW v \in Value, NEW conf \in BOOLEAN,
             Set(s, T, v, conf)
      PROVE  IInv' /\ Stay(frontier, rows, rows')
  BY <1>1, SetKeeps
<1>2. ASSUME NEW s \in Slot, NEW T \in Tick, NEW c \in Command, CmdAppend(s, T, c)
      PROVE  IInv' /\ Stay(frontier, rows, rows')
  BY <1>2, CmdAppendKeeps
<1>3. CASE AllocSlot
  BY <1>3, AllocKeeps
<1>4. ASSUME NEW s \in Slot, FreeSlot(s)
      PROVE  IInv' /\ Stay(frontier, rows, rows')
  BY <1>4, FreeKeeps
<1>5. ASSUME NEW T \in Tick, Clear(T)
      PROVE  IInv'
  BY <1>5, ClearKeeps
<1>6. ASSUME NEW T \in Tick, AdvanceToTick(T)
      PROVE  IInv' /\ Stay(frontier, rows, rows')
  BY <1>6, AdvanceKeeps
<1>7. ASSUME NEW size \in 1..BufMax, GrowBuf(size)
      PROVE  IInv' /\ Stay(frontier, rows, rows')
  BY <1>7, GrowKeeps
<1>8. CASE UNCHANGED vars
  BY <1>8 DEF vars, table, history, IInv, RingInv, OwnerInv, KnownInv, Known,
              HushInv, Hushed, Stay
<1> QED BY <1>1, <1>2, <1>3, <1>4, <1>5, <1>6, <1>7, <1>8 DEF Next

(* The invariant holds in every reachable state. *)
LEMMA Invariance == Spec => []IInv
BY InitKeeps, NextKeeps, PTL DEF Spec

-----------------------------------------------------------------------------
(* What the invariant says of the ring the simulation reads. *)

(* The ring has a size. *)
LEMMA RingShape ==
  ASSUME IInv
  PROVE  \E n \in Size : /\ n \in Nat \ {0} /\ bufSize = n
                         /\ rows \in RingOf(n) /\ rows \in [0..n - 1 -> Row]
<1>1. PICK n \in Size : rows \in RingOf(n)
  BY DEF IInv, RingInv
<1>2. n \in Nat \ {0} /\ rows \in [0..n - 1 -> Row]
  BY <1>1, SizeType DEF RingOf
<1>3. bufSize = n
  BY <1>2, RingSize DEF bufSize
<1> QED BY <1>1, <1>2, <1>3

(* A tick is resident when it has a row, which is then the one at its
   position. *)
LEMMA ResidentRow ==
  ASSUME IInv, NEW T \in Tick
  PROVE  /\ Resident(T) <=> RowOf(rows, T).tick = T
         /\ Resident(T) => At(rows, T) = RowOf(rows, T)
<1>1. T # Nil /\ NoRow.tick = Nil
  BY TickType DEF NoRow
<1> QED BY <1>1 DEF Resident, RowOf

(* Whatever the cap, the ring has a size that is a doubling of the first one,
   and every row sits where its tick belongs. *)
THEOREM TypeCorrect == Spec => []TypeOK
<1>1. IInv => TypeOK
  <2> SUFFICES ASSUME IInv PROVE InPlace(rows)
    BY DEF TypeOK, IInv, OwnerInv
  <2>1. PICK n \in Size : rows \in RingOf(n)
    BY RingShape
  <2> QED BY <2>1, RingInPlace
<1> QED BY <1>1, Invariance, PTL

(* For any number of players, ring size and cap: what was received for a tick
   that is not sealed is what the simulation reads for it. *)
THEOREM HeardStays == Spec => []HeardIsKept
<1>1. IInv => HeardIsKept
  <2> SUFFICES ASSUME IInv, watch[1] > frontier, watch[2] \in live
               PROVE  /\ heard # Empty =>
                           View(watch[1], watch[2]) = [data |-> heard, confirmed |-> TRUE]
                      /\ sent # <<>> => Yielded(watch[1], watch[2]) = sent
    BY DEF HeardIsKept
  <2>1. PICK T \in Tick, s \in Slot : watch = <<T, s>>
    BY DEF IInv, OwnerInv
  <2> DEFINE row == RowOf(rows, T)
  <2>2. /\ row.tick # T => heard = Empty /\ sent = <<>>
        /\ heard # Empty => s \in row.confirmed
        /\ row.tick = T => row.cmds[s] = sent
        /\ s \in row.confirmed => row.input[s] = heard
    BY <2>1 DEF IInv, KnownInv, Known
  <2>3. /\ Resident(T) <=> row.tick = T
        /\ Resident(T) => At(rows, T) = row
    BY ResidentRow
  <2>4. s \in live
    BY <2>1
  <2> HIDE DEF row
  <2> QED BY <2>1, <2>2, <2>3, <2>4 DEF View, Yielded
<1> QED BY <1>1, Invariance, PTL

(* Nothing reads as confirmed, and no command is yielded, that was not
   received for that tick from that owner. *)
THEOREM NothingInvented == Spec => []NothingMadeUp
<1>1. IInv => NothingMadeUp
  <2> SUFFICES ASSUME IInv
               PROVE  /\ View(watch[1], watch[2]).confirmed =>
                           View(watch[1], watch[2]).data = heard
                      /\ IsPrefix(Yielded(watch[1], watch[2]), sent)
    BY DEF NothingMadeUp
  <2>1. PICK T \in Tick, s \in Slot : watch = <<T, s>>
    BY DEF IInv, OwnerInv
  <2> DEFINE row == RowOf(rows, T)
  <2>2. /\ T > frontier /\ row.tick # T => sent = <<>>
        /\ row.tick = T => row.cmds[s] = sent
        /\ s \in row.confirmed => row.input[s] = heard
    BY <2>1 DEF IInv, KnownInv, Known
  <2>3. /\ Resident(T) <=> row.tick = T
        /\ Resident(T) => At(rows, T) = row
    BY ResidentRow
  <2> HIDE DEF row
  <2>4. View(T, s).confirmed => View(T, s).data = heard
    BY <2>2, <2>3 DEF View, NoView
  <2>5. Yielded(T, s) = sent \/ Yielded(T, s) = <<>>
    BY <2>2, <2>3 DEF Yielded
  <2>6. IsPrefix(sent, sent) /\ IsPrefix(<<>>, sent)
    BY DEF IsPrefix
  <2> QED BY <2>1, <2>4, <2>5, <2>6
<1> QED BY <1>1, Invariance, PTL

(* Until the new owner of a slot sends something nothing is read for him, at
   any tick. *)
THEOREM RecycledSilent == Spec => []RecycledIsClean
<1>1. IInv => RecycledIsClean
  <2> SUFFICES ASSUME IInv, NEW T \in Tick, NEW s \in quiet \cap live
               PROVE  View(T, s) = NoView /\ Yielded(T, s) = <<>>
    BY DEF RecycledIsClean
  <2>1. Silent(RowOf(rows, T), s)
    BY DEF IInv, HushInv, Hushed
  <2>2. Resident(T) => At(rows, T) = RowOf(rows, T)
    BY ResidentRow
  <2>3. CASE Resident(T)
    <3>1. /\ At(rows, T).input[s] = Empty /\ At(rows, T).cmds[s] = <<>>
          /\ (s \in At(rows, T).confirmed) = FALSE
      BY <2>1, <2>2, <2>3 DEF Silent
    <3>2. View(T, s) = [data |-> Empty, confirmed |-> FALSE]
      BY <2>3, <3>1, Zenon DEF View
    <3> QED BY <2>3, <3>1, <3>2 DEF NoView, Yielded
  <2>4. CASE ~ Resident(T)
    BY <2>4 DEF View, Yielded
  <2> QED BY <2>3, <2>4
<1> QED BY <1>1, Invariance, PTL

(* No tick past the frontier leaves the ring but by ecs_input_clear, whatever
   ticks the packets and the local player touch. *)
THEOREM LiveRowsStay == Spec => NoLiveRowLost
<1> DEFINE Lost == \A T \in Tick : T > frontier /\ Resident(T) =>
                     Resident(T)' \/ \E P \in Tick : Clear(P)
<1>1. IInv /\ IInv' /\ [Next]_vars => Lost
  <2> SUFFICES ASSUME IInv, IInv', [Next]_vars, NEW T \in Tick, T > frontier,
                      Resident(T), ~ \E P \in Tick : Clear(P)
               PROVE  Resident(T)'
    OBVIOUS
  <2>1. Stay(frontier, rows, rows')
    BY NextKeeps
  <2>2. RowOf(rows, T).tick = T
    BY ResidentRow
  <2>3. RowOf(rows', T).tick = T
    BY <2>1, <2>2 DEF Stay
  <2>4. At(rows', T).tick = T
    <3>1. T # Nil /\ NoRow.tick = Nil
      BY TickType DEF NoRow
    <3> QED BY <2>3, <3>1 DEF RowOf
  <2> QED BY <2>4 DEF Resident
<1> QED BY <1>1, Invariance, PTL DEF Spec, NoLiveRowLost

-----------------------------------------------------------------------------
(* The two peers of InputSync.

   First what an input or a command does to the cells it is not about, in a
   table that may have no room left. *)

USE ValueAssumption, SameAssumption, PacketAssumption

(* Everything of z in the row is still there. *)
Kept(a, b, z) ==
  /\ b.tick = a.tick /\ b.cmds[z] = a.cmds[z]
  /\ z \in b.confirmed <=> z \in a.confirmed
  /\ a.input[z] # Empty => b.input[z] = a.input[z]

(* z has at most a prediction at tick P, past low. *)
Blank(low, P, b, z) ==
  /\ z \notin b.confirmed /\ b.cmds[z] = <<>>
  /\ b.tick = Nil \/ P > low

Drift(low, P, a, b, z) == Kept(a, b, z) \/ Blank(low, P, b, z)

Drifts(low, old, new) ==
  \A P \in Tick, z \in Slot : Drift(low, P, RowOf(old, P), RowOf(new, P), z)

(* One after the other. *)
LEMMA DriftTwice ==
  ASSUME NEW low, NEW P, NEW z, NEW a, NEW b, NEW c,
         Drift(low, P, a, b, z), Drift(low, P, b, c, z)
  PROVE  Drift(low, P, a, c, z)
BY DEF Drift, Kept, Blank

(* What a call may do to other rows is a drift. *)
LEMMA EvolvesDrifts ==
  ASSUME NEW upto \in Nat, NEW low \in Nat, low <= upto, NEW old, NEW new,
         Evolves(upto, old, new)
  PROVE  Drifts(low, old, new)
<1> SUFFICES ASSUME NEW P \in Tick, NEW z \in Slot
             PROVE  Drift(low, P, RowOf(old, P), RowOf(new, P), z)
  BY DEF Drifts
<1>1. P \in Nat
  BY TickType
<1>2. \/ SameCell(RowOf(old, P), RowOf(new, P), z)
      \/ GaveWay(upto, P, RowOf(new, P))
      \/ Opened(upto, P, RowOf(old, P), RowOf(new, P), z)
      \/ Guessed(RowOf(old, P), RowOf(new, P), z)
  BY DEF Evolves
<1>3. NoRow.tick = Nil /\ NoRow.confirmed = {} /\ NoRow.cmds[z] = <<>>
  BY DEF NoRow
<1> QED BY <1>1, <1>2, <1>3 DEF Drift, Kept, Blank, SameCell, GaveWay, Opened, Guessed

(* The gate, whatever it finds: no row is lost, and the ring may be wider. *)
LEMMA MakeRoomRows ==
  ASSUME NEW n \in Size, NEW ring \in RingOf(n), NEW upto, NEW T \in Tick
  PROVE  \E m \in Doubled(n) :
           /\ MakeRoom(ring, upto, T) \in RingOf(m)
           /\ \A P \in Tick : RowOf(MakeRoom(ring, upto, T), P) = RowOf(ring, P)
<1> DEFINE prev == At(ring, T).tick
           q == MakeRoom(ring, upto, T)
           size == SizeFor(n, T, prev)
           grows == /\ prev # Nil /\ prev # T /\ prev > upto
                    /\ Distance(T, prev) < BufMax /\ size <= BufMax
<1>1. /\ n \in Nat \ {0} /\ BufMax \in Doubled(n) /\ ring \in [0..n - 1 -> Row]
      /\ Cardinality(DOMAIN ring) = n /\ T \in Nat
      /\ prev \in Tick \cup {Nil}
  <2>1. T \in Nat /\ n \in Nat \ {0} /\ BufMax \in Doubled(n)
    BY TickType, SizeType
  <2>2. ring \in [0..n - 1 -> Row]
    BY DEF RingOf
  <2>3. Cardinality(DOMAIN ring) = n /\ At(ring, T) \in Row
    BY <2>1, <2>2, RingSize, RingAt
  <2> QED BY <2>1, <2>2, <2>3 DEF Row
<1>2. q = IF grows THEN Grown(ring, size) ELSE ring
  BY <1>1 DEF MakeRoom
<1>3. CASE ~ grows
  <2>1. n \in Doubled(n)
    BY <1>1 DEF Size, Doubled
  <2> QED BY <1>2, <1>3, <2>1
<1>4. CASE grows
  <2> DEFINE S == {k \in Doubled(n) : k > Distance(T, prev)}
  <2>1. prev \in Nat
    BY <1>1 DEF Tick, Nil
  <2>2. S \in SUBSET Nat /\ BufMax \in S
    BY <1>1, <1>4 DEF Doubled
  <2>3. size = Min(S)
    BY DEF SizeFor
  <2>4. size \in S
    <3> HIDE DEF S, size
    <3> QED BY <2>2, <2>3, LeastNumber
  <2>5. size \in Doubled(n)
    BY <2>4
  <2>6. q = Grown(ring, size)
    BY <1>2, <1>4
  <2> HIDE DEF q, size
  <2> QED BY <2>5, <2>6, GrownKeeps DEF q
<1> QED BY <1>3, <1>4

(* What a tick had from z, it has. *)
Carried(a, b, z) ==
  /\ b.cmds[z] = a.cmds[z]
  /\ z \in b.confirmed <=> z \in a.confirmed
  /\ z \in a.confirmed => b.input[z] = a.input[z]

(* The row of T after the gate and the first touch, whatever was evicted. *)
LEMMA ReadyRows ==
  ASSUME NEW n \in Size, NEW ring \in RingOf(n), NEW T \in Tick,
         NEW players, NEW upto, NEW low \in Nat, low < T
  PROVE  \E m \in Doubled(n) :
           /\ Ready(ring, players, upto, T) \in RingOf(m)
           /\ RowOf(Ready(ring, players, upto, T), T).tick = T
           /\ Drifts(low, ring, Ready(ring, players, upto, T))
           /\ \A z \in Slot : Carried(RowOf(ring, T),
                                      RowOf(Ready(ring, players, upto, T), T), z)
<1> DEFINE r == MakeRoom(ring, upto, T)
           q == Ready(ring, players, upto, T)
           w == Advanced(r, players, T)
<1>1. PICK m \in Doubled(n) : /\ r \in RingOf(m)
                              /\ \A P \in Tick : RowOf(r, P) = RowOf(ring, P)
  BY MakeRoomRows
<1>2. m \in Nat \ {0} /\ T \in Nat /\ T # Nil
  BY SizeType, TickType
<1>3. q = Touched(r, players, T)
  BY DEF Ready
<1> HIDE DEF r, q
<1>4. r \in [0..m - 1 -> Row] /\ Cardinality(DOMAIN r) = m
  BY <1>1, <1>2, RingSize DEF RingOf
<1>5. NoRow.tick = Nil /\ NoRow.confirmed = {} /\ \A z \in Slot : NoRow.cmds[z] = <<>>
  BY DEF NoRow
<1>6. CASE At(r, T).tick = T
  <2>1. q = r
    BY <1>3, <1>6 DEF Touched
  <2>2. RowOf(q, T).tick = T
    BY <1>6, <2>1 DEF RowOf
  <2>3. Drifts(low, ring, q)
    BY <1>1, <2>1 DEF Drifts, Drift, Kept
  <2>4. RowOf(q, T) = RowOf(ring, T)
    BY <1>1, <2>1
  <2>5. \A z \in Slot : Carried(RowOf(ring, T), RowOf(q, T), z)
    BY <2>4 DEF Carried
  <2> QED BY <1>1, <2>1, <2>2, <2>3, <2>5 DEF q
<1>7. CASE At(r, T).tick # T
  <2>1. /\ w \in Row /\ w.tick = T /\ w.confirmed = {}
        /\ \A z \in Slot : w.cmds[z] = <<>>
    BY <1>1, <1>2, AdvancedRow
  <2>2. q = [r EXCEPT ![T % m] = w]
    BY <1>3, <1>4, <1>7 DEF Touched
  <2> HIDE DEF w
  <2>3. Replaced(r, q, m, T, w)
    BY <1>2, <1>4, <2>1, <2>2, ExceptReplaces
  <2>4. /\ q \in RingOf(m) /\ RowOf(q, T) = w
        /\ \A P \in Tick \ {T} :
             RowOf(q, P) = IF P % m = T % m THEN NoRow ELSE RowOf(r, P)
    BY <1>1, <1>2, <2>1, <2>3, PutRow
  <2>5. RowOf(ring, T) = NoRow
    BY <1>1, <1>7 DEF RowOf
  <2>6. ASSUME NEW P \in Tick, NEW z \in Slot
        PROVE  Drift(low, P, RowOf(ring, P), RowOf(q, P), z)
    <3>1. CASE P = T
      BY <1>2, <2>1, <2>4, <3>1 DEF Drift, Blank
    <3>2. CASE P # T /\ P % m = T % m
      BY <1>5, <2>4, <3>2 DEF Drift, Blank
    <3>3. CASE P # T /\ P % m # T % m
      BY <1>1, <2>4, <3>3 DEF Drift, Kept
    <3> QED BY <3>1, <3>2, <3>3
  <2>7. Drifts(low, ring, q)
    BY <2>6 DEF Drifts
  <2>8. \A z \in Slot : Carried(RowOf(ring, T), RowOf(q, T), z)
    BY <1>5, <2>1, <2>4, <2>5 DEF Carried
  <2> QED BY <1>1, <2>1, <2>4, <2>7, <2>8 DEF q
<1> QED BY <1>6, <1>7

(* The input of z for a tick arrived: it is there as it was given, and his
   commands are as they were. *)
Landed(a, b, T, z, v, conf) ==
  /\ b.tick = T /\ b.cmds[z] = a.cmds[z]
  /\ conf => z \in b.confirmed /\ b.input[z] = v
  /\ ~ conf /\ z \in b.confirmed => z \in a.confirmed /\ b.input[z] = a.input[z]

(* The row put where it was, with one input stored. *)
LEMMA StoredRow ==
  ASSUME NEW a \in Row, NEW s \in Slot, NEW v \in Value, NEW conf \in BOOLEAN,
         NEW c, c = WithStored(a, s, v, conf)
  PROVE  /\ c.tick = a.tick /\ c.cmds = a.cmds /\ c.input[s] = v
         /\ c.confirmed = IF conf THEN a.confirmed \cup {s} ELSE a.confirmed
         /\ \A z \in Slot \ {s} : c.input[z] = a.input[z]
<1> DEFINE input == [a.input EXCEPT ![s] = v]
           confirmed == IF conf THEN a.confirmed \cup {s} ELSE a.confirmed
<1>1. a.input \in [Slot -> Value \cup {Empty}]
  BY DEF Row
<1>2. input[s] = v /\ \A z \in Slot \ {s} : input[z] = a.input[z]
  BY <1>1
<1>3. c = [a EXCEPT !.input = input, !.confirmed = confirmed]
  BY DEF WithStored, Row
<1> HIDE DEF input, confirmed
<1>4. c.tick = a.tick /\ c.cmds = a.cmds /\ c.input = input /\ c.confirmed = confirmed
  BY <1>3 DEF Row
<1> QED BY <1>2, <1>4 DEF confirmed

(* What an input of s for T does to a table, whatever has to give way: every
   other cell drifts; the one it is about is as given, unless its tick is
   sealed and gave way; and who was confirmed at a tick that is not sealed
   still is. *)
TookInput(m, upto, low, old, new, T, s, v, conf) ==
  /\ new \in RingOf(m)
  /\ \A P \in Tick, z \in Slot :
       P # T \/ z # s => Drift(low, P, RowOf(old, P), RowOf(new, P), z)
  /\ \/ T <= upto /\ RowOf(new, T) = NoRow
     \/ Landed(RowOf(old, T), RowOf(new, T), T, s, v, conf)
  /\ T > upto => \A z \in RowOf(old, T).confirmed : z \in RowOf(new, T).confirmed

(* ecs_input_set does so. *)
LEMMA InputRowsAfter ==
  ASSUME NEW n \in Size, NEW ring \in RingOf(n), NEW T \in Tick,
         NEW players, NEW upto \in 0..MaxTick, NEW low \in Nat, low <= upto, low < T,
         NEW s \in Slot, NEW v \in Value, NEW conf \in BOOLEAN,
         NEW q, q = WithInput(ring, players, upto, s, T, v, conf)
  PROVE  \E m \in Doubled(n) : TookInput(m, upto, low, ring, q, T, s, v, conf)
<1> DEFINE r == Ready(ring, players, upto, T)
           u == Stored(r, s, T, v, conf)
           w == Backfilled(u, players, upto, s, T, v)
           kept == ~ conf /\ s \in At(r, T).confirmed
           a == RowOf(ring, T)
           b == RowOf(r, T)
           c == RowOf(u, T)
           d == RowOf(w, T)
<1>1. PICK m \in Doubled(n) :
        /\ r \in RingOf(m) /\ b.tick = T /\ Drifts(low, ring, r)
        /\ \A z \in Slot : Carried(a, b, z)
  BY ReadyRows
<1>2. q = IF kept THEN r ELSE w
  BY DEF WithInput, Ready
<1> HIDE DEF r
<1>3. m \in Nat \ {0} /\ r \in [0..m - 1 -> Row] /\ T \in Nat /\ T # Nil
      /\ n \in Nat \ {0} /\ ring \in [0..n - 1 -> Row]
  BY <1>1, SizeType, TickType DEF RingOf
<1>4. At(r, T) = b /\ b \in Row /\ a \in Row
  BY <1>1, <1>3, RowOfType
<1>5. a.confirmed \subseteq Slot /\ b.confirmed = a.confirmed
      /\ b.cmds[s] = a.cmds[s] /\ (s \in a.confirmed => b.input[s] = a.input[s])
  BY <1>1, <1>4 DEF Carried, Row
<1>6. CASE kept
  <2>1. q = r
    BY <1>2, <1>6
  <2>2. Landed(a, b, T, s, v, conf)
    BY <1>1, <1>5, <1>6 DEF Landed
  <2> QED BY <1>1, <1>5, <2>1, <2>2 DEF Drifts, TookInput
<1>7. CASE ~ kept
  <2>1. q = w /\ (conf \/ s \notin b.confirmed)
    BY <1>2, <1>4, <1>7
  <2>2. /\ u \in RingOf(m) /\ c = WithStored(b, s, v, conf)
        /\ \A P \in Tick \ {T} : RowOf(u, P) = RowOf(r, P)
    BY <1>1, <1>3, StoredKeeps
  <2>3. /\ c.tick = T /\ c.cmds = b.cmds /\ c.input[s] = v
        /\ c.confirmed = IF conf THEN b.confirmed \cup {s} ELSE b.confirmed
        /\ \A z \in Slot \ {s} : c.input[z] = b.input[z]
    BY <1>1, <1>4, <2>2, StoredRow
  <2> HIDE DEF u, kept, a, b, c
  <2>4. w \in RingOf(m) /\ Evolves(upto, u, w)
    BY <1>3, <2>2, BackfilledKeeps
  <2> HIDE DEF w
  <2>5. Drifts(low, u, w)
    BY <2>4, EvolvesDrifts
  <2>6. ASSUME NEW P \in Tick, NEW z \in Slot, P # T \/ z # s
        PROVE  Drift(low, P, RowOf(ring, P), RowOf(w, P), z)
    <3>1. Drift(low, P, RowOf(ring, P), RowOf(r, P), z)
      BY <1>1 DEF Drifts
    <3>2. Drift(low, P, RowOf(r, P), RowOf(u, P), z)
      <4>1. CASE P # T
        BY <2>2, <4>1 DEF Drift, Kept
      <4>2. CASE P = T /\ z # s
        <5>1. /\ c.tick = b.tick /\ c.cmds = b.cmds /\ c.input[z] = b.input[z]
              /\ z \in c.confirmed <=> z \in b.confirmed
          BY <1>1, <2>3, <4>2
        <5> QED BY <4>2, <5>1 DEF Drift, Kept, b, c
      <4> QED BY <2>6, <4>1, <4>2
    <3>3. Drift(low, P, RowOf(u, P), RowOf(w, P), z)
      BY <2>5 DEF Drifts
    <3> QED BY <3>1, <3>2, <3>3, DriftTwice
  <2>7. ASSUME NEW z \in Slot
        PROVE  \/ SameCell(c, d, z) \/ GaveWay(upto, T, d)
               \/ Guessed(c, d, z)
    <3>1. \/ SameCell(c, d, z) \/ GaveWay(upto, T, d) \/ Opened(upto, T, c, d, z)
          \/ Guessed(c, d, z)
      BY <2>4 DEF Evolves, c
    <3>2. c # NoRow
      BY <1>3, <2>3 DEF NoRow
    <3> QED BY <3>1, <3>2 DEF Opened
  <2>8. (T <= upto /\ d = NoRow) \/ Landed(a, d, T, s, v, conf)
    <3>1. v # Empty
      OBVIOUS
    <3>2. SameCell(c, d, s) \/ GaveWay(upto, T, d)
      BY <2>3, <2>7, <3>1 DEF Guessed
    <3>3. CASE GaveWay(upto, T, d)
      BY <3>3 DEF GaveWay
    <3>4. CASE SameCell(c, d, s)
      <4>1. /\ d.tick = T /\ d.cmds[s] = a.cmds[s] /\ d.input[s] = v
            /\ s \in d.confirmed <=> conf
        BY <1>5, <2>1, <2>3, <3>4 DEF SameCell
      <4> QED BY <4>1 DEF Landed
    <3> QED BY <3>2, <3>3, <3>4
  <2>9. ASSUME T > upto, NEW z \in a.confirmed
        PROVE  z \in d.confirmed
    <3>1. z \in Slot /\ z \in c.confirmed
      BY <1>5, <2>3
    <3>2. ~ GaveWay(upto, T, d)
      BY <1>3, <2>9 DEF GaveWay
    <3> QED BY <2>7, <3>1, <3>2 DEF SameCell, Guessed
  <2> QED BY <2>1, <2>4, <2>6, <2>8, <2>9 DEF a, TookInput
<1> QED BY <1>6, <1>7

(* ecs_input_cmd_append where the tick is resident. *)
LEMMA ResidentCommand ==
  ASSUME NEW m \in Nat \ {0}, NEW ring \in RingOf(m), NEW T \in Tick,
         RowOf(ring, T).tick = T, NEW players, NEW upto \in 0..MaxTick, T > upto,
         NEW s \in Slot, NEW c \in Command
  PROVE  WithCommand(ring, players, upto, s, T, c) = Appended(ring, s, T, c)
<1>1. T \in Nat /\ T # Nil
  BY TickType
<1>2. ring \in [0..m - 1 -> Row]
  BY DEF RingOf
<1>3. At(ring, T).tick = T
  BY <1>2, RowOfType
<1>4. MakeRoom(ring, upto, T) = ring
  BY <1>3 DEF MakeRoom
<1>5. Touched(ring, players, T) = ring
  BY <1>3 DEF Touched
<1> QED BY <1>1, <1>4, <1>5 DEF WithCommand, Appended

(* ecs_input_cmd_append past the frontier, whatever has to give way. *)
LEMMA CommandRowsAfter ==
  ASSUME NEW n \in Size, NEW ring \in RingOf(n), NEW T \in Tick,
         NEW players, NEW upto \in 0..MaxTick, T > upto,
         NEW s \in Slot, NEW c \in Command,
         NEW q, q = WithCommand(ring, players, upto, s, T, c)
  PROVE  \E m \in Doubled(n) :
           /\ q \in RingOf(m)
           /\ \A P \in Tick, z \in Slot :
                P # T \/ z # s => Drift(upto, P, RowOf(ring, P), RowOf(q, P), z)
           /\ s \in RowOf(q, T).confirmed =>
                /\ s \in RowOf(ring, T).confirmed
                /\ RowOf(q, T).input[s] = RowOf(ring, T).input[s]
<1> DEFINE r == Ready(ring, players, upto, T)
<1>1. PICK m \in Doubled(n) :
        /\ r \in RingOf(m) /\ RowOf(r, T).tick = T /\ Drifts(upto, ring, r)
        /\ \A z \in Slot : Carried(RowOf(ring, T), RowOf(r, T), z)
  <2>1. upto \in Nat /\ upto < T
    BY TickType
  <2> QED BY <2>1, ReadyRows
<1>2. m \in Nat \ {0} /\ T \in Nat
  BY SizeType, TickType
<1>3. q = Appended(r, s, T, c)
  BY <1>2 DEF WithCommand, Ready, Appended
<1> HIDE DEF r
<1>4. OnlyChain(m, r, q, T, s, Append(RowOf(r, T).cmds[s], c))
  BY <1>1, <1>2, <1>3, AppendedRow
<1>5. ASSUME NEW P \in Tick, NEW z \in Slot, P # T \/ z # s
      PROVE  Drift(upto, P, RowOf(ring, P), RowOf(q, P), z)
  <2>1. Drift(upto, P, RowOf(ring, P), RowOf(r, P), z)
    BY <1>1 DEF Drifts
  <2>2. Kept(RowOf(r, P), RowOf(q, P), z)
    <3>1. CASE P # T
      BY <1>4, <3>1 DEF OnlyChain, Kept
    <3>2. CASE P = T /\ z # s
      BY <1>1, <1>4, <3>2 DEF OnlyChain, Kept
    <3> QED BY <1>5, <3>1, <3>2
  <2>3. Drift(upto, P, RowOf(r, P), RowOf(q, P), z)
    BY <2>2 DEF Drift
  <2> QED BY <2>1, <2>3, DriftTwice
<1>6. s \in RowOf(q, T).confirmed =>
        /\ s \in RowOf(ring, T).confirmed
        /\ RowOf(q, T).input[s] = RowOf(ring, T).input[s]
  BY <1>1, <1>4 DEF OnlyChain, Carried
<1>7. q \in RingOf(m)
  BY <1>4 DEF OnlyChain
<1> QED BY <1>1, <1>5, <1>6, <1>7

-----------------------------------------------------------------------------
(* The wire *)

(* A tick as it was sealed. *)
Final == [input : [Slot -> Value], cmds : [Slot -> Seq(Command)]]

(* The ring holds the cascade of T as it was sealed, but for what is lost. *)
Shows(ring, T, record, lost) ==
  \A r \in Back : r < T =>
    /\ T - r \in lost <=> At(ring, T - r).tick # T - r
    /\ T - r \notin lost =>
         \A s \in Slot : /\ At(ring, T - r).input[s] = record[T - r].input[s]
                         /\ At(ring, T - r).cmds[s] = record[T - r].cmds[s]

(* What is sent of tick T - r. *)
SentCell(record, T, r, s, lost) ==
  IF r < T /\ T - r \notin lost THEN record[T - r].input[s] ELSE Zero
SentCommands(record, T, r, s, lost) ==
  IF r < T /\ T - r \notin lost THEN record[T - r].cmds[s] ELSE <<>>

(* Such a ring sends what was sealed, and zero for what is lost. *)
LEMMA ShownCell ==
  ASSUME NEW record \in Seq(Final), NEW T \in 1..Len(record), NEW ring, NEW lost,
         Shows(ring, T, record, lost), NEW r \in Back, NEW s \in Slot
  PROVE  /\ Cell(ring, T, r, s) = SentCell(record, T, r, s, lost)
         /\ Commands(ring, T, r, s) = SentCommands(record, T, r, s, lost)
         /\ Cell(ring, T, r, s) \in Value
         /\ Commands(ring, T, r, s) \in Seq(Command)
<1>1. r \in Nat /\ T \in Nat
  BY DEF Back
<1>2. CASE r < T /\ T - r \notin lost
  <2>1. T - r \in 1..Len(record)
    BY <1>1, <1>2
  <2>2. record[T - r] \in Final
    BY <2>1
  <2>3. record[T - r].input[s] \in Value /\ record[T - r].cmds[s] \in Seq(Command)
    BY <2>2 DEF Final
  <2>4. /\ At(ring, T - r).tick = T - r
        /\ At(ring, T - r).input[s] = record[T - r].input[s]
        /\ At(ring, T - r).cmds[s] = record[T - r].cmds[s]
    BY <1>2 DEF Shows
  <2>5. Holds(ring, T, r) /\ At(ring, T - r).input[s] # Empty
    BY <1>2, <2>3, <2>4 DEF Holds
  <2> QED BY <1>2, <2>3, <2>4, <2>5 DEF Cell, Commands, SentCell, SentCommands
<1>3. CASE ~ (r < T /\ T - r \notin lost)
  <2>1. ~ Holds(ring, T, r)
    BY <1>3 DEF Holds, Shows
  <2> QED BY <1>3, <2>1 DEF Cell, Commands, SentCell, SentCommands
<1> QED BY <1>2, <1>3

(* A packet is made of the cells of the cascade and their commands. *)
LEMMA PacketAlike ==
  ASSUME NEW a, NEW b, NEW T,
         \A r \in Back, s \in Slot : /\ Cell(a, T, r, s) = Cell(b, T, r, s)
                                      /\ Commands(a, T, r, s) = Commands(b, T, r, s)
  PROVE  Packet(a, T) = Packet(b, T)
<1>1. ASSUME NEW s \in Slot
      PROVE  Block(a, T, s) = Block(b, T, s)
  <2>1. HasData(a, T, s) <=> HasData(b, T, s)
    BY DEF HasData
  <2>2. ASSUME NEW e \in 1..Redundancy + 1
        PROVE  /\ Raw(a, T, e - 1, s) = Raw(b, T, e - 1, s)
               /\ Commands(a, T, e - 1, s) = Commands(b, T, e - 1, s)
    <3>1. e - 1 \in Back /\ (e - 1 # 0 => (e - 1) - 1 \in Back)
      BY DEF Back
    <3> QED BY <3>1 DEF Raw
  <2> QED BY <2>1, <2>2 DEF Block
<1> DEFINE block(ring) == [n \in 1..PlayerMax |-> Block(ring, T, n - 1)]
<1>2. block(a) = block(b)
  <2>1. \A n \in 1..PlayerMax : n - 1 \in Slot
    BY DEF Slot
  <2> QED BY <1>1, <2>1
<1>3. Packet(a, T) = Fitted(T, block(a)) /\ Packet(b, T) = Fitted(T, block(b))
  BY DEF Packet
<1> HIDE DEF block
<1> QED BY <1>2, <1>3

(* A block has an entry for every tick of the cascade, or none. *)
LEMMA BlockShape ==
  ASSUME NEW ring, NEW T, NEW s
  PROVE  /\ HasData(ring, T, s) =>
              /\ Len(Block(ring, T, s)) = Redundancy + 1
              /\ \A r \in Back :
                   /\ Block(ring, T, s)[r + 1].raw = Raw(ring, T, r, s)
                   /\ Block(ring, T, s)[r + 1].cmds = Commands(ring, T, r, s)
         /\ ~ HasData(ring, T, s) => Len(Block(ring, T, s)) = 0
<1> DEFINE block == [e \in 1..Redundancy + 1 |->
                       [raw |-> Raw(ring, T, e - 1, s),
                        cmds |-> Commands(ring, T, e - 1, s)]]
<1>1. CASE HasData(ring, T, s)
  <2>1. Block(ring, T, s) = block
    BY <1>1 DEF Block
  <2>2. \A r \in Back : r + 1 \in 1..Redundancy + 1 /\ (r + 1) - 1 = r
    BY DEF Back
  <2>3. \A r \in Back : /\ block[r + 1].raw = Raw(ring, T, r, s)
                         /\ block[r + 1].cmds = Commands(ring, T, r, s)
    BY <2>2
  <2>4. Redundancy + 1 \in Nat /\ block = [i \in 1..Redundancy + 1 |-> block[i]]
    OBVIOUS
  <2> HIDE DEF block
  <2>5. Len(block) = Redundancy + 1
    BY <2>4, LengthOf
  <2> QED BY <1>1, <2>1, <2>3, <2>5
<1>2. CASE ~ HasData(ring, T, s)
  BY <1>2 DEF Block
<1> QED BY <1>1, <1>2

(* The packet has the blocks of that many players. *)
ShapedPacket(p, ring, T, fit) ==
  /\ p.tick = T /\ DOMAIN p.blocks = 1..fit /\ Len(p.blocks) = fit
  /\ \A n \in 1..fit : n - 1 \in Slot /\ p.blocks[n] = Block(ring, T, n - 1)

(* A packet has the blocks of the first players, as many as fit. *)
LEMMA PacketShape ==
  ASSUME NEW ring, NEW T
  PROVE  \E fit \in 0..PlayerMax : ShapedPacket(Packet(ring, T), ring, T, fit)
<1> DEFINE block == [n \in 1..PlayerMax |-> Block(ring, T, n - 1)]
           S == {0} \cup {n \in 1..PlayerMax : Fits(block, n)}
           fit == Max(S)
           blocks == [n \in 1..fit |-> block[n]]
<1>1. Packet(ring, T) = [tick |-> T, blocks |-> blocks]
  BY DEF Packet, Fitted
<1>2. fit \in 0..PlayerMax
  <2>1. S \in SUBSET (0..PlayerMax) /\ S # {}
    OBVIOUS
  <2> HIDE DEF S
  <2>2. fit \in S
    BY <2>1, GreatestNumber
  <2> QED BY <2>1, <2>2
<1> HIDE DEF fit
<1>3. \A n \in 1..fit : n - 1 \in Slot /\ blocks[n] = Block(ring, T, n - 1)
  BY <1>2 DEF Slot
<1>4. blocks = [n \in 1..fit |-> blocks[n]] /\ DOMAIN blocks = 1..fit
  OBVIOUS
<1> HIDE DEF blocks
<1>5. Len(blocks) = fit
  BY <1>2, <1>4, LengthOf
<1>6. Packet(ring, T).tick = T /\ Packet(ring, T).blocks = blocks
  BY <1>1
<1>7. ShapedPacket(Packet(ring, T), ring, T, fit)
  BY <1>3, <1>4, <1>5, <1>6 DEF ShapedPacket
<1> QED BY <1>2, <1>7

(* Each value is read back: an entry that is the same as the one before is
   what the last raw one said. *)
LEMMA ReadBack ==
  ASSUME NEW ring, NEW T, NEW s, HasData(ring, T, s),
         \A r \in Back : Cell(ring, T, r, s) \in Value
  PROVE  \A r \in Back : Decoded(Block(ring, T, s), r) = Cell(ring, T, r, s)
<1> DEFINE block == Block(ring, T, s)
           cell(r) == Cell(ring, T, r, s)
           raws(r) == {q \in 0..r : block[q + 1].raw # Same}
           S == {r \in Back : Decoded(block, r) = cell(r)}
<1>1. \A r \in Back : Decoded(block, r) =
        IF raws(r) = {} THEN Zero ELSE block[Max(raws(r)) + 1].raw
  BY DEF Decoded
<1>2. \A r \in Back : cell(r) \in Value /\ cell(r) # Same
  OBVIOUS
<1>3. ASSUME NEW r \in Back
      PROVE  block[r + 1].raw = IF cell(r) = (IF r = 0 THEN Zero ELSE cell(r - 1))
                                  THEN Same ELSE cell(r)
  BY BlockShape DEF Raw
<1> HIDE DEF block, cell
<1>4. ASSUME NEW r \in Back, block[r + 1].raw # Same
      PROVE  Decoded(block, r) = block[r + 1].raw
  <2>1. r \in Nat /\ raws(r) \in SUBSET (0..r) /\ r \in raws(r)
    BY <1>4 DEF Back
  <2>2. Max(raws(r)) = r
    <3>1. Max(raws(r)) \in raws(r) /\ \A x \in raws(r) : x <= Max(raws(r))
      <4> HIDE DEF raws
      <4> QED BY <2>1, GreatestNumber
    <3>2. r <= Max(raws(r)) /\ Max(raws(r)) \in 0..r
      BY <2>1, <3>1
    <3> QED BY <2>1, <3>2
  <2> HIDE DEF raws
  <2> QED BY <1>1, <2>1, <2>2
<1>5. ASSUME NEW r \in Back, block[r + 1].raw # Same
      PROVE  Decoded(block, r) = cell(r)
  BY <1>3, <1>4, <1>5
<1>6. 0 \in S
  <2>1. 0 \in Back
    BY DEF Back
  <2>2. CASE block[0 + 1].raw = Same
    <3>1. cell(0) = Zero
      BY <1>2, <1>3, <2>1, <2>2
    <3>2. raws(0) = {}
      BY <2>2
    <3> QED BY <1>1, <2>1, <3>1, <3>2
  <2>3. CASE block[0 + 1].raw # Same
    BY <1>5, <2>1, <2>3
  <2> QED BY <2>2, <2>3
<1>7. ASSUME NEW r \in 0..Redundancy - 1, r \in S
      PROVE  r + 1 \in S
  <2>1. r \in Back /\ r + 1 \in Back /\ r + 1 # 0 /\ (r + 1) - 1 = r
    BY DEF Back
  <2>2. CASE block[(r + 1) + 1].raw = Same
    <3>1. cell(r + 1) = cell(r)
      BY <1>2, <1>3, <2>1, <2>2
    <3>2. raws(r + 1) = raws(r)
      BY <2>1, <2>2 DEF Back
    <3>3. Decoded(block, r + 1) = Decoded(block, r)
      BY <1>1, <2>1, <3>2
    <3> QED BY <1>7, <2>1, <3>1, <3>3
  <2>3. CASE block[(r + 1) + 1].raw # Same
    BY <1>5, <2>1, <2>3
  <2> QED BY <2>2, <2>3
<1>8. \A r \in 0..Redundancy : r \in S
  <2> HIDE DEF S
  <2> QED BY <1>6, <1>7, Climb
<1> QED BY <1>8 DEF Back, block, cell

-----------------------------------------------------------------------------
(* The commands of an entry *)

(* They are appended one after the other. *)
LEMMA ChainSteps ==
  ASSUME NEW ring, NEW s, NEW P, NEW cmds \in Seq(Command)
  PROVE  \E f : /\ f[0] = ring /\ WithChain(ring, s, P, cmds) = f[Len(cmds)]
                /\ \A x \in 1..Len(cmds) :
                     f[x] = WithCommand(f[x - 1], clientLive, clientFrontier, s, P, cmds[x])
<1> DEFINE N == Len(cmds)
           Step(y, x) == WithCommand(y, clientLive, clientFrontier, s, P, cmds[x])
           Steps(f, k) == f = [x \in 0..k |-> IF x = 0 THEN ring ELSE Step(f[x - 1], x)]
           S == {k \in 0..N : \E f : Steps(f, k)}
           f0 == CHOOSE f : Steps(f, N)
<1>1. WithChain(ring, s, P, cmds) = f0[N]
  BY DEF WithChain
<1>2. N \in Nat
  OBVIOUS
<1> HIDE DEF N, Step
<1>3. 0 \in S
  <2> DEFINE g == [x \in 0..0 |-> ring]
  <2>1. Steps(g, 0)
    OBVIOUS
  <2> HIDE DEF Steps
  <2> QED BY <1>2, <2>1
<1>4. ASSUME NEW k \in 0..N - 1, k \in S
      PROVE  k + 1 \in S
  <2>1. PICK f : Steps(f, k)
    BY <1>2, <1>4
  <2> DEFINE g == [x \in 0..k + 1 |-> IF x = k + 1 THEN Step(f[k], k + 1) ELSE f[x]]
  <2>2. Steps(g, k + 1)
    BY <2>1
  <2> HIDE DEF g, Steps
  <2> QED BY <1>2, <2>2
<1>5. \E f : Steps(f, N)
  <2> HIDE DEF S
  <2>1. N \in S
    BY <1>2, <1>3, <1>4, Climb, Zenon
  <2> QED BY <2>1 DEF S
<1>6. Steps(f0, N)
  <2> HIDE DEF Steps
  <2> QED BY <1>5, Zenon
<1> HIDE DEF f0
<1>7. f0[0] = ring /\ \A x \in 1..N : f0[x] = Step(f0[x - 1], x)
  BY <1>2, <1>6
<1> QED BY <1>1, <1>7 DEF N, Step

(* A sealed tick takes no command. *)
LEMMA SealedChain ==
  ASSUME NEW ring, NEW s, NEW P, NEW cmds \in Seq(Command), P <= clientFrontier,
         NEW q, q = WithChain(ring, s, P, cmds)
  PROVE  q = ring
<1>1. PICK f : /\ f[0] = ring /\ q = f[Len(cmds)]
               /\ \A x \in 1..Len(cmds) :
                    f[x] = WithCommand(f[x - 1], clientLive, clientFrontier, s, P, cmds[x])
  BY ChainSteps
<1> DEFINE N == Len(cmds)
           S == {x \in 0..N : f[x] = ring}
<1>2. N \in Nat
  OBVIOUS
<1>3. f[0] = ring /\ q = f[N] /\ \A x \in 1..N :
        f[x] = WithCommand(f[x - 1], clientLive, clientFrontier, s, P, cmds[x])
  BY <1>1
<1> HIDE DEF N
<1>4. 0 \in S
  BY <1>2, <1>3
<1>5. ASSUME NEW x \in 0..N - 1, x \in S
      PROVE  x + 1 \in S
  <2>1. x + 1 \in 1..N /\ (x + 1) - 1 = x
    BY <1>2
  <2>2. f[x + 1] = WithCommand(f[x], clientLive, clientFrontier, s, P, cmds[x + 1])
    BY <1>3, <2>1
  <2>3. f[x + 1] = f[x]
    BY <2>2 DEF WithCommand
  <2> QED BY <1>2, <1>5, <2>1, <2>3
<1>6. N \in S
  <2> HIDE DEF S
  <2> QED BY <1>2, <1>4, <1>5, Climb, Zenon
<1> QED BY <1>3, <1>6

(* Where the tick is resident its chain grows by what is sent, and nothing
   else changes. *)
LEMMA ChainRows ==
  ASSUME NEW m \in Nat \ {0}, NEW ring \in RingOf(m), NEW P \in Tick,
         RowOf(ring, P).tick = P, NEW s \in Slot, NEW cmds \in Seq(Command),
         clientFrontier \in 0..MaxTick, P > clientFrontier,
         NEW q, q = WithChain(ring, s, P, cmds)
  PROVE  /\ q \in RingOf(m)
         /\ RowOf(q, P).tick = P /\ RowOf(q, P).input = RowOf(ring, P).input
         /\ RowOf(q, P).confirmed = RowOf(ring, P).confirmed
         /\ RowOf(ring, P).cmds[s] = <<>> => RowOf(q, P).cmds[s] = cmds
         /\ \A z \in Slot \ {s} : RowOf(q, P).cmds[z] = RowOf(ring, P).cmds[z]
         /\ \A X \in Tick \ {P} : RowOf(q, X) = RowOf(ring, X)
<1>1. PICK f : /\ f[0] = ring /\ q = f[Len(cmds)]
               /\ \A x \in 1..Len(cmds) :
                    f[x] = WithCommand(f[x - 1], clientLive, clientFrontier, s, P, cmds[x])
  BY ChainSteps
<1> DEFINE a == RowOf(ring, P)
           Grows(y, x) ==
             /\ y \in RingOf(m)
             /\ RowOf(y, P).tick = P /\ RowOf(y, P).input = a.input
             /\ RowOf(y, P).confirmed = a.confirmed
             /\ a.cmds[s] = <<>> => RowOf(y, P).cmds[s] = SubSeq(cmds, 1, x)
             /\ \A z \in Slot \ {s} : RowOf(y, P).cmds[z] = a.cmds[z]
             /\ \A X \in Tick \ {P} : RowOf(y, X) = RowOf(ring, X)
           N == Len(cmds)
           S == {x \in 0..N : Grows(f[x], x)}
<1>2. N \in Nat /\ SubSeq(cmds, 1, N) = cmds
  OBVIOUS
<1>3. 0 \in S
  <2>1. SubSeq(cmds, 1, 0) = <<>>
    OBVIOUS
  <2>2. Grows(ring, 0)
    BY <2>1
  <2> HIDE DEF Grows
  <2> QED BY <1>1, <1>2, <2>2
<1> HIDE DEF a
<1>4. ASSUME NEW x \in 0..N - 1, x \in S
      PROVE  x + 1 \in S
  <2> DEFINE y == f[x]
             w == f[x + 1]
             c == cmds[x + 1]
  <2>1. x + 1 \in 1..Len(cmds) /\ (x + 1) - 1 = x /\ c \in Command
    BY <1>2
  <2>2. Grows(y, x)
    BY <1>4
  <2>3. w = WithCommand(y, clientLive, clientFrontier, s, P, c)
    BY <1>1, <2>1
  <2> HIDE DEF y, w, c
  <2>4. w = Appended(y, s, P, c)
    BY <2>1, <2>2, <2>3, ResidentCommand
  <2>5. OnlyChain(m, y, w, P, s, Append(RowOf(y, P).cmds[s], c))
    BY <2>1, <2>2, <2>4, AppendedRow
  <2>6. Append(SubSeq(cmds, 1, x), c) = SubSeq(cmds, 1, x + 1)
    BY <1>2, <2>1 DEF c
  <2>7. Grows(w, x + 1)
    BY <2>2, <2>5, <2>6 DEF OnlyChain
  <2> HIDE DEF Grows
  <2> QED BY <2>1, <2>7 DEF w
<1>5. N \in S
  <2> HIDE DEF S, N
  <2> QED BY <1>2, <1>3, <1>4, Climb, Zenon
<1>6. Grows(q, N)
  <2> HIDE DEF Grows
  <2> QED BY <1>1, <1>5
<1> QED BY <1>2, <1>6 DEF a

-----------------------------------------------------------------------------
(* What the client may have of player z at tick P: confirmed inputs as they
   were sealed, or zero in a tick of zs, and the sealed commands or none, but
   for the ticks of ds. *)

May(zs, ds, P, row, z) ==
  /\ z \in row.confirmed =>
       /\ P <= Len(sealed)
       /\ row.input[z] # sealed[P].input[z] => P \in zs /\ row.input[z] = Zero
       /\ P > clientFrontier /\ row.cmds[z] # sealed[P].cmds[z] => P \in zs \cup ds
  /\ row.cmds[z] # <<>> =>
       /\ P <= Len(sealed)
       /\ row.cmds[z] # sealed[P].cmds[z] => P \in ds

Cells(zs, ds, ring) == \A P \in Tick, z \in Slot : May(zs, ds, P, RowOf(ring, P), z)

ClientCell(P, row, z) == May(zeroed, doubled, P, row, z)

ClientCells(ring) == Cells(zeroed, doubled, ring)

SealedInv == sealed \in Seq(Final) /\ Len(sealed) <= MaxTick

(* What was sealed for tick P. *)
LEMMA FinalType ==
  ASSUME SealedInv, NEW P \in Tick, P <= Len(sealed), NEW z \in Slot
  PROVE  sealed[P].input[z] \in Value /\ sealed[P].cmds[z] \in Seq(Command)
<1>1. P \in 1..Len(sealed) /\ sealed \in Seq(Final)
  BY DEF SealedInv, Tick
<1>2. sealed[P] \in Final
  BY <1>1
<1> QED BY <1>2 DEF Final

(* The more ticks are excused, the more the client may have. *)
LEMMA MayMore ==
  ASSUME NEW zs, NEW zs2, zs \subseteq zs2, NEW ds, NEW ds2, ds \subseteq ds2,
         NEW P, NEW z, NEW row, May(zs, ds, P, row, z)
  PROVE  May(zs2, ds2, P, row, z)
BY DEF May

(* A cell that drifts is one the client may have. *)
LEMMA DriftCell ==
  ASSUME SealedInv, NEW P \in Tick, NEW z \in Slot, NEW low, NEW a, NEW b,
         NEW zs, NEW ds, May(zs, ds, P, a, z), Drift(low, P, a, b, z)
  PROVE  May(zs, ds, P, b, z)
<1>1. CASE Blank(low, P, b, z)
  BY <1>1 DEF Blank, May
<1>2. CASE Kept(a, b, z)
  <2>1. z \in a.confirmed => a.input[z] # Empty
    BY FinalType DEF May
  <2> QED BY <1>2, <2>1 DEF Kept, May
<1> QED BY <1>1, <1>2 DEF Drift

(* The row without a tick has nothing that was not sealed. *)
LEMMA NoRowCell ==
  ASSUME NEW zs, NEW ds, NEW P, NEW z \in Slot
  PROVE  May(zs, ds, P, NoRow, z)
BY DEF May, NoRow

(* The ticks of D are excused once the table of n rows has grown. *)
Excused(n, m, ds, D) == IF m = n THEN ds ELSE ds \cup D

(* A table of n rows or more, with nothing that is not sealed or excused. *)
Sound(n, zs, ds, D, ring) ==
  \E m \in Doubled(n) : ring \in RingOf(m) /\ Cells(zs, Excused(n, m, ds, D), ring)

(* One entry of a block taken in. *)
LEMMA EnteredSound ==
  ASSUME NEW n \in Size, clientRows \in RingOf(n), clientFrontier \in 0..MaxTick,
         SealedInv, NEW T \in 1..Len(sealed), NEW s \in Slot,
         NEW r \in Back, r < T, NEW block, NEW zs, NEW ds, NEW D, T - r \in D,
         NEW lost, lost \subseteq zs,
         Decoded(block, r) = SentCell(sealed, T, r, s, lost),
         block[r + 1].cmds = SentCommands(sealed, T, r, s, lost),
         NEW acc, Sound(n, zs, ds, D, acc.ring)
  PROVE  Sound(n, zs, ds, D, Entered(acc, block, T, s, r).ring)
<1> DEFINE P == T - r
           y == acc.ring
           v == SentCell(sealed, T, r, s, lost)
           cmds == SentCommands(sealed, T, r, s, lost)
           input == ClientInput(y, s, P, v, TRUE)
           row == y[P % n]
           known == row.tick = P /\ row.cmds[s] # <<>>
           e == Entered(acc, block, T, s, r).ring
           a == RowOf(y, P)
           b == RowOf(input, P)
<1>1. P \in Tick /\ P <= Len(sealed) /\ P \in Nat /\ P # Nil /\ 0 < P /\ P \in D
  <2>1. P \in Tick /\ P <= Len(sealed)
    BY DEF Tick, Back, SealedInv
  <2> QED BY <2>1, TickType DEF Tick
<1>2. /\ v \in Value /\ cmds \in Seq(Command)
      /\ v # sealed[P].input[s] => P \in zs /\ v = Zero
      /\ cmds # sealed[P].cmds[s] => P \in zs /\ cmds = <<>>
  <2>1. CASE P \in lost
    <3>1. v = Zero /\ cmds = <<>>
      BY <2>1 DEF SentCell, SentCommands
    <3> QED BY <2>1, <3>1
  <2>2. CASE P \notin lost
    <3>1. v = sealed[P].input[s] /\ cmds = sealed[P].cmds[s]
      BY <2>2 DEF SentCell, SentCommands
    <3> HIDE DEF P, v, cmds
    <3> QED BY <1>1, <3>1, FinalType
  <2> QED BY <2>1, <2>2
<1>3. e = IF known THEN input ELSE WithChain(input, s, P, cmds)
  <2>1. Cardinality(DOMAIN clientRows) = n
    BY SizeType, RingSize DEF RingOf
  <2> QED BY <2>1 DEF Entered
<1> HIDE DEF P, e, y, v, cmds
<1>4. PICK m \in Doubled(n) : y \in RingOf(m) /\ Cells(zs, Excused(n, m, ds, D), y)
  BY DEF Sound, y
<1>5. /\ m \in Size /\ m \in Nat \ {0} /\ n \in Nat \ {0} /\ n <= m
      /\ y \in [0..m - 1 -> Row]
  BY <1>4, SizeType DEF RingOf, Doubled
<1>6. PICK k \in Doubled(m) : TookInput(k, clientFrontier, 0, y, input, P, s, v, TRUE)
  <2>1. input = WithInput(y, clientLive, clientFrontier, s, P, v, TRUE)
    BY DEF ClientInput
  <2> HIDE DEF input
  <2>2. 0 \in Nat /\ 0 <= clientFrontier /\ TRUE \in BOOLEAN
    OBVIOUS
  <2> QED BY <1>1, <1>2, <1>4, <1>5, <2>1, <2>2, InputRowsAfter
<1> HIDE DEF input
<1>12. /\ input \in RingOf(k)
       /\ \A X \in Tick, z \in Slot :
            X # P \/ z # s => Drift(0, X, RowOf(y, X), RowOf(input, X), z)
       /\ \/ P <= clientFrontier /\ b = NoRow
          \/ Landed(a, b, P, s, v, TRUE)
  BY <1>6 DEF TookInput
<1>7. /\ k \in Doubled(n) /\ k \in Nat \ {0}
      /\ k = n => m = n
  <2>1. k \in Doubled(n)
    BY <1>5, DoubledTwice
  <2> QED BY <1>5, <2>1 DEF Doubled
<1> DEFINE dk == Excused(n, k, ds, D)
<1>13. Excused(n, m, ds, D) \subseteq dk /\ (k # n => P \in dk)
  BY <1>1, <1>7 DEF Excused
<1> HIDE DEF dk
<1>14. \A X \in Tick, z \in Slot : May(zs, dk, X, RowOf(y, X), z)
  BY <1>4, <1>13, MayMore DEF Cells
<1>8. \A X \in Tick, z \in Slot :
        X # P \/ z # s => May(zs, dk, X, RowOf(input, X), z)
  BY <1>12, <1>14, DriftCell
<1>9. May(zs, dk, P, a, s)
  BY <1>1, <1>14
<1>10. CASE P <= clientFrontier
  <2>1. e = input
    BY <1>2, <1>3, <1>10, SealedChain
  <2>2. May(zs, dk, P, b, s)
    <3>1. CASE b = NoRow
      BY <3>1, NoRowCell
    <3>2. CASE Landed(a, b, P, s, v, TRUE)
      <4>1. ~ P > clientFrontier
        BY <1>1, <1>10
      <4> QED BY <1>1, <1>2, <1>9, <3>2, <4>1 DEF Landed, May
    <3> QED BY <1>12, <3>1, <3>2
  <2>3. Cells(zs, dk, input)
    BY <1>8, <2>2 DEF Cells
  <2> QED BY <1>12, <1>7, <2>1, <2>3 DEF Sound, e, dk
<1>11. CASE P > clientFrontier
  <2>1. Landed(a, b, P, s, v, TRUE) /\ b.tick = P
    <3>1. ~ P <= clientFrontier
      BY <1>1, <1>11
    <3> QED BY <1>12, <3>1 DEF Landed
  <2>2. m = n => /\ At(y, P) = row
                 /\ known => a.cmds[s] # <<>>
                 /\ ~ known => a.cmds[s] = <<>>
    <3>1. ASSUME m = n
          PROVE  At(y, P) = row
      <4>1. At(y, P) = y[P % m]
        BY <1>1, <1>5, RingAt
      <4> QED BY <3>1, <4>1
    <3>2. NoRow.cmds[s] = <<>>
      BY DEF NoRow
    <3> QED BY <3>1, <3>2 DEF RowOf
  <2> HIDE DEF row, known
  <2>3. CASE known
    <3>1. e = input
      BY <1>3, <2>3
    <3>2. k = n => a.cmds[s] # <<>>
      BY <1>7, <2>2, <2>3
    <3>3. May(zs, dk, P, b, s)
      BY <1>1, <1>2, <1>9, <1>13, <2>1, <3>2 DEF Landed, May
    <3>4. Cells(zs, dk, input)
      BY <1>8, <3>3 DEF Cells
    <3> QED BY <1>12, <1>7, <3>1, <3>4 DEF Sound, e, dk
  <2>4. CASE ~ known
    <3>1. e = WithChain(input, s, P, cmds)
      BY <1>3, <2>4
    <3> DEFINE c == RowOf(e, P)
    <3>2. /\ e \in RingOf(k) /\ c.tick = P /\ c.input = b.input
          /\ c.confirmed = b.confirmed /\ (b.cmds[s] = <<>> => c.cmds[s] = cmds)
          /\ \A z \in Slot \ {s} : c.cmds[z] = b.cmds[z]
          /\ \A X \in Tick \ {P} : RowOf(e, X) = RowOf(input, X)
      BY <1>1, <1>2, <1>12, <1>7, <1>11, <2>1, <3>1, ChainRows
    <3> HIDE DEF c
    <3>3. ASSUME NEW X \in Tick, NEW z \in Slot
          PROVE  May(zs, dk, X, RowOf(e, X), z)
      <4>1. CASE X # P
        BY <1>8, <3>2, <4>1
      <4>2. CASE X = P /\ z # s
        <5>1. May(zs, dk, P, b, z)
          BY <1>8, <4>2
        <5>2. May(zs, dk, P, c, z)
          BY <3>2, <4>2, <5>1 DEF May
        <5> QED BY <4>2, <5>2 DEF c
      <4>3. CASE X = P /\ z = s
        <5>1. k = n => c.cmds[s] = cmds
          BY <1>7, <2>1, <2>2, <2>4, <3>2 DEF Landed
        <5>2. s \in c.confirmed /\ c.input[s] = v
          BY <2>1, <3>2 DEF Landed
        <5>3. May(zs, dk, P, c, s)
          BY <1>1, <1>2, <1>13, <5>1, <5>2 DEF May
        <5> QED BY <4>3, <5>3 DEF c
      <4> QED BY <4>1, <4>2, <4>3
    <3>4. Cells(zs, dk, e)
      BY <3>3 DEF Cells
    <3> QED BY <1>7, <3>2, <3>4 DEF Sound, e, dk
  <2> QED BY <2>3, <2>4
<1> QED BY <1>1, <1>10, <1>11

-----------------------------------------------------------------------------
(* A block taken in *)

(* f is what there is after each entry, up to the first tick. *)
BlockRun(first, block, T, s, last, f) ==
  /\ last \in Nat /\ last <= Len(block) /\ last <= T
  /\ f[0] = first /\ BlockEntered(first, block, T, s) = f[last]
  /\ \A e \in 1..last : f[e] = Entered(f[e - 1], block, T, s, e - 1)

(* Entries are taken in one after the other. *)
LEMMA BlockSteps ==
  ASSUME NEW first, NEW block, NEW T \in Nat, NEW s, Len(block) \in Nat
  PROVE  \E last, f : BlockRun(first, block, T, s, last, f)
<1> DEFINE N == Min({Len(block), T})
           Step(y, e) == Entered(y, block, T, s, e - 1)
           Steps(f, k) == f = [e \in 0..k |-> IF e = 0 THEN first ELSE Step(f[e - 1], e)]
           S == {k \in 0..N : \E f : Steps(f, k)}
           f0 == CHOOSE f : Steps(f, N)
<1>1. BlockEntered(first, block, T, s) = f0[N]
  BY DEF BlockEntered
<1>2. N \in Nat /\ N <= Len(block) /\ N <= T
  BY LeastOfTwo
<1> HIDE DEF N, Step
<1>3. 0 \in S
  <2> DEFINE g == [e \in 0..0 |-> first]
  <2>1. Steps(g, 0)
    OBVIOUS
  <2> HIDE DEF Steps
  <2> QED BY <1>2, <2>1
<1>4. ASSUME NEW k \in 0..N - 1, k \in S
      PROVE  k + 1 \in S
  <2>1. PICK f : Steps(f, k)
    BY <1>2, <1>4
  <2> DEFINE g == [e \in 0..k + 1 |-> IF e = k + 1 THEN Step(f[k], k + 1) ELSE f[e]]
  <2>2. Steps(g, k + 1)
    BY <2>1
  <2> HIDE DEF g, Steps
  <2> QED BY <1>2, <2>2
<1>5. \E f : Steps(f, N)
  <2> HIDE DEF S
  <2>1. N \in S
    BY <1>2, <1>3, <1>4, Climb, Zenon
  <2> QED BY <2>1 DEF S
<1>6. Steps(f0, N)
  <2> HIDE DEF Steps
  <2> QED BY <1>5, Zenon
<1> HIDE DEF f0
<1>7. f0[0] = first /\ \A e \in 1..N : f0[e] = Step(f0[e - 1], e)
  BY <1>2, <1>6
<1>8. BlockRun(first, block, T, s, N, f0)
  BY <1>1, <1>2, <1>7 DEF Step, BlockRun
<1> QED BY <1>2, <1>8

(* The block of a tick, sent while the ring showed what was sealed but for what
   it had lost, brings nothing that was not sealed, but zero for what was lost. *)
LEMMA BlockSound ==
  ASSUME NEW n \in Size, clientRows \in RingOf(n), clientFrontier \in 0..MaxTick,
         SealedInv, NEW T \in 1..Len(sealed), NEW s \in Slot, NEW ring,
         NEW lost, Shows(ring, T, sealed, lost), NEW zs, lost \subseteq zs,
         NEW ds, NEW D, Cascade(T) \subseteq D,
         NEW first, Sound(n, zs, ds, D, first.ring)
  PROVE  Sound(n, zs, ds, D, BlockEntered(first, Block(ring, T, s), T, s).ring)
<1> DEFINE block == Block(ring, T, s)
<1>1. Len(block) \in Nat /\ T \in Nat /\ sealed \in Seq(Final)
  <2>1. Len(block) = Redundancy + 1 \/ Len(block) = 0
    BY BlockShape
  <2>2. sealed \in Seq(Final)
    BY DEF SealedInv
  <2> HIDE DEF block
  <2> QED BY <2>1, <2>2
<1>9. PICK last, f : BlockRun(first, block, T, s, last, f)
  <2> HIDE DEF block
  <2> QED BY <1>1, BlockSteps
<1>2. /\ last \in Nat /\ last <= Len(block) /\ last <= T
      /\ f[0] = first /\ BlockEntered(first, block, T, s) = f[last]
      /\ \A e \in 1..last : f[e] = Entered(f[e - 1], block, T, s, e - 1)
  BY <1>9 DEF BlockRun
<1> DEFINE S == {e \in 0..last : Sound(n, zs, ds, D, f[e].ring)}
<1>3. 0 \in S
  BY <1>2
<1>4. ASSUME NEW k \in 0..last - 1, k \in S
      PROVE  k + 1 \in S
  <2>1. k + 1 \in 1..last /\ (k + 1) - 1 = k /\ k < T /\ k < Len(block) /\ k \in Nat
    BY <1>1, <1>2, <1>4
  <2>2. HasData(ring, T, s) /\ Len(block) = Redundancy + 1
    BY <2>1, BlockShape
  <2>3. k \in Back
    BY <2>1, <2>2 DEF Back
  <2>4. /\ Cell(ring, T, k, s) = SentCell(sealed, T, k, s, lost)
        /\ Commands(ring, T, k, s) = SentCommands(sealed, T, k, s, lost)
    BY <1>1, <2>3, ShownCell
  <2>5. block[k + 1].cmds = SentCommands(sealed, T, k, s, lost)
    BY <2>2, <2>3, <2>4, BlockShape
  <2>6. Decoded(block, k) = SentCell(sealed, T, k, s, lost)
    <3>1. \A r \in Back : Cell(ring, T, r, s) \in Value
      BY <1>1, ShownCell
    <3>2. \A r \in Back : Decoded(block, r) = Cell(ring, T, r, s)
      BY <2>2, <3>1, ReadBack
    <3> QED BY <2>3, <2>4, <3>2
  <2>7. f[k + 1] = Entered(f[k], block, T, s, k)
    BY <1>2, <2>1
  <2>8. Sound(n, zs, ds, D, f[k].ring) /\ T - k \in D
    BY <1>4, <2>1, <2>3 DEF Cascade
  <2> HIDE DEF block
  <2>9. Sound(n, zs, ds, D, Entered(f[k], block, T, s, k).ring)
    BY <2>1, <2>3, <2>5, <2>6, <2>8, EnteredSound
  <2> QED BY <1>2, <2>1, <2>7, <2>9
<1>5. last \in S
  <2> HIDE DEF S
  <2> QED BY <1>2, <1>3, <1>4, Climb, Zenon
<1> QED BY <1>2, <1>5

-----------------------------------------------------------------------------
(* A packet taken in *)

(* f is what there is after each block. *)
PacketRun(p, f) ==
  /\ f[0] = [ring |-> clientRows, ok |-> TRUE]
  /\ Received(p) = f[Len(p.blocks)]
  /\ \A n \in 1..Len(p.blocks) :
       f[n] = IF n - 1 \in clientLive
                THEN BlockEntered(f[n - 1], p.blocks[n], p.tick, n - 1)
                ELSE f[n - 1]

(* Blocks are taken in one after the other. *)
LEMMA ReceivedSteps ==
  ASSUME NEW p, Len(p.blocks) \in Nat
  PROVE  \E f : PacketRun(p, f)
<1> DEFINE N == Len(p.blocks)
           first == [ring |-> clientRows, ok |-> TRUE]
           Step(y, n) == IF n - 1 \in clientLive
                           THEN BlockEntered(y, p.blocks[n], p.tick, n - 1) ELSE y
           Steps(f, k) == f = [n \in 0..k |-> IF n = 0 THEN first ELSE Step(f[n - 1], n)]
           S == {k \in 0..N : \E f : Steps(f, k)}
           f0 == CHOOSE f : Steps(f, N)
<1>1. Received(p) = f0[N]
  BY DEF Received
<1>2. N \in Nat
  OBVIOUS
<1> HIDE DEF N, Step, first
<1>3. 0 \in S
  <2> DEFINE g == [n \in 0..0 |-> first]
  <2>1. Steps(g, 0)
    OBVIOUS
  <2> HIDE DEF Steps
  <2> QED BY <1>2, <2>1
<1>4. ASSUME NEW k \in 0..N - 1, k \in S
      PROVE  k + 1 \in S
  <2>1. PICK f : Steps(f, k)
    BY <1>2, <1>4
  <2> DEFINE g == [n \in 0..k + 1 |-> IF n = k + 1 THEN Step(f[k], k + 1) ELSE f[n]]
  <2>2. Steps(g, k + 1)
    BY <2>1
  <2> HIDE DEF g, Steps
  <2> QED BY <1>2, <2>2
<1>5. \E f : Steps(f, N)
  <2> HIDE DEF S
  <2>1. N \in S
    BY <1>2, <1>3, <1>4, Climb, Zenon
  <2> QED BY <2>1 DEF S
<1>6. Steps(f0, N)
  <2> HIDE DEF Steps
  <2> QED BY <1>5, Zenon
<1> HIDE DEF f0
<1>7. f0[0] = first /\ \A n \in 1..N : f0[n] = Step(f0[n - 1], n)
  BY <1>2, <1>6
<1>8. PacketRun(p, f0)
  BY <1>1, <1>7 DEF Step, N, first, PacketRun
<1> QED BY <1>8

(* A packet that was sent while the ring showed what was sealed, but for what
   it had lost, brings nothing that was not sealed, but zero for that. *)
LEMMA ReceivedSound ==
  ASSUME NEW n \in Size, clientRows \in RingOf(n), clientFrontier \in 0..MaxTick,
         SealedInv, NEW T \in 1..Len(sealed), NEW ring,
         NEW lost, Shows(ring, T, sealed, lost), NEW p, p = Packet(ring, T),
         NEW zs, lost \subseteq zs, NEW ds, NEW D, Cascade(T) \subseteq D,
         Cells(zs, ds, clientRows)
  PROVE  Sound(n, zs, ds, D, Received(p).ring)
<1>1. PICK fit \in 0..PlayerMax : ShapedPacket(p, ring, T, fit)
  BY PacketShape, Zenon
<1>2. fit \in Nat
  OBVIOUS
<1>7. PICK f : PacketRun(p, f)
  BY <1>1, <1>2, ReceivedSteps DEF ShapedPacket
<1>3. /\ f[0] = [ring |-> clientRows, ok |-> TRUE] /\ Received(p) = f[fit]
      /\ \A k \in 1..fit :
           f[k] = IF k - 1 \in clientLive
                    THEN BlockEntered(f[k - 1], p.blocks[k], p.tick, k - 1)
                    ELSE f[k - 1]
  BY <1>1, <1>7 DEF PacketRun, ShapedPacket
<1> DEFINE S == {k \in 0..fit : Sound(n, zs, ds, D, f[k].ring)}
<1>4. 0 \in S
  <2>1. n \in Doubled(n)
    <3>1. n \in Nat \ {0} /\ n <= BufMax /\ BufMax % n = 0
      BY SizeType DEF Size, Doubled
    <3>2. n = n * 1 + 0
      BY <3>1
    <3>3. n % n = 0
      BY <3>1, <3>2, RemainderOf
    <3> QED BY <3>1, <3>3 DEF Doubled
  <2>2. Sound(n, zs, ds, D, clientRows)
    BY <2>1 DEF Sound, Excused
  <2>3. f[0].ring = clientRows
    BY <1>3
  <2> QED BY <1>2, <2>2, <2>3
<1>5. ASSUME NEW k \in 0..fit - 1, k \in S
      PROVE  k + 1 \in S
  <2>1. k + 1 \in 1..fit /\ (k + 1) - 1 = k
    BY <1>2
  <2>2. k \in Slot /\ p.blocks[k + 1] = Block(ring, T, k)
    BY <1>1, <2>1 DEF ShapedPacket
  <2>3. Sound(n, zs, ds, D, f[k].ring)
    BY <1>5
  <2>4. Sound(n, zs, ds, D, BlockEntered(f[k], Block(ring, T, k), T, k).ring)
    BY <2>2, <2>3, BlockSound
  <2>5. \/ f[k + 1] = BlockEntered(f[k], Block(ring, T, k), T, k)
        \/ f[k + 1] = f[k]
    BY <1>1, <1>3, <2>1, <2>2 DEF ShapedPacket
  <2> QED BY <1>2, <2>1, <2>3, <2>4, <2>5
<1>6. fit \in S
  <2> HIDE DEF S
  <2> QED BY <1>2, <1>4, <1>5, Climb, Zenon
<1> QED BY <1>3, <1>6

(* The ticks of a packet that made the ring grow are excused from then on. *)
LEMMA ReceivedCells ==
  ASSUME NEW n \in Size, clientRows \in RingOf(n), NEW p, NEW zs, NEW ds, NEW D,
         Sound(n, zs, ds, D, Received(p).ring),
         NEW ds2, ds2 = IF Roomy(p) THEN ds ELSE ds \cup D
  PROVE  \E m \in Size : /\ Received(p).ring \in RingOf(m)
                         /\ Cells(zs, ds2, Received(p).ring)
<1> DEFINE q == Received(p).ring
<1>1. PICK m \in Doubled(n) : q \in RingOf(m) /\ Cells(zs, Excused(n, m, ds, D), q)
  BY DEF Sound
<1>2. n \in Nat \ {0} /\ m \in Nat \ {0} /\ m \in Size
  BY SizeType DEF Doubled
<1>3. Roomy(p) <=> Cardinality(DOMAIN q) = Cardinality(DOMAIN clientRows)
  BY DEF Roomy
<1> HIDE DEF q
<1>4. Roomy(p) => m = n
  BY <1>1, <1>2, <1>3, RingSize DEF RingOf
<1>5. Excused(n, m, ds, D) \subseteq ds2
  BY <1>4 DEF Excused
<1>6. Cells(zs, ds2, q)
  BY <1>1, <1>5, MayMore DEF Cells
<1> QED BY <1>1, <1>2, <1>6 DEF q

-----------------------------------------------------------------------------
(* What the server has of player z at tick P: the input it confirmed, and all
   that it sealed, unless the row gave way. *)

ServerCell(P, row, z) ==
  /\ z \in row.confirmed => row.input[z] # Empty
  /\ P <= Len(sealed) /\ row.tick = P =>
       row.input[z] = sealed[P].input[z] /\ row.cmds[z] = sealed[P].cmds[z]

ServerCells(ring) == \A P \in Tick, z \in Slot : ServerCell(P, RowOf(ring, P), z)

ServerSound(ring) == \E n \in Size : ring \in RingOf(n) /\ ServerCells(ring)

(* The row of T has these players confirmed. *)
Confirms(ring, T, players) ==
  RowOf(ring, T).tick = T /\ players \subseteq RowOf(ring, T).confirmed

(* A cell that drifts past the sealed ticks is one the server may have. *)
LEMMA ServerDrift ==
  ASSUME SealedInv, NEW P \in Tick, NEW z \in Slot, NEW a, NEW b,
         ServerCell(P, a, z), Drift(Len(sealed), P, a, b, z)
  PROVE  ServerCell(P, b, z)
<1>1. P \in Nat /\ Len(sealed) \in Nat /\ P # Nil
  BY TickType DEF SealedInv
<1>2. CASE Blank(Len(sealed), P, b, z)
  BY <1>1, <1>2 DEF Blank, ServerCell
<1>3. CASE Kept(a, b, z)
  <2>1. P <= Len(sealed) /\ a.tick = P => a.input[z] # Empty
    BY FinalType DEF ServerCell
  <2> QED BY <1>3, <2>1 DEF Kept, ServerCell
<1> QED BY <1>2, <1>3 DEF Drift

(* A confirmed input of a tick that is open leaves all that was sealed. *)
LEMMA ServerInputSound ==
  ASSUME SealedInv, NEW ring, ServerSound(ring), NEW s \in Slot, NEW T \in Tick,
         T > Len(sealed), NEW v \in Value, NEW players,
         Confirms(ring, T, players) \/ players = {}
  PROVE  /\ ServerSound(ServerInput(ring, s, T, v))
         /\ Confirms(ServerInput(ring, s, T, v), T, players \cup {s})
<1> DEFINE upto == Len(sealed)
           q == ServerInput(ring, s, T, v)
           a == RowOf(ring, T)
           b == RowOf(q, T)
<1>1. PICK n \in Size : ring \in RingOf(n) /\ ServerCells(ring)
  BY DEF ServerSound
<1>2. T \in Nat /\ upto \in 0..MaxTick /\ upto < T /\ upto \in Nat
  BY TickType DEF SealedInv
<1>3. q = WithInput(ring, Slot, upto, s, T, v, TRUE)
  BY DEF ServerInput
<1> HIDE DEF q, upto
<1>4. PICK m \in Doubled(n) : TookInput(m, upto, upto, ring, q, T, s, v, TRUE)
  <2>1. upto <= upto /\ TRUE \in BOOLEAN
    BY <1>2
  <2> QED BY <1>1, <1>2, <1>3, <2>1, InputRowsAfter
<1>5. m \in Size
  BY SizeType
<1>6. /\ q \in RingOf(m)
      /\ \A P \in Tick, z \in Slot :
           P # T \/ z # s => Drift(upto, P, RowOf(ring, P), RowOf(q, P), z)
      /\ b.tick = T /\ s \in b.confirmed /\ b.input[s] = v
      /\ \A z \in a.confirmed : z \in b.confirmed
  BY <1>2, <1>4 DEF TookInput, Landed
<1>7. ASSUME NEW P \in Tick, NEW z \in Slot
      PROVE  ServerCell(P, RowOf(q, P), z)
  <2>1. CASE P # T \/ z # s
    <3>1. ServerCell(P, RowOf(ring, P), z)
      BY <1>1 DEF ServerCells
    <3>2. Drift(upto, P, RowOf(ring, P), RowOf(q, P), z)
      BY <1>6, <2>1
    <3> QED BY <3>1, <3>2, ServerDrift DEF upto
  <2>2. CASE P = T /\ z = s
    <3>1. ~ T <= Len(sealed)
      BY <1>2 DEF upto
    <3> QED BY <1>6, <2>2, <3>1 DEF ServerCell
  <2> QED BY <2>1, <2>2
<1>8. ServerSound(q)
  BY <1>5, <1>6, <1>7 DEF ServerSound, ServerCells
<1>9. Confirms(q, T, players \cup {s})
  BY <1>6 DEF Confirms
<1> QED BY <1>8, <1>9 DEF q

(* A command of a tick that is open leaves all that was sealed. *)
LEMMA ServerCommandSound ==
  ASSUME SealedInv, NEW ring, ServerSound(ring), NEW s \in Slot, NEW T \in Tick,
         T > Len(sealed), NEW c \in Command,
         NEW q, q = WithCommand(ring, Slot, Len(sealed), s, T, c)
  PROVE  ServerSound(q)
<1> DEFINE upto == Len(sealed)
<1>1. PICK n \in Size : ring \in RingOf(n) /\ ServerCells(ring)
  BY DEF ServerSound
<1>2. T \in Nat /\ upto \in 0..MaxTick /\ T > upto /\ ~ T <= upto
  BY TickType DEF SealedInv
<1>3. q = WithCommand(ring, Slot, upto, s, T, c)
  OBVIOUS
<1> HIDE DEF upto
<1>4. PICK m \in Doubled(n) :
           /\ q \in RingOf(m)
           /\ \A P \in Tick, z \in Slot :
                P # T \/ z # s => Drift(upto, P, RowOf(ring, P), RowOf(q, P), z)
           /\ s \in RowOf(q, T).confirmed =>
                /\ s \in RowOf(ring, T).confirmed
                /\ RowOf(q, T).input[s] = RowOf(ring, T).input[s]
  BY <1>1, <1>2, <1>3, CommandRowsAfter
<1>5. m \in Size
  BY SizeType
<1>6. ASSUME NEW P \in Tick, NEW z \in Slot
      PROVE  ServerCell(P, RowOf(q, P), z)
  <2>1. ServerCell(P, RowOf(ring, P), z)
    BY <1>1 DEF ServerCells
  <2>2. CASE P # T \/ z # s
    <3>1. Drift(upto, P, RowOf(ring, P), RowOf(q, P), z)
      BY <1>4, <2>2
    <3> QED BY <2>1, <3>1, ServerDrift DEF upto
  <2>3. CASE P = T /\ z = s
    BY <1>2, <1>4, <2>1, <2>3 DEF ServerCell, upto
  <2> QED BY <2>2, <2>3
<1> QED BY <1>4, <1>5, <1>6 DEF ServerSound, ServerCells

(* What the server does for a player it has not heard of. *)
LEMMA ProvidedSound ==
  ASSUME SealedInv, NEW ring, ServerSound(ring), NEW s \in Slot, NEW T \in Tick,
         T > Len(sealed), NEW players, Confirms(ring, T, players) \/ players = {}
  PROVE  /\ ServerSound(Provided(ring, s, T))
         /\ Confirms(Provided(ring, s, T), T, players \cup {s})
<1>1. CASE At(ring, T).tick = T /\ s \in At(ring, T).confirmed
  <2>1. Provided(ring, s, T) = ring
    BY <1>1 DEF Provided
  <2>2. Confirms(ring, T, players \cup {s})
    BY <1>1 DEF Confirms, RowOf
  <2> QED BY <2>1, <2>2
<1>2. CASE ~ (At(ring, T).tick = T /\ s \in At(ring, T).confirmed)
  <2>1. Provided(ring, s, T) = ServerInput(ring, s, T, Zero)
    BY <1>2 DEF Provided
  <2> QED BY <2>1, ServerInputSound
<1> QED BY <1>1, <1>2

(* f is what there is after each player. *)
SealRun(T, f) ==
  /\ f[0] = serverRows /\ AllProvided(T) = f[PlayerMax]
  /\ \A n \in 1..PlayerMax : f[n] = Provided(f[n - 1], n - 1, T)

(* Players are provided for one after the other. *)
LEMMA ProvidedSteps ==
  ASSUME NEW T
  PROVE  \E f : SealRun(T, f)
<1> DEFINE N == PlayerMax
           Step(y, n) == Provided(y, n - 1, T)
           Steps(f, k) == f = [n \in 0..k |-> IF n = 0 THEN serverRows
                                                        ELSE Step(f[n - 1], n)]
           S == {k \in 0..N : \E f : Steps(f, k)}
           f0 == CHOOSE f : Steps(f, N)
<1>1. AllProvided(T) = f0[N]
  BY DEF AllProvided
<1>2. N \in Nat
  OBVIOUS
<1> HIDE DEF N, Step
<1>3. 0 \in S
  <2> DEFINE g == [n \in 0..0 |-> serverRows]
  <2>1. Steps(g, 0)
    OBVIOUS
  <2> HIDE DEF Steps
  <2> QED BY <1>2, <2>1
<1>4. ASSUME NEW k \in 0..N - 1, k \in S
      PROVE  k + 1 \in S
  <2>1. PICK f : Steps(f, k)
    BY <1>2, <1>4
  <2> DEFINE g == [n \in 0..k + 1 |-> IF n = k + 1 THEN Step(f[k], k + 1) ELSE f[n]]
  <2>2. Steps(g, k + 1)
    BY <2>1
  <2> HIDE DEF g, Steps
  <2> QED BY <1>2, <2>2
<1>5. \E f : Steps(f, N)
  <2> HIDE DEF S
  <2>1. N \in S
    BY <1>2, <1>3, <1>4, Climb, Zenon
  <2> QED BY <2>1 DEF S
<1>6. Steps(f0, N)
  <2> HIDE DEF Steps
  <2> QED BY <1>5, Zenon
<1> HIDE DEF f0
<1>7. f0[0] = serverRows /\ \A n \in 1..N : f0[n] = Step(f0[n - 1], n)
  BY <1>2, <1>6
<1>8. SealRun(T, f0)
  BY <1>1, <1>7 DEF Step, N, SealRun
<1> QED BY <1>8

(* A tick is sealed when all of its inputs are there. *)
LEMMA AllProvidedSound ==
  ASSUME SealedInv, ServerSound(serverRows), NEW T \in Tick, T > Len(sealed)
  PROVE  ServerSound(AllProvided(T)) /\ Confirms(AllProvided(T), T, Slot)
<1>1. PICK f : SealRun(T, f)
  BY ProvidedSteps
<1> DEFINE Done(n) == /\ ServerSound(f[n])
                      /\ Confirms(f[n], T, 0..n - 1) \/ (0..n - 1) = {}
           S == {n \in 0..PlayerMax : Done(n)}
<1>2. 0 \in S
  BY <1>1 DEF SealRun
<1>3. ASSUME NEW k \in 0..PlayerMax - 1, k \in S
      PROVE  k + 1 \in S
  <2>1. /\ k + 1 \in 1..PlayerMax /\ (k + 1) - 1 = k /\ k \in Slot
        /\ (0..k - 1) \cup {k} = 0..(k + 1) - 1
    BY DEF Slot
  <2>2. f[k + 1] = Provided(f[k], k, T)
    BY <1>1, <2>1 DEF SealRun
  <2>3. ServerSound(f[k]) /\ (Confirms(f[k], T, 0..k - 1) \/ (0..k - 1) = {})
    BY <1>3
  <2>4. /\ ServerSound(Provided(f[k], k, T))
        /\ Confirms(Provided(f[k], k, T), T, (0..k - 1) \cup {k})
    BY <2>1, <2>3, ProvidedSound
  <2>5. Done(k + 1)
    BY <2>1, <2>2, <2>4, Zenon
  <2>6. k + 1 \in 0..PlayerMax
    BY <2>1
  <2> HIDE DEF Done
  <2> QED BY <2>5, <2>6
<1>4. PlayerMax \in S
  <2> HIDE DEF S
  <2>1. PlayerMax \in Nat
    OBVIOUS
  <2> QED BY <1>2, <1>3, <2>1, Climb, Zenon
<1>5. 0..PlayerMax - 1 # {}
  <2>1. 0 \in 0..PlayerMax - 1
    OBVIOUS
  <2> QED BY <2>1
<1> QED BY <1>1, <1>4, <1>5 DEF SealRun, Slot

-----------------------------------------------------------------------------
(* The inductive invariant of the two peers *)

ClientSound(ring) == \E n \in Size : ring \in RingOf(n) /\ ClientCells(ring)

ClientInv == /\ clientLive \subseteq Slot /\ clientFrontier \in 0..MaxTick
             /\ zeroed \subseteq 1..Len(sealed) /\ doubled \subseteq 1..Len(sealed)
             /\ ClientSound(clientRows)

(* The packet was made from a ring that showed the cascade of T as it was
   sealed, but for what is lost. *)
MadeOf(p, T, lost) ==
  /\ T \in 1..Len(sealed) /\ lost \subseteq 1..T
  /\ \E ring : Shows(ring, T, sealed, lost) /\ p = Packet(ring, T)

Faithful(m) ==
  /\ m = [packet |-> m.packet, lost |-> m.lost]
  /\ MadeOf(m.packet, m.packet.tick, m.lost)

NetInv == \A m \in net : Faithful(m)

PeersInv == SealedInv /\ ServerSound(serverRows) /\ ClientInv /\ NetInv

(* Nobody has anything. *)
LEMMA PeersInitKeeps == PeersInit => PeersInv
<1> SUFFICES ASSUME PeersInit PROVE PeersInv
  OBVIOUS
<1>1. /\ serverRows = EmptyRing /\ clientRows = EmptyRing /\ clientLive = {}
      /\ clientFrontier = 0 /\ sealed = <<>> /\ net = {} /\ zeroed = {} /\ doubled = {}
  BY DEF PeersInit
<1>2. BufInit \in Size
  BY InitSize
<1>3. SealedInv
  BY <1>1 DEF SealedInv
<1>4. ASSUME NEW P \in Tick, NEW z \in Slot
      PROVE  ServerCell(P, NoRow, z) /\ ClientCell(P, NoRow, z)
  <2>1. NoRow.tick # P /\ NoRow.confirmed = {} /\ NoRow.cmds[z] = <<>>
    BY TickType DEF NoRow
  <2> QED BY <2>1 DEF ServerCell, ClientCell, May
<1>5. ServerSound(serverRows)
  BY <1>1, <1>2, <1>4, EmptyRingRows DEF ServerSound, ServerCells
<1>6. ClientInv
  BY <1>1, <1>2, <1>4, EmptyRingRows
     DEF ClientInv, ClientSound, ClientCells, Cells, ClientCell
<1> QED BY <1>1, <1>3, <1>5, <1>6 DEF PeersInv, NetInv

(* A packet stays faithful while more is sealed. *)
LEMMA FaithfulStays ==
  ASSUME SealedInv, NEW m, Faithful(m), NEW x, sealed' = Append(sealed, x)
  PROVE  Faithful(m)'
<1> DEFINE p == m.packet
           T == p.tick
           lost == m.lost
<1>1. sealed \in Seq(Final) /\ Len(sealed) \in Nat
  BY DEF SealedInv
<1>2. Len(sealed') = Len(sealed) + 1 /\ \A P \in 1..Len(sealed) : sealed'[P] = sealed[P]
  BY <1>1
<1>3. PICK ring : Shows(ring, T, sealed, lost) /\ p = Packet(ring, T)
  BY DEF Faithful, MadeOf
<1>4. T \in 1..Len(sealed) /\ T \in 1..Len(sealed')
  BY <1>1, <1>2 DEF Faithful, MadeOf
<1>5. Shows(ring, T, sealed', lost)
  <2> SUFFICES ASSUME NEW r \in Back, r < T
               PROVE  sealed'[T - r] = sealed[T - r]
    BY <1>3 DEF Shows
  <2> HIDE DEF T
  <2>1. T - r \in 1..Len(sealed)
    BY <1>1, <1>4 DEF Back
  <2> QED BY <1>2, <2>1
<1> QED BY <1>3, <1>4, <1>5 DEF Faithful, MadeOf

(* Calls at the server that seal nothing. *)
LEMMA ServerKeeps ==
  ASSUME PeersInv, ServerSound(serverRows)', UNCHANGED <<client, sealed, net>>
  PROVE  PeersInv'
BY DEF PeersInv, SealedInv, ClientInv, ClientSound, ClientCells, Cells, May,
       NetInv, Faithful, MadeOf, client

(* An input at the server. *)
LEMMA ServerSetKeeps ==
  ASSUME PeersInv, NEW s \in Slot, NEW T \in Tick, NEW v \in Moves, ServerSet(s, T, v)
  PROVE  PeersInv'
<1>1. /\ serverRows' = ServerInput(serverRows, s, T, v) /\ T > Len(sealed)
      /\ UNCHANGED <<client, sealed, net>>
  BY DEF ServerSet
<1>2. v \in Value
  OBVIOUS
<1>3. ServerSound(ServerInput(serverRows, s, T, v))
  BY <1>1, <1>2, ServerInputSound DEF PeersInv
<1>4. ServerSound(serverRows)'
  BY <1>1, <1>3 DEF ServerSound, ServerCells, ServerCell
<1> QED BY <1>1, <1>4, ServerKeeps

(* A command at the server. *)
LEMMA ServerCommandKeeps ==
  ASSUME PeersInv, NEW s \in Slot, NEW T \in Tick, NEW c \in Command,
         ServerCommand(s, T, c)
  PROVE  PeersInv'
<1>1. /\ serverRows' = WithCommand(serverRows, Slot, Len(sealed), s, T, c)
      /\ T > Len(sealed) /\ UNCHANGED <<client, sealed, net>>
  BY DEF ServerCommand
<1>2. ServerSound(WithCommand(serverRows, Slot, Len(sealed), s, T, c))
  BY <1>1, ServerCommandSound DEF PeersInv
<1>3. ServerSound(serverRows)'
  BY <1>1, <1>2 DEF ServerSound, ServerCells, ServerCell
<1> QED BY <1>1, <1>3, ServerKeeps

(* The server seals the next tick: what it seals is what its row has. *)
LEMMA ServerSealKeeps ==
  ASSUME PeersInv, ServerSeal
  PROVE  PeersInv'
<1> DEFINE T == Len(sealed) + 1
           ring == AllProvided(T)
           row == RowOf(ring, T)
           x == [input |-> row.input, cmds |-> row.cmds]
<1>1. /\ T \in Tick /\ serverRows' = ring
      /\ UNCHANGED <<clientRows, clientLive, clientFrontier, zeroed, doubled, net>>
  BY DEF ServerSeal, client
<1>2. SealedInv /\ sealed \in Seq(Final) /\ Len(sealed) \in Nat /\ T > Len(sealed)
  BY DEF PeersInv, SealedInv
<1>3. ServerSound(ring) /\ Confirms(ring, T, Slot)
  <2> HIDE DEF T
  <2> QED BY <1>1, <1>2, AllProvidedSound DEF PeersInv
<1>4. PICK n \in Size : ring \in RingOf(n) /\ ServerCells(ring)
  BY <1>3 DEF ServerSound
<1>5. row.tick = T /\ Slot \subseteq row.confirmed
  BY <1>3 DEF Confirms
<1>6. row \in Row /\ At(ring, T) = row
  <2>1. n \in Nat \ {0} /\ ring \in [0..n - 1 -> Row]
    BY <1>4, SizeType DEF RingOf
  <2> HIDE DEF ring, T
  <2> QED BY <1>1, <1>5, <2>1, RowOfType
<1>7. sealed' = Append(sealed, x)
  BY <1>6 DEF ServerSeal
<1>8. x \in Final
  <2>1. \A z \in Slot : ServerCell(T, row, z)
    BY <1>1, <1>4 DEF ServerCells
  <2>2. \A z \in Slot : row.input[z] # Empty
    BY <1>5, <2>1 DEF ServerCell
  <2> HIDE DEF row
  <2>3. row.input \in [Slot -> Value \cup {Empty}] /\ row.cmds \in [Slot -> Seq(Command)]
    BY <1>6 DEF Row
  <2>4. row.input \in [Slot -> Value]
    BY <2>2, <2>3
  <2> QED BY <2>3, <2>4 DEF Final
<1>9. x.input = row.input /\ x.cmds = row.cmds
  OBVIOUS
<1> HIDE DEF ring, row, x
<1>10. /\ sealed' \in Seq(Final) /\ Len(sealed') = T /\ sealed'[T] = x
       /\ \A P \in 1..Len(sealed) : sealed'[P] = sealed[P]
  BY <1>2, <1>7, <1>8
<1>11. SealedInv'
  BY <1>1, <1>10 DEF SealedInv, Tick
<1>12. ASSUME NEW P \in Tick, NEW z \in Slot
       PROVE  /\ z \in RowOf(ring, P).confirmed => RowOf(ring, P).input[z] # Empty
              /\ P <= Len(sealed') /\ RowOf(ring, P).tick = P =>
                   /\ RowOf(ring, P).input[z] = sealed'[P].input[z]
                   /\ RowOf(ring, P).cmds[z] = sealed'[P].cmds[z]
  <2>1. ServerCell(P, RowOf(ring, P), z)
    BY <1>4 DEF ServerCells
  <2>2. CASE P <= Len(sealed)
    <3>1. sealed'[P] = sealed[P]
      BY <1>2, <1>10, <2>2 DEF Tick
    <3> QED BY <2>1, <2>2, <3>1 DEF ServerCell
  <2>3. CASE P = T
    <3>1. RowOf(ring, P) = row /\ sealed'[P] = x
      BY <1>10, <2>3 DEF row
    <3> QED BY <1>9, <2>1, <3>1 DEF ServerCell
  <2>4. CASE P > T
    <3>1. ~ P <= Len(sealed')
      BY <1>2, <1>10, <2>4 DEF Tick
    <3> QED BY <2>1, <3>1 DEF ServerCell
  <2> QED BY <1>2, <2>2, <2>3, <2>4 DEF Tick
<1>13. ServerSound(serverRows)'
  BY <1>1, <1>4, <1>12 DEF ServerSound, ServerCells, ServerCell
<1>14. ClientInv'
  <2>1. PICK k \in Size : clientRows \in RingOf(k) /\ ClientCells(clientRows)
    BY DEF PeersInv, ClientInv, ClientSound
  <2>2. ASSUME NEW P \in Tick, NEW z \in Slot
        PROVE  May(zeroed, doubled, P, RowOf(clientRows, P), z)'
    <3>1. May(zeroed, doubled, P, RowOf(clientRows, P), z)
      BY <2>1 DEF ClientCells, Cells
    <3>2. P <= Len(sealed) => P <= Len(sealed') /\ sealed'[P] = sealed[P]
      BY <1>2, <1>10 DEF Tick
    <3> QED BY <1>1, <3>1, <3>2 DEF May
  <2>3. zeroed' \subseteq 1..Len(sealed') /\ doubled' \subseteq 1..Len(sealed')
    BY <1>1, <1>2, <1>10 DEF PeersInv, ClientInv
  <2> QED BY <1>1, <2>1, <2>2, <2>3
          DEF PeersInv, ClientInv, ClientSound, ClientCells, Cells
<1>15. NetInv'
  BY <1>1, <1>2, <1>7, FaithfulStays DEF PeersInv, NetInv
<1> QED BY <1>11, <1>13, <1>14, <1>15 DEF PeersInv

(* The server sends a tick: what its ring has of the cascade is as it was
   sealed, and the rest is lost. *)
LEMMA ServerSendKeeps ==
  ASSUME PeersInv, NEW T \in Tick, ServerSend(T)
  PROVE  PeersInv'
<1> DEFINE lost == Missing(serverRows, T)
           p == Packet(serverRows, T)
           m == [packet |-> p, lost |-> lost]
<1>1. /\ T <= Len(sealed) /\ net' = net \cup {m}
      /\ UNCHANGED <<serverRows, clientRows, clientLive, clientFrontier>>
      /\ UNCHANGED <<zeroed, doubled, sealed>>
  BY DEF ServerSend, client
<1>2. PICK n \in Size : serverRows \in RingOf(n) /\ ServerCells(serverRows)
  BY DEF PeersInv, ServerSound
<1>3. Shows(serverRows, T, sealed, lost)
  <2> SUFFICES ASSUME NEW r \in Back, r < T
               PROVE  /\ T - r \in lost <=> At(serverRows, T - r).tick # T - r
                      /\ T - r \notin lost =>
                           \A s \in Slot :
                             /\ At(serverRows, T - r).input[s] = sealed[T - r].input[s]
                             /\ At(serverRows, T - r).cmds[s] = sealed[T - r].cmds[s]
    BY DEF Shows
  <2> DEFINE P == T - r
  <2>1. P \in Tick /\ P <= Len(sealed)
    BY <1>1 DEF Back, Tick, PeersInv, SealedInv
  <2>2. P \in lost <=> At(serverRows, P).tick # P
    <3>1. \A x \in Back : T - x = T - r <=> x = r
      BY DEF Back, Tick
    <3>2. P \in lost <=> ~ Holds(serverRows, T, r)
      BY <3>1 DEF Missing
    <3> QED BY <3>2 DEF Holds
  <2>3. ASSUME P \notin lost, NEW s \in Slot
        PROVE  /\ At(serverRows, P).input[s] = sealed[P].input[s]
               /\ At(serverRows, P).cmds[s] = sealed[P].cmds[s]
    <3>1. At(serverRows, P).tick = P
      BY <2>2, <2>3
    <3> HIDE DEF P
    <3>2. RowOf(serverRows, P) = At(serverRows, P)
      BY <3>1 DEF RowOf
    <3>3. ServerCell(P, At(serverRows, P), s)
      BY <1>2, <2>1, <3>2 DEF ServerCells
    <3> QED BY <2>1, <3>1, <3>3 DEF ServerCell
  <2> QED BY <2>2, <2>3
<1>4. Faithful(m)
  <2>1. p.tick = T
    BY PacketShape DEF ShapedPacket
  <2>2. T \in 1..Len(sealed) /\ lost \subseteq 1..T
    BY <1>1 DEF Missing, Back, Tick, PeersInv, SealedInv
  <2>3. MadeOf(p, T, lost)
    BY <1>3, <2>2 DEF MadeOf
  <2> HIDE DEF p, lost
  <2>4. m.packet = p /\ m.lost = lost
    OBVIOUS
  <2> QED BY <2>1, <2>3, <2>4 DEF Faithful
<1> HIDE DEF m
<1>5. NetInv'
  BY <1>1, <1>4 DEF PeersInv, NetInv, Faithful, MadeOf
<1> QED BY <1>1, <1>5 DEF PeersInv, SealedInv, ServerSound, ServerCells, ServerCell,
                          ClientInv, ClientSound, ClientCells, Cells, May

(* Calls at the client. *)
LEMMA ClientKeeps ==
  ASSUME PeersInv, ClientInv', UNCHANGED <<serverRows, sealed, net>>
  PROVE  PeersInv'
BY DEF PeersInv, SealedInv, ServerSound, ServerCells, ServerCell, NetInv, Faithful,
       MadeOf

(* A table of what the client may have, when nothing else changes. *)
LEMMA ClientRowsKeep ==
  ASSUME PeersInv, ClientSound(clientRows'), clientLive' \subseteq Slot,
         UNCHANGED <<serverRows, clientFrontier, zeroed, doubled, sealed, net>>
  PROVE  PeersInv'
<1>1. ClientInv'
  BY DEF PeersInv, ClientInv, ClientSound, ClientCells, Cells, May
<1> QED BY <1>1, ClientKeeps

(* The next player joins at the client. *)
LEMMA JoinKeeps ==
  ASSUME PeersInv, Join
  PROVE  PeersInv'
<1> DEFINE s == LowestFree(clientLive)
<1>1. /\ clientLive # Slot /\ clientLive' = clientLive \cup {s}
      /\ clientRows' = [t \in DOMAIN clientRows |-> Scrubbed(clientRows[t], s)]
      /\ UNCHANGED <<serverRows, clientFrontier, zeroed, doubled, sealed, net>>
  BY DEF Join, Joined, server
<1>2. PICK n \in Size : clientRows \in RingOf(n) /\ ClientCells(clientRows)
  BY DEF PeersInv, ClientInv, ClientSound
<1>3. clientLive \subseteq Slot /\ s \in Slot
  BY <1>1, LowestFreeType DEF PeersInv, ClientInv
<1> HIDE DEF s
<1>4. n \in Nat \ {0}
  BY SizeType
<1>5. /\ clientRows' \in RingOf(n)
      /\ \A P \in Tick : /\ Silent(RowOf(clientRows', P), s)
                          /\ \A z \in Slot \ {s} :
                               SameCell(RowOf(clientRows, P), RowOf(clientRows', P), z)
  BY <1>1, <1>2, <1>3, <1>4, ScrubbedRows
<1>6. ASSUME NEW P \in Tick, NEW z \in Slot
      PROVE  ClientCell(P, RowOf(clientRows', P), z)
  <2>1. CASE z = s
    BY <1>5, <2>1 DEF Silent, ClientCell, May
  <2>2. CASE z # s
    <3>1. ClientCell(P, RowOf(clientRows, P), z)
      BY <1>2 DEF ClientCells, Cells, ClientCell
    <3>2. SameCell(RowOf(clientRows, P), RowOf(clientRows', P), z)
      BY <1>5, <2>2
    <3> QED BY <3>1, <3>2 DEF SameCell, ClientCell, May
  <2> QED BY <2>1, <2>2
<1>7. ClientSound(clientRows')
  BY <1>5, <1>6 DEF ClientSound, ClientCells, Cells, ClientCell
<1>8. clientLive' \subseteq Slot
  BY <1>1, <1>3
<1> QED BY <1>1, <1>7, <1>8, ClientRowsKeep

(* A prediction is not taken for what was sealed, and replaces none of it. *)
LEMMA PredictKeeps ==
  ASSUME PeersInv, NEW s \in Slot, NEW T \in Tick, NEW v \in Moves, Predict(s, T, v)
  PROVE  PeersInv'
<1> DEFINE q == ClientInput(clientRows, s, T, v, FALSE)
<1>1. /\ T > clientFrontier /\ clientRows' = q
      /\ UNCHANGED <<serverRows, clientLive, clientFrontier, zeroed, doubled, sealed, net>>
  BY DEF Predict, server
<1>2. PICK n \in Size : clientRows \in RingOf(n) /\ ClientCells(clientRows)
  BY DEF PeersInv, ClientInv, ClientSound
<1>3. /\ v \in Value /\ FALSE \in BOOLEAN /\ 0 \in Nat /\ 0 <= clientFrontier /\ 0 < T
      /\ clientFrontier \in 0..MaxTick /\ ~ T <= clientFrontier
  BY <1>1 DEF PeersInv, ClientInv, Tick
<1>4. q = WithInput(clientRows, clientLive, clientFrontier, s, T, v, FALSE)
  BY DEF ClientInput
<1> HIDE DEF q
<1>5. PICK m \in Doubled(n) :
        TookInput(m, clientFrontier, 0, clientRows, q, T, s, v, FALSE)
  BY <1>2, <1>3, <1>4, InputRowsAfter
<1>6. m \in Size
  BY SizeType
<1>7. /\ q \in RingOf(m)
      /\ \A P \in Tick, z \in Slot :
           P # T \/ z # s => Drift(0, P, RowOf(clientRows, P), RowOf(q, P), z)
      /\ Landed(RowOf(clientRows, T), RowOf(q, T), T, s, v, FALSE)
  BY <1>3, <1>5 DEF TookInput
<1>8. ASSUME NEW P \in Tick, NEW z \in Slot
      PROVE  ClientCell(P, RowOf(q, P), z)
  <2>1. ClientCell(P, RowOf(clientRows, P), z)
    BY <1>2 DEF ClientCells, Cells, ClientCell
  <2>2. CASE P # T \/ z # s
    <3>1. Drift(0, P, RowOf(clientRows, P), RowOf(q, P), z)
      BY <1>7, <2>2
    <3> QED BY <2>1, <3>1, DriftCell DEF PeersInv, ClientCell
  <2>3. CASE P = T /\ z = s
    BY <1>7, <2>1, <2>3 DEF Landed, ClientCell, May
  <2> QED BY <2>2, <2>3
<1>9. ClientSound(clientRows')
  BY <1>1, <1>6, <1>7, <1>8 DEF ClientSound, ClientCells, Cells, ClientCell
<1>10. clientLive' \subseteq Slot
  BY <1>1 DEF PeersInv, ClientInv
<1> QED BY <1>1, <1>9, <1>10, ClientRowsKeep

(* A packet taken in brings what was sealed: zero for what it was made
   without, and what is excused if the ring grows for it. *)
LEMMA ReceiveKeeps ==
  ASSUME PeersInv, NEW m \in net, Receive(m.packet, m.lost)
  PROVE  PeersInv'
<1> DEFINE p == m.packet
           T == p.tick
           D == Cascade(T)
           zs == zeroed \cup m.lost
<1>1. /\ clientRows' = Received(p).ring /\ zeroed' = zs
      /\ doubled' = IF Roomy(p) THEN doubled ELSE doubled \cup D
      /\ UNCHANGED <<serverRows, clientLive, clientFrontier, sealed, net>>
  BY DEF Receive, server
<1>2. PICK n \in Size : clientRows \in RingOf(n) /\ ClientCells(clientRows)
  BY DEF PeersInv, ClientInv, ClientSound
<1>3. MadeOf(p, T, m.lost)
  BY DEF PeersInv, NetInv, Faithful
<1> HIDE DEF p, T
<1>4. PICK ring : Shows(ring, T, sealed, m.lost) /\ p = Packet(ring, T)
  BY <1>3 DEF MadeOf
<1>5. T \in 1..Len(sealed) /\ m.lost \subseteq 1..T /\ clientFrontier \in 0..MaxTick
      /\ SealedInv /\ zeroed \subseteq 1..Len(sealed) /\ doubled \subseteq 1..Len(sealed)
  BY <1>3 DEF MadeOf, PeersInv, ClientInv
<1>6. Cells(zs, doubled, clientRows)
  BY <1>2, MayMore DEF ClientCells, Cells
<1> HIDE DEF D, zs
<1>7. Sound(n, zs, doubled, D, Received(p).ring)
  <2>1. m.lost \subseteq zs
    BY DEF zs
  <2> QED BY <1>2, <1>4, <1>5, <1>6, <2>1, ReceivedSound DEF D
<1>8. \E k \in Size : clientRows' \in RingOf(k) /\ Cells(zs, doubled', clientRows')
  BY <1>1, <1>2, <1>7, ReceivedCells
<1>9. zeroed' \subseteq 1..Len(sealed') /\ doubled' \subseteq 1..Len(sealed')
  <2>1. D \subseteq 1..Len(sealed) /\ m.lost \subseteq 1..Len(sealed)
    BY <1>5 DEF D, Cascade, Back, SealedInv
  <2> QED BY <1>1, <1>5, <2>1 DEF zs
<1>10. ClientInv'
  BY <1>1, <1>8, <1>9 DEF PeersInv, ClientInv, ClientSound, ClientCells, Cells, May
<1> QED BY <1>1, <1>10, ClientKeeps

(* The client's ring grows. *)
LEMMA ClientGrowKeeps ==
  ASSUME PeersInv, NEW size \in 1..BufMax, ClientGrow(size)
  PROVE  PeersInv'
<1>1. PICK n \in Size : clientRows \in RingOf(n) /\ ClientCells(clientRows)
  BY DEF PeersInv, ClientInv, ClientSound
<1>2. Cardinality(DOMAIN clientRows) = n
  BY <1>1, SizeType, RingSize DEF RingOf
<1>3. /\ clientRows' = Grown(clientRows, size) /\ size \in Doubled(n)
      /\ UNCHANGED <<serverRows, clientLive, clientFrontier, zeroed, doubled, sealed, net>>
  BY <1>2 DEF ClientGrow, Wider, server
<1>4. /\ size \in Size /\ clientRows' \in RingOf(size)
      /\ \A P \in Tick : RowOf(clientRows', P) = RowOf(clientRows, P)
  BY <1>1, <1>3, GrownKeeps
<1>5. ClientSound(clientRows')
  BY <1>1, <1>4 DEF ClientSound, ClientCells, Cells
<1>6. clientLive' \subseteq Slot
  BY <1>3 DEF PeersInv, ClientInv
<1> QED BY <1>3, <1>5, <1>6, ClientRowsKeep

(* The client seals a tick: of an older tick less is asked. *)
LEMMA ClientSealKeeps ==
  ASSUME PeersInv, ClientSeal
  PROVE  PeersInv'
<1>1. /\ clientFrontier + 1 \in Tick /\ clientFrontier' = clientFrontier + 1
      /\ UNCHANGED <<serverRows, clientRows, clientLive, zeroed, doubled, sealed, net>>
  BY DEF ClientSeal, server
<1>2. clientFrontier \in Nat /\ clientFrontier' \in 0..MaxTick
  BY <1>1 DEF PeersInv, ClientInv, Tick
<1>3. PICK n \in Size : clientRows \in RingOf(n) /\ ClientCells(clientRows)
  BY DEF PeersInv, ClientInv, ClientSound
<1>4. ASSUME NEW P \in Tick, NEW z \in Slot
      PROVE  May(zeroed, doubled, P, RowOf(clientRows, P), z)'
  <2>1. P > clientFrontier' => P > clientFrontier
    BY <1>1, <1>2 DEF Tick
  <2>2. May(zeroed, doubled, P, RowOf(clientRows, P), z)
    BY <1>3 DEF ClientCells, Cells
  <2> QED BY <1>1, <2>1, <2>2 DEF May
<1>5. ClientInv'
  BY <1>1, <1>2, <1>3, <1>4 DEF PeersInv, ClientInv, ClientSound, ClientCells, Cells
<1> QED BY <1>1, <1>5, ClientKeeps

(* Every step of the peers and of the network preserves the invariant. *)
LEMMA PeersNextKeeps ==
  ASSUME PeersInv, [PeersNext]_peers
  PROVE  PeersInv'
<1>1. ASSUME NEW s \in Slot, NEW T \in Tick, NEW v \in Moves,
             ServerSet(s, T, v) \/ Predict(s, T, v)
      PROVE  PeersInv'
  BY <1>1, ServerSetKeeps, PredictKeeps
<1>2. ASSUME NEW s \in Slot, NEW T \in Tick, NEW c \in Command, ServerCommand(s, T, c)
      PROVE  PeersInv'
  BY <1>2, ServerCommandKeeps
<1>3. CASE ServerSeal
  BY <1>3, ServerSealKeeps
<1>4. ASSUME NEW T \in Tick, ServerSend(T)
      PROVE  PeersInv'
  BY <1>4, ServerSendKeeps
<1>5. CASE Join
  BY <1>5, JoinKeeps
<1>6. CASE ClientSeal
  BY <1>6, ClientSealKeeps
<1>7. ASSUME NEW size \in 1..BufMax, ClientGrow(size)
      PROVE  PeersInv'
  BY <1>7, ClientGrowKeeps
<1>8. ASSUME NEW m \in net, Receive(m.packet, m.lost)
      PROVE  PeersInv'
  BY <1>8, ReceiveKeeps
<1>9. CASE UNCHANGED peers
  <2>1. UNCHANGED <<serverRows, client, sealed, net>>
    BY <1>9 DEF peers, server
  <2>2. ServerSound(serverRows)'
    BY <2>1 DEF PeersInv, ServerSound, ServerCells, ServerCell
  <2> QED BY <2>1, <2>2, ServerKeeps
<1> QED BY <1>1, <1>2, <1>3, <1>4, <1>5, <1>6, <1>7, <1>8, <1>9 DEF PeersNext

(* The invariant holds in every reachable state. *)
LEMMA PeersInvariance == PeersSpec => []PeersInv
BY PeersInitKeeps, PeersNextKeeps, PTL DEF PeersSpec

(* A tick that the client has is the one the cell is about. *)
LEMMA ClientHas ==
  ASSUME PeersInv, NEW T \in Tick, At(clientRows, T).tick = T, NEW s \in Slot
  PROVE  ClientCell(T, At(clientRows, T), s)
<1>1. RowOf(clientRows, T) = At(clientRows, T)
  BY DEF RowOf
<1> QED BY <1>1 DEF PeersInv, ClientInv, ClientSound, ClientCells, Cells, ClientCell

(* Both tables keep every row where its tick belongs, and each packet has one
   entry per tick of the cascade for a player with data. *)
THEOREM PeersType == PeersSpec => []PeersTypeOK
<1>1. PeersInv => PeersTypeOK
  <2> SUFFICES ASSUME PeersInv PROVE PeersTypeOK
    OBVIOUS
  <2>1. InPlace(serverRows) /\ InPlace(clientRows)
    BY RingInPlace DEF PeersInv, ServerSound, ClientInv, ClientSound
  <2>2. ASSUME NEW m \in net, NEW p, p = m.packet
        PROVE  /\ p.tick \in 1..Len(sealed) /\ Len(p.blocks) <= PlayerMax
               /\ m.lost \subseteq 1..p.tick
               /\ \A n \in DOMAIN p.blocks : Len(p.blocks[n]) \in {0, Redundancy + 1}
    <3>1. p.tick \in 1..Len(sealed) /\ m.lost \subseteq 1..p.tick
      BY <2>2 DEF PeersInv, NetInv, Faithful, MadeOf
    <3>2. PICK ring : p = Packet(ring, p.tick)
      BY <2>2 DEF PeersInv, NetInv, Faithful, MadeOf
    <3>3. PICK fit \in 0..PlayerMax : ShapedPacket(p, ring, p.tick, fit)
      BY <3>2, PacketShape
    <3>4. Len(p.blocks) <= PlayerMax
      BY <3>3 DEF ShapedPacket
    <3>5. \A n \in DOMAIN p.blocks : Len(p.blocks[n]) \in {0, Redundancy + 1}
      BY <3>3, BlockShape DEF ShapedPacket
    <3> QED BY <3>1, <3>4, <3>5
  <2> QED BY <2>1, <2>2 DEF PeersTypeOK, PeersInv, SealedInv, Final, ClientInv
<1> QED BY <1>1, PeersInvariance, PTL

(* Whichever packets arrive, however often and in whatever order, and however
   the ring grows: what the client takes for confirmed is what the server
   sealed, or the zero of a packet made without that tick; of its commands it
   has none or all, but for a tick of a packet that the ring grew for. *)
THEOREM ReceivedAsSealed == PeersSpec => []ReceivedIsSealed
<1>1. PeersInv => ReceivedIsSealed
  <2> SUFFICES ASSUME PeersInv, NEW T \in Tick, NEW s \in clientLive,
                      NEW row, row = At(clientRows, T), row.tick = T
               PROVE  /\ s \in row.confirmed =>
                           /\ T <= Len(sealed)
                           /\ row.input[s] # sealed[T].input[s] =>
                                T \in zeroed /\ row.input[s] = Zero
                      /\ row.cmds[s] # <<>> =>
                           /\ T <= Len(sealed)
                           /\ row.cmds[s] # sealed[T].cmds[s] => T \in doubled
    BY DEF ReceivedIsSealed
  <2>1. s \in Slot
    BY DEF PeersInv, ClientInv
  <2> QED BY <2>1, ClientHas DEF ClientCell, May
<1> QED BY <1>1, PeersInvariance, PTL

(* However often a sealed tick is sent, and whatever the server did in the
   meantime: packets of it that were made with the same ticks of the cascade
   lost are the same. *)
THEOREM SentAlike == PeersSpec => []SameWire
<1>1. PeersInv => SameWire
  <2> SUFFICES ASSUME PeersInv, NEW p \in net, NEW q \in net,
                      p.packet.tick = q.packet.tick, p.lost = q.lost
               PROVE  p = q
    BY DEF SameWire
  <2> DEFINE T == p.packet.tick
  <2>1. MadeOf(p.packet, T, p.lost) /\ MadeOf(q.packet, T, p.lost)
    BY DEF PeersInv, NetInv, Faithful
  <2> HIDE DEF T
  <2>2. PICK a : Shows(a, T, sealed, p.lost) /\ p.packet = Packet(a, T)
    BY <2>1 DEF MadeOf
  <2>3. PICK b : Shows(b, T, sealed, p.lost) /\ q.packet = Packet(b, T)
    BY <2>1 DEF MadeOf
  <2>4. T \in 1..Len(sealed) /\ sealed \in Seq(Final)
    BY <2>1 DEF MadeOf, PeersInv, SealedInv
  <2>5. \A r \in Back, s \in Slot :
          /\ Cell(a, T, r, s) = Cell(b, T, r, s)
          /\ Commands(a, T, r, s) = Commands(b, T, r, s)
    BY <2>2, <2>3, <2>4, ShownCell
  <2>6. Packet(a, T) = Packet(b, T)
    BY <2>5, PacketAlike
  <2>7. /\ p = [packet |-> p.packet, lost |-> p.lost]
        /\ q = [packet |-> q.packet, lost |-> q.lost]
    BY DEF PeersInv, NetInv, Faithful
  <2> QED BY <2>2, <2>3, <2>6, <2>7
<1> QED BY <1>1, PeersInvariance, PTL

(* What the client seals is what the server sealed, for every player that is
   in, every input and every command, but for a tick that came in a packet made
   without it, or that the ring grew for. *)
THEOREM SealedAsServer == PeersSpec => FinalIsShared
<1> DEFINE Shared == clientFrontier' > clientFrontier =>
                       LET T == clientFrontier'
                           row == At(clientRows, T)
                       IN \A s \in clientLive :
                            /\ row.input[s] # sealed[T].input[s] =>
                                 T \in zeroed /\ row.input[s] = Zero
                            /\ row.cmds[s] # sealed[T].cmds[s] =>
                                 T \in zeroed \cup doubled
<1>1. PeersInv /\ [PeersNext]_peers => Shared
  <2> SUFFICES ASSUME PeersInv, [PeersNext]_peers, clientFrontier' > clientFrontier,
                      NEW s \in clientLive, NEW T, T = clientFrontier',
                      NEW row, row = At(clientRows, T)
               PROVE  /\ row.input[s] # sealed[T].input[s] =>
                           T \in zeroed /\ row.input[s] = Zero
                      /\ row.cmds[s] # sealed[T].cmds[s] => T \in zeroed \cup doubled
    OBVIOUS
  <2>1. clientFrontier \in Nat /\ s \in Slot
    BY DEF PeersInv, ClientInv
  <2>2. ClientSeal
    <3>1. clientFrontier' # clientFrontier
      BY <2>1
    <3> QED BY <3>1 DEF PeersNext, peers, client, ServerSet, Predict, ServerCommand,
                        ServerSeal, ServerSend, Join, ClientGrow, Receive
  <2>3. /\ T = clientFrontier + 1 /\ T \in Tick /\ T > clientFrontier
        /\ ~ T <= clientFrontier
    BY <2>1, <2>2 DEF ClientSeal
  <2>4. row.tick = T /\ s \in row.confirmed
    BY <2>1, <2>2, <2>3 DEF ClientSeal, TickConfirmed, AllConfirmed
  <2>5. ClientCell(T, row, s)
    BY <2>1, <2>3, <2>4, ClientHas
  <2> QED BY <2>3, <2>4, <2>5 DEF ClientCell, May
<1> QED BY <1>1, PeersInvariance, PTL DEF PeersSpec, FinalIsShared
=============================================================================
