--------------------------- MODULE OperatorProofs ---------------------------
(***************************************************************************)
(* What the operators do that the state machines are built from: lemmas    *)
(* about Tally.tla, KvCacheManager.tla, EventQueue.tla and Fractions.tla for*)
(* the proofs about their users.  They rest on what a total over a finite  *)
(* set obeys and on induction over the naturals in a form that the provers *)
(* can use, the first part of this module.  A finite set has one list in a *)
(* strict order, the third part, which heaps and sorted files are seen as. *)
(* Invariants of the simulator speak of how many events of some kind are   *)
(* pending for some request, so the lemmas on the queue count events by    *)
(* pairs of kind and request.                                              *)
(*                                                                         *)
(* The last parts are arithmetic: Euclid's algorithm finds the greatest    *)
(* common divisor, so a quotient in lowest terms is one record, and sums,  *)
(* products and comparisons of such records obey the laws of fractions.    *)
(***************************************************************************)
EXTENDS KvCacheManager, EventQueue, Fractions, FiniteSetTheorems, SequenceTheorems, TLAPS

-----------------------------------------------------------------------------
(* Totals over finite sets *)

\* Induction over the naturals, for a property given as the set of numbers
\* that have it.
LEMMA SetInduction ==
  ASSUME NEW P, 0 \in P, \A n \in Nat : n \in P => n + 1 \in P
  PROVE  Nat \subseteq P
<1> DEFINE Others == {n \in Nat : n \notin P}
<1> SUFFICES ASSUME Others # {} PROVE FALSE
  OBVIOUS
<1>1. PICK x \in Others : \A y \in Others : ~ (<<y, x>> \in OpToRel(<, Nat))
  <2>1. Others \subseteq Nat
    OBVIOUS
  <2> QED
    BY <2>1, NatLessThanWellFounded, WFMin
<1>2. \A y \in Others : ~ (y < x)
  BY <1>1 DEF OpToRel
<1>3. x # 0 /\ x - 1 \in Nat /\ x - 1 < x /\ (x - 1) + 1 = x
  OBVIOUS
<1>4. x - 1 \in P
  BY <1>2, <1>3
<1> QED
  BY <1>3, <1>4

\* A finite set of bearers has finitely many units.
LEMMA UnitsFinite ==
  ASSUME NEW S, NEW f, IsFiniteSet(S), \A x \in S : f[x] \in Nat
  PROVE  IsFiniteSet(Units(S, f))
<1> DEFINE Shares == {{x} \X (1 .. f[x]) : x \in S}
           g == [x \in S |-> {x} \X (1 .. f[x])]
<1>1. g \in Surjection(S, Shares)
  BY DEF Surjection
<1>2. IsFiniteSet(Shares)
  BY <1>1, FS_Surjection
<1>3. \A x \in S : IsFiniteSet({x} \X (1 .. f[x]))
  <2> TAKE x \in S
  <2>1. IsFiniteSet({x})
    BY FS_Singleton
  <2>2. IsFiniteSet(1 .. f[x])
    BY FS_Interval
  <2> QED
    BY <2>1, <2>2, FS_Product
<1>4. \A T \in Shares : IsFiniteSet(T)
  BY <1>3
<1> QED
  BY <1>2, <1>4, FS_UNION DEF Units

\* A total is a natural number.
LEMMA TotalType ==
  ASSUME NEW S, NEW f, IsFiniteSet(S), \A x \in S : f[x] \in Nat
  PROVE  Total(S, f) \in Nat
BY UnitsFinite, FS_CardinalityType DEF Total

\* Nothing adds up to nothing.
LEMMA TotalEmpty ==
  ASSUME NEW f
  PROVE  Total({}, f) = 0
<1>1. Units({}, f) = {}
  BY DEF Units
<1> QED
  BY <1>1, FS_EmptySet DEF Total

\* One bearer's total is what it bears.
LEMMA TotalSingleton ==
  ASSUME NEW x, NEW f, f[x] \in Nat
  PROVE  Total({x}, f) = f[x]
<1>1. Units({x}, f) = {x} \X (1 .. f[x])
  BY DEF Units
<1>2. IsFiniteSet({x}) /\ Cardinality({x}) = 1
  BY FS_Singleton
<1>3. IsFiniteSet(1 .. f[x]) /\ Cardinality(1 .. f[x]) = f[x]
  BY FS_Interval
<1>4. Cardinality({x} \X (1 .. f[x])) = Cardinality({x}) * Cardinality(1 .. f[x])
  BY <1>2, <1>3, FS_Product
<1>5. Total({x}, f) = 1 * f[x]
  BY <1>1, <1>2, <1>3, <1>4, Zenon DEF Total
<1> QED
  BY <1>5

\* A total splits over disjoint sets of bearers.
LEMMA TotalSplit ==
  ASSUME NEW S, NEW T, NEW f, IsFiniteSet(S), IsFiniteSet(T), S \cap T = {},
         \A x \in S \cup T : f[x] \in Nat
  PROVE  Total(S \cup T, f) = Total(S, f) + Total(T, f)
<1>1. Units(S \cup T, f) = Units(S, f) \cup Units(T, f)
  BY DEF Units
<1>2. Units(S, f) \cap Units(T, f) = {}
  BY DEF Units
<1>3. IsFiniteSet(Units(S, f)) /\ IsFiniteSet(Units(T, f))
  BY UnitsFinite
<1>4. /\ Cardinality(Units(S, f)) \in Nat
      /\ Cardinality(Units(T, f)) \in Nat
  BY <1>3, FS_CardinalityType
<1>5. Cardinality(Units(S, f) \cup Units(T, f)) =
      Cardinality(Units(S, f)) + Cardinality(Units(T, f)) - 0
  BY <1>2, <1>3, FS_Union, FS_EmptySet
<1>6. Total(S \cup T, f) = Total(S, f) + Total(T, f) - 0
  BY <1>1, <1>5, Zenon DEF Total
<1> QED
  BY <1>4, <1>6 DEF Total

\* A total depends on nothing but the shares of the bearers counted.
LEMMA TotalSame ==
  ASSUME NEW S, NEW f, NEW g, \A x \in S : f[x] = g[x]
  PROVE  Total(S, f) = Total(S, g)
<1>1. Units(S, f) = Units(S, g)
  BY DEF Units
<1> QED
  BY <1>1 DEF Total

\* Taking one bearer out of the count takes out what it bears.
LEMMA TotalRemove ==
  ASSUME NEW S, NEW x \in S, NEW f, IsFiniteSet(S), \A y \in S : f[y] \in Nat
  PROVE  Total(S, f) = Total(S \ {x}, f) + f[x]
<1>1. IsFiniteSet({x}) /\ IsFiniteSet(S \ {x})
  BY FS_Singleton, FS_Difference
<1>2. Total((S \ {x}) \cup {x}, f) = Total(S \ {x}, f) + Total({x}, f)
  BY <1>1, TotalSplit
<1>3. (S \ {x}) \cup {x} = S
  OBVIOUS
<1> QED
  BY <1>2, <1>3, TotalSingleton

\* A share, and the total of any part of the bearers, is within the total.
LEMMA TotalWithin ==
  ASSUME NEW S, NEW T, NEW f, IsFiniteSet(S), T \subseteq S,
         \A x \in S : f[x] \in Nat
  PROVE  /\ Total(T, f) <= Total(S, f)
         /\ Total(S, f) = Total(S \ T, f) + Total(T, f)
         /\ IsFiniteSet(T) /\ IsFiniteSet(S \ T)
<1>1. IsFiniteSet(T) /\ IsFiniteSet(S \ T)
  BY FS_Subset, FS_Difference
<1>2. Total((S \ T) \cup T, f) = Total(S \ T, f) + Total(T, f)
  BY <1>1, TotalSplit
<1>3. (S \ T) \cup T = S
  OBVIOUS
<1>4. Total(S \ T, f) \in Nat /\ Total(T, f) \in Nat
  BY <1>1, TotalType
<1>5. Total(S, f) = Total(S \ T, f) + Total(T, f)
  BY <1>2, <1>3, Zenon
<1> QED
  BY <1>1, <1>4, <1>5

\* Binding x to v changes the total by the difference between v and what x
\* bore before.
LEMMA TotalWith ==
  ASSUME NEW f, NEW x, NEW v \in Nat, IsFiniteSet(DOMAIN f),
         \A y \in DOMAIN f : f[y] \in Nat
  PROVE  /\ IsFiniteSet(DOMAIN With(f, x, v))
         /\ Total(DOMAIN With(f, x, v), With(f, x, v)) =
            Total(DOMAIN f \ {x}, f) + v
<1> DEFINE D == DOMAIN f \ {x}
           g == With(f, x, v)
<1>1. /\ DOMAIN g = D \cup {x}
      /\ g[x] = v
      /\ \A y \in D : g[y] = f[y]
  BY DEF With
<1>2. IsFiniteSet(D) /\ IsFiniteSet({x})
  BY FS_Difference, FS_Singleton
<1>3. Total(D \cup {x}, g) = Total(D, g) + Total({x}, g)
  BY <1>1, <1>2, TotalSplit
<1>4. Total({x}, g) = v
  BY <1>1, TotalSingleton
<1>5. Total(D, g) = Total(D, f)
  BY <1>1, TotalSame
<1>6. IsFiniteSet(D \cup {x})
  BY <1>2, FS_Union
<1> QED
  BY <1>1, <1>3, <1>4, <1>5, <1>6

\* A larger factor gives no smaller product.
LEMMA ProductGrows ==
  ASSUME NEW a \in Nat, NEW b \in Nat, NEW k \in Nat, a <= b
  PROVE  a * k <= b * k
<1>1. PICK d \in Nat : b = a + d
  <2>1. b - a \in Nat /\ b = a + (b - a)
    OBVIOUS
  <2> QED
    BY <2>1
<1>2. (a + d) * k = a * k + d * k
  OBVIOUS
<1>3. a * k \in Nat /\ d * k \in Nat
  OBVIOUS
<1>4. a * k <= (a + d) * k
  BY <1>2, <1>3
<1> QED
  BY <1>1, <1>4

\* Shares within k times the shares of another total add up to within k times it.
LEMMA TotalScaled ==
  ASSUME NEW S, NEW f, NEW g, NEW k \in Nat, IsFiniteSet(S),
         \A x \in S : f[x] \in Nat /\ g[x] \in Nat /\ g[x] <= f[x] * k
  PROVE  Total(S, g) <= Total(S, f) * k
<1> DEFINE P == {n \in Nat : \A R \in SUBSET S :
                   Cardinality(R) = n => Total(R, g) <= Total(R, f) * k}
<1>1. 0 \in P
  <2> SUFFICES ASSUME NEW R \in SUBSET S, Cardinality(R) = 0
               PROVE  Total(R, g) <= Total(R, f) * k
    OBVIOUS
  <2>1. R = {}
    BY FS_Subset, FS_EmptySet
  <2>2. Total(R, g) = 0 /\ Total(R, f) = 0
    BY <2>1, TotalEmpty
  <2> QED
    BY <2>2
<1>2. ASSUME NEW n \in Nat, n \in P PROVE n + 1 \in P
  <2> SUFFICES ASSUME NEW R \in SUBSET S, Cardinality(R) = n + 1
               PROVE  Total(R, g) <= Total(R, f) * k
    OBVIOUS
  <2>1. IsFiniteSet(R) /\ R # {}
    <3>1. IsFiniteSet(R)
      BY FS_Subset
    <3> QED
      BY <3>1, FS_EmptySet
  <2>2. PICK x \in R : TRUE
    BY <2>1
  <2> DEFINE Q == R \ {x}
  <2>3. IsFiniteSet(Q) /\ Cardinality(Q) = n
    <3>1. IsFiniteSet(Q) /\ Cardinality(Q) = Cardinality(R) - 1
      BY <2>1, <2>2, FS_RemoveElement
    <3> QED
      BY <3>1
  <2>4. Total(Q, g) <= Total(Q, f) * k
    BY <1>2, <2>3
  <2>5. /\ Total(R, f) = Total(Q, f) + f[x]
        /\ Total(R, g) = Total(Q, g) + g[x]
    BY <2>1, <2>2, TotalRemove
  <2>6. Total(Q, f) \in Nat /\ Total(Q, g) \in Nat
    BY <2>3, TotalType
  <2>7. f[x] \in Nat /\ g[x] \in Nat /\ g[x] <= f[x] * k
    BY <2>2
  <2> HIDE DEF Q
  <2>8. (Total(Q, f) + f[x]) * k = Total(Q, f) * k + f[x] * k
    BY <2>6, <2>7
  <2>9. Total(Q, f) * k \in Nat /\ f[x] * k \in Nat
    BY <2>6, <2>7
  <2> QED
    BY <2>4, <2>5, <2>6, <2>7, <2>8, <2>9
<1>3. Cardinality(S) \in P
  <2>1. Cardinality(S) \in Nat
    BY FS_CardinalityType
  <2> HIDE DEF P
  <2> QED
    BY <1>1, <1>2, <2>1, SetInduction
<1> QED
  BY <1>3

-----------------------------------------------------------------------------
(* Integer arithmetic *)

\* u32::div_ceil: the quotient is the least number of blocks of size d that
\* hold n, and a natural number.
LEMMA CeilDivHolds ==
  ASSUME NEW n \in Nat, NEW d \in Nat \ {0}
  PROVE  /\ CeilDiv(n, d) \in Nat
         /\ n <= CeilDiv(n, d) * d
<1> DEFINE m == n + d - 1
           q == m \div d
<1>1. m \in Nat
  OBVIOUS
<1>2. m = d * q + (m % d) /\ m % d \in 0 .. (d - 1) /\ q \in Int
  BY <1>1, SMT
<1>3. q \in Nat
  BY <1>1, SMT
<1>4. n <= d * q
  <2> HIDE DEF q
  <2>1. d * q \in Int
    BY <1>3, SMT
  <2> HIDE DEF m
  <2>2. n + d - 1 = d * q + (m % d)
    BY <1>2 DEF m
  <2> QED
    BY <2>1, <2>2, <1>2, SMT
<1>5. d * q = q * d
  <2> HIDE DEF q
  <2> QED
    BY <1>3, SMT
<1> QED
  BY <1>3, <1>4, <1>5 DEF CeilDiv

\* u32::saturating_sub: what it leaves tops b up to at least a.
LEMMA SatSubHolds ==
  ASSUME NEW a \in Nat, NEW b \in Nat
  PROVE  /\ SatSub(a, b) \in Nat
         /\ a <= SatSub(a, b) + b
BY DEF SatSub

-----------------------------------------------------------------------------
(* The members of a set in order *)

StrictOrder(S, order) ==
  /\ \A x \in S : <<x, x>> \notin order
  /\ \A x, y, z \in S : <<x, y>> \in order /\ <<y, z>> \in order => <<x, z>> \in order
  /\ \A x, y \in S : x = y \/ <<x, y>> \in order \/ <<y, x>> \in order

\* s lists each member of S once, and in order.
Lists(s, S, order) ==
  /\ s \in [1 .. Cardinality(S) -> S]
  /\ \A x \in S : \E i \in 1 .. Cardinality(S) : s[i] = x
  /\ \A i, j \in 1 .. Cardinality(S) : i < j => <<s[i], s[j]>> \in order

Earlier(x, S, order) == {y \in S : <<y, x>> \in order}

\* A member has fewer members before it than the members after it have.
LEMMA EarlierGrows ==
  ASSUME NEW S, NEW order, IsFiniteSet(S), StrictOrder(S, order), NEW x \in S
  PROVE  /\ IsFiniteSet(Earlier(x, S, order))
         /\ Cardinality(Earlier(x, S, order)) \in 0 .. Cardinality(S) - 1
         /\ \A y \in S : <<x, y>> \in order =>
              Cardinality(Earlier(x, S, order)) < Cardinality(Earlier(y, S, order))
<1>1. ASSUME NEW T \in SUBSET S, NEW U \in SUBSET T, NEW z \in T \ U
      PROVE  /\ IsFiniteSet(U) /\ Cardinality(U) \in Nat /\ Cardinality(T) \in Nat
             /\ Cardinality(U) < Cardinality(T)
  <2>1. IsFiniteSet(T)
    BY FS_Subset
  <2>2. /\ IsFiniteSet(U) /\ Cardinality(U) <= Cardinality(T)
        /\ Cardinality(T) = Cardinality(U) => T = U
    BY <2>1, FS_Subset
  <2>3. Cardinality(U) \in Nat /\ Cardinality(T) \in Nat
    BY <2>1, <2>2, FS_CardinalityType
  <2> QED
    BY <1>1, <2>2, <2>3
<1> DEFINE E(y) == Earlier(y, S, order)
<1>2. E(x) \in SUBSET S /\ x \in S \ E(x)
  BY DEF Earlier, StrictOrder
<1>3. IsFiniteSet(E(x)) /\ Cardinality(E(x)) \in 0 .. Cardinality(S) - 1
  <2> DEFINE U == E(x)
  <2> HIDE DEF U
  <2>1. U \in SUBSET S /\ x \in S \ U
    BY <1>2 DEF U
  <2>2. /\ IsFiniteSet(U) /\ Cardinality(U) \in Nat /\ Cardinality(S) \in Nat
        /\ Cardinality(U) < Cardinality(S)
    BY <1>1, <2>1
  <2> QED
    BY <2>2 DEF U
<1>4. ASSUME NEW y \in S, <<x, y>> \in order
      PROVE  Cardinality(E(x)) < Cardinality(E(y))
  <2> DEFINE U == E(x)
             T == E(y)
  <2>1. T \in SUBSET S /\ U \in SUBSET T /\ x \in T \ U
    BY <1>2, <1>4 DEF Earlier, StrictOrder
  <2> HIDE DEF U, T
  <2>2. Cardinality(U) < Cardinality(T)
    BY <1>1, <2>1
  <2> QED
    BY <2>2 DEF U, T
<1> QED
  BY <1>3, <1>4

\* Members with as many members before them are the same.
LEMMA EarlierDistinct ==
  ASSUME NEW S, NEW order, IsFiniteSet(S), StrictOrder(S, order),
         NEW x \in S, NEW y \in S,
         Cardinality(Earlier(x, S, order)) = Cardinality(Earlier(y, S, order))
  PROVE  x = y
<1>1. /\ Cardinality(Earlier(x, S, order)) \in 0 .. Cardinality(S) - 1
      /\ Cardinality(Earlier(y, S, order)) \in 0 .. Cardinality(S) - 1
      /\ <<x, y>> \in order =>
           Cardinality(Earlier(x, S, order)) < Cardinality(Earlier(y, S, order))
      /\ <<y, x>> \in order =>
           Cardinality(Earlier(y, S, order)) < Cardinality(Earlier(x, S, order))
  BY EarlierGrows
<1>2. x = y \/ <<x, y>> \in order \/ <<y, x>> \in order
  BY DEF StrictOrder
<1> QED
  BY <1>1, <1>2

\* InOrder lists the members of a finite set in order.
LEMMA InOrderLists ==
  ASSUME NEW S, NEW order, IsFiniteSet(S), StrictOrder(S, order)
  PROVE  Lists(InOrder(S, order), S, order)
<1> DEFINE n == Cardinality(S)
           s == InOrder(S, order)
           rank == [x \in S |-> Cardinality(Earlier(x, S, order)) + 1]
<1>1. n \in Nat
  BY FS_CardinalityType
<1>2. \A x \in S : Cardinality(Earlier(x, S, order)) \in 0 .. n - 1
  BY EarlierGrows
<1>3. rank \in [S -> 1 .. n]
  BY <1>1, <1>2
<1>4. rank \in Injection(S, 1 .. n)
  <2>1. \A x, y \in S : rank[x] = rank[y] => x = y
    <3> TAKE x, y \in S
    <3> HAVE rank[x] = rank[y]
    <3>1. Cardinality(Earlier(x, S, order)) = Cardinality(Earlier(y, S, order))
      BY <1>1, <1>2
    <3> QED
      BY <3>1, EarlierDistinct
  <2> HIDE DEF rank
  <2> QED
    BY <1>3, <2>1 DEF Injection, IsInjective
<1>5. rank \in Surjection(S, 1 .. n)
  <2>1. IsFiniteSet(1 .. n) /\ Cardinality(1 .. n) = n
    BY <1>1, FS_Interval
  <2> HIDE DEF rank
  <2> QED
    BY <1>4, <2>1, FS_Injection
<1>6. \A i \in 1 .. n : \E x \in S : Cardinality(Earlier(x, S, order)) = i - 1
  <2> TAKE i \in 1 .. n
  <2>1. PICK x \in S : rank[x] = i
    BY <1>5 DEF Surjection
  <2> QED
    BY <1>1, <1>2, <2>1
<1>7. /\ DOMAIN s = 1 .. n
      /\ \A i \in 1 .. n : s[i] = CHOOSE x \in S : Cardinality(Earlier(x, S, order)) = i - 1
  BY DEF InOrder, Earlier
<1>8. \A i \in 1 .. n : s[i] \in S /\ Cardinality(Earlier(s[i], S, order)) = i - 1
  BY <1>6, <1>7
<1>9. s \in [1 .. n -> S]
  BY <1>7, <1>8 DEF InOrder
<1>10. ASSUME NEW x \in S PROVE \E i \in 1 .. n : s[i] = x
  <2> DEFINE i == rank[x]
  <2>1. i \in 1 .. n /\ i - 1 = Cardinality(Earlier(x, S, order))
    BY <1>1, <1>2
  <2> HIDE DEF i
  <2>2. s[i] \in S /\ Cardinality(Earlier(s[i], S, order)) = Cardinality(Earlier(x, S, order))
    BY <1>8, <2>1
  <2> HIDE DEF s
  <2>3. s[i] = x
    BY <2>2, EarlierDistinct
  <2> QED
    BY <2>1, <2>3
<1>11. ASSUME NEW i \in 1 .. n, NEW j \in 1 .. n, i < j
       PROVE  <<s[i], s[j]>> \in order
  <2>1. /\ s[i] \in S /\ Cardinality(Earlier(s[i], S, order)) = i - 1
        /\ s[j] \in S /\ Cardinality(Earlier(s[j], S, order)) = j - 1
    BY <1>8
  <2> HIDE DEF s
  <2>2. s[i] # s[j]
    BY <1>11, <2>1
  <2>3. <<s[j], s[i]>> \in order =>
          Cardinality(Earlier(s[j], S, order)) < Cardinality(Earlier(s[i], S, order))
    BY <2>1, EarlierGrows
  <2>4. <<s[i], s[j]>> \in order \/ <<s[j], s[i]>> \in order
    BY <2>1, <2>2 DEF StrictOrder
  <2> QED
    BY <1>11, <2>1, <2>3, <2>4
<1> HIDE DEF s
<1> QED
  BY <1>9, <1>10, <1>11 DEF Lists, s

\* ... and nothing else does.
LEMMA ListsOnce ==
  ASSUME NEW S, NEW order, IsFiniteSet(S), StrictOrder(S, order),
         NEW s, Lists(s, S, order)
  PROVE  s = InOrder(S, order)
<1> DEFINE n == Cardinality(S)
           t == InOrder(S, order)
<1>1. n \in Nat
  BY FS_CardinalityType
<1>2. Lists(t, S, order)
  BY InOrderLists
<1>3. ASSUME NEW f, Lists(f, S, order), NEW i \in 1 .. n
      PROVE  Cardinality(Earlier(f[i], S, order)) = i - 1
  <2> DEFINE T == Earlier(f[i], S, order)
             g == [j \in 1 .. i - 1 |-> f[j]]
  <2>1. /\ f \in [1 .. n -> S]
        /\ \A x \in S : \E j \in 1 .. n : f[j] = x
        /\ \A j, k \in 1 .. n : j < k => <<f[j], f[k]>> \in order
    BY <1>3 DEF Lists
  <2>2. 1 .. i - 1 \subseteq 1 .. n /\ \A j \in 1 .. i - 1 : j < i
    BY <1>1
  <2>3. g \in [1 .. i - 1 -> T]
    BY <2>1, <2>2 DEF Earlier
  <2>4. \A j, k \in 1 .. i - 1 : g[j] = g[k] => j = k
    <3> TAKE j, k \in 1 .. i - 1
    <3>1. \A a, b \in 1 .. n : a < b => f[a] # f[b]
      BY <2>1 DEF StrictOrder
    <3> QED
      BY <2>2, <3>1
  <2>5. \A y \in T : \E j \in 1 .. i - 1 : g[j] = y
    <3> TAKE y \in T
    <3>1. y \in S /\ <<y, f[i]>> \in order /\ f[i] \in S
      BY <2>1 DEF Earlier
    <3>2. PICK j \in 1 .. n : f[j] = y
      BY <2>1, <3>1
    <3>3. ~ (j >= i)
      <4>1. <<y, y>> \notin order
        BY <3>1 DEF StrictOrder
      <4>2. j # i
        BY <3>1, <3>2, <4>1
      <4>3. ~ (i < j)
        <5> SUFFICES ASSUME i < j PROVE FALSE
          OBVIOUS
        <5>1. <<f[i], y>> \in order
          BY <2>1, <3>2
        <5> QED
          BY <3>1, <4>1, <5>1 DEF StrictOrder
      <4> QED
        BY <4>2, <4>3
    <3> QED
      BY <3>2, <3>3
  <2> HIDE DEF g, T
  <2>6. g \in Bijection(1 .. i - 1, T)
    BY <2>3, <2>4, <2>5 DEF Bijection, Injection, Surjection, IsInjective
  <2>7. ExistsBijection(1 .. i - 1, T)
    BY <2>6 DEF ExistsBijection
  <2>8. IsFiniteSet(1 .. i - 1) /\ Cardinality(1 .. i - 1) = i - 1
    <3> DEFINE m == i - 1
    <3>1. m \in Int /\ 1 \in Int /\ m \in Nat
      BY <1>1
    <3> HIDE DEF m
    <3>2. IsFiniteSet(1 .. m) /\ Cardinality(1 .. m) = IF 1 > m THEN 0 ELSE m - 1 + 1
      BY <3>1, FS_Interval
    <3> QED
      BY <3>1, <3>2 DEF m
  <2> QED
    BY <2>7, <2>8, FS_Bijection DEF T
<1> HIDE DEF t
<1>4. ASSUME NEW i \in 1 .. n PROVE s[i] = t[i]
  <2>1. /\ Cardinality(Earlier(s[i], S, order)) = i - 1
        /\ Cardinality(Earlier(t[i], S, order)) = i - 1
    BY <1>2, <1>3
  <2>2. s[i] \in S /\ t[i] \in S
    BY <1>2 DEF Lists
  <2> QED
    BY <2>1, <2>2, EarlierDistinct
<1>5. s \in [1 .. n -> S] /\ t \in [1 .. n -> S]
  BY <1>2 DEF Lists
<1>6. s = t
  <2> HIDE DEF n
  <2>1. s = [i \in 1 .. n |-> s[i]] /\ t = [i \in 1 .. n |-> t[i]]
    BY <1>5
  <2> QED
    BY <1>4, <2>1
<1> QED
  BY <1>6 DEF t

\* s lists the positions 1 .. n, each once, by key, and those of one key in their order.
ListsByKey(s, n, keys) ==
  /\ s \in [1 .. n -> 1 .. n]
  /\ \A i \in 1 .. n : \E k \in 1 .. n : s[k] = i
  /\ \A k, l \in 1 .. n : k < l => \/ keys[s[k]] < keys[s[l]]
                                   \/ keys[s[k]] = keys[s[l]] /\ s[k] < s[l]

\* A stable sort by key does.
LEMMA SortListsKeys ==
  ASSUME NEW n \in Nat, NEW keys, DOMAIN keys = 1 .. n, \A i \in 1 .. n : keys[i] \in Int
  PROVE  ListsByKey(SortedByKey(keys), n, keys)
<1> DEFINE S == 1 .. n
           R == ByKey(S, keys)
           order == SortedByKey(keys)
           Before(i, j) == \/ keys[i] < keys[j]
                           \/ keys[i] = keys[j] /\ i < j
<1>1. /\ \A i \in S : ~ Before(i, i)
      /\ \A i, j, k \in S : Before(i, j) /\ Before(j, k) => Before(i, k)
      /\ \A i, j \in S : i = j \/ Before(i, j) \/ Before(j, i)
  OBVIOUS
<1>2. \A i, j \in S : <<i, j>> \in R <=> Before(i, j)
  <2> HIDE DEF S
  <2> QED
    BY DEF ByKey
<1>3. IsFiniteSet(S) /\ Cardinality(S) = n
  BY FS_Interval
<1>4. DOMAIN keys = S
  OBVIOUS
<1> HIDE DEF S, R
<1>5. order = InOrder(S, R)
  BY <1>4, Zenon DEF SortedByKey, R
<1> HIDE DEF order
<1>6. StrictOrder(S, R)
  <2> HIDE DEF Before
  <2>1. \A i \in S : <<i, i>> \notin R
    BY <1>1, <1>2
  <2>2. \A i, j, k \in S : <<i, j>> \in R /\ <<j, k>> \in R => <<i, k>> \in R
    BY <1>1, <1>2
  <2>3. \A i, j \in S : i = j \/ <<i, j>> \in R \/ <<j, i>> \in R
    BY <1>1, <1>2
  <2> QED
    BY <2>1, <2>2, <2>3 DEF StrictOrder
<1>7. Lists(order, S, R)
  BY <1>3, <1>5, <1>6, InOrderLists
<1>8. /\ order \in [S -> S] /\ \A i \in S : \E k \in S : order[k] = i
      /\ \A k, l \in S : k < l => <<order[k], order[l]>> \in R
  BY <1>3, <1>7 DEF Lists, S
<1>9. \A k, l \in S : k < l => Before(order[k], order[l])
  <2> HIDE DEF Before
  <2> QED
    BY <1>2, <1>8
<1>10. ListsByKey(order, n, keys)
  BY <1>8, <1>9 DEF ListsByKey, S
<1> QED
  BY <1>10 DEF order

-----------------------------------------------------------------------------
(* The block manager *)

\* The counter and the map add up to the pool, and every share is a number.
Balanced(k) ==
  /\ k.free_blocks \in Nat
  /\ DOMAIN k.allocated \subseteq RequestId
  /\ \A r \in DOMAIN k.allocated : k.allocated[r] \in Nat
  /\ k.free_blocks + Total(DOMAIN k.allocated, k.allocated) = TotalBlocks

\* The holders of a balanced manager are finitely many.
LEMMA HoldersFinite ==
  ASSUME NEW k, Balanced(k)
  PROVE  IsFiniteSet(DOMAIN k.allocated)
BY KvAssumption, FS_Subset DEF Balanced

\* What a request holds is a number of blocks.
LEMMA HeldType ==
  ASSUME NEW k, Balanced(k), NEW r
  PROVE  Held(k, r) \in Nat
BY DEF Balanced, Held

\* The blocks for n tokens hold n tokens.
LEMMA BlocksForHolds ==
  ASSUME NEW n \in Nat
  PROVE  BlocksFor(n) \in Nat /\ n <= BlocksFor(n) * BlockSize
BY KvAssumption, CeilDivHolds DEF BlocksFor

\* Blocks for more tokens are not fewer.
LEMMA BlocksForGrow ==
  ASSUME NEW m \in Nat, NEW n \in Nat, m <= n
  PROVE  BlocksFor(m) <= BlocksFor(n)
<1> DEFINE d == BlockSize
           k == BlocksFor(m)
           q == BlocksFor(n)
<1>1. d \in Nat \ {0} /\ k \in Nat /\ q \in Nat /\ n <= q * d
  BY BlocksForHolds, KvAssumption
<1>2. k * d <= m + d - 1
  <2> DEFINE x == m + d - 1
  <2>1. x \in Nat /\ k = x \div d
    BY <1>1 DEF BlocksFor, CeilDiv
  <2>2. x = d * (x \div d) + (x % d) /\ x % d \in Nat
    BY <1>1, <2>1, SMT
  <2> HIDE DEF x, k
  <2>3. x = d * k + (x % d)
    BY <2>1, <2>2
  <2>4. d * k \in Nat /\ d * k = k * d
    BY <1>1
  <2> QED
    BY <2>1, <2>2, <2>3, <2>4 DEF x
<1> HIDE DEF k, q
<1>3. SUFFICES ASSUME q + 1 <= k PROVE FALSE
  BY <1>1 DEF k, q
<1>4. (q + 1) * d <= k * d
  BY <1>1, <1>3, ProductGrows
<1>5. (q + 1) * d = q * d + d
  BY <1>1
<1>6. q * d \in Nat /\ k * d \in Nat
  BY <1>1
<1> QED
  BY <1>1, <1>2, <1>4, <1>5, <1>6

\* No part of a balanced manager exceeds the pool.
LEMMA WithinPool ==
  ASSUME NEW k, Balanced(k)
  PROVE  /\ k.free_blocks \in 0 .. TotalBlocks
         /\ \A r \in DOMAIN k.allocated : k.allocated[r] \in 0 .. TotalBlocks
<1> DEFINE D == DOMAIN k.allocated
           f == k.allocated
<1>1. IsFiniteSet(D)
  BY HoldersFinite
<1>2. Total(D, f) \in Nat
  BY <1>1, TotalType DEF Balanced
<1>3. k.free_blocks \in Nat /\ k.free_blocks + Total(D, f) = TotalBlocks
  BY DEF Balanced
<1>4. ASSUME NEW r \in D
      PROVE  f[r] \in 0 .. TotalBlocks
  <2>1. Total(D, f) = Total(D \ {r}, f) + f[r]
    BY <1>1, TotalRemove DEF Balanced
  <2>2. Total(D \ {r}, f) \in Nat
    BY <1>1, FS_Difference, TotalType DEF Balanced
  <2>3. f[r] \in Nat
    BY DEF Balanced
  <2> HIDE DEF D, f
  <2> QED
    BY <1>3, <2>1, <2>2, <2>3, KvAssumption
<1>5. k.free_blocks \in 0 .. TotalBlocks
  <2> HIDE DEF D, f
  <2> QED
    BY <1>2, <1>3, KvAssumption
<1> QED
  BY <1>4, <1>5

-----------------------------------------------------------------------------
\* A fresh manager is balanced.
LEMMA NewBalanced == Balanced(NewKvCache)
<1>1. DOMAIN Empty = {}
  BY DEF Empty
<1>2. Total({}, Empty) = 0
  BY TotalEmpty
<1> QED
  BY <1>1, <1>2, KvAssumption DEF NewKvCache, Balanced

\* Taking blocks that are free leaves the manager balanced.
LEMMA TakeBalanced ==
  ASSUME NEW k, Balanced(k), NEW r \in RequestId,
         NEW n \in Nat, n <= k.free_blocks
  PROVE  /\ Balanced(Take(k, r, n))
         /\ DOMAIN Take(k, r, n).allocated = DOMAIN k.allocated \cup {r}
         /\ Take(k, r, n).allocated[r] = Held(k, r) + n
         /\ \A q \in DOMAIN k.allocated \ {r} :
              Take(k, r, n).allocated[q] = k.allocated[q]
<1> DEFINE D == DOMAIN k.allocated
           f == k.allocated
           v == Held(k, r) + n
           g == With(f, r, v)
<1>1. /\ Take(k, r, n).free_blocks = k.free_blocks - n
      /\ Take(k, r, n).allocated = g
  BY DEF Take
<1>2. /\ DOMAIN g = D \cup {r}
      /\ g[r] = v
      /\ \A q \in D \ {r} : g[q] = f[q]
  BY DEF With
<1>3. IsFiniteSet(D) /\ Held(k, r) \in Nat
  BY HoldersFinite, HeldType
<1>4. Total(DOMAIN g, g) = Total(D \ {r}, f) + v
  BY <1>3, TotalWith DEF Balanced
<1>5. Total(D, f) = Total(D \ {r}, f) + Held(k, r)
  <2>1. CASE r \in D
    BY <1>3, <2>1, TotalRemove DEF Balanced, Held
  <2>2. CASE r \notin D
    <3>1. D \ {r} = D /\ Held(k, r) = 0
      BY <2>2 DEF Held
    <3>2. Total(D, f) \in Nat
      BY <1>3, TotalType DEF Balanced
    <3> QED
      BY <3>1, <3>2
  <2> QED
    BY <2>1, <2>2
<1>6. Total(D \ {r}, f) \in Nat
  BY <1>3, FS_Difference, TotalType DEF Balanced
<1>7. /\ k.free_blocks \in Nat
      /\ k.free_blocks + Total(D, f) = TotalBlocks
  BY DEF Balanced
<1>8. (k.free_blocks - n) + Total(DOMAIN g, g) = TotalBlocks
  <2> HIDE DEF D, f, g
  <2> QED
    BY <1>3, <1>4, <1>5, <1>6, <1>7
<1>9. \A q \in DOMAIN g : g[q] \in Nat
  BY <1>2, <1>3 DEF Balanced
<1>10. k.free_blocks - n \in Nat
  BY <1>7
<1>11. DOMAIN g \subseteq RequestId
  BY <1>2 DEF Balanced
<1> QED
  BY <1>1, <1>2, <1>8, <1>9, <1>10, <1>11 DEF Balanced

\* Releasing a set of requests gives every block of theirs back.
LEMMA FreeBalanced ==
  ASSUME NEW k, Balanced(k), NEW S
  PROVE  /\ Balanced(Free(k, S))
         /\ DOMAIN Free(k, S).allocated = DOMAIN k.allocated \ S
         /\ \A q \in DOMAIN k.allocated \ S :
              Free(k, S).allocated[q] = k.allocated[q]
<1> DEFINE D == DOMAIN k.allocated
           f == k.allocated
           held == S \cap D
           rest == D \ S
           g == [q \in rest |-> f[q]]
<1>1. /\ Free(k, S).free_blocks = k.free_blocks + Total(held, f)
      /\ Free(k, S).allocated = g
  BY DEF Free
<1>2. IsFiniteSet(D) /\ rest = D \ held /\ held \subseteq D
  BY HoldersFinite
<1>3. /\ Total(D, f) = Total(rest, f) + Total(held, f)
      /\ IsFiniteSet(held) /\ IsFiniteSet(rest)
  <2>1. \A q \in D : f[q] \in Nat
    BY DEF Balanced
  <2> HIDE DEF D, f, held, rest
  <2> QED
    BY <1>2, <2>1, TotalWithin
<1>4. Total(rest, g) = Total(rest, f)
  BY TotalSame
<1>5. Total(held, f) \in Nat /\ Total(rest, f) \in Nat
  BY <1>3, TotalType DEF Balanced
<1>6. /\ k.free_blocks \in Nat
      /\ k.free_blocks + Total(D, f) = TotalBlocks
  BY DEF Balanced
<1>7. (k.free_blocks + Total(held, f)) + Total(rest, g) = TotalBlocks
  <2> HIDE DEF D, f, g, held, rest
  <2> QED
    BY <1>3, <1>4, <1>5, <1>6
<1>8. k.free_blocks + Total(held, f) \in Nat
  BY <1>5, <1>6
<1> QED
  BY <1>1, <1>7, <1>8 DEF Balanced

\* allocate and grow take only what is free, so they keep the balance whether
\* they grant or refuse.
LEMMA AllocateBalanced ==
  ASSUME NEW k, Balanced(k), NEW r \in RequestId, NEW n \in Nat
  PROVE  Balanced(Allocate(k, r, n))
BY BlocksForHolds, TakeBalanced DEF Allocate, CanFit

\* The blocks that grow asks for are enough for the tokens held and the new ones.
LEMMA GrowthBlocksHold ==
  ASSUME NEW k, Balanced(k), NEW r, NEW n \in Nat
  PROVE  /\ GrowthBlocks(k, r, n) \in Nat
         /\ Held(k, r) * BlockSize + n
              <= (Held(k, r) + GrowthBlocks(k, r, n)) * BlockSize
<1> DEFINE h == Held(k, r)
           b == BlocksFor(h * BlockSize + n)
           e == SatSub(b, h)
<1>1. h \in Nat /\ BlockSize \in Nat
  BY HeldType, KvAssumption
<1>2. h * BlockSize + n \in Nat
  <2> HIDE DEF h
  <2> QED BY <1>1
<1>3. b \in Nat /\ h * BlockSize + n <= b * BlockSize
  BY <1>2, BlocksForHolds
<1>4. e \in Nat /\ b <= e + h
  BY <1>1, <1>3, SatSubHolds
<1>5. b * BlockSize <= (h + e) * BlockSize
  <2> HIDE DEF h, b, e
  <2>1. PICK d \in Nat : h + e = b + d
    <3>1. h + e - b \in Nat /\ h + e = b + (h + e - b)
      BY <1>1, <1>3, <1>4
    <3> QED BY <3>1
  <2>2. (b + d) * BlockSize = b * BlockSize + d * BlockSize
    BY <1>1, <1>3
  <2>3. d * BlockSize \in Nat /\ b * BlockSize \in Nat
    BY <1>1, <1>3
  <2>4. b * BlockSize <= (b + d) * BlockSize
    BY <2>2, <2>3
  <2> QED BY <2>1, <2>4
<1>6. /\ h * BlockSize \in Nat /\ b * BlockSize \in Nat
      /\ (h + e) * BlockSize \in Nat
  <2> HIDE DEF h, b, e
  <2> QED BY <1>1, <1>3, <1>4
<1>7. h * BlockSize + n <= (h + e) * BlockSize
  <2> HIDE DEF h, b, e
  <2> QED BY <1>3, <1>5, <1>6
<1> QED
  BY <1>4, <1>7 DEF GrowthBlocks

\* grow leaves the manager balanced, granted or refused.
LEMMA GrowBalanced ==
  ASSUME NEW k, Balanced(k), NEW r \in RequestId, NEW n \in Nat
  PROVE  Balanced(Grow(k, r, n))
BY GrowthBlocksHold, TakeBalanced DEF Grow

-----------------------------------------------------------------------------
(* Pushing to a queue of events, and popping from it *)

\* Events that carry a request of R, of the kinds in K.
Events(R, K) == [time : Nat, req : R, chunk : Nat, kind : K]

\* The positions of q with an event whose kind and request are a pair of P,
\* and their number.
Matching(q, P) == {i \in DOMAIN q : <<q[i].kind, q[i].req>> \in P}
Count(q, P) == Cardinality(Matching(q, P))

Matches(e, P) == <<e.kind, e.req>> \in P

\* A sequence is a function on an interval, and the other way round.
LEMMA SequenceShape ==
  ASSUME NEW S, NEW n \in Nat, NEW q \in [1 .. n -> S]
  PROVE  q \in Seq(S) /\ Len(q) = n
<1>1. q \in Seq(S)
  BY SeqDef
<1>2. Len(q) \in Nat /\ DOMAIN q = 1 .. Len(q) /\ DOMAIN q = 1 .. n
  BY <1>1, LenProperties
<1> QED
  BY <1>1, <1>2

\* The positions that match are finitely many.
LEMMA MatchingFinite ==
  ASSUME NEW S, NEW q \in Seq(S), NEW P
  PROVE  /\ Matching(q, P) \subseteq 1 .. Len(q)
         /\ IsFiniteSet(Matching(q, P))
         /\ Count(q, P) \in Nat
<1>1. Matching(q, P) \subseteq 1 .. Len(q)
  BY LenProperties DEF Matching
<1>2. IsFiniteSet(1 .. Len(q))
  BY LenProperties, FS_Interval
<1> QED
  BY <1>1, <1>2, FS_Subset, FS_CardinalityType DEF Count

\* DueBy counts positions of the queue.
LEMMA DueByType ==
  ASSUME NEW S, NEW q \in Seq(S), NEW t
  PROVE  DueBy(q, t) \in 0 .. Len(q)
<1> DEFINE D == {i \in DOMAIN q : q[i].time <= t}
<1>1. D \subseteq 1 .. Len(q) /\ Len(q) \in Nat
  BY LenProperties
<1>2. IsFiniteSet(1 .. Len(q)) /\ Cardinality(1 .. Len(q)) = Len(q)
  <2> HIDE DEF D
  <2> DEFINE n == Len(q)
  <2>1. n \in Nat /\ 1 \in Int /\ n \in Int
    BY <1>1
  <2> HIDE DEF n
  <2>2. /\ IsFiniteSet(1 .. n)
        /\ Cardinality(1 .. n) = IF 1 > n THEN 0 ELSE n - 1 + 1
    BY <2>1, FS_Interval
  <2>3. (IF 1 > n THEN 0 ELSE n - 1 + 1) = n
    BY <2>1
  <2> QED
    BY <2>2, <2>3 DEF n
<1>3. IsFiniteSet(D) /\ Cardinality(D) <= Cardinality(1 .. Len(q))
  <2> HIDE DEF D
  <2> QED
    BY <1>1, <1>2, FS_Subset
<1>4. Cardinality(D) \in Nat
  BY <1>3, FS_CardinalityType
<1>5. DueBy(q, t) = Cardinality(D)
  BY DEF DueBy
<1> HIDE DEF D
<1> QED
  BY <1>1, <1>2, <1>3, <1>4, <1>5

\* The times of a queue of events are numbers.
LEMMA EventTimes ==
  ASSUME NEW R, NEW K, NEW q \in Seq(Events(R, K))
  PROVE  /\ DOMAIN q = 1 .. Len(q) /\ Len(q) \in Nat
         /\ \A i \in DOMAIN q : q[i] \in Events(R, K) /\ q[i].time \in Nat
<1>1. DOMAIN q = 1 .. Len(q) /\ Len(q) \in Nat
  BY LenProperties
<1>2. \A i \in DOMAIN q : q[i] \in Events(R, K)
  BY <1>1, ElementOfSeq
<1> QED
  BY <1>1, <1>2 DEF Events

\* In an ordered queue, what is due by t is a prefix of the queue.
LEMMA DuePrefix ==
  ASSUME NEW q, NEW n \in Nat, DOMAIN q = 1 .. n, \A i \in 1 .. n : q[i].time \in Nat,
         Ordered(q), NEW t \in Nat
  PROVE  /\ {i \in DOMAIN q : q[i].time <= t} = 1 .. DueBy(q, t)
         /\ DueBy(q, t) \in 0 .. n
<1> DEFINE D == {i \in DOMAIN q : q[i].time <= t}
           k == DueBy(q, t)
<1>1. IsFiniteSet(D) /\ k \in 0 .. n /\ k = Cardinality(D)
  <2>1. D \in SUBSET (1 .. n) /\ k = Cardinality(D)
    BY DEF DueBy
  <2> HIDE DEF D, k
  <2>2. IsFiniteSet(1 .. n) /\ Cardinality(1 .. n) = n
    BY FS_Interval
  <2>3. IsFiniteSet(D) /\ Cardinality(D) <= Cardinality(1 .. n)
    BY <2>1, <2>2, FS_Subset
  <2>4. Cardinality(D) \in Nat
    BY <2>3, FS_CardinalityType
  <2> QED
    BY <2>1, <2>2, <2>3, <2>4
<1>2. ASSUME NEW i \in D
      PROVE  i <= k
  <2>1. 1 .. i \subseteq D
    <3> SUFFICES ASSUME NEW j \in 1 .. i PROVE j \in D
      OBVIOUS
    <3>1. i \in 1 .. n /\ q[i].time <= t
      BY DOMAIN q = 1 .. n
    <3> HIDE DEF D
    <3>2. j \in 1 .. n /\ j <= i
      BY <3>1
    <3>3. q[j].time <= q[i].time /\ q[j].time \in Nat /\ q[i].time \in Nat
      BY <3>1, <3>2 DEF Ordered
    <3>4. q[j].time <= t
      BY <3>1, <3>3
    <3> QED
      BY <3>2, <3>4 DEF D
  <2>2. i \in Nat
    BY DOMAIN q = 1 .. n
  <2> HIDE DEF D
  <2>3. Cardinality(1 .. i) = i
    <3> DEFINE m == i
    <3>1. m \in Nat
      BY <2>2
    <3> HIDE DEF m
    <3>2. Cardinality(1 .. m) = m
      BY <3>1, FS_Interval
    <3> QED
      BY <3>2 DEF m
  <2>4. Cardinality(1 .. i) <= Cardinality(D)
    BY <1>1, <2>1, FS_Subset
  <2> HIDE DEF k
  <2> QED
    BY <1>1, <2>3, <2>4
<1>3. D \subseteq 1 .. k
  BY <1>1, <1>2
<1>4. IsFiniteSet(1 .. k) /\ Cardinality(1 .. k) = k
  BY <1>1, FS_Interval
<1>5. D = 1 .. k
  BY <1>1, <1>3, <1>4, FS_Subset
<1> QED
  BY <1>1, <1>5

\* ... also when it is a queue of events.
LEMMA DueByPrefix ==
  ASSUME NEW R, NEW K, NEW q \in Seq(Events(R, K)), Ordered(q), NEW t \in Nat
  PROVE  {i \in DOMAIN q : q[i].time <= t} = 1 .. DueBy(q, t)
<1>1. /\ Len(q) \in Nat /\ DOMAIN q = 1 .. Len(q)
      /\ \A i \in 1 .. Len(q) : q[i].time \in Nat
  BY EventTimes
<1> QED
  BY <1>1, DuePrefix

-----------------------------------------------------------------------------
\* A push inserts its event at one position and shifts those behind it.
LEMMA PushShape ==
  ASSUME NEW S, NEW q \in Seq(S), NEW e \in S
  PROVE  /\ Push(q, e) \in Seq(S)
         /\ Len(Push(q, e)) = Len(q) + 1
         /\ DOMAIN Push(q, e) = 1 .. Len(q) + 1
         /\ DueBy(q, e.time) \in 0 .. Len(q)
         /\ \A i \in 1 .. Len(q) + 1 :
              Push(q, e)[i] = IF i <= DueBy(q, e.time) THEN q[i]
                              ELSE IF i = DueBy(q, e.time) + 1 THEN e
                              ELSE q[i - 1]
<1> DEFINE k == DueBy(q, e.time)
           n == Len(q)
           p == Push(q, e)
<1>1. k \in 0 .. n /\ n \in Nat
  BY DueByType, LenProperties
<1>2. \A i \in 1 .. n : q[i] \in S
  BY ElementOfSeq
<1>3. p = [i \in 1 .. n + 1 |-> IF i <= k THEN q[i]
                                ELSE IF i = k + 1 THEN e ELSE q[i - 1]]
  BY DEF Push
<1> HIDE DEF k, n, p
<1>4. p \in [1 .. n + 1 -> S]
  BY <1>1, <1>2, <1>3
<1>5. p \in Seq(S) /\ Len(p) = n + 1
  BY <1>1, <1>4, SequenceShape
<1> QED
  BY <1>1, <1>3, <1>5 DEF k, n, p

\* A push keeps the queue in pop order.
LEMMA PushOrdered ==
  ASSUME NEW R, NEW K, NEW q \in Seq(Events(R, K)), Ordered(q),
         NEW e \in Events(R, K)
  PROVE  Push(q, e) \in Seq(Events(R, K)) /\ Ordered(Push(q, e))
<1> DEFINE k == DueBy(q, e.time)
           n == Len(q)
           p == Push(q, e)
<1>1. /\ p \in Seq(Events(R, K))
      /\ DOMAIN p = 1 .. n + 1
      /\ k \in 0 .. n
      /\ \A i \in 1 .. n + 1 : p[i] = IF i <= k THEN q[i]
                                      ELSE IF i = k + 1 THEN e ELSE q[i - 1]
  BY PushShape
<1>2. /\ n \in Nat /\ DOMAIN q = 1 .. n
      /\ \A i \in 1 .. n : q[i].time \in Nat
      /\ e.time \in Nat
  <2>1. e.time \in Nat
    BY DEF Events
  <2> QED
    BY <2>1, EventTimes
<1>3. \A i \in 1 .. n : q[i].time <= e.time <=> i <= k
  BY <1>1, <1>2, DueByPrefix
<1>4. \A i, j \in 1 .. n : i <= j => q[i].time <= q[j].time
  BY <1>2 DEF Ordered
<1> HIDE DEF k, n, p
<1>5. ASSUME NEW i \in 1 .. n + 1, NEW j \in 1 .. n + 1, i <= j
      PROVE  p[i].time <= p[j].time
  <2>1. CASE j <= k
    BY <1>1, <1>2, <1>4, <1>5, <2>1
  <2>2. CASE j = k + 1
    BY <1>1, <1>2, <1>3, <1>5, <2>2
  <2>3. CASE j > k + 1
    <3>1. p[j] = q[j - 1] /\ j - 1 \in 1 .. n
      BY <1>1, <1>2, <2>3
    <3>2. CASE i <= k
      BY <1>1, <1>2, <1>4, <1>5, <2>3, <3>1, <3>2
    <3>3. CASE i = k + 1
      <4>1. e.time <= q[j - 1].time
        BY <1>1, <1>2, <1>3, <2>3, <3>1
      <4> QED
        BY <1>1, <3>1, <3>3, <4>1
    <3>4. CASE i > k + 1
      BY <1>1, <1>2, <1>4, <1>5, <2>3, <3>1, <3>4
    <3> QED
      BY <1>1, <1>2, <3>2, <3>3, <3>4
  <2> QED
    BY <1>1, <1>2, <2>1, <2>2, <2>3
<1> QED
  BY <1>1, <1>5 DEF Ordered, p

\* A push adds one to the events of its own kind and request and nothing else.
LEMMA PushCount ==
  ASSUME NEW S, NEW q \in Seq(S), NEW e \in S, NEW P
  PROVE  Count(Push(q, e), P) = Count(q, P) + IF Matches(e, P) THEN 1 ELSE 0
<1> DEFINE k == DueBy(q, e.time)
           n == Len(q)
           p == Push(q, e)
           M == Matching(q, P)
           shift == [i \in M |-> IF i <= k THEN i ELSE i + 1]
           N == {i \in Matching(p, P) : i # k + 1}
<1>1. /\ p \in Seq(S)
      /\ DOMAIN p = 1 .. n + 1
      /\ k \in 0 .. n
      /\ \A i \in 1 .. n + 1 : p[i] = IF i <= k THEN q[i]
                                      ELSE IF i = k + 1 THEN e ELSE q[i - 1]
  <2> HIDE DEF M, shift, N
  <2>1. p \in Seq(S)
    BY PushShape
  <2>2. DOMAIN p = 1 .. n + 1
    BY PushShape
  <2>3. k \in 0 .. n
    BY PushShape
  <2>4. \A i \in 1 .. n + 1 : p[i] = IF i <= k THEN q[i]
                                      ELSE IF i = k + 1 THEN e ELSE q[i - 1]
    BY PushShape
  <2> QED
    BY <2>1, <2>2, <2>3, <2>4
<1>2. n \in Nat /\ DOMAIN q = 1 .. n
  BY LenProperties
<1>3. /\ IsFiniteSet(M) /\ Count(q, P) = Cardinality(M)
      /\ Count(q, P) \in Nat
      /\ Count(p, P) = Cardinality(Matching(p, P))
  BY MatchingFinite DEF Count
<1>4. /\ \A i \in M : i \in 1 .. n /\ Matches(q[i], P)
      /\ \A i \in 1 .. n : Matches(q[i], P) => i \in M
      /\ \A i \in Matching(p, P) : i \in 1 .. n + 1 /\ Matches(p[i], P)
      /\ \A i \in 1 .. n + 1 : Matches(p[i], P) => i \in Matching(p, P)
  BY <1>1, <1>2 DEF Matching, Matches
<1> HIDE DEF k, n, p, M
<1>5. shift \in Bijection(M, N)
  <2>1. \A i \in M : shift[i] \in N
    <3> SUFFICES ASSUME NEW i \in M PROVE shift[i] \in N
      OBVIOUS
    <3>1. i \in 1 .. n /\ Matches(q[i], P)
      BY <1>4
    <3>2. CASE i <= k
      <4>1. i \in 1 .. n + 1 /\ p[i] = q[i]
        BY <1>1, <1>2, <3>1, <3>2
      <4>2. i \in Matching(p, P)
        BY <1>4, <3>1, <4>1
      <4> QED
        BY <1>1, <3>2, <4>2
    <3>3. CASE i > k
      <4>1. i + 1 \in 1 .. n + 1 /\ p[i + 1] = q[i]
        BY <1>1, <1>2, <3>1, <3>3
      <4>2. i + 1 \in Matching(p, P)
        BY <1>4, <3>1, <4>1
      <4> QED
        BY <1>1, <1>2, <3>1, <3>3, <4>2
    <3> QED
      BY <1>1, <1>2, <3>1, <3>2, <3>3
  <2>2. \A i, j \in M : shift[i] = shift[j] => i = j
    BY <1>1, <1>2, <1>4
  <2>3. \A j \in N : \E i \in M : shift[i] = j
    <3> SUFFICES ASSUME NEW j \in N PROVE \E i \in M : shift[i] = j
      OBVIOUS
    <3>1. CASE j <= k
      <4>1. j \in M /\ shift[j] = j
        BY <1>1, <1>2, <1>4, <3>1
      <4> QED
        BY <4>1
    <3>2. CASE j > k
      <4>1. j - 1 \in 1 .. n /\ p[j] = q[j - 1] /\ ~ (j - 1 <= k)
        BY <1>1, <1>2, <1>4, <3>2
      <4>2. j - 1 \in M /\ shift[j - 1] = j
        BY <1>1, <1>2, <1>4, <4>1
      <4> QED
        BY <4>2
    <3> QED
      BY <1>1, <1>2, <1>4, <3>1, <3>2
  <2> QED
    BY <2>1, <2>2, <2>3 DEF Bijection, Injection, Surjection, IsInjective
<1>6. IsFiniteSet(N) /\ Cardinality(N) = Cardinality(M)
  BY <1>3, <1>5, FS_Bijection DEF ExistsBijection
<1>7. p[k + 1] = e /\ k + 1 \in 1 .. n + 1
  BY <1>1, <1>2
<1>8. CASE Matches(e, P)
  <2>1. Matching(p, P) = N \cup {k + 1} /\ k + 1 \notin N
    BY <1>4, <1>7, <1>8
  <2>2. Cardinality(Matching(p, P)) = Cardinality(N) + 1
    BY <1>6, <2>1, FS_AddElement
  <2> QED
    BY <1>3, <1>6, <1>8, <2>2 DEF p
<1>9. CASE ~ Matches(e, P)
  <2>1. Matching(p, P) = N
    BY <1>4, <1>7, <1>9
  <2>2. Count(p, P) = Count(q, P)
    BY <1>3, <1>6, <2>1, Zenon
  <2> QED
    BY <1>3, <1>9, <2>2 DEF p
<1> QED
  BY <1>8, <1>9

-----------------------------------------------------------------------------
\* Dropping the head, whatever happens to the times, takes one event of the
\* head's kind and request out of the count.
LEMMA ShiftCount ==
  ASSUME NEW S, NEW q \in Seq(S), q # <<>>, NEW P,
         NEW T, NEW p \in Seq(T), Len(p) = Len(q) - 1,
         \A i \in 1 .. Len(q) - 1 :
           p[i].kind = q[i + 1].kind /\ p[i].req = q[i + 1].req
  PROVE  Count(q, P) = Count(p, P) + IF Matches(Head(q), P) THEN 1 ELSE 0
<1> DEFINE n == Len(q)
           M == Matching(p, P)
           N == {i \in Matching(q, P) : i # 1}
           shift == [i \in M |-> i + 1]
<1>1. /\ n \in Nat \ {0} /\ DOMAIN q = 1 .. n
      /\ DOMAIN p = 1 .. n - 1
      /\ Head(q) = q[1]
  BY LenProperties, EmptySeq
<1>2. IsFiniteSet(M) /\ Count(p, P) = Cardinality(M) /\ Count(p, P) \in Nat
  BY MatchingFinite DEF Count
<1>3. /\ \A i \in M : i \in 1 .. n - 1 /\ Matches(q[i + 1], P)
      /\ \A i \in 1 .. n - 1 : Matches(q[i + 1], P) => i \in M
      /\ \A i \in Matching(q, P) : i \in 1 .. n /\ Matches(q[i], P)
      /\ \A i \in 1 .. n : Matches(q[i], P) => i \in Matching(q, P)
  BY <1>1 DEF Matching, Matches
<1> HIDE DEF n, M
<1>4. shift \in Bijection(M, N)
  <2>1. \A i \in M : shift[i] \in N
    <3> SUFFICES ASSUME NEW i \in M PROVE i + 1 \in N
      OBVIOUS
    <3>1. i \in 1 .. n - 1 /\ Matches(q[i + 1], P)
      BY <1>3
    <3>2. i + 1 \in 1 .. n /\ i + 1 # 1
      BY <1>1, <3>1
    <3> QED
      BY <1>3, <3>1, <3>2
  <2>2. \A i, j \in M : shift[i] = shift[j] => i = j
    BY <1>1, <1>3
  <2>3. \A j \in N : \E i \in M : shift[i] = j
    <3> SUFFICES ASSUME NEW j \in N PROVE \E i \in M : shift[i] = j
      OBVIOUS
    <3>1. j \in 1 .. n /\ j # 1 /\ Matches(q[j], P)
      BY <1>3
    <3>2. j - 1 \in 1 .. n - 1 /\ (j - 1) + 1 = j
      BY <1>1, <3>1
    <3>3. j - 1 \in M
      BY <1>3, <3>1, <3>2
    <3> QED
      BY <3>2, <3>3
  <2> QED
    BY <2>1, <2>2, <2>3 DEF Bijection, Injection, Surjection, IsInjective
<1>5. IsFiniteSet(N) /\ Cardinality(N) = Cardinality(M)
  BY <1>2, <1>4, FS_Bijection DEF ExistsBijection
<1>6. 1 \in 1 .. n
  BY <1>1
<1>7. CASE Matches(Head(q), P)
  <2>1. Matching(q, P) = N \cup {1} /\ 1 \notin N
    BY <1>1, <1>3, <1>6, <1>7
  <2>2. Cardinality(Matching(q, P)) = Cardinality(N) + 1
    BY <1>5, <2>1, FS_AddElement
  <2>3. Count(q, P) = Count(p, P) + 1
    BY <1>2, <1>5, <2>2, Zenon DEF Count
  <2> QED
    BY <1>7, <2>3
<1>8. CASE ~ Matches(Head(q), P)
  <2>1. Matching(q, P) = N
    BY <1>1, <1>3, <1>6, <1>8
  <2>2. Count(q, P) = Count(p, P)
    BY <1>2, <1>5, <2>1, Zenon DEF Count
  <2> QED
    BY <1>2, <1>8, <2>2
<1> QED
  BY <1>7, <1>8

\* What is left after a pop is in pop order, has natural times counted from
\* the head's, and the popped event is out of the count.
LEMMA PopEffect ==
  ASSUME NEW R, NEW K, NEW q \in Seq(Events(R, K)), Ordered(q), q # <<>>
  PROVE  /\ AfterPop(q) \in Seq(Events(R, K))
         /\ Ordered(AfterPop(q))
         /\ Head(q) \in Events(R, K)
         /\ \A P : Count(q, P) =
                   Count(AfterPop(q), P) + IF Matches(Head(q), P) THEN 1 ELSE 0
<1> DEFINE n == Len(q)
           t == Head(q).time
           p == AfterPop(q)
<1>1. /\ n \in Nat \ {0} /\ DOMAIN q = 1 .. n
      /\ Head(q) = q[1]
  BY LenProperties, EmptySeq
<1>2. \A i \in 1 .. n : q[i] \in Events(R, K) /\ q[i].time \in Nat
  BY EventTimes
<1>3. \A i, j \in 1 .. n : i <= j => q[i].time <= q[j].time
  BY <1>1 DEF Ordered
<1>4. /\ t \in Nat
      /\ \A i \in 1 .. n : q[i].time - t \in Nat
  BY <1>1, <1>2, <1>3
<1>5. p = [i \in 1 .. n - 1 |-> [q[i + 1] EXCEPT !.time = @ - t]]
  BY DEF AfterPop
<1> HIDE DEF n, t, p
<1>6. ASSUME NEW i \in 1 .. n - 1
      PROVE  /\ p[i] \in Events(R, K)
             /\ p[i].time = q[i + 1].time - t
             /\ p[i].kind = q[i + 1].kind /\ p[i].req = q[i + 1].req
  <2>1. i + 1 \in 1 .. n
    BY <1>1
  <2>2. q[i + 1] \in Events(R, K) /\ q[i + 1].time - t \in Nat
    BY <1>2, <1>4, <2>1
  <2>3. p[i] = [q[i + 1] EXCEPT !.time = @ - t]
    BY <1>5
  <2> QED
    BY <2>2, <2>3 DEF Events
<1>7. p \in Seq(Events(R, K)) /\ Len(p) = n - 1
  <2>1. p \in [1 .. n - 1 -> Events(R, K)] /\ n - 1 \in Nat
    BY <1>1, <1>5, <1>6
  <2> QED
    BY <2>1, SequenceShape
<1>8. Ordered(p)
  <2>1. DOMAIN p = 1 .. n - 1
    BY <1>5
  <2> SUFFICES ASSUME NEW i \in 1 .. n - 1, NEW j \in 1 .. n - 1, i <= j
               PROVE  p[i].time <= p[j].time
    BY <2>1 DEF Ordered
  <2>2. i + 1 \in 1 .. n /\ j + 1 \in 1 .. n /\ i + 1 <= j + 1
    BY <1>1
  <2>3. q[i + 1].time <= q[j + 1].time
    BY <1>3, <2>2
  <2> QED
    BY <1>2, <1>4, <1>6, <2>2, <2>3
<1>9. \A P : Count(q, P) = Count(p, P) + IF Matches(Head(q), P) THEN 1 ELSE 0
  BY <1>6, <1>7, ShiftCount DEF n
<1>10. Head(q) \in Events(R, K)
  BY <1>1, <1>2
<1> QED
  BY <1>7, <1>8, <1>9, <1>10 DEF p

\* So is what is left when the head is dropped and the clock stays.
LEMMA TailEffect ==
  ASSUME NEW R, NEW K, NEW q \in Seq(Events(R, K)), Ordered(q), q # <<>>
  PROVE  /\ Tail(q) \in Seq(Events(R, K))
         /\ Ordered(Tail(q))
         /\ \A P : Count(q, P) =
                   Count(Tail(q), P) + IF Matches(Head(q), P) THEN 1 ELSE 0
<1>1. /\ Tail(q) \in Seq(Events(R, K))
      /\ Len(Tail(q)) = Len(q) - 1
      /\ \A i \in 1 .. Len(q) - 1 : Tail(q)[i] = q[i + 1]
  BY HeadTailProperties
<1>2. Len(q) \in Nat \ {0} /\ DOMAIN q = 1 .. Len(q)
  BY LenProperties, EmptySeq
<1>3. DOMAIN Tail(q) = 1 .. Len(q) - 1
  BY <1>1, LenProperties
<1>4. Ordered(Tail(q))
  <2> SUFFICES ASSUME NEW i \in 1 .. Len(q) - 1, NEW j \in 1 .. Len(q) - 1, i <= j
               PROVE  Tail(q)[i].time <= Tail(q)[j].time
    BY <1>3 DEF Ordered
  <2>1. i + 1 \in DOMAIN q /\ j + 1 \in DOMAIN q /\ i + 1 <= j + 1
    BY <1>2
  <2>2. q[i + 1].time <= q[j + 1].time
    BY <2>1 DEF Ordered
  <2> QED
    BY <1>1, <2>2
<1>5. \A P : Count(q, P) = Count(Tail(q), P) + IF Matches(Head(q), P) THEN 1 ELSE 0
  <2> TAKE P
  <2> DEFINE p == Tail(q)
  <2>1. \A i \in 1 .. Len(q) - 1 : p[i].kind = q[i + 1].kind /\ p[i].req = q[i + 1].req
    BY <1>1
  <2>2. p \in Seq(Events(R, K)) /\ Len(p) = Len(q) - 1
    BY <1>1
  <2> HIDE DEF p
  <2>3. Count(q, P) = Count(p, P) + IF Matches(Head(q), P) THEN 1 ELSE 0
    BY <2>1, <2>2, ShiftCount
  <2> QED
    BY <2>3 DEF p
<1> QED
  BY <1>1, <1>4, <1>5

\* An event of a pair of P is pending as long as the count is not 0.
LEMMA CountPositive ==
  ASSUME NEW S, NEW q \in Seq(S), NEW P
  PROVE  /\ Count(q, P) \in Nat
         /\ Count(q, P) = 0 <=> Matching(q, P) = {}
BY MatchingFinite, FS_EmptySet DEF Count

\* What the events of a queue say, whenever they are due.
Carried(e) == <<e.kind, e.req, e.chunk>>
Carries(q) == {Carried(q[i]) : i \in DOMAIN q}

\* A push adds what its event says.
LEMMA PushCarries ==
  ASSUME NEW S, NEW q \in Seq(S), NEW e \in S
  PROVE  Carries(Push(q, e)) = Carries(q) \cup {Carried(e)}
<1> DEFINE k == DueBy(q, e.time)
           n == Len(q)
           p == Push(q, e)
<1>1. /\ k \in 0 .. n /\ n \in Nat /\ DOMAIN q = 1 .. n
      /\ DOMAIN p = 1 .. n + 1
      /\ \A i \in 1 .. n + 1 : p[i] = IF i <= k THEN q[i]
                                      ELSE IF i = k + 1 THEN e ELSE q[i - 1]
  BY PushShape, LenProperties
<1> HIDE DEF k, n, p
<1>2. ASSUME NEW i \in DOMAIN p PROVE Carried(p[i]) \in Carries(q) \cup {Carried(e)}
  <2>1. CASE i <= k
    <3>1. i \in DOMAIN q /\ p[i] = q[i]
      BY <1>1, <2>1
    <3> QED
      BY <3>1 DEF Carries
  <2>2. CASE i = k + 1
    <3>1. p[i] = e
      BY <1>1, <2>2
    <3> QED
      BY <3>1
  <2>3. CASE i > k + 1
    <3>1. i - 1 \in DOMAIN q /\ p[i] = q[i - 1]
      BY <1>1, <2>3
    <3> QED
      BY <3>1 DEF Carries
  <2> QED
    BY <1>1, <2>1, <2>2, <2>3
<1>3. ASSUME NEW i \in DOMAIN q PROVE Carried(q[i]) \in Carries(p)
  <2>1. CASE i <= k
    <3>1. i \in DOMAIN p /\ p[i] = q[i]
      BY <1>1, <2>1
    <3> QED
      BY <3>1 DEF Carries
  <2>2. CASE i > k
    <3>1. i + 1 \in DOMAIN p /\ p[i + 1] = q[i]
      BY <1>1, <2>2
    <3> QED
      BY <3>1 DEF Carries
  <2> QED
    BY <1>1, <2>1, <2>2
<1>4. Carried(e) \in Carries(p)
  <2>1. k + 1 \in DOMAIN p /\ p[k + 1] = e
    BY <1>1
  <2> QED
    BY <2>1 DEF Carries
<1> QED
  BY <1>2, <1>3, <1>4 DEF Carries, p

\* A pop takes its event away and leaves what the others say.
LEMMA PopCarries ==
  ASSUME NEW R, NEW K, NEW q \in Seq(Events(R, K)), q # <<>>
  PROVE  /\ Carried(Head(q)) \in Carries(q)
         /\ Carries(AfterPop(q)) \subseteq Carries(q)
         /\ Carries(Tail(q)) \subseteq Carries(q)
<1> DEFINE n == Len(q)
           p == AfterPop(q)
           u == Tail(q)
<1>1. n \in Nat \ {0} /\ DOMAIN q = 1 .. n /\ Head(q) = q[1]
  BY LenProperties, EmptySeq
<1>2. DOMAIN u = 1 .. n - 1 /\ \A i \in 1 .. n - 1 : u[i] = q[i + 1]
  BY HeadTailProperties, LenProperties
<1>3. \A i \in 1 .. n : q[i] \in Events(R, K)
  BY ElementOfSeq
<1>4. DOMAIN p = 1 .. n - 1
      /\ \A i \in 1 .. n - 1 : p[i] = [q[i + 1] EXCEPT !.time = @ - Head(q).time]
  BY DEF AfterPop
<1> HIDE DEF n, p, u
<1>5. Carried(Head(q)) \in Carries(q)
  BY <1>1 DEF Carries
<1>6. ASSUME NEW i \in 1 .. n - 1
      PROVE  Carried(p[i]) \in Carries(q) /\ Carried(u[i]) \in Carries(q)
  <2>1. i + 1 \in DOMAIN q /\ q[i + 1] \in Events(R, K)
    BY <1>1, <1>3
  <2>2. Carried(p[i]) = Carried(q[i + 1])
    BY <1>4, <2>1 DEF Carried, Events
  <2>3. Carried(u[i]) = Carried(q[i + 1])
    BY <1>2
  <2> QED
    BY <2>1, <2>2, <2>3 DEF Carries
<1> QED
  BY <1>2, <1>4, <1>5, <1>6 DEF Carries, p, u

-----------------------------------------------------------------------------
(* Divisors *)

Divides(d, n) == \E q \in Nat : n = d * q

\* g is a common divisor of p[1] and p[2] that every other one divides.
IsGcd(g, p) ==
  /\ g \in Nat /\ Divides(g, p[1]) /\ Divides(g, p[2])
  /\ \A d \in Nat : Divides(d, p[1]) /\ Divides(d, p[2]) => Divides(d, g)

\* A divisor of two numbers divides their sum, difference and multiples.
LEMMA DividesLinear ==
  ASSUME NEW d \in Nat, NEW m \in Nat, NEW n \in Nat, NEW k \in Nat, Divides(d, n)
  PROVE  /\ Divides(d, m) => Divides(d, m + n * k)
         /\ Divides(d, m + n * k) => Divides(d, m)
<1>1. PICK q \in Nat : n = d * q
  BY DEF Divides
<1>2. q * k \in Nat /\ n * k = d * (q * k)
  BY <1>1, SMT
<1> DEFINE r == q * k
<1>3. r \in Nat /\ n * k = d * r
  BY <1>2
<1> HIDE DEF r
<1>4. ASSUME Divides(d, m) PROVE Divides(d, m + n * k)
  <2>1. PICK s \in Nat : m = d * s
    BY <1>4 DEF Divides
  <2>2. m + n * k = d * (s + r) /\ s + r \in Nat
    BY <1>3, <2>1, SMT
  <2> QED
    BY <2>2 DEF Divides
<1>5. ASSUME Divides(d, m + n * k) PROVE Divides(d, m)
  <2>1. PICK s \in Nat : m + n * k = d * s
    BY <1>5 DEF Divides
  <2>2. CASE d = 0
    <3>1. n * k = 0 /\ d * s = 0 /\ n * k \in Nat
      BY <1>3, <2>2, SMT
    <3>2. m = d * 0
      BY <2>1, <2>2, <3>1, SMT
    <3> QED
      BY <3>2 DEF Divides
  <2>3. CASE d # 0
    <3>1. m = d * (s - r)
      BY <1>3, <2>1, SMT
    <3>2. s >= r
      <4> SUFFICES ASSUME r - s \in Nat \ {0} PROVE FALSE
        BY <1>3
      <4> DEFINE x == r - s
      <4>1. x \in Nat \ {0} /\ s - r = 0 - x
        BY <1>3
      <4>2. d * x >= 1 /\ d * x \in Nat
        BY <2>3, <4>1, SMT
      <4>3. d * (0 - x) = 0 - d * x
        BY <4>1, SMT
      <4> QED
        BY <3>1, <4>1, <4>2, <4>3
    <3>3. s - r \in Nat
      BY <1>3, <3>2
    <3> QED
      BY <3>1, <3>3 DEF Divides
  <2> QED
    BY <2>2, <2>3
<1> QED
  BY <1>4, <1>5

\* Numbers that divide each other are equal ...
LEMMA DividesAntisymmetric ==
  ASSUME NEW m \in Nat, NEW n \in Nat, Divides(m, n), Divides(n, m)
  PROVE  m = n
<1>1. PICK q \in Nat : n = m * q
  BY DEF Divides
<1>2. PICK r \in Nat : m = n * r
  BY DEF Divides
<1>3. CASE m = 0
  BY <1>1, <1>3, SMT
<1>4. CASE m # 0
  <2>1. m = m * (q * r) /\ q * r \in Nat
    BY <1>1, <1>2, SMT
  <2>2. q * r = 1
    BY <1>4, <2>1, SMT
  <2>3. q # 0 /\ r # 0
    BY <2>2, SMT
  <2>4. n >= m /\ m >= n
    BY <1>1, <1>2, <2>3, SMT
  <2> QED
    BY <2>4
<1> QED
  BY <1>3, <1>4

\* ... so two numbers have one greatest common divisor.
LEMMA GcdUnique ==
  ASSUME NEW p, NEW g, NEW h, IsGcd(g, p), IsGcd(h, p)
  PROVE  g = h
BY DividesAntisymmetric DEF IsGcd

\* One step of Euclid's algorithm.
LEMMA GcdStep ==
  ASSUME NEW a \in Nat, NEW b \in Nat \ {0}, NEW g
  PROVE  /\ a % b \in 0 .. b - 1
         /\ IsGcd(g, <<a, b>>) <=> IsGcd(g, <<b, a % b>>)
<1> DEFINE m == a % b
           k == a \div b
<1>1. m \in 0 .. b - 1 /\ k \in Nat /\ a = m + b * k
  BY SMT
<1> HIDE DEF m, k
<1>2. ASSUME NEW d \in Nat, Divides(d, b)
      PROVE  Divides(d, a) <=> Divides(d, m)
  <2>1. /\ Divides(d, m) => Divides(d, m + b * k)
        /\ Divides(d, m + b * k) => Divides(d, m)
    <3>1. m \in Nat /\ b \in Nat /\ k \in Nat
      BY <1>1
    <3> QED
      BY <1>2, <3>1, DividesLinear
  <2> QED
    BY <1>1, <2>1
<1>3. IsGcd(g, <<a, b>>) <=> IsGcd(g, <<b, m>>)
  BY <1>2 DEF IsGcd
<1> QED
  BY <1>1, <1>3 DEF m

\* The step with which Euclid's algorithm ends.
LEMMA GcdOfZero ==
  ASSUME NEW a \in Nat
  PROVE  IsGcd(a, <<a, 0>>)
<1>1. a = a * 1 /\ 0 = a * 0
  OBVIOUS
<1>2. Divides(a, a) /\ Divides(a, 0)
  BY <1>1 DEF Divides
<1> QED
  BY <1>2 DEF IsGcd

\* Two numbers have a greatest common divisor ...
LEMMA GcdExists ==
  ASSUME NEW a \in Nat, NEW b \in Nat
  PROVE  \E g : IsGcd(g, <<a, b>>)
<1> DEFINE P == {n \in Nat : \A m \in Nat, k \in 0 .. n : \E g : IsGcd(g, <<m, k>>)}
<1>1. 0 \in P
  BY GcdOfZero
<1>2. ASSUME NEW n \in Nat, n \in P PROVE n + 1 \in P
  <2> SUFFICES ASSUME NEW m \in Nat, NEW k \in 0 .. n + 1 PROVE \E g : IsGcd(g, <<m, k>>)
    OBVIOUS
  <2>1. CASE k <= n
    BY <1>2, <2>1
  <2>2. CASE k = n + 1
    <3>1. k \in Nat \ {0} /\ m % k \in 0 .. n
      BY <2>2, GcdStep
    <3>2. PICK g : IsGcd(g, <<k, m % k>>)
      BY <1>2, <3>1
    <3> QED
      BY <3>1, <3>2, GcdStep
  <2> QED
    BY <2>1, <2>2
<1> HIDE DEF P
<1>3. b \in P
  BY <1>1, <1>2, SetInduction
<1> QED
  BY <1>3 DEF P

\* gcd is the greatest common divisor: the recursion has a solution, the function
\* that gives each pair its own, and every solution is that function.
LEMMA GcdHolds ==
  ASSUME NEW a \in Nat, NEW b \in Nat
  PROVE  IsGcd(gcd[<<a, b>>], <<a, b>>)
<1> DEFINE Euclid(f) ==
             [p \in Nat \X Nat |-> IF p[2] = 0 THEN p[1] ELSE f[<<p[2], p[1] % p[2]>>]]
           w == [p \in Nat \X Nat |-> CHOOSE g : IsGcd(g, p)]
<1>1. ASSUME NEW p \in Nat \X Nat PROVE IsGcd(w[p], p)
  <2>1. p = <<p[1], p[2]>> /\ p[1] \in Nat /\ p[2] \in Nat
    OBVIOUS
  <2>2. \E g : IsGcd(g, p)
    BY <2>1, GcdExists
  <2> QED
    BY <2>2
<1>2. w = Euclid(w)
  <2>1. ASSUME NEW p \in Nat \X Nat
        PROVE  w[p] = IF p[2] = 0 THEN p[1] ELSE w[<<p[2], p[1] % p[2]>>]
    <3>1. p = <<p[1], p[2]>> /\ p[1] \in Nat /\ p[2] \in Nat
      OBVIOUS
    <3>2. IsGcd(w[p], p)
      BY <1>1
    <3> HIDE DEF w
    <3>3. CASE p[2] = 0
      BY <3>1, <3>2, <3>3, GcdOfZero, GcdUnique
    <3>4. CASE p[2] # 0
      <4> DEFINE r == <<p[2], p[1] % p[2]>>
      <4>1. p[1] % p[2] \in Nat
        BY <3>1, <3>4, GcdStep
      <4>2. IsGcd(w[r], r)
        BY <1>1, <3>1, <4>1
      <4>3. IsGcd(w[r], p)
        BY <3>1, <3>4, <4>2, GcdStep
      <4> QED
        BY <3>2, <3>4, <4>3, GcdUnique
    <3> QED
      BY <3>3, <3>4
  <2>2. w = [p \in Nat \X Nat |-> w[p]]
    OBVIOUS
  <2> HIDE DEF w
  <2>3. [p \in Nat \X Nat |-> w[p]] = Euclid(w)
    BY <2>1
  <2> QED
    BY <2>2, <2>3
<1> HIDE DEF w
<1>3. gcd = CHOOSE f : f = Euclid(f)
  BY DEF gcd
<1>4. gcd = Euclid(gcd)
  BY <1>2, <1>3
<1> DEFINE P == {n \in Nat : \A m \in Nat, k \in 0 .. n : IsGcd(gcd[<<m, k>>], <<m, k>>)}
<1>5. ASSUME NEW m \in Nat, NEW k \in Nat
      PROVE  gcd[<<m, k>>] = IF k = 0 THEN m ELSE gcd[<<k, m % k>>]
  <2> DEFINE p == <<m, k>>
  <2>1. p \in Nat \X Nat /\ p[1] = m /\ p[2] = k
    OBVIOUS
  <2> HIDE DEF p
  <2>2. gcd[p] = IF p[2] = 0 THEN p[1] ELSE gcd[<<p[2], p[1] % p[2]>>]
    BY <1>4, <2>1
  <2> QED
    BY <2>1, <2>2 DEF p
<1> HIDE DEF Euclid
<1>6. 0 \in P
  <2>1. ASSUME NEW m \in Nat PROVE IsGcd(gcd[<<m, 0>>], <<m, 0>>)
    BY <1>5, GcdOfZero
  <2> QED
    BY <2>1
<1>7. ASSUME NEW n \in Nat, n \in P PROVE n + 1 \in P
  <2> SUFFICES ASSUME NEW m \in Nat, NEW k \in 0 .. n + 1
               PROVE  IsGcd(gcd[<<m, k>>], <<m, k>>)
    OBVIOUS
  <2>1. CASE k <= n
    BY <1>7, <2>1
  <2>2. CASE k = n + 1
    <3>1. k \in Nat \ {0} /\ m % k \in 0 .. n
      BY <2>2, GcdStep
    <3>2. IsGcd(gcd[<<k, m % k>>], <<k, m % k>>)
      BY <1>7, <3>1
    <3>3. gcd[<<m, k>>] = gcd[<<k, m % k>>]
      BY <1>5, <3>1
    <3> QED
      BY <3>1, <3>2, <3>3, GcdStep
  <2> QED
    BY <2>1, <2>2
<1> HIDE DEF P
<1>8. b \in P
  BY <1>6, <1>7, SetInduction
<1> QED
  BY <1>8 DEF P

\* gcd in the form the lemmas below use it.
LEMMA GcdDivides ==
  ASSUME NEW a \in Nat, NEW b \in Nat
  PROVE  /\ gcd[<<a, b>>] \in Nat
         /\ \E q \in Nat : a = gcd[<<a, b>>] * q
         /\ \E q \in Nat : b = gcd[<<a, b>>] * q
         /\ \A d \in Nat : Divides(d, a) /\ Divides(d, b) => Divides(d, gcd[<<a, b>>])
         /\ \A g : IsGcd(g, <<a, b>>) => g = gcd[<<a, b>>]
<1>1. IsGcd(gcd[<<a, b>>], <<a, b>>)
  BY GcdHolds
<1>2. \A g : IsGcd(g, <<a, b>>) => g = gcd[<<a, b>>]
  BY <1>1, GcdUnique
<1> QED
  BY <1>1, <1>2 DEF IsGcd, Divides

\* A common factor is a factor of the gcd.
LEMMA GcdScaled ==
  ASSUME NEW a \in Nat, NEW b \in Nat, NEW k \in Nat \ {0}
  PROVE  gcd[<<a * k, b * k>>] = gcd[<<a, b>>] * k
<1> DEFINE g == gcd[<<a, b>>]
           h == gcd[<<a * k, b * k>>]
<1>1. a * k \in Nat /\ b * k \in Nat
  BY SMT
<1>2. /\ g \in Nat /\ Divides(g, a) /\ Divides(g, b)
      /\ \A d \in Nat : Divides(d, a) /\ Divides(d, b) => Divides(d, g)
  BY GcdDivides DEF Divides
<1>3. /\ h \in Nat /\ Divides(h, a * k) /\ Divides(h, b * k)
      /\ \A d \in Nat : Divides(d, a * k) /\ Divides(d, b * k) => Divides(d, h)
  BY <1>1, GcdDivides DEF Divides
<1> HIDE DEF g, h
<1>4. PICK i \in Nat : h = k * i
  <2>1. a * k = k * a /\ b * k = k * b
    BY SMT
  <2>2. Divides(k, a * k) /\ Divides(k, b * k)
    BY <2>1 DEF Divides
  <2> QED
    BY <1>3, <2>2 DEF Divides
<1>5. ASSUME NEW c \in Nat, Divides(h, c * k) PROVE Divides(i, c)
  <2>1. PICK q \in Nat : c * k = h * q
    BY <1>5 DEF Divides
  <2>2. i * q \in Nat /\ h * q = (i * q) * k
    BY <1>4, SMT
  <2> DEFINE x == i * q
  <2>3. x \in Nat /\ c * k = x * k
    BY <2>1, <2>2
  <2> HIDE DEF x
  <2>4. c = x
    BY <2>3, SMT
  <2> QED
    BY <2>4 DEF x, Divides
<1>6. PICK r \in Nat : g = i * r
  BY <1>2, <1>3, <1>5 DEF Divides
<1>7. g * k = h * r
  BY <1>2, <1>4, <1>6, SMT
<1>8. Divides(g * k, a * k) /\ Divides(g * k, b * k)
  <2>1. ASSUME NEW c \in Nat, Divides(g, c) PROVE Divides(g * k, c * k)
    <3>1. PICK q \in Nat : c = g * q
      BY <2>1 DEF Divides
    <3>2. c * k = (g * k) * q
      BY <1>2, <3>1, SMT
    <3> QED
      BY <3>2 DEF Divides
  <2> QED
    BY <1>2, <2>1
<1>9. g * k \in Nat
  BY <1>2, SMT
<1>10. Divides(g * k, h) /\ Divides(h, g * k)
  BY <1>3, <1>7, <1>8, <1>9 DEF Divides
<1>11. h = g * k
  BY <1>3, <1>9, <1>10, DividesAntisymmetric
<1> QED
  BY <1>11 DEF g, h

\* Two numbers without a common factor with a third have a product without one.
LEMMA GcdOfProduct ==
  ASSUME NEW a \in Nat, NEW b \in Nat, NEW n \in Nat,
         gcd[<<a, n>>] = 1, gcd[<<b, n>>] = 1
  PROVE  gcd[<<a * b, n>>] = 1
<1>1. a * b \in Nat /\ n * b \in Nat
  BY SMT
<1>2. ASSUME NEW d \in Nat, Divides(d, a * b), Divides(d, n) PROVE Divides(d, 1)
  <2>1. Divides(d, n * b)
    <3>1. PICK q \in Nat : n = d * q
      BY <1>2 DEF Divides
    <3>2. n * b = d * (q * b) /\ q * b \in Nat
      BY <3>1, SMT
    <3> QED
      BY <3>2 DEF Divides
  <2>2. Divides(d, b)
    <3>1. CASE b = 0
      <4>1. b = d * 0
        BY <3>1, SMT
      <4> QED
        BY <4>1 DEF Divides
    <3>2. CASE b # 0
      <4>1. gcd[<<a * b, n * b>>] = gcd[<<a, n>>] * b
        BY <3>2, GcdScaled
      <4>2. gcd[<<a * b, n * b>>] = b
        BY <4>1
      <4> QED
        BY <1>1, <1>2, <2>1, <4>2, GcdDivides
    <3> QED
      BY <3>1, <3>2
  <2> QED
    BY <1>2, <2>2, GcdDivides
<1>3. IsGcd(1, <<a * b, n>>)
  <2>1. a * b = 1 * (a * b) /\ n = 1 * n
    BY <1>1, SMT
  <2>2. Divides(1, a * b) /\ Divides(1, n)
    BY <1>1, <2>1 DEF Divides
  <2> QED
    BY <1>2, <2>2 DEF IsGcd
<1> QED
  BY <1>1, <1>3, GcdDivides

-----------------------------------------------------------------------------
(* Fractions in lowest terms *)

\* Frac cancels a common factor.
LEMMA FracCancels ==
  ASSUME NEW n \in Nat, NEW d \in Nat \ {0}
  PROVE  /\ Frac(n, d) \in LowestTerms
         /\ Frac(n, d).num \in Nat /\ Frac(n, d).den \in Nat \ {0}
         /\ \E g \in Nat \ {0} : n = Frac(n, d).num * g /\ d = Frac(n, d).den * g
<1> DEFINE g == gcd[<<n, d>>]
<1>1. PICK p \in Nat : n = g * p
  BY GcdDivides
<1>2. PICK q \in Nat : d = g * q
  BY GcdDivides
<1>3. g \in Nat
  BY GcdDivides
<1>4. g = gcd[<<n, d>>] /\ Frac(n, d) = [num |-> n \div g, den |-> d \div g]
  BY DEF Frac
<1> HIDE DEF g
<1>5. g # 0 /\ q # 0
  BY <1>2, <1>3, SMT
<1>6. n \div g = p /\ d \div g = q
  BY <1>1, <1>2, <1>3, <1>5, SMT
<1>7. n = p * g /\ d = q * g
  BY <1>1, <1>2, <1>3, SMT
<1>8. gcd[<<p, q>>] = 1
  <2>1. gcd[<<p * g, q * g>>] = gcd[<<p, q>>] * g
    BY <1>3, <1>5, GcdScaled
  <2>2. gcd[<<p, q>>] \in Nat
    BY GcdDivides
  <2> DEFINE x == gcd[<<p, q>>]
  <2>3. x \in Nat /\ g = x * g
    BY <1>4, <1>7, <2>1, <2>2
  <2> HIDE DEF x
  <2>4. x = 1
    BY <1>3, <1>5, <2>3, SMT
  <2> QED
    BY <2>4 DEF x
<1> DEFINE f == [num |-> p, den |-> q]
<1>9. f \in LowestTerms /\ f.num = p /\ f.den = q
  BY <1>5, <1>8 DEF LowestTerms
<1>10. Frac(n, d) = f
  BY <1>4, <1>6
<1> HIDE DEF f
<1> QED
  BY <1>3, <1>5, <1>7, <1>9, <1>10

\* A fraction in lowest terms is what Frac makes of its parts.
LEMMA FractionType ==
  ASSUME NEW f \in LowestTerms
  PROVE  /\ f.num \in Nat /\ f.den \in Nat \ {0} /\ gcd[<<f.num, f.den>>] = 1
         /\ f = [num |-> f.num, den |-> f.den]
         /\ f = Frac(f.num, f.den)
<1>1. /\ f.num \in Nat /\ f.den \in Nat \ {0} /\ gcd[<<f.num, f.den>>] = 1
      /\ f = [num |-> f.num, den |-> f.den]
  BY DEF LowestTerms
<1>2. f.num \div 1 = f.num /\ f.den \div 1 = f.den
  BY <1>1, SMT
<1>3. Frac(f.num, f.den) = [num |-> f.num, den |-> f.den]
  BY <1>1, <1>2 DEF Frac
<1> QED
  BY <1>1, <1>3

\* A common factor makes no difference ...
LEMMA FracScaled ==
  ASSUME NEW n \in Nat, NEW d \in Nat \ {0}, NEW k \in Nat \ {0}
  PROVE  Frac(n * k, d * k) = Frac(n, d)
<1> DEFINE g == gcd[<<n, d>>]
<1>1. PICK p \in Nat : n = g * p
  BY GcdDivides
<1>2. PICK q \in Nat : d = g * q
  BY GcdDivides
<1>3. g \in Nat
  BY GcdDivides
<1>4. gcd[<<n * k, d * k>>] = g * k
  BY GcdScaled
<1>5. Frac(n * k, d * k) = [num |-> (n * k) \div (g * k), den |-> (d * k) \div (g * k)]
  BY <1>4 DEF Frac
<1>6. Frac(n, d) = [num |-> n \div g, den |-> d \div g]
  BY DEF Frac
<1> HIDE DEF g
<1>7. g # 0
  BY <1>2, <1>3, SMT
<1>8. n \div g = p /\ d \div g = q
  BY <1>1, <1>2, <1>3, <1>7, SMT
<1> DEFINE x == g * k
<1>9. x \in Nat \ {0}
  BY <1>3, <1>7, SMT
<1>10. n * k = x * p /\ d * k = x * q
  BY <1>1, <1>2, <1>3, SMT
<1> HIDE DEF x
<1>11. (x * p) \div x = p /\ (x * q) \div x = q
  BY <1>9, SMT
<1> QED
  BY <1>5, <1>6, <1>8, <1>10, <1>11 DEF x

\* Equal fractions are the same record.
LEMMA FracSame ==
  ASSUME NEW n \in Nat, NEW d \in Nat \ {0}, NEW m \in Nat, NEW e \in Nat \ {0}
  PROVE  Frac(n, d) = Frac(m, e) <=> n * e = m * d
<1>1. ASSUME n * e = m * d PROVE Frac(n, d) = Frac(m, e)
  <2>1. d * e = e * d
    BY SMT
  <2>2. Frac(n * e, d * e) = Frac(n, d) /\ Frac(m * d, e * d) = Frac(m, e)
    BY FracScaled
  <2> QED
    BY <1>1, <2>1, <2>2
<1>2. ASSUME Frac(n, d) = Frac(m, e) PROVE n * e = m * d
  <2> DEFINE p == Frac(n, d).num
             q == Frac(n, d).den
  <2>1. p \in Nat /\ q \in Nat
    BY FracCancels
  <2>2. PICK g \in Nat : n = p * g /\ d = q * g
    BY FracCancels
  <2>3. PICK h \in Nat : m = p * h /\ e = q * h
    BY <1>2, FracCancels
  <2> HIDE DEF p, q
  <2> QED
    BY <2>1, <2>2, <2>3, SMT
<1> QED
  BY <1>1, <1>2

\* Comparing quotients by products.
LEMMA FracAtMost ==
  ASSUME NEW n \in Nat, NEW d \in Nat \ {0}, NEW m \in Nat, NEW e \in Nat \ {0}
  PROVE  AtMost(Frac(n, d), Frac(m, e)) <=> n * e <= m * d
<1> DEFINE a == Frac(n, d)
           b == Frac(m, e)
<1>1. a.num \in Nat /\ a.den \in Nat /\ b.num \in Nat /\ b.den \in Nat
  BY FracCancels
<1>2. PICK g \in Nat \ {0} : n = a.num * g /\ d = a.den * g
  BY FracCancels
<1>3. PICK h \in Nat \ {0} : m = b.num * h /\ e = b.den * h
  BY FracCancels
<1>4. AtMost(a, b) <=> a.num * b.den <= b.num * a.den
  BY DEF AtMost
<1> HIDE DEF a, b
<1> DEFINE x == a.num * b.den
           y == b.num * a.den
           k == g * h
<1>5. x \in Nat /\ y \in Nat /\ k \in Nat \ {0}
  BY <1>1, SMT
<1>6. n * e = x * k /\ m * d = y * k
  BY <1>1, <1>2, <1>3, SMT
<1> HIDE DEF x, y, k
<1>7. x * k <= y * k <=> x <= y
  BY <1>5, SMT
<1> QED
  BY <1>4, <1>6, <1>7 DEF a, b, x, y

\* The order of the two makes no difference.
LEMMA GcdSymmetric ==
  ASSUME NEW a \in Nat, NEW b \in Nat
  PROVE  gcd[<<a, b>>] = gcd[<<b, a>>]
<1>1. IsGcd(gcd[<<a, b>>], <<b, a>>)
  BY GcdHolds DEF IsGcd
<1> QED
  BY <1>1, GcdDivides

\* Divisors of numbers without common divisors have none either.
LEMMA GcdOfDivisors ==
  ASSUME NEW a \in Nat, NEW b \in Nat, NEW c \in Nat, NEW d \in Nat,
         gcd[<<a, b>>] = 1, Divides(c, a), Divides(d, b)
  PROVE  gcd[<<c, d>>] = 1
<1>1. ASSUME NEW e \in Nat, NEW x \in Nat, NEW y \in Nat, Divides(e, x), Divides(x, y)
      PROVE  Divides(e, y)
  <2>1. PICK q \in Nat : x = e * q
    BY <1>1 DEF Divides
  <2>2. PICK r \in Nat : y = x * r
    BY <1>1 DEF Divides
  <2>3. y = e * (q * r) /\ q * r \in Nat
    BY <2>1, <2>2, SMT
  <2> QED
    BY <2>3 DEF Divides
<1>2. ASSUME NEW e \in Nat, Divides(e, c), Divides(e, d) PROVE Divides(e, 1)
  <2>1. Divides(e, a) /\ Divides(e, b)
    BY <1>1, <1>2
  <2> QED
    BY <2>1, GcdDivides
<1>3. c = 1 * c /\ d = 1 * d
  OBVIOUS
<1>4. Divides(1, c) /\ Divides(1, d)
  BY <1>3 DEF Divides
<1>5. IsGcd(1, <<c, d>>)
  BY <1>2, <1>4 DEF IsGcd
<1> QED
  BY <1>5, GcdDivides

\* The sum, although common factors are taken out first.
LEMMA FracPlus ==
  ASSUME NEW n \in Nat, NEW d \in Nat \ {0}, NEW m \in Nat, NEW e \in Nat \ {0}
  PROVE  Plus(Frac(n, d), Frac(m, e)) = Frac(n * e + m * d, d * e)
<1> DEFINE a == Frac(n, d)
           b == Frac(m, e)
           g == gcd[<<a.den, b.den>>]
<1>1. /\ a.num \in Nat /\ a.den \in Nat \ {0} /\ b.num \in Nat /\ b.den \in Nat \ {0}
  BY FracCancels
<1>2. PICK i \in Nat \ {0} : n = a.num * i /\ d = a.den * i
  BY FracCancels
<1>3. PICK j \in Nat \ {0} : m = b.num * j /\ e = b.den * j
  BY FracCancels
<1> HIDE DEF a, b
<1>4. PICK p \in Nat : a.den = g * p
  BY <1>1, GcdDivides
<1>5. PICK q \in Nat : b.den = g * q
  BY <1>1, GcdDivides
<1>6. g \in Nat
  BY <1>1, GcdDivides
<1>7. Plus(a, b) = Frac(a.num * (b.den \div g) + b.num * (a.den \div g), a.den * (b.den \div g))
  BY DEF Plus
<1> HIDE DEF g
<1>8. g # 0 /\ p # 0 /\ q # 0
  BY <1>1, <1>4, <1>5, <1>6, SMT
<1>9. a.den \div g = p /\ b.den \div g = q
  BY <1>4, <1>5, <1>6, <1>8, SMT
<1> DEFINE u == a.num * q + b.num * p
           v == a.den * q
           x == n * e + m * d
           y == d * e
<1>10. u \in Nat /\ v \in Nat \ {0} /\ x \in Nat /\ y \in Nat \ {0}
  BY <1>1, <1>8, SMT
<1>11. u * y = x * v
  <2> DEFINE an == a.num
             bn == b.num
             k == i * j * g * g * p * q
  <2>1. an \in Nat /\ bn \in Nat /\ k \in Nat
    BY <1>1, <1>6, SMT
  <2>2. n = an * i /\ d = g * p * i /\ m = bn * j /\ e = g * q * j
    BY <1>2, <1>3, <1>4, <1>5
  <2>3. u = an * q + bn * p /\ v = g * p * q
    BY <1>4
  <2> HIDE DEF an, bn, u, v
  <2>4. y = k
    BY <1>6, <2>1, <2>2, SMT
  <2>5. x * v = (an * q + bn * p) * k
    BY <1>6, <2>1, <2>2, <2>3, SMT
  <2> QED
    BY <2>3, <2>4, <2>5
<1>12. Frac(u, v) = Frac(x, y)
  <2> HIDE DEF u, v, x, y
  <2> QED
    BY <1>10, <1>11, FracSame
<1> QED
  BY <1>7, <1>9, <1>12 DEF a, b

\* The difference, likewise.
LEMMA FracMinus ==
  ASSUME NEW n \in Nat, NEW d \in Nat \ {0}, NEW m \in Nat, NEW e \in Nat \ {0},
         m * d <= n * e
  PROVE  Minus(Frac(n, d), Frac(m, e)) = Frac(n * e - m * d, d * e)
<1> DEFINE a == Frac(n, d)
           b == Frac(m, e)
           g == gcd[<<a.den, b.den>>]
<1>1. /\ a.num \in Nat /\ a.den \in Nat \ {0} /\ b.num \in Nat /\ b.den \in Nat \ {0}
  BY FracCancels
<1>2. PICK i \in Nat \ {0} : n = a.num * i /\ d = a.den * i
  BY FracCancels
<1>3. PICK j \in Nat \ {0} : m = b.num * j /\ e = b.den * j
  BY FracCancels
<1> HIDE DEF a, b
<1>4. PICK p \in Nat : a.den = g * p
  BY <1>1, GcdDivides
<1>5. PICK q \in Nat : b.den = g * q
  BY <1>1, GcdDivides
<1>6. g \in Nat
  BY <1>1, GcdDivides
<1>7. Minus(a, b) = Frac(a.num * (b.den \div g) - b.num * (a.den \div g), a.den * (b.den \div g))
  BY DEF Minus
<1> HIDE DEF g
<1>8. g # 0 /\ p # 0 /\ q # 0
  BY <1>1, <1>4, <1>5, <1>6, SMT
<1>9. a.den \div g = p /\ b.den \div g = q
  BY <1>4, <1>5, <1>6, <1>8, SMT
<1> DEFINE u == a.num * q - b.num * p
           v == a.den * q
           x == n * e - m * d
           y == d * e
<1>10. u \in Int /\ v \in Nat \ {0} /\ x \in Nat /\ y \in Nat \ {0}
  BY <1>1, <1>8, SMT
<1>11. u * y = x * v
  <2> DEFINE an == a.num
             bn == b.num
             k == i * j * g * g * p * q
  <2>1. an \in Nat /\ bn \in Nat /\ k \in Nat
    BY <1>1, <1>6, SMT
  <2>2. n = an * i /\ d = g * p * i /\ m = bn * j /\ e = g * q * j
    BY <1>2, <1>3, <1>4, <1>5
  <2>3. u = an * q - bn * p /\ v = g * p * q
    BY <1>4
  <2> HIDE DEF an, bn, u, v
  <2>4. y = k
    BY <1>6, <2>1, <2>2, SMT
  <2>5. x * v = (an * q - bn * p) * k
    BY <1>6, <2>1, <2>2, <2>3, SMT
  <2> QED
    BY <2>3, <2>4, <2>5
<1>12. u \in Nat
  <2> HIDE DEF u, v, x, y
  <2>1. x * v >= 0
    BY <1>10, SMT
  <2> QED
    BY <1>10, <1>11, <2>1, SMT
<1>13. Frac(u, v) = Frac(x, y)
  <2> HIDE DEF u, v, x, y
  <2> QED
    BY <1>10, <1>11, <1>12, FracSame
<1> QED
  BY <1>7, <1>9, <1>13 DEF a, b

\* The product, likewise.
LEMMA FracTimes ==
  ASSUME NEW n \in Nat, NEW d \in Nat \ {0}, NEW m \in Nat, NEW e \in Nat \ {0}
  PROVE  Times(Frac(n, d), Frac(m, e)) = Frac(n * m, d * e)
<1> DEFINE a == Frac(n, d)
           b == Frac(m, e)
           x == Frac(a.num, b.den)
           y == Frac(b.num, a.den)
<1>1. a \in LowestTerms /\ b \in LowestTerms
  BY FracCancels
<1>2. /\ a.num \in Nat /\ a.den \in Nat \ {0} /\ b.num \in Nat /\ b.den \in Nat \ {0}
      /\ gcd[<<a.num, a.den>>] = 1 /\ gcd[<<b.num, b.den>>] = 1
  BY <1>1, FractionType
<1>3. PICK i \in Nat \ {0} : n = a.num * i /\ d = a.den * i
  BY FracCancels
<1>4. PICK j \in Nat \ {0} : m = b.num * j /\ e = b.den * j
  BY FracCancels
<1> HIDE DEF a, b
<1>5. x \in LowestTerms /\ y \in LowestTerms
  BY <1>2, FracCancels
<1>6. /\ x.num \in Nat /\ x.den \in Nat \ {0} /\ y.num \in Nat /\ y.den \in Nat \ {0}
      /\ gcd[<<x.num, x.den>>] = 1 /\ gcd[<<y.num, y.den>>] = 1
  BY <1>5, FractionType
<1>7. PICK k \in Nat \ {0} : a.num = x.num * k /\ b.den = x.den * k
  BY <1>2, FracCancels
<1>8. PICK l \in Nat \ {0} : b.num = y.num * l /\ a.den = y.den * l
  <2> HIDE DEF x
  <2>1. b.num \in Nat /\ a.den \in Nat \ {0}
    BY <1>2
  <2>2. ASSUME NEW p \in Nat, NEW q \in Nat \ {0}
        PROVE  \E g \in Nat \ {0} : p = Frac(p, q).num * g /\ q = Frac(p, q).den * g
    BY FracCancels
  <2>3. y = Frac(b.num, a.den)
    BY DEF y
  <2> HIDE DEF y
  <2>4. \E g \in Nat \ {0} : b.num = Frac(b.num, a.den).num * g /\ a.den = Frac(b.num, a.den).den * g
    BY <2>1, <2>2
  <2> QED
    BY <2>3, <2>4
<1>9. Times(a, b) = [num |-> x.num * y.num, den |-> x.den * y.den]
  BY DEF Times
<1> HIDE DEF x, y
<1>10. /\ Divides(x.num, a.num) /\ Divides(x.den, b.den)
       /\ Divides(y.num, b.num) /\ Divides(y.den, a.den)
  BY <1>7, <1>8 DEF Divides
<1>11. gcd[<<x.num, y.den>>] = 1 /\ gcd[<<y.num, x.den>>] = 1
  BY <1>2, <1>6, <1>10, GcdOfDivisors
<1> DEFINE u == x.num * y.num
           v == x.den * y.den
<1>12. u \in Nat /\ v \in Nat \ {0}
  BY <1>6, SMT
<1>13. gcd[<<u, x.den>>] = 1 /\ gcd[<<u, y.den>>] = 1
  BY <1>6, <1>11, GcdOfProduct
<1> HIDE DEF u
<1>14. gcd[<<v, u>>] = 1
  <2>1. x.den \in Nat /\ y.den \in Nat
    BY <1>6
  <2>2. gcd[<<x.den, u>>] = 1 /\ gcd[<<y.den, u>>] = 1
    BY <1>12, <1>13, <2>1, GcdSymmetric
  <2> QED
    BY <1>12, <2>1, <2>2, GcdOfProduct
<1> HIDE DEF v
<1>15. gcd[<<u, v>>] = 1
  BY <1>12, <1>14, GcdSymmetric
<1> DEFINE f == [num |-> u, den |-> v]
<1>16. f \in LowestTerms /\ f.num = u /\ f.den = v
  BY <1>12, <1>15 DEF LowestTerms
<1>17. f = Frac(u, v)
  BY <1>16, FractionType
<1>18. u * (d * e) = (n * m) * v
  <2> DEFINE xn == x.num
             xd == x.den
             yn == y.num
             yd == y.den
             c == i * j * k * l
  <2>1. xn \in Nat /\ xd \in Nat /\ yn \in Nat /\ yd \in Nat /\ c \in Nat
    BY <1>6, SMT
  <2>2. n = xn * k * i /\ d = yd * l * i /\ m = yn * l * j /\ e = xd * k * j
    BY <1>3, <1>4, <1>7, <1>8
  <2>3. u = xn * yn /\ v = xd * yd
    BY DEF u, v
  <2> HIDE DEF xn, xd, yn, yd
  <2>4. n * m = (xn * yn) * c /\ d * e = (xd * yd) * c
    BY <2>1, <2>2, SMT
  <2> DEFINE s == xn * yn
             t == xd * yd
  <2>5. s \in Nat /\ t \in Nat
    BY <2>1, SMT
  <2>6. n * m = s * c /\ d * e = t * c /\ u = s /\ v = t
    BY <2>3, <2>4
  <2> HIDE DEF s, t, c
  <2> QED
    BY <2>1, <2>5, <2>6, SMT
<1>19. n * m \in Nat /\ d * e \in Nat \ {0}
  BY SMT
<1>20. Frac(u, v) = Frac(n * m, d * e)
  BY <1>12, <1>18, <1>19, FracSame
<1> QED
  BY <1>9, <1>17, <1>20 DEF a, b, u, v


-----------------------------------------------------------------------------
(* The laws of fractions *)

\* A quotient is a fraction in lowest terms.
LEMMA FracType ==
  ASSUME NEW n \in Nat, NEW d \in Nat \ {0}
  PROVE  Frac(n, d) \in LowestTerms
BY FracCancels

\* A whole number is a quotient by 1.
LEMMA WholeIsFrac ==
  ASSUME NEW n \in Nat
  PROVE  Whole(n) = Frac(n, 1) /\ Whole(n) \in LowestTerms
<1> DEFINE f == [num |-> n, den |-> 1]
<1>1. IsGcd(1, <<n, 1>>)
  <2>1. n = 1 * n /\ 1 = 1 * 1
    OBVIOUS
  <2> QED
    BY <2>1 DEF IsGcd, Divides
<1>2. gcd[<<n, 1>>] = 1
  BY <1>1, GcdDivides
<1>3. f \in LowestTerms /\ f.num = n /\ f.den = 1
  BY <1>2 DEF LowestTerms
<1>4. f = Frac(n, 1)
  BY <1>3, FractionType
<1> QED
  BY <1>3, <1>4 DEF Whole

\* The quotient of two quotients.
LEMMA FracOver ==
  ASSUME NEW n \in Nat, NEW d \in Nat \ {0}, NEW m \in Nat \ {0}, NEW e \in Nat \ {0}
  PROVE  Over(Frac(n, d), Frac(m, e)) = Frac(n * e, d * m)
<1> DEFINE b == Frac(m, e)
           r == [num |-> b.den, den |-> b.num]
<1>1. b \in LowestTerms
  BY FracType
<1>2. b.num \in Nat /\ b.den \in Nat \ {0} /\ gcd[<<b.num, b.den>>] = 1
  BY <1>1, FractionType
<1>3. PICK j \in Nat \ {0} : m = b.num * j /\ e = b.den * j
  BY FracCancels
<1> HIDE DEF b
<1>4. b.num # 0
  BY <1>3, SMT
<1>5. r \in LowestTerms /\ r.num = b.den /\ r.den = b.num
  BY <1>2, <1>4, GcdSymmetric DEF LowestTerms
<1>6. r = Frac(b.den, b.num)
  BY <1>5, FractionType
<1>7. r = Frac(e, m)
  <2>1. b.den * m = e * b.num
    BY <1>2, <1>3, SMT
  <2>2. b.den \in Nat /\ b.num \in Nat \ {0}
    BY <1>2, <1>4
  <2> QED
    BY <1>6, <2>1, <2>2, FracSame
<1>8. Over(Frac(n, d), b) = Times(Frac(n, d), r)
  BY DEF Over
<1> QED
  BY <1>7, <1>8, FracTimes DEF b

\* A fraction as a quotient.
LEMMA AsFrac ==
  ASSUME NEW a \in LowestTerms
  PROVE  \E n \in Nat, d \in Nat \ {0} : a = Frac(n, d)
BY FractionType

\* Sums of fractions: closed, commutative, associative, with a zero.
LEMMA PlusLaws ==
  ASSUME NEW a \in LowestTerms, NEW b \in LowestTerms, NEW c \in LowestTerms
  PROVE  /\ Plus(a, b) \in LowestTerms
         /\ Plus(a, b) = Plus(b, a)
         /\ Plus(Plus(a, b), c) = Plus(a, Plus(b, c))
         /\ Plus(a, Zero) = a
<1>1. PICK n \in Nat, d \in Nat \ {0} : a = Frac(n, d)
  BY AsFrac
<1>2. PICK m \in Nat, e \in Nat \ {0} : b = Frac(m, e)
  BY AsFrac
<1>3. PICK k \in Nat, f \in Nat \ {0} : c = Frac(k, f)
  BY AsFrac
<1> DEFINE ab == n * e + m * d
           bc == m * f + k * e
<1>4. /\ ab \in Nat /\ bc \in Nat
      /\ d * e \in Nat \ {0} /\ e * f \in Nat \ {0}
  BY SMT
<1>5. Plus(a, b) = Frac(ab, d * e) /\ Plus(b, c) = Frac(bc, e * f)
  BY <1>1, <1>2, <1>3, FracPlus
<1>6. Plus(b, a) = Frac(ab, d * e)
  <2>1. m * d + n * e = ab /\ e * d = d * e
    BY SMT
  <2> QED
    BY <1>1, <1>2, <2>1, FracPlus
<1>7. Plus(Plus(a, b), c) = Plus(a, Plus(b, c))
  <2>1. Plus(Plus(a, b), c) = Frac(ab * f + k * (d * e), (d * e) * f)
    <3> HIDE DEF ab
    <3> QED
      BY <1>3, <1>4, <1>5, FracPlus
  <2>2. Plus(a, Plus(b, c)) = Frac(n * (e * f) + bc * d, d * (e * f))
    <3> HIDE DEF bc
    <3> QED
      BY <1>1, <1>4, <1>5, FracPlus
  <2>3. /\ ab * f + k * (d * e) = n * (e * f) + bc * d
        /\ (d * e) * f = d * (e * f)
    BY SMT
  <2> QED
    BY <2>1, <2>2, <2>3
<1>8. Plus(a, Zero) = a
  <2>1. Zero = Frac(0, 1)
    BY WholeIsFrac DEF Zero
  <2>2. Plus(a, Zero) = Frac(n * 1 + 0 * d, d * 1)
    BY <1>1, <2>1, FracPlus
  <2>3. n * 1 + 0 * d = n /\ d * 1 = d
    OBVIOUS
  <2> QED
    BY <1>1, <2>2, <2>3
<1> QED
  BY <1>4, <1>5, <1>6, <1>7, <1>8, FracType

\* Products: closed, commutative, associative, distributive, with a one and a zero.
LEMMA TimesLaws ==
  ASSUME NEW a \in LowestTerms, NEW b \in LowestTerms, NEW c \in LowestTerms
  PROVE  /\ Times(a, b) \in LowestTerms
         /\ Times(a, b) = Times(b, a)
         /\ Times(Times(a, b), c) = Times(a, Times(b, c))
         /\ Times(a, Plus(b, c)) = Plus(Times(a, b), Times(a, c))
         /\ Times(Whole(1), a) = a /\ Times(Zero, a) = Zero
<1>1. PICK n \in Nat, d \in Nat \ {0} : a = Frac(n, d)
  BY AsFrac
<1>2. PICK m \in Nat, e \in Nat \ {0} : b = Frac(m, e)
  BY AsFrac
<1>3. PICK k \in Nat, f \in Nat \ {0} : c = Frac(k, f)
  BY AsFrac
<1>4. /\ n * m \in Nat /\ m * k \in Nat /\ n * k \in Nat
      /\ d * e \in Nat \ {0} /\ e * f \in Nat \ {0} /\ d * f \in Nat \ {0}
  BY SMT
<1>5. /\ Times(a, b) = Frac(n * m, d * e) /\ Times(b, c) = Frac(m * k, e * f)
      /\ Times(a, c) = Frac(n * k, d * f)
  BY <1>1, <1>2, <1>3, FracTimes
<1>6. Times(b, a) = Times(a, b)
  <2>1. m * n = n * m /\ e * d = d * e
    BY SMT
  <2>2. Times(b, a) = Frac(m * n, e * d)
    BY <1>1, <1>2, FracTimes
  <2> QED
    BY <1>5, <2>1, <2>2
<1>7. Times(Times(a, b), c) = Times(a, Times(b, c))
  <2>1. Times(Times(a, b), c) = Frac((n * m) * k, (d * e) * f)
    BY <1>3, <1>4, <1>5, FracTimes
  <2>2. Times(a, Times(b, c)) = Frac(n * (m * k), d * (e * f))
    BY <1>1, <1>4, <1>5, FracTimes
  <2>3. (n * m) * k = n * (m * k) /\ (d * e) * f = d * (e * f)
    BY SMT
  <2> QED
    BY <2>1, <2>2, <2>3
<1>8. Times(a, Plus(b, c)) = Plus(Times(a, b), Times(a, c))
  <2> DEFINE bc == m * f + k * e
             nm == n * m
             nk == n * k
             de == d * e
             df == d * f
             ef == e * f
  <2>1. bc \in Nat /\ nm \in Nat /\ nk \in Nat /\ de \in Nat \ {0} /\ df \in Nat \ {0} /\ ef \in Nat \ {0}
    BY <1>4, SMT
  <2>2. Plus(b, c) = Frac(bc, ef)
    BY <1>2, <1>3, FracPlus
  <2>3. Times(a, Plus(b, c)) = Frac(n * bc, d * ef)
    <3> HIDE DEF bc, ef
    <3> QED
      BY <1>1, <2>1, <2>2, FracTimes
  <2>4. Plus(Times(a, b), Times(a, c)) = Frac(nm * df + nk * de, de * df)
    <3>1. Times(a, b) = Frac(nm, de) /\ Times(a, c) = Frac(nk, df)
      BY <1>5
    <3> HIDE DEF nm, nk, de, df
    <3> QED
      BY <2>1, <3>1, FracPlus
  <2>5. nm * df + nk * de = (n * bc) * d /\ de * df = (d * ef) * d
    BY SMT
  <2> DEFINE x == n * bc
             y == d * ef
  <2>6. x \in Nat /\ y \in Nat \ {0}
    <3> HIDE DEF bc, ef
    <3> QED
      BY <2>1, SMT
  <2>7. Frac(x * d, y * d) = Frac(x, y)
    <3> HIDE DEF x, y
    <3> QED
      BY <2>6, FracScaled
  <2> QED
    BY <2>3, <2>4, <2>5, <2>7
<1>9. Times(Whole(1), a) = a /\ Times(Zero, a) = Zero
  <2>1. Zero = Frac(0, 1) /\ Whole(1) = Frac(1, 1)
    BY WholeIsFrac DEF Zero
  <2>2. Times(Whole(1), a) = Frac(1 * n, 1 * d) /\ Times(Zero, a) = Frac(0 * n, 1 * d)
    BY <1>1, <2>1, FracTimes
  <2>3. 1 * n = n /\ 1 * d = d /\ 0 * n = 0
    OBVIOUS
  <2>4. Frac(0, d) = Frac(0, 1)
    <3>1. 0 * 1 = 0 * d
      OBVIOUS
    <3> QED
      BY <3>1, FracSame
  <2> QED
    BY <1>1, <2>1, <2>2, <2>3, <2>4
<1> QED
  BY <1>4, <1>5, <1>6, <1>7, <1>8, <1>9, FracType

\* A total order, which sums and products preserve.
LEMMA OrderLaws ==
  ASSUME NEW a \in LowestTerms, NEW b \in LowestTerms, NEW c \in LowestTerms
  PROVE  /\ AtMost(a, a) /\ AtMost(Zero, a)
         /\ AtMost(a, b) \/ AtMost(b, a)
         /\ AtMost(a, b) /\ AtMost(b, c) => AtMost(a, c)
         /\ AtMost(a, b) /\ AtMost(b, a) => a = b
         /\ AtMost(a, b) => AtMost(Plus(a, c), Plus(b, c))
         /\ AtMost(a, b) => AtMost(Times(a, c), Times(b, c))
<1>1. PICK n \in Nat, d \in Nat \ {0} : a = Frac(n, d)
  BY AsFrac
<1>2. PICK m \in Nat, e \in Nat \ {0} : b = Frac(m, e)
  BY AsFrac
<1>3. PICK k \in Nat, f \in Nat \ {0} : c = Frac(k, f)
  BY AsFrac
<1>4. /\ AtMost(a, b) <=> n * e <= m * d
      /\ AtMost(b, a) <=> m * d <= n * e
      /\ AtMost(b, c) <=> m * f <= k * e
      /\ AtMost(a, c) <=> n * f <= k * d
      /\ AtMost(a, a) <=> n * d <= n * d
  BY <1>1, <1>2, <1>3, FracAtMost
<1>5. AtMost(Zero, a)
  <2>1. Zero = Frac(0, 1)
    BY WholeIsFrac DEF Zero
  <2>2. 0 * d <= n * 1
    OBVIOUS
  <2> QED
    BY <1>1, <2>1, <2>2, FracAtMost
<1> DEFINE x == n * e
           y == m * d
<1>6. x \in Nat /\ y \in Nat /\ n * d \in Nat
  BY SMT
<1>7. AtMost(a, b) /\ AtMost(b, c) => AtMost(a, c)
  <2> SUFFICES ASSUME n * e <= m * d, m * f <= k * e PROVE n * f <= k * d
    BY <1>4
  <2>1. (n * e) * f <= (m * d) * f
    <3> HIDE DEF x, y
    <3>1. x <= y /\ f \in Nat
      BY DEF x, y
    <3>2. x * f <= y * f
      BY <1>6, <3>1, SMT
    <3> QED
      BY <3>2 DEF x, y
  <2> DEFINE u == m * f
             v == k * e
  <2>2. u <= v /\ u \in Nat /\ v \in Nat
    BY SMT
  <2>3. u * d <= v * d
    <3> HIDE DEF u, v
    <3> QED
      BY <2>2, SMT
  <2>4. (m * d) * f = u * d /\ (n * e) * f = (n * f) * e /\ v * d = (k * d) * e
    BY SMT
  <2> DEFINE p == n * f
             q == k * d
  <2>5. p \in Nat /\ q \in Nat
    BY SMT
  <2>6. (n * f) * e <= (k * d) * e
    <3> DEFINE s == (n * f) * e
               t == (m * d) * f
               r == (k * d) * e
    <3>1. s \in Nat /\ t \in Nat /\ r \in Nat
      BY SMT
    <3>2. s <= t /\ t <= r
      BY <2>1, <2>3, <2>4
    <3> HIDE DEF s, t, r
    <3>3. s <= r
      BY <3>1, <3>2
    <3> QED
      BY <3>3 DEF s, r
  <2>7. p * e <= q * e
    BY <2>6
  <2> HIDE DEF p, q
  <2>8. p <= q
    BY <2>5, <2>7, SMT
  <2> QED
    BY <2>8 DEF p, q
<1>8. AtMost(a, b) /\ AtMost(b, a) => a = b
  <2> SUFFICES ASSUME x <= y, y <= x PROVE a = b
    BY <1>4
  <2>1. n * e = m * d
    BY <1>6
  <2> QED
    BY <1>1, <1>2, <2>1, FracSame
<1>9. AtMost(a, b) => AtMost(Plus(a, c), Plus(b, c))
  <2> SUFFICES ASSUME x <= y PROVE AtMost(Plus(a, c), Plus(b, c))
    BY <1>4
  <2> DEFINE p == n * f + k * d
             q == m * f + k * e
             s == d * f
             t == e * f
  <2>1. p \in Nat /\ q \in Nat /\ s \in Nat \ {0} /\ t \in Nat \ {0}
    BY SMT
  <2>2. Plus(a, c) = Frac(p, s) /\ Plus(b, c) = Frac(q, t)
    BY <1>1, <1>2, <1>3, FracPlus
  <2> DEFINE ff == f * f
             w == k * d * e * f
  <2>3. ff \in Nat /\ w \in Nat
    BY SMT
  <2>4. p * t = x * ff + w /\ q * s = y * ff + w
    BY SMT
  <2> HIDE DEF x, y, ff, w
  <2>5. x * ff <= y * ff
    BY <1>6, <2>3, SMT
  <2>6. x * ff \in Nat /\ y * ff \in Nat
    BY <1>6, <2>3, SMT
  <2>7. p * t <= q * s
    BY <2>3, <2>4, <2>5, <2>6
  <2> HIDE DEF p, q, s, t
  <2> QED
    BY <2>1, <2>2, <2>7, FracAtMost
<1>10. AtMost(a, b) => AtMost(Times(a, c), Times(b, c))
  <2> SUFFICES ASSUME x <= y PROVE AtMost(Times(a, c), Times(b, c))
    BY <1>4
  <2> DEFINE p == n * k
             q == m * k
             s == d * f
             t == e * f
             kf == k * f
  <2>1. p \in Nat /\ q \in Nat /\ s \in Nat \ {0} /\ t \in Nat \ {0} /\ kf \in Nat
    BY SMT
  <2>2. Times(a, c) = Frac(p, s) /\ Times(b, c) = Frac(q, t)
    BY <1>1, <1>2, <1>3, FracTimes
  <2>3. p * t = x * kf /\ q * s = y * kf
    BY SMT
  <2> HIDE DEF x, y, kf
  <2>4. x * kf <= y * kf
    BY <1>6, <2>1, SMT
  <2> HIDE DEF p, q, s, t
  <2> QED
    BY <2>1, <2>2, <2>3, <2>4, FracAtMost
<1>11. AtMost(a, a) /\ (AtMost(a, b) \/ AtMost(b, a))
  BY <1>4, <1>6
<1> QED
  BY <1>5, <1>7, <1>8, <1>9, <1>10, <1>11


Reciprocal(b) == [num |-> b.den, den |-> b.num]

\* To divide is to multiply with the reciprocal.
LEMMA OverLaws ==
  ASSUME NEW b \in LowestTerms, b # Zero
  PROVE  /\ Reciprocal(b) \in LowestTerms /\ Reciprocal(b) # Zero
         /\ \A a \in LowestTerms : Over(a, b) = Times(a, Reciprocal(b))
         /\ Times(b, Reciprocal(b)) = Whole(1)
<1>1. /\ b.num \in Nat /\ b.den \in Nat \ {0} /\ gcd[<<b.num, b.den>>] = 1
      /\ b = [num |-> b.num, den |-> b.den] /\ b = Frac(b.num, b.den)
  BY FractionType
<1>2. b.num # 0
  <2> SUFFICES ASSUME b.num = 0 PROVE FALSE
    OBVIOUS
  <2>1. Frac(0, b.den) = Frac(0, 1)
    <3>1. 0 * 1 = 0 * b.den
      BY <1>1
    <3> QED
      BY <1>1, <3>1, FracSame
  <2> QED
    BY <1>1, <2>1, WholeIsFrac DEF Zero
<1> DEFINE r == [num |-> b.den, den |-> b.num]
<1>3. r \in LowestTerms /\ r.num = b.den /\ r.den = b.num
  BY <1>1, <1>2, GcdSymmetric DEF LowestTerms
<1>4. r = Frac(b.den, b.num)
  BY <1>3, FractionType
<1>5. r # Zero
  BY <1>1, <1>3 DEF Zero, Whole
<1> HIDE DEF r
<1>6. Times(b, r) = Whole(1)
  <2> DEFINE n == b.num
             d == b.den
  <2>1. n \in Nat \ {0} /\ d \in Nat \ {0}
    BY <1>1, <1>2
  <2>2. b = Frac(n, d) /\ r = Frac(d, n)
    BY <1>1, <1>4
  <2> HIDE DEF n, d
  <2>3. Times(b, r) = Frac(n * d, d * n)
    BY <2>1, <2>2, FracTimes
  <2>4. n * d \in Nat /\ d * n \in Nat \ {0} /\ (n * d) * 1 = 1 * (d * n)
    BY <2>1, SMT
  <2> QED
    BY <2>3, <2>4, FracSame, WholeIsFrac
<1>7. r = Reciprocal(b)
  BY DEF r, Reciprocal
<1> QED
  BY <1>3, <1>5, <1>6, <1>7 DEF Over, Reciprocal

\* Whole numbers among the fractions.
LEMMA WholeLaws ==
  ASSUME NEW m \in Nat, NEW n \in Nat
  PROVE  /\ Whole(n) \in LowestTerms /\ Zero \in LowestTerms /\ Zero = Whole(0)
         /\ Whole(n) = Zero => n = 0
         /\ Plus(Whole(m), Whole(n)) = Whole(m + n)
         /\ Times(Whole(m), Whole(n)) = Whole(m * n)
         /\ AtMost(Whole(m), Whole(n)) <=> m <= n
<1>1. Whole(m) = Frac(m, 1) /\ Whole(n) = Frac(n, 1)
  BY WholeIsFrac
<1>2. m + n \in Nat /\ m * n \in Nat
  BY SMT
<1>3. Whole(m + n) = Frac(m + n, 1) /\ Whole(m * n) = Frac(m * n, 1)
  BY <1>2, WholeIsFrac
<1>4. /\ m * 1 + n * 1 = m + n /\ 1 * 1 = 1
      /\ m * 1 = m /\ n * 1 = n
  OBVIOUS
<1>5. Plus(Whole(m), Whole(n)) = Frac(m * 1 + n * 1, 1 * 1)
  BY <1>1, FracPlus
<1>6. Times(Whole(m), Whole(n)) = Frac(m * n, 1 * 1)
  BY <1>1, FracTimes
<1>7. AtMost(Whole(m), Whole(n)) <=> m * 1 <= n * 1
  BY <1>1, FracAtMost
<1>8. Whole(n) = Zero => n = 0
  BY DEF Zero, Whole
<1>9. Zero = Whole(0) /\ Zero \in LowestTerms
  BY WholeIsFrac DEF Zero
<1> QED
  BY <1>3, <1>4, <1>5, <1>6, <1>7, <1>8, <1>9, WholeIsFrac

\* Quotients of one denominator.
LEMMA FracLaws ==
  ASSUME NEW m \in Nat, NEW n \in Nat, NEW d \in Nat \ {0}
  PROVE  /\ Plus(Frac(m, d), Frac(n, d)) = Frac(m + n, d)
         /\ AtMost(Frac(m, d), Frac(n, d)) <=> m <= n
         /\ Times(Whole(m), Frac(n, d)) = Frac(m * n, d)
         /\ Over(Whole(n), Whole(d)) = Frac(n, d)
         /\ Frac(0, d) = Zero
<1>1. m + n \in Nat /\ m * n \in Nat /\ Whole(m) = Frac(m, 1) /\ Whole(n) = Frac(n, 1) /\ Whole(d) = Frac(d, 1)
  BY WholeIsFrac, SMT
<1>2. Plus(Frac(m, d), Frac(n, d)) = Frac(m + n, d)
  <2>1. Plus(Frac(m, d), Frac(n, d)) = Frac(m * d + n * d, d * d)
    BY FracPlus
  <2>2. m * d + n * d = (m + n) * d
    BY SMT
  <2> QED
    BY <1>1, <2>1, <2>2, FracScaled
<1>3. AtMost(Frac(m, d), Frac(n, d)) <=> m <= n
  <2>1. AtMost(Frac(m, d), Frac(n, d)) <=> m * d <= n * d
    BY FracAtMost
  <2>2. m * d <= n * d <=> m <= n
    BY SMT
  <2> QED
    BY <2>1, <2>2
<1>4. Times(Whole(m), Frac(n, d)) = Frac(m * n, d)
  <2>1. Times(Whole(m), Frac(n, d)) = Frac(m * n, 1 * d)
    BY <1>1, FracTimes
  <2>2. 1 * d = d
    OBVIOUS
  <2> QED
    BY <2>1, <2>2
<1>5. Over(Whole(n), Whole(d)) = Frac(n, d)
  <2>1. Over(Whole(n), Whole(d)) = Frac(n * 1, 1 * d)
    BY <1>1, FracOver
  <2>2. 1 * d = d /\ n * 1 = n
    OBVIOUS
  <2> QED
    BY <2>1, <2>2
<1>6. Frac(0, d) = Zero
  <2>1. 0 * 1 = 0 * d
    OBVIOUS
  <2> QED
    BY <2>1, FracSame, WholeIsFrac DEF Zero
<1> QED
  BY <1>2, <1>3, <1>4, <1>5, <1>6

\* What rounding down and f64::round make of a quotient.
LEMMA RoundedFrac ==
  ASSUME NEW n \in Nat, NEW d \in Nat \ {0}
  PROVE  /\ Floor(Frac(n, d)) = n \div d
         /\ Floor(Frac(n, d)) \in Nat
         /\ Floor(Frac(n, d)) * d <= n /\ n < (Floor(Frac(n, d)) + 1) * d
         /\ Round(Frac(n, d)) \in Nat
         /\ (2 * Round(Frac(n, d)) - 1) * d <= 2 * n
         /\ 2 * n < (2 * Round(Frac(n, d)) + 1) * d
<1> DEFINE a == Frac(n, d)
           p == a.num
           q == a.den
<1>1. p \in Nat /\ q \in Nat \ {0}
  BY FracCancels
<1>2. PICK g \in Nat \ {0} : n = p * g /\ d = q * g
  BY FracCancels
<1>3. Floor(a) = p \div q /\ Round(a) = (2 * p + q) \div (2 * q)
  BY DEF Floor, Round
<1> HIDE DEF a, p, q
<1> DEFINE x == p \div q
           y == (2 * p + q) \div (2 * q)
<1>4. /\ x \in Nat /\ x * q <= p /\ p < (x + 1) * q
  BY <1>1, SMT
<1>5. /\ y \in Nat /\ y * (2 * q) <= 2 * p + q /\ 2 * p + q < (y + 1) * (2 * q)
  <2> DEFINE u == 2 * p + q
             v == 2 * q
  <2>1. u \in Nat /\ v \in Nat \ {0}
    BY <1>1
  <2> HIDE DEF u, v
  <2>2. u \div v \in Nat /\ (u \div v) * v <= u /\ u < (u \div v + 1) * v
    BY <2>1, SMT
  <2> QED
    BY <2>2 DEF u, v
<1> HIDE DEF x, y
<1>6. x * d <= n /\ n < (x + 1) * d
  <2> DEFINE s == x * q
             t == (x + 1) * q
  <2>1. s \in Nat /\ t \in Nat /\ s <= p /\ p < t
    BY <1>1, <1>4, SMT
  <2>2. x * d = s * g /\ (x + 1) * d = t * g
    BY <1>1, <1>2, <1>4, SMT
  <2> HIDE DEF s, t
  <2>3. s * g <= p * g /\ p * g < t * g
    BY <1>1, <2>1, SMT
  <2> QED
    BY <1>2, <2>2, <2>3
<1>7. n \div d = x
  BY <1>4, <1>6, SMT
<1>8. (2 * y - 1) * d <= 2 * n /\ 2 * n < (2 * y + 1) * d
  <2> DEFINE s == (2 * y - 1) * q
             t == (2 * y + 1) * q
  <2>1. s \in Int /\ t \in Int /\ s <= 2 * p /\ 2 * p < t
    BY <1>1, <1>5, SMT
  <2>2. (2 * y - 1) * d = s * g /\ (2 * y + 1) * d = t * g /\ 2 * n = (2 * p) * g
    BY <1>1, <1>2, <1>5, SMT
  <2> HIDE DEF s, t
  <2>3. s * g <= (2 * p) * g /\ (2 * p) * g < t * g
    BY <1>1, <2>1, SMT
  <2> QED
    BY <2>2, <2>3
<1>9. Floor(a) = x /\ Round(a) = y
  BY <1>3 DEF x, y
<1> QED
  BY <1>4, <1>5, <1>6, <1>7, <1>8, <1>9 DEF a

-----------------------------------------------------------------------------
(* Recursion over an interval *)

\* h steps from base, for i from 1 to n.
Iterates(f, n, base, h) == f = [i \in 0 .. n |-> IF i = 0 THEN base ELSE h[<<i, f[i - 1]>>]]

\* A function defined by recursion over numbers up to n exists.
LEMMA StepsExist ==
  ASSUME NEW T, NEW n \in Nat, NEW base \in T, NEW h \in [(1 .. n) \X T -> T]
  PROVE  \E f \in [0 .. n -> T] : Iterates(f, n, base, h)
<1> DEFINE Upto(k) == \E f \in [0 .. k -> T] : Iterates(f, k, base, h)
           P == {k \in Nat : k <= n => Upto(k)}
<1>1. 0 \in P
  <2> DEFINE f == [i \in 0 .. 0 |-> base]
  <2>1. f \in [0 .. 0 -> T] /\ Iterates(f, 0, base, h)
    BY DEF Iterates
  <2> QED
    BY <2>1
<1>2. ASSUME NEW k \in Nat, k \in P PROVE k + 1 \in P
  <2> SUFFICES ASSUME k + 1 <= n PROVE Upto(k + 1)
    OBVIOUS
  <2>1. PICK f \in [0 .. k -> T] : Iterates(f, k, base, h)
    BY <1>2
  <2>2. f[k] \in T /\ <<k + 1, f[k]>> \in (1 .. n) \X T
    BY <2>1
  <2>3. h[<<k + 1, f[k]>>] \in T
    BY <2>2
  <2> DEFINE e == [i \in 0 .. k + 1 |-> IF i <= k THEN f[i] ELSE h[<<k + 1, f[k]>>]]
  <2>4. e \in [0 .. k + 1 -> T]
    BY <2>3
  <2>5. \A i \in 0 .. k : f[i] = IF i = 0 THEN base ELSE h[<<i, f[i - 1]>>]
    BY <2>1 DEF Iterates
  <2>6. ASSUME NEW i \in 0 .. k + 1
        PROVE  e[i] = IF i = 0 THEN base ELSE h[<<i, e[i - 1]>>]
    <3>1. CASE i = 0
      <4>1. 0 \in 0 .. k /\ 0 \in 0 .. k + 1 /\ 0 <= k
        OBVIOUS
      <4>2. e[0] = f[0] /\ f[0] = base
        BY <2>5, <4>1
      <4> QED
        BY <3>1, <4>2
    <3>2. CASE i # 0 /\ i <= k
      <4>1. i \in 0 .. k /\ i - 1 \in 0 .. k /\ i - 1 \in 0 .. k + 1
        BY <3>2
      <4>2. e[i] = f[i] /\ e[i - 1] = f[i - 1]
        BY <4>1
      <4> QED
        BY <2>5, <3>2, <4>1, <4>2
    <3>3. CASE i = k + 1
      <4>1. k \in 0 .. k + 1 /\ i - 1 = k /\ i # 0 /\ ~ (i <= k)
        BY <3>3
      <4>2. e[k] = f[k] /\ e[i] = h[<<k + 1, f[k]>>]
        BY <3>3, <4>1
      <4> QED
        BY <3>3, <4>1, <4>2
    <3> QED
      BY <3>1, <3>2, <3>3
  <2>7. e = [i \in 0 .. k + 1 |-> e[i]]
    BY <2>4
  <2> HIDE DEF e
  <2>8. [i \in 0 .. k + 1 |-> e[i]] = [i \in 0 .. k + 1 |-> IF i = 0 THEN base ELSE h[<<i, e[i - 1]>>]]
    BY <2>6
  <2> QED
    BY <2>4, <2>7, <2>8 DEF Iterates
<1> HIDE DEF P
<1>3. n \in P
  BY <1>1, <1>2, SetInduction
<1> QED
  BY <1>3 DEF P

\* Every prefix of a sum.
LEMMA SumSteps ==
  ASSUME NEW n \in Nat, NEW s \in [1 .. n -> LowestTerms]
  PROVE  \E f \in [0 .. n -> LowestTerms] :
           /\ f[0] = Zero
           /\ \A i \in 1 .. n : f[i] = Plus(f[i - 1], s[i])
           /\ SumOf(s) = f[n]
<1> DEFINE h == [p \in (1 .. n) \X LowestTerms |-> Plus(p[2], s[p[1]])]
           Equation(f) == f = [i \in 0 .. n |-> IF i = 0 THEN Zero ELSE Plus(f[i - 1], s[i])]
           c == CHOOSE f : Equation(f)
<1>1. Zero \in LowestTerms
  BY WholeLaws
<1>2. h \in [(1 .. n) \X LowestTerms -> LowestTerms]
  BY PlusLaws
<1>3. PICK f \in [0 .. n -> LowestTerms] : Iterates(f, n, Zero, h)
  BY <1>1, <1>2, StepsExist
<1>4. ASSUME NEW i \in 0 .. n
      PROVE  f[i] = IF i = 0 THEN Zero ELSE Plus(f[i - 1], s[i])
  <2>1. f[i] = IF i = 0 THEN Zero ELSE h[<<i, f[i - 1]>>]
    BY <1>3 DEF Iterates
  <2>2. CASE i = 0
    BY <2>1, <2>2
  <2>3. CASE i # 0
    <3>1. i \in 1 .. n /\ i - 1 \in 0 .. n
      BY <2>3
    <3>2. f[i - 1] \in LowestTerms
      BY <3>1
    <3>3. h[<<i, f[i - 1]>>] = Plus(f[i - 1], s[i])
      BY <3>1, <3>2
    <3> QED
      BY <2>1, <2>3, <3>3
  <2> QED
    BY <2>2, <2>3
<1>5. Equation(f)
  <2>1. f = [i \in 0 .. n |-> f[i]]
    OBVIOUS
  <2> QED
    BY <1>4, <2>1
<1>6. Equation(c)
  BY <1>5
<1>7. SumOf(s) = c[n]
  <2>1. Len(s) = n
    <3>1. s \in Seq(LowestTerms) /\ DOMAIN s = 1 .. n
      BY SeqDef
    <3> QED
      BY <3>1, LenProperties
  <2> QED
    BY <2>1 DEF SumOf
<1> HIDE DEF c, h
<1>8. \A i \in 0 .. n : c[i] = IF i = 0 THEN Zero ELSE Plus(c[i - 1], s[i])
  BY <1>6
<1> DEFINE P == {k \in Nat : k <= n => c[k] = f[k]}
<1>9. 0 \in P
  BY <1>4, <1>8
<1>10. ASSUME NEW k \in Nat, k \in P PROVE k + 1 \in P
  <2> SUFFICES ASSUME k + 1 <= n PROVE c[k + 1] = f[k + 1]
    OBVIOUS
  <2>1. k + 1 \in 0 .. n /\ k + 1 # 0 /\ (k + 1) - 1 = k
    OBVIOUS
  <2> QED
    BY <1>4, <1>8, <1>10, <2>1
<1> HIDE DEF P
<1>11. n \in P
  BY <1>9, <1>10, SetInduction
<1>12. SumOf(s) = f[n]
  BY <1>7, <1>11 DEF P
<1>13. \A i \in 1 .. n : f[i] = Plus(f[i - 1], s[i])
  BY <1>4
<1> QED
  BY <1>4, <1>12, <1>13

-----------------------------------------------------------------------------
(* Sums of fractions *)

\* What has to be shown of each number up to n.
LEMMA UpTo ==
  ASSUME NEW n \in Nat, NEW P, 0 \in P, \A i \in 1 .. n : i - 1 \in P => i \in P
  PROVE  \A i \in 0 .. n : i \in P
<1> DEFINE Q == {k \in Nat : k <= n => k \in P}
<1>1. 0 \in Q
  OBVIOUS
<1>2. ASSUME NEW k \in Nat, k \in Q PROVE k + 1 \in Q
  <2>1. CASE k + 1 <= n
    <3>1. k + 1 \in 1 .. n /\ (k + 1) - 1 = k /\ k <= n
      BY <2>1
    <3> QED
      BY <1>2, <3>1
  <2>2. CASE ~ (k + 1 <= n)
    BY <2>2
  <2> QED
    BY <2>1, <2>2
<1> HIDE DEF Q
<1>3. Nat \subseteq Q
  BY <1>1, <1>2, SetInduction
<1>4. ASSUME NEW i \in 0 .. n PROVE i \in P
  <2>1. i \in Nat /\ i <= n
    OBVIOUS
  <2> QED
    BY <1>3, <2>1 DEF Q
<1> QED
  BY <1>4

-----------------------------------------------------------------------------
(* Growing *)

\* Sums and products grow with both their parts.
LEMMA PlusGrows ==
  ASSUME NEW a \in LowestTerms, NEW b \in LowestTerms, NEW c \in LowestTerms,
         NEW d \in LowestTerms, AtMost(a, b), AtMost(c, d)
  PROVE  AtMost(Plus(a, c), Plus(b, d))
<1>1. AtMost(Plus(a, c), Plus(b, c))
  BY OrderLaws
<1>2. AtMost(Plus(c, b), Plus(d, b))
  BY OrderLaws
<1>3. Plus(c, b) = Plus(b, c) /\ Plus(d, b) = Plus(b, d)
  BY PlusLaws
<1>4. Plus(a, c) \in LowestTerms /\ Plus(b, c) \in LowestTerms /\ Plus(b, d) \in LowestTerms
  BY PlusLaws
<1> QED
  BY <1>1, <1>2, <1>3, <1>4, OrderLaws

\* Larger factors have no smaller product.
LEMMA TimesGrows ==
  ASSUME NEW a \in LowestTerms, NEW b \in LowestTerms, NEW c \in LowestTerms,
         NEW d \in LowestTerms, AtMost(a, b), AtMost(c, d)
  PROVE  AtMost(Times(a, c), Times(b, d))
<1>1. AtMost(Times(a, c), Times(b, c))
  BY OrderLaws
<1>2. AtMost(Times(c, b), Times(d, b))
  BY OrderLaws
<1>3. Times(c, b) = Times(b, c) /\ Times(d, b) = Times(b, d)
  BY TimesLaws
<1>4. Times(a, c) \in LowestTerms /\ Times(b, c) \in LowestTerms /\ Times(b, d) \in LowestTerms
  BY TimesLaws
<1> QED
  BY <1>1, <1>2, <1>3, <1>4, OrderLaws

\* A quotient grows with what is divided.
LEMMA OverGrows ==
  ASSUME NEW a \in LowestTerms, NEW b \in LowestTerms, NEW c \in LowestTerms, c # Zero,
         AtMost(a, b)
  PROVE  Over(a, c) \in LowestTerms /\ AtMost(Over(a, c), Over(b, c))
<1>1. /\ Reciprocal(c) \in LowestTerms
      /\ Over(a, c) = Times(a, Reciprocal(c)) /\ Over(b, c) = Times(b, Reciprocal(c))
  BY OverLaws
<1> QED
  BY <1>1, OrderLaws, TimesLaws

\* ... and shrinks with what it is divided by.
LEMMA OverShrinks ==
  ASSUME NEW a \in LowestTerms, NEW b \in LowestTerms, NEW c \in LowestTerms,
         b # Zero, c # Zero, AtMost(b, c)
  PROVE  AtMost(Over(a, c), Over(a, b))
<1>1. PICK n \in Nat, d \in Nat \ {0} : a = Frac(n, d)
  BY AsFrac
<1>2. PICK m \in Nat, e \in Nat \ {0} : b = Frac(m, e)
  BY AsFrac
<1>3. PICK k \in Nat, f \in Nat \ {0} : c = Frac(k, f)
  BY AsFrac
<1>4. m # 0 /\ k # 0
  BY <1>2, <1>3, FracLaws
<1>5. Over(a, b) = Frac(n * e, d * m) /\ Over(a, c) = Frac(n * f, d * k)
  BY <1>1, <1>2, <1>3, <1>4, FracOver
<1>6. m * f <= k * e
  BY <1>2, <1>3, FracAtMost
<1>7. /\ n * e \in Nat /\ n * f \in Nat /\ d * m \in Nat \ {0} /\ d * k \in Nat \ {0}
      /\ m * f \in Nat /\ k * e \in Nat /\ n * d \in Nat
  BY <1>4, SMT
<1>8. (m * f) * (n * d) <= (k * e) * (n * d)
  BY <1>6, <1>7, ProductGrows
<1>9. (n * f) * (d * m) = (m * f) * (n * d) /\ (n * e) * (d * k) = (k * e) * (n * d)
  BY SMT
<1>10. (n * f) * (d * m) <= (n * e) * (d * k)
  BY <1>8, <1>9
<1>11. AtMost(Frac(n * f, d * k), Frac(n * e, d * m))
  BY <1>7, <1>10, FracAtMost
<1> QED
  BY <1>5, <1>11

\* More over less is no smaller.
LEMMA FracGrows ==
  ASSUME NEW n \in Nat, NEW m \in Nat, NEW d \in Nat \ {0}, NEW e \in Nat \ {0},
         n <= m, e <= d
  PROVE  AtMost(Frac(n, d), Frac(m, e))
<1>1. n * e <= m * e
  BY ProductGrows
<1>2. e * m <= d * m
  BY ProductGrows
<1>3. n * e \in Nat /\ m * e \in Nat /\ e * m = m * e /\ d * m = m * d /\ m * d \in Nat
  BY SMT
<1>4. n * e <= m * d
  BY <1>1, <1>2, <1>3
<1> QED
  BY <1>4, FracAtMost

\* Adding never makes less.
LEMMA PlusMore ==
  ASSUME NEW a \in LowestTerms, NEW b \in LowestTerms
  PROVE  Plus(a, b) \in LowestTerms /\ AtMost(a, Plus(a, b)) /\ AtMost(b, Plus(a, b))
<1>1. Zero \in LowestTerms /\ AtMost(Zero, a) /\ AtMost(Zero, b) /\ AtMost(a, a) /\ AtMost(b, b)
  BY WholeLaws, OrderLaws
<1>2. AtMost(Plus(a, Zero), Plus(a, b)) /\ AtMost(Plus(Zero, b), Plus(a, b))
  BY <1>1, PlusGrows
<1>3. Plus(a, Zero) = a /\ Plus(Zero, b) = b
  <2>1. Plus(Zero, b) = Plus(b, Zero)
    BY <1>1, PlusLaws
  <2> QED
    BY <1>1, <2>1, PlusLaws
<1> QED
  BY <1>2, <1>3, PlusLaws

-----------------------------------------------------------------------------
(* Sums of sequences *)

\* A sum is a fraction, and grows with its terms.
LEMMA SumGrows ==
  ASSUME NEW n \in Nat, NEW s \in [1 .. n -> LowestTerms], NEW t \in [1 .. n -> LowestTerms],
         \A i \in 1 .. n : AtMost(s[i], t[i])
  PROVE  SumOf(s) \in LowestTerms /\ AtMost(SumOf(s), SumOf(t))
<1>1. PICK f \in [0 .. n -> LowestTerms] :
        f[0] = Zero /\ (\A i \in 1 .. n : f[i] = Plus(f[i - 1], s[i])) /\ SumOf(s) = f[n]
  BY SumSteps
<1>2. PICK g \in [0 .. n -> LowestTerms] :
        g[0] = Zero /\ (\A i \in 1 .. n : g[i] = Plus(g[i - 1], t[i])) /\ SumOf(t) = g[n]
  BY SumSteps
<1> DEFINE P == {i \in 0 .. n : AtMost(f[i], g[i])}
<1>3. 0 \in P
  <2>1. AtMost(Zero, Zero)
    BY WholeLaws, OrderLaws
  <2> QED
    BY <1>1, <1>2, <2>1
<1>4. ASSUME NEW i \in 1 .. n, i - 1 \in P PROVE i \in P
  <2>1. /\ f[i - 1] \in LowestTerms /\ g[i - 1] \in LowestTerms /\ s[i] \in LowestTerms
        /\ t[i] \in LowestTerms /\ AtMost(f[i - 1], g[i - 1]) /\ AtMost(s[i], t[i])
    BY <1>4
  <2>2. AtMost(Plus(f[i - 1], s[i]), Plus(g[i - 1], t[i]))
    BY <2>1, PlusGrows
  <2> QED
    BY <1>1, <1>2, <2>2
<1> HIDE DEF P
<1>5. \A i \in 0 .. n : i \in P
  BY <1>3, <1>4, UpTo
<1>6. n \in 0 .. n /\ f[n] \in LowestTerms
  OBVIOUS
<1> QED
  BY <1>1, <1>2, <1>5, <1>6 DEF P

\* The sum of sums.
LEMMA SumPlus ==
  ASSUME NEW n \in Nat, NEW s \in [1 .. n -> LowestTerms], NEW t \in [1 .. n -> LowestTerms]
  PROVE  SumOf([i \in 1 .. n |-> Plus(s[i], t[i])]) = Plus(SumOf(s), SumOf(t))
<1> DEFINE u == [i \in 1 .. n |-> Plus(s[i], t[i])]
<1>0. u \in [1 .. n -> LowestTerms]
  <2>1. \A i \in 1 .. n : Plus(s[i], t[i]) \in LowestTerms
    BY PlusLaws
  <2> QED
    BY <2>1
<1>1. PICK f \in [0 .. n -> LowestTerms] :
        f[0] = Zero /\ (\A i \in 1 .. n : f[i] = Plus(f[i - 1], s[i])) /\ SumOf(s) = f[n]
  BY SumSteps
<1>2. PICK g \in [0 .. n -> LowestTerms] :
        g[0] = Zero /\ (\A i \in 1 .. n : g[i] = Plus(g[i - 1], t[i])) /\ SumOf(t) = g[n]
  BY SumSteps
<1>3. PICK h \in [0 .. n -> LowestTerms] :
        h[0] = Zero /\ (\A i \in 1 .. n : h[i] = Plus(h[i - 1], u[i])) /\ SumOf(u) = h[n]
  <2> HIDE DEF u
  <2> QED
    BY <1>0, SumSteps
<1> DEFINE P == {i \in 0 .. n : h[i] = Plus(f[i], g[i])}
<1>4. 0 \in P
  <2>1. Plus(Zero, Zero) = Zero
    BY WholeLaws, PlusLaws
  <2> QED
    BY <1>1, <1>2, <1>3, <2>1
<1>5. ASSUME NEW i \in 1 .. n, i - 1 \in P PROVE i \in P
  <2> DEFINE a == f[i - 1]
             b == g[i - 1]
             c == s[i]
             d == t[i]
  <2>1. a \in LowestTerms /\ b \in LowestTerms /\ c \in LowestTerms /\ d \in LowestTerms
    OBVIOUS
  <2>2. h[i - 1] = Plus(a, b) /\ f[i] = Plus(a, c) /\ g[i] = Plus(b, d)
        /\ h[i] = Plus(h[i - 1], Plus(c, d))
    BY <1>1, <1>2, <1>3, <1>5
  <2> HIDE DEF a, b, c, d
  <2>3. Plus(Plus(a, b), Plus(c, d)) = Plus(Plus(a, c), Plus(b, d))
    <3>1. /\ Plus(a, b) \in LowestTerms /\ Plus(c, d) \in LowestTerms
          /\ Plus(a, c) \in LowestTerms /\ Plus(b, d) \in LowestTerms
          /\ Plus(b, c) \in LowestTerms
      BY <2>1, PlusLaws
    <3>2. Plus(Plus(a, b), Plus(c, d)) = Plus(a, Plus(b, Plus(c, d)))
      BY <2>1, <3>1, PlusLaws
    <3>3. Plus(b, Plus(c, d)) = Plus(Plus(b, c), d)
      BY <2>1, <3>1, PlusLaws
    <3>4. Plus(b, c) = Plus(c, b)
      BY <2>1, PlusLaws
    <3>5. Plus(Plus(c, b), d) = Plus(c, Plus(b, d))
      BY <2>1, PlusLaws
    <3>6. Plus(a, Plus(c, Plus(b, d))) = Plus(Plus(a, c), Plus(b, d))
      BY <2>1, <3>1, PlusLaws
    <3> QED
      BY <3>2, <3>3, <3>4, <3>5, <3>6
  <2> QED
    BY <2>2, <2>3
<1> HIDE DEF P
<1>6. \A i \in 0 .. n : i \in P
  BY <1>4, <1>5, UpTo
<1>7. n \in 0 .. n
  OBVIOUS
<1> QED
  BY <1>1, <1>2, <1>3, <1>6, <1>7 DEF P

\* A common factor of the terms.
LEMMA SumTimes ==
  ASSUME NEW n \in Nat, NEW s \in [1 .. n -> LowestTerms], NEW c \in LowestTerms
  PROVE  SumOf([i \in 1 .. n |-> Times(c, s[i])]) = Times(c, SumOf(s))
<1> DEFINE u == [i \in 1 .. n |-> Times(c, s[i])]
<1>0. u \in [1 .. n -> LowestTerms]
  <2>1. \A i \in 1 .. n : Times(c, s[i]) \in LowestTerms
    BY TimesLaws
  <2> QED
    BY <2>1
<1>1. PICK f \in [0 .. n -> LowestTerms] :
        f[0] = Zero /\ (\A i \in 1 .. n : f[i] = Plus(f[i - 1], s[i])) /\ SumOf(s) = f[n]
  BY SumSteps
<1>3. PICK h \in [0 .. n -> LowestTerms] :
        h[0] = Zero /\ (\A i \in 1 .. n : h[i] = Plus(h[i - 1], u[i])) /\ SumOf(u) = h[n]
  <2> HIDE DEF u
  <2> QED
    BY <1>0, SumSteps
<1> DEFINE P == {i \in 0 .. n : h[i] = Times(c, f[i])}
<1>4. 0 \in P
  <2>1. Times(c, Zero) = Zero
    <3>1. Zero \in LowestTerms
      BY WholeLaws
    <3>2. Times(c, Zero) = Times(Zero, c)
      BY <3>1, TimesLaws
    <3> QED
      BY <3>1, <3>2, TimesLaws
  <2> QED
    BY <1>1, <1>3, <2>1
<1>5. ASSUME NEW i \in 1 .. n, i - 1 \in P PROVE i \in P
  <2> DEFINE a == f[i - 1]
             b == s[i]
  <2>1. a \in LowestTerms /\ b \in LowestTerms
    OBVIOUS
  <2>2. h[i - 1] = Times(c, a) /\ f[i] = Plus(a, b) /\ h[i] = Plus(h[i - 1], Times(c, b))
    BY <1>1, <1>3, <1>5
  <2> HIDE DEF a, b
  <2>3. Plus(Times(c, a), Times(c, b)) = Times(c, Plus(a, b))
    BY <2>1, TimesLaws
  <2> QED
    BY <2>2, <2>3
<1> HIDE DEF P
<1>6. \A i \in 0 .. n : i \in P
  BY <1>4, <1>5, UpTo
<1>7. n \in 0 .. n
  OBVIOUS
<1> QED
  BY <1>1, <1>3, <1>6, <1>7 DEF P

\* The total of whole numbers.
LEMMA SumWhole ==
  ASSUME NEW n \in Nat, NEW x \in [1 .. n -> Nat]
  PROVE  SumOf([i \in 1 .. n |-> Whole(x[i])]) = Whole(Total(1 .. n, x))
<1> DEFINE u == [i \in 1 .. n |-> Whole(x[i])]
<1>0. u \in [1 .. n -> LowestTerms]
  <2>1. \A i \in 1 .. n : Whole(x[i]) \in LowestTerms
    BY WholeLaws
  <2> QED
    BY <2>1
<1>3. PICK h \in [0 .. n -> LowestTerms] :
        h[0] = Zero /\ (\A i \in 1 .. n : h[i] = Plus(h[i - 1], u[i])) /\ SumOf(u) = h[n]
  <2> HIDE DEF u
  <2> QED
    BY <1>0, SumSteps
<1> DEFINE P == {i \in 0 .. n : h[i] = Whole(Total(1 .. i, x))}
<1>4. 0 \in P
  <2>1. 1 .. 0 = {}
    OBVIOUS
  <2>2. Total(1 .. 0, x) = 0
    BY <2>1, TotalEmpty
  <2> QED
    BY <1>3, <2>2 DEF Zero
<1>5. ASSUME NEW i \in 1 .. n, i - 1 \in P PROVE i \in P
  <2>1. IsFiniteSet(1 .. i) /\ IsFiniteSet(1 .. i - 1)
    BY FS_Interval
  <2>2. i \in 1 .. i /\ (1 .. i) \ {i} = 1 .. i - 1 /\ \A y \in 1 .. i : x[y] \in Nat
    OBVIOUS
  <2>3. Total(1 .. i, x) = Total(1 .. i - 1, x) + x[i]
    BY <2>1, <2>2, TotalRemove
  <2>4. Total(1 .. i - 1, x) \in Nat /\ x[i] \in Nat
    BY <2>1, <2>2, TotalType
  <2>5. h[i] = Plus(Whole(Total(1 .. i - 1, x)), Whole(x[i]))
    BY <1>3, <1>5
  <2>6. Plus(Whole(Total(1 .. i - 1, x)), Whole(x[i])) = Whole(Total(1 .. i - 1, x) + x[i])
    BY <2>4, WholeLaws
  <2> QED
    BY <2>3, <2>5, <2>6
<1> HIDE DEF P
<1>6. \A i \in 0 .. n : i \in P
  BY <1>4, <1>5, UpTo
<1>7. n \in 0 .. n
  OBVIOUS
<1> QED
  BY <1>3, <1>6, <1>7 DEF P

\* Equal terms.
LEMMA SumEqual ==
  ASSUME NEW n \in Nat, NEW c \in LowestTerms
  PROVE  SumOf([i \in 1 .. n |-> c]) = Times(Whole(n), c)
<1> DEFINE x == [i \in 1 .. n |-> 1]
           s == [i \in 1 .. n |-> Whole(x[i])]
           u == [i \in 1 .. n |-> Times(c, s[i])]
<1>1. x \in [1 .. n -> Nat] /\ s \in [1 .. n -> LowestTerms]
  BY WholeLaws
<1>2. SumOf(s) = Whole(Total(1 .. n, x))
  <2> HIDE DEF x
  <2> QED
    BY <1>1, SumWhole
<1>3. Total(1 .. n, x) = n
  <2> DEFINE P == {i \in 0 .. n : Total(1 .. i, x) = i}
  <2>1. 0 \in P
    <3>1. 1 .. 0 = {}
      OBVIOUS
    <3> QED
      BY <3>1, TotalEmpty
  <2>2. ASSUME NEW i \in 1 .. n, i - 1 \in P PROVE i \in P
    <3>1. IsFiniteSet(1 .. i)
      BY FS_Interval
    <3>2. i \in 1 .. i /\ (1 .. i) \ {i} = 1 .. i - 1 /\ (\A y \in 1 .. i : x[y] \in Nat)
          /\ x[i] = 1
      OBVIOUS
    <3> HIDE DEF x
    <3>3. Total(1 .. i, x) = Total(1 .. i - 1, x) + x[i]
      BY <3>1, <3>2, TotalRemove
    <3> QED
      BY <2>2, <3>2, <3>3
  <2> HIDE DEF P
  <2>3. \A i \in 0 .. n : i \in P
    BY <2>1, <2>2, UpTo
  <2>4. n \in 0 .. n
    OBVIOUS
  <2> QED
    BY <2>3, <2>4 DEF P
<1>4. SumOf(u) = Times(c, SumOf(s))
  <2> HIDE DEF s
  <2> QED
    BY <1>1, SumTimes
<1>5. u = [i \in 1 .. n |-> c]
  <2>1. Times(c, Whole(1)) = c
    <3>1. Whole(1) \in LowestTerms
      BY WholeLaws
    <3>2. Times(c, Whole(1)) = Times(Whole(1), c)
      BY <3>1, TimesLaws
    <3> QED
      BY <3>1, <3>2, TimesLaws
  <2> QED
    BY <2>1
<1>6. Times(c, Whole(n)) = Times(Whole(n), c)
  <2>1. Whole(n) \in LowestTerms
    BY WholeLaws
  <2> QED
    BY <2>1, TimesLaws
<1> HIDE DEF u, s, x
<1> QED
  BY <1>2, <1>3, <1>4, <1>5, <1>6
=============================================================================
