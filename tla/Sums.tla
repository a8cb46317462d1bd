-------------------------------- MODULE Sums --------------------------------
(***************************************************************************)
(* Sums over finite sets, SumFunctionOnSet of module Functions, for the    *)
(* proofs that add numbers up.  The library's sum is a recursive function  *)
(* that takes the elements in an order of its own choice, so the lemmas    *)
(* show first that such a function exists, then that the order does not    *)
(* matter.  Inductions are minimal counterexamples.                        *)
(***************************************************************************)
EXTENDS Integers, Functions, FiniteSets, FiniteSetsExt, FiniteSetTheorems,
        WellFoundedInduction, TLAPS

(* A set of numbers has a least one.                                       *)
LEMMA Least ==
    ASSUME NEW T \in SUBSET Nat, T # {}
    PROVE  Min(T) \in T /\ \A y \in T : Min(T) <= y
<1> DEFINE R == OpToRel(<, Nat)
<1>1. \A p \in Nat, q \in Nat : p < q => <<p, q>> \in R
  BY DEF OpToRel
<1>2. IsWellFoundedOn(R, Nat)
  BY NatLessThanWellFounded
<1> HIDE DEF R
<1>3. \E x \in T : \A y \in T : ~ (<<y, x>> \in R)
  BY <1>2, WFMin
<1>4. PICK x \in T : \A y \in T : ~ (<<y, x>> \in R)
  BY <1>3
<1>5. ASSUME NEW y \in T PROVE x <= y
  <2>1. x \in Nat /\ y \in Nat
    OBVIOUS
  <2>2. ~ (y < x)
    BY <1>1, <1>4, <2>1, Zenon
  <2> QED
    BY <2>1, <2>2
<1> QED
  BY <1>5 DEF Min

(* A family of finite sets has a smallest one.                             *)
LEMMA Smallest ==
    ASSUME NEW F, F # {}, \A s \in F : IsFiniteSet(s)
    PROVE  \E s \in F : \A t \in F : Cardinality(s) <= Cardinality(t)
<1> DEFINE C == {Cardinality(s) : s \in F}
<1>1. C \in SUBSET Nat /\ C # {}
  BY FS_CardinalityType
<1>2. Min(C) \in C /\ \A y \in C : Min(C) <= y
  BY <1>1, Least
<1> QED
  BY <1>2

(* Less one element.                                                       *)
LEMMA OneLess ==
    ASSUME NEW S, IsFiniteSet(S), NEW x \in S
    PROVE  /\ IsFiniteSet(S \ {x}) /\ Cardinality(S) \in Nat
           /\ Cardinality(S \ {x}) \in Nat /\ Cardinality(S \ {x}) < Cardinality(S)
<1>1. Cardinality(S) \in Nat /\ Cardinality(S \ {x}) \in Nat
  BY FS_CardinalityType, FS_RemoveElement
<1> QED
  BY <1>1, FS_RemoveElement

-----------------------------------------------------------------------------
(* The recursion of the library's sum.                                     *)

First(s) == CHOOSE x \in s : TRUE

IsAdder(g, f, D) ==
    g = [s \in D |-> IF s = {} THEN 0 ELSE f[First(s)] + g[s \ {First(s)}]]

LEMMA Unfolded ==
    ASSUME NEW f, NEW S
    PROVE  SumFunctionOnSet(f, S) = (CHOOSE g : IsAdder(g, f, SUBSET S))[S]
  BY DEF SumFunctionOnSet, FoldFunctionOnSet, MapThenFoldSet, IsAdder, First

LEMMA FirstIn ==
    ASSUME NEW s, s # {}
    PROVE  First(s) \in s
  BY DEF First

(* Such a function exists for the subsets of every size.                   *)
LEMMA AdderExists ==
    ASSUME NEW f, NEW S, IsFiniteSet(S)
    PROVE  \E g : IsAdder(g, f, SUBSET S)
<1> DEFINE D(n) == {s \in SUBSET S : Cardinality(s) <= n}
           Bad  == {n \in Nat : ~ \E g : IsAdder(g, f, D(n))}
<1>1. \A s \in SUBSET S : IsFiniteSet(s) /\ Cardinality(s) \in Nat
  BY FS_Subset, FS_CardinalityType
<1>2. Bad = {}
  <2>1. SUFFICES ASSUME Bad # {} PROVE FALSE
    OBVIOUS
  <2>2. PICK n \in Bad : \A m \in Bad : n <= m
    BY <2>1, Least
  <2>3. n # 0
    <3>1. SUFFICES ASSUME n = 0 PROVE FALSE
      OBVIOUS
    <3>2. \A s \in D(0) : s = {}
      BY <1>1, FS_EmptySet
    <3> DEFINE g == [s \in D(0) |-> 0]
    <3>3. IsAdder(g, f, D(0))
      BY <3>2 DEF IsAdder
    <3> QED
      BY <3>1, <3>3
  <2>4. n \in Nat /\ n - 1 \in Nat /\ n - 1 \notin Bad
    <3>1. n \in Nat
      OBVIOUS
    <3> HIDE DEF Bad
    <3> QED
      BY <2>2, <2>3, <3>1
  <2>5. PICK g : IsAdder(g, f, D(n - 1))
    BY <2>4
  <2> DEFINE h == [s \in D(n) |-> IF s = {} THEN 0 ELSE f[First(s)] + g[s \ {First(s)}]]
  <2>6. ASSUME NEW s \in D(n), s # {} PROVE s \ {First(s)} \in D(n - 1)
    BY <1>1, <2>4, <2>6, FirstIn, OneLess
  <2>7. ASSUME NEW s \in D(n - 1) PROVE s \in D(n) /\ h[s] = g[s]
    <3>1. s \in D(n)
      BY <1>1, <2>4
    <3>2. g[s] = IF s = {} THEN 0 ELSE f[First(s)] + g[s \ {First(s)}]
      BY <2>5 DEF IsAdder
    <3> QED
      BY <3>1, <3>2
  <2>8. ASSUME NEW s \in D(n)
        PROVE  h[s] = IF s = {} THEN 0 ELSE f[First(s)] + h[s \ {First(s)}]
    BY <2>6, <2>7
  <2>9. IsAdder(h, f, D(n))
    <3> DEFINE k == [s \in D(n) |-> IF s = {} THEN 0 ELSE f[First(s)] + h[s \ {First(s)}]]
    <3>1. h = k
      BY <2>8
    <3> QED
      BY <3>1 DEF IsAdder
  <2> QED
    BY <2>2, <2>9
<1>3. Cardinality(S) \in Nat /\ D(Cardinality(S)) = SUBSET S
  BY FS_Subset, FS_CardinalityType
<1> QED
  BY <1>2, <1>3

LEMMA SumEmpty ==
    ASSUME NEW f
    PROVE  SumFunctionOnSet(f, {}) = 0
<1> DEFINE g == CHOOSE g : IsAdder(g, f, SUBSET {})
<1>1. IsAdder(g, f, SUBSET {})
  BY AdderExists, FS_EmptySet
<1> HIDE DEF g
<1>2. g[{}] = 0
  BY <1>1 DEF IsAdder
<1> QED
  BY <1>2, Unfolded DEF g

(* The adder of a set agrees with those of its subsets.                    *)
LEMMA SumWithin ==
    ASSUME NEW f, NEW S, IsFiniteSet(S), NEW T, T \subseteq S,
           NEW g, IsAdder(g, f, SUBSET S)
    PROVE  g[T] = SumFunctionOnSet(f, T)
<1>1. IsFiniteSet(T)
  BY FS_Subset
<1>2. PICK h : h = CHOOSE u : IsAdder(u, f, SUBSET T)
  OBVIOUS
<1>3. IsAdder(h, f, SUBSET T)
  BY <1>1, <1>2, AdderExists
<1>4. g[T] = h[T]
  <2> DEFINE F == {s \in SUBSET T : g[s] # h[s]}
  <2>1. SUFFICES ASSUME F # {} PROVE FALSE
    OBVIOUS
  <2>2. \A s \in F : IsFiniteSet(s)
    BY <1>1, FS_Subset
  <2>3. PICK s \in F : \A t \in F : Cardinality(s) <= Cardinality(t)
    BY <2>1, <2>2, Smallest
  <2>4. /\ g[s] = IF s = {} THEN 0 ELSE f[First(s)] + g[s \ {First(s)}]
        /\ h[s] = IF s = {} THEN 0 ELSE f[First(s)] + h[s \ {First(s)}]
    BY <1>3 DEF IsAdder
  <2>5. s # {}
    BY <2>4
  <2> DEFINE t == s \ {First(s)}
  <2>6. Cardinality(t) \in Nat /\ Cardinality(s) \in Nat /\ Cardinality(t) < Cardinality(s)
    BY <2>2, <2>5, FirstIn, OneLess
  <2>7. t \notin F
    BY <2>3, <2>6
  <2>8. g[t] = h[t]
    BY <2>7
  <2> QED
    BY <2>4, <2>5, <2>8
<1> QED
  BY <1>2, <1>4, Unfolded

LEMMA SumFirst ==
    ASSUME NEW f, NEW S, IsFiniteSet(S), S # {}
    PROVE  SumFunctionOnSet(f, S) = f[First(S)] + SumFunctionOnSet(f, S \ {First(S)})
<1>1. PICK g : IsAdder(g, f, SUBSET S)
  BY AdderExists
<1>2. g[S] = SumFunctionOnSet(f, S)
  BY <1>1, SumWithin
<1>3. g[S \ {First(S)}] = SumFunctionOnSet(f, S \ {First(S)})
  BY <1>1, SumWithin
<1>4. g[S] = f[First(S)] + g[S \ {First(S)}]
  BY <1>1 DEF IsAdder
<1> QED
  BY <1>2, <1>3, <1>4

-----------------------------------------------------------------------------
(* A sum of whole numbers is one.                                          *)
LEMMA SumInt ==
    ASSUME NEW f, NEW S, IsFiniteSet(S), \A x \in S : f[x] \in Int
    PROVE  SumFunctionOnSet(f, S) \in Int
<1> DEFINE F == {s \in SUBSET S : SumFunctionOnSet(f, s) \notin Int}
<1>1. SUFFICES ASSUME F # {} PROVE FALSE
  OBVIOUS
<1>2. \A s \in F : IsFiniteSet(s)
  BY FS_Subset
<1>3. PICK s \in F : \A t \in F : Cardinality(s) <= Cardinality(t)
  BY <1>1, <1>2, Smallest
<1>4. s # {} /\ IsFiniteSet(s)
  BY <1>2, SumEmpty
<1> DEFINE t == s \ {First(s)}
<1>5. First(s) \in S /\ First(s) \in s
  BY <1>4, FirstIn
<1>6. Cardinality(t) \in Nat /\ Cardinality(s) \in Nat /\ Cardinality(t) < Cardinality(s)
  BY <1>4, <1>5, OneLess
<1>7. t \notin F
  BY <1>3, <1>6
<1>8. SumFunctionOnSet(f, t) \in Int
  BY <1>7
<1>9. SumFunctionOnSet(f, s) = f[First(s)] + SumFunctionOnSet(f, t)
  BY <1>4, SumFirst
<1>10. SumFunctionOnSet(f, s) \in Int
  BY <1>5, <1>8, <1>9
<1> QED
  BY <1>10

(* Any element may be taken out: the order does not matter.                *)
LEMMA SumTake ==
    ASSUME NEW f, NEW S, IsFiniteSet(S), \A x \in S : f[x] \in Int, NEW x \in S
    PROVE  SumFunctionOnSet(f, S) = f[x] + SumFunctionOnSet(f, S \ {x})
<1> DEFINE F == {s \in SUBSET S :
                   \E y \in s : SumFunctionOnSet(f, s) # f[y] + SumFunctionOnSet(f, s \ {y})}
<1>1. SUFFICES ASSUME F # {} PROVE FALSE
  OBVIOUS
<1>2. \A s \in F : IsFiniteSet(s)
  BY FS_Subset
<1>3. PICK s \in F : \A t \in F : Cardinality(s) <= Cardinality(t)
  BY <1>1, <1>2, Smallest
<1>4. PICK y \in s : SumFunctionOnSet(f, s) # f[y] + SumFunctionOnSet(f, s \ {y})
  OBVIOUS
<1> DEFINE p == First(s)
<1>5. IsFiniteSet(s) /\ s \in SUBSET S /\ p \in s
  BY <1>2, FirstIn
<1> HIDE DEF F, p
<1>6. SumFunctionOnSet(f, s) = f[p] + SumFunctionOnSet(f, s \ {p})
  BY <1>5, SumFirst DEF p
<1>7. p # y
  BY <1>4, <1>6
<1>8. ASSUME NEW z \in s
      PROVE  s \ {z} \in SUBSET S /\ IsFiniteSet(s \ {z}) /\ s \ {z} \notin F
  <2>1. /\ Cardinality(s \ {z}) \in Nat /\ Cardinality(s) \in Nat
        /\ Cardinality(s \ {z}) < Cardinality(s) /\ IsFiniteSet(s \ {z})
    BY <1>5, OneLess
  <2>2. s \ {z} \notin F
    BY <1>3, <2>1
  <2> QED
    BY <1>5, <2>1, <2>2
<1>9. SumFunctionOnSet(f, s \ {p}) = f[y] + SumFunctionOnSet(f, (s \ {p}) \ {y})
  BY <1>5, <1>7, <1>8 DEF F
<1>10. SumFunctionOnSet(f, s \ {y}) = f[p] + SumFunctionOnSet(f, (s \ {y}) \ {p})
  BY <1>5, <1>7, <1>8 DEF F
<1>11. (s \ {y}) \ {p} = (s \ {p}) \ {y}
  OBVIOUS
<1> DEFINE rest == SumFunctionOnSet(f, (s \ {p}) \ {y})
<1>12. IsFiniteSet((s \ {p}) \ {y}) /\ (s \ {p}) \ {y} \in SUBSET S
  BY <1>5, FS_Subset
<1>13. rest \in Int /\ f[p] \in Int /\ f[y] \in Int
  BY <1>5, <1>12, SumInt
<1>14. \A a, b, c \in Int : a + (b + c) = b + (a + c)
  OBVIOUS
<1> HIDE DEF rest
<1>15. SumFunctionOnSet(f, s) = f[p] + (f[y] + rest)
  BY <1>6, <1>9 DEF rest
<1>16. SumFunctionOnSet(f, s \ {y}) = f[p] + rest
  BY <1>10, <1>11 DEF rest
<1> QED
  BY <1>4, <1>13, <1>14, <1>15, <1>16

(* The sum depends on the values at the elements only.                     *)
LEMMA SumSame ==
    ASSUME NEW f, NEW g, NEW S, IsFiniteSet(S), \A x \in S : f[x] = g[x]
    PROVE  SumFunctionOnSet(f, S) = SumFunctionOnSet(g, S)
<1> DEFINE F == {s \in SUBSET S : SumFunctionOnSet(f, s) # SumFunctionOnSet(g, s)}
<1>1. SUFFICES ASSUME F # {} PROVE FALSE
  OBVIOUS
<1>2. \A s \in F : IsFiniteSet(s)
  BY FS_Subset
<1>3. PICK s \in F : \A t \in F : Cardinality(s) <= Cardinality(t)
  BY <1>1, <1>2, Smallest
<1>4. s # {} /\ IsFiniteSet(s)
  BY <1>2, SumEmpty
<1> DEFINE t == s \ {First(s)}
<1>5. First(s) \in S /\ First(s) \in s
  BY <1>4, FirstIn
<1>6. Cardinality(t) \in Nat /\ Cardinality(s) \in Nat /\ Cardinality(t) < Cardinality(s)
  BY <1>4, <1>5, OneLess
<1>7. t \notin F
  BY <1>3, <1>6
<1>8. SumFunctionOnSet(f, t) = SumFunctionOnSet(g, t)
  BY <1>7
<1>9. /\ SumFunctionOnSet(f, s) = f[First(s)] + SumFunctionOnSet(f, t)
      /\ SumFunctionOnSet(g, s) = g[First(s)] + SumFunctionOnSet(g, t)
  BY <1>4, SumFirst
<1> QED
  BY <1>5, <1>8, <1>9

(* Natural numbers: the sum over a part is no more than that of the whole. *)
LEMMA SumPart ==
    ASSUME NEW f, NEW S, IsFiniteSet(S), \A x \in S : f[x] \in Nat, NEW T \in SUBSET S
    PROVE  /\ SumFunctionOnSet(f, S) \in Nat /\ SumFunctionOnSet(f, T) \in Nat
           /\ SumFunctionOnSet(f, T) <= SumFunctionOnSet(f, S)
<1> DEFINE F == {s \in SUBSET S :
                   \E t \in SUBSET s : ~ SumFunctionOnSet(f, t) <= SumFunctionOnSet(f, s)}
<1>1. \A s \in SUBSET S : IsFiniteSet(s) /\ SumFunctionOnSet(f, s) \in Int
  BY FS_Subset, SumInt
<1>2. F = {}
  <2>1. SUFFICES ASSUME F # {} PROVE FALSE
    OBVIOUS
  <2>2. PICK s \in F : \A t \in F : Cardinality(s) <= Cardinality(t)
    BY <1>1, <2>1, Smallest
  <2>3. PICK t \in SUBSET s : ~ SumFunctionOnSet(f, t) <= SumFunctionOnSet(f, s)
    OBVIOUS
  <2>4. t # s
    BY <1>1, <2>3
  <2>5. PICK x \in s : x \notin t
    BY <2>4
  <2>6. IsFiniteSet(s) /\ s \in SUBSET S
    BY <1>1
  <2>7. SumFunctionOnSet(f, s) = f[x] + SumFunctionOnSet(f, s \ {x})
    BY <2>6, SumTake
  <2>8. /\ Cardinality(s \ {x}) \in Nat /\ Cardinality(s) \in Nat
        /\ Cardinality(s \ {x}) < Cardinality(s)
    BY <2>6, OneLess
  <2>9. s \ {x} \notin F
    BY <2>2, <2>8
  <2>10. t \in SUBSET (s \ {x}) /\ s \ {x} \in SUBSET S
    BY <2>5, <2>6
  <2>11. SumFunctionOnSet(f, t) <= SumFunctionOnSet(f, s \ {x})
    BY <2>9, <2>10
  <2>12. /\ SumFunctionOnSet(f, t) \in Int /\ SumFunctionOnSet(f, s \ {x}) \in Int
         /\ f[x] \in Nat
    BY <1>1, <2>6, <2>10
  <2> QED
    BY <2>3, <2>7, <2>11, <2>12
<1>3. \A s \in SUBSET S : \A t \in SUBSET s :
         SumFunctionOnSet(f, t) <= SumFunctionOnSet(f, s)
  BY <1>2
<1>4. SumFunctionOnSet(f, {}) = 0
  BY SumEmpty
<1>5. /\ SumFunctionOnSet(f, {}) <= SumFunctionOnSet(f, S)
      /\ SumFunctionOnSet(f, {}) <= SumFunctionOnSet(f, T)
      /\ SumFunctionOnSet(f, T) <= SumFunctionOnSet(f, S)
  BY <1>3
<1> QED
  BY <1>1, <1>4, <1>5

(* Nothing adds up to nothing.                                             *)
LEMMA SumZero ==
    ASSUME NEW f, NEW S, IsFiniteSet(S), \A x \in S : f[x] = 0
    PROVE  SumFunctionOnSet(f, S) = 0
<1> DEFINE F == {s \in SUBSET S : SumFunctionOnSet(f, s) # 0}
<1>1. SUFFICES ASSUME F # {} PROVE FALSE
  OBVIOUS
<1>2. \A s \in F : IsFiniteSet(s)
  BY FS_Subset
<1>3. PICK s \in F : \A t \in F : Cardinality(s) <= Cardinality(t)
  BY <1>1, <1>2, Smallest
<1>4. s # {} /\ IsFiniteSet(s)
  BY <1>2, SumEmpty
<1> DEFINE t == s \ {First(s)}
<1>5. First(s) \in S /\ First(s) \in s
  BY <1>4, FirstIn
<1>6. Cardinality(t) \in Nat /\ Cardinality(s) \in Nat /\ Cardinality(t) < Cardinality(s)
  BY <1>4, <1>5, OneLess
<1>7. t \notin F
  BY <1>3, <1>6
<1>8. SumFunctionOnSet(f, s) = f[First(s)] + SumFunctionOnSet(f, t)
  BY <1>4, SumFirst
<1> QED
  BY <1>5, <1>7, <1>8

(* One value grows by one.                                                 *)
LEMMA SumOneMore ==
    ASSUME NEW f, NEW g, NEW S, IsFiniteSet(S), \A x \in S : f[x] \in Nat, NEW d,
           \A x \in S : g[x] = IF x = d THEN f[x] + 1 ELSE f[x]
    PROVE  SumFunctionOnSet(g, S) = SumFunctionOnSet(f, S) + (IF d \in S THEN 1 ELSE 0)
<1>1. CASE d \notin S
  <2>1. SumFunctionOnSet(f, S) = SumFunctionOnSet(g, S) /\ SumFunctionOnSet(f, S) \in Int
    BY <1>1, SumSame, SumInt
  <2> QED
    BY <1>1, <2>1
<1>2. CASE d \in S
  <2> DEFINE T == S \ {d}
  <2>1. IsFiniteSet(T)
    BY FS_Subset
  <2>2. SumFunctionOnSet(f, S) = f[d] + SumFunctionOnSet(f, T)
    BY <1>2, SumTake
  <2>3. SumFunctionOnSet(g, S) = g[d] + SumFunctionOnSet(g, T)
    BY <1>2, SumTake
  <2>4. SumFunctionOnSet(f, T) = SumFunctionOnSet(g, T) /\ SumFunctionOnSet(f, T) \in Int
    BY <2>1, SumSame, SumInt
  <2>5. f[d] \in Nat /\ g[d] = f[d] + 1
    BY <1>2
  <2> QED
    BY <1>2, <2>2, <2>3, <2>4, <2>5
<1> QED
  BY <1>1, <1>2

-----------------------------------------------------------------------------
(* Sums over intervals.                                                    *)

LEMMA SumLast ==
    ASSUME NEW f, NEW i \in Int, NEW j \in Int, i <= j, \A x \in i .. j : f[x] \in Int
    PROVE  SumFunctionOnSet(f, i .. j) = SumFunctionOnSet(f, i .. j - 1) + f[j]
<1>1. IsFiniteSet(i .. j) /\ j \in i .. j
  BY FS_Interval
<1>2. (i .. j) \ {j} = i .. j - 1
  OBVIOUS
<1>3. SumFunctionOnSet(f, i .. j) = f[j] + SumFunctionOnSet(f, i .. j - 1)
  BY <1>1, <1>2, SumTake
<1>4. IsFiniteSet(i .. j - 1) /\ SumFunctionOnSet(f, i .. j - 1) \in Int /\ f[j] \in Int
  <2>1. IsFiniteSet(i .. j - 1)
    BY FS_Interval
  <2>2. \A x \in i .. j - 1 : f[x] \in Int
    OBVIOUS
  <2> QED
    BY <1>1, <2>1, <2>2, SumInt
<1> QED
  BY <1>3, <1>4

(* All values move up by one.                                              *)
MovedUp(f, g, i, j) == \A x \in i .. j : f[x] \in Int /\ g[x + 1] = f[x]

LEMMA SumShift ==
    ASSUME NEW f, NEW g, NEW i \in Nat, NEW j \in Nat, MovedUp(f, g, i, j)
    PROVE  SumFunctionOnSet(g, i + 1 .. j + 1) = SumFunctionOnSet(f, i .. j)
<1> USE DEF MovedUp
<1> DEFINE Bad == {k \in 0 .. j :
              SumFunctionOnSet(g, i + 1 .. k + 1) # SumFunctionOnSet(f, i .. k)}
<1>1. SUFFICES ASSUME Bad # {} PROVE FALSE
  OBVIOUS
<1>2. Bad \in SUBSET Nat
  OBVIOUS
<1>3. PICK k \in Bad : \A m \in Bad : k <= m
  BY <1>1, <1>2, Least
<1>4. k \in 0 .. j /\ SumFunctionOnSet(g, i + 1 .. k + 1) # SumFunctionOnSet(f, i .. k)
  OBVIOUS
<1>5. \A m \in 0 .. j : m < k => m \notin Bad
  BY <1>2, <1>3
<1>6. i <= k
  <2>1. SUFFICES ASSUME k < i PROVE FALSE
    BY <1>4
  <2>2. i + 1 .. k + 1 = {} /\ i .. k = {}
    BY <1>4, <2>1
  <2> QED
    BY <1>4, <2>2, SumEmpty
<1>7. SumFunctionOnSet(f, i .. k) = SumFunctionOnSet(f, i .. k - 1) + f[k]
  BY <1>4, <1>6, SumLast
<1>8. SumFunctionOnSet(g, i + 1 .. k + 1) = SumFunctionOnSet(g, i + 1 .. k) + g[k + 1]
  <2>1. \A x \in i + 1 .. k + 1 : x - 1 \in i .. j /\ (x - 1) + 1 = x
    BY <1>4
  <2>2. \A x \in i + 1 .. k + 1 : g[x] \in Int
    <3> TAKE x \in i + 1 .. k + 1
    <3>1. g[(x - 1) + 1] = f[x - 1] /\ f[x - 1] \in Int
      BY <2>1
    <3> QED
      BY <2>1, <3>1
  <2>3. i + 1 \in Int /\ k + 1 \in Int /\ i + 1 <= k + 1 /\ (k + 1) - 1 = k
    BY <1>4, <1>6
  <2> QED
    BY <2>2, <2>3, SumLast
<1>9. SumFunctionOnSet(g, i + 1 .. k) = SumFunctionOnSet(f, i .. k - 1)
  <2>1. CASE k = 0
    <3>1. i + 1 .. k = {} /\ i .. k - 1 = {}
      BY <1>6, <2>1
    <3> QED
      BY <3>1, SumEmpty
  <2>2. CASE k # 0
    <3>1. k - 1 \in 0 .. j /\ k - 1 < k /\ (k - 1) + 1 = k
      BY <1>4, <2>2
    <3>2. k - 1 \notin Bad
      BY <1>5, <3>1
    <3>3. SumFunctionOnSet(g, i + 1 .. (k - 1) + 1) = SumFunctionOnSet(f, i .. k - 1)
      BY <3>1, <3>2
    <3> QED
      BY <3>1, <3>3
  <2> QED
    BY <2>1, <2>2
<1>10. g[k + 1] = f[k]
  BY <1>4, <1>6
<1> QED
  BY <1>4, <1>7, <1>8, <1>9, <1>10
=============================================================================
