---------------------------- MODULE SumTheorems ----------------------------
(***************************************************************************)
(* Facts the proofs of this project share: induction over the naturals and *)
(* over finite sets, stated with sets so that a theorem can be cited for   *)
(* them, and what the community modules' SumFunction computes.             *)
(***************************************************************************)
EXTENDS FiniteSetTheorems, TLAPS

-----------------------------------------------------------------------------
(* Induction over finite sets, stated with sets instead of predicates. *)

\* A set of naturals has a least element.
LEMMA Least ==
    ASSUME NEW T, T \subseteq Nat, T # {}
    PROVE  \E n \in T : \A m \in T : n <= m
<1>1. IsWellFoundedOn(OpToRel(<, Nat), Nat)  BY NatLessThanWellFounded
<1>2. PICK n \in T : \A m \in T : ~ (<<m, n>> \in OpToRel(<, Nat))  BY <1>1, WFMin
<1>3. \A m \in T : ~(m < n)  BY <1>2 DEF OpToRel
<1> QED  BY <1>3

\* A set with 0 and the successors of its elements holds every natural.
LEMMA SetInduction ==
    ASSUME NEW T, 0 \in T, \A n \in T : n + 1 \in T
    PROVE  Nat \subseteq T
<1>1. SUFFICES ASSUME Nat \ T # {} PROVE FALSE  OBVIOUS
<1>2. PICK n \in Nat \ T : \A m \in Nat \ T : n <= m  BY <1>1, Least
<1>3. n # 0 /\ n - 1 \in Nat  BY <1>2
<1>4. n - 1 \in T  BY <1>2, <1>3
<1>5. (n - 1) + 1 \in T  BY <1>4
<1> QED  BY <1>2, <1>3, <1>5

\* A family of subsets of a finite set that holds {}, and every T it holds
\* less one element, holds the set itself.
LEMMA SubsetInduction ==
    ASSUME NEW D, IsFiniteSet(D), NEW F, {} \in F,
           \A T \in SUBSET D : T # {} /\ (\A x \in T : T \ {x} \in F) => T \in F
    PROVE  D \in F
<1> DEFINE Sizes == {n \in Nat : \A T \in SUBSET D : Cardinality(T) = n => T \in F}
<1>1. \A T \in SUBSET D : IsFiniteSet(T) /\ Cardinality(T) \in Nat
  BY FS_Subset, FS_CardinalityType
<1>2. 0 \in Sizes  BY <1>1, FS_EmptySet
<1>3. ASSUME NEW n \in Sizes PROVE n + 1 \in Sizes
  <2>1. SUFFICES ASSUME NEW T \in SUBSET D, Cardinality(T) = n + 1 PROVE T \in F
    BY <1>3
  <2>2. T # {}  BY <1>1, <1>3, <2>1, FS_EmptySet
  <2>3. \A x \in T : Cardinality(T \ {x}) = n  BY <1>1, <1>3, <2>1, FS_RemoveElement
  <2>4. \A x \in T : T \ {x} \in F  BY <1>3, <2>3
  <2> QED  BY <2>2, <2>4
<1> HIDE DEF Sizes
<1>4. Nat \subseteq Sizes  BY <1>2, <1>3, SetInduction
<1>5. Cardinality(D) \in Sizes  BY <1>1, <1>4
<1> QED  BY <1>5 DEF Sizes

-----------------------------------------------------------------------------
(* Sums. *)

Picked(s) == CHOOSE x \in s : TRUE
\* The equation that defines the sums of v over the subsets of D.
IsSum(g, v, D) ==
    g = [s \in SUBSET D |-> IF s = {} THEN 0 ELSE v[Picked(s)] + g[s \ {Picked(s)}]]

\* There is such a function.
LEMMA SumExists ==
    ASSUME NEW D, IsFiniteSet(D), NEW v
    PROVE  \E g : IsSum(g, v, D)
<1> DEFINE Small(n) == {s \in SUBSET D : Cardinality(s) <= n}
           SumsTo(g, n) == g = [s \in Small(n) |-> IF s = {} THEN 0
                                ELSE v[Picked(s)] + g[s \ {Picked(s)}]]
           Sizes == {n \in Nat : \E g : SumsTo(g, n)}
<1>1. \A s \in SUBSET D : IsFiniteSet(s) /\ Cardinality(s) \in Nat
  BY FS_Subset, FS_CardinalityType
<1>2. 0 \in Sizes
  <2>1. \A s \in Small(0) : s = {}  BY <1>1, FS_EmptySet
  <2>2. SumsTo([s \in Small(0) |-> 0], 0)  BY <2>1
  <2> QED  BY <2>2
<1>3. ASSUME NEW n \in Sizes PROVE n + 1 \in Sizes
  <2>1. PICK g : SumsTo(g, n)  BY <1>3
  <2> DEFINE h == [s \in Small(n + 1) |->
                     IF s = {} THEN 0 ELSE v[Picked(s)] + g[s \ {Picked(s)}]]
  <2>2. ASSUME NEW s \in Small(n + 1), s # {}
        PROVE  g[s \ {Picked(s)}] = h[s \ {Picked(s)}]
    <3>1. Picked(s) \in s  BY <2>2 DEF Picked
    <3>2. s \ {Picked(s)} \in Small(n)
      BY <1>1, <1>3, <2>2, <3>1, FS_RemoveElement
    <3>3. s \ {Picked(s)} \in Small(n + 1)  BY <1>1, <1>3, <3>2
    <3> QED  BY <2>1, <3>2, <3>3
  <2>3. SumsTo(h, n + 1)  BY <2>2
  <2> HIDE DEF SumsTo, h
  <2>4. \E f : SumsTo(f, n + 1)  BY <2>3
  <2> QED  BY <1>3, <2>4
<1> HIDE DEF Sizes
<1>4. Nat \subseteq Sizes  BY <1>2, <1>3, SetInduction
<1>5. PICK g : SumsTo(g, Cardinality(D))  BY <1>1, <1>4 DEF Sizes
<1>6. Small(Cardinality(D)) = SUBSET D  BY FS_Subset
<1> QED  BY <1>5, <1>6 DEF IsSum

\* The community modules' sum is the value of such a function: g gives the
\* sum of each subset, one picked element at a time.
Adds(g, v, D) ==
    /\ g[{}] = 0
    /\ \A s \in SUBSET D : s # {} => /\ Picked(s) \in s
                                     /\ g[s] = v[Picked(s)] + g[s \ {Picked(s)}]
LEMMA SumAdds ==
    ASSUME NEW v, IsFiniteSet(DOMAIN v)
    PROVE  \E g : Adds(g, v, DOMAIN v) /\ SumFunction(v) = g[DOMAIN v]
<1> DEFINE g == CHOOSE h : IsSum(h, v, DOMAIN v)
<1>1. IsSum(g, v, DOMAIN v)  BY SumExists
<1>2. SumFunction(v) = g[DOMAIN v]
  BY DEF SumFunction, SumFunctionOnSet, FoldFunctionOnSet, MapThenFoldSet, IsSum, Picked
<1> HIDE DEF g
<1>3. Adds(g, v, DOMAIN v)  BY <1>1 DEF IsSum, Adds, Picked
<1> QED  BY <1>2, <1>3

\* A sum of integers is an integer.
LEMMA SumType ==
    ASSUME NEW D, IsFiniteSet(D), NEW v \in [D -> Int]
    PROVE  SumFunction(v) \in Int
<1>1. PICK g : Adds(g, v, D) /\ SumFunction(v) = g[D]  BY SumAdds
<1> DEFINE F == {s \in SUBSET D : g[s] \in Int}
<1>2. {} \in F  BY <1>1 DEF Adds
<1>3. ASSUME NEW T \in SUBSET D, T # {}, \A x \in T : T \ {x} \in F PROVE T \in F
  <2>1. Picked(T) \in T /\ g[T] = v[Picked(T)] + g[T \ {Picked(T)}]
    BY <1>1, <1>3 DEF Adds
  <2>2. g[T \ {Picked(T)}] \in Int /\ v[Picked(T)] \in Int  BY <1>3, <2>1
  <2> QED  BY <2>1, <2>2
<1> HIDE DEF F
<1>4. D \in F  BY <1>2, <1>3, SubsetInduction
<1> QED  BY <1>1, <1>4 DEF F

\* A sum with one term that is not 0 is that term.
LEMMA SumOfOne ==
    ASSUME NEW D, IsFiniteSet(D), NEW v \in [D -> Int], NEW c \in D,
           \A x \in D \ {c} : v[x] = 0
    PROVE  SumFunction(v) = v[c]
<1>1. PICK g : Adds(g, v, D) /\ SumFunction(v) = g[D]  BY SumAdds
<1> DEFINE F == {s \in SUBSET D : g[s] = IF c \in s THEN v[c] ELSE 0}
<1>2. {} \in F  BY <1>1 DEF Adds
<1>3. ASSUME NEW T \in SUBSET D, T # {}, \A x \in T : T \ {x} \in F PROVE T \in F
  <2> DEFINE x == Picked(T)
  <2>1. x \in T /\ g[T] = v[x] + g[T \ {x}]  BY <1>1, <1>3 DEF Adds
  <2>2. g[T \ {x}] = IF c \in T \ {x} THEN v[c] ELSE 0  BY <1>3, <2>1
  <2> HIDE DEF x
  <2>3. CASE x = c  BY <2>1, <2>2, <2>3
  <2>4. CASE x # c
    <3>1. v[x] = 0 /\ v[c] \in Int  BY <1>3, <2>1, <2>4
    <3> QED  BY <2>1, <2>2, <2>4, <3>1
  <2> QED  BY <2>3, <2>4
<1> HIDE DEF F
<1>4. D \in F  BY <1>2, <1>3, SubsetInduction
<1> QED  BY <1>1, <1>4 DEF F

LEMMA NextMultiple == \A x \in Int, n \in Nat : x * (n + 1) = x * n + x  OBVIOUS

\* A mean lies between the least and the greatest of its terms.
LEMMA MeanBetween ==
    ASSUME NEW D, IsFiniteSet(D), D # {}, NEW v \in [D -> Int]
    PROVE  /\ \E x \in D : v[x] * Cardinality(D) <= SumFunction(v)
           /\ \E x \in D : SumFunction(v) <= v[x] * Cardinality(D)
<1>1. PICK g : Adds(g, v, D) /\ SumFunction(v) = g[D]  BY SumAdds
<1> DEFINE Between(s) == /\ \E x \in s : v[x] * Cardinality(s) <= g[s]
                         /\ \E x \in s : g[s] <= v[x] * Cardinality(s)
           F == {s \in SUBSET D : g[s] \in Int /\ (s # {} => Between(s))}
<1>2. {} \in F  BY <1>1 DEF Adds
<1>3. ASSUME NEW T \in SUBSET D, T # {}, \A x \in T : T \ {x} \in F PROVE T \in F
  <2> DEFINE x == Picked(T)
             rest == T \ {x}
             n == Cardinality(rest)
  <2>1. x \in T /\ g[T] = v[x] + g[rest]  BY <1>1, <1>3 DEF Adds
  <2>2. rest \in F /\ v[x] \in Int  BY <1>3, <2>1
  <2>3. n \in Nat /\ Cardinality(T) = n + 1
    BY <2>1, FS_Subset, FS_RemoveElement, FS_CardinalityType
  <2>4. g[rest] \in Int  BY <2>2
  <2>5. v[x] \in Int  BY <2>2
  <2>6. CASE rest = {}
    <3>1. g[rest] = 0 /\ n = 0  BY <1>1, <2>6, FS_EmptySet DEF Adds
    <3>2. g[T] = v[x] /\ v[x] * Cardinality(T) = v[x]  BY <2>1, <2>2, <2>3, <3>1
    <3> QED  BY <1>3, <2>1, <2>2, <3>2
  <2>7. CASE rest # {}
    <3>1. PICK low \in rest : v[low] * n <= g[rest]  BY <2>2, <2>7
    <3>2. PICK high \in rest : g[rest] <= v[high] * n  BY <2>2, <2>7
    <3>3. low \in T /\ high \in T /\ v[low] \in Int /\ v[high] \in Int  BY <1>3
    <3> HIDE DEF x, rest, n
    <3>4. \E y \in T : v[y] * Cardinality(T) <= g[T]
      <4>1. CASE v[low] <= v[x]
        <5>1. v[low] * (n + 1) = v[low] * n + v[low]  BY <2>3, <3>3, NextMultiple
        <5> QED  BY <2>1, <2>2, <2>3, <2>4, <3>1, <3>3, <4>1, <5>1
      <4>2. CASE v[x] < v[low]
        <5>1. v[x] * (n + 1) = v[x] * n + v[x]  BY <2>3, <2>5, NextMultiple
        <5>2. v[x] * n <= v[low] * n  BY <2>2, <2>3, <3>3, <4>2
        <5> QED  BY <2>1, <2>2, <2>3, <2>4, <3>1, <3>3, <5>1, <5>2
      <4> QED  BY <2>2, <3>3, <4>1, <4>2
    <3>5. \E y \in T : g[T] <= v[y] * Cardinality(T)
      <4>1. CASE v[x] <= v[high]
        <5>1. v[high] * (n + 1) = v[high] * n + v[high]  BY <2>3, <3>3, NextMultiple
        <5> QED  BY <2>1, <2>2, <2>3, <2>4, <3>2, <3>3, <4>1, <5>1
      <4>2. CASE v[high] < v[x]
        <5>1. v[x] * (n + 1) = v[x] * n + v[x]  BY <2>3, <2>5, NextMultiple
        <5>2. v[high] * n <= v[x] * n  BY <2>2, <2>3, <3>3, <4>2
        <5> QED  BY <2>1, <2>2, <2>3, <2>4, <3>2, <3>3, <5>1, <5>2
      <4> QED  BY <2>2, <3>3, <4>1, <4>2
    <3> QED  BY <1>3, <2>1, <2>2, <2>4, <3>4, <3>5
  <2> QED  BY <1>3, <2>6, <2>7
<1> HIDE DEF F
<1>4. D \in F  BY <1>2, <1>3, SubsetInduction
<1> QED  BY <1>1, <1>4 DEF F

-----------------------------------------------------------------------------
(* Powers of 2. *)

\* 2^n counts the subsets of 1..n.
LEMMA PowerCounts ==
    ASSUME NEW n \in Nat
    PROVE  2^n \in Nat /\ 2^n = Cardinality(SUBSET (1..n)) /\ IsFiniteSet(SUBSET (1..n))
<1>1. IsFiniteSet(1..n) /\ Cardinality(1..n) = n
  BY FS_Interval
<1>2. IsFiniteSet(SUBSET (1..n)) /\ Cardinality(SUBSET (1..n)) = 2^Cardinality(1..n)
  BY <1>1, FS_SUBSET
<1>3. Cardinality(SUBSET (1..n)) \in Nat  BY <1>2, FS_CardinalityType
<1> QED  BY <1>1, <1>2, <1>3

\* Each subset of 1..n gives one of 1..n+1 without n+1 and one with it.
LEMMA PowerDoubles ==
    ASSUME NEW n \in Nat
    PROVE  2^(n + 1) = 2 * 2^n
<1> DEFINE A == SUBSET (1..n)
           B == {s \cup {n + 1} : s \in A}
           f == [s \in A |-> s \cup {n + 1}]
<1>1. SUBSET (1..(n + 1)) = A \cup B
  <2>1. 1..(n + 1) = (1..n) \cup {n + 1} /\ n + 1 \notin 1..n  OBVIOUS
  <2>2. ASSUME NEW t \in SUBSET (1..(n + 1)) PROVE t \in A \cup B
    <3>1. t \ {n + 1} \in A  BY <2>1
    <3>2. CASE n + 1 \in t
      <4>1. t = (t \ {n + 1}) \cup {n + 1}  BY <3>2
      <4> QED  BY <3>1, <4>1
    <3>3. CASE n + 1 \notin t
      <4>1. t = t \ {n + 1}  BY <3>3
      <4> QED  BY <3>1, <4>1
    <3> QED  BY <3>2, <3>3
  <2>3. A \cup B \subseteq SUBSET (1..(n + 1))  BY <2>1
  <2> QED  BY <2>2, <2>3
<1>2. A \cap B = {}  OBVIOUS
<1>3. f \in Bijection(A, B)
  <2>1. f \in [A -> B]  OBVIOUS
  <2>2. \A s, t \in A : f[s] = f[t] => s = t
    <3>1. \A s \in A : s = f[s] \ {n + 1}  OBVIOUS
    <3> QED  BY <3>1
  <2>3. \A t \in B : \E s \in A : f[s] = t  OBVIOUS
  <2> QED  BY <2>1, <2>2, <2>3 DEF Bijection, Injection, Surjection, IsInjective
<1>4. IsFiniteSet(A) /\ Cardinality(A) = 2^n /\ 2^n \in Nat  BY PowerCounts
<1>5. IsFiniteSet(B) /\ Cardinality(B) = 2^n
  <2>1. ExistsBijection(A, B)  BY <1>3 DEF ExistsBijection
  <2> QED  BY <2>1, <1>4, FS_Bijection
<1> HIDE DEF A, B
<1>6. Cardinality(A \cup B) = 2^n + 2^n
  BY <1>2, <1>4, <1>5, FS_Union, FS_EmptySet
<1>7. \A m \in Nat : 2^m = Cardinality(SUBSET (1..m))  BY PowerCounts
<1>8. 2^(n + 1) = Cardinality(SUBSET (1..(n + 1)))  BY <1>7
<1>9. 2^(n + 1) = 2^n + 2^n  BY <1>1, <1>6, <1>8
<1>10. \A p \in Nat : p + p = 2 * p  OBVIOUS
<1> QED  BY <1>4, <1>9, <1>10

-----------------------------------------------------------------------------
(* Binary numbers. *)

LEMMA PowerPositive == \A n \in Nat : 2^n \in Nat /\ 2^n > 0
<1> DEFINE T == {n \in Nat : 2^n > 0}
<1>1. 0 \in T  OBVIOUS
<1>2. \A n \in Nat : 2^n \in Nat  BY PowerCounts
<1>3. ASSUME NEW n \in T PROVE n + 1 \in T  BY <1>2, <1>3, PowerDoubles
<1> HIDE DEF T
<1>4. Nat \subseteq T  BY <1>1, <1>3, SetInduction
<1> QED  BY <1>2, <1>4 DEF T

LEMMA PowerOfSum == \A a, b \in Nat : 2^(a + b) = 2^a * 2^b
<1> SUFFICES ASSUME NEW a \in Nat PROVE \A b \in Nat : 2^(a + b) = 2^a * 2^b
  OBVIOUS
<1> DEFINE T == {b \in Nat : 2^(a + b) = 2^a * 2^b}
<1>1. \A n \in Nat : 2^n \in Nat  BY PowerPositive
<1>2. 0 \in T
  <2>1. a + 0 = a /\ 2^0 = 1  OBVIOUS
  <2> QED  BY <1>1, <2>1
<1>3. ASSUME NEW b \in T PROVE b + 1 \in T
  <2>1. b \in Nat /\ a + b \in Nat /\ a + (b + 1) = (a + b) + 1  BY <1>3
  <2>2. 2^(a + (b + 1)) = 2 * 2^(a + b)  BY <2>1, PowerDoubles
  <2>3. 2^(b + 1) = 2 * 2^b  BY <2>1, PowerDoubles
  <2>4. 2^(a + b) = 2^a * 2^b  BY <1>3
  <2>5. \A x, y \in Nat : 2 * (x * y) = x * (2 * y)  OBVIOUS
  <2>6. 2 * (2^a * 2^b) = 2^a * (2 * 2^b)  BY <1>1, <2>1, <2>5
  <2>7. 2^(a + (b + 1)) = 2^a * 2^(b + 1)  BY <2>2, <2>3, <2>4, <2>6
  <2> QED  BY <2>1, <2>7
<1> HIDE DEF T
<1>4. Nat \subseteq T  BY <1>2, <1>3, SetInduction
<1> QED  BY <1>4 DEF T

\* Quotient and remainder, and what determines them.
LEMMA Division ==
    ASSUME NEW v \in Int, NEW c \in Nat, c > 0
    PROVE  /\ v \div c \in Int /\ v % c \in 0..(c - 1)
           /\ v = (v \div c) * c + (v % c)
           /\ v \in Nat => v \div c \in Nat
OBVIOUS

LEMMA DivisionUnique ==
    ASSUME NEW c \in Nat, c > 0, NEW q \in Int, NEW r \in 0..(c - 1),
           NEW v \in Int, v = q * c + r
    PROVE  v \div c = q /\ v % c = r
<1>1. v \div c \in Int /\ v % c \in 0..(c - 1) /\ v = (v \div c) * c + (v % c)
  BY Division
<1> DEFINE p == v \div c
           s == v % c
<1> HIDE DEF p, s
<1>2. p \in Int /\ s \in 0..(c - 1) /\ p * c + s = q * c + r  BY <1>1 DEF p, s
<1>3. ASSUME p < q PROVE FALSE
  <2>1. (p + 1) * c <= q * c  BY <1>2, <1>3
  <2>2. (p + 1) * c = p * c + c  BY <1>2
  <2> QED  BY <1>2, <2>1, <2>2
<1>4. ASSUME q < p PROVE FALSE
  <2>1. (q + 1) * c <= p * c  BY <1>2, <1>4
  <2>2. (q + 1) * c = q * c + c  OBVIOUS
  <2> QED  BY <1>2, <2>1, <2>2
<1>5. p = q  BY <1>2, <1>3, <1>4
<1> QED  BY <1>2, <1>5 DEF p, s

\* Bit c of v.
Bit(v, c) == (v \div 2^c) % 2

\* Adding 2^b to a number without bit b sets that bit and no other.
LEMMA AddedBit ==
    ASSUME NEW v \in Nat, NEW b \in Nat, Bit(v, b) = 0, NEW c \in Nat
    PROVE  Bit(v + 2^b, c) = IF c = b THEN 1 ELSE Bit(v, c)
<1>1. PICK p \in Nat : p = 2^b /\ p > 0  BY PowerPositive
<1>2. CASE c = b
  <2>1. PICK q \in Nat, r \in 0..(p - 1) : v = q * p + r /\ v \div p = q
    BY <1>1, Division
  <2>2. v + p = (q + 1) * p + r  BY <2>1
  <2>3. v + p \in Nat /\ q + 1 \in Nat  BY <1>1
  <2>4. (v + p) \div p = q + 1  BY <1>1, <2>1, <2>2, <2>3, DivisionUnique
  <2>5. q % 2 = 0  BY <1>1, <2>1 DEF Bit
  <2> QED  BY <1>1, <1>2, <2>4, <2>5 DEF Bit
<1>3. CASE c < b
  <2>1. PICK m \in Nat : m = 2^c /\ m > 0  BY PowerPositive
  <2>2. PICK h \in Nat : h = 2^(b - c - 1)  BY <1>3, PowerPositive
  <2>3. p = m * (2 * h)
    <3>1. b - c - 1 \in Nat /\ b - c \in Nat /\ b = c + (b - c) /\ b - c = (b - c - 1) + 1
      BY <1>3
    <3>2. 2^(b - c) = 2 * h  BY <2>2, <3>1, PowerDoubles
    <3>3. 2^b = 2^c * 2^(b - c)  BY <3>1, PowerOfSum
    <3> QED  BY <1>1, <2>1, <3>2, <3>3
  <2>4. PICK q \in Nat, r \in 0..(m - 1) : v = q * m + r /\ v \div m = q
    BY <2>1, Division
  <2>5. v + p = (q + 2 * h) * m + r  BY <2>3, <2>4
  <2>6. v + p \in Nat /\ q + 2 * h \in Nat  BY <1>1
  <2>7. (v + p) \div m = q + 2 * h  BY <2>1, <2>4, <2>5, <2>6, DivisionUnique
  <2>8. (q + 2 * h) % 2 = q % 2  OBVIOUS
  <2> QED  BY <1>1, <1>3, <2>1, <2>4, <2>7, <2>8 DEF Bit
<1>4. CASE b < c
  <2>1. PICK m \in Nat : m = 2^c /\ m > 0  BY PowerPositive
  <2>2. PICK h \in Nat : h = 2^(c - b - 1) /\ h > 0  BY <1>4, PowerPositive
  <2>3. m = (2 * h) * p
    <3>1. c - b - 1 \in Nat /\ c - b \in Nat /\ c = b + (c - b) /\ c - b = (c - b - 1) + 1
      BY <1>4
    <3>2. 2^(c - b) = 2 * h  BY <2>2, <3>1, PowerDoubles
    <3>3. 2^c = 2^b * 2^(c - b)  BY <3>1, PowerOfSum
    <3> QED  BY <1>1, <2>1, <3>2, <3>3
  <2>4. PICK q \in Nat, r \in 0..(p - 1) : v = q * p + r /\ v \div p = q
    BY <1>1, Division
  <2>5. PICK k \in Nat : q = 2 * k
    <3>1. q % 2 = 0  BY <1>1, <2>4 DEF Bit
    <3> QED  BY <3>1, Division
  <2>6. PICK s \in Nat, t \in 0..(h - 1) : k = s * h + t
    <3>1. k \div h \in Nat /\ k % h \in 0..(h - 1) /\ k = (k \div h) * h + (k % h)
      BY <2>2, Division
    <3> QED  BY <3>1
  <2> DEFINE low == (2 * t) * p + r
  <2>7. low \in Nat /\ low + p < m
    <3>1. (2 * t + 2) * p <= (2 * h) * p
      <4>1. \A x, y \in Nat : x <= y => x * p <= y * p  OBVIOUS
      <4>2. 2 * t + 2 \in Nat /\ 2 * h \in Nat /\ 2 * t + 2 <= 2 * h  BY <2>6
      <4> QED  BY <4>1, <4>2
    <3>2. (2 * t + 2) * p = (2 * t) * p + p + p  BY <2>6
    <3>3. (2 * t) * p \in Nat  BY <2>6
    <3> QED  BY <2>3, <2>4, <3>1, <3>2, <3>3
  <2>8. v = s * m + low
    <3>1. q * p = s * ((2 * h) * p) + (2 * t) * p  BY <2>5, <2>6
    <3> QED  BY <2>3, <2>4, <3>1
  <2> HIDE DEF low
  <2>9. v \div m = s  BY <1>1, <2>1, <2>6, <2>7, <2>8, DivisionUnique
  <2>10. (v + p) \div m = s
    <3>1. v + p \in Nat /\ low + p \in 0..(m - 1) /\ v + p = s * m + (low + p)
      BY <1>1, <2>1, <2>6, <2>7, <2>8
    <3> QED  BY <2>1, <2>6, <3>1, DivisionUnique
  <2> QED  BY <1>1, <1>4, <2>1, <2>9, <2>10 DEF Bit
<1> QED  BY <1>2, <1>3, <1>4

\* The sum of 2^b over a set of bits has those bits and no other.
LEMMA SumOfPowers ==
    ASSUME NEW S, S \subseteq Nat, IsFiniteSet(S)
    PROVE  LET v == SumFunction([b \in S |-> 2^b])
           IN  v \in Nat /\ \A c \in Nat : Bit(v, c) = IF c \in S THEN 1 ELSE 0
<1> DEFINE p == [b \in S |-> 2^b]
<1>1. PICK g : Adds(g, p, S) /\ SumFunction(p) = g[S]
  <2>1. DOMAIN p = S  OBVIOUS
  <2> HIDE DEF p
  <2> QED  BY <2>1, SumAdds
<1> DEFINE F == {s \in SUBSET S : g[s] \in Nat /\
                   \A c \in Nat : Bit(g[s], c) = IF c \in s THEN 1 ELSE 0}
<1>2. {} \in F
  <2>1. \A c \in Nat : 0 \div 2^c = 0
    <3>1. \A n \in Nat : n > 0 => 0 \div n = 0  OBVIOUS
    <3> QED  BY <3>1, PowerPositive
  <2>2. 0 % 2 = 0  OBVIOUS
  <2>3. \A c \in Nat : Bit(0, c) = 0  BY <2>1, <2>2, Zenon DEF Bit
  <2> QED  BY <1>1, <2>3 DEF Adds
<1>3. ASSUME NEW T \in SUBSET S, T # {}, \A x \in T : T \ {x} \in F PROVE T \in F
  <2> DEFINE x == Picked(T)
             rest == T \ {x}
  <2>1. x \in T /\ g[T] = p[x] + g[rest]  BY <1>1, <1>3 DEF Adds
  <2>2. x \in Nat /\ p[x] = 2^x  BY <1>3, <2>1
  <2>3. rest \in F  BY <1>3, <2>1
  <2> HIDE DEF x, p
  <2>4. g[rest] \in Nat /\ \A c \in Nat : Bit(g[rest], c) = IF c \in rest THEN 1 ELSE 0
    BY <2>3
  <2>5. Bit(g[rest], x) = 0  BY <2>2, <2>4
  <2>6. g[T] = g[rest] + 2^x /\ g[T] \in Nat  BY <2>1, <2>2, <2>4, PowerPositive
  <2>7. \A c \in Nat : Bit(g[T], c) = IF c = x THEN 1 ELSE Bit(g[rest], c)
    BY <2>2, <2>4, <2>5, <2>6, AddedBit
  <2>8. \A c \in Nat : Bit(g[T], c) = IF c \in T THEN 1 ELSE 0
    BY <2>1, <2>4, <2>7
  <2> QED  BY <1>3, <2>6, <2>8
<1> HIDE DEF F
<1>4. S \in F  BY <1>2, <1>3, SubsetInduction
<1> QED  BY <1>1, <1>4 DEF F

\* A number is 0, or has a highest bit.
LEMMA HighestBit ==
    ASSUME NEW v \in Nat, v # 0
    PROVE  \E c \in Nat : Bit(v, c) = 1 /\ v < 2^(c + 1)
<1> DEFINE T == {n \in Nat : n < 2^n}
           R == {n \in Nat : v < 2^n}
<1>1. v \in R
  <2>1. 0 \in T  OBVIOUS
  <2>2. ASSUME NEW n \in T PROVE n + 1 \in T  BY <2>2, PowerPositive, PowerDoubles
  <2> HIDE DEF T
  <2>3. Nat \subseteq T  BY <2>1, <2>2, SetInduction
  <2> QED  BY <2>3 DEF T
<1>2. PICK n \in R : \A m \in R : n <= m  BY <1>1, Least
<1>3. n # 0
  <2>1. SUFFICES ASSUME n = 0 PROVE FALSE  OBVIOUS
  <2>2. v < 2^0  BY <1>2, <2>1, Zenon
  <2>3. 2^0 = 1  OBVIOUS
  <2> QED  BY <2>2, <2>3
<1>4. PICK c \in Nat : n = c + 1  BY <1>2, <1>3
<1>5. PICK p \in Nat : p = 2^c /\ p > 0  BY PowerPositive
<1>6. v < 2 * p /\ p <= v  BY <1>2, <1>4, <1>5, PowerDoubles
<1>7. v \div p = 1
  <2>1. v - p \in 0..(p - 1) /\ v = 1 * p + (v - p)  BY <1>6
  <2> QED  BY <1>5, <2>1, DivisionUnique
<1> QED  BY <1>2, <1>4, <1>5, <1>7 DEF Bit
=============================================================================
