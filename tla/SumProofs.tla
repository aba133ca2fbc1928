----------------------------- MODULE SumProofs ------------------------------
(***************************************************************************)
(* What SumFunctionOnSet and SumFunction of module Functions compute, for  *)
(* every finite set of indices.  The sums of the engine's books (module    *)
(* Trading) range over maps that grow and shrink, so the facts needed are  *)
(* how a sum changes when one entry is added, removed or changed.          *)
(***************************************************************************)
EXTENDS Integers, FiniteSets, Functions, SequencesExt, FiniteSetTheorems, TLAPS

(* Every non-empty set of naturals has a least element.  Inductions below  *)
(* are on the cardinality of a smallest counterexample.                    *)
LEMMA LeastElement ==
    ASSUME NEW T \in SUBSET Nat, T # {}
    PROVE  \E n \in T : \A m \in T : n <= m
<1> DEFINE R == {pair \in Nat \X Nat : pair[1] < pair[2]}
<1>1. IsWellFoundedOn(R, Nat)
  BY NatLessThanWellFounded DEF OpToRel
<1>2. \A x, y \in Nat : <<y, x>> \in R <=> y < x
  OBVIOUS
<1> HIDE DEF R
<1>3. PICK x \in T : \A y \in T : ~ (<<y, x>> \in R)
  BY <1>1, WFMin
<1>4. \A y \in T : ~ (y < x)
  BY <1>2, <1>3
<1> QED BY <1>4

(* A family of finite sets that is not empty has a member with no more     *)
(* elements than any other.                                                *)
LEMMA SmallestSet ==
    ASSUME NEW F, F # {}, \A s \in F : IsFiniteSet(s)
    PROVE  \E s \in F : \A t \in F : Cardinality(s) <= Cardinality(t)
<1> DEFINE N == {n \in Nat : \E s \in F : Cardinality(s) = n}
<1>1. \A s \in F : Cardinality(s) \in Nat
  BY FS_CardinalityType
<1>2. N # {} /\ N \in SUBSET Nat
  BY <1>1
<1>3. PICK n \in N : \A m \in N : n <= m
  BY <1>2, LeastElement
<1>4. PICK s \in F : Cardinality(s) = n
  BY <1>3
<1>5. \A t \in F : Cardinality(t) \in N
  BY <1>1
<1> QED BY <1>3, <1>4, <1>5

(* Taking an element out of a finite set makes it smaller.                 *)
LEMMA SmallerSet ==
    ASSUME NEW s, IsFiniteSet(s), NEW x \in s
    PROVE  /\ IsFiniteSet(s \ {x})
           /\ Cardinality(s \ {x}) < Cardinality(s)
           /\ Cardinality(s \ {x}) = Cardinality(s) - 1
           /\ Cardinality(s) \in Nat
<1>1. IsFiniteSet(s \ {x}) /\ Cardinality(s \ {x}) = Cardinality(s) - 1
  BY FS_RemoveElement
<1>2. Cardinality(s) \in Nat
  BY FS_CardinalityType
<1> QED BY <1>1, <1>2

-----------------------------------------------------------------------------
(* Steps from 0 to n, upwards and downwards.                               *)

(* What holds of 0 and goes from each number to the next holds up to n.    *)
LEMMA ReachedUpwards ==
    ASSUME NEW n \in Nat, NEW T, 0 \in T,
           \A i \in 0..n-1 : i \in T => i + 1 \in T
    PROVE  \A i \in 0..n : i \in T
<1> DEFINE U == {i \in 0..n : i \notin T}
<1> SUFFICES ASSUME U # {} PROVE FALSE
  OBVIOUS
<1>1. U \in SUBSET Nat
  OBVIOUS
<1> HIDE DEF U
<1>2. PICK k \in U : \A j \in U : k <= j
  BY <1>1, LeastElement
<1>3. k \in 0..n /\ k \notin T
  BY DEF U
<1>4. k # 0
  BY <1>3
<1>5. k - 1 \in 0..n-1 /\ k - 1 \in 0..n /\ ~(k <= k - 1) /\ (k - 1) + 1 = k
  BY <1>3, <1>4
<1>6. k - 1 \notin U
  BY <1>2, <1>5
<1>7. k - 1 \in T
  BY <1>5, <1>6 DEF U
<1> QED BY <1>3, <1>5, <1>7

(* What holds of n and goes from each number to the one before it holds    *)
(* down to 0.                                                              *)
LEMMA ReachedDownwards ==
    ASSUME NEW n \in Nat, NEW T, n \in T,
           \A i \in 1..n : i \in T => i - 1 \in T
    PROVE  \A i \in 0..n : i \in T
<1> DEFINE V == {i \in 0..n : n - i \in T}
<1>1. 0 \in V
  BY DEF V
<1>2. \A i \in 0..n-1 : i \in V => i + 1 \in V
  <2> TAKE i \in 0..n-1
  <2> HAVE i \in V
  <2>1. n - i \in 1..n /\ (n - i) - 1 = n - (i + 1) /\ i + 1 \in 0..n
    OBVIOUS
  <2>2. (n - i) - 1 \in T
    BY <2>1
  <2> QED BY <2>1, <2>2
<1> HIDE DEF V
<1>3. \A i \in 0..n : i \in V
  BY <1>1, <1>2, ReachedUpwards
<1>4. \A i \in 0..n : n - i \in 0..n /\ n - (n - i) = i
  OBVIOUS
<1> QED BY <1>3, <1>4 DEF V

(* g follows F upwards from a, or downwards.                               *)
Ascends(g, F, n, a) ==
    g[0] = a /\ \A i \in 1..n : g[i] = F[<<i, g[i - 1]>>]
Descends(g, F, n, a) ==
    g[n + 1] = a /\ \A i \in 1..n : g[i] = F[<<i, g[i + 1]>>]

(* A recursion over 0..n has a solution.                                   *)
LEMMA StepsUp ==
    ASSUME NEW S, NEW n \in Nat, NEW a \in S, NEW F \in [(1..n) \X S -> S]
    PROVE  \E g \in [0..n -> S] : Ascends(g, F, n, a)
<1> DEFINE Good(g, k) == g[0] = a /\ \A i \in 1..k : g[i] = F[<<i, g[i - 1]>>]
           T == {k \in 0..n : \E g \in [0..k -> S] : Good(g, k)}
<1>1. 0 \in T
  <2> DEFINE g == [i \in 0..0 |-> a]
  <2>1. g \in [0..0 -> S] /\ Good(g, 0) /\ 0 \in 0..n
    OBVIOUS
  <2> HIDE DEF g, Good
  <2> QED BY <2>1
<1>2. \A k \in 0..n-1 : k \in T => k + 1 \in T
  <2> TAKE k \in 0..n-1
  <2> HAVE k \in T
  <2>1. PICK g \in [0..k -> S] : Good(g, k)
    OBVIOUS
  <2> DEFINE v == F[<<k + 1, g[k]>>]
             h == [i \in 0..k+1 |-> IF i = k + 1 THEN v ELSE g[i]]
  <2>2. g[k] \in S /\ k + 1 \in 1..n /\ k + 1 \in 0..n
    OBVIOUS
  <2>3. v \in S
    BY <2>2
  <2>4. h \in [0..k+1 -> S]
    BY <2>3
  <2>5. h[0] = a
    BY <2>1
  <2>6. \A i \in 1..k+1 : h[i] = F[<<i, h[i - 1]>>]
    <3> TAKE i \in 1..k+1
    <3>1. CASE i = k + 1
      <4>1. h[i] = v /\ h[i - 1] = g[k]
        BY <3>1
      <4> QED BY <3>1, <4>1
    <3>2. CASE i # k + 1
      <4>1. i \in 1..k /\ h[i] = g[i] /\ h[i - 1] = g[i - 1]
        BY <3>2
      <4> QED BY <2>1, <4>1
    <3> QED BY <3>1, <3>2
  <2> HIDE DEF h
  <2> QED BY <2>2, <2>4, <2>5, <2>6
<1> HIDE DEF T
<1>3. n \in T
  BY <1>1, <1>2, ReachedUpwards
<1> QED BY <1>3 DEF T, Ascends

(* So has a recursion downwards.                                           *)
LEMMA StepsDown ==
    ASSUME NEW S, NEW n \in Nat, NEW a \in S, NEW F \in [(1..n) \X S -> S]
    PROVE  \E g \in [1..n+1 -> S] : Descends(g, F, n, a)
<1> DEFINE R == [p \in (1..n) \X S |-> F[<<n + 1 - p[1], p[2]>>]]
<1>0. \A i \in 1..n : n + 1 - i \in 1..n
  OBVIOUS
<1>1. R \in [(1..n) \X S -> S]
  BY <1>0
<1>2. \A i \in 1..n, x \in S : R[<<i, x>>] = F[<<n + 1 - i, x>>]
  OBVIOUS
<1> HIDE DEF R
<1>a. \E h \in [0..n -> S] : Ascends(h, R, n, a)
  BY <1>1, StepsUp
<1>3. PICK h \in [0..n -> S] :
         h[0] = a /\ \A i \in 1..n : h[i] = R[<<i, h[i - 1]>>]
  BY <1>a DEF Ascends
<1> DEFINE g == [i \in 1..n+1 |-> h[n + 1 - i]]
<1>4. g \in [1..n+1 -> S]
  OBVIOUS
<1>5. g[n + 1] = a
  BY <1>3
<1>6. \A i \in 1..n : g[i] = F[<<i, g[i + 1]>>]
  <2> TAKE i \in 1..n
  <2> DEFINE j == n + 1 - i
  <2>1. j \in 1..n /\ n + 1 - j = i /\ n + 1 - (i + 1) = j - 1 /\ j - 1 \in 0..n
        /\ i \in 1..n+1 /\ i + 1 \in 1..n+1
    OBVIOUS
  <2>2. g[i] = h[j] /\ g[i + 1] = h[j - 1]
    BY <2>1
  <2> HIDE DEF j
  <2>3. h[j] = R[<<j, h[j - 1]>>] /\ h[j - 1] \in S
    BY <1>3, <2>1
  <2>4. R[<<j, h[j - 1]>>] = F[<<n + 1 - j, h[j - 1]>>]
    BY <1>2, <2>1, <2>3
  <2> QED BY <2>1, <2>2, <2>3, <2>4
<1> HIDE DEF g
<1> QED BY <1>4, <1>5, <1>6 DEF Descends

-----------------------------------------------------------------------------
(* The recursion.                                                          *)

Pick(s) == CHOOSE x \in s : TRUE

(* it is the sum of f over the sets below S, by the equation of the fold.  *)
SumsUp(it, f, S) ==
    it = [s \in SUBSET S |-> IF s = {} THEN 0
                             ELSE f[Pick(s)] + it[s \ {Pick(s)}]]

(* A picked element is an element.                                         *)
LEMMA PickIsMember == ASSUME NEW s, s # {} PROVE Pick(s) \in s
BY DEF Pick

(* The sum is what a function chosen by the equation has at the whole set. *)
LEMMA SumIsChosen ==
    ASSUME NEW f, NEW S
    PROVE  SumFunctionOnSet(f, S) = (CHOOSE it : SumsUp(it, f, S))[S]
BY DEF SumFunctionOnSet, FoldFunctionOnSet, MapThenFoldSet, SumsUp, Pick

(* Some function satisfies the equation: it is built up from the smaller   *)
(* sets to the larger ones.                                                *)
LEMMA SumsUpExists ==
    ASSUME NEW S, IsFiniteSet(S), NEW f, \A x \in S : f[x] \in Int
    PROVE  \E it : SumsUp(it, f, S)
<1> DEFINE Below(n) == {s \in SUBSET S : Cardinality(s) <= n}
           Solves(g, n) ==
             \A s \in Below(n) :
                 g[s] = IF s = {} THEN 0 ELSE f[Pick(s)] + g[s \ {Pick(s)}]
           Bad == {n \in Nat : ~ \E g \in [Below(n) -> Int] : Solves(g, n)}
<1>f. \A s \in SUBSET S : IsFiniteSet(s) /\ Cardinality(s) \in Nat
                          /\ Cardinality(s) <= Cardinality(S)
  BY FS_Subset, FS_CardinalityType
<1>1. 0 \notin Bad
  <2>1. \A s \in Below(0) : s = {}
    BY <1>f, FS_EmptySet
  <2>2. [s \in Below(0) |-> 0] \in [Below(0) -> Int]
    OBVIOUS
  <2>3. Solves([s \in Below(0) |-> 0], 0)
    BY <2>1
  <2> QED BY <2>2, <2>3
<1>2. ASSUME NEW n \in Nat, n \notin Bad PROVE n + 1 \notin Bad
  <2>1. PICK g \in [Below(n) -> Int] : Solves(g, n)
    BY <1>2
  <2> DEFINE h == [s \in Below(n + 1) |->
                     IF s = {} THEN 0 ELSE f[Pick(s)] + g[s \ {Pick(s)}]]
  <2>2. \A s \in Below(n + 1) : s # {} =>
           /\ Pick(s) \in S
           /\ s \ {Pick(s)} \in Below(n)
    <3> SUFFICES ASSUME NEW s \in Below(n + 1), s # {}
                 PROVE  Pick(s) \in S /\ s \ {Pick(s)} \in Below(n)
      OBVIOUS
    <3>1. Pick(s) \in s
      BY PickIsMember
    <3>2. Cardinality(s \ {Pick(s)}) = Cardinality(s) - 1
      BY <3>1, <1>f, SmallerSet
    <3> QED BY <3>1, <3>2, <1>f
  <2>3. h \in [Below(n + 1) -> Int]
    BY <2>1, <2>2
  <2>4. \A s \in Below(n) : s \in Below(n + 1) /\ h[s] = g[s]
    BY <2>1, <1>f
  <2>5. Solves(h, n + 1)
    BY <2>2, <2>4
  <2> QED BY <2>3, <2>5
<1>3. Bad = {}
  <2> SUFFICES ASSUME Bad # {} PROVE FALSE
    OBVIOUS
  <2> HIDE DEF Solves
  <2>1. PICK n \in Bad : \A m \in Bad : n <= m
    <3>1. Bad \in SUBSET Nat
      OBVIOUS
    <3> HIDE DEF Bad
    <3> QED BY <3>1, LeastElement
  <2>2. n \in Nat /\ n # 0
    BY <1>1
  <2>3. n - 1 \in Nat /\ n - 1 \notin Bad /\ (n - 1) + 1 = n
    <3>1. n - 1 \in Nat /\ ~(n <= n - 1) /\ (n - 1) + 1 = n
      BY <2>2
    <3> QED BY <3>1, <2>1
  <2> HIDE DEF Bad
  <2>4. n \notin Bad
    BY <2>3, <1>2
  <2> QED BY <2>1, <2>4
<1>4. PICK g \in [Below(Cardinality(S)) -> Int] : Solves(g, Cardinality(S))
  <2>1. Cardinality(S) \in Nat
    BY FS_CardinalityType
  <2> QED BY <1>3, <2>1
<1>5. Below(Cardinality(S)) = SUBSET S
  BY <1>f
<1>6. SumsUp(g, f, S)
  BY <1>4, <1>5 DEF SumsUp
<1> QED BY <1>6

(* Functions that satisfy the equation below two sets agree on the sets    *)
(* below both, and their values are integers.                              *)
LEMMA SumsUpAgree ==
    ASSUME NEW S, IsFiniteSet(S), NEW T \in SUBSET S,
           NEW f, \A x \in S : f[x] \in Int,
           NEW g, SumsUp(g, f, S), NEW h, SumsUp(h, f, T)
    PROVE  \A s \in SUBSET T : g[s] = h[s] /\ g[s] \in Int
<1> DEFINE Bad == {s \in SUBSET T : ~(g[s] = h[s] /\ g[s] \in Int)}
<1>f. \A s \in SUBSET T : IsFiniteSet(s) /\ s \in SUBSET S
  BY FS_Subset
<1> SUFFICES ASSUME Bad # {} PROVE FALSE
  OBVIOUS
<1>1. PICK s \in Bad : \A t \in Bad : Cardinality(s) <= Cardinality(t)
  BY <1>f, SmallestSet
<1>2. s \in SUBSET T /\ s \in SUBSET S /\ IsFiniteSet(s)
  BY <1>f
<1>3. CASE s = {}
  BY <1>2, <1>3 DEF SumsUp
<1>4. CASE s # {}
  <2> DEFINE p == Pick(s)
  <2>1. p \in s
    BY <1>4, PickIsMember
  <2>2. /\ g[s] = f[p] + g[s \ {p}]
        /\ h[s] = f[p] + h[s \ {p}]
    BY <1>2, <1>4 DEF SumsUp
  <2> HIDE DEF p
  <2>3. s \ {p} \notin Bad
    <3>1. /\ Cardinality(s \ {p}) = Cardinality(s) - 1
          /\ Cardinality(s) \in Nat
      BY <1>2, <2>1, SmallerSet
    <3>2. ~(Cardinality(s) <= Cardinality(s \ {p}))
      BY <3>1
    <3> QED BY <1>1, <3>2
  <2>4. g[s \ {p}] = h[s \ {p}] /\ g[s \ {p}] \in Int
    BY <1>2, <2>3
  <2>5. f[p] \in Int
    BY <1>2, <2>1
  <2> QED BY <1>1, <2>2, <2>4, <2>5
<1> QED BY <1>3, <1>4

(* The sum over a finite set: nothing for the empty set, otherwise one     *)
(* entry and the sum over the others.                                      *)
LEMMA SumRecursion ==
    ASSUME NEW S, IsFiniteSet(S), NEW f, \A x \in S : f[x] \in Int
    PROVE  /\ SumFunctionOnSet(f, S) \in Int
           /\ S = {} => SumFunctionOnSet(f, S) = 0
           /\ S # {} => SumFunctionOnSet(f, S)
                          = f[Pick(S)] + SumFunctionOnSet(f, S \ {Pick(S)})
<1> DEFINE g == CHOOSE it : SumsUp(it, f, S)
<1>1. SumsUp(g, f, S)
  BY SumsUpExists
<1>2. SumFunctionOnSet(f, S) = g[S]
  BY SumIsChosen
<1> HIDE DEF g
<1>3. g[S] \in Int
  BY <1>1, SumsUpAgree
<1>4. S = {} => g[S] = 0
  BY <1>1 DEF SumsUp
<1>5. ASSUME S # {} PROVE g[S] = f[Pick(S)] + SumFunctionOnSet(f, S \ {Pick(S)})
  <2> DEFINE T == S \ {Pick(S)}
             h == CHOOSE it : SumsUp(it, f, T)
  <2>1. T \in SUBSET S /\ IsFiniteSet(T) /\ \A x \in T : f[x] \in Int
    BY FS_Subset
  <2>2. SumsUp(h, f, T)
    <3> HIDE DEF T
    <3> QED BY <2>1, SumsUpExists
  <2>3. SumFunctionOnSet(f, T) = h[T]
    BY SumIsChosen
  <2>4. g[S] = f[Pick(S)] + g[T]
    BY <1>1, <1>5 DEF SumsUp
  <2> HIDE DEF T, h
  <2>5. g[T] = h[T]
    BY <1>1, <2>1, <2>2, SumsUpAgree
  <2> QED BY <2>3, <2>4, <2>5 DEF T
<1> QED BY <1>2, <1>3, <1>4, <1>5

-----------------------------------------------------------------------------
(* The order in which the entries are taken does not matter.               *)

(* Any one entry can be split off a sum.                                   *)
LEMMA SumSplit ==
    ASSUME NEW S, IsFiniteSet(S), NEW f, \A x \in S : f[x] \in Int
    PROVE  \A s \in SUBSET S : \A x \in s :
              SumFunctionOnSet(f, s) = f[x] + SumFunctionOnSet(f, s \ {x})
<1> DEFINE Sum(s) == SumFunctionOnSet(f, s)
           Bad == {s \in SUBSET S : \E x \in s : Sum(s) # f[x] + Sum(s \ {x})}
<1>f. \A s \in SUBSET S : IsFiniteSet(s) /\ \A x \in s : f[x] \in Int
  BY FS_Subset
<1> SUFFICES ASSUME Bad # {} PROVE FALSE
  OBVIOUS
<1>1. PICK s \in Bad : \A t \in Bad : Cardinality(s) <= Cardinality(t)
  BY <1>f, SmallestSet
<1>2. s \in SUBSET S /\ IsFiniteSet(s)
  BY <1>f
<1>3. PICK x \in s : Sum(s) # f[x] + Sum(s \ {x})
  BY <1>1
<1> DEFINE p == Pick(s)
<1>4. p \in s
  BY <1>3, PickIsMember
<1>5. Sum(s) = f[p] + Sum(s \ {p})
  BY <1>f, <1>2, <1>3, SumRecursion
<1>6. \A y \in s : s \ {y} \in SUBSET S /\ s \ {y} \notin Bad
  <2> SUFFICES ASSUME NEW y \in s PROVE s \ {y} \notin Bad
    BY <1>2
  <2>1. /\ Cardinality(s \ {y}) = Cardinality(s) - 1
        /\ Cardinality(s) \in Nat
    BY <1>2, SmallerSet
  <2>2. ~(Cardinality(s) <= Cardinality(s \ {y}))
    BY <2>1
  <2> HIDE DEF Bad
  <2> QED BY <1>1, <2>2
<1> HIDE DEF p
<1>7. p # x
  BY <1>3, <1>5
<1>8. Sum(s \ {p}) = f[x] + Sum((s \ {p}) \ {x})
  BY <1>3, <1>4, <1>6, <1>7
<1>9. Sum(s \ {x}) = f[p] + Sum((s \ {x}) \ {p})
  BY <1>3, <1>4, <1>6, <1>7
<1>10. (s \ {x}) \ {p} = (s \ {p}) \ {x}
  OBVIOUS
<1>11. Sum((s \ {p}) \ {x}) \in Int /\ f[x] \in Int /\ f[p] \in Int
  <2>1. /\ (s \ {p}) \ {x} \in SUBSET S
    BY <1>2
  <2>2. Sum((s \ {p}) \ {x}) \in Int
    BY <2>1, <1>f, SumRecursion
  <2> QED BY <2>2, <1>2, <1>4, <1>3
<1> HIDE DEF Sum, Bad
<1>12. \A l, m, n \in Int : l + (m + n) = m + (l + n)
  OBVIOUS
<1>13. Sum(s) = f[x] + (f[p] + Sum((s \ {p}) \ {x}))
  BY <1>5, <1>8, <1>11, <1>12
<1> QED BY <1>3, <1>9, <1>10, <1>13

(* A sum depends on nothing but the entries it ranges over.                *)
LEMMA SumSame ==
    ASSUME NEW S, IsFiniteSet(S), NEW f, NEW g,
           \A x \in S : f[x] \in Int /\ g[x] = f[x]
    PROVE  SumFunctionOnSet(g, S) = SumFunctionOnSet(f, S)
<1>1. \A it : SumsUp(it, g, S) <=> SumsUp(it, f, S)
  <2> SUFFICES ASSUME NEW it
      PROVE  [s \in SUBSET S |-> IF s = {} THEN 0
                                 ELSE g[Pick(s)] + it[s \ {Pick(s)}]]
           = [s \in SUBSET S |-> IF s = {} THEN 0
                                 ELSE f[Pick(s)] + it[s \ {Pick(s)}]]
    BY DEF SumsUp
  <2>1. \A s \in SUBSET S : s # {} => g[Pick(s)] = f[Pick(s)]
    BY PickIsMember
  <2> QED BY <2>1
<1>2. (CHOOSE it : SumsUp(it, g, S)) = (CHOOSE it : SumsUp(it, f, S))
  BY <1>1
<1> QED BY <1>2, SumIsChosen

(* A sum of zeros is zero.                                                 *)
LEMMA SumZero ==
    ASSUME NEW S, IsFiniteSet(S), NEW f, \A x \in S : f[x] = 0
    PROVE  SumFunctionOnSet(f, S) = 0
<1> DEFINE Sum(s) == SumFunctionOnSet(f, s)
           Bad == {s \in SUBSET S : Sum(s) # 0}
<1>f. \A s \in SUBSET S : IsFiniteSet(s) /\ \A x \in s : f[x] \in Int
  BY FS_Subset
<1> SUFFICES ASSUME Bad # {} PROVE FALSE
  OBVIOUS
<1>1. PICK s \in Bad : \A t \in Bad : Cardinality(s) <= Cardinality(t)
  BY <1>f, SmallestSet
<1>2. s \in SUBSET S /\ IsFiniteSet(s)
  BY <1>f
<1> DEFINE p == Pick(s)
<1>3. s # {} /\ Sum(s) = f[p] + Sum(s \ {p})
  BY <1>1, <1>f, <1>2, SumRecursion
<1>4. p \in s
  BY <1>3, PickIsMember
<1> HIDE DEF p
<1>5. s \ {p} \notin Bad
  <2>1. /\ Cardinality(s \ {p}) = Cardinality(s) - 1
        /\ Cardinality(s) \in Nat
    BY <1>2, <1>4, SmallerSet
  <2>2. ~(Cardinality(s) <= Cardinality(s \ {p}))
    BY <2>1
  <2> HIDE DEF Bad
  <2> QED BY <1>1, <2>2
<1>6. Sum(s \ {p}) = 0 /\ f[p] = 0
  BY <1>2, <1>4, <1>5
<1> HIDE DEF Sum
<1> QED BY <1>1, <1>3, <1>6

-----------------------------------------------------------------------------
(* How the sum of a map changes.                                           *)

(* The sum of a finite map of integers is an integer.                      *)
LEMMA SumType ==
    ASSUME NEW S, IsFiniteSet(S), NEW f \in [S -> Int]
    PROVE  SumFunction(f) \in Int
BY SumRecursion DEF SumFunction

(* An entry is added under a new key (or, read backwards, removed).        *)
LEMMA SumAdd ==
    ASSUME NEW S, IsFiniteSet(S), NEW x, x \notin S,
           NEW f \in [S -> Int], NEW g \in [S \cup {x} -> Int],
           \A y \in S : g[y] = f[y]
    PROVE  SumFunction(g) = SumFunction(f) + g[x]
<1>1. IsFiniteSet(S \cup {x}) /\ (S \cup {x}) \ {x} = S
  BY FS_AddElement
<1>2. SumFunctionOnSet(g, S \cup {x}) = g[x] + SumFunctionOnSet(g, S)
  BY <1>1, SumSplit
<1>3. SumFunctionOnSet(g, S) = SumFunctionOnSet(f, S)
  BY SumSame
<1>4. SumFunctionOnSet(f, S) \in Int /\ g[x] \in Int
  BY SumRecursion
<1> QED BY <1>2, <1>3, <1>4 DEF SumFunction

(* One entry changes its value.                                            *)
LEMMA SumChange ==
    ASSUME NEW S, IsFiniteSet(S), NEW x \in S,
           NEW f \in [S -> Int], NEW g \in [S -> Int],
           \A y \in S \ {x} : g[y] = f[y]
    PROVE  SumFunction(g) = SumFunction(f) - f[x] + g[x]
<1>1. IsFiniteSet(S \ {x})
  BY FS_RemoveElement
<1>2. /\ SumFunctionOnSet(f, S) = f[x] + SumFunctionOnSet(f, S \ {x})
      /\ SumFunctionOnSet(g, S) = g[x] + SumFunctionOnSet(g, S \ {x})
  BY SumSplit
<1>3. SumFunctionOnSet(g, S \ {x}) = SumFunctionOnSet(f, S \ {x})
  BY <1>1, SumSame
<1>4. /\ SumFunctionOnSet(f, S \ {x}) \in Int
      /\ f[x] \in Int /\ g[x] \in Int
  BY <1>1, SumRecursion
<1> QED BY <1>2, <1>3, <1>4 DEF SumFunction

(* A map of zeros, the empty one among them, sums up to zero.              *)
LEMMA SumOfZeros ==
    ASSUME NEW S, IsFiniteSet(S), NEW f \in [S -> Int], \A x \in S : f[x] = 0
    PROVE  SumFunction(f) = 0
BY SumZero DEF SumFunction

-----------------------------------------------------------------------------
(* What FlattenSeq of module SequencesExt computes.                        *)

(* fl joins the first sequences, by the equation of FlattenSeq.            *)
Flattens(fl, seqs) ==
    fl = [i \in 1..Len(seqs) |-> IF i = 1 THEN seqs[i] ELSE fl[i - 1] \o seqs[i]]

(* The result is what a function chosen by the equation has at the end.    *)
LEMMA FlattenIsChosen ==
    ASSUME NEW seqs, Len(seqs) # 0
    PROVE  FlattenSeq(seqs) = (CHOOSE fl : Flattens(fl, seqs))[Len(seqs)]
BY DEF FlattenSeq, Flattens

(* Some function satisfies the equation: it is extended one sequence at a  *)
(* time.                                                                   *)
LEMMA FlattensExists ==
    ASSUME NEW A, NEW seqs \in Seq(Seq(A))
    PROVE  \E fl \in [1..Len(seqs) -> Seq(A)] : Flattens(fl, seqs)
<1> DEFINE Solves(g, n) ==
             \A i \in 1..n : g[i] = IF i = 1 THEN seqs[i] ELSE g[i - 1] \o seqs[i]
           Bad == {n \in Nat : n <= Len(seqs)
                               /\ ~ \E g \in [1..n -> Seq(A)] : Solves(g, n)}
<1>l. Len(seqs) \in Nat /\ \A i \in 1..Len(seqs) : seqs[i] \in Seq(A)
  OBVIOUS
<1>1. 0 \notin Bad
  <2>1. [i \in 1..0 |-> << >>] \in [1..0 -> Seq(A)]
    OBVIOUS
  <2>2. Solves([i \in 1..0 |-> << >>], 0)
    OBVIOUS
  <2> QED BY <2>1, <2>2
<1>2. ASSUME NEW n \in Nat, n \notin Bad, n + 1 <= Len(seqs)
      PROVE  n + 1 \notin Bad
  <2>1. PICK g \in [1..n -> Seq(A)] : Solves(g, n)
    <3>1. n <= Len(seqs)
      BY <1>2, <1>l
    <3> HIDE DEF Solves
    <3> QED BY <1>2, <3>1
  <2> DEFINE h == [i \in 1..(n + 1) |->
                     IF i = 1 THEN seqs[i] ELSE g[i - 1] \o seqs[i]]
  <2>2. \A i \in 1..(n + 1) : seqs[i] \in Seq(A)
                              /\ (i = 1 \/ (i - 1 \in 1..n /\ g[i - 1] \in Seq(A)))
    BY <1>2, <1>l
  <2>3. h \in [1..(n + 1) -> Seq(A)]
    <3>1. \A i \in 1..(n + 1) :
             (IF i = 1 THEN seqs[i] ELSE g[i - 1] \o seqs[i]) \in Seq(A)
      BY <2>2
    <3> QED BY <3>1
  <2>4. \A i \in 1..n : i \in 1..(n + 1) /\ h[i] = g[i]
    <3> SUFFICES ASSUME NEW i \in 1..n PROVE i \in 1..(n + 1) /\ h[i] = g[i]
      OBVIOUS
    <3>1. i \in 1..(n + 1)
      OBVIOUS
    <3>2. g[i] = IF i = 1 THEN seqs[i] ELSE g[i - 1] \o seqs[i]
      BY <2>1
    <3> QED BY <3>1, <3>2
  <2>5. Solves(h, n + 1)
    <3> SUFFICES ASSUME NEW i \in 1..(n + 1)
        PROVE  h[i] = IF i = 1 THEN seqs[i] ELSE h[i - 1] \o seqs[i]
      OBVIOUS
    <3>1. h[i] = IF i = 1 THEN seqs[i] ELSE g[i - 1] \o seqs[i]
      OBVIOUS
    <3>2. i = 1 \/ h[i - 1] = g[i - 1]
      BY <2>2, <2>4
    <3> HIDE DEF h
    <3> QED BY <3>1, <3>2
  <2> HIDE DEF Solves, h
  <2> QED BY <2>3, <2>5
<1>3. Bad = {}
  <2> SUFFICES ASSUME Bad # {} PROVE FALSE
    OBVIOUS
  <2> HIDE DEF Solves
  <2>1. PICK n \in Bad : \A m \in Bad : n <= m
    <3>1. Bad \in SUBSET Nat
      OBVIOUS
    <3> HIDE DEF Bad
    <3> QED BY <3>1, LeastElement
  <2>2. n \in Nat /\ n # 0 /\ n <= Len(seqs)
    BY <1>1
  <2>3. n - 1 \in Nat /\ n - 1 \notin Bad /\ (n - 1) + 1 = n
    <3>1. n - 1 \in Nat /\ ~(n <= n - 1) /\ (n - 1) + 1 = n
      BY <2>2
    <3> QED BY <3>1, <2>1
  <2> HIDE DEF Bad
  <2>4. n \notin Bad
    BY <2>2, <2>3, <1>2
  <2> QED BY <2>1, <2>4
<1>4. PICK g \in [1..Len(seqs) -> Seq(A)] : Solves(g, Len(seqs))
  <2>1. Len(seqs) \in Nat /\ Len(seqs) <= Len(seqs) /\ Len(seqs) \notin Bad
    <3> HIDE DEF Bad
    <3> QED BY <1>3, <1>l
  <2> HIDE DEF Solves
  <2> QED BY <2>1
<1>5. Flattens(g, seqs)
  <2>1. g = [i \in 1..Len(seqs) |-> g[i]]
    OBVIOUS
  <2>2. \A i \in 1..Len(seqs) :
           g[i] = IF i = 1 THEN seqs[i] ELSE g[i - 1] \o seqs[i]
    BY <1>4
  <2> QED BY <2>1, <2>2 DEF Flattens
<1> QED BY <1>5

(* The recursion of FlattenSeq.                                            *)
LEMMA FlattenRecursion ==
    ASSUME NEW A, NEW seqs \in Seq(Seq(A)), Len(seqs) # 0
    PROVE  \E fl \in [1..Len(seqs) -> Seq(A)] :
              /\ FlattenSeq(seqs) = fl[Len(seqs)]
              /\ fl[1] = seqs[1]
              /\ \A i \in 2..Len(seqs) : fl[i] = fl[i - 1] \o seqs[i]
<1> DEFINE fl == CHOOSE f : Flattens(f, seqs)
<1>1. PICK g \in [1..Len(seqs) -> Seq(A)] : Flattens(g, seqs)
  BY FlattensExists
<1>2. Flattens(fl, seqs) /\ FlattenSeq(seqs) = fl[Len(seqs)]
  BY <1>1, FlattenIsChosen
<1> HIDE DEF fl
<1>l. Len(seqs) \in Nat /\ \A i \in 1..Len(seqs) : seqs[i] \in Seq(A)
  OBVIOUS
<1>3. /\ fl = [i \in 1..Len(seqs) |-> fl[i]]
      /\ \A i \in 1..Len(seqs) :
           fl[i] = IF i = 1 THEN seqs[i] ELSE fl[i - 1] \o seqs[i]
  BY <1>2 DEF Flattens
<1> DEFINE Bad == {i \in 1..Len(seqs) : fl[i] \notin Seq(A)}
<1>4. Bad = {}
  <2> SUFFICES ASSUME Bad # {} PROVE FALSE
    OBVIOUS
  <2>1. PICK n \in Bad : \A m \in Bad : n <= m
    <3>1. Bad \in SUBSET Nat
      BY <1>l
    <3> HIDE DEF Bad
    <3> QED BY <3>1, LeastElement
  <2>2. n \in 1..Len(seqs) /\ n # 1
    BY <1>3, <1>l
  <2>3. n - 1 \in 1..Len(seqs) /\ ~(n <= n - 1)
    BY <2>2, <1>l
  <2>4. fl[n - 1] \in Seq(A)
    BY <2>1, <2>3
  <2>5. fl[n] = fl[n - 1] \o seqs[n] /\ seqs[n] \in Seq(A)
    BY <2>2, <1>3, <1>l
  <2>6. fl[n] \in Seq(A)
    BY <2>4, <2>5
  <2> QED BY <2>1, <2>6
<1>5. fl \in [1..Len(seqs) -> Seq(A)]
  BY <1>3, <1>4
<1>n. \A n \in Nat : n # 0 => 1 \in 1..n /\ \A i \in 2..n : i \in 1..n /\ i # 1
  OBVIOUS
<1>6. \A i \in 2..Len(seqs) : fl[i] = fl[i - 1] \o seqs[i]
  <2> SUFFICES ASSUME NEW i \in 2..Len(seqs)
               PROVE  fl[i] = fl[i - 1] \o seqs[i]
    OBVIOUS
  <2>1. i \in 1..Len(seqs) /\ i # 1
    BY <1>l, <1>n
  <2> QED BY <1>3, <2>1
<1>7. fl[1] = seqs[1]
  <2>1. 1 \in 1..Len(seqs)
    BY <1>l, <1>n
  <2> QED BY <1>3, <2>1
<1> QED BY <1>2, <1>5, <1>6, <1>7

(* Flattening sequences of elements of A gives a sequence of them.         *)
LEMMA FlattenType ==
    ASSUME NEW A, NEW seqs \in Seq(Seq(A))
    PROVE  FlattenSeq(seqs) \in Seq(A)
<1>1. CASE Len(seqs) = 0
  <2>1. FlattenSeq(seqs) = seqs /\ seqs = << >>
    BY <1>1 DEF FlattenSeq
  <2> QED BY <2>1
<1>2. CASE Len(seqs) # 0
  <2>1. Len(seqs) \in 1..Len(seqs)
    BY <1>2
  <2>2. PICK fl \in [1..Len(seqs) -> Seq(A)] : FlattenSeq(seqs) = fl[Len(seqs)]
    BY <1>2, FlattenRecursion
  <2> QED BY <2>1, <2>2
<1> QED BY <1>1, <1>2

(* One more sequence comes last.                                           *)
LEMMA FlattenAppend ==
    ASSUME NEW A, NEW seqs \in Seq(Seq(A)), NEW x \in Seq(A)
    PROVE  FlattenSeq(Append(seqs, x)) = FlattenSeq(seqs) \o x
<1> DEFINE P    == Seq(A)
           n    == Len(seqs)
           more == Append(seqs, x)
<1>1. seqs \in Seq(P) /\ x \in P
  OBVIOUS
<1> HIDE DEF P
<1>2. /\ n \in Nat /\ more \in Seq(P) /\ Len(more) = n + 1 /\ more[n + 1] = x
      /\ \A i \in 1..n : more[i] = seqs[i]
  BY <1>1
<1> HIDE DEF n, more
<1>3. more \in Seq(Seq(A)) /\ Len(more) # 0
  BY <1>2 DEF P
<1>4. PICK g \in [1..Len(more) -> Seq(A)] :
         /\ FlattenSeq(more) = g[Len(more)]
         /\ g[1] = more[1]
         /\ \A i \in 2..Len(more) : g[i] = g[i - 1] \o more[i]
  BY <1>3, FlattenRecursion
<1>5. CASE n = 0
  <2>1. FlattenSeq(more) = x
    BY <1>2, <1>4, <1>5
  <2>2. FlattenSeq(seqs) = seqs /\ seqs = << >>
    <3>1. Len(seqs) = 0
      BY <1>5 DEF n
    <3> QED BY <3>1 DEF FlattenSeq
  <2>3. << >> \o x = x
    OBVIOUS
  <2> QED BY <2>1, <2>2, <2>3 DEF more
<1>6. CASE n # 0
  <2>1. PICK f \in [1..n -> Seq(A)] :
           /\ FlattenSeq(seqs) = f[n]
           /\ f[1] = seqs[1]
           /\ \A i \in 2..n : f[i] = f[i - 1] \o seqs[i]
    BY <1>6, FlattenRecursion DEF n
  <2> DEFINE Bad == {i \in 1..n : f[i] # g[i]}
  <2>2. Bad = {}
    <3> SUFFICES ASSUME Bad # {} PROVE FALSE
      OBVIOUS
    <3>1. PICK k \in Bad : \A m \in Bad : k <= m
      <4>1. Bad \in SUBSET Nat
        BY <1>2
      <4> HIDE DEF Bad
      <4> QED BY <4>1, LeastElement
    <3>2. k \in 1..n /\ f[k] # g[k]
      OBVIOUS
    <3>3. k # 1
      BY <1>2, <1>4, <2>1, <3>2
    <3>4. /\ k \in 2..n /\ k \in 2..Len(more) /\ k - 1 \in 1..n
          /\ ~(k <= k - 1)
      BY <1>2, <3>2, <3>3
    <3>5. f[k - 1] = g[k - 1]
      BY <3>1, <3>4
    <3>6. f[k] = f[k - 1] \o seqs[k] /\ g[k] = g[k - 1] \o more[k]
      BY <1>4, <2>1, <3>4
    <3>7. more[k] = seqs[k]
      BY <1>2, <3>2
    <3> QED BY <3>2, <3>5, <3>6, <3>7
  <2>3. f[n] = g[n]
    <3>1. n \in 1..n
      BY <1>2, <1>6
    <3> QED BY <2>2, <3>1
  <2>4. g[n + 1] = g[n] \o x
    <3>1. n + 1 \in 2..Len(more) /\ (n + 1) - 1 = n
      BY <1>2, <1>6
    <3> QED BY <1>2, <1>4, <3>1
  <2> QED BY <1>2, <1>4, <2>1, <2>3, <2>4 DEF more
<1> QED BY <1>5, <1>6
=============================================================================
