-------------------------- MODULE MarketDataProofs --------------------------
(***************************************************************************)
(* Theorems about the start of the program and the market data feed:       *)
(* every path the mapper returns closes up, every market of every path is  *)
(* followed on one session, assets without a price are valued lowest, and  *)
(* once the messages are handled the engine holds no quote that the        *)
(* exchange has replaced.                                                  *)
(***************************************************************************)
EXTENDS MarketData, SumProofs, SequenceTheorems

-----------------------------------------------------------------------------
(* The folds of the model: Listed.                                         *)

(* it lists the sets below S, by the equation of the fold.                 *)
Lists(it, S) ==
    it = [s \in SUBSET S |-> IF s = {} THEN << >>
                             ELSE Append(it[s \ {Pick(s)}], Pick(s))]

(* The list is what a function chosen by the equation has at the whole     *)
(* set.                                                                    *)
LEMMA ListedIsChosen ==
    ASSUME NEW S
    PROVE  Listed(S) = (CHOOSE it : Lists(it, S))[S]
BY DEF Listed, FoldSet, MapThenFoldSet, Lists, Pick

(* Some function satisfies the equation.                                   *)
LEMMA ListsExists ==
    ASSUME NEW S, IsFiniteSet(S)
    PROVE  \E it : Lists(it, S)
<1> DEFINE Below(n) == {s \in SUBSET S : Cardinality(s) <= n}
           Solves(g, n) ==
             \A s \in Below(n) :
                 g[s] = IF s = {} THEN << >>
                        ELSE Append(g[s \ {Pick(s)}], Pick(s))
           Bad == {n \in Nat : ~ \E g \in [Below(n) -> Seq(S)] : Solves(g, n)}
<1>f. \A s \in SUBSET S : IsFiniteSet(s) /\ Cardinality(s) \in Nat
                          /\ Cardinality(s) <= Cardinality(S)
  BY FS_Subset, FS_CardinalityType
<1>1. 0 \notin Bad
  <2>1. \A s \in Below(0) : s = {}
    BY <1>f, FS_EmptySet
  <2>2. [s \in Below(0) |-> << >>] \in [Below(0) -> Seq(S)]
    OBVIOUS
  <2>3. Solves([s \in Below(0) |-> << >>], 0)
    BY <2>1
  <2> QED BY <2>2, <2>3
<1>2. ASSUME NEW n \in Nat, n \notin Bad PROVE n + 1 \notin Bad
  <2>1. PICK g \in [Below(n) -> Seq(S)] : Solves(g, n)
    BY <1>2
  <2> DEFINE h == [s \in Below(n + 1) |->
                     IF s = {} THEN << >>
                     ELSE Append(g[s \ {Pick(s)}], Pick(s))]
  <2>2. \A s \in Below(n + 1) : s # {} =>
           /\ Pick(s) \in S
           /\ s \ {Pick(s)} \in Below(n)
    <3> SUFFICES ASSUME NEW s \in Below(n + 1), s # {}
                 PROVE  Pick(s) \in S /\ s \ {Pick(s)} \in Below(n)
      OBVIOUS
    <3>1. Pick(s) \in s
      BY PickIsMember
    <3>2. Cardinality(s \ {Pick(s)}) = Cardinality(s) - 1
      BY <3>1, <1>f, SmallerSet
    <3> QED BY <3>1, <3>2, <1>f
  <2>3. h \in [Below(n + 1) -> Seq(S)]
    BY <2>1, <2>2
  <2>4. \A s \in Below(n) : s \in Below(n + 1) /\ h[s] = g[s]
    <3> SUFFICES ASSUME NEW s \in Below(n)
                 PROVE  s \in Below(n + 1) /\ h[s] = g[s]
      OBVIOUS
    <3>1. s \in Below(n + 1)
      BY <1>f
    <3>2. g[s] = IF s = {} THEN << >> ELSE Append(g[s \ {Pick(s)}], Pick(s))
      BY <2>1
    <3> HIDE DEF Below
    <3> QED BY <3>1, <3>2
  <2>5. Solves(h, n + 1)
    BY <2>2, <2>4
  <2> QED BY <2>3, <2>5
<1>3. Bad = {}
  <2> SUFFICES ASSUME Bad # {} PROVE FALSE
    OBVIOUS
  <2> HIDE DEF Solves
  <2>1. PICK n \in Bad : \A m \in Bad : n <= m
    <3>1. Bad \in SUBSET Nat
      OBVIOUS
    <3> HIDE DEF Bad
    <3> QED BY <3>1, LeastElement
  <2>2. n \in Nat /\ n # 0
    BY <1>1
  <2>3. n - 1 \in Nat /\ n - 1 \notin Bad /\ (n - 1) + 1 = n
    <3>1. n - 1 \in Nat /\ ~(n <= n - 1) /\ (n - 1) + 1 = n
      BY <2>2
    <3> QED BY <3>1, <2>1
  <2> HIDE DEF Bad
  <2>4. n \notin Bad
    BY <2>3, <1>2
  <2> QED BY <2>1, <2>4
<1>4. PICK g \in [Below(Cardinality(S)) -> Seq(S)] : Solves(g, Cardinality(S))
  <2>1. Cardinality(S) \in Nat
    BY FS_CardinalityType
  <2> QED BY <1>3, <2>1
<1>5. Below(Cardinality(S)) = SUBSET S
  BY <1>f
<1>6. Lists(g, S)
  BY <1>4, <1>5 DEF Lists
<1> QED BY <1>6

(* Each element of s stands exactly once in the sequence.                  *)
OnceEach(seq, s) ==
    /\ seq \in Seq(s)
    /\ \A x \in s : \E i \in 1..Len(seq) : seq[i] = x
    /\ \A i, j \in 1..Len(seq) : seq[i] = seq[j] => i = j

(* One more element at the end of such a sequence.                         *)
LEMMA OnceEachAppend ==
    ASSUME NEW s, NEW p \in s, NEW seq, OnceEach(seq, s \ {p})
    PROVE  OnceEach(Append(seq, p), s)
<1> DEFINE more == Append(seq, p)
<1>1. seq \in Seq(s \ {p}) /\ seq \in Seq(s) /\ Len(seq) \in Nat
  BY DEF OnceEach
<1>2. /\ more \in Seq(s) /\ Len(more) = Len(seq) + 1
      /\ more[Len(seq) + 1] = p
      /\ \A i \in 1..Len(seq) : more[i] = seq[i] /\ seq[i] # p
  BY <1>1
<1> HIDE DEF more
<1>3. \A i \in 1..Len(more) : i \in 1..Len(seq) \/ i = Len(seq) + 1
  BY <1>1, <1>2
<1>4. \A x \in s : \E i \in 1..Len(more) : more[i] = x
  BY <1>1, <1>2 DEF OnceEach
<1>5. \A i, j \in 1..Len(more) : more[i] = more[j] => i = j
  BY <1>1, <1>2, <1>3 DEF OnceEach
<1> QED BY <1>2, <1>4, <1>5 DEF OnceEach, more

(* The list of a finite set holds each of its elements once.               *)
LEMMA ListedOnce ==
    ASSUME NEW S, IsFiniteSet(S)
    PROVE  OnceEach(Listed(S), S)
<1> DEFINE g == CHOOSE it : Lists(it, S)
           Bad == {s \in SUBSET S : ~ OnceEach(g[s], s)}
<1>1. Lists(g, S) /\ Listed(S) = g[S]
  BY ListsExists, ListedIsChosen
<1> HIDE DEF g
<1>f. \A s \in SUBSET S : IsFiniteSet(s)
  BY FS_Subset
<1>2. Bad = {}
  <2> SUFFICES ASSUME Bad # {} PROVE FALSE
    OBVIOUS
  <2>1. PICK s \in Bad : \A t \in Bad : Cardinality(s) <= Cardinality(t)
    BY <1>f, SmallestSet
  <2>2. s \in SUBSET S /\ IsFiniteSet(s)
    BY <1>f
  <2>3. CASE s = {}
    <3>1. g[s] = << >>
      BY <1>1, <2>3 DEF Lists
    <3>2. OnceEach(<< >>, {})
      BY DEF OnceEach
    <3> QED BY <2>1, <2>3, <3>1, <3>2
  <2>4. CASE s # {}
    <3> DEFINE p == Pick(s)
    <3>1. p \in s
      BY <2>4, PickIsMember
    <3>2. g[s] = Append(g[s \ {p}], p)
      BY <1>1, <2>2, <2>4 DEF Lists
    <3> HIDE DEF p
    <3>3. s \ {p} \notin Bad
      <4>1. /\ Cardinality(s \ {p}) = Cardinality(s) - 1
            /\ Cardinality(s) \in Nat
        BY <2>2, <3>1, SmallerSet
      <4>2. ~(Cardinality(s) <= Cardinality(s \ {p}))
        BY <4>1
      <4> QED BY <2>1, <4>2
    <3>4. OnceEach(g[s \ {p}], s \ {p})
      BY <2>2, <3>3
    <3> QED BY <2>1, <3>1, <3>2, <3>4, OnceEachAppend
  <2> QED BY <2>3, <2>4
<1> QED BY <1>1, <1>2

-----------------------------------------------------------------------------
(* The division of the markets among the sessions.                         *)

(* The markets that the first i of n sessions get, of l in all.            *)
Before(l, n, i) == i * (l \div n) + Smaller(i, l % n)

(* The shares follow each other without a gap, end at the last market, and *)
(* differ by at most one.                                                  *)
LEMMA BeforeFacts ==
    ASSUME NEW l \in Nat, NEW n \in Nat \ {0}
    PROVE  /\ Before(l, n, 0) = 0 /\ Before(l, n, n) = l
           /\ \A i \in 0..n : Before(l, n, i) \in 0..l
           /\ \A i \in 1..n : Before(l, n, i) - Before(l, n, i - 1)
                                 \in {l \div n, (l \div n) + 1}
           /\ \A i \in 1..n :
                 n * (Before(l, n, i) - Before(l, n, i - 1)) < l + n
           /\ l \div n \in Nat
<1> DEFINE e == l \div n
           r == l % n
<1>1. e \in Nat /\ r \in 0..(n - 1) /\ l = n * e + r
  OBVIOUS
<1> HIDE DEF e, r
<1>2. 0 * e = 0 /\ \A i \in 0..n : i * e \in Nat /\ i * e <= n * e
  <2>1. \A i \in 0..n : i * e \in Nat
    BY <1>1
  <2>2. ASSUME NEW i \in 0..n PROVE i * e <= n * e
    <3>1. (n - i) * e \in Nat
      BY <1>1
    <3>2. n * e = i * e + (n - i) * e
      BY <1>1
    <3> QED BY <1>1, <2>1, <3>1, <3>2
  <2> QED BY <1>1, <2>1, <2>2
<1>3. \A i \in 1..n : i * e = (i - 1) * e + e
  BY <1>1
<1>4. Before(l, n, 0) = 0 /\ Before(l, n, n) = l
  BY <1>1, <1>2 DEF Before, Smaller, e, r
<1>5. \A i \in 0..n : Before(l, n, i) \in 0..l
  <2> SUFFICES ASSUME NEW i \in 0..n PROVE Before(l, n, i) \in 0..l
    OBVIOUS
  <2>1. Before(l, n, i) = i * e + Smaller(i, r)
    BY DEF Before, e, r
  <2>2. Smaller(i, r) \in 0..r
    BY <1>1 DEF Smaller
  <2>3. i * e \in Nat /\ n * e \in Nat /\ i * e <= n * e
    BY <1>1, <1>2
  <2> QED BY <1>1, <2>1, <2>2, <2>3
<1>6. \A i \in 1..n : Before(l, n, i) - Before(l, n, i - 1) \in {e, e + 1}
  <2> SUFFICES ASSUME NEW i \in 1..n
               PROVE  Before(l, n, i) - Before(l, n, i - 1) \in {e, e + 1}
    OBVIOUS
  <2>1. /\ Before(l, n, i) = i * e + Smaller(i, r)
        /\ Before(l, n, i - 1) = (i - 1) * e + Smaller(i - 1, r)
    BY DEF Before, e, r
  <2>2. Smaller(i, r) - Smaller(i - 1, r) \in {0, 1}
        /\ Smaller(i, r) \in Int /\ Smaller(i - 1, r) \in Int
    BY <1>1 DEF Smaller
  <2>3. i * e \in Int /\ (i - 1) * e \in Int /\ i * e = (i - 1) * e + e
    BY <1>1, <1>3
  <2>4. \A x, y, u, v \in Int : x = y + e /\ u - v \in {0, 1} =>
           (x + u) - (y + v) \in {e, e + 1}
    BY <1>1
  <2> DEFINE x == i * e
             y == (i - 1) * e
             u == Smaller(i, r)
             v == Smaller(i - 1, r)
  <2>5. /\ x \in Int /\ y \in Int /\ u \in Int /\ v \in Int
        /\ x = y + e /\ u - v \in {0, 1}
    BY <2>2, <2>3
  <2>6. Before(l, n, i) = x + u /\ Before(l, n, i - 1) = y + v
    BY <2>1
  <2> HIDE DEF x, y, u, v
  <2>7. (x + u) - (y + v) \in {e, e + 1}
    BY <2>4, <2>5
  <2> QED BY <2>6, <2>7
<1>7. \A i \in 1..n : n * (Before(l, n, i) - Before(l, n, i - 1)) < l + n
  <2> SUFFICES ASSUME NEW i \in 1..n
               PROVE  n * (Before(l, n, i) - Before(l, n, i - 1)) < l + n
    OBVIOUS
  <2> DEFINE d == Before(l, n, i) - Before(l, n, i - 1)
  <2>1. d \in {e, e + 1}
    BY <1>6
  <2>2. n * e \in Nat /\ n * (e + 1) = n * e + n
    BY <1>1
  <2>3. ASSUME r = 0 PROVE d = e
    <3>1. /\ Before(l, n, i) = i * e + Smaller(i, r)
          /\ Before(l, n, i - 1) = (i - 1) * e + Smaller(i - 1, r)
      BY DEF Before, e, r
    <3>2. Smaller(i, r) = 0 /\ Smaller(i - 1, r) = 0
      BY <2>3 DEF Smaller
    <3>3. i * e \in Int /\ (i - 1) * e \in Int /\ i * e = (i - 1) * e + e
      BY <1>1, <1>3
    <3> DEFINE x == i * e
               y == (i - 1) * e
    <3>4. x \in Int /\ y \in Int /\ x = y + e /\ d = (x + 0) - (y + 0)
      BY <3>1, <3>2, <3>3
    <3> HIDE DEF x, y, d
    <3> QED BY <1>1, <3>4
  <2> HIDE DEF d
  <2>4. CASE d = e
    <3>1. n * d = n * e
      BY <2>4
    <3> QED BY <1>1, <2>2, <3>1 DEF d
  <2>5. CASE d # e
    <3>1. d = e + 1 /\ r >= 1
      BY <1>1, <2>1, <2>3, <2>5
    <3>2. n * d = n * e + n
      BY <2>2, <3>1
    <3> QED BY <1>1, <2>2, <3>1, <3>2 DEF d
  <2> QED BY <2>4, <2>5
<1> QED BY <1>1, <1>4, <1>5, <1>6, <1>7 DEF e, r

(* Dividing the markets among the sessions loses none, repeats none and    *)
(* keeps their order, and no session gets two more than another, nor more  *)
(* than the average rounded up (HarjusApplication.cpp,                     *)
(* divideSymbolsEvenly), for any number of markets and sessions.           *)
THEOREM DivisionKeepsAll ==
    ASSUME NEW A, NEW symbols \in Seq(A), NEW n \in Nat \ {0}
    PROVE  LET divided == divideSymbolsEvenly(symbols, n)
           IN  /\ divided \in Seq(Seq(A)) /\ Len(divided) = n
               /\ FlattenSeq(divided) = symbols
               /\ \A k, l \in 1..n : Len(divided[k]) <= Len(divided[l]) + 1
               /\ \A k \in 1..n : n * Len(divided[k]) < Len(symbols) + n
<1> DEFINE len == Len(symbols)
           b(i) == Before(len, n, i)
           each == len \div n
           divided == divideSymbolsEvenly(symbols, n)
<1>1. divided = [i \in 1..n |-> SubSeq(symbols, b(i - 1) + 1, b(i))]
  BY DEF divideSymbolsEvenly, Before
<1>2. /\ b(0) = 0 /\ b(n) = len /\ each \in Nat /\ len \in Nat
      /\ \A i \in 0..n : b(i) \in 0..len
      /\ \A i \in 1..n : b(i) - b(i - 1) \in {each, each + 1}
      /\ \A i \in 1..n : n * (b(i) - b(i - 1)) < len + n
  <2>1. len \in Nat
    OBVIOUS
  <2> HIDE DEF len
  <2> QED BY <2>1, BeforeFacts
<1> HIDE DEF b, each, divided
<1>3. ASSUME NEW i \in 1..n
      PROVE  /\ SubSeq(symbols, b(i - 1) + 1, b(i)) \in Seq(A)
             /\ Len(SubSeq(symbols, b(i - 1) + 1, b(i))) = b(i) - b(i - 1)
             /\ SubSeq(symbols, 1, b(i - 1)) \o
                   SubSeq(symbols, b(i - 1) + 1, b(i)) = SubSeq(symbols, 1, b(i))
  <2>1. /\ b(i - 1) \in 0..len /\ b(i) \in 0..len
        /\ b(i) - b(i - 1) \in {each, each + 1}
    BY <1>2
  <2>2. b(i) \in b(i - 1)..len
    <3>1. each \in Nat /\ len \in Nat
      BY <1>2
    <3> HIDE DEF len
    <3> QED BY <2>1, <3>1
  <2>3. \A j \in (b(i - 1) + 1)..b(i) : symbols[j] \in A
    <3>1. \A c, d, l \in Nat : d <= l => \A j \in (c + 1)..d : j \in 1..l
      OBVIOUS
    <3>2. b(i - 1) \in Nat /\ b(i) \in Nat /\ b(i) <= len /\ len \in Nat
      BY <1>2, <2>1
    <3>3. \A j \in (b(i - 1) + 1)..b(i) : j \in 1..len
      BY <3>1, <3>2, Zenon
    <3>4. \A j \in 1..len : symbols[j] \in A
      OBVIOUS
    <3> QED BY <3>3, <3>4, Zenon
  <2>4. /\ SubSeq(symbols, b(i - 1) + 1, b(i)) \in Seq(A)
        /\ Len(SubSeq(symbols, b(i - 1) + 1, b(i))) =
              IF b(i - 1) + 1 <= b(i) THEN b(i) - (b(i - 1) + 1) + 1 ELSE 0
    <3>1. b(i - 1) + 1 \in Int /\ b(i) \in Int
      BY <2>1
    <3> QED BY <2>3, <3>1, SubSeqProperties
  <2>5. SubSeq(symbols, 1, b(i - 1)) \o SubSeq(symbols, b(i - 1) + 1, b(i))
           = SubSeq(symbols, 1, b(i))
    <3>1. 1 \in 1..(len + 1) /\ b(i - 1) \in (1 - 1)..len
      BY <1>2, <2>1
    <3> QED BY <2>2, <3>1, ConcatAdjacentSubSeq
  <2>6. \A x, y \in Int : y >= x =>
           (IF x + 1 <= y THEN y - (x + 1) + 1 ELSE 0) = y - x
    OBVIOUS
  <2>7. b(i) \in Int /\ b(i - 1) \in Int /\ b(i) >= b(i - 1)
    BY <2>1, <2>2
  <2> QED BY <2>4, <2>5, <2>6, <2>7
<1>4. divided \in Seq(Seq(A)) /\ Len(divided) = n
  BY <1>1, <1>3
<1>5. \A k \in 1..n : Len(divided[k]) \in {each, each + 1}
  BY <1>1, <1>2, <1>3
<1>6. \A k, l \in 1..n : Len(divided[k]) <= Len(divided[l]) + 1
  <2>1. \A x, y \in {each, each + 1} : x <= y + 1
    BY <1>2
  <2> QED BY <1>5, <2>1
<1>s. \A k \in 1..n : n * Len(divided[k]) < len + n
  <2> TAKE k \in 1..n
  <2>1. Len(divided[k]) = b(k) - b(k - 1)
    BY <1>1, <1>3
  <2> QED BY <1>2, <2>1
<1>7. PICK fl \in [1..n -> Seq(A)] :
          /\ FlattenSeq(divided) = fl[n]
          /\ fl[1] = divided[1]
          /\ \A i \in 2..n : fl[i] = fl[i - 1] \o divided[i]
  <2>1. Len(divided) # 0
    BY <1>4
  <2>2. \E fl \in [1..Len(divided) -> Seq(A)] :
          /\ FlattenSeq(divided) = fl[Len(divided)]
          /\ fl[1] = divided[1]
          /\ \A i \in 2..Len(divided) : fl[i] = fl[i - 1] \o divided[i]
    BY <1>4, <2>1, FlattenRecursion
  <2> QED BY <1>4, <2>2
<1> DEFINE Bad == {i \in 1..n : fl[i] # SubSeq(symbols, 1, b(i))}
<1>8. Bad = {}
  <2> SUFFICES ASSUME Bad # {} PROVE FALSE
    OBVIOUS
  <2>1. PICK i \in Bad : \A m \in Bad : i <= m
    <3>1. Bad \in SUBSET Nat
      OBVIOUS
    <3> HIDE DEF Bad
    <3> QED BY <3>1, LeastElement
  <2>2. i \in 1..n
    OBVIOUS
  <2>3. CASE i = 1
    <3>1. fl[1] = SubSeq(symbols, 1, b(1))
      <4>1. divided[1] = SubSeq(symbols, b(1 - 1) + 1, b(1))
        BY <1>1, <2>2, <2>3
      <4>2. b(1 - 1) + 1 = 1
        BY <1>2
      <4> QED BY <1>7, <4>1, <4>2
    <3> QED BY <2>1, <2>3, <3>1
  <2>4. CASE i # 1
    <3>1. i - 1 \in 1..n /\ ~(i <= i - 1) /\ i \in 2..n
      BY <2>2, <2>4
    <3>2. fl[i - 1] = SubSeq(symbols, 1, b(i - 1))
      BY <2>1, <3>1
    <3>3. fl[i] = fl[i - 1] \o SubSeq(symbols, b(i - 1) + 1, b(i))
      BY <1>1, <1>7, <2>2, <3>1
    <3>4. fl[i] = SubSeq(symbols, 1, b(i))
      BY <1>3, <2>2, <3>2, <3>3
    <3> QED BY <2>1, <3>4
  <2> QED BY <2>3, <2>4
<1>9. FlattenSeq(divided) = symbols
  <2>1. n \in 1..n
    OBVIOUS
  <2>2. fl[n] = SubSeq(symbols, 1, b(n))
    BY <1>8, <2>1
  <2>3. b(n) = len
    BY <1>2
  <2>4. fl[n] = SubSeq(symbols, 1, len)
    BY <2>2, <2>3
  <2> QED BY <1>7, <2>4, SubSeqFull
<1> QED BY <1>4, <1>6, <1>9, <1>s DEF divided

(* The average share, rounded up, is less than two of the portions that    *)
(* the check before the division counts.                                   *)
LEMMA ShareBound ==
    ASSUME NEW len \in Nat, NEW n \in Nat \ {0}, NEW portion \in Nat \ {0},
           ~ (n < len \div portion), NEW share \in Nat, n * share < len + n
    PROVE  share < 2 * portion
<1> DEFINE d == len \div portion
<1>1. d \in Nat /\ d <= n /\ len < portion * d + portion
  OBVIOUS
<1> HIDE DEF d
<1>2. portion * d <= portion * n
  <2>1. portion * (n - d) \in Nat
    BY <1>1
  <2>2. portion * n = portion * d + portion * (n - d)
    BY <1>1
  <2>3. portion * n \in Nat /\ portion * d \in Nat
    BY <1>1
  <2> QED BY <2>1, <2>2, <2>3
<1>3. len < portion * n + portion
  <2>1. portion * n \in Nat /\ portion * d \in Nat
    BY <1>1
  <2> QED BY <1>1, <1>2, <2>1
<1> SUFFICES ASSUME share >= 2 * portion PROVE FALSE
  OBVIOUS
<1> DEFINE x == portion * n
<1>4. n * share >= x + x
  <2>1. n * (share - 2 * portion) \in Nat
    OBVIOUS
  <2>2. n * share = n * (share - 2 * portion) + n * (2 * portion)
    OBVIOUS
  <2>3. n * (2 * portion) = x + x /\ x \in Nat
    OBVIOUS
  <2> HIDE DEF x
  <2> QED BY <2>1, <2>2, <2>3
<1>5. x >= n + portion - 1
  <2>1. (portion - 1) * (n - 1) \in Nat
    OBVIOUS
  <2>2. (portion - 1) * (n - 1) = x - n - portion + 1
    <3>1. (portion - 1) * (n - 1) = portion * (n - 1) - (n - 1)
      OBVIOUS
    <3>2. portion * (n - 1) = x - portion
      OBVIOUS
    <3>3. x \in Nat
      OBVIOUS
    <3> HIDE DEF x
    <3> QED BY <3>1, <3>2, <3>3
  <2>3. x \in Nat
    OBVIOUS
  <2> HIDE DEF x
  <2> QED BY <2>1, <2>2, <2>3
<1>6. x \in Nat /\ len < x + portion /\ n * share \in Nat
  BY <1>3
<1> HIDE DEF x
<1> DEFINE y == n * share
<1>7. y \in Nat /\ y < len + n /\ y >= x + x
  BY <1>4, <1>6
<1> HIDE DEF y
<1> QED BY <1>5, <1>6, <1>7

-----------------------------------------------------------------------------
(* The mapper: rings of assets and the paths along them.                   *)

Trades == [symbol : symbolMap, position : {"LONG", "SHORT"}]

(* A ring of n assets that markets join.                                   *)
Ring(c, n) ==
    /\ n \in Nat /\ n >= 3
    /\ c \in [1..n -> uniqueAssets]
    /\ \A i, j \in 1..n : c[i] = c[j] => i = j
    /\ \A i \in 1..n : Joined(c[i], c[Following(i, n)])

(* A path that returns to where it starts, on different markets.           *)
ClosedPath(path) ==
    /\ path \in Seq(Trades)
    /\ \A i, j \in 1..Len(path) : path[i].symbol = path[j].symbol => i = j
    /\ \A i \in 1..Len(path) : recvCurrency(path[i]) =
           usedCurrency(path[Following(i, Len(path))])
ClosedPaths == {path \in Seq(Trades) : ClosedPath(path)}

(* After the last comes the first.                                         *)
LEMMA FollowingIs ==
    ASSUME NEW n \in Nat \ {0}, NEW i \in 1..n
    PROVE  /\ Following(i, n) = IF i = n THEN 1 ELSE i + 1
           /\ Following(i, n) \in 1..n
<1>1. i % n = IF i = n THEN 0 ELSE i
  OBVIOUS
<1> QED BY <1>1 DEF Following

(* t is seq with its positions moved by f, around a circle of n.           *)
Turns(f, n, t, seq) ==
    /\ f \in [1..n -> 1..n]
    /\ \A i, j \in 1..n : f[i] = f[j] => i = j
    /\ \A j \in 1..n : t[j] = seq[f[j]]
    /\ \A j \in 1..n : f[Following(j, n)] = Following(f[j], n)

(* The position that comes to j when a circle of n starts at r.            *)
Shift(r, j, n) == IF r + j - 1 <= n THEN r + j - 1 ELSE r + j - 1 - n

(* Shifts are those of a circle: they add up, can be undone, and keep      *)
(* neighbours.                                                             *)
LEMMA ShiftFacts ==
    ASSUME NEW n \in Nat, NEW r \in 1..n
    PROVE  /\ Shift(1, r, n) = r /\ Shift(r, 1, n) = r
           /\ \E s \in 1..n : Shift(r, s, n) = 1
           /\ \A i \in 1..n : Shift(r, i, n) \in 1..n
           /\ \A i, j \in 1..n : Shift(r, i, n) = Shift(r, j, n) => i = j
           /\ \A s, j \in 1..n : Shift(r, Shift(s, j, n), n)
                                    = Shift(Shift(r, s, n), j, n)
           /\ \A j \in 1..n : Shift(r, Following(j, n), n)
                                 = Following(Shift(r, j, n), n)
<1>1. /\ Shift(1, r, n) = r /\ Shift(r, 1, n) = r
      /\ \A i \in 1..n : Shift(r, i, n) \in 1..n
      /\ \A i, j \in 1..n : Shift(r, i, n) = Shift(r, j, n) => i = j
  BY DEF Shift
<1>2. \E s \in 1..n : Shift(r, s, n) = 1
  <2>1. CASE r = 1
    BY <1>1, <2>1
  <2>2. CASE r # 1
    <3>1. n - r + 2 \in 1..n /\ Shift(r, n - r + 2, n) = 1
      BY <2>2 DEF Shift
    <3> QED BY <3>1
  <2> QED BY <2>1, <2>2
<1>3. ASSUME NEW s \in 1..n, NEW j \in 1..n
      PROVE  Shift(r, Shift(s, j, n), n) = Shift(Shift(r, s, n), j, n)
  BY DEF Shift
<1>4. ASSUME NEW j \in 1..n
      PROVE  Shift(r, Following(j, n), n) = Following(Shift(r, j, n), n)
  <2>1. Following(j, n) = IF j = n THEN 1 ELSE j + 1
    BY FollowingIs
  <2> DEFINE k == Shift(r, j, n)
  <2>2. k \in 1..n
    BY <1>1
  <2>3. Following(k, n) = IF k = n THEN 1 ELSE k + 1
    <3> HIDE DEF k
    <3> QED BY <2>2, FollowingIs
  <2> QED BY <2>1, <2>3 DEF Shift
<1> QED BY <1>1, <1>2, <1>3, <1>4

(* What a rotation has at each position.                                   *)
LEMMA RotatedIs ==
    ASSUME NEW A, NEW seq \in Seq(A), NEW r \in 1..Len(seq)
    PROVE  /\ Rotated(seq, r) \in Seq(A) /\ Len(Rotated(seq, r)) = Len(seq)
           /\ \A j \in 1..Len(seq) :
                 Rotated(seq, r)[j] = seq[Shift(r, j, Len(seq))]
<1> DEFINE n == Len(seq)
           a == SubSeq(seq, r, n)
           b == SubSeq(seq, 1, r - 1)
<1>1. n \in Nat /\ n # 0 /\ r \in 1..n
  OBVIOUS
<1>2. /\ a \in Seq(A) /\ Len(a) = n - r + 1
      /\ \A j \in 1..(n - r + 1) : a[j] = seq[r + j - 1]
  <2>1. \A i \in r..n : seq[i] \in A
    BY <1>1
  <2>2. /\ a \in Seq(A) /\ Len(a) = IF r <= n THEN n - r + 1 ELSE 0
        /\ \A j \in 1..(n - r + 1) : a[j] = seq[r + j - 1]
    BY <1>1, <2>1, SubSeqProperties
  <2> QED BY <1>1, <2>2
<1>3. /\ b \in Seq(A) /\ Len(b) = r - 1
      /\ \A j \in 1..(r - 1) : b[j] = seq[j]
  <2>1. \A i \in 1..(r - 1) : seq[i] \in A
    BY <1>1
  <2>2. /\ b \in Seq(A) /\ Len(b) = IF 1 <= r - 1 THEN r - 1 - 1 + 1 ELSE 0
        /\ \A j \in 1..(r - 1 - 1 + 1) : b[j] = seq[1 + j - 1]
    BY <1>1, <2>1, SubSeqProperties
  <2> QED BY <1>1, <2>2
<1>4. Rotated(seq, r) = a \o b
  BY DEF Rotated
<1>n. n = Len(seq)
  OBVIOUS
<1> HIDE DEF n, a, b
<1>5. /\ a \o b \in Seq(A) /\ Len(a \o b) = n
      /\ \A j \in 1..n : (a \o b)[j] = IF j <= n - r + 1 THEN a[j]
                                       ELSE b[j - (n - r + 1)]
  <2>1. /\ a \o b \in Seq(A) /\ Len(a \o b) = Len(a) + Len(b)
        /\ \A j \in 1..(Len(a) + Len(b)) :
              (a \o b)[j] = IF j <= Len(a) THEN a[j] ELSE b[j - Len(a)]
    BY <1>2, <1>3, ConcatProperties
  <2>2. Len(a) + Len(b) = n
    BY <1>1, <1>2, <1>3
  <2> QED BY <1>2, <2>1, <2>2
<1>6. ASSUME NEW j \in 1..n PROVE (a \o b)[j] = seq[Shift(r, j, n)]
  <2>1. CASE j <= n - r + 1
    <3>1. (a \o b)[j] = a[j] /\ Shift(r, j, n) = r + j - 1
      BY <1>1, <1>5, <2>1 DEF Shift
    <3>2. j \in 1..(n - r + 1)
      BY <1>1, <2>1
    <3> QED BY <1>2, <3>1, <3>2
  <2>2. CASE ~(j <= n - r + 1)
    <3>1. (a \o b)[j] = b[j - (n - r + 1)] /\ Shift(r, j, n) = j - (n - r + 1)
      BY <1>1, <1>5, <2>2 DEF Shift
    <3>2. j - (n - r + 1) \in 1..(r - 1)
      BY <1>1, <2>2
    <3> QED BY <1>3, <3>1, <3>2
  <2> QED BY <2>1, <2>2
<1> QED BY <1>4, <1>5, <1>6, <1>n

(* A rotation moves positions, and the one after a position stays after    *)
(* it.                                                                     *)
LEMMA RotatedFacts ==
    ASSUME NEW A, NEW seq \in Seq(A), NEW r \in 1..Len(seq)
    PROVE  /\ Rotated(seq, r) \in Seq(A) /\ Len(Rotated(seq, r)) = Len(seq)
           /\ \E f : Turns(f, Len(seq), Rotated(seq, r), seq)
<1> DEFINE n == Len(seq)
           f == [j \in 1..n |-> Shift(r, j, n)]
<1>1. n \in Nat /\ n # 0 /\ r \in 1..n
  OBVIOUS
<1>2. /\ Rotated(seq, r) \in Seq(A) /\ Len(Rotated(seq, r)) = n
      /\ \A j \in 1..n : Rotated(seq, r)[j] = seq[Shift(r, j, n)]
  BY RotatedIs
<1>3. /\ \A i \in 1..n : Shift(r, i, n) \in 1..n
      /\ \A i, j \in 1..n : Shift(r, i, n) = Shift(r, j, n) => i = j
      /\ \A j \in 1..n : Shift(r, Following(j, n), n)
                            = Following(Shift(r, j, n), n)
  <2> HIDE DEF n
  <2> QED BY <1>1, ShiftFacts
<1>4. \A j \in 1..n : Following(j, n) \in 1..n
  BY <1>1, FollowingIs
<1> HIDE DEF n
<1>5. Turns(f, n, Rotated(seq, r), seq)
  BY <1>2, <1>3, <1>4 DEF Turns
<1> QED BY <1>2, <1>5 DEF n

(* Two rotations make one.                                                 *)
LEMMA RotatedTwice ==
    ASSUME NEW A, NEW seq \in Seq(A), NEW r \in 1..Len(seq), NEW s \in 1..Len(seq)
    PROVE  Rotated(Rotated(seq, r), s) = Rotated(seq, Shift(r, s, Len(seq)))
<1> DEFINE n == Len(seq)
           q == Shift(r, s, n)
           u == Rotated(seq, r)
           v == Rotated(u, s)
           w == Rotated(seq, q)
<1>1. n \in Nat /\ r \in 1..n /\ s \in 1..n
  OBVIOUS
<1>2. q \in 1..n /\ \A j \in 1..n : /\ Shift(s, j, n) \in 1..n
                                    /\ Shift(r, Shift(s, j, n), n) = Shift(q, j, n)
  <2> HIDE DEF n
  <2>1. q \in 1..n
    BY <1>1, ShiftFacts
  <2>2. \A j \in 1..n : Shift(s, j, n) \in 1..n
    BY <1>1, ShiftFacts
  <2>3. \A i, j \in 1..n : Shift(r, Shift(i, j, n), n)
                              = Shift(Shift(r, i, n), j, n)
    BY <1>1, ShiftFacts
  <2> QED BY <1>1, <2>1, <2>2, <2>3
<1>3. u \in Seq(A) /\ Len(u) = n /\ \A j \in 1..n : u[j] = seq[Shift(r, j, n)]
  BY RotatedIs
<1> HIDE DEF q, u
<1>4. v \in Seq(A) /\ Len(v) = n /\ \A j \in 1..n : v[j] = u[Shift(s, j, n)]
  BY <1>1, <1>3, RotatedIs
<1>5. w \in Seq(A) /\ Len(w) = n /\ \A j \in 1..n : w[j] = seq[Shift(q, j, n)]
  BY <1>1, <1>2, RotatedIs
<1> HIDE DEF v, w, n
<1>6. \A j \in 1..n : v[j] = w[j]
  <2> TAKE j \in 1..n
  <2> DEFINE k == Shift(s, j, n)
  <2>1. k \in 1..n /\ Shift(r, k, n) = Shift(q, j, n)
    BY <1>2
  <2>2. v[j] = u[k] /\ w[j] = seq[Shift(q, j, n)]
    BY <1>4, <1>5
  <2> HIDE DEF k
  <2>3. u[k] = seq[Shift(r, k, n)]
    BY <1>3, <2>1
  <2> QED BY <2>1, <2>2, <2>3
<1>7. v = w
  BY <1>4, <1>5, <1>6, SeqEqual
<1> QED BY <1>7 DEF n, q, u, v, w

(* The sequences that a ring is, read from each of its assets.             *)
Turnings(c) == {Rotated(c, i) : i \in DOMAIN c}

(* A ring and its rotations are the same sequences.                        *)
LEMMA TurningsSame ==
    ASSUME NEW A, NEW seq \in Seq(A), NEW t \in Turnings(seq)
    PROVE  t \in Seq(A) /\ seq \in Turnings(t) /\ Turnings(t) = Turnings(seq)
<1> DEFINE n == Len(seq)
<1>1. n \in Nat /\ DOMAIN seq = 1..n
  OBVIOUS
<1>2. PICK r \in 1..n : t = Rotated(seq, r)
  BY <1>1 DEF Turnings
<1>3. t \in Seq(A) /\ Len(t) = n
  BY <1>2, RotatedIs
<1>4. DOMAIN t = 1..n
  BY <1>3
<1>5. \A s \in 1..n : /\ Rotated(t, s) = Rotated(seq, Shift(r, s, n))
                      /\ Shift(r, s, n) \in 1..n
  <2>1. \A s \in 1..n : Rotated(t, s) = Rotated(seq, Shift(r, s, n))
    BY <1>2, RotatedTwice
  <2> HIDE DEF n
  <2> QED BY <1>1, <2>1, ShiftFacts
<1>6. Turnings(t) \subseteq Turnings(seq)
  BY <1>1, <1>4, <1>5 DEF Turnings
<1>7. PICK s \in 1..n : Shift(r, s, n) = 1
  <2> HIDE DEF n
  <2> QED BY <1>1, ShiftFacts
<1>8. Rotated(seq, 1) = seq
  <2> DEFINE w == Rotated(seq, 1)
  <2>1. 1 \in 1..n
    BY <1>1
  <2>2. w \in Seq(A) /\ Len(w) = n /\ \A j \in 1..n : w[j] = seq[Shift(1, j, n)]
    BY <2>1, RotatedIs
  <2> HIDE DEF w
  <2>3. \A j \in 1..n : w[j] = seq[j]
    BY <1>1, <2>2 DEF Shift
  <2>4. w = seq
    BY <2>2, <2>3, SeqEqual
  <2> QED BY <2>4 DEF w
<1>9. Rotated(t, s) = seq
  BY <1>5, <1>7, <1>8
<1>10. seq \in Turnings(t)
  BY <1>4, <1>9 DEF Turnings
<1>11. Turnings(seq) \subseteq Turnings(t)
  <2> SUFFICES ASSUME NEW k \in 1..n PROVE Rotated(seq, k) \in Turnings(t)
    BY <1>1 DEF Turnings
  <2>1. Rotated(Rotated(t, s), k) = Rotated(t, Shift(s, k, n))
    BY <1>3, RotatedTwice
  <2>2. Shift(s, k, n) \in 1..n
    <3> HIDE DEF n
    <3> QED BY <1>1, ShiftFacts
  <2> QED BY <1>4, <1>9, <2>1, <2>2 DEF Turnings
<1> QED BY <1>3, <1>6, <1>10, <1>11

(* A rotated ring is a ring.                                               *)
LEMMA RingRotated ==
    ASSUME NEW c, NEW n, Ring(c, n), NEW r \in 1..n
    PROVE  Ring(Rotated(c, r), n)
<1>1. /\ n \in Nat /\ n >= 3 /\ c \in Seq(uniqueAssets) /\ Len(c) = n
  BY DEF Ring
<1> DEFINE t == Rotated(c, r)
<1>2. /\ t \in Seq(uniqueAssets) /\ Len(t) = n
      /\ \E f : Turns(f, n, t, c)
  BY <1>1, RotatedFacts
<1>3. PICK f : Turns(f, n, t, c)
  BY <1>2
<1> HIDE DEF t
<1>4. t \in [1..n -> uniqueAssets]
  BY <1>1, <1>2
<1>5. \A i, j \in 1..n : t[i] = t[j] => i = j
  BY <1>3 DEF Turns, Ring
<1>6. ASSUME NEW i \in 1..n PROVE Joined(t[i], t[Following(i, n)])
  <2>1. f[i] \in 1..n /\ t[i] = c[f[i]]
    BY <1>3 DEF Turns
  <2>2. Following(i, n) \in 1..n
    BY <1>1, FollowingIs
  <2>3. t[Following(i, n)] = c[Following(f[i], n)]
    BY <1>3, <2>2 DEF Turns
  <2>4. Joined(c[f[i]], c[Following(f[i], n)])
    BY <2>1 DEF Ring
  <2> QED BY <2>1, <2>3, <2>4
<1> QED BY <1>1, <1>4, <1>5, <1>6 DEF Ring, t

(* A rotated path closes up if the path does.                              *)
LEMMA ClosedRotated ==
    ASSUME NEW path, ClosedPath(path), NEW r \in 1..Len(path)
    PROVE  ClosedPath(Rotated(path, r))
<1> DEFINE n == Len(path)
           t == Rotated(path, r)
<1>1. path \in Seq(Trades) /\ n \in Nat /\ n # 0
  BY DEF ClosedPath
<1>2. t \in Seq(Trades) /\ Len(t) = n /\ \E f : Turns(f, n, t, path)
  BY <1>1, RotatedFacts
<1>3. PICK f : Turns(f, n, t, path)
  BY <1>2
<1>c. /\ \A i, j \in 1..n : path[i].symbol = path[j].symbol => i = j
      /\ \A i \in 1..n : recvCurrency(path[i]) =
             usedCurrency(path[Following(i, n)])
  BY DEF ClosedPath
<1> HIDE DEF t, n
<1>5. \A i, j \in 1..n : t[i].symbol = t[j].symbol => i = j
  BY <1>3, <1>c DEF Turns
<1>6. ASSUME NEW i \in 1..n
      PROVE  recvCurrency(t[i]) = usedCurrency(t[Following(i, n)])
  <2>1. f[i] \in 1..n /\ t[i] = path[f[i]]
    BY <1>3 DEF Turns
  <2>2. Following(i, n) \in 1..n
    BY <1>1, FollowingIs
  <2>3. t[Following(i, n)] = path[Following(f[i], n)]
    BY <1>3, <2>2 DEF Turns
  <2> QED BY <1>c, <2>1, <2>3
<1> QED BY <1>2, <1>5, <1>6 DEF ClosedPath, t

(* What is known of the markets.                                           *)
Listing == symbolMap \subseteq Symbols

(* The trade between two joined assets spends the one and returns the      *)
(* other, on a market of these two.                                        *)
LEMMA TradeJoins ==
    ASSUME Listing, NEW first \in FirstEdges, NEW u, NEW v, Joined(u, v)
    PROVE  /\ TradeAlong(first, u, v) \in Trades
           /\ usedCurrency(TradeAlong(first, u, v)) = u
           /\ recvCurrency(TradeAlong(first, u, v)) = v
           /\ AssetsOf(TradeAlong(first, u, v).symbol) = {u, v}
           /\ u # v
<1>1. PICK e \in Edges : usedCurrency(e) = u /\ recvCurrency(e) = v
  BY DEF Joined
<1>2. e.symbol \in symbolMap /\ e.position \in {"LONG", "SHORT"}
  BY DEF Edges
<1>3. AssetsOf(e.symbol) = {u, v} /\ u # v
  BY <1>1, <1>2, StartupAssumption
     DEF AssetsOf, usedCurrency, recvCurrency, Listing
<1> DEFINE s == first[{u, v}]
<1>4. s \in symbolMap /\ AssetsOf(s) = {u, v}
  <2>1. {u, v} \in {AssetsOf(m) : m \in symbolMap}
    BY <1>2, <1>3
  <2> QED BY <2>1 DEF FirstEdges
<1> HIDE DEF s
<1>5. BaseAsset[s] # QuoteAsset[s] /\ {BaseAsset[s], QuoteAsset[s]} = {u, v}
  BY <1>4, StartupAssumption DEF Listing, AssetsOf
<1>6. TradeAlong(first, u, v) =
         [symbol |-> s, position |-> IF QuoteAsset[s] = u THEN "LONG" ELSE "SHORT"]
  BY DEF TradeAlong, s
<1> QED BY <1>3, <1>4, <1>5, <1>6 DEF Trades, usedCurrency, recvCurrency

(* The trades along a ring close up, and are on different markets: two     *)
(* neighbouring pairs of at least three assets differ.                     *)
LEMMA RingCloses ==
    ASSUME Listing, NEW first \in FirstEdges, NEW c, NEW n, Ring(c, n)
    PROVE  /\ DOMAIN c = 1..n /\ Len(c) = n
           /\ ClosedPath([i \in DOMAIN c |->
                             TradeAlong(first, c[i], c[Following(i, Len(c))])])
           /\ Len([i \in DOMAIN c |->
                      TradeAlong(first, c[i], c[Following(i, Len(c))])]) = n
<1>1. n \in Nat /\ n >= 3 /\ DOMAIN c = 1..n /\ Len(c) = n
  BY DEF Ring
<1> DEFINE T(i)  == TradeAlong(first, c[i], c[Following(i, n)])
           path  == [i \in 1..n |-> T(i)]
<1>2. \A i \in 1..n :
         /\ T(i) \in Trades
         /\ usedCurrency(T(i)) = c[i]
         /\ recvCurrency(T(i)) = c[Following(i, n)]
         /\ AssetsOf(T(i).symbol) = {c[i], c[Following(i, n)]}
  <2> SUFFICES ASSUME NEW i \in 1..n
      PROVE  /\ T(i) \in Trades
             /\ usedCurrency(T(i)) = c[i]
             /\ recvCurrency(T(i)) = c[Following(i, n)]
             /\ AssetsOf(T(i).symbol) = {c[i], c[Following(i, n)]}
    OBVIOUS
  <2>1. Joined(c[i], c[Following(i, n)])
    BY DEF Ring
  <2> QED BY <2>1, TradeJoins
<1>3. \A i \in 1..n : /\ Following(i, n) = IF i = n THEN 1 ELSE i + 1
                      /\ Following(i, n) \in 1..n
  BY <1>1, FollowingIs
<1> HIDE DEF T
<1>4. path \in Seq(Trades) /\ Len(path) = n /\ \A i \in 1..n : path[i] = T(i)
  BY <1>1, <1>2
<1> HIDE DEF path
<1>5. ASSUME NEW i \in 1..n, NEW j \in 1..n, path[i].symbol = path[j].symbol
      PROVE  i = j
  <2>1. {c[i], c[Following(i, n)]} = {c[j], c[Following(j, n)]}
    <3>1. /\ AssetsOf(path[i].symbol) = {c[i], c[Following(i, n)]}
          /\ AssetsOf(path[j].symbol) = {c[j], c[Following(j, n)]}
      BY <1>2, <1>4
    <3> QED BY <1>5, <3>1, Zenon
  <2>2. c[i] = c[j] \/ (c[i] = c[Following(j, n)] /\ c[Following(i, n)] = c[j])
    BY <2>1
  <2>3. i = j \/ (i = Following(j, n) /\ Following(i, n) = j)
    BY <1>3, <2>2 DEF Ring
  <2> QED BY <1>1, <1>3, <2>3
<1>6. \A i \in 1..n : recvCurrency(path[i]) = usedCurrency(path[Following(i, n)])
  <2> SUFFICES ASSUME NEW i \in 1..n
      PROVE  recvCurrency(path[i]) = usedCurrency(path[Following(i, n)])
    OBVIOUS
  <2>1. Following(i, n) \in 1..n
    BY <1>3
  <2> QED BY <1>2, <1>4, <2>1
<1>7. ClosedPath(path)
  BY <1>4, <1>5, <1>6 DEF ClosedPath
<1>8. path = [i \in DOMAIN c |->
                 TradeAlong(first, c[i], c[Following(i, Len(c))])]
  BY <1>1 DEF path, T
<1> QED BY <1>1, <1>4, <1>7, <1>8

(* A finite set has finitely many images.                                  *)
LEMMA FiniteImage ==
    ASSUME NEW S, IsFiniteSet(S), NEW f
    PROVE  IsFiniteSet({f[x] : x \in S})
<1> DEFINE g == [x \in S |-> f[x]]
<1>1. g \in Surjection(S, {f[x] : x \in S})
  BY DEF Surjection
<1> QED BY <1>1, FS_Surjection

(* There are finitely many assets.                                         *)
LEMMA FinitelyManyAssets ==
    ASSUME Listing
    PROVE  IsFiniteSet(symbolMap) /\ IsFiniteSet(uniqueAssets)
<1>1. IsFiniteSet(symbolMap)
  BY StartupAssumption, FS_Subset DEF Listing
<1>2. /\ IsFiniteSet({BaseAsset[s] : s \in symbolMap})
      /\ IsFiniteSet({QuoteAsset[s] : s \in symbolMap})
  BY <1>1, FiniteImage
<1>3. uniqueAssets = {BaseAsset[s] : s \in symbolMap}
                     \cup {QuoteAsset[s] : s \in symbolMap}
  BY DEF uniqueAssets, AssetsOf
<1> QED BY <1>1, <1>2, <1>3, FS_Union

Points(c) == {<<i, c[i]>> : i \in DOMAIN c}

(* The search finds rings, and finitely many.                              *)
LEMMA CyclesAreRings ==
    ASSUME Listing, NEW max \in Nat
    PROVE  /\ \A c \in ElementaryCycles(3, max) : \E n \in 3..max : Ring(c, n)
           /\ IsFiniteSet(ElementaryCycles(3, max))
<1> DEFINE C == ElementaryCycles(3, max)
           B == (1..max) \X uniqueAssets
<1>1. ASSUME NEW c \in C PROVE \E n \in 3..max : Ring(c, n)
  <2>1. PICK n \in 3..max : c \in [1..n -> uniqueAssets]
    BY DEF ElementaryCycles
  <2>2. DOMAIN c = 1..n /\ Len(c) = n /\ n \in Nat /\ n >= 3
    BY <2>1
  <2>3. /\ IsInjective(c)
        /\ \A i \in DOMAIN c : Joined(c[i], c[Following(i, Len(c))])
    BY DEF ElementaryCycles
  <2> QED BY <2>1, <2>2, <2>3 DEF Ring, IsInjective
<1>2. \A c \in C : \E n \in 3..max : c \in [1..n -> uniqueAssets]
  BY <1>1 DEF Ring
<1> HIDE DEF C
<1>3. IsFiniteSet(SUBSET B)
  <2>1. IsFiniteSet(1..max)
    BY FS_Interval
  <2>2. IsFiniteSet(B)
    BY <2>1, FinitelyManyAssets, FS_Product
  <2> HIDE DEF B
  <2> QED BY <2>2, FS_SUBSET
<1> DEFINE g == [c \in C |-> Points(c)]
<1>4. g \in [C -> SUBSET B]
  <2> SUFFICES ASSUME NEW c \in C PROVE Points(c) \in SUBSET B
    OBVIOUS
  <2>1. PICK n \in 3..max : c \in [1..n -> uniqueAssets]
    BY <1>2
  <2>2. \A i \in DOMAIN c : i \in 1..max /\ c[i] \in uniqueAssets
    BY <2>1
  <2> QED BY <2>2 DEF Points
<1>5. ASSUME NEW c \in C, NEW d \in C, Points(c) = Points(d) PROVE c = d
  <2>1. \A i \in DOMAIN c : <<i, c[i]>> \in Points(d)
    BY <1>5 DEF Points
  <2>2. \A i \in DOMAIN c : i \in DOMAIN d /\ c[i] = d[i]
    BY <2>1 DEF Points
  <2>3. \A i \in DOMAIN d : <<i, d[i]>> \in Points(c)
    BY <1>5 DEF Points
  <2>4. \A i \in DOMAIN d : i \in DOMAIN c
    BY <2>3 DEF Points
  <2>5. DOMAIN c = DOMAIN d
    BY <2>2, <2>4
  <2>6. c = [i \in DOMAIN c |-> c[i]] /\ d = [i \in DOMAIN d |-> d[i]]
    BY <1>2
  <2> QED BY <2>2, <2>5, <2>6
<1>6. g \in Injection(C, SUBSET B)
  BY <1>4, <1>5 DEF Injection, IsInjective
<1>7. IsFiniteSet(C)
  BY <1>3, <1>6, FS_Injection
<1> QED BY <1>1, <1>7 DEF C

(* Of each ring one rotation is reported.                                  *)
LEMMA ReportedAreRings ==
    ASSUME Listing, NEW max \in Nat
    PROVE  /\ \A c \in tiernan_all_cycles(3, max) : \E n \in 3..max : Ring(c, n)
           /\ IsFiniteSet(tiernan_all_cycles(3, max))
<1> DEFINE C == ElementaryCycles(3, max)
           all(c) == {Rotated(c, i) : i \in DOMAIN c}
           h == [c \in C |-> Pick(all(c))]
<1>1. tiernan_all_cycles(3, max) = {h[c] : c \in C}
  BY DEF tiernan_all_cycles, Pick
<1>2. IsFiniteSet(C) /\ \A c \in C : \E n \in 3..max : Ring(c, n)
  BY CyclesAreRings
<1>3. ASSUME NEW c \in C PROVE \E n \in 3..max : Ring(h[c], n)
  <2>1. PICK n \in 3..max : Ring(c, n)
    BY <1>2
  <2>2. DOMAIN c = 1..n /\ 1 \in 1..n
    BY <2>1 DEF Ring
  <2>3. all(c) # {}
    BY <2>2
  <2>4. PICK i \in 1..n : Pick(all(c)) = Rotated(c, i)
    <3>1. Pick(all(c)) \in all(c)
      BY <2>3, PickIsMember
    <3> QED BY <2>2, <3>1
  <2> QED BY <2>1, <2>4, RingRotated
<1> HIDE DEF h
<1>4. IsFiniteSet({h[c] : c \in C})
  BY <1>2, FiniteImage
<1> QED BY <1>1, <1>3, <1>4

(* A ring of the right length is found by the search.                      *)
LEMMA RingsAreCycles ==
    ASSUME NEW max \in Nat, NEW n \in 3..max, NEW c, Ring(c, n)
    PROVE  c \in ElementaryCycles(3, max)
<1>1. DOMAIN c = 1..n /\ Len(c) = n /\ c \in [1..n -> uniqueAssets]
  BY DEF Ring
<1>2. c \in UNION {[1..m -> uniqueAssets] : m \in 3..max}
  BY <1>1
<1>3. IsInjective(c)
  BY <1>1 DEF Ring, IsInjective
<1>4. \A i \in DOMAIN c : Joined(c[i], c[Following(i, Len(c))])
  BY <1>1 DEF Ring
<1> QED BY <1>2, <1>3, <1>4 DEF ElementaryCycles

(* Every cycle is a rotation of exactly one of those that are reported,    *)
(* and every rotation of a reported one is a cycle.                        *)
LEMMA ReportedOnce ==
    ASSUME Listing, NEW max \in Nat
    PROVE  /\ \A c \in tiernan_all_cycles(3, max) :
                 Turnings(c) \subseteq ElementaryCycles(3, max)
           /\ \A t \in ElementaryCycles(3, max) :
                 \E c \in tiernan_all_cycles(3, max) : t \in Turnings(c)
           /\ \A c, d \in tiernan_all_cycles(3, max) :
                 Turnings(c) \cap Turnings(d) # {} => c = d
<1> DEFINE E == ElementaryCycles(3, max)
           R == tiernan_all_cycles(3, max)
<1>1. R = {Pick(Turnings(c)) : c \in E}
  BY DEF tiernan_all_cycles, Pick, Turnings
<1>2. \A c \in E : \E n \in 3..max : Ring(c, n)
  BY CyclesAreRings
<1>3. \A c \in E : c \in Seq(uniqueAssets) /\ Pick(Turnings(c)) \in Turnings(c)
  <2> TAKE c \in E
  <2>1. PICK n \in 3..max : Ring(c, n)
    BY <1>2
  <2>2. c \in Seq(uniqueAssets) /\ DOMAIN c = 1..n /\ 1 \in 1..n
    BY <2>1 DEF Ring
  <2>3. Rotated(c, 1) \in Turnings(c)
    BY <2>2 DEF Turnings
  <2> QED BY <2>2, <2>3, PickIsMember
<1>4. \A c \in E : Turnings(c) \subseteq E
  <2> SUFFICES ASSUME NEW c \in E, NEW i \in DOMAIN c PROVE Rotated(c, i) \in E
    BY DEF Turnings
  <2>1. PICK n \in 3..max : Ring(c, n)
    BY <1>2
  <2>2. DOMAIN c = 1..n
    BY <2>1 DEF Ring
  <2>3. Ring(Rotated(c, i), n)
    BY <2>1, <2>2, RingRotated
  <2> QED BY <2>3, RingsAreCycles
<1>5. \A c \in R : /\ c \in E /\ c \in Seq(uniqueAssets)
                   /\ c = Pick(Turnings(c))
  <2> TAKE c \in R
  <2>1. PICK b \in E : c = Pick(Turnings(b))
    BY <1>1
  <2>2. b \in Seq(uniqueAssets) /\ c \in Turnings(b) /\ c \in E
    BY <1>3, <1>4, <2>1
  <2>3. Turnings(c) = Turnings(b)
    BY <2>2, TurningsSame
  <2> QED BY <1>3, <2>1, <2>2, <2>3
<1> HIDE DEF E, R
<1>6. \A t \in E : \E c \in R : t \in Turnings(c)
  <2> TAKE t \in E
  <2> DEFINE c == Pick(Turnings(t))
  <2>1. c \in R /\ c \in Turnings(t) /\ t \in Seq(uniqueAssets)
    BY <1>1, <1>3
  <2> HIDE DEF c
  <2>2. t \in Turnings(c)
    BY <2>1, TurningsSame
  <2> QED BY <2>1, <2>2
<1>7. ASSUME NEW c \in R, NEW d \in R, Turnings(c) \cap Turnings(d) # {}
      PROVE  c = d
  <2>1. PICK t : t \in Turnings(c) /\ t \in Turnings(d)
    BY <1>7
  <2>2. Turnings(t) = Turnings(c) /\ Turnings(t) = Turnings(d)
    BY <1>5, <2>1, TurningsSame
  <2>3. c = Pick(Turnings(c)) /\ d = Pick(Turnings(d))
    BY <1>5
  <2> QED BY <2>2, <2>3, Zenon
<1> QED BY <1>4, <1>5, <1>6, <1>7 DEF E, R

-----------------------------------------------------------------------------
(* The tours of paths.                                                     *)

(* The paths tour each of the rings in S exactly once, and nothing else.   *)
ToursOnce(paths, S) ==
    /\ \A i \in 1..Len(paths) : Tour(paths[i]) \in S
    /\ \A t \in S : \E i \in 1..Len(paths) : Tour(paths[i]) = t
    /\ \A i, j \in 1..Len(paths) : Tour(paths[i]) = Tour(paths[j]) => i = j

(* Paths that tour different rings, one after the other.                   *)
LEMMA ToursConcat ==
    ASSUME NEW A, NEW a \in Seq(A), NEW b \in Seq(A), NEW S, NEW U,
           ToursOnce(a, S), ToursOnce(b, U), S \cap U = {}
    PROVE  ToursOnce(a \o b, S \cup U)
<1> DEFINE m == Len(a)
           n == Len(b)
           w == a \o b
<1>1. m \in Nat /\ n \in Nat
  OBVIOUS
<1>2. /\ Len(w) = m + n
      /\ \A i \in 1..m : w[i] = a[i]
      /\ \A i \in 1..n : w[m + i] = b[i]
  OBVIOUS
<1> HIDE DEF w
<1>3. /\ \A i \in 1..m : Tour(a[i]) \in S
      /\ \A t \in S : \E i \in 1..m : Tour(a[i]) = t
      /\ \A i, j \in 1..m : Tour(a[i]) = Tour(a[j]) => i = j
  BY DEF ToursOnce
<1>4. /\ \A i \in 1..n : Tour(b[i]) \in U
      /\ \A t \in U : \E i \in 1..n : Tour(b[i]) = t
      /\ \A i, j \in 1..n : Tour(b[i]) = Tour(b[j]) => i = j
  BY DEF ToursOnce
<1> HIDE DEF m, n
<1>5. \A i \in 1..(m + n) : i \in 1..m \/ \E k \in 1..n : i = m + k
  <2> TAKE i \in 1..(m + n)
  <2>1. CASE i <= m
    BY <1>1, <2>1
  <2>2. CASE i > m
    <3>1. i - m \in 1..n /\ i = m + (i - m)
      BY <1>1, <2>2
    <3> QED BY <3>1
  <2> QED BY <1>1, <2>1, <2>2
<1>6. /\ \A i \in 1..m : i \in 1..(m + n)
      /\ \A i \in 1..n : m + i \in 1..(m + n)
  BY <1>1
<1>7. \A i \in 1..(m + n) : Tour(w[i]) \in S \cup U
  BY <1>2, <1>3, <1>4, <1>5
<1>8. \A t \in S \cup U : \E i \in 1..(m + n) : Tour(w[i]) = t
  <2> TAKE t \in S \cup U
  <2>1. CASE t \in S
    <3>1. PICK i \in 1..m : Tour(a[i]) = t
      BY <1>3, <2>1
    <3> QED BY <1>2, <1>6, <3>1
  <2>2. CASE t \in U
    <3>1. PICK i \in 1..n : Tour(b[i]) = t
      BY <1>4, <2>2
    <3>2. m + i \in 1..(m + n) /\ w[m + i] = b[i]
      BY <1>2, <1>6
    <3> QED BY <3>1, <3>2
  <2> QED BY <2>1, <2>2
<1>9. ASSUME NEW i \in 1..(m + n), NEW j \in 1..(m + n), Tour(w[i]) = Tour(w[j])
      PROVE  i = j
  <2>1. CASE i \in 1..m
    <3>1. Tour(w[j]) \in S
      BY <1>2, <1>3, <1>9, <2>1
    <3>2. j \in 1..m
      <4> SUFFICES ASSUME NEW k \in 1..n, j = m + k PROVE FALSE
        BY <1>5
      <4>1. Tour(w[j]) \in U
        BY <1>2, <1>4
      <4> QED BY <3>1, <4>1
    <3> QED BY <1>2, <1>3, <1>9, <2>1, <3>2
  <2>2. CASE ~ (i \in 1..m)
    <3>1. PICK k \in 1..n : i = m + k
      BY <1>5, <2>2
    <3>2. Tour(w[j]) \in U
      BY <1>2, <1>4, <1>9, <3>1
    <3>3. ~ (j \in 1..m)
      BY <1>2, <1>3, <3>2
    <3>4. PICK l \in 1..n : j = m + l
      BY <1>5, <3>3
    <3>5. Tour(b[k]) = Tour(b[l])
      BY <1>2, <1>9, <3>1, <3>4
    <3> QED BY <1>4, <3>1, <3>4, <3>5
  <2> QED BY <2>1, <2>2
<1>10. Len(w) = m + n
  BY <1>2
<1>11. ToursOnce(w, S \cup U)
  BY <1>7, <1>8, <1>9, <1>10 DEF ToursOnce
<1> QED BY <1>11 DEF w

(* The i-th sequence of paths tours the rings in part[i], and no ring is   *)
(* in two parts.                                                           *)
Parted(seqs, part) ==
    /\ \A i \in 1..Len(seqs) : ToursOnce(seqs[i], part[i])
    /\ \A i, j \in 1..Len(seqs) : part[i] \cap part[j] # {} => i = j
Whole(part, n) == UNION {part[i] : i \in 1..n}

(* The same of any number of sequences of paths.                           *)
LEMMA ToursFlatten ==
    ASSUME NEW A, NEW seqs \in Seq(Seq(A)), NEW part, Parted(seqs, part)
    PROVE  ToursOnce(FlattenSeq(seqs), Whole(part, Len(seqs)))
<1> DEFINE n    == Len(seqs)
           U(k) == UNION {part[i] : i \in 1..k}
<1>1. n \in Nat /\ \A i \in 1..n : seqs[i] \in Seq(A)
  OBVIOUS
<1>p. /\ \A i \in 1..n : ToursOnce(seqs[i], part[i])
      /\ \A i, j \in 1..n : part[i] \cap part[j] # {} => i = j
  BY DEF Parted
<1>2. CASE n = 0
  <2>1. FlattenSeq(seqs) = seqs /\ Len(seqs) = 0
    BY <1>2 DEF FlattenSeq
  <2>2. 1..0 = {} /\ U(0) = {}
    OBVIOUS
  <2> QED BY <1>2, <2>1, <2>2 DEF ToursOnce, Whole
<1>3. CASE n # 0
  <2>1. PICK fl \in [1..n -> Seq(A)] :
            /\ FlattenSeq(seqs) = fl[n]
            /\ fl[1] = seqs[1]
            /\ \A i \in 2..n : fl[i] = fl[i - 1] \o seqs[i]
    BY <1>3, FlattenRecursion
  <2> DEFINE T == {0} \cup {k \in 1..n : ToursOnce(fl[k], U(k))}
  <2>2. 0 \in T
    OBVIOUS
  <2>3. \A k \in 0..n-1 : k \in T => k + 1 \in T
    <3> TAKE k \in 0..n-1
    <3> HAVE k \in T
    <3>1. k + 1 \in 1..n
      BY <1>1
    <3>2. CASE k = 0
      <4>1. U(1) = part[1] /\ 1 \in 1..n
        <5>1. 1..1 = {1}
          OBVIOUS
        <5> QED BY <3>1, <3>2, <5>1
      <4>2. ToursOnce(fl[1], U(1))
        <5>1. ToursOnce(seqs[1], part[1]) /\ fl[1] = seqs[1]
          BY <1>p, <2>1, <4>1
        <5> HIDE DEF U
        <5> QED BY <4>1, <5>1
      <4> QED BY <3>2, <4>1, <4>2
    <3>3. CASE k # 0
      <4>1. k \in 1..n /\ k + 1 \in 2..n /\ (k + 1) - 1 = k
        BY <1>1, <3>3
      <4>2. ToursOnce(fl[k], U(k))
        BY <3>3
      <4>3. fl[k + 1] = fl[k] \o seqs[k + 1] /\ fl[k] \in Seq(A)
        BY <2>1, <4>1
      <4>4. ToursOnce(seqs[k + 1], part[k + 1]) /\ seqs[k + 1] \in Seq(A)
        BY <1>1, <1>p, <3>1
      <4>5. U(k) \cap part[k + 1] = {}
        <5>1. \A i \in 1..k : i \in 1..n /\ i # k + 1
          BY <4>1
        <5>2. \A i \in 1..k : part[i] \cap part[k + 1] = {}
          BY <1>p, <3>1, <5>1
        <5> QED BY <5>2
      <4>6. U(k + 1) = U(k) \cup part[k + 1]
        <5>1. 1..(k + 1) = 1..k \cup {k + 1}
          BY <4>1
        <5> QED BY <5>1
      <4> HIDE DEF U
      <4>7. ToursOnce(fl[k] \o seqs[k + 1], U(k) \cup part[k + 1])
        BY <4>2, <4>3, <4>4, <4>5, ToursConcat
      <4> QED BY <3>1, <4>3, <4>6, <4>7
    <3> QED BY <3>2, <3>3
  <2> HIDE DEF T
  <2>4. n \in T
    <3>1. n \in 0..n
      BY <1>1
    <3> QED BY <1>1, <2>2, <2>3, <3>1, ReachedUpwards
  <2>5. ToursOnce(fl[n], U(n))
    BY <1>3, <2>4 DEF T
  <2> QED BY <2>1, <2>5 DEF Whole
<1> QED BY <1>2, <1>3

(* The paths along a ring close up and tour it from each of its assets.    *)
LEMMA CyclePaths ==
    ASSUME Listing, NEW first \in FirstEdges, NEW c, NEW n, Ring(c, n)
    PROVE  /\ cycle(first, c) \in Seq(ClosedPaths)
           /\ ToursOnce(cycle(first, c), Turnings(c))
<1> DEFINE path == [i \in DOMAIN c |->
                      TradeAlong(first, c[i], c[Following(i, Len(c))])]
           paths == cycle(first, c)
<1>1. ClosedPath(path) /\ Len(path) = n /\ DOMAIN c = 1..n /\ Len(c) = n
  BY RingCloses
<1>2. paths = [r \in 1..n |-> Rotated(path, r)]
  BY <1>1 DEF cycle, rotations
<1>3. n \in Nat /\ c \in Seq(uniqueAssets) /\ \A i, j \in 1..n : c[i] = c[j] => i = j
  BY DEF Ring
<1>4. \A i \in 1..n : usedCurrency(path[i]) = c[i]
  <2> TAKE i \in 1..n
  <2>1. Joined(c[i], c[Following(i, n)])
    BY DEF Ring
  <2>2. usedCurrency(TradeAlong(first, c[i], c[Following(i, n)])) = c[i]
    BY <2>1, TradeJoins
  <2>3. path[i] = TradeAlong(first, c[i], c[Following(i, n)])
    BY <1>1
  <2> HIDE DEF path
  <2> QED BY <2>2, <2>3
<1> HIDE DEF path, paths
<1>5. \A r \in 1..n : Rotated(path, r) \in ClosedPaths
  <2>1. \A r \in 1..Len(path) : ClosedPath(Rotated(path, r))
    BY <1>1, ClosedRotated
  <2> QED BY <1>1, <2>1 DEF ClosedPaths, ClosedPath
<1>6. paths \in Seq(ClosedPaths) /\ Len(paths) = n
  BY <1>2, <1>3, <1>5
<1>7. \A r \in 1..n : Tour(Rotated(path, r)) = Rotated(c, r)
  <2> TAKE r \in 1..n
  <2> DEFINE p == Rotated(path, r)
             d == Rotated(c, r)
  <2>1. path \in Seq(Trades)
    BY <1>1 DEF ClosedPath
  <2>2. p \in Seq(Trades) /\ Len(p) = n /\ \A j \in 1..n : p[j] = path[Shift(r, j, n)]
    BY <1>1, <2>1, RotatedIs
  <2>3. d \in Seq(uniqueAssets) /\ Len(d) = n /\ \A j \in 1..n : d[j] = c[Shift(r, j, n)]
    BY <1>1, <1>3, RotatedIs
  <2>4. \A j \in 1..n : Shift(r, j, n) \in 1..n
    BY <1>3, ShiftFacts
  <2> HIDE DEF p, d
  <2>5. \A j \in 1..n : usedCurrency(p[j]) = d[j]
    BY <1>4, <2>2, <2>3, <2>4
  <2>6. DOMAIN p = 1..n /\ d = [j \in 1..n |-> d[j]]
    BY <2>2, <2>3
  <2>7. Tour(p) = d
    BY <2>5, <2>6 DEF Tour
  <2> QED BY <2>7 DEF p, d
<1>8. \A r \in 1..n : Tour(paths[r]) = Rotated(c, r)
  BY <1>2, <1>7
<1>9. \A r, s \in 1..n : Rotated(c, r) = Rotated(c, s) => r = s
  <2>1. \A r \in 1..n : Rotated(c, r)[1] = c[r]
    <3> TAKE r \in 1..n
    <3>1. 1 \in 1..n
      BY <1>3
    <3>2. Rotated(c, r)[1] = c[Shift(r, 1, n)]
      BY <1>1, <1>3, <3>1, RotatedIs
    <3>3. Shift(r, 1, n) = r
      BY <1>3, ShiftFacts
    <3> QED BY <3>2, <3>3
  <2> QED BY <1>3, <2>1
<1>10. Turnings(c) = {Rotated(c, r) : r \in 1..n}
  BY <1>1 DEF Turnings
<1>11. ToursOnce(paths, Turnings(c))
  BY <1>6, <1>8, <1>9, <1>10 DEF ToursOnce
<1> QED BY <1>6, <1>11 DEF paths

(* Every path that is found closes up, and every cycle is toured once.     *)
LEMMA FoundPaths ==
    ASSUME Listing, NEW first \in FirstEdges, NEW max \in Nat
    PROVE  /\ findCycles(first, max) \in Seq(ClosedPaths)
           /\ ToursOnce(findCycles(first, max), ElementaryCycles(3, max))
<1> DEFINE T     == tiernan_all_cycles(3, max)
           E     == ElementaryCycles(3, max)
           found == Listed(T)
           parts == [i \in DOMAIN found |-> cycle(first, found[i])]
           rings == [i \in DOMAIN found |-> Turnings(found[i])]
<1>1. OnceEach(found, T)
  BY ReportedAreRings, ListedOnce
<1>2. \A c \in T : /\ cycle(first, c) \in Seq(ClosedPaths)
                   /\ ToursOnce(cycle(first, c), Turnings(c))
  BY ReportedAreRings, CyclePaths
<1>3. /\ \A c \in T : Turnings(c) \subseteq E
      /\ \A t \in E : \E c \in T : t \in Turnings(c)
      /\ \A c, d \in T : Turnings(c) \cap Turnings(d) # {} => c = d
  BY ReportedOnce
<1>4. findCycles(first, max) = FlattenSeq(parts)
  BY DEF findCycles
<1> HIDE DEF T, found, E
<1>5. /\ DOMAIN found = 1..Len(found) /\ Len(found) \in Nat
      /\ \A i \in 1..Len(found) : found[i] \in T
      /\ \A c \in T : \E i \in 1..Len(found) : found[i] = c
      /\ \A i, j \in 1..Len(found) : found[i] = found[j] => i = j
  BY <1>1 DEF OnceEach
<1>6. parts \in Seq(Seq(ClosedPaths)) /\ Len(parts) = Len(found)
      /\ \A i \in 1..Len(found) : parts[i] = cycle(first, found[i])
  <2>1. \A i \in 1..Len(found) : cycle(first, found[i]) \in Seq(ClosedPaths)
    BY <1>2, <1>5
  <2> QED BY <1>5, <2>1
<1>7. \A i \in 1..Len(found) : rings[i] = Turnings(found[i])
  BY <1>5
<1> HIDE DEF parts, rings
<1>8. \A i \in 1..Len(found) : ToursOnce(parts[i], rings[i])
  BY <1>2, <1>5, <1>6, <1>7
<1>9. \A i, j \in 1..Len(found) : rings[i] \cap rings[j] # {} => i = j
  BY <1>3, <1>5, <1>7
<1>10. Whole(rings, Len(found)) = E
  <2>1. \A i \in 1..Len(found) : rings[i] \subseteq E
    BY <1>3, <1>5, <1>7
  <2>2. \A t \in E : \E i \in 1..Len(found) : t \in rings[i]
    BY <1>3, <1>5, <1>7
  <2> QED BY <2>1, <2>2 DEF Whole
<1>11. ToursOnce(FlattenSeq(parts), Whole(rings, Len(parts)))
  <2>1. Parted(parts, rings)
    BY <1>6, <1>8, <1>9 DEF Parted
  <2> QED BY <1>6, <2>1, ToursFlatten
<1> QED BY <1>4, <1>6, <1>10, <1>11, FlattenType DEF E

(* Leaving paths out keeps the others.                                     *)
LEMMA KeptAreClosed ==
    ASSUME NEW paths \in Seq(ClosedPaths), NEW assets
    PROVE  Kept(paths, assets) \in Seq(ClosedPaths)
<1> DEFINE parts == [i \in DOMAIN paths |->
              IF Allowed(paths[i], assets) THEN <<paths[i]>> ELSE << >>]
<1>1. DOMAIN paths = 1..Len(paths) /\ Len(paths) \in Nat
      /\ \A i \in 1..Len(paths) : paths[i] \in ClosedPaths
  OBVIOUS
<1>2. \A i \in 1..Len(paths) :
         (IF Allowed(paths[i], assets) THEN <<paths[i]>> ELSE << >>)
            \in Seq(ClosedPaths)
  BY <1>1
<1>3. parts \in Seq(Seq(ClosedPaths))
  BY <1>1, <1>2
<1>4. Kept(paths, assets) = FlattenSeq(parts)
  BY DEF Kept
<1> HIDE DEF parts
<1> QED BY <1>3, <1>4, FlattenType

(* The rings that the mapper is asked for: sequences of different assets   *)
(* of the list, as long as the configuration allows, that markets join.    *)
Rings(assets, max) ==
    LET allowed == IF assets = {} THEN uniqueAssets ELSE assets
    IN  {t \in UNION {[1..n -> allowed] : n \in 3..max} :
            /\ IsInjective(t)
            /\ \A i \in DOMAIN t : \E s \in symbolMap :
                   AssetsOf(s) = {t[i], t[Following(i, Len(t))]}}

(* Assets are joined when a market is between them.                        *)
LEMMA JoinedIs ==
    ASSUME Listing, NEW u, NEW v
    PROVE  /\ Joined(u, v) <=> \E s \in symbolMap : AssetsOf(s) = {u, v}
           /\ Joined(u, v) => u \in uniqueAssets
<1>1. ASSUME Joined(u, v)
      PROVE  u \in uniqueAssets /\ \E s \in symbolMap : AssetsOf(s) = {u, v}
  <2>1. PICK e \in Edges : usedCurrency(e) = u /\ recvCurrency(e) = v
    BY <1>1 DEF Joined
  <2>2. e.symbol \in symbolMap /\ e.position \in {"LONG", "SHORT"}
    BY DEF Edges
  <2>3. AssetsOf(e.symbol) = {u, v}
    BY <2>1, <2>2 DEF AssetsOf, usedCurrency, recvCurrency
  <2> QED BY <2>2, <2>3 DEF uniqueAssets
<1>2. ASSUME NEW s \in symbolMap, AssetsOf(s) = {u, v} PROVE Joined(u, v)
  <2> DEFINE L == [symbol |-> s, position |-> "LONG"]
             S == [symbol |-> s, position |-> "SHORT"]
  <2>1. L \in Edges /\ S \in Edges
    BY DEF Edges
  <2>2. /\ usedCurrency(L) = QuoteAsset[s] /\ recvCurrency(L) = BaseAsset[s]
        /\ usedCurrency(S) = BaseAsset[s] /\ recvCurrency(S) = QuoteAsset[s]
    BY DEF usedCurrency, recvCurrency
  <2>3. BaseAsset[s] # QuoteAsset[s]
    BY StartupAssumption DEF Listing
  <2>4. \/ BaseAsset[s] = u /\ QuoteAsset[s] = v
        \/ BaseAsset[s] = v /\ QuoteAsset[s] = u
    BY <1>2, <2>3 DEF AssetsOf
  <2> HIDE DEF L, S
  <2> QED BY <2>1, <2>2, <2>4 DEF Joined
<1> QED BY <1>1, <1>2

(* The rings are the cycles whose assets are on the list.                  *)
LEMMA RingsAre ==
    ASSUME Listing, NEW assets, NEW max \in Nat
    PROVE  Rings(assets, max) =
             {t \in ElementaryCycles(3, max) :
                 assets = {} \/ \A i \in DOMAIN t : t[i] \in assets}
<1> DEFINE E       == ElementaryCycles(3, max)
           R       == Rings(assets, max)
           allowed == IF assets = {} THEN uniqueAssets ELSE assets
<1>1. ASSUME NEW t \in R
      PROVE  t \in E /\ (assets = {} \/ \A i \in DOMAIN t : t[i] \in assets)
  <2>1. PICK n \in 3..max : t \in [1..n -> allowed]
    BY DEF Rings
  <2>2. /\ IsInjective(t)
        /\ \A i \in DOMAIN t : \E s \in symbolMap :
               AssetsOf(s) = {t[i], t[Following(i, Len(t))]}
    BY DEF Rings
  <2>3. \A i \in DOMAIN t : /\ Joined(t[i], t[Following(i, Len(t))])
                            /\ t[i] \in uniqueAssets
    BY <2>2, JoinedIs
  <2>4. DOMAIN t = 1..n /\ t = [i \in 1..n |-> t[i]]
    BY <2>1
  <2>5. t \in [1..n -> uniqueAssets]
    BY <2>3, <2>4
  <2>6. t \in UNION {[1..m -> uniqueAssets] : m \in 3..max}
    BY <2>5
  <2>7. t \in E
    BY <2>2, <2>3, <2>6 DEF ElementaryCycles
  <2>8. assets = {} \/ \A i \in DOMAIN t : t[i] \in assets
    BY <2>1, <2>4
  <2> QED BY <2>7, <2>8
<1>2. ASSUME NEW t \in E, assets = {} \/ \A i \in DOMAIN t : t[i] \in assets
      PROVE  t \in R
  <2>1. PICK n \in 3..max : t \in [1..n -> uniqueAssets]
    BY DEF ElementaryCycles
  <2>2. /\ IsInjective(t)
        /\ \A i \in DOMAIN t : Joined(t[i], t[Following(i, Len(t))])
    BY DEF ElementaryCycles
  <2>3. \A i \in DOMAIN t : \E s \in symbolMap :
               AssetsOf(s) = {t[i], t[Following(i, Len(t))]}
    BY <2>2, JoinedIs
  <2>4. DOMAIN t = 1..n /\ t = [i \in 1..n |-> t[i]]
    BY <2>1
  <2>5. \A i \in 1..n : t[i] \in allowed
    BY <1>2, <2>1, <2>4
  <2>6. t \in [1..n -> allowed]
    BY <2>4, <2>5
  <2>7. t \in UNION {[1..m -> allowed] : m \in 3..max}
    BY <2>6
  <2> QED BY <2>2, <2>3, <2>7 DEF Rings
<1> HIDE DEF E, R
<1>3. R = {t \in E : assets = {} \/ \A i \in DOMAIN t : t[i] \in assets}
  BY <1>1, <1>2
<1> QED BY <1>3 DEF E, R

(* A closed path is allowed when the assets of its tour are on the list.   *)
LEMMA AllowedIs ==
    ASSUME NEW path \in ClosedPaths, NEW assets
    PROVE  /\ Allowed(path, assets) <=>
                assets = {} \/ \A i \in DOMAIN Tour(path) : Tour(path)[i] \in assets
<1> DEFINE n == Len(path)
           t == Tour(path)
<1>1. /\ n \in Nat /\ DOMAIN path = 1..n
      /\ \A i \in 1..n : recvCurrency(path[i]) = usedCurrency(path[Following(i, n)])
  BY DEF ClosedPaths, ClosedPath
<1>2. DOMAIN t = 1..n /\ \A i \in 1..n : t[i] = usedCurrency(path[i])
  BY <1>1 DEF Tour
<1>3. \A i \in 1..n : Following(i, n) \in 1..n
  BY <1>1, FollowingIs
<1> HIDE DEF n, t
<1>4. \A i \in 1..n : recvCurrency(path[i]) = t[Following(i, n)]
  BY <1>1, <1>2, <1>3
<1>5. Allowed(path, assets) <=>
         assets = {} \/ \A i \in 1..n : t[i] \in assets
  BY <1>1, <1>2, <1>3, <1>4 DEF Allowed
<1> QED BY <1>2, <1>5 DEF t

(* The filter keeps the tours on the list.                                 *)
LEMMA KeptTours ==
    ASSUME NEW paths \in Seq(ClosedPaths), NEW assets, NEW S, ToursOnce(paths, S)
    PROVE  ToursOnce(Kept(paths, assets),
                     {t \in S : assets = {} \/ \A i \in DOMAIN t : t[i] \in assets})
<1> DEFINE n     == Len(paths)
           On(t) == assets = {} \/ \A i \in DOMAIN t : t[i] \in assets
           parts == [i \in DOMAIN paths |->
              IF Allowed(paths[i], assets) THEN <<paths[i]>> ELSE << >>]
           tours == [i \in 1..n |->
              IF On(Tour(paths[i])) THEN {Tour(paths[i])} ELSE {}]
<1>1. DOMAIN paths = 1..n /\ n \in Nat /\ \A i \in 1..n : paths[i] \in ClosedPaths
  OBVIOUS
<1>2. \A i \in 1..n : Allowed(paths[i], assets) <=> On(Tour(paths[i]))
  BY <1>1, AllowedIs
<1>3. Kept(paths, assets) = FlattenSeq(parts)
  BY DEF Kept
<1>4. /\ \A i \in 1..n : Tour(paths[i]) \in S
      /\ \A t \in S : \E i \in 1..n : Tour(paths[i]) = t
      /\ \A i, j \in 1..n : Tour(paths[i]) = Tour(paths[j]) => i = j
  BY DEF ToursOnce
<1> HIDE DEF On, n
<1>5. /\ parts \in Seq(Seq(ClosedPaths)) /\ Len(parts) = n
      /\ \A i \in 1..n : parts[i] =
            IF On(Tour(paths[i])) THEN <<paths[i]>> ELSE << >>
  <2>1. \A i \in 1..n :
           (IF Allowed(paths[i], assets) THEN <<paths[i]>> ELSE << >>)
              \in Seq(ClosedPaths)
    BY <1>1
  <2>2. parts = [i \in 1..n |->
              IF Allowed(paths[i], assets) THEN <<paths[i]>> ELSE << >>]
    BY <1>1
  <2> QED BY <1>1, <1>2, <2>1, <2>2
<1>6. \A i \in 1..n : tours[i] = IF On(Tour(paths[i])) THEN {Tour(paths[i])} ELSE {}
  OBVIOUS
<1> HIDE DEF parts, tours
<1>7. \A i \in 1..n : ToursOnce(parts[i], tours[i])
  <2> TAKE i \in 1..n
  <2>1. CASE On(Tour(paths[i]))
    <3> DEFINE q == <<paths[i]>>
    <3>1. parts[i] = q /\ tours[i] = {Tour(paths[i])}
      BY <1>5, <1>6, <2>1
    <3>2. Len(q) = 1 /\ q[1] = paths[i] /\ 1..1 = {1}
      OBVIOUS
    <3> HIDE DEF q
    <3>3. ToursOnce(q, {Tour(paths[i])})
      BY <3>2 DEF ToursOnce
    <3> QED BY <3>1, <3>3
  <2>2. CASE ~ On(Tour(paths[i]))
    <3>1. parts[i] = << >> /\ tours[i] = {}
      BY <1>5, <1>6, <2>2
    <3>2. ToursOnce(<< >>, {})
      BY DEF ToursOnce
    <3> QED BY <3>1, <3>2
  <2> QED BY <2>1, <2>2
<1>t. \A i \in 1..n : \A t : t \in tours[i] => t = Tour(paths[i]) /\ On(t)
  BY <1>6
<1>8. \A i, j \in 1..n : tours[i] \cap tours[j] # {} => i = j
  BY <1>4, <1>t
<1>9. Whole(tours, n) = {t \in S : On(t)}
  <2>1. \A t : t \in Whole(tours, n) <=> \E i \in 1..n : t \in tours[i]
    BY DEF Whole
  <2>2. \A t : (\E i \in 1..n : t \in tours[i]) <=> t \in S /\ On(t)
    <3> TAKE t
    <3>1. ASSUME NEW i \in 1..n, t \in tours[i] PROVE t \in S /\ On(t)
      <4>1. t = Tour(paths[i]) /\ On(t)
        BY <1>t, <3>1
      <4> QED BY <1>4, <4>1
    <3>2. ASSUME t \in S, On(t) PROVE \E i \in 1..n : t \in tours[i]
      <4>1. PICK i \in 1..n : Tour(paths[i]) = t
        BY <1>4, <3>2
      <4>2. tours[i] = {t}
        BY <1>6, <3>2, <4>1
      <4> QED BY <4>2
    <3> QED BY <3>1, <3>2
  <2> QED BY <2>1, <2>2
<1>10. ToursOnce(FlattenSeq(parts), Whole(tours, Len(parts)))
  <2>1. Parted(parts, tours)
    BY <1>5, <1>7, <1>8 DEF Parted
  <2> QED BY <1>5, <2>1, ToursFlatten
<1>11. ToursOnce(Kept(paths, assets), {t \in S : On(t)})
  BY <1>3, <1>5, <1>9, <1>10
<1> QED BY <1>11 DEF On

(* Paths that tour each of the rings in S once are as many as the rings.   *)
LEMMA ToursCounted ==
    ASSUME NEW A, NEW paths \in Seq(A), NEW S, ToursOnce(paths, S)
    PROVE  /\ {Tour(paths[i]) : i \in DOMAIN paths} = S
           /\ Len(paths) = Cardinality(S)
<1> DEFINE n == Len(paths)
           f == [i \in 1..n |-> Tour(paths[i])]
<1>1. n \in Nat /\ DOMAIN paths = 1..n
  OBVIOUS
<1>2. {Tour(paths[i]) : i \in 1..n} = S
  BY DEF ToursOnce
<1>3. f \in Surjection(1..n, S) /\ f \in Injection(1..n, S)
  BY DEF ToursOnce, Surjection, Injection, IsInjective
<1> HIDE DEF f, n
<1>4. IsFiniteSet(1..n) /\ Cardinality(1..n) = n
  <2>1. /\ IsFiniteSet(1..n)
        /\ Cardinality(1..n) = IF 1 > n THEN 0 ELSE n - 1 + 1
    BY <1>1, FS_Interval
  <2> QED BY <1>1, <2>1
<1>5. Cardinality(S) = n
  BY <1>3, <1>4, FS_Surjection
<1> QED BY <1>1, <1>2, <1>5 DEF n

-----------------------------------------------------------------------------
(* The start of the program.                                               *)

(* The markets of the paths.                                               *)
Followed == UNION {SymbolsOn(tradingPaths[i]) : i \in DOMAIN tradingPaths}

Mapped ==
    /\ tradingPaths \in Seq(Seq(Trades))
    /\ config.staticPaths = << >> => tradingPaths \in Seq(ClosedPaths)

Toured == config.staticPaths = << >> =>
              ToursOnce(tradingPaths, Rings(config.assets, config.maxDepth))

Divided ==
    \E symbols : /\ OnceEach(symbols, Followed)
                 /\ ~ (config.numSessions < Len(symbols) \div SymbolsPerSession)
                 /\ dividedSymbols =
                       divideSymbolsEvenly(symbols, config.numSessions)

Indexed ==
    opportunities = [s \in symbolMap |->
        {i \in DOMAIN tradingPaths : s \in SymbolsOn(tradingPaths[i])}]

Stages == {"balance", "symbols", "values", "paths", "application", "worker",
           "ready", "running", "failed"}

(* The inductive invariant of the start: what each stage leaves behind.    *)
Started ==
    /\ stage \in Stages
    /\ answer \in Answers /\ config \in Configurations
    /\ Listing
    /\ Mapped
    /\ stage \in {"balance", "symbols", "values", "paths"} =>
           tradingPaths = << >> /\ dividedSymbols = << >>
    /\ dividedSymbols \in Seq(Seq(symbolMap))
    /\ stage \in {"application", "worker", "ready", "running"} => Toured
    /\ stage \in {"worker", "ready", "running"} => Divided
    /\ stage \in {"ready", "running"} => Indexed

(* The markets of the paths are markets, and finitely many.                *)
LEMMA FollowedAreMarkets ==
    ASSUME Listing, Mapped
    PROVE  Followed \subseteq symbolMap /\ IsFiniteSet(Followed)
<1>1. \A i \in DOMAIN tradingPaths : \A j \in DOMAIN tradingPaths[i] :
         tradingPaths[i][j].symbol \in symbolMap
  <2>1. \A i \in DOMAIN tradingPaths : tradingPaths[i] \in Seq(Trades)
    BY DEF Mapped
  <2>2. \A i \in DOMAIN tradingPaths : \A j \in DOMAIN tradingPaths[i] :
           tradingPaths[i][j] \in Trades
    BY <2>1
  <2> QED BY <2>2 DEF Trades
<1>2. Followed \subseteq symbolMap
  BY <1>1 DEF Followed, SymbolsOn
<1> QED BY <1>2, FinitelyManyAssets, FS_Subset

(* The parts of the invariant that a step leaves alone.                    *)
LEMMA SameMarkets ==
    ASSUME UNCHANGED <<answer, config, symbolMap>>
    PROVE  /\ Trades' = Trades /\ ClosedPaths' = ClosedPaths
           /\ Listing' <=> Listing
           /\ UNCHANGED tradingPaths => (Mapped' <=> Mapped)
           /\ \A assets, max : Rings(assets, max)' = Rings(assets, max)
           /\ UNCHANGED tradingPaths => (Toured' <=> Toured)
           /\ UNCHANGED <<tradingPaths, dividedSymbols>> => (Divided' <=> Divided)
           /\ UNCHANGED <<tradingPaths, opportunities>> => (Indexed' <=> Indexed)
<1>1. Trades' = Trades /\ ClosedPaths' = ClosedPaths
  BY DEF Trades, ClosedPaths, ClosedPath, recvCurrency, usedCurrency
<1>2. UNCHANGED tradingPaths => (Mapped' <=> Mapped)
  BY <1>1 DEF Mapped
<1>6. \A assets, max : Rings(assets, max)' = Rings(assets, max)
  BY DEF Rings, uniqueAssets
<1>7. UNCHANGED tradingPaths => (Toured' <=> Toured)
  BY <1>6 DEF Toured, ToursOnce
<1>4. UNCHANGED <<tradingPaths, dividedSymbols>> => (Divided' <=> Divided)
  BY DEF Divided, Followed, SymbolsOn
<1>5. UNCHANGED <<tradingPaths, opportunities>> => (Indexed' <=> Indexed)
  BY DEF Indexed, SymbolsOn
<1> QED BY <1>1, <1>2, <1>4, <1>5, <1>6, <1>7 DEF Listing

(* Nothing of the start changes once it is over.                           *)
LEMMA StartedStutter ==
    ASSUME Started, UNCHANGED startupVars
    PROVE  Started'
BY SameMarkets DEF Started, startupVars

(* The initial state.                                                      *)
LEMMA InitStarted == ASSUME StartupInit PROVE Started
<1>1. Listing /\ Mapped
  BY DEF StartupInit, Listing, Mapped
<1> QED BY <1>1 DEF StartupInit, Started, Stages

(* The answers of the exchange are read.                                   *)
LEMMA FetchStarted ==
    ASSUME Started, requestFails \/ getBalance \/ getSymbols
    PROVE  Started'
<1>1. CASE requestFails
  BY <1>1, SameMarkets DEF requestFails, Fetching, Started, Stages
<1>2. CASE getBalance
  BY <1>2, SameMarkets DEF getBalance, Started, Stages
<1>3. CASE getSymbols
  <2>1. /\ stage = "symbols" /\ stage' = "values"
        /\ tradingPaths' = << >> /\ dividedSymbols' = << >>
        /\ answer' = answer /\ config' = config /\ symbolMap' = answer.spot
    BY <1>3 DEF getSymbols, Started
  <2>2. Listing' /\ Mapped'
    BY <2>1, StartupAssumption DEF Listing, Mapped, Started
  <2> QED BY <2>1, <2>2 DEF Started, Stages
<1> QED BY <1>1, <1>2, <1>3

(* The assets are valued.                                                  *)
LEMMA ValuesStarted ==
    ASSUME Started, getRelativeValues
    PROVE  Started'
<1>1. /\ stage = "values" /\ stage' = "paths"
      /\ UNCHANGED <<answer, config, symbolMap, tradingPaths, dividedSymbols,
                     opportunities>>
  BY DEF getRelativeValues
<1> QED BY <1>1, SameMarkets DEF Started, Stages

(* The cycles are found, or given by the configuration.                    *)
LEMMA PathsStarted ==
    ASSUME Started, getTradingPaths \/ useStaticPaths
    PROVE  Started'
<1>1. CASE getTradingPaths
  <2>1. PICK first \in FirstEdges :
           tradingPaths' = Kept(findCycles(first, config.maxDepth), config.assets)
    BY <1>1 DEF getTradingPaths
  <2>2. /\ stage = "paths" /\ stage' = "application"
        /\ UNCHANGED <<answer, config, symbolMap, relativeValues,
                       dividedSymbols, opportunities>>
    BY <1>1 DEF getTradingPaths
  <2>3. Listing /\ config.maxDepth \in Nat
    BY StartupAssumption DEF Started
  <2>4. tradingPaths' \in Seq(ClosedPaths)
    BY <2>1, <2>3, FoundPaths, KeptAreClosed
  <2>5. ClosedPaths \subseteq Seq(Trades)
    BY DEF ClosedPaths
  <2>6. tradingPaths' \in Seq(Seq(Trades))
    BY <2>4, <2>5, SeqMonotonic
  <2>7. Mapped'
    BY <2>2, <2>4, <2>6, SameMarkets DEF Mapped
  <2>8. Toured'
    <3> DEFINE max    == config.maxDepth
               assets == config.assets
               found  == findCycles(first, max)
    <3>1. found \in Seq(ClosedPaths) /\ ToursOnce(found, ElementaryCycles(3, max))
      BY <2>3, FoundPaths
    <3>2. tradingPaths' = Kept(found, assets)
      BY <2>1
    <3>3. max \in Nat
      BY <2>3
    <3> HIDE DEF found, max, assets
    <3>4. ToursOnce(tradingPaths', Rings(assets, max))
      BY <2>3, <3>1, <3>2, <3>3, KeptTours, RingsAre
    <3>5. Rings(assets, max)' = Rings(assets, max)
      BY <2>2, SameMarkets DEF assets, max
    <3> QED BY <2>2, <3>4, <3>5 DEF Toured, assets, max
  <2> QED BY <2>2, <2>7, <2>8, SameMarkets DEF Started, Stages
<1>2. CASE useStaticPaths
  <2>1. /\ stage = "paths" /\ config.staticPaths # << >>
        /\ UNCHANGED <<answer, config, symbolMap, relativeValues,
                       dividedSymbols, opportunities>>
    BY <1>2 DEF useStaticPaths
  <2>2. CASE stage' = "failed" /\ UNCHANGED tradingPaths
    BY <2>1, <2>2, SameMarkets DEF Started, Stages
  <2>3. CASE /\ \A i \in DOMAIN config.staticPaths :
                   \A j \in DOMAIN config.staticPaths[i] :
                      config.staticPaths[i][j].symbol \in symbolMap
             /\ tradingPaths' = config.staticPaths /\ stage' = "application"
    <3> DEFINE P == config.staticPaths
    <3>1. P \in Seq(Seq([symbol : STRING, position : {"LONG", "SHORT"}]))
      BY StartupAssumption DEF Started
    <3>2. \A i \in 1..Len(P) : P[i] \in Seq(Trades)
      <4> SUFFICES ASSUME NEW i \in 1..Len(P) PROVE P[i] \in Seq(Trades)
        OBVIOUS
      <4>1. P[i] \in Seq([symbol : STRING, position : {"LONG", "SHORT"}])
        BY <3>1
      <4>2. i \in DOMAIN P
        BY <3>1
      <4>3. \A j \in DOMAIN P[i] : P[i][j].symbol \in symbolMap
        BY <2>3, <4>2
      <4> HIDE DEF P
      <4> DEFINE p == P[i]
                 R == [symbol : STRING, position : {"LONG", "SHORT"}]
      <4>4. /\ p \in Seq(R)
            /\ \A j \in DOMAIN p : p[j].symbol \in symbolMap
        BY <4>1, <4>3
      <4> HIDE DEF p
      <4>5. \A j \in 1..Len(p) : p[j] \in Trades
        <5>1. \A t \in R : t.symbol \in symbolMap => t \in Trades
          BY DEF Trades
        <5> HIDE DEF Trades, R
        <5>2. \A j \in 1..Len(p) : p[j] \in R /\ p[j].symbol \in symbolMap
          BY <4>4
        <5> QED BY <5>1, <5>2
      <4>6. p \in Seq(Trades)
        BY <4>4, <4>5
      <4> QED BY <4>6 DEF p
    <3> HIDE DEF P
    <3>3. P \in Seq(Seq(Trades))
      BY <3>1, <3>2
    <3>4. Mapped'
      BY <2>1, <2>3, <3>3, SameMarkets DEF Mapped, P
    <3>5. Toured'
      BY <2>1 DEF Toured
    <3> QED BY <2>1, <2>3, <3>4, <3>5, SameMarkets DEF Started, Stages
  <2> QED BY <1>2, <2>2, <2>3 DEF useStaticPaths
<1> QED BY <1>1, <1>2

(* The application divides the markets, and the worker indexes the paths.  *)
LEMMA ConstructorsStarted ==
    ASSUME Started, Application \/ Worker \/ start
    PROVE  Started'
<1>1. CASE Application
  <2> DEFINE symbols == getUniqueSymbolsForTradingPaths
  <2>1. /\ stage = "application"
        /\ UNCHANGED <<answer, config, symbolMap, relativeValues, tradingPaths,
                       opportunities>>
    BY <1>1 DEF Application
  <2>2. CASE stage' = "failed" /\ UNCHANGED dividedSymbols
    BY <2>1, <2>2, SameMarkets DEF Started, Stages
  <2>3. CASE /\ dividedSymbols' = divideSymbolsEvenly(symbols, config.numSessions)
             /\ ~ (config.numSessions < Len(symbols) \div SymbolsPerSession)
             /\ stage' = "worker"
    <3>1. Followed \subseteq symbolMap /\ IsFiniteSet(Followed)
      BY FollowedAreMarkets DEF Started
    <3>2. OnceEach(symbols, Followed)
      BY <3>1, ListedOnce DEF getUniqueSymbolsForTradingPaths, Followed
    <3> HIDE DEF symbols
    <3>3. config.numSessions \in Nat \ {0}
      BY StartupAssumption DEF Started
    <3>4. dividedSymbols' \in Seq(Seq(symbolMap))
      <4>1. symbols \in Seq(symbolMap)
        BY <3>1, <3>2, SeqMonotonic DEF OnceEach
      <4> QED BY <2>3, <3>3, <4>1, DivisionKeepsAll
    <3>5. Divided'
      <4>1. Followed' = Followed
        BY <2>1 DEF Followed, SymbolsOn
      <4> QED BY <2>1, <2>3, <3>2, <4>1 DEF Divided
    <3> QED BY <2>1, <2>3, <3>4, <3>5, SameMarkets DEF Started, Stages
  <2> QED BY <1>1, <2>2, <2>3 DEF Application
<1>2. CASE Worker
  <2>1. /\ stage = "worker" /\ stage' = "ready"
        /\ UNCHANGED <<answer, config, symbolMap, relativeValues, tradingPaths,
                       dividedSymbols>>
    BY <1>2 DEF Worker
  <2>2. Indexed'
    BY <1>2 DEF Worker, Indexed, SymbolsOn
  <2> QED BY <2>1, <2>2, SameMarkets DEF Started, Stages
<1>3. CASE start
  BY <1>3, SameMarkets DEF start, Started, Stages
<1> QED BY <1>1, <1>2, <1>3

(* Every step of the start keeps the invariant.                            *)
LEMMA StartedStep ==
    ASSUME Started, [StartupNext]_startupVars
    PROVE  Started'
BY FetchStarted, ValuesStarted, PathsStarted, ConstructorsStarted,
   StartedStutter DEF StartupNext

(* The properties of the start follow from it.                             *)
LEMMA StartedImplies ==
    ASSUME Started
    PROVE  /\ PathsCloseUp /\ EveryTourOnce /\ EveryMarketFollowed
           /\ SharesBounded
<1>1. PathsCloseUp
  <2> SUFFICES ASSUME Ready, config.staticPaths = << >>,
                      NEW k \in DOMAIN tradingPaths
      PROVE  LET path == tradingPaths[k] IN
             /\ Cardinality(SymbolsOn(path)) = Len(path)
             /\ \A i \in DOMAIN path : recvCurrency(path[i]) =
                    usedCurrency(path[Following(i, Len(path))])
    BY DEF PathsCloseUp
  <2> DEFINE path == tradingPaths[k]
             n    == Len(path)
             f    == [i \in 1..n |-> path[i].symbol]
  <2>1. tradingPaths \in Seq(ClosedPaths)
    BY DEF Started, Mapped
  <2>2. path \in ClosedPaths
    BY <2>1
  <2>3. ClosedPath(path) /\ path \in Seq(Trades)
    BY <2>2 DEF ClosedPaths
  <2> HIDE DEF path
  <2>4. n \in Nat /\ DOMAIN path = 1..n /\ SymbolsOn(path) = {f[i] : i \in 1..n}
    BY <2>3 DEF SymbolsOn
  <2>5. /\ f \in Surjection(1..n, {f[i] : i \in 1..n})
        /\ f \in Injection(1..n, {f[i] : i \in 1..n})
    BY <2>3 DEF ClosedPath, Surjection, Injection, IsInjective
  <2>6. Cardinality({f[i] : i \in 1..n}) = n
    <3>0. n \in Nat
      BY <2>4
    <3> HIDE DEF f, n
    <3>1. IsFiniteSet(1..n) /\ Cardinality(1..n) = n
      <4>1. /\ IsFiniteSet(1..n)
            /\ Cardinality(1..n) = IF 1 > n THEN 0 ELSE n - 1 + 1
        BY <3>0, FS_Interval
      <4> QED BY <3>0, <4>1
    <3> QED BY <2>5, <3>1, FS_Surjection
  <2> QED BY <2>3, <2>4, <2>6 DEF ClosedPath, path
<1>2. EveryMarketFollowed
  <2> SUFFICES ASSUME Ready
      PROVE  LET all == FlattenSeq(dividedSymbols)
             IN  /\ \A i \in DOMAIN tradingPaths :
                       \A s \in SymbolsOn(tradingPaths[i]) : i \in opportunities[s]
                 /\ ToSet(all) = {s \in symbolMap : opportunities[s] # {}}
                 /\ IsInjective(all)
                 /\ \A k, l \in DOMAIN dividedSymbols :
                       Len(dividedSymbols[k]) <= Len(dividedSymbols[l]) + 1
    BY DEF EveryMarketFollowed
  <2>1. Divided /\ Indexed /\ Listing /\ Mapped
    BY DEF Started, Ready
  <2>2. PICK symbols : /\ OnceEach(symbols, Followed)
                       /\ dividedSymbols =
                             divideSymbolsEvenly(symbols, config.numSessions)
    BY <2>1 DEF Divided
  <2> DEFINE n == config.numSessions
  <2>3. n \in Nat \ {0}
    BY StartupAssumption DEF Started
  <2>4. Followed \subseteq symbolMap
    BY <2>1, FollowedAreMarkets
  <2> HIDE DEF n
  <2>5. /\ dividedSymbols \in Seq(Seq(Followed)) /\ Len(dividedSymbols) = n
        /\ FlattenSeq(dividedSymbols) = symbols
        /\ \A k, l \in 1..n : Len(dividedSymbols[k]) <= Len(dividedSymbols[l]) + 1
    <3>1. symbols \in Seq(Followed)
      BY <2>2 DEF OnceEach
    <3> QED BY <2>2, <2>3, <3>1, DivisionKeepsAll DEF n
  <2>6. \A s \in symbolMap : opportunities[s] =
           {i \in DOMAIN tradingPaths : s \in SymbolsOn(tradingPaths[i])}
    BY <2>1 DEF Indexed
  <2>7. \A s : s \in Followed <=>
           \E i \in DOMAIN tradingPaths : s \in SymbolsOn(tradingPaths[i])
    BY DEF Followed
  <2>8. \A i \in DOMAIN tradingPaths :
           \A s \in SymbolsOn(tradingPaths[i]) : i \in opportunities[s]
    BY <2>4, <2>6, <2>7
  <2>9. Followed = {s \in symbolMap : opportunities[s] # {}}
    BY <2>4, <2>6, <2>7
  <2>10. ToSet(symbols) = Followed /\ IsInjective(symbols)
    <3>1. /\ symbols \in Seq(Followed)
          /\ \A x \in Followed : \E i \in 1..Len(symbols) : symbols[i] = x
          /\ \A i, j \in 1..Len(symbols) : symbols[i] = symbols[j] => i = j
      BY <2>2 DEF OnceEach
    <3>2. DOMAIN symbols = 1..Len(symbols)
      BY <3>1
    <3>3. \A i \in 1..Len(symbols) : symbols[i] \in Followed
      BY <3>1
    <3>4. ToSet(symbols) = Followed
      <4>1. \A x : x \in ToSet(symbols) <=>
                     \E i \in 1..Len(symbols) : x = symbols[i]
        BY <3>2, Zenon DEF ToSet
      <4>2. \A x \in Followed : \E i \in 1..Len(symbols) : x = symbols[i]
        BY <3>1
      <4>3. \A x \in Followed : x \in ToSet(symbols)
        BY <4>1, <4>2, Zenon
      <4>4. \A x \in ToSet(symbols) : x \in Followed
        BY <3>3, <4>1, Zenon
      <4> QED BY <4>3, <4>4, Zenon
    <3>5. IsInjective(symbols)
      BY <3>1, <3>2, Zenon DEF IsInjective
    <3> QED BY <3>4, <3>5
  <2>11. \A k, l \in DOMAIN dividedSymbols :
            Len(dividedSymbols[k]) <= Len(dividedSymbols[l]) + 1
    BY <2>5
  <2> QED BY <2>5, <2>8, <2>9, <2>10, <2>11
<1>3. EveryTourOnce
  <2> SUFFICES ASSUME Ready, config.staticPaths = << >>
      PROVE  LET rings == Rings(config.assets, config.maxDepth)
             IN  /\ {Tour(tradingPaths[i]) : i \in DOMAIN tradingPaths} = rings
                 /\ Len(tradingPaths) = Cardinality(rings)
    BY Zenon DEF EveryTourOnce, Rings
  <2>1. tradingPaths \in Seq(Seq(Trades)) /\ Toured
    BY DEF Started, Mapped, Ready
  <2>2. ToursOnce(tradingPaths, Rings(config.assets, config.maxDepth))
    BY <2>1 DEF Toured
  <2> QED BY <2>1, <2>2, ToursCounted
<1>4. SharesBounded
  <2> SUFFICES ASSUME Ready, NEW k \in DOMAIN dividedSymbols
      PROVE  Len(dividedSymbols[k]) < 2 * SymbolsPerSession
    BY DEF SharesBounded
  <2> DEFINE n == config.numSessions
  <2>1. n \in Nat \ {0} /\ SymbolsPerSession \in Nat \ {0}
    BY StartupAssumption DEF Started
  <2>2. PICK symbols :
           /\ OnceEach(symbols, Followed)
           /\ ~ (n < Len(symbols) \div SymbolsPerSession)
           /\ dividedSymbols = divideSymbolsEvenly(symbols, n)
    BY DEF Started, Ready, Divided
  <2> HIDE DEF n
  <2>3. symbols \in Seq(Followed) /\ Len(symbols) \in Nat
    BY <2>2 DEF OnceEach
  <2>4. /\ dividedSymbols \in Seq(Seq(Followed)) /\ Len(dividedSymbols) = n
        /\ \A i \in 1..n : n * Len(dividedSymbols[i]) < Len(symbols) + n
    BY <2>1, <2>2, <2>3, DivisionKeepsAll
  <2>5. k \in 1..n /\ Len(dividedSymbols[k]) \in Nat
    BY <2>4
  <2>6. n * Len(dividedSymbols[k]) < Len(symbols) + n
    BY <2>4, <2>5
  <2> QED BY <2>1, <2>2, <2>3, <2>5, <2>6, ShareBound
<1> QED BY <1>1, <1>2, <1>3, <1>4

(* The feed's steps leave the start alone.                                 *)
LEMMA FeedLeavesStart ==
    ASSUME FeedNext
    PROVE  UNCHANGED startupVars
<1>1. \A k : onIncremental(k) => UNCHANGED startupVars
  BY DEF onIncremental
<1>2. \A k, s : onSnapshot(k, s) => UNCHANGED startupVars
  BY DEF onSnapshot
<1>3. \A named, side, action, sized, quote :
         readGroup(named, side, action, sized, quote) => UNCHANGED startupVars
  <2> SUFFICES ASSUME NEW named, NEW side, NEW action, NEW sized, NEW quote,
                      readGroup(named, side, action, sized, quote)
               PROVE  UNCHANGED startupVars
    OBVIOUS
  <2> QED BY Zenon DEF readGroup
<1>4. parsed \/ pushUpdate \/ processPriceUpdate => UNCHANGED startupVars
  BY DEF parsed, pushUpdate, processPriceUpdate
<1> QED BY <1>1, <1>2, <1>3, <1>4 DEF FeedNext

(* The inductive invariant of the start holds of the program that goes on  *)
(* to handle market data (Main.cpp, Exchange.cpp, Arbmapper.cpp, the       *)
(* constructors), whatever the exchange and the configuration say.         *)
THEOREM StartupInvariant == Spec => []Started
<1>1. Init => Started
  BY InitStarted DEF Init
<1>2. Started /\ [Next]_vars => Started'
  <2> SUFFICES ASSUME Started, [Next]_vars PROVE Started'
    OBVIOUS
  <2>1. CASE StartupNext
    BY <2>1, StartedStep
  <2>2. CASE FeedNext
    BY <2>2, FeedLeavesStart, StartedStutter
  <2>3. CASE UNCHANGED vars
    BY <2>3, StartedStutter DEF vars
  <2> QED BY <2>1, <2>2, <2>3 DEF Next
<1> QED BY <1>1, <1>2, PTL DEF Spec

(* Every path of the mapper closes up and uses a market once, for any set  *)
(* of markets, asset list and length (Arbmapper.cpp, getTradingPaths).     *)
THEOREM MapperPathsCloseUp == Spec => []PathsCloseUp
<1>1. Started => PathsCloseUp
  BY StartedImplies
<1> QED BY <1>1, StartupInvariant, PTL

(* The paths of the mapper pass through every ring of 3 to maxDepth        *)
(* assets of the list that markets join, from each of its assets exactly   *)
(* once, for any set of markets, asset list and length (Arbmapper.cpp,     *)
(* getTradingPaths).                                                       *)
THEOREM MapperToursOnce == Spec => []EveryTourOnce
<1>1. Started => EveryTourOnce
  BY StartedImplies
<1> QED BY <1>1, StartupInvariant, PTL

(* Every market of every path is subscribed to on exactly one session and  *)
(* leads back to the path, for any number of markets and sessions          *)
(* (HarjusApplication.cpp, divideSymbolsEvenly; the index in Worker.cpp).  *)
THEOREM MarketsFollowed == Spec => []EveryMarketFollowed
<1>1. Started => EveryMarketFollowed
  BY StartedImplies
<1> QED BY <1>1, StartupInvariant, PTL

(* The check of the number of sessions keeps every session below twice the *)
(* symbols it counts per session, for any number of markets and sessions   *)
(* (HarjusApplication.cpp:40 with divideSymbolsEvenly).                    *)
THEOREM SessionSharesBounded == Spec => []SharesBounded
<1>1. Started => SharesBounded
  BY StartedImplies
<1> QED BY <1>1, StartupInvariant, PTL

-----------------------------------------------------------------------------
(* The market data feed.                                                   *)

Book   == [Sides -> Quotes \cup {NoQuote}]
Update == [symbol : Symbols, sides : Book]
Parser == [reading : {"none", "groups", "push"}, session : Nat,
           symbol : Symbols \cup {""}, updates : Seq(Update), groups : Nat,
           restated : SUBSET (Symbols \X Sides)]

(* Sides that the engine may compute with, in the book m of symbol s: the  *)
(* exchange's quotes or none, and the quotes that were given in full.      *)
Fresh(sides, s, m, st) ==
    \A side \in Sides :
        /\ sides[side] \in {m[s][side], NoQuote}
        /\ <<s, side>> \in st => sides[side] = m[s][side]

Absent(q, s) == \A i \in 1..Len(q) : q[i].symbol # s

(* The last update about s in the queue, or else what the worker has, is   *)
(* fresh.                                                                  *)
Latest(q, p, s, m, st) ==
    /\ \A j \in 1..Len(q) :
          /\ q[j].symbol = s
          /\ \A k \in 1..Len(q) : k > j => q[k].symbol # s
          => Fresh(q[j].sides, s, m, st)
    /\ Absent(q, s) => Fresh(p[s], s, m, st)

(* Sides that a message fills in: they are fresh, and there is no quote    *)
(* for a side that the message did not speak of.                           *)
Current(sides, s, m, st, re) ==
    /\ Fresh(sides, s, m, st)
    /\ \A side \in Sides : <<s, side>> \notin re =>
          sides[side] = NoQuote /\ <<s, side>> \notin st

(* The update that the parser has about s is current.                      *)
Parsing(u, s, m, st, re) ==
    \A i \in 1..Len(u) : u[i].symbol = s => Current(u[i].sides, s, m, st, re)

Single(u) == \A i, j \in 1..Len(u) : u[i].symbol = u[j].symbol => i = j

FeedTypes ==
    /\ market \in [Symbols -> Book] /\ prices \in [Symbols -> Book]
    /\ priceQueue \in Seq(Update) /\ Len(priceQueue) <= PriceQueueSize
    /\ parser \in Parser
    /\ parser.reading = "groups" => parser.session \in DOMAIN dividedSymbols
    /\ parser.reading = "none" => parser.updates = << >>
    /\ parser.reading = "push" \/ parser.groups > 0 => parser.updates # << >>
    /\ stage # "running" => parser.reading = "none"
    /\ dropped \subseteq Symbols /\ unknown \subseteq Symbols

(* The inductive invariant of the feed.                                    *)
Feed ==
    /\ FeedTypes
    /\ Single(parser.updates)
    /\ \A s \in Symbols :
          /\ Parsing(parser.updates, s, market, stated, parser.restated)
          /\ Absent(parser.updates, s) /\ s \notin dropped =>
                Latest(priceQueue, prices, s, market, stated)

(* The invariant of the next state, in the terms of the lemmas below.      *)
LEMMA FeedNextIs ==
    Feed' <=> /\ FeedTypes'
              /\ Single(parser'.updates)
              /\ \A s \in Symbols :
                    /\ Parsing(parser'.updates, s, market', stated',
                               parser'.restated)
                    /\ Absent(parser'.updates, s) /\ s \notin dropped' =>
                          Latest(priceQueue', prices', s, market', stated')
BY DEF Feed, Single, Parsing, Current, Absent, Latest, Fresh

(* Another book and other statements that agree on s.                      *)
Agree(s, m, m2, st, st2) ==
    /\ m2[s] = m[s]
    /\ \A side \in Sides : <<s, side>> \in st2 <=> <<s, side>> \in st

(* What changes for other symbols does not matter.                         *)
LEMMA FreshElsewhere ==
    ASSUME NEW s, NEW m, NEW m2, NEW st, NEW st2, Agree(s, m, m2, st, st2)
    PROVE  /\ \A sides : Fresh(sides, s, m, st) => Fresh(sides, s, m2, st2)
           /\ \A q, p : Latest(q, p, s, m, st) => Latest(q, p, s, m2, st2)
<1>1. \A sides : Fresh(sides, s, m, st) => Fresh(sides, s, m2, st2)
  BY DEF Fresh, Agree
<1>2. \A q, p : Latest(q, p, s, m, st) => Latest(q, p, s, m2, st2)
  BY <1>1 DEF Latest
<1> QED BY <1>1, <1>2

(* The same of the parser's updates, of which those about s may only move. *)
LEMMA ParsingElsewhere ==
    ASSUME NEW s, NEW m, NEW m2, NEW st, NEW st2, Agree(s, m, m2, st, st2),
           NEW re, NEW re2,
           \A side \in Sides : <<s, side>> \in re => <<s, side>> \in re2,
           NEW u, NEW u2, Parsing(u, s, m, st, re),
           \A i \in 1..Len(u2) : u2[i].symbol = s =>
              \E j \in 1..Len(u) : u2[i] = u[j]
    PROVE  Parsing(u2, s, m2, st2, re2)
<1> SUFFICES ASSUME NEW i \in 1..Len(u2), u2[i].symbol = s
    PROVE  /\ Fresh(u2[i].sides, s, m2, st2)
           /\ \A side \in Sides : <<s, side>> \notin re2 =>
                 u2[i].sides[side] = NoQuote /\ <<s, side>> \notin st2
  BY DEF Parsing, Current
<1>1. PICK j \in 1..Len(u) : u2[i] = u[j]
  OBVIOUS
<1>2. /\ Fresh(u[j].sides, s, m, st)
      /\ \A side \in Sides : <<s, side>> \notin re =>
            u[j].sides[side] = NoQuote /\ <<s, side>> \notin st
  BY <1>1 DEF Parsing, Current
<1>3. Fresh(u[j].sides, s, m2, st2)
  BY <1>2, FreshElsewhere
<1> QED BY <1>1, <1>2, <1>3 DEF Agree

(* An update is added at the end of the queue.                             *)
LEMMA LatestPushed ==
    ASSUME NEW q \in Seq(Update), NEW u \in Update, NEW p, NEW s, NEW m, NEW st,
           \/ u.symbol = s /\ Fresh(u.sides, s, m, st)
           \/ u.symbol # s /\ Latest(q, p, s, m, st)
    PROVE  Latest(Append(q, u), p, s, m, st)
<1> DEFINE more == Append(q, u)
<1>1. /\ Len(q) \in Nat /\ Len(more) = Len(q) + 1 /\ more[Len(q) + 1] = u
      /\ \A i \in 1..Len(q) : more[i] = q[i]
  OBVIOUS
<1> HIDE DEF more
<1>2. /\ Len(q) + 1 \in 1..Len(more)
      /\ \A i \in 1..Len(q) : i \in 1..Len(more) /\ Len(q) + 1 > i
      /\ \A i \in 1..Len(more) : i = Len(q) + 1 \/ i \in 1..Len(q)
  BY <1>1
<1>3. CASE u.symbol = s /\ Fresh(u.sides, s, m, st)
  <2>1. ~ Absent(more, s)
    BY <1>1, <1>2, <1>3 DEF Absent
  <2>2. \A j \in 1..Len(more) :
          /\ more[j].symbol = s
          /\ \A k \in 1..Len(more) : k > j => more[k].symbol # s
          => Fresh(more[j].sides, s, m, st)
    BY <1>1, <1>2, <1>3
  <2> QED BY <2>1, <2>2 DEF Latest, more
<1>4. CASE u.symbol # s /\ Latest(q, p, s, m, st)
  <2>1. Absent(more, s) => Absent(q, s)
    BY <1>1, <1>2 DEF Absent
  <2>2. ASSUME NEW j \in 1..Len(more), more[j].symbol = s,
               \A k \in 1..Len(more) : k > j => more[k].symbol # s
        PROVE  Fresh(more[j].sides, s, m, st)
    <3>1. j \in 1..Len(q)
      BY <1>1, <1>2, <1>4, <2>2
    <3>2. \A k \in 1..Len(q) : k > j => q[k].symbol # s
      BY <1>1, <1>2, <2>2
    <3> QED BY <1>1, <1>4, <2>2, <3>1, <3>2 DEF Latest
  <2> QED BY <1>4, <2>1, <2>2 DEF Latest, more
<1> QED BY <1>3, <1>4

(* The worker stores the first update of the queue.                        *)
LEMMA LatestPopped ==
    ASSUME NEW q \in Seq(Update), q # << >>, NEW p \in [Symbols -> Book],
           NEW s \in Symbols, NEW m, NEW st, Latest(q, p, s, m, st)
    PROVE  Latest(Tail(q), [p EXCEPT ![Head(q).symbol] = Head(q).sides],
                  s, m, st)
<1> DEFINE rest == Tail(q)
           u    == q[1]
           p2   == [p EXCEPT ![u.symbol] = u.sides]
<1>1. /\ Head(q) = u /\ u \in Update
      /\ Len(q) \in Nat /\ Len(rest) = Len(q) - 1 /\ Len(q) # 0
      /\ \A i \in 1..Len(rest) : rest[i] = q[i + 1]
  OBVIOUS
<1>2. p2[s] = IF s = u.symbol THEN u.sides ELSE p[s]
  OBVIOUS
<1> HIDE DEF rest, u, p2
<1>3. /\ 1 \in 1..Len(q)
      /\ \A i \in 1..Len(rest) : i + 1 \in 1..Len(q) /\ i + 1 > 1
      /\ \A i \in 1..Len(q) : i = 1 \/ (i - 1 \in 1..Len(rest) /\ (i - 1) + 1 = i)
      /\ \A i \in 1..Len(rest), k \in 1..Len(q) : k > i + 1 => k - 1 > i
  BY <1>1
<1>4. \A i \in 1..Len(q) : i = 1 \/ q[i] = rest[i - 1]
  BY <1>1, <1>3
<1>5. ASSUME NEW j \in 1..Len(rest), rest[j].symbol = s,
             \A k \in 1..Len(rest) : k > j => rest[k].symbol # s
      PROVE  Fresh(rest[j].sides, s, m, st)
  <2> DEFINE i == j + 1
  <2>1. i \in 1..Len(q) /\ rest[j] = q[i]
    BY <1>1, <1>3
  <2>2. \A k \in 1..Len(q) : k > i => q[k].symbol # s
    <3> SUFFICES ASSUME NEW k \in 1..Len(q), k > i PROVE q[k].symbol # s
      OBVIOUS
    <3>1. k # 1 /\ k - 1 \in 1..Len(rest) /\ k - 1 > j
      BY <1>3
    <3> QED BY <1>4, <1>5, <3>1
  <2> HIDE DEF i
  <2> QED BY <1>5, <2>1, <2>2 DEF Latest
<1>6. ASSUME Absent(rest, s) PROVE Fresh(p2[s], s, m, st)
  <2>1. \A k \in 1..Len(q) : k # 1 => q[k].symbol # s
    BY <1>3, <1>4, <1>6 DEF Absent
  <2>2. CASE s = u.symbol
    <3>1. \A k \in 1..Len(q) : k > 1 => q[k].symbol # s
      BY <2>1
    <3>2. Fresh(q[1].sides, s, m, st)
      BY <1>3, <2>2, <3>1 DEF Latest, u
    <3> QED BY <1>2, <2>2, <3>2 DEF u
  <2>3. CASE s # u.symbol
    <3>1. Absent(q, s)
      BY <2>1, <2>3 DEF Absent, u
    <3> QED BY <1>2, <2>3, <3>1 DEF Latest
  <2> QED BY <2>2, <2>3
<1>7. Latest(rest, p2, s, m, st)
  BY <1>5, <1>6 DEF Latest
<1> QED BY <1>1, <1>7 DEF rest, p2

(* A push: the update is the last one of its symbol, or there was no room. *)
LEMMA PushLatest ==
    ASSUME FeedTypes, NEW u \in Update, push(u), NEW m, NEW st
    PROVE  /\ priceQueue' \in Seq(Update) /\ Len(priceQueue') <= PriceQueueSize
           /\ dropped' \subseteq Symbols
           /\ \A t : t # u.symbol =>
                 /\ t \in dropped' <=> t \in dropped
                 /\ Latest(priceQueue, prices, t, m, st) =>
                       Latest(priceQueue', prices, t, m, st)
           /\ u.symbol \notin dropped' /\ Fresh(u.sides, u.symbol, m, st) =>
                 Latest(priceQueue', prices, u.symbol, m, st)
<1>1. priceQueue \in Seq(Update) /\ Len(priceQueue) <= PriceQueueSize
      /\ dropped \subseteq Symbols /\ u.symbol \in Symbols
  BY DEF FeedTypes, Update
<1>2. CASE Len(priceQueue) < PriceQueueSize
  <2>1. /\ priceQueue' = Append(priceQueue, u)
        /\ dropped' = dropped \ {u.symbol}
    BY <1>2 DEF push
  <2>2. /\ Append(priceQueue, u) \in Seq(Update)
        /\ Len(Append(priceQueue, u)) <= PriceQueueSize
    BY <1>1, <1>2, FeedAssumption
  <2>3. \A t : t # u.symbol /\ Latest(priceQueue, prices, t, m, st) =>
           Latest(Append(priceQueue, u), prices, t, m, st)
    BY <1>1, LatestPushed
  <2>4. Fresh(u.sides, u.symbol, m, st) =>
           Latest(Append(priceQueue, u), prices, u.symbol, m, st)
    BY <1>1, LatestPushed
  <2> QED BY <1>1, <2>1, <2>2, <2>3, <2>4
<1>3. CASE ~(Len(priceQueue) < PriceQueueSize)
  <2>1. priceQueue' = priceQueue /\ dropped' = dropped \cup {u.symbol}
    BY <1>3 DEF push
  <2> QED BY <1>1, <2>1
<1> QED BY <1>2, <1>3

(* A snapshot is parsed and pushed.                                        *)
LEMMA SnapshotFeed ==
    ASSUME Feed, NEW k, NEW s \in Symbols, onSnapshot(k, s)
    PROVE  Feed'
<1> DEFINE u == [symbol |-> s, sides |-> market[s]]
<1>1. /\ parser = Idle /\ unknown' = unknown \ {s} /\ push(u)
      /\ stated' = stated \cup ({s} \X Sides)
      /\ UNCHANGED <<startupVars, market, prices, parser, messages>>
  BY DEF onSnapshot
<1>2. FeedTypes /\ u \in Update /\ u.symbol = s /\ u.sides = market[s]
  BY DEF Feed, FeedTypes, Update
<1>3. parser.updates = << >> /\ Len(parser.updates) = 0
  BY <1>1 DEF Idle
<1> HIDE DEF u
<1>4. /\ priceQueue' \in Seq(Update) /\ Len(priceQueue') <= PriceQueueSize
      /\ dropped' \subseteq Symbols
  BY <1>1, <1>2, PushLatest
<1>5. FeedTypes'
  BY <1>1, <1>2, <1>4 DEF FeedTypes, startupVars
<1>6. ASSUME NEW t \in Symbols, t \notin dropped'
      PROVE  Latest(priceQueue', prices, t, market, stated')
  <2>1. CASE t = s
    <3>1. Fresh(u.sides, u.symbol, market, stated')
      BY <1>2 DEF Fresh
    <3> QED BY <1>1, <1>2, <1>6, <2>1, <3>1, PushLatest
  <2>2. CASE t # s
    <3>1. t \notin dropped
      BY <1>1, <1>2, <1>6, <2>2, PushLatest
    <3>2. Latest(priceQueue, prices, t, market, stated)
      BY <1>3, <3>1 DEF Feed, Absent
    <3>3. Agree(t, market, market, stated, stated')
      BY <1>1, <2>2 DEF Agree
    <3>4. Latest(priceQueue, prices, t, market, stated')
      BY <3>2, <3>3, FreshElsewhere
    <3> QED BY <1>1, <1>2, <2>2, <3>4, PushLatest
  <2> QED BY <2>1, <2>2
<1>7. /\ Single(parser.updates)
      /\ \A t \in Symbols :
            Parsing(parser.updates, t, market, stated', parser.restated)
  BY <1>3 DEF Single, Parsing
<1> QED BY <1>1, <1>5, <1>6, <1>7, FeedNextIs

(* The parser starts with a message, or has read the last group.           *)
LEMMA ParserFeed ==
    ASSUME Feed, parsed \/ \E k \in DOMAIN dividedSymbols : onIncremental(k),
           Started
    PROVE  Feed'
<1>1. CASE parsed
  <2>1. /\ parser.reading = "groups" /\ parser.groups > 0
        /\ parser' = [parser EXCEPT !.reading = "push"]
        /\ UNCHANGED <<startupVars, market, priceQueue, prices, unknown,
                       stated, dropped>>
    BY <1>1 DEF parsed
  <2>2. parser \in Parser /\ FeedTypes
    BY DEF Feed, FeedTypes
  <2>3. /\ parser' \in Parser /\ parser'.reading = "push"
        /\ parser'.updates = parser.updates /\ parser'.restated = parser.restated
        /\ parser'.groups = parser.groups
    BY <2>1, <2>2 DEF Parser
  <2>4. FeedTypes'
    BY <2>1, <2>2, <2>3 DEF FeedTypes, startupVars
  <2> QED BY <2>1, <2>3, <2>4, FeedNextIs DEF Feed
<1>2. CASE \E k \in DOMAIN dividedSymbols : onIncremental(k)
  <2>1. PICK k \in DOMAIN dividedSymbols : onIncremental(k)
    BY <1>2
  <2>2. /\ parser = Idle /\ stage = "running"
        /\ parser' = [Idle EXCEPT !.reading = "groups", !.session = k]
        /\ UNCHANGED <<startupVars, market, priceQueue, prices, unknown,
                       stated, dropped>>
    BY <2>1 DEF onIncremental
  <2>3. FeedTypes /\ k \in Nat
    BY DEF Feed, Started
  <2>4. /\ parser' \in Parser /\ parser'.reading = "groups"
        /\ parser'.updates = << >> /\ parser'.groups = 0 /\ parser'.session = k
        /\ parser.updates = << >>
    <3>1. parser' = [reading |-> "groups", session |-> k, symbol |-> "",
                     updates |-> << >>, groups |-> 0, restated |-> {}]
      BY <2>2 DEF Idle
    <3>2. << >> \in Seq(Update) /\ {} \in SUBSET (Symbols \X Sides)
      OBVIOUS
    <3>3. parser' \in Parser
      BY <2>3, <3>1, <3>2 DEF Parser
    <3>4. parser.updates = << >>
      BY <2>2 DEF Idle
    <3> QED BY <3>1, <3>3, <3>4
  <2>5. FeedTypes'
    BY <2>2, <2>3, <2>4 DEF FeedTypes, startupVars
  <2>6. /\ Single(parser'.updates)
        /\ \A t \in Symbols : Parsing(parser'.updates, t, market', stated',
                                      parser'.restated)
    BY <2>4 DEF Single, Parsing
  <2>7. \A t \in Symbols :
           Absent(parser'.updates, t) /\ t \notin dropped' =>
              Latest(priceQueue', prices', t, market', stated')
    BY <2>2, <2>4 DEF Feed, Absent
  <2> QED BY <2>5, <2>6, <2>7, FeedNextIs
<1> QED BY <1>1, <1>2

(* The next update of the message is pushed.                               *)
LEMMA PushFeed ==
    ASSUME Feed, pushUpdate
    PROVE  Feed'
<1> DEFINE U    == parser.updates
           u    == U[1]
           rest == Tail(U)
<1>1. /\ parser.reading = "push" /\ push(Head(U))
      /\ parser' = IF Len(U) = 1 THEN Idle ELSE [parser EXCEPT !.updates = Tail(@)]
      /\ UNCHANGED <<startupVars, market, prices, unknown, messages, stated>>
  BY DEF pushUpdate
<1>2. FeedTypes /\ parser \in Parser /\ U \in Seq(Update) /\ U # << >>
  BY <1>1 DEF Feed, FeedTypes, Parser
<1>3. /\ Head(U) = u /\ u \in Update /\ rest \in Seq(Update)
      /\ Len(U) \in Nat /\ Len(U) # 0 /\ Len(rest) = Len(U) - 1
      /\ \A i \in 1..Len(rest) : rest[i] = U[i + 1]
  BY <1>2
<1>4. /\ parser' \in Parser /\ parser'.updates = rest
      /\ parser'.reading = (IF Len(U) = 1 THEN "none" ELSE "push")
      /\ rest = << >> <=> Len(U) = 1
      /\ parser'.groups > 0 => Len(U) # 1
      /\ rest # << >> => parser'.restated = parser.restated
  <2>0. Len(U) = 1 <=> rest = << >>
    <3> HIDE DEF U, rest
    <3>1. rest = << >> <=> Len(rest) = 0
      BY <1>3, EmptySeq
    <3> QED BY <1>3, <3>1
  <2>1. CASE Len(U) = 1
    <3>1. parser' = Idle /\ rest = << >>
      BY <1>1, <2>0, <2>1
    <3>2. << >> \in Seq(Update) /\ {} \in SUBSET (Symbols \X Sides)
      OBVIOUS
    <3>3. Idle \in Parser
      BY <3>2 DEF Idle, Parser
    <3>4. Idle.updates = << >> /\ Idle.reading = "none" /\ ~(Idle.groups > 0)
      BY DEF Idle
    <3> HIDE DEF U, rest
    <3> QED BY <2>1, <3>1, <3>3, <3>4
  <2>2. CASE Len(U) # 1
    <3>1. parser' = [parser EXCEPT !.updates = rest]
      BY <1>1, <2>2
    <3> HIDE DEF rest, U
    <3>2. rest # << >>
      BY <2>0, <2>2
    <3>3. parser.reading = "push" /\ parser \in Parser /\ rest \in Seq(Update)
      BY <1>1, <1>2, <1>3
    <3>4. /\ parser' \in Parser /\ parser'.updates = rest
          /\ parser'.reading = parser.reading
          /\ parser'.restated = parser.restated
      BY <3>1, <3>3 DEF Parser
    <3> QED BY <2>2, <3>2, <3>3, <3>4
  <2> QED BY <2>1, <2>2
<1>5. /\ \A i \in 1..Len(rest) : i + 1 \in 1..Len(U) /\ i + 1 # 1
      /\ \A i \in 1..Len(U) : i = 1 \/ (i - 1 \in 1..Len(rest) /\ (i - 1) + 1 = i)
      /\ 1 \in 1..Len(U)
  BY <1>3
<1>6. Single(U) /\ \A t \in Symbols :
         /\ Parsing(U, t, market, stated, parser.restated)
         /\ Absent(U, t) /\ t \notin dropped =>
               Latest(priceQueue, prices, t, market, stated)
  BY DEF Feed
<1> HIDE DEF U, u, rest
<1>7. /\ priceQueue' \in Seq(Update) /\ Len(priceQueue') <= PriceQueueSize
      /\ dropped' \subseteq Symbols
  BY <1>1, <1>2, <1>3, PushLatest
<1>8. FeedTypes'
  BY <1>1, <1>2, <1>4, <1>7 DEF FeedTypes, startupVars
<1>9. Single(rest)
  <2>1. \A i, j \in 1..Len(rest) : i + 1 = j + 1 => i = j
    OBVIOUS
  <2> QED BY <1>3, <1>5, <1>6, <2>1 DEF Single
<1>10. ASSUME NEW t \in Symbols
       PROVE  Parsing(rest, t, market, stated, parser'.restated)
  <2>1. CASE rest = << >>
    BY <2>1 DEF Parsing
  <2>2. CASE rest # << >>
    <3>1. \A i \in 1..Len(rest) : \E j \in 1..Len(U) : rest[i] = U[j]
      BY <1>3, <1>5
    <3>2. Agree(t, market, market, stated, stated)
      BY DEF Agree
    <3>3. Parsing(rest, t, market, stated, parser.restated)
      BY <1>6, <3>1, <3>2, ParsingElsewhere
    <3> QED BY <1>4, <2>2, <3>3
  <2> QED BY <2>1, <2>2
<1>11. ASSUME NEW t \in Symbols, Absent(rest, t), t \notin dropped'
       PROVE  Latest(priceQueue', prices, t, market, stated)
  <2>1. CASE t = u.symbol
    <3>1. Fresh(u.sides, u.symbol, market, stated)
      BY <1>5, <1>6, <2>1 DEF Parsing, Current, u
    <3> QED BY <1>1, <1>2, <1>3, <1>11, <2>1, <3>1, PushLatest
  <2>2. CASE t # u.symbol
    <3>1. Absent(U, t)
      <4> SUFFICES ASSUME NEW i \in 1..Len(U) PROVE U[i].symbol # t
        BY DEF Absent
      <4>1. CASE i = 1
        BY <2>2, <4>1 DEF u
      <4>2. CASE i # 1
        <5>1. i - 1 \in 1..Len(rest) /\ (i - 1) + 1 = i
          BY <1>5, <4>2
        <5>2. rest[i - 1] = U[i]
          BY <1>3, <5>1
        <5>3. rest[i - 1].symbol # t
          BY <1>11, <5>1 DEF Absent
        <5> QED BY <5>2, <5>3
      <4> QED BY <4>1, <4>2
    <3>2. t \notin dropped
      BY <1>1, <1>2, <1>3, <1>11, <2>2, PushLatest
    <3>3. Latest(priceQueue, prices, t, market, stated)
      BY <1>6, <3>1, <3>2
    <3> QED BY <1>1, <1>2, <1>3, <2>2, <3>3, PushLatest
  <2> QED BY <2>1, <2>2
<1> QED BY <1>1, <1>4, <1>8, <1>9, <1>10, <1>11, FeedNextIs

(* The worker stores an update.                                            *)
LEMMA PopFeed ==
    ASSUME Feed, processPriceUpdate
    PROVE  Feed'
<1> DEFINE q == priceQueue
<1>1. /\ q # << >> /\ q' = Tail(q)
      /\ prices' = [prices EXCEPT ![Head(q).symbol] = Head(q).sides]
      /\ UNCHANGED <<startupVars, market, parser, unknown, messages, stated,
                     dropped>>
  BY DEF processPriceUpdate
<1>2. FeedTypes /\ q \in Seq(Update) /\ prices \in [Symbols -> Book]
      /\ PriceQueueSize \in Nat
  BY FeedAssumption DEF Feed, FeedTypes
<1>3. /\ Head(q) \in Update /\ Tail(q) \in Seq(Update)
      /\ Len(Tail(q)) <= PriceQueueSize
  <2>1. Len(q) <= PriceQueueSize
    BY <1>2 DEF FeedTypes
  <2> QED BY <1>1, <1>2, <2>1
<1>4. prices' \in [Symbols -> Book]
  <2>1. Head(q).sides \in Book
    BY <1>3 DEF Update
  <2> QED BY <1>1, <1>2, <2>1
<1>5. FeedTypes'
  BY <1>1, <1>2, <1>3, <1>4 DEF FeedTypes, startupVars
<1>6. ASSUME NEW t \in Symbols, Absent(parser.updates, t), t \notin dropped
      PROVE  Latest(Tail(q), prices', t, market, stated)
  <2>1. Latest(q, prices, t, market, stated)
    BY <1>6 DEF Feed
  <2> QED BY <1>1, <1>2, <2>1, LatestPopped
<1> QED BY <1>1, <1>5, <1>6, FeedNextIs DEF Feed


(* The update of a symbol is found or made (updateFor).                    *)
LEMMA UpdateForFacts ==
    ASSUME NEW U \in Seq(Update), Single(U), NEW s \in Symbols
    PROVE  /\ updateFor(U, s) \in Seq(Update)
           /\ updateFor(U, s) # << >>
           /\ Single(updateFor(U, s))
           /\ ~ Absent(updateFor(U, s), s)
           /\ \A t : Absent(updateFor(U, s), t) => Absent(U, t)
           /\ \A i \in 1..Len(updateFor(U, s)) :
                 updateFor(U, s)[i].symbol # s =>
                    \E j \in 1..Len(U) : updateFor(U, s)[i] = U[j]
           /\ Absent(U, s) => \A i \in 1..Len(updateFor(U, s)) :
                 updateFor(U, s)[i].symbol = s =>
                    updateFor(U, s)[i].sides = NoSides
           /\ ~ Absent(U, s) => updateFor(U, s) = U
<1>1. Len(U) \in Nat /\ DOMAIN U = 1..Len(U)
  OBVIOUS
<1>2. CASE ~ Absent(U, s)
  <2>1. updateFor(U, s) = U
    BY <1>1, <1>2 DEF updateFor, Absent
  <2>2. U # << >>
    BY <1>2 DEF Absent
  <2> QED BY <1>2, <2>1, <2>2
<1>3. CASE Absent(U, s)
  <2> DEFINE u    == [symbol |-> s, sides |-> NoSides]
             more == Append(U, u)
  <2>1. updateFor(U, s) = more
    BY <1>1, <1>3 DEF updateFor, Absent
  <2>2. NoSides \in Book
    BY DEF NoSides, Book
  <2>3. u \in Update /\ u.symbol = s /\ u.sides = NoSides
    BY <2>2 DEF Update
  <2> HIDE DEF u
  <2>4. /\ more \in Seq(Update) /\ Len(more) = Len(U) + 1
        /\ more[Len(U) + 1] = u
        /\ \A i \in 1..Len(U) : more[i] = U[i]
    BY <2>3
  <2> HIDE DEF more
  <2>5. /\ Len(U) + 1 \in 1..Len(more) /\ Len(more) # 0
        /\ \A i \in 1..Len(U) : i \in 1..Len(more)
        /\ \A i \in 1..Len(more) : i = Len(U) + 1 \/ i \in 1..Len(U)
    BY <1>1, <2>4
  <2>6. more # << >>
    BY <2>5
  <2>7. \A i \in 1..Len(more) : more[i].symbol = s <=> i = Len(U) + 1
    <3>1. ASSUME NEW i \in 1..Len(U) PROVE more[i].symbol # s /\ i # Len(U) + 1
      BY <1>1, <1>3, <2>4 DEF Absent
    <3> QED BY <2>3, <2>4, <2>5, <3>1
  <2>8. Single(more)
    <3> SUFFICES ASSUME NEW i \in 1..Len(more), NEW j \in 1..Len(more),
                        more[i].symbol = more[j].symbol
                 PROVE  i = j
      BY DEF Single
    <3>1. CASE more[i].symbol = s
      BY <2>7, <3>1
    <3>2. CASE more[i].symbol # s
      <4>1. i \in 1..Len(U) /\ j \in 1..Len(U)
        BY <2>5, <2>7, <3>2
      <4>2. more[i] = U[i] /\ more[j] = U[j]
        BY <2>4, <4>1
      <4> QED BY <4>1, <4>2 DEF Single
    <3> QED BY <3>1, <3>2
  <2>9. ~ Absent(more, s)
    BY <2>5, <2>7 DEF Absent
  <2>10. \A t : Absent(more, t) => Absent(U, t)
    BY <2>4, <2>5 DEF Absent
  <2>11. \A i \in 1..Len(more) : more[i].symbol # s =>
            \E j \in 1..Len(U) : more[i] = U[j]
    BY <2>4, <2>5, <2>7
  <2>12. \A i \in 1..Len(more) : more[i].symbol = s => more[i].sides = NoSides
    BY <2>3, <2>4, <2>7
  <2> QED BY <1>3, <2>1, <2>4, <2>6, <2>8, <2>9, <2>10, <2>11, <2>12
<1> QED BY <1>2, <1>3

(* The updates E are K, with the quote in the update of s.                 *)
HasEntered(E, K, s, side, quote) ==
    /\ E \in Seq(Update) /\ E # << >> /\ Single(E) /\ Len(E) = Len(K)
    /\ \A i \in 1..Len(K) :
          /\ E[i].symbol = K[i].symbol
          /\ K[i].symbol = s => E[i].sides = [K[i].sides EXCEPT ![side] = quote]
          /\ K[i].symbol # s => E[i] = K[i]

(* A quote is entered in the update of its symbol (entered).               *)
LEMMA EnteredFacts ==
    ASSUME NEW K \in Seq(Update), K # << >>, Single(K), NEW s,
           NEW side \in Sides, NEW quote \in Quotes
    PROVE  HasEntered(entered(K, s, side, quote), K, s, side, quote)
<1> DEFINE E == entered(K, s, side, quote)
<1>1. Len(K) \in Nat /\ DOMAIN K = 1..Len(K) /\ \A i \in 1..Len(K) : K[i] \in Update
  OBVIOUS
<1>2. E = [i \in 1..Len(K) |->
             IF K[i].symbol = s THEN [K[i] EXCEPT !.sides[side] = quote] ELSE K[i]]
  BY <1>1 DEF entered
<1> HIDE DEF E
<1>3. ASSUME NEW i \in 1..Len(K)
      PROVE  /\ E[i] \in Update /\ E[i].symbol = K[i].symbol
             /\ K[i].symbol = s => E[i].sides = [K[i].sides EXCEPT ![side] = quote]
             /\ K[i].symbol # s => E[i] = K[i]
  <2>1. K[i] \in Update /\ K[i].symbol \in Symbols /\ K[i].sides \in Book
    BY <1>1 DEF Update
  <2>2. CASE K[i].symbol = s
    <3>1. E[i] = [K[i] EXCEPT !.sides[side] = quote]
      BY <1>2, <2>2
    <3>2. E[i] = [symbol |-> K[i].symbol,
                  sides |-> [K[i].sides EXCEPT ![side] = quote]]
      BY <2>1, <3>1 DEF Update
    <3>3. [K[i].sides EXCEPT ![side] = quote] \in Book
      BY <2>1 DEF Book
    <3> QED BY <2>1, <2>2, <3>2, <3>3 DEF Update
  <2>3. CASE K[i].symbol # s
    BY <1>2, <2>1, <2>3
  <2> QED BY <2>2, <2>3
<1>4. E \in Seq(Update) /\ Len(E) = Len(K)
  <2>1. E \in [1..Len(K) -> Update]
    BY <1>2, <1>3
  <2> QED BY <1>1, <2>1
<1>5. Single(E)
  BY <1>3, <1>4 DEF Single
<1>6. E # << >>
  <2>1. Len(K) # 0
    BY EmptySeq
  <2> QED BY <1>4, <2>1
<1>7. \A i \in 1..Len(K) :
         /\ E[i].symbol = K[i].symbol
         /\ K[i].symbol = s => E[i].sides = [K[i].sides EXCEPT ![side] = quote]
         /\ K[i].symbol # s => E[i] = K[i]
  BY <1>3
<1> QED BY <1>4, <1>5, <1>6, <1>7 DEF E, HasEntered

(* The book changes on one side, and the sides of an update with it, or    *)
(* the message had not spoken of this side before.                         *)
LEMMA SideChanges ==
    ASSUME NEW s \in Symbols, NEW m \in [Symbols -> Book], NEW side \in Sides,
           NEW b \in Quotes \cup {NoQuote}, NEW sides \in Book, NEW st, NEW re,
           NEW m2, m2 = [m EXCEPT ![s][side] = b],
           Current(sides, s, m, st, re)
    PROVE  /\ Current([sides EXCEPT ![side] = b], s, m2,
                      st \cup {<<s, side>>}, re \cup {<<s, side>>})
           /\ <<s, side>> \notin re =>
                 /\ Current(sides, s, m2, st, re)
                 /\ Current(sides, s, m2, st, re \cup {<<s, side>>})
<1>1. /\ m2[s][side] = b
      /\ \A x \in Sides : x # side => m2[s][x] = m[s][x]
  BY DEF Book
<1>2. /\ [sides EXCEPT ![side] = b][side] = b
      /\ \A x \in Sides : x # side => [sides EXCEPT ![side] = b][x] = sides[x]
  BY DEF Book
<1>3. \A x : <<s, x>> = <<s, side>> <=> x = side
  OBVIOUS
<1>4. Current([sides EXCEPT ![side] = b], s, m2,
              st \cup {<<s, side>>}, re \cup {<<s, side>>})
  BY <1>1, <1>2, <1>3 DEF Current, Fresh
<1>5. ASSUME <<s, side>> \notin re
      PROVE  /\ Current(sides, s, m2, st, re)
             /\ Current(sides, s, m2, st, re \cup {<<s, side>>})
  BY <1>1, <1>3, <1>5 DEF Current, Fresh
<1> QED BY <1>4, <1>5

(* What a group's turn of the loop makes of the parser (readGroup), with   *)
(* its names and the parser's fields as parameters.                        *)
GroupSymbol(named) == IF named = "" THEN parser.symbol ELSE named
Full(action, sized) == action \in {"NEW", "CHANGE"} /\ sized
ReadUpdates(s, side, action, sized, quote) ==
    IF Full(action, sized)
    THEN entered(updateFor(parser.updates, s), s, side, quote)
    ELSE updateFor(parser.updates, s)
ReadRestated(s, side, action) ==
    IF action = "DELETE" THEN parser.restated
                         ELSE parser.restated \cup {<<s, side>>}
Reset(s) == IF Absent(parser.updates, s) THEN stated \ ({s} \X Sides) ELSE stated

(* A turn of the loop in these terms.                                      *)
LEMMA ReadGroupIs ==
    ASSUME FeedTypes, NEW named, NEW side, NEW action, NEW sized, NEW quote,
           readGroup(named, side, action, sized, quote)
    PROVE  LET s == GroupSymbol(named) IN
           /\ parser.reading = "groups"
           /\ action = "DELETE" \/ <<s, side>> \notin parser.restated
           /\ market' = [market EXCEPT
                             ![s][side] = BookAfter(s, side, action, quote)]
           /\ parser' = [parser EXCEPT
                  !.symbol   = s,
                  !.groups   = parser.groups + 1,
                  !.updates  = ReadUpdates(s, side, action, sized, quote),
                  !.restated = ReadRestated(s, side, action)]
           /\ stated' = Reset(s) \cup (IF Full(action, sized)
                                       THEN {<<s, side>>} ELSE {})
           /\ UNCHANGED <<startupVars, priceQueue, prices, unknown, messages,
                          dropped>>
<1> DEFINE s == GroupSymbol(named)
           first == \A i \in DOMAIN parser.updates : parser.updates[i].symbol # s
<1>1. first <=> Absent(parser.updates, s)
  <2>1. parser.updates \in Seq(Update)
    BY DEF FeedTypes, Parser
  <2> QED BY <2>1 DEF Absent
<1>2. /\ parser.reading = "groups"
      /\ action = "DELETE" \/
             (quote # market[s][side] /\ <<s, side>> \notin parser.restated)
      /\ market' = [market EXCEPT
                        ![s][side] = BookAfter(s, side, action, quote)]
      /\ stated' = (IF first THEN stated \ ({s} \X Sides) ELSE stated)
                   \cup (IF Full(action, sized) THEN {<<s, side>>} ELSE {})
      /\ UNCHANGED <<startupVars, priceQueue, prices, unknown, messages, dropped>>
  BY Zenon DEF readGroup, GroupSymbol, Full
<1>3. parser' = [parser EXCEPT
                  !.symbol   = s,
                  !.groups   = parser.groups + 1,
                  !.updates  = ReadUpdates(s, side, action, sized, quote),
                  !.restated = ReadRestated(s, side, action)]
  BY DEF readGroup, GroupSymbol, Full, ReadUpdates, ReadRestated
<1>4. Reset(s) = IF first THEN stated \ ({s} \X Sides) ELSE stated
  BY <1>1 DEF Reset
<1> HIDE DEF s, first
<1>5. stated' = Reset(s) \cup (IF Full(action, sized) THEN {<<s, side>>} ELSE {})
  BY <1>2, <1>4
<1>6. action = "DELETE" \/ <<s, side>> \notin parser.restated
  BY <1>2
<1> QED BY <1>2, <1>3, <1>5, <1>6 DEF s

(* The symbol that a group is about is one of the exchange's.              *)
LEMMA GroupSymbolListed ==
    ASSUME Started, FeedTypes, parser.reading = "groups",
           NEW named \in GroupSymbols
    PROVE  GroupSymbol(named) \in Symbols
<1>1. parser.session \in DOMAIN dividedSymbols /\ parser.symbol \in Symbols \cup {""}
  BY DEF FeedTypes, Parser
<1>2. dividedSymbols \in Seq(Seq(symbolMap)) /\ symbolMap \subseteq Symbols
  BY DEF Started, Listing
<1>3. dividedSymbols[parser.session] \in Seq(symbolMap)
  <2> DEFINE Part == Seq(symbolMap)
  <2>1. dividedSymbols \in Seq(Part)
    BY <1>2
  <2> HIDE DEF Part
  <2>2. \A k \in DOMAIN dividedSymbols : dividedSymbols[k] \in Part
    BY <2>1
  <2>3. dividedSymbols[parser.session] \in Part
    BY <1>1, <2>2, Zenon
  <2> QED BY <2>3 DEF Part
<1>4. ToSet(dividedSymbols[parser.session]) \subseteq Symbols
  BY <1>2, <1>3 DEF ToSet
<1> QED BY <1>1, <1>4 DEF GroupSymbols, GroupSymbol

(* The updates that the parser has after a group.                          *)
LEMMA ReadUpdatesFacts ==
    ASSUME NEW s \in Symbols, NEW side \in Sides, NEW action, NEW sized,
           NEW quote, Full(action, sized) => quote \in Quotes,
           parser.updates \in Seq(Update), Single(parser.updates),
           NEW V, V = ReadUpdates(s, side, action, sized, quote)
    PROVE  /\ V \in Seq(Update) /\ V # << >> /\ Single(V) /\ ~ Absent(V, s)
           /\ \A t : Absent(V, t) => Absent(parser.updates, t)
           /\ \A i \in 1..Len(V) : V[i].symbol # s =>
                 \E j \in 1..Len(parser.updates) : V[i] = parser.updates[j]
<1> DEFINE K == updateFor(parser.updates, s)
           E == entered(K, s, side, quote)
<1>1. /\ K \in Seq(Update) /\ K # << >> /\ Single(K) /\ ~ Absent(K, s)
      /\ \A t : Absent(K, t) => Absent(parser.updates, t)
      /\ \A i \in 1..Len(K) : K[i].symbol # s =>
            \E j \in 1..Len(parser.updates) : K[i] = parser.updates[j]
  BY UpdateForFacts
<1> HIDE DEF K
<1>2. CASE Full(action, sized)
  <2>1. V = E
    BY <1>2 DEF ReadUpdates, K
  <2>2. /\ E \in Seq(Update) /\ E # << >> /\ Single(E) /\ Len(E) = Len(K)
        /\ \A i \in 1..Len(K) : /\ E[i].symbol = K[i].symbol
                                /\ K[i].symbol # s => E[i] = K[i]
    <3>1. quote \in Quotes
      BY <1>2
    <3>2. HasEntered(E, K, s, side, quote)
      BY <1>1, <3>1, EnteredFacts
    <3> QED BY <3>2 DEF HasEntered
  <2> HIDE DEF E
  <2>3. \A t : Absent(E, t) <=> Absent(K, t)
    BY <2>2 DEF Absent
  <2>4. \A i \in 1..Len(E) : E[i].symbol # s =>
           \E j \in 1..Len(parser.updates) : E[i] = parser.updates[j]
    BY <1>1, <2>2
  <2> QED BY <1>1, <2>1, <2>2, <2>3, <2>4
<1>3. CASE ~ Full(action, sized)
  <2>1. V = K
    BY <1>3 DEF ReadUpdates, K
  <2> QED BY <1>1, <2>1
<1> QED BY <1>2, <1>3

(* The update of a symbol is current before its quote is entered: a new    *)
(* one has no quotes, and nothing is stated of it.                         *)
LEMMA KnownCurrent ==
    ASSUME NEW s \in Symbols, NEW m, NEW re,
           parser.updates \in Seq(Update), Single(parser.updates),
           Parsing(parser.updates, s, m, stated, re)
    PROVE  Parsing(updateFor(parser.updates, s), s, m, Reset(s), re)
<1> DEFINE K == updateFor(parser.updates, s)
<1>1. /\ Absent(parser.updates, s) => \A i \in 1..Len(K) :
            K[i].symbol = s => K[i].sides = NoSides
      /\ ~ Absent(parser.updates, s) => K = parser.updates
  BY UpdateForFacts
<1> HIDE DEF K
<1>2. CASE Absent(parser.updates, s)
  <2>1. /\ \A side \in Sides : NoSides[side] = NoQuote
        /\ \A side \in Sides : <<s, side>> \notin Reset(s)
    BY <1>2 DEF NoSides, Reset
  <2>2. Current(NoSides, s, m, Reset(s), re)
    BY <2>1 DEF Current, Fresh
  <2> QED BY <1>1, <1>2, <2>2 DEF Parsing, K
<1>3. CASE ~ Absent(parser.updates, s)
  BY <1>1, <1>3 DEF Reset, K
<1> QED BY <1>2, <1>3

(* A group is read: the update of its symbol stays current.                *)
LEMMA ReadCurrent ==
    ASSUME Feed, NEW s \in Symbols, NEW side \in Sides, NEW action, NEW sized,
           NEW quote, action # "DELETE" => quote \in Quotes,
           action \in {"NEW", "CHANGE", "DELETE"},
           action = "DELETE" \/ <<s, side>> \notin parser.restated,
           NEW m2, m2 = [market EXCEPT
                             ![s][side] = BookAfter(s, side, action, quote)],
           NEW V, V = ReadUpdates(s, side, action, sized, quote)
    PROVE  Parsing(V, s, m2,
                   Reset(s) \cup (IF Full(action, sized) THEN {<<s, side>>} ELSE {}),
                   ReadRestated(s, side, action))
<1> DEFINE K  == updateFor(parser.updates, s)
           b  == BookAfter(s, side, action, quote)
           st == Reset(s)
           re == parser.restated
<1>1. /\ parser.updates \in Seq(Update) /\ Single(parser.updates)
      /\ market \in [Symbols -> Book] /\ market[s][side] \in Quotes \cup {NoQuote}
      /\ Parsing(parser.updates, s, market, stated, re)
  BY DEF Feed, FeedTypes, Parser, Book
<1>2. /\ Parsing(K, s, market, st, re) /\ K \in Seq(Update) /\ K # << >>
      /\ Single(K)
  BY <1>1, KnownCurrent, UpdateForFacts
<1>3. b \in Quotes \cup {NoQuote}
  BY <1>1 DEF BookAfter
<1>4. /\ action # "DELETE" => b = quote
      /\ action = "DELETE" /\ <<s, side>> \in re => b = market[s][side]
  BY DEF BookAfter
<1>5. \A i \in 1..Len(K) : K[i].sides \in Book
  <2> HIDE DEF K
  <2>1. \A i \in 1..Len(K) : K[i] \in Update
    BY <1>2
  <2> QED BY <2>1 DEF Update
<1> HIDE DEF K, b, st, re
<1>6. m2 = [market EXCEPT ![s][side] = b]
  BY DEF b
<1>7. CASE Full(action, sized)
  <2> DEFINE E == entered(K, s, side, quote)
  <2>1. V = E /\ action # "DELETE" /\ quote \in Quotes /\ b = quote
    BY <1>4, <1>7 DEF ReadUpdates, Full, K
  <2>2. /\ Len(E) = Len(K)
        /\ \A i \in 1..Len(K) :
              /\ E[i].symbol = K[i].symbol
              /\ K[i].symbol = s => E[i].sides = [K[i].sides EXCEPT ![side] = quote]
    <3>1. quote \in Quotes
      BY <2>1
    <3>2. HasEntered(E, K, s, side, quote)
      BY <1>2, <3>1, EnteredFacts
    <3> QED BY <3>2 DEF HasEntered
  <2> HIDE DEF E
  <2>3. ASSUME NEW i \in 1..Len(K), K[i].symbol = s
        PROVE  Current([K[i].sides EXCEPT ![side] = b], s, m2,
                       st \cup {<<s, side>>}, re \cup {<<s, side>>})
    <3>1. Current(K[i].sides, s, market, st, re)
      BY <1>2, <2>3 DEF Parsing
    <3> QED BY <1>1, <1>3, <1>5, <1>6, <3>1, SideChanges
  <2>4. Parsing(E, s, m2, st \cup {<<s, side>>}, re \cup {<<s, side>>})
    BY <2>1, <2>2, <2>3 DEF Parsing
  <2>5. ReadRestated(s, side, action) = re \cup {<<s, side>>}
    BY <2>1 DEF ReadRestated, re
  <2> QED BY <1>7, <2>1, <2>4, <2>5 DEF st
<1>8. CASE ~ Full(action, sized)
  <2>1. V = K /\ (st \cup {}) = st
    BY <1>8 DEF ReadUpdates, K
  <2>2. CASE <<s, side>> \notin re
    <3>1. ASSUME NEW i \in 1..Len(K), K[i].symbol = s
          PROVE  /\ Current(K[i].sides, s, m2, st, re)
                 /\ Current(K[i].sides, s, m2, st, re \cup {<<s, side>>})
      <4>1. Current(K[i].sides, s, market, st, re)
        BY <1>2, <3>1 DEF Parsing
      <4> QED BY <1>1, <1>3, <1>5, <1>6, <2>2, <4>1, SideChanges
    <3>2. /\ Parsing(K, s, m2, st, re)
          /\ Parsing(K, s, m2, st, re \cup {<<s, side>>})
      BY <3>1 DEF Parsing
    <3>3. ReadRestated(s, side, action) \in {re, re \cup {<<s, side>>}}
      BY DEF ReadRestated, re
    <3> QED BY <1>8, <2>1, <3>2, <3>3 DEF st
  <2>3. CASE <<s, side>> \in re
    <3>1. action = "DELETE" /\ b = market[s][side]
      BY <1>4, <2>3 DEF re
    <3>2. m2[s] = market[s]
      BY <1>1, <1>6, <3>1 DEF Book
    <3>3. Agree(s, market, m2, st, st)
      BY <3>2 DEF Agree
    <3>4. Parsing(K, s, m2, st, re)
      BY <1>2, <3>3, ParsingElsewhere
    <3>5. ReadRestated(s, side, action) = re
      BY <3>1 DEF ReadRestated, re
    <3> QED BY <1>8, <2>1, <3>4, <3>5 DEF st
  <2> QED BY <2>2, <2>3
<1> QED BY <1>7, <1>8

(* A group of a message is read.                                           *)
LEMMA ReadFeed ==
    ASSUME Feed, Started, NEW named \in GroupSymbols, NEW side \in Sides,
           NEW action \in {"NEW", "CHANGE", "DELETE"}, NEW sized,
           NEW quote, action # "DELETE" => quote \in Quotes,
           readGroup(named, side, action, sized, quote)
    PROVE  Feed'
<1> DEFINE s  == GroupSymbol(named)
           b  == BookAfter(s, side, action, quote)
           V  == ReadUpdates(s, side, action, sized, quote)
           re == ReadRestated(s, side, action)
           st == Reset(s) \cup (IF Full(action, sized) THEN {<<s, side>>} ELSE {})
           U  == parser.updates
<1>1. FeedTypes /\ parser \in Parser
  BY DEF Feed, FeedTypes
<1>2. /\ parser.reading = "groups"
      /\ action = "DELETE" \/ <<s, side>> \notin parser.restated
      /\ market' = [market EXCEPT ![s][side] = b]
      /\ parser' = [parser EXCEPT !.symbol = s, !.groups = parser.groups + 1,
                                  !.updates = V, !.restated = re]
      /\ stated' = st
      /\ UNCHANGED <<startupVars, priceQueue, prices, unknown, messages, dropped>>
  BY <1>1, ReadGroupIs
<1>3. s \in Symbols
  BY <1>1, <1>2, GroupSymbolListed
<1>4. /\ U \in Seq(Update) /\ Single(U) /\ market \in [Symbols -> Book]
      /\ parser.restated \in SUBSET (Symbols \X Sides) /\ parser.groups \in Nat
  BY <1>1 DEF Feed, FeedTypes, Parser
<1>5. Full(action, sized) => quote \in Quotes
  BY DEF Full
<1>6. Parsing(V, s, market', st, re)
  BY <1>2, <1>3, ReadCurrent
<1> HIDE DEF s, U
<1>7. /\ V \in Seq(Update) /\ V # << >> /\ Single(V) /\ ~ Absent(V, s)
      /\ \A t : Absent(V, t) => Absent(U, t)
      /\ \A i \in 1..Len(V) : V[i].symbol # s => \E j \in 1..Len(U) : V[i] = U[j]
  BY <1>3, <1>4, <1>5, ReadUpdatesFacts DEF U
<1>8. b \in Quotes \cup {NoQuote}
  <2>1. market[s][side] \in Quotes \cup {NoQuote}
    BY <1>3, <1>4 DEF Book
  <2> QED BY <2>1 DEF BookAfter
<1>9. /\ re \in SUBSET (Symbols \X Sides)
      /\ \A x : x \in parser.restated => x \in re
  BY <1>3, <1>4 DEF ReadRestated
<1>10. \A t \in Symbols : t # s => Agree(t, market, market', stated, st)
  <2> SUFFICES ASSUME NEW t \in Symbols, t # s
               PROVE  Agree(t, market, market', stated, st)
    OBVIOUS
  <2>1. market'[t] = market[t]
    BY <1>2, <1>3, <1>4
  <2>2. \A x \in Sides : <<t, x>> \in st <=> <<t, x>> \in stated
    BY DEF Reset
  <2> QED BY <2>1, <2>2 DEF Agree
<1> HIDE DEF V, re, st, b
<1>11. market' \in [Symbols -> Book]
  BY <1>2, <1>3, <1>4, <1>8 DEF Book
<1>12. /\ parser' \in Parser /\ parser'.reading = "groups"
       /\ parser'.updates = V /\ parser'.restated = re
       /\ parser'.session = parser.session
  <2> DEFINE g == parser.groups + 1
  <2>1. parser' = [parser EXCEPT !.symbol = s, !.groups = g, !.updates = V,
                                 !.restated = re]
    BY <1>2
  <2>2. g \in Nat
    BY <1>4
  <2>7. s \in Symbols \cup {""}
    BY <1>3, Zenon
  <2>3. V \in Seq(Update) /\ re \in SUBSET (Symbols \X Sides)
    BY <1>7, <1>9
  <2> HIDE DEF g
  <2>4. parser' = [reading |-> parser.reading, session |-> parser.session,
                   symbol |-> s, updates |-> V, groups |-> g, restated |-> re]
    BY <1>1, <2>1 DEF Parser
  <2>5. /\ parser.reading \in {"none", "groups", "push"}
        /\ parser.session \in Nat
    BY <1>1 DEF Parser
  <2>6. parser' \in Parser
    BY <2>2, <2>3, <2>4, <2>5, <2>7 DEF Parser
  <2> QED BY <1>2, <2>4, <2>6
<1>13. FeedTypes'
  BY <1>1, <1>2, <1>7, <1>11, <1>12 DEF FeedTypes, startupVars
<1>14. ASSUME NEW t \in Symbols PROVE Parsing(V, t, market', st, re)
  <2>1. CASE t = s
    BY <1>6, <2>1
  <2>2. CASE t # s
    <3>1. Parsing(U, t, market, stated, parser.restated)
      BY DEF Feed, U
    <3>2. \A i \in 1..Len(V) : V[i].symbol = t => \E j \in 1..Len(U) : V[i] = U[j]
      BY <1>7, <2>2
    <3>3. Agree(t, market, market', stated, st)
      BY <1>10, <2>2
    <3>4. \A x \in Sides : <<t, x>> \in parser.restated => <<t, x>> \in re
      BY <1>9
    <3> QED BY <3>1, <3>2, <3>3, <3>4, ParsingElsewhere
  <2> QED BY <2>1, <2>2
<1>15. ASSUME NEW t \in Symbols, Absent(V, t), t \notin dropped
       PROVE  Latest(priceQueue, prices, t, market', st)
  <2>1. t # s /\ Absent(U, t)
    BY <1>7, <1>15
  <2>2. Latest(priceQueue, prices, t, market, stated)
    BY <1>15, <2>1 DEF Feed, U
  <2>3. Agree(t, market, market', stated, st)
    BY <1>10, <2>1
  <2> QED BY <2>2, <2>3, FreshElsewhere
<1> QED BY <1>2, <1>7, <1>12, <1>13, <1>14, <1>15, FeedNextIs

(* Nothing was read yet.                                                   *)
LEMMA InitFeed ==
    ASSUME Init
    PROVE  Feed
<1>1. /\ stage = "balance" /\ answer \in Answers
      /\ market = [s \in Symbols |-> answer.book] /\ priceQueue = << >>
      /\ prices = [s \in Symbols |-> NoSides] /\ parser = Idle
      /\ unknown = Symbols /\ stated = {} /\ dropped = {}
  BY DEF Init, StartupInit, FeedInit
<1>2. /\ << >> \in Seq(Update) /\ Len(<< >>) = 0
      /\ {} \in SUBSET (Symbols \X Sides)
  OBVIOUS
<1>3. /\ parser \in Parser /\ parser.reading = "none" /\ parser.updates = << >>
      /\ ~(parser.groups > 0)
  <2>1. parser \in Parser
    BY <1>1, <1>2 DEF Idle, Parser
  <2>2. Idle.updates = << >> /\ Idle.reading = "none" /\ ~(Idle.groups > 0)
    BY DEF Idle
  <2> QED BY <1>1, <2>1, <2>2
<1>4. answer.book \in Book /\ NoSides \in Book /\ 0 <= PriceQueueSize
  BY <1>1, FeedAssumption DEF Book, NoSides
<1>5. FeedTypes
  BY <1>1, <1>2, <1>3, <1>4 DEF FeedTypes
<1>6. /\ Single(parser.updates)
      /\ \A s \in Symbols :
            Parsing(parser.updates, s, market, stated, parser.restated)
  BY <1>2, <1>3 DEF Single, Parsing
<1>7. ASSUME NEW s \in Symbols
      PROVE  Latest(priceQueue, prices, s, market, stated)
  <2>1. Fresh(prices[s], s, market, stated)
    BY <1>1 DEF Fresh, NoSides
  <2> QED BY <1>1, <1>2, <2>1 DEF Latest
<1> QED BY <1>5, <1>6, <1>7 DEF Feed

(* The start does not touch the feed, and ends before it begins.           *)
LEMMA StartFeed ==
    ASSUME Feed, [StartupNext]_startupVars, UNCHANGED feedVars
    PROVE  Feed'
<1>1. UNCHANGED <<market, priceQueue, prices, parser, unknown, messages,
                  stated, dropped>>
  BY DEF feedVars
<1>2. UNCHANGED startupVars \/ stage # "running"
  BY DEF StartupNext, requestFails, getBalance, getSymbols, getRelativeValues,
         getTradingPaths, useStaticPaths, Application, Worker, start, Fetching
<1>3. FeedTypes'
  <2>1. CASE UNCHANGED startupVars
    BY <1>1, <2>1 DEF Feed, FeedTypes, startupVars
  <2>2. CASE stage # "running"
    BY <1>1, <2>2 DEF Feed, FeedTypes
  <2> QED BY <1>2, <2>1, <2>2
<1> QED BY <1>1, <1>3, FeedNextIs DEF Feed

(* The actions of the feed.                                                *)
LEMMA FeedStep ==
    ASSUME Feed, Started, FeedNext
    PROVE  Feed'
<1>1. CASE \E k \in DOMAIN dividedSymbols :
              onIncremental(k) \/ \E s \in Symbols : onSnapshot(k, s)
  BY <1>1, ParserFeed, SnapshotFeed
<1>2. CASE \E named \in GroupSymbols, side \in Sides :
             \/ \E quote \in Quotes :
                   \/ readGroup(named, side, "NEW", TRUE, quote)
                   \/ \E sized \in BOOLEAN :
                         readGroup(named, side, "CHANGE", sized, quote)
             \/ readGroup(named, side, "DELETE", FALSE, NoQuote)
  <2>1. PICK named \in GroupSymbols, side \in Sides :
             \/ \E quote \in Quotes :
                   \/ readGroup(named, side, "NEW", TRUE, quote)
                   \/ \E sized \in BOOLEAN :
                         readGroup(named, side, "CHANGE", sized, quote)
             \/ readGroup(named, side, "DELETE", FALSE, NoQuote)
    BY <1>2
  <2>2. "NEW" # "DELETE" /\ "CHANGE" # "DELETE"
    OBVIOUS
  <2>3. \A quote \in Quotes : readGroup(named, side, "NEW", TRUE, quote) => Feed'
    BY ReadFeed
  <2>4. \A quote \in Quotes : \A sized \in BOOLEAN :
           readGroup(named, side, "CHANGE", sized, quote) => Feed'
    BY ReadFeed
  <2>5. readGroup(named, side, "DELETE", FALSE, NoQuote) => Feed'
    BY ReadFeed
  <2> QED BY <2>1, <2>3, <2>4, <2>5
<1>3. CASE parsed \/ pushUpdate \/ processPriceUpdate
  BY <1>3, ParserFeed, PushFeed, PopFeed
<1> QED BY <1>1, <1>2, <1>3 DEF FeedNext

(* The invariant gives the properties and the types.                       *)
LEMMA FeedImplies ==
    ASSUME Feed, Started
    PROVE  NoStaleQuote /\ StatedQuotesArrive /\ TypeOK
<1>1. ASSUME NEW s \in Symbols \ dropped, Settled(s)
      PROVE  Fresh(prices[s], s, market, stated)
  <2>1. parser.updates \in Seq(Update) /\ priceQueue \in Seq(Update)
    BY DEF Feed, FeedTypes, Parser
  <2>2. Absent(parser.updates, s) /\ Absent(priceQueue, s)
    BY <1>1, <2>1 DEF Settled, Absent
  <2> QED BY <2>2 DEF Feed, Latest
<1>2. NoStaleQuote
  BY <1>1 DEF NoStaleQuote, Fresh
<1>3. StatedQuotesArrive
  BY <1>1 DEF StatedQuotesArrive, Fresh
<1>4. \A i \in DOMAIN tradingPaths : tradingPaths[i] \in
           Seq([symbol : Symbols, position : {"LONG", "SHORT"}])
  <2> DEFINE Path  == Seq(Trades)
             Trade == [symbol : Symbols, position : {"LONG", "SHORT"}]
  <2>1. tradingPaths \in Seq(Path) /\ Trades \subseteq Trade
    BY DEF Started, Mapped, Listing, Trades
  <2> HIDE DEF Path, Trade
  <2>2. \A i \in DOMAIN tradingPaths : tradingPaths[i] \in Path
    BY <2>1
  <2>3. \A p \in Path : p \in Seq(Trade)
    BY <2>1 DEF Path
  <2>4. \A i \in DOMAIN tradingPaths : tradingPaths[i] \in Seq(Trade)
    BY <2>2, <2>3
  <2> QED BY <2>4 DEF Trade
<1>5. \A k \in DOMAIN dividedSymbols : dividedSymbols[k] \in Seq(Symbols)
  <2> DEFINE Part == Seq(symbolMap)
  <2>1. dividedSymbols \in Seq(Part) /\ symbolMap \subseteq Symbols
    BY DEF Started, Listing
  <2> HIDE DEF Part
  <2>2. \A k \in DOMAIN dividedSymbols : dividedSymbols[k] \in Part
    BY <2>1
  <2>3. \A p \in Part : p \in Seq(Symbols)
    BY <2>1 DEF Part
  <2> QED BY <2>2, <2>3
<1>6. TypeOK
  BY <1>4, <1>5 DEF TypeOK, Started, Stages, Listing, Feed, FeedTypes, Book
<1> QED BY <1>2, <1>3, <1>6

(* The inductive invariant of the feed holds, with that of the start       *)
(* (HarjusApplication.cpp, Worker::processPriceUpdate), for any books,     *)
(* queue size and sequence of messages.                                    *)
THEOREM FeedInvariant == Spec => [](Started /\ Feed)
<1>1. Init => Started /\ Feed
  BY InitStarted, InitFeed DEF Init
<1>2. Started /\ Feed /\ [Next]_vars => Started' /\ Feed'
  <2> SUFFICES ASSUME Started, Feed, [Next]_vars PROVE Started' /\ Feed'
    OBVIOUS
  <2>1. CASE StartupNext /\ UNCHANGED feedVars
    BY <2>1, StartedStep, StartFeed
  <2>2. CASE FeedNext
    BY <2>2, FeedLeavesStart, StartedStutter, FeedStep
  <2>3. CASE UNCHANGED vars
    BY <2>3, StartedStutter, StartFeed DEF vars
  <2> QED BY <2>1, <2>2, <2>3 DEF Next
<1> QED BY <1>1, <1>2, PTL DEF Spec

(* Once the messages about a symbol have been handled the worker holds the *)
(* exchange's quote or none, whichever groups the messages had, unless the *)
(* symbol's last update found the queue full (the parsers of               *)
(* HarjusApplication.cpp and Worker::processPriceUpdate).                  *)
THEOREM FeedNoStaleQuote == Spec => []NoStaleQuote
<1>1. Started /\ Feed => NoStaleQuote
  BY FeedImplies
<1> QED BY <1>1, FeedInvariant, PTL

(* What the last message on a symbol gave in full is what the worker       *)
(* holds (HarjusApplication.cpp, onMessage of an incremental refresh).     *)
THEOREM FeedStatedQuotesArrive == Spec => []StatedQuotesArrive
<1>1. Started /\ Feed => StatedQuotesArrive
  BY FeedImplies
<1> QED BY <1>1, FeedInvariant, PTL

(* The variables of the started program keep their types, and the queue of *)
(* price updates its bound (Main.cpp, HarjusApplication.cpp, Worker.cpp).  *)
THEOREM FeedTypeCorrect == Spec => []TypeOK
<1>1. Started /\ Feed => TypeOK
  BY FeedImplies
<1> QED BY <1>1, FeedInvariant, PTL
=============================================================================
