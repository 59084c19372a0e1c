----------------------- MODULE FunctionRecoveryProofs -----------------------
(***************************************************************************)
(* What the operators of FunctionRecovery compute, whatever the object:    *)
(* the lemmas behind the theorems about the recovered functions.           *)
(*                                                                         *)
(* The loops of the script are folds.  A fold is turned into a function on *)
(* the subsets of what it goes through (RecursionExists), and what it does *)
(* is then shown for ever larger subsets (SubsetInduction).                *)
(***************************************************************************)
EXTENDS FunctionRecovery, FiniteSetTheorems, SequenceTheorems, WellFoundedInduction, TLAPS

-----------------------------------------------------------------------------
(* Numbers. *)

\* Min is the least element of a set of numbers that is not empty, finite or not.
LEMMA LeastOfNumbers ==
  ASSUME NEW S \in SUBSET Nat, S # {}
  PROVE  Min(S) \in S /\ \A m \in S : Min(S) <= m
<1> DEFINE R == OpToRel(<, Nat)
<1>1. IsWellFoundedOn(R, Nat)
  BY NatLessThanWellFounded
<1>2. \A x, y \in Nat : <<y, x>> \in R <=> y < x
  BY DEF OpToRel
<1> HIDE DEF R
<1>3. PICK n \in S : \A m \in S : ~(<<m, n>> \in R)
  BY <1>1, WFMin
<1>4. \A m \in S : ~(m < n)
  BY <1>2, <1>3
<1>5. \A m \in S : n <= m
  BY <1>4
<1> QED
  BY <1>5 DEF Min

\* Max is the greatest element of a bounded set of numbers.
LEMMA GreatestOfNumbers ==
  ASSUME NEW S \in SUBSET Nat, S # {}, NEW bound \in Nat, \A m \in S : m <= bound
  PROVE  Max(S) \in S /\ \A m \in S : m <= Max(S)
<1> DEFINE Below == {bound - m : m \in S}
<1>1. Below \in SUBSET Nat /\ Below # {}
  <2>1. \A m \in S : bound - m \in Nat
    OBVIOUS
  <2>2. Below \subseteq Nat
    BY <2>1
  <2>3. Below # {}
    OBVIOUS
  <2> QED
    BY <2>2, <2>3
<1>2. Min(Below) \in Below /\ \A d \in Below : Min(Below) <= d
  BY <1>1, LeastOfNumbers
<1>3. PICK n \in S : Min(Below) = bound - n
  BY <1>2
<1>4. \A m \in S : bound - m \in Below
  OBVIOUS
<1> HIDE DEF Below
<1>5. \A m \in S : bound - n <= bound - m
  BY <1>2, <1>3, <1>4
<1>6. \A m \in S : m <= n
  BY <1>5
<1> QED
  BY <1>6 DEF Max

\* max(x, y) is one of the two and no less than either.
LEMMA MaxOfTwo ==
  ASSUME NEW x \in Int, NEW y \in Int
  PROVE  Max({x, y}) \in {x, y} /\ x <= Max({x, y}) /\ y <= Max({x, y})
<1>1. \E m \in {x, y} : \A z \in {x, y} : m >= z
  <2>1. CASE x >= y
    BY <2>1
  <2>2. CASE y >= x
    BY <2>2
  <2> QED
    BY <2>1, <2>2
<1>2. Max({x, y}) \in {x, y} /\ \A z \in {x, y} : Max({x, y}) >= z
  BY <1>1 DEF Max
<1> QED
  BY <1>2

\* min(x, y) is one of the two and no greater than either.
LEMMA MinOfTwo ==
  ASSUME NEW x \in Int, NEW y \in Int
  PROVE  Min({x, y}) \in {x, y} /\ Min({x, y}) <= x /\ Min({x, y}) <= y
<1>1. \E m \in {x, y} : \A z \in {x, y} : m <= z
  <2>1. CASE x >= y
    BY <2>1
  <2>2. CASE y >= x
    BY <2>2
  <2> QED
    BY <2>1, <2>2
<1>2. Min({x, y}) \in {x, y} /\ \A z \in {x, y} : Min({x, y}) <= z
  BY <1>1 DEF Min
<1> QED
  BY <1>2

-----------------------------------------------------------------------------
(* Recursion over the subsets of a finite set, as in MapThenFoldSet. *)

\* What holds of {} and passes from the sets with one element less to a set
\* holds of every subset.
LEMMA SubsetInduction ==
  ASSUME NEW T, IsFiniteSet(T), NEW Good \in SUBSET (SUBSET T), {} \in Good,
         \A S \in SUBSET T : S # {} /\ (\A x \in S : S \ {x} \in Good) => S \in Good
  PROVE  \A S \in SUBSET T : S \in Good
<1> SUFFICES ASSUME \E S \in SUBSET T : S \notin Good PROVE FALSE
  OBVIOUS
<1> DEFINE Sizes == {Cardinality(S) : S \in {X \in SUBSET T : X \notin Good}}
<1>1. \A S \in SUBSET T : IsFiniteSet(S) /\ Cardinality(S) \in Nat
  BY FS_Subset, FS_CardinalityType
<1>2. Sizes \in SUBSET Nat /\ Sizes # {}
  BY <1>1
<1>3. Min(Sizes) \in Sizes /\ \A m \in Sizes : Min(Sizes) <= m
  BY <1>2, LeastOfNumbers
<1>4. PICK S \in SUBSET T : S \notin Good /\ Min(Sizes) = Cardinality(S)
  BY <1>3
<1>5. S # {}
  BY <1>4
<1>6. ASSUME NEW x \in S PROVE S \ {x} \in Good
  <2>1. Cardinality(S \ {x}) = Cardinality(S) - 1 /\ S \ {x} \in SUBSET T
    BY <1>1, FS_RemoveElement
  <2>2. Cardinality(S \ {x}) \notin Sizes
    <3>1. Min(Sizes) \in Nat /\ Cardinality(S \ {x}) < Min(Sizes)
      BY <1>1, <1>4, <2>1
    <3>2. Cardinality(S \ {x}) \in Nat
      BY <1>1, <2>1
    <3> HIDE DEF Sizes
    <3> QED
      BY <1>3, <3>1, <3>2
  <2> QED
    BY <2>1, <2>2
<1> QED
  BY <1>4, <1>5, <1>6

\* Such a recursion defines a function.
Picks(pick, T) == \A S \in SUBSET T : S # {} => pick[S] \in S
Recurses(h, T, base, pick, step) ==
  \A S \in SUBSET T : h[S] = IF S = {} THEN base ELSE step[<<pick[S], h[S \ {pick[S]}]>>]

\* The recursion that a fold unfolds to has a solution on all subsets of a finite set.
LEMMA RecursionExists ==
  ASSUME NEW T, IsFiniteSet(T), NEW V, NEW base \in V,
         NEW pick, Picks(pick, T), NEW step \in [T \X V -> V]
  PROVE  \E h \in [SUBSET T -> V] : Recurses(h, T, base, pick, step)
<1> DEFINE Upto(n) == {S \in SUBSET T : Cardinality(S) <= n}
           Solves(h, n) == \A S \in Upto(n) :
             h[S] = IF S = {} THEN base ELSE step[<<pick[S], h[S \ {pick[S]}]>>]
           Bad == {n \in Nat : ~\E h \in [Upto(n) -> V] : Solves(h, n)}
<1>1. \A S \in SUBSET T : IsFiniteSet(S) /\ Cardinality(S) \in Nat
  BY FS_Subset, FS_CardinalityType
<1>2. \A S \in SUBSET T : S # {} => /\ S \ {pick[S]} \in SUBSET T
                                    /\ Cardinality(S \ {pick[S]}) = Cardinality(S) - 1
  BY <1>1, FS_RemoveElement DEF Picks
<1>3. Bad = {}
  <2> SUFFICES ASSUME Bad # {} PROVE FALSE
    OBVIOUS
  <2> DEFINE n == Min(Bad)
  <2>1. n \in Bad /\ \A m \in Bad : n <= m
    <3>1. Bad \in SUBSET Nat
      OBVIOUS
    <3> HIDE DEF Bad
    <3> QED
      BY <3>1, LeastOfNumbers
  <2>2. n \in Nat
    BY <2>1
  <2> HIDE DEF n
  <2>3. n # 0
    <3>1. \A S \in Upto(0) : S = {}
      BY <1>1, FS_EmptySet
    <3> DEFINE h == [S \in Upto(0) |-> base]
    <3>2. h \in [Upto(0) -> V] /\ Solves(h, 0)
      BY <3>1
    <3> HIDE DEF h
    <3>3. 0 \notin Bad
      BY <3>2
    <3> QED
      BY <2>1, <3>3
  <2>4. n - 1 \in Nat /\ n - 1 \notin Bad
    <3> HIDE DEF Bad
    <3> QED
      BY <2>1, <2>2, <2>3
  <2>5. PICK h \in [Upto(n - 1) -> V] : Solves(h, n - 1)
    BY <2>4
  <2>6. \A S \in Upto(n) : S # {} => pick[S] \in T /\ S \ {pick[S]} \in Upto(n - 1)
    BY <1>1, <1>2, <2>2 DEF Picks
  <2> DEFINE g == [S \in Upto(n) |-> IF S = {} THEN base ELSE step[<<pick[S], h[S \ {pick[S]}]>>]]
  <2>7. g \in [Upto(n) -> V]
    BY <2>6
  <2>8. \A S \in Upto(n - 1) : g[S] = h[S]
    BY <1>1, <2>2, <2>5
  <2>9. Solves(g, n)
    BY <2>6, <2>8
  <2> HIDE DEF g
  <2> QED
    BY <2>1, <2>7, <2>9
<1>4. PICK h \in [Upto(Cardinality(T)) -> V] : Solves(h, Cardinality(T))
  <2>1. Cardinality(T) \in Nat
    BY <1>1
  <2> QED
    BY <1>3, <2>1
<1>5. Upto(Cardinality(T)) = SUBSET T
  BY <1>1, FS_Subset
<1> QED
  BY <1>4, <1>5 DEF Recurses

\* The last pair of the sorted set is one of its pairs.
LEMMA LatestOfSet ==
  ASSUME NEW S, S # {}, NEW bound \in Nat, \A x \in S : x[1] \in Nat /\ x[1] <= bound
  PROVE  Latest(S) \in S
<1> DEFINE Starts == {x[1] : x \in S}
<1>1. Starts \in SUBSET Nat /\ Starts # {} /\ \A m \in Starts : m <= bound
  OBVIOUS
<1>2. Max(Starts) \in Starts /\ \A m \in Starts : m <= Max(Starts)
  BY <1>1, GreatestOfNumbers
<1>3. PICK x \in S : Max(Starts) = x[1]
  BY <1>2
<1>4. \A y \in S : y[1] \in Starts
  OBVIOUS
<1> HIDE DEF Starts
<1>5. \A y \in S : y[1] <= x[1]
  BY <1>2, <1>3, <1>4
<1> QED
  BY <1>5 DEF Latest

-----------------------------------------------------------------------------
(* Total: the sum of the sizes, one function after the other. *)

\* The sums over the subsets of the first n functions.
IsSum(h, functions, n) ==
  /\ h \in [SUBSET (1..n) -> Nat]
  /\ \A S \in SUBSET (1..n) :
       h[S] = IF S = {} THEN 0 ELSE h[S \ {Max(S)}] + functions[Max(S)].size

\* The greatest of some positions is one of them.
LEMMA MaxOfIndices ==
  ASSUME NEW n \in Nat, NEW S \in SUBSET (1..n), S # {}
  PROVE  Max(S) \in S /\ \A k \in S : k <= Max(S)
BY GreatestOfNumbers

\* Total adds the sizes up, one position after the other.
LEMMA TotalIsSum ==
  ASSUME NEW n \in Nat, NEW functions, DOMAIN functions = 1..n,
         \A k \in 1..n : functions[k].size \in Nat
  PROVE  \E h : IsSum(h, functions, n) /\ Total(functions) = h[1..n]
<1> DEFINE T == 1..n
           iter == CHOOSE iter : iter = [S \in SUBSET T |->
                     IF S = {} THEN 0 ELSE iter[S \ {Max(S)}] + functions[Max(S)].size]
           pick == [S \in SUBSET T |-> Max(S)]
           step == [x \in T \X Nat |-> x[2] + functions[x[1]].size]
<1>1. Total(functions) = iter[T]
  BY Zenon DEF Total, FoldLeft, MapThenFoldSet
<1>2. IsFiniteSet(T) /\ \A S \in SUBSET T : S # {} => pick[S] \in S /\ Max(S) \in S
  <2>1. IsFiniteSet(T)
    BY FS_Interval
  <2>2. \A S \in SUBSET T : S # {} => Max(S) \in S
    BY MaxOfIndices
  <2> QED
    BY <2>1, <2>2
<1>3. step \in [T \X Nat -> Nat] /\ 0 \in Nat
  OBVIOUS
<1>4. PICK h \in [SUBSET T -> Nat] : Recurses(h, T, 0, pick, step)
  <2>1. Picks(pick, T)
    BY <1>2 DEF Picks
  <2> HIDE DEF pick, step, T
  <2> QED
    BY <1>2, <1>3, <2>1, RecursionExists
<1>5. \A S \in SUBSET T : h[S] = IF S = {} THEN 0 ELSE h[S \ {Max(S)}] + functions[Max(S)].size
  BY <1>2, <1>4 DEF Recurses
<1>6. h = [S \in SUBSET T |-> IF S = {} THEN 0 ELSE h[S \ {Max(S)}] + functions[Max(S)].size]
  BY <1>5
<1>7. iter = [S \in SUBSET T |-> IF S = {} THEN 0 ELSE iter[S \ {Max(S)}] + functions[Max(S)].size]
  BY <1>6, Zenon
<1> HIDE DEF iter
<1>8. \A S \in SUBSET T : iter[S] = IF S = {} THEN 0 ELSE iter[S \ {Max(S)}] + functions[Max(S)].size
  BY <1>7, Zenon
<1> DEFINE Good == {S \in SUBSET T : iter[S] = h[S]}
<1>9. \A S \in SUBSET T : S \in Good
  <2>1. {} \in Good
    BY <1>5, <1>8
  <2>2. ASSUME NEW S \in SUBSET T, S # {}, \A x \in S : S \ {x} \in Good
        PROVE  S \in Good
    <3>1. iter[S \ {Max(S)}] = h[S \ {Max(S)}]
      BY <1>2, <2>2
    <3>2. iter[S] = iter[S \ {Max(S)}] + functions[Max(S)].size
      BY <1>8, <2>2
    <3>3. h[S] = h[S \ {Max(S)}] + functions[Max(S)].size
      BY <1>5, <2>2
    <3> QED
      BY <3>1, <3>2, <3>3
  <2>3. Good \in SUBSET (SUBSET T)
    OBVIOUS
  <2> HIDE DEF Good, T
  <2> QED
    BY <1>2, <2>1, <2>2, <2>3, SubsetInduction
<1>10. Total(functions) = h[T]
  BY <1>1, <1>9
<1> QED
  BY <1>5, <1>10 DEF IsSum

\* No functions take no bytes.
LEMMA TotalOfNone ==
  ASSUME NEW functions, DOMAIN functions = {}
  PROVE  Total(functions) = 0
<1>1. DOMAIN functions = 1..0
  OBVIOUS
<1>2. PICK h : IsSum(h, functions, 0) /\ Total(functions) = h[1..0]
  BY <1>1, TotalIsSum
<1>3. 1..0 = {} /\ 1..0 \in SUBSET (1..0)
  OBVIOUS
<1> QED
  BY <1>2, <1>3 DEF IsSum

\* One more function adds its size.
LEMMA TotalOfOneMore ==
  ASSUME NEW n \in Nat, n # 0, NEW functions, DOMAIN functions = 1..n,
         \A k \in 1..n : functions[k].size \in Nat,
         NEW shorter, DOMAIN shorter = 1..(n - 1),
         \A k \in 1..(n - 1) : shorter[k] = functions[k]
  PROVE  /\ Total(shorter) \in Nat
         /\ Total(functions) = Total(shorter) + functions[n].size
<1>1. PICK h : IsSum(h, functions, n) /\ Total(functions) = h[1..n]
  BY TotalIsSum
<1>2. n - 1 \in Nat /\ \A k \in 1..(n - 1) : shorter[k].size \in Nat
  OBVIOUS
<1>3. PICK g : IsSum(g, shorter, n - 1) /\ Total(shorter) = g[1..(n - 1)]
  BY <1>2, TotalIsSum
<1> DEFINE T    == 1..(n - 1)
           Good == {S \in SUBSET T : h[S] = g[S]}
<1>4. SUBSET T \subseteq SUBSET (1..n)
  OBVIOUS
<1>5. \A S \in SUBSET T : S # {} => Max(S) \in S
  BY <1>2, MaxOfIndices
<1>6. \A S \in SUBSET T : S \in Good
  <2>1. {} \in Good
    BY <1>1, <1>3 DEF IsSum
  <2>2. ASSUME NEW S \in SUBSET T, S # {}, \A x \in S : S \ {x} \in Good
        PROVE  S \in Good
    <3>1. h[S \ {Max(S)}] = g[S \ {Max(S)}] /\ functions[Max(S)] = shorter[Max(S)]
      BY <1>5, <2>2
    <3>2. h[S] = h[S \ {Max(S)}] + functions[Max(S)].size
      BY <1>1, <1>4, <2>2 DEF IsSum
    <3>3. g[S] = g[S \ {Max(S)}] + shorter[Max(S)].size
      BY <1>3, <2>2 DEF IsSum
    <3> QED
      BY <3>1, <3>2, <3>3
  <2>3. Good \in SUBSET (SUBSET T) /\ IsFiniteSet(T)
    BY <1>2, FS_Interval
  <2> HIDE DEF Good, T
  <2> QED
    BY <2>1, <2>2, <2>3, SubsetInduction
<1>7. Max(1..n) = n
  <2>1. n \in 1..n /\ 1..n \in SUBSET (1..n) /\ 1..n # {}
    OBVIOUS
  <2>2. Max(1..n) \in 1..n /\ \A k \in 1..n : k <= Max(1..n)
    BY <2>1, MaxOfIndices
  <2> QED
    BY <2>1, <2>2
<1>8. h[1..n] = h[(1..n) \ {n}] + functions[n].size
  BY <1>1, <1>7 DEF IsSum
<1>9. (1..n) \ {n} = T
  OBVIOUS
<1>10. h[T] = g[T] /\ g[T] \in Nat
  BY <1>3, <1>6 DEF IsSum
<1> QED
  BY <1>1, <1>3, <1>8, <1>9, <1>10

\* The offsets of packed functions: Total of the first k of them.
Offsets(left) == [k \in 0..Len(left) |-> Total(SubSeq(left, 1, k))]

\* Offsets starts at 0 and grows by the size of each function.
LEMMA OffsetFacts ==
  ASSUME NEW F, \A f \in F : f.size \in Nat, NEW left \in Seq(F)
  PROVE  /\ Offsets(left) \in [0..Len(left) -> Nat]
         /\ Offsets(left)[0] = 0
         /\ \A k \in 1..Len(left) : Offsets(left)[k] = Offsets(left)[k - 1] + left[k].size
<1> DEFINE U == Offsets(left)
<1>1. Len(left) \in Nat /\ \A k \in 1..Len(left) : left[k] \in F /\ left[k].size \in Nat
  OBVIOUS
<1>2. ASSUME NEW k \in 0..Len(left)
      PROVE  /\ DOMAIN SubSeq(left, 1, k) = 1..k
             /\ \A j \in 1..k : SubSeq(left, 1, k)[j] = left[j]
  OBVIOUS
<1>3. U[0] = 0
  <2>1. DOMAIN SubSeq(left, 1, 0) = {}
    BY <1>2
  <2>2. Total(SubSeq(left, 1, 0)) = 0
    BY <2>1, TotalOfNone
  <2> QED
    BY <1>1, <2>2 DEF Offsets
<1>4. ASSUME NEW k \in 1..Len(left)
      PROVE  /\ Total(SubSeq(left, 1, k - 1)) \in Nat
             /\ Total(SubSeq(left, 1, k)) = Total(SubSeq(left, 1, k - 1)) + left[k].size
  <2> DEFINE f == SubSeq(left, 1, k)  s == SubSeq(left, 1, k - 1)
  <2>1. k \in Nat /\ k # 0 /\ k \in 0..Len(left) /\ k - 1 \in 0..Len(left)
    BY <1>1
  <2>2. DOMAIN f = 1..k /\ \A j \in 1..k : f[j] = left[j]
    BY <1>2, <2>1
  <2>3. DOMAIN s = 1..(k - 1) /\ \A j \in 1..(k - 1) : s[j] = left[j]
    BY <1>2, <2>1
  <2> HIDE DEF f, s
  <2>4. \A j \in 1..k : f[j].size \in Nat
    BY <1>1, <2>1, <2>2
  <2>5. \A j \in 1..(k - 1) : s[j] = f[j]
    BY <2>1, <2>2, <2>3
  <2>6. Total(s) \in Nat /\ Total(f) = Total(s) + f[k].size
    BY <2>1, <2>2, <2>3, <2>4, <2>5, TotalOfOneMore
  <2> QED
    BY <2>1, <2>2, <2>6 DEF f, s
<1>5. \A k \in 1..Len(left) : U[k] = U[k - 1] + left[k].size
  BY <1>1, <1>4 DEF Offsets
<1>6. ASSUME NEW k \in 0..Len(left) PROVE Total(SubSeq(left, 1, k)) \in Nat
  <2>1. CASE k = 0
    BY <1>1, <1>3, <2>1 DEF Offsets
  <2>2. CASE k # 0
    BY <1>1, <1>4, <2>2
  <2> QED
    BY <2>1, <2>2
<1>7. U \in [0..Len(left) -> Nat]
  BY <1>6 DEF Offsets
<1> QED
  BY <1>3, <1>5, <1>7

\* What no step lowers is never lower later.
LEMMA Monotone ==
  ASSUME NEW n \in Nat, NEW U \in [0..n -> Nat], \A k \in 1..n : U[k - 1] <= U[k]
  PROVE  \A j, k \in 0..n : j <= k => U[j] <= U[k]
<1> SUFFICES ASSUME NEW j \in 0..n, \E k \in 0..n : j <= k /\ ~(U[j] <= U[k]) PROVE FALSE
  OBVIOUS
<1> DEFINE Bad == {k \in 0..n : j <= k /\ ~(U[j] <= U[k])}
<1>1. Bad \in SUBSET Nat /\ Bad # {}
  <2>1. \A k \in 0..n : k \in Nat
    OBVIOUS
  <2> QED
    BY <2>1
<1> DEFINE k == Min(Bad)
<1>2. k \in Bad /\ \A m \in Bad : k <= m
  <2> HIDE DEF Bad
  <2> QED
    BY <1>1, LeastOfNumbers
<1> HIDE DEF k
<1>3. k \in 0..n /\ j < k /\ ~(U[j] <= U[k])
  BY <1>2
<1>4. k - 1 \in 0..n /\ j <= k - 1 /\ k - 1 \notin Bad
  <2>1. k - 1 \in 0..n /\ j <= k - 1
    BY <1>3
  <2>2. k - 1 \notin Bad
    <3> HIDE DEF Bad
    <3> QED
      BY <1>2, <1>3
  <2> QED
    BY <2>1, <2>2
<1>5. U[j] <= U[k - 1] /\ U[k - 1] <= U[k]
  BY <1>3, <1>4
<1> QED
  BY <1>3, <1>4, <1>5

-----------------------------------------------------------------------------
(* Intervals.  A text is an interval of addresses, what is taken of it are   *)
(* intervals that are not empty.                                             *)

IsText(text) == text \in Nat \X Nat /\ text[1] < text[2]
Proper(i)    == i \in Int \X Int /\ i[1] < i[2]
ProperIn(A, text) == \A a \in A : Proper(a) /\ Within(a, text)

\* One clipped interval.
LEMMA ClippedFacts ==
  ASSUME NEW text, IsText(text), NEW i, Proper(i), Clashes(i, text),
         NEW a, a = <<Max({i[1], text[1]}), Min({i[2], text[2]})>>
  PROVE  /\ Proper(a) /\ Within(a, text) /\ a[1] \in {i[1], text[1]}
         /\ Within(i, text) => a = i
         /\ \A f : Proper(f) /\ Within(f, text) /\ Clashes(f, i) => Clashes(f, a)
<1> DEFINE x == Max({i[1], text[1]})  y == Min({i[2], text[2]})
<1>1. /\ i[1] \in Int /\ i[2] \in Int /\ text[1] \in Int /\ text[2] \in Int
      /\ i[1] < i[2] /\ text[1] < text[2] /\ i = <<i[1], i[2]>>
  BY DEF Proper, IsText
<1>2. i[1] < text[2] /\ text[1] < i[2]
  BY DEF Clashes
<1>3. x \in {i[1], text[1]} /\ i[1] <= x /\ text[1] <= x
  BY <1>1, MaxOfTwo
<1>4. y \in {i[2], text[2]} /\ y <= i[2] /\ y <= text[2]
  BY <1>1, MinOfTwo
<1>5. a = <<x, y>> /\ a[1] = x /\ a[2] = y
  OBVIOUS
<1> HIDE DEF x, y
<1>6. x \in Int /\ y \in Int /\ x < y
  BY <1>1, <1>2, <1>3, <1>4
<1>7. Proper(a) /\ Within(a, text)
  BY <1>3, <1>4, <1>5, <1>6 DEF Proper, Within
<1>8. Within(i, text) => x = i[1] /\ y = i[2]
  BY <1>1, <1>3, <1>4 DEF Within
<1>9. Within(i, text) => a = i
  BY <1>1, <1>5, <1>8
<1>10. ASSUME NEW f, Proper(f), Within(f, text), Clashes(f, i)
       PROVE  Clashes(f, a)
  <2>1. /\ f[1] \in Int /\ f[2] \in Int /\ f[1] < f[2] /\ text[1] <= f[1] /\ f[2] <= text[2]
        /\ f[1] < i[2] /\ i[1] < f[2]
    BY <1>10 DEF Proper, Within, Clashes
  <2>2. f[1] < y /\ x < f[2]
    BY <1>1, <1>3, <1>4, <2>1
  <2> QED
    BY <1>5, <2>2 DEF Clashes
<1> QED
  BY <1>3, <1>5, <1>7, <1>9, <1>10

\* Clip cuts the taken intervals to the text, keeps those that lie inside as they are
\* and loses nothing that clashes with what lies in the text.
LEMMA ClipFacts ==
  ASSUME NEW text, IsText(text), NEW known, \A k \in DOMAIN known : Proper(known[k])
  PROVE  /\ ProperIn(Range(Clip(known, text)), text)
         /\ \A a \in Range(Clip(known, text)) : a[1] = text[1] \/ \E i \in Range(known) : a[1] = i[1]
         /\ \A k \in DOMAIN known : Within(known[k], text) =>
              k \in DOMAIN Clip(known, text) /\ Clip(known, text)[k] = known[k]
         /\ \A f : Proper(f) /\ Within(f, text) => \A i \in Range(known) :
              Clashes(f, i) => \E a \in Range(Clip(known, text)) : Clashes(f, a)
<1> DEFINE D     == {k \in DOMAIN known : Clashes(known[k], text)}
           taken == Clip(known, text)
           Cut(i) == <<Max({i[1], text[1]}), Min({i[2], text[2]})>>
<1>1. DOMAIN taken = D /\ \A k \in D : taken[k] = Cut(known[k])
  BY DEF Clip
<1> HIDE DEF taken
<1>2. ASSUME NEW k \in D
      PROVE  /\ Proper(taken[k]) /\ Within(taken[k], text) /\ taken[k][1] \in {known[k][1], text[1]}
             /\ Within(known[k], text) => taken[k] = known[k]
             /\ \A f : Proper(f) /\ Within(f, text) /\ Clashes(f, known[k]) => Clashes(f, taken[k])
  BY <1>1, ClippedFacts
<1>3. ProperIn(Range(taken), text)
  BY <1>1, <1>2 DEF ProperIn, Range
<1>4. \A a \in Range(taken) : a[1] = text[1] \/ \E i \in Range(known) : a[1] = i[1]
  BY <1>1, <1>2 DEF Range
<1>5. ASSUME NEW k \in DOMAIN known, Within(known[k], text)
      PROVE  k \in D /\ taken[k] = known[k]
  <2>1. Clashes(known[k], text)
    <3>1. Proper(known[k])
      OBVIOUS
    <3> QED
      BY <1>5, <3>1 DEF Clashes, Within, Proper, IsText
  <2> QED
    BY <1>2, <1>5, <2>1
<1>6. ASSUME NEW f, Proper(f), Within(f, text), NEW k \in DOMAIN known, Clashes(f, known[k])
      PROVE  k \in D /\ Clashes(f, taken[k])
  <2>1. Clashes(known[k], text)
    <3>1. Proper(known[k])
      OBVIOUS
    <3> QED
      BY <1>6, <3>1 DEF Clashes, Within, Proper, IsText
  <2> QED
    BY <1>2, <1>6, <2>1
<1>7. \A f : Proper(f) /\ Within(f, text) => \A i \in Range(known) :
        Clashes(f, i) => \E a \in Range(taken) : Clashes(f, a)
  BY <1>1, <1>6 DEF Range
<1> QED
  BY <1>1, <1>3, <1>4, <1>5, <1>7 DEF taken

-----------------------------------------------------------------------------
(* The gaps between proper intervals of a text. *)

\* A gap lies in the text, is free, and is bounded by the text or by what is taken.
LEMMA GapFacts ==
  ASSUME NEW text, IsText(text), NEW A, ProperIn(A, text), NEW g \in Gaps(A, text)
  PROVE  /\ Proper(g) /\ Within(g, text) /\ g[1] \in Nat /\ g[2] \in Nat
         /\ \A a \in A : ~Clashes(a, g)
         /\ g[1] = text[1] \/ \E a \in A : g[1] = a[2]
         /\ g[2] = text[2] \/ \E a \in A : g[2] = a[1]
<1>1. /\ g \in ({text[1]} \cup {i[2] : i \in A}) \X ({text[2]} \cup {i[1] : i \in A})
      /\ g[1] < g[2] /\ \A a \in A : ~Clashes(a, g)
  BY DEF Gaps
<1>2. /\ g[1] = text[1] \/ \E a \in A : g[1] = a[2]
      /\ g[2] = text[2] \/ \E a \in A : g[2] = a[1]
      /\ g = <<g[1], g[2]>>
  BY <1>1
<1>3. text[1] \in Nat /\ text[2] \in Nat /\ text[1] < text[2]
  BY DEF IsText
<1>4. \A a \in A : /\ a[1] \in Int /\ a[2] \in Int /\ a[1] < a[2]
                   /\ text[1] <= a[1] /\ a[2] <= text[2]
  BY DEF ProperIn, Proper, Within
<1>5. g[1] \in Int /\ g[2] \in Int /\ text[1] <= g[1] /\ g[2] <= text[2]
  BY <1>2, <1>3, <1>4
<1>6. g \in Int \X Int
  BY <1>2, <1>5
<1> QED
  BY <1>1, <1>2, <1>3, <1>5, <1>6 DEF Proper, Within

\* Two gaps lie one behind the other.
LEMMA GapsApart ==
  ASSUME NEW text, IsText(text), NEW A, ProperIn(A, text),
         NEW g \in Gaps(A, text), NEW h \in Gaps(A, text), g # h
  PROVE  g[2] <= h[1] \/ h[2] <= g[1]
<1>1. \A x, y \in Gaps(A, text) : x[1] < y[1] => x[2] <= y[1]
  <2> SUFFICES ASSUME NEW x \in Gaps(A, text), NEW y \in Gaps(A, text), x[1] < y[1]
               PROVE  x[2] <= y[1]
    OBVIOUS
  <2>1. /\ Proper(x) /\ Within(x, text) /\ \A a \in A : ~Clashes(a, x)
        /\ y[1] = text[1] \/ \E a \in A : y[1] = a[2]
    BY GapFacts
  <2>2. y[1] # text[1]
    BY <2>1 DEF Proper, Within, IsText
  <2>3. PICK a \in A : y[1] = a[2]
    BY <2>1, <2>2
  <2>4. Proper(a) /\ ~Clashes(a, x)
    BY <2>1 DEF ProperIn
  <2> QED
    BY <2>1, <2>3, <2>4 DEF Proper, Clashes
<1>2. \A x, y \in Gaps(A, text) : x[1] = y[1] => ~(x[2] < y[2])
  <2> SUFFICES ASSUME NEW x \in Gaps(A, text), NEW y \in Gaps(A, text), x[1] = y[1], x[2] < y[2]
               PROVE  FALSE
    OBVIOUS
  <2>1. /\ Proper(x) /\ Proper(y) /\ Within(y, text) /\ \A a \in A : ~Clashes(a, y)
        /\ x[2] = text[2] \/ \E a \in A : x[2] = a[1]
    BY GapFacts
  <2>2. x[2] # text[2]
    BY <2>1 DEF Proper, Within, IsText
  <2>3. PICK a \in A : x[2] = a[1]
    BY <2>1, <2>2
  <2>4. Proper(a) /\ ~Clashes(a, y)
    BY <2>1 DEF ProperIn
  <2> QED
    BY <2>1, <2>3, <2>4 DEF Proper, Clashes
<1>3. Proper(g) /\ Proper(h)
  BY GapFacts
<1>4. CASE g[1] = h[1]
  <2>1. g[2] = h[2]
    BY <1>2, <1>3, <1>4 DEF Proper
  <2> QED
    BY <1>3, <1>4, <2>1 DEF Proper
<1>5. CASE g[1] # h[1]
  <2>1. g[1] < h[1] \/ h[1] < g[1]
    BY <1>3, <1>5 DEF Proper
  <2> QED
    BY <1>1, <2>1
<1> QED
  BY <1>4, <1>5

\* There are only so many gaps for the loop to go through.
LEMMA GapsAreFinite ==
  ASSUME NEW text, IsText(text), NEW A, ProperIn(A, text)
  PROVE  IsFiniteSet(Gaps(A, text))
<1> DEFINE D == text[1]..text[2]
<1>1. IsFiniteSet(D)
  BY FS_Interval DEF IsText
<1>2. IsFiniteSet(D \X D)
  BY <1>1, FS_Product
<1>3. ASSUME NEW g \in Gaps(A, text) PROVE g \in D \X D
  <2>1. Proper(g) /\ Within(g, text)
    BY GapFacts
  <2> QED
    BY <2>1 DEF Proper, Within, IsText
<1>4. Gaps(A, text) \subseteq D \X D
  BY <1>3
<1> QED
  BY <1>2, <1>4, FS_Subset

-----------------------------------------------------------------------------
(* The segments that the call destinations cut the gaps into. *)

SegmentSpan(s) == <<s[1], s[1] + s[2]>>

\* Boundary is the next destination in the gap, or else the end of the gap.
LEMMA BoundaryFacts ==
  ASSUME NEW hints \in SUBSET Int, NEW gap, gap[2] \in Nat, NEW h \in Nat, h < gap[2]
  PROVE  /\ Boundary(h, gap, hints) \in Nat
         /\ h < Boundary(h, gap, hints) /\ Boundary(h, gap, hints) <= gap[2]
         /\ Boundary(h, gap, hints) \in hints \cup {gap[2]}
         /\ \A x \in hints : h < x => Boundary(h, gap, hints) <= x
<1> DEFINE S == {x \in hints : h < x /\ x < gap[2]} \cup {gap[2]}
           b == Boundary(h, gap, hints)
<1>1. S \in SUBSET Nat /\ S # {}
  <2>1. \A x \in hints : h < x => x \in Nat
    OBVIOUS
  <2> QED
    BY <2>1
<1>2. b = Min(S)
  BY DEF Boundary
<1>3. b \in S /\ \A x \in S : b <= x
  BY <1>1, <1>2, LeastOfNumbers
<1> HIDE DEF b
<1>4. b \in Nat /\ h < b /\ b <= gap[2] /\ b \in hints \cup {gap[2]}
  BY <1>1, <1>3
<1>5. ASSUME NEW x \in hints, h < x PROVE b <= x
  <2>1. CASE x < gap[2]
    BY <1>3, <1>5, <2>1
  <2>2. CASE ~(x < gap[2])
    BY <1>4, <2>2
  <2> QED
    BY <2>1, <2>2
<1> QED
  BY <1>4, <1>5 DEF b

\* A segment starts at a destination and runs to the next one or to the end of its gap.
LEMMA SegmentFacts ==
  ASSUME NEW text, IsText(text), NEW A, ProperIn(A, text), NEW hints \in SUBSET Int,
         NEW s \in HintedSegments(Gaps(A, text), hints)
  PROVE  /\ s \in Nat \X Nat /\ s[2] > 0
         /\ \E gap \in Gaps(A, text) :
              /\ Within(SegmentSpan(s), gap)
              /\ s[1] + s[2] \in hints \cup {gap[2]}
              /\ s[2] = Boundary(s[1], gap, hints) - s[1]
         /\ s[1] \in hints
         /\ \A x \in hints : s[1] < x => s[1] + s[2] <= x
<1> DEFINE Hints(gap) == {x \in hints : gap[1] <= x /\ x < gap[2]}
           Segment(h, gap) == <<h, Boundary(h, gap, hints) - h>>
<1>1. PICK gap \in Gaps(A, text) : s \in {Segment(h, gap) : h \in Hints(gap)}
  BY DEF HintedSegments
<1>2. PICK h \in Hints(gap) : s = Segment(h, gap)
  BY <1>1
<1>3. gap[1] \in Nat /\ gap[2] \in Nat
  BY GapFacts
<1> DEFINE b == Boundary(h, gap, hints)
<1>4. h \in Nat /\ h \in hints /\ gap[1] <= h /\ h < gap[2]
  BY <1>3
<1>5. /\ b \in Nat /\ h < b /\ b <= gap[2] /\ b \in hints \cup {gap[2]}
      /\ \A x \in hints : h < x => b <= x
  BY <1>3, <1>4, BoundaryFacts
<1>6. s = <<h, b - h>>
  BY <1>2
<1> HIDE DEF b
<1>7. s[1] = h /\ s[2] = b - h /\ s[1] + s[2] = b /\ s[2] \in Nat /\ s[2] > 0
  BY <1>4, <1>5, <1>6
<1>8. s \in Nat \X Nat
  BY <1>4, <1>6, <1>7
<1>9. Within(SegmentSpan(s), gap)
  BY <1>3, <1>4, <1>5, <1>7 DEF Within, SegmentSpan
<1>10. s[2] = Boundary(s[1], gap, hints) - s[1]
  BY <1>7 DEF b
<1> QED
  BY <1>4, <1>5, <1>7, <1>8, <1>9, <1>10

\* Two segments lie one behind the other.
LEMMA SegmentsOfGapsApart ==
  ASSUME NEW text, IsText(text), NEW A, ProperIn(A, text), NEW hints \in SUBSET Int,
         NEW s \in HintedSegments(Gaps(A, text), hints),
         NEW t \in HintedSegments(Gaps(A, text), hints), s # t
  PROVE  s[1] + s[2] <= t[1] \/ t[1] + t[2] <= s[1]
<1>1. /\ s \in Nat \X Nat /\ s[1] \in hints /\ \A x \in hints : s[1] < x => s[1] + s[2] <= x
      /\ t \in Nat \X Nat /\ t[1] \in hints /\ \A x \in hints : t[1] < x => t[1] + t[2] <= x
      /\ s[2] > 0 /\ t[2] > 0
  BY SegmentFacts
<1>2. CASE s[1] < t[1]
  BY <1>1, <1>2
<1>3. CASE t[1] < s[1]
  BY <1>1, <1>3
<1>4. CASE s[1] = t[1]
  <2>1. PICK g \in Gaps(A, text) : /\ Within(SegmentSpan(s), g)
                                   /\ s[2] = Boundary(s[1], g, hints) - s[1]
    BY SegmentFacts
  <2>2. PICK h \in Gaps(A, text) : /\ Within(SegmentSpan(t), h)
                                   /\ t[2] = Boundary(t[1], h, hints) - t[1]
    BY SegmentFacts
  <2>3. g[1] \in Nat /\ g[2] \in Nat /\ h[1] \in Nat /\ h[2] \in Nat
    BY GapFacts
  <2>4. ~(g[2] <= h[1]) /\ ~(h[2] <= g[1])
    BY <1>1, <1>4, <2>1, <2>2, <2>3 DEF Within, SegmentSpan
  <2>5. g = h
    BY <2>4, GapsApart
  <2>6. s[2] = t[2]
    BY <1>4, <2>1, <2>2, <2>5
  <2> QED
    BY <1>1, <1>4, <2>6
<1> QED
  BY <1>1, <1>2, <1>3, <1>4

\* There are only so many segments for the loop to go through.
LEMMA SegmentsAreFinite ==
  ASSUME NEW text, IsText(text), NEW A, ProperIn(A, text), NEW hints \in SUBSET Int
  PROVE  IsFiniteSet(HintedSegments(Gaps(A, text), hints))
<1> DEFINE D == 0..text[2]
           T == HintedSegments(Gaps(A, text), hints)
<1>1. IsFiniteSet(D)
  BY FS_Interval DEF IsText
<1>2. IsFiniteSet(D \X D)
  BY <1>1, FS_Product
<1>3. ASSUME NEW s \in T PROVE s \in D \X D
  <2>1. s \in Nat \X Nat
    BY SegmentFacts
  <2>2. PICK gap \in Gaps(A, text) : Within(SegmentSpan(s), gap)
    BY SegmentFacts
  <2>3. Within(gap, text) /\ Proper(gap)
    BY GapFacts
  <2>4. s[1] \in D /\ s[2] \in D
    BY <2>1, <2>2, <2>3 DEF Within, Proper, SegmentSpan, IsText
  <2> QED
    BY <2>1, <2>4
<1>4. T \subseteq D \X D
  BY <1>3
<1> QED
  BY <1>2, <1>4, FS_Subset

-----------------------------------------------------------------------------
(* Bookkeeping: m says which of the functions a placed one is, l which of    *)
(* them one that is left is; together they name each function once.          *)

Matching(functions, left, placed, m, l) ==
  /\ m \in [placed -> DOMAIN functions] /\ l \in [DOMAIN left -> DOMAIN functions]
  /\ \A g \in placed : functions[m[g]].name = g.name /\ functions[m[g]].size = g.size
  /\ \A j \in DOMAIN left : functions[l[j]] = left[j]
  /\ \A g, h \in placed : m[g] = m[h] => g = h
  /\ \A i, j \in DOMAIN left : l[i] = l[j] => i = j
  /\ \A g \in placed : \A j \in DOMAIN left : m[g] # l[j]
  /\ \A k \in DOMAIN functions :
       (\E g \in placed : m[g] = k) \/ (\E j \in DOMAIN left : l[j] = k)

Matched(functions, left, placed) == \E m, l : Matching(functions, left, placed, m, l)

\* At first every function is left and none is placed.
LEMMA NothingPlacedIsMatched ==
  ASSUME NEW functions
  PROVE  Matched(functions, functions, {})
<1> DEFINE m == [g \in {} |-> g]  l == [j \in DOMAIN functions |-> j]
<1>1. Matching(functions, functions, {}, m, l)
  BY DEF Matching
<1> QED
  BY <1>1 DEF Matched

\* Some of those that are left are placed.
Moves(left, rest, more, e, r) ==
  /\ e \in [DOMAIN rest -> DOMAIN left] /\ r \in [more -> DOMAIN left]
  /\ \A j \in DOMAIN rest : rest[j] = left[e[j]]
  /\ \A g \in more : g.name = left[r[g]].name /\ g.size = left[r[g]].size
  /\ \A i, j \in DOMAIN rest : e[i] = e[j] => i = j
  /\ \A g, h \in more : r[g] = r[h] => g = h
  /\ \A j \in DOMAIN rest : \A g \in more : e[j] # r[g]
  /\ \A k \in DOMAIN left : (\E j \in DOMAIN rest : e[j] = k) \/ (\E g \in more : r[g] = k)

\* Taking functions from those left and placing them keeps the two lists in step.
LEMMA MatchedMoves ==
  ASSUME NEW functions, NEW left, NEW placed, Matched(functions, left, placed),
         NEW rest, NEW more, \A g \in more : g \notin placed,
         NEW e, NEW r, Moves(left, rest, more, e, r)
  PROVE  Matched(functions, rest, placed \cup more)
<1>1. PICK m, l : Matching(functions, left, placed, m, l)
  BY DEF Matched
<1> DEFINE all == placed \cup more
           mm == [g \in all |-> IF g \in placed THEN m[g] ELSE l[r[g]]]
           ll == [j \in DOMAIN rest |-> l[e[j]]]
<1>2. mm \in [all -> DOMAIN functions] /\ ll \in [DOMAIN rest -> DOMAIN functions]
  BY <1>1 DEF Matching, Moves
<1>3. /\ \A g \in placed : mm[g] = m[g]
      /\ \A g \in more : mm[g] = l[r[g]]
      /\ \A j \in DOMAIN rest : ll[j] = l[e[j]]
  OBVIOUS
<1> HIDE DEF mm, ll
<1>4. \A g \in all : functions[mm[g]].name = g.name /\ functions[mm[g]].size = g.size
  <2>1. \A g \in placed : functions[mm[g]].name = g.name /\ functions[mm[g]].size = g.size
    BY <1>1, <1>3 DEF Matching
  <2>2. ASSUME NEW g \in more PROVE functions[mm[g]].name = g.name /\ functions[mm[g]].size = g.size
    <3>1. r[g] \in DOMAIN left /\ g.name = left[r[g]].name /\ g.size = left[r[g]].size
      BY DEF Moves
    <3>2. functions[l[r[g]]] = left[r[g]]
      BY <1>1, <3>1 DEF Matching
    <3> QED
      BY <1>3, <3>1, <3>2
  <2> QED
    BY <2>1, <2>2
<1>5. \A j \in DOMAIN rest : functions[ll[j]] = rest[j]
  BY <1>1, <1>3 DEF Matching, Moves
<1>6. \A g, h \in all : mm[g] = mm[h] => g = h
  <2>1. \A g, h \in placed : mm[g] = mm[h] => g = h
    BY <1>1, <1>3 DEF Matching
  <2>2. \A g, h \in more : mm[g] = mm[h] => g = h
    BY <1>1, <1>3 DEF Matching, Moves
  <2>3. \A g \in placed : \A h \in more : mm[g] # mm[h]
    BY <1>1, <1>3 DEF Matching, Moves
  <2> QED
    BY <2>1, <2>2, <2>3
<1>7. \A i, j \in DOMAIN rest : ll[i] = ll[j] => i = j
  BY <1>1, <1>3 DEF Matching, Moves
<1>8. \A g \in all : \A j \in DOMAIN rest : mm[g] # ll[j]
  <2>1. \A g \in placed : \A j \in DOMAIN rest : mm[g] # ll[j]
    BY <1>1, <1>3 DEF Matching, Moves
  <2>2. \A g \in more : \A j \in DOMAIN rest : mm[g] # ll[j]
    BY <1>1, <1>3 DEF Matching, Moves
  <2> QED
    BY <2>1, <2>2
<1>9. ASSUME NEW k \in DOMAIN functions
      PROVE  (\E g \in all : mm[g] = k) \/ (\E j \in DOMAIN rest : ll[j] = k)
  <2>1. CASE \E g \in placed : m[g] = k
    BY <1>3, <2>1
  <2>2. CASE \E i \in DOMAIN left : l[i] = k
    <3>1. PICK i \in DOMAIN left : l[i] = k
      BY <2>2
    <3>2. (\E j \in DOMAIN rest : e[j] = i) \/ (\E g \in more : r[g] = i)
      BY DEF Moves
    <3> QED
      BY <1>3, <3>1, <3>2
  <2> QED
    BY <1>1, <2>1, <2>2 DEF Matching
<1>10. Matching(functions, rest, all, mm, ll)
  BY <1>2, <1>4, <1>5, <1>6, <1>7, <1>8, <1>9 DEF Matching
<1> QED
  BY <1>10 DEF Matched

\* RemoveAt drops one position and keeps the order of the others.
LEMMA RemoveAtFacts ==
  ASSUME NEW F, NEW s \in Seq(F), NEW k \in 1..Len(s)
  PROVE  /\ RemoveAt(s, k) \in Seq(F) /\ Len(RemoveAt(s, k)) = Len(s) - 1
         /\ DOMAIN RemoveAt(s, k) = 1..(Len(s) - 1)
         /\ \A j \in 1..(Len(s) - 1) : RemoveAt(s, k)[j] = IF j < k THEN s[j] ELSE s[j + 1]
<1> DEFINE a == SubSeq(s, 1, k - 1)  b == SubSeq(s, k + 1, Len(s))
<1>1. Len(s) \in Nat /\ k \in Nat /\ k >= 1 /\ k <= Len(s) /\ \A j \in 1..Len(s) : s[j] \in F
  OBVIOUS
<1>2. a \in Seq(F) /\ Len(a) = k - 1 /\ \A j \in 1..(k - 1) : a[j] = s[j]
  BY <1>1, SubSeqProperties
<1>3. b \in Seq(F) /\ Len(b) = Len(s) - k /\ \A j \in 1..(Len(s) - k) : b[j] = s[j + k]
  BY <1>1, SubSeqProperties
<1>4. RemoveAt(s, k) = a \o b
  BY DEF RemoveAt
<1> HIDE DEF a, b
<1>5. a \o b \in Seq(F) /\ Len(a \o b) = Len(s) - 1
  <2>1. a \o b \in Seq(F) /\ Len(a \o b) = Len(a) + Len(b)
    BY <1>2, <1>3, ConcatProperties, Zenon
  <2> QED
    BY <1>1, <1>2, <1>3, <2>1
<1>6. ASSUME NEW j \in 1..(Len(s) - 1)
      PROVE  (a \o b)[j] = IF j < k THEN s[j] ELSE s[j + 1]
  <2>1. (a \o b)[j] = IF j <= Len(a) THEN a[j] ELSE b[j - Len(a)]
    BY <1>1, <1>2, <1>3, ConcatProperties
  <2>2. CASE j < k
    BY <1>1, <1>2, <2>1, <2>2
  <2>3. CASE ~(j < k)
    <3>1. j - Len(a) \in 1..(Len(s) - k) /\ j - Len(a) + k = j + 1
      BY <1>1, <1>2, <2>3
    <3>2. b[j - Len(a)] = s[j + 1]
      BY <1>3, <3>1
    <3> QED
      BY <1>1, <1>2, <2>1, <2>3, <3>2
  <2> QED
    BY <2>2, <2>3
<1> QED
  BY <1>4, <1>5, <1>6

-----------------------------------------------------------------------------
(* The destinations, one after the other. *)

HasSizes(F) == \A f \in F : f.size \in Nat /\ f.size > 0
Placement(F) == [name : {f.name : f \in F}, address : Nat, size : Nat]
SettleStates(F) == [left : Seq(F), placed : SUBSET Placement(F), claimed : SUBSET (Nat \X Nat)]

\* What SettleHint does with a segment: nothing, or it places function k of
\* those that are left.
Settles(state, segment, new, k) ==
  LET f == state.left[k] IN
  /\ k \in DOMAIN state.left /\ f.size <= segment[2] /\ segment[2] - f.size <= MaxPadding
  /\ new.left = RemoveAt(state.left, k)
  /\ new.placed = state.placed \cup {[name |-> f.name, address |-> segment[1], size |-> f.size]}
  /\ new.claimed = state.claimed \cup {SegmentSpan(segment)}

\* A suitable function fits the span with no more than the padding allowed.
LEMMA SuitableFacts ==
  ASSUME NEW F, HasSizes(F), NEW left \in Seq(F), NEW span \in Nat, NEW k \in Suitable(left, span)
  PROVE  k \in DOMAIN left /\ left[k].size <= span /\ span - left[k].size <= MaxPadding
<1>1. \A j \in DOMAIN left : left[j].size \in Nat
  BY DEF HasSizes
<1>2. CASE k \in {j \in DOMAIN left : left[j].size = span}
  BY <1>1, <1>2 DEF MaxPadding
<1>3. CASE k \in {j \in DOMAIN left : left[j].size < span /\ span - left[j].size <= MaxPadding}
  BY <1>1, <1>3
<1> QED
  BY <1>2, <1>3 DEF Suitable

\* One destination: nothing changes, or one function is settled there.
LEMMA SettleFacts ==
  ASSUME NEW F, HasSizes(F), NEW state \in SettleStates(F), NEW segment \in Nat \X Nat
  PROVE  LET new == SettleHint(state, segment) IN
         new = state \/ \E k : Settles(state, segment, new, k)
<1> DEFINE new == SettleHint(state, segment)
           fitting == Suitable(state.left, segment[2])
           k == CHOOSE k \in fitting : TRUE
<1>1. CASE Cardinality(fitting) # 1
  BY <1>1 DEF SettleHint
<1>2. CASE Cardinality(fitting) = 1
  <2>1. new = [left    |-> RemoveAt(state.left, k),
               placed  |-> state.placed \cup
                             {[name |-> state.left[k].name, address |-> segment[1],
                               size |-> state.left[k].size]},
               claimed |-> state.claimed \cup {<<segment[1], segment[1] + segment[2]>>}]
    BY <1>2 DEF SettleHint
  <2>2. k \in fitting
    <3> HIDE DEF fitting
    <3>1. fitting # {}
      BY <1>2, FS_EmptySet
    <3> QED
      BY <3>1
  <2>3. state.left \in Seq(F) /\ segment[2] \in Nat
    BY DEF SettleStates
  <2> HIDE DEF k, new
  <2>4. k \in DOMAIN state.left /\ state.left[k].size <= segment[2]
        /\ segment[2] - state.left[k].size <= MaxPadding
    BY <2>2, <2>3, SuitableFacts
  <2>5. Settles(state, segment, new, k)
    BY <2>1, <2>4 DEF Settles, SegmentSpan
  <2> QED
    BY <2>5 DEF new
<1> QED
  BY <1>1, <1>2

\* One destination leads from a state of the loop to a state of the loop.
LEMMA SettlesTyped ==
  ASSUME NEW F, HasSizes(F), NEW state \in SettleStates(F), NEW segment \in Nat \X Nat
  PROVE  SettleHint(state, segment) \in SettleStates(F)
<1> DEFINE new == SettleHint(state, segment)
<1>1. ASSUME NEW k, Settles(state, segment, new, k)
      PROVE  new \in SettleStates(F)
  <2>1. /\ state.left \in Seq(F) /\ state.placed \in SUBSET Placement(F)
        /\ state.claimed \in SUBSET (Nat \X Nat)
    BY DEF SettleStates
  <2>2. k \in 1..Len(state.left) /\ state.left[k] \in F
    BY <1>1, <2>1 DEF Settles
  <2>3. RemoveAt(state.left, k) \in Seq(F)
    BY <2>1, <2>2, RemoveAtFacts
  <2>4. [name |-> state.left[k].name, address |-> segment[1], size |-> state.left[k].size] \in Placement(F)
    BY <2>2 DEF Placement, HasSizes
  <2>5. SegmentSpan(segment) \in Nat \X Nat
    BY DEF SegmentSpan
  <2>6. new = [left |-> new.left, placed |-> new.placed, claimed |-> new.claimed]
    BY DEF SettleHint, SettleStates
  <2> QED
    BY <1>1, <2>1, <2>3, <2>4, <2>5, <2>6 DEF Settles, SettleStates
<1> QED
  BY <1>1, SettleFacts

\* The states of the loop over the destinations T, after each set of them.
SettleLoop(h, T, base) ==
  \A S \in SUBSET T :
    h[S] = IF S = {} THEN base ELSE SettleHint(h[S \ {Latest(S)}], Latest(S))

\* The loop over the destinations takes them in ascending order, each one once.
LEMMA SettleLoopRuns ==
  ASSUME NEW F, HasSizes(F), NEW base \in SettleStates(F),
         NEW T \in SUBSET (Nat \X Nat), IsFiniteSet(T),
         NEW bound \in Nat, \A s \in T : s[1] <= bound
  PROVE  /\ \A S \in SUBSET T : S # {} => Latest(S) \in S
         /\ \E h : SettleLoop(h, T, base) /\ InOrder(SettleHint, base, T) = h[T]
<1> DEFINE V == SettleStates(F)
           iter == CHOOSE iter : iter = [S \in SUBSET T |->
                     IF S = {} THEN base ELSE SettleHint(iter[S \ {Latest(S)}], Latest(S))]
           pick == [S \in SUBSET T |-> Latest(S)]
           step == [x \in T \X V |-> SettleHint(x[2], x[1])]
<1>1. InOrder(SettleHint, base, T) = iter[T]
  BY Zenon DEF InOrder, MapThenFoldSet
<1>2. \A S \in SUBSET T : S # {} => Latest(S) \in S
  <2> SUFFICES ASSUME NEW S \in SUBSET T, S # {} PROVE Latest(S) \in S
    OBVIOUS
  <2>1. \A x \in S : x[1] \in Nat /\ x[1] <= bound
    OBVIOUS
  <2> QED
    BY <2>1, LatestOfSet
<1>3. step \in [T \X V -> V]
  <2>1. \A x \in T \X V : SettleHint(x[2], x[1]) \in V
    <3> SUFFICES ASSUME NEW x \in T \X V PROVE SettleHint(x[2], x[1]) \in V
      OBVIOUS
    <3>1. x[1] \in Nat \X Nat /\ x[2] \in V
      OBVIOUS
    <3> QED
      BY <3>1, SettlesTyped
  <2> QED
    BY <2>1, Zenon
<1>4. Picks(pick, T)
  BY <1>2 DEF Picks
<1>5. PICK h \in [SUBSET T -> V] : Recurses(h, T, base, pick, step)
  <2> HIDE DEF pick, step
  <2> QED
    BY <1>3, <1>4, RecursionExists
<1>6. ASSUME NEW S \in SUBSET T
      PROVE  h[S] = IF S = {} THEN base ELSE SettleHint(h[S \ {Latest(S)}], Latest(S))
  <2>1. CASE S = {}
    BY <1>5, <2>1 DEF Recurses
  <2>2. CASE S # {}
    <3>1. Latest(S) \in T /\ S \ {Latest(S)} \in SUBSET T
      BY <1>2, <2>2
    <3>2. h[S] = step[<<Latest(S), h[S \ {Latest(S)}]>>]
      BY <1>5, <2>2 DEF Recurses
    <3>3. <<Latest(S), h[S \ {Latest(S)}]>> \in T \X V
      BY <1>5, <3>1
    <3> QED
      BY <2>2, <3>2, <3>3
  <2> QED
    BY <2>1, <2>2
<1>7. h = [S \in SUBSET T |-> IF S = {} THEN base ELSE SettleHint(h[S \ {Latest(S)}], Latest(S))]
  BY <1>6
<1>8. iter = [S \in SUBSET T |-> IF S = {} THEN base ELSE SettleHint(iter[S \ {Latest(S)}], Latest(S))]
  BY <1>7, Zenon
<1> HIDE DEF iter
<1>9. SettleLoop(iter, T, base)
  <2>1. \A S \in SUBSET T :
          iter[S] = IF S = {} THEN base ELSE SettleHint(iter[S \ {Latest(S)}], Latest(S))
    BY <1>8, Zenon
  <2> QED
    BY <2>1, Zenon DEF SettleLoop
<1> QED
  BY <1>1, <1>2, <1>9

\* What the loop over the destinations has done after those of P.
Settled(functions, F, state, P) ==
  /\ state \in SettleStates(F) /\ Matched(functions, state.left, state.placed)
  /\ \A g \in state.placed : \E s \in P :
       /\ g.address = s[1] /\ g.size > 0 /\ g.size <= s[2] /\ s[2] - g.size <= MaxPadding
       /\ SegmentSpan(s) \in state.claimed
  /\ \A c \in state.claimed : \E s \in P : c = SegmentSpan(s)
  /\ \A g, h \in state.placed : g.address = h.address => g = h

\* A function leaves the list.
LEMMA OneMoves ==
  ASSUME NEW F, NEW left \in Seq(F), NEW k \in DOMAIN left, NEW g,
         g.name = left[k].name, g.size = left[k].size
  PROVE  \E e, r : Moves(left, RemoveAt(left, k), {g}, e, r)
<1> DEFINE n == Len(left)
           rest == RemoveAt(left, k)
           e == [j \in 1..(n - 1) |-> IF j < k THEN j ELSE j + 1]
           r == [x \in {g} |-> k]
<1>1. n \in Nat /\ k \in 1..n /\ DOMAIN left = 1..n
  OBVIOUS
<1>2. DOMAIN rest = 1..(n - 1) /\ \A j \in 1..(n - 1) : rest[j] = IF j < k THEN left[j] ELSE left[j + 1]
  BY <1>1, RemoveAtFacts
<1> HIDE DEF rest, n
<1>3. e \in [1..(n - 1) -> 1..n]
  BY <1>1
<1>4. \A j \in 1..(n - 1) : rest[j] = left[e[j]]
  BY <1>1, <1>2
<1>5. \A i, j \in 1..(n - 1) : e[i] = e[j] => i = j
  BY <1>1
<1>6. \A j \in 1..(n - 1) : e[j] # k
  BY <1>1
<1>7. ASSUME NEW m \in 1..n PROVE m = k \/ \E j \in 1..(n - 1) : e[j] = m
  <2>1. CASE m < k
    <3>1. m \in 1..(n - 1) /\ e[m] = m
      BY <1>1, <2>1
    <3> QED
      BY <3>1
  <2>2. CASE m > k
    <3>1. m - 1 \in 1..(n - 1) /\ e[m - 1] = m
      BY <1>1, <2>2
    <3> QED
      BY <3>1
  <2> QED
    BY <1>1, <2>1, <2>2
<1> HIDE DEF e
<1>8. r \in [{g} -> 1..n] /\ r[g] = k
  BY <1>1
<1> HIDE DEF r
<1>9. Moves(left, rest, {g}, e, r)
  <2>1. DOMAIN left = 1..n /\ DOMAIN rest = 1..(n - 1)
    BY <1>1, <1>2
  <2> QED
    BY <1>3, <1>4, <1>5, <1>6, <1>7, <1>8, <2>1 DEF Moves
<1> QED
  BY <1>9 DEF rest

\* A segment is settled.
LEMMA SettleStep ==
  ASSUME NEW functions, NEW F, HasSizes(F), NEW state, NEW P \in SUBSET (Nat \X Nat),
         Settled(functions, F, state, P), NEW s \in Nat \X Nat, \A t \in P : t[1] # s[1]
  PROVE  Settled(functions, F, SettleHint(state, s), P \cup {s})
<1> DEFINE new == SettleHint(state, s)  Q == P \cup {s}
<1>1. state \in SettleStates(F)
  BY DEF Settled
<1>2. new \in SettleStates(F)
  BY <1>1, SettlesTyped
<1>3. CASE new = state
  BY <1>3 DEF Settled
<1>4. ASSUME NEW k, Settles(state, s, new, k) PROVE Settled(functions, F, new, Q)
  <2> HIDE DEF new
  <2> DEFINE f == state.left[k]
             g == [name |-> f.name, address |-> s[1], size |-> f.size]
  <2>1. /\ k \in DOMAIN state.left /\ f.size <= s[2] /\ s[2] - f.size <= MaxPadding
        /\ new.left = RemoveAt(state.left, k) /\ new.placed = state.placed \cup {g}
        /\ new.claimed = state.claimed \cup {SegmentSpan(s)}
    BY <1>4 DEF Settles
  <2>2. state.left \in Seq(F) /\ f \in F /\ f.size \in Nat /\ f.size > 0
    BY <1>1, <2>1 DEF SettleStates, HasSizes
  <2>3. g.name = f.name /\ g.size = f.size /\ g.address = s[1]
    OBVIOUS
  <2> HIDE DEF g
  <2>4. \A h \in state.placed : h.address # s[1]
    BY DEF Settled
  <2>5. g \notin state.placed
    BY <2>3, <2>4
  <2>6. Matched(functions, new.left, new.placed)
    <3>1. PICK e, r : Moves(state.left, RemoveAt(state.left, k), {g}, e, r)
      BY <2>1, <2>2, <2>3, OneMoves
    <3>2. Matched(functions, state.left, state.placed)
      BY DEF Settled
    <3> QED
      BY <2>1, <2>5, <3>1, <3>2, MatchedMoves
  <2>7. \A h \in new.placed : \E t \in Q :
          /\ h.address = t[1] /\ h.size > 0 /\ h.size <= t[2] /\ t[2] - h.size <= MaxPadding
          /\ SegmentSpan(t) \in new.claimed
    <3>1. ASSUME NEW h \in state.placed
          PROVE  \E t \in Q :
                   /\ h.address = t[1] /\ h.size > 0 /\ h.size <= t[2] /\ t[2] - h.size <= MaxPadding
                   /\ SegmentSpan(t) \in new.claimed
      BY <2>1 DEF Settled
    <3>2. /\ g.address = s[1] /\ g.size > 0 /\ g.size <= s[2] /\ s[2] - g.size <= MaxPadding
          /\ SegmentSpan(s) \in new.claimed
      BY <2>1, <2>2, <2>3
    <3> QED
      BY <2>1, <3>1, <3>2
  <2>8. \A c \in new.claimed : \E t \in Q : c = SegmentSpan(t)
    BY <2>1 DEF Settled
  <2>9. \A x, y \in new.placed : x.address = y.address => x = y
    BY <2>1, <2>3, <2>4 DEF Settled
  <2> QED
    BY <1>2, <2>6, <2>7, <2>8, <2>9 DEF Settled, new
<1> QED
  BY <1>1, <1>3, <1>4, SettleFacts

\* All of them.
LEMMA SettleLoopSettles ==
  ASSUME NEW F, HasSizes(F), NEW functions \in Seq(F),
         NEW T \in SUBSET (Nat \X Nat), IsFiniteSet(T),
         NEW bound \in Nat, \A s \in T : s[1] <= bound,
         \A s, t \in T : s # t => s[1] # t[1]
  PROVE  Settled(functions, F,
                 InOrder(SettleHint, [left |-> functions, placed |-> {}, claimed |-> {}], T), T)
<1> DEFINE base == [left |-> functions, placed |-> {}, claimed |-> {}]
<1>1. base \in SettleStates(F)
  BY DEF SettleStates
<1>2. Settled(functions, F, base, {})
  <2>1. Matched(functions, base.left, base.placed)
    BY NothingPlacedIsMatched
  <2> QED
    BY <1>1, <2>1 DEF Settled
<1> HIDE DEF base
<1>3. \A S \in SUBSET T : S # {} => Latest(S) \in S
  BY <1>1, SettleLoopRuns
<1>4. PICK h : SettleLoop(h, T, base) /\ InOrder(SettleHint, base, T) = h[T]
  BY <1>1, SettleLoopRuns
<1> DEFINE Good == {S \in SUBSET T : Settled(functions, F, h[S], S)}
<1>5. {} \in Good
  BY <1>2, <1>4 DEF SettleLoop
<1>6. ASSUME NEW S \in SUBSET T, S # {}, \A x \in S : S \ {x} \in Good
      PROVE  S \in Good
  <2> DEFINE s == Latest(S)  P == S \ {s}
  <2>1. s \in S /\ s \in Nat \X Nat /\ P \in SUBSET (Nat \X Nat) /\ P \cup {s} = S
    BY <1>3, <1>6
  <2>2. \A t \in P : t[1] # s[1]
    BY <2>1
  <2>3. Settled(functions, F, h[P], P)
    BY <1>6, <2>1
  <2>4. h[S] = SettleHint(h[P], s)
    BY <1>4, <1>6 DEF SettleLoop
  <2> HIDE DEF s, P
  <2>5. Settled(functions, F, SettleHint(h[P], s), P \cup {s})
    BY <2>1, <2>2, <2>3, SettleStep
  <2> QED
    BY <2>1, <2>4, <2>5
<1>7. Good \in SUBSET (SUBSET T)
  OBVIOUS
<1>8. \A S \in SUBSET T : S \in Good
  <2> HIDE DEF Good
  <2> QED
    BY <1>5, <1>6, <1>7, SubsetInduction
<1> QED
  BY <1>4, <1>8 DEF base

-----------------------------------------------------------------------------
(* One gap is packed. *)

PackStates(F) == [left : Seq(F), placed : SUBSET Placement(F), loose : BOOLEAN]
IsGap(gap)    == gap \in Nat \X Nat /\ gap[1] < gap[2]

\* The first n functions, one behind the other.
PlacedAt(left, gap, k)     == [name |-> left[k].name, size |-> left[k].size,
                         address |-> gap[1] + Offsets(left)[k - 1]]
Packed(left, gap, n) == {PlacedAt(left, gap, k) : k \in 1..n}

\* Offsets as PackGap reads them: from 0 on, never falling.
LEMMA OffsetsRise ==
  ASSUME NEW F, HasSizes(F), NEW left \in Seq(F)
  PROVE  /\ Offsets(left) \in [0..Len(left) -> Nat] /\ Offsets(left)[0] = 0
         /\ \A k \in 1..Len(left) : Offsets(left)[k] = Offsets(left)[k - 1] + left[k].size
         /\ \A j, k \in 0..Len(left) : j <= k => Offsets(left)[j] <= Offsets(left)[k]
<1> DEFINE U == Offsets(left)
<1>1. \A f \in F : f.size \in Nat
  BY DEF HasSizes
<1>2. /\ U \in [0..Len(left) -> Nat] /\ U[0] = 0
      /\ \A k \in 1..Len(left) : U[k] = U[k - 1] + left[k].size
  BY <1>1, OffsetFacts
<1> HIDE DEF U
<1>3. Len(left) \in Nat /\ \A k \in 1..Len(left) : left[k].size \in Nat
  BY <1>1
<1>4. \A k \in 1..Len(left) : U[k - 1] <= U[k]
  BY <1>2, <1>3
<1>5. \A j, k \in 0..Len(left) : j <= k => U[j] <= U[k]
  BY <1>2, <1>3, <1>4, Monotone
<1> QED
  BY <1>2, <1>5 DEF U

\* As many functions as Fitting says do fit the room.
LEMMA FittingFacts ==
  ASSUME NEW F, HasSizes(F), NEW left \in Seq(F), NEW room \in Nat
  PROVE  Fitting(left, room) \in 0..Len(left) /\ Offsets(left)[Fitting(left, room)] <= room
<1> DEFINE S == {k \in 0..Len(left) : Total(SubSeq(left, 1, k)) <= room}
<1>1. /\ Offsets(left)[0] = 0
      /\ \A k \in 0..Len(left) : Offsets(left)[k] = Total(SubSeq(left, 1, k))
  BY OffsetsRise DEF Offsets
<1>2. Len(left) \in Nat
  OBVIOUS
<1>3. S \in SUBSET Nat /\ \A k \in S : k <= Len(left)
  BY <1>2
<1>4. S # {}
  BY <1>1, <1>2
<1>5. Max(S) \in S
  <2> HIDE DEF S
  <2> QED
    BY <1>2, <1>3, <1>4, GreatestOfNumbers
<1>6. Fitting(left, room) = Max(S)
  BY DEF Fitting
<1> QED
  BY <1>1, <1>5, <1>6

Packs(state, gap, new, n) ==
  /\ n \in 0..Len(state.left) /\ Offsets(state.left)[n] <= gap[2] - gap[1]
  /\ new.left = SubSeq(state.left, n + 1, Len(state.left))
  /\ new.placed = state.placed \cup Packed(state.left, gap, n)
  /\ new.loose = (state.loose \/ TooLoose(Offsets(state.left)[n], gap[2] - gap[1]))

\* One gap is packed with a prefix of what is left, or is found loose.
LEMMA PackFacts ==
  ASSUME NEW F, HasSizes(F), NEW state \in PackStates(F), NEW gap, IsGap(gap)
  PROVE  /\ \E n : Packs(state, gap, PackGap(state, gap), n)
         /\ PackGap(state, gap) \in PackStates(F)
<1> DEFINE left == state.left
           room == gap[2] - gap[1]
           n    == Fitting(left, room)
           new  == PackGap(state, gap)
           U    == Offsets(left)
<1>1. left \in Seq(F) /\ state.placed \in SUBSET Placement(F) /\ state.loose \in BOOLEAN
  BY DEF PackStates
<1>2. room \in Nat /\ gap[1] \in Nat /\ gap[2] \in Nat
  BY DEF IsGap
<1>3. n \in 0..Len(left) /\ U[n] <= room
  BY <1>1, <1>2, FittingFacts
<1>4. new = [left   |-> SubSeq(left, n + 1, Len(left)),
             placed |-> state.placed \cup
                          {[name |-> left[k].name, size |-> left[k].size,
                            address |-> gap[1] + Total(SubSeq(left, 1, k - 1))] : k \in 1..n},
             loose  |-> state.loose \/ TooLoose(Total(SubSeq(left, 1, n)), room)]
  BY Zenon DEF PackGap
<1> HIDE DEF n, new
<1>5. Len(left) \in Nat /\ \A k \in 1..n : k - 1 \in 0..Len(left) /\ k \in 1..Len(left)
  BY <1>1, <1>3
<1>6. U[n] = Total(SubSeq(left, 1, n)) /\ \A k \in 1..n : U[k - 1] = Total(SubSeq(left, 1, k - 1))
  BY <1>3, <1>5 DEF Offsets
<1>7. {[name |-> left[k].name, size |-> left[k].size,
        address |-> gap[1] + Total(SubSeq(left, 1, k - 1))] : k \in 1..n} = Packed(left, gap, n)
  BY <1>6 DEF Packed, PlacedAt
<1>8. new.left = SubSeq(left, n + 1, Len(left))
  BY <1>4
<1>9. new.placed = state.placed \cup Packed(left, gap, n)
  BY <1>4, <1>7
<1>10. new.loose = (state.loose \/ TooLoose(U[n], room))
  BY <1>4, <1>6
<1>11. Packs(state, gap, new, n)
  BY <1>3, <1>8, <1>9, <1>10 DEF Packs
<1>12. new.left \in Seq(F)
  <2>1. n + 1 \in Nat /\ \A k \in (n + 1)..Len(left) : left[k] \in F
    BY <1>1, <1>3, <1>5
  <2> QED
    BY <1>1, <1>3, <1>5, <1>8, <2>1, SubSeqProperties
<1>13. Packed(left, gap, n) \subseteq Placement(F)
  <2> SUFFICES ASSUME NEW k \in 1..n PROVE PlacedAt(left, gap, k) \in Placement(F)
    BY DEF Packed
  <2>1. left[k] \in F /\ U[k - 1] \in Nat
    BY <1>1, <1>5, OffsetsRise
  <2> QED
    BY <1>2, <2>1 DEF PlacedAt, Placement, HasSizes
<1>14. new.loose \in BOOLEAN
  BY <1>1, <1>10, Zenon DEF TooLoose
<1>15. new = [left |-> new.left, placed |-> new.placed, loose |-> new.loose]
  BY <1>4
<1>16. new \in PackStates(F)
  BY <1>1, <1>9, <1>12, <1>13, <1>14, <1>15 DEF PackStates
<1> QED
  BY <1>11, <1>16 DEF new

\* They stay in the gap, follow each other without a hole and leave what the
\* last of them leaves.
LEMMA PackedFacts ==
  ASSUME NEW F, HasSizes(F), NEW left \in Seq(F), NEW gap, IsGap(gap),
         NEW n \in 0..Len(left), Offsets(left)[n] <= gap[2] - gap[1]
  PROVE  /\ \A g \in Packed(left, gap, n) : g.size > 0 /\ Within(Span(g), gap)
         /\ \A j, k \in 1..n : PlacedAt(left, gap, j) = PlacedAt(left, gap, k) => j = k
         /\ \A g, h \in Packed(left, gap, n) : g # h => ~Clashes(Span(g), Span(h))
         /\ \A g \in Packed(left, gap, n) :
              \/ g.address + g.size = gap[1] + Offsets(left)[n]
              \/ \E h \in Packed(left, gap, n) : h.address = g.address + g.size
<1> DEFINE U == Offsets(left)
           g(k) == PlacedAt(left, gap, k)
<1>1. /\ U \in [0..Len(left) -> Nat] /\ U[0] = 0
      /\ \A k \in 1..Len(left) : U[k] = U[k - 1] + left[k].size
      /\ \A j, k \in 0..Len(left) : j <= k => U[j] <= U[k]
  BY OffsetsRise
<1>2. gap[1] \in Nat /\ gap[2] \in Nat /\ Len(left) \in Nat
  BY DEF IsGap
<1>3. \A k \in 1..Len(left) : left[k].size \in Nat /\ left[k].size > 0
  BY DEF HasSizes
<1> HIDE DEF U
<1>4. \A k \in 1..n : k \in 1..Len(left) /\ k \in 0..Len(left) /\ k - 1 \in 0..Len(left)
  BY <1>2
<1>5. ASSUME NEW k \in 1..n
      PROVE  /\ g(k).address = gap[1] + U[k - 1] /\ g(k).size = left[k].size
             /\ g(k).address + g(k).size = gap[1] + U[k]
             /\ U[k - 1] \in Nat /\ U[k] \in Nat /\ U[k - 1] < U[k] /\ U[k] <= U[n]
  <2>1. g(k).address = gap[1] + U[k - 1] /\ g(k).size = left[k].size
    BY DEF PlacedAt, U
  <2>2. U[k - 1] \in Nat /\ U[k] \in Nat /\ U[n] \in Nat
    BY <1>1, <1>4
  <2>3. U[k] = U[k - 1] + left[k].size /\ left[k].size \in Nat /\ left[k].size > 0
    BY <1>1, <1>3, <1>4
  <2>4. U[k] <= U[n]
    BY <1>1, <1>4
  <2> QED
    BY <1>2, <2>1, <2>2, <2>3, <2>4
<1>6. ASSUME NEW j \in 1..n, NEW k \in 1..n, j < k PROVE U[j] <= U[k - 1]
  BY <1>1, <1>4, <1>6
<1> HIDE DEF g
<1>7. U[n] <= gap[2] - gap[1] /\ U[n] \in Nat
  BY <1>1 DEF U
<1>8. \A x \in Packed(left, gap, n) : \E k \in 1..n : x = g(k)
  BY DEF Packed, g
<1>9. ASSUME NEW k \in 1..n PROVE g(k).size > 0 /\ Within(Span(g(k)), gap)
  <2>1. g(k).size > 0
    BY <1>3, <1>4, <1>5
  <2>2. gap[1] <= g(k).address /\ g(k).address + g(k).size <= gap[2]
    <3>1. /\ g(k).address = gap[1] + U[k - 1] /\ g(k).address + g(k).size = gap[1] + U[k]
          /\ U[k - 1] \in Nat /\ U[k] \in Nat /\ U[k] <= U[n]
      BY <1>5
    <3> QED
      BY <1>2, <1>7, <3>1
  <2> QED
    BY <2>1, <2>2 DEF Within, Span
<1>10. ASSUME NEW j \in 1..n, NEW k \in 1..n, j < k
       PROVE  g(j) # g(k) /\ ~Clashes(Span(g(j)), Span(g(k))) /\ ~Clashes(Span(g(k)), Span(g(j)))
  <2>1. /\ g(j).address = gap[1] + U[j - 1] /\ g(j).address + g(j).size = gap[1] + U[j]
        /\ U[j - 1] \in Nat /\ U[j] \in Nat /\ U[j - 1] < U[j]
    BY <1>5
  <2>2. /\ g(k).address = gap[1] + U[k - 1] /\ g(k).address + g(k).size = gap[1] + U[k]
        /\ U[k - 1] \in Nat /\ U[k] \in Nat /\ U[k - 1] < U[k]
    BY <1>5
  <2>3. U[j] <= U[k - 1]
    BY <1>6, <1>10
  <2>4. g(j).address + g(j).size <= g(k).address
    BY <1>2, <2>1, <2>2, <2>3
  <2>5. g(j).address < g(k).address
    <3>1. U[j - 1] < U[k - 1]
      BY <2>1, <2>2, <2>3
    <3> QED
      BY <1>2, <2>1, <2>2, <3>1
  <2>6. g(j).address \in Nat /\ g(j).address + g(j).size \in Nat
    BY <1>2, <2>1
  <2>7. g(k).address \in Nat /\ g(k).address + g(k).size \in Nat
    BY <1>2, <2>2
  <2>8. g(j) # g(k)
    BY <2>5, <2>6, <2>7
  <2>9. ~Clashes(Span(g(j)), Span(g(k))) /\ ~Clashes(Span(g(k)), Span(g(j)))
    BY <2>4, <2>6, <2>7 DEF Clashes, Span
  <2> QED
    BY <2>8, <2>9
<1>11. \A j, k \in 1..n : j # k => j < k \/ k < j
  OBVIOUS
<1>12. \A j, k \in 1..n : j # k => g(j) # g(k) /\ ~Clashes(Span(g(j)), Span(g(k)))
  BY <1>10, <1>11
<1>13. ASSUME NEW k \in 1..n
       PROVE  \/ g(k).address + g(k).size = gap[1] + U[n]
              \/ \E h \in Packed(left, gap, n) : h.address = g(k).address + g(k).size
  <2>1. CASE k = n
    BY <1>5, <2>1
  <2>2. CASE k # n
    <3>1. k + 1 \in 1..n /\ (k + 1) - 1 = k
      BY <2>2
    <3>2. g(k + 1).address = g(k).address + g(k).size
      BY <1>5, <3>1
    <3>3. g(k + 1) \in Packed(left, gap, n)
      BY <3>1 DEF Packed, g
    <3> QED
      BY <3>2, <3>3
  <2> QED
    BY <2>1, <2>2
<1>14. \A x \in Packed(left, gap, n) : x.size > 0 /\ Within(Span(x), gap)
  BY <1>8, <1>9
<1>15. \A j, k \in 1..n : PlacedAt(left, gap, j) = PlacedAt(left, gap, k) => j = k
  BY <1>12 DEF g
<1>16. \A x, y \in Packed(left, gap, n) : x # y => ~Clashes(Span(x), Span(y))
  <2> SUFFICES ASSUME NEW x \in Packed(left, gap, n), NEW y \in Packed(left, gap, n), x # y
               PROVE  ~Clashes(Span(x), Span(y))
    OBVIOUS
  <2>1. PICK j \in 1..n : x = g(j)
    BY <1>8
  <2>2. PICK k \in 1..n : y = g(k)
    BY <1>8
  <2> QED
    BY <1>12, <2>1, <2>2
<1>17. \A x \in Packed(left, gap, n) :
         \/ x.address + x.size = gap[1] + U[n]
         \/ \E h \in Packed(left, gap, n) : h.address = x.address + x.size
  <2> SUFFICES ASSUME NEW x \in Packed(left, gap, n)
               PROVE  \/ x.address + x.size = gap[1] + U[n]
                      \/ \E h \in Packed(left, gap, n) : h.address = x.address + x.size
    OBVIOUS
  <2>1. PICK k \in 1..n : x = g(k)
    BY <1>8
  <2> QED
    BY <1>13, <2>1
<1> QED
  BY <1>14, <1>15, <1>16, <1>17 DEF U

\* The functions of a gap leave the list.
LEMMA PackedMove ==
  ASSUME NEW F, HasSizes(F), NEW left \in Seq(F), NEW gap, IsGap(gap),
         NEW n \in 0..Len(left), Offsets(left)[n] <= gap[2] - gap[1]
  PROVE  \E e, r : Moves(left, SubSeq(left, n + 1, Len(left)), Packed(left, gap, n), e, r)
<1> DEFINE rest == SubSeq(left, n + 1, Len(left))
           more == Packed(left, gap, n)
           e == [j \in 1..(Len(left) - n) |-> j + n]
           r == [g \in more |-> CHOOSE k \in 1..n : g = PlacedAt(left, gap, k)]
<1>1. Len(left) \in Nat /\ DOMAIN left = 1..Len(left) /\ n \in Nat /\ n <= Len(left)
  OBVIOUS
<1>2. DOMAIN rest = 1..(Len(left) - n) /\ \A j \in 1..(Len(left) - n) : rest[j] = left[j + n]
  <2>1. \A k \in (n + 1)..Len(left) : left[k] \in F
    BY <1>1
  <2>2. rest \in Seq(F) /\ Len(rest) = Len(left) - n
    <3> DEFINE size == Len(left)
    <3>1. /\ size \in Nat /\ n \in Nat /\ n <= size /\ rest = SubSeq(left, n + 1, size)
          /\ \A k \in (n + 1)..size : left[k] \in F
      BY <1>1, <2>1
    <3> HIDE DEF size, rest
    <3>2. SubSeq(left, n + 1, size) \in Seq(F) /\ Len(SubSeq(left, n + 1, size)) = size - n
      BY <3>1, SubSeqProperties
    <3> QED
      BY <3>1, <3>2 DEF size
  <2>3. \A j \in 1..(Len(left) - n) : rest[j] = left[j + n]
    BY <1>1, <2>1, SubSeqProperties
  <2> HIDE DEF rest
  <2> QED
    BY <2>2, <2>3
<1>3. \A g \in more : r[g] \in 1..n /\ g = PlacedAt(left, gap, r[g])
  BY DEF Packed
<1>4. \A k \in 1..n : PlacedAt(left, gap, k) \in more
  BY DEF Packed
<1>5. \A j, k \in 1..n : PlacedAt(left, gap, j) = PlacedAt(left, gap, k) => j = k
  BY PackedFacts
<1>6. r \in [more -> DOMAIN left]
  <2>1. \A g \in more : r[g] \in DOMAIN left
    BY <1>1, <1>3
  <2> QED
    BY <2>1
<1> HIDE DEF rest, more, r
<1>7. e \in [DOMAIN rest -> DOMAIN left]
  BY <1>1, <1>2
<1>8. \A j \in DOMAIN rest : rest[j] = left[e[j]]
  BY <1>2
<1>9. \A i, j \in DOMAIN rest : e[i] = e[j] => i = j
  BY <1>1, <1>2
<1>10. \A j \in DOMAIN rest : \A g \in more : e[j] # r[g]
  BY <1>1, <1>2, <1>3
<1>11. \A g \in more : g.name = left[r[g]].name /\ g.size = left[r[g]].size
  BY <1>3 DEF PlacedAt
<1>12. \A g, h \in more : r[g] = r[h] => g = h
  BY <1>3
<1>13. ASSUME NEW k \in DOMAIN left
       PROVE  (\E j \in DOMAIN rest : e[j] = k) \/ (\E g \in more : r[g] = k)
  <2>1. CASE k <= n
    <3>1. k \in 1..n
      BY <1>1, <2>1
    <3>2. r[PlacedAt(left, gap, k)] = k
      BY <1>3, <1>4, <1>5, <3>1
    <3> QED
      BY <1>4, <3>1, <3>2
  <2>2. CASE ~(k <= n)
    <3>1. k - n \in DOMAIN rest /\ e[k - n] = k
      BY <1>1, <1>2, <2>2
    <3> QED
      BY <3>1
  <2> QED
    BY <2>1, <2>2
<1> HIDE DEF e
<1>14. Moves(left, rest, more, e, r)
  BY <1>6, <1>7, <1>8, <1>9, <1>10, <1>11, <1>12, <1>13 DEF Moves
<1> QED
  BY <1>14 DEF rest, more

-----------------------------------------------------------------------------
(* The gaps, one after the other. *)

PackLoop(h, T, base) ==
  \A S \in SUBSET T :
    h[S] = IF S = {} THEN base ELSE PackGap(h[S \ {Latest(S)}], Latest(S))

\* The loop over the gaps takes them in ascending order, each one once.
LEMMA PackLoopRuns ==
  ASSUME NEW F, HasSizes(F), NEW base \in PackStates(F),
         NEW T, IsFiniteSet(T), NEW bound \in Nat,
         \A gap \in T : IsGap(gap) /\ gap[1] <= bound
  PROVE  /\ \A S \in SUBSET T : S # {} => Latest(S) \in S
         /\ \E h : PackLoop(h, T, base) /\ InOrder(PackGap, base, T) = h[T]
<1> DEFINE V == PackStates(F)
           iter == CHOOSE iter : iter = [S \in SUBSET T |->
                     IF S = {} THEN base ELSE PackGap(iter[S \ {Latest(S)}], Latest(S))]
           pick == [S \in SUBSET T |-> Latest(S)]
           step == [x \in T \X V |-> PackGap(x[2], x[1])]
<1>1. InOrder(PackGap, base, T) = iter[T]
  BY Zenon DEF InOrder, MapThenFoldSet
<1>2. \A S \in SUBSET T : S # {} => Latest(S) \in S
  <2> SUFFICES ASSUME NEW S \in SUBSET T, S # {} PROVE Latest(S) \in S
    OBVIOUS
  <2>1. \A x \in S : x[1] \in Nat /\ x[1] <= bound
    BY DEF IsGap
  <2> QED
    BY <2>1, LatestOfSet
<1>3. step \in [T \X V -> V]
  <2>1. \A x \in T \X V : PackGap(x[2], x[1]) \in V
    <3> SUFFICES ASSUME NEW x \in T \X V PROVE PackGap(x[2], x[1]) \in V
      OBVIOUS
    <3>1. IsGap(x[1]) /\ x[2] \in V
      OBVIOUS
    <3> QED
      BY <3>1, PackFacts
  <2> QED
    BY <2>1, Zenon
<1>4. Picks(pick, T)
  BY <1>2 DEF Picks
<1>5. PICK h \in [SUBSET T -> V] : Recurses(h, T, base, pick, step)
  <2> HIDE DEF pick, step
  <2> QED
    BY <1>3, <1>4, RecursionExists
<1>6. ASSUME NEW S \in SUBSET T
      PROVE  h[S] = IF S = {} THEN base ELSE PackGap(h[S \ {Latest(S)}], Latest(S))
  <2>1. CASE S = {}
    BY <1>5, <2>1 DEF Recurses
  <2>2. CASE S # {}
    <3>1. Latest(S) \in T /\ S \ {Latest(S)} \in SUBSET T
      BY <1>2, <2>2
    <3>2. h[S] = step[<<Latest(S), h[S \ {Latest(S)}]>>]
      BY <1>5, <2>2 DEF Recurses
    <3>3. <<Latest(S), h[S \ {Latest(S)}]>> \in T \X V
      BY <1>5, <3>1
    <3> QED
      BY <2>2, <3>2, <3>3
  <2> QED
    BY <2>1, <2>2
<1>7. h = [S \in SUBSET T |-> IF S = {} THEN base ELSE PackGap(h[S \ {Latest(S)}], Latest(S))]
  BY <1>6
<1>8. iter = [S \in SUBSET T |-> IF S = {} THEN base ELSE PackGap(iter[S \ {Latest(S)}], Latest(S))]
  BY <1>7, Zenon
<1> HIDE DEF iter
<1>9. PackLoop(iter, T, base)
  <2>1. \A S \in SUBSET T :
          iter[S] = IF S = {} THEN base ELSE PackGap(iter[S \ {Latest(S)}], Latest(S))
    BY <1>8, Zenon
  <2> QED
    BY <2>1, Zenon DEF PackLoop
<1> QED
  BY <1>1, <1>2, <1>9

\* What lies behind g is the end of its gap or a function.
Tight(g, placed, P) ==
  \/ \E gap \in P : g.address + g.size <= gap[2] /\ gap[2] - (g.address + g.size) <= MaxPadding
  \/ \E h \in placed : h.address = g.address + g.size

\* What the loop over the gaps has done after those of P.
PackedWell(functions, F, hinted, state, P) ==
  /\ state \in PackStates(F) /\ Matched(functions, state.left, state.placed)
  /\ \A g \in state.placed \ hinted : g.size > 0 /\ \E gap \in P : Within(Span(g), gap)
  /\ \A g, h \in state.placed \ hinted : g # h => ~Clashes(Span(g), Span(h))
  /\ state.loose \/ \A g \in state.placed \ hinted : Tight(g, state.placed, P)

\* Packing one more gap keeps what was packed in order and apart.
LEMMA PackStep ==
  ASSUME NEW functions, NEW F, HasSizes(F), NEW hinted \in SUBSET Placement(F),
         NEW state, NEW P, PackedWell(functions, F, hinted, state, P),
         NEW gap, IsGap(gap), \A h \in hinted : h.size > 0 /\ ~Clashes(Span(h), gap),
         \A x \in P : IsGap(x) /\ (x[2] <= gap[1] \/ gap[2] <= x[1])
  PROVE  PackedWell(functions, F, hinted, PackGap(state, gap), P \cup {gap})
<1> DEFINE new == PackGap(state, gap)  Q == P \cup {gap}  left == state.left
<1>1. state \in PackStates(F)
  BY DEF PackedWell
<1>2. new \in PackStates(F)
  BY <1>1, PackFacts
<1>3. PICK n : Packs(state, gap, new, n)
  BY <1>1, PackFacts
<1> DEFINE more == Packed(left, gap, n)
<1> HIDE DEF new
<1>4. /\ left \in Seq(F) /\ n \in 0..Len(left) /\ Offsets(left)[n] <= gap[2] - gap[1]
      /\ new.left = SubSeq(left, n + 1, Len(left)) /\ new.placed = state.placed \cup more
      /\ new.loose = (state.loose \/ TooLoose(Offsets(left)[n], gap[2] - gap[1]))
  BY <1>1, <1>3 DEF Packs, PackStates
<1>5. /\ \A g \in more : g.size > 0 /\ Within(Span(g), gap)
      /\ \A g, h \in more : g # h => ~Clashes(Span(g), Span(h))
      /\ \A g \in more : \/ g.address + g.size = gap[1] + Offsets(left)[n]
                         \/ \E h \in more : h.address = g.address + g.size
  BY <1>4, PackedFacts
<1>6. \A g \in new.placed : g.address \in Nat /\ g.size \in Nat
  BY <1>2 DEF PackStates, Placement
<1>7. gap[1] \in Nat /\ gap[2] \in Nat /\ gap[1] < gap[2]
  BY DEF IsGap
<1> HIDE DEF more
<1>8. ASSUME NEW g \in more, NEW h \in state.placed \ hinted PROVE g # h /\ ~Clashes(Span(g), Span(h))
                                                                   /\ ~Clashes(Span(h), Span(g))
  <2>1. PICK x \in P : Within(Span(h), x)
    BY DEF PackedWell
  <2>2. /\ g.address \in Nat /\ g.size \in Nat /\ h.address \in Nat /\ h.size \in Nat
        /\ x[1] \in Nat /\ x[2] \in Nat
    BY <1>4, <1>6 DEF IsGap
  <2>3. x[1] <= h.address /\ h.address + h.size <= x[2] /\ h.size > 0
    BY <2>1 DEF Within, Span, PackedWell
  <2>4. gap[1] <= g.address /\ g.address + g.size <= gap[2] /\ g.size > 0
    BY <1>5 DEF Within, Span
  <2>5. x[2] <= gap[1] \/ gap[2] <= x[1]
    OBVIOUS
  <2>6. g.address + g.size <= h.address \/ h.address + h.size <= g.address
    BY <1>7, <2>2, <2>3, <2>4, <2>5
  <2>7. g.address # h.address
    BY <2>2, <2>3, <2>4, <2>6
  <2>8. ~Clashes(Span(g), Span(h)) /\ ~Clashes(Span(h), Span(g))
    BY <2>2, <2>6 DEF Clashes, Span
  <2> QED
    BY <2>7, <2>8
<1>9. \A g \in more : g \notin hinted
  <2> SUFFICES ASSUME NEW g \in more, g \in hinted PROVE FALSE
    OBVIOUS
  <2>1. gap[1] <= g.address /\ g.address + g.size <= gap[2] /\ g.size > 0
    BY <1>5 DEF Within, Span
  <2>2. ~Clashes(Span(g), gap)
    OBVIOUS
  <2>3. g.address \in Nat /\ g.size \in Nat
    BY <1>4, <1>6
  <2> QED
    BY <1>7, <2>1, <2>2, <2>3 DEF Clashes, Span
<1>10. Matched(functions, new.left, new.placed)
  <2>1. PICK e, r : Moves(left, SubSeq(left, n + 1, Len(left)), more, e, r)
    BY <1>4, PackedMove DEF more
  <2>2. Matched(functions, left, state.placed)
    BY DEF PackedWell
  <2>3. \A g \in more : g \notin state.placed
    BY <1>8, <1>9
  <2> QED
    BY <1>4, <2>1, <2>2, <2>3, MatchedMoves
<1>11. \A g \in new.placed \ hinted : g \in state.placed \ hinted \/ g \in more
  BY <1>4
<1>12. \A g \in new.placed \ hinted : g.size > 0 /\ \E x \in Q : Within(Span(g), x)
  BY <1>5, <1>11 DEF PackedWell
<1>13. \A g, h \in new.placed \ hinted : g # h => ~Clashes(Span(g), Span(h))
  <2>1. \A g, h \in state.placed \ hinted : g # h => ~Clashes(Span(g), Span(h))
    BY DEF PackedWell
  <2> QED
    BY <1>5, <1>8, <1>11, <2>1
<1>14. ASSUME ~new.loose, NEW g \in new.placed \ hinted PROVE Tight(g, new.placed, Q)
  <2>1. ~state.loose /\ ~TooLoose(Offsets(left)[n], gap[2] - gap[1])
    BY <1>4, <1>14, Zenon
  <2>2. CASE g \in state.placed \ hinted
    <3>1. Tight(g, state.placed, P)
      BY <2>1, <2>2 DEF PackedWell
    <3> QED
      BY <1>4, <3>1 DEF Tight
  <2>3. CASE g \in more
    <3>1. CASE \E h \in more : h.address = g.address + g.size
      BY <1>4, <3>1 DEF Tight
    <3>2. CASE g.address + g.size = gap[1] + Offsets(left)[n]
      <4> DEFINE used == Offsets(left)[n]
      <4>1. used \in Nat
        BY <1>4, OffsetsRise
      <4> HIDE DEF used
      <4>2. g.address \in Nat /\ g.size \in Nat /\ gap[1] <= g.address /\ g.size > 0
        BY <1>5, <1>6, <2>3 DEF Within, Span
      <4>3. used > 0 /\ used <= gap[2] - gap[1] /\ g.address + g.size = gap[1] + used
        BY <1>4, <1>7, <3>2, <4>1, <4>2 DEF used
      <4>4. ~(used > 0 /\ (gap[2] - gap[1]) - used > MaxPadding)
        BY <2>1 DEF TooLoose, used
      <4>5. g.address + g.size <= gap[2] /\ gap[2] - (g.address + g.size) <= MaxPadding
        BY <1>7, <4>1, <4>3, <4>4 DEF MaxPadding
      <4> QED
        BY <4>5 DEF Tight
    <3> QED
      BY <1>5, <2>3, <3>1, <3>2
  <2> QED
    BY <1>11, <2>2, <2>3
<1> QED
  BY <1>2, <1>10, <1>12, <1>13, <1>14 DEF PackedWell, new

\* After the loop every function placed lies in a gap, and the functions do not overlap.
LEMMA PackLoopPacks ==
  ASSUME NEW functions, NEW F, HasSizes(F), NEW hinted \in SUBSET Placement(F),
         NEW left \in Seq(F), Matched(functions, left, hinted),
         NEW T, IsFiniteSet(T), NEW bound \in Nat,
         \A gap \in T : IsGap(gap) /\ gap[1] <= bound,
         \A g, h \in T : g # h => g[2] <= h[1] \/ h[2] <= g[1],
         \A gap \in T : \A h \in hinted : h.size > 0 /\ ~Clashes(Span(h), gap)
  PROVE  PackedWell(functions, F, hinted,
                    InOrder(PackGap, [left |-> left, placed |-> hinted, loose |-> FALSE], T), T)
<1> DEFINE base == [left |-> left, placed |-> hinted, loose |-> FALSE]
<1>1. base \in PackStates(F)
  BY DEF PackStates
<1>2. PackedWell(functions, F, hinted, base, {})
  <2>1. base.left = left /\ base.placed = hinted
    OBVIOUS
  <2> HIDE DEF base
  <2> QED
    BY <1>1, <2>1 DEF PackedWell
<1> HIDE DEF base
<1>3. \A S \in SUBSET T : S # {} => Latest(S) \in S
  BY <1>1, PackLoopRuns
<1>4. PICK h : PackLoop(h, T, base) /\ InOrder(PackGap, base, T) = h[T]
  BY <1>1, PackLoopRuns
<1> DEFINE Good == {S \in SUBSET T : PackedWell(functions, F, hinted, h[S], S)}
<1>5. {} \in Good
  BY <1>2, <1>4 DEF PackLoop
<1>6. ASSUME NEW S \in SUBSET T, S # {}, \A x \in S : S \ {x} \in Good
      PROVE  S \in Good
  <2> DEFINE gap == Latest(S)  P == S \ {gap}
  <2>1. gap \in S /\ gap \in T /\ P \cup {gap} = S /\ \A x \in P : x \in T /\ x # gap
    BY <1>3, <1>6
  <2>2. PackedWell(functions, F, hinted, h[P], P)
    BY <1>6, <2>1
  <2>3. h[S] = PackGap(h[P], gap)
    BY <1>4, <1>6 DEF PackLoop
  <2> HIDE DEF gap, P
  <2>4. PackedWell(functions, F, hinted, PackGap(h[P], gap), P \cup {gap})
    BY <2>1, <2>2, PackStep
  <2> QED
    BY <2>1, <2>3, <2>4
<1>7. Good \in SUBSET (SUBSET T)
  OBVIOUS
<1>8. \A S \in SUBSET T : S \in Good
  <2> HIDE DEF Good
  <2> QED
    BY <1>5, <1>6, <1>7, SubsetInduction
<1> QED
  BY <1>4, <1>8 DEF base

-----------------------------------------------------------------------------
(* infer_hidden_object_functions as a whole. *)

\* The settled destinations: their intervals lie in the gaps, one function in each.
ClaimsLieWell(hinted, A, text, hints) ==
  /\ ProperIn(hinted.claimed, text)
  /\ \A c \in hinted.claimed : c[1] \in hints
  /\ \A g \in hinted.placed :
       /\ g.size > 0
       /\ \E c \in hinted.claimed : Within(Span(g), c)
       /\ \E gap \in Gaps(A, text) : Within(Span(g), gap)
       /\ \E x \in hints \cup {gap[2] : gap \in Gaps(A, text)} :
            g.address + g.size <= x /\ x - (g.address + g.size) <= MaxPadding
  /\ \A g, h \in hinted.placed : g # h => ~Clashes(Span(g), Span(h))

\* No two segments start at the same address, and all start within the text.
LEMMA SegmentsAreGood ==
  ASSUME NEW text, IsText(text), NEW A, ProperIn(A, text), NEW hints \in SUBSET Int,
         NEW T, T = HintedSegments(Gaps(A, text), hints)
  PROVE  /\ T \in SUBSET (Nat \X Nat) /\ IsFiniteSet(T)
         /\ \A s \in T : s[1] <= text[2]
         /\ \A s, t \in T : s # t => s[1] # t[1]
<1>1. \A s \in T : s \in Nat \X Nat /\ s[2] > 0
  BY SegmentFacts
<1>2. IsFiniteSet(T)
  BY SegmentsAreFinite
<1>3. ASSUME NEW s \in T PROVE s[1] <= text[2]
  <2>1. PICK gap \in Gaps(A, text) : Within(SegmentSpan(s), gap)
    BY SegmentFacts
  <2>2. Within(gap, text) /\ Proper(gap)
    BY GapFacts
  <2> QED
    BY <1>1, <2>1, <2>2 DEF Within, Proper, SegmentSpan, IsText
<1>4. ASSUME NEW s \in T, NEW t \in T, s # t PROVE s[1] # t[1]
  <2>1. s[1] + s[2] <= t[1] \/ t[1] + t[2] <= s[1]
    BY <1>4, SegmentsOfGapsApart
  <2>2. s[1] \in Nat /\ s[2] \in Nat /\ t[1] \in Nat /\ t[2] \in Nat /\ s[2] > 0 /\ t[2] > 0
    BY <1>1
  <2> QED
    BY <2>1, <2>2
<1> QED
  BY <1>1, <1>2, <1>3, <1>4

\* What is settled at the destinations lies in the free text, and no two clash.
LEMMA SettledLiesWell ==
  ASSUME NEW text, IsText(text), NEW A, ProperIn(A, text), NEW hints \in SUBSET Int,
         NEW T, T = HintedSegments(Gaps(A, text), hints),
         NEW functions, NEW F, NEW hinted, Settled(functions, F, hinted, T)
  PROVE  ClaimsLieWell(hinted, A, text, hints)
<1>1. ASSUME NEW s \in T
      PROVE  /\ s[1] \in Nat /\ s[2] \in Nat /\ s[2] > 0 /\ s[1] \in hints
             /\ \E gap \in Gaps(A, text) :
                  /\ Within(SegmentSpan(s), gap) /\ Proper(gap) /\ Within(gap, text)
                  /\ s[1] + s[2] \in hints \cup {gap[2]}
  <2>1. s \in Nat \X Nat /\ s[2] > 0 /\ s[1] \in hints
    BY SegmentFacts
  <2>2. PICK gap \in Gaps(A, text) :
          Within(SegmentSpan(s), gap) /\ s[1] + s[2] \in hints \cup {gap[2]}
    BY SegmentFacts
  <2>3. Proper(gap) /\ Within(gap, text)
    BY GapFacts
  <2> QED
    BY <2>1, <2>2, <2>3
<1>2. ASSUME NEW c \in hinted.claimed PROVE Proper(c) /\ Within(c, text) /\ c[1] \in hints
  <2>1. PICK s \in T : c = SegmentSpan(s)
    BY DEF Settled
  <2>2. PICK gap \in Gaps(A, text) : Within(SegmentSpan(s), gap) /\ Proper(gap) /\ Within(gap, text)
    BY <1>1
  <2>3. s[1] \in Nat /\ s[2] \in Nat /\ s[2] > 0 /\ s[1] \in hints
    BY <1>1
  <2>4. c = <<s[1], s[1] + s[2]>> /\ c[1] = s[1] /\ c[2] = s[1] + s[2]
    BY <2>1 DEF SegmentSpan
  <2>5. Proper(c)
    BY <2>3, <2>4 DEF Proper
  <2>6. Within(c, gap)
    BY <2>1, <2>2
  <2>7. Within(c, text)
    BY <2>2, <2>3, <2>4, <2>6 DEF Within, Proper, IsText
  <2> QED
    BY <2>3, <2>4, <2>5, <2>7
<1>3. ASSUME NEW g \in hinted.placed, NEW s \in T,
             g.address = s[1], g.size > 0, g.size <= s[2], s[2] - g.size <= MaxPadding,
             SegmentSpan(s) \in hinted.claimed
      PROVE  /\ \E c \in hinted.claimed : Within(Span(g), c)
             /\ \E gap \in Gaps(A, text) : Within(Span(g), gap)
             /\ \E x \in hints \cup {gap[2] : gap \in Gaps(A, text)} :
                  g.address + g.size <= x /\ x - (g.address + g.size) <= MaxPadding
  <2>1. s[1] \in Nat /\ s[2] \in Nat
    BY <1>1
  <2>2. g.address \in Nat /\ g.size \in Nat
    BY DEF Settled, SettleStates, Placement
  <2>3. PICK gap \in Gaps(A, text) : /\ Within(SegmentSpan(s), gap) /\ Proper(gap)
                                     /\ s[1] + s[2] \in hints \cup {gap[2]}
    BY <1>1
  <2>4. Within(Span(g), SegmentSpan(s))
    BY <1>3, <2>1, <2>2 DEF Within, Span, SegmentSpan
  <2>5. Within(Span(g), gap)
    BY <1>3, <2>1, <2>2, <2>3 DEF Within, Span, SegmentSpan, Proper
  <2>6. g.address + g.size <= s[1] + s[2] /\ (s[1] + s[2]) - (g.address + g.size) <= MaxPadding
    BY <1>3, <2>1, <2>2 DEF MaxPadding
  <2>7. s[1] + s[2] \in hints \cup {x[2] : x \in Gaps(A, text)}
    BY <2>3
  <2> QED
    BY <1>3, <2>4, <2>5, <2>6, <2>7
<1>4. \A g \in hinted.placed : \E s \in T :
        /\ g.address = s[1] /\ g.size > 0 /\ g.size <= s[2] /\ s[2] - g.size <= MaxPadding
        /\ SegmentSpan(s) \in hinted.claimed
  BY DEF Settled
<1>5. ASSUME NEW g \in hinted.placed, NEW h \in hinted.placed, g # h
      PROVE  ~Clashes(Span(g), Span(h))
  <2>1. PICK s \in T : g.address = s[1] /\ g.size > 0 /\ g.size <= s[2]
    BY <1>4
  <2>2. PICK t \in T : h.address = t[1] /\ h.size > 0 /\ h.size <= t[2]
    BY <1>4
  <2>3. s # t
    BY <1>5, <2>1, <2>2 DEF Settled
  <2>4. s[1] + s[2] <= t[1] \/ t[1] + t[2] <= s[1]
    BY <2>3, SegmentsOfGapsApart
  <2>5. s[1] \in Nat /\ s[2] \in Nat /\ t[1] \in Nat /\ t[2] \in Nat
    BY <1>1
  <2>6. g.address \in Nat /\ g.size \in Nat /\ h.address \in Nat /\ h.size \in Nat
    BY DEF Settled, SettleStates, Placement
  <2>7. g.address + g.size <= h.address \/ h.address + h.size <= g.address
    BY <2>1, <2>2, <2>4, <2>5, <2>6
  <2> QED
    BY <2>6, <2>7 DEF Clashes, Span
<1>6. ProperIn(hinted.claimed, text)
  BY <1>2 DEF ProperIn
<1>7. \A g \in hinted.placed :
        /\ g.size > 0
        /\ \E c \in hinted.claimed : Within(Span(g), c)
        /\ \E gap \in Gaps(A, text) : Within(Span(g), gap)
        /\ \E x \in hints \cup {gap[2] : gap \in Gaps(A, text)} :
             g.address + g.size <= x /\ x - (g.address + g.size) <= MaxPadding
  BY <1>3, <1>4
<1> QED
  BY <1>2, <1>5, <1>6, <1>7 DEF ClaimsLieWell

\* The functions placed in the end.
PlacedWell(placed, functions, F, A, text, hints) ==
  /\ placed \in SUBSET Placement(F)
  /\ \A g \in placed :
       /\ g.size > 0 /\ Within(Span(g), text)
       /\ \A a \in A : ~Clashes(Span(g), a)
       /\ \E x \in {h.address : h \in placed} \cup {a[1] : a \in A} \cup hints \cup {text[2]} :
            g.address + g.size <= x /\ x - (g.address + g.size) <= MaxPadding
  /\ \A g, h \in placed : g # h => ~Clashes(Span(g), Span(h))
  /\ Matched(functions, <<>>, placed)

\* What lies in a gap is free.
LEMMA GapIsFree ==
  ASSUME NEW text, IsText(text), NEW A, ProperIn(A, text), NEW gap \in Gaps(A, text),
         NEW i, Proper(i), Within(i, gap)
  PROVE  Within(i, text) /\ \A a \in A : ~Clashes(i, a) /\ ~Clashes(a, i)
<1>1. Proper(gap) /\ Within(gap, text) /\ \A a \in A : ~Clashes(a, gap)
  BY GapFacts
<1>2. Within(i, text)
  BY <1>1 DEF Within, Proper, IsText
<1>3. ASSUME NEW a \in A PROVE ~Clashes(i, a) /\ ~Clashes(a, i)
  <2>1. Proper(a) /\ ~Clashes(a, gap)
    BY <1>1 DEF ProperIn
  <2> QED
    BY <1>1, <2>1 DEF Within, Proper, Clashes
<1> QED
  BY <1>2, <1>3

\* When nothing is left and no gap was loose, all functions lie as they should.
LEMMA PackedLiesWell ==
  ASSUME NEW text, IsText(text), NEW A, ProperIn(A, text), NEW hints \in SUBSET Int,
         NEW F, HasSizes(F), NEW functions,
         NEW hinted, hinted \in SettleStates(F), ClaimsLieWell(hinted, A, text, hints),
         NEW U, U = Gaps(A \cup hinted.claimed, text),
         NEW packed, PackedWell(functions, F, hinted.placed, packed, U),
         ~packed.loose, packed.left = <<>>
  PROVE  PlacedWell(packed.placed, functions, F, A, text, hints)
<1> DEFINE C == hinted.claimed  H == hinted.placed  P == packed.placed
<1>1. /\ P \in SUBSET Placement(F) /\ H \in SUBSET Placement(F) /\ Matched(functions, <<>>, P)
  BY DEF PackedWell, PackStates, SettleStates
<1>2. ProperIn(C, text) /\ ProperIn(A \cup C, text)
  BY DEF ClaimsLieWell, ProperIn
<1>3. \A g \in P \cup H : g.address \in Nat /\ g.size \in Nat
  BY <1>1 DEF Placement
<1>4. \A g \in H :
        /\ g.size > 0
        /\ \E c \in C : Within(Span(g), c)
        /\ \E gap \in Gaps(A, text) : Within(Span(g), gap)
        /\ \E x \in hints \cup {gap[2] : gap \in Gaps(A, text)} :
             g.address + g.size <= x /\ x - (g.address + g.size) <= MaxPadding
  BY DEF ClaimsLieWell
<1>5. \A g \in P \ H : /\ g.size > 0 /\ \E gap \in U : Within(Span(g), gap)
                       /\ Tight(g, P, U)
  BY DEF PackedWell
<1>6. \A g \in P \cup H : Proper(Span(g))
  <2>1. \A g \in P \cup H : g.size > 0
    BY <1>4, <1>5
  <2> QED
    BY <1>3, <2>1 DEF Proper, Span
<1>7. ASSUME NEW g \in P \ H
      PROVE  Within(Span(g), text) /\ \A a \in A \cup C : ~Clashes(Span(g), a) /\ ~Clashes(a, Span(g))
  <2>1. PICK gap \in U : Within(Span(g), gap)
    BY <1>5
  <2> QED
    BY <1>2, <1>6, <2>1, GapIsFree
<1>8. ASSUME NEW g \in H
      PROVE  Within(Span(g), text) /\ \A a \in A : ~Clashes(Span(g), a)
  <2>1. PICK gap \in Gaps(A, text) : Within(Span(g), gap)
    BY <1>4
  <2> QED
    BY <1>6, <2>1, GapIsFree
<1>9. ASSUME NEW g \in H, NEW h \in P \ H
      PROVE  ~Clashes(Span(g), Span(h)) /\ ~Clashes(Span(h), Span(g))
  <2>1. PICK c \in C : Within(Span(g), c)
    BY <1>4
  <2>2. Proper(c) /\ ~Clashes(Span(h), c)
    BY <1>2, <1>7 DEF ProperIn
  <2>3. Proper(Span(g)) /\ Proper(Span(h))
    BY <1>6
  <2> QED
    BY <2>1, <2>2, <2>3 DEF Proper, Within, Clashes
<1>10. \A g, h \in P : g # h => ~Clashes(Span(g), Span(h))
  <2>1. \A g, h \in H : g # h => ~Clashes(Span(g), Span(h))
    BY DEF ClaimsLieWell
  <2>2. \A g, h \in P \ H : g # h => ~Clashes(Span(g), Span(h))
    BY DEF PackedWell
  <2> QED
    BY <1>9, <2>1, <2>2
<1> DEFINE Behind == {h.address : h \in P} \cup {a[1] : a \in A} \cup hints \cup {text[2]}
<1>11. \A gap \in Gaps(A, text) : gap[2] \in Behind
  BY GapFacts
<1>12. ASSUME NEW gap \in U PROVE gap[2] \in Behind
  <2>1. gap[2] = text[2] \/ \E a \in A \cup C : gap[2] = a[1]
    BY <1>2, GapFacts
  <2>2. \A c \in C : c[1] \in hints
    BY DEF ClaimsLieWell
  <2> QED
    BY <2>1, <2>2
<1>13. ASSUME NEW g \in P
       PROVE  \E x \in Behind : g.address + g.size <= x /\ x - (g.address + g.size) <= MaxPadding
  <2>1. CASE g \in H
    <3>1. PICK x \in hints \cup {gap[2] : gap \in Gaps(A, text)} :
            g.address + g.size <= x /\ x - (g.address + g.size) <= MaxPadding
      BY <1>4, <2>1
    <3>2. x \in Behind
      BY <1>11, <3>1
    <3> QED
      BY <3>1, <3>2
  <2>2. CASE g \notin H
    <3>1. CASE \E gap \in U : /\ g.address + g.size <= gap[2]
                              /\ gap[2] - (g.address + g.size) <= MaxPadding
      BY <1>12, <3>1
    <3>2. CASE \E h \in P : h.address = g.address + g.size
      <4>1. PICK h \in P : h.address = g.address + g.size
        BY <3>2
      <4>2. h.address \in Behind /\ h.address \in Nat
        BY <1>3
      <4>3. g.address + g.size <= h.address /\ h.address - (g.address + g.size) <= MaxPadding
        BY <4>1, <4>2 DEF MaxPadding
      <4> QED
        BY <4>2, <4>3
    <3> QED
      BY <1>5, <2>2, <3>1, <3>2 DEF Tight
  <2> QED
    BY <2>1, <2>2
<1> HIDE DEF C, H, P
<1>14. \A g \in P : g.size > 0 /\ Within(Span(g), text) /\ \A a \in A : ~Clashes(Span(g), a)
  BY <1>4, <1>5, <1>7, <1>8
<1>15. PlacedWell(P, functions, F, A, text, hints)
  BY <1>1, <1>10, <1>13, <1>14 DEF PlacedWell
<1> QED
  BY <1>15 DEF P

\* What is inferred fits between the known functions; when something is, they
\* do not overlap.
InferredWell(placed, functions, F, known, text, hints) ==
  /\ IsText(text) /\ ~Overlapping(Clip(known, text))
  /\ PlacedWell(placed, functions, F, Range(Clip(known, text)), text, hints)

\* infer_hidden_object_functions refuses, finds nothing to do, or places every function well.
LEMMA InferenceFits ==
  ASSUME NEW F, HasSizes(F), NEW functions \in Seq(F), NEW text \in Nat \X Nat,
         NEW hints \in SUBSET Int, NEW known, \A k \in DOMAIN known : Proper(known[k]),
         NEW found, found = infer_hidden_object_functions(functions, known, text, hints)
  PROVE  \/ found = Refused
         \/ found = {}
         \/ InferredWell(found, functions, F, known, text, hints)
<1> DEFINE taken  == Clip(known, text)
           gaps   == Gaps(Range(taken), text)
           T      == HintedSegments(gaps, hints)
           hinted == InOrder(SettleHint, [left |-> functions, placed |-> {}, claimed |-> {}], T)
           U      == Gaps(Range(taken) \cup hinted.claimed, text)
           packed == InOrder(PackGap, [left |-> hinted.left, placed |-> hinted.placed, loose |-> FALSE], U)
<1> SUFFICES ASSUME found # Refused, found # {}
             PROVE  InferredWell(found, functions, F, known, text, hints)
  OBVIOUS
<1>1. /\ ~(text[1] >= text[2]) /\ ~Overlapping(taken) /\ ~GiveUp(packed) /\ found = packed.placed
  BY Zenon DEF infer_hidden_object_functions
<1>2. IsText(text)
  BY <1>1 DEF IsText
<1>3. ProperIn(Range(taken), text)
  BY <1>2, ClipFacts
<1> HIDE DEF taken
<1>4. /\ T \in SUBSET (Nat \X Nat) /\ IsFiniteSet(T) /\ text[2] \in Nat
      /\ \A s \in T : s[1] <= text[2]
      /\ \A s, t \in T : s # t => s[1] # t[1]
  BY <1>2, <1>3, SegmentsAreGood
<1> HIDE DEF T
<1>5. Settled(functions, F, hinted, T)
  BY <1>4, SettleLoopSettles
<1> HIDE DEF hinted
<1>6. ClaimsLieWell(hinted, Range(taken), text, hints)
  BY <1>2, <1>3, <1>5, SettledLiesWell DEF T
<1>7. hinted \in SettleStates(F) /\ Matched(functions, hinted.left, hinted.placed)
  BY <1>5 DEF Settled
<1>8. ProperIn(Range(taken) \cup hinted.claimed, text)
  BY <1>3, <1>6 DEF ClaimsLieWell, ProperIn
<1>9. IsFiniteSet(U)
  BY <1>2, <1>8, GapsAreFinite
<1>10. ASSUME NEW gap \in U PROVE IsGap(gap) /\ gap[1] <= text[2]
  <2>1. Proper(gap) /\ Within(gap, text) /\ gap[1] \in Nat /\ gap[2] \in Nat
    BY <1>2, <1>8, GapFacts
  <2> QED
    BY <2>1 DEF IsGap, Proper, Within, IsText
<1>11. \A g, h \in U : g # h => g[2] <= h[1] \/ h[2] <= g[1]
  BY <1>2, <1>8, GapsApart
<1>12. ASSUME NEW gap \in U, NEW h \in hinted.placed
       PROVE  h.size > 0 /\ ~Clashes(Span(h), gap)
  <2>1. h.size > 0 /\ h.size \in Nat /\ h.address \in Nat
    BY <1>6, <1>7 DEF ClaimsLieWell, SettleStates, Placement
  <2>2. PICK c \in hinted.claimed : Within(Span(h), c)
    BY <1>6 DEF ClaimsLieWell
  <2>3. Proper(c) /\ ~Clashes(c, gap) /\ gap[1] \in Nat /\ gap[2] \in Nat
    BY <1>2, <1>8, GapFacts DEF ProperIn
  <2> QED
    BY <2>1, <2>2, <2>3 DEF Within, Proper, Clashes, Span
<1> HIDE DEF U
<1>13. hinted.placed \in SUBSET Placement(F) /\ hinted.left \in Seq(F)
  BY <1>7 DEF SettleStates
<1>14. PackedWell(functions, F, hinted.placed, packed, U)
  BY <1>4, <1>7, <1>9, <1>10, <1>11, <1>12, <1>13, PackLoopPacks
<1> HIDE DEF packed
<1>15. ~packed.loose /\ packed.left = <<>>
  BY <1>1, Zenon DEF GiveUp
<1>16. PlacedWell(packed.placed, functions, F, Range(taken), text, hints)
  BY <1>2, <1>3, <1>6, <1>7, <1>14, <1>15, PackedLiesWell DEF U
<1> QED
  BY <1>1, <1>2, <1>16 DEF InferredWell, taken

\* A function of the object has as many places as it has entries.
LEMMA MatchedCounts ==
  ASSUME NEW functions, IsFiniteSet(DOMAIN functions), NEW placed, Matched(functions, <<>>, placed),
         NEW f, \A k \in DOMAIN functions :
                  functions[k].name = f.name /\ functions[k].size = f.size => functions[k] = f
  PROVE  Cardinality({g \in placed : g.name = f.name /\ g.size = f.size}) =
         Cardinality({k \in DOMAIN functions : functions[k] = f})
<1> DEFINE S == {g \in placed : g.name = f.name /\ g.size = f.size}
           K == {k \in DOMAIN functions : functions[k] = f}
<1>1. PICK m, l : Matching(functions, <<>>, placed, m, l)
  BY DEF Matched
<1>2. \A k \in DOMAIN functions : \E g \in placed : m[g] = k
  BY <1>1 DEF Matching
<1> DEFINE p == [k \in K |-> CHOOSE g \in placed : m[g] = k]
<1>3. \A k \in K : p[k] \in placed /\ m[p[k]] = k
  BY <1>2
<1>4. \A k \in K : p[k] \in S
  BY <1>1, <1>3 DEF Matching
<1>5. \A g \in S : m[g] \in K /\ p[m[g]] = g
  <2>1. \A g \in S : m[g] \in K
    BY <1>1 DEF Matching
  <2>2. \A g \in S : m[p[m[g]]] = m[g] /\ p[m[g]] \in placed
    BY <1>3, <2>1
  <2> QED
    BY <1>1, <2>1, <2>2 DEF Matching
<1>6. p \in [K -> S]
  BY <1>4
<1> HIDE DEF p
<1>7. p \in Bijection(K, S)
  BY <1>3, <1>5, <1>6 DEF Bijection, Injection, IsInjective, Surjection
<1>8. IsFiniteSet(K)
  BY FS_Subset
<1>9. ExistsBijection(K, S)
  BY <1>7 DEF ExistsBijection
<1> QED
  BY <1>8, <1>9, FS_Bijection

-----------------------------------------------------------------------------
(* derive_manual_functions. *)

Pseudos(object, absolute) == {s \in Range(object.symbols) : IsPseudo(s, object, absolute)}

\* The list handed to the inference holds pseudo-functions of the object only.
LEMMA PseudoFunctionsAreListed ==
  ASSUME NEW object, NEW absolute, object.symbols \in Seq(Range(object.symbols))
  PROVE  PseudoFunctions(object, absolute) \in Seq(Pseudos(object, absolute))
<1> DEFINE table == object.symbols
           T == 1..Len(table)
           V == Seq(Pseudos(object, absolute))
           Next1(list, s) == IF IsPseudo(s, object, absolute) THEN Append(list, s) ELSE list
           iter == CHOOSE iter : iter = [S \in SUBSET T |->
                     IF S = {} THEN <<>> ELSE Next1(iter[S \ {Max(S)}], table[Max(S)])]
           pick == [S \in SUBSET T |-> Max(S)]
           step == [x \in T \X V |-> Next1(x[2], table[x[1]])]
<1>1. Len(table) \in Nat /\ DOMAIN table = T
  OBVIOUS
<1>2. PseudoFunctions(object, absolute) = iter[T]
  BY <1>1, Zenon DEF PseudoFunctions, FoldLeft, MapThenFoldSet
<1>3. IsFiniteSet(T) /\ \A S \in SUBSET T : S # {} => Max(S) \in S
  <2>1. IsFiniteSet(T)
    BY <1>1, FS_Interval
  <2>2. \A S \in SUBSET T : S # {} => Max(S) \in S
    BY <1>1, MaxOfIndices
  <2> QED
    BY <2>1, <2>2
<1>4. <<>> \in V
  OBVIOUS
<1>5. step \in [T \X V -> V]
  <2>1. ASSUME NEW k \in T, NEW list \in V PROVE Next1(list, table[k]) \in V
    <3>1. table[k] \in Range(table)
      BY <1>1 DEF Range
    <3> QED
      BY <3>1 DEF Pseudos
  <2> HIDE DEF V, T, Next1
  <2> QED
    BY <2>1
<1>6. Picks(pick, T)
  BY <1>3 DEF Picks
<1>7. PICK h \in [SUBSET T -> V] : Recurses(h, T, <<>>, pick, step)
  <2> HIDE DEF pick, step, T, V
  <2> QED
    BY <1>3, <1>4, <1>5, <1>6, RecursionExists
<1>8. ASSUME NEW S \in SUBSET T
      PROVE  h[S] = IF S = {} THEN <<>> ELSE Next1(h[S \ {Max(S)}], table[Max(S)])
  <2>1. CASE S = {}
    BY <1>7, <2>1 DEF Recurses
  <2>2. CASE S # {}
    <3>1. Max(S) \in T /\ S \ {Max(S)} \in SUBSET T
      BY <1>3, <2>2
    <3>2. h[S] = step[<<Max(S), h[S \ {Max(S)}]>>]
      BY <1>7, <2>2 DEF Recurses
    <3>3. <<Max(S), h[S \ {Max(S)}]>> \in T \X V
      BY <1>7, <3>1
    <3> HIDE DEF Next1, T, V
    <3> QED
      BY <2>2, <3>2, <3>3
  <2> QED
    BY <2>1, <2>2
<1> HIDE DEF Next1
<1>9. h = [S \in SUBSET T |-> IF S = {} THEN <<>> ELSE Next1(h[S \ {Max(S)}], table[Max(S)])]
  BY <1>8
<1>10. iter = [S \in SUBSET T |-> IF S = {} THEN <<>> ELSE Next1(iter[S \ {Max(S)}], table[Max(S)])]
  BY <1>9, Zenon
<1> HIDE DEF iter
<1>11. \A S \in SUBSET T :
         iter[S] = IF S = {} THEN <<>> ELSE Next1(iter[S \ {Max(S)}], table[Max(S)])
  BY <1>10, Zenon
<1> DEFINE Good == {S \in SUBSET T : iter[S] = h[S]}
<1>12. \A S \in SUBSET T : S \in Good
  <2>1. {} \in Good
    BY <1>8, <1>11
  <2>2. ASSUME NEW S \in SUBSET T, S # {}, \A x \in S : S \ {x} \in Good
        PROVE  S \in Good
    <3>1. iter[S \ {Max(S)}] = h[S \ {Max(S)}]
      BY <1>3, <2>2
    <3> QED
      BY <1>8, <1>11, <2>2, <3>1
  <2>3. Good \in SUBSET (SUBSET T)
    OBVIOUS
  <2> HIDE DEF Good, T
  <2> QED
    BY <1>3, <2>1, <2>2, <2>3, SubsetInduction
<1>13. iter[T] \in V
  BY <1>7, <1>12
<1> QED
  BY <1>2, <1>13

\* The functions recovered in an object lie in its text.
LiesIn(f, object) ==
  /\ f.address \in Nat /\ f.size \in Nat /\ f.size > 0 /\ Within(Span(f), object.text)

\* In a sound object, what the audit and the linker script name lies in its text.
LEMMA ManualLiesIn ==
  ASSUME NEW object, ObjectWellFormed(object),
         NEW absolute, \A n \in DOMAIN absolute : absolute[n] \in Nat,
         ~Unsound(object, absolute)
  PROVE  /\ \A k \in DOMAIN Anonymous(object) :
              LiesIn(Anonymous(object)[k], object) /\ IsName(Anonymous(object)[k].name)
         /\ \A k \in DOMAIN Backed(object, absolute) :
              LiesIn(Backed(object, absolute)[k], object) /\ IsName(Backed(object, absolute)[k].name)
<1>1. object.text[1] \in Nat /\ object.text[2] \in Nat
  BY DEF ObjectWellFormed
<1>2. ASSUME NEW k \in DOMAIN Anonymous(object)
      PROVE  LiesIn(Anonymous(object)[k], object) /\ IsName(Anonymous(object)[k].name)
  <2> DEFINE f == Anonymous(object)[k]
  <2>1. k \in DOMAIN object.anonymous
    BY DEF Anonymous
  <2>2. f = [name |-> object.anonymous[k].name, size |-> object.anonymous[k].size,
             address |-> object.text[1] + object.anonymous[k].offset]
    BY <2>1 DEF Anonymous
  <2>3. object.anonymous[k] \in Range(object.anonymous)
    BY <2>1 DEF Range
  <2>4. /\ IsName(object.anonymous[k].name)
        /\ object.anonymous[k].offset \in Nat /\ object.anonymous[k].size \in Nat
    BY <2>3 DEF ObjectWellFormed
  <2>5. f \in Range(Anonymous(object))
    BY DEF Range
  <2> HIDE DEF f
  <2>6. Fits(f, object)
    BY <2>5 DEF Unsound
  <2>7. f.address \in Nat /\ f.size \in Nat
    BY <1>1, <2>2, <2>4
  <2>8. IsName(f.name)
    BY <2>2, <2>4
  <2> QED
    BY <2>6, <2>7, <2>8 DEF LiesIn, Fits, f
<1>3. ASSUME NEW k \in DOMAIN Backed(object, absolute)
      PROVE  LiesIn(Backed(object, absolute)[k], object) /\ IsName(Backed(object, absolute)[k].name)
  <2> DEFINE f == Backed(object, absolute)[k]
             s == object.symbols[k]
  <2>1. /\ k \in DOMAIN object.symbols /\ s.name \in DOMAIN absolute
        /\ f = [name |-> s.name, address |-> absolute[s.name], size |-> s.size]
    BY DEF Backed
  <2>2. s \in Range(object.symbols)
    BY <2>1 DEF Range
  <2>3. f \in Range(Backed(object, absolute))
    BY DEF Range
  <2> HIDE DEF f, s
  <2>4. Fits(f, object)
    BY <2>3 DEF Unsound
  <2>5. IsName(s.name) /\ s.size \in Nat /\ absolute[s.name] \in Nat
    BY <2>1, <2>2 DEF ObjectWellFormed
  <2>6. f.address \in Nat /\ f.size \in Nat
    BY <2>1, <2>5
  <2>7. IsName(f.name)
    BY <2>1, <2>5
  <2> QED
    BY <2>4, <2>6, <2>7 DEF LiesIn, Fits, f
<1> QED
  BY <1>2, <1>3

\* Every interval that counts as taken stays in the text.
LEMMA KnownLiesIn ==
  ASSUME NEW object, ObjectWellFormed(object),
         NEW absolute, \A n \in DOMAIN absolute : absolute[n] \in Nat,
         ~Unsound(object, absolute), NEW known, known = KnownIntervals(object, absolute)
  PROVE  /\ \A i \in DOMAIN known : Proper(known[i]) /\ Within(known[i], object.text)
         /\ \A s \in DefinedIn(object) : Within(Body(object, s), object.text) =>
              \E i \in DOMAIN known : known[i] = Body(object, s)
         /\ \A f \in Manual(object, absolute) : \E i \in DOMAIN known : known[i] = Span(f)
<1> DEFINE anonymous == Anonymous(object)
           backed == Backed(object, absolute)
           D1 == {"anonymous"} \X DOMAIN anonymous
           D2 == {"backed"} \X DOMAIN backed
           D3 == {"staying"} \X Staying(object)
<1>1. known = [i \in D1 \cup D2 \cup D3 |->
                 IF i[1] = "anonymous" THEN Span(anonymous[i[2]])
                 ELSE IF i[1] = "backed" THEN Span(backed[i[2]])
                 ELSE Body(object, object.symbols[i[2]])]
  BY DEF KnownIntervals
<1> HIDE DEF anonymous, backed
<1>2. /\ DOMAIN known = D1 \cup D2 \cup D3
      /\ \A k \in DOMAIN anonymous : /\ <<"anonymous", k>> \in DOMAIN known
                                     /\ known[<<"anonymous", k>>] = Span(anonymous[k])
      /\ \A k \in DOMAIN backed : /\ <<"backed", k>> \in DOMAIN known
                                  /\ known[<<"backed", k>>] = Span(backed[k])
      /\ \A k \in Staying(object) : /\ <<"staying", k>> \in DOMAIN known
                                    /\ known[<<"staying", k>>] = Body(object, object.symbols[k])
  BY <1>1
<1>3. \A i \in DOMAIN known :
        \/ \E k \in DOMAIN anonymous : i = <<"anonymous", k>>
        \/ \E k \in DOMAIN backed : i = <<"backed", k>>
        \/ \E k \in Staying(object) : i = <<"staying", k>>
  BY <1>2
<1>4. /\ \A k \in DOMAIN anonymous : LiesIn(anonymous[k], object)
      /\ \A k \in DOMAIN backed : LiesIn(backed[k], object)
  BY ManualLiesIn DEF anonymous, backed
<1>5. \A f : LiesIn(f, object) => Proper(Span(f)) /\ Within(Span(f), object.text)
  BY DEF LiesIn, Proper, Span
<1>6. ASSUME NEW k \in Staying(object)
      PROVE  LET b == Body(object, object.symbols[k]) IN Proper(b) /\ Within(b, object.text)
  <2> DEFINE s == object.symbols[k]
  <2>1. s \in DefinedIn(object) /\ Within(Body(object, s), object.text)
    BY DEF Staying
  <2>2. s.value \in Nat /\ s.size \in Nat /\ s.size > 0 /\ object.text[1] \in Nat
    BY <2>1 DEF DefinedIn, ObjectWellFormed
  <2> HIDE DEF s
  <2>3. Proper(Body(object, s))
    BY <2>2 DEF Proper, Body
  <2> QED
    BY <2>1, <2>3 DEF s
<1> HIDE DEF D1, D2, D3
<1>7. \A i \in DOMAIN known : Proper(known[i]) /\ Within(known[i], object.text)
  BY <1>2, <1>3, <1>4, <1>5, <1>6
<1>8. ASSUME NEW s \in DefinedIn(object), Within(Body(object, s), object.text)
      PROVE  \E i \in DOMAIN known : known[i] = Body(object, s)
  <2>1. PICK k \in DOMAIN object.symbols : object.symbols[k] = s
    BY DEF DefinedIn, Range
  <2>2. k \in Staying(object)
    BY <1>8, <2>1 DEF Staying
  <2> QED
    BY <1>2, <2>1, <2>2
<1>9. ASSUME NEW f \in Manual(object, absolute)
      PROVE  \E i \in DOMAIN known : known[i] = Span(f)
  <2>1. CASE f \in Range(anonymous)
    <3>1. PICK k \in DOMAIN anonymous : anonymous[k] = f
      BY <2>1 DEF Range
    <3> QED
      BY <1>2, <3>1
  <2>2. CASE f \in Range(backed)
    <3>1. PICK k \in DOMAIN backed : backed[k] = f
      BY <2>2 DEF Range
    <3> QED
      BY <1>2, <3>1
  <2> QED
    BY <2>1, <2>2 DEF Manual, anonymous, backed
<1> QED
  BY <1>7, <1>8, <1>9

\* What the inference finds in an object lies in its text, apart from all that is known there.
LEMMA HiddenLiesIn ==
  ASSUME NEW object, ObjectWellFormed(object),
         NEW absolute, \A n \in DOMAIN absolute : absolute[n] \in Nat,
         ~Unsound(object, absolute), Hidden(object, absolute) # Refused
  PROVE  LET hidden == Hidden(object, absolute)
             known  == {Body(object, s) : s \in {t \in DefinedIn(object) :
                                                   Within(Body(object, t), object.text)}}
                         \cup {Span(f) : f \in Manual(object, absolute)}
         IN  /\ \A f \in hidden : LiesIn(f, object) /\ IsName(f.name)
             /\ hidden # {} => \A a, b \in known \cup {Span(f) : f \in hidden} :
                                 a # b => ~Clashes(a, b)
<1> DEFINE hidden == Hidden(object, absolute)
           known  == KnownIntervals(object, absolute)
           text   == object.text
           F      == Pseudos(object, absolute)
           Taken  == {Body(object, s) : s \in {t \in DefinedIn(object) :
                                                 Within(Body(object, t), object.text)}}
                       \cup {Span(f) : f \in Manual(object, absolute)}
           A      == Range(Clip(known, text))
<1>1. /\ text \in Nat \X Nat /\ object.calls \in SUBSET Int
      /\ object.symbols \in Seq(Range(object.symbols))
      /\ \A s \in Range(object.symbols) : s.size \in Nat
  BY DEF ObjectWellFormed
<1>2. PseudoFunctions(object, absolute) \in Seq(F)
  BY <1>1, PseudoFunctionsAreListed
<1>3. HasSizes(F)
  BY <1>1 DEF HasSizes, Pseudos, IsPseudo
<1>4. hidden = infer_hidden_object_functions(PseudoFunctions(object, absolute), known, text, object.calls)
  BY DEF Hidden
<1>5. /\ \A i \in DOMAIN known : Proper(known[i]) /\ Within(known[i], text)
      /\ \A s \in DefinedIn(object) : Within(Body(object, s), text) =>
           \E i \in DOMAIN known : known[i] = Body(object, s)
      /\ \A f \in Manual(object, absolute) : \E i \in DOMAIN known : known[i] = Span(f)
  BY KnownLiesIn
<1> HIDE DEF hidden, known, F
<1>6. hidden = {} \/ InferredWell(hidden, PseudoFunctions(object, absolute), F, known, text, object.calls)
  BY <1>1, <1>2, <1>3, <1>4, <1>5, InferenceFits DEF hidden
<1>7. CASE hidden = {}
  BY <1>7 DEF hidden
<1>8. ASSUME InferredWell(hidden, PseudoFunctions(object, absolute), F, known, text, object.calls)
      PROVE  /\ \A f \in hidden : LiesIn(f, object) /\ IsName(f.name)
             /\ \A a, b \in Taken \cup {Span(f) : f \in hidden} : a # b => ~Clashes(a, b)
  <2>1. /\ IsText(text) /\ ~Overlapping(Clip(known, text)) /\ hidden \in SUBSET Placement(F)
        /\ \A g \in hidden : g.size > 0 /\ Within(Span(g), text) /\ \A a \in A : ~Clashes(Span(g), a)
        /\ \A g, h \in hidden : g # h => ~Clashes(Span(g), Span(h))
    BY <1>8 DEF InferredWell, PlacedWell
  <2>2. \A f \in hidden : LiesIn(f, object) /\ IsName(f.name)
    <3>1. \A f \in hidden : LiesIn(f, object)
      BY <2>1 DEF LiesIn, Placement
    <3>2. \A f \in hidden : \E s \in F : f.name = s.name
      BY <2>1 DEF Placement
    <3>3. \A s \in F : IsName(s.name)
      BY DEF F, Pseudos, ObjectWellFormed
    <3> QED
      BY <3>1, <3>2, <3>3
  <2>3. \A i \in DOMAIN known : i \in DOMAIN Clip(known, text) /\ Clip(known, text)[i] = known[i]
    BY <1>5, <2>1, ClipFacts
  <2>4. \A a \in Taken : \E i \in DOMAIN known : known[i] = a
    BY <1>5
  <2> HIDE DEF Taken
  <2>5. ASSUME NEW a \in Taken, NEW b \in Taken, a # b PROVE ~Clashes(a, b)
    <3>1. PICK i \in DOMAIN known : known[i] = a
      BY <2>4
    <3>2. PICK j \in DOMAIN known : known[j] = b
      BY <2>4
    <3> QED
      BY <2>1, <2>3, <2>5, <3>1, <3>2 DEF Overlapping
  <2>6. ASSUME NEW a \in Taken, NEW f \in hidden PROVE ~Clashes(a, Span(f)) /\ ~Clashes(Span(f), a)
    <3>1. a \in A
      BY <2>3, <2>4 DEF Range
    <3>2. ~Clashes(Span(f), a)
      BY <2>1, <3>1
    <3> QED
      BY <3>2 DEF Clashes
  <2>7. \A f, g \in hidden : Span(f) # Span(g) => ~Clashes(Span(f), Span(g))
    BY <2>1
  <2> QED
    BY <2>2, <2>5, <2>6, <2>7
<1> QED
  BY <1>6, <1>7, <1>8 DEF hidden

\* A recovered function has a name, a section, an address and a size.
LEMMA CandidatesAreTyped ==
  ASSUME NEW objects, \A o \in objects : ObjectWellFormed(o),
         NEW absolute, \A n \in DOMAIN absolute : absolute[n] \in Nat,
         ~\E o \in objects : Unsound(o, absolute) \/ Hidden(o, absolute) = Refused,
         NEW f \in Candidates(objects, absolute)
  PROVE  /\ f = [name |-> f.name, section |-> f.section, address |-> f.address, size |-> f.size]
         /\ IsName(f.name) /\ f.address \in Nat
<1>1. PICK o \in objects :
        f \in {[name |-> g.name, section |-> o.section, address |-> g.address, size |-> g.size] :
                 g \in Manual(o, absolute) \cup Hidden(o, absolute)}
  BY DEF Candidates
<1>2. PICK g \in Manual(o, absolute) \cup Hidden(o, absolute) :
        f = [name |-> g.name, section |-> o.section, address |-> g.address, size |-> g.size]
  BY <1>1
<1>3. LiesIn(g, o) /\ IsName(g.name)
  <2>1. CASE g \in Hidden(o, absolute)
    BY <2>1, HiddenLiesIn
  <2>2. CASE g \in Manual(o, absolute)
    BY <2>2, ManualLiesIn DEF Manual, Range
  <2> QED
    BY <1>2, <2>1, <2>2
<1>4. g.address \in Nat
  BY <1>3 DEF LiesIn
<1> QED
  BY <1>2, <1>3, <1>4

\* A function that the linker script backs lies where the linker script says.
LEMMA BackedIsPlaced ==
  ASSUME NEW f, NEW objects, NEW absolute, IsBacked(f, objects, absolute)
  PROVE  f.address = absolute[f.name]
<1>1. PICK o \in objects : \E b \in Range(Backed(o, absolute)) :
        b.name = f.name /\ b.address = f.address
  BY DEF IsBacked
<1>2. PICK k \in DOMAIN Backed(o, absolute) :
        Backed(o, absolute)[k].name = f.name /\ Backed(o, absolute)[k].address = f.address
  BY <1>1 DEF Range
<1> DEFINE s == o.symbols[k]
<1>3. Backed(o, absolute)[k] = [name |-> s.name, address |-> absolute[s.name], size |-> s.size]
  BY DEF Backed
<1> HIDE DEF s
<1> QED
  BY <1>2, <1>3

\* A name with an address behind it tells both.
LEMMA AppendedApart ==
  ASSUME NEW n, IsName(n), NEW m, IsName(m), NEW a, NEW b, Append(n, a) = Append(m, b)
  PROVE  n = m /\ a = b
<1> DEFINE S == Range(n) \cup Range(m) \cup {a, b}
<1>1. n \in Seq(S)
  <2>1. DOMAIN n = 1..Len(n)
    BY DEF IsName
  <2>2. \A k \in 1..Len(n) : n[k] \in S
    BY <2>1 DEF Range
  <2> HIDE DEF S
  <2>3. n \in [1..Len(n) -> S]
    BY <2>2 DEF IsName
  <2> QED
    BY <2>3 DEF IsName
<1>2. m \in Seq(S)
  <2>1. DOMAIN m = 1..Len(m)
    BY DEF IsName
  <2>2. \A k \in 1..Len(m) : m[k] \in S
    BY <2>1 DEF Range
  <2> HIDE DEF S
  <2>3. m \in [1..Len(m) -> S]
    BY <2>2 DEF IsName
  <2> QED
    BY <2>3 DEF IsName
<1>3. a \in S /\ b \in S
  OBVIOUS
<1> HIDE DEF S
<1> QED
  BY <1>1, <1>2, <1>3, AppendInjective

-----------------------------------------------------------------------------
(* derive_function_sizes. *)

\* NextAddress is the next symbol of the section, or the end if there is none.
LEMMA NextAddressFacts ==
  ASSUME NEW symbols, \A t \in symbols : t.value \in Nat, NEW s \in symbols,
         NEW end \in Nat, s.value < end
  PROVE  LET next == NextAddress(s, end, symbols) IN
         /\ next \in {t.value : t \in symbols} \cup {end}
         /\ next \in Nat /\ next <= end
         /\ \A t \in symbols : t.section = s.section /\ s.value < t.value => next <= t.value
<1> DEFINE S == {t.value : t \in {u \in symbols : /\ u.section = s.section
                                                  /\ u.value > s.value /\ u.value <= end}} \cup {end}
           next == NextAddress(s, end, symbols)
<1>1. S \in SUBSET Nat /\ S # {}
  OBVIOUS
<1>2. next = Min(S)
  BY DEF NextAddress
<1>3. next \in S /\ \A m \in S : next <= m
  BY <1>1, <1>2, LeastOfNumbers
<1>4. next \in {t.value : t \in symbols} \cup {end}
  BY <1>3
<1>5. next \in Nat /\ next <= end
  BY <1>1, <1>3
<1>6. ASSUME NEW t \in symbols, t.section = s.section, s.value < t.value
      PROVE  next <= t.value
  <2>1. CASE t.value <= end
    BY <1>3, <1>6, <2>1
  <2>2. CASE ~(t.value <= end)
    BY <1>5, <2>2
  <2> QED
    BY <2>1, <2>2
<1> QED
  BY <1>4, <1>5, <1>6

\* The derived size ends at the end of the text or at a symbol, with no symbol in between.
LEMMA DerivedSizeIsExact ==
  ASSUME NEW symbols, NEW ranges, NEW s \in Unsized(symbols),
         \A t \in symbols : t.value \in Nat,
         ranges[s.section] \subseteq Nat \X Nat,
         Sizable(s, ranges, symbols)
  PROVE  LET z == DerivedSize(s, ranges, symbols) IN
         /\ s.value + z \in {r[2] : r \in Containing(s, ranges)} \cup {t.value : t \in symbols}
         /\ \E r \in Containing(s, ranges) : s.value + z <= r[2]
         /\ ~\E t \in symbols : /\ t.section = s.section
                                /\ s.value < t.value /\ t.value < s.value + z
<1> DEFINE r == CHOOSE r \in Containing(s, ranges) : TRUE
           z == DerivedSize(s, ranges, symbols)
           next == NextAddress(s, r[2], symbols)
<1>1. s \in symbols /\ s.value \in Nat
  BY DEF Unsized
<1>2. Containing(s, ranges) # {}
  BY FS_EmptySet DEF Sizable
<1>3. r \in Containing(s, ranges)
  BY <1>2
<1>4. r[2] \in Nat /\ s.value < r[2]
  BY <1>3 DEF Containing
<1>5. z = next - s.value
  BY DEF DerivedSize
<1> HIDE DEF r, z, next
<1>6. /\ next \in {t.value : t \in symbols} \cup {r[2]}
      /\ next \in Nat /\ next <= r[2]
      /\ \A t \in symbols : t.section = s.section /\ s.value < t.value => next <= t.value
  BY <1>1, <1>4, NextAddressFacts DEF next
<1>7. s.value + z = next
  BY <1>1, <1>5, <1>6
<1>8. next \in {q[2] : q \in Containing(s, ranges)} \cup {t.value : t \in symbols}
  BY <1>3, <1>6
<1>9. \E q \in Containing(s, ranges) : next <= q[2]
  BY <1>3, <1>6
<1>10. ~\E t \in symbols : t.section = s.section /\ s.value < t.value /\ t.value < next
  BY <1>6
<1> QED
  BY <1>7, <1>8, <1>9, <1>10 DEF z

=============================================================================
