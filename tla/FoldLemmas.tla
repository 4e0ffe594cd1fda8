----------------------------- MODULE FoldLemmas -----------------------------
(***************************************************************************)
(* What the folds of the community modules compute, for operands of any    *)
(* size: sums of sequences of numbers, concatenations of sequences of      *)
(* sequences, and numbering a finite set by a key.                         *)
(*                                                                         *)
(* A fold is defined by a function on the subsets of its operand's         *)
(* domain, chosen by its recursion.  That there is one is shown once for   *)
(* every base and step (FoldExists); what it is at each operand follows by *)
(* taking a smallest subset, or number, it fails to hold of.               *)
(***************************************************************************)
EXTENDS Integers, FiniteSets, SequencesExt, FiniteSetTheorems, WellFoundedInduction, TLAPS

(* A function on the subsets of S that takes one element at a time, the one *)
(* pick names, into account.                                                *)
Iterates(iter, S, base, step, pick) ==
    iter = [s \in SUBSET S |->
              IF s = {} THEN base ELSE step[pick[s]][iter[s \ {pick[s]}]]]

(* A nonempty set of naturals has a least element.                          *)
LEMMA LeastElement ==
    ASSUME NEW T \in SUBSET Nat, T # {}
    PROVE  \E x \in T : \A y \in T : x <= y
  <1> DEFINE Below == {p \in Nat \X Nat : p[1] < p[2]}
  <1>1. IsWellFoundedOn(Below, Nat)
    <2>1. IsWellFoundedOn(OpToRel(<, Nat), Nat)
      BY NatLessThanWellFounded
    <2>2. QED
      BY <2>1 DEF OpToRel
  <1>2. PICK x \in T : \A y \in T : ~(<<y, x>> \in Below)
    <2> HIDE DEF Below
    <2>1. QED
      BY <1>1, WFMin
  <1>3. \A y \in T : y < x => <<y, x>> \in Below
    OBVIOUS
  <1>4. \A y \in T : ~(y < x)
    <2> HIDE DEF Below
    <2>1. QED
      BY <1>2, <1>3
  <1>5. QED
    BY <1>4

(* Induction over the size of the subsets of a finite set: what holds of a  *)
(* set as soon as it holds of the smaller ones holds of all of them.        *)
LEMMA SubsetInduction ==
    ASSUME NEW S, IsFiniteSet(S), NEW Good \in SUBSET (SUBSET S),
           \A s \in SUBSET S :
              (\A t \in SUBSET s : t # s => t \in Good) => s \in Good
    PROVE  Good = SUBSET S
  <1> SUFFICES ASSUME Good # SUBSET S PROVE FALSE
    OBVIOUS
  <1> DEFINE Bad == (SUBSET S) \ Good
             Sizes == {Cardinality(s) : s \in Bad}
  <1>1. \A s \in SUBSET S : IsFiniteSet(s) /\ Cardinality(s) \in Nat
    BY FS_Subset, FS_CardinalityType
  <1>2. PICK n \in Sizes : \A m \in Sizes : n <= m
    <2>1. Sizes \in SUBSET Nat /\ Sizes # {}
      BY <1>1
    <2>2. QED
      BY <2>1, LeastElement
  <1>3. PICK s \in Bad : Cardinality(s) = n
    OBVIOUS
  <1>4. ASSUME NEW t \in SUBSET s, t # s
        PROVE  t \in Good
    <2>1. Cardinality(t) < Cardinality(s)
      BY <1>1, <1>4, FS_Subset
    <2>2. t \in Bad => Cardinality(t) \in Sizes
      OBVIOUS
    <2>3. t \in SUBSET S /\ Cardinality(t) \in Nat /\ Cardinality(s) \in Nat
      BY <1>1
    <2> HIDE DEF Sizes
    <2>4. t \notin Bad
      BY <2>1, <2>2, <2>3, <1>2, <1>3
    <2>5. QED
      BY <2>3, <2>4
  <1>5. QED
    BY <1>3, <1>4

(* A function that picks an element of each of many nonempty sets.          *)
LEMMA ChoiceFunction ==
    ASSUME NEW D, NEW sets, \A d \in D : sets[d] # {}
    PROVE  \E of : \A d \in D : of[d] \in sets[d]
  <1> DEFINE of == [d \in D |-> CHOOSE x \in sets[d] : TRUE]
  <1>1. \A d \in D : of[d] \in sets[d]
    OBVIOUS
  <1>2. QED
    BY <1>1

(* A fold over a finite set, with values in V.                              *)
CanFold(S, V, base, step, pick) ==
    /\ IsFiniteSet(S)
    /\ base \in V
    /\ step \in [S -> [V -> V]]
    /\ \A s \in SUBSET S : s # {} => pick[s] \in s

(* Such a fold has its function.                                            *)
LEMMA FoldExists ==
    ASSUME NEW S, NEW V, NEW base, NEW step, NEW pick,
           CanFold(S, V, base, step, pick)
    PROVE  \E iter \in [SUBSET S -> V] : Iterates(iter, S, base, step, pick)
  <1> USE DEF CanFold
  <1> DEFINE Part(t) == {iter \in [SUBSET t -> V] : Iterates(iter, t, base, step, pick)}
             Good == {t \in SUBSET S : Part(t) # {}}
  <1>0. ASSUME NEW t \in SUBSET S, NEW u \in SUBSET t, NEW a \in Part(t), NEW b \in Part(u),
               NEW s \in SUBSET u
        PROVE  a[s] = b[s]
    <2> DEFINE Same == {r \in SUBSET u : a[r] = b[r]}
    <2>1. IsFiniteSet(u)
      BY FS_Subset
    <2>2. ASSUME NEW r \in SUBSET u, \A q \in SUBSET r : q # r => q \in Same
          PROVE  r \in Same
      <3>1. CASE r = {}
        BY <3>1 DEF Iterates
      <3>2. CASE r # {}
        <4>1. pick[r] \in r
          BY <3>2
        <4>2. r \ {pick[r]} \in Same
          BY <4>1, <2>2
        <4>3. /\ a[r] = step[pick[r]][a[r \ {pick[r]}]]
              /\ b[r] = step[pick[r]][b[r \ {pick[r]}]]
          BY <3>2 DEF Iterates
        <4>4. QED
          BY <4>2, <4>3
      <3>3. QED
        BY <3>1, <3>2
    <2>3. Same = SUBSET u
      <3>1. Same \in SUBSET (SUBSET u)
        OBVIOUS
      <3> HIDE DEF Same, Part, Good
      <3>2. \A r \in SUBSET u : (\A q \in SUBSET r : q # r => q \in Same) => r \in Same
        BY <2>2
      <3>3. QED
        BY <2>1, <3>1, <3>2, SubsetInduction
    <2>4. QED
      BY <2>3
  <1>1. ASSUME NEW t \in SUBSET S, \A u \in SUBSET t : u # t => u \in Good
        PROVE  t \in Good
    <2>1. PICK of : \A u \in Good : of[u] \in Part(u)
      <3> DEFINE parts == [u \in Good |-> Part(u)]
      <3>1. \A u \in Good : parts[u] = Part(u) /\ Part(u) # {}
        OBVIOUS
      <3> HIDE DEF Part, Good, parts
      <3>2. \A u \in Good : parts[u] # {}
        BY <3>1
      <3>3. \E of : \A u \in Good : of[u] \in parts[u]
        BY <3>2, ChoiceFunction
      <3>4. QED
        BY <3>1, <3>3
    <2> DEFINE down(s) == of[s \ {pick[s]}][s \ {pick[s]}]
               iter == [s \in SUBSET t |-> IF s = {} THEN base ELSE step[pick[s]][down(s)]]
    <2>2. \A s \in SUBSET t : s # {} => s \ {pick[s]} \in Good /\ pick[s] \in S
      <3>1. \A s \in SUBSET t : s # {} => pick[s] \in s
        OBVIOUS
      <3>2. QED
        BY <3>1, <1>1
    <2>3. \A s \in SUBSET t : s # {} => down(s) \in V
      <3>1. \A u \in Good : of[u] \in [SUBSET u -> V]
        BY <2>1
      <3>2. ASSUME NEW s \in SUBSET t, s # {}
            PROVE  down(s) \in V
        <4> DEFINE u == s \ {pick[s]}
        <4>1. of[u] \in [SUBSET u -> V]
          BY <2>2, <3>1, <3>2
        <4> HIDE DEF u
        <4>2. of[u][u] \in V
          BY <4>1
        <4> USE DEF u
        <4>3. QED
          BY <4>2
      <3> HIDE DEF down
      <3>3. QED
        BY <3>2
    <2>4. iter \in [SUBSET t -> V]
      <3>1. ASSUME NEW s \in SUBSET t, s # {}
            PROVE  step[pick[s]][down(s)] \in V
        <4>1. pick[s] \in S /\ down(s) \in V
          BY <2>2, <2>3, <3>1
        <4> HIDE DEF down
        <4>2. QED
          BY <4>1
      <3> HIDE DEF down
      <3>2. QED
        BY <3>1
    <2>5. ASSUME NEW s \in SUBSET t, s # {}
          PROVE  down(s) = iter[s \ {pick[s]}]
      <3> DEFINE u == s \ {pick[s]}
      <3>0. u \in SUBSET t /\ u \in Good /\ of[u] \in Part(u)
        BY <2>1, <2>2, <2>5
      <3>1. CASE u = {}
        BY <3>0, <3>1 DEF Iterates
      <3>2. CASE u # {}
        <4> DEFINE v == u \ {pick[u]}
        <4>1. of[u][u] = step[pick[u]][of[u][v]]
          BY <3>0, <3>2 DEF Iterates
        <4>2. v \in Good /\ of[v] \in Part(v) /\ v \in SUBSET u
          BY <3>0, <3>2, <2>1, <2>2
        <4>3. of[u][v] = of[v][v]
          <5> HIDE DEF Part, v, u
          <5>1. QED
            BY <1>0, <3>0, <4>2
        <4>4. iter[u] = step[pick[u]][of[v][v]]
          BY <3>0, <3>2
        <4>5. QED
          BY <4>1, <4>3, <4>4
      <3>3. QED
        BY <3>1, <3>2
    <2>6. iter = [s \in SUBSET t |->
                    IF s = {} THEN base ELSE step[pick[s]][iter[s \ {pick[s]}]]]
      <3>1. \A s \in SUBSET t : iter[s] =
                    IF s = {} THEN base ELSE step[pick[s]][iter[s \ {pick[s]}]]
        BY <2>5
      <3>2. QED
        BY <3>1
    <2>7. QED
      BY <2>4, <2>6 DEF Iterates
  <1>2. Good = SUBSET S
    <2> HIDE DEF Part
    <2>1. Good \in SUBSET (SUBSET S)
      OBVIOUS
    <2> HIDE DEF Good
    <2>2. QED
      BY <2>1, <1>1, SubsetInduction
  <1>3. QED
    BY <1>2

-----------------------------------------------------------------------------
(* The element the fold takes out of a set of places.                       *)
TopOf(s) == CHOOSE x \in s : \A y \in s : x >= y

(* It is the greatest of them.                                              *)
LEMMA GreatestElement ==
    ASSUME NEW n \in Nat, NEW s \in SUBSET (1..n), s # {}
    PROVE  TopOf(s) \in s /\ \A y \in s : TopOf(s) >= y
  <1> DEFINE Mirror == {n - x : x \in s}
  <1>1. Mirror \in SUBSET Nat /\ Mirror # {}
    <2>1. \A x \in s : n - x \in Nat
      OBVIOUS
    <2>2. PICK x \in s : TRUE
      OBVIOUS
    <2>3. n - x \in Mirror
      OBVIOUS
    <2>4. QED
      BY <2>1, <2>3
  <1>2. PICK m \in Mirror : \A k \in Mirror : m <= k
    <2> HIDE DEF Mirror
    <2>1. QED
      BY <1>1, LeastElement
  <1>3. PICK x \in s : m = n - x
    OBVIOUS
  <1>4. \A y \in s : x >= y
    <2>1. \A y \in s : n - y \in Mirror
      OBVIOUS
    <2> HIDE DEF Mirror
    <2>2. QED
      BY <2>1, <1>2, <1>3
  <1>5. QED
    BY <1>3, <1>4 DEF TopOf

(* Of the places of a sequence it is the last.                              *)
LEMMA LastOfInterval ==
    ASSUME NEW k \in Nat, k > 0
    PROVE  TopOf(1..k) = k /\ (1..k) \ {k} = 1..(k - 1) /\ 1..k # {}
  <1>0. 1..k # {} /\ 1..k \in SUBSET (1..k) /\ k \in 1..k
    OBVIOUS
  <1>1. TopOf(1..k) \in 1..k /\ \A y \in 1..k : TopOf(1..k) >= y
    BY <1>0, GreatestElement
  <1>2. QED
    BY <1>1

(* A function that takes the steps of a fold as long as it stays in V.      *)
Follows(c, S, V, base, step, pick) ==
    /\ c = [s \in SUBSET S |-> c[s]]
    /\ c[{}] = base
    /\ \A s \in SUBSET S : s # {} /\ c[s \ {pick[s]}] \in V =>
           c[s] = step[pick[s]][c[s \ {pick[s]}]]

(* It stays in V, and takes all of them.                                    *)
LEMMA FoldTyped ==
    ASSUME NEW S, NEW V, NEW base, NEW step, NEW pick, CanFold(S, V, base, step, pick),
           NEW c, Follows(c, S, V, base, step, pick)
    PROVE  c \in [SUBSET S -> V] /\ Iterates(c, S, base, step, pick)
  <1> USE DEF Follows
  <1> DEFINE Good == {s \in SUBSET S : c[s] \in V}
  <1>1. ASSUME NEW s \in SUBSET S, \A t \in SUBSET s : t # s => t \in Good
        PROVE  s \in Good
    <2>1. CASE s = {}
      BY <2>1 DEF CanFold
    <2>2. CASE s # {}
      <3>1. pick[s] \in s /\ pick[s] \in S
        BY <2>2 DEF CanFold
      <3>2. s \ {pick[s]} \in Good
        BY <1>1, <3>1
      <3>3. c[s \ {pick[s]}] \in V
        BY <3>2
      <3>4. c[s] = step[pick[s]][c[s \ {pick[s]}]]
        BY <2>2, <3>3
      <3>5. step[pick[s]] \in [V -> V]
        BY <3>1 DEF CanFold
      <3>6. c[s] \in V
        BY <3>3, <3>4, <3>5
      <3>7. QED
        BY <3>6
    <2>3. QED
      BY <2>1, <2>2
  <1>2. Good = SUBSET S
    <2> HIDE DEF Good
    <2>1. Good \in SUBSET (SUBSET S)
      BY DEF Good
    <2>2. IsFiniteSet(S)
      BY DEF CanFold
    <2>3. QED
      BY <1>1, <2>1, <2>2, SubsetInduction
  <1>3. \A s \in SUBSET S : c[s] \in V
    BY <1>2
  <1>4. c \in [SUBSET S -> V]
    BY <1>3
  <1>5. ASSUME NEW s \in SUBSET S
        PROVE  c[s] = IF s = {} THEN base ELSE step[pick[s]][c[s \ {pick[s]}]]
    BY <1>3
  <1>6. QED
    BY <1>4, <1>5 DEF Iterates

(* The sum of a sequence of numbers, as the modules compute it.             *)
Total(numbers) == FoldLeft(+, 0, numbers)

(* What the sum adds at a set of places.                                    *)
SumBody(iter, s, numbers) ==
    IF s = {} THEN 0 ELSE iter[s \ {TopOf(s)}] + numbers[TopOf(s)]

(* The sum by the definitions of the modules, laid open.                    *)
LEMMA TotalUnfolds ==
    ASSUME NEW numbers
    PROVE  Total(numbers) =
              (CHOOSE iter : iter = [s \in SUBSET (DOMAIN numbers) |-> SumBody(iter, s, numbers)])
                  [DOMAIN numbers]
  BY DEF Total, FoldLeft, MapThenFoldSet, Max, TopOf, SumBody

(* The sum is the value of a function that adds the places up.              *)
LEMMA TotalIterates ==
    ASSUME NEW n \in Nat, NEW numbers \in [1..n -> Int]
    PROVE  \E iter \in [SUBSET (1..n) -> Int] :
              /\ \A s \in SUBSET (1..n) : iter[s] = SumBody(iter, s, numbers)
              /\ Total(numbers) = iter[1..n]
  <1> DEFINE S == 1..n
             pick == [s \in SUBSET S |-> TopOf(s)]
             step == [x \in S |-> [v \in Int |-> v + numbers[x]]]
             Body(iter) == [s \in SUBSET S |-> SumBody(iter, s, numbers)]
             chosen == CHOOSE iter : iter = Body(iter)
  <1>1. IsFiniteSet(S)
    BY FS_Interval
  <1>2. \A s \in SUBSET S : s # {} => TopOf(s) \in s
    BY GreatestElement
  <1>3. step \in [S -> [Int -> Int]]
    OBVIOUS
  <1>4. \A s \in SUBSET S : s # {} => pick[s] \in s
    BY <1>2
  <1>5. PICK iter \in [SUBSET S -> Int] : Iterates(iter, S, 0, step, pick)
    <2>1. CanFold(S, Int, 0, step, pick)
      <3> HIDE DEF S, pick, step
      <3>1. QED
        BY <1>1, <1>3, <1>4 DEF CanFold
    <2> HIDE DEF S, pick, step
    <2>2. QED
      BY <2>1, FoldExists
  <1>6. ASSUME NEW s \in SUBSET S
        PROVE  iter[s] = SumBody(iter, s, numbers)
    <2>1. CASE s = {}
      BY <1>5, <2>1 DEF Iterates, SumBody
    <2>2. CASE s # {}
      <3> DEFINE x == TopOf(s)
      <3>1. x \in S /\ s \ {x} \in SUBSET S /\ pick[s] = x
        BY <1>2, <2>2
      <3>2. iter[s] = step[x][iter[s \ {x}]]
        BY <1>5, <2>2, <3>1 DEF Iterates
      <3>3. iter[s \ {x}] \in Int
        BY <3>1, <1>5
      <3>4. QED
        BY <3>1, <3>2, <3>3, <2>2 DEF SumBody
    <2>3. QED
      BY <2>1, <2>2
  <1>7. iter = Body(iter)
    BY <1>6, <1>5
  <1>8. chosen = Body(chosen)
    <2> HIDE DEF Body
    <2>1. QED
      BY <1>7
  <1>9. /\ DOMAIN chosen = SUBSET S
        /\ \A s \in SUBSET S : chosen[s] = SumBody(chosen, s, numbers)
    <2> HIDE DEF chosen
    <2>1. QED
      BY <1>8
  <1>10. chosen \in [SUBSET S -> Int]
    <2> DEFINE Good == {s \in SUBSET S : chosen[s] \in Int}
    <2> HIDE DEF chosen, S
    <2>1. ASSUME NEW s \in SUBSET S, \A t \in SUBSET s : t # s => t \in Good
          PROVE  s \in Good
      <3>1. CASE s = {}
        BY <1>9, <3>1 DEF SumBody
      <3>2. CASE s # {}
        <4>1. TopOf(s) \in s /\ TopOf(s) \in S
          BY <1>2, <3>2
        <4>2. s \ {TopOf(s)} \in Good
          BY <2>1, <4>1
        <4>3. chosen[s] = chosen[s \ {TopOf(s)}] + numbers[TopOf(s)]
          BY <1>9, <3>2 DEF SumBody
        <4>4. numbers[TopOf(s)] \in Int
          BY <4>1 DEF S
        <4>5. QED
          BY <4>2, <4>3, <4>4
      <3>3. QED
        BY <3>1, <3>2
    <2>2. Good = SUBSET S
      <3> HIDE DEF Good
      <3>1. Good \in SUBSET (SUBSET S)
        BY DEF Good
      <3>2. \A s \in SUBSET S : (\A t \in SUBSET s : t # s => t \in Good) => s \in Good
        BY <2>1
      <3>3. QED
        BY <1>1, <3>1, <3>2, SubsetInduction
    <2>3. QED
      BY <2>2, <1>8, <1>9
  <1>11. Total(numbers) = chosen[S]
    <2>1. DOMAIN numbers = S
      OBVIOUS
    <2>2. QED
      BY <2>1, TotalUnfolds
  <1>12. QED
    <2> HIDE DEF chosen, S
    <2>1. QED
      BY <1>9, <1>10, <1>11 DEF S

(* Induction along an interval. *)
LEMMA IntervalInduction ==
    ASSUME NEW n \in Nat, NEW Good,
           0 \in Good, \A k \in 1..n : k - 1 \in Good => k \in Good
    PROVE  \A k \in 0..n : k \in Good
  <1> SUFFICES ASSUME NEW k \in 0..n, k \notin Good PROVE FALSE
    OBVIOUS
  <1> DEFINE Bad == {j \in 0..n : j \notin Good}
  <1>1. Bad \in SUBSET Nat /\ Bad # {}
    OBVIOUS
  <1>2. PICK j \in Bad : \A i \in Bad : j <= i
    <2> HIDE DEF Bad
    <2>1. QED
      BY <1>1, LeastElement
  <1>3. j # 0 /\ j \in 1..n
    OBVIOUS
  <1>4. j - 1 \in 0..n /\ j - 1 \notin Good
    BY <1>3
  <1>5. j - 1 \in Bad
    BY <1>4
  <1>6. QED
    <2> HIDE DEF Bad
    <2>1. QED
      BY <1>2, <1>3, <1>5

(* The running sums of the first n numbers.                                 *)
IsPrefixSum(sums, n, numbers) ==
    /\ sums \in [0..n -> Int]
    /\ sums[0] = 0
    /\ \A k \in 1..n : sums[k] = sums[k - 1] + numbers[k]

(* The sum is the last of the running sums.                                 *)
LEMMA PrefixSums ==
    ASSUME NEW n \in Nat, NEW numbers \in [1..n -> Int]
    PROVE  \E sums : IsPrefixSum(sums, n, numbers) /\ sums[n] = Total(numbers)
  <1>1. PICK iter \in [SUBSET (1..n) -> Int] :
              /\ \A s \in SUBSET (1..n) : iter[s] = SumBody(iter, s, numbers)
              /\ Total(numbers) = iter[1..n]
    BY TotalIterates
  <1> DEFINE sums == [k \in 0..n |-> iter[1..k]]
  <1>2. \A k \in 0..n : 1..k \in SUBSET (1..n)
    OBVIOUS
  <1>3. sums \in [0..n -> Int]
    BY <1>1, <1>2
  <1>4. sums[0] = 0
    <2>1. 1..0 = {} /\ {} \in SUBSET (1..n)
      OBVIOUS
    <2>2. iter[{}] = 0
      BY <2>1, <1>1 DEF SumBody
    <2>3. QED
      BY <2>1, <2>2
  <1>5. ASSUME NEW k \in 1..n
        PROVE  sums[k] = sums[k - 1] + numbers[k]
    <2>0. k \in Nat /\ k > 0 /\ k \in 0..n /\ k - 1 \in 0..n
      OBVIOUS
    <2>1. TopOf(1..k) = k /\ (1..k) \ {k} = 1..(k - 1) /\ 1..k # {}
      BY <2>0, LastOfInterval
    <2>2. iter[1..k] = iter[1..(k - 1)] + numbers[k]
      BY <1>1, <1>2, <2>0, <2>1 DEF SumBody
    <2>3. QED
      BY <2>0, <2>2
  <1>6. sums[n] = Total(numbers)
    BY <1>1
  <1> HIDE DEF sums
  <1>7. QED
    BY <1>3, <1>4, <1>5, <1>6 DEF IsPrefixSum

(* Sums of smaller numbers are smaller. *)
LEMMA PrefixSumsOrdered ==
    ASSUME NEW n \in Nat, NEW a \in [1..n -> Int], NEW b \in [1..n -> Int],
           \A k \in 1..n : a[k] <= b[k],
           NEW p, IsPrefixSum(p, n, a), NEW q, IsPrefixSum(q, n, b)
    PROVE  \A k \in 0..n : p[k] <= q[k]
  <1> DEFINE Good == {k \in 0..n : p[k] <= q[k]}
  <1>1. 0 \in Good
    BY DEF IsPrefixSum
  <1>2. ASSUME NEW k \in 1..n, k - 1 \in Good
        PROVE  k \in Good
    <2>1. /\ p[k] = p[k - 1] + a[k] /\ q[k] = q[k - 1] + b[k]
          /\ p[k - 1] \in Int /\ q[k - 1] \in Int /\ k \in 0..n /\ k - 1 \in 0..n
      BY DEF IsPrefixSum
    <2>2. QED
      BY <2>1, <1>2
  <1>3. \A k \in 0..n : k \in Good
    <2> HIDE DEF Good
    <2>1. QED
      BY <1>1, <1>2, IntervalInduction
  <1>4. QED
    BY <1>3

(* A total lies above all its parts when none of the numbers is negative. *)
LEMMA PrefixSumsRise ==
    ASSUME NEW n \in Nat, NEW a \in [1..n -> Nat], NEW p, IsPrefixSum(p, n, a),
           NEW i \in 0..n
    PROVE  /\ p[i] \in Nat
           /\ \A k \in i..n : p[i] <= p[k]
  <1> DEFINE Good == {k \in 0..n : p[k] >= 0 /\ (i <= k => p[i] <= p[k])}
  <1>1. 0 \in Good
    BY DEF IsPrefixSum
  <1>2. ASSUME NEW k \in 1..n, k - 1 \in Good
        PROVE  k \in Good
    <2>1. /\ p[k] = p[k - 1] + a[k] /\ a[k] \in Nat
          /\ p[k - 1] \in Int /\ k \in 0..n /\ k - 1 \in 0..n /\ p[i] \in Int
      BY DEF IsPrefixSum
    <2>2. QED
      BY SMTT(30), <2>1, <1>2
  <1>3. \A k \in 0..n : k \in Good
    <2> HIDE DEF Good
    <2>1. QED
      BY <1>1, <1>2, IntervalInduction
  <1>4. QED
    BY <1>3 DEF IsPrefixSum

(* The sum of the sums of two lists is that of their sums, place by place.  *)
LEMMA TotalOfSums ==
    ASSUME NEW n \in Nat, NEW a \in [1..n -> Int], NEW b \in [1..n -> Int], NEW c \in [1..n -> Int],
           \A k \in 1..n : c[k] = a[k] + b[k]
    PROVE  Total(a) \in Int /\ Total(b) \in Int /\ Total(c) = Total(a) + Total(b)
  <1>1. PICK p : IsPrefixSum(p, n, a) /\ p[n] = Total(a)
    BY PrefixSums
  <1>2. PICK q : IsPrefixSum(q, n, b) /\ q[n] = Total(b)
    BY PrefixSums
  <1>3. PICK r : IsPrefixSum(r, n, c) /\ r[n] = Total(c)
    BY PrefixSums
  <1> DEFINE Good == {k \in 0..n : r[k] = p[k] + q[k]}
  <1>4. 0 \in Good
    BY <1>1, <1>2, <1>3 DEF IsPrefixSum
  <1>5. ASSUME NEW k \in 1..n, k - 1 \in Good
        PROVE  k \in Good
    <2>1. /\ p[k] = p[k - 1] + a[k] /\ q[k] = q[k - 1] + b[k] /\ r[k] = r[k - 1] + c[k]
          /\ p[k - 1] \in Int /\ q[k - 1] \in Int /\ a[k] \in Int /\ b[k] \in Int
          /\ k \in 0..n /\ c[k] = a[k] + b[k]
      <3>1. p[k] = p[k - 1] + a[k] /\ q[k] = q[k - 1] + b[k] /\ r[k] = r[k - 1] + c[k]
        BY <1>1, <1>2, <1>3 DEF IsPrefixSum
      <3>2. p[k - 1] \in Int /\ q[k - 1] \in Int
        BY SMTT(30), <1>1, <1>2 DEF IsPrefixSum
      <3>3. QED
        BY <3>1, <3>2
    <2>2. r[k - 1] = p[k - 1] + q[k - 1]
      BY <1>5
    <2>3. QED
      BY SMTT(30), <2>1, <2>2
  <1>6. n \in Good
    <2> HIDE DEF Good
    <2>1. \A k \in 0..n : k \in Good
      BY <1>4, <1>5, IntervalInduction
    <2>2. QED
      BY <2>1
  <1>7. QED
    BY <1>1, <1>2, <1>3, <1>6 DEF IsPrefixSum

(* Nothing adds up to nothing.                                              *)
LEMMA TotalEmpty == Total(<<>>) = 0
  <1>1. <<>> \in [1..0 -> Int]
    OBVIOUS
  <1>2. QED
    BY <1>1, PrefixSums DEF IsPrefixSum

(* One more number adds itself to the sum.                                  *)
LEMMA TotalAppend ==
    ASSUME NEW s \in Seq(Int), NEW v \in Int
    PROVE  Total(Append(s, v)) = Total(s) + v /\ Total(s) \in Int
  <1> DEFINE n == Len(s)
             t == Append(s, v)
  <1>1. /\ n \in Nat /\ n + 1 \in Nat
        /\ s \in [1..n -> Int] /\ t \in [1..(n + 1) -> Int]
        /\ \A k \in 1..n : t[k] = s[k]
        /\ t[n + 1] = v
    <2>1. t \in Seq(Int) /\ Len(t) = n + 1
      OBVIOUS
    <2>2. n \in Nat /\ s \in [1..n -> Int]
      OBVIOUS
    <2>3. t \in [1..(n + 1) -> Int]
      <3> HIDE DEF t
      <3>1. t \in [1..Len(t) -> Int]
        BY <2>1
      <3>2. QED
        BY <2>1, <3>1
    <2>4. QED
      BY <2>2, <2>3
  <1>2. PICK p : IsPrefixSum(p, n, s) /\ p[n] = Total(s)
    BY <1>1, PrefixSums
  <1>3. PICK q : IsPrefixSum(q, n + 1, t) /\ q[n + 1] = Total(t)
    BY <1>1, PrefixSums
  <1> HIDE DEF n, t
  <1> DEFINE Good == {k \in 0..n : p[k] = q[k]}
  <1>4. 0 \in Good
    BY <1>1, <1>2, <1>3 DEF IsPrefixSum
  <1>5. ASSUME NEW k \in 1..n, k - 1 \in Good
        PROVE  k \in Good
    <2>1. k \in 1..(n + 1) /\ k \in 0..n /\ k - 1 \in 0..n
      BY <1>1
    <2>2. p[k] = p[k - 1] + s[k] /\ q[k] = q[k - 1] + t[k]
      BY <2>1, <1>2, <1>3 DEF IsPrefixSum
    <2>3. QED
      BY <2>1, <2>2, <1>1, <1>5
  <1>6. \A k \in 0..n : k \in Good
    <2> HIDE DEF Good
    <2>1. QED
      BY <1>1, <1>4, <1>5, IntervalInduction
  <1>7. n \in 0..n /\ n + 1 \in 1..(n + 1)
    BY <1>1
  <1>8. p[n] = q[n] /\ p[n] \in Int
    BY <1>6, <1>7, <1>2 DEF IsPrefixSum
  <1>9. q[n + 1] = q[n] + v
    BY <1>1, <1>3, <1>7 DEF IsPrefixSum
  <1>10. QED
    BY <1>2, <1>3, <1>8, <1>9 DEF t

-----------------------------------------------------------------------------
(* A recursion along an interval is well defined.                           *)
CanClimb(n, V, base, step) ==
    n \in Nat /\ base \in V /\ step \in [1..n -> [V -> V]]

(* The values reached on the way.                                           *)
Climbs(f, n, base, step) ==
    f[0] = base /\ \A k \in 1..n : f[k] = step[k][f[k - 1]]

(* The last of them is v.                                                   *)
ClimbsTo(f, n, V, base, step, v) ==
    f \in [0..n -> V] /\ Climbs(f, n, base, step) /\ f[n] = v

(* The element a fold over a sequence takes first.                          *)
TopOfEach(n) == [s \in SUBSET (1..n) |-> TopOf(s)]

(* A fold over the places of a sequence climbs them one by one.             *)
LEMMA FoldClimbs ==
    ASSUME NEW n, NEW V, NEW base, NEW step, CanClimb(n, V, base, step)
    PROVE  /\ CanFold(1..n, V, base, step, TopOfEach(n))
           /\ \A iter \in [SUBSET (1..n) -> V] :
                 Iterates(iter, 1..n, base, step, TopOfEach(n)) =>
                    \E f : ClimbsTo(f, n, V, base, step, iter[1..n])
  <1> USE DEF CanClimb
  <1> DEFINE S == 1..n
             pick == TopOfEach(n)
  <1>1. IsFiniteSet(S)
    BY FS_Interval
  <1>2. \A s \in SUBSET S : s # {} => pick[s] \in s
    BY GreatestElement DEF TopOfEach
  <1>3. step \in [S -> [V -> V]]
    OBVIOUS
  <1>4. CanFold(S, V, base, step, pick)
    <2> HIDE DEF pick, S
    <2>1. QED
      BY <1>1, <1>2, <1>3 DEF CanFold
  <1>5. ASSUME NEW iter \in [SUBSET S -> V], Iterates(iter, S, base, step, pick)
        PROVE  \E f : ClimbsTo(f, n, V, base, step, iter[1..n])
    <2> DEFINE f == [k \in 0..n |-> iter[1..k]]
    <2>1. \A k \in 0..n : 1..k \in SUBSET S
      OBVIOUS
    <2>2. f \in [0..n -> V]
      BY <2>1
    <2>3. f[0] = base
      <3>1. 1..0 = {} /\ {} \in SUBSET S
        OBVIOUS
      <3>2. iter[{}] = base
        BY <3>1, <1>5 DEF Iterates
      <3>3. QED
        BY <3>1, <3>2
    <2>4. ASSUME NEW k \in 1..n
          PROVE  f[k] = step[k][f[k - 1]]
      <3>0. k \in Nat /\ k > 0 /\ k \in 0..n /\ k - 1 \in 0..n
        OBVIOUS
      <3>1. TopOf(1..k) = k /\ (1..k) \ {k} = 1..(k - 1) /\ 1..k # {}
        BY <3>0, LastOfInterval
      <3>2. pick[1..k] = k
        BY <3>0, <3>1, <2>1 DEF TopOfEach
      <3>3. iter[1..k] = step[k][iter[1..(k - 1)]]
        <4>1. \A s \in SUBSET S : s # {} => iter[s] = step[pick[s]][iter[s \ {pick[s]}]]
          BY <1>5 DEF Iterates
        <4> HIDE DEF pick, S
        <4>2. iter[1..k] = step[pick[1..k]][iter[(1..k) \ {pick[1..k]}]]
          BY <4>1, <2>1, <3>0, <3>1
        <4>3. QED
          BY <4>2, <3>1, <3>2
      <3>4. QED
        BY <3>0, <3>3
    <2>5. f[n] = iter[1..n]
      OBVIOUS
    <2> HIDE DEF f
    <2>6. QED
      BY <2>2, <2>3, <2>4, <2>5 DEF Climbs, ClimbsTo
  <1>6. QED
    BY <1>4, <1>5

(* Any such steps can be taken.                                             *)
LEMMA LadderExists ==
    ASSUME NEW n, NEW V, NEW base, NEW step, CanClimb(n, V, base, step)
    PROVE  \E f \in [0..n -> V] : Climbs(f, n, base, step)
  <1> DEFINE pick == TopOfEach(n)
             S == 1..n
  <1>1. CanFold(S, V, base, step, pick)
    BY FoldClimbs
  <1>2. \E iter \in [SUBSET S -> V] : Iterates(iter, S, base, step, pick)
    <2> HIDE DEF S, pick
    <2>1. QED
      BY <1>1, FoldExists
  <1>3. \E iter \in [SUBSET S -> V] : \E f : ClimbsTo(f, n, V, base, step, iter[S])
    BY <1>2, FoldClimbs
  <1>4. QED
    BY <1>3 DEF ClimbsTo

(* A fold over the places of a sequence, as its definition computes it.     *)
FoldsWith(iter, n, V, base, step) ==
    /\ iter \in [SUBSET (1..n) -> V]
    /\ iter[{}] = base
    /\ \A s \in SUBSET (1..n) : s # {} =>
          /\ TopOf(s) \in 1..n
          /\ iter[s \ {TopOf(s)}] \in V
          /\ iter[s] = step[TopOf(s)][iter[s \ {TopOf(s)}]]

(* There is one.                                                            *)
LEMMA FoldValue ==
    ASSUME NEW n, NEW V, NEW base, NEW step, CanClimb(n, V, base, step)
    PROVE  \E iter : FoldsWith(iter, n, V, base, step)
  <1> DEFINE S == 1..n
             pick == TopOfEach(n)
  <1>1. CanFold(S, V, base, step, pick)
    BY FoldClimbs
  <1>2. PICK iter \in [SUBSET S -> V] : Iterates(iter, S, base, step, pick)
    <2> HIDE DEF S, pick
    <2>1. QED
      BY <1>1, FoldExists
  <1>3. \A s \in SUBSET S : s # {} => TopOf(s) \in s /\ pick[s] = TopOf(s)
    BY GreatestElement DEF TopOfEach, CanClimb
  <1> HIDE DEF pick
  <1>4. iter[{}] = base
    <2>1. {} \in SUBSET S
      OBVIOUS
    <2>2. QED
      BY <1>2, <2>1 DEF Iterates
  <1>5. \A s \in SUBSET S : s # {} => iter[s] = step[pick[s]][iter[s \ {pick[s]}]]
    <2> HIDE DEF S
    <2>1. QED
      BY <1>2 DEF Iterates
  <1>6. ASSUME NEW s \in SUBSET S, s # {}
        PROVE  /\ TopOf(s) \in S
               /\ iter[s \ {TopOf(s)}] \in V
               /\ iter[s] = step[TopOf(s)][iter[s \ {TopOf(s)}]]
    <2>1. TopOf(s) \in S /\ s \ {TopOf(s)} \in SUBSET S /\ pick[s] = TopOf(s)
      BY <1>3, <1>6
    <2> HIDE DEF S
    <2>2. QED
      BY <1>2, <1>5, <1>6, <2>1
  <1>7. QED
    BY <1>2, <1>4, <1>6 DEF FoldsWith

(* The same of a function of which only this much is known.                 *)
FoldsFrom(c, n, V, base, step) ==
    /\ c = [s \in SUBSET (1..n) |-> c[s]]
    /\ c[{}] = base
    /\ \A s \in SUBSET (1..n) : s # {} /\ c[s \ {TopOf(s)}] \in V =>
          c[s] = step[TopOf(s)][c[s \ {TopOf(s)}]]

(* Its value at the whole is where the steps lead.                          *)
LEMMA FoldsClimb ==
    ASSUME NEW n, NEW V, NEW base, NEW step, CanClimb(n, V, base, step),
           NEW c, FoldsFrom(c, n, V, base, step)
    PROVE  \E f : ClimbsTo(f, n, V, base, step, c[1..n])
  <1> DEFINE S == 1..n
             pick == TopOfEach(n)
  <1>1. CanFold(S, V, base, step, pick)
    BY FoldClimbs
  <1>2. \A s \in SUBSET S : pick[s] = TopOf(s)
    BY DEF TopOfEach
  <1>3. Follows(c, S, V, base, step, pick)
    <2> HIDE DEF pick
    <2>1. QED
      BY <1>2 DEF Follows, FoldsFrom
  <1> HIDE DEF S, pick
  <1>4. c \in [SUBSET S -> V] /\ Iterates(c, S, base, step, pick)
    BY <1>1, <1>3, FoldTyped
  <1>5. c \in [SUBSET (1..n) -> V] /\ Iterates(c, 1..n, base, step, TopOfEach(n))
    BY <1>4 DEF S, pick
  <1>6. QED
    BY <1>5, FoldClimbs

-----------------------------------------------------------------------------
(* How long each of many sequences is.                                      *)
Lengths(seqs) == [k \in DOMAIN seqs |-> Len(seqs[k])]

(* What the sequences are joined to: its length is the sum of theirs, and   *)
(* each of them begins where the ones before it end.                        *)
LEMMA FlattenLadder ==
    ASSUME NEW X, NEW seqs \in Seq(Seq(X)), Len(seqs) # 0
    PROVE  \E f \in [0..Len(seqs) -> Seq(X)] :
              /\ f[0] = <<>>
              /\ \A k \in 1..Len(seqs) : f[k] = f[k - 1] \o seqs[k]
              /\ FlattenSeq(seqs) = f[Len(seqs)]
  <1> DEFINE n == Len(seqs)
             V == Seq(X)
             step == [k \in 1..n |-> [v \in V |-> v \o seqs[k]]]
             Body(f) == [k \in 1..n |-> IF k = 1 THEN seqs[k] ELSE f[k - 1] \o seqs[k]]
             chosen == CHOOSE f : f = Body(f)
  <1>1. n \in Nat /\ n > 0 /\ \A k \in 1..n : seqs[k] \in V
    OBVIOUS
  <1>2. step \in [1..n -> [V -> V]]
    <2>1. \A k \in 1..n : \A v \in V : v \o seqs[k] \in V
      BY <1>1
    <2> HIDE DEF V
    <2>2. QED
      BY <2>1
  <1>3. PICK f \in [0..n -> V] : /\ f[0] = <<>>
                                 /\ \A k \in 1..n : f[k] = step[k][f[k - 1]]
    <2> DEFINE base == <<>>
    <2>1. base \in V
      OBVIOUS
    <2> HIDE DEF n, V, step, base
    <2>2. CanClimb(n, V, base, step)
      BY <1>1, <1>2, <2>1 DEF CanClimb
    <2>3. QED
      BY <2>2, LadderExists DEF base, Climbs
  <1>4. ASSUME NEW k \in 1..n
        PROVE  f[k] = f[k - 1] \o seqs[k] /\ f[k] \in V /\ f[k - 1] \in V
    <2>1. k \in 0..n /\ k - 1 \in 0..n
      BY <1>1
    <2>2. f[k] \in V /\ f[k - 1] \in V
      BY <2>1, <1>3
    <2> HIDE DEF V, n
    <2>3. QED
      BY <2>2, <1>3
  <1>5. f[1] = seqs[1]
    <2>1. f[1] = f[0] \o seqs[1] /\ seqs[1] \in V
      <3>1. 1 \in 1..n /\ 1 - 1 = 0
        BY <1>1
      <3> HIDE DEF n, V
      <3>2. f[1] = f[1 - 1] \o seqs[1] /\ seqs[1] \in V
        BY <3>1, <1>1, <1>4
      <3>3. QED
        BY <3>1, <3>2
    <2>2. QED
      BY <2>1, <1>3
  <1> DEFINE g == [k \in 1..n |-> f[k]]
  <1>6. g = Body(g)
    <2>1. ASSUME NEW k \in 1..n
          PROVE  g[k] = IF k = 1 THEN seqs[k] ELSE g[k - 1] \o seqs[k]
      <3>1. k # 1 => k - 1 \in 1..n
        BY <1>1
      <3> HIDE DEF n, V
      <3>2. g[k] = f[k] /\ (k # 1 => g[k - 1] = f[k - 1])
        BY <3>1
      <3> HIDE DEF g
      <3>3. QED
        BY <3>2, <1>4, <1>5
    <2>2. QED
      BY <2>1
  <1>7. chosen = Body(chosen)
    <2> HIDE DEF Body
    <2>1. QED
      BY <1>6
  <1>8. \A k \in 1..n : chosen[k] = IF k = 1 THEN seqs[k] ELSE chosen[k - 1] \o seqs[k]
    <2> HIDE DEF chosen
    <2>1. QED
      BY <1>7
  <1>9. chosen[n] = f[n]
    <2> DEFINE Good == {k \in 0..n : k > 0 => chosen[k] = f[k]}
    <2> HIDE DEF chosen, n, V
    <2>1. 0 \in Good
      BY <1>1
    <2>2. ASSUME NEW k \in 1..n, k - 1 \in Good
          PROVE  k \in Good
      <3>1. CASE k = 1
        BY <1>1, <1>5, <1>8, <3>1
      <3>2. CASE k # 1
        <4>1. chosen[k - 1] = f[k - 1]
          BY <1>1, <3>2, <2>2
        <4>2. chosen[k] = chosen[k - 1] \o seqs[k]
          BY <3>2, <1>8
        <4>3. chosen[k] = f[k]
          BY <4>1, <4>2, <1>4
        <4>4. QED
          BY <4>3, <1>1
      <3>3. QED
        BY <3>1, <3>2
    <2>3. \A k \in 0..n : k \in Good
      <3> HIDE DEF Good
      <3>1. QED
        BY <1>1, <2>1, <2>2, IntervalInduction
    <2>4. QED
      BY <2>3, <1>1
  <1>10. FlattenSeq(seqs) = chosen[n]
    BY DEF FlattenSeq
  <1>11. QED
    <2> HIDE DEF chosen, n, V
    <2>1. FlattenSeq(seqs) = f[n]
      BY <1>9, <1>10
    <2>2. QED
      BY <1>3, <1>4, <2>1 DEF n, V

(* Where two joined sequences keep their elements.                          *)
LEMMA ConcatFacts ==
    ASSUME NEW X, NEW a \in Seq(X), NEW b \in Seq(X)
    PROVE  /\ Len(a \o b) = Len(a) + Len(b)
           /\ Len(a) \in Nat /\ Len(b) \in Nat
           /\ \A i \in 1..Len(a) : (a \o b)[i] = a[i]
           /\ \A i \in 1..Len(b) : (a \o b)[Len(a) + i] = b[i]
  OBVIOUS

(* Arithmetic of places.                                                    *)
LEMMA PlaceWithin ==
    ASSUME NEW a \in Int, NEW l \in Nat, NEW d \in Int, NEW i \in 1..l,
           0 <= a, a + l <= d
    PROVE  a + i \in 1..d
  OBVIOUS

(* Each of many joined sequences begins where the ones before it end.       *)
LEMMA FlattenFacts ==
    ASSUME NEW X, NEW seqs \in Seq(Seq(X)), NEW p,
           IsPrefixSum(p, Len(seqs), Lengths(seqs))
    PROVE  /\ FlattenSeq(seqs) \in Seq(X)
           /\ Len(FlattenSeq(seqs)) = p[Len(seqs)]
           /\ \A k \in 1..Len(seqs) : \A i \in 1..Len(seqs[k]) :
                 FlattenSeq(seqs)[p[k - 1] + i] = seqs[k][i]
  <1> DEFINE n == Len(seqs)
  <1>1. CASE n = 0
    <2>1. seqs = <<>> /\ FlattenSeq(seqs) = seqs
      BY <1>1 DEF FlattenSeq
    <2>2. QED
      BY <2>1, <1>1 DEF IsPrefixSum
  <1>2. CASE n # 0
    <2>1. PICK f \in [0..n -> Seq(X)] :
              /\ f[0] = <<>>
              /\ \A k \in 1..n : f[k] = f[k - 1] \o seqs[k]
              /\ FlattenSeq(seqs) = f[n]
      BY <1>2, FlattenLadder
    <2>2. n \in Nat /\ \A k \in 1..n : seqs[k] \in Seq(X) /\ Len(seqs[k]) \in Nat
      OBVIOUS
    <2>3. \A k \in 1..n : p[k] = p[k - 1] + Len(seqs[k])
      <3>1. \A k \in 1..n : Lengths(seqs)[k] = Len(seqs[k])
        BY DEF Lengths
      <3>2. QED
        BY <3>1 DEF IsPrefixSum
    <2>4. \A k \in 0..n : p[k] \in Int /\ p[0] = 0
      BY DEF IsPrefixSum
    <2> HIDE DEF n
    <2> DEFINE Good == {m \in 0..n :
                  /\ Len(f[m]) = p[m]
                  /\ \A k \in 1..m : \A i \in 1..Len(seqs[k]) : f[m][p[k - 1] + i] = seqs[k][i]
                  /\ \A k \in 0..m : 0 <= p[k] /\ p[k] <= p[m]}
    <2>5. 0 \in Good
      BY <2>1, <2>2, <2>4
    <2>6. ASSUME NEW m \in 1..n, m - 1 \in Good
          PROVE  m \in Good
      <3>1. m \in 0..n /\ m - 1 \in 0..n
        BY <2>2
      <3>2. /\ f[m] = f[m - 1] \o seqs[m] /\ p[m] = p[m - 1] + Len(seqs[m])
            /\ p[m] \in Int /\ p[m - 1] \in Int
        BY <3>1, <2>1, <2>3, <2>4
      <3>3. f[m - 1] \in Seq(X) /\ seqs[m] \in Seq(X)
        BY <3>1, <2>1, <2>2
      <3>4. Len(f[m - 1]) = p[m - 1]
        BY <2>6
      <3>5. /\ Len(f[m]) = p[m] /\ p[m - 1] \in Nat /\ Len(seqs[m]) \in Nat
            /\ \A i \in 1..p[m - 1] : f[m][i] = f[m - 1][i]
            /\ \A i \in 1..Len(seqs[m]) : f[m][p[m - 1] + i] = seqs[m][i]
        <4> DEFINE a == f[m - 1]
                   b == seqs[m]
        <4> HIDE DEF a, b
        <4>1. a \in Seq(X) /\ b \in Seq(X)
          BY <3>3 DEF a, b
        <4>2. /\ Len(a \o b) = Len(a) + Len(b)
              /\ Len(a) \in Nat /\ Len(b) \in Nat
              /\ \A i \in 1..Len(a) : (a \o b)[i] = a[i]
              /\ \A i \in 1..Len(b) : (a \o b)[Len(a) + i] = b[i]
          BY <4>1, ConcatFacts
        <4>3. f[m] = a \o b /\ p[m] = p[m - 1] + Len(b) /\ Len(a) = p[m - 1]
          BY <3>2, <3>4 DEF a, b
        <4>4. /\ Len(f[m]) = p[m] /\ p[m - 1] \in Nat /\ Len(b) \in Nat
              /\ \A i \in 1..p[m - 1] : f[m][i] = a[i]
              /\ \A i \in 1..Len(b) : f[m][p[m - 1] + i] = b[i]
          BY <4>2, <4>3
        <4>5. QED
          BY <4>4 DEF a, b
      <3>6. ASSUME NEW k \in 1..m, NEW i \in 1..Len(seqs[k])
            PROVE  f[m][p[k - 1] + i] = seqs[k][i]
        <4>1. CASE k = m
          BY <4>1, <3>5
        <4>2. CASE k # m
          <5>1. k \in 1..(m - 1) /\ k - 1 \in 0..(m - 1) /\ k \in 0..(m - 1) /\ k \in 1..n
                /\ k - 1 \in 0..n /\ k \in 0..n
            BY <4>2, <2>2
          <5>2. f[m - 1][p[k - 1] + i] = seqs[k][i] /\ p[k] <= p[m - 1] /\ 0 <= p[k - 1]
            BY <5>1, <2>6
          <5>3. p[k] = p[k - 1] + Len(seqs[k]) /\ p[k - 1] \in Int /\ Len(seqs[k]) \in Nat
            BY <5>1, <2>2, <2>3, <2>4
          <5>4. p[k - 1] + i \in 1..p[m - 1]
            <6>1. 0 <= p[k - 1] /\ p[k - 1] + Len(seqs[k]) <= p[m - 1]
              BY <5>2, <5>3
            <6>2. QED
              BY <6>1, <5>3, <3>2, PlaceWithin
          <5>5. QED
            BY <5>2, <5>4, <3>5
        <4>3. QED
          BY <4>1, <4>2
      <3>7. ASSUME NEW k \in 0..m
            PROVE  0 <= p[k] /\ p[k] <= p[m]
        <4>1. CASE k = m
          BY <4>1, <3>2, <3>5
        <4>2. CASE k # m
          <5>1. k \in 0..(m - 1) /\ k \in 0..n
            BY <4>2, <2>2
          <5>2. QED
            BY <5>1, <2>6, <3>2, <3>5, <2>4
        <4>3. QED
          BY <4>1, <4>2
      <3>8. QED
        BY <3>1, <3>5, <3>6, <3>7
    <2>7. \A m \in 0..n : m \in Good
      <3> HIDE DEF Good
      <3>1. QED
        BY <2>2, <2>5, <2>6, IntervalInduction
    <2>8. n \in Good
      <3> HIDE DEF Good
      <3>1. QED
        BY <2>2, <2>7
    <2>9. FlattenSeq(seqs) = f[n] /\ f[n] \in Seq(X)
      BY <2>1, <2>2
    <2>10. QED
      BY <2>8, <2>9 DEF n
  <1>3. QED
    BY <1>1, <1>2

(* The lengths are naturals, and have running sums.                         *)
LEMMA LengthsType ==
    ASSUME NEW X, NEW seqs \in Seq(Seq(X))
    PROVE  /\ Len(seqs) \in Nat
           /\ Lengths(seqs) \in [1..Len(seqs) -> Nat] /\ Lengths(seqs) \in [1..Len(seqs) -> Int]
           /\ \E p : IsPrefixSum(p, Len(seqs), Lengths(seqs)) /\ p[Len(seqs)] = Total(Lengths(seqs))
  <1>1. \A k \in 1..Len(seqs) : Len(seqs[k]) \in Nat
    OBVIOUS
  <1>2. Len(seqs) \in Nat /\ Lengths(seqs) \in [1..Len(seqs) -> Nat]
    BY <1>1 DEF Lengths
  <1>3. Lengths(seqs) \in [1..Len(seqs) -> Int]
    BY <1>2
  <1>4. \E p : IsPrefixSum(p, Len(seqs), Lengths(seqs)) /\ p[Len(seqs)] = Total(Lengths(seqs))
    <2> DEFINE n == Len(seqs)
               a == Lengths(seqs)
    <2>1. n \in Nat /\ a \in [1..n -> Int]
      BY <1>2, <1>3
    <2> HIDE DEF n, a
    <2>2. \E p : IsPrefixSum(p, n, a) /\ p[n] = Total(a)
      BY <2>1, PrefixSums
    <2>3. QED
      BY <2>2 DEF n, a
  <1>5. QED
    BY <1>2, <1>3, <1>4

(* Every number up to a total lies in the part of one of the numbers.       *)
Blocks(p, n, a) == \A x \in 1..p[n] : \E k \in 1..n : \E i \in 1..a[k] : x = p[k - 1] + i

(* The blocks leave no place out.                                           *)
LEMMA BlockOf ==
    ASSUME NEW n \in Nat, NEW a \in [1..n -> Nat], NEW p, IsPrefixSum(p, n, a)
    PROVE  Blocks(p, n, a)
  <1> SUFFICES ASSUME NEW x \in 1..p[n]
               PROVE  \E k \in 1..n : \E i \in 1..a[k] : x = p[k - 1] + i
    BY DEF Blocks
  <1> DEFINE T == {k \in 0..n : x <= p[k]}
  <1>1. T \in SUBSET Nat /\ n \in T
    BY DEF IsPrefixSum
  <1>2. PICK k \in T : \A m \in T : k <= m
    <2> HIDE DEF T
    <2>1. QED
      BY <1>1, LeastElement
  <1>3. k # 0
    BY DEF IsPrefixSum
  <1>4. k \in 1..n /\ k - 1 \in 0..n /\ ~(x <= p[k - 1])
    <2>1. k \in 1..n /\ k - 1 \in 0..n
      BY <1>3
    <2>2. k - 1 \notin T
      <3> HIDE DEF T
      <3>1. QED
        BY <1>2, <2>1
    <2>3. QED
      BY <2>1, <2>2
  <1>5. p[k] = p[k - 1] + a[k] /\ p[k - 1] \in Int /\ a[k] \in Nat /\ x <= p[k]
    BY <1>4 DEF IsPrefixSum
  <1>6. x - p[k - 1] \in 1..a[k] /\ x = p[k - 1] + (x - p[k - 1])
    <2>1. x \in Int /\ x > p[k - 1]
      BY <1>4, <1>5, PrefixSumsRise DEF IsPrefixSum
    <2>2. QED
      BY <1>5, <2>1
  <1>7. QED
    BY <1>4, <1>6

(* A place of an earlier block comes before one of a later.                 *)
LEMMA ApartArithmetic ==
    ASSUME NEW before \in Nat, NEW size \in Nat, NEW after \in Nat, NEW x \in 1..size, NEW y \in Nat,
           y >= 1, before + size <= after
    PROVE  before + x < after + y
  OBVIOUS

(* No two blocks share a place.                                             *)
LEMMA BlocksApart ==
    ASSUME NEW n \in Nat, NEW a \in [1..n -> Nat], NEW p, IsPrefixSum(p, n, a),
           NEW k \in 1..n, NEW m \in 1..n, NEW i \in 1..a[k], NEW j \in 1..a[m]
    PROVE  /\ p[k - 1] + i = p[m - 1] + j => k = m /\ i = j
           /\ p[k - 1] + i \in 1..p[n]
  <1>1. ASSUME NEW u \in 1..n, NEW v \in 1..n, u < v, NEW x \in 1..a[u], NEW y \in 1..a[v]
        PROVE  p[u - 1] + x < p[v - 1] + y
    <2>1. u \in 0..n /\ u - 1 \in 0..n /\ v - 1 \in u..n /\ v - 1 \in 0..n
      BY <1>1
    <2>2. p[u] = p[u - 1] + a[u] /\ a[u] \in Nat /\ a[v] \in Nat
      BY DEF IsPrefixSum
    <2>3. p[u] <= p[v - 1] /\ p[u] \in Nat
      BY <2>1, PrefixSumsRise
    <2>4. p[u - 1] \in Nat /\ p[v - 1] \in Nat
      BY <2>1, PrefixSumsRise
    <2>5. x \in 1..a[u] /\ y \in Nat /\ y >= 1 /\ p[u - 1] + a[u] <= p[v - 1]
      BY <2>2, <2>3
    <2> DEFINE before == p[u - 1]
               size   == a[u]
               after  == p[v - 1]
    <2>6. /\ before \in Nat /\ size \in Nat /\ after \in Nat /\ x \in 1..size /\ y \in Nat
          /\ y >= 1 /\ before + size <= after
      BY <2>2, <2>4, <2>5
    <2> HIDE DEF before, size, after
    <2>7. before + x < after + y
      BY <2>6, ApartArithmetic
    <2>8. QED
      BY <2>7 DEF before, after
  <1>2. p[k - 1] \in Nat /\ p[m - 1] \in Nat /\ i \in Nat /\ j \in Nat /\ a[k] \in Nat
    <2>1. k - 1 \in 0..n /\ m - 1 \in 0..n
      OBVIOUS
    <2>2. QED
      BY <2>1, PrefixSumsRise
  <1>3. p[k] = p[k - 1] + a[k] /\ p[k] \in Nat /\ p[k] <= p[n] /\ p[n] \in Nat
    <2>1. k \in 0..n /\ n \in k..n /\ n \in 0..n
      OBVIOUS
    <2>2. QED
      BY <2>1, PrefixSumsRise DEF IsPrefixSum
  <1>4. p[k - 1] + i \in 1..p[n]
    <2> DEFINE before == p[k - 1]
               size   == a[k]
               whole  == p[n]
    <2>1. /\ before \in Int /\ size \in Nat /\ whole \in Int /\ i \in 1..size
          /\ 0 <= before /\ before + size <= whole
      BY <1>2, <1>3
    <2> HIDE DEF before, size, whole
    <2>2. before + i \in 1..whole
      BY <2>1, PlaceWithin
    <2>3. QED
      BY <2>2 DEF before, whole
  <1>5. p[k - 1] + i = p[m - 1] + j => k = m
    <2>1. k < m => p[k - 1] + i < p[m - 1] + j
      BY <1>1
    <2>2. m < k => p[m - 1] + j < p[k - 1] + i
      BY <1>1
    <2>3. QED
      BY <2>1, <2>2, <1>2
  <1>6. p[k - 1] + i = p[m - 1] + j => i = j
    BY <1>2, <1>5
  <1>7. QED
    BY <1>4, <1>5, <1>6

(* Joined sequences are as long as all of them together.                    *)
LEMMA FlattenSum ==
    ASSUME NEW X, NEW seqs \in Seq(Seq(X))
    PROVE  /\ FlattenSeq(seqs) \in Seq(X)
           /\ Len(FlattenSeq(seqs)) = Total(Lengths(seqs))
  <1>1. PICK p : IsPrefixSum(p, Len(seqs), Lengths(seqs)) /\ p[Len(seqs)] = Total(Lengths(seqs))
    BY LengthsType
  <1>2. QED
    BY <1>1, FlattenFacts

(* Every place of a joined sequence is one place of one part, and the other *)
(* way round; p gives the place before each part.                           *)
Placed(p, seqs, flat) ==
    /\ \A z \in 1..Len(flat) : \E k \in 1..Len(seqs) : \E i \in 1..Len(seqs[k]) :
          z = p[k - 1] + i /\ flat[z] = seqs[k][i]
    /\ \A k \in 1..Len(seqs) : \A i \in 1..Len(seqs[k]) :
          p[k - 1] + i \in 1..Len(flat) /\ flat[p[k - 1] + i] = seqs[k][i]

(* Every element has its place in the join, and every place its element.    *)
LEMMA FlattenPlaces ==
    ASSUME NEW X, NEW seqs \in Seq(Seq(X))
    PROVE  \E p : Placed(p, seqs, FlattenSeq(seqs))
  <1> DEFINE n == Len(seqs)
             flat == FlattenSeq(seqs)
             a == Lengths(seqs)
  <1>1. n \in Nat /\ a \in [1..n -> Nat] /\ \A k \in 1..n : a[k] = Len(seqs[k])
    BY LengthsType DEF Lengths
  <1>2. PICK p : IsPrefixSum(p, n, a)
    BY LengthsType
  <1>3. /\ Len(flat) = p[n]
        /\ \A k \in 1..n : \A i \in 1..Len(seqs[k]) : flat[p[k - 1] + i] = seqs[k][i]
    <2>1. IsPrefixSum(p, Len(seqs), Lengths(seqs))
      BY <1>2
    <2> HIDE DEF flat, n, a
    <2>2. QED
      BY <2>1, FlattenFacts DEF flat, n
  <1> HIDE DEF n, flat, a
  <1>0. \A x \in 1..p[n] : \E k \in 1..n : \E i \in 1..a[k] : x = p[k - 1] + i
    <2>1. Blocks(p, n, a)
      BY <1>1, <1>2, BlockOf
    <2>2. QED
      BY <2>1 DEF Blocks
  <1>4. ASSUME NEW z \in 1..p[n]
        PROVE  \E k \in 1..n : \E i \in 1..Len(seqs[k]) : z = p[k - 1] + i /\ flat[z] = seqs[k][i]
    <2>1. PICK k \in 1..n : \E i \in 1..a[k] : z = p[k - 1] + i
      BY <1>0
    <2>2. PICK i \in 1..Len(seqs[k]) : z = p[k - 1] + i
      BY <1>1, <2>1
    <2>3. QED
      BY <1>3, <2>2
  <1>5. ASSUME NEW k \in 1..n, NEW i \in 1..Len(seqs[k])
        PROVE  p[k - 1] + i \in 1..p[n]
    BY <1>1, <1>2, BlocksApart
  <1>6. Placed(p, seqs, flat)
    BY <1>3, <1>4, <1>5 DEF n, Placed
  <1>7. QED
    BY <1>6 DEF flat

(* A joined sequence has the members of its parts. *)
LEMMA FlattenMembers ==
    ASSUME NEW X, NEW seqs \in Seq(Seq(X)), NEW x
    PROVE  x \in ToSet(FlattenSeq(seqs)) <=> \E k \in 1..Len(seqs) : x \in ToSet(seqs[k])
  <1> DEFINE flat == FlattenSeq(seqs)
  <1>1. PICK p : Placed(p, seqs, flat)
    BY FlattenPlaces
  <1>2. \A k \in 1..Len(seqs) : ToSet(seqs[k]) = {seqs[k][i] : i \in 1..Len(seqs[k])}
    <2>1. \A k \in 1..Len(seqs) : DOMAIN seqs[k] = 1..Len(seqs[k])
      OBVIOUS
    <2>2. QED
      BY <2>1 DEF ToSet
  <1>3. ToSet(flat) = {flat[z] : z \in 1..Len(flat)}
    <2>1. flat \in Seq(X)
      BY FlattenSum
    <2> HIDE DEF flat
    <2>2. DOMAIN flat = 1..Len(flat)
      BY <2>1
    <2>3. QED
      BY <2>2 DEF ToSet
  <1> HIDE DEF flat
  <1>4. x \in {flat[z] : z \in 1..Len(flat)}
            => \E k \in 1..Len(seqs) : x \in {seqs[k][i] : i \in 1..Len(seqs[k])}
    BY <1>1 DEF Placed
  <1>5. ASSUME NEW k \in 1..Len(seqs), NEW i \in 1..Len(seqs[k]), x = seqs[k][i]
        PROVE  x \in {flat[z] : z \in 1..Len(flat)}
    <2>1. p[k - 1] + i \in 1..Len(flat) /\ flat[p[k - 1] + i] = seqs[k][i]
      BY <1>1 DEF Placed
    <2>2. QED
      BY <2>1, <1>5
  <1>6. ASSUME x \in ToSet(flat)
        PROVE  \E k \in 1..Len(seqs) : x \in ToSet(seqs[k])
    BY <1>2, <1>3, <1>4, <1>6
  <1>7. ASSUME NEW k \in 1..Len(seqs), x \in ToSet(seqs[k])
        PROVE  x \in ToSet(flat)
    <2>1. PICK i \in 1..Len(seqs[k]) : x = seqs[k][i]
      BY <1>2, <1>7
    <2>2. QED
      BY <1>3, <1>5, <2>1
  <1>8. QED
    BY <1>6, <1>7 DEF flat

(* Parts with distinct entries throughout are joined to a sequence with     *)
(* distinct entries.                                                        *)
LEMMA FlattenInjective ==
    ASSUME NEW X, NEW seqs \in Seq(Seq(X)),
           \A k, m \in 1..Len(seqs) : \A i \in 1..Len(seqs[k]), j \in 1..Len(seqs[m]) :
              seqs[k][i] = seqs[m][j] => k = m /\ i = j,
           NEW x \in 1..Len(FlattenSeq(seqs)), NEW y \in 1..Len(FlattenSeq(seqs)),
           FlattenSeq(seqs)[x] = FlattenSeq(seqs)[y]
    PROVE  x = y
  <1> DEFINE flat == FlattenSeq(seqs)
  <1>1. PICK p : Placed(p, seqs, flat)
    BY FlattenPlaces
  <1>2. x \in 1..Len(flat) /\ y \in 1..Len(flat) /\ flat[x] = flat[y]
    OBVIOUS
  <1> HIDE DEF flat
  <1>3. PICK k \in 1..Len(seqs) : \E i \in 1..Len(seqs[k]) : x = p[k - 1] + i /\ flat[x] = seqs[k][i]
    BY <1>1, <1>2 DEF Placed
  <1>4. PICK i \in 1..Len(seqs[k]) : x = p[k - 1] + i /\ flat[x] = seqs[k][i]
    BY <1>3
  <1>5. PICK m \in 1..Len(seqs) : \E j \in 1..Len(seqs[m]) : y = p[m - 1] + j /\ flat[y] = seqs[m][j]
    BY <1>1, <1>2 DEF Placed
  <1>6. PICK j \in 1..Len(seqs[m]) : y = p[m - 1] + j /\ flat[y] = seqs[m][j]
    BY <1>5
  <1>7. k = m /\ i = j
    <2>1. seqs[k][i] = seqs[m][j]
      BY <1>2, <1>4, <1>6
    <2>2. QED
      BY <2>1
  <1>8. QED
    BY <1>4, <1>6, <1>7

-----------------------------------------------------------------------------
(* The members of a finite set by their rank under a numbering of them.     *)
Rank(S, key, x) == Cardinality({y \in S : key[y] < key[x]})

(* A finite set in which a key tells the elements apart.                    *)
Numbered(S, key) ==
    IsFiniteSet(S) /\ key \in [S -> Int] /\ \A x, y \in S : key[x] = key[y] => x = y

(* The ranks are 0 to one less than the number of elements, each taken      *)
(* once.                                                                    *)
IsRanking(S, key) ==
    /\ Cardinality(S) \in Nat
    /\ \A x \in S : Rank(S, key, x) \in 0..(Cardinality(S) - 1)
    /\ \A x, y \in S : Rank(S, key, x) = Rank(S, key, y) => x = y
    /\ \A k \in 1..Cardinality(S) : \E x \in S : Rank(S, key, x) = k - 1

(* A key numbers the set.                                                   *)
LEMMA RankFacts ==
    ASSUME NEW S, NEW key, Numbered(S, key)
    PROVE  IsRanking(S, key)
  <1> USE DEF Numbered
  <1> DEFINE n == Cardinality(S)
             below(x) == {y \in S : key[y] < key[x]}
             r == [x \in S |-> Rank(S, key, x)]
  <1>1. n \in Nat
    BY FS_CardinalityType
  <1>2. ASSUME NEW x \in S
        PROVE  /\ IsFiniteSet(below(x)) /\ IsFiniteSet(below(x) \cup {x})
               /\ Rank(S, key, x) \in Nat /\ Cardinality(below(x)) = Rank(S, key, x)
               /\ Cardinality(below(x) \cup {x}) = Rank(S, key, x) + 1
    <2>1. below(x) \in SUBSET S /\ x \notin below(x)
      OBVIOUS
    <2>2. IsFiniteSet(below(x)) /\ Cardinality(below(x)) \in Nat
      BY <2>1, FS_Subset, FS_CardinalityType
    <2>3. Cardinality(below(x)) = Rank(S, key, x)
      BY DEF Rank
    <2> HIDE DEF below
    <2>4. IsFiniteSet(below(x) \cup {x}) /\ Cardinality(below(x) \cup {x}) = Cardinality(below(x)) + 1
      BY <2>1, <2>2, FS_AddElement
    <2>5. QED
      BY <2>2, <2>3, <2>4
  <1>3. \A x \in S : r[x] \in 0..(n - 1)
    <2>1. ASSUME NEW x \in S
          PROVE  Rank(S, key, x) + 1 <= n
      <3>1. below(x) \cup {x} \in SUBSET S
        OBVIOUS
      <3> HIDE DEF below
      <3>2. Cardinality(below(x) \cup {x}) <= n
        BY <3>1, FS_Subset
      <3>3. QED
        BY <3>2, <1>2
    <2>2. ASSUME NEW x \in S
          PROVE  Rank(S, key, x) \in 0..(n - 1)
      <3>1. Rank(S, key, x) \in Nat /\ Rank(S, key, x) + 1 <= n
        BY <1>2, <2>1
      <3> HIDE DEF n
      <3>2. QED
        BY <3>1, <1>1
    <2>3. QED
      BY <2>2
  <1>4. ASSUME NEW x \in S, NEW y \in S, key[x] < key[y]
        PROVE  r[x] < r[y]
    <2>1. below(x) \cup {x} \in SUBSET below(y)
      BY <1>4
    <2> HIDE DEF below
    <2>2. Cardinality(below(x) \cup {x}) <= Cardinality(below(y))
      BY <2>1, <1>2, FS_Subset
    <2>3. Rank(S, key, x) + 1 <= Rank(S, key, y)
      BY <2>2, <1>2
    <2>4. Rank(S, key, x) \in Nat /\ Rank(S, key, y) \in Nat
      BY <1>2
    <2>5. Rank(S, key, x) < Rank(S, key, y)
      BY <2>3, <2>4
    <2>6. QED
      BY <2>5
  <1>5. r \in Injection(S, 0..(n - 1))
    <2>1. r \in [S -> 0..(n - 1)]
      BY <1>3
    <2>2. ASSUME NEW x \in S, NEW y \in S, r[x] = r[y]
          PROVE  x = y
      <3>1. ~(key[x] < key[y]) /\ ~(key[y] < key[x])
        <4>1. r[x] \in Int
          BY <1>3
        <4> HIDE DEF r
        <4>2. QED
          BY <4>1, <1>4, <2>2
      <3>2. key[x] = key[y]
        BY <3>1
      <3>3. QED
        BY <3>2
    <2> HIDE DEF r
    <2>3. QED
      BY <2>1, <2>2 DEF Injection, IsInjective
  <1>6. IsFiniteSet(0..(n - 1)) /\ Cardinality(0..(n - 1)) = n
    <2> HIDE DEF n
    <2>1. 0 \in Int /\ n - 1 \in Int /\ (0 > n - 1 <=> n = 0) /\ (n - 1) - 0 + 1 = n
      BY <1>1
    <2>2. QED
      BY <2>1, FS_Interval
  <1>7. r \in Surjection(S, 0..(n - 1))
    <2> HIDE DEF r, n
    <2>1. QED
      BY <1>5, <1>6, FS_Injection DEF n
  <1>8. ASSUME NEW k \in 1..n
        PROVE  \E x \in S : Rank(S, key, x) = k - 1
    <2>1. k - 1 \in 0..(n - 1)
      BY <1>1
    <2>2. PICK x \in S : r[x] = k - 1
      <3> HIDE DEF r, n
      <3>1. QED
        BY <1>7, <2>1 DEF Surjection
    <2>3. QED
      BY <2>2
  <1>9. \A x, y \in S : Rank(S, key, x) = Rank(S, key, y) => x = y
    <2>1. \A x, y \in S : r[x] = r[y] => x = y
      <3> HIDE DEF r
      <3>1. QED
        BY <1>5 DEF Injection, IsInjective
    <2>2. QED
      BY <2>1
  <1>10. \A x \in S : Rank(S, key, x) \in 0..(n - 1)
    BY <1>3
  <1>11. QED
    BY <1>1, <1>8, <1>9, <1>10 DEF IsRanking
====
