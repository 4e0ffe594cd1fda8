-------------------------- MODULE GenerationProofs --------------------------
(***************************************************************************)
(* Proofs about a generation command, for every catalog and every command  *)
(* line: the counts of requests agree, and the budget that was checked     *)
(* covers the first pass of every triplet; and the order Stage 3 gives the *)
(* units is sound.                                                         *)
(*                                                                         *)
(* The counts rest on the fold that groups the functions of a triplet      *)
(* (TakenType, StepCountType); the budget on the running sums of the       *)
(* estimates: as long as nothing failed, the requests sent are those of    *)
(* the triplets before, of the stages before, and of this stage.           *)
(*                                                                         *)
(* The order rests on what a pass of _order_snippets keeps (OrderInv,      *)
(* PassKeeps): it places the units that wait for no remaining one, so n    *)
(* passes place n units, each after what it depends on.  The structures    *)
(* made from a structure are found by growing a set n times: a pass that   *)
(* adds nothing has closed it, and n targets are all there are             *)
(* (GrownIsClosed).                                                        *)
(***************************************************************************)
EXTENDS GenerationProps, FoldLemmas

-----------------------------------------------------------------------------
(* What structural_steps keeps while it groups functions.                   *)
Groupings(names) == [groups : SUBSET (SUBSET names), rest : SUBSET names]

(* One alternative considered: the step of the fold in Grouped.             *)
TakeGroup(st, alternatives) ==
    IF Cardinality(alternatives) > 1 /\ alternatives \subseteq st.rest
    THEN [groups |-> st.groups \cup {alternatives}, rest |-> st.rest \ alternatives]
    ELSE st

(* What the fold has made of a set of places.                               *)
GroupBody(iter, s, names, evidence) ==
    IF s = {} THEN [groups |-> {}, rest |-> names]
    ELSE TakeGroup(iter[s \ {TopOf(s)}], evidence[TopOf(s)])

(* The fold by the definitions of the modules.                              *)
TakenIn(names, evidence) ==
    (CHOOSE iter : iter = [s \in SUBSET (DOMAIN evidence) |-> GroupBody(iter, s, names, evidence)])
        [DOMAIN evidence]

(* Grouped, with its fold laid open.                                        *)
LEMMA GroupedUnfolds ==
    ASSUME NEW names, NEW evidence
    PROVE  Grouped(names, evidence) =
              TakenIn(names, evidence).groups \cup {{f} : f \in TakenIn(names, evidence).rest}
  <1> DEFINE Take(st, alternatives) ==
                IF Cardinality(alternatives) > 1 /\ alternatives \subseteq st.rest
                THEN [groups |-> st.groups \cup {alternatives},
                      rest   |-> st.rest \ alternatives]
                ELSE st
  <1>1. FoldLeft(Take, [groups |-> {}, rest |-> names], evidence) = TakenIn(names, evidence)
    BY DEF FoldLeft, MapThenFoldSet, Max, TopOf, TakenIn, GroupBody, TakeGroup
  <1>2. QED
    BY <1>1 DEF Grouped

(* Taking an alternative keeps groups among the names.                      *)
LEMMA TakeGroupType ==
    ASSUME NEW names, NEW st \in Groupings(names), NEW alternatives
    PROVE  TakeGroup(st, alternatives) \in Groupings(names)
  BY DEF TakeGroup, Groupings

(* So does taking any number of them.                                       *)
LEMMA TakenType ==
    ASSUME NEW names, NEW n \in Nat, NEW evidence, DOMAIN evidence = 1..n
    PROVE  TakenIn(names, evidence) \in Groupings(names)
  <1> DEFINE S == 1..n
             V == Groupings(names)
             base == [groups |-> {}, rest |-> names]
             step == [x \in S |-> [v \in V |-> TakeGroup(v, evidence[x])]]
             pick == TopOfEach(n)
             Body(iter) == [s \in SUBSET S |-> GroupBody(iter, s, names, evidence)]
             chosen == CHOOSE iter : iter = Body(iter)
  <1>1. base \in V
    BY DEF Groupings
  <1>2. step \in [S -> [V -> V]]
    <2>1. \A v \in V, x \in S : TakeGroup(v, evidence[x]) \in V
      BY TakeGroupType
    <2> HIDE DEF V
    <2>2. QED
      BY <2>1
  <1>3. CanFold(S, V, base, step, pick)
    <2>1. CanClimb(n, V, base, step)
      <3> HIDE DEF V, base, step
      <3>1. QED
        BY <1>1, <1>2 DEF CanClimb
    <2> HIDE DEF V, base, step
    <2>2. QED
      BY <2>1, FoldClimbs
  <1>4. PICK iter \in [SUBSET S -> V] : Iterates(iter, S, base, step, pick)
    <2> HIDE DEF S, V, base, step, pick
    <2>1. QED
      BY <1>3, FoldExists
  <1>5. \A s \in SUBSET S : s # {} => TopOf(s) \in s /\ pick[s] = TopOf(s)
    BY GreatestElement DEF TopOfEach
  <1>6. ASSUME NEW s \in SUBSET S
        PROVE  iter[s] = GroupBody(iter, s, names, evidence)
    <2>1. CASE s = {}
      BY <1>4, <2>1 DEF Iterates, GroupBody
    <2>2. CASE s # {}
      <3> DEFINE x == TopOf(s)
      <3>1. x \in S /\ s \ {x} \in SUBSET S /\ pick[s] = x
        BY <1>5, <2>2
      <3>2. iter[s] = step[x][iter[s \ {x}]]
        <4> HIDE DEF step, base, pick, x
        <4>1. QED
          BY <1>4, <2>2, <3>1 DEF Iterates
      <3>3. iter[s \ {x}] \in V
        <4> HIDE DEF V, x
        <4>1. QED
          BY <3>1, <1>4
      <3>4. step[x][iter[s \ {x}]] = TakeGroup(iter[s \ {x}], evidence[x])
        <4> HIDE DEF V, x
        <4>1. QED
          BY <3>1, <3>3
      <3>5. QED
        BY <3>2, <3>4, <2>2 DEF GroupBody
    <2>3. QED
      BY <2>1, <2>2
  <1>7. iter = Body(iter)
    <2> HIDE DEF V, base, step, pick
    <2>1. QED
      BY <1>4, <1>6
  <1>8. chosen = Body(chosen)
    <2> HIDE DEF Body
    <2>1. QED
      BY <1>7
  <1>9. /\ chosen = [s \in SUBSET S |-> chosen[s]]
        /\ \A s \in SUBSET S : chosen[s] = GroupBody(chosen, s, names, evidence)
    <2> HIDE DEF chosen
    <2>1. QED
      BY <1>8
  <1>10. chosen[{}] = base
    <2> HIDE DEF chosen
    <2>1. QED
      BY <1>9 DEF GroupBody
  <1>11. ASSUME NEW s \in SUBSET S, s # {}, chosen[s \ {pick[s]}] \in V
         PROVE  chosen[s] = step[pick[s]][chosen[s \ {pick[s]}]]
    <2>1. TopOf(s) \in S /\ pick[s] = TopOf(s)
      BY <1>5, <1>11
    <2> HIDE DEF chosen, V, pick
    <2>2. QED
      BY <1>9, <1>11, <2>1 DEF GroupBody
  <1>12. chosen \in [SUBSET S -> V]
    <2>1. \A s \in SUBSET S : s # {} /\ chosen[s \ {pick[s]}] \in V =>
              chosen[s] = step[pick[s]][chosen[s \ {pick[s]}]]
      <3> HIDE DEF S, V, base, step, pick, chosen
      <3>1. QED
        BY <1>11
    <2> HIDE DEF S, V, base, step, pick, chosen
    <2>2. Follows(chosen, S, V, base, step, pick)
      BY <1>9, <1>10, <2>1 DEF Follows
    <2>3. QED
      BY <1>3, <2>2, FoldTyped
  <1>13. TakenIn(names, evidence) = chosen[S]
    BY DEF TakenIn
  <1>14. QED
    <2>1. S \in SUBSET S
      OBVIOUS
    <2> HIDE DEF chosen, V, S
    <2>2. chosen[S] \in V
      BY <2>1, <1>12
    <2>3. QED
      BY <2>2, <1>13 DEF V

(* The groups of a set of functions are sets of these functions.            *)
LEMMA GroupedType ==
    ASSUME NEW names, NEW n \in Nat, NEW evidence, DOMAIN evidence = 1..n
    PROVE  Grouped(names, evidence) \in SUBSET (SUBSET names)
  <1> DEFINE taken == TakenIn(names, evidence)
  <1>1. taken \in Groupings(names)
    BY TakenType
  <1> HIDE DEF taken
  <1>2. taken.groups \in SUBSET (SUBSET names) /\ taken.rest \in SUBSET names
    BY <1>1 DEF Groupings
  <1>3. Grouped(names, evidence) = taken.groups \cup {{f} : f \in taken.rest}
    BY GroupedUnfolds DEF taken
  <1>4. QED
    BY <1>2, <1>3

(* A function on a finite set takes finitely many values.                   *)
LEMMA FiniteRange ==
    ASSUME NEW S, IsFiniteSet(S), NEW f
    PROVE  IsFiniteSet({f[x] : x \in S})
  <1> DEFINE T == {f[x] : x \in S}
             g == [x \in S |-> f[x]]
  <1>1. g \in Surjection(S, T)
    BY DEF Surjection
  <1> HIDE DEF g
  <1>2. IsFiniteSet(T)
    BY <1>1, FS_Surjection
  <1>3. QED
    BY <1>2 DEF T

(* A triplet has finitely many steps: each is two ends of an edge and some  *)
(* of its functions.                                                        *)
LEMMA StepCountType ==
    ASSUME NEW ft, IsFiniteSet(ft.functions), IsFiniteSet(ft.edges),
           ft.alternatives \in Seq(ToSet(ft.alternatives))
    PROVE  Functions(ft) \in Nat /\ StepCount(ft) \in Nat
  <1> DEFINE named == [e \in ft.edges |-> e.function]
             names == ft.functions \cup {named[e] : e \in ft.edges}
             ends == [e \in ft.edges |-> <<e.src, e.dst>>]
             Spans == {ends[e] : e \in ft.edges} \cup {<<Null, Null>>}
             n == Len(ft.alternatives)
             made == [x \in Spans \X (SUBSET names) |->
                        [source |-> x[1][1], target |-> x[1][2], functions |-> x[2]]]
             Image == {made[x] : x \in Spans \X (SUBSET names)}
  <1>1. IsFiniteSet(names)
    <2>1. IsFiniteSet({named[e] : e \in ft.edges})
      BY FiniteRange
    <2>2. QED
      BY <2>1, FS_Union
  <1>2. IsFiniteSet(Spans)
    <2>1. IsFiniteSet({<<Null, Null>>})
      BY FS_Singleton
    <2> HIDE DEF ends
    <2>2. IsFiniteSet({ends[e] : e \in ft.edges})
      BY FiniteRange
    <2>3. QED
      BY <2>1, <2>2, FS_Union
  <1>3. IsFiniteSet(Image)
    <2>1. IsFiniteSet(Spans \X (SUBSET names))
      <3> HIDE DEF Spans, names
      <3>1. QED
        BY <1>1, <1>2, FS_Product, FS_SUBSET
    <2> HIDE DEF Spans, names, made
    <2>2. QED
      BY <2>1, FiniteRange
  <1>4. n \in Nat /\ DOMAIN ft.alternatives = 1..n
    OBVIOUS
  <1>5. ASSUME NEW end \in Ends(ft)
        PROVE  /\ end \in Spans
               /\ Grouped(Between(ft, end[1], end[2]), ft.alternatives) \in SUBSET (SUBSET names)
    <2>1. end \in Spans
      BY DEF Ends
    <2>2. Between(ft, end[1], end[2]) \in SUBSET names
      BY DEF Between, Uncovered
    <2> HIDE DEF names, n
    <2>3. Grouped(Between(ft, end[1], end[2]), ft.alternatives)
             \in SUBSET (SUBSET Between(ft, end[1], end[2]))
      BY <1>4, GroupedType
    <2>4. QED
      BY <2>1, <2>2, <2>3
  <1>6. StructuralSteps(ft) \in SUBSET Image
    <2> SUFFICES ASSUME NEW unit \in StructuralSteps(ft)
                 PROVE  unit \in Image
      OBVIOUS
    <2>1. PICK end \in Ends(ft) :
             \E group \in Grouped(Between(ft, end[1], end[2]), ft.alternatives) :
                unit = [source |-> end[1], target |-> end[2], functions |-> group]
      BY DEF StructuralSteps
    <2>2. PICK group \in Grouped(Between(ft, end[1], end[2]), ft.alternatives) :
             unit = [source |-> end[1], target |-> end[2], functions |-> group]
      BY <2>1
    <2>3. end \in Spans /\ group \in SUBSET names
      BY <1>5
    <2> HIDE DEF Spans, names
    <2>4. <<end, group>> \in Spans \X (SUBSET names)
      BY <2>3
    <2>5. made[<<end, group>>] = unit
      BY <2>2, <2>4
    <2> HIDE DEF made
    <2>6. QED
      BY <2>4, <2>5
  <1>7. QED
    <2> HIDE DEF Image
    <2>1. IsFiniteSet(StructuralSteps(ft))
      BY <1>3, <1>6, FS_Subset
    <2>2. QED
      BY <2>1, FS_CardinalityType DEF Functions, StepCount

-----------------------------------------------------------------------------
(* Requests, of any triplet at any stage.                                   *)
RequestsOf(ft, s) ==
    CASE s = 1 -> Functions(ft)
      [] s = 2 -> StepCount(ft)
      [] s = 3 -> 1
      [] s = 4 -> 2

(* Estimate, up to any stage.                                               *)
EstimateOf(ft, until) ==
    Functions(ft)
        + (IF until >= 2 THEN StepCount(ft) ELSE 0)
        + (IF until >= 3 THEN 1 ELSE 0)
        + (IF until >= 4 THEN 2 ELSE 0)

(* The requests of the stages before s.                                     *)
Spent(ft, s) ==
    (IF s > 1 THEN Functions(ft) ELSE 0)
        + (IF s > 2 THEN StepCount(ft) ELSE 0)
        + (IF s > 3 THEN 1 ELSE 0)

(* The counts of a triplet are numbers, the two costs are the same, and an  *)
(* estimate is never above them.                                            *)
LEMMA CountsType ==
    ASSUME NEW c, IsCatalog(c), NEW ft \in c
    PROVE  /\ Functions(ft) \in Nat /\ StepCount(ft) \in Nat
           /\ Cost(ft) \in Nat /\ Baseline(ft) = Cost(ft)
           /\ \A until \in Stages :
                EstimateOf(ft, until) \in Nat /\ EstimateOf(ft, until) <= Cost(ft)
           /\ \A s \in Stages : RequestsOf(ft, s) \in Nat /\ Spent(ft, s) \in Nat
  <1>1. Functions(ft) \in Nat /\ StepCount(ft) \in Nat
    BY StepCountType DEF IsCatalog
  <1>2. Cost(ft) \in Nat /\ Baseline(ft) = Cost(ft)
    BY <1>1 DEF Cost, Baseline
  <1>3. ASSUME NEW until \in Stages
        PROVE  EstimateOf(ft, until) \in Nat /\ EstimateOf(ft, until) <= Cost(ft)
    BY <1>1 DEF Cost, EstimateOf, Stages
  <1>4. ASSUME NEW s \in Stages
        PROVE  RequestsOf(ft, s) \in Nat /\ Spent(ft, s) \in Nat
    BY <1>1 DEF RequestsOf, Spent, Stages
  <1>5. QED
    BY <1>1, <1>2, <1>3, <1>4

(* Stage by stage the requests add up to the estimate.                      *)
LEMMA RequestsFit ==
    ASSUME NEW c, IsCatalog(c), NEW ft \in c, NEW until \in Stages, NEW s \in Stages,
           s <= until
    PROVE  /\ Spent(ft, s) + RequestsOf(ft, s) <= EstimateOf(ft, until)
           /\ s = until => Spent(ft, s) + RequestsOf(ft, s) = EstimateOf(ft, until)
           /\ s < until => Spent(ft, s + 1) = Spent(ft, s) + RequestsOf(ft, s)
  <1>1. Functions(ft) \in Nat /\ StepCount(ft) \in Nat
    BY CountsType
  <1>2. QED
    BY <1>1 DEF Spent, RequestsOf, EstimateOf, Stages

-----------------------------------------------------------------------------
(* What each of the triplets costs.                                         *)
Costs(fts) == [k \in DOMAIN fts |-> Cost(fts[k])]
(* What each of them is estimated to need up to a stage.                    *)
Estimates(fts, until) == [k \in DOMAIN fts |-> EstimateOf(fts[k], until)]

(* The two sums of the code are totals of these lists.                      *)
LEMMA SumsUnfold ==
    ASSUME NEW fts
    PROVE  /\ Sum(fts, Cost) = Total(Costs(fts))
           /\ Sum(fts, Estimate) = Total(Estimates(fts, command.until))
  BY DEF Sum, Total, Costs, Estimates, Estimate, EstimateOf

(* The lists hold numbers, the estimates the smaller ones.                  *)
LEMMA ListsType ==
    ASSUME NEW c, IsCatalog(c), NEW fts \in Seq(c), NEW until \in Stages
    PROVE  /\ Len(fts) \in Nat
           /\ Costs(fts) \in [1..Len(fts) -> Nat]
           /\ Estimates(fts, until) \in [1..Len(fts) -> Nat]
           /\ \A k \in 1..Len(fts) : fts[k] \in c /\ Estimates(fts, until)[k] <= Costs(fts)[k]
  <1>1. Len(fts) \in Nat /\ DOMAIN fts = 1..Len(fts) /\ \A k \in 1..Len(fts) : fts[k] \in c
    OBVIOUS
  <1>2. ASSUME NEW k \in 1..Len(fts)
        PROVE  /\ Cost(fts[k]) \in Nat /\ EstimateOf(fts[k], until) \in Nat
               /\ EstimateOf(fts[k], until) <= Cost(fts[k])
    BY <1>1, CountsType
  <1>3. QED
    BY <1>1, <1>2 DEF Costs, Estimates

(* The manifest check recounts what the selection counted.                  *)
LEMMA BaselinesAreCosts ==
    ASSUME NEW c, IsCatalog(c), NEW fts \in Seq(c)
    PROVE  Sum(fts, Baseline) = Total(Costs(fts))
  <1>1. \A k \in DOMAIN fts : Baseline(fts[k]) = Cost(fts[k])
    BY CountsType
  <1>2. [k \in DOMAIN fts |-> Baseline(fts[k])] = Costs(fts)
    BY <1>1 DEF Costs
  <1>3. QED
    BY <1>2 DEF Sum, Total

(* The totals are numbers, the one of the estimates the smaller one.        *)
LEMMA TotalsType ==
    ASSUME NEW c, IsCatalog(c), NEW fts \in Seq(c), NEW until \in Stages
    PROVE  /\ Total(Costs(fts)) \in Nat /\ Total(Estimates(fts, until)) \in Nat
           /\ Total(Estimates(fts, until)) <= Total(Costs(fts))
  <1> DEFINE n == Len(fts)
             a == Estimates(fts, until)
             b == Costs(fts)
  <1>1. n \in Nat /\ a \in [1..n -> Nat] /\ b \in [1..n -> Nat] /\ \A k \in 1..n : a[k] <= b[k]
    BY ListsType
  <1> HIDE DEF n, a, b
  <1>2. a \in [1..n -> Int] /\ b \in [1..n -> Int]
    BY <1>1
  <1>3. PICK p : IsPrefixSum(p, n, a) /\ p[n] = Total(a)
    BY <1>1, <1>2, PrefixSums
  <1>4. PICK q : IsPrefixSum(q, n, b) /\ q[n] = Total(b)
    BY <1>1, <1>2, PrefixSums
  <1>5. n \in 0..n
    BY <1>1
  <1>6. p[n] <= q[n]
    BY <1>1, <1>2, <1>3, <1>4, <1>5, PrefixSumsOrdered
  <1>7. p[n] \in Nat /\ q[n] \in Nat
    BY <1>1, <1>3, <1>4, <1>5, PrefixSumsRise
  <1>8. QED
    BY <1>3, <1>4, <1>6, <1>7 DEF a, b

(* One more triplet adds its cost.                                          *)
LEMMA CostsAppend ==
    ASSUME NEW c, IsCatalog(c), NEW fts \in Seq(c), NEW ft \in c
    PROVE  Total(Costs(Append(fts, ft))) = Total(Costs(fts)) + Cost(ft)
  <1>1. Costs(fts) \in Seq(Int)
    <2>1. 1 \in Stages
      BY DEF Stages
    <2>2. Len(fts) \in Nat /\ Costs(fts) \in [1..Len(fts) -> Nat]
      BY <2>1, ListsType
    <2>3. Costs(fts) \in [1..Len(fts) -> Int]
      BY <2>2
    <2>4. QED
      BY <2>2, <2>3
  <1>2. Cost(ft) \in Int
    BY CountsType
  <1>3. Costs(Append(fts, ft)) = Append(Costs(fts), Cost(ft))
    <2> DEFINE a == Costs(Append(fts, ft))
               b == Append(Costs(fts), Cost(ft))
               n == Len(fts)
    <2>1. n \in Nat /\ DOMAIN fts = 1..n /\ Len(Costs(fts)) = n
      <3>1. DOMAIN Costs(fts) = DOMAIN fts
        BY DEF Costs
      <3>2. QED
        BY <3>1, <1>1
    <2>2. /\ Append(fts, ft) \in Seq(c) /\ Len(Append(fts, ft)) = n + 1
          /\ \A k \in 1..n : Append(fts, ft)[k] = fts[k]
          /\ Append(fts, ft)[n + 1] = ft
      OBVIOUS
    <2>3. DOMAIN Append(fts, ft) = 1..(n + 1)
      BY <2>2
    <2>4. a \in Seq(Nat) /\ Len(a) = n + 1
      <3>1. \A k \in 1..(n + 1) : Append(fts, ft)[k] \in c
        BY <2>1, <2>2
      <3>2. \A k \in 1..(n + 1) : Cost(Append(fts, ft)[k]) \in Nat
        BY <3>1, CountsType
      <3>3. a \in [1..(n + 1) -> Nat]
        BY <2>3, <3>2 DEF Costs
      <3>4. n + 1 \in Nat
        BY <2>1
      <3> HIDE DEF a, n
      <3>5. QED
        BY <3>3, <3>4
    <2>5. b \in Seq(Int) /\ Len(b) = n + 1
      BY <1>1, <1>2, <2>1
    <2>6. ASSUME NEW k \in 1..(n + 1)
          PROVE  a[k] = b[k]
      <3>1. a[k] = Cost(Append(fts, ft)[k])
        BY <2>3 DEF Costs
      <3>2. CASE k \in 1..n
        <4>1. Costs(fts)[k] = Cost(fts[k])
          BY <2>1, <3>2 DEF Costs
        <4>2. b[k] = Costs(fts)[k]
          BY <1>1, <1>2, <2>1, <3>2
        <4>3. QED
          BY <3>1, <3>2, <4>1, <4>2, <2>2
      <3>3. CASE k = n + 1
        BY <1>1, <1>2, <2>1, <2>2, <3>1, <3>3
      <3>4. QED
        BY <2>1, <3>2, <3>3
    <2> HIDE DEF a, b, n
    <2>7. DOMAIN a = 1..(n + 1) /\ DOMAIN b = 1..(n + 1)
      BY <2>1, <2>4, <2>5
    <2>8. a = [k \in 1..(n + 1) |-> a[k]] /\ b = [k \in 1..(n + 1) |-> b[k]]
      BY <2>4, <2>5, <2>7
    <2>9. a = b
      BY <2>6, <2>8
    <2>10. QED
      BY <2>9 DEF a, b
  <1>4. QED
    BY <1>1, <1>2, <1>3, TotalAppend

(* The catalog in the order of its ids is a list of its triplets.           *)
LEMMA SortedCatalog ==
    ASSUME NEW c, IsCatalog(c)
    PROVE  Sorted(c, LAMBDA a, b : a.id < b.id) \in Seq(c)
  <1> DEFINE key == [ft \in c |-> ft.id]
             n == Cardinality(c)
             place(k) == CHOOSE x \in c : Cardinality({y \in c : y.id < x.id}) = k - 1
             s == [k \in 1..n |-> place(k)]
  <1>1. IsRanking(c, key)
    <2>1. Numbered(c, key)
      BY DEF Numbered, IsCatalog
    <2> HIDE DEF key
    <2>2. QED
      BY <2>1, RankFacts
  <1>2. ASSUME NEW x \in c
        PROVE  Rank(c, key, x) = Cardinality({y \in c : y.id < x.id})
    <2>1. {y \in c : key[y] < key[x]} = {y \in c : y.id < x.id}
      OBVIOUS
    <2>2. QED
      BY <2>1 DEF Rank
  <1>3. n \in Nat
    BY <1>1 DEF IsRanking
  <1>4. ASSUME NEW k \in 1..n
        PROVE  place(k) \in c
    <2>1. PICK x \in c : Rank(c, key, x) = k - 1
      <3> HIDE DEF key
      <3>1. QED
        BY <1>1 DEF IsRanking
    <2>2. Cardinality({y \in c : y.id < x.id}) = k - 1
      BY <1>2, <2>1
    <2>3. QED
      BY <2>2
  <1>5. s \in [1..n -> c]
    <2> HIDE DEF place, n
    <2>1. QED
      BY <1>4
  <1>6. s \in Seq(c)
    <2> HIDE DEF s, n
    <2>1. QED
      BY <1>3, <1>5
  <1>7. QED
    BY <1>6 DEF Sorted

-----------------------------------------------------------------------------
(* What the command works on is one of the invocations, and it works on     *)
(* triplets of the catalog only.                                            *)
CatalogInv == <<catalog, command>> \in Invocations /\ selected \in Seq(catalog)

(* What pipeline_state.json says of a triplet.                              *)
Statuses == {"absent", "running", "paused", "completed", "failed"}
(* Why a stage failed.                                                      *)
Kinds == {"refused", "other"}

(* The loop is at one of the triplets, and at a stage that has asked for no *)
(* more than it needs.                                                      *)
StateInv ==
    /\ phase \in {"select", "check", "run", "done"}
    /\ at \in Nat \ {0}
    /\ stage \in Stages
    /\ level \in Levels \cup {NoLevel}
    /\ attempt \in 1..MaxRegen
    /\ calls \in 0..command.limit
    /\ status \in [Ids -> Statuses]
    /\ failures \in [Ids -> SUBSET Kinds]
    /\ phase = "run" =>
         /\ at \in 1..Len(selected)
         /\ asked \in 0..RequestsOf(Current, stage)

(* A manifest keeps the limits it was selected under.                       *)
SelectionInv ==
    command.mode = "manifest" =>
        /\ Len(selected) <= command.selFt
        /\ Total(Costs(selected)) <= command.selCalls
        /\ \A k \in DOMAIN selected : selected[k] \in Ranked

(* NothingAffordableLeftOut, with the sum as a total.                       *)
RoomInv ==
    phase # "select" /\ command.mode = "manifest" =>
        \A ft \in Ranked :
            \/ \E k \in DOMAIN selected : selected[k] = ft
            \/ Len(selected) = command.selFt
            \/ Total(Costs(selected)) + Cost(ft) > command.selCalls

(* No stage has failed yet.                                                 *)
NoFailures == \A id \in Ids : failures[id] = {}

(* The requests sent: those of the triplets before, of the stages before    *)
(* and of this stage.                                                       *)
Accounted(p) ==
    /\ IsPrefixSum(p, Len(selected), Estimates(selected, command.until))
    /\ calls = p[at - 1] + Spent(Current, stage) + asked

(* The checked estimates are within the limit, and until a stage fails      *)
(* every request sent is one that was estimated.                            *)
AccountInv ==
    /\ phase \in {"select", "check"} => calls = 0 /\ NoFailures
    /\ phase = "run" => Total(Estimates(selected, command.until)) <= command.limit
    /\ phase = "run" /\ NoFailures => stage <= command.until /\ \E p : Accounted(p)

(* The inductive invariant.                                                 *)
IInv ==
    /\ CatalogInv /\ StateInv /\ SelectionInv /\ AccountInv
    /\ FirstPassNeverRefused /\ RoomInv

-----------------------------------------------------------------------------
(* The options of a command.                                                *)
LEMMA CommandType ==
    ASSUME <<catalog, command>> \in Invocations
    PROVE  /\ IsCatalog(catalog)
           /\ command.mode \in {"manifest", "all", "one"}
           /\ command.until \in Stages
           /\ command.selFt \in Nat /\ command.selCalls \in Nat
           /\ command.selFunctions \in Nat /\ command.selUnits \in Nat
           /\ command.maxFt \in Nat /\ command.maxFunctions \in Nat
           /\ command.maxUnits \in Nat /\ command.limit \in Nat
  <1> DEFINE pair == <<catalog, command>>
  <1>1. pair[1] = catalog /\ pair[2] = command
    OBVIOUS
  <1> HIDE DEF pair
  <1>2. /\ IsCatalog(pair[1])
        /\ pair[2].mode \in {"manifest", "all", "one"} /\ pair[2].until \in Stages
        /\ \A field \in CommandFields \ {"mode"} : pair[2][field] \in Nat
    BY InvocationsAssumption DEF pair
  <1>3. QED
    BY <1>1, <1>2 DEF CommandFields

(* Requests, for the triplet and the stage the loop is at.                  *)
LEMMA RequestsAre == Requests = RequestsOf(Current, stage)
  BY DEF Requests, RequestsOf

(* The triplet the loop is at is one of the catalog.                        *)
LEMMA CurrentType ==
    ASSUME CatalogInv, StateInv, phase = "run"
    PROVE  /\ Current \in catalog /\ Current.id \in Ids
           /\ \A k \in 1..Len(selected) : selected[k] \in catalog /\ selected[k].id \in Ids
  BY DEF CatalogInv, StateInv, Current, Ids

(* A rollback that is not exhausted restarts one of the stages.             *)
LEMMA DecisionType ==
    ASSUME NEW f \in Stages, NEW l \in Levels \cup {NoLevel}, NEW a \in 1..MaxRegen
    PROVE  LET decision == AfterFailure(f, l, a)
           IN  /\ decision.exhausted \in BOOLEAN
               /\ ~decision.exhausted =>
                    /\ decision.restart \in Stages
                    /\ decision.level \in Levels \cup {NoLevel}
                    /\ decision.attempt \in 1..MaxRegen
  BY MaxRegenAssumption DEF AfterFailure, RestartFrom, Exhausted, Stages, Levels, NoLevel

(* What is left to show when the catalog, the command and the selection    *)
(* stay as they are.                                                       *)
LEMMA Kept ==
    ASSUME IInv, phase # "select", phase' # "select", UNCHANGED <<catalog, command, selected>>,
           StateInv', AccountInv', FirstPassNeverRefused'
    PROVE  IInv'
  <1>1. CatalogInv'
    BY DEF IInv, CatalogInv
  <1>2. Ranked' = Ranked
    BY DEF Ranked
  <1>3. SelectionInv'
    BY <1>2 DEF IInv, SelectionInv
  <1>4. RoomInv'
    BY <1>2 DEF IInv, RoomInv
  <1>5. QED
    BY <1>1, <1>3, <1>4 DEF IInv

(* A stage that begins has asked for nothing.                               *)
LEMMA NoRequestsYet ==
    ASSUME CatalogInv', at' \in 1..Len(selected'), stage' \in Stages
    PROVE  0 \in 0..RequestsOf(Current, stage)'
  <1>1. IsCatalog(catalog')
    <2>1. <<catalog', command'>> \in Invocations
      BY DEF CatalogInv
    <2> DEFINE pair == <<catalog', command'>>
    <2>2. IsCatalog(pair[1])
      BY <2>1, InvocationsAssumption
    <2>3. QED
      BY <2>2
  <1>2. Current' \in catalog'
    BY DEF CatalogInv, Current
  <1>3. RequestsOf(Current', stage') \in Nat
    BY <1>1, <1>2, CountsType
  <1>4. QED
    BY <1>3

(* Leaving a triplet for the next one, or for good.                         *)
LEMMA LeaveStep ==
    ASSUME CatalogInv, StateInv, phase = "run", UNCHANGED <<catalog, command, selected>>,
           NEW verdict \in Statuses, Leave(verdict),
           calls' \in 0..command.limit, failures' \in [Ids -> SUBSET Kinds]
    PROVE  /\ StateInv'
           /\ phase' \in {"run", "done"}
           /\ phase' = "run" => at' = at + 1 /\ stage' = 1 /\ asked' = 0
  <1>1. Ids' = Ids /\ CatalogInv'
    BY DEF Ids, CatalogInv
  <1>2. Len(selected) \in Nat /\ at \in 1..Len(selected)
    BY DEF CatalogInv, StateInv
  <1>3. CASE at < Len(selected)
    <2>1. /\ at' = at + 1 /\ stage' = 1 /\ level' = NoLevel /\ attempt' = 1 /\ asked' = 0
          /\ phase' = "run"
          /\ status' = [status EXCEPT ![Current.id] = verdict, ![selected[at + 1].id] = "running"]
      BY <1>2, <1>3 DEF Leave, Begin
    <2>2. at' \in 1..Len(selected)
      BY <1>2, <1>3, <2>1
    <2>3. status' \in [Ids -> Statuses]
      <3>1. "running" \in Statuses /\ status \in [Ids -> Statuses]
        BY DEF Statuses, StateInv
      <3>2. QED
        BY <2>1, <3>1
    <2>4. 0 \in 0..RequestsOf(Current, stage)'
      BY <1>1, <2>1, <2>2, NoRequestsYet DEF Stages
    <2>5. StateInv'
      <3>1. at' \in Nat \ {0}
        BY <2>2
      <3>2. stage' \in Stages /\ level' \in Levels \cup {NoLevel} /\ attempt' \in 1..MaxRegen
        BY <2>1, MaxRegenAssumption DEF Stages
      <3>3. QED
        BY <1>1, <2>1, <2>2, <2>3, <2>4, <3>1, <3>2 DEF StateInv
    <2>6. QED
      BY <2>1, <2>5
  <1>4. CASE at = Len(selected)
    <2>1. /\ phase' = "done" /\ status' = [status EXCEPT ![Current.id] = verdict]
          /\ UNCHANGED <<at, stage, level, attempt, asked>>
      BY <1>2, <1>4 DEF Leave
    <2>2. status' \in [Ids -> Statuses]
      BY <2>1 DEF StateInv
    <2>3. QED
      BY <1>1, <2>1, <2>2 DEF StateInv
  <1>5. QED
    BY <1>2, <1>3, <1>4

(* A failure is recorded, and changes neither the catalog nor the           *)
(* selection.                                                               *)
LEMMA FailStep ==
    ASSUME IInv, phase = "run", NEW kind \in Kinds, StageFails(kind),
           calls' \in 0..command.limit
    PROVE  /\ StateInv' /\ phase' \in {"run", "done"}
           /\ UNCHANGED <<catalog, command, selected>> /\ Ids' = Ids
           /\ \A id \in Ids : failures[id] \subseteq failures'[id]
           /\ \E id \in Ids : kind \in failures'[id]
  <1> DEFINE decision == AfterFailure(stage, level, attempt)
  <1>1. CatalogInv /\ StateInv
    BY DEF IInv
  <1>2. UNCHANGED <<catalog, command, selected>>
    BY DEF StageFails
  <1>3. Ids' = Ids /\ CatalogInv'
    BY <1>1, <1>2 DEF Ids, CatalogInv
  <1>4. Current.id \in Ids
    BY <1>1, CurrentType
  <1>5. failures' = [failures EXCEPT ![Current.id] = @ \cup {kind}]
    BY DEF StageFails
  <1>6. /\ failures' \in [Ids -> SUBSET Kinds]
        /\ \A id \in Ids : failures[id] \subseteq failures'[id]
        /\ kind \in failures'[Current.id]
    <2>1. failures \in [Ids -> SUBSET Kinds]
      BY <1>1 DEF StateInv
    <2>2. QED
      BY <1>4, <1>5, <2>1
  <1>7. StateInv' /\ phase' \in {"run", "done"}
    <2>1. CASE decision.exhausted
      <3>1. Leave("failed") /\ "failed" \in Statuses
        <4>1. Leave("failed")
          <5> HIDE DEF decision
          <5>1. QED
            BY <2>1 DEF StageFails, decision
        <4>2. QED
          BY <4>1 DEF Statuses
      <3>2. QED
        BY <1>1, <1>2, <1>6, <3>1, LeaveStep
    <2>2. CASE ~decision.exhausted
      <3>1. /\ stage' = decision.restart /\ level' = decision.level
            /\ attempt' = decision.attempt /\ asked' = 0
            /\ UNCHANGED <<phase, at, status>>
        BY <2>2 DEF StageFails
      <3>2. /\ decision.restart \in Stages /\ decision.level \in Levels \cup {NoLevel}
            /\ decision.attempt \in 1..MaxRegen
        BY <1>1, <2>2, DecisionType DEF StateInv
      <3> HIDE DEF decision
      <3>3. at' \in 1..Len(selected')
        BY <1>1, <1>2, <3>1 DEF StateInv
      <3>4. 0 \in 0..RequestsOf(Current, stage)'
        BY <1>3, <3>1, <3>2, <3>3, NoRequestsYet
      <3>5. QED
        BY <1>1, <1>2, <1>3, <1>6, <3>1, <3>2, <3>3, <3>4 DEF StateInv
    <2>3. QED
      BY <2>1, <2>2
  <1>8. QED
    BY <1>2, <1>3, <1>4, <1>6, <1>7

-----------------------------------------------------------------------------
(* A failure keeps the invariant, unless a request is refused before        *)
(* anything else failed.                                                    *)
LEMMA FailureKeepsIInv ==
    ASSUME IInv, phase = "run", NEW kind \in Kinds, StageFails(kind),
           calls' \in 0..command.limit,
           kind = "refused" => \E id \in Ids : "other" \in failures[id]
    PROVE  IInv'
  <1>1. /\ StateInv' /\ phase' \in {"run", "done"}
        /\ UNCHANGED <<catalog, command, selected>> /\ Ids' = Ids
        /\ \A id \in Ids : failures[id] \subseteq failures'[id]
        /\ \E id \in Ids : kind \in failures'[id]
    BY FailStep
  <1>2. \E id \in Ids' : "other" \in failures'[id]
    BY <1>1 DEF Kinds
  <1>3. FirstPassNeverRefused'
    BY <1>2 DEF FirstPassNeverRefused
  <1>4. ~NoFailures'
    BY <1>2 DEF NoFailures
  <1>5. AccountInv'
    <2>1. Total(Estimates(selected, command.until)) <= command.limit
      BY DEF IInv, AccountInv
    <2>2. QED
      BY <1>1, <1>4, <2>1 DEF AccountInv
  <1>6. QED
    BY <1>1, <1>3, <1>5, Kept

-----------------------------------------------------------------------------
(* The invariant holds when the command begins.                             *)
LEMMA InitIInv == Init => IInv
  <1> SUFFICES ASSUME Init PROVE IInv
    OBVIOUS
  <1>1. <<catalog, command>> \in Invocations
    <2>1. PICK pair \in Invocations : catalog = pair[1] /\ command = pair[2]
      BY DEF Init
    <2>2. pair = <<pair[1], pair[2]>>
      BY InvocationsAssumption
    <2>3. QED
      BY <2>1, <2>2
  <1>2. selected = <<>> /\ selected \in Seq(catalog) /\ Len(selected) = 0 /\ phase = "select"
    BY DEF Init
  <1>3. CatalogInv
    BY <1>1, <1>2 DEF CatalogInv
  <1>4. StateInv
    <2>1. command.limit \in Nat
      BY <1>1, CommandType
    <2>2. status \in [Ids -> Statuses] /\ failures \in [Ids -> SUBSET Kinds]
      BY DEF Init, Statuses
    <2>3. QED
      BY <2>1, <2>2, MaxRegenAssumption DEF Init, StateInv, Stages
  <1>5. SelectionInv
    <2>1. command.selFt \in Nat /\ command.selCalls \in Nat
      BY <1>1, CommandType
    <2>2. Costs(selected) = <<>>
      BY <1>2 DEF Costs
    <2>3. Total(Costs(selected)) = 0
      BY <2>2, TotalEmpty
    <2>4. DOMAIN selected = {}
      BY <1>2
    <2>5. QED
      BY <1>2, <2>1, <2>3, <2>4 DEF SelectionInv
  <1>6. NoFailures
    BY DEF Init, NoFailures
  <1>7. AccountInv /\ FirstPassNeverRefused /\ RoomInv
    BY <1>2, <1>6 DEF Init, AccountInv, FirstPassNeverRefused, RoomInv, NoFailures
  <1>8. QED
    BY <1>3, <1>4, <1>5, <1>7 DEF IInv

(* The steps of the selection, which leave the loop's variables alone.     *)
LEMMA BeforeRun ==
    ASSUME IInv, phase \in {"select", "check"}, phase' \in {"select", "check", "done"},
           UNCHANGED <<catalog, command, running>>,
           selected' \in Seq(catalog), SelectionInv', RoomInv'
    PROVE  IInv'
  <1>1. CatalogInv'
    BY DEF IInv, CatalogInv
  <1>2. UNCHANGED <<at, stage, level, attempt, asked, calls, status, failures>> /\ Ids' = Ids
    BY DEF running, Ids
  <1>3. StateInv'
    BY <1>2 DEF IInv, StateInv
  <1>4. AccountInv' /\ FirstPassNeverRefused'
    <2>1. NoFailures' = NoFailures
      BY <1>2 DEF NoFailures
    <2>2. calls = 0 /\ NoFailures
      BY DEF IInv, AccountInv
    <2>3. QED
      BY <1>2, <2>1, <2>2 DEF AccountInv, FirstPassNeverRefused, NoFailures
  <1>5. QED
    BY <1>1, <1>3, <1>4 DEF IInv

(* A triplet taken by the greedy pass fits into what is left.               *)
LEMMA SelectNextStep == IInv /\ SelectNext => IInv'
  <1> SUFFICES ASSUME IInv, SelectNext PROVE IInv'
    OBVIOUS
  <1>1. PICK ft \in Candidates : selected' = Append(selected, ft)
    BY DEF SelectNext
  <1>2. /\ phase = "select" /\ phase' = "select" /\ command.mode = "manifest"
        /\ Len(selected) < command.selFt
        /\ UNCHANGED <<catalog, command, running>>
    BY DEF SelectNext, SelectMore
  <1>3. selected \in Seq(catalog) /\ IsCatalog(catalog) /\ command.selFt \in Nat
    BY CommandType DEF IInv, CatalogInv
  <1>4. ft \in Ranked /\ ft \in catalog
        /\ Total(Costs(selected)) + Cost(ft) <= command.selCalls
    <2>1. Sum(selected, Cost) + Cost(ft) <= command.selCalls /\ ft \in Ranked
      BY DEF Candidates
    <2>2. QED
      BY <2>1, SumsUnfold DEF Ranked
  <1>5. selected' \in Seq(catalog) /\ Len(selected') = Len(selected) + 1
    BY <1>1, <1>3, <1>4
  <1>6. Total(Costs(selected')) = Total(Costs(selected)) + Cost(ft)
    BY <1>1, <1>3, <1>4, CostsAppend
  <1>7. Ranked' = Ranked
    BY <1>2 DEF Ranked
  <1>8. SelectionInv'
    <2>1. \A k \in DOMAIN selected : selected[k] \in Ranked
      BY <1>2 DEF IInv, SelectionInv
    <2>2. \A k \in DOMAIN selected' : selected'[k] \in Ranked
      BY <1>1, <1>3, <1>4, <2>1
    <2>3. Len(selected') <= command.selFt
      BY <1>2, <1>3, <1>5
    <2>4. QED
      BY <1>2, <1>4, <1>6, <1>7, <2>2, <2>3 DEF SelectionInv
  <1>9. RoomInv'
    BY <1>2 DEF RoomInv
  <1>10. QED
    BY <1>2, <1>5, <1>8, <1>9, BeforeRun

(* A triplet that is no candidate when the selection ends does not fit.     *)
LEMMA SelectEndsStep == IInv /\ SelectEnds => IInv'
  <1> SUFFICES ASSUME IInv, SelectEnds PROVE IInv'
    OBVIOUS
  <1>1. /\ phase = "select" /\ phase' = "check" /\ command.mode = "manifest"
        /\ ~SelectMore /\ UNCHANGED <<catalog, command, selected, running>>
    BY DEF SelectEnds
  <1>2. selected \in Seq(catalog) /\ IsCatalog(catalog) /\ command.selFt \in Nat
        /\ command.selCalls \in Nat /\ command.until \in Stages
    BY CommandType DEF IInv, CatalogInv
  <1>3. Ranked' = Ranked
    BY <1>1 DEF Ranked
  <1>4. SelectionInv /\ SelectionInv'
    BY <1>1, <1>3 DEF IInv, SelectionInv
  <1>5. ASSUME NEW ft \in Ranked
        PROVE  \/ \E k \in DOMAIN selected : selected[k] = ft
               \/ Len(selected) = command.selFt
               \/ Total(Costs(selected)) + Cost(ft) > command.selCalls
    <2>1. CASE Len(selected) < command.selFt
      <3>1. ft \notin Candidates
        BY <1>1, <2>1 DEF SelectMore
      <3>2. \/ \E k \in DOMAIN selected : selected[k] = ft
            \/ ~(Total(Costs(selected)) + Cost(ft) <= command.selCalls)
        BY <3>1, SumsUnfold DEF Candidates
      <3>3. Cost(ft) \in Nat /\ Total(Costs(selected)) \in Nat
        BY <1>2, CountsType, TotalsType DEF Ranked
      <3>4. QED
        BY <1>2, <3>2, <3>3
    <2>2. CASE ~(Len(selected) < command.selFt)
      <3>1. Len(selected) <= command.selFt /\ Len(selected) \in Nat
        BY <1>1, <1>2, <1>4 DEF SelectionInv
      <3>2. QED
        BY <1>2, <2>2, <3>1
    <2>3. QED
      BY <2>1, <2>2
  <1>6. RoomInv'
    BY <1>1, <1>3, <1>5 DEF RoomInv
  <1>7. QED
    BY <1>1, <1>2, <1>4, <1>6, BeforeRun

(* The selections that compare nothing.                                     *)
LEMMA TakeStep == IInv /\ (TakeAll \/ TakeOne) => IInv'
  <1> SUFFICES ASSUME IInv, TakeAll \/ TakeOne PROVE IInv'
    OBVIOUS
  <1>1. IsCatalog(catalog)
    BY CommandType DEF IInv, CatalogInv
  <1>2. /\ phase = "select" /\ phase' = "check" /\ command.mode # "manifest"
        /\ UNCHANGED <<catalog, command, running>>
    BY DEF TakeAll, TakeOne
  <1>3. selected' \in Seq(catalog)
    <2>1. CASE TakeAll
      BY <1>1, <2>1, SortedCatalog DEF TakeAll
    <2>2. CASE TakeOne
      BY <2>2 DEF TakeOne
    <2>3. QED
      BY <2>1, <2>2
  <1>4. SelectionInv' /\ RoomInv'
    BY <1>2 DEF SelectionInv, RoomInv
  <1>5. QED
    BY <1>2, <1>3, <1>4, BeforeRun

(* A refused command ends.                                                  *)
LEMMA DeclinedStep == IInv /\ Declined => IInv'
  <1> SUFFICES ASSUME IInv, Declined PROVE IInv'
    OBVIOUS
  <1>1. phase = "check" /\ phase' = "done" /\ UNCHANGED <<catalog, command, selected, running>>
    BY DEF Declined
  <1>2. Ranked' = Ranked
    BY <1>1 DEF Ranked
  <1>3. SelectionInv' /\ RoomInv' /\ selected' \in Seq(catalog)
    BY <1>1, <1>2 DEF IInv, SelectionInv, RoomInv, CatalogInv
  <1>4. QED
    BY <1>1, <1>3, BeforeRun

(* The budget check starts the account at nothing.                          *)
LEMMA AcceptedStep == IInv /\ Accepted => IInv'
  <1> SUFFICES ASSUME IInv, Accepted PROVE IInv'
    OBVIOUS
  <1>1. /\ phase = "check" /\ phase' = "run" /\ BudgetAccepted /\ selected # <<>>
        /\ at' = 1 /\ stage' = 1 /\ level' = NoLevel /\ attempt' = 1 /\ asked' = 0
        /\ status' = [status EXCEPT ![selected[1].id] = "running"]
        /\ UNCHANGED <<catalog, command, selected, calls, failures>>
    BY DEF Accepted, Begin
  <1>2. CatalogInv /\ StateInv /\ AccountInv
    BY DEF IInv
  <1>3. IsCatalog(catalog) /\ command.until \in Stages /\ command.limit \in Nat
    BY <1>2, CommandType DEF CatalogInv
  <1>4. Len(selected) \in Nat /\ Len(selected) >= 1 /\ selected[1] \in catalog
    BY <1>1, <1>2 DEF CatalogInv
  <1>5. Ids' = Ids /\ CatalogInv'
    BY <1>1, <1>2 DEF Ids, CatalogInv
  <1>6. at' \in 1..Len(selected')
    BY <1>1, <1>4
  <1>7. StateInv'
    <2>1. 0 \in 0..RequestsOf(Current, stage)'
      BY <1>1, <1>5, <1>6, NoRequestsYet DEF Stages
    <2>2. status' \in [Ids -> Statuses]
      BY <1>1, <1>2 DEF StateInv, Statuses
    <2>3. QED
      BY <1>1, <1>2, <1>5, <1>6, <2>1, <2>2, MaxRegenAssumption DEF StateInv, Stages
  <1>8. calls = 0 /\ NoFailures' /\ NoFailures
    BY <1>1, <1>2, <1>5 DEF AccountInv, NoFailures
  <1>9. FirstPassNeverRefused'
    BY <1>8 DEF FirstPassNeverRefused, NoFailures
  <1>10. AccountInv'
    <2> DEFINE n == Len(selected)
               a == Estimates(selected, command.until)
    <2>1. Total(a) <= command.limit
      BY <1>1, SumsUnfold DEF BudgetAccepted
    <2>2. a \in [1..n -> Int]
      <3>1. a \in [1..n -> Nat]
        BY <1>2, <1>3, ListsType DEF CatalogInv
      <3> HIDE DEF a
      <3>2. QED
        BY <3>1
    <2>3. PICK p : IsPrefixSum(p, n, a)
      <3> HIDE DEF a, n
      <3>1. QED
        BY <1>4, <2>2, PrefixSums DEF n
    <2>4. p[0] = 0
      BY <2>3 DEF IsPrefixSum
    <2>5. Spent(Current', stage') = 0
      BY <1>1 DEF Spent
    <2>6. Accounted(p)'
      BY <1>1, <1>8, <2>3, <2>4, <2>5 DEF Accounted
    <2>7. stage' <= command.until
      BY <1>1, <1>3 DEF Stages
    <2>8. QED
      BY <1>1, <2>1, <2>6, <2>7 DEF AccountInv
  <1>11. QED
    BY <1>1, <1>7, <1>9, <1>10, Kept

-----------------------------------------------------------------------------
(* The requests sent are within the limit.                                  *)
LEMMA CallsType ==
    ASSUME IInv
    PROVE  calls \in Nat /\ command.limit \in Nat /\ calls <= command.limit
  BY CommandType DEF IInv, CatalogInv, StateInv

(* An answer is one more request of the stage.                              *)
LEMMA AnsweredStep == IInv /\ Answered => IInv'
  <1> SUFFICES ASSUME IInv, Answered PROVE IInv'
    OBVIOUS
  <1>1. /\ phase = "run" /\ calls' = calls + 1 /\ asked' = asked + 1
        /\ asked < RequestsOf(Current, stage) /\ calls < command.limit
        /\ UNCHANGED <<catalog, command, phase, selected, at, stage, level, attempt, status,
                       failures>>
    BY RequestsAre DEF Answered, CanAsk
  <1>2. CatalogInv /\ StateInv /\ AccountInv
    BY DEF IInv
  <1>3. Ids' = Ids /\ Current' = Current
    BY <1>1 DEF Ids, Current
  <1>4. /\ IsCatalog(catalog) /\ command.until \in Stages
        /\ Current \in catalog /\ stage \in Stages
        /\ RequestsOf(Current, stage) \in Nat /\ Spent(Current, stage) \in Nat
        /\ asked \in Nat
    <2>1. IsCatalog(catalog) /\ command.until \in Stages /\ Current \in catalog /\ stage \in Stages
      BY <1>1, <1>2, CommandType, CurrentType DEF CatalogInv, StateInv
    <2>2. RequestsOf(Current, stage) \in Nat /\ Spent(Current, stage) \in Nat
      BY <2>1, CountsType
    <2>3. QED
      BY <1>1, <1>2, <2>1, <2>2 DEF StateInv
  <1>5. StateInv'
    <2>1. asked' \in 0..RequestsOf(Current, stage)'
      BY <1>1, <1>3, <1>4
    <2>2. calls' \in 0..command.limit
      BY <1>1, CallsType
    <2>3. QED
      BY <1>1, <1>2, <1>3, <2>1, <2>2 DEF StateInv
  <1>6. AccountInv'
    <2>1. NoFailures' = NoFailures
      BY <1>1, <1>3 DEF NoFailures
    <2>2. Total(Estimates(selected, command.until)) <= command.limit
      BY <1>1, <1>2 DEF AccountInv
    <2>3. ASSUME NoFailures
          PROVE  stage <= command.until /\ \E p : Accounted(p)'
      <3>1. PICK p : Accounted(p)
        BY <1>1, <1>2, <2>3 DEF AccountInv
      <3>2. p[at - 1] \in Int
        <4>1. at - 1 \in 0..Len(selected)
          BY <1>1, <1>2 DEF StateInv, CatalogInv
        <4>2. QED
          BY <3>1, <4>1 DEF Accounted, IsPrefixSum
      <3>3. calls + 1 = p[at - 1] + Spent(Current, stage) + (asked + 1)
        BY SMTT(30), <1>4, <3>1, <3>2 DEF Accounted
      <3>4. Accounted(p)'
        BY <1>1, <1>3, <3>1, <3>3 DEF Accounted
      <3>5. QED
        BY <1>1, <1>2, <2>3, <3>4 DEF AccountInv
    <2>4. QED
      BY <1>1, <2>1, <2>2, <2>3 DEF AccountInv
  <1>7. FirstPassNeverRefused'
    BY <1>1, <1>3 DEF IInv, FirstPassNeverRefused
  <1>8. QED
    BY <1>1, <1>5, <1>6, <1>7, Kept

(* Failures other than a refusal.                                           *)
LEMMA UnansweredStep == IInv /\ (Unanswered \/ Rejected) => IInv'
  <1> SUFFICES ASSUME IInv, Unanswered \/ Rejected PROVE IInv'
    OBVIOUS
  <1>1. phase = "run" /\ StageFails("other") /\ "other" \in Kinds
    BY DEF Unanswered, Rejected, CanAsk, Kinds
  <1>2. calls' \in 0..command.limit
    BY CallsType DEF Unanswered, Rejected, CanAsk
  <1>3. QED
    BY <1>1, <1>2, FailureKeepsIInv

(* A refusal cannot be the first failure: the requests sent would be below  *)
(* the running sum of the estimates, which is below the limit.              *)
LEMMA RefusedStep == IInv /\ Refused => IInv'
  <1> SUFFICES ASSUME IInv, Refused PROVE IInv'
    OBVIOUS
  <1>1. /\ phase = "run" /\ asked < RequestsOf(Current, stage) /\ calls >= command.limit
        /\ StageFails("refused") /\ calls' = calls /\ "refused" \in Kinds
    BY RequestsAre DEF Refused, Kinds
  <1>2. CatalogInv /\ StateInv /\ AccountInv /\ FirstPassNeverRefused
    BY DEF IInv
  <1>3. calls \in Nat /\ command.limit \in Nat /\ calls' \in 0..command.limit
    BY <1>1, CallsType
  <1>4. ~NoFailures
    <2> SUFFICES ASSUME NoFailures PROVE FALSE
      OBVIOUS
    <2> DEFINE n == Len(selected)
               a == Estimates(selected, command.until)
    <2>1. PICK p : Accounted(p)
      BY <1>1, <1>2 DEF AccountInv
    <2>2. stage <= command.until /\ Total(a) <= command.limit
      BY <1>1, <1>2 DEF AccountInv
    <2>3. /\ IsCatalog(catalog) /\ command.until \in Stages
          /\ Current \in catalog /\ stage \in Stages /\ selected \in Seq(catalog)
          /\ at \in 1..n /\ n \in Nat
      BY <1>1, <1>2, CommandType, CurrentType DEF CatalogInv, StateInv
    <2>4. /\ RequestsOf(Current, stage) \in Nat /\ Spent(Current, stage) \in Nat
          /\ EstimateOf(Current, command.until) \in Nat
      BY <2>3, CountsType
    <2>5. asked \in Nat
      BY <1>1, <1>2, <2>4 DEF StateInv
    <2>6. Spent(Current, stage) + RequestsOf(Current, stage) <= EstimateOf(Current, command.until)
      BY <2>2, <2>3, RequestsFit
    <2>7. a \in [1..n -> Nat] /\ a[at] = EstimateOf(Current, command.until)
      <3>1. a \in [1..n -> Nat]
        BY <2>3, ListsType
      <3>2. at \in DOMAIN selected
        BY <2>3
      <3>3. QED
        BY <3>1, <3>2 DEF Estimates, Current
    <2>8. /\ IsPrefixSum(p, n, a)
          /\ calls = p[at - 1] + Spent(Current, stage) + asked
      BY <2>1 DEF Accounted
    <2> HIDE DEF a, n
    <2>9. p[at - 1] \in Nat /\ p[at] \in Nat /\ p[at] <= p[n] /\ p[n] \in Nat
      <3>1. at - 1 \in 0..n /\ at \in 0..n /\ n \in at..n /\ n \in 0..n
        BY <2>3
      <3>2. QED
        BY <2>3, <2>7, <2>8, <3>1, PrefixSumsRise
    <2>10. p[at] = p[at - 1] + a[at]
      BY <2>3, <2>8 DEF IsPrefixSum
    <2>11. p[n] = Total(a)
      <3>1. a \in [1..n -> Int]
        BY <2>7
      <3>2. PICK q : IsPrefixSum(q, n, a) /\ q[n] = Total(a)
        BY <2>3, <3>1, PrefixSums
      <3>3. \A k \in 0..n : p[k] <= q[k] /\ q[k] <= p[k]
        <4>1. \A k \in 1..n : a[k] <= a[k]
          BY <2>7
        <4>2. QED
          BY <2>3, <2>8, <3>1, <3>2, <4>1, PrefixSumsOrdered
      <3>4. n \in 0..n
        BY <2>3
      <3>5. q[n] \in Int
        BY <3>2, <3>4 DEF IsPrefixSum
      <3>6. QED
        BY <2>9, <3>2, <3>3, <3>4, <3>5
    <2>12. calls < p[at]
      BY <1>1, <2>4, <2>5, <2>6, <2>7, <2>8, <2>9, <2>10
    <2>13. QED
      BY <1>1, <1>3, <2>2, <2>9, <2>11, <2>12
  <1>5. \E id \in Ids : "other" \in failures[id]
    <2>1. PICK id \in Ids : failures[id] # {}
      BY <1>4 DEF NoFailures
    <2>2. failures[id] \in SUBSET {"refused", "other"}
      BY <1>2 DEF StateInv, Kinds
    <2>3. QED
      BY <1>2, <2>1, <2>2 DEF FirstPassNeverRefused
  <1>6. QED
    BY <1>1, <1>3, <1>5, FailureKeepsIInv

(* An aborted command keeps what it had.                                    *)
LEMMA AbortedStep == IInv /\ Aborted => IInv'
  <1> SUFFICES ASSUME IInv, Aborted PROVE IInv'
    OBVIOUS
  <1>1. phase = "run" /\ phase' = "done" /\ UNCHANGED <<catalog, command, selected, running>>
    BY DEF Aborted
  <1>2. UNCHANGED <<at, stage, level, attempt, asked, calls, status, failures>> /\ Ids' = Ids
    BY <1>1 DEF running, Ids
  <1>3. StateInv' /\ AccountInv' /\ FirstPassNeverRefused'
    <2>1. StateInv'
      BY <1>1, <1>2 DEF IInv, StateInv
    <2>2. AccountInv'
      BY <1>1 DEF AccountInv
    <2>3. FirstPassNeverRefused'
      BY <1>2 DEF IInv, FirstPassNeverRefused
    <2>4. QED
      BY <2>1, <2>2, <2>3
  <1>4. QED
    BY <1>1, <1>3, Kept

(* A finished stage has spent what was estimated for it.                    *)
LEMMA StageDoneStep == IInv /\ StageDone => IInv'
  <1> SUFFICES ASSUME IInv, StageDone PROVE IInv'
    OBVIOUS
  <1> DEFINE n == Len(selected)
             a == Estimates(selected, command.until)
             verdict == IF stage = 4 THEN "completed" ELSE "paused"
  <1>1. /\ phase = "run" /\ asked = RequestsOf(Current, stage)
        /\ \/ stage = command.until /\ Leave(verdict)
           \/ /\ stage < command.until
              /\ stage' = stage + 1 /\ asked' = 0
              /\ UNCHANGED <<phase, at, level, attempt, status>>
        /\ UNCHANGED <<catalog, command, selected, calls, failures>>
    BY RequestsAre DEF StageDone
  <1>2. CatalogInv /\ StateInv /\ AccountInv
    BY DEF IInv
  <1>3. /\ IsCatalog(catalog) /\ command.until \in Stages
        /\ Current \in catalog /\ stage \in Stages /\ selected \in Seq(catalog)
        /\ at \in 1..n /\ n \in Nat
    BY <1>1, <1>2, CommandType, CurrentType DEF CatalogInv, StateInv
  <1>4. /\ RequestsOf(Current, stage) \in Nat /\ Spent(Current, stage) \in Nat
        /\ EstimateOf(Current, command.until) \in Nat
    BY <1>3, CountsType
  <1>5. Ids' = Ids /\ CatalogInv'
    BY <1>1, <1>2 DEF Ids, CatalogInv
  <1>6. /\ NoFailures' = NoFailures
        /\ Total(a) <= command.limit /\ a' = a /\ n' = n
        /\ calls' \in 0..command.limit /\ failures' \in [Ids -> SUBSET Kinds]
    BY <1>1, <1>2, <1>5 DEF NoFailures, AccountInv, StateInv
  <1>7. FirstPassNeverRefused'
    BY <1>1, <1>5 DEF IInv, FirstPassNeverRefused
  <1>8. ASSUME NoFailures
        PROVE  \E p : /\ IsPrefixSum(p, n, a) /\ p[at - 1] \in Int
                      /\ calls = p[at - 1] + Spent(Current, stage) + RequestsOf(Current, stage)
    <2>1. PICK p : Accounted(p)
      BY <1>1, <1>2, <1>8 DEF AccountInv
    <2>2. at - 1 \in 0..n
      BY <1>3
    <2>3. QED
      BY <1>1, <2>1, <2>2 DEF Accounted, IsPrefixSum
  <1>9. CASE stage = command.until
    <2>1. Leave(verdict) /\ verdict \in Statuses
      BY <1>1, <1>3, <1>9 DEF Statuses, Stages
    <2>2. /\ StateInv' /\ phase' \in {"run", "done"}
          /\ phase' = "run" => at' = at + 1 /\ stage' = 1 /\ asked' = 0
      <3> HIDE DEF verdict
      <3>1. QED
        BY <1>1, <1>2, <1>6, <2>1, LeaveStep
    <2>3. ASSUME phase' = "run", NoFailures
          PROVE  stage' <= command.until /\ \E p : Accounted(p)'
      <3>1. PICK p : /\ IsPrefixSum(p, n, a) /\ p[at - 1] \in Int
                     /\ calls = p[at - 1] + Spent(Current, stage) + RequestsOf(Current, stage)
        BY <1>8, <2>3
      <3>2. p[at] = p[at - 1] + a[at]
        BY <1>3, <3>1 DEF IsPrefixSum
      <3>3. a[at] = EstimateOf(Current, command.until)
        <4>1. at \in DOMAIN selected
          BY <1>3
        <4>2. QED
          BY <4>1 DEF Estimates, Current
      <3>4. Spent(Current, stage) + RequestsOf(Current, stage) = EstimateOf(Current, command.until)
        <4>1. stage <= command.until
          BY <1>3, <1>9 DEF Stages
        <4>2. QED
          BY <1>3, <1>9, <4>1, RequestsFit
      <3>5. calls = p[at]
        <4> HIDE DEF a
        <4>1. QED
          BY <1>4, <3>1, <3>2, <3>3, <3>4
      <3>6. p[at' - 1] = p[at] /\ p[at] \in Int
        <4>1. at' - 1 = at /\ at \in 0..n
          BY <1>3, <2>2, <2>3
        <4>2. QED
          BY <3>1, <4>1 DEF IsPrefixSum
      <3>7. Spent(Current', stage') = 0 /\ asked' = 0
        BY <2>2, <2>3 DEF Spent
      <3>8. Accounted(p)'
        <4>1. calls' = p[at' - 1] + Spent(Current', stage') + asked'
          BY <1>1, <3>5, <3>6, <3>7
        <4>2. QED
          BY <1>6, <3>1, <4>1 DEF Accounted
      <3>9. stage' <= command.until
        BY <1>3, <2>2, <2>3 DEF Stages
      <3>10. QED
        BY <3>8, <3>9
    <2>4. AccountInv'
      BY <1>1, <1>6, <2>2, <2>3 DEF AccountInv
    <2>5. QED
      BY <1>1, <1>7, <2>2, <2>4, Kept
  <1>10. CASE stage # command.until
    <2>1. /\ stage < command.until /\ stage' = stage + 1 /\ asked' = 0
          /\ UNCHANGED <<phase, at, level, attempt, status>>
      BY <1>1, <1>10
    <2>2. Current' = Current
      BY <1>1, <2>1 DEF Current
    <2>3. stage' \in Stages
      BY <1>3, <2>1 DEF Stages
    <2>4. StateInv'
      <3>1. 0 \in 0..RequestsOf(Current, stage)'
        BY <1>1, <1>3, <1>5, <2>1, <2>3, NoRequestsYet
      <3>2. QED
        BY <1>1, <1>2, <1>5, <1>6, <2>1, <2>3, <3>1 DEF StateInv
    <2>5. ASSUME NoFailures
          PROVE  stage' <= command.until /\ \E p : Accounted(p)'
      <3>1. PICK p : /\ IsPrefixSum(p, n, a) /\ p[at - 1] \in Int
                     /\ calls = p[at - 1] + Spent(Current, stage) + RequestsOf(Current, stage)
        BY <1>8, <2>5
      <3>2. Spent(Current, stage') = Spent(Current, stage) + RequestsOf(Current, stage)
        BY <1>3, <2>1, RequestsFit DEF Stages
      <3>3. calls' = p[at' - 1] + Spent(Current', stage') + asked'
        BY <1>1, <1>4, <2>1, <2>2, <3>1, <3>2
      <3>4. Accounted(p)'
        BY <1>6, <3>1, <3>3 DEF Accounted
      <3>5. stage' <= command.until
        BY <1>3, <2>1 DEF Stages
      <3>6. QED
        BY <3>4, <3>5
    <2>6. AccountInv'
      BY <1>1, <1>6, <2>1, <2>5 DEF AccountInv
    <2>7. QED
      BY <1>1, <1>7, <2>1, <2>4, <2>6, Kept
  <1>11. QED
    BY <1>9, <1>10

-----------------------------------------------------------------------------
(* Every step keeps the invariant.                                          *)
LEMMA NextKeepsIInv == IInv /\ [Next]_vars => IInv'
  <1> SUFFICES ASSUME IInv, [Next]_vars PROVE IInv'
    OBVIOUS
  <1>1. CASE SelectNext
    BY <1>1, SelectNextStep
  <1>2. CASE SelectEnds
    BY <1>2, SelectEndsStep
  <1>3. CASE TakeAll \/ TakeOne
    BY <1>3, TakeStep
  <1>4. CASE Accepted
    BY <1>4, AcceptedStep
  <1>5. CASE Declined
    BY <1>5, DeclinedStep
  <1>6. CASE Answered
    BY <1>6, AnsweredStep
  <1>7. CASE Unanswered \/ Rejected
    BY <1>7, UnansweredStep
  <1>8. CASE Refused
    BY <1>8, RefusedStep
  <1>9. CASE StageDone
    BY <1>9, StageDoneStep
  <1>10. CASE Aborted
    BY <1>10, AbortedStep
  <1>11. CASE UNCHANGED vars
    <2>1. /\ UNCHANGED <<catalog, command, phase, selected, at, stage, level, attempt, asked,
                         calls, status, failures>>
      BY <1>11 DEF vars
    <2>2. Ids' = Ids /\ Current' = Current /\ Ranked' = Ranked /\ NoFailures' = NoFailures
      BY <2>1 DEF Ids, Current, Ranked, NoFailures
    <2>3. CatalogInv' /\ StateInv'
      BY <2>1, <2>2 DEF IInv, CatalogInv, StateInv
    <2>4. SelectionInv' /\ RoomInv' /\ FirstPassNeverRefused'
      BY <2>1, <2>2 DEF IInv, SelectionInv, RoomInv, FirstPassNeverRefused
    <2>5. AccountInv'
      <3>1. \A p : Accounted(p)' = Accounted(p)
        BY <2>1, <2>2 DEF Accounted
      <3>2. QED
        BY <2>1, <2>2, <3>1 DEF IInv, AccountInv
    <2>6. QED
      BY <2>3, <2>4, <2>5 DEF IInv
  <1>12. QED
    BY <1>1, <1>2, <1>3, <1>4, <1>5, <1>6, <1>7, <1>8, <1>9, <1>10, <1>11 DEF Next

(* The invariant gives the types.                                           *)
LEMMA IInvTypes == IInv => TypeOK
  <1> SUFFICES ASSUME IInv PROVE TypeOK
    OBVIOUS
  <1>1. \A k \in DOMAIN selected : selected[k] \in catalog
    BY DEF IInv, CatalogInv
  <1>2. QED
    BY <1>1, RequestsAre DEF IInv, CatalogInv, StateInv, TypeOK, Statuses, Kinds

(* What the selection counted is at least what the command estimates, so a  *)
(* manifest passes both checks.                                             *)
LEMMA IInvManifest == IInv => ManifestNeverRefused
  <1> SUFFICES ASSUME IInv, phase = "check", command.mode = "manifest",
                      command.selFt <= command.maxFt, command.selCalls <= command.limit,
                      command.selFunctions <= command.maxFunctions,
                      command.selUnits <= command.maxUnits
               PROVE  ManifestAccepted /\ BudgetAccepted
    BY DEF ManifestNeverRefused
  <1>1. /\ IsCatalog(catalog) /\ selected \in Seq(catalog) /\ command.until \in Stages
        /\ command.selFt \in Nat /\ command.selCalls \in Nat
        /\ command.selFunctions \in Nat /\ command.selUnits \in Nat
        /\ command.maxFt \in Nat /\ command.maxFunctions \in Nat
        /\ command.maxUnits \in Nat /\ command.limit \in Nat
    BY CommandType DEF IInv, CatalogInv
  <1>2. /\ Len(selected) <= command.selFt
        /\ Total(Costs(selected)) <= command.selCalls
        /\ \A k \in DOMAIN selected : selected[k] \in Ranked
    BY DEF IInv, SelectionInv
  <1>3. ASSUME NEW k \in DOMAIN selected
        PROVE  /\ Functions(selected[k]) <= command.selFunctions
               /\ StepCount(selected[k]) <= command.selUnits
               /\ Functions(selected[k]) \in Nat /\ StepCount(selected[k]) \in Nat
    BY <1>1, <1>2, CountsType DEF Ranked
  <1>4. ManifestAccepted
    BY <1>1, <1>2, <1>3, BaselinesAreCosts DEF ManifestAccepted
  <1>5. BudgetAccepted
    <2>1. /\ Total(Costs(selected)) \in Nat
          /\ Total(Estimates(selected, command.until)) \in Nat
          /\ Total(Estimates(selected, command.until)) <= Total(Costs(selected))
      BY <1>1, TotalsType
    <2>2. Sum(selected, Estimate) <= command.limit
      <3>1. Total(Estimates(selected, command.until)) <= command.limit
        BY <1>1, <1>2, <2>1
      <3>2. QED
        BY <3>1, SumsUnfold
    <2>3. Len(selected) <= command.maxFt
      BY <1>1, <1>2
    <2>4. \A k \in DOMAIN selected :
             /\ Functions(selected[k]) <= command.maxFunctions
             /\ StepCount(selected[k]) <= command.maxUnits
      BY <1>1, <1>3
    <2>5. QED
      BY <2>2, <2>3, <2>4 DEF BudgetAccepted
  <1>6. QED
    BY <1>4, <1>5

(* The selection leaves no room.                                            *)
LEMMA IInvRoom == IInv => NothingAffordableLeftOut
  BY SumsUnfold DEF IInv, RoomInv, NothingAffordableLeftOut

(* Selection, manifest and requests sent stay as the invariant says, for    *)
(* every catalog and every command line.                                    *)
THEOREM InvariantHolds == Spec => []IInv
  <1>1. Init => IInv
    BY InitIInv
  <1>2. IInv /\ [Next]_vars => IInv'
    BY NextKeepsIInv
  <1>3. QED
    BY <1>1, <1>2, PTL DEF Spec

(* The counts of a triplet agree and the budget covers the first pass: the  *)
(* requests that _check_generation_budget lets through are refused only     *)
(* after a failure, a manifest is never turned down under limits as wide as *)
(* its own, and nothing affordable is left out of it.                       *)
THEOREM CountsAreRight == Spec => []CountsAgree
  <1>1. IInv => CountsAgree
    BY IInvTypes, IInvManifest, IInvRoom DEF CountsAgree, IInv
  <1>2. QED
    BY <1>1, InvariantHolds, PTL

-----------------------------------------------------------------------------
(* l lists the members of S, each at one place.                             *)
IsListOf(l, S) ==
    /\ l \in Seq(S) /\ Len(l) = Cardinality(S) /\ Len(l) \in Nat
    /\ \A x \in S : \E p \in 1..Len(l) : l[p] = x
    /\ \A p, q \in 1..Len(l) : l[p] = l[q] => p = q

(* The numbers of S in their order, as a pass of the loop appends them.     *)
Ascending(S) == Sorted(S, <)

(* Sorting a set of numbers lists each of them once.                        *)
LEMMA SortedNumbers ==
    ASSUME NEW n \in Nat, NEW S \in SUBSET (1..n)
    PROVE  IsListOf(Ascending(S), S)
  <1> DEFINE key == [x \in S |-> x]
             m == Cardinality(S)
             rank(x) == Cardinality({y \in S : y < x})
             place(k) == CHOOSE x \in S : rank(x) = k - 1
             l == [k \in 1..m |-> place(k)]
  <1>1. Ascending(S) = l
    BY DEF Ascending, Sorted
  <1>2. IsFiniteSet(S)
    <2>1. IsFiniteSet(1..n)
      BY FS_Interval
    <2>2. QED
      BY <2>1, FS_Subset
  <1>3. IsRanking(S, key)
    <2>1. Numbered(S, key)
      BY <1>2 DEF Numbered
    <2> HIDE DEF key
    <2>2. QED
      BY <2>1, RankFacts
  <1>4. ASSUME NEW x \in S
        PROVE  Rank(S, key, x) = rank(x)
    <2>1. {y \in S : key[y] < key[x]} = {y \in S : y < x}
      OBVIOUS
    <2>2. QED
      BY <2>1 DEF Rank
  <1> HIDE DEF rank, key
  <1>5. /\ m \in Nat
        /\ \A x \in S : rank(x) \in 0..(m - 1)
        /\ \A x, y \in S : rank(x) = rank(y) => x = y
        /\ \A k \in 1..m : \E x \in S : rank(x) = k - 1
    BY <1>3, <1>4 DEF IsRanking
  <1> HIDE DEF m
  <1>6. \A k \in 1..m : place(k) \in S /\ rank(place(k)) = k - 1
    BY <1>5
  <1> HIDE DEF place
  <1>7. l \in [1..m -> S] /\ \A k \in 1..m : l[k] = place(k)
    BY <1>6
  <1> HIDE DEF l
  <1>8. l \in Seq(S) /\ Len(l) = m
    BY <1>5, <1>7
  <1>9. ASSUME NEW x \in S
        PROVE  \E p \in 1..m : l[p] = x
    <2> DEFINE k == rank(x) + 1
    <2>1. k \in 1..m /\ k - 1 = rank(x)
      BY <1>5
    <2> HIDE DEF k
    <2>2. rank(place(k)) = rank(x) /\ place(k) \in S
      BY <2>1, <1>6
    <2>3. QED
      BY <2>1, <2>2, <1>5, <1>7
  <1>10. ASSUME NEW p \in 1..m, NEW q \in 1..m, l[p] = l[q]
         PROVE  p = q
    <2>1. rank(place(p)) = rank(place(q))
      BY <1>7, <1>10
    <2>2. p - 1 = q - 1 /\ p \in Nat /\ q \in Nat
      BY <2>1, <1>6, <1>5
    <2>3. QED
      BY <2>2
  <1>11. QED
    BY <1>1, <1>5, <1>8, <1>9, <1>10 DEF IsListOf, m

-----------------------------------------------------------------------------
(* The order of Stage 3: the states of the loop of _order_snippets.         *)
Orders(n) == [remaining : SUBSET (1..n), order : Seq(1..n), forced : SUBSET (1..n)]

(* The remaining units that wait for no remaining unit.                     *)
ReadyIn(st, depends) == {i \in st.remaining : depends[i] \cap st.remaining = {}}

(* What a pass places: the units that are ready, or the lowest one.         *)
BatchOf(st, depends) ==
    IF ReadyIn(st, depends) # {} THEN ReadyIn(st, depends) ELSE {Min(st.remaining)}

(* One pass of the loop, as in OrderSnippets.                               *)
PassOf(st, depends) ==
    IF st.remaining = {} THEN st
    ELSE [remaining |-> st.remaining \ BatchOf(st, depends),
          order     |-> st.order \o Ascending(BatchOf(st, depends)),
          forced    |-> st.forced \cup
                           (IF ReadyIn(st, depends) = {} THEN BatchOf(st, depends) ELSE {})]

(* The state before the first pass.                                         *)
Whole(n) == [remaining |-> 1..n, order |-> <<>>, forced |-> {}]

(* j is placed before place p.                                              *)
PlacedBefore(order, j, p) == \E q \in 1..(p - 1) : order[q] = j

(* After k passes: what is placed has left the remaining ones and has one   *)
(* place, each pass has placed at least one unit, a place was forced only   *)
(* where units wait for one another, and otherwise every unit stands after  *)
(* all it depends on.                                                       *)
OrderInv(st, k, n, depends) ==
    /\ st \in Orders(n)
    /\ Len(st.order) + Cardinality(st.remaining) = n
    /\ Cardinality(st.remaining) <= n - k
    /\ \A p \in 1..Len(st.order) : st.order[p] \notin st.remaining
    /\ \A i \in (1..n) \ st.remaining : \E p \in 1..Len(st.order) : st.order[p] = i
    /\ \A p, q \in 1..Len(st.order) : st.order[p] = st.order[q] => p = q
    /\ st.forced # {} => Deadlocked(depends, 1..n)
    /\ st.forced = {} =>
         /\ \A s \in SUBSET (1..n) :
               (\A i \in s : depends[i] \cap s # {}) => s \subseteq st.remaining
         /\ \A p \in 1..Len(st.order) : \A j \in depends[st.order[p]] \cap (1..n) :
               PlacedBefore(st.order, j, p)

(* A pass takes a part of what remains, and not an empty one.               *)
LEMMA BatchFacts ==
    ASSUME NEW n \in Nat, NEW st \in Orders(n), st.remaining # {}, NEW depends
    PROVE  /\ BatchOf(st, depends) \in SUBSET st.remaining /\ BatchOf(st, depends) # {}
           /\ st.remaining \in SUBSET (1..n)
           /\ IsFiniteSet(st.remaining) /\ IsFiniteSet(BatchOf(st, depends))
           /\ Cardinality(st.remaining) \in Nat /\ Cardinality(BatchOf(st, depends)) \in Nat
           /\ Cardinality(BatchOf(st, depends)) > 0
           /\ Cardinality(st.remaining \ BatchOf(st, depends))
                 = Cardinality(st.remaining) - Cardinality(BatchOf(st, depends))
  <1> DEFINE r == st.remaining
             b == BatchOf(st, depends)
  <1>1. r \in SUBSET (1..n)
    BY DEF Orders
  <1>2. Min(r) \in r
    <2>1. r \in SUBSET Nat /\ r # {}
      BY <1>1
    <2> HIDE DEF r
    <2>2. \E x \in r : \A y \in r : x <= y
      BY <2>1, LeastElement
    <2>3. QED
      BY <2>2 DEF Min
  <1>3. b \in SUBSET r /\ b # {}
    BY <1>2 DEF BatchOf, ReadyIn
  <1> HIDE DEF r, b
  <1>4. IsFiniteSet(r) /\ IsFiniteSet(b)
    <2>1. IsFiniteSet(1..n)
      BY FS_Interval
    <2>2. QED
      BY <2>1, <1>1, <1>3, FS_Subset
  <1>5. Cardinality(b) # 0
    BY <1>3, <1>4, FS_EmptySet
  <1>6. Cardinality(r) \in Nat /\ Cardinality(b) \in Nat
    BY <1>4, FS_CardinalityType
  <1>7. Cardinality(r \ b) = Cardinality(r) - Cardinality(r \cap b) /\ r \cap b = b
    BY <1>3, <1>4, FS_Difference
  <1>8. QED
    BY <1>1, <1>3, <1>4, <1>5, <1>6, <1>7 DEF r, b

(* A pass leads to a state of the loop.                                     *)
LEMMA PassType ==
    ASSUME NEW n \in Nat, NEW st \in Orders(n), NEW depends
    PROVE  PassOf(st, depends) \in Orders(n)
  <1>1. CASE st.remaining = {}
    BY <1>1 DEF PassOf
  <1>2. CASE st.remaining # {}
    <2> DEFINE b == BatchOf(st, depends)
               l == Ascending(b)
    <2>1. b \in SUBSET st.remaining /\ st.remaining \in SUBSET (1..n)
      BY <1>2, BatchFacts
    <2> HIDE DEF b
    <2>2. l \in Seq(b)
      <3>1. b \in SUBSET (1..n)
        BY <2>1
      <3>2. IsListOf(l, b)
        BY <3>1, SortedNumbers
      <3>3. QED
        BY <3>2 DEF IsListOf
    <2> HIDE DEF l
    <2>3. l \in Seq(1..n)
      BY <2>1, <2>2
    <2>4. st.order \o l \in Seq(1..n) /\ st.forced \in SUBSET (1..n)
      BY <2>3 DEF Orders
    <2>5. PassOf(st, depends) =
            [remaining |-> st.remaining \ b, order |-> st.order \o l,
             forced |-> st.forced \cup (IF ReadyIn(st, depends) = {} THEN b ELSE {})]
      BY <1>2 DEF PassOf, b, l
    <2> HIDE DEF l
    <2>6. /\ st.remaining \ b \in SUBSET (1..n)
          /\ st.forced \cup (IF ReadyIn(st, depends) = {} THEN b ELSE {}) \in SUBSET (1..n)
      BY <2>1, <2>4
    <2>7. QED
      BY <2>4, <2>5, <2>6 DEF Orders
  <1>3. QED
    BY <1>1, <1>2

(* A sequence over a part is one over the whole.                            *)
LEMMA SequenceWithin ==
    ASSUME NEW T, NEW S \in SUBSET T, NEW l \in Seq(S)
    PROVE  l \in Seq(T)
  OBVIOUS

(* What a pass places comes after all it depends on.                        *)
LEMMA PassKeeps ==
    ASSUME NEW n \in Nat, NEW k \in 1..n, NEW depends, NEW st, OrderInv(st, k - 1, n, depends)
    PROVE  OrderInv(PassOf(st, depends), k, n, depends)
  <1>0. /\ st \in Orders(n)
        /\ Len(st.order) + Cardinality(st.remaining) = n
        /\ Cardinality(st.remaining) <= n - (k - 1)
        /\ \A p \in 1..Len(st.order) : st.order[p] \notin st.remaining
        /\ \A i \in (1..n) \ st.remaining : \E p \in 1..Len(st.order) : st.order[p] = i
        /\ \A p, q \in 1..Len(st.order) : st.order[p] = st.order[q] => p = q
        /\ st.forced # {} => Deadlocked(depends, 1..n)
    BY DEF OrderInv
  <1>1. CASE st.remaining = {}
    <2>1. Cardinality(st.remaining) = 0
      BY <1>1, FS_EmptySet
    <2>2. PassOf(st, depends) = st
      BY <1>1 DEF PassOf
    <2>3. 0 <= n - k
      OBVIOUS
    <2>4. Cardinality(st.remaining) <= n - k
      BY <2>1, <2>3
    <2>5. QED
      BY <2>2, <2>4 DEF OrderInv
  <1>2. CASE st.remaining # {}
    <2> DEFINE b == BatchOf(st, depends)
               l == Ascending(b)
               m == Len(st.order)
               ready == ReadyIn(st, depends)
               new == PassOf(st, depends)
    <2>1. /\ b \in SUBSET st.remaining /\ b # {}
          /\ st.remaining \in SUBSET (1..n) /\ b \in SUBSET (1..n)
          /\ Cardinality(st.remaining) \in Nat /\ Cardinality(b) \in Nat
          /\ Cardinality(b) > 0
          /\ Cardinality(st.remaining \ b) = Cardinality(st.remaining) - Cardinality(b)
      BY <1>0, <1>2, BatchFacts
    <2>2. /\ b = IF ready # {} THEN ready ELSE {Min(st.remaining)}
          /\ ready = {i \in st.remaining : depends[i] \cap st.remaining = {}}
      BY DEF BatchOf, ReadyIn
    <2>3. /\ new.remaining = st.remaining \ b
          /\ new.order = st.order \o l
          /\ new.forced = st.forced \cup (IF ready = {} THEN b ELSE {})
      BY <1>2 DEF PassOf
    <2>4. new \in Orders(n)
      BY <1>0, PassType
    <2> HIDE DEF b, new, ready
    <2>5. IsListOf(l, b)
      BY <2>1, SortedNumbers
    <2> HIDE DEF l
    <2>6. /\ l \in Seq(b) /\ Len(l) = Cardinality(b) /\ Len(l) \in Nat
          /\ \A x \in b : \E p \in 1..Len(l) : l[p] = x
          /\ \A p, q \in 1..Len(l) : l[p] = l[q] => p = q
      BY <2>5 DEF IsListOf
    <2>7. st.order \in Seq(1..n) /\ l \in Seq(1..n) /\ m \in Nat
      <3>1. st.order \in Seq(1..n)
        BY <1>0 DEF Orders
      <3>2. l \in Seq(1..n)
        BY <2>1, <2>6, SequenceWithin
      <3>3. QED
        BY <3>1, <3>2
    <2> HIDE DEF m
    <2>8. /\ Len(new.order) = m + Len(l)
          /\ \A p \in 1..m : new.order[p] = st.order[p]
          /\ \A p \in 1..Len(l) : new.order[m + p] = l[p]
      BY <2>3, <2>7, ConcatFacts DEF m
    <2>9. \A p \in 1..Len(l) : l[p] \in b
      BY <2>6
    <2>10. \A p \in 1..(m + Len(l)) : p \in 1..m \/ \E q \in 1..Len(l) : p = m + q
      <3> SUFFICES ASSUME NEW p \in 1..(m + Len(l)), p \notin 1..m
                   PROVE  \E q \in 1..Len(l) : p = m + q
        OBVIOUS
      <3>1. p - m \in 1..Len(l) /\ p = m + (p - m)
        BY <2>6, <2>7
      <3>2. QED
        BY <3>1
    <2>11. \A p \in 1..Len(new.order) :
              \/ p \in 1..m /\ new.order[p] = st.order[p] /\ st.order[p] \notin st.remaining
              \/ \E q \in 1..Len(l) : p = m + q /\ new.order[p] = l[q] /\ l[q] \in b
      <3> SUFFICES ASSUME NEW p \in 1..Len(new.order)
                   PROVE  \/ p \in 1..m /\ new.order[p] = st.order[p] /\ st.order[p] \notin st.remaining
                          \/ \E q \in 1..Len(l) : p = m + q /\ new.order[p] = l[q] /\ l[q] \in b
        OBVIOUS
      <3>1. CASE p \in 1..m
        BY <1>0, <2>8, <3>1 DEF m
      <3>2. CASE ~(p \in 1..m)
        <4>1. p \in 1..(m + Len(l))
          BY <2>8
        <4>2. PICK q \in 1..Len(l) : p = m + q
          BY <2>10, <3>2, <4>1
        <4>3. QED
          BY <2>8, <2>9, <4>2
      <3>3. QED
        BY <3>1, <3>2
    <2>12. Len(new.order) + Cardinality(new.remaining) = n
      BY SMTT(30), <1>0, <2>1, <2>3, <2>6, <2>7, <2>8 DEF m
    <2>13. Cardinality(new.remaining) <= n - k
      BY <1>0, <2>1, <2>3
    <2>14. \A p \in 1..Len(new.order) : new.order[p] \notin new.remaining
      BY <2>3, <2>11
    <2>15. ASSUME NEW i \in (1..n) \ new.remaining
           PROVE  \E p \in 1..Len(new.order) : new.order[p] = i
      <3>1. CASE i \notin st.remaining
        <4>1. PICK p \in 1..m : st.order[p] = i
          BY <1>0, <2>15, <3>1 DEF m
        <4>2. p \in 1..Len(new.order) /\ new.order[p] = i
          BY SMTT(30), <4>1, <2>6, <2>7, <2>8
        <4>3. QED
          BY <4>2
      <3>2. CASE i \in st.remaining
        <4>1. i \in b
          BY <2>3, <2>15, <3>2
        <4>2. PICK p \in 1..Len(l) : l[p] = i
          BY <2>6, <4>1
        <4>3. m + p \in 1..Len(new.order) /\ new.order[m + p] = i
          BY SMTT(30), <4>2, <2>6, <2>7, <2>8
        <4>4. QED
          BY <4>3
      <3>3. QED
        BY <3>1, <3>2
    <2>16. ASSUME NEW p \in 1..Len(new.order), NEW q \in 1..Len(new.order),
                  new.order[p] = new.order[q]
           PROVE  p = q
      <3>1. CASE p \in 1..m /\ q \in 1..m
        BY <1>0, <2>8, <2>16, <3>1 DEF m
      <3>2. CASE ~(p \in 1..m) /\ ~(q \in 1..m)
        <4>1. PICK u \in 1..Len(l) : p = m + u /\ new.order[p] = l[u]
          BY <2>11, <3>2
        <4>2. PICK v \in 1..Len(l) : q = m + v /\ new.order[q] = l[v]
          BY <2>11, <3>2
        <4>3. u = v
          BY <2>6, <2>16, <4>1, <4>2
        <4>4. QED
          BY <4>1, <4>2, <4>3
      <3>3. CASE (p \in 1..m) # (q \in 1..m)
        <4>1. \A x \in 1..Len(new.order) : (x \in 1..m) <=> new.order[x] \notin st.remaining
          <5> SUFFICES ASSUME NEW x \in 1..Len(new.order)
                       PROVE  (x \in 1..m) <=> new.order[x] \notin st.remaining
            OBVIOUS
          <5>1. ASSUME NEW u \in 1..Len(l), x = m + u
                PROVE  x \notin 1..m
            BY <2>6, <2>7, <5>1
          <5>2. QED
            BY <2>1, <2>11, <5>1
        <4>2. QED
          BY <2>16, <3>3, <4>1
      <3>4. QED
        BY <3>1, <3>2, <3>3
    <2>17. new.forced # {} => Deadlocked(depends, 1..n)
      <3>1. CASE st.forced # {}
        BY <1>0, <3>1
      <3>2. CASE ready = {}
        <4>1. \A i \in st.remaining : depends[i] \cap st.remaining # {}
          BY <2>2, <3>2
        <4>2. QED
          BY <1>2, <2>1, <4>1 DEF Deadlocked
      <3>3. CASE st.forced = {} /\ ready # {}
        BY <2>3, <3>3
      <3>4. QED
        BY <3>1, <3>2, <3>3
    <2>18. ASSUME new.forced = {}
           PROVE  /\ \A s \in SUBSET (1..n) :
                        (\A i \in s : depends[i] \cap s # {}) => s \subseteq new.remaining
                  /\ \A p \in 1..Len(new.order) : \A j \in depends[new.order[p]] \cap (1..n) :
                        PlacedBefore(new.order, j, p)
      <3>1. st.forced = {} /\ ready # {} /\ b = ready
        BY <2>1, <2>2, <2>3, <2>18
      <3>2. /\ \A s \in SUBSET (1..n) :
                  (\A i \in s : depends[i] \cap s # {}) => s \subseteq st.remaining
            /\ \A p \in 1..m : \A j \in depends[st.order[p]] \cap (1..n) :
                  PlacedBefore(st.order, j, p)
        BY <3>1 DEF OrderInv, m
      <3>3. ASSUME NEW s \in SUBSET (1..n), \A i \in s : depends[i] \cap s # {}
            PROVE  s \subseteq new.remaining
        <4>1. s \subseteq st.remaining
          BY <3>2, <3>3
        <4>2. \A i \in s : depends[i] \cap st.remaining # {}
          BY <3>3, <4>1
        <4>3. QED
          BY <2>2, <2>3, <3>1, <4>1, <4>2
      <3>4. ASSUME NEW p \in 1..Len(new.order), NEW j \in depends[new.order[p]] \cap (1..n)
            PROVE  PlacedBefore(new.order, j, p)
        <4>1. CASE p \in 1..m
          <5>1. PICK q \in 1..(p - 1) : st.order[q] = j
            BY <2>8, <3>2, <3>4, <4>1 DEF PlacedBefore
          <5>2. q \in 1..m
            BY <2>7, <4>1
          <5>3. QED
            BY <2>8, <5>1, <5>2 DEF PlacedBefore
        <4>2. CASE ~(p \in 1..m)
          <5>1. PICK u \in 1..Len(l) : p = m + u /\ new.order[p] = l[u] /\ l[u] \in b
            BY <2>11, <4>2
          <5>2. j \notin st.remaining
            BY <2>2, <3>1, <3>4, <5>1
          <5>3. PICK q \in 1..m : st.order[q] = j
            BY <1>0, <3>4, <5>2 DEF m
          <5>4. q \in 1..(p - 1)
            BY <2>6, <2>7, <5>1, <5>3
          <5>5. QED
            BY <2>8, <5>3, <5>4 DEF PlacedBefore
        <4>3. QED
          BY <4>1, <4>2
      <3>5. QED
        BY <3>3, <3>4
    <2>19. QED
      BY <2>4, <2>12, <2>13, <2>14, <2>15, <2>16, <2>17, <2>18 DEF OrderInv, new
  <1>3. QED
    BY <1>1, <1>2

(* What the loop has made of a set of passes, by the fold.                  *)
PassBody(iter, s, D, depends) ==
    IF s = {} THEN [remaining |-> D, order |-> <<>>, forced |-> {}]
    ELSE PassOf(iter[s \ {TopOf(s)}], depends)

(* The loop by the definitions of the modules.                              *)
OrderOf(D, depends) ==
    LET places == DOMAIN [k \in D |-> k] IN
    (CHOOSE iter : iter = [s \in SUBSET places |-> PassBody(iter, s, D, depends)])[places]

(* OrderSnippets, with its fold laid open.                                  *)
LEMMA OrderUnfolds ==
    ASSUME NEW ft
    PROVE  OrderSnippets(ft) = OrderOf(DOMAIN Units(ft), Dependencies(ft, Units(ft)))
  <1> DEFINE units == Units(ft)
             depends == Dependencies(ft, units)
             Pass(st, k) ==
                LET ready == {i \in st.remaining : depends[i] \cap st.remaining = {}}
                    batch == IF ready # {} THEN ready ELSE {Min(st.remaining)}
                IN  IF st.remaining = {} THEN st
                    ELSE [remaining |-> st.remaining \ batch,
                          order     |-> st.order \o Sorted(batch, <),
                          forced    |-> st.forced \cup (IF ready = {} THEN batch ELSE {})]
  <1>1. OrderSnippets(ft) = FoldLeft(Pass, [remaining |-> DOMAIN units, order |-> <<>>, forced |-> {}],
                                     [k \in DOMAIN units |-> k])
    BY DEF OrderSnippets
  <1>3. FoldLeft(Pass, [remaining |-> DOMAIN units, order |-> <<>>, forced |-> {}],
                 [k \in DOMAIN units |-> k]) = OrderOf(DOMAIN units, depends)
    BY Zenon DEF FoldLeft, MapThenFoldSet, Max, TopOf, OrderOf, PassBody, PassOf, BatchOf, ReadyIn, Ascending
  <1>4. QED
    BY <1>1, <1>3

(* The passes as a ladder of functions, for the lemmas on folds.            *)
Passes(n, depends) == [x \in 1..n |-> [v \in Orders(n) |-> PassOf(v, depends)]]

(* The order is reached pass by pass.                                       *)
LEMMA OrderClimbs ==
    ASSUME NEW n \in Nat, NEW depends
    PROVE  /\ CanClimb(n, Orders(n), Whole(n), Passes(n, depends))
           /\ \E f : ClimbsTo(f, n, Orders(n), Whole(n), Passes(n, depends), OrderOf(1..n, depends))
  <1> DEFINE S == 1..n
             V == Orders(n)
             base == Whole(n)
             step == Passes(n, depends)
             Body(iter) == [s \in SUBSET S |-> PassBody(iter, s, S, depends)]
             chosen == CHOOSE iter : iter = Body(iter)
  <1>1. base \in V
    BY DEF Whole, Orders
  <1>2. step \in [S -> [V -> V]]
    <2>1. \A v \in V : PassOf(v, depends) \in V
      BY PassType
    <2>2. step = [x \in S |-> [v \in V |-> PassOf(v, depends)]]
      BY DEF Passes
    <2> HIDE DEF V, step
    <2>3. QED
      BY <2>1, <2>2
  <1>3. \A x \in S, v \in V : step[x][v] = PassOf(v, depends)
    BY DEF Passes
  <1>4. base = [remaining |-> S, order |-> <<>>, forced |-> {}]
    BY DEF Whole
  <1> HIDE DEF V, base, step
  <1>5. CanClimb(n, V, base, step)
    BY <1>1, <1>2 DEF CanClimb
  <1>14. PICK iter : FoldsWith(iter, n, V, base, step)
    BY <1>5, FoldValue
  <1>6. /\ iter \in [SUBSET S -> V]
        /\ iter[{}] = base
        /\ \A s \in SUBSET S : s # {} =>
              /\ TopOf(s) \in S
              /\ iter[s \ {TopOf(s)}] \in V
              /\ iter[s] = step[TopOf(s)][iter[s \ {TopOf(s)}]]
    BY <1>14 DEF FoldsWith
  <1>7. iter = Body(iter)
    <2>1. \A s \in SUBSET S : iter[s] = PassBody(iter, s, S, depends)
      <3> HIDE DEF S
      <3>1. QED
        BY <1>3, <1>4, <1>6 DEF PassBody
    <2> HIDE DEF S
    <2>2. QED
      BY <1>6, <2>1
  <1>8. chosen = Body(chosen)
    <2> HIDE DEF Body
    <2>1. QED
      BY <1>7
  <1>9. /\ chosen = [s \in SUBSET S |-> chosen[s]]
        /\ \A s \in SUBSET S : chosen[s] = PassBody(chosen, s, S, depends)
    <2> HIDE DEF chosen
    <2>1. QED
      BY <1>8
  <1> HIDE DEF chosen
  <1>10. FoldsFrom(chosen, n, V, base, step)
    <2>1. chosen[{}] = base
      BY <1>4, <1>9 DEF PassBody
    <2>2. ASSUME NEW s \in SUBSET S, s # {}, chosen[s \ {TopOf(s)}] \in V
          PROVE  chosen[s] = step[TopOf(s)][chosen[s \ {TopOf(s)}]]
      <3>1. TopOf(s) \in S
        BY <1>6, <2>2
      <3> HIDE DEF S
      <3>2. QED
        BY <1>3, <1>9, <2>2, <3>1 DEF PassBody
    <2>3. QED
      BY <1>9, <2>1, <2>2 DEF FoldsFrom
  <1>11. OrderOf(S, depends) = chosen[S]
    <2>1. DOMAIN [k \in S |-> k] = S
      OBVIOUS
    <2> HIDE DEF S
    <2>2. QED
      BY <2>1 DEF OrderOf, chosen
  <1>12. \E f : ClimbsTo(f, n, V, base, step, chosen[1..n])
    BY <1>5, <1>10, FoldsClimb
  <1>13. QED
    BY <1>5, <1>11, <1>12 DEF V, base, step

(* After n passes over n units the invariant of the loop holds.             *)
LEMMA OrderReached ==
    ASSUME NEW n \in Nat, NEW depends
    PROVE  OrderInv(OrderOf(1..n, depends), n, n, depends)
  <1> DEFINE V == Orders(n)
             step == Passes(n, depends)
             order == OrderOf(1..n, depends)
  <1>1. PICK f : ClimbsTo(f, n, V, Whole(n), step, order)
    BY OrderClimbs
  <1>2. /\ f \in [0..n -> V] /\ f[n] = order /\ f[0] = Whole(n)
        /\ \A k \in 1..n : f[k] = step[k][f[k - 1]]
    BY <1>1 DEF ClimbsTo, Climbs
  <1>3. \A k \in 1..n : f[k] = PassOf(f[k - 1], depends)
    <2> SUFFICES ASSUME NEW k \in 1..n PROVE f[k] = PassOf(f[k - 1], depends)
      OBVIOUS
    <2>1. k - 1 \in 0..n
      OBVIOUS
    <2> HIDE DEF V
    <2>2. f[k - 1] \in V
      BY <1>2, <2>1
    <2>3. step[k][f[k - 1]] = PassOf(f[k - 1], depends)
      BY <2>2 DEF Passes, V
    <2>4. QED
      BY <1>2, <2>3
  <1>4. OrderInv(f[0], 0, n, depends)
    <2> DEFINE st == Whole(n)
    <2>1. st.remaining = 1..n /\ st.order = <<>> /\ st.forced = {} /\ st \in Orders(n)
      BY DEF Whole, Orders
    <2>2. Cardinality(1..n) = n
      BY FS_Interval
    <2>3. Len(<<>>) = 0 /\ 1..0 = {}
      OBVIOUS
    <2> HIDE DEF st
    <2>4. OrderInv(st, 0, n, depends)
      BY <2>1, <2>2, <2>3 DEF OrderInv
    <2>5. QED
      BY <1>2, <2>4 DEF st
  <1> DEFINE Good == {k \in 0..n : OrderInv(f[k], k, n, depends)}
  <1>5. ASSUME NEW k \in 1..n, k - 1 \in Good
        PROVE  k \in Good
    <2>1. OrderInv(f[k - 1], k - 1, n, depends)
      BY <1>5
    <2>2. OrderInv(f[k], k, n, depends)
      BY <1>3, <2>1, PassKeeps
    <2>3. QED
      BY <2>2
  <1>6. 0 \in Good
    BY <1>4
  <1> HIDE DEF Good
  <1>7. \A k \in 0..n : k \in Good
    BY <1>5, <1>6, IntervalInduction
  <1>8. n \in Good
    BY <1>7
  <1>9. QED
    BY <1>2, <1>8 DEF Good

(* Every unit has its place, and comes after what it depends on unless      *)
(* units wait for one another.                                              *)
IsOrder(result, n, depends) ==
    /\ Len(result.order) = n /\ DOMAIN result.order = 1..n
    /\ result.order \in [1..n -> 1..n]
    /\ \A i \in 1..n : \E p \in 1..n : result.order[p] = i
    /\ \A p, q \in 1..n : result.order[p] = result.order[q] => p = q
    /\ result.forced # {} <=> Deadlocked(depends, 1..n)
    /\ result.forced = {} =>
          \A p, q \in 1..n : result.order[q] \in depends[result.order[p]] => q < p

(* The order of n units, whatever they depend on.                           *)
LEMMA OrderFacts ==
    ASSUME NEW n \in Nat, NEW depends
    PROVE  IsOrder(OrderOf(1..n, depends), n, depends)
  <1> DEFINE st == OrderOf(1..n, depends)
  <1>1. OrderInv(st, n, n, depends)
    BY OrderReached
  <1> HIDE DEF st
  <1>2. /\ st.order \in Seq(1..n) /\ st.remaining \in SUBSET (1..n)
        /\ Len(st.order) + Cardinality(st.remaining) = n
        /\ Cardinality(st.remaining) <= n - n
    BY <1>1 DEF OrderInv, Orders
  <1>3. IsFiniteSet(st.remaining)
    <2>1. IsFiniteSet(1..n)
      BY FS_Interval
    <2>2. QED
      BY <1>2, <2>1, FS_Subset
  <1>4. Cardinality(st.remaining) \in Nat
    BY <1>3, FS_CardinalityType
  <1>5. Cardinality(st.remaining) = 0 /\ Len(st.order) = n
    BY <1>2, <1>4
  <1>6. st.remaining = {}
    BY <1>3, <1>5, FS_EmptySet
  <1>7. DOMAIN st.order = 1..n /\ st.order \in [1..n -> 1..n]
    BY <1>2, <1>5
  <1>8. /\ \A i \in 1..n : \E p \in 1..n : st.order[p] = i
        /\ \A p, q \in 1..n : st.order[p] = st.order[q] => p = q
    BY <1>1, <1>5, <1>6 DEF OrderInv
  <1>9. st.forced # {} => Deadlocked(depends, 1..n)
    BY <1>1 DEF OrderInv
  <1>10. st.forced = {} => ~Deadlocked(depends, 1..n)
    <2>1. st.forced = {} => \A s \in SUBSET (1..n) :
             (\A i \in s : depends[i] \cap s # {}) => s \subseteq st.remaining
      BY <1>1 DEF OrderInv
    <2>2. QED
      BY <1>6, <2>1 DEF Deadlocked
  <1>11. ASSUME st.forced = {}, NEW p \in 1..n, NEW q \in 1..n, st.order[q] \in depends[st.order[p]]
         PROVE  q < p
    <2>1. PlacedBefore(st.order, st.order[q], p)
      BY <1>1, <1>5, <1>7, <1>11 DEF OrderInv
    <2>2. PICK r \in 1..(p - 1) : st.order[r] = st.order[q]
      BY <2>1 DEF PlacedBefore
    <2>3. r \in 1..n /\ r < p
      OBVIOUS
    <2>4. r = q
      BY <1>8, <2>2, <2>3
    <2>5. QED
      BY <2>3, <2>4
  <1>12. QED
    BY <1>5, <1>7, <1>8, <1>9, <1>10, <1>11 DEF IsOrder, st

-----------------------------------------------------------------------------
(* What is made in one step from one of the structures.                     *)
MadeIn(units, structures) ==
    {units[k].target : k \in {k \in DOMAIN units :
        units[k].source \in structures \ {Null} /\ units[k].target # Null}}

(* What the growing has made of a set of steps, by the fold.                *)
GrowBody(iter, s, units, structure) ==
    IF s = {} THEN MadeIn(units, {structure})
    ELSE iter[s \ {TopOf(s)}] \cup MadeIn(units, iter[s \ {TopOf(s)}])

(* The set that grows, by the definitions of the modules.                   *)
GrownFrom(units, structure) ==
    LET places == DOMAIN [k \in DOMAIN units |-> k] IN
    (CHOOSE iter : iter = [s \in SUBSET places |-> GrowBody(iter, s, units, structure)])[places]

(* Descendants, with its fold laid open.                                    *)
LEMMA DescendantsUnfold ==
    ASSUME NEW units, NEW structure
    PROVE  Descendants(units, structure) = GrownFrom(units, structure) \ {structure}
  <1> DEFINE From(structures) ==
                {units[k].target : k \in {k \in DOMAIN units :
                    units[k].source \in structures \ {Null} /\ units[k].target # Null}}
             Grow(seen, k) == seen \cup From(seen)
  <1>1. Descendants(units, structure) =
           FoldLeft(Grow, From({structure}), [k \in DOMAIN units |-> k]) \ {structure}
    BY DEF Descendants
  <1>2. FoldLeft(Grow, From({structure}), [k \in DOMAIN units |-> k]) = GrownFrom(units, structure)
    BY Zenon DEF FoldLeft, MapThenFoldSet, Max, TopOf, GrownFrom, GrowBody, MadeIn
  <1>3. QED
    BY <1>1, <1>2

(* The structures that some unit makes.                                     *)
Targets(units) == {units[k].target : k \in DOMAIN units} \ {Null}

(* The steps of the growing as a ladder of functions.                       *)
Growth(n, units) ==
    [x \in 1..n |-> [v \in SUBSET Targets(units) |-> v \cup MadeIn(units, v)]]

(* The set is reached step by step.                                         *)
LEMMA GrowthClimbs ==
    ASSUME NEW n \in Nat, NEW units, DOMAIN units = 1..n, NEW structure
    PROVE  \E f : ClimbsTo(f, n, SUBSET Targets(units), MadeIn(units, {structure}), Growth(n, units),
                           GrownFrom(units, structure))
  <1> DEFINE S == 1..n
             V == SUBSET Targets(units)
             base == MadeIn(units, {structure})
             step == Growth(n, units)
             Body(iter) == [s \in SUBSET S |-> GrowBody(iter, s, units, structure)]
             chosen == CHOOSE iter : iter = Body(iter)
  <1>1. \A v : MadeIn(units, v) \in V
    BY DEF MadeIn, Targets
  <1>2. step = [x \in S |-> [v \in V |-> v \cup MadeIn(units, v)]]
    BY DEF Growth
  <1>3. \A v \in V : v \cup MadeIn(units, v) \in V
    BY <1>1
  <1> HIDE DEF V
  <1>4. step \in [S -> [V -> V]] /\ \A x \in S, v \in V : step[x][v] = v \cup MadeIn(units, v)
    <2> HIDE DEF step
    <2>1. QED
      BY <1>2, <1>3
  <1>15. base \in V
    BY <1>1
  <1>16. base = MadeIn(units, {structure})
    OBVIOUS
  <1> HIDE DEF base, step
  <1>5. CanClimb(n, V, base, step)
    BY <1>15, <1>4 DEF CanClimb
  <1>14. PICK iter : FoldsWith(iter, n, V, base, step)
    BY <1>5, FoldValue
  <1>6. /\ iter \in [SUBSET S -> V]
        /\ iter[{}] = base
        /\ \A s \in SUBSET S : s # {} =>
              /\ TopOf(s) \in S
              /\ iter[s \ {TopOf(s)}] \in V
              /\ iter[s] = step[TopOf(s)][iter[s \ {TopOf(s)}]]
    BY <1>14 DEF FoldsWith
  <1>7. iter = Body(iter)
    <2>1. ASSUME NEW s \in SUBSET S
          PROVE  iter[s] = GrowBody(iter, s, units, structure)
      <3> HIDE DEF S
      <3>1. CASE s = {}
        BY <1>16, <1>6, <3>1 DEF GrowBody
      <3>2. CASE s # {}
        <4>1. iter[s] = step[TopOf(s)][iter[s \ {TopOf(s)}]]
              /\ TopOf(s) \in S /\ iter[s \ {TopOf(s)}] \in V
          BY <1>6, <3>2
        <4>2. step[TopOf(s)][iter[s \ {TopOf(s)}]]
                 = iter[s \ {TopOf(s)}] \cup MadeIn(units, iter[s \ {TopOf(s)}])
          BY <1>4, <4>1
        <4>3. QED
          BY <3>2, <4>1, <4>2 DEF GrowBody
      <3>3. QED
        BY <3>1, <3>2
    <2> HIDE DEF S
    <2>2. QED
      BY <1>6, <2>1
  <1>8. chosen = Body(chosen)
    <2> HIDE DEF Body
    <2>1. QED
      BY <1>7
  <1>9. /\ chosen = [s \in SUBSET S |-> chosen[s]]
        /\ \A s \in SUBSET S : chosen[s] = GrowBody(chosen, s, units, structure)
    <2> HIDE DEF chosen
    <2>1. QED
      BY <1>8
  <1> HIDE DEF chosen
  <1>10. FoldsFrom(chosen, n, V, base, step)
    <2>1. chosen[{}] = base
      BY <1>16, <1>9 DEF GrowBody
    <2>2. ASSUME NEW s \in SUBSET S, s # {}, chosen[s \ {TopOf(s)}] \in V
          PROVE  chosen[s] = step[TopOf(s)][chosen[s \ {TopOf(s)}]]
      <3>1. TopOf(s) \in S
        BY <1>6, <2>2
      <3> HIDE DEF S
      <3>2. QED
        BY <1>4, <1>9, <2>2, <3>1 DEF GrowBody
    <2>3. QED
      BY <1>9, <2>1, <2>2 DEF FoldsFrom
  <1>11. GrownFrom(units, structure) = chosen[S]
    <2>1. DOMAIN [k \in DOMAIN units |-> k] = S
      OBVIOUS
    <2> HIDE DEF S
    <2>2. QED
      BY <2>1 DEF GrownFrom, chosen
  <1>12. \E f : ClimbsTo(f, n, V, base, step, chosen[1..n])
    BY <1>5, <1>10, FoldsClimb
  <1>13. QED
    BY <1>11, <1>12 DEF V, base, step

(* After k steps the set is closed, or every step has added to it.          *)
GrowthInv(v, k, units, structure) ==
    /\ v \in SUBSET Targets(units)
    /\ MadeIn(units, {structure}) \subseteq v
    /\ MadeIn(units, v) \subseteq v \/ Cardinality(v) >= k

(* n units make at most n structures.                                       *)
LEMMA FewTargets ==
    ASSUME NEW n \in Nat, NEW units, DOMAIN units = 1..n
    PROVE  IsFiniteSet(Targets(units)) /\ Cardinality(Targets(units)) <= n
  <1> DEFINE T == {units[k].target : k \in 1..n}
             g == [k \in 1..n |-> units[k].target]
  <1>1. IsFiniteSet(1..n) /\ Cardinality(1..n) = n
    BY FS_Interval
  <1>2. g \in Surjection(1..n, T)
    BY DEF Surjection
  <1> HIDE DEF g, T
  <1>3. IsFiniteSet(T) /\ Cardinality(T) <= n
    BY <1>1, <1>2, FS_Surjection
  <1>4. Targets(units) \in SUBSET T
    BY DEF Targets, T
  <1>5. IsFiniteSet(Targets(units)) /\ Cardinality(Targets(units)) <= Cardinality(T)
    BY <1>3, <1>4, FS_Subset
  <1>6. Cardinality(Targets(units)) \in Nat /\ Cardinality(T) \in Nat
    BY <1>3, <1>5, FS_CardinalityType
  <1>7. QED
    BY <1>3, <1>5, <1>6

(* The descendants are closed.                                              *)
LEMMA GrownIsClosed ==
    ASSUME NEW n \in Nat, NEW units, DOMAIN units = 1..n, NEW structure
    PROVE  LET g == GrownFrom(units, structure)
           IN  g \in SUBSET Targets(units) /\ MadeIn(units, {structure}) \subseteq g
               /\ MadeIn(units, g) \subseteq g
  <1> DEFINE V == SUBSET Targets(units)
             step == Growth(n, units)
             g == GrownFrom(units, structure)
             base == MadeIn(units, {structure})
  <1>1. PICK f : ClimbsTo(f, n, V, base, step, g)
    BY GrowthClimbs
  <1>2. /\ f \in [0..n -> V] /\ f[n] = g /\ f[0] = base
        /\ \A k \in 1..n : f[k] = step[k][f[k - 1]]
    BY <1>1 DEF ClimbsTo, Climbs
  <1>3. \A k \in 1..n : f[k] = f[k - 1] \cup MadeIn(units, f[k - 1])
    <2> SUFFICES ASSUME NEW k \in 1..n PROVE f[k] = f[k - 1] \cup MadeIn(units, f[k - 1])
      OBVIOUS
    <2>1. k - 1 \in 0..n
      OBVIOUS
    <2>2. step = [x \in 1..n |-> [v \in V |-> v \cup MadeIn(units, v)]]
      BY DEF Growth
    <2> HIDE DEF V, step
    <2>3. f[k - 1] \in V
      BY <1>2, <2>1
    <2>4. step[k][f[k - 1]] = f[k - 1] \cup MadeIn(units, f[k - 1])
      BY <2>2, <2>3
    <2>5. QED
      BY <1>2, <2>4
  <1>4. IsFiniteSet(Targets(units)) /\ Cardinality(Targets(units)) <= n
    BY FewTargets
  <1>5. \A v \in V : MadeIn(units, v) \in V /\ IsFiniteSet(v) /\ Cardinality(v) \in Nat
    <2>1. \A v \in V : MadeIn(units, v) \in V
      BY DEF MadeIn, Targets
    <2>2. \A v \in V : IsFiniteSet(v)
      BY <1>4, FS_Subset
    <2>3. QED
      BY <2>1, <2>2, FS_CardinalityType
  <1> DEFINE Good == {k \in 0..n : GrowthInv(f[k], k, units, structure)}
  <1>6. 0 \in Good
    <2>1. base \in V /\ Cardinality(base) >= 0
      <3>1. base \in V
        BY DEF MadeIn, Targets
      <3> HIDE DEF base
      <3>2. Cardinality(base) \in Nat
        BY <1>5, <3>1
      <3>3. QED
        BY <3>1, <3>2
    <2>2. QED
      BY <1>2, <2>1 DEF GrowthInv
  <1>7. ASSUME NEW k \in 1..n, k - 1 \in Good
        PROVE  k \in Good
    <2> DEFINE v == f[k - 1]
               w == f[k]
    <2>1. v \in V /\ base \subseteq v /\ (MadeIn(units, v) \subseteq v \/ Cardinality(v) >= k - 1)
      BY <1>7 DEF GrowthInv
    <2>2. w = v \cup MadeIn(units, v)
      BY <1>3
    <2>3. w \in V
      BY <1>2
    <2> HIDE DEF v, w
    <2>4. CASE MadeIn(units, v) \subseteq v
      <3>1. w = v
        BY <2>2, <2>4
      <3>2. GrowthInv(w, k, units, structure)
        BY <2>1, <2>4, <3>1 DEF GrowthInv
      <3>3. QED
        BY <3>2 DEF w
    <2>5. CASE ~(MadeIn(units, v) \subseteq v) /\ Cardinality(v) >= k - 1
      <3>1. PICK x \in MadeIn(units, v) : x \notin v
        BY <2>5
      <3>2. v \in SUBSET w /\ v # w
        BY <2>2, <3>1
      <3>3. IsFiniteSet(w) /\ Cardinality(w) \in Nat /\ Cardinality(v) \in Nat
        BY <1>5, <2>1, <2>3
      <3>4. Cardinality(v) <= Cardinality(w) /\ Cardinality(v) # Cardinality(w)
        BY <3>2, <3>3, FS_Subset
      <3>5. Cardinality(w) >= k
        BY <2>5, <3>3, <3>4
      <3>6. GrowthInv(w, k, units, structure)
        BY <2>1, <2>2, <2>3, <3>5 DEF GrowthInv
      <3>7. QED
        BY <3>6 DEF w
    <2>6. QED
      BY <2>1, <2>4, <2>5
  <1> HIDE DEF Good
  <1>8. \A k \in 0..n : k \in Good
    BY <1>6, <1>7, IntervalInduction
  <1>9. GrowthInv(g, n, units, structure)
    BY <1>2, <1>8 DEF Good
  <1> HIDE DEF g
  <1>10. g \in V /\ base \subseteq g /\ (MadeIn(units, g) \subseteq g \/ Cardinality(g) >= n)
    BY <1>9 DEF GrowthInv
  <1>11. Cardinality(g) >= n => g = Targets(units)
    <2>1. Cardinality(g) \in Nat /\ Cardinality(Targets(units)) \in Nat
      BY <1>4, <1>5, <1>10, FS_CardinalityType
    <2>2. Cardinality(g) <= Cardinality(Targets(units))
          /\ (Cardinality(g) = Cardinality(Targets(units)) => g = Targets(units))
      BY <1>4, <1>10, FS_Subset
    <2>3. QED
      BY <1>4, <2>1, <2>2
  <1>12. g = Targets(units) => MadeIn(units, g) \subseteq g
    BY DEF MadeIn, Targets
  <1>13. QED
    BY <1>10, <1>11, <1>12 DEF g

(* Whatever is made from a structure, over any number of units, is among    *)
(* its descendants: _descendant_structures misses none.                     *)
LEMMA LaterAreDescendants ==
    ASSUME NEW n \in Nat, NEW units, DOMAIN units = 1..n, NEW structure, structure # Null
    PROVE  MadeFrom(units, structure) \ {structure} \subseteq Descendants(units, structure)
  <1> DEFINE g == GrownFrom(units, structure)
             s == g \cup {structure}
             structures == {units[k].target : k \in DOMAIN units} \cup {structure}
  <1>1. g \in SUBSET Targets(units) /\ MadeIn(units, {structure}) \subseteq g /\ MadeIn(units, g) \subseteq g
    BY GrownIsClosed
  <1>2. Descendants(units, structure) = g \ {structure}
    BY DescendantsUnfold
  <1> HIDE DEF g
  <1>3. s \in SUBSET structures /\ structure \in s /\ Null \notin s
    BY <1>1 DEF Targets
  <1>4. ASSUME NEW k \in DOMAIN units, units[k].source \in s, units[k].target # Null
        PROVE  units[k].target \in s
    <2>1. CASE units[k].source = structure
      BY <1>1, <1>4, <2>1 DEF MadeIn
    <2>2. CASE units[k].source \in g
      <3>1. units[k].source # Null
        BY <1>3, <1>4
      <3>2. units[k].target \in MadeIn(units, g)
        BY <1>4, <2>2, <3>1 DEF MadeIn
      <3>3. QED
        BY <1>1, <3>2
    <2>3. QED
      BY <1>4, <2>1, <2>2
  <1>5. ASSUME NEW x \in MadeFrom(units, structure)
        PROVE  x \in s
    <2> HIDE DEF s
    <2>1. QED
      BY <1>3, <1>4 DEF MadeFrom
  <1>6. QED
    BY <1>2, <1>5

-----------------------------------------------------------------------------
(* A function is of one of the units, or of none (0).                       *)
LEMMA UnitOfFacts ==
    ASSUME NEW n \in Nat, NEW units, DOMAIN units = 1..n, NEW f
    PROVE  UnitOf(units, f) \in 0..n
  <1> DEFINE s == {0} \cup {i \in DOMAIN units : f \in units[i].functions}
             t == {n - x : x \in s}
  <1>1. s \in SUBSET (0..n) /\ 0 \in s
    OBVIOUS
  <1>2. \E x \in s : \A y \in s : x >= y
    <2>1. t \in SUBSET Nat /\ t # {}
      BY <1>1
    <2> HIDE DEF t
    <2>2. PICK z \in t : \A y \in t : z <= y
      BY <2>1, LeastElement
    <2>3. PICK x \in s : z = n - x
      BY DEF t
    <2>4. \A y \in s : n - x <= n - y
      BY <2>2, <2>3 DEF t
    <2> HIDE DEF s
    <2>5. \A y \in s : x >= y
      BY <1>1, <2>4
    <2>6. QED
      BY <2>5
  <1>3. UnitOf(units, f) = Max(s)
    BY DEF UnitOf
  <1> HIDE DEF s
  <1>4. Max(s) \in s
    BY <1>2 DEF Max
  <1>5. QED
    BY <1>1, <1>3, <1>4

(* The units are numbered from 1.                                           *)
LEMMA UnitsFacts ==
    ASSUME NEW ft, StepCount(ft) \in Nat
    PROVE  DOMAIN Units(ft) = 1..StepCount(ft) /\ Len(Units(ft)) = StepCount(ft)
  <1> DEFINE n == StepCount(ft)
             place(k) == CHOOSE x \in StructuralSteps(ft) :
                            Cardinality({y \in StructuralSteps(ft) : StepBefore(y, x)}) = k - 1
             units == [k \in 1..n |-> place(k)]
             T == {place(k) : k \in 1..n}
  <1>1. Units(ft) = units
    BY DEF Units, Sorted, StepCount
  <1> HIDE DEF place
  <1>2. units \in [1..n -> T] /\ DOMAIN units = 1..n
    OBVIOUS
  <1> HIDE DEF units, n, T
  <1>3. units \in Seq(T)
    BY <1>2 DEF n
  <1>4. Len(units) = n
    BY <1>2, <1>3 DEF n
  <1>5. QED
    BY <1>1, <1>2, <1>4 DEF n

(* The last part of OrderSound: producers before what uses their structure, *)
(* uses before the cleanup, and the parties of an ownership before its      *)
(* cleanup.                                                                 *)
Respects(ft, units, Place) ==
    LET Precedes(i, j) == i = j \/ Place[i] < Place[j]
        Later(structure) == MadeFrom(units, structure) \ {structure}
    IN  /\ \A i, j \in DOMAIN units :
            units[j].target # Null /\ units[j].target = units[i].source => Precedes(j, i)
        /\ \A i \in {k \in DOMAIN units : units[k].source # Null /\ units[k].target = Null} :
              LET later == Later(units[i].source)
              IN  \A j \in DOMAIN units :
                    \/ units[j].source = units[i].source /\ units[j].target # Null
                    \/ units[j].source \in later
                    => Precedes(j, i)
        /\ \A r \in ft.ownership : \A f \in r.consumers \cup {r.producer} :
              UnitOf(units, f) # 0 /\ UnitOf(units, r.cleanup) # 0
                  => Precedes(UnitOf(units, f), UnitOf(units, r.cleanup))

LEMMA DependenciesRespect ==
    ASSUME NEW ft, NEW units, NEW n \in Nat, DOMAIN units = 1..n, NEW place,
           \A i, j \in 1..n : j \in Dependencies(ft, units)[i] => place[j] < place[i]
    PROVE  Respects(ft, units, place)
  <1> DEFINE depends == Dependencies(ft, units)
             Precedes(i, j) == i = j \/ place[i] < place[j]
  <1>1. \A i \in 1..n : depends[i] =
            (SnippetDependencies(units, i)
                \cup {j \in DOMAIN units : Produces(units[j], units[i].source)}
                \cup OwnershipDependencies(ft, units, i)
                \cup Uses(units, i)) \ {i}
    BY DEF Dependencies
  <1>2. \A i, j \in 1..n : j \in depends[i] \/ i = j => Precedes(j, i)
    OBVIOUS
  <1> HIDE DEF depends, Precedes
  <1>3. ASSUME NEW i \in 1..n, NEW j \in 1..n, units[j].target # Null, units[j].target = units[i].source
        PROVE  Precedes(j, i)
    <2>1. j \in depends[i] \/ i = j
      BY <1>1, <1>3 DEF Produces
    <2>2. QED
      BY <1>2, <2>1
  <1>4. ASSUME NEW i \in 1..n, units[i].source # Null, units[i].target = Null, NEW j \in 1..n,
               \/ units[j].source = units[i].source /\ units[j].target # Null
               \/ units[j].source \in MadeFrom(units, units[i].source) \ {units[i].source}
        PROVE  Precedes(j, i)
    <2>1. MadeFrom(units, units[i].source) \ {units[i].source} \subseteq Descendants(units, units[i].source)
      BY <1>4, LaterAreDescendants
    <2>2. j \in Uses(units, i)
      BY <1>4, <2>1 DEF Uses
    <2>3. j \in depends[i] \/ i = j
      BY <1>1, <2>2
    <2>4. QED
      BY <1>2, <2>3
  <1>5. ASSUME NEW r \in ft.ownership, NEW f \in r.consumers \cup {r.producer},
               UnitOf(units, f) # 0, UnitOf(units, r.cleanup) # 0
        PROVE  Precedes(UnitOf(units, f), UnitOf(units, r.cleanup))
    <2> DEFINE i == UnitOf(units, r.cleanup)
               j == UnitOf(units, f)
    <2>1. i \in 0..n /\ j \in 0..n
      BY UnitOfFacts
    <2>2. i \in 1..n /\ j \in 1..n
      BY <1>5, <2>1
    <2> DEFINE mine == {o \in ft.ownership : UnitOf(units, o.cleanup) = i}
               parties == {{UnitOf(units, g) : g \in {o.producer} \cup o.consumers} : o \in mine}
    <2>7. OwnershipDependencies(ft, units, i) = (UNION parties) \ {0}
      BY DEF OwnershipDependencies
    <2>8. r \in mine /\ f \in {r.producer} \cup r.consumers
      BY <1>5
    <2>9. {UnitOf(units, g) : g \in {r.producer} \cup r.consumers} \in parties
      BY <2>8
    <2>10. j \in {UnitOf(units, g) : g \in {r.producer} \cup r.consumers}
      BY <2>8
    <2> HIDE DEF i, j, parties
    <2>3. j \in OwnershipDependencies(ft, units, i)
      <3>1. j # 0
        BY <2>2
      <3>2. QED
        BY Zenon, <2>7, <2>9, <2>10, <3>1
    <2>4. j \in depends[i] \/ i = j
      BY <1>1, <2>2, <2>3
    <2>5. Precedes(j, i)
      BY <1>2, <2>2, <2>4
    <2>6. QED
      BY <2>5 DEF i, j
  <1>6. QED
    BY <1>3, <1>4, <1>5 DEF Respects, Precedes

(* OrderSound, for one triplet.                                             *)
OrderSoundFor(ft) ==
    LET units == Units(ft)
        assembled == OrderSnippets(ft)
        Place == [i \in DOMAIN units |-> CHOOSE p \in DOMAIN units : assembled.order[p] = i]
    IN  /\ Len(assembled.order) = Len(units)
        /\ Range(assembled.order) = DOMAIN units
        /\ (assembled.forced # {}) = Deadlocked(Dependencies(ft, units), DOMAIN units)
        /\ assembled.forced = {} => Respects(ft, units, Place)

(* The order of any triplet is sound.                                       *)
LEMMA EveryOrderSound ==
    ASSUME NEW ft, StepCount(ft) \in Nat
    PROVE  OrderSoundFor(ft)
  <1> DEFINE n == StepCount(ft)
             units == Units(ft)
             depends == Dependencies(ft, units)
             assembled == OrderSnippets(ft)
             Place == [i \in DOMAIN units |-> CHOOSE p \in DOMAIN units : assembled.order[p] = i]
  <1>1. DOMAIN units = 1..n /\ Len(units) = n /\ n \in Nat
    BY UnitsFacts
  <1>2. assembled = OrderOf(1..n, depends)
    BY <1>1, OrderUnfolds
  <1> HIDE DEF assembled, depends, units, n
  <1>3. IsOrder(assembled, n, depends)
    BY <1>1, <1>2, OrderFacts
  <1>4. /\ Len(assembled.order) = n /\ DOMAIN assembled.order = 1..n
        /\ assembled.order \in [1..n -> 1..n]
        /\ \A i \in 1..n : \E p \in 1..n : assembled.order[p] = i
        /\ \A p, q \in 1..n : assembled.order[p] = assembled.order[q] => p = q
        /\ assembled.forced # {} <=> Deadlocked(depends, 1..n)
        /\ assembled.forced = {} =>
              \A p, q \in 1..n : assembled.order[q] \in depends[assembled.order[p]] => q < p
    BY <1>3 DEF IsOrder
  <1> HIDE DEF Place
  <1>5. Range(assembled.order) = 1..n
    <2>1. Range(assembled.order) = {assembled.order[p] : p \in 1..n}
      BY <1>4 DEF Range
    <2> HIDE DEF Range
    <2>2. ASSUME NEW i \in Range(assembled.order)
          PROVE  i \in 1..n
      <3>1. PICK p \in 1..n : i = assembled.order[p]
        BY Zenon, <2>1, <2>2
      <3>2. QED
        BY <1>4, <3>1
    <2>3. ASSUME NEW i \in 1..n
          PROVE  i \in Range(assembled.order)
      <3>1. PICK p \in 1..n : i = assembled.order[p]
        BY <1>4
      <3>2. QED
        BY Zenon, <2>1, <3>1
    <2>4. QED
      BY <2>2, <2>3
  <1>6. \A i \in 1..n : Place[i] \in 1..n /\ assembled.order[Place[i]] = i
    BY <1>1, <1>4 DEF Place
  <1>7. ASSUME assembled.forced = {}
        PROVE  Respects(ft, units, Place)
    <2>1. \A p, q \in 1..n : assembled.order[q] \in depends[assembled.order[p]] => q < p
      BY <1>4, <1>7
    <2>3. ASSUME NEW i \in 1..n, NEW j \in 1..n, j \in depends[i]
          PROVE  Place[j] < Place[i]
      BY <1>6, <2>1, <2>3
    <2>4. \A i, j \in 1..n : j \in depends[i] => Place[j] < Place[i]
      BY <2>3
    <2>2. QED
      BY <1>1, <2>4, DependenciesRespect DEF depends
  <1>8. (assembled.forced # {}) = Deadlocked(depends, 1..n)
    BY <1>4 DEF Deadlocked
  <1>9. QED
    BY <1>1, <1>4, <1>5, <1>7, <1>8 DEF OrderSoundFor, Place, assembled, depends, units

(* Whatever triplet Stage 3 is about to generate, _order_snippets gives     *)
(* each unit one place, forces a place exactly where units wait for one     *)
(* another, and otherwise puts producers before uses, uses before cleanups, *)
(* and the parties of an ownership before its cleanup.                      *)
THEOREM OrderIsSound == Spec => []OrderSound
  <1>1. IInv => OrderSound
    <2> SUFFICES ASSUME IInv, phase = "run", stage = 3, asked = 0
                 PROVE  OrderSound
      BY DEF OrderSound
    <2>1. Current \in catalog /\ IsCatalog(catalog)
      BY CommandType, CurrentType DEF IInv, CatalogInv
    <2>2. StepCount(Current) \in Nat
      BY <2>1, CountsType
    <2>3. OrderSoundFor(Current)
      BY <2>2, EveryOrderSound
    <2>4. QED
      BY <2>3 DEF OrderSound, OrderSoundFor, Respects, Assembled
  <1>2. QED
    BY <1>1, InvariantHolds, PTL
=============================================================================
