--------------------------- MODULE AnalysisProofs ---------------------------
(***************************************************************************)
(* Proofs about the analysis of a project: for any sources, any job, any   *)
(* answers of the model and any number of builds, crashes included.        *)
(*                                                                         *)
(* The questions of a build come first.  They are those of its candidates, *)
(* each asked once, and as many as the preflight counts; that takes the    *)
(* facts of FoldLemmas about sums, joins and orders.  The inductive        *)
(* invariant then says how far each phase is, that a file on disk is of a  *)
(* build with all its answers, and that a recording is the answers of one  *)
(* such build.                                                             *)
(*                                                                         *)
(* From the sources to the triplets comes second.  What is mined, reviewed *)
(* and built makes a directory that knows its functions, edges, patterns   *)
(* and relations; a view of it is an observed lifecycle; a triplet made of *)
(* such a directory is well formed, shows its view and hangs together with *)
(* its entry.  The inductive invariant says that this is what the          *)
(* extraction has made so far, and which entries are left.                 *)
(***************************************************************************)
EXTENDS SemanticBuildProps, LifecycleAnalysisProps, FoldLemmas, SequenceTheorems

(* A set of numbers put in order has each of them once.                     *)
LEMMA InOrderFacts ==
    ASSUME NEW S \in SUBSET Int, IsFiniteSet(S)
    PROVE  /\ Cardinality(S) \in Nat
           /\ InOrder(S) \in [1..Cardinality(S) -> S]
           /\ InOrder(S) \in Seq(S) /\ Len(InOrder(S)) = Cardinality(S)
           /\ \A i, j \in 1..Cardinality(S) : InOrder(S)[i] = InOrder(S)[j] => i = j
           /\ \A x \in S : \E k \in 1..Cardinality(S) : InOrder(S)[k] = x
  <1> DEFINE key == [x \in S |-> x]
             n == Cardinality(S)
             rank(x) == Cardinality({y \in S : y < x})
  <1>1. \A x \in S : Rank(S, key, x) = rank(x)
    <2>1. ASSUME NEW x \in S
          PROVE  {y \in S : key[y] < key[x]} = {y \in S : y < x}
      OBVIOUS
    <2>2. QED
      BY <2>1 DEF Rank
  <1>2. /\ n \in Nat
        /\ \A x \in S : rank(x) \in 0..(n - 1)
        /\ \A x, y \in S : rank(x) = rank(y) => x = y
        /\ \A k \in 1..n : \E x \in S : rank(x) = k - 1
    <2>1. Numbered(S, key)
      BY DEF Numbered
    <2> HIDE DEF key, rank
    <2>2. IsRanking(S, key)
      BY <2>1, RankFacts
    <2>3. QED
      BY <2>2, <1>1 DEF IsRanking
  <1> DEFINE s == InOrder(S)
  <1>3. s = [k \in 1..n |-> CHOOSE x \in S : rank(x) = k - 1]
    BY DEF InOrder
  <1> HIDE DEF n, rank, s
  <1>4. \A k \in 1..n : s[k] \in S /\ rank(s[k]) = k - 1
    BY <1>2, <1>3
  <1>5. s \in [1..n -> S]
    BY <1>3, <1>4
  <1>6. s \in Seq(S) /\ Len(s) = n
    BY <1>5, <1>2
  <1>7. \A i, j \in 1..n : s[i] = s[j] => i = j
    BY <1>4
  <1>8. ASSUME NEW x \in S
        PROVE  \E k \in 1..n : s[k] = x
    <2> DEFINE k == rank(x) + 1
    <2>1. k \in 1..n /\ k - 1 = rank(x)
      BY <1>2
    <2> HIDE DEF k
    <2>2. rank(s[k]) = rank(x) /\ s[k] \in S
      BY <2>1, <1>4
    <2>3. QED
      BY <2>1, <2>2, <1>2
  <1>9. QED
    BY <1>2, <1>5, <1>6, <1>7, <1>8 DEF n, s

-----------------------------------------------------------------------------
(* The functions of all versions.                                           *)
AllFunctions == UNION {ToSet(Functions[v]) : v \in Versions}

(* The candidates of a version are some of its functions, each once.        *)
LEMMA CandidatesFacts ==
    ASSUME NEW v \in Versions, NEW minimal \in BOOLEAN
    PROVE  LET c == CandidatesBy[v][minimal] IN
           /\ c \in Seq(AllFunctions)
           /\ \A k \in 1..Len(c) : c[k] \in ToSet(Functions[v]) /\ IsCandidate(c[k])
           /\ \A i, j \in 1..Len(c) : c[i].id = c[j].id => i = j
  <1> DEFINE functions == Functions[v]
             wants == {k \in DOMAIN functions :
                         /\ functions[k].defined /\ IsCandidate(functions[k])
                         /\ minimal => IsStructRelated(functions[k])}
             wanted == InOrder(wants)
             c == [k \in DOMAIN wanted |-> functions[wanted[k]]]
  <1>1. CandidatesBy[v][minimal] = c
    <2>1. CandidatesBy[v][minimal] = Candidates(Functions[v], minimal)
      BY DEF CandidatesBy
    <2>2. QED
      BY <2>1 DEF Candidates
  <1>2. functions \in Seq(ToSet(functions)) /\ DOMAIN functions = 1..Len(functions)
    BY FunctionsAssumption
  <1>3. wants \in SUBSET Int /\ IsFiniteSet(wants)
    <2>1. wants \in SUBSET (1..Len(functions)) /\ Len(functions) \in Nat
      BY <1>2
    <2> HIDE DEF wants, functions
    <2>2. IsFiniteSet(1..Len(functions)) /\ 1..Len(functions) \in SUBSET Int
      BY <2>1, FS_Interval
    <2>3. QED
      BY <2>1, <2>2, FS_Subset
  <1> DEFINE n == Cardinality(wants)
  <1>4. /\ n \in Nat
        /\ wanted \in [1..n -> wants] /\ DOMAIN wanted = 1..n
        /\ \A i, j \in 1..n : wanted[i] = wanted[j] => i = j
    <2> HIDE DEF wants
    <2>1. QED
      BY <1>3, InOrderFacts
  <1>5. \A k \in 1..n : wanted[k] \in wants /\ wanted[k] \in DOMAIN functions
    <2> HIDE DEF wanted, n, functions
    <2>1. QED
      BY <1>4
  <1> HIDE DEF n, wanted
  <1>6. \A k \in DOMAIN functions : functions[k] \in ToSet(functions)
    BY DEF ToSet
  <1>7. c \in [1..n -> ToSet(functions)] /\ \A k \in 1..n : c[k] = functions[wanted[k]]
    BY <1>4, <1>5, <1>6
  <1>8. \A k \in 1..n : IsCandidate(c[k])
    BY <1>5, <1>7
  <1>9. ASSUME NEW i \in 1..n, NEW j \in 1..n, c[i].id = c[j].id
        PROVE  i = j
    <2>1. functions[wanted[i]].id = functions[wanted[j]].id
      BY <1>7, <1>9
    <2>2. wanted[i] = wanted[j]
      BY <2>1, <1>5, FunctionsAssumption
    <2>3. QED
      BY <2>2, <1>4
  <1> HIDE DEF c, functions
  <1>10. c \in Seq(ToSet(functions)) /\ Len(c) = n
    BY <1>7, <1>4
  <1>11. ToSet(functions) \in SUBSET AllFunctions
    BY DEF AllFunctions, functions
  <1>12. c \in Seq(AllFunctions)
    BY <1>10, <1>11
  <1>13. \A k \in 1..n : c[k] \in ToSet(functions)
    BY <1>7
  <1>14. QED
    BY <1>1, <1>8, <1>9, <1>10, <1>12, <1>13 DEF functions
-----------------------------------------------------------------------------
(* What is asked about a function.                                          *)

(* What a function may be asked about.                                      *)
Tasks == {"stream_parameter", "function_role", "struct_direction"}

(* The questions there can be.                                              *)
AllQuestions ==
    {Question(f, task, at, variant) :
        f \in AllFunctions, task \in Tasks, at \in Nat, variant \in 0..2}

(* What a build asks about a function.                                      *)
AsksAbout(f) == ToSet(RoleQuestions(f)) \cup ToSet(DirectionQuestions(f))

(* The parameters whose direction the code leaves open.                     *)
DirectedParameters(f) == {i \in DOMAIN f.parameters : NeedsSemanticDirection(f.parameters[i])}

(* The places of a function's parameters a build asks about.                *)
LEMMA PlacesFacts ==
    ASSUME NEW f \in AllFunctions, NEW S \in SUBSET (DOMAIN f.parameters)
    PROVE  /\ S \in SUBSET Int /\ S \in SUBSET Nat /\ IsFiniteSet(S)
           /\ Cardinality(S) \in Nat /\ (S # {} => Cardinality(S) >= 1)
  <1> DEFINE parameters == f.parameters
  <1>1. parameters \in Seq(ToSet(parameters))
    BY FunctionsAssumption DEF AllFunctions
  <1> HIDE DEF parameters
  <1>2. DOMAIN parameters = 1..Len(parameters) /\ Len(parameters) \in Nat
    BY <1>1
  <1>3. S \in SUBSET (1..Len(parameters))
    BY <1>2 DEF parameters
  <1>4. IsFiniteSet(1..Len(parameters)) /\ 1..Len(parameters) \in SUBSET Int /\ 1..Len(parameters) \in SUBSET Nat
    BY <1>2, FS_Interval
  <1>5. IsFiniteSet(S) /\ Cardinality(S) \in Nat
    BY <1>3, <1>4, FS_Subset, FS_CardinalityType
  <1>6. S # {} => Cardinality(S) # 0
    BY <1>5, FS_EmptySet
  <1>7. QED
    BY <1>3, <1>4, <1>5, <1>6

(* Three questions of each parameter: their places tell them apart.         *)
LEMMA ThirdsApart ==
    ASSUME NEW k \in Nat, NEW m \in Nat,
           (k + 2) \div 3 = (m + 2) \div 3, (k + 2) % 3 = (m + 2) % 3
    PROVE  k = m
  OBVIOUS

(* Every such question is about one of the parameters.                      *)
LEMMA ThirdWithin ==
    ASSUME NEW n \in Nat, NEW k \in 1..(3 * n)
    PROVE  (k + 2) \div 3 \in 1..n /\ (k + 2) % 3 \in 0..2
  OBVIOUS

(* One question for each of three variants of every stream, and the role.   *)
StreamAsks(f) ==
    [k \in 1..(3 * Len(InOrder(StreamParameters(f)))) |->
        Question(f, "stream_parameter", InOrder(StreamParameters(f))[(k + 2) \div 3], (k + 2) % 3)]

(* Each possible stream is asked about three times, in as many variants.    *)
LEMMA StreamAsksFacts ==
    ASSUME NEW f \in AllFunctions
    PROVE  /\ StreamAsks(f) \in Seq(AllQuestions)
           /\ Len(StreamAsks(f)) = 3 * Cardinality(StreamParameters(f))
           /\ \A i \in 1..Len(StreamAsks(f)) :
                 /\ StreamAsks(f)[i].id = f.id /\ StreamAsks(f)[i].text = f.text
                 /\ StreamAsks(f)[i].task = "stream_parameter"
           /\ \A i, j \in 1..Len(StreamAsks(f)) : StreamAsks(f)[i] = StreamAsks(f)[j] => i = j
  <1> DEFINE S == StreamParameters(f)
             n == Cardinality(S)
             at == InOrder(S)
  <1>1. S \in SUBSET Int /\ S \in SUBSET Nat /\ IsFiniteSet(S) /\ n \in Nat
    <2>1. S \in SUBSET (DOMAIN f.parameters)
      BY DEF StreamParameters
    <2> HIDE DEF S
    <2>2. QED
      BY <2>1, PlacesFacts
  <1>2. /\ at \in [1..n -> S] /\ Len(at) = n
        /\ \A i, j \in 1..n : at[i] = at[j] => i = j
    <2> HIDE DEF S
    <2>1. QED
      BY <1>1, InOrderFacts
  <1> DEFINE s == StreamAsks(f)
  <1>3. s = [k \in 1..(3 * n) |-> Question(f, "stream_parameter", at[(k + 2) \div 3], (k + 2) % 3)]
    BY <1>2 DEF StreamAsks
  <1> HIDE DEF S, n, at, s
  <1>4. \A k \in 1..(3 * n) : (k + 2) \div 3 \in 1..n /\ (k + 2) % 3 \in 0..2
    BY <1>1, ThirdWithin
  <1>5. \A k \in 1..(3 * n) : at[(k + 2) \div 3] \in Nat
    BY <1>1, <1>2, <1>4
  <1>6. \A k \in 1..(3 * n) : s[k] \in AllQuestions
    BY <1>3, <1>4, <1>5 DEF AllQuestions, Tasks
  <1>7. s \in [1..(3 * n) -> AllQuestions]
    BY <1>3, <1>6
  <1>8. 3 * n \in Nat
    BY <1>1
  <1>9. s \in Seq(AllQuestions) /\ Len(s) = 3 * n
    BY <1>7, <1>8
  <1>10. \A k \in 1..(3 * n) : s[k].id = f.id /\ s[k].text = f.text /\ s[k].task = "stream_parameter"
    BY <1>3 DEF Question
  <1>11. ASSUME NEW i \in 1..(3 * n), NEW j \in 1..(3 * n), s[i] = s[j]
         PROVE  i = j
    <2>1. s[i].at = at[(i + 2) \div 3] /\ s[j].at = at[(j + 2) \div 3]
      BY <1>3 DEF Question
    <2>2. s[i].variant = (i + 2) % 3 /\ s[j].variant = (j + 2) % 3
      BY <1>3 DEF Question
    <2>3. at[(i + 2) \div 3] = at[(j + 2) \div 3] /\ (i + 2) % 3 = (j + 2) % 3
      BY <2>1, <2>2, <1>11
    <2>4. (i + 2) \div 3 = (j + 2) \div 3
      BY <2>3, <1>2, <1>4
    <2>5. i \in Nat /\ j \in Nat
      BY <1>1
    <2>6. QED
      BY <2>3, <2>4, <2>5, ThirdsApart
  <1>12. QED
    BY <1>9, <1>10, <1>11 DEF s, n, S

(* The questions of a function's roles, and then of its directions: as many *)
(* as the preflight counts, each different, all about the function.         *)
Distinct(s) == \A i, j \in 1..Len(s) : s[i] = s[j] => i = j

(* All of them are about one function.                                      *)
About(s, f) == \A i \in 1..Len(s) : s[i].id = f.id /\ s[i].text = f.text

(* Where two joined sequences have their elements, place by place.          *)
LEMMA ConcatFacts2 ==
    ASSUME NEW X, NEW s \in Seq(X), NEW t \in Seq(X)
    PROVE  /\ s \o t \in Seq(X) /\ Len(s \o t) = Len(s) + Len(t)
           /\ \A k \in 1..Len(s) : (s \o t)[k] = s[k]
           /\ \A k \in 1..Len(t) : (s \o t)[Len(s) + k] = t[k]
           /\ \A k \in 1..Len(s \o t) : k \notin 1..Len(s) =>
                 k - Len(s) \in 1..Len(t) /\ (s \o t)[k] = t[k - Len(s)]
  OBVIOUS

(* Two sequences without repetitions or a common element join to one.       *)
LEMMA DistinctConcat ==
    ASSUME NEW X, NEW s \in Seq(X), NEW t \in Seq(X), Distinct(s), Distinct(t),
           \A i \in 1..Len(s), j \in 1..Len(t) : s[i] # t[j]
    PROVE  Distinct(s \o t)
  <1> DEFINE st == s \o t
  <1>1. /\ Len(st) = Len(s) + Len(t)
        /\ \A k \in 1..Len(s) : st[k] = s[k]
        /\ \A k \in 1..Len(st) : k \notin 1..Len(s) =>
              k - Len(s) \in 1..Len(t) /\ st[k] = t[k - Len(s)]
    BY ConcatFacts2
  <1> HIDE DEF st
  <1>2. ASSUME NEW i \in 1..Len(st), NEW j \in 1..Len(st), st[i] = st[j]
        PROVE  i = j
    <2>1. CASE i \in 1..Len(s) /\ j \in 1..Len(s)
      BY <1>1, <1>2, <2>1 DEF Distinct
    <2>2. CASE i \notin 1..Len(s) /\ j \notin 1..Len(s)
      <3>1. /\ i - Len(s) \in 1..Len(t) /\ j - Len(s) \in 1..Len(t)
            /\ t[i - Len(s)] = t[j - Len(s)]
        BY <1>1, <1>2, <2>2
      <3>2. i - Len(s) = j - Len(s)
        BY <3>1 DEF Distinct
      <3>3. QED
        BY <3>2
    <2>3. CASE i \in 1..Len(s) /\ j \notin 1..Len(s)
      BY <1>1, <1>2, <2>3
    <2>4. CASE i \notin 1..Len(s) /\ j \in 1..Len(s)
      BY <1>1, <1>2, <2>4
    <2>5. QED
      BY <2>1, <2>2, <2>3, <2>4
  <1>3. QED
    BY <1>2 DEF Distinct, st

(* The first round asks nothing twice, and as often as is counted.          *)
LEMMA RoleQuestionsFacts ==
    ASSUME NEW f \in AllFunctions
    PROVE  /\ RoleQuestions(f) \in Seq(AllQuestions)
           /\ Len(RoleQuestions(f)) =
                 3 * Cardinality(StreamParameters(f)) + (IF IsStructRelated(f) THEN 1 ELSE 0)
           /\ Distinct(RoleQuestions(f)) /\ About(RoleQuestions(f), f)
           /\ \A i \in 1..Len(RoleQuestions(f)) : RoleQuestions(f)[i].task # "struct_direction"
  <1> DEFINE s == StreamAsks(f)
             q == Question(f, "function_role", 0, 0)
             t == IF IsStructRelated(f) THEN <<q>> ELSE <<>>
             n == 3 * Cardinality(StreamParameters(f))
  <1>1. RoleQuestions(f) = s \o t
    BY DEF RoleQuestions, StreamAsks
  <1>2. /\ s \in Seq(AllQuestions) /\ Len(s) = n
        /\ Distinct(s) /\ About(s, f) /\ \A i \in 1..Len(s) : s[i].task = "stream_parameter"
    BY StreamAsksFacts DEF Distinct, About
  <1>3. q \in AllQuestions /\ q.id = f.id /\ q.text = f.text /\ q.task = "function_role"
    BY DEF Question, AllQuestions, Tasks
  <1> HIDE DEF s, q, n
  <1>4. /\ t \in Seq(AllQuestions) /\ Len(t) = (IF IsStructRelated(f) THEN 1 ELSE 0)
        /\ Distinct(t) /\ About(t, f) /\ \A i \in 1..Len(t) : t[i].task = "function_role"
    BY <1>3 DEF Distinct, About
  <1> HIDE DEF t
  <1>5. \A i \in 1..Len(s), j \in 1..Len(t) : s[i] # t[j]
    BY <1>2, <1>4
  <1>6. Distinct(s \o t)
    BY <1>2, <1>4, <1>5, DistinctConcat
  <1>7. /\ s \o t \in Seq(AllQuestions) /\ Len(s \o t) = Len(s) + Len(t)
        /\ \A k \in 1..Len(s) : (s \o t)[k] = s[k]
        /\ \A k \in 1..Len(s \o t) : k \notin 1..Len(s) =>
              k - Len(s) \in 1..Len(t) /\ (s \o t)[k] = t[k - Len(s)]
    BY <1>2, <1>4, ConcatFacts2
  <1>8. \A k \in 1..Len(s \o t) : /\ (s \o t)[k].id = f.id /\ (s \o t)[k].text = f.text
                                  /\ (s \o t)[k].task # "struct_direction"
    <2> DEFINE st == s \o t
    <2> HIDE DEF st
    <2>1. ASSUME NEW k \in 1..Len(st)
          PROVE  st[k].id = f.id /\ st[k].text = f.text /\ st[k].task # "struct_direction"
      <3>1. CASE k \in 1..Len(s)
        BY <3>1, <1>2, <1>7 DEF About, st
      <3>2. CASE k \notin 1..Len(s)
        BY <3>2, <1>4, <1>7 DEF About, st
      <3>3. QED
        BY <3>1, <3>2
    <2>2. QED
      BY <2>1 DEF st
  <1>9. QED
    BY <1>1, <1>2, <1>4, <1>6, <1>7, <1>8 DEF About, n

(* So does the second.                                                      *)
LEMMA DirectionQuestionsFacts ==
    ASSUME NEW f \in AllFunctions
    PROVE  /\ DirectionQuestions(f) \in Seq(AllQuestions)
           /\ Len(DirectionQuestions(f)) = Cardinality(DirectedParameters(f))
           /\ Distinct(DirectionQuestions(f)) /\ About(DirectionQuestions(f), f)
           /\ \A i \in 1..Len(DirectionQuestions(f)) : DirectionQuestions(f)[i].task = "struct_direction"
  <1> DEFINE S == DirectedParameters(f)
             n == Cardinality(S)
             open == InOrder(S)
             s == DirectionQuestions(f)
  <1>1. S \in SUBSET Int /\ S \in SUBSET Nat /\ IsFiniteSet(S) /\ n \in Nat
    <2>1. S \in SUBSET (DOMAIN f.parameters)
      BY DEF DirectedParameters
    <2> HIDE DEF S
    <2>2. QED
      BY <2>1, PlacesFacts
  <1>2. /\ open \in [1..n -> S] /\ DOMAIN open = 1..n
        /\ \A i, j \in 1..n : open[i] = open[j] => i = j
    <2> HIDE DEF S
    <2>1. QED
      BY <1>1, InOrderFacts
  <1>3. s = [k \in 1..n |-> Question(f, "struct_direction", open[k], 0)]
    BY <1>2 DEF DirectionQuestions, DirectedParameters
  <1> HIDE DEF S, n, open, s
  <1>4. \A k \in 1..n : open[k] \in Nat
    BY <1>1, <1>2
  <1>5. \A k \in 1..n : s[k] \in AllQuestions
    BY <1>3, <1>4 DEF AllQuestions, Tasks
  <1>6. s \in [1..n -> AllQuestions]
    BY <1>3, <1>5
  <1>7. s \in Seq(AllQuestions) /\ Len(s) = n
    BY <1>6, <1>1
  <1>8. \A k \in 1..n : /\ s[k].id = f.id /\ s[k].text = f.text /\ s[k].at = open[k]
                        /\ s[k].task = "struct_direction"
    BY <1>3 DEF Question
  <1>9. \A i, j \in 1..n : s[i] = s[j] => i = j
    BY <1>2, <1>8
  <1>10. QED
    BY <1>7, <1>8, <1>9 DEF Distinct, About, s, n, S

-----------------------------------------------------------------------------
(* The questions of a build.                                                *)

(* The candidates of a build, as far as its questions go.                   *)
Distinguished(c) ==
    c \in Seq(AllFunctions) /\ \A i, j \in 1..Len(c) : c[i].id = c[j].id => i = j

(* The preflight counts what is asked about a function, and a candidate is  *)
(* asked about.                                                             *)
LEMMA RequestsForFacts ==
    ASSUME NEW f \in AllFunctions
    PROVE  /\ RequestsFor(f) \in Nat
           /\ RequestsFor(f) = Len(RoleQuestions(f)) + Len(DirectionQuestions(f))
           /\ Len(RoleQuestions(f)) \in Nat /\ Len(DirectionQuestions(f)) \in Nat
           /\ IsCandidate(f) => Len(RoleQuestions(f)) >= 1
  <1> DEFINE S == StreamParameters(f)
             D == DirectedParameters(f)
             role == IF IsStructRelated(f) THEN 1 ELSE 0
  <1>1. Cardinality(S) \in Nat /\ (S # {} => Cardinality(S) >= 1)
    <2>1. S \in SUBSET (DOMAIN f.parameters)
      BY DEF StreamParameters
    <2> HIDE DEF S
    <2>2. QED
      BY <2>1, PlacesFacts
  <1>2. Cardinality(D) \in Nat
    <2>1. D \in SUBSET (DOMAIN f.parameters)
      BY DEF DirectedParameters
    <2> HIDE DEF D
    <2>2. QED
      BY <2>1, PlacesFacts
  <1>3. RequestsFor(f) = 3 * Cardinality(S) + role + Cardinality(D)
    BY DEF RequestsFor, DirectedParameters
  <1>4. Len(RoleQuestions(f)) = 3 * Cardinality(S) + role /\ Len(DirectionQuestions(f)) = Cardinality(D)
    BY RoleQuestionsFacts, DirectionQuestionsFacts
  <1>5. role \in Nat /\ (IsCandidate(f) => S # {} \/ role = 1)
    BY DEF IsCandidate
  <1> HIDE DEF S, D, role
  <1>6. QED
    BY <1>1, <1>2, <1>3, <1>4, <1>5

(* The preflight adds up the functions.                                     *)
LEMMA MinimumIsTotal ==
    ASSUME NEW c \in Seq(AllFunctions)
    PROVE  /\ [k \in 1..Len(c) |-> RequestsFor(c[k])] \in [1..Len(c) -> Int]
           /\ MinimumRequests(c) = Total([k \in 1..Len(c) |-> RequestsFor(c[k])])
  <1>1. DOMAIN c = 1..Len(c) /\ \A k \in 1..Len(c) : c[k] \in AllFunctions
    OBVIOUS
  <1>2. \A k \in 1..Len(c) : RequestsFor(c[k]) \in Int
    BY <1>1, RequestsForFacts
  <1>3. QED
    BY <1>1, <1>2 DEF MinimumRequests, Total

(* What one of the two rounds asks: all of every function's, nothing twice. *)
RoundOf(asks, c) ==
    /\ Len(asks) = Len(c)
    /\ \A k \in 1..Len(c) : /\ asks[k] \in Seq(AllQuestions)
                            /\ Distinct(asks[k]) /\ About(asks[k], c[k])

(* A round over all candidates asks all of each, and nothing twice.         *)
LEMMA RoundFacts ==
    ASSUME NEW c, Distinguished(c), NEW asks \in Seq(Seq(AllQuestions)), RoundOf(asks, c)
    PROVE  /\ FlattenSeq(asks) \in Seq(AllQuestions)
           /\ Len(FlattenSeq(asks)) = Total(Lengths(asks))
           /\ Distinct(FlattenSeq(asks))
           /\ \A q : q \in ToSet(FlattenSeq(asks)) <=> \E k \in 1..Len(c) : q \in ToSet(asks[k])
  <1>1. FlattenSeq(asks) \in Seq(AllQuestions) /\ Len(FlattenSeq(asks)) = Total(Lengths(asks))
    BY FlattenSum
  <1>2. \A q : q \in ToSet(FlattenSeq(asks)) <=> \E k \in 1..Len(c) : q \in ToSet(asks[k])
    BY FlattenMembers DEF RoundOf
  <1>3. ASSUME NEW k \in 1..Len(asks), NEW m \in 1..Len(asks),
               NEW i \in 1..Len(asks[k]), NEW j \in 1..Len(asks[m]), asks[k][i] = asks[m][j]
        PROVE  k = m /\ i = j
    <2>1. k \in 1..Len(c) /\ m \in 1..Len(c)
      BY DEF RoundOf
    <2>2. asks[k][i].id = c[k].id /\ asks[m][j].id = c[m].id
      BY <2>1 DEF RoundOf, About
    <2>3. k = m
      BY <2>1, <2>2, <1>3 DEF Distinguished
    <2>4. i = j
      BY <2>1, <2>3, <1>3 DEF RoundOf, Distinct
    <2>5. QED
      BY <2>3, <2>4
  <1>4. Distinct(FlattenSeq(asks))
    <2> DEFINE flat == FlattenSeq(asks)
    <2>1. ASSUME NEW x \in 1..Len(FlattenSeq(asks)), NEW y \in 1..Len(FlattenSeq(asks)),
                 FlattenSeq(asks)[x] = FlattenSeq(asks)[y]
          PROVE  x = y
      BY <1>3, <2>1, FlattenInjective
    <2>2. QED
      BY <2>1 DEF Distinct
  <1>5. QED
    BY <1>1, <1>2, <1>4

(* The two rounds ask all that is to ask, once, as often as the preflight   *)
(* counts.                                                                  *)
LEMMA QuestionsFacts ==
    ASSUME NEW c, Distinguished(c)
    PROVE  /\ Questions(c) \in Seq(AllQuestions)
           /\ Len(Questions(c)) = MinimumRequests(c)
           /\ Distinct(Questions(c))
           /\ \A q : q \in ToSet(Questions(c)) <=> \E k \in 1..Len(c) : q \in AsksAbout(c[k])
  <1> DEFINE n == Len(c)
             roles == [k \in DOMAIN c |-> RoleQuestions(c[k])]
             directions == [k \in DOMAIN c |-> DirectionQuestions(c[k])]
             total == [k \in 1..n |-> RequestsFor(c[k])]
             first == FlattenSeq(roles)
             second == FlattenSeq(directions)
  <1>1. n \in Nat /\ DOMAIN c = 1..n /\ \A k \in 1..n : c[k] \in AllFunctions
    BY DEF Distinguished
  <1>2. /\ \A k \in 1..n : roles[k] = RoleQuestions(c[k]) /\ roles[k] \in Seq(AllQuestions)
        /\ \A k \in 1..n : directions[k] = DirectionQuestions(c[k]) /\ directions[k] \in Seq(AllQuestions)
        /\ DOMAIN roles = 1..n /\ DOMAIN directions = 1..n
        /\ roles \in [1..n -> Seq(AllQuestions)] /\ directions \in [1..n -> Seq(AllQuestions)]
    BY <1>1, RoleQuestionsFacts, DirectionQuestionsFacts
  <1>3. Questions(c) = first \o second
    BY DEF Questions
  <1> HIDE DEF roles, directions, n, total, first, second
  <1>4. /\ roles \in Seq(Seq(AllQuestions)) /\ Len(roles) = n
        /\ directions \in Seq(Seq(AllQuestions)) /\ Len(directions) = n
    BY <1>1, <1>2
  <1>5. RoundOf(roles, c) /\ RoundOf(directions, c)
    BY <1>1, <1>2, <1>4, RoleQuestionsFacts, DirectionQuestionsFacts DEF RoundOf, n
  <1>6. /\ first \in Seq(AllQuestions) /\ Len(first) = Total(Lengths(roles)) /\ Distinct(first)
        /\ \A q : q \in ToSet(first) <=> \E k \in 1..n : q \in ToSet(roles[k])
    BY <1>4, <1>5, RoundFacts DEF first, n
  <1>7. /\ second \in Seq(AllQuestions) /\ Len(second) = Total(Lengths(directions)) /\ Distinct(second)
        /\ \A q : q \in ToSet(second) <=> \E k \in 1..n : q \in ToSet(directions[k])
    BY <1>4, <1>5, RoundFacts DEF second, n
  <1>8. Len(first) + Len(second) = MinimumRequests(c)
    <2> DEFINE a == Lengths(roles)
               b == Lengths(directions)
    <2>1. a \in [1..n -> Int] /\ b \in [1..n -> Int]
      BY <1>4, LengthsType
    <2>2. total \in [1..n -> Int] /\ MinimumRequests(c) = Total(total)
      BY MinimumIsTotal DEF total, n, Distinguished
    <2>3. ASSUME NEW k \in 1..n
          PROVE  total[k] = a[k] + b[k]
      <3>1. a[k] = Len(RoleQuestions(c[k])) /\ b[k] = Len(DirectionQuestions(c[k]))
        BY <1>2 DEF Lengths
      <3>2. total[k] = RequestsFor(c[k])
        BY DEF total
      <3>3. QED
        BY <1>1, <3>1, <3>2, RequestsForFacts
    <2> HIDE DEF a, b
    <2>4. Total(total) = Total(a) + Total(b)
      BY <1>1, <2>1, <2>2, <2>3, TotalOfSums
    <2>5. QED
      BY <2>2, <2>4, <1>6, <1>7 DEF a, b
  <1>9. \A i \in 1..Len(first), j \in 1..Len(second) : first[i] # second[j]
    <2>1. ASSUME NEW i \in 1..Len(first)
          PROVE  first[i].task # "struct_direction"
      <3>1. first[i] \in ToSet(first)
        BY <1>6 DEF ToSet
      <3>2. PICK k \in 1..n : first[i] \in ToSet(RoleQuestions(c[k]))
        BY <3>1, <1>2, <1>6
      <3>3. RoleQuestions(c[k]) \in Seq(AllQuestions)
        BY <1>1, RoleQuestionsFacts
      <3>4. PICK m \in 1..Len(RoleQuestions(c[k])) : first[i] = RoleQuestions(c[k])[m]
        BY <3>2, <3>3 DEF ToSet
      <3>5. QED
        BY <3>4, <1>1, RoleQuestionsFacts
    <2>2. ASSUME NEW j \in 1..Len(second)
          PROVE  second[j].task = "struct_direction"
      <3>1. second[j] \in ToSet(second)
        BY <1>7 DEF ToSet
      <3>2. PICK k \in 1..n : second[j] \in ToSet(DirectionQuestions(c[k]))
        BY <3>1, <1>2, <1>7
      <3>3. DirectionQuestions(c[k]) \in Seq(AllQuestions)
        BY <1>1, DirectionQuestionsFacts
      <3>4. PICK m \in 1..Len(DirectionQuestions(c[k])) : second[j] = DirectionQuestions(c[k])[m]
        BY <3>2, <3>3 DEF ToSet
      <3>5. QED
        BY <3>4, <1>1, DirectionQuestionsFacts
    <2>3. QED
      BY <2>1, <2>2
  <1>10. Distinct(first \o second)
    BY <1>6, <1>7, <1>9, DistinctConcat
  <1>11. /\ first \o second \in Seq(AllQuestions)
         /\ Len(first \o second) = Len(first) + Len(second)
         /\ \A q : q \in ToSet(first \o second) <=> q \in ToSet(first) \/ q \in ToSet(second)
    <2>1. /\ first \o second \in Seq(AllQuestions)
          /\ Len(first \o second) = Len(first) + Len(second)
      BY <1>6, <1>7, ConcatFacts2
    <2>2. /\ DOMAIN (first \o second) = 1..Len(first \o second)
          /\ DOMAIN first = 1..Len(first) /\ DOMAIN second = 1..Len(second)
      BY <2>1, <1>6, <1>7
    <2>3. ASSUME NEW q, q \in ToSet(first \o second)
          PROVE  q \in ToSet(first) \/ q \in ToSet(second)
      <3>1. PICK i \in 1..Len(first \o second) : q = (first \o second)[i]
        BY <2>2, <2>3 DEF ToSet
      <3>2. CASE i \in 1..Len(first)
        <4>1. (first \o second)[i] = first[i]
          BY <3>2, <1>6, <1>7, ConcatFacts2
        <4>2. QED
          BY <4>1, <3>1, <3>2, <2>2 DEF ToSet
      <3>3. CASE i \notin 1..Len(first)
        <4>1. i - Len(first) \in 1..Len(second) /\ (first \o second)[i] = second[i - Len(first)]
          BY SMTT(30), <3>3, <1>6, <1>7, ConcatFacts2
        <4>2. QED
          BY <4>1, <3>1, <2>2 DEF ToSet
      <3>4. QED
        BY <3>2, <3>3
    <2>4. ASSUME NEW q, q \in ToSet(first)
          PROVE  q \in ToSet(first \o second)
      <3>1. PICK i \in 1..Len(first) : q = first[i]
        BY <2>2, <2>4 DEF ToSet
      <3>2. i \in 1..Len(first \o second) /\ (first \o second)[i] = q
        BY <3>1, <2>1, <1>6, <1>7, ConcatFacts2
      <3>3. QED
        BY <3>2, <2>2 DEF ToSet
    <2>5. ASSUME NEW q, q \in ToSet(second)
          PROVE  q \in ToSet(first \o second)
      <3>1. PICK i \in 1..Len(second) : q = second[i]
        BY <2>2, <2>5 DEF ToSet
      <3>2. Len(first) + i \in 1..Len(first \o second) /\ (first \o second)[Len(first) + i] = q
        BY <3>1, <2>1, <1>6, <1>7, ConcatFacts2
      <3>3. QED
        BY <3>2, <2>2 DEF ToSet
    <2>6. QED
      BY <2>1, <2>3, <2>4, <2>5
  <1>12. \A q : q \in ToSet(first \o second) <=> \E k \in 1..n : q \in AsksAbout(c[k])
    BY <1>2, <1>6, <1>7, <1>11 DEF AsksAbout
  <1>13. QED
    BY <1>3, <1>8, <1>10, <1>11, <1>12 DEF n

-----------------------------------------------------------------------------
(* The inductive invariant.                                                 *)

(* The replies there can be.                                                *)
Replies == UNION {Answers[x] : x \in DOMAIN Answers}

(* A build of a version in a mode.                                          *)
BuildOK(b) == b.version \in Versions /\ b.minimal \in BOOLEAN

(* A build that got as far as its first file has all its answers.           *)
Complete(b) ==
    /\ BuildOK(b)
    /\ b.answers \in Seq(Replies) /\ Len(b.answers) = Len(QuestionsOf(b))

(* The command line is one; a replay is of a minimal build.                 *)
JobInv ==
    /\ BuildOK(job)
    /\ job.backend \in {"llm", "replay"} /\ job.limit \in Nat \ {0}
    /\ job.backend = "replay" => job.minimal

(* The answers are to questions of the build.                               *)
AnswersInv ==
    answers \in Seq(Replies) /\ Len(answers) <= Len(QuestionsOf(job))

(* Before it writes a build has done what its phase says, and counted it.   *)
PhaseInv ==
    /\ phase \in {"idle", "ask", "review", "write"}
    /\ phase # "idle" => outcome = "none" /\ Affords(job)
    /\ phase \in {"review", "write"} => ~Open
    /\ phase = "review" => ~job.minimal
    /\ phase = "ask" \/ (phase = "write" /\ job.minimal) =>
          (job.backend = "llm" => calls = Len(answers))
    /\ phase \in {"ask", "review"} => written = 0
    /\ outcome = "budget" => ~Open /\ ~job.minimal
    /\ outcome \in {"none", "unusable", "refused", "mismatch", "budget", "done", "interrupted"}
    /\ calls \in 0..job.limit
    /\ written \in 0..8 /\ (written > 0 => phase \in {"write", "idle"})

(* The identities of the patterns mined.                                    *)
MinedIds == {p.id : p \in Mined[job.version]}

(* Requests of the review are about mined patterns.                         *)
Requests == [batch : Seq(MinedIds) \ {<<>>}, retries : Nat]

(* The review stays within the patterns mined.                              *)
RequestsInv == pending \in Seq(Requests) /\ DOMAIN reviews \subseteq MinedIds

(* Each file is of a build that had all its answers, and the first ones are *)
(* this build's once it writes.                                             *)
DiskInv ==
    /\ DOMAIN disk = 1..8
    /\ \A i \in 1..8 : disk[i] = Absent \/ Complete(disk[i])
    /\ phase = "write" \/ outcome = "done" => \A i \in 1..written : disk[i] = Build
    /\ outcome = "done" => written = 8

(* What is replayed is all the answers of one build, none of them a failure.*)
RecordingOf(r, v, minimal) ==
    /\ r \subseteq ToSet(QuestionsBy[v][minimal]) \X (Replies \ {Error})
    /\ \A q \in ToSet(QuestionsBy[v][minimal]) : \E d \in r : d[1] = q
    /\ \A d, e \in r : d[1] = e[1] => d = e

(* A replay takes its answers from the recording of one build, and stops    *)
(* only for a function with another text.                                   *)
ReplayInv ==
    /\ phase # "idle" /\ job.backend = "replay" =>
          /\ \E v \in Versions, minimal \in BOOLEAN : RecordingOf(recording, v, minimal)
          /\ \A k \in 1..Len(answers) : <<QuestionsOf(job)[k], answers[k]>> \in recording
    /\ outcome = "mismatch" =>
          \E f \in ToSet(CandidatesOf(job)) : RequestsFor(f) > 0 /\ ~AsRecorded(f)

(* The inductive invariant.                                                 *)
IInv == JobInv /\ AnswersInv /\ PhaseInv /\ RequestsInv /\ DiskInv /\ ReplayInv


-----------------------------------------------------------------------------
(* A build's questions are those of its candidates, each once.              *)
LEMMA BuildFacts ==
    ASSUME NEW b, BuildOK(b)
    PROVE  /\ QuestionsOf(b) \in Seq(AllQuestions) /\ Len(QuestionsOf(b)) \in Nat
           /\ Len(QuestionsOf(b)) = MinimumRequests(CandidatesOf(b))
           /\ Distinct(QuestionsOf(b))
           /\ QuestionsOf(b) = QuestionsBy[b.version][b.minimal]
           /\ ToSet(CandidatesOf(b)) \subseteq ToSet(Functions[b.version])
           /\ \A f \in ToSet(CandidatesOf(b)) : AsksAbout(f) \subseteq ToSet(QuestionsOf(b))
           /\ \A q \in ToSet(QuestionsOf(b)) : \E f \in ToSet(CandidatesOf(b)) : q \in AsksAbout(f)
           /\ \A f \in ToSet(CandidatesOf(b)) : IsCandidate(f) /\ f \in AllFunctions
  <1> DEFINE v == b.version
             m == b.minimal
             c == CandidatesOf(b)
  <1>1. v \in Versions /\ m \in BOOLEAN
    BY DEF BuildOK
  <1>2. c = CandidatesBy[v][m]
    BY DEF CandidatesOf
  <1>3. QuestionsOf(b) = QuestionsBy[v][m]
    BY DEF QuestionsOf
  <1>4. QuestionsBy[v][m] = Questions(CandidatesBy[v][m])
    BY <1>1 DEF QuestionsBy
  <1>5. /\ c \in Seq(AllFunctions)
        /\ \A k \in 1..Len(c) : c[k] \in ToSet(Functions[v]) /\ IsCandidate(c[k])
        /\ \A i, j \in 1..Len(c) : c[i].id = c[j].id => i = j
    <2> HIDE DEF v, m, c
    <2>1. QED
      BY <1>1, <1>2, CandidatesFacts
  <1> HIDE DEF v, m, c
  <1>6. Distinguished(c)
    BY <1>5 DEF Distinguished
  <1>7. /\ Questions(c) \in Seq(AllQuestions)
        /\ Len(Questions(c)) = MinimumRequests(c)
        /\ Distinct(Questions(c))
        /\ \A q : q \in ToSet(Questions(c)) <=> \E k \in 1..Len(c) : q \in AsksAbout(c[k])
    BY <1>6, QuestionsFacts
  <1>8. ToSet(c) = {c[k] : k \in 1..Len(c)}
    BY <1>5 DEF ToSet
  <1>9. QuestionsOf(b) = Questions(c)
    BY <1>2, <1>3, <1>4
  <1>10. Len(Questions(c)) \in Nat
    BY <1>7
  <1>11. \A k \in 1..Len(c) : c[k] \in AllFunctions
    BY <1>5
  <1>12. ToSet(c) \subseteq ToSet(Functions[v])
    BY <1>5, <1>8
  <1>13. \A f \in ToSet(c) : IsCandidate(f) /\ f \in AllFunctions
    BY <1>5, <1>8, <1>11
  <1>14. \A f \in ToSet(c) : AsksAbout(f) \subseteq ToSet(Questions(c))
    BY <1>7, <1>8
  <1>15. \A q \in ToSet(Questions(c)) : \E f \in ToSet(c) : q \in AsksAbout(f)
    BY <1>7, <1>8
  <1>16. QED
    BY <1>3, <1>7, <1>9, <1>10, <1>12, <1>13, <1>14, <1>15 DEF c, v, m

(* A candidate is asked about, and by its name and text.                    *)
LEMMA AskedFacts ==
    ASSUME NEW f \in AllFunctions, IsCandidate(f)
    PROVE  /\ RequestsFor(f) \in Nat /\ RequestsFor(f) > 0
           /\ \E q : q \in AsksAbout(f)
           /\ \A q \in AsksAbout(f) : q.id = f.id /\ q.text = f.text
  <1> DEFINE r == RoleQuestions(f)
             d == DirectionQuestions(f)
  <1>1. r \in Seq(AllQuestions) /\ About(r, f) /\ d \in Seq(AllQuestions) /\ About(d, f)
    BY RoleQuestionsFacts, DirectionQuestionsFacts
  <1>2. /\ RequestsFor(f) \in Nat /\ RequestsFor(f) = Len(r) + Len(d)
        /\ Len(r) \in Nat /\ Len(d) \in Nat /\ Len(r) >= 1
    BY RequestsForFacts
  <1> HIDE DEF r, d
  <1>3. DOMAIN r = 1..Len(r) /\ DOMAIN d = 1..Len(d)
    BY <1>1
  <1>4. 1 \in DOMAIN r
    BY <1>2, <1>3
  <1>5. r[1] \in ToSet(r)
    BY <1>4 DEF ToSet
  <1>6. \A q \in ToSet(r) \cup ToSet(d) : q.id = f.id /\ q.text = f.text
    BY <1>1, <1>3 DEF About, ToSet
  <1>7. AsksAbout(f) = ToSet(r) \cup ToSet(d)
    BY DEF AsksAbout, r, d
  <1>8. QED
    BY <1>2, <1>5, <1>6, <1>7

(* One function of a version has an identity, and one text of an identity   *)
(* is that of one function.                                                 *)
LEMMA OneFunction ==
    /\ \A v \in Versions : \A f, g \in ToSet(Functions[v]) : f.id = g.id => f = g
    /\ \A v, w \in Versions : \A f \in ToSet(Functions[v]), g \in ToSet(Functions[w]) :
          f.id = g.id /\ f.text = g.text => f = g
  <1>1. ASSUME NEW v \in Versions, NEW f \in ToSet(Functions[v]), NEW g \in ToSet(Functions[v]), f.id = g.id
        PROVE  f = g
    <2>1. PICK i \in DOMAIN Functions[v] : f = Functions[v][i]
      BY DEF ToSet
    <2>2. PICK j \in DOMAIN Functions[v] : g = Functions[v][j]
      BY DEF ToSet
    <2>3. i = j
      BY <1>1, <2>1, <2>2, FunctionsAssumption
    <2>4. QED
      BY <2>1, <2>2, <2>3
  <1>2. QED
    BY <1>1, FunctionsAssumption

(* The invariant carries the type invariant the run checks.                 *)
LEMMA InvType == IInv => TypeOK
  BY DEF IInv, JobInv, AnswersInv, PhaseInv, RequestsInv, BuildOK, TypeOK, Files, MinedIds

-----------------------------------------------------------------------------
(* The review.                                                              *)

(* Where a batch of at most size patterns begins.                           *)
LEMMA PieceArithmetic ==
    ASSUME NEW n \in Nat, NEW size \in Nat \ {0}, NEW k \in 1..((n + size - 1) \div size)
    PROVE  (k - 1) * size + 1 <= n /\ (k - 1) * size \in Nat /\ k * size = (k - 1) * size + size
  <1> DEFINE q == (n + size - 1) \div size
  <1>1. q * size <= n + size - 1 /\ q \in Nat
    OBVIOUS
  <1> HIDE DEF q
  <1>2. k \in Nat /\ k >= 1 /\ k <= q
    BY <1>1 DEF q
  <1>3. k * size <= q * size
    BY <1>1, <1>2
  <1>4. k * size = (k - 1) * size + size /\ (k - 1) * size \in Nat
    BY <1>2
  <1>5. QED
    BY <1>1, <1>3, <1>4

(* Requests about patterns of a set.                                        *)
RequestsOver(ids) == [batch : Seq(ids) \ {<<>>}, retries : Nat]

(* A review begins with requests about one or more mined patterns each.     *)
LEMMA BatchesType ==
    ASSUME NEW patterns, IsFiniteSet(patterns), \A p \in patterns : p.id \in Int
    PROVE  Batches(patterns) \in Seq(RequestsOver({p.id : p \in patterns}))
  <1> DEFINE ids == {p.id : p \in patterns}
             R == RequestsOver(ids)
             some(t) == {p.id : p \in {q \in patterns : q.type = t}}
             cut(s) == [k \in 1..((Len(s) + BatchSize - 1) \div BatchSize) |->
                      [batch |-> SubSeq(s, (k - 1) * BatchSize + 1,
                                        IF k * BatchSize < Len(s) THEN k * BatchSize ELSE Len(s)),
                       retries |-> Retries]]
             parts == [i \in DOMAIN Types |-> cut(InOrder(some(Types[i])))]
  <1>1. Batches(patterns) = FlattenSeq(parts)
    BY DEF Batches
  <1>2. ASSUME NEW t
        PROVE  some(t) \in SUBSET Int /\ IsFiniteSet(some(t)) /\ some(t) \subseteq ids
    <2> DEFINE those == {q \in patterns : q.type = t}
    <2>1. IsFiniteSet(those)
      BY FS_Subset
    <2>2. IsFiniteSet({p.id : p \in those})
      <3> DEFINE T == {p.id : p \in those}
                 f == [p \in those |-> p.id]
      <3>1. f \in Surjection(those, T)
        BY DEF Surjection
      <3> HIDE DEF those, f, T
      <3>2. IsFiniteSet(T)
        BY <2>1, <3>1, FS_Surjection
      <3>3. QED
        BY <3>2 DEF T
    <2>3. QED
      BY <2>2
  <1>3. ASSUME NEW t
        PROVE  InOrder(some(t)) \in Seq(ids)
    <2> HIDE DEF some
    <2>1. InOrder(some(t)) \in Seq(some(t))
      BY <1>2, InOrderFacts
    <2> HIDE DEF ids
    <2>2. QED
      BY <2>1, <1>2
  <1>4. ASSUME NEW s \in Seq(ids)
        PROVE  cut(s) \in Seq(R)
    <2> DEFINE n == Len(s)
               pieces == (n + BatchSize - 1) \div BatchSize
               from(k) == (k - 1) * BatchSize + 1
               upto(k) == IF k * BatchSize < n THEN k * BatchSize ELSE n
    <2>1. n \in Nat /\ pieces \in Nat /\ BatchSize \in Nat \ {0} /\ Retries \in Nat
      BY UsageReviewAssumption
    <2>2. ASSUME NEW k \in 1..pieces
          PROVE  from(k) \in Nat /\ upto(k) \in Nat /\ 1 <= from(k) /\ from(k) <= upto(k) /\ upto(k) <= n
      <3>1. /\ (k - 1) * BatchSize + 1 <= n /\ (k - 1) * BatchSize \in Nat
            /\ k * BatchSize = (k - 1) * BatchSize + BatchSize
        <4> HIDE DEF n
        <4>1. QED
          BY <2>1, PieceArithmetic
      <3>2. QED
        BY <3>1, <2>1
    <2>3. ASSUME NEW k \in 1..pieces
          PROVE  SubSeq(s, from(k), upto(k)) \in Seq(ids) \ {<<>>}
      <3>1. \A i \in from(k)..upto(k) : s[i] \in ids
        BY <2>2
      <3> HIDE DEF from, upto, pieces, n, ids
      <3>2. /\ SubSeq(s, from(k), upto(k)) \in Seq(ids)
            /\ Len(SubSeq(s, from(k), upto(k))) = upto(k) - from(k) + 1
        BY <2>2, <3>1, SubSeqProperties
      <3> DEFINE piece == SubSeq(s, from(k), upto(k))
      <3>3. Len(piece) >= 1
        BY <2>2, <3>2
      <3> HIDE DEF piece
      <3>4. piece # <<>>
        BY <3>3
      <3>5. QED
        BY <3>2, <3>4 DEF piece
    <2>4. \A k \in 1..pieces : cut(s)[k] \in R
      <3> HIDE DEF ids
      <3>1. \A k \in 1..pieces :
                cut(s)[k] = [batch |-> SubSeq(s, from(k), upto(k)), retries |-> Retries]
        OBVIOUS
      <3> DEFINE piece(k) == SubSeq(s, from(k), upto(k))
      <3>2. \A k \in 1..pieces : piece(k) \in Seq(ids) \ {<<>>}
        BY <2>3
      <3>3. \A k \in 1..pieces : cut(s)[k] = [batch |-> piece(k), retries |-> Retries]
        BY <3>1
      <3> HIDE DEF cut, pieces, piece
      <3>4. \A k \in 1..pieces : [batch |-> piece(k), retries |-> Retries] \in RequestsOver(ids)
        BY <2>1, <3>2 DEF RequestsOver
      <3>5. QED
        BY <3>3, <3>4
    <2>5. cut(s) \in [1..pieces -> R]
      <3> HIDE DEF R
      <3>1. QED
        BY <2>4
    <2> HIDE DEF cut, pieces, R
    <2>6. QED
      BY <2>1, <2>5
  <1>5. Types \in Seq(ToSet(Types)) /\ DOMAIN Types = 1..Len(Types) /\ Len(Types) \in Nat
    BY UsageReviewAssumption
  <1>6. \A i \in 1..Len(Types) : parts[i] \in Seq(R)
    <2> HIDE DEF cut, R, some, ids
    <2>1. QED
      BY <1>3, <1>4, <1>5
  <1>7. parts \in Seq(Seq(R))
    <2>1. parts \in [1..Len(Types) -> Seq(R)]
      <3> HIDE DEF cut, R, some, ids
      <3>1. QED
        BY <1>5, <1>6
    <2> HIDE DEF parts, R
    <2>2. QED
      BY <1>5, <2>1
  <1> HIDE DEF parts, R
  <1>8. QED
    BY <1>1, <1>7, FlattenSum DEF R

-----------------------------------------------------------------------------
(* The decisions of a build are one answer for each of its questions.       *)
LEMMA DecisionsFacts ==
    ASSUME NEW b, Complete(b)
    PROVE  /\ Decisions(b) \subseteq ToSet(QuestionsOf(b)) \X Replies
           /\ \A q \in ToSet(QuestionsOf(b)) : \E d \in Decisions(b) : d[1] = q
           /\ \A d, e \in Decisions(b) : d[1] = e[1] => d = e
           /\ \A k \in 1..Len(b.answers) : <<QuestionsOf(b)[k], b.answers[k]>> \in Decisions(b)
           /\ \A d \in Decisions(b) : \E k \in 1..Len(b.answers) : d = <<QuestionsOf(b)[k], b.answers[k]>>
  <1> DEFINE Q == QuestionsOf(b)
             a == b.answers
  <1>1. /\ Q \in Seq(AllQuestions) /\ Distinct(Q) /\ a \in Seq(Replies) /\ Len(a) = Len(Q)
    BY BuildFacts DEF Complete
  <1>2. Decisions(b) = {<<Q[k], a[k]>> : k \in DOMAIN a}
    BY DEF Decisions
  <1> HIDE DEF Q, a
  <1>3. DOMAIN a = 1..Len(a) /\ DOMAIN Q = 1..Len(a)
    BY <1>1
  <1>4. ToSet(Q) = {Q[k] : k \in 1..Len(a)}
    BY <1>3 DEF ToSet
  <1>5. \A k \in 1..Len(a) : a[k] \in Replies
    BY <1>1
  <1>6. \A k, m \in 1..Len(a) : Q[k] = Q[m] => k = m
    BY <1>1 DEF Distinct
  <1>7. /\ \A d \in Decisions(b) : \E k \in 1..Len(a) : d = <<Q[k], a[k]>>
        /\ \A k \in 1..Len(a) : <<Q[k], a[k]>> \in Decisions(b)
    BY <1>2, <1>3
  <1>8. Decisions(b) \subseteq ToSet(Q) \X Replies
    BY <1>4, <1>5, <1>7
  <1>9. \A q \in ToSet(Q) : \E d \in Decisions(b) : d[1] = q
    BY <1>4, <1>7
  <1>10. ASSUME NEW d \in Decisions(b), NEW e \in Decisions(b), d[1] = e[1]
         PROVE  d = e
    <2>1. PICK k \in 1..Len(a) : d = <<Q[k], a[k]>>
      BY <1>7
    <2>2. PICK m \in 1..Len(a) : e = <<Q[m], a[m]>>
      BY <1>7
    <2>3. k = m
      BY <2>1, <2>2, <1>6, <1>10
    <2>4. QED
      BY <2>1, <2>2, <2>3
  <1>11. QED
    BY <1>7, <1>8, <1>9, <1>10 DEF Q, a

(* A build starts with nothing, and a replay with a recording it can use.   *)
LEMMA BeginStep ==
    ASSUME IInv, Begin
    PROVE  IInv'
  <1> USE DEF IInv
  <1>1. PICK j \in Jobs, v \in Versions :
          /\ job' = [backend |-> j.backend, minimal |-> j.minimal, limit |-> j.limit, version |-> v]
          /\ recording' = IF j.backend = "replay" THEN Recorded ELSE {}
          /\ outcome' = IF j.backend = "replay" /\ ~Replayable THEN "unusable"
                        ELSE IF ~Affords(job') THEN "refused" ELSE "none"
          /\ phase' = IF outcome' = "none" THEN "ask" ELSE "idle"
    BY DEF Begin
  <1>2. /\ answers' = <<>> /\ pending' = <<>> /\ reviews' = <<>> /\ calls' = 0 /\ written' = 0
        /\ disk' = disk
    BY DEF Begin, NoReviews
  <1>3. JobInv'
    BY <1>1, SemanticBuildAssumption DEF JobInv, BuildOK
  <1>4. Len(QuestionsOf(job)') \in Nat
    BY <1>3, BuildFacts DEF JobInv
  <1>5. AnswersInv'
    BY <1>2, <1>4 DEF AnswersInv
  <1>6. PhaseInv'
    <2>1. phase' # "idle" => outcome' = "none" /\ Affords(job)'
      BY <1>1
    <2>2. /\ phase' \in {"idle", "ask"} /\ outcome' \in {"unusable", "refused", "none"}
      BY <1>1
    <2>3. calls' = Len(answers') /\ calls' \in 0..job'.limit
      BY <1>2, <1>3 DEF JobInv
    <2>4. QED
      BY <2>1, <2>2, <2>3, <1>2 DEF PhaseInv
  <1>7. RequestsInv'
    BY <1>2 DEF RequestsInv
  <1>8. DiskInv'
    <2>1. phase' # "write" /\ outcome' # "done"
      BY <1>1
    <2>2. QED
      BY <1>2, <2>1 DEF DiskInv
  <1>9. ReplayInv'
    <2>1. outcome' # "mismatch" /\ \A k \in 1..Len(answers') : FALSE
      BY <1>1, <1>2
    <2>2. ASSUME phase' # "idle", job'.backend = "replay"
          PROVE  \E w \in Versions, minimal \in BOOLEAN : RecordingOf(recording', w, minimal)
      <3>1. Replayable /\ recording' = Recorded
        BY <1>1, <2>2
      <3> DEFINE b == disk[5]
      <3>2. Complete(b) /\ recording' = Decisions(b) /\ \A d \in Decisions(b) : d[2] # Error
        BY <3>1 DEF Replayable, Recorded, DiskInv
      <3>3. b.version \in Versions /\ b.minimal \in BOOLEAN /\ BuildOK(b)
        BY <3>2 DEF Complete, BuildOK
      <3> HIDE DEF b
      <3>4. QuestionsOf(b) = QuestionsBy[b.version][b.minimal]
        BY DEF QuestionsOf
      <3>5. /\ Decisions(b) \subseteq ToSet(QuestionsOf(b)) \X Replies
            /\ \A q \in ToSet(QuestionsOf(b)) : \E d \in Decisions(b) : d[1] = q
            /\ \A d, e \in Decisions(b) : d[1] = e[1] => d = e
        BY <3>2, DecisionsFacts
      <3>6. Decisions(b) \subseteq ToSet(QuestionsOf(b)) \X (Replies \ {Error})
        <4>1. ASSUME NEW d \in Decisions(b)
              PROVE  d \in ToSet(QuestionsOf(b)) \X (Replies \ {Error})
          BY <3>2, <3>5
        <4>2. QED
          BY <4>1
      <3>7. RecordingOf(recording', b.version, b.minimal)
        BY <3>2, <3>4, <3>5, <3>6 DEF RecordingOf
      <3>8. QED
        BY <3>3, <3>7
    <2>3. QED
      BY <2>1, <2>2 DEF ReplayInv
  <1>10. QED
    BY <1>3, <1>5, <1>6, <1>7, <1>8, <1>9

(* The question a build has come to.                                        *)
LEMMA AskedNow ==
    ASSUME IInv, Open
    PROVE  /\ Len(answers) + 1 \in 1..Len(QuestionsOf(job))
           /\ Asked \in AllQuestions /\ Asked \in ToSet(QuestionsOf(job))
  <1> DEFINE Q == QuestionsOf(job)
  <1>1. Q \in Seq(AllQuestions) /\ Len(Q) \in Nat
    BY BuildFacts DEF IInv, JobInv
  <1>2. Len(answers) \in Nat /\ Len(answers) < Len(Q)
    BY DEF IInv, AnswersInv, Open
  <1>3. Asked = Q[Len(answers) + 1]
    BY DEF Asked
  <1> HIDE DEF Q
  <1>4. Len(answers) + 1 \in 1..Len(Q) /\ DOMAIN Q = 1..Len(Q)
    BY <1>1, <1>2
  <1>5. QED
    BY <1>1, <1>3, <1>4 DEF ToSet, Q

(* Another answer leaves the invariant, whoever gives it.                   *)
LEMMA AnswerStep ==
    ASSUME IInv, Open, phase = "ask", NEW reply \in Replies, answers' = Append(answers, reply),
           UNCHANGED <<job, recording, builds, phase, written, disk, outcome, pending, reviews>>,
           calls' \in 0..job.limit, job.backend = "llm" => calls' = calls + 1,
           job.backend = "replay" => <<Asked, reply>> \in recording
    PROVE  IInv'
  <1> USE DEF IInv
  <1>1. JobInv' /\ RequestsInv'
    BY DEF JobInv, RequestsInv, Requests, MinedIds
  <1>2. /\ answers' \in Seq(Replies) /\ Len(answers') = Len(answers) + 1
        /\ \A k \in 1..Len(answers) : answers'[k] = answers[k]
        /\ answers'[Len(answers) + 1] = reply
    <2>1. answers \in Seq(Replies)
      BY DEF AnswersInv
    <2>2. QED
      BY <2>1, AppendProperties
  <1>3. AnswersInv'
    <2>1. Len(answers) + 1 <= Len(QuestionsOf(job))
      BY AskedNow
    <2>2. QED
      BY <1>2, <2>1 DEF AnswersInv
  <1>4. PhaseInv'
    <2>1. outcome = "none" /\ Affords(job)
      BY DEF PhaseInv
    <2>2. job.backend = "llm" => calls' = Len(answers')
      BY <1>2 DEF PhaseInv
    <2>3. QED
      BY <2>1, <2>2 DEF PhaseInv
  <1>5. DiskInv'
    <2>1. outcome = "none"
      BY DEF PhaseInv
    <2>2. QED
      BY <2>1 DEF DiskInv
  <1>6. ReplayInv'
    <2>1. outcome' # "mismatch"
      BY DEF PhaseInv
    <2>2. ASSUME job.backend = "replay", NEW k \in 1..Len(answers')
          PROVE  <<QuestionsOf(job)[k], answers'[k]>> \in recording
      <3>1. CASE k \in 1..Len(answers)
        BY <3>1, <1>2, <2>2 DEF ReplayInv
      <3>2. CASE k \notin 1..Len(answers)
        <4>1. k = Len(answers) + 1
          BY <3>2, <1>2 DEF AnswersInv
        <4>2. QED
          BY <4>1, <1>2, <2>2 DEF Asked
      <3>3. QED
        BY <3>1, <3>2
    <2>3. QED
      BY <2>1, <2>2 DEF ReplayInv
  <1>7. QED
    BY <1>1, <1>3, <1>4, <1>5, <1>6

(* The model answers the question asked.                                    *)
LEMMA AskStep ==
    ASSUME IInv, Ask
    PROVE  IInv'
  <1>1. Open /\ phase = "ask" /\ job.backend = "llm" /\ calls < job.limit /\ calls' = calls + 1
    BY DEF Ask
  <1>2. PICK reply \in Answers[<<Asked.task, Asked.variant>>] : answers' = Append(answers, reply)
    BY DEF Ask
  <1>3. <<Asked.task, Asked.variant>> \in DOMAIN Answers
    <2>1. Asked \in AllQuestions
      BY <1>1, AskedNow
    <2>2. Asked.task \in Tasks /\ Asked.variant \in 0..2
      BY <2>1 DEF AllQuestions, Question
    <2>3. QED
      BY <2>2, SemanticBuildAssumption DEF Tasks
  <1>4. reply \in Replies
    BY <1>2, <1>3 DEF Replies
  <1>5. calls' \in 0..job.limit
    BY <1>1 DEF IInv, PhaseInv, JobInv
  <1>6. UNCHANGED <<job, recording, builds, phase, written, disk, outcome, pending, reviews>>
    BY DEF Ask, buildVars, reviewVars
  <1>7. QED
    BY <1>1, <1>2, <1>4, <1>5, <1>6, AnswerStep

(* A recording that knows a function under its text has the answers to all  *)
(* that is asked about it, and to nothing else under its name.              *)
LEMMA RecordedWhole ==
    ASSUME NEW r, NEW v \in Versions, NEW minimal \in BOOLEAN, RecordingOf(r, v, minimal),
           NEW w \in Versions, NEW f \in ToSet(Functions[w]),
           NEW d \in r, d[1].id = f.id, d[1].text = f.text
    PROVE  /\ \A q \in AsksAbout(f) : \E e \in r : e[1] = q
           /\ \A e \in r : e[1].id = f.id => e[1] \in AsksAbout(f)
  <1> DEFINE b == [version |-> v, minimal |-> minimal]
             Q == QuestionsBy[v][minimal]
  <1>1. BuildOK(b) /\ b.version = v /\ QuestionsOf(b) = Q
    BY DEF BuildOK, QuestionsOf
  <1> HIDE DEF b, Q
  <1>2. /\ ToSet(CandidatesOf(b)) \subseteq ToSet(Functions[v])
        /\ \A g \in ToSet(CandidatesOf(b)) : AsksAbout(g) \subseteq ToSet(Q)
        /\ \A q \in ToSet(Q) : \E g \in ToSet(CandidatesOf(b)) : q \in AsksAbout(g)
        /\ \A g \in ToSet(CandidatesOf(b)) : IsCandidate(g) /\ g \in AllFunctions
    BY <1>1, BuildFacts
  <1>3. /\ r \subseteq ToSet(Q) \X (Replies \ {Error})
        /\ \A q \in ToSet(Q) : \E e \in r : e[1] = q
    BY DEF RecordingOf, Q
  <1>4. \A e \in r : e[1] \in ToSet(Q)
    BY <1>3
  <1>5. ASSUME NEW g \in ToSet(CandidatesOf(b)), NEW q \in AsksAbout(g)
        PROVE  q.id = g.id /\ q.text = g.text
    BY <1>2, AskedFacts
  <1>6. PICK g \in ToSet(CandidatesOf(b)) : d[1] \in AsksAbout(g)
    BY <1>2, <1>4
  <1>7. g = f
    <2>1. g.id = f.id /\ g.text = f.text
      BY <1>5, <1>6
    <2>2. g \in ToSet(Functions[v])
      BY <1>2
    <2>3. QED
      BY <2>1, <2>2, OneFunction
  <1>8. \A q \in AsksAbout(f) : \E e \in r : e[1] = q
    BY <1>2, <1>3, <1>7
  <1>9. ASSUME NEW e \in r, e[1].id = f.id
        PROVE  e[1] \in AsksAbout(f)
    <2>1. PICK h \in ToSet(CandidatesOf(b)) : e[1] \in AsksAbout(h)
      BY <1>2, <1>4
    <2>2. h.id = g.id
      BY <2>1, <1>5, <1>7, <1>9
    <2>3. h = g
      BY <2>2, <1>2, OneFunction
    <2>4. QED
      BY <2>1, <2>3, <1>7
  <1>10. QED
    BY <1>8, <1>9

(* A question no recorded one matches is about a function whose text        *)
(* changed.                                                                 *)
LEMMA MismatchFound ==
    ASSUME IInv, phase = "ask", job.backend = "replay", Open, Matching(Asked) = {}
    PROVE  \E f \in ToSet(CandidatesOf(job)) : RequestsFor(f) > 0 /\ ~AsRecorded(f)
  <1>1. BuildOK(job) /\ Asked \in ToSet(QuestionsOf(job))
    BY AskedNow DEF IInv, JobInv
  <1>2. PICK f \in ToSet(CandidatesOf(job)) : Asked \in AsksAbout(f)
    BY <1>1, BuildFacts
  <1>3. IsCandidate(f) /\ f \in AllFunctions /\ f \in ToSet(Functions[job.version])
    BY <1>1, BuildFacts
  <1>4. RequestsFor(f) > 0
    BY <1>3, AskedFacts
  <1>5. ASSUME AsRecorded(f)
        PROVE  FALSE
    <2>1. PICK v \in Versions, minimal \in BOOLEAN : RecordingOf(recording, v, minimal)
      BY DEF IInv, ReplayInv
    <2>2. PICK d \in recording : d[1].id = f.id /\ d[1].text = f.text
      BY <1>5 DEF AsRecorded
    <2>3. job.version \in Versions
      BY <1>1 DEF BuildOK
    <2>4. \A q \in AsksAbout(f) : \E e \in recording : e[1] = q
      BY <1>3, <2>1, <2>2, <2>3, RecordedWhole
    <2>5. PICK e \in recording : e[1] = Asked
      BY <2>4, <1>2
    <2>6. QED
      BY <2>5 DEF Matching
  <1>6. QED
    BY <1>4, <1>5

(* An end of the build, for any of the reasons it stops by itself.          *)
LEMMA StopStep ==
    ASSUME IInv, NEW how \in {"mismatch", "budget", "done"}, Stop(how),
           how = "budget" => ~Open /\ ~job.minimal,
           how = "done" => phase = "write" /\ written = 8,
           how = "mismatch" =>
              \E f \in ToSet(CandidatesOf(job)) : RequestsFor(f) > 0 /\ ~AsRecorded(f)
    PROVE  IInv'
  <1> USE DEF IInv
  <1>1. /\ phase' = "idle" /\ outcome' = how
        /\ UNCHANGED <<job, recording, builds, answers, written, disk, pending, reviews, calls>>
    BY DEF Stop, buildVars, reviewVars
  <1>2. JobInv' /\ AnswersInv' /\ RequestsInv'
    BY <1>1 DEF JobInv, AnswersInv, RequestsInv, Requests, MinedIds
  <1>3. PhaseInv'
    <2>1. Open' = Open
      BY <1>1 DEF Open
    <2>2. calls \in 0..job.limit /\ written \in 0..8
      BY DEF PhaseInv
    <2>3. QED
      BY <1>1, <2>1, <2>2 DEF PhaseInv
  <1>4. DiskInv'
    <2>1. Build' = Build
      BY <1>1 DEF Build
    <2>2. QED
      BY <1>1, <2>1 DEF DiskInv
  <1>5. ReplayInv'
    BY <1>1 DEF ReplayInv, AsRecorded
  <1>6. QED
    BY <1>2, <1>3, <1>4, <1>5

(* The recording answers it, or the build stops.                            *)
LEMMA ReplayStep ==
    ASSUME IInv, Replay
    PROVE  IInv'
  <1>1. Open /\ phase = "ask" /\ job.backend = "replay"
    BY DEF Replay
  <1>2. CASE Matching(Asked) = {}
    <2>1. Stop("mismatch")
      BY <1>2 DEF Replay
    <2>2. \E f \in ToSet(CandidatesOf(job)) : RequestsFor(f) > 0 /\ ~AsRecorded(f)
      BY <1>1, <1>2, MismatchFound
    <2>3. QED
      BY <2>1, <2>2, StopStep
  <1>3. CASE Matching(Asked) # {}
    <2> DEFINE d == CHOOSE e \in Matching(Asked) : TRUE
               reply == d[2]
    <2>1. /\ answers' = Append(answers, reply)
          /\ UNCHANGED <<job, recording, builds, phase, written, disk, outcome, pending, reviews, calls>>
      BY <1>3 DEF Replay, buildVars, reviewVars
    <2>2. d \in recording /\ d[1] = Asked
      BY <1>3 DEF Matching
    <2> HIDE DEF d
    <2>3. PICK v \in Versions, minimal \in BOOLEAN : RecordingOf(recording, v, minimal)
      BY <1>1 DEF IInv, ReplayInv
    <2>4. d \in ToSet(QuestionsBy[v][minimal]) \X (Replies \ {Error})
      BY <2>2, <2>3 DEF RecordingOf
    <2>5. reply \in Replies /\ <<Asked, reply>> = d
      BY <2>2, <2>4
    <2>6. calls' \in 0..job.limit
      BY <2>1 DEF IInv, PhaseInv
    <2> HIDE DEF reply
    <2>7. QED
      BY <1>1, <2>1, <2>2, <2>5, <2>6, AnswerStep
  <1>4. QED
    BY <1>2, <1>3

(* The annotation is complete, and the mined patterns wait for their        *)
(* review.                                                                  *)
LEMMA AnnotateStep ==
    ASSUME IInv, Annotate
    PROVE  IInv'
  <1> USE DEF IInv
  <1>1. /\ phase = "ask" /\ ~Open
        /\ phase' = IF job.minimal THEN "write" ELSE "review"
        /\ UNCHANGED <<job, recording, builds, answers, written, disk, outcome, calls>>
    BY DEF Annotate, buildVars
  <1>2. JobInv' /\ AnswersInv'
    BY <1>1 DEF JobInv, AnswersInv
  <1>3. PhaseInv'
    <2>1. Open' = Open /\ outcome = "none" /\ Affords(job)
      BY <1>1 DEF Open, PhaseInv
    <2>2. calls \in 0..job.limit /\ written \in 0..8 /\ written = 0
      BY <1>1 DEF PhaseInv
    <2>3. job.backend = "llm" => calls = Len(answers)
      BY <1>1 DEF PhaseInv
    <2>4. QED
      BY <1>1, <2>1, <2>2, <2>3 DEF PhaseInv
  <1>4. RequestsInv'
    <2>1. MinedIds' = MinedIds /\ Requests' = Requests
      BY <1>1 DEF MinedIds, Requests
    <2>2. CASE job.minimal
      BY <2>1, <2>2 DEF Annotate, reviewVars, RequestsInv
    <2>3. CASE ~job.minimal
      <3>1. pending' = Batches(Mined[job.version]) /\ reviews' = <<>>
        BY <2>3 DEF Annotate, StartReview, NoReviews
      <3>2. pending' \in Seq(Requests)
        <4> DEFINE patterns == Mined[job.version]
        <4>1. IsFiniteSet(patterns) /\ \A p \in patterns : p.id \in Int
          BY MinedAssumption DEF JobInv, BuildOK
        <4> HIDE DEF patterns
        <4>2. Batches(patterns) \in Seq(RequestsOver({p.id : p \in patterns}))
          BY <4>1, BatchesType
        <4>3. QED
          BY <3>1, <4>2 DEF patterns, Requests, RequestsOver, MinedIds
      <3>3. QED
        BY <2>1, <3>1, <3>2 DEF RequestsInv
    <2>4. QED
      BY <2>2, <2>3
  <1>5. DiskInv'
    <2>1. outcome = "none" /\ written = 0
      BY <1>1 DEF PhaseInv
    <2>2. QED
      BY <1>1, <2>1 DEF DiskInv
  <1>6. ReplayInv'
    <2>1. outcome = "none"
      BY <1>1 DEF PhaseInv
    <2>2. QED
      BY <1>1, <2>1 DEF ReplayInv
  <1>7. QED
    BY <1>2, <1>3, <1>4, <1>5, <1>6

(* The pieces a failed batch is asked about again in.                       *)
LEMMA RequestPieces ==
    ASSUME NEW ids, NEW queue \in Seq(RequestsOver(ids)), queue # <<>>
    PROVE  LET batch == Head(queue).batch
               half == Len(batch) \div 2
           IN  /\ Head(queue) \in RequestsOver(ids) /\ Tail(queue) \in Seq(RequestsOver(ids))
               /\ batch \in Seq(ids) /\ ToSet(batch) \subseteq ids
               /\ Len(batch) = 1 => batch[1] \in ids
               /\ Len(batch) > 1 => /\ SubSeq(batch, 1, half) \in Seq(ids) \ {<<>>}
                                    /\ SubSeq(batch, half + 1, Len(batch)) \in Seq(ids) \ {<<>>}
               /\ IF Len(batch) = 1 THEN ~(Len(batch) > 1) ELSE Len(batch) > 1
  <1> DEFINE batch == Head(queue).batch
             half == Len(batch) \div 2
  <1>1. Head(queue) \in RequestsOver(ids) /\ Tail(queue) \in Seq(RequestsOver(ids))
    BY HeadTailProperties
  <1>2. batch \in Seq(ids) /\ batch # <<>>
    BY <1>1 DEF RequestsOver
  <1> HIDE DEF batch
  <1>3. DOMAIN batch = 1..Len(batch) /\ Len(batch) \in Nat /\ Len(batch) >= 1
    <2>1. Len(batch) # 0
      BY <1>2, EmptySeq
    <2>2. QED
      BY <1>2, <2>1
  <1>4. ToSet(batch) \subseteq ids /\ batch[1] \in ids
    BY <1>2, <1>3 DEF ToSet
  <1>5. ASSUME Len(batch) > 1
        PROVE  /\ SubSeq(batch, 1, half) \in Seq(ids) \ {<<>>}
               /\ SubSeq(batch, half + 1, Len(batch)) \in Seq(ids) \ {<<>>}
    <2>1. half \in 1..(Len(batch) - 1)
      BY <1>3, <1>5
    <2>4. half # 0 /\ Len(batch) - half # 0
      <3>1. \A n \in Nat : \A h \in 1..(n - 1) : h # 0 /\ n - h # 0
        OBVIOUS
      <3> HIDE DEF half
      <3>2. QED
        BY <1>3, <2>1, <3>1
    <2> HIDE DEF half
    <2>2. SubSeq(batch, 1, half) \in Seq(ids) /\ Len(SubSeq(batch, 1, half)) = half
      BY <1>2, <1>3, <2>1, SubSeqProperties
    <2>3. /\ SubSeq(batch, half + 1, Len(batch)) \in Seq(ids)
          /\ Len(SubSeq(batch, half + 1, Len(batch))) = Len(batch) - half
      BY <1>2, <1>3, <2>1, SubSeqProperties
    <2>5. Len(<<>>) = 0
      OBVIOUS
    <2>6. SubSeq(batch, 1, half) # <<>>
      BY <2>4, <2>2, <2>5
    <2>7. SubSeq(batch, half + 1, Len(batch)) # <<>>
      BY <2>4, <2>3, <2>5
    <2>8. QED
      BY <2>2, <2>3, <2>6, <2>7
  <1>6. IF Len(batch) = 1 THEN ~(Len(batch) > 1) ELSE Len(batch) > 1
    BY <1>3
  <1> HIDE DEF half
  <1>7. QED
    BY <1>1, <1>2, <1>4, <1>5, <1>6 DEF batch, half

(* The review goes on within the patterns mined and within the limit.       *)
LEMMA ReviewStep ==
    ASSUME IInv, Review
    PROVE  IInv'
  <1> USE DEF IInv
  <1> DEFINE patterns == Mined[job.version]
  <1>1. phase = "review" /\ UNCHANGED <<job, recording, builds, phase, answers, written, disk, outcome>>
    BY DEF Review, buildVars
  <1>2. \/ ReviewAnswered(patterns, InputNames, job.limit)
        \/ ReviewFailed(patterns, job.limit)
    BY DEF Review
  <1>3. pending # <<>> /\ calls < job.limit /\ calls' = calls + 1
    BY <1>2 DEF ReviewAnswered, ReviewFailed, Affordable
  <1>4. JobInv' /\ AnswersInv'
    BY <1>1 DEF JobInv, AnswersInv
  <1>5. PhaseInv'
    <2>1. Open' = Open /\ Affords(job)' = Affords(job)
      BY <1>1 DEF Open, Affords
    <2>2. calls' \in 0..job.limit
      BY <1>3 DEF PhaseInv, JobInv
    <2>3. QED
      BY <1>1, <2>1, <2>2 DEF PhaseInv
  <1>6. DiskInv'
    <2>1. outcome = "none"
      BY <1>1 DEF PhaseInv
    <2>2. QED
      BY <1>1, <2>1 DEF DiskInv
  <1>7. ReplayInv'
    <2>1. outcome # "mismatch"
      BY <1>1 DEF PhaseInv
    <2>2. QED
      BY <1>1, <2>1 DEF ReplayInv
  <1>8. Requests = RequestsOver(MinedIds) /\ Requests' = Requests /\ MinedIds' = MinedIds
    BY <1>1 DEF Requests, RequestsOver, MinedIds
  <1> DEFINE batch == Head(pending).batch
             half == Len(batch) \div 2
             ids == MinedIds
             rest == Tail(pending)
  <1>9. pending \in Seq(RequestsOver(ids)) /\ DOMAIN reviews \subseteq ids
    BY <1>8 DEF RequestsInv
  <1>10. /\ Head(pending) \in RequestsOver(ids) /\ rest \in Seq(RequestsOver(ids))
         /\ batch \in Seq(ids) /\ ToSet(batch) \subseteq ids
         /\ Len(batch) = 1 => batch[1] \in ids
         /\ Len(batch) > 1 => /\ SubSeq(batch, 1, half) \in Seq(ids) \ {<<>>}
                              /\ SubSeq(batch, half + 1, Len(batch)) \in Seq(ids) \ {<<>>}
         /\ IF Len(batch) = 1 THEN ~(Len(batch) > 1) ELSE Len(batch) > 1
    <2> HIDE DEF ids
    <2>1. QED
      BY <1>3, <1>9, RequestPieces
  <1>11. CASE ReviewAnswered(patterns, InputNames, job.limit)
    <2>1. DOMAIN reviews' = ToSet(batch) \cup DOMAIN reviews /\ pending' = rest
      BY <1>11 DEF ReviewAnswered
    <2>2. RequestsInv'
      BY <2>1, <1>8, <1>9, <1>10 DEF RequestsInv
    <2>3. QED
      BY <2>2, <1>4, <1>5, <1>6, <1>7
  <1>12. CASE ReviewFailed(patterns, job.limit)
    <2> DEFINE again(s, n) == [batch |-> s, retries |-> n]
    <2>1. /\ Retries \in Nat /\ Head(pending).retries \in Nat
          /\ \A s \in Seq(ids) \ {<<>>}, n \in Nat : again(s, n) \in RequestsOver(ids)
      BY <1>10, UsageReviewAssumption DEF RequestsOver
    <2>2. CASE Len(batch) > 1
      <3>1. /\ pending' = <<again(SubSeq(batch, 1, half), Retries),
                            again(SubSeq(batch, half + 1, Len(batch)), Retries)>> \o rest
            /\ reviews' = reviews
        BY <1>12, <2>2 DEF ReviewFailed
      <3> DEFINE one == again(SubSeq(batch, 1, half), Retries)
                 two == again(SubSeq(batch, half + 1, Len(batch)), Retries)
      <3>2. one \in RequestsOver(ids) /\ two \in RequestsOver(ids)
        BY <2>1, <2>2, <1>10
      <3> HIDE DEF one, two, rest, ids
      <3>3. <<one, two>> \o rest \in Seq(RequestsOver(ids))
        BY <3>2, <1>10, ConcatProperties
      <3>4. RequestsInv'
        BY <3>1, <3>3, <1>8, <1>9 DEF RequestsInv, ids, one, two
      <3>5. QED
        BY <3>4, <1>4, <1>5, <1>6, <1>7
    <2>3. CASE Len(batch) = 1 /\ Head(pending).retries > 0
      <3> DEFINE one == again(batch, Head(pending).retries - 1)
      <3>1. pending' = <<one>> \o rest /\ reviews' = reviews
        <4>1. ~(Len(batch) > 1)
          BY <2>3, <1>10
        <4>2. QED
          BY <1>12, <2>3, <4>1 DEF ReviewFailed
      <3>2. one \in RequestsOver(ids)
        BY <2>1, <2>3, <1>10 DEF RequestsOver
      <3> HIDE DEF one, rest, ids
      <3>3. <<one>> \o rest \in Seq(RequestsOver(ids))
        BY <3>2, <1>10, ConcatProperties
      <3>4. RequestsInv'
        BY <3>1, <3>3, <1>8, <1>9 DEF RequestsInv, ids
      <3>5. QED
        BY <3>4, <1>4, <1>5, <1>6, <1>7
    <2>4. CASE Len(batch) = 1 /\ ~(Head(pending).retries > 0)
      <3>1. DOMAIN reviews' = {batch[1]} \cup DOMAIN reviews /\ pending' = rest
        <4>1. ~(Len(batch) > 1)
          BY <2>4, <1>10
        <4>2. QED
          BY <1>12, <2>4, <4>1 DEF ReviewFailed
      <3>2. RequestsInv'
        BY <3>1, <2>4, <1>8, <1>9, <1>10 DEF RequestsInv
      <3>3. QED
        BY <3>2, <1>4, <1>5, <1>6, <1>7
    <2>5. QED
      BY <2>2, <2>3, <2>4, <1>10
  <1>13. QED
    BY <1>2, <1>11, <1>12

(* The limit is only ever reached in the review.                            *)
LEMMA BudgetSpentStep ==
    ASSUME IInv, BudgetSpent
    PROVE  IInv'
  <1>1. Stop("budget") /\ calls >= job.limit
    BY DEF BudgetSpent
  <1>2. ASSUME phase = "ask", job.backend = "llm", Open
        PROVE  FALSE
    <2>1. calls = Len(answers) /\ MinimumRequests(CandidatesOf(job)) <= job.limit
      BY <1>2 DEF IInv, PhaseInv, Affords
    <2>2. Len(QuestionsOf(job)) = MinimumRequests(CandidatesOf(job)) /\ Len(QuestionsOf(job)) \in Nat
      BY BuildFacts DEF IInv, JobInv
    <2>3. Len(answers) < Len(QuestionsOf(job)) /\ job.limit \in Nat /\ Len(answers) \in Nat
      BY <1>2 DEF Open, IInv, JobInv, AnswersInv
    <2>4. QED
      BY <1>1, <2>1, <2>2, <2>3
  <1>3. phase = "review"
    BY <1>2 DEF BudgetSpent
  <1>4. ~Open /\ ~job.minimal
    BY <1>3 DEF IInv, PhaseInv
  <1>5. QED
    BY <1>1, <1>4, StopStep

(* A build that ran out of budget in the review never gets here.            *)
LEMMA EndReviewStep ==
    ASSUME IInv, EndReview
    PROVE  IInv'
  <1> USE DEF IInv
  <1>1. /\ phase = "review" /\ phase' = "write"
        /\ UNCHANGED <<job, recording, builds, answers, written, disk, outcome, pending, reviews, calls>>
    BY DEF EndReview, buildVars, reviewVars
  <1>2. JobInv' /\ AnswersInv' /\ RequestsInv'
    BY <1>1 DEF JobInv, AnswersInv, RequestsInv, Requests, MinedIds
  <1>3. Open' = Open /\ Affords(job)' = Affords(job) /\ outcome = "none" /\ written = 0 /\ ~job.minimal
    BY <1>1 DEF Open, Affords, PhaseInv
  <1>4. PhaseInv'
    BY <1>1, <1>3 DEF PhaseInv
  <1>5. DiskInv' /\ ReplayInv'
    BY <1>1, <1>3 DEF DiskInv, ReplayInv
  <1>6. QED
    BY <1>2, <1>4, <1>5

(* Whatever a directory holds of a build is of one that had all its answers.*)
LEMMA WriteFileStep ==
    ASSUME IInv, WriteFile
    PROVE  IInv'
  <1> USE DEF IInv
  <1>1. /\ phase = "write" /\ written < 8 /\ written' = written + 1
        /\ disk' = [disk EXCEPT ![written + 1] = Build]
        /\ UNCHANGED <<job, recording, builds, phase, answers, outcome, pending, reviews, calls>>
    BY DEF WriteFile, buildVars, reviewVars, Files
  <1>2. JobInv' /\ AnswersInv' /\ RequestsInv'
    BY <1>1 DEF JobInv, AnswersInv, RequestsInv, Requests, MinedIds
  <1>3. /\ Open' = Open /\ Affords(job)' = Affords(job) /\ outcome = "none"
        /\ written \in 0..8 /\ written + 1 \in 1..8 /\ ~Open
    BY <1>1 DEF Open, Affords, PhaseInv
  <1>4. PhaseInv'
    BY <1>1, <1>3 DEF PhaseInv
  <1>5. Complete(Build)
    <2>1. QuestionsOf(Build) = QuestionsOf(job)
      BY DEF Build, QuestionsOf
    <2>2. Len(QuestionsOf(job)) \in Nat /\ Len(answers) \in Nat
      BY BuildFacts DEF JobInv, AnswersInv
    <2>3. Len(answers) = Len(QuestionsOf(job))
      BY <1>3, <2>2 DEF Open, AnswersInv
    <2>4. BuildOK(Build)
      BY DEF Build, BuildOK, JobInv
    <2>5. QED
      BY <2>1, <2>3, <2>4 DEF Complete, AnswersInv, Build
  <1>6. DiskInv'
    <2>1. Build' = Build
      BY <1>1 DEF Build
    <2>2. \A i \in 1..8 : disk'[i] = IF i = written + 1 THEN Build ELSE disk[i]
      BY <1>1 DEF DiskInv
    <2>3. \A i \in 1..written : disk[i] = Build
      BY <1>1 DEF DiskInv
    <2>4. \A i \in 1..written' : disk'[i] = Build
      BY <1>1, <1>3, <2>2, <2>3
    <2>5. DOMAIN disk' = 1..8 /\ \A i \in 1..8 : disk'[i] = Absent \/ Complete(disk'[i])
      BY <1>1, <1>5, <2>2 DEF DiskInv
    <2>6. QED
      BY <1>1, <1>3, <2>1, <2>4, <2>5 DEF DiskInv
  <1>7. ReplayInv'
    BY <1>1, <1>3 DEF ReplayInv
  <1>8. QED
    BY <1>2, <1>4, <1>6, <1>7

(* All eight files are written.                                             *)
LEMMA FinishStep ==
    ASSUME IInv, Finish
    PROVE  IInv'
  <1>1. phase = "write" /\ written = 8 /\ Stop("done")
    BY DEF Finish, Files
  <1>2. QED
    BY <1>1, StopStep

(* A kill leaves the files, and nothing else of the build.                  *)
LEMMA InterruptedStep ==
    ASSUME IInv, Interrupted
    PROVE  IInv'
  <1> USE DEF IInv
  <1>1. /\ phase # "idle" /\ phase' = "idle" /\ outcome' = "interrupted"
        /\ answers' = <<>> /\ pending' = <<>> /\ reviews' = <<>> /\ calls' = 0 /\ written' = 0
        /\ UNCHANGED <<job, recording, builds, disk>>
    BY DEF Interrupted, buildVars, NoReviews
  <1>2. JobInv'
    BY <1>1 DEF JobInv
  <1>3. Len(QuestionsOf(job)') \in Nat
    BY <1>2, BuildFacts DEF JobInv
  <1>4. AnswersInv' /\ RequestsInv'
    BY <1>1, <1>3 DEF AnswersInv, RequestsInv
  <1>5. PhaseInv'
    BY <1>1, <1>2 DEF PhaseInv, JobInv
  <1>6. DiskInv' /\ ReplayInv'
    BY <1>1 DEF DiskInv, ReplayInv
  <1>7. QED
    BY <1>2, <1>4, <1>5, <1>6

(* The invariant holds before the first build.                              *)
LEMMA InitInv == Init => IInv
  <1> SUFFICES ASSUME Init
               PROVE  IInv
    OBVIOUS
  <1>1. JobInv
    <2>1. PICK v \in Versions :
            job = [backend |-> "llm", minimal |-> FALSE, limit |-> 1, version |-> v]
      BY DEF Init
    <2>2. job.version \in Versions /\ job.minimal \in BOOLEAN
      BY <2>1
    <2>3. job.backend = "llm" /\ job.limit = 1
      BY <2>1
    <2>4. QED
      BY <2>2, <2>3 DEF JobInv, BuildOK
  <1>2. Len(QuestionsOf(job)) \in Nat
    BY <1>1, BuildFacts DEF JobInv
  <1>3. AnswersInv /\ RequestsInv
    BY <1>2 DEF Init, AnswersInv, RequestsInv, NoReviews
  <1>4. PhaseInv
    BY <1>1 DEF Init, PhaseInv, JobInv
  <1>5. DiskInv /\ ReplayInv
    BY DEF Init, DiskInv, ReplayInv, Files
  <1>6. QED
    BY <1>1, <1>3, <1>4, <1>5 DEF IInv

(* Every step keeps the invariant.                                          *)
LEMMA NextInv == IInv /\ [Next]_vars => IInv'
  <1> SUFFICES ASSUME IInv, [Next]_vars
               PROVE  IInv'
    OBVIOUS
  <1>1. CASE Begin
    BY <1>1, BeginStep
  <1>2. CASE Ask
    BY <1>2, AskStep
  <1>3. CASE Replay
    BY <1>3, ReplayStep
  <1>4. CASE Annotate
    BY <1>4, AnnotateStep
  <1>5. CASE Review
    BY <1>5, ReviewStep
  <1>6. CASE BudgetSpent
    BY <1>6, BudgetSpentStep
  <1>7. CASE EndReview
    BY <1>7, EndReviewStep
  <1>8. CASE WriteFile
    BY <1>8, WriteFileStep
  <1>9. CASE Finish
    BY <1>9, FinishStep
  <1>10. CASE Interrupted
    BY <1>10, InterruptedStep
  <1>11. CASE UNCHANGED vars
    <2>1. UNCHANGED <<job, recording, builds, phase, answers, written, disk, outcome, pending, reviews, calls>>
      BY <1>11 DEF vars, buildVars, reviewVars
    <2>2. Open' = Open /\ Build' = Build /\ Affords(job)' = Affords(job)
      BY <2>1 DEF Open, Build, Affords
    <2>3. JobInv' /\ AnswersInv' /\ RequestsInv'
      BY <2>1 DEF IInv, JobInv, AnswersInv, RequestsInv, Requests, MinedIds
    <2>4. PhaseInv'
      BY <2>1, <2>2 DEF IInv, PhaseInv
    <2>5. DiskInv'
      BY <2>1, <2>2 DEF IInv, DiskInv
    <2>6. ReplayInv'
      BY <2>1 DEF IInv, ReplayInv, AsRecorded
    <2>7. QED
      BY <2>3, <2>4, <2>5, <2>6 DEF IInv
  <1>12. QED
    BY <1>1, <1>2, <1>3, <1>4, <1>5, <1>6, <1>7, <1>8, <1>9, <1>10, <1>11 DEF Next, Step

(* Every state of a build satisfies the invariant.                          *)
THEOREM InvariantHolds == Spec => []IInv
  BY InitInv, NextInv, PTL DEF Spec

-----------------------------------------------------------------------------
(* What the run checks, from the invariant.                                 *)

(* The invariant has the preflight exact.                                   *)
LEMMA InvBudget == IInv => BudgetInv
  <1> SUFFICES ASSUME IInv
               PROVE  BudgetInv
    OBVIOUS
  <1>1. TypeOK
    BY InvType
  <1>2. outcome = "budget" => ~Open /\ ~job.minimal
    BY DEF IInv, PhaseInv
  <1>3. ASSUME phase = "write", job.backend = "llm", job.minimal
        PROVE  calls = MinimumRequests(CandidatesOf(job))
    <2>1. calls = Len(answers) /\ ~Open
      BY <1>3 DEF IInv, PhaseInv
    <2>2. Len(QuestionsOf(job)) = MinimumRequests(CandidatesOf(job)) /\ Len(QuestionsOf(job)) \in Nat
      BY BuildFacts DEF IInv, JobInv
    <2>3. Len(answers) <= Len(QuestionsOf(job)) /\ Len(answers) \in Nat
      BY DEF IInv, AnswersInv
    <2>4. QED
      BY <2>1, <2>2, <2>3 DEF Open
  <1>4. QED
    BY <1>1, <1>2, <1>3 DEF BudgetInv, PreflightExact

(* What is decided about a function is what is decided about it by name.    *)
OpinionOf(decisions, f) == {d \in decisions : d[1].id = f.id}

(* Decisions that agree about a function annotate it alike.                 *)
LEMMA SameOpinion ==
    ASSUME NEW D, NEW E, NEW f, OpinionOf(D, f) = OpinionOf(E, f)
    PROVE  Annotation(D, f) = Annotation(E, f)
  <1>0. \A d : d \in D /\ d[1].id = f.id <=> d \in E /\ d[1].id = f.id
    BY DEF OpinionOf
  <1>1. ASSUME NEW i
        PROVE  IsByteStream(D, f, i) = IsByteStream(E, f, i)
    <2>1. {d \in D : /\ d[1].id = f.id /\ d[1].task = "stream_parameter"
                     /\ d[1].at = i /\ d[2] = {"bytes"}}
          = {d \in E : /\ d[1].id = f.id /\ d[1].task = "stream_parameter"
                       /\ d[1].at = i /\ d[2] = {"bytes"}}
      BY <1>0
    <2>2. QED
      BY <2>1 DEF IsByteStream
  <1>2. LabelsOf(D, f) = LabelsOf(E, f)
    <2> DEFINE said(X) == {e \in X : e[1].id = f.id /\ e[1].task = "function_role" /\ e[2] # Error}
               isf(X) == IF \E i \in StreamParameters(f) : IsByteStream(X, f, i) THEN {"ISF"} ELSE {}
    <2>1. said(D) = said(E)
      BY <1>0
    <2>2. isf(D) = isf(E)
      BY <1>1
    <2>3. \A X : LabelsOf(X, f) = isf(X) \cup UNION {d[2] : d \in said(X)}
      BY DEF LabelsOf
    <2> HIDE DEF said, isf
    <2>4. QED
      BY <2>1, <2>2, <2>3
  <1>3. ASSUME NEW i
        PROVE  DirectionOf(D, f, i) = DirectionOf(E, f, i)
    <2> DEFINE said(X) == {e \in X : e[1].id = f.id /\ e[1].task = "struct_direction" /\ e[1].at = i}
    <2>1. said(D) = said(E)
      BY <1>0
    <2>2. \A X : DirectionOf(X, f, i) =
            IF ~NeedsSemanticDirection(f.parameters[i]) THEN StaticDirection(f.parameters[i])
            ELSE LET answer == CHOOSE a \in {d[2] : d \in said(X)} : TRUE
                 IN  IF answer = Error THEN "unknown" ELSE CHOOSE direction \in answer : TRUE
      BY DEF DirectionOf
    <2> HIDE DEF said
    <2>3. QED
      BY <2>1, <2>2
  <1>4. QED
    BY <1>2, <1>3 DEF Annotation

(* The invariant has replays faithful.                                      *)
LEMMA InvReplay == IInv => ReplayReproduces
  <1> SUFFICES ASSUME IInv
               PROVE  ReplayReproduces
    OBVIOUS
  <1> DEFINE candidates == ToSet(CandidatesOf(job))
             asked == {f \in candidates : RequestsFor(f) > 0}
             Q == QuestionsOf(job)
             D == Decisions(Build)
  <1>1. outcome = "mismatch" => \E f \in asked : ~AsRecorded(f)
    BY DEF IInv, ReplayInv
  <1>2. ASSUME phase = "write", job.backend = "replay"
        PROVE  /\ \A f \in asked : AsRecorded(f)
               /\ Error \notin ToSet(answers)
               /\ \A f \in candidates : Annotation(D, f) = Annotation(recording, f)
    <2>1. PICK v \in Versions, minimal \in BOOLEAN : RecordingOf(recording, v, minimal)
      BY <1>2 DEF IInv, ReplayInv
    <2>2. \A k \in 1..Len(answers) : <<Q[k], answers[k]>> \in recording
      BY <1>2 DEF IInv, ReplayInv
    <2>3. /\ Q \in Seq(AllQuestions) /\ Len(Q) \in Nat
          /\ candidates \subseteq ToSet(Functions[job.version])
          /\ \A f \in candidates : AsksAbout(f) \subseteq ToSet(Q)
          /\ \A f \in candidates : IsCandidate(f) /\ f \in AllFunctions
      BY BuildFacts DEF IInv, JobInv
    <2>4. Len(answers) = Len(Q) /\ answers \in Seq(Replies)
      BY <1>2, <2>3 DEF IInv, PhaseInv, AnswersInv, Open
    <2>5. Complete(Build)
      <3>1. QuestionsOf(Build) = Q
        BY DEF Build, QuestionsOf
      <3>2. BuildOK(Build)
        BY DEF Build, BuildOK, IInv, JobInv
      <3>3. QED
        BY <2>4, <3>1, <3>2 DEF Complete, Build
    <2>6. /\ \A q \in ToSet(Q) : \E d \in D : d[1] = q
          /\ \A d \in D : \E k \in 1..Len(answers) : d = <<Q[k], answers[k]>>
      <3>1. QuestionsOf(Build) = Q /\ Build.answers = answers
        BY DEF Build, QuestionsOf
      <3>2. QED
        BY <2>5, <3>1, DecisionsFacts
    <2>7. job.version \in Versions
      BY DEF IInv, JobInv, BuildOK
    <2> HIDE DEF candidates, Q, D
    <2>8. \A d \in D : d \in recording
      BY <2>2, <2>6
    <2>9. ASSUME NEW f \in candidates
          PROVE  \E d \in recording : d[1].id = f.id /\ d[1].text = f.text
      <3>1. IsCandidate(f) /\ f \in AllFunctions /\ AsksAbout(f) \subseteq ToSet(Q)
        BY <2>3
      <3>2. PICK q \in AsksAbout(f) : q.id = f.id /\ q.text = f.text
        BY <3>1, AskedFacts
      <3>3. PICK d \in D : d[1] = q
        BY <2>6, <3>1, <3>2
      <3>4. QED
        BY <2>8, <3>2, <3>3
    <2>10. \A f \in asked : AsRecorded(f)
      BY <2>9 DEF AsRecorded
    <2>11. Error \notin ToSet(answers)
      <3>1. ASSUME Error \in ToSet(answers)
            PROVE  FALSE
        <4>1. PICK k \in 1..Len(answers) : answers[k] = Error
          BY <2>4, <3>1 DEF ToSet
        <4>2. <<Q[k], answers[k]>> \in ToSet(QuestionsBy[v][minimal]) \X (Replies \ {Error})
          BY <2>1, <2>2 DEF RecordingOf
        <4>3. QED
          BY <4>1, <4>2
      <3>2. QED
        BY <3>1
    <2>12. ASSUME NEW f \in candidates
           PROVE  Annotation(D, f) = Annotation(recording, f)
      <3>1. PICK d \in recording : d[1].id = f.id /\ d[1].text = f.text
        BY <2>9
      <3>2. f \in ToSet(Functions[job.version]) /\ AsksAbout(f) \subseteq ToSet(Q)
        BY <2>3
      <3>3. \A e \in recording : e[1].id = f.id => e[1] \in AsksAbout(f)
        BY <2>1, <2>7, <3>1, <3>2, RecordedWhole
      <3>4. ASSUME NEW e \in recording, e[1].id = f.id
            PROVE  e \in D
        <4>1. PICK c \in D : c[1] = e[1]
          BY <2>6, <3>2, <3>3, <3>4
        <4>2. c = e
          BY <2>1, <2>8, <4>1 DEF RecordingOf
        <4>3. QED
          BY <4>1, <4>2
      <3>5. OpinionOf(D, f) = OpinionOf(recording, f)
        BY <2>8, <3>4 DEF OpinionOf
      <3>6. QED
        BY <3>5, SameOpinion
    <2>13. QED
      BY <2>10, <2>11, <2>12 DEF D
  <1>3. QED
    BY <1>1, <1>2 DEF ReplayReproduces

(* The files of one build are loadable together.                            *)
LEMMA OwnFilesLoad ==
    ASSUME NEW b, BuildOK(b)
    PROVE  Loads(Listed(b), Annotations(b), FlowsOf(b), Graph(FlowsOf(b)))
  <1> DEFINE D == Decisions(b)
             C == ToSet(CandidatesOf(b))
             flows == {Flow(f, Annotation(D, f)) : f \in C}
             annotations == {Annotation(D, f) : f \in C}
             graph == Graph(flows)
  <1>1. FlowsOf(b) = flows /\ Annotations(b) = annotations
    BY DEF FlowsOf, Annotations
  <1>2. C \subseteq Listed(b)
    BY BuildFacts DEF Listed
  <1> HIDE DEF D, C
  <1>3. \A f, a : Flow(f, a).id = f.id
    BY DEF Flow
  <1>4. \A f : Annotation(D, f).id = f.id
    BY DEF Annotation
  <1>5. Ids(flows) = Ids(C) /\ Ids(annotations) = Ids(C) /\ Ids(C) \subseteq Ids(Listed(b))
    BY <1>2, <1>3, <1>4 DEF Ids
  <1> HIDE DEF flows
  <1>6. ASSUME NEW e \in Edges(flows)
        PROVE  e.id \in Ids(flows)
    <2>1. PICK flow \in flows : e \in EdgesOf(flow)
      BY <1>6 DEF Edges
    <2>2. e.id = flow.id
      BY <2>1 DEF EdgesOf
    <2>3. QED
      BY <2>1, <2>2 DEF Ids
  <1>7. graph.edges = Edges(flows) /\ graph.embedded = flows
    BY DEF Graph
  <1>8. Ids(graph.edges) \subseteq Ids(flows)
    BY <1>6, <1>7 DEF Ids
  <1> HIDE DEF graph, annotations
  <1>9. QED
    BY <1>1, <1>5, <1>7, <1>8 DEF Loads, graph

(* The invariant has completed directories whole.                           *)
LEMMA InvWhole == IInv => CompletedIsWhole
  <1> SUFFICES ASSUME IInv, outcome = "done"
               PROVE  (\A i \in DOMAIN disk : disk[i] = Build) /\ DirectoryLoads
    BY DEF CompletedIsWhole
  <1>1. DOMAIN disk = 1..8 /\ \A i \in 1..8 : disk[i] = Build
    BY DEF IInv, DiskInv
  <1>2. Build # Absent
    <2>1. "minimal" \in DOMAIN Build /\ "minimal" \notin DOMAIN Absent
      BY DEF Build, Absent
    <2>2. QED
      BY <2>1
  <1>3. BuildOK(Build)
    BY DEF Build, BuildOK, IInv, JobInv
  <1> DEFINE b == Build
  <1> HIDE DEF b
  <1>4. disk[1] = b /\ disk[5] = b /\ disk[6] = b /\ disk[7] = b /\ b # Absent
    BY <1>1, <1>2 DEF b
  <1>5. DirectoryLoads
    BY <1>3, <1>4, OwnFilesLoad DEF DirectoryLoads, b
  <1>6. QED
    BY <1>1, <1>5

(* Every state of a build has the types of TypeOK, and what was counted     *)
(* before the first request is what the annotation asks.                    *)
(* (SFGPipeline.run, FunctionAnnotator.annotate.)                           *)
THEOREM BudgetHolds == Spec => []BudgetInv
  BY InvariantHolds, InvBudget, PTL

(* A replay annotates as the recorded build did, or stops at a function     *)
(* whose text changed.  (ReplayedSemanticAnalyzer.)                         *)
THEOREM ReplayIsFaithful == Spec => []ReplayReproduces
  BY InvariantHolds, InvReplay, PTL

(* A directory a build completed holds that build, and loads.               *)
(* (SFGPipeline.run, SFGArtifacts.__post_init__.)                           *)
THEOREM CompletedLoads == Spec => []CompletedIsWhole
  BY InvariantHolds, InvWhole, PTL
-----------------------------------------------------------------------------
(* The usage patterns of a project.                                         *)

(* What a function takes finitely many values to are finitely many.         *)
LEMMA FiniteImage ==
    ASSUME NEW S, IsFiniteSet(S), NEW F, DOMAIN F = S
    PROVE  IsFiniteSet({F[x] : x \in S})
  <1> DEFINE T == {F[x] : x \in S}
             G == [x \in S |-> F[x]]
  <1>1. G \in Surjection(S, T)
    BY DEF Surjection
  <1> HIDE DEF G, T
  <1>2. IsFiniteSet(T)
    BY <1>1, FS_Surjection
  <1>3. QED
    BY <1>2 DEF T

(* Finitely many finite sets make a finite one.                             *)
LEMMA FiniteUnion ==
    ASSUME NEW S, IsFiniteSet(S), NEW F, DOMAIN F = S, \A x \in S : IsFiniteSet(F[x])
    PROVE  IsFiniteSet(UNION {F[x] : x \in S})
  <1> DEFINE T == {F[x] : x \in S}
  <1>1. IsFiniteSet(T) /\ \A X \in T : IsFiniteSet(X)
    BY FiniteImage
  <1> HIDE DEF T
  <1>2. IsFiniteSet(UNION T)
    BY <1>1, FS_UNION
  <1>3. QED
    BY <1>2 DEF T

(* The places of a sequence are finitely many.                              *)
LEMMA FinitePlaces ==
    ASSUME NEW X, NEW s \in Seq(X), NEW T \in SUBSET (DOMAIN s)
    PROVE  IsFiniteSet(T)
  <1>1. DOMAIN s = 1..Len(s) /\ Len(s) \in Nat
    OBVIOUS
  <1>2. IsFiniteSet(DOMAIN s)
    BY <1>1, FS_Interval
  <1>3. QED
    BY <1>2, FS_Subset

(* A call of a function of the project.                                     *)
IsCallOf(call, functions) ==
    call.f \in functions /\ call.arguments \in Seq(ToSet(call.arguments))

(* Calls of functions of the project.                                       *)
AreCallsOf(C, functions) == \A call \in C : IsCallOf(call, functions)

(* A redefinition leaves a part of the calls.                               *)
LEMMA UntilRedefinedType ==
    ASSUME NEW C, NEW body \in Seq(C), NEW v
    PROVE  UntilRedefined(body, v) \in Seq(C)
  <1> DEFINE cut == {k \in DOMAIN body : Redefines(body[k], v)}
             first == CHOOSE k \in cut : \A j \in cut : k <= j
  <1>1. CASE cut = {}
    BY <1>1 DEF UntilRedefined
  <1>2. CASE cut # {}
    <2>1. cut \subseteq 1..Len(body) /\ Len(body) \in Nat
      OBVIOUS
    <2> HIDE DEF cut
    <2>2. cut \in SUBSET Nat
      BY <2>1
    <2>3. \E k \in cut : \A j \in cut : k <= j
      BY <1>2, <2>2, LeastElement
    <2>4. first \in cut
      BY <2>3
    <2> HIDE DEF first
    <2>5. first - 1 \in 0..Len(body)
      BY <2>1, <2>4
    <2>6. SubSeq(body, 1, first - 1) \in Seq(C)
      <3>1. \A i \in 1..(first - 1) : body[i] \in C
        BY <2>5
      <3>2. first - 1 \in Int
        BY <2>5
      <3>3. QED
        BY <3>1, <3>2, <2>5, SubSeqProperties
    <2>7. QED
      BY <1>2, <2>6 DEF UntilRedefined, cut, first
  <1>3. QED
    BY <1>1, <1>2

(* A use is in one of the calls.                                            *)
LEMMA UsesType ==
    ASSUME NEW functions, NEW C, AreCallsOf(C, functions), NEW body \in Seq(C), NEW v
    PROVE  Uses(body, v) \in Seq((1..Len(body)) \X Nat)
  <1> DEFINE X == (1..Len(body)) \X Nat
             found(k) == [i \in DOMAIN body[k].arguments |->
                            IF v \in body[k].arguments[i].variables THEN <<<<k, i>>>> ELSE <<>>]
             parts == [k \in DOMAIN body |-> FlattenSeq(found(k))]
  <1>1. DOMAIN body = 1..Len(body) /\ Len(body) \in Nat
    OBVIOUS
  <1>2. ASSUME NEW k \in 1..Len(body)
        PROVE  FlattenSeq(found(k)) \in Seq(X)
    <2> DEFINE args == body[k].arguments
    <2>1. args \in Seq(ToSet(args))
      BY DEF AreCallsOf, IsCallOf
    <2>2. DOMAIN args = 1..Len(args) /\ Len(args) \in Nat
      BY <2>1
    <2>3. \A i \in 1..Len(args) : <<k, i>> \in X
      BY <2>2
    <2>4. \A i \in 1..Len(args) : found(k)[i] = <<<<k, i>>>> \/ found(k)[i] = <<>>
      BY <2>2
    <2> HIDE DEF X
    <2>5. \A i \in 1..Len(args) : found(k)[i] \in Seq(X)
      BY <2>3, <2>4
    <2>6. DOMAIN found(k) = 1..Len(args)
      BY <2>2
    <2> HIDE DEF found, args
    <2>7. found(k) \in Seq(Seq(X))
      <3>1. found(k) = [i \in 1..Len(args) |-> found(k)[i]]
        BY <2>6 DEF found
      <3>2. found(k) \in [1..Len(args) -> Seq(X)]
        BY <3>1, <2>5
      <3>3. QED
        BY <3>2, <2>2
    <2>8. QED
      BY <2>7, FlattenSum
  <1> HIDE DEF X
  <1>3. parts \in [1..Len(body) -> Seq(X)]
    BY <1>1, <1>2
  <1> HIDE DEF found
  <1>4. parts \in Seq(Seq(X))
    BY <1>1, <1>3
  <1>5. Uses(body, v) = FlattenSeq(parts)
    BY DEF Uses, found
  <1> HIDE DEF parts
  <1>6. QED
    BY <1>4, <1>5, FlattenSum DEF X

(* What is known of a pattern.                                              *)
PatternFields ==
    {"id", "support", "kind", "type", "producer", "binding", "producerAt", "consumers", "consumersAt",
     "cleanup", "cleanupAt", "cleanupHow", "sequence", "conditions", "path", "nullable"}

(* A pattern is read off a call that produces, calls that use and a call    *)
(* that gives up, all of functions of the project.                          *)
IsPatternOf(q, functions) ==
    /\ \E P \in functions, E \in functions :
          /\ q.producer = P.id /\ q.sequence[1] = P.name
          /\ q.cleanup = E.id /\ q.sequence[Len(q.consumers) + 2] = E.name
    /\ q.consumers \in Seq({f.id : f \in functions})
    /\ q.sequence \in Seq({f.name : f \in functions})
    /\ Len(q.sequence) = Len(q.consumers) + 2
    /\ \A k \in 1..Len(q.consumers) :
          \E f \in functions : f.id = q.consumers[k] /\ f.name = q.sequence[k + 1]
    /\ PatternFields \subseteq DOMAIN q

(* The patterns of one value are finitely many, and patterns.               *)
LEMMA PatternsOfValue ==
    ASSUME NEW functions, NEW C, AreCallsOf(C, functions), NEW producer \in C, NEW rest \in Seq(C),
           NEW kind, NEW type, NEW binding, NEW at, NEW v,
           NEW F, F = PatternsOf(producer, kind, type, binding, at, v, rest)
    PROVE  IsFiniteSet(F) /\ \A o \in F : IsPatternOf(o[2], functions)
  <1> DEFINE body == UntilRedefined(rest, v)
             uses  == Uses(body, v)
             X == (1..Len(body)) \X Nat
             last(n) == body[uses[n][1]]
             parts(n) == [m \in 1..(n - 1) |->
                              IF IsCleanup(body[uses[m][1]]) THEN <<>> ELSE <<uses[m]>>]
             before(n) == FlattenSeq(parts(n))
             name(n) == [k \in DOMAIN before(n) |-> body[before(n)[k][1]].f.name]
             pattern(n) ==
                 [id |-> 0, support |-> 0, kind |-> kind, type |-> type,
                  producer |-> producer.f.id, binding |-> binding, producerAt |-> at,
                  consumers |-> [k \in DOMAIN before(n) |-> body[before(n)[k][1]].f.id],
                  consumersAt |-> [k \in DOMAIN before(n) |-> before(n)[k][2]],
                  cleanup |-> last(n).f.id, cleanupAt |-> uses[n][2],
                  cleanupHow |-> IF kind = "owned_resource" /\ last(n).arguments[uses[n][2]].address
                                 THEN "address_of_resource" ELSE "resource",
                  sequence |-> <<producer.f.name>> \o name(n) \o <<last(n).f.name>>,
                  conditions |-> Normalized(last(n).conditions, v), path |-> PathKind(last(n)),
                  nullable |-> IsNullable(last(n).conditions, v)]
             ends == {m \in DOMAIN uses :
                         /\ IsCleanup(body[uses[m][1]])
                         /\ kind = "reference_count" => body[uses[m][1]].f.unrefs}
  <1>1. F = {<<n, pattern(n)>> : n \in ends}
    BY DEF PatternsOf
  <1>2. body \in Seq(C) /\ uses \in Seq(X)
    BY UntilRedefinedType, UsesType
  <1>3. /\ DOMAIN uses = 1..Len(uses) /\ Len(uses) \in Nat
        /\ \A n \in DOMAIN uses : uses[n] \in X
    BY <1>2
  <1>4. \A u \in X : IsCallOf(body[u[1]], functions)
    BY <1>2 DEF AreCallsOf
  <1>5. ASSUME NEW n \in DOMAIN uses
        PROVE  /\ before(n) \in Seq(X) /\ DOMAIN before(n) = 1..Len(before(n)) /\ Len(before(n)) \in Nat
               /\ \A k \in 1..Len(before(n)) : before(n)[k] \in X
    <2> HIDE DEF uses, X, body
    <2>1. n - 1 \in Nat /\ \A m \in 1..(n - 1) : uses[m] \in X
      BY <1>3
    <2>2. \A m \in 1..(n - 1) : parts(n)[m] \in Seq(X)
      BY <2>1
    <2>3. parts(n) \in [1..(n - 1) -> Seq(X)]
      BY <2>2
    <2> HIDE DEF parts
    <2>4. parts(n) \in Seq(Seq(X))
      BY <2>1, <2>3
    <2>5. before(n) \in Seq(X)
      BY <2>4, FlattenSum
    <2> HIDE DEF before
    <2>6. QED
      BY <2>5
  <1> HIDE DEF parts, X
  <1>6. ASSUME NEW n \in DOMAIN uses
        PROVE  IsPatternOf(pattern(n), functions)
    <2> DEFINE q == pattern(n)
               b == before(n)
               N == {f.name : f \in functions}
    <2>1. /\ DOMAIN b = 1..Len(b) /\ Len(b) \in Nat
          /\ \A k \in 1..Len(b) : body[b[k][1]].f \in functions
          /\ producer.f \in functions /\ last(n).f \in functions
      BY <1>3, <1>4, <1>5 DEF IsCallOf, AreCallsOf
    <2> HIDE DEF before, uses, body, last, name
    <2>2. /\ q.producer = producer.f.id /\ q.cleanup = last(n).f.id
          /\ q.consumers = [k \in 1..Len(b) |-> body[b[k][1]].f.id]
          /\ q.sequence = <<producer.f.name>> \o name(n) \o <<last(n).f.name>>
          /\ PatternFields \subseteq DOMAIN q
      BY <2>1 DEF PatternFields
    <2>3. name(n) = [k \in 1..Len(b) |-> body[b[k][1]].f.name]
      BY <2>1 DEF name
    <2> HIDE DEF q, b, pattern
    <2>4. name(n) \in Seq(N) /\ Len(name(n)) = Len(b)
      BY <2>1, <2>3
    <2>5. /\ q.consumers \in Seq({f.id : f \in functions}) /\ Len(q.consumers) = Len(b)
          /\ \A k \in 1..Len(b) : q.consumers[k] = body[b[k][1]].f.id
      BY <2>1, <2>2
    <2> DEFINE s == name(n)
               P == producer.f.name
               E == last(n).f.name
    <2>6. P \in N /\ E \in N
      BY <2>1
    <2> HIDE DEF N, s, P, E
    <2>7. /\ <<P>> \o s \o <<E>> \in Seq(N) /\ Len(<<P>> \o s \o <<E>>) = Len(s) + 2
          /\ (<<P>> \o s \o <<E>>)[1] = P /\ (<<P>> \o s \o <<E>>)[Len(s) + 2] = E
          /\ \A k \in 1..Len(s) : (<<P>> \o s \o <<E>>)[k + 1] = s[k]
      BY <2>4, <2>6 DEF s
    <2>10. q.sequence = <<P>> \o s \o <<E>> /\ Len(s) = Len(b) /\ \A k \in 1..Len(b) : s[k] = body[b[k][1]].f.name
      BY <2>2, <2>3, <2>4 DEF s, P, E
    <2>8. /\ q.sequence \in Seq(N) /\ Len(q.sequence) = Len(b) + 2
          /\ q.sequence[1] = P /\ q.sequence[Len(b) + 2] = E
          /\ \A k \in 1..Len(b) : q.sequence[k + 1] = body[b[k][1]].f.name
      BY <2>10, <2>7
    <2>9. IsPatternOf(q, functions)
      <3>1. \E p \in functions, e \in functions :
              /\ q.producer = p.id /\ q.sequence[1] = p.name
              /\ q.cleanup = e.id /\ q.sequence[Len(q.consumers) + 2] = e.name
        BY <2>1, <2>2, <2>5, <2>8 DEF P, E
      <3>2. \A k \in 1..Len(q.consumers) :
              \E f \in functions : f.id = q.consumers[k] /\ f.name = q.sequence[k + 1]
        BY <2>1, <2>5, <2>8
      <3>3. QED
        BY <3>1, <3>2, <2>2, <2>5, <2>8 DEF IsPatternOf, N
    <2>11. QED
      BY <2>9 DEF q
  <1>7. IsFiniteSet(F)
    <2> DEFINE G == [n \in ends |-> <<n, pattern(n)>>]
    <2>1. IsFiniteSet(ends)
      <3> HIDE DEF uses
      <3>1. ends \in SUBSET (DOMAIN uses)
        OBVIOUS
      <3> HIDE DEF ends
      <3>2. QED
        BY <1>2, <3>1, FinitePlaces
    <2> HIDE DEF ends, pattern
    <2>2. F = {G[n] : n \in ends} /\ DOMAIN G = ends
      BY <1>1
    <2> HIDE DEF G
    <2>3. QED
      BY <2>1, <2>2, FiniteImage
  <1>8. \A o \in F : IsPatternOf(o[2], functions)
    <2> HIDE DEF pattern, uses
    <2>1. QED
      BY <1>1, <1>6
  <1>9. QED
    BY <1>7, <1>8

(* A made value gives finitely many patterns.                               *)
LEMMA PatternsOfCall ==
    ASSUME NEW functions, NEW C, AreCallsOf(C, functions), NEW body \in Seq(C), NEW k \in DOMAIN body
    PROVE  LET F == OwnedPatterns(body, k) \cup RetainedPatterns(body, k) IN
           IsFiniteSet(F) /\ \A o \in F : IsPatternOf(o[2], functions)
  <1> DEFINE call == body[k]
             args == call.arguments
             rest == SubSeq(body, k + 1, Len(body))
             made(m) == PatternsOf(call, "owned_resource", m[2],
                          IF m[3] = 0 THEN "return_value" ELSE "out_parameter", m[3], m[1], rest)
             kept(i) == PatternsOf(call, "reference_count",
                          IF i \in DOMAIN call.f.parameters THEN call.f.parameters[i].base ELSE "unknown",
                          "existing_argument", i, CHOOSE v \in call.arguments[i].variables : TRUE, rest)
             M == Made(call)
             K == {j \in DOMAIN args : Cardinality(args[j].variables) = 1}
  <1>1. k \in 1..Len(body) /\ Len(body) \in Nat /\ call \in C
    OBVIOUS
  <1>2. rest \in Seq(C)
    <2>1. \A i \in (k + 1)..Len(body) : body[i] \in C
      BY <1>1
    <2>2. k + 1 \in Int
      BY <1>1
    <2>3. QED
      BY <1>1, <2>1, <2>2, SubSeqProperties
  <1>3. args \in Seq(ToSet(args))
    BY <1>1 DEF AreCallsOf, IsCallOf
  <1>4. OwnedPatterns(body, k) = UNION {made(m) : m \in M}
    BY DEF OwnedPatterns
  <1>5. RetainedPatterns(body, k) = {} \/ RetainedPatterns(body, k) = UNION {kept(i) : i \in K}
    BY DEF RetainedPatterns
  <1>6. IsFiniteSet(M)
    <2> DEFINE J == {j \in DOMAIN args : MakesByAddress(call, j) /\ Cardinality(args[j].variables) = 1}
               G == [i \in J |-> <<CHOOSE v \in args[i].variables : TRUE, call.f.parameters[i].base, i>>]
               one == IF /\ call.result # NoVariable
                         /\ call.f.depth > 0 \/ call.f.returnStruct \/ call.f.returnOpaque
                      THEN {<<call.result, call.f.returns, 0>>} ELSE {}
    <2>1. IsFiniteSet(J)
      <3>1. J \in SUBSET (DOMAIN args)
        OBVIOUS
      <3> HIDE DEF J, args
      <3>2. QED
        BY <1>3, <3>1, FinitePlaces
    <2>2. M = one \cup {G[i] : i \in J} /\ DOMAIN G = J
      BY DEF Made
    <2>3. IsFiniteSet(one)
      BY FS_EmptySet, FS_Singleton
    <2> HIDE DEF J, G, one, M
    <2>4. IsFiniteSet({G[i] : i \in J})
      BY <2>1, <2>2, FiniteImage
    <2>5. QED
      BY <2>2, <2>3, <2>4, FS_Union
  <1>7. IsFiniteSet(K)
    <2>1. K \in SUBSET (DOMAIN args)
      OBVIOUS
    <2> HIDE DEF K, args
    <2>2. QED
      BY <1>3, <2>1, FinitePlaces
  <1> HIDE DEF call, rest, M, K
  <1>8. ASSUME NEW m \in M
        PROVE  IsFiniteSet(made(m)) /\ \A o \in made(m) : IsPatternOf(o[2], functions)
    BY <1>1, <1>2, PatternsOfValue
  <1>9. ASSUME NEW i \in K
        PROVE  IsFiniteSet(kept(i)) /\ \A o \in kept(i) : IsPatternOf(o[2], functions)
    BY <1>1, <1>2, PatternsOfValue
  <1> HIDE DEF made, kept
  <1>10. IsFiniteSet(UNION {made(m) : m \in M})
    <2> DEFINE F == [m \in M |-> made(m)]
    <2>1. DOMAIN F = M /\ {F[m] : m \in M} = {made(m) : m \in M} /\ \A m \in M : IsFiniteSet(F[m])
      BY <1>8
    <2> HIDE DEF F
    <2>2. IsFiniteSet(UNION {F[m] : m \in M})
      BY <1>6, <2>1, FiniteUnion
    <2>3. QED
      BY <2>1, <2>2
  <1>11. IsFiniteSet(UNION {kept(i) : i \in K})
    <2> DEFINE F == [i \in K |-> kept(i)]
    <2>1. DOMAIN F = K /\ {F[i] : i \in K} = {kept(i) : i \in K} /\ \A i \in K : IsFiniteSet(F[i])
      BY <1>9
    <2> HIDE DEF F
    <2>2. IsFiniteSet(UNION {F[i] : i \in K})
      BY <1>7, <2>1, FiniteUnion
    <2>3. QED
      BY <2>1, <2>2
  <1>12. IsFiniteSet(OwnedPatterns(body, k) \cup RetainedPatterns(body, k))
    <2>1. IsFiniteSet(OwnedPatterns(body, k)) /\ IsFiniteSet(RetainedPatterns(body, k))
      BY <1>4, <1>5, <1>10, <1>11, FS_EmptySet
    <2>2. QED
      BY <2>1, FS_Union
  <1>13. \A o \in OwnedPatterns(body, k) \cup RetainedPatterns(body, k) : IsPatternOf(o[2], functions)
    <2>1. \A o \in OwnedPatterns(body, k) : \E m \in M : o \in made(m)
      BY <1>4
    <2>2. \A o \in RetainedPatterns(body, k) : \E i \in K : o \in kept(i)
      BY <1>5
    <2>3. QED
      BY <2>1, <2>2, <1>8, <1>9
  <1>14. QED
    BY <1>12, <1>13

(* So does a body.                                                          *)
LEMMA PatternsOfBody ==
    ASSUME NEW functions, NEW C, AreCallsOf(C, functions), NEW body \in Seq(C)
    PROVE  /\ IsFiniteSet(Observations(body))
           /\ \A o \in Observations(body) : IsPatternOf(o[3], functions)
  <1> DEFINE found(k) == OwnedPatterns(body, k) \cup RetainedPatterns(body, k)
             at(k) == {<<k, o[1], o[2]>> : o \in found(k)}
             F == [k \in DOMAIN body |-> at(k)]
  <1>1. Observations(body) = UNION {at(k) : k \in DOMAIN body}
    BY DEF Observations
  <1>2. ASSUME NEW k \in DOMAIN body
        PROVE  IsFiniteSet(found(k)) /\ \A o \in found(k) : IsPatternOf(o[2], functions)
    BY PatternsOfCall
  <1> HIDE DEF found
  <1>3. ASSUME NEW k \in DOMAIN body
        PROVE  IsFiniteSet(at(k))
    <2> DEFINE S == found(k)
               G == [o \in S |-> <<k, o[1], o[2]>>]
    <2>1. DOMAIN G = S /\ at(k) = {G[o] : o \in S} /\ IsFiniteSet(S)
      BY <1>2
    <2> HIDE DEF G, S
    <2>2. QED
      BY <2>1, FiniteImage
  <1>4. \A k \in DOMAIN body : \A o \in at(k) : IsPatternOf(o[3], functions)
    BY <1>2
  <1> HIDE DEF at
  <1>5. IsFiniteSet(DOMAIN body)
    BY FinitePlaces
  <1>6. DOMAIN F = DOMAIN body /\ {F[k] : k \in DOMAIN body} = {at(k) : k \in DOMAIN body}
        /\ \A k \in DOMAIN body : IsFiniteSet(F[k])
    BY <1>3
  <1> HIDE DEF F
  <1>7. IsFiniteSet(UNION {F[k] : k \in DOMAIN body})
    <2> DEFINE D == DOMAIN body
    <2> HIDE DEF D
    <2>1. IsFiniteSet(D) /\ DOMAIN F = D /\ \A k \in D : IsFiniteSet(F[k])
      BY <1>5, <1>6 DEF D
    <2>2. IsFiniteSet(UNION {F[k] : k \in D})
      BY <2>1, FiniteUnion
    <2>3. QED
      BY <2>2 DEF D
  <1>8. QED
    BY <1>1, <1>4, <1>6, <1>7

(* A set of functions numbered by their ranks has a first one.              *)
LEMMA FirstByRank ==
    ASSUME NEW pool, pool # {}, \A f \in pool : f.rank \in Nat
    PROVE  \E f \in pool : \A g \in pool : f.rank <= g.rank
  <1> DEFINE ranks == {f.rank : f \in pool}
  <1>1. ranks \in SUBSET Nat /\ ranks # {}
    OBVIOUS
  <1>2. PICK r \in ranks : \A s \in ranks : r <= s
    <2> HIDE DEF ranks
    <2>1. QED
      BY <1>1, LeastElement
  <1>3. QED
    BY <1>2

(* A name is resolved to a function of that name.                           *)
LEMMA VisibleFacts ==
    ASSUME NEW functions, \A f \in functions : f.rank \in Nat, NEW caller,
           NEW name \in {f.name : f \in functions}
    PROVE  Visible(functions, caller, name) \in functions
  <1> DEFINE named == {f \in functions : f.name = name}
             defined == {f \in named : f.defined}
             sameFile == {f \in defined : f.file = caller.file}
             external == {f \in defined : ~f.static}
             pool == IF sameFile # {} THEN sameFile
                     ELSE IF external # {} THEN external
                     ELSE IF defined # {} THEN defined ELSE named
  <1>1. pool # {} /\ pool \subseteq functions
    OBVIOUS
  <1>2. Visible(functions, caller, name) = CHOOSE f \in pool : \A g \in pool : f.rank <= g.rank
    BY DEF Visible
  <1> HIDE DEF pool
  <1>3. \E f \in pool : \A g \in pool : f.rank <= g.rank
    BY <1>1, FirstByRank
  <1>4. Visible(functions, caller, name) \in pool
    BY <1>2, <1>3
  <1>5. QED
    BY <1>1, <1>4

(* A finite set is put in a sequence.                                       *)
LEMMA SetToSeqFacts ==
    ASSUME NEW S, IsFiniteSet(S)
    PROVE  /\ Cardinality(S) \in Nat
           /\ SetToSeq(S) \in [1..Cardinality(S) -> S]
           /\ \A i, j \in 1..Cardinality(S) : SetToSeq(S)[i] = SetToSeq(S)[j] => i = j
  <1> DEFINE n == Cardinality(S)
  <1>1. n \in Nat /\ ExistsBijection(1..n, S)
    BY FS_CardinalityType
  <1>2. \E f \in [1..n -> S] : IsInjective(f)
    BY <1>1 DEF ExistsBijection, Bijection, Injection
  <1>3. SetToSeq(S) \in [1..n -> S] /\ IsInjective(SetToSeq(S))
    BY <1>2 DEF SetToSeq
  <1>4. QED
    BY <1>1, <1>3 DEF IsInjective

(* The patterns of a project, numbered.                                     *)
ArePatterns(S, functions) ==
    /\ IsFiniteSet(S)
    /\ \A q \in S : q.id \in Nat /\ IsPatternOf(q, functions)
    /\ \A q, r \in S : q.id = r.id => q = r

(* Mining gives finitely many patterns, each with a number of its own.      *)
LEMMA MinedFacts ==
    ASSUME NEW i \in DOMAIN Projects
    PROVE  ArePatterns(MinedIn[i], ToSet(Projects[i].functions))
  <1> DEFINE functions == ToSet(Projects[i].functions)
             bodies == Projects[i].bodies
             at(b) == {<<b, o[1], o[2], o[3]>> : o \in Observations(Resolved(functions, bodies[b]))}
             observed == UNION {at(b) : b \in DOMAIN bodies}
             found == {o[4] : o \in observed}
             patterns == SetToSeq(found)
             numbered(n) == [patterns[n] EXCEPT !.id = n,
                               !.support = Cardinality({o \in observed : o[4] = patterns[n]})]
  <1>1. MinedIn[i] = {numbered(n) : n \in DOMAIN patterns}
    BY DEF MinedIn, MinedPatterns
  <1>2. /\ bodies \in Seq(ToSet(bodies)) /\ \A f \in functions : f.rank \in Nat
        /\ \A body \in ToSet(bodies) :
              /\ body.calls \in Seq(ToSet(body.calls))
              /\ \A call \in ToSet(body.calls) :
                    /\ call.name \in {f.name : f \in functions}
                    /\ call.arguments \in Seq(ToSet(call.arguments))
    BY ProjectsAssumption
  <1> HIDE DEF functions, bodies
  <1>3. ASSUME NEW b \in DOMAIN bodies
        PROVE  /\ IsFiniteSet(Observations(Resolved(functions, bodies[b])))
               /\ \A o \in Observations(Resolved(functions, bodies[b])) : IsPatternOf(o[3], functions)
    <2> DEFINE body == bodies[b]
               calls2 == body.calls
               res == Resolved(functions, body)
               C == {res[k] : k \in DOMAIN calls2}
    <2>1. body \in ToSet(bodies)
      BY DEF ToSet
    <2>2. calls2 \in Seq(ToSet(calls2)) /\ \A k \in DOMAIN calls2 : calls2[k] \in ToSet(calls2)
      BY <2>1, <1>2 DEF ToSet
    <2>3. DOMAIN calls2 = 1..Len(calls2) /\ Len(calls2) \in Nat
      BY <2>2
    <2>4. ASSUME NEW k \in DOMAIN calls2
          PROVE  IsCallOf(res[k], functions)
      <3>1. /\ calls2[k].name \in {f.name : f \in functions}
            /\ calls2[k].arguments \in Seq(ToSet(calls2[k].arguments))
        BY <2>1, <2>2, <1>2
      <3>2. /\ res[k].f = Visible(functions, body.caller, calls2[k].name)
            /\ res[k].arguments = calls2[k].arguments
        BY DEF Resolved
      <3>3. Visible(functions, body.caller, calls2[k].name) \in functions
        BY <3>1, <1>2, VisibleFacts
      <3>4. QED
        BY <3>1, <3>2, <3>3 DEF IsCallOf
    <2>5. res \in [1..Len(calls2) -> C]
      BY <2>3 DEF Resolved
    <2>6. AreCallsOf(C, functions)
      BY <2>4 DEF AreCallsOf
    <2> HIDE DEF C, res, calls2, body
    <2>7. res \in Seq(C)
      BY <2>3, <2>5
    <2>8. QED
      BY <2>6, <2>7, PatternsOfBody DEF res, body
  <1>4. ASSUME NEW b \in DOMAIN bodies
        PROVE  IsFiniteSet(at(b)) /\ \A o \in at(b) : IsPatternOf(o[4], functions)
    <2> DEFINE S == Observations(Resolved(functions, bodies[b]))
               G == [o \in S |-> <<b, o[1], o[2], o[3]>>]
    <2>1. DOMAIN G = S /\ at(b) = {G[o] : o \in S} /\ IsFiniteSet(S)
      BY <1>3
    <2>2. \A o \in at(b) : IsPatternOf(o[4], functions)
      BY <1>3
    <2> HIDE DEF G, S, at
    <2>3. IsFiniteSet(at(b))
      BY <2>1, FiniteImage
    <2>4. QED
      BY <2>2, <2>3
  <1> HIDE DEF at
  <1>5. IsFiniteSet(observed)
    <2> DEFINE D == DOMAIN bodies
               F == [b \in D |-> at(b)]
    <2>1. IsFiniteSet(D)
      BY <1>2, FinitePlaces
    <2>2. DOMAIN F = D /\ {F[b] : b \in D} = {at(b) : b \in D} /\ \A b \in D : IsFiniteSet(F[b])
      BY <1>4
    <2> HIDE DEF F, D
    <2>3. IsFiniteSet(UNION {F[b] : b \in D})
      BY <2>1, <2>2, FiniteUnion
    <2>4. QED
      BY <2>2, <2>3 DEF D
  <1>6. \A o \in observed : IsPatternOf(o[4], functions)
    BY <1>4
  <1> HIDE DEF observed
  <1>7. IsFiniteSet(found)
    <2> DEFINE G == [o \in observed |-> o[4]]
    <2>1. DOMAIN G = observed /\ found = {G[o] : o \in observed}
      OBVIOUS
    <2> HIDE DEF G, found
    <2>2. QED
      BY <1>5, <2>1, FiniteImage
  <1>8. \A q \in found : IsPatternOf(q, functions)
    BY <1>6
  <1> HIDE DEF found
  <1> DEFINE m == Cardinality(found)
  <1>9. m \in Nat /\ patterns \in [1..m -> found]
    BY <1>7, SetToSeqFacts
  <1> HIDE DEF patterns, m
  <1>10. ASSUME NEW n \in 1..m
         PROVE  numbered(n).id = n /\ IsPatternOf(numbered(n), functions)
    <2> DEFINE q == patterns[n]
               c == Cardinality({o \in observed : o[4] = patterns[n]})
               r == [q EXCEPT !.id = n, !.support = c]
    <2>1. IsPatternOf(q, functions)
      BY <1>8, <1>9
    <2> HIDE DEF q, c
    <2>2. PatternFields \subseteq DOMAIN q
      BY <2>1 DEF IsPatternOf
    <2>3. /\ DOMAIN r = DOMAIN q /\ r.id = n /\ r.producer = q.producer /\ r.cleanup = q.cleanup
          /\ r.sequence = q.sequence /\ r.consumers = q.consumers
      BY <2>2 DEF PatternFields
    <2> HIDE DEF r
    <2>4. IsPatternOf(r, functions)
      BY <2>1, <2>3 DEF IsPatternOf
    <2>5. QED
      BY <2>3, <2>4 DEF r, q, c
  <1>11. DOMAIN patterns = 1..m
    BY <1>9
  <1> HIDE DEF numbered
  <1>12. IsFiniteSet({numbered(n) : n \in 1..m})
    <2> DEFINE D == 1..m
               F == [n \in D |-> numbered(n)]
    <2>1. IsFiniteSet(D)
      BY <1>9, FS_Interval
    <2>2. DOMAIN F = D /\ {F[n] : n \in D} = {numbered(n) : n \in D}
      OBVIOUS
    <2> HIDE DEF F, D
    <2>3. IsFiniteSet({F[n] : n \in D})
      BY <2>1, <2>2, FiniteImage
    <2>4. QED
      BY <2>2, <2>3 DEF D
  <1>13. /\ \A q \in MinedIn[i] : \E n \in 1..m : q = numbered(n)
         /\ IsFiniteSet(MinedIn[i])
    BY <1>1, <1>11, <1>12
  <1>14. \A q \in MinedIn[i] : q.id \in Nat /\ IsPatternOf(q, functions)
    BY <1>9, <1>10, <1>13
  <1>15. \A q, r \in MinedIn[i] : q.id = r.id => q = r
    BY <1>10, <1>13
  <1>16. QED
    BY <1>13, <1>14, <1>15 DEF ArePatterns, functions

-----------------------------------------------------------------------------
(* The requests the review may make.                                        *)

(* One more number in front adds itself to the sum.                         *)
LEMMA TotalPrepend ==
    ASSUME NEW n \in Nat, NEW s \in [1..n -> Int], NEW t \in [1..(n + 1) -> Int], NEW v \in Int,
           t[1] = v, \A k \in 1..n : t[k + 1] = s[k]
    PROVE  Total(t) = v + Total(s) /\ Total(s) \in Int
  <1>1. PICK p : IsPrefixSum(p, n, s) /\ p[n] = Total(s)
    BY PrefixSums
  <1>2. PICK q : IsPrefixSum(q, n + 1, t) /\ q[n + 1] = Total(t)
    BY PrefixSums
  <1> DEFINE Good == {k \in 0..n : q[k + 1] = v + p[k]}
  <1>3. 0 \in Good
    <2>1. 1 \in 1..(n + 1) /\ q[1] = q[1 - 1] + t[1] /\ q[0] = 0 /\ p[0] = 0
      BY <1>1, <1>2 DEF IsPrefixSum
    <2>2. QED
      BY <2>1
  <1>4. ASSUME NEW k \in 1..n, k - 1 \in Good
        PROVE  k \in Good
    <2>1. k + 1 \in 1..(n + 1) /\ k \in 0..n /\ k - 1 \in 0..n /\ (k + 1) - 1 = k /\ (k - 1) + 1 = k
      OBVIOUS
    <2>2. p[k] = p[k - 1] + s[k] /\ q[k + 1] = q[k] + t[k + 1]
      BY <2>1, <1>1, <1>2 DEF IsPrefixSum
    <2>3. q[k] = v + p[k - 1]
      BY <1>4, <2>1
    <2>4. p[k - 1] \in Int /\ s[k] \in Int /\ t[k + 1] = s[k]
      BY <2>1, <1>1 DEF IsPrefixSum
    <2>5. QED
      BY <2>1, <2>2, <2>3, <2>4, SMTT(30)
  <1>5. \A k \in 0..n : k \in Good
    <2> HIDE DEF Good
    <2>1. QED
      BY <1>3, <1>4, IntervalInduction
  <1>6. n \in 0..n /\ p[n] \in Int
    BY <1>1 DEF IsPrefixSum
  <1>7. QED
    BY <1>1, <1>2, <1>5, <1>6

(* A request may cost several; half and half cost one less than the whole.  *)
LEMMA WorstArithmetic ==
    ASSUME NEW r \in Nat
    PROVE  /\ (2 + r) * 1 - 1 = r + 1
           /\ \A a \in Nat \ {0} : (2 + r) * a - 1 \in Nat \ {0}
           /\ \A a, b \in Nat \ {0} : (2 + r) * (a + b) - 1 = 1 + ((2 + r) * a - 1) + ((2 + r) * b - 1)
  <1>1. (2 + r) * 1 - 1 = r + 1
    OBVIOUS
  <1>2. ASSUME NEW a \in Nat \ {0}
        PROVE  (2 + r) * a - 1 \in Nat \ {0}
    <2>1. (2 + r) * a = a + a + r * a /\ r * a \in Nat
      OBVIOUS
    <2>2. QED
      BY <2>1
  <1>3. ASSUME NEW a \in Nat \ {0}, NEW b \in Nat \ {0}
        PROVE  (2 + r) * (a + b) - 1 = 1 + ((2 + r) * a - 1) + ((2 + r) * b - 1)
    <2>1. (2 + r) * (a + b) = (2 + r) * a + (2 + r) * b /\ (2 + r) * a \in Nat /\ (2 + r) * b \in Nat
      OBVIOUS
    <2>2. QED
      BY <2>1
  <1>4. QED
    BY <1>1, <1>2, <1>3

(* What a failure makes of a request costs less than the request.           *)
LEMMA WorstFacts ==
    ASSUME NEW ids, NEW request \in RequestsOver(ids)
    PROVE  /\ Worst(request) \in Nat \ {0}
           /\ Len(request.batch) = 1 /\ request.retries > 0 =>
                 Worst(request) = 1 + Worst([batch |-> request.batch, retries |-> request.retries - 1])
           /\ \A a, b \in Seq(ids) \ {<<>>} :
                 Len(request.batch) = Len(a) + Len(b) =>
                    Worst(request) = 1 + Worst([batch |-> a, retries |-> Retries])
                                       + Worst([batch |-> b, retries |-> Retries])
  <1> DEFINE n == Len(request.batch)
             whole(k) == (2 + Retries) * k - 1
  <1>1. /\ request.batch \in Seq(ids) /\ request.batch # <<>> /\ request.retries \in Nat /\ Retries \in Nat
    BY UsageReviewAssumption DEF RequestsOver
  <1>2. \A s \in Seq(ids) \ {<<>>} : Len(s) \in Nat \ {0}
    <2>1. ASSUME NEW s \in Seq(ids) \ {<<>>}
          PROVE  Len(s) \in Nat \ {0}
      BY EmptySeq
    <2>2. QED
      BY <2>1
  <1>3. /\ whole(1) = Retries + 1
        /\ \A a \in Nat \ {0} : whole(a) \in Nat \ {0}
        /\ \A a, b \in Nat \ {0} : whole(a + b) = 1 + whole(a) + whole(b)
    BY <1>1, WorstArithmetic
  <1>4. Worst(request) = IF n = 1 THEN request.retries + 1 ELSE whole(n)
    BY DEF Worst
  <1>5. n \in Nat \ {0}
    BY <1>1, <1>2
  <1>6. ASSUME NEW s \in Seq(ids) \ {<<>>}
        PROVE  Worst([batch |-> s, retries |-> Retries]) = whole(Len(s))
    <2>1. Worst([batch |-> s, retries |-> Retries]) = IF Len(s) = 1 THEN Retries + 1 ELSE whole(Len(s))
      BY DEF Worst
    <2> HIDE DEF whole
    <2>2. QED
      BY <2>1, <1>3
  <1> HIDE DEF whole
  <1>7. Worst(request) \in Nat \ {0}
    <2> HIDE DEF n
    <2>1. whole(n) \in Nat \ {0}
      BY <1>3, <1>5
    <2>2. \A r \in Nat : r + 1 \in Nat \ {0}
      OBVIOUS
    <2>3. request.retries + 1 \in Nat \ {0}
      BY <1>1, <2>2
    <2>4. QED
      BY <2>1, <2>3, <1>4
  <1>8. ASSUME n = 1, request.retries > 0
        PROVE  Worst(request) = 1 + Worst([batch |-> request.batch, retries |-> request.retries - 1])
    <2>1. Worst([batch |-> request.batch, retries |-> request.retries - 1]) = (request.retries - 1) + 1
      BY <1>8 DEF Worst
    <2>2. QED
      BY <2>1, <1>1, <1>4, <1>8
  <1>9. ASSUME NEW a \in Seq(ids) \ {<<>>}, NEW b \in Seq(ids) \ {<<>>}, n = Len(a) + Len(b)
        PROVE  Worst(request) = 1 + Worst([batch |-> a, retries |-> Retries])
                                  + Worst([batch |-> b, retries |-> Retries])
    <2>1. Len(a) \in Nat \ {0} /\ Len(b) \in Nat \ {0}
      BY <1>2
    <2> HIDE DEF n
    <2>2. n # 1
      BY <2>1, <1>9
    <2>3. Worst(request) = whole(Len(a) + Len(b))
      BY <2>2, <1>4, <1>9
    <2>4. QED
      BY <2>1, <2>3, <1>3, <1>6
  <1>10. QED
    BY <1>7, <1>8, <1>9

(* A request costs a number.                                                *)
LEMMA WorstType ==
    ASSUME NEW ids
    PROVE  \A request \in RequestsOver(ids) : Worst(request) \in Nat \ {0}
  <1>1. ASSUME NEW request \in RequestsOver(ids)
        PROVE  Worst(request) \in Nat \ {0}
    BY WorstFacts
  <1>2. QED
    BY <1>1

(* What is left of the requests costs what is left of their number.         *)
LEMMA WorstOfQueue ==
    ASSUME NEW ids, NEW request \in RequestsOver(ids), NEW rest \in Seq(RequestsOver(ids))
    PROVE  /\ WorstOf(rest) \in Int
           /\ WorstOf(<<request>> \o rest) = Worst(request) + WorstOf(rest)
  <1> DEFINE n == Len(rest)
             all == <<request>> \o rest
             s == [i \in DOMAIN rest |-> Worst(rest[i])]
             t == [i \in DOMAIN all |-> Worst(all[i])]
  <1>1. /\ n \in Nat /\ DOMAIN rest = 1..n /\ \A i \in 1..n : rest[i] \in RequestsOver(ids)
        /\ DOMAIN all = 1..(n + 1) /\ all[1] = request
        /\ \A i \in 1..n : all[i + 1] = rest[i]
        /\ \A i \in 1..(n + 1) : all[i] \in RequestsOver(ids)
    <2> DEFINE R == RequestsOver(ids)
    <2> HIDE DEF R
    <2>1. request \in R /\ rest \in Seq(R)
      BY DEF R
    <2>2. all \in Seq(R) /\ Len(all) = n + 1
      BY <2>1
    <2>3. all[1] = request /\ \A i \in 1..n : all[i + 1] = rest[i]
      BY <2>1
    <2> HIDE DEF all
    <2>4. QED
      BY <2>1, <2>2, <2>3 DEF R
  <1> HIDE DEF n, all
  <1>8. \A r \in RequestsOver(ids) : Worst(r) \in Int
    BY WorstType
  <1>2. s \in [1..n -> Int]
    BY <1>1, <1>8
  <1>3. t \in [1..(n + 1) -> Int]
    BY <1>1, <1>8
  <1>4. t[1] = Worst(request) /\ \A k \in 1..n : t[k + 1] = s[k]
    <2>1. 1 \in 1..(n + 1) /\ \A k \in 1..n : k + 1 \in 1..(n + 1)
      BY <1>1
    <2>2. QED
      BY <2>1, <1>1
  <1>5. Worst(request) \in Int
    BY <1>8
  <1>6. WorstOf(rest) = Total(s) /\ WorstOf(all) = Total(t)
    BY DEF WorstOf, Total
  <1> HIDE DEF s, t
  <1>7. Total(t) = Worst(request) + Total(s) /\ Total(s) \in Int
    BY <1>1, <1>2, <1>3, <1>4, <1>5, TotalPrepend
  <1>9. QED
    BY <1>6, <1>7 DEF all

(* The cost of a queue is that of its head and its tail.                    *)
LEMMA WorstOfHead ==
    ASSUME NEW ids, NEW queue \in Seq(RequestsOver(ids)), queue # <<>>
    PROVE  /\ WorstOf(queue) = Worst(Head(queue)) + WorstOf(Tail(queue))
           /\ Worst(Head(queue)) \in Nat \ {0} /\ WorstOf(Tail(queue)) \in Int
  <1> DEFINE R == RequestsOver(ids)
  <1> HIDE DEF R
  <1>1. Head(queue) \in R /\ Tail(queue) \in Seq(R)
    BY HeadTailProperties DEF R
  <1>2. queue = <<Head(queue)>> \o Tail(queue)
    <2>1. queue \in Seq(R)
      BY DEF R
    <2>2. QED
      BY <2>1
  <1>3. QED
    BY <1>1, <1>2, WorstOfQueue, WorstFacts DEF R

-----------------------------------------------------------------------------
(* Parts of sequences.                                                      *)

(* Where the first k elements of s are among the first i of t.              *)
Embedding(g, k, i, s, t) ==
    /\ g \in [1..k -> 1..i]
    /\ \A a \in 1..k : s[a] = t[g[a]]
    /\ \A a, b \in 1..k : a < b => g[a] < g[b]

(* How many elements of s are found once another one of t is read.          *)
Advance(s, t, i, n) == IF n < Len(s) /\ s[n + 1] = t[i] THEN n + 1 ELSE n

(* How many are found in each prefix of t.                                  *)
IsMatch(m, s, t) ==
    /\ m \in [0..Len(t) -> 0..Len(s)]
    /\ m[0] = 0
    /\ \A i \in 1..Len(t) : m[i] = Advance(s, t, i, m[i - 1])

(* The test of a subsequence counts them.                                   *)
LEMMA SubsequenceCounts ==
    ASSUME NEW X, NEW s \in Seq(X), NEW t \in Seq(X)
    PROVE  \E m : IsMatch(m, s, t) /\ (IsSubsequenceOf(s, t) <=> m[Len(t)] = Len(s))
  <1> DEFINE N == Len(t)
             V == 0..Len(s)
             step == [i \in 1..N |-> [v \in V |-> Advance(s, t, i, v)]]
             Body(f) == [i \in 0..N |->
                            IF i = 0 THEN 0
                            ELSE LET n == f[i - 1] IN IF n < Len(s) /\ s[n + 1] = t[i] THEN n + 1 ELSE n]
             chosen == CHOOSE f : f = Body(f)
  <1>1. N \in Nat /\ Len(s) \in Nat /\ 0 \in V
    OBVIOUS
  <1>2. \A i \in 1..N : \A v \in V : Advance(s, t, i, v) \in V
    BY <1>1 DEF Advance
  <1>3. step \in [1..N -> [V -> V]]
    <2> HIDE DEF V, N
    <2>1. QED
      BY <1>2
  <1>4. \A i \in 1..N : \A v \in V : step[i][v] = Advance(s, t, i, v)
    OBVIOUS
  <1> HIDE DEF N, V, step
  <1>5. PICK f \in [0..N -> V] : Climbs(f, N, 0, step)
    BY <1>1, <1>3, LadderExists DEF CanClimb
  <1>6. \A i \in 1..N : i \in 0..N /\ i - 1 \in 0..N /\ i # 0
    BY <1>1
  <1>7. f = Body(f)
    <2>1. \A i \in 1..N : f[i] = Advance(s, t, i, f[i - 1])
      BY <1>4, <1>5, <1>6 DEF Climbs
    <2>2. f[0] = 0
      BY <1>5 DEF Climbs
    <2>3. \A i \in 0..N : i # 0 => i \in 1..N
      BY <1>1
    <2>4. QED
      BY <1>5, <2>1, <2>2, <2>3 DEF Advance
  <1>8. chosen = Body(chosen)
    <2> HIDE DEF Body
    <2>1. QED
      BY <1>7
  <1>9. chosen[0] = 0 /\ \A i \in 1..N : chosen[i] = Advance(s, t, i, chosen[i - 1])
    <2> HIDE DEF chosen
    <2>1. 0 \in 0..N
      BY <1>1
    <2>2. \A i \in 0..N : chosen[i] =
                 IF i = 0 THEN 0
                 ELSE LET n == chosen[i - 1] IN IF n < Len(s) /\ s[n + 1] = t[i] THEN n + 1 ELSE n
      BY <1>8
    <2>3. QED
      BY <2>1, <2>2, <1>6 DEF Advance
  <1>10. chosen = [i \in 0..N |-> chosen[i]]
    <2> HIDE DEF chosen
    <2>1. QED
      BY <1>8
  <1>11. IsSubsequenceOf(s, t) <=> chosen[Len(t)] = Len(s)
    BY DEF IsSubsequenceOf, N
  <1> HIDE DEF chosen
  <1> DEFINE Good == {i \in 0..N : chosen[i] \in V}
  <1>12. 0 \in Good
    BY <1>1, <1>9
  <1>13. ASSUME NEW i \in 1..N, i - 1 \in Good
         PROVE  i \in Good
    <2>1. chosen[i] = Advance(s, t, i, chosen[i - 1]) /\ chosen[i - 1] \in V
      BY <1>9, <1>13
    <2>2. QED
      BY <2>1, <1>2, <1>6
  <1>14. \A i \in 0..N : chosen[i] \in V
    <2> HIDE DEF Good
    <2>1. \A i \in 0..N : i \in Good
      BY <1>1, <1>12, <1>13, IntervalInduction
    <2>2. QED
      BY <2>1 DEF Good
  <1>15. chosen \in [0..N -> V]
    BY <1>10, <1>14
  <1>16. IsMatch(chosen, s, t)
    BY <1>9, <1>15 DEF IsMatch, N, V
  <1>17. QED
    BY <1>11, <1>16

(* A sequence is a subsequence of itself.                                   *)
LEMMA SubsequenceOfItself ==
    ASSUME NEW X, NEW s \in Seq(X)
    PROVE  IsSubsequenceOf(s, s)
  <1>1. PICK m : IsMatch(m, s, s) /\ (IsSubsequenceOf(s, s) <=> m[Len(s)] = Len(s))
    BY SubsequenceCounts
  <1> DEFINE n == Len(s)
             Good == {i \in 0..n : m[i] = i}
  <1>2. n \in Nat /\ 0 \in Good
    BY <1>1 DEF IsMatch
  <1>3. ASSUME NEW i \in 1..n, i - 1 \in Good
        PROVE  i \in Good
    <2>1. m[i] = Advance(s, s, i, m[i - 1]) /\ m[i - 1] = i - 1
      BY <1>1, <1>3 DEF IsMatch
    <2>2. i - 1 < n /\ (i - 1) + 1 = i /\ i \in 0..n
      BY <1>2
    <2>3. QED
      BY <2>1, <2>2 DEF Advance
  <1>4. n \in Good
    <2> HIDE DEF Good, n
    <2>1. \A i \in 0..n : i \in Good
      BY <1>2, <1>3, IntervalInduction
    <2>2. n \in 0..n
      BY <1>2
    <2>3. QED
      BY <2>1, <2>2
  <1>5. QED
    BY <1>1, <1>4

(* Some prefix of s is in each prefix of t.                                 *)
SomewhereIn(k, i, s, t) == \E g : Embedding(g, k, i, s, t)

(* One more element found.                                                  *)
LEMMA EmbeddingGrows ==
    ASSUME NEW k \in Nat, NEW i \in Nat \ {0}, NEW s, NEW t, SomewhereIn(k, i - 1, s, t)
    PROVE  /\ SomewhereIn(k, i, s, t)
           /\ s[k + 1] = t[i] => SomewhereIn(k + 1, i, s, t)
  <1>5. PICK g : Embedding(g, k, i - 1, s, t)
    BY DEF SomewhereIn
  <1>1. \A a \in 1..k : g[a] \in 1..(i - 1) /\ g[a] \in 1..i /\ g[a] < i
    BY <1>5 DEF Embedding
  <1>2. Embedding(g, k, i, s, t)
    BY <1>5, <1>1 DEF Embedding
  <1>3. ASSUME s[k + 1] = t[i]
        PROVE  Embedding([a \in 1..(k + 1) |-> IF a = k + 1 THEN i ELSE g[a]], k + 1, i, s, t)
    <2> DEFINE h == [a \in 1..(k + 1) |-> IF a = k + 1 THEN i ELSE g[a]]
    <2>1. \A a \in 1..(k + 1) : a = k + 1 \/ a \in 1..k
      OBVIOUS
    <2>2. h[k + 1] = i /\ \A a \in 1..k : h[a] = g[a]
      OBVIOUS
    <2>3. h \in [1..(k + 1) -> 1..i]
      BY <1>1, <2>1
    <2> HIDE DEF h
    <2>4. \A a \in 1..(k + 1) : s[a] = t[h[a]]
      BY <1>5, <1>3, <2>1, <2>2 DEF Embedding
    <2>5. ASSUME NEW a \in 1..(k + 1), NEW b \in 1..(k + 1), a < b
          PROVE  h[a] < h[b]
      <3>1. a \in 1..k
        BY <2>5
      <3>2. CASE b = k + 1
        BY <3>1, <3>2, <1>1, <2>2
      <3>3. CASE b \in 1..k
        BY <1>5, <3>1, <3>3, <2>2, <2>5 DEF Embedding
      <3>4. QED
        BY <3>2, <3>3, <2>1
    <2>6. QED
      BY <2>3, <2>4, <2>5 DEF Embedding, h
  <1>4. QED
    BY <1>2, <1>3 DEF SomewhereIn

(* A subsequence can be found in the whole.                                 *)
LEMMA SubsequenceEmbeds ==
    ASSUME NEW X, NEW s \in Seq(X), NEW t \in Seq(X), IsSubsequenceOf(s, t)
    PROVE  SomewhereIn(Len(s), Len(t), s, t)
  <1>1. PICK m : IsMatch(m, s, t) /\ m[Len(t)] = Len(s)
    BY SubsequenceCounts
  <1> DEFINE n == Len(t)
             Good == {i \in 0..n : SomewhereIn(m[i], i, s, t)}
  <1>2. n \in Nat /\ \A i \in 0..n : m[i] \in Nat
    BY <1>1 DEF IsMatch
  <1>3. 0 \in Good
    <2>1. m[0] = 0
      BY <1>1 DEF IsMatch
    <2>2. Embedding(<<>>, 0, 0, s, t)
      BY DEF Embedding
    <2>3. QED
      BY <1>2, <2>1, <2>2 DEF SomewhereIn
  <1>4. ASSUME NEW i \in 1..n, i - 1 \in Good
        PROVE  i \in Good
    <2> DEFINE k == m[i - 1]
    <2>1. i \in 0..n /\ i \in Nat \ {0} /\ i - 1 \in 0..n /\ k \in Nat
      BY <1>2
    <2>2. SomewhereIn(k, i - 1, s, t)
      BY <1>4
    <2>3. m[i] = Advance(s, t, i, k)
      BY <1>1 DEF IsMatch
    <2> HIDE DEF k, n, Good
    <2>4. SomewhereIn(k, i, s, t) /\ (s[k + 1] = t[i] => SomewhereIn(k + 1, i, s, t))
      BY <2>1, <2>2, EmbeddingGrows
    <2>5. SomewhereIn(m[i], i, s, t)
      BY <2>3, <2>4 DEF Advance
    <2>6. QED
      BY <2>1, <2>5 DEF Good
  <1>5. n \in Good
    <2> HIDE DEF Good, n
    <2>1. \A i \in 0..n : i \in Good
      BY <1>2, <1>3, <1>4, IntervalInduction
    <2>2. n \in 0..n
      BY <1>2
    <2>3. QED
      BY <2>1, <2>2
  <1>6. QED
    BY <1>1, <1>5

-----------------------------------------------------------------------------
(* What is known of a reviewed pattern.                                     *)

(* A review requires some of the calls in their order: the first, the last  *)
(* and every call of an entry.                                              *)
IsReviewOf(r, q, isf) ==
    /\ r.required \in Seq(ToSet(q.sequence)) /\ r.required # <<>>
    /\ IsSubsequenceOf(r.required, q.sequence)
    /\ r.required[1] = Head(q.sequence)
    /\ Last(r.required) = Last(q.sequence)
    /\ \A name \in isf \cap ToSet(q.sequence) :
          Occurrences(name, r.required) >= Occurrences(name, q.sequence)

(* A sequence has the elements it has.                                      *)
LEMMA OwnElements ==
    ASSUME NEW X, NEW s \in Seq(X)
    PROVE  s \in Seq(ToSet(s)) /\ ToSet(s) \subseteq X
  <1>1. Len(s) \in Nat /\ DOMAIN s = 1..Len(s) /\ s = [i \in 1..Len(s) |-> s[i]]
    OBVIOUS
  <1>2. \A i \in 1..Len(s) : s[i] \in ToSet(s) /\ s[i] \in X
    BY <1>1 DEF ToSet
  <1>3. s \in [1..Len(s) -> ToSet(s)]
    BY <1>1, <1>2
  <1>4. s \in Seq(ToSet(s))
    BY <1>1, <1>3
  <1>5. QED
    BY <1>2, <1>4 DEF ToSet

(* How often a name occurs is a number.                                     *)
LEMMA OccurrencesType ==
    ASSUME NEW X, NEW s \in Seq(X), NEW name
    PROVE  IsFiniteSet({i \in DOMAIN s : s[i] = name}) /\ Occurrences(name, s) \in Nat
  <1>1. IsFiniteSet({i \in DOMAIN s : s[i] = name})
    BY FinitePlaces
  <1>2. QED
    BY <1>1, FS_CardinalityType DEF Occurrences

(* What the model may require are calls of the pattern.                     *)
LEMMA RequiredType ==
    ASSUME NEW X, NEW q, q.sequence \in Seq(X), NEW raw \in Raw(q)
    PROVE  raw.required \in Seq(ToSet(q.sequence))
  <1> DEFINE s == q.sequence
             N == Len(s)
  <1>1. N \in Nat /\ DOMAIN s = 1..N /\ \A i \in 1..N : s[i] \in ToSet(s)
    BY DEF ToSet
  <1>2. \/ raw.required \in {CallsAt(s, places) : places \in (SUBSET DOMAIN s) \ {{}}}
        \/ raw.required = Reverse(s)
    BY DEF Raw
  <1> HIDE DEF s
  <1>3. ASSUME NEW places \in SUBSET (DOMAIN s)
        PROVE  CallsAt(s, places) \in Seq(ToSet(s))
    <2> DEFINE at == InOrder(places)
               n == Cardinality(places)
    <2>0. 1..N \in SUBSET Int /\ s \in Seq(X)
      BY <1>1 DEF s
    <2>1. IsFiniteSet(places) /\ places \in SUBSET Int
      <3> HIDE DEF N
      <3>1. IsFiniteSet(places)
        BY <2>0, FinitePlaces
      <3>2. QED
        BY <3>1, <1>1, <2>0
    <2>2. n \in Nat /\ at \in [1..n -> places]
      BY <2>1, InOrderFacts
    <2> HIDE DEF at, n
    <2>3. \A k \in 1..n : s[at[k]] \in ToSet(s)
      BY <2>2, <1>1
    <2>4. DOMAIN at = 1..n
      BY <2>2
    <2>5. CallsAt(s, places) = [k \in 1..n |-> s[at[k]]]
      BY <2>4 DEF CallsAt, at
    <2>6. CallsAt(s, places) \in [1..n -> ToSet(s)]
      BY <2>3, <2>5
    <2>7. QED
      BY <2>2, <2>6
  <1>4. Reverse(s) \in Seq(ToSet(s))
    <2> HIDE DEF N
    <2>1. \A i \in 1..N : (N - i) + 1 \in 1..N
      BY <1>1
    <2>2. Reverse(s) = [i \in 1..N |-> s[(N - i) + 1]]
      BY DEF Reverse, N
    <2>3. Reverse(s) \in [1..N -> ToSet(s)]
      BY <1>1, <2>1, <2>2
    <2>4. QED
      BY <1>1, <2>3
  <1>5. QED
    BY <1>2, <1>3, <1>4 DEF s

(* The pattern as mined is a review of itself.                              *)
LEMMA FallbackIsReview ==
    ASSUME NEW X, NEW q, q.sequence \in Seq(X), q.sequence # <<>>, NEW isf, NEW status
    PROVE  IsReviewOf(Fallback(q, status), q, isf)
  <1> DEFINE s == q.sequence
  <1>1. Fallback(q, status).required = s
    BY DEF Fallback
  <1>2. s \in Seq(X) /\ s # <<>>
    OBVIOUS
  <1> HIDE DEF s
  <1>3. s \in Seq(ToSet(s)) /\ IsSubsequenceOf(s, s)
    BY <1>2, OwnElements, SubsequenceOfItself
  <1>4. s[1] = Head(s)
    BY <1>2
  <1>5. ASSUME NEW name
        PROVE  Occurrences(name, s) >= Occurrences(name, s)
    <2>1. Occurrences(name, s) \in Nat
      BY <1>2, OccurrencesType
    <2>2. QED
      BY <2>1
  <1>6. QED
    BY <1>1, <1>2, <1>3, <1>4, <1>5 DEF IsReviewOf, s

(* Whatever the model says, the pattern is reviewed.                        *)
LEMMA ConstrainedIsReview ==
    ASSUME NEW X, NEW q, q.sequence \in Seq(X), q.sequence # <<>>, NEW isf, NEW raw \in Raw(q)
    PROVE  IsReviewOf(Constrained(q, raw, isf), q, isf)
  <1>1. CASE ~IsSafe(q, raw, isf)
    <2>1. Constrained(q, raw, isf) = Fallback(q, "invalid_response")
      BY <1>1 DEF Constrained
    <2>2. QED
      BY <2>1, FallbackIsReview
  <1>2. CASE IsSafe(q, raw, isf)
    <2>1. Constrained(q, raw, isf).required = raw.required
      BY <1>2 DEF Constrained
    <2>2. raw.required \in Seq(ToSet(q.sequence))
      BY RequiredType
    <2>3. QED
      BY <1>2, <2>1, <2>2 DEF IsReviewOf, IsSafe
  <1>3. QED
    BY <1>1, <1>2

-----------------------------------------------------------------------------
(* The artifact directory.                                                  *)

(* Its functions are told apart by their identities and by their ranks, and *)
(* only they are annotated.                                                 *)
FunctionsKnown(p) ==
    /\ p.functions \in Seq(ToSet(p.functions))
    /\ \A f, g \in ToSet(p.functions) : f.id = g.id \/ f.rank = g.rank => f = g
    /\ \A f \in ToSet(p.functions) : f.rank \in Nat /\ f.parameters \in Seq(ToSet(f.parameters))
    /\ DOMAIN p.labels \subseteq {f.id : f \in ToSet(p.functions)}

(* Every edge is one of an annotated function, and says what it is.         *)
EdgesKnown(p) ==
    /\ \A e \in p.edges :
          /\ DOMAIN e = {"source", "target", "id", "labels", "inferred"}
          /\ e.id \in DOMAIN p.labels /\ e.labels = p.labels[e.id]
    /\ IsFiniteSet(Nodes(p.edges))

(* Its usage patterns are those mined, as reviewed and grouped.             *)
UsageKnown(p, patterns) ==
    /\ IsFiniteSet(p.usage)
    /\ \A u \in p.usage :
          /\ u.pattern \in patterns /\ u.pattern.id \in Nat
          /\ IsPatternOf(u.pattern, ToSet(p.functions))
          /\ IsReviewOf(u.review, u.pattern, Names(p, Entries(p)))
          /\ u.pattern.id \in u.members
          /\ \A q \in patterns : q.id \in u.members =>
                \E w \in p.usage :
                   /\ w.pattern = q /\ w.review.required = u.review.required
                   /\ StaticFacts(q) = StaticFacts(u.pattern)
    /\ \A u, w \in p.usage : u.pattern.id = w.pattern.id => u = w

(* Its ownership relations are between its functions.                       *)
IsRelationOf(r, functions) ==
    /\ DOMAIN r = {"producer", "type", "cleanup", "how", "confidence"}
    /\ r.producer \in {f.id : f \in functions} /\ r.cleanup \in {f.id : f \in functions}
    /\ r.confidence \in 0..100

(* All its ownership relations are.                                         *)
OwnershipKnown(p) == \A r \in p.ownership : IsRelationOf(r, ToSet(p.functions))

(* What the extraction can rely on.                                         *)
IsDirectory(p, patterns) ==
    /\ FunctionsKnown(p) /\ EdgesKnown(p) /\ UsageKnown(p, patterns) /\ OwnershipKnown(p)
    /\ p.types \in Seq(ToSet(p.types))

(* A function is found by its identity.                                     *)
LEMMA FunctionFacts ==
    ASSUME NEW p, FunctionsKnown(p)
    PROVE  /\ \A f \in ToSet(p.functions) : Function(p, f.id) = f
           /\ \A id \in DOMAIN p.labels : Function(p, id) \in ToSet(p.functions) /\ Function(p, id).id = id
           /\ Entries(p) \subseteq DOMAIN p.labels
  <1>1. ASSUME NEW f \in ToSet(p.functions)
        PROVE  Function(p, f.id) = f
    <2>1. \E g \in ToSet(p.functions) : g.id = f.id
      OBVIOUS
    <2>2. Function(p, f.id) \in ToSet(p.functions) /\ Function(p, f.id).id = f.id
      BY <2>1 DEF Function
    <2>3. QED
      BY <2>2 DEF FunctionsKnown
  <1>2. \A id \in DOMAIN p.labels : \E f \in ToSet(p.functions) : f.id = id
    BY DEF FunctionsKnown
  <1>3. ASSUME NEW id \in DOMAIN p.labels
        PROVE  Function(p, id) \in ToSet(p.functions) /\ Function(p, id).id = id
    BY <1>1, <1>2
  <1>4. QED
    BY <1>1, <1>3 DEF Entries

(* The project chosen and what the model said of it.                        *)
ProjectInv == project \in DOMAIN Projects /\ annotation \in Projects[project].annotations

(* What is reviewed are patterns.                                           *)
ReviewedInv ==
    /\ DOMAIN reviews \subseteq {q.id : q \in Patterns}
    /\ \A q \in Patterns : q.id \in DOMAIN reviews => IsReviewOf(reviews[q.id], q, EntryNames)

(* A directory as it is built has the functions of the project.             *)
LEMMA BuiltFunctions ==
    ASSUME ProjectInv
    PROVE  /\ Source.functions \in Seq(ToSet(Source.functions))
           /\ \A f, g \in ToSet(Source.functions) : f.id = g.id \/ f.rank = g.rank => f = g
           /\ \A f \in ToSet(Source.functions) : f.rank \in Nat /\ f.parameters \in Seq(ToSet(f.parameters))
           /\ DOMAIN annotation \subseteq {f.id : f \in ToSet(Source.functions)}
           /\ FunctionsKnown(Built)
  <1>1. /\ Source.functions \in Seq(ToSet(Source.functions))
        /\ \A j, k \in DOMAIN Source.functions :
              Source.functions[j].id = Source.functions[k].id
              \/ Source.functions[j].rank = Source.functions[k].rank => j = k
        /\ \A f \in ToSet(Source.functions) : f.rank \in Nat /\ f.parameters \in Seq(ToSet(f.parameters))
        /\ DOMAIN annotation \subseteq {f.id : f \in ToSet(Source.functions)}
    BY ProjectsAssumption DEF ProjectInv, Source
  <1>2. Built.functions = Source.functions /\ DOMAIN Built.labels = DOMAIN annotation
    BY DEF Built, RolesIn
  <1>3. \A f, g \in ToSet(Source.functions) : f.id = g.id \/ f.rank = g.rank => f = g
    BY <1>1 DEF ToSet
  <1>4. QED
    BY <1>1, <1>2, <1>3 DEF FunctionsKnown

(* The structures of one function are finitely many.                        *)
LEMMA FlowFacts ==
    ASSUME NEW f, f.parameters \in Seq(ToSet(f.parameters)), NEW a
    PROVE  /\ IsFiniteSet(Nodes(EdgesOf(Flow(f, a))))
           /\ \A e \in EdgesOf(Flow(f, a)) :
                 /\ DOMAIN e = {"source", "target", "id", "labels", "inferred"}
                 /\ e.id = f.id /\ e.labels = a.labels
  <1> DEFINE flow == Flow(f, a)
             S == {f.parameters[i].base : i \in DOMAIN f.parameters}
             T == S \cup {f.returns, Null}
  <1>1. flow.inputs \subseteq T /\ flow.outputs \subseteq T /\ flow.id = f.id /\ flow.labels = a.labels
    BY DEF Flow
  <1> HIDE DEF flow
  <1>2. IsFiniteSet(S)
    <2> DEFINE D == DOMAIN f.parameters
               F == [i \in D |-> f.parameters[i].base]
    <2>1. IsFiniteSet(D) /\ DOMAIN F = D /\ S = {F[i] : i \in D}
      BY FinitePlaces
    <2> HIDE DEF D, F, S
    <2>2. QED
      BY <2>1, FiniteImage
  <1>3. IsFiniteSet(T)
    <2> HIDE DEF S
    <2>1. IsFiniteSet(S \cup {f.returns})
      BY <1>2, FS_AddElement
    <2>2. T = (S \cup {f.returns}) \cup {Null}
      OBVIOUS
    <2>3. IsFiniteSet((S \cup {f.returns}) \cup {Null})
      BY <2>1, FS_AddElement
    <2>4. QED
      BY <2>2, <2>3
  <1> HIDE DEF S
  <1>4. ASSUME NEW e \in EdgesOf(flow)
        PROVE  /\ DOMAIN e = {"source", "target", "id", "labels", "inferred"}
               /\ e.id = f.id /\ e.labels = a.labels /\ e.source \in T /\ e.target \in T
    <2> DEFINE ends(structs) == IF structs = {} THEN {Null} ELSE structs
    <2>1. PICK q \in ends(flow.inputs) \X ends(flow.outputs) :
             e = [source |-> q[1], target |-> q[2], id |-> flow.id, labels |-> flow.labels,
                  inferred |-> flow.complex]
      BY DEF EdgesOf
    <2>2. q[1] \in T /\ q[2] \in T
      BY <1>1
    <2>3. QED
      BY <2>1, <2>2, <1>1
  <1> HIDE DEF T
  <1>5. Nodes(EdgesOf(flow)) \subseteq T
    BY <1>4 DEF Nodes
  <1>6. IsFiniteSet(Nodes(EdgesOf(flow)))
    BY <1>3, <1>5, FS_Subset
  <1>7. QED
    BY <1>4, <1>6 DEF flow

(* The graph of a directory as it is built.                                 *)
LEMMA BuiltEdges ==
    ASSUME ProjectInv
    PROVE  EdgesKnown(Built)
  <1> DEFINE G == {g \in ToSet(Source.functions) : g.id \in DOMAIN annotation}
             part(f) == EdgesOf(Flow(f, annotation[f.id]))
             F == [f \in G |-> Nodes(part(f))]
  <1>1. /\ Built.edges = UNION {part(f) : f \in G}
        /\ Built.labels = RolesIn(annotation)
    <2>1. Built.edges = Edges({Flow(f, annotation[f.id]) : f \in G})
      BY DEF Built
    <2>2. QED
      BY <2>1 DEF Edges, Built
  <1>2. IsFiniteSet(G)
    <2>1. Source.functions \in Seq(ToSet(Source.functions))
      BY BuiltFunctions
    <2> DEFINE fs == Source.functions
               D == DOMAIN fs
               H == [i \in D |-> fs[i]]
    <2> HIDE DEF fs
    <2>2. IsFiniteSet(D) /\ DOMAIN H = D /\ ToSet(fs) = {H[i] : i \in D}
      BY <2>1, FinitePlaces DEF fs, ToSet
    <2> HIDE DEF D, H
    <2>3. IsFiniteSet(ToSet(fs))
      BY <2>2, FiniteImage
    <2>4. G \subseteq ToSet(fs)
      BY DEF fs
    <2> HIDE DEF G
    <2>5. QED
      BY <2>3, <2>4, FS_Subset
  <1>3. ASSUME NEW f \in G
        PROVE  /\ IsFiniteSet(F[f])
               /\ \A e \in part(f) :
                     /\ DOMAIN e = {"source", "target", "id", "labels", "inferred"}
                     /\ e.id = f.id /\ e.labels = annotation[f.id].labels
    <2>1. f.parameters \in Seq(ToSet(f.parameters))
      BY BuiltFunctions
    <2>2. QED
      BY <2>1, FlowFacts
  <1>4. \A f \in G : f.id \in DOMAIN annotation
    OBVIOUS
  <1>5. DOMAIN F = G /\ \A f \in G : F[f] = Nodes(part(f))
    OBVIOUS
  <1> HIDE DEF F, G, part
  <1>6. IsFiniteSet(UNION {F[f] : f \in G})
    BY <1>2, <1>3, <1>5, FiniteUnion
  <1>7. Nodes(Built.edges) \subseteq UNION {F[f] : f \in G}
    BY <1>1, <1>5 DEF Nodes
  <1>8. IsFiniteSet(Nodes(Built.edges))
    BY <1>6, <1>7, FS_Subset
  <1>9. \A e \in Built.edges :
           /\ DOMAIN e = {"source", "target", "id", "labels", "inferred"}
           /\ e.id \in DOMAIN Built.labels /\ e.labels = Built.labels[e.id]
    BY <1>1, <1>3, <1>4 DEF RolesIn
  <1>10. QED
    BY <1>8, <1>9 DEF EdgesKnown

(* The patterns of the project.                                             *)
LEMMA PatternsFacts ==
    ASSUME ProjectInv
    PROVE  ArePatterns(Patterns, ToSet(Source.functions))
  BY MinedFacts DEF ProjectInv, Patterns, Source

(* Patterns have calls.                                                     *)
LEMMA PatternSequence ==
    ASSUME NEW functions, NEW q, IsPatternOf(q, functions)
    PROVE  /\ q.sequence \in Seq({f.name : f \in functions}) /\ q.sequence # <<>>
           /\ q.consumers \in Seq({f.id : f \in functions})
           /\ Len(q.consumers) \in Nat /\ Len(q.sequence) = Len(q.consumers) + 2
  <1>1. Len(q.consumers) \in Nat /\ Len(q.sequence) = Len(q.consumers) + 2
    BY DEF IsPatternOf
  <1>2. q.sequence # <<>>
    BY <1>1
  <1>3. QED
    BY <1>1, <1>2 DEF IsPatternOf

(* Every pattern has a review, be it that none was made.                    *)
LEMMA ReviewOfFacts ==
    ASSUME ProjectInv, ReviewedInv, NEW q \in Patterns
    PROVE  IsReviewOf(ReviewOf(q), q, EntryNames)
  <1>1. IsPatternOf(q, ToSet(Source.functions))
    BY PatternsFacts DEF ArePatterns
  <1>2. CASE q.id \in DOMAIN reviews
    BY <1>2 DEF ReviewedInv, ReviewOf
  <1>3. CASE q.id \notin DOMAIN reviews
    <2>1. ReviewOf(q) = Fallback(q, "not_reviewed")
      BY <1>3 DEF ReviewOf
    <2> DEFINE N == {f.name : f \in ToSet(Source.functions)}
    <2>2. q.sequence \in Seq(N) /\ q.sequence # <<>>
      BY <1>1, PatternSequence
    <2> HIDE DEF N
    <2>3. IsReviewOf(Fallback(q, "not_reviewed"), q, EntryNames)
      BY <2>2, FallbackIsReview
    <2>4. QED
      BY <2>1, <2>3
  <1>4. QED
    BY <1>2, <1>3

(* The review spares the names of the entries.                              *)
LEMMA BuiltEntries ==
    ASSUME ProjectInv
    PROVE  Names(Built, Entries(Built)) = EntryNames
  <1>1. FunctionsKnown(Built) /\ Built.functions = Source.functions
    BY BuiltFunctions DEF Built
  <1>2. /\ DOMAIN Built.labels = DOMAIN annotation
        /\ \A id \in DOMAIN annotation : Built.labels[id] = annotation[id].labels
    BY DEF Built, RolesIn
  <1>3. /\ \A f \in ToSet(Source.functions) : Function(Built, f.id) = f
        /\ \A id \in DOMAIN annotation : Function(Built, id) \in ToSet(Source.functions) /\ Function(Built, id).id = id
    BY <1>1, <1>2, FunctionFacts
  <1>4. ASSUME NEW name \in Names(Built, Entries(Built))
        PROVE  name \in EntryNames
    <2>1. PICK id \in Entries(Built) : name = Function(Built, id).name
      BY DEF Names
    <2>2. id \in DOMAIN annotation /\ "ISF" \in annotation[id].labels
      BY <2>1, <1>2 DEF Entries
    <2>3. QED
      BY <2>1, <2>2, <1>3 DEF EntryNames
  <1>5. ASSUME NEW name \in EntryNames
        PROVE  name \in Names(Built, Entries(Built))
    <2>1. PICK f \in ToSet(Source.functions) :
             f.id \in DOMAIN annotation /\ "ISF" \in annotation[f.id].labels /\ name = f.name
      BY DEF EntryNames
    <2>2. f.id \in Entries(Built)
      BY <2>1, <1>2 DEF Entries
    <2>3. QED
      BY <2>1, <2>2, <1>3 DEF Names
  <1>6. QED
    BY <1>4, <1>5

(* The usage patterns of a directory as it is built.                        *)
LEMMA BuiltUsage ==
    ASSUME ProjectInv, ReviewedInv
    PROVE  UsageKnown(Built, Patterns)
  <1> DEFINE entry(q) == [pattern |-> q, review |-> ReviewOf(q), members |-> GroupOf(Patterns, q),
                          support |-> MapThenSumSet(LAMBDA r : r.support,
                                         {r \in Patterns : r.id \in GroupOf(Patterns, q)})]
             F == [q \in Patterns |-> entry(q)]
  <1>1. Built.usage = {entry(q) : q \in Patterns}
    BY DEF Built, Reviewed
  <1>2. /\ IsFiniteSet(Patterns)
        /\ \A q \in Patterns : q.id \in Nat /\ IsPatternOf(q, ToSet(Source.functions))
        /\ \A q, r \in Patterns : q.id = r.id => q = r
    BY PatternsFacts DEF ArePatterns
  <1>3. Built.functions = Source.functions
    BY DEF Built
  <1>4. \A q \in Patterns : /\ entry(q).pattern = q /\ entry(q).review = ReviewOf(q)
                            /\ entry(q).members = GroupOf(Patterns, q)
    OBVIOUS
  <1>5. DOMAIN F = Patterns /\ Built.usage = {F[q] : q \in Patterns}
    BY <1>1
  <1> HIDE DEF F, entry
  <1>6. IsFiniteSet(Built.usage)
    BY <1>2, <1>5, FiniteImage
  <1>7. ASSUME NEW q \in Patterns, NEW r \in Patterns, r.id \in GroupOf(Patterns, q)
        PROVE  ReviewOf(r).required = ReviewOf(q).required /\ StaticFacts(r) = StaticFacts(q)
    <2>1. PICK s \in Patterns : GroupKey(s, ReviewOf(s)) = GroupKey(q, ReviewOf(q)) /\ s.id = r.id
      BY <1>7 DEF GroupOf
    <2>2. s = r
      BY <2>1, <1>2
    <2>3. GroupKey(r, ReviewOf(r)) = GroupKey(q, ReviewOf(q))
      BY <2>1, <2>2
    <2>4. QED
      BY <2>3 DEF GroupKey
  <1>8. ASSUME NEW q \in Patterns
        PROVE  q.id \in GroupOf(Patterns, q)
    BY DEF GroupOf
  <1>9. ASSUME NEW u \in Built.usage
        PROVE  /\ u.pattern \in Patterns /\ u.pattern.id \in Nat
               /\ IsPatternOf(u.pattern, ToSet(Built.functions))
               /\ IsReviewOf(u.review, u.pattern, Names(Built, Entries(Built)))
               /\ u.pattern.id \in u.members
               /\ \A q \in Patterns : q.id \in u.members =>
                     \E w \in Built.usage :
                        /\ w.pattern = q /\ w.review.required = u.review.required
                        /\ StaticFacts(q) = StaticFacts(u.pattern)
    <2>1. PICK q \in Patterns : u = entry(q)
      BY <1>1
    <2>2. u.pattern = q /\ u.review = ReviewOf(q) /\ u.members = GroupOf(Patterns, q)
      BY <2>1, <1>4
    <2>3. IsReviewOf(u.review, u.pattern, Names(Built, Entries(Built)))
      BY <2>2, ReviewOfFacts, BuiltEntries
    <2>4. ASSUME NEW r \in Patterns, r.id \in u.members
          PROVE  \E w \in Built.usage :
                    /\ w.pattern = r /\ w.review.required = u.review.required
                    /\ StaticFacts(r) = StaticFacts(u.pattern)
      <3>1. entry(r) \in Built.usage
        BY <1>1
      <3>2. QED
        BY <3>1, <2>2, <2>4, <1>4, <1>7
    <2>5. QED
      BY <2>2, <2>3, <2>4, <1>2, <1>3, <1>8
  <1>10. ASSUME NEW u \in Built.usage, NEW w \in Built.usage, u.pattern.id = w.pattern.id
         PROVE  u = w
    <2>1. PICK q \in Patterns : u = entry(q)
      BY <1>1
    <2>2. PICK r \in Patterns : w = entry(r)
      BY <1>1
    <2>3. q = r
      BY <2>1, <2>2, <1>2, <1>4, <1>10
    <2>4. QED
      BY <2>1, <2>2, <2>3
  <1>11. QED
    BY <1>6, <1>9, <1>10 DEF UsageKnown

(* Relations are between functions of the project.                          *)
LEMMA OwnershipFacts ==
    ASSUME NEW functions, \A f \in ToSet(functions) : f.maker \in Nat /\ f.ender \in Nat, NEW types,
           NEW r \in OwnershipRelations(functions, types)
    PROVE  IsRelationOf(r, ToSet(functions))
  <1> DEFINE F == ToSet(functions)
             ends(f) == {g \in F : /\ IsContract(g) /\ g.name = f.owned
                                   /\ g.parameters[1].base = f.returns /\ g.contract = "value"}
  <1>1. ASSUME NEW f \in F, NEW g \in F, NEW type, NEW how, NEW c \in 0..100, r = Relation(f, type, g, how, c)
        PROVE  IsRelationOf(r, F)
    BY <1>1 DEF Relation, IsRelationOf
  <1>2. CASE r \in ExplicitRelations(functions)
    <2>1. PICK f \in F : /\ Cardinality(ends(f)) = 1
                         /\ r = Relation(f, f.returns, CHOOSE g \in ends(f) : TRUE, "value", 90)
      BY <1>2 DEF ExplicitRelations
    <2>2. ends(f) # {}
      <3>1. Cardinality({}) = 0
        BY FS_EmptySet
      <3> HIDE DEF ends
      <3>2. QED
        BY <2>1, <3>1
    <2> DEFINE g == CHOOSE x \in ends(f) : TRUE
    <2>3. g \in F
      BY <2>2
    <2>4. r = Relation(f, f.returns, g, "value", 90)
      BY <2>1
    <2> HIDE DEF g
    <2>5. 90 \in 0..100
      OBVIOUS
    <2>6. QED
      BY <2>3, <2>4, <2>5, <1>1
  <1>3. CASE r \notin ExplicitRelations(functions)
    <2>1. PICK type \in types : r \in InferredRelations(functions, type)
      BY <1>3 DEF OwnershipRelations
    <2>2. PICK f \in Producers(functions, type) :
             \E g \in Releases(functions, type) : r = Relation(f, type, g, "value", Confidence(f, g))
      BY <2>1 DEF InferredRelations
    <2>3. PICK g \in Releases(functions, type) : r = Relation(f, type, g, "value", Confidence(f, g))
      BY <2>2
    <2>4. f \in F /\ g \in F
      BY DEF Releases, Producers
    <2>5. Confidence(f, g) \in 0..100
      <3>1. f.maker \in Nat /\ g.ender \in Nat
        BY <2>4
      <3>2. \A n \in Nat : /\ (IF n > 2 THEN 25 ELSE 10 * n) \in 0..25
                          /\ (IF n > 2 THEN 20 ELSE 10 * n) \in 0..20
        OBVIOUS
      <3> DEFINE a == IF f.maker > 2 THEN 25 ELSE 10 * f.maker
                 b == IF g.ender > 2 THEN 20 ELSE 10 * g.ender
      <3>3. a \in 0..25 /\ b \in 0..20
        BY <3>1, <3>2
      <3>4. Confidence(f, g) = 55 + a + b
        BY DEF Confidence
      <3> HIDE DEF a, b
      <3>5. QED
        BY <3>3, <3>4
    <2>6. QED
      BY <2>3, <2>4, <2>5, <1>1
  <1>4. QED
    BY <1>2, <1>3

(* The relations of a directory as it is built.                             *)
LEMMA BuiltOwnership ==
    ASSUME ProjectInv
    PROVE  OwnershipKnown(Built)
  <1>1. Built.ownership = OwnershipRelations(Source.functions, ToSet(Source.types))
    BY DEF Built, OwnedIn, ProjectInv, Source
  <1>2. \A f \in ToSet(Source.functions) : f.maker \in Nat /\ f.ender \in Nat
    BY ProjectsAssumption DEF ProjectInv, Source
  <1>3. Built.functions = Source.functions
    BY DEF Built
  <1>4. QED
    BY <1>1, <1>2, <1>3, OwnershipFacts DEF OwnershipKnown

(* The extraction can rely on what the build writes.                        *)
LEMMA BuiltIsDirectory ==
    ASSUME ProjectInv, ReviewedInv
    PROVE  IsDirectory(Built, Patterns)
  <1>1. Built.types \in Seq(ToSet(Built.types))
    <2>1. Built.types = Source.types
      BY DEF Built
    <2>2. QED
      BY <2>1, ProjectsAssumption DEF ProjectInv, Source
  <1>2. QED
    BY <1>1, BuiltFunctions, BuiltEdges, BuiltUsage, BuiltOwnership DEF IsDirectory

-----------------------------------------------------------------------------
(* The places a view matches.                                               *)

(* Where the wanted call comes after a place.                               *)
Later(names, v, name) == {j \in DOMAIN names : j > v /\ names[j] = name}

(* The first of them, or -1.                                                *)
FirstLater(names, v, name) ==
    IF v < 0 \/ Later(names, v, name) = {} THEN -1 ELSE Min(Later(names, v, name))

(* The places found one after the other.                                    *)
IsWalk(at, names, wanted) ==
    /\ at \in [0..Len(wanted) -> (-1)..Len(names)]
    /\ at[0] = 0
    /\ \A i \in 1..Len(wanted) : at[i] = FirstLater(names, at[i - 1], wanted[i])

(* The first place is one.                                                  *)
LEMMA FirstLaterFacts ==
    ASSUME NEW X, NEW names \in Seq(X), NEW v \in (-1)..Len(names), NEW name
    PROVE  LET n == FirstLater(names, v, name) IN
           /\ n \in (-1)..Len(names)
           /\ n >= 0 => v >= 0 /\ n > v /\ n \in 1..Len(names) /\ names[n] = name
           /\ v >= 0 => \A j \in 1..Len(names) : j > v /\ names[j] = name => 0 <= n /\ n <= j
  <1> DEFINE n == FirstLater(names, v, name)
             L == Later(names, v, name)
  <1>1. DOMAIN names = 1..Len(names) /\ Len(names) \in Nat
    OBVIOUS
  <1>2. /\ L \in SUBSET (1..Len(names)) /\ L \in SUBSET Nat
        /\ \A j : j \in L <=> j \in 1..Len(names) /\ j > v /\ names[j] = name
    BY <1>1 DEF Later
  <1>3. n = IF v < 0 \/ L = {} THEN -1 ELSE Min(L)
    BY DEF FirstLater
  <1> HIDE DEF L, n
  <1>4. CASE v < 0 \/ L = {}
    <2>1. n = -1
      BY <1>3, <1>4
    <2>2. QED
      BY <2>1, <1>1, <1>2, <1>4 DEF n
  <1>5. CASE ~(v < 0 \/ L = {})
    <2>1. \E x \in L : \A y \in L : x <= y
      BY <1>2, <1>5, LeastElement
    <2>2. n = Min(L)
      BY <1>3, <1>5
    <2>3. n \in L /\ \A y \in L : n <= y
      BY <2>1, <2>2 DEF Min
    <2>4. n \in 1..Len(names) /\ n > v /\ names[n] = name
      BY <2>3, <1>2
    <2>5. v >= 0
      BY <1>5
    <2>6. \A j \in 1..Len(names) : j > v /\ names[j] = name => 0 <= n /\ n <= j
      BY <2>3, <2>4, <1>2
    <2>7. n \in (-1)..Len(names) /\ n >= 0
      BY <2>4, <1>1
    <2>8. QED
      BY <2>4, <2>5, <2>6, <2>7 DEF n
  <1>6. QED
    BY <1>4, <1>5

(* The places of a match are those of a walk.                               *)
LEMMA MatchedWalk ==
    ASSUME NEW X, NEW names \in Seq(X), NEW wanted \in Seq(X)
    PROVE  \E at : /\ IsWalk(at, names, wanted)
                   /\ Matched(names, wanted) = [i \in 1..Len(wanted) |-> at[i]]
  <1> DEFINE N == Len(wanted)
             V == (-1)..Len(names)
             step == [i \in 1..N |-> [v \in V |-> FirstLater(names, v, wanted[i])]]
             Body(f) == [i \in 0..N |->
                            IF i = 0 THEN 0
                            ELSE LET last == f[i - 1]
                                     rest == {j \in DOMAIN names : j > last /\ names[j] = wanted[i]}
                                 IN  IF last < 0 \/ rest = {} THEN -1 ELSE Min(rest)]
             chosen == CHOOSE f : f = Body(f)
  <1>1. N \in Nat /\ 0 \in V /\ DOMAIN wanted = 1..N
    OBVIOUS
  <1>2. \A i \in 1..N : \A v \in V : FirstLater(names, v, wanted[i]) \in V
    BY FirstLaterFacts
  <1>3. step \in [1..N -> [V -> V]]
    <2> HIDE DEF V, N
    <2>1. QED
      BY <1>2
  <1>4. \A i \in 1..N : \A v \in V : step[i][v] = FirstLater(names, v, wanted[i])
    OBVIOUS
  <1> HIDE DEF N, V, step
  <1>5. PICK f \in [0..N -> V] : Climbs(f, N, 0, step)
    BY <1>1, <1>3, LadderExists DEF CanClimb
  <1>6. \A i \in 1..N : i \in 0..N /\ i - 1 \in 0..N /\ i # 0
    BY <1>1
  <1>7. f = Body(f)
    <2>1. \A i \in 1..N : f[i] = FirstLater(names, f[i - 1], wanted[i])
      BY <1>4, <1>5, <1>6 DEF Climbs
    <2>2. f[0] = 0
      BY <1>5 DEF Climbs
    <2>3. \A i \in 0..N : i # 0 => i \in 1..N
      BY <1>1
    <2>4. QED
      BY <1>5, <2>1, <2>2, <2>3 DEF FirstLater, Later
  <1>8. chosen = Body(chosen)
    <2> HIDE DEF Body
    <2>1. QED
      BY <1>7
  <1>9. chosen[0] = 0 /\ \A i \in 1..N : chosen[i] = FirstLater(names, chosen[i - 1], wanted[i])
    <2> HIDE DEF chosen
    <2>1. 0 \in 0..N
      BY <1>1
    <2>2. QED
      BY <2>1, <1>6, <1>8 DEF FirstLater, Later
  <1>10. chosen = [i \in 0..N |-> chosen[i]]
    <2> HIDE DEF chosen
    <2>1. QED
      BY <1>8
  <1>11. Matched(names, wanted) = [i \in 1..N |-> chosen[i]]
    BY <1>1 DEF Matched, N
  <1> HIDE DEF chosen
  <1> DEFINE Good == {i \in 0..N : chosen[i] \in V}
  <1>12. 0 \in Good
    BY <1>1, <1>9
  <1>13. ASSUME NEW i \in 1..N, i - 1 \in Good
         PROVE  i \in Good
    <2>1. chosen[i] = FirstLater(names, chosen[i - 1], wanted[i]) /\ chosen[i - 1] \in V
      BY <1>9, <1>13
    <2>2. QED
      BY <2>1, <1>2, <1>6
  <1>14. \A i \in 0..N : chosen[i] \in V
    <2> HIDE DEF Good
    <2>1. \A i \in 0..N : i \in Good
      BY <1>1, <1>12, <1>13, IntervalInduction
    <2>2. QED
      BY <2>1 DEF Good
  <1>15. chosen \in [0..N -> V]
    BY <1>10, <1>14
  <1>16. IsWalk(chosen, names, wanted)
    BY <1>9, <1>15 DEF IsWalk, N, V
  <1>17. QED
    BY <1>11, <1>16 DEF N

(* A walk that arrives has found everything, in the order of the places.    *)
LEMMA WalkArrives ==
    ASSUME NEW X, NEW names \in Seq(X), NEW wanted \in Seq(X), NEW at, IsWalk(at, names, wanted),
           \A i \in 1..Len(wanted) : at[i] # -1
    PROVE  Embedding([i \in 1..Len(wanted) |-> at[i]], Len(wanted), Len(names), wanted, names)
  <1> DEFINE N == Len(wanted)
             g == [i \in 1..N |-> at[i]]
             Good == {b \in 0..N : \A a \in 1..N : a < b => at[a] < at[b]}
  <1>1. N \in Nat /\ \A i \in 1..N : i \in 0..N /\ i - 1 \in 0..N
    OBVIOUS
  <1>2. ASSUME NEW i \in 1..N
        PROVE  at[i] \in 1..Len(names) /\ names[at[i]] = wanted[i] /\ at[i - 1] < at[i]
    <2>1. at[i] \in (-1)..Len(names) /\ at[i - 1] \in (-1)..Len(names)
      BY <1>1 DEF IsWalk
    <2>2. at[i] = FirstLater(names, at[i - 1], wanted[i])
      BY DEF IsWalk
    <2>3. at[i] >= 0
      BY <2>1
    <2>4. QED
      BY <2>1, <2>2, <2>3, FirstLaterFacts
  <1>3. 0 \in Good
    BY <1>1
  <1>4. ASSUME NEW b \in 1..N, b - 1 \in Good
        PROVE  b \in Good
    <2>1. ASSUME NEW a \in 1..N, a < b
          PROVE  at[a] < at[b]
      <3>1. at[b - 1] < at[b] /\ at[a] \in Int /\ at[b] \in Int
        BY <1>2
      <3>2. CASE a = b - 1
        BY <3>1, <3>2
      <3>3. CASE a # b - 1
        <4>1. a < b - 1 /\ b - 1 \in 1..N
          BY <2>1, <3>3
        <4>2. at[a] < at[b - 1] /\ at[b - 1] \in Int
          BY <4>1, <1>4, <1>2
        <4>3. QED
          BY <3>1, <4>2
      <3>4. QED
        BY <3>2, <3>3
    <2>2. QED
      BY <2>1, <1>1
  <1>5. \A b \in 0..N : b \in Good
    <2> HIDE DEF Good, N
    <2>1. QED
      BY <1>1, <1>3, <1>4, IntervalInduction
  <1>6. \A a, b \in 1..N : a < b => at[a] < at[b]
    BY <1>1, <1>5
  <1> HIDE DEF Good
  <1>7. \A a \in 1..N : g[a] = at[a]
    OBVIOUS
  <1>8. g \in [1..N -> 1..Len(names)]
    BY <1>2
  <1> HIDE DEF g
  <1>9. Embedding(g, N, Len(names), wanted, names)
    BY <1>2, <1>6, <1>7, <1>8 DEF Embedding
  <1>10. QED
    BY <1>9 DEF g

(* What can be found is: the walk takes the first place each time.          *)
LEMMA WalkFinds ==
    ASSUME NEW X, NEW names \in Seq(X), NEW wanted \in Seq(X), NEW at, IsWalk(at, names, wanted),
           SomewhereIn(Len(wanted), Len(names), wanted, names)
    PROVE  \A i \in 1..Len(wanted) : at[i] # -1
  <1> DEFINE N == Len(wanted)
  <1>1. PICK g : Embedding(g, N, Len(names), wanted, names)
    BY DEF SomewhereIn
  <1> DEFINE Good == {i \in 0..N : at[i] >= 0 /\ (i # 0 => at[i] <= g[i])}
  <1>2. N \in Nat /\ \A i \in 1..N : i \in 0..N /\ i - 1 \in 0..N
    OBVIOUS
  <1>3. 0 \in Good
    BY <1>2 DEF IsWalk
  <1>4. ASSUME NEW i \in 1..N, i - 1 \in Good
        PROVE  i \in Good
    <2>1. /\ at[i - 1] \in (-1)..Len(names) /\ at[i - 1] >= 0
          /\ at[i] = FirstLater(names, at[i - 1], wanted[i])
      BY <1>2, <1>4 DEF IsWalk
    <2>2. g[i] \in 1..Len(names) /\ names[g[i]] = wanted[i]
      BY <1>1 DEF Embedding
    <2>3. g[i] > at[i - 1]
      <3>1. CASE i = 1
        <4>1. at[i - 1] = 0
          BY <3>1 DEF IsWalk
        <4>2. QED
          BY <4>1, <2>2
      <3>2. CASE i # 1
        <4>1. i - 1 \in 1..N /\ i - 1 # 0 /\ i - 1 < i
          BY <3>2
        <4>2. at[i - 1] <= g[i - 1]
          BY <4>1, <1>4
        <4>3. g[i - 1] \in 1..Len(names) /\ g[i - 1] < g[i]
          BY <4>1, <1>1 DEF Embedding
        <4>4. QED
          BY <4>2, <4>3, <2>1, <2>2
      <3>3. QED
        BY <3>1, <3>2
    <2>4. 0 <= at[i] /\ at[i] <= g[i]
      BY <2>1, <2>2, <2>3, FirstLaterFacts
    <2>5. at[i] >= 0
      BY <2>1, <2>2, <2>4, FirstLaterFacts
    <2>6. QED
      BY <2>4, <2>5, <1>2
  <1>5. \A i \in 0..N : i \in Good
    <2> HIDE DEF Good, N
    <2>1. QED
      BY <1>2, <1>3, <1>4, IntervalInduction
  <1>6. ASSUME NEW i \in 1..N
        PROVE  at[i] # -1
    BY <1>2, <1>5
  <1>7. QED
    BY <1>6

(* The places matched, if all can be, are an embedding.                     *)
LEMMA MatchedFacts ==
    ASSUME NEW X, NEW names \in Seq(X), NEW wanted \in Seq(X),
           SomewhereIn(Len(wanted), Len(names), wanted, names)
    PROVE  /\ -1 \notin ToSet(Matched(names, wanted))
           /\ Embedding(Matched(names, wanted), Len(wanted), Len(names), wanted, names)
  <1>1. PICK at : /\ IsWalk(at, names, wanted)
                  /\ Matched(names, wanted) = [i \in 1..Len(wanted) |-> at[i]]
    BY MatchedWalk
  <1>2. \A i \in 1..Len(wanted) : at[i] # -1
    BY <1>1, WalkFinds
  <1>3. Embedding(Matched(names, wanted), Len(wanted), Len(names), wanted, names)
    BY <1>1, <1>2, WalkArrives
  <1>4. -1 \notin ToSet(Matched(names, wanted))
    BY <1>1, <1>2 DEF ToSet
  <1>5. QED
    BY <1>3, <1>4

-----------------------------------------------------------------------------
(* Usage patterns as an entry sees them.                                    *)

(* The calls between the first and the last.                                *)
LEMMA MiddleFacts ==
    ASSUME NEW X, NEW s \in Seq(X), s # <<>>
    PROVE  /\ Len(s) \in Nat \ {0} /\ Middle(s) \in Seq(X)
           /\ Len(Middle(s)) = IF Len(s) = 1 THEN 0 ELSE Len(s) - 2
           /\ \A i \in 1..Len(Middle(s)) : i + 1 \in 1..Len(s) /\ Middle(s)[i] = s[i + 1]
  <1> DEFINE n == Len(s)
             m == Middle(s)
  <1>1. n \in Nat \ {0} /\ DOMAIN s = 1..n /\ \A i \in 1..n : s[i] \in X
    <2>1. n # 0
      BY EmptySeq
    <2>2. QED
      BY <2>1
  <1>2. \A i \in 2..(n - 1) : s[i] \in X
    BY <1>1
  <1>3. m = SubSeq(s, 2, n - 1)
    BY DEF Middle
  <1> HIDE DEF n, m
  <1>4. /\ SubSeq(s, 2, n - 1) \in Seq(X)
        /\ Len(SubSeq(s, 2, n - 1)) = IF 2 <= n - 1 THEN (n - 1) - 2 + 1 ELSE 0
        /\ \A i \in 1..((n - 1) - 2 + 1) : SubSeq(s, 2, n - 1)[i] = s[2 + i - 1]
    <2>1. 2 \in Int /\ n - 1 \in Int
      BY <1>1
    <2>2. QED
      BY <1>2, <2>1, SubSeqProperties
  <1>5. Len(m) = IF n = 1 THEN 0 ELSE n - 2
    BY <1>1, <1>3, <1>4
  <1>6. \A i \in 1..Len(m) : i + 1 \in 1..n /\ m[i] = s[i + 1]
    <2>1. ASSUME NEW i \in 1..Len(m)
          PROVE  i + 1 \in 1..n /\ m[i] = s[i + 1]
      <3>1. n # 1 /\ Len(m) = n - 2
        BY <1>5, <2>1
      <3>2. i \in 1..((n - 1) - 2 + 1) /\ 2 + i - 1 = i + 1
        BY <3>1, <1>1
      <3>3. i + 1 \in 1..n
        BY <3>1, <1>1
      <3>4. QED
        BY <3>2, <3>3, <1>3, <1>4
    <2>2. QED
      BY <2>1
  <1>7. QED
    BY <1>1, <1>3, <1>4, <1>5, <1>6 DEF n, m

(* What is within the whole has its middle within the middle.               *)
LEMMA MiddleEmbeds ==
    ASSUME NEW X, NEW s \in Seq(X), NEW t \in Seq(X), s # <<>>, t # <<>>,
           SomewhereIn(Len(s), Len(t), s, t)
    PROVE  SomewhereIn(Len(Middle(s)), Len(Middle(t)), Middle(s), Middle(t))
  <1> DEFINE n == Len(s)
             a == Middle(s)
             b == Middle(t)
             k == Len(a)
  <1>1. /\ n \in Nat \ {0} /\ k = IF n = 1 THEN 0 ELSE n - 2
        /\ \A i \in 1..k : i + 1 \in 1..n /\ a[i] = s[i + 1]
    BY MiddleFacts
  <1>2. /\ Len(t) \in Nat \ {0} /\ Len(b) = IF Len(t) = 1 THEN 0 ELSE Len(t) - 2
        /\ \A i \in 1..Len(b) : i + 1 \in 1..Len(t) /\ b[i] = t[i + 1]
    BY MiddleFacts
  <1>3. PICK g : Embedding(g, n, Len(t), s, t)
    BY DEF SomewhereIn
  <1> DEFINE h == [i \in 1..k |-> g[i + 1] - 1]
  <1> HIDE DEF n, a, b
  <1>4. ASSUME NEW i \in 1..k
        PROVE  g[i + 1] - 1 \in 1..Len(b) /\ a[i] = b[g[i + 1] - 1] /\ g[i + 1] \in Int
    <2>1. n # 1 /\ k = n - 2 /\ 1 \in 1..n /\ n \in 1..n /\ i + 1 \in 1..n /\ 1 < i + 1 /\ i + 1 < n
      BY <1>1
    <2>2. /\ g[1] \in 1..Len(t) /\ g[i + 1] \in 1..Len(t) /\ g[n] \in 1..Len(t)
          /\ g[1] < g[i + 1] /\ g[i + 1] < g[n]
          /\ s[i + 1] = t[g[i + 1]]
      BY <2>1, <1>3 DEF Embedding
    <2>3. Len(t) # 1
      BY <2>2
    <2>4. g[i + 1] - 1 \in 1..(Len(t) - 2)
      BY <2>2, <1>2, SMTT(30)
    <2>5. g[i + 1] - 1 \in 1..Len(b)
      BY <2>3, <2>4, <1>2
    <2>6. b[g[i + 1] - 1] = t[(g[i + 1] - 1) + 1]
      BY <2>5, <1>2
    <2>7. (g[i + 1] - 1) + 1 = g[i + 1]
      BY <2>2
    <2>8. QED
      BY <2>2, <2>5, <2>6, <2>7, <1>1
  <1>5. ASSUME NEW i \in 1..k, NEW j \in 1..k, i < j
        PROVE  g[i + 1] - 1 < g[j + 1] - 1
    <2>1. i + 1 \in 1..n /\ j + 1 \in 1..n /\ i + 1 < j + 1
      BY <1>1, <1>5
    <2>2. g[i + 1] < g[j + 1]
      BY <2>1, <1>3 DEF Embedding
    <2>3. QED
      BY <2>2, <1>4
  <1>6. /\ h \in [1..k -> 1..Len(b)]
        /\ \A i \in 1..k : h[i] = g[i + 1] - 1
    BY <1>4
  <1> HIDE DEF h, k
  <1>7. Embedding(h, k, Len(b), a, b)
    BY <1>4, <1>5, <1>6 DEF Embedding
  <1>8. QED
    BY <1>7 DEF SomewhereIn, a, b, k

(* Who keeps every call of a name has each of them.                         *)
LEMMA CountsHit ==
    ASSUME NEW X, NEW s \in Seq(X), NEW t \in Seq(X), NEW g, Embedding(g, Len(s), Len(t), s, t),
           NEW name, Occurrences(name, s) >= Occurrences(name, t)
    PROVE  \A j \in 1..Len(t) : t[j] = name => \E i \in 1..Len(s) : g[i] = j
  <1> DEFINE A == {i \in DOMAIN s : s[i] = name}
             B == {j \in DOMAIN t : t[j] = name}
             h == [i \in A |-> g[i]]
  <1>1. DOMAIN s = 1..Len(s) /\ DOMAIN t = 1..Len(t) /\ Len(s) \in Nat /\ Len(t) \in Nat
    OBVIOUS
  <1>2. IsFiniteSet(A) /\ IsFiniteSet(B) /\ Cardinality(A) \in Nat /\ Cardinality(B) \in Nat
    BY OccurrencesType DEF Occurrences
  <1>3. Cardinality(A) >= Cardinality(B)
    BY DEF Occurrences
  <1>4. h \in [A -> B]
    BY <1>1 DEF Embedding
  <1>5. ASSUME NEW i \in A, NEW j \in A, h[i] = h[j]
        PROVE  i = j
    <2>1. i \in 1..Len(s) /\ j \in 1..Len(s) /\ g[i] = g[j] /\ g[i] \in 1..Len(t)
      BY <1>1, <1>5 DEF Embedding
    <2>2. ~(i < j) /\ ~(j < i)
      <3>1. i < j => g[i] < g[j]
        BY <2>1 DEF Embedding
      <3>2. j < i => g[j] < g[i]
        BY <2>1 DEF Embedding
      <3>3. QED
        BY <2>1, <3>1, <3>2
    <2>3. QED
      BY <2>1, <2>2
  <1>6. \A i \in A : h[i] = g[i] /\ i \in 1..Len(s)
    BY <1>1
  <1>7. \A j : j \in B <=> j \in 1..Len(t) /\ t[j] = name
    BY <1>1
  <1> HIDE DEF A, B, h
  <1>8. h \in Injection(A, B)
    BY <1>4, <1>5 DEF Injection, IsInjective
  <1>9. Cardinality(A) <= Cardinality(B)
    BY <1>2, <1>8, FS_Injection
  <1>10. Cardinality(A) = Cardinality(B)
    BY <1>2, <1>3, <1>9
  <1>11. h \in Surjection(A, B)
    BY <1>2, <1>8, <1>10, FS_Injection
  <1>12. \A j \in B : \E i \in A : h[i] = j
    BY <1>11 DEF Surjection
  <1>13. QED
    BY <1>6, <1>7, <1>12

(* The places of the mined calls that a review keeps.                       *)
Kept(l) == Matched(Middle(l.pattern.sequence), Middle(l.review.required))

(* The view of a group whose first member is l.                             *)
ViewOf(l) ==
    [l.pattern EXCEPT
        !.id = l.members,
        !.sequence = l.review.required,
        !.consumers = [i \in DOMAIN Kept(l) |-> l.pattern.consumers[Kept(l)[i]]],
        !.consumersAt = [i \in DOMAIN Kept(l) |-> l.pattern.consumersAt[Kept(l)[i]]],
        !.support = l.support]

(* A pattern has the calls its review requires.                             *)
LEMMA KeptFacts ==
    ASSUME NEW functions, NEW l, IsPatternOf(l.pattern, functions), NEW isf,
           IsReviewOf(l.review, l.pattern, isf)
    PROVE  LET a == Middle(l.review.required)
               b == Middle(l.pattern.sequence)
           IN  /\ -1 \notin ToSet(Kept(l))
               /\ Embedding(Kept(l), Len(a), Len(b), a, b)
  <1> DEFINE N == {f.name : f \in functions}
             s == l.review.required
             t == l.pattern.sequence
             a == Middle(s)
             b == Middle(t)
  <1>1. t \in Seq(N) /\ t # <<>>
    BY PatternSequence
  <1>2. s \in Seq(ToSet(t)) /\ s # <<>> /\ IsSubsequenceOf(s, t)
    BY DEF IsReviewOf
  <1>3. ToSet(t) \subseteq N
    BY <1>1, OwnElements
  <1> HIDE DEF N, s, t
  <1>4. s \in Seq(N)
    BY <1>2, <1>3
  <1>5. SomewhereIn(Len(s), Len(t), s, t)
    BY <1>1, <1>2, <1>4, SubsequenceEmbeds
  <1>6. a \in Seq(N) /\ b \in Seq(N)
    BY <1>1, <1>2, <1>4, MiddleFacts
  <1>7. SomewhereIn(Len(a), Len(b), a, b)
    BY <1>1, <1>2, <1>4, <1>5, MiddleEmbeds
  <1>8. Kept(l) = Matched(b, a)
    BY DEF Kept, s, t
  <1> HIDE DEF a, b
  <1>9. /\ -1 \notin ToSet(Matched(b, a))
        /\ Embedding(Matched(b, a), Len(a), Len(b), a, b)
    BY <1>6, <1>7, MatchedFacts
  <1>10. QED
    BY <1>8, <1>9 DEF a, b, s, t

(* Members of one group are reviewed alike.                                 *)
LEMMA GroupFacts ==
    ASSUME NEW p, NEW patterns, UsageKnown(p, patterns),
           NEW u \in p.usage, NEW w \in p.usage, u.members = w.members
    PROVE  u.review.required = w.review.required
  <1>1. w.pattern.id \in u.members /\ w.pattern \in patterns
    BY DEF UsageKnown
  <1>2. PICK v \in p.usage : v.pattern = w.pattern /\ v.review.required = u.review.required
    BY <1>1 DEF UsageKnown
  <1>3. v = w
    BY <1>2 DEF UsageKnown
  <1>4. QED
    BY <1>2, <1>3

(* The members of a group an entry consumes.                                *)
MembersFor(p, anchor, ids) == {w \in ConsumedBy(p, anchor) : w.members = ids}

(* The first of several.                                                    *)
FirstOf(S) == CHOOSE u \in S : \A w \in S : u.pattern.id <= w.pattern.id

(* There is a first.                                                        *)
LEMMA FirstMember ==
    ASSUME NEW S, S # {}, \A u \in S : u.pattern.id \in Nat
    PROVE  FirstOf(S) \in S
  <1> DEFINE T == {u.pattern.id : u \in S}
  <1>1. T \in SUBSET Nat /\ T # {}
    OBVIOUS
  <1> HIDE DEF T
  <1>2. PICK x \in T : \A y \in T : x <= y
    BY <1>1, LeastElement
  <1>3. PICK u \in S : u.pattern.id = x
    BY DEF T
  <1>4. \A w \in S : u.pattern.id <= w.pattern.id
    BY <1>2, <1>3 DEF T
  <1>5. QED
    BY <1>4 DEF FirstOf

(* The view of a group is made of its first member.                         *)
LEMMA ViewFromFirst ==
    ASSUME NEW p, NEW patterns, UsageKnown(p, patterns), NEW anchor, NEW u \in ConsumedBy(p, anchor),
           NEW S, S = MembersFor(p, anchor, u.members)
    PROVE  /\ FirstOf(S) \in S /\ FirstOf(S) \in ConsumedBy(p, anchor) /\ FirstOf(S) \in p.usage
           /\ FirstOf(S).members = u.members
           /\ View(S) = ViewOf(FirstOf(S))
  <1> DEFINE l == FirstOf(S)
             required == l.review.required
             fitting == {w \in S : -1 \notin ToSet(Matched(Middle(w.pattern.sequence), Middle(required)))}
  <1>1. u \in S /\ S \subseteq ConsumedBy(p, anchor) /\ S \subseteq p.usage /\ \A w \in S : w.members = u.members
    BY DEF MembersFor, ConsumedBy
  <1>2. \A w \in S : w.pattern.id \in Nat
    BY <1>1 DEF UsageKnown
  <1>3. l \in S
    BY <1>1, <1>2, FirstMember
  <1> HIDE DEF l
  <1>4. ASSUME NEW w \in S
        PROVE  -1 \notin ToSet(Matched(Middle(w.pattern.sequence), Middle(required)))
    <2>1. w.review.required = required
      BY <1>1, <1>3, GroupFacts
    <2>2. IsPatternOf(w.pattern, ToSet(p.functions)) /\ IsReviewOf(w.review, w.pattern, Names(p, Entries(p)))
      BY <1>1 DEF UsageKnown
    <2>3. -1 \notin ToSet(Kept(w))
      BY <2>2, KeptFacts
    <2>4. QED
      BY <2>1, <2>3 DEF Kept
  <1>5. fitting = S
    BY <1>4
  <1> HIDE DEF fitting
  <1>6. View(S) =
           LET kept == Matched(Middle(FirstOf(fitting).pattern.sequence), Middle(required)) IN
           [FirstOf(fitting).pattern EXCEPT
              !.id = l.members, !.sequence = required,
              !.consumers = [i \in DOMAIN kept |-> FirstOf(fitting).pattern.consumers[kept[i]]],
              !.consumersAt = [i \in DOMAIN kept |-> FirstOf(fitting).pattern.consumersAt[kept[i]]],
              !.support = l.support]
    BY DEF View, FirstOf, fitting, l
  <1>7. View(S) = ViewOf(l)
    <2> DEFINE first == FirstOf(fitting)
               kept == Matched(Middle(first.pattern.sequence), Middle(required))
    <2>1. first = l
      BY <1>5 DEF l
    <2>2. kept = Kept(l)
      BY <2>1 DEF Kept
    <2>3. View(S) =
             [first.pattern EXCEPT
                !.id = l.members, !.sequence = required,
                !.consumers = [i \in DOMAIN kept |-> first.pattern.consumers[kept[i]]],
                !.consumersAt = [i \in DOMAIN kept |-> first.pattern.consumersAt[kept[i]]],
                !.support = l.support]
      BY <1>6
    <2> HIDE DEF first, kept
    <2>4. QED
      BY <2>1, <2>2, <2>3 DEF ViewOf
  <1>8. QED
    BY <1>1, <1>3, <1>7 DEF l

(* The parts of a view.                                                     *)
LEMMA ViewFields ==
    ASSUME NEW functions, NEW l, IsPatternOf(l.pattern, functions)
    PROVE  LET v == ViewOf(l) IN
           /\ v.id = l.members /\ v.sequence = l.review.required
           /\ v.consumers = [i \in DOMAIN Kept(l) |-> l.pattern.consumers[Kept(l)[i]]]
           /\ v.producer = l.pattern.producer /\ v.cleanup = l.pattern.cleanup /\ v.type = l.pattern.type
           /\ StaticFacts(v) = StaticFacts(l.pattern)
  <1> DEFINE q == l.pattern
             c == [i \in DOMAIN Kept(l) |-> q.consumers[Kept(l)[i]]]
             d == [i \in DOMAIN Kept(l) |-> q.consumersAt[Kept(l)[i]]]
             v == [q EXCEPT !.id = l.members, !.sequence = l.review.required, !.consumers = c,
                            !.consumersAt = d, !.support = l.support]
  <1>1. ViewOf(l) = v
    BY DEF ViewOf
  <1>2. PatternFields \subseteq DOMAIN q
    BY DEF IsPatternOf
  <1> HIDE DEF c, d, q
  <1>3. /\ v.id = l.members /\ v.sequence = l.review.required /\ v.consumers = c
        /\ v.producer = q.producer /\ v.cleanup = q.cleanup /\ v.type = q.type
        /\ v.kind = q.kind /\ v.binding = q.binding /\ v.producerAt = q.producerAt
        /\ v.cleanupAt = q.cleanupAt /\ v.cleanupHow = q.cleanupHow /\ v.path = q.path
        /\ v.conditions = q.conditions
    BY <1>2 DEF PatternFields
  <1> HIDE DEF v
  <1>4. StaticFacts(v) = StaticFacts(q)
    BY <1>3 DEF StaticFacts
  <1>5. QED
    BY <1>1, <1>3, <1>4 DEF c, q

(* Every view is that of a group of patterns the entry consumes.            *)
LEMMA ViewMade ==
    ASSUME NEW p, NEW patterns, UsageKnown(p, patterns), NEW anchor, NEW v \in ViewsOf(p, anchor)
    PROVE  /\ v = View(MembersFor(p, anchor, v.id)) /\ v.id # {}
           /\ \E l \in ConsumedBy(p, anchor) : l \in p.usage /\ v = ViewOf(l) /\ v.id = l.members
  <1>1. PICK u \in ConsumedBy(p, anchor) : v = View(MembersFor(p, anchor, u.members))
    BY DEF ViewsOf, MembersFor
  <1> DEFINE S == MembersFor(p, anchor, u.members)
             l == FirstOf(S)
  <1>2. l \in ConsumedBy(p, anchor) /\ l \in p.usage /\ l.members = u.members /\ View(S) = ViewOf(l)
    BY ViewFromFirst
  <1> HIDE DEF l
  <1>3. IsPatternOf(l.pattern, ToSet(p.functions)) /\ l.pattern.id \in l.members
    BY <1>2 DEF UsageKnown
  <1>4. ViewOf(l).id = l.members
    BY <1>3, ViewFields
  <1>5. QED
    BY <1>1, <1>2, <1>3, <1>4

(* The ends of what is required are those of the pattern.                   *)
LEMMA ExtendMiddle ==
    ASSUME NEW X, NEW s \in Seq(X), NEW t \in Seq(X), s # <<>>, t # <<>>, Len(s) # 1, Len(t) # 1,
           s[1] = t[1], s[Len(s)] = t[Len(t)], NEW g,
           Embedding(g, Len(Middle(s)), Len(Middle(t)), Middle(s), Middle(t)),
           NEW h, h = [i \in 1..Len(s) |-> IF i = 1 THEN 1 ELSE IF i = Len(s) THEN Len(t) ELSE g[i - 1] + 1]
    PROVE  Embedding(h, Len(s), Len(t), s, t)
  <1> DEFINE n == Len(s)
             m == Len(t)
             a == Middle(s)
             b == Middle(t)
  <1>1. /\ n \in Nat \ {0} /\ Len(a) = n - 2
        /\ \A i \in 1..(n - 2) : a[i] = s[i + 1]
    BY MiddleFacts
  <1>2. /\ m \in Nat \ {0} /\ Len(b) = m - 2
        /\ \A i \in 1..(m - 2) : b[i] = t[i + 1]
    BY MiddleFacts
  <1> HIDE DEF a, b
  <1>3. Embedding(g, n - 2, m - 2, a, b)
    BY <1>1, <1>2 DEF a, b
  <1>4. n # 1 /\ m # 1 /\ s[1] = t[1] /\ s[n] = t[m]
    OBVIOUS
  <1>5. h = [i \in 1..n |-> IF i = 1 THEN 1 ELSE IF i = n THEN m ELSE g[i - 1] + 1]
    OBVIOUS
  <1> HIDE DEF n, m
  <1>6. h[1] = 1 /\ h[n] = m /\ \A i \in 1..n : i # 1 /\ i # n => h[i] = g[i - 1] + 1
    BY <1>1, <1>4, <1>5
  <1>7. ASSUME NEW i \in 1..n, i # 1, i # n
        PROVE  /\ i - 1 \in 1..(n - 2) /\ g[i - 1] \in 1..(m - 2) /\ h[i] = g[i - 1] + 1
               /\ h[i] \in 2..(m - 1) /\ s[i] = t[h[i]]
    <2>1. i - 1 \in 1..(n - 2) /\ (i - 1) + 1 = i
      BY <1>1, <1>7
    <2>2. g[i - 1] \in 1..(m - 2) /\ a[i - 1] = b[g[i - 1]]
      BY <2>1, <1>3 DEF Embedding
    <2>3. h[i] = g[i - 1] + 1
      BY <1>6, <1>7
    <2>4. h[i] \in 2..(m - 1)
      BY <2>2, <2>3, <1>2, SMTT(30)
    <2>5. s[i] = t[h[i]]
      BY <2>1, <2>2, <2>3, <1>1, <1>2
    <2>6. QED
      BY <2>1, <2>2, <2>3, <2>4, <2>5
  <1>8. ASSUME NEW i \in 1..n
        PROVE  h[i] \in 1..m /\ s[i] = t[h[i]]
    <2>1. CASE i = 1
      BY <2>1, <1>2, <1>4, <1>6
    <2>2. CASE i = n
      BY <2>2, <1>2, <1>4, <1>6
    <2>3. CASE i # 1 /\ i # n
      <3>1. h[i] \in 2..(m - 1) /\ s[i] = t[h[i]]
        BY <2>3, <1>7
      <3>2. QED
        BY <3>1, <1>2
    <2>4. QED
      BY <2>1, <2>2, <2>3
  <1>9. ASSUME NEW i \in 1..n, NEW j \in 1..n, i < j
        PROVE  h[i] < h[j]
    <2>1. i # n /\ j # 1
      BY <1>9, <1>1
    <2>2. CASE i = 1 /\ j = n
      BY <2>2, <1>1, <1>2, <1>4, <1>6
    <2>3. CASE i = 1 /\ j # n
      <3>1. h[j] \in 2..(m - 1) /\ h[i] = 1
        BY <2>1, <2>3, <1>6, <1>7
      <3>2. QED
        BY <3>1, <1>2, SMTT(30)
    <2>4. CASE i # 1 /\ j = n
      <3>1. h[i] \in 2..(m - 1) /\ h[j] = m
        BY <2>1, <2>4, <1>6, <1>7
      <3>2. QED
        BY <3>1, <1>2, SMTT(30)
    <2>5. CASE i # 1 /\ j # n
      <3>1. /\ i - 1 \in 1..(n - 2) /\ j - 1 \in 1..(n - 2) /\ i - 1 < j - 1
            /\ h[i] = g[i - 1] + 1 /\ h[j] = g[j - 1] + 1
            /\ g[i - 1] \in 1..(m - 2) /\ g[j - 1] \in 1..(m - 2)
        <4>1. i - 1 \in 1..(n - 2) /\ g[i - 1] \in 1..(m - 2) /\ h[i] = g[i - 1] + 1
          BY <2>1, <2>5, <1>7
        <4>2. j - 1 \in 1..(n - 2) /\ g[j - 1] \in 1..(m - 2) /\ h[j] = g[j - 1] + 1
          BY <2>1, <2>5, <1>7
        <4>3. QED
          BY <4>1, <4>2, <1>9
      <3>2. g[i - 1] < g[j - 1]
        BY <3>1, <1>3 DEF Embedding
      <3>3. QED
        BY <3>1, <3>2
    <2>6. QED
      BY <2>2, <2>3, <2>4, <2>5
  <1>10. h \in [1..n -> 1..m]
    BY <1>5, <1>8
  <1>11. Embedding(h, n, m, s, t)
    BY <1>8, <1>9, <1>10 DEF Embedding
  <1>12. QED
    BY <1>11 DEF n, m

(* The call of an entry between the ends is among those kept.               *)
LEMMA EntryKept ==
    ASSUME NEW X, NEW s \in Seq(X), NEW t \in Seq(X), s # <<>>, t # <<>>,
           s[1] = t[1], s[Len(s)] = t[Len(t)], NEW g,
           Embedding(g, Len(Middle(s)), Len(Middle(t)), Middle(s), Middle(t)),
           NEW j \in 1..Len(Middle(t)), NEW name, t[j + 1] = name,
           Occurrences(name, s) >= Occurrences(name, t)
    PROVE  \E i \in 1..Len(Middle(s)) : g[i] = j
  <1> DEFINE n == Len(s)
             m == Len(t)
  <1>1. /\ n \in Nat \ {0} /\ Len(Middle(s)) = IF n = 1 THEN 0 ELSE n - 2
        /\ m \in Nat \ {0} /\ Len(Middle(t)) = IF m = 1 THEN 0 ELSE m - 2
    BY MiddleFacts
  <1>2. m # 1 /\ j \in 1..(m - 2) /\ j + 1 \in 1..m /\ j + 1 # 1 /\ j + 1 # m
    BY <1>1
  <1>3. CASE n = 1
    <2> DEFINE h == [i \in 1..n |-> 1]
    <2>1. Embedding(h, n, m, s, t)
      <3>1. h \in [1..n -> 1..m]
        BY <1>1
      <3>2. \A i \in 1..n : i = 1 /\ h[i] = 1
        BY <1>3
      <3> HIDE DEF h, n, m
      <3>3. \A i \in 1..n : s[i] = t[h[i]]
        BY <3>2
      <3>4. \A i, k \in 1..n : ~(i < k)
        BY <3>2
      <3>5. QED
        BY <3>1, <3>3, <3>4 DEF Embedding
    <2>2. \A i \in 1..n : h[i] = 1
      OBVIOUS
    <2> HIDE DEF h
    <2>3. \E i \in 1..n : h[i] = j + 1
      BY <2>1, <1>2, CountsHit
    <2>4. QED
      BY <2>2, <2>3, <1>2
  <1>4. CASE n # 1
    <2> DEFINE h == [i \in 1..n |-> IF i = 1 THEN 1 ELSE IF i = n THEN m ELSE g[i - 1] + 1]
    <2>1. Embedding(h, n, m, s, t)
      BY <1>2, <1>4, ExtendMiddle
    <2>2. PICK i \in 1..n : h[i] = j + 1
      <3> HIDE DEF h
      <3>1. QED
        BY <2>1, <1>2, CountsHit
    <2>3. i # 1 /\ i # n
      BY <2>2, <1>2
    <2>4. g[i - 1] + 1 = j + 1
      BY <2>2, <2>3
    <2>5. i - 1 \in 1..Len(Middle(s))
      BY <2>3, <1>1, <1>4
    <2>6. g[i - 1] \in 1..Len(Middle(t))
      BY <2>5 DEF Embedding
    <2>7. g[i - 1] = j
      BY <2>4, <2>6
    <2>8. QED
      BY <2>5, <2>7
  <1>5. QED
    BY <1>3, <1>4

(* What is known of a view of an entry: its calls are those of its          *)
(* functions, the entry among them, and everybody in the group makes them.  *)
IsViewFor(p, patterns, anchor, v) ==
    LET a == Middle(v.sequence) IN
    /\ v.id # {} /\ v.sequence # <<>>
    /\ Head(v.sequence) = Function(p, v.producer).name
    /\ Last(v.sequence) = Function(p, v.cleanup).name
    /\ DOMAIN a = 1..Len(a) /\ DOMAIN v.consumers = 1..Len(a) /\ Len(v.consumers) = Len(a)
    /\ \A i \in 1..Len(a) : a[i] = Function(p, v.consumers[i]).name
    /\ \E i \in 1..Len(a) : v.consumers[i] = anchor
    /\ \A q \in patterns : q.id \in v.id =>
          IsSubsequenceOf(v.sequence, q.sequence) /\ StaticFacts(q) = StaticFacts(v)

(* Every view an entry has is one.                                          *)
LEMMA ViewFacts ==
    ASSUME NEW p, NEW patterns, IsDirectory(p, patterns), NEW anchor \in Entries(p),
           NEW v \in ViewsOf(p, anchor)
    PROVE  IsViewFor(p, patterns, anchor, v)
  <1> DEFINE functions == ToSet(p.functions)
             isf == Names(p, Entries(p))
             N == {f.name : f \in functions}
  <1>1. FunctionsKnown(p) /\ UsageKnown(p, patterns)
    BY DEF IsDirectory
  <1>2. PICK l \in ConsumedBy(p, anchor) : l \in p.usage /\ v = ViewOf(l) /\ v.id = l.members
    BY <1>1, ViewMade
  <1> DEFINE q == l.pattern
             t == q.sequence
             s == l.review.required
             a == Middle(s)
             b == Middle(t)
             g == Kept(l)
  <1>3. IsPatternOf(q, functions) /\ IsReviewOf(l.review, q, isf)
    BY <1>1, <1>2 DEF UsageKnown
  <1>4. /\ v.id = l.members /\ v.sequence = s
        /\ v.consumers = [i \in DOMAIN g |-> q.consumers[g[i]]]
        /\ v.producer = q.producer /\ v.cleanup = q.cleanup /\ StaticFacts(v) = StaticFacts(q)
    BY <1>2, <1>3, ViewFields
  <1>5. Embedding(g, Len(a), Len(b), a, b)
    BY <1>3, KeptFacts
  <1>6. \A f \in functions : Function(p, f.id) = f
    BY <1>1, FunctionFacts
  <1>7. /\ t \in Seq(N) /\ t # <<>>
        /\ Len(q.consumers) \in Nat /\ Len(t) = Len(q.consumers) + 2
    BY <1>3, PatternSequence
  <1>8. s \in Seq(N) /\ s # <<>>
    <2>1. s \in Seq(ToSet(t)) /\ s # <<>>
      BY <1>3 DEF IsReviewOf
    <2>2. ToSet(t) \subseteq N
      BY <1>7, OwnElements
    <2> HIDE DEF s, t, N
    <2>3. QED
      BY <2>1, <2>2
  <1>9. /\ q.producer \in {f.id : f \in functions} /\ t[1] = Function(p, q.producer).name
        /\ q.cleanup \in {f.id : f \in functions} /\ t[Len(t)] = Function(p, q.cleanup).name
        /\ \A k \in 1..Len(q.consumers) :
              /\ q.consumers[k] \in {f.id : f \in functions}
              /\ t[k + 1] = Function(p, q.consumers[k]).name
    <2>1. \E P \in functions, E \in functions :
             /\ q.producer = P.id /\ t[1] = P.name
             /\ q.cleanup = E.id /\ t[Len(q.consumers) + 2] = E.name
      BY <1>3 DEF IsPatternOf
    <2>2. \A k \in 1..Len(q.consumers) :
             \E f \in functions : f.id = q.consumers[k] /\ f.name = t[k + 1]
      BY <1>3 DEF IsPatternOf
    <2> HIDE DEF functions, q, t
    <2>3. QED
      BY <2>1, <2>2, <1>6, <1>7
  <1>10. s[1] = Head(t) /\ Last(s) = Last(t)
    BY <1>3 DEF IsReviewOf
  <1>11. /\ Head(s) = s[1] /\ Head(t) = t[1] /\ Last(s) = s[Len(s)] /\ Last(t) = t[Len(t)]
    <2> HIDE DEF s, t, N
    <2>1. QED
      BY <1>7, <1>8 DEF Last
  <1>12. /\ Len(a) \in Nat /\ a \in Seq(N) /\ Len(b) = Len(q.consumers)
         /\ \A k \in 1..Len(b) : b[k] = t[k + 1]
    <2> HIDE DEF s, t, N, q
    <2>1. /\ Len(t) \in Nat \ {0} /\ Len(b) = IF Len(t) = 1 THEN 0 ELSE Len(t) - 2
          /\ \A k \in 1..Len(b) : b[k] = t[k + 1]
      BY <1>7, MiddleFacts
    <2>2. a \in Seq(N)
      BY <1>8, MiddleFacts
    <2>3. Len(a) \in Nat
      BY <2>2
    <2>4. Len(b) = Len(q.consumers)
      BY <2>1, <1>7
    <2>5. QED
      BY <2>1, <2>2, <2>3, <2>4
  <1>13. DOMAIN a = 1..Len(a) /\ DOMAIN g = 1..Len(a) /\ \A i \in 1..Len(a) : g[i] \in 1..Len(b) /\ a[i] = b[g[i]]
    <2>1. DOMAIN a = 1..Len(a)
      BY <1>12
    <2>2. QED
      BY <2>1, <1>5 DEF Embedding
  <1>14. /\ DOMAIN v.consumers = 1..Len(a) /\ Len(v.consumers) = Len(a)
         /\ \A i \in 1..Len(a) : v.consumers[i] = q.consumers[g[i]]
    <2>1. v.consumers = [i \in 1..Len(a) |-> q.consumers[g[i]]]
      BY <1>4, <1>13
    <2> HIDE DEF a, q, g
    <2>2. QED
      BY <2>1, <1>12
  <1>15. \A i \in 1..Len(a) : a[i] = Function(p, v.consumers[i]).name
    <2> HIDE DEF a, b, q, g, t, functions
    <2>1. QED
      BY <1>9, <1>12, <1>13, <1>14
  <1>16. \E i \in 1..Len(a) : v.consumers[i] = anchor
    <2> DEFINE name == Function(p, anchor).name
    <2>1. PICK j \in 1..Len(q.consumers) : q.consumers[j] = anchor
      <3>1. anchor \in ToSet(q.consumers)
        BY <1>2 DEF ConsumedBy
      <3>2. DOMAIN q.consumers = 1..Len(q.consumers)
        BY <1>3 DEF IsPatternOf
      <3>3. QED
        BY <3>1, <3>2 DEF ToSet
    <2>2. t[j + 1] = name /\ j \in 1..Len(b)
      BY <2>1, <1>9, <1>12
    <2>3. name \in isf
      BY DEF Names
    <2>4. name \in ToSet(t)
      <3>1. DOMAIN t = 1..Len(t)
        BY <1>7
      <3> HIDE DEF t, q, name, b
      <3>2. j + 1 \in DOMAIN t
        BY <3>1, <1>7
      <3>3. QED
        BY <3>2, <2>2 DEF ToSet
    <2>5. Occurrences(name, s) >= Occurrences(name, t)
      BY <2>3, <2>4, <1>3 DEF IsReviewOf
    <2> HIDE DEF name, s, t, N, g, q, isf
    <2>6. \E i \in 1..Len(a) : g[i] = j
      <3>1. s[1] = t[1] /\ s[Len(s)] = t[Len(t)]
        BY <1>10, <1>11
      <3>2. s \in Seq(N) /\ t \in Seq(N) /\ s # <<>> /\ t # <<>>
        BY <1>7, <1>8
      <3>3. Embedding(g, Len(a), Len(b), a, b) /\ j \in 1..Len(b) /\ t[j + 1] = name
        BY <2>2, <1>5
      <3>4. QED
        BY <3>1, <3>2, <3>3, <2>5, EntryKept, SMTT(60)
    <2>7. QED
      BY <2>1, <2>6, <1>14
  <1>17. ASSUME NEW r \in patterns, r.id \in v.id
         PROVE  IsSubsequenceOf(v.sequence, r.sequence) /\ StaticFacts(r) = StaticFacts(v)
    <2>1. PICK w \in p.usage : /\ w.pattern = r /\ w.review.required = l.review.required
                               /\ StaticFacts(r) = StaticFacts(l.pattern)
      BY <1>1, <1>2, <1>17 DEF UsageKnown
    <2>2. IsReviewOf(w.review, w.pattern, isf)
      BY <1>1 DEF UsageKnown
    <2>3. IsSubsequenceOf(w.review.required, r.sequence)
      BY <2>1, <2>2 DEF IsReviewOf
    <2>4. QED
      BY <2>1, <2>3, <1>4
  <1>18. v.id # {}
    BY <1>1, ViewMade
  <1>19. /\ v.sequence # <<>>
         /\ Head(v.sequence) = Function(p, v.producer).name
         /\ Last(v.sequence) = Function(p, v.cleanup).name
    BY <1>4, <1>8, <1>9, <1>10, <1>11
  <1>20. Middle(v.sequence) = a
    BY <1>4
  <1> HIDE DEF a, functions, N, q, t, s, b, g, isf
  <1>21. QED
    BY <1>13, <1>14, <1>15, <1>16, <1>17, <1>18, <1>19, <1>20 DEF IsViewFor

-----------------------------------------------------------------------------
(* What an entry reaches, and the lifecycles closed around it.              *)

(* What is reached belongs to annotated functions, and nobody but the entry *)
(* enters there.                                                            *)
LEMMA ReachedEdges ==
    ASSUME NEW p, EdgesKnown(p), NEW anchor, NEW view, NEW e \in Reached(p, anchor, view).edges
    PROVE  e.id \in DOMAIN p.labels /\ (e.id = anchor \/ "ISF" \notin e.labels)
  <1>1. e \in Walkable(p, anchor) \cup Masked(p, anchor)
    BY DEF Reached
  <1>2. CASE e \in Walkable(p, anchor)
    <2>1. e \in p.edges /\ e.id \notin Entries(p) \ {anchor}
      BY <1>2 DEF Walkable, Rivals
    <2>2. e.id \in DOMAIN p.labels /\ e.labels = p.labels[e.id]
      BY <2>1 DEF EdgesKnown
    <2>3. QED
      BY <2>1, <2>2 DEF Entries
  <1>3. CASE e \in Masked(p, anchor)
    <2>1. PICK d \in p.edges : e = [d EXCEPT !.labels = @ \ {"ISF"}]
      BY <1>3 DEF Masked
    <2>2. DOMAIN d = {"source", "target", "id", "labels", "inferred"} /\ d.id \in DOMAIN p.labels
      BY DEF EdgesKnown
    <2>3. e.id = d.id /\ e.labels = d.labels \ {"ISF"}
      BY <2>1, <2>2
    <2>4. QED
      BY <2>2, <2>3
  <1>4. QED
    BY <1>1, <1>2, <1>3

(* The functions of a view.                                                 *)
UsedBy(view) == {view.producer, view.cleanup} \cup ToSet(view.consumers)

(* The lifecycle of a view has its functions, each with an edge on the      *)
(* resource, and none of them enters.                                       *)
ShowsView(c, view) ==
    /\ DOMAIN c.roles = UsedBy(view) /\ c.types = {view.type}
    /\ \A id \in UsedBy(view) : "ISF" \notin c.roles[id]
    /\ \A e \in c.edges : e.id \in UsedBy(view)
    /\ \A id \in UsedBy(view) : \E e \in c.edges : e.id = id /\ view.type \in {e.source, e.target}

(* The usage closure of a view is its lifecycle.                            *)
LEMMA UsageClosureFacts ==
    ASSUME NEW p, EdgesKnown(p), NEW view, NEW anchor
    PROVE  ShowsView(UsageClosure(p, view, anchor), view)
  <1> DEFINE ids == {view.producer, view.cleanup} \cup ToSet(view.consumers)
             c == UsageClosure(p, view, anchor)
             consumers == ToSet(view.consumers)
             role(id) == IF id \in consumers \ {anchor} THEN (RolesOf(p, id) \ {"ISF"}) \cup {"PRF"}
                         ELSE IF id = view.cleanup THEN {"HPF"}
                         ELSE IF id = view.producer THEN {"PRF", "HPF"} ELSE {}
             known == {[e EXCEPT !.labels = @ \cup role(e.id)] :
                         e \in {d \in Touching(p.edges, view.type) : d.id \in ids}}
             bare == ids \ {e.id : e \in known}
             made == {LifecycleEdge(id, Null, view.type, role(id)) : id \in bare \cap {view.producer}}
             used == {LifecycleEdge(id, view.type, Null, IF id = anchor THEN {"ISF"} ELSE role(id)) :
                         id \in bare \cap consumers}
             ended == {LifecycleEdge(view.cleanup, view.type, Null, role(view.cleanup)) :
                         id \in bare \cap {view.cleanup}}
  <1>1. c = [roles |-> [id \in ids |-> role(id)], types |-> {view.type},
             edges |-> known \cup made \cup used \cup ended]
    BY DEF UsageClosure
  <1>2. \A id \in ids : "ISF" \notin role(id)
    OBVIOUS
  <1>3. \A e \in known : e.id \in ids /\ view.type \in {e.source, e.target}
    <2> SUFFICES ASSUME NEW e \in known PROVE e.id \in ids /\ view.type \in {e.source, e.target}
      OBVIOUS
    <2>1. PICK d \in p.edges : /\ view.type \in {d.source, d.target} /\ d.id \in ids
                               /\ e = [d EXCEPT !.labels = @ \cup role(d.id)]
      BY DEF Touching
    <2>2. DOMAIN d = {"source", "target", "id", "labels", "inferred"}
      BY DEF EdgesKnown
    <2> HIDE DEF role, known
    <2>3. e.id = d.id /\ e.source = d.source /\ e.target = d.target
      BY <2>1, <2>2
    <2>4. QED
      BY <2>1, <2>3
  <1>4. \A e \in made \cup used \cup ended : e.id \in ids /\ view.type \in {e.source, e.target}
    <2> HIDE DEF role, bare
    <2>1. bare \subseteq ids
      BY DEF bare
    <2>2. QED
      BY <2>1 DEF LifecycleEdge
  <1>5. ASSUME NEW id \in ids
        PROVE  \E e \in known \cup made \cup used \cup ended : e.id = id
    <2>1. CASE id \notin bare
      <3>1. \E e \in known : e.id = id
        BY <2>1
      <3> HIDE DEF known, made, used, ended
      <3>2. QED
        BY <3>1
    <2>2. CASE id \in bare
      <3>1. CASE id = view.producer
        <4>1. LifecycleEdge(id, Null, view.type, role(id)) \in made
          BY <2>2, <3>1
        <4> HIDE DEF role, bare, known, made, used, ended
        <4>2. QED
          BY <4>1 DEF LifecycleEdge
      <3>2. CASE id = view.cleanup
        <4>1. LifecycleEdge(view.cleanup, view.type, Null, role(view.cleanup)) \in ended
          BY <2>2, <3>2
        <4> HIDE DEF role, bare, known, made, used, ended
        <4>2. QED
          BY <3>2, <4>1 DEF LifecycleEdge
      <3>3. CASE id \in consumers
        <4>1. LifecycleEdge(id, view.type, Null, IF id = anchor THEN {"ISF"} ELSE role(id)) \in used
          BY <2>2, <3>3
        <4> HIDE DEF role, bare, known, made, used, ended
        <4>2. QED
          BY <4>1 DEF LifecycleEdge
      <3>4. QED
        BY <3>1, <3>2, <3>3
    <2>3. QED
      BY <2>1, <2>2
  <1>6. c.roles = [id \in ids |-> role(id)] /\ c.types = {view.type} /\ c.edges = known \cup made \cup used \cup ended
    BY <1>1
  <1> HIDE DEF role, known, made, used, ended, consumers
  <1>7. \A e \in c.edges : e.id \in ids /\ view.type \in {e.source, e.target}
    BY <1>3, <1>4, <1>6
  <1>8. \A id \in ids : \E e \in c.edges : e.id = id
    BY <1>5, <1>6
  <1>9. ids = UsedBy(view)
    BY DEF UsedBy
  <1> HIDE DEF ids, c
  <1>10. ShowsView(c, view)
    BY <1>2, <1>6, <1>7, <1>8, <1>9 DEF ShowsView
  <1>11. QED
    BY <1>10 DEF c

(* The things of a set have three numbers, and one of them comes first: it  *)
(* has the greatest first number, and of those with it the least others.    *)
HasNumbers(S, a, b, c) == \A x \in S : a[x] \in 0..100 /\ b[x] \in Nat /\ c[x] \in Nat

(* The one that comes first.                                                *)
IsForemost(x, S, a, b, c) ==
    \A y \in S :
       \/ a[x] > a[y]
       \/ a[x] = a[y] /\ b[x] < b[y]
       \/ a[x] = a[y] /\ b[x] = b[y] /\ c[x] <= c[y]

(* There is always one.                                                     *)
LEMMA LexicographicFirst ==
    ASSUME NEW S, S # {}, NEW a, NEW b, NEW c, HasNumbers(S, a, b, c)
    PROVE  \E x \in S : IsForemost(x, S, a, b, c)
  <1> USE DEF HasNumbers
  <1> DEFINE A == {100 - a[x] : x \in S}
  <1>1. PICK u \in S : \A y \in S : a[u] >= a[y]
    <2>1. A \in SUBSET Nat /\ A # {}
      OBVIOUS
    <2>2. PICK n \in A : \A m \in A : n <= m
      BY <2>1, LeastElement
    <2>3. PICK x \in S : n = 100 - a[x]
      OBVIOUS
    <2>4. ASSUME NEW y \in S
          PROVE  a[x] >= a[y]
      <3>1. 100 - a[x] <= 100 - a[y]
        BY <2>2, <2>3
      <3>2. a[x] \in 0..100 /\ a[y] \in 0..100
        OBVIOUS
      <3>3. \A i, j \in 0..100 : 100 - i <= 100 - j => i >= j
        OBVIOUS
      <3> HIDE DEF A, HasNumbers
      <3>4. QED
        BY <3>1, <3>2, <3>3
    <2>5. QED
      BY <2>4
  <1> DEFINE T == {x \in S : a[x] = a[u]}
             B == {b[x] : x \in T}
  <1>2. PICK v \in T : \A y \in T : b[v] <= b[y]
    <2>1. B \in SUBSET Nat /\ B # {}
      OBVIOUS
    <2>2. PICK n \in B : \A m \in B : n <= m
      BY <2>1, LeastElement
    <2>3. QED
      BY <2>2
  <1> DEFINE R == {x \in T : b[x] = b[v]}
             C == {c[x] : x \in R}
  <1>3. PICK w \in R : \A y \in R : c[w] <= c[y]
    <2>1. C \in SUBSET Nat /\ C # {}
      OBVIOUS
    <2>2. PICK n \in C : \A m \in C : n <= m
      BY <2>1, LeastElement
    <2>3. QED
      BY <2>2
  <1>4. ASSUME NEW y \in S
        PROVE  \/ a[w] > a[y]
               \/ a[w] = a[y] /\ b[w] < b[y]
               \/ a[w] = a[y] /\ b[w] = b[y] /\ c[w] <= c[y]
    <2>1. w \in S /\ a[w] = a[u] /\ b[w] = b[v] /\ a[u] >= a[y]
      BY <1>1
    <2>2. y \in T => b[v] <= b[y]
      BY <1>2
    <2>3. y \in R => c[w] <= c[y]
      BY <1>3
    <2>4. QED
      BY <2>1, <2>2, <2>3, SMTT(30)
  <1>5. QED
    BY <1>4 DEF IsForemost

(* A relation keeps everything but its producer, which may be a selected    *)
(* function that looks like it.                                             *)
LEMMA ForSelectedFacts ==
    ASSUME NEW p, NEW patterns, IsDirectory(p, patterns), NEW ids \in SUBSET (DOMAIN p.labels),
           NEW s \in p.ownership, NEW r, r = ForSelected(p, s, ids)
    PROVE  /\ r.type = s.type /\ r.cleanup = s.cleanup /\ r.confidence \in 0..100
           /\ r.producer \in {s.producer} \cup ids
           /\ Function(p, r.producer) \in ToSet(p.functions)
           /\ r.producer \in ids => SameShape(Function(p, r.producer), Function(p, s.producer))
  <1> DEFINE same == {id \in ids : SameShape(Function(p, id), Function(p, s.producer))}
             first(id) == \A other \in same : Function(p, id).rank <= Function(p, other).rank
             chosen == CHOOSE id \in same : first(id)
  <1>1. FunctionsKnown(p) /\ IsRelationOf(s, ToSet(p.functions))
    BY DEF IsDirectory, OwnershipKnown
  <1>2. /\ \A f \in ToSet(p.functions) : Function(p, f.id) = f
        /\ \A id \in DOMAIN p.labels : Function(p, id) \in ToSet(p.functions)
    BY <1>1, FunctionFacts
  <1>3. /\ DOMAIN s = {"producer", "type", "cleanup", "how", "confidence"}
        /\ s.confidence \in 0..100 /\ Function(p, s.producer) \in ToSet(p.functions)
    BY <1>1, <1>2 DEF IsRelationOf
  <1>4. CASE s.producer \in ids \/ same = {}
    <2>1. r = s
      BY <1>4 DEF ForSelected
    <2>2. SameShape(Function(p, s.producer), Function(p, s.producer))
      BY DEF SameShape
    <2>3. QED
      BY <2>1, <2>2, <1>3
  <1>5. CASE ~(s.producer \in ids \/ same = {})
    <2>1. r = [s EXCEPT !.producer = chosen]
      BY <1>5 DEF ForSelected
    <2>2. \E id \in same : first(id)
      <3> DEFINE Rk == {Function(p, id).rank : id \in same}
      <3>1. \A id \in same : Function(p, id).rank \in Nat
        BY <1>1, <1>2 DEF FunctionsKnown
      <3>2. Rk \in SUBSET Nat /\ Rk # {}
        BY <3>1, <1>5
      <3>3. PICK n \in Rk : \A m \in Rk : n <= m
        BY <3>2, LeastElement
      <3> HIDE DEF same
      <3>4. QED
        BY <3>3
    <2>3. chosen \in same
      <3> HIDE DEF same, first
      <3>1. QED
        BY <2>2
    <2> HIDE DEF chosen
    <2>4. chosen \in ids /\ SameShape(Function(p, chosen), Function(p, s.producer))
      BY <2>3
    <2>5. /\ r.producer = chosen /\ r.type = s.type /\ r.cleanup = s.cleanup
          /\ r.confidence = s.confidence
      BY <2>1, <1>3
    <2>6. QED
      BY <2>4, <2>5, <1>2, <1>3
  <1>6. QED
    BY <1>4, <1>5

(* The relations a type can be closed with.                                 *)
ClosingCandidates(p, ids, type) ==
    {r \in {ForSelected(p, s, ids) : s \in p.ownership} :
        r.confidence >= 80 /\ r.type = type
        /\ (HandledBy(p, ids, type) # {} \/ r.producer \in ids)}

(* The types that may be closed: those handed around by handles and those   *)
(* that a selected function, or one that looks like it, makes.              *)
Closable(p, ids) ==
    OpaqueTypes(p) \cup {r.type : r \in {s \in p.ownership :
        \E id \in ids : SameShape(Function(p, id), Function(p, s.producer))}}

(* What closing can make: helpers in their roles, and edges of the selected *)
(* functions and of these helpers.                                          *)
Closers(p, ids) == ids \cup {r.producer : r \in p.ownership} \cup {r.cleanup : r \in p.ownership}

(* The roles closing gives.                                                 *)
Helping == {{"HPF"}, {"PRF", "HPF"}}

(* The edges of the graph, with more roles.                                 *)
EdgesWith(p, L) == {[e EXCEPT !.labels = @ \cup L] : e \in p.edges}

(* The edges of helpers that had none.                                      *)
AddedEdges(p, ids) ==
    {LifecycleEdge(id, s, t, L) :
       id \in Closers(p, ids), s \in ToSet(p.types) \cup {Null}, t \in ToSet(p.types) \cup {Null},
       L \in Helping \cup {RolesOf(p, k) : k \in ids}}

(* The edges closing takes over or adds.                                    *)
ClosingEdges(p, ids) == (UNION {EdgesWith(p, L) : L \in {{}} \cup Helping}) \cup AddedEdges(p, ids)

(* The closures.                                                            *)
Closures(p, ids) ==
    {c \in [roles : UNION {[D -> Helping] : D \in SUBSET Closers(p, ids)},
            types : SUBSET Closable(p, ids), edges : SUBSET ClosingEdges(p, ids)] :
        \A e \in c.edges : e.id \in ids \cup DOMAIN c.roles}

(* A candidate is a relation with a cause to close the type.                *)
LEMMA CandidateFacts ==
    ASSUME NEW p, NEW patterns, IsDirectory(p, patterns), NEW ids \in SUBSET (DOMAIN p.labels),
           NEW type, NEW r \in ClosingCandidates(p, ids, type)
    PROVE  /\ r.confidence \in 0..100 /\ Function(p, r.producer) \in ToSet(p.functions)
           /\ r.producer \in Closers(p, ids) /\ r.cleanup \in Closers(p, ids)
           /\ type \in Closable(p, ids)
  <1>1. PICK s \in p.ownership : r = ForSelected(p, s, ids)
    BY DEF ClosingCandidates
  <1>2. r.type = type /\ (HandledBy(p, ids, type) # {} \/ r.producer \in ids)
    BY DEF ClosingCandidates
  <1>3. /\ r.type = s.type /\ r.cleanup = s.cleanup /\ r.confidence \in 0..100
        /\ r.producer \in {s.producer} \cup ids
        /\ Function(p, r.producer) \in ToSet(p.functions)
        /\ r.producer \in ids => SameShape(Function(p, r.producer), Function(p, s.producer))
    BY <1>1, ForSelectedFacts
  <1>4. r.producer \in Closers(p, ids) /\ r.cleanup \in Closers(p, ids)
    BY <1>3 DEF Closers
  <1>5. CASE r.producer \in ids
    <2>1. s.type = type /\ SameShape(Function(p, r.producer), Function(p, s.producer))
      BY <1>2, <1>3, <1>5
    <2>2. type \in Closable(p, ids)
      BY <2>1, <1>5 DEF Closable
    <2>3. QED
      BY <2>2, <1>3, <1>4
  <1>6. CASE HandledBy(p, ids, type) # {}
    <2>1. PICK id \in ids : \E i \in DOMAIN Function(p, id).parameters :
             Function(p, id).parameters[i].handle /\ Function(p, id).parameters[i].base = type
      BY <1>6 DEF HandledBy
    <2>2. Function(p, id) \in ToSet(p.functions)
      BY FunctionFacts DEF IsDirectory
    <2>3. type \in OpaqueTypes(p)
      BY <2>1, <2>2 DEF OpaqueTypes
    <2>4. QED
      BY <2>3, <1>3, <1>4 DEF Closable
  <1>7. QED
    BY <1>2, <1>5, <1>6

(* A relation is found among the candidates.                                *)
LEMMA ClosingRelationFacts ==
    ASSUME NEW p, NEW patterns, IsDirectory(p, patterns), NEW ids \in SUBSET (DOMAIN p.labels),
           NEW type, ClosingCandidates(p, ids, type) # {}
    PROVE  ClosingRelation(p, ClosingCandidates(p, ids, type), ids) \in ClosingCandidates(p, ids, type)
  <1> DEFINE candidates == ClosingCandidates(p, ids, type)
             chosen == {r \in candidates : r.producer \in ids}
             pool == IF chosen = {} THEN candidates ELSE chosen
             before(r, s) ==
                LET f == Function(p, r.producer)  g == Function(p, s.producer) IN
                \/ r.confidence > s.confidence
                \/ r.confidence = s.confidence /\ Len(f.parameters) < Len(g.parameters)
                \/ r.confidence = s.confidence /\ Len(f.parameters) = Len(g.parameters)
                   /\ f.rank <= g.rank
             a == [r \in pool |-> r.confidence]
             b == [r \in pool |-> Len(Function(p, r.producer).parameters)]
             c == [r \in pool |-> Function(p, r.producer).rank]
             best(r) == \A s \in pool : before(r, s)
  <1>1. pool \subseteq candidates /\ pool # {}
    OBVIOUS
  <1>2. FunctionsKnown(p)
    BY DEF IsDirectory
  <1> HIDE DEF pool
  <1>3. \A r \in pool : a[r] \in 0..100 /\ b[r] \in Nat /\ c[r] \in Nat
    <2> SUFFICES ASSUME NEW r \in pool PROVE a[r] \in 0..100 /\ b[r] \in Nat /\ c[r] \in Nat
      OBVIOUS
    <2>1. r.confidence \in 0..100 /\ Function(p, r.producer) \in ToSet(p.functions)
      BY <1>1, CandidateFacts
    <2>2. Function(p, r.producer).rank \in Nat /\ Len(Function(p, r.producer).parameters) \in Nat
      BY <2>1, <1>2 DEF FunctionsKnown
    <2>3. QED
      BY <2>1, <2>2
  <1>4. /\ \A r \in pool : /\ a[r] = r.confidence /\ b[r] = Len(Function(p, r.producer).parameters)
                           /\ c[r] = Function(p, r.producer).rank
    OBVIOUS
  <1> HIDE DEF a, b, c, candidates
  <1>5. HasNumbers(pool, a, b, c)
    BY <1>3 DEF HasNumbers
  <1>10. PICK k \in pool : IsForemost(k, pool, a, b, c)
    BY <1>1, <1>5, LexicographicFirst
  <1>6. best(k)
    BY <1>4, <1>10 DEF IsForemost
  <1>7. ClosingRelation(p, candidates, ids) = CHOOSE r \in pool : best(r)
    BY DEF ClosingRelation, pool
  <1> HIDE DEF best
  <1>8. ClosingRelation(p, candidates, ids) \in pool
    BY <1>6, <1>7
  <1>9. QED
    BY <1>1, <1>8 DEF candidates

(* Closing a type of a closure makes a closure.                             *)
LEMMA CloseFacts ==
    ASSUME NEW p, NEW patterns, IsDirectory(p, patterns), NEW ids \in SUBSET (DOMAIN p.labels),
           NEW type \in ToSet(p.types), NEW c \in Closures(p, ids)
    PROVE  Close(p, ids, c, type, ClosingCandidates(p, ids, type)) \in Closures(p, ids)
  <1> DEFINE candidates == ClosingCandidates(p, ids, type)
  <1>4. AddedEdges(p, ids) \subseteq ClosingEdges(p, ids)
    BY DEF ClosingEdges
  <1>1. CASE candidates = {}
    BY <1>1 DEF Close
  <1>2. CASE candidates # {}
    <2> DEFINE r == ClosingRelation(p, candidates, ids)
               users == HandledBy(p, ids, type) \cup {k.producer : k \in {s \in candidates : s.producer \in ids}}
               all == users \cup {r.producer, r.cleanup}
               roles == [id \in DOMAIN c.roles \cup {r.producer, r.cleanup} |->
                           IF id = r.cleanup THEN {"HPF"}
                           ELSE IF id = r.producer THEN {"PRF", "HPF"} ELSE c.roles[id]]
               role(id) == IF id \in DOMAIN roles THEN roles[id] ELSE {}
               touched == {[e EXCEPT !.labels = @ \cup role(e.id)] :
                              e \in {d \in Touching(p.edges, type) : d.id \in all}}
               known == c.edges \cup touched
               bare == all \ {e.id : e \in known}
               made == {LifecycleEdge(id, Null, type, roles[id]) : id \in bare \cap {r.producer}}
               ended == {LifecycleEdge(id, type, Null, roles[id]) : id \in bare \cap {r.cleanup}}
               used == {LifecycleEdge(id, type, Null, RolesOf(p, id)) : id \in bare \ {r.producer, r.cleanup}}
               closed == [roles |-> roles, types |-> c.types \cup {type},
                          edges |-> known \cup made \cup ended \cup used]
               I == Closers(p, ids)
               E == ClosingEdges(p, ids)
    <2>1. Close(p, ids, c, type, candidates) = closed
      BY <1>2 DEF Close, ClosedWith
    <2>2. r \in candidates
      BY <1>2, ClosingRelationFacts
    <2>3. r.producer \in I /\ r.cleanup \in I /\ type \in Closable(p, ids)
      BY <2>2, CandidateFacts
    <2>4. users \subseteq ids
      BY DEF HandledBy
    <2> HIDE DEF r, users, candidates
    <2>5. /\ c = [roles |-> c.roles, types |-> c.types, edges |-> c.edges]
          /\ c.types \subseteq Closable(p, ids) /\ c.edges \subseteq E
          /\ \A e \in c.edges : e.id \in ids \cup DOMAIN c.roles
          /\ \E D \in SUBSET I : c.roles \in [D -> Helping]
      <3>1. /\ c \in [roles : UNION {[D -> Helping] : D \in SUBSET I},
                      types : SUBSET Closable(p, ids), edges : SUBSET E]
            /\ \A e \in c.edges : e.id \in ids \cup DOMAIN c.roles
        BY DEF Closures
      <3> HIDE DEF I, E
      <3>2. QED
        BY <3>1
    <2>6. PICK D \in SUBSET I : c.roles \in [D -> Helping]
      BY <2>5
    <2>7. roles \in [D \cup {r.producer, r.cleanup} -> Helping] /\ D \cup {r.producer, r.cleanup} \in SUBSET I
      <3>1. \A id \in D : c.roles[id] \in Helping
        BY <2>6
      <3>2. DOMAIN c.roles = D
        BY <2>6
      <3>3. {"HPF"} \in Helping /\ {"PRF", "HPF"} \in Helping
        BY DEF Helping
      <3> HIDE DEF I
      <3>4. QED
        BY <2>3, <3>1, <3>2, <3>3
    <2>8. DOMAIN roles = DOMAIN c.roles \cup {r.producer, r.cleanup}
      OBVIOUS
    <2> HIDE DEF roles
    <2>9. \A id : role(id) \in {{}} \cup Helping
      BY <2>7
    <2>10. all \subseteq ids \cup DOMAIN roles
      BY <2>4, <2>8
    <2>11. ASSUME NEW e \in touched
           PROVE  e \in E /\ e.id \in ids \cup DOMAIN roles
      <3>1. PICK d \in p.edges : d.id \in all /\ e = [d EXCEPT !.labels = @ \cup role(d.id)]
        BY DEF Touching
      <3>2. DOMAIN d = {"source", "target", "id", "labels", "inferred"}
        BY DEF IsDirectory, EdgesKnown
      <3> HIDE DEF role, all
      <3>3. e.id = d.id
        BY <3>1, <3>2
      <3> DEFINE L == role(d.id)
      <3>6. L \in {{}} \cup Helping /\ e = [d EXCEPT !.labels = @ \cup L]
        BY <3>1, <2>9
      <3> HIDE DEF L
      <3>7. e \in EdgesWith(p, L)
        BY <3>6 DEF EdgesWith
      <3>4. e \in E
        BY <3>6, <3>7 DEF ClosingEdges
      <3>5. QED
        BY <3>1, <3>3, <3>4, <2>10
    <2>12. bare \subseteq all
      OBVIOUS
    <2> HIDE DEF bare, touched
    <2>13. ASSUME NEW e \in made \cup ended \cup used
           PROVE  e \in E /\ e.id \in ids \cup DOMAIN roles
      <3>1. \E id \in all, s \in {Null, type}, t \in {Null, type} :
               \E L : /\ e = LifecycleEdge(id, s, t, L)
                      /\ \/ id \in {r.producer, r.cleanup} /\ L = roles[id]
                         \/ id \notin {r.producer, r.cleanup} /\ L = RolesOf(p, id)
        <4> HIDE DEF all
        <4>1. CASE e \in made
          BY <4>1, <2>12
        <4>2. CASE e \in ended
          BY <4>2, <2>12
        <4>3. CASE e \in used
          BY <4>3, <2>12
        <4>4. QED
          BY <4>1, <4>2, <4>3
      <3>2. PICK id \in all, s \in {Null, type}, t \in {Null, type} :
               \E L : /\ e = LifecycleEdge(id, s, t, L)
                      /\ \/ id \in {r.producer, r.cleanup} /\ L = roles[id]
                         \/ id \notin {r.producer, r.cleanup} /\ L = RolesOf(p, id)
        BY <3>1
      <3>3. PICK L : /\ e = LifecycleEdge(id, s, t, L)
                     /\ \/ id \in {r.producer, r.cleanup} /\ L = roles[id]
                        \/ id \notin {r.producer, r.cleanup} /\ L = RolesOf(p, id)
        BY <3>2
      <3>4. id \in I /\ s \in ToSet(p.types) \cup {Null} /\ t \in ToSet(p.types) \cup {Null}
        BY <2>3, <2>4 DEF Closers
      <3>5. L \in Helping \cup {RolesOf(p, k) : k \in ids}
        <4>1. CASE id \in {r.producer, r.cleanup}
          BY <4>1, <3>3, <2>7
        <4>2. CASE id \notin {r.producer, r.cleanup}
          <5>1. id \in ids
            BY <4>2, <2>4
          <5>2. QED
            BY <4>2, <5>1, <3>3
        <4>3. QED
          BY <4>1, <4>2
      <3> HIDE DEF all, I
      <3>9. e \in AddedEdges(p, ids)
        BY <3>3, <3>4, <3>5 DEF AddedEdges, I
      <3>6. e \in E
        BY <3>9, <1>4
      <3>7. e.id = id
        BY <3>3 DEF LifecycleEdge
      <3>8. QED
        BY <3>6, <3>7, <2>10
    <2> HIDE DEF made, ended, used, all, role
    <2>14. /\ closed.edges \subseteq E
           /\ \A e \in closed.edges : e.id \in ids \cup DOMAIN closed.roles
      <3>1. \A e \in c.edges : e \in E /\ e.id \in ids \cup DOMAIN roles
        BY <2>5, <2>8
      <3> HIDE DEF E
      <3>2. QED
        BY <3>1, <2>11, <2>13
    <2>15. closed \in [roles : UNION {[K -> Helping] : K \in SUBSET I},
                       types : SUBSET Closable(p, ids), edges : SUBSET E]
      <3>1. roles \in UNION {[K -> Helping] : K \in SUBSET I}
        BY <2>7
      <3>2. c.types \cup {type} \in SUBSET Closable(p, ids)
        BY <2>3, <2>5
      <3>3. known \cup made \cup ended \cup used \in SUBSET E
        BY <2>14
      <3> HIDE DEF E, I, known
      <3>4. QED
        BY <3>1, <3>2, <3>3
    <2> HIDE DEF closed
    <2>16. closed \in Closures(p, ids)
      BY <2>14, <2>15 DEF Closures
    <2>17. QED
      BY <2>1, <2>16 DEF candidates
  <1>3. QED
    BY <1>1, <1>2

(* The closure before any type is looked at.                                *)
NoClosure == [roles |-> <<>>, types |-> {}, edges |-> {}]

(* One more type is closed.                                                 *)
CloseOne(p, ids, c, type) == Close(p, ids, c, type, ClosingCandidates(p, ids, type))

(* What closing a set of types has made, by the fold.                       *)
ClosingBody(iter, s, p, ids) ==
    IF s = {} THEN NoClosure ELSE CloseOne(p, ids, iter[s \ {TopOf(s)}], p.types[TopOf(s)])

(* The closure by the definitions of the modules.                           *)
ClosureOf(p, ids) ==
    (CHOOSE iter : iter = [s \in SUBSET (DOMAIN p.types) |-> ClosingBody(iter, s, p, ids)])[DOMAIN p.types]

(* OpaqueClosure, with its fold laid open.                                  *)
LEMMA ClosureUnfolds ==
    ASSUME NEW p, NEW ids
    PROVE  OpaqueClosure(p, ids) = ClosureOf(p, ids)
  <1> DEFINE candidates(type) ==
                {r \in {ForSelected(p, s, ids) : s \in p.ownership} :
                    r.confidence >= 80 /\ r.type = type
                    /\ (HandledBy(p, ids, type) # {} \/ r.producer \in ids)}
             op(closure, type) == Close(p, ids, closure, type, candidates(type))
             base == [roles |-> <<>>, types |-> {}, edges |-> {}]
  <1>1. OpaqueClosure(p, ids) = FoldLeft(op, base, p.types)
    BY Zenon DEF OpaqueClosure
  <1>2. FoldLeft(op, base, p.types) = ClosureOf(p, ids)
    BY Zenon DEF FoldLeft, MapThenFoldSet, Max, TopOf, ClosureOf, ClosingBody, CloseOne, NoClosure, ClosingCandidates
  <1>3. QED
    BY <1>1, <1>2

(* The steps of the closing as a ladder of functions.                       *)
Closing(n, p, ids) == [x \in 1..n |-> [c \in Closures(p, ids) |-> CloseOne(p, ids, c, p.types[x])]]

(* What is closed, type after type, is a closure.                           *)
LEMMA ClosureFacts ==
    ASSUME NEW p, NEW patterns, IsDirectory(p, patterns), NEW ids \in SUBSET (DOMAIN p.labels)
    PROVE  OpaqueClosure(p, ids) \in Closures(p, ids)
  <1> DEFINE n == Len(p.types)
             S == 1..n
             V == Closures(p, ids)
             base == NoClosure
             step == Closing(n, p, ids)
             Body(iter) == [s \in SUBSET S |-> ClosingBody(iter, s, p, ids)]
             chosen == CHOOSE iter : iter = Body(iter)
  <1>0. p.types \in Seq(ToSet(p.types)) /\ n \in Nat /\ DOMAIN p.types = S
    BY DEF IsDirectory
  <1>1. base \in V
    <2>1. <<>> \in [{} -> Helping] /\ {} \in SUBSET Closers(p, ids)
      OBVIOUS
    <2>2. <<>> \in UNION {[D -> Helping] : D \in SUBSET Closers(p, ids)}
      BY <2>1
    <2>3. QED
      BY <2>2 DEF Closures, NoClosure
  <1>2. \A x \in S, c \in V : CloseOne(p, ids, c, p.types[x]) \in V
    <2> SUFFICES ASSUME NEW x \in S, NEW c \in V PROVE CloseOne(p, ids, c, p.types[x]) \in V
      OBVIOUS
    <2>1. p.types[x] \in ToSet(p.types)
      BY <1>0 DEF ToSet
    <2>2. QED
      BY <2>1, CloseFacts DEF CloseOne
  <1>3. step = [x \in S |-> [c \in V |-> CloseOne(p, ids, c, p.types[x])]]
    BY DEF Closing
  <1> HIDE DEF V, n
  <1>4. step \in [S -> [V -> V]] /\ \A x \in S, c \in V : step[x][c] = CloseOne(p, ids, c, p.types[x])
    <2> HIDE DEF step, S
    <2>1. QED
      BY <1>2, <1>3
  <1>16. base = NoClosure
    OBVIOUS
  <1> HIDE DEF base, step
  <1>5. CanClimb(n, V, base, step)
    BY <1>0, <1>1, <1>4 DEF CanClimb
  <1>14. PICK iter : FoldsWith(iter, n, V, base, step)
    BY <1>5, FoldValue
  <1>6. /\ iter \in [SUBSET S -> V]
        /\ iter[{}] = base
        /\ \A s \in SUBSET S : s # {} =>
              /\ TopOf(s) \in S
              /\ iter[s \ {TopOf(s)}] \in V
              /\ iter[s] = step[TopOf(s)][iter[s \ {TopOf(s)}]]
    BY <1>14 DEF FoldsWith
  <1>7. iter = Body(iter)
    <2>1. ASSUME NEW s \in SUBSET S
          PROVE  iter[s] = ClosingBody(iter, s, p, ids)
      <3> HIDE DEF S
      <3>1. CASE s = {}
        BY <1>16, <1>6, <3>1 DEF ClosingBody
      <3>2. CASE s # {}
        <4>1. iter[s] = step[TopOf(s)][iter[s \ {TopOf(s)}]]
              /\ TopOf(s) \in S /\ iter[s \ {TopOf(s)}] \in V
          BY <1>6, <3>2
        <4>2. step[TopOf(s)][iter[s \ {TopOf(s)}]] = CloseOne(p, ids, iter[s \ {TopOf(s)}], p.types[TopOf(s)])
          BY <1>4, <4>1
        <4>3. QED
          BY <3>2, <4>1, <4>2 DEF ClosingBody
      <3>3. QED
        BY <3>1, <3>2
    <2> HIDE DEF S
    <2>2. QED
      BY <1>6, <2>1
  <1>8. chosen = Body(chosen)
    <2> HIDE DEF Body
    <2>1. QED
      BY <1>7
  <1>9. /\ chosen = [s \in SUBSET S |-> chosen[s]]
        /\ \A s \in SUBSET S : chosen[s] = ClosingBody(chosen, s, p, ids)
    <2> HIDE DEF chosen
    <2>1. QED
      BY <1>8
  <1> HIDE DEF chosen
  <1>10. FoldsFrom(chosen, n, V, base, step)
    <2>1. chosen[{}] = base
      BY <1>16, <1>9 DEF ClosingBody
    <2>2. ASSUME NEW s \in SUBSET S, s # {}, chosen[s \ {TopOf(s)}] \in V
          PROVE  chosen[s] = step[TopOf(s)][chosen[s \ {TopOf(s)}]]
      <3>1. TopOf(s) \in S
        BY <1>6, <2>2
      <3> HIDE DEF S
      <3>2. QED
        BY <1>4, <1>9, <2>2, <3>1 DEF ClosingBody
    <2>3. QED
      BY <1>9, <2>1, <2>2 DEF FoldsFrom
  <1>11. ClosureOf(p, ids) = chosen[S]
    <2> HIDE DEF S
    <2>2. QED
      BY <1>0 DEF ClosureOf, chosen
  <1>12. PICK f : ClimbsTo(f, n, V, base, step, chosen[1..n])
    BY <1>5, <1>10, FoldsClimb
  <1>13. chosen[S] \in V
    <2>1. f \in [0..n -> V] /\ f[n] = chosen[S]
      BY <1>12 DEF ClimbsTo
    <2> HIDE DEF S
    <2>2. QED
      BY <1>0, <2>1
  <1>15. QED
    BY <1>11, <1>13, ClosureUnfolds DEF V

(* What is known of a closure: nobody enters in it, its edges are those of  *)
(* its functions, and its types are closable.                               *)
LEMMA ClosureRoles ==
    ASSUME NEW p, NEW ids, NEW c \in Closures(p, ids)
    PROVE  /\ \A id \in DOMAIN c.roles : "ISF" \notin c.roles[id]
           /\ \A e \in c.edges : e.id \in ids \cup DOMAIN c.roles
           /\ c.types \subseteq Closable(p, ids)
  <1>1. /\ c \in [roles : UNION {[D -> Helping] : D \in SUBSET Closers(p, ids)},
                  types : SUBSET Closable(p, ids), edges : SUBSET ClosingEdges(p, ids)]
        /\ \A e \in c.edges : e.id \in ids \cup DOMAIN c.roles
    BY DEF Closures
  <1>2. PICK D \in SUBSET Closers(p, ids) : c.roles \in [D -> Helping]
    BY <1>1
  <1>3. \A id \in DOMAIN c.roles : c.roles[id] \in Helping
    BY <1>2
  <1>4. QED
    BY <1>1, <1>3 DEF Helping

(* Merging loses no edge and invents none.                                  *)
LEMMA MergedFacts ==
    ASSUME NEW E
    PROVE  /\ \A e \in Merged(E) : \E d \in E : d.id = e.id /\ d.source = e.source /\ d.target = e.target
           /\ \A d \in E : \E e \in Merged(E) : d.id = e.id /\ d.source = e.source /\ d.target = e.target
  <1> DEFINE alike(e) == {d \in E : d.id = e.id /\ d.source = e.source /\ d.target = e.target}
             one(e) == LifecycleEdge(e.id, e.source, e.target, UNION {d.labels : d \in alike(e)})
  <1>1. Merged(E) = {one(e) : e \in E}
    BY DEF Merged
  <1>2. \A e : one(e).id = e.id /\ one(e).source = e.source /\ one(e).target = e.target
    BY DEF LifecycleEdge
  <1> HIDE DEF one
  <1>3. QED
    BY <1>1, <1>2

(* The lifecycle of an entry: that of its view, or those its own functions  *)
(* need.                                                                    *)
ClosureFor(p, anchor, view) ==
    IF view = NoView THEN OpaqueClosure(p, Selected(anchor, Reached(p, anchor, view)))
    ELSE UsageClosure(p, view, anchor)

(* The functions an entry selects are annotated.                            *)
LEMMA SelectedFacts ==
    ASSUME NEW p, NEW patterns, IsDirectory(p, patterns), NEW anchor \in Entries(p), NEW view
    PROVE  Selected(anchor, Reached(p, anchor, view)) \in SUBSET (DOMAIN p.labels)
  <1>1. \A e \in Reached(p, anchor, view).edges : e.id \in DOMAIN p.labels
    BY ReachedEdges DEF IsDirectory
  <1>2. anchor \in DOMAIN p.labels
    BY DEF Entries
  <1>3. QED
    BY <1>1, <1>2 DEF Selected

(* Nobody enters in a lifecycle, and its edges are those of its functions.  *)
LEMMA LifecycleFacts ==
    ASSUME NEW p, NEW patterns, IsDirectory(p, patterns), NEW anchor \in Entries(p), NEW view,
           NEW c, c = ClosureFor(p, anchor, view)
    PROVE  /\ \A id \in DOMAIN c.roles : "ISF" \notin c.roles[id]
           /\ \A e \in c.edges : e.id \in Selected(anchor, Reached(p, anchor, view)) \cup DOMAIN c.roles
  <1> DEFINE ids == Selected(anchor, Reached(p, anchor, view))
  <1>1. CASE view = NoView
    <2>1. ids \in SUBSET (DOMAIN p.labels)
      BY SelectedFacts
    <2>2. c = OpaqueClosure(p, ids)
      BY <1>1 DEF ClosureFor
    <2> HIDE DEF ids
    <2>3. c \in Closures(p, ids)
      BY <2>1, <2>2, ClosureFacts
    <2>4. /\ \A id \in DOMAIN c.roles : "ISF" \notin c.roles[id]
          /\ \A e \in c.edges : e.id \in ids \cup DOMAIN c.roles
      BY <2>3, ClosureRoles
    <2>5. QED
      BY <2>4 DEF ids
  <1>2. CASE view # NoView
    <2>1. c = UsageClosure(p, view, anchor) /\ EdgesKnown(p)
      BY <1>2 DEF ClosureFor, IsDirectory
    <2>2. ShowsView(c, view)
      BY <2>1, UsageClosureFacts
    <2>3. QED
      BY <2>2 DEF ShowsView
  <1>3. QED
    BY <1>1, <1>2

(* A triplet, part by part.                                                 *)
IsTripletOf(t, p, anchor, view, reached, c) ==
    /\ t.anchor = anchor /\ t.view = view
    /\ DOMAIN t.roles = {anchor} \cup {e.id : e \in reached.edges} \cup DOMAIN c.roles
    /\ {id \in DOMAIN t.roles : "ISF" \in t.roles[id]} = {anchor}
    /\ t.structures = (reached.nodes \cup c.types) \ {Null}
    /\ t.edges = Merged(reached.edges \cup c.edges)
    /\ \A e \in t.edges : e.id \in DOMAIN t.roles
    /\ t.relations = IF view = NoView THEN DeclaredRelations(p, t.roles) ELSE {UsageRelation(view)}

(* It is made of what is reached and of the lifecycle.                      *)
LEMMA TripletFacts ==
    ASSUME NEW p, NEW patterns, IsDirectory(p, patterns), NEW anchor \in Entries(p), NEW view
    PROVE  IsTripletOf(Triplet(p, anchor, view), p, anchor, view, Reached(p, anchor, view),
                       ClosureFor(p, anchor, view))
  <1> DEFINE t == Triplet(p, anchor, view)
             reached == Reached(p, anchor, view)
             c == ClosureFor(p, anchor, view)
             roles == RolesWith(p, anchor, reached, c)
             first(id) == (IF id = anchor THEN p.labels[anchor] ELSE {})
                          \cup UNION {e.labels : e \in {d \in reached.edges : d.id = id}}
             added(id) == IF id \in DOMAIN c.roles THEN c.roles[id] ELSE {}
             ids == Selected(anchor, reached) \cup DOMAIN c.roles
  <1>1. t = TripletWith(p, anchor, view, reached, c, roles)
    BY DEF Triplet, TripletFrom, ClosedTriplet, ClosureFor
  <1>2. roles = [id \in ids |-> first(id) \cup added(id)]
    BY DEF RolesWith
  <1>3. /\ \A id \in DOMAIN c.roles : "ISF" \notin c.roles[id]
        /\ \A e \in c.edges : e.id \in ids
    BY LifecycleFacts
  <1>4. \A e \in reached.edges : e.id = anchor \/ "ISF" \notin e.labels
    BY ReachedEdges DEF IsDirectory
  <1>5. "ISF" \in p.labels[anchor]
    BY DEF Entries
  <1>6. \A id : "ISF" \notin added(id)
    BY <1>3
  <1>7. \A id : "ISF" \in first(id) <=> id = anchor
    BY <1>4, <1>5
  <1>8. anchor \in ids /\ \A e \in reached.edges : e.id \in ids
    BY DEF Selected
  <1>9. ids = {anchor} \cup {e.id : e \in reached.edges} \cup DOMAIN c.roles
    BY DEF Selected
  <1> HIDE DEF ids, first, added, roles
  <1>10. DOMAIN roles = ids /\ {id \in ids : "ISF" \in roles[id]} = {anchor}
    BY <1>2, <1>6, <1>7, <1>8
  <1>11. \A e \in Merged(reached.edges \cup c.edges) : e.id \in ids
    <2>1. \A e \in reached.edges \cup c.edges : e.id \in ids
      BY <1>3, <1>8
    <2>2. QED
      BY <2>1, MergedFacts
  <1>12. /\ t.anchor = anchor /\ t.view = view /\ t.roles = roles
         /\ t.structures = (reached.nodes \cup c.types) \ {Null}
         /\ t.edges = Merged(reached.edges \cup c.edges)
         /\ t.relations = IF view = NoView THEN DeclaredRelations(p, roles) ELSE {UsageRelation(view)}
    BY <1>1 DEF TripletWith
  <1> HIDE DEF t, reached, c
  <1>13. IsTripletOf(t, p, anchor, view, reached, c)
    BY <1>9, <1>10, <1>11, <1>12 DEF IsTripletOf
  <1>14. QED
    BY <1>13 DEF t, reached, c

(* A view is not the absence of one.                                        *)
LEMMA ViewIsNone ==
    ASSUME NEW p, NEW patterns, NEW anchor, NEW v, IsViewFor(p, patterns, anchor, v)
    PROVE  v # NoView
  BY DEF IsViewFor, NoView

(* The views an entry may be extracted with.                                *)
IsViewOrNone(p, patterns, anchor, view) == view = NoView \/ IsViewFor(p, patterns, anchor, view)

(* The constructor refuses no triplet.                                      *)
LEMMA WellFormedTriplet ==
    ASSUME NEW p, NEW patterns, IsDirectory(p, patterns), NEW anchor \in Entries(p), NEW view,
           IsViewOrNone(p, patterns, anchor, view), NEW t, t = Triplet(p, anchor, view)
    PROVE  WellFormed(p, t)
  <1> DEFINE reached == Reached(p, anchor, view)
             c == ClosureFor(p, anchor, view)
             ids == DOMAIN t.roles
  <1>5. IsTripletOf(t, p, anchor, view, reached, c) /\ c = ClosureFor(p, anchor, view)
    BY TripletFacts
  <1> HIDE DEF reached, c
  <1>1. /\ t.anchor = anchor /\ t.view = view
        /\ DOMAIN t.roles = {anchor} \cup {e.id : e \in reached.edges} \cup DOMAIN c.roles
        /\ {id \in DOMAIN t.roles : "ISF" \in t.roles[id]} = {anchor}
        /\ \A e \in t.edges : e.id \in DOMAIN t.roles
        /\ t.relations = IF view = NoView THEN DeclaredRelations(p, t.roles) ELSE {UsageRelation(view)}
    BY <1>5 DEF IsTripletOf
  <1>2. CASE view = NoView
    <2> DEFINE uses(r) ==
                  {id \in ids \ {r.producer, r.cleanup} :
                      /\ "HPF" \notin t.roles[id]
                      /\ \E i \in DOMAIN Function(p, id).parameters :
                            LET parameter == Function(p, id).parameters[i] IN
                            parameter.base = r.type /\ parameter.depth > 0}
               made(r) == [producer |-> r.producer, type |-> r.type, cleanup |-> r.cleanup,
                           sequence |-> <<>>, consumers |-> Names(p, uses(r))]
    <2>5. t.relations = {made(r) : r \in {s \in p.ownership : s.producer \in ids}}
      BY <1>1, <1>2 DEF DeclaredRelations
    <2>6. \A r : uses(r) \in SUBSET ids
      OBVIOUS
    <2>7. \A r : /\ made(r).producer = r.producer /\ made(r).sequence = <<>>
                 /\ made(r).consumers = Names(p, uses(r))
      OBVIOUS
    <2> HIDE DEF made, uses
    <2>1. \A r \in t.relations : /\ r.producer \in ids /\ r.sequence = <<>>
                                 /\ \E S \in SUBSET ids : r.consumers = Names(p, S)
      BY <2>5, <2>6, <2>7
    <2>2. \A S \in SUBSET ids : Names(p, S) \subseteq Names(p, ids)
      BY DEF Names
    <2> HIDE DEF ids
    <2>3. \A r \in t.relations : r.producer \in ids /\ r.sequence = <<>> /\ r.consumers \subseteq Names(p, ids)
      BY <2>1, <2>2
    <2>4. QED
      BY <1>1, <2>3 DEF WellFormed, ids
  <1>3. CASE view # NoView
    <2> DEFINE a == Middle(view.sequence)
               used == UsedBy(view)
    <2>1. IsViewFor(p, patterns, anchor, view) /\ EdgesKnown(p) /\ c = UsageClosure(p, view, anchor)
      BY <1>3, <1>5 DEF IsViewOrNone, IsDirectory, ClosureFor
    <2>10. ShowsView(c, view)
      BY <2>1, UsageClosureFacts
    <2>2. DOMAIN c.roles = used
      BY <2>10 DEF ShowsView
    <2>3. /\ Head(view.sequence) = Function(p, view.producer).name
          /\ Last(view.sequence) = Function(p, view.cleanup).name
          /\ DOMAIN a = 1..Len(a) /\ DOMAIN view.consumers = 1..Len(a)
          /\ \A i \in 1..Len(a) : a[i] = Function(p, view.consumers[i]).name
      BY <2>1 DEF IsViewFor
    <2>4. used \subseteq ids
      BY <1>1, <2>2
    <2> USE DEF UsedBy
    <2> HIDE DEF ids, a
    <2>5. ToSet(a) \subseteq Names(p, ids)
      <3>1. \A i \in 1..Len(a) : view.consumers[i] \in ids
        BY <2>3, <2>4 DEF ToSet
      <3>2. QED
        BY <2>3, <3>1 DEF ToSet, Names
    <2> DEFINE r == UsageRelation(view)
    <2>6. /\ r.producer = view.producer /\ r.cleanup = view.cleanup
          /\ r.sequence = view.sequence /\ r.consumers = ToSet(a)
      BY DEF UsageRelation, a
    <2>7. t.relations = {r}
      BY <1>1, <1>3
    <2> HIDE DEF r
    <2>8. \A k \in t.relations : /\ k.producer \in ids /\ k.consumers \subseteq Names(p, ids)
                                 /\ Head(k.sequence) = Function(p, k.producer).name
                                 /\ Last(k.sequence) = Function(p, k.cleanup).name
      BY <2>3, <2>4, <2>5, <2>6, <2>7
    <2>9. QED
      BY <1>1, <2>8 DEF WellFormed, ids
  <1>4. QED
    BY <1>2, <1>3

(* A triplet with a view shows what was observed.                           *)
LEMMA TripletObserved ==
    ASSUME NEW p, NEW patterns, IsDirectory(p, patterns), NEW anchor \in Entries(p), NEW view,
           IsViewFor(p, patterns, anchor, view), NEW t, t = Triplet(p, anchor, view)
    PROVE  /\ t.anchor \in ToSet(t.view.consumers)
           /\ Function(p, t.anchor).name \in ToSet(Middle(t.view.sequence))
           /\ Len(Middle(t.view.sequence)) = Len(t.view.consumers)
           /\ \A id \in UsedBy(t.view) :
                 \E e \in t.edges : e.id = id /\ t.view.type \in {e.source, e.target}
           /\ \A q \in {m \in patterns : m.id \in t.view.id} :
                 IsSubsequenceOf(t.view.sequence, q.sequence) /\ StaticFacts(q) = StaticFacts(t.view)
  <1> DEFINE reached == Reached(p, anchor, view)
             c == ClosureFor(p, anchor, view)
             a == Middle(view.sequence)
             used == UsedBy(view)
  <1>8. IsTripletOf(t, p, anchor, view, reached, c) /\ c = ClosureFor(p, anchor, view)
    BY TripletFacts
  <1> HIDE DEF reached, c
  <1>1. t.anchor = anchor /\ t.view = view /\ t.edges = Merged(reached.edges \cup c.edges)
    BY <1>8 DEF IsTripletOf
  <1>2. /\ DOMAIN a = 1..Len(a) /\ DOMAIN view.consumers = 1..Len(a) /\ Len(view.consumers) = Len(a)
        /\ \A i \in 1..Len(a) : a[i] = Function(p, view.consumers[i]).name
        /\ \E i \in 1..Len(a) : view.consumers[i] = anchor
        /\ \A q \in patterns : q.id \in view.id =>
              IsSubsequenceOf(view.sequence, q.sequence) /\ StaticFacts(q) = StaticFacts(view)
    BY DEF IsViewFor
  <1>3. EdgesKnown(p) /\ c = UsageClosure(p, view, anchor)
    BY <1>8, ViewIsNone DEF IsDirectory, ClosureFor
  <1>4. \A id \in used : \E e \in c.edges : e.id = id /\ view.type \in {e.source, e.target}
    <2>1. ShowsView(c, view)
      BY <1>3, UsageClosureFacts
    <2>2. QED
      BY <2>1 DEF ShowsView
  <1> HIDE DEF a
  <1>5. anchor \in ToSet(view.consumers) /\ Function(p, anchor).name \in ToSet(a)
    BY <1>2 DEF ToSet
  <1> HIDE DEF used
  <1>6. ASSUME NEW id \in used
        PROVE  \E e \in t.edges : e.id = id /\ view.type \in {e.source, e.target}
    <2>1. PICK d \in c.edges : d.id = id /\ view.type \in {d.source, d.target}
      BY <1>4
    <2>2. \E e \in Merged(reached.edges \cup c.edges) : d.id = e.id /\ d.source = e.source /\ d.target = e.target
      BY MergedFacts
    <2>3. QED
      BY <1>1, <2>1, <2>2
  <1>7. QED
    BY <1>1, <1>2, <1>5, <1>6 DEF a, used

(* One step further along, or against, the edges.                           *)
Further(reached, edges, incoming, stops) ==
    reached \cup UNION {Neighbours(edges, node, incoming) : node \in reached \ stops}

(* A walk, by its steps.                                                    *)
IsSpread(f, n, edges, start, incoming, stops) ==
    /\ n \in Nat /\ f[0] = {start}
    /\ \A k \in 1..n : f[k] = Further(f[k - 1], edges, incoming, stops)

(* What such a walk ends with, but for its start.                           *)
EndsWith(nodes, edges, start, incoming, stops) ==
    \E n, f : IsSpread(f, n, edges, start, incoming, stops) /\ nodes = f[n] \ {start}

(* What is reachable is that.                                               *)
LEMMA ReachableSpreads ==
    ASSUME NEW edges, IsFiniteSet(Nodes(edges)), NEW start, NEW incoming, NEW boundaries,
           start \notin boundaries \cup {Null}
    PROVE  EndsWith(ReachableWithoutCrossing(edges, start, incoming, boundaries), edges, start, incoming,
                    boundaries \cup {Null})
  <1> DEFINE stops == boundaries \cup {Null}
             N == Cardinality(Nodes(edges))
             V == SUBSET (Nodes(edges) \cup {start})
             step == [k \in 1..N |-> [v \in V |-> Further(v, edges, incoming, stops)]]
             Body(f) == [n \in 0..N |->
                            IF n = 0 THEN {start}
                            ELSE LET closer == f[n - 1] IN
                                 closer \cup UNION {Neighbours(edges, node, incoming) : node \in closer \ stops}]
             chosen == CHOOSE f : f = Body(f)
  <1>1. N \in Nat /\ {start} \in V
    BY FS_CardinalityType
  <1>2. \A v \in V : Further(v, edges, incoming, stops) \in V
    <2>1. \A node : Neighbours(edges, node, incoming) \subseteq Nodes(edges)
      BY DEF Neighbours, Nodes
    <2>2. QED
      BY <2>1 DEF Further
  <1>3. step \in [1..N -> [V -> V]]
    <2> HIDE DEF V, N, stops
    <2>1. QED
      BY <1>2
  <1>4. \A k \in 1..N : \A v \in V : step[k][v] = Further(v, edges, incoming, stops)
    OBVIOUS
  <1> HIDE DEF N, V, step, stops
  <1>5. PICK f \in [0..N -> V] : Climbs(f, N, {start}, step)
    BY <1>1, <1>3, LadderExists DEF CanClimb
  <1>6. \A k \in 1..N : k \in 0..N /\ k - 1 \in 0..N /\ k # 0
    BY <1>1
  <1>7. f = Body(f)
    <2>1. \A k \in 1..N : f[k] = Further(f[k - 1], edges, incoming, stops)
      BY <1>4, <1>5, <1>6 DEF Climbs
    <2>2. f[0] = {start}
      BY <1>5 DEF Climbs
    <2>3. \A k \in 0..N : k # 0 => k \in 1..N
      BY <1>1
    <2>4. QED
      BY <1>5, <2>1, <2>2, <2>3 DEF Further
  <1>8. chosen = Body(chosen)
    <2> HIDE DEF Body
    <2>1. QED
      BY <1>7
  <1>9. chosen[0] = {start} /\ \A k \in 1..N : chosen[k] = Further(chosen[k - 1], edges, incoming, stops)
    <2> HIDE DEF chosen
    <2>1. 0 \in 0..N
      BY <1>1
    <2>2. QED
      BY <2>1, <1>6, <1>8 DEF Further
  <1>10. IsSpread(chosen, N, edges, start, incoming, stops)
    <2> HIDE DEF chosen
    <2>1. QED
      BY <1>1, <1>9 DEF IsSpread
  <1>11. ReachableWithoutCrossing(edges, start, incoming, boundaries) = chosen[N] \ {start}
    BY DEF ReachableWithoutCrossing, stops, N
  <1> HIDE DEF chosen
  <1>12. QED
    BY <1>10, <1>11 DEF stops, EndsWith

(* A walk loses nothing on its way.                                         *)
LEMMA SpreadGrows ==
    ASSUME NEW f, NEW n, NEW edges, NEW start, NEW incoming, NEW stops,
           IsSpread(f, n, edges, start, incoming, stops)
    PROVE  \A k \in 0..n : f[k] \subseteq f[n]
  <1> DEFINE Good == {j \in 0..n : f[n - j] \subseteq f[n]}
  <1>1. n \in Nat
    BY DEF IsSpread
  <1>2. 0 \in Good
    BY <1>1
  <1>3. ASSUME NEW j \in 1..n, j - 1 \in Good
        PROVE  j \in Good
    <2>1. n - j + 1 \in 1..n /\ (n - j + 1) - 1 = n - j /\ n - (j - 1) = n - j + 1
      BY <1>1
    <2>2. f[n - j] \subseteq f[n - j + 1]
      BY <2>1 DEF IsSpread, Further
    <2>3. f[n - (j - 1)] \subseteq f[n]
      BY <1>3
    <2>4. QED
      BY <2>1, <2>2, <2>3
  <1>4. \A j \in 0..n : j \in Good
    <2> HIDE DEF Good
    <2>1. QED
      BY <1>1, <1>2, <1>3, IntervalInduction
  <1>5. ASSUME NEW k \in 0..n
        PROVE  f[k] \subseteq f[n]
    <2>1. n - k \in 0..n /\ n - (n - k) = k
      BY <1>1
    <2>2. f[n - (n - k)] \subseteq f[n]
      BY <1>4, <2>1
    <2>3. QED
      BY <2>1, <2>2
  <1>6. QED
    BY <1>5

(* A walk does not leave what is closed under the edges it walks, but to    *)
(* where it stops.                                                          *)
LEMMA SpreadStays ==
    ASSUME NEW f, NEW n, NEW edges, NEW start, NEW incoming, NEW stops,
           IsSpread(f, n, edges, start, incoming, stops), NEW S, start \in S,
           \A e \in edges : /\ e.source \in f[n] /\ e.target \in f[n]
                            /\ e.source \notin stops /\ e.target \notin stops
                            => (e.source \in S <=> e.target \in S)
    PROVE  f[n] \subseteq S \cup stops
  <1> DEFINE Good == {k \in 0..n : f[k] \subseteq S \cup stops}
  <1>1. n \in Nat /\ f[0] = {start}
    BY DEF IsSpread
  <1>2. 0 \in Good
    BY <1>1
  <1>3. ASSUME NEW k \in 1..n, k - 1 \in Good
        PROVE  k \in Good
    <2>1. k \in 0..n /\ k - 1 \in 0..n
      BY <1>1
    <2>2. f[k] \subseteq f[n] /\ f[k - 1] \subseteq f[n] /\ f[k - 1] \subseteq S \cup stops
      BY <2>1, <1>3, SpreadGrows
    <2>3. f[k] = Further(f[k - 1], edges, incoming, stops)
      BY DEF IsSpread
    <2> SUFFICES ASSUME NEW y \in f[k], y \notin f[k - 1], y \notin stops PROVE y \in S
      BY <2>1, <2>2
    <2>4. PICK node \in f[k - 1] \ stops : y \in Neighbours(edges, node, incoming)
      BY <2>3 DEF Further
    <2>5. node \in S /\ node \in f[n] /\ y \in f[n]
      BY <2>2
    <2>6. PICK e \in edges : (e.source = y /\ e.target = node) \/ (e.source = node /\ e.target = y)
      BY <2>4 DEF Neighbours
    <2>7. e.source \in S <=> e.target \in S
      BY <2>5, <2>6
    <2>8. QED
      BY <2>5, <2>6, <2>7
  <1>4. \A k \in 0..n : k \in Good
    <2> HIDE DEF Good
    <2>1. QED
      BY <1>1, <1>2, <1>3, IntervalInduction
  <1>5. n \in Good
    BY <1>1, <1>4
  <1>6. QED
    BY <1>5

(* The resources that stop the walks of an entry.                           *)
StopsFor(p, view) == OpaqueTypes(p) \cup (IF view = NoView THEN {} ELSE {view.type})

(* The walks of an entry do not leave what has its own structures and is    *)
(* closed under the edges reached, but to where they stop.                  *)
LEMMA ReachedStays ==
    ASSUME NEW p, EdgesKnown(p), NEW anchor, NEW view, NEW reached, reached = Reached(p, anchor, view), NEW S,
           \A e \in reached.edges : e.id = anchor =>
              /\ e.source \in S \cup {Null} /\ e.target \in S \cup {Null},
           \A e \in reached.edges :
              /\ e.id \notin Rivals(p, anchor) /\ {e.source, e.target} \cap StopsFor(p, view) = {}
              /\ {e.source, e.target} \subseteq reached.nodes \ {Null}
              => (e.source \in S <=> e.target \in S)
    PROVE  reached.nodes \subseteq S \cup StopsFor(p, view) \cup {Null}
  <1> DEFINE walk  == Walkable(p, anchor)
             own   == {e \in walk : e.id = anchor}
             stops == OpaqueTypes(p) \cup (IF view = NoView THEN {} ELSE {view.type})
             ends  == Nodes(own)
             alone == MakesOwned(p, anchor) /\ \E e \in own : e.source = Null /\ e.target # Null
             about(e) == ReachableWithoutCrossing(walk, e.source, TRUE, stops)
                         \cup ReachableWithoutCrossing(walk, e.target, FALSE, stops)
             nodes == ends \cup UNION {about(e) : e \in own}
             within(e) == {e.source, e.target} \subseteq nodes
             free(e) == {e.source, e.target} \cap stops = {}
             walked == {e \in walk : within(e) /\ (e.id = anchor \/ free(e))}
             masked == {e \in Masked(p, anchor) : within(e) /\ free(e)}
  <1>1. reached = IF alone THEN [nodes |-> ends, edges |-> own]
                  ELSE [nodes |-> nodes, edges |-> walked \cup masked]
    BY DEF Reached
  <1>2. stops = StopsFor(p, view)
    BY DEF StopsFor
  <1>3. \A e \in own : e.source \in ends /\ e.target \in ends /\ e.id = anchor /\ e \in walk
    BY DEF Nodes
  <1>4. \A x \in ends : \E e \in own : x = e.source \/ x = e.target
    BY DEF Nodes
  <1>5. \A e \in walk : e.id \notin Rivals(p, anchor)
    BY DEF Walkable
  <1>6. IsFiniteSet(Nodes(walk))
    <2>1. Nodes(walk) \subseteq Nodes(p.edges)
      BY DEF Walkable, Nodes
    <2>2. QED
      BY <2>1, FS_Subset DEF EdgesKnown
  <1> HIDE DEF walk, own, stops, ends, about
  <1>7. CASE alone
    <2>1. reached.nodes = ends /\ reached.edges = own
      BY <1>1, <1>7
    <2>2. QED
      BY <2>1, <1>3, <1>4
  <1>8. CASE ~alone
    <2>1. reached.nodes = nodes /\ reached.edges = walked \cup masked
      BY <1>1, <1>8
    <2>2. own \subseteq reached.edges
      BY <2>1, <1>3
    <2>3. ends \subseteq S \cup {Null}
      BY <2>2, <1>3, <1>4
    <2>4. ASSUME NEW e \in walk, e.source \in nodes, e.target \in nodes,
                 e.source \notin stops \cup {Null}, e.target \notin stops \cup {Null}
          PROVE  e.source \in S <=> e.target \in S
      <3>1. e \in walked
        BY <2>4
      <3>2. e \in reached.edges /\ {e.source, e.target} \subseteq reached.nodes \ {Null}
        BY <2>1, <2>4, <3>1
      <3>3. {e.source, e.target} \cap StopsFor(p, view) = {} /\ e.id \notin Rivals(p, anchor)
        BY <2>4, <1>2, <1>5
      <3>4. QED
        BY <3>2, <3>3
    <2>5. ASSUME NEW start \in ends, NEW incoming,
                 ReachableWithoutCrossing(walk, start, incoming, stops) \subseteq nodes
          PROVE  ReachableWithoutCrossing(walk, start, incoming, stops) \subseteq S \cup stops \cup {Null}
      <3>1. CASE start \in stops \cup {Null}
        <4>1. ReachableWithoutCrossing(walk, start, incoming, stops) = {}
          BY <3>1 DEF ReachableWithoutCrossing
        <4>2. QED
          BY <4>1
      <3>2. CASE start \notin stops \cup {Null}
        <4>1. EndsWith(ReachableWithoutCrossing(walk, start, incoming, stops), walk, start, incoming,
                       stops \cup {Null})
          BY <3>2, <1>6, ReachableSpreads
        <4>2. PICK n : \E f : /\ IsSpread(f, n, walk, start, incoming, stops \cup {Null})
                              /\ ReachableWithoutCrossing(walk, start, incoming, stops) = f[n] \ {start}
          BY <4>1 DEF EndsWith
        <4>3. PICK f : /\ IsSpread(f, n, walk, start, incoming, stops \cup {Null})
                       /\ ReachableWithoutCrossing(walk, start, incoming, stops) = f[n] \ {start}
          BY <4>2
        <4>4. f[n] \subseteq nodes
          BY <4>3, <2>5
        <4>5. start \in S
          BY <2>3, <3>2
        <4> DEFINE limits == stops \cup {Null}
        <4>6. \A e \in walk : /\ e.source \in f[n] /\ e.target \in f[n]
                              /\ e.source \notin limits /\ e.target \notin limits
                              => (e.source \in S <=> e.target \in S)
          <5> HIDE DEF nodes
          <5>1. QED
            BY <4>4, <2>4
        <4>7. IsSpread(f, n, walk, start, incoming, limits)
          BY <4>3
        <4> HIDE DEF limits
        <4>8. f[n] \subseteq S \cup limits
          BY <4>5, <4>6, <4>7, SpreadStays
        <4>9. QED
          BY <4>3, <4>8 DEF limits
      <3>3. QED
        BY <3>1, <3>2
    <2>6. ASSUME NEW e \in own
          PROVE  about(e) \subseteq S \cup stops \cup {Null}
      <3>1. about(e) \subseteq nodes /\ e.source \in ends /\ e.target \in ends
        BY <1>3
      <3>2. /\ ReachableWithoutCrossing(walk, e.source, TRUE, stops) \subseteq nodes
            /\ ReachableWithoutCrossing(walk, e.target, FALSE, stops) \subseteq nodes
        <4> HIDE DEF nodes
        <4>1. QED
          BY <3>1 DEF about
      <3> HIDE DEF nodes
      <3>3. ReachableWithoutCrossing(walk, e.source, TRUE, stops) \subseteq S \cup stops \cup {Null}
        BY <3>1, <3>2, <2>5
      <3>4. ReachableWithoutCrossing(walk, e.target, FALSE, stops) \subseteq S \cup stops \cup {Null}
        BY <3>1, <3>2, <2>5
      <3>5. QED
        BY <3>3, <3>4 DEF about
    <2>7. QED
      BY <2>1, <2>3, <2>6, <1>2
  <1>9. QED
    BY <1>7, <1>8

(* The edges of the entry that are reached lead to nodes that are.          *)
LEMMA ReachedEnds ==
    ASSUME NEW p, NEW anchor, NEW view, NEW reached, reached = Reached(p, anchor, view),
           NEW d \in reached.edges, d.id = anchor
    PROVE  d.source \in reached.nodes /\ d.target \in reached.nodes
  <1> DEFINE walk  == Walkable(p, anchor)
             own   == {e \in walk : e.id = anchor}
             stops == OpaqueTypes(p) \cup (IF view = NoView THEN {} ELSE {view.type})
             ends  == Nodes(own)
             alone == MakesOwned(p, anchor) /\ \E e \in own : e.source = Null /\ e.target # Null
             nodes == ends \cup UNION {ReachableWithoutCrossing(walk, e.source, TRUE, stops)
                                       \cup ReachableWithoutCrossing(walk, e.target, FALSE, stops) : e \in own}
             within(e) == {e.source, e.target} \subseteq nodes
             free(e) == {e.source, e.target} \cap stops = {}
  <1>1. reached = IF alone THEN [nodes |-> ends, edges |-> own]
                  ELSE [nodes |-> nodes,
                        edges |-> {e \in walk : within(e) /\ (e.id = anchor \/ free(e))}
                                  \cup {e \in Masked(p, anchor) : within(e) /\ free(e)}]
    BY DEF Reached
  <1>2. d \in own => d.source \in ends /\ d.target \in ends
    BY DEF Nodes
  <1> HIDE DEF walk, own, ends, nodes, alone, stops
  <1>3. QED
    BY <1>1, <1>2

(* What a triplet has besides its lifecycle hangs together with its entry.  *)
LEMMA TripletConnected ==
    ASSUME NEW p, NEW patterns, IsDirectory(p, patterns), NEW anchor \in Entries(p), NEW view,
           IsViewOrNone(p, patterns, anchor, view), NEW t, t = Triplet(p, anchor, view),
           NEW S, Nodes({e \in t.edges : e.id = t.anchor}) \cap t.structures \subseteq S,
           \A e \in LinksOf(p, t) :
              {e.source, e.target} \subseteq t.structures => (e.source \in S <=> e.target \in S)
    PROVE  t.structures \subseteq S \cup StopsOf(p, t) \cup MadeWithin(p, t)
  <1> DEFINE reached == Reached(p, anchor, view)
             c == ClosureFor(p, anchor, view)
             E == reached.edges \cup c.edges
  <1>1. IsTripletOf(t, p, anchor, view, reached, c)
    BY TripletFacts
  <1>2. EdgesKnown(p)
    BY DEF IsDirectory
  <1>3. /\ t.anchor = anchor /\ t.view = view
        /\ DOMAIN t.roles = {anchor} \cup {e.id : e \in reached.edges} \cup DOMAIN c.roles
        /\ t.structures = (reached.nodes \cup c.types) \ {Null}
        /\ t.edges = Merged(reached.edges \cup c.edges)
    BY <1>1 DEF IsTripletOf
  <1>4. StopsOf(p, t) = StopsFor(p, view)
    BY <1>3 DEF StopsOf, StopsFor
  <1>5. c.types \subseteq StopsOf(p, t) \cup MadeWithin(p, t)
    <2>1. CASE view = NoView
      <3> DEFINE ids == Selected(anchor, Reached(p, anchor, view))
      <3>1. ids \in SUBSET (DOMAIN p.labels)
        BY SelectedFacts
      <3>2. c = OpaqueClosure(p, ids)
        BY <2>1 DEF ClosureFor
      <3>3. ids \subseteq DOMAIN t.roles
        BY <1>3 DEF Selected
      <3> HIDE DEF ids, c
      <3>4. c \in Closures(p, ids)
        BY <3>1, <3>2, ClosureFacts
      <3>5. c.types \subseteq Closable(p, ids)
        BY <3>4, ClosureRoles
      <3>6. Closable(p, ids) \subseteq StopsOf(p, t) \cup MadeWithin(p, t)
        BY <3>3 DEF Closable, StopsOf, MadeWithin
      <3>7. QED
        BY <3>5, <3>6
    <2>2. CASE view # NoView
      <3>1. c = UsageClosure(p, view, anchor)
        BY <2>2 DEF ClosureFor
      <3> HIDE DEF c
      <3>2. ShowsView(c, view)
        BY <3>1, <1>2, UsageClosureFacts
      <3>3. QED
        BY <3>2, <1>3, <2>2 DEF ShowsView, StopsOf
    <2>3. QED
      BY <2>1, <2>2
  <1>6. reached = Reached(p, anchor, view)
    OBVIOUS
  <1> HIDE DEF c, reached
  <1>7. ASSUME NEW d \in reached.edges
        PROVE  \E e \in t.edges : d.id = e.id /\ d.source = e.source /\ d.target = e.target
    <2>1. d \in E
      OBVIOUS
    <2> HIDE DEF E
    <2>2. t.edges = Merged(E)
      BY <1>3 DEF E
    <2>3. QED
      BY <2>1, <2>2, MergedFacts
  <1>8. reached.nodes \ {Null} \subseteq t.structures
    BY <1>3
  <1>9. \A d \in reached.edges : d.id = anchor => d.source \in reached.nodes /\ d.target \in reached.nodes
    BY <1>6, ReachedEnds
  <1>10. ASSUME NEW d \in reached.edges, d.id = anchor
         PROVE  d.source \in S \cup {Null} /\ d.target \in S \cup {Null}
    <2>1. PICK e \in t.edges : d.id = e.id /\ d.source = e.source /\ d.target = e.target
      BY <1>7
    <2>2. d.source \in Nodes({k \in t.edges : k.id = t.anchor}) /\ d.target \in Nodes({k \in t.edges : k.id = t.anchor})
      BY <2>1, <1>3, <1>10 DEF Nodes
    <2>3. QED
      BY <2>2, <1>8, <1>9, <1>10
  <1>11. ASSUME NEW d \in reached.edges, d.id \notin Rivals(p, anchor),
                {d.source, d.target} \cap StopsFor(p, view) = {},
                {d.source, d.target} \subseteq reached.nodes \ {Null}
         PROVE  d.source \in S <=> d.target \in S
    <2>1. PICK e \in t.edges : d.id = e.id /\ d.source = e.source /\ d.target = e.target
      BY <1>7
    <2>2. e \in LinksOf(p, t)
      BY <2>1, <1>3, <1>4, <1>11 DEF LinksOf
    <2>3. {e.source, e.target} \subseteq t.structures
      BY <2>1, <1>8, <1>11
    <2>4. QED
      BY <2>1, <2>2, <2>3
  <1>12. reached.nodes \subseteq S \cup StopsFor(p, view) \cup {Null}
    BY <1>2, <1>6, <1>10, <1>11, ReachedStays
  <1>13. QED
    BY <1>3, <1>4, <1>5, <1>12

-----------------------------------------------------------------------------
(* The extraction, step by step.                                            *)

(* The entries put in order are all entries.                                *)
LEMMA SortedFacts ==
    ASSUME NEW p, FunctionsKnown(p)
    PROVE  Sorted(p) \in Seq(Entries(p)) /\ Entries(p) \subseteq ToSet(Sorted(p))
  <1> DEFINE rank(id) == Function(p, id).rank
             R == {rank(id) : id \in Entries(p)}
             ranks == InOrder(R)
             named(k) == CHOOSE id \in Entries(p) : rank(id) = ranks[k]
             n == Cardinality(R)
  <1>1. \A id \in Entries(p) : Function(p, id) \in ToSet(p.functions) /\ Function(p, id).id = id
    BY FunctionFacts
  <1>2. R \in SUBSET Int
    BY <1>1 DEF FunctionsKnown
  <1>3. IsFiniteSet(R)
    <2> DEFINE fs == p.functions
               D == DOMAIN fs
               H == [i \in D |-> fs[i].rank]
               W == {H[i] : i \in D}
    <2>1. fs \in Seq(ToSet(fs))
      BY DEF FunctionsKnown
    <2>2. R \subseteq W
      BY <1>1 DEF ToSet
    <2> HIDE DEF fs, R
    <2>3. IsFiniteSet(D) /\ DOMAIN H = D
      BY <2>1, FinitePlaces
    <2> HIDE DEF D, H
    <2>4. IsFiniteSet(W)
      BY <2>3, FiniteImage
    <2> HIDE DEF W
    <2>5. QED
      BY <2>2, <2>4, FS_Subset
  <1>4. Sorted(p) = [k \in DOMAIN ranks |-> named(k)]
    BY DEF Sorted
  <1>5. \A x \in R : \E id \in Entries(p) : rank(id) = x
    OBVIOUS
  <1>10. \A id \in Entries(p) : rank(id) \in R
    OBVIOUS
  <1>11. \A a, b \in Entries(p) : rank(a) = rank(b) => a = b
    BY <1>1 DEF FunctionsKnown
  <1> HIDE DEF R, rank
  <1>6. /\ n \in Nat /\ ranks \in [1..n -> R]
        /\ \A x \in R : \E k \in 1..n : ranks[k] = x
    BY <1>2, <1>3, InOrderFacts
  <1> HIDE DEF n, ranks
  <1>7. \A k \in 1..n : named(k) \in Entries(p) /\ rank(named(k)) = ranks[k]
    BY <1>5, <1>6
  <1> HIDE DEF named
  <1>8. Sorted(p) \in [1..n -> Entries(p)] /\ \A k \in 1..n : Sorted(p)[k] = named(k)
    BY <1>4, <1>6, <1>7
  <1>12. Sorted(p) \in Seq(Entries(p))
    BY <1>6, <1>8
  <1>9. ASSUME NEW id \in Entries(p)
        PROVE  id \in ToSet(Sorted(p))
    <2>1. PICK k \in 1..n : ranks[k] = rank(id)
      BY <1>6, <1>10
    <2>2. named(k) = id
      BY <2>1, <1>7, <1>11
    <2>3. k \in DOMAIN Sorted(p) /\ Sorted(p)[k] = id
      BY <2>1, <2>2, <1>8
    <2>4. QED
      BY <2>3 DEF ToSet
  <1>13. QED
    BY <1>9, <1>12

(* The extraction has a directory to rely on.                               *)
DirectoryInv ==
    stage # "review" => IsDirectory(artifacts, Patterns) /\ DOMAIN artifacts.labels = DOMAIN annotation

(* Every triplet is that of an entry and one of its variants.               *)
TripletsInv ==
    \A t \in triplets :
       /\ t.anchor \in Entries(artifacts) /\ t.view \in Variants(t.anchor)
       /\ t = Triplet(artifacts, t.anchor, t.view)

(* All variants of an entry are made or left out.                           *)
Described(anchor) ==
    \A view \in Variants(anchor) :
       \/ <<anchor, view.id>> \in excluded
       \/ \E t \in triplets : t.anchor = anchor /\ t.view = view

(* What is no longer among the entries to extract is described.             *)
EntriesInv ==
    stage # "review" =>
       /\ entries \in Seq(Entries(artifacts))
       /\ \A anchor \in Entries(artifacts) : anchor \in ToSet(entries) \/ Described(anchor)

(* How it ends.                                                             *)
EndingInv ==
    /\ stage \in {"review", "extract", "done"} /\ ending \in {"none", "written", "failed"}
    /\ stage # "done" => ending = "none"
    /\ stage = "review" => triplets = {}
    /\ ending = "failed" => Twins(artifacts)
    /\ ending = "written" => entries = <<>>

(* The requests of the review.                                              *)
QueueInv ==
    /\ pending \in Seq(RequestsOver({q.id : q \in Patterns}))
    /\ calls \in 0..Budget
    /\ RequestsBounded

(* The invariant: what is mined, asked, known, built and extracted fits.    *)
LifecycleInv ==
    ProjectInv /\ QueueInv /\ ReviewedInv /\ DirectoryInv /\ TripletsInv /\ EntriesInv /\ EndingInv

(* The variants of an entry are views of it, or the absence of one.         *)
LEMMA VariantsFacts ==
    ASSUME IsDirectory(artifacts, Patterns), NEW anchor \in Entries(artifacts)
    PROVE  /\ \A view \in Variants(anchor) :
                 /\ IsViewOrNone(artifacts, Patterns, anchor, view)
                 /\ view # NoView => IsViewFor(artifacts, Patterns, anchor, view)
           /\ \A v, w \in Variants(anchor) : v.id = w.id => v = w
  <1>1. Variants(anchor) = {NoView} \/ Variants(anchor) = ViewsOf(artifacts, anchor)
    BY DEF Variants
  <1>2. CASE Variants(anchor) = {NoView}
    BY <1>2 DEF IsViewOrNone
  <1>3. CASE Variants(anchor) = ViewsOf(artifacts, anchor)
    <2>1. ASSUME NEW v \in ViewsOf(artifacts, anchor)
          PROVE  IsViewFor(artifacts, Patterns, anchor, v)
      BY ViewFacts
    <2>2. ASSUME NEW v \in ViewsOf(artifacts, anchor)
          PROVE  v = View(MembersFor(artifacts, anchor, v.id))
      BY ViewMade DEF IsDirectory
    <2>3. \A v, w \in ViewsOf(artifacts, anchor) : v.id = w.id => v = w
      BY <2>2
    <2>4. QED
      BY <1>3, <2>1, <2>3 DEF IsViewOrNone
  <1>4. QED
    BY <1>1, <1>2, <1>3

(* Any queue costs a number.                                                *)
LEMMA WorstOfType ==
    ASSUME NEW ids, NEW queue \in Seq(RequestsOver(ids))
    PROVE  WorstOf(queue) \in Int
  <1>1. CASE queue # <<>>
    BY <1>1, WorstOfHead
  <1>2. CASE queue = <<>>
    <2>1. WorstOf(queue) = Total([i \in DOMAIN queue |-> Worst(queue[i])])
      BY DEF WorstOf, Total
    <2>2. [i \in DOMAIN queue |-> Worst(queue[i])] = <<>>
      BY <1>2
    <2>3. QED
      BY <2>1, <2>2, TotalEmpty
  <1>3. QED
    BY <1>1, <1>2

(* A batch is as long as its halves.                                        *)
LEMMA HalvesFacts ==
    ASSUME NEW X, NEW s \in Seq(X), Len(s) > 1, NEW half, half = Len(s) \div 2
    PROVE  Len(s) = Len(SubSeq(s, 1, half)) + Len(SubSeq(s, half + 1, Len(s)))
  <1>1. Len(s) \in Nat
    OBVIOUS
  <1>2. \A n \in Nat : n > 1 => n \div 2 \in 1..(n - 1)
    OBVIOUS
  <1>3. half \in 1..(Len(s) - 1)
    BY <1>1, <1>2
  <1>4. Len(SubSeq(s, 1, half)) = half
    BY <1>1, <1>3, SubSeqProperties
  <1>5. Len(SubSeq(s, half + 1, Len(s))) = Len(s) - half
    BY <1>1, <1>3, SubSeqProperties
  <1>6. QED
    BY <1>1, <1>3, <1>4, <1>5

(* Two things one after the other.                                          *)
LEMMA PairIsConcat ==
    ASSUME NEW X, NEW a \in X, NEW b \in X
    PROVE  <<a>> \in Seq(X) /\ <<b>> \in Seq(X) /\ <<a, b>> = <<a>> \o <<b>>
  <1>1. <<a>> \in Seq(X) /\ <<b>> \in Seq(X)
    OBVIOUS
  <1>2. Append(<<a>>, b) = <<a, b>>
    <2> DEFINE s == <<a>>
               two == Append(s, b)
    <2>1. s \in Seq(X) /\ Len(s) = 1 /\ s[1] = a
      BY <1>1
    <2>2. <<a, b>> \in Seq(X) /\ Len(<<a, b>>) = 2 /\ <<a, b>>[1] = a /\ <<a, b>>[2] = b
      OBVIOUS
    <2> HIDE DEF s
    <2>3. two \in Seq(X) /\ Len(two) = 2 /\ two[1] = a /\ two[2] = b
      <3>1. two \in Seq(X) /\ Len(two) = Len(s) + 1
        BY <2>1, AppendProperties
      <3>2. \A i \in 1..Len(s) : two[i] = s[i]
        BY <2>1, AppendProperties
      <3>3. two[Len(s) + 1] = b
        BY <2>1, AppendProperties
      <3> HIDE DEF two
      <3>4. QED
        BY <2>1, <3>1, <3>2, <3>3
    <2> HIDE DEF two
    <2>4. \A i \in 1..Len(two) : two[i] = <<a, b>>[i]
      BY <2>2, <2>3
    <2>5. two = <<a, b>>
      BY <2>2, <2>3, <2>4, SeqEqual
    <2>6. QED
      BY <2>5 DEF two, s
  <1>3. Append(<<a>>, b) = <<a>> \o <<b>>
    BY <1>1, AppendIsConcat
  <1>4. QED
    BY <1>1, <1>2, <1>3

(* Nothing has been asked and nothing extracted at first.                   *)
LEMMA LifecycleStart == LifecycleInit => LifecycleInv
  <1> SUFFICES ASSUME LifecycleInit PROVE LifecycleInv
    OBVIOUS
  <1>1. ProjectInv
    BY DEF LifecycleInit, ProjectInv
  <1>2. /\ stage = "review" /\ ending = "none" /\ triplets = {} /\ calls = 0
        /\ pending = Batches(Patterns) /\ reviews = <<>>
    BY DEF LifecycleInit, Patterns, NoReviews
  <1>3. QueueInv
    <2>1. IsFiniteSet(Patterns) /\ \A q \in Patterns : q.id \in Int
      BY <1>1, PatternsFacts DEF ArePatterns
    <2>2. pending \in Seq(RequestsOver({q.id : q \in Patterns}))
      BY <1>2, <2>1, BatchesType
    <2>3. WorstOf(pending) \in Int
      BY <2>2, WorstOfType
    <2>4. RequestsBounded
      <3> DEFINE w == WorstOf(pending)
      <3>1. calls + w <= w
        BY <1>2, <2>3
      <3>2. QED
        BY <3>1, <1>2 DEF RequestsBounded
    <2>5. calls \in 0..Budget
      BY <1>2, LifecycleAnalysisAssumption
    <2>6. QED
      BY <2>2, <2>4, <2>5 DEF QueueInv
  <1>4. ReviewedInv
    BY <1>2 DEF ReviewedInv
  <1>5. DirectoryInv /\ TripletsInv /\ EntriesInv /\ EndingInv
    BY <1>2 DEF DirectoryInv, TripletsInv, EntriesInv, EndingInv
  <1>6. QED
    BY <1>1, <1>3, <1>4, <1>5 DEF LifecycleInv

(* What a request leaves to be asked costs one less.                        *)
LEMMA QueueStep ==
    ASSUME LifecycleInv, ReviewPatterns
    PROVE  QueueInv'
  <1> DEFINE ids == {q.id : q \in Patterns}
             batch == Head(pending).batch
             half == Len(batch) \div 2
             rest == Tail(pending)
             R == RequestsOver(ids)
  <1>1. Patterns' = Patterns /\ Batches(Patterns)' = Batches(Patterns)
    BY DEF ReviewPatterns, inputVars, Patterns, Batches, InOrder
  <1>2. pending \in Seq(R) /\ calls \in 0..Budget /\ calls + WorstOf(pending) <= WorstOf(Batches(Patterns))
    BY DEF LifecycleInv, QueueInv, RequestsBounded
  <1>3. pending # <<>> /\ calls < Budget /\ calls' = calls + 1
    BY DEF ReviewPatterns, ReviewAnswered, ReviewFailed, Affordable
  <1>4. calls' \in 0..Budget
    BY <1>2, <1>3, LifecycleAnalysisAssumption
  <1>5. WorstOf(Batches(Patterns)) \in Int
    <2>1. ProjectInv
      BY DEF LifecycleInv
    <2>2. IsFiniteSet(Patterns) /\ \A q \in Patterns : q.id \in Int
      BY <2>1, PatternsFacts DEF ArePatterns
    <2>3. Batches(Patterns) \in Seq(R)
      BY <2>2, BatchesType
    <2>4. QED
      BY <2>3, WorstOfType
  <1> HIDE DEF ids
  <1>6. /\ Head(pending) \in R /\ rest \in Seq(R)
        /\ Len(batch) > 1 => /\ SubSeq(batch, 1, half) \in Seq(ids) \ {<<>>}
                             /\ SubSeq(batch, half + 1, Len(batch)) \in Seq(ids) \ {<<>>}
        /\ IF Len(batch) = 1 THEN ~(Len(batch) > 1) ELSE Len(batch) > 1
    BY <1>2, <1>3, RequestPieces
  <1>7. /\ WorstOf(pending) = Worst(Head(pending)) + WorstOf(rest)
        /\ Worst(Head(pending)) \in Nat \ {0} /\ WorstOf(rest) \in Int
    BY <1>2, <1>3, WorstOfHead
  <1>8. ASSUME pending' \in Seq(R), WorstOf(pending') \in Int,
               WorstOf(pending') + 1 <= Worst(Head(pending)) + WorstOf(rest)
        PROVE  QueueInv'
    <2>1. calls' + WorstOf(pending') <= WorstOf(Batches(Patterns))
      BY <1>2, <1>3, <1>5, <1>7, <1>8
    <2>2. RequestsBounded'
      <3>1. calls' + WorstOf(pending') <= WorstOf(Batches(Patterns)')
        BY <2>1, <1>1
      <3>2. QED
        BY <3>1 DEF RequestsBounded
    <2>3. {q.id : q \in Patterns}' = ids
      BY <1>1 DEF ids
    <2>4. QED
      BY <2>2, <2>3, <1>4, <1>8 DEF QueueInv, RequestsOver
  <1>9. CASE ReviewAnswered(Patterns, EntryNames, Budget)
    <2>1. pending' = rest
      BY <1>9 DEF ReviewAnswered
    <2>2. QED
      BY <2>1, <1>6, <1>7, <1>8
  <1>10. CASE ReviewFailed(Patterns, Budget)
    <2> DEFINE again(s, n) == [batch |-> s, retries |-> n]
    <2>1. /\ Retries \in Nat /\ Head(pending).retries \in Nat
          /\ \A s \in Seq(ids) \ {<<>>}, n \in Nat : again(s, n) \in RequestsOver(ids)
      BY <1>6, UsageReviewAssumption DEF RequestsOver
    <2>2. CASE Len(batch) > 1
      <3> DEFINE one == again(SubSeq(batch, 1, half), Retries)
                 two == again(SubSeq(batch, half + 1, Len(batch)), Retries)
      <3>1. pending' = <<one, two>> \o rest
        BY <1>10, <2>2 DEF ReviewFailed
      <3>2. one \in R /\ two \in R
        BY <2>1, <2>2, <1>6
      <3>3. Worst(Head(pending)) = 1 + Worst(one) + Worst(two)
        <4>1. /\ SubSeq(batch, 1, half) \in Seq(ids) \ {<<>>}
              /\ SubSeq(batch, half + 1, Len(batch)) \in Seq(ids) \ {<<>>}
          BY <2>2, <1>6
        <4>2. Len(batch) = Len(SubSeq(batch, 1, half)) + Len(SubSeq(batch, half + 1, Len(batch)))
          BY <1>6, <2>2, HalvesFacts DEF RequestsOver
        <4> DEFINE a == SubSeq(batch, 1, half)
                   b == SubSeq(batch, half + 1, Len(batch))
        <4>3. /\ a \in Seq(ids) \ {<<>>} /\ b \in Seq(ids) \ {<<>>}
              /\ Len(Head(pending).batch) = Len(a) + Len(b) /\ Len(Head(pending).batch) > 1
              /\ one = again(a, Retries) /\ two = again(b, Retries)
          BY <4>1, <4>2, <2>2
        <4> HIDE DEF a, b, one, two
        <4>4. ASSUME NEW request \in RequestsOver(ids), NEW s \in Seq(ids) \ {<<>>},
                     NEW t \in Seq(ids) \ {<<>>}, Len(request.batch) = Len(s) + Len(t)
              PROVE  Worst(request) = 1 + Worst(again(s, Retries)) + Worst(again(t, Retries))
          <5>1. /\ s \in Seq(ids) \ {<<>>} /\ t \in Seq(ids) \ {<<>>}
                /\ Len(request.batch) = Len(s) + Len(t)
            BY <4>4
          <5>2. QED
            BY <5>1, WorstFacts, ZenonT(40)
        <4>5. Worst(Head(pending)) = 1 + Worst(again(a, Retries)) + Worst(again(b, Retries))
          <5> HIDE DEF again
          <5>1. QED
            BY <4>3, <4>4, <1>6
        <4>6. QED
          BY <4>3, <4>5
      <3> HIDE DEF one, two, R, rest
      <3>4. pending' \in Seq(R)
        BY <3>1, <3>2, <1>6, ConcatProperties
      <3>5. <<one, two>> \o rest = <<one>> \o (<<two>> \o rest) /\ <<two>> \o rest \in Seq(R)
        <4>1. <<one>> \in Seq(R) /\ <<two>> \in Seq(R) /\ <<one, two>> = <<one>> \o <<two>>
          BY <3>2, PairIsConcat
        <4>2. <<one>> \o (<<two>> \o rest) = (<<one>> \o <<two>>) \o rest
          BY <4>1, <1>6, ConcatAssociative
        <4>3. QED
          BY <4>1, <4>2, <1>6, ConcatProperties
      <3>6. WorstOf(<<two>> \o rest) = Worst(two) + WorstOf(rest)
        BY <3>2, <1>6, WorstOfQueue DEF R
      <3>7. WorstOf(pending') = Worst(one) + WorstOf(<<two>> \o rest)
        BY <3>1, <3>2, <3>5, WorstOfQueue DEF R
      <3>8. Worst(one) \in Nat /\ Worst(two) \in Nat
        BY <3>2, WorstType DEF R
      <3>9. WorstOf(pending') \in Int /\ WorstOf(pending') + 1 <= Worst(Head(pending)) + WorstOf(rest)
        BY <3>3, <3>6, <3>7, <3>8, <1>7
      <3>10. QED
        BY <3>4, <3>9, <1>8
    <2>3. CASE Len(batch) = 1 /\ Head(pending).retries > 0
      <3> DEFINE one == again(batch, Head(pending).retries - 1)
      <3>1. pending' = <<one>> \o rest
        <4>1. ~(Len(batch) > 1)
          BY <2>3, <1>6
        <4>2. QED
          BY <1>10, <2>3, <4>1 DEF ReviewFailed
      <3>2. one \in R
        BY <2>1, <2>3, <1>6 DEF RequestsOver
      <3>3. Worst(Head(pending)) = 1 + Worst(one)
        BY <1>6, <2>3, WorstFacts
      <3> HIDE DEF one, R, rest
      <3>4. pending' \in Seq(R)
        BY <3>1, <3>2, <1>6, ConcatProperties
      <3>5. WorstOf(pending') = Worst(one) + WorstOf(rest)
        BY <3>1, <3>2, <1>6, WorstOfQueue DEF R
      <3>6. Worst(one) \in Nat
        BY <3>2, WorstType DEF R
      <3>7. WorstOf(pending') \in Int /\ WorstOf(pending') + 1 <= Worst(Head(pending)) + WorstOf(rest)
        BY <3>3, <3>5, <3>6, <1>7
      <3>8. QED
        BY <3>4, <3>7, <1>8
    <2>4. CASE Len(batch) = 1 /\ ~(Head(pending).retries > 0)
      <3>1. pending' = rest
        <4>1. ~(Len(batch) > 1)
          BY <2>4, <1>6
        <4>2. QED
          BY <1>10, <2>4, <4>1 DEF ReviewFailed
      <3>2. QED
        BY <3>1, <1>6, <1>7, <1>8
    <2>5. QED
      BY <2>2, <2>3, <2>4, <1>6
  <1>11. QED
    BY <1>9, <1>10 DEF ReviewPatterns

(* What is known of a pattern after a request is still safe.                *)
LEMMA SafelyReviewed ==
    ASSUME ProjectInv, NEW q \in Patterns
    PROVE  /\ Named(Patterns, q.id) = q
           /\ \A raw \in Raw(q) : IsReviewOf(Constrained(q, raw, EntryNames), q, EntryNames)
           /\ IsReviewOf(Fallback(q, "provider_error"), q, EntryNames)
  <1> DEFINE N == {f.name : f \in ToSet(Source.functions)}
  <1>1. ArePatterns(Patterns, ToSet(Source.functions))
    BY PatternsFacts
  <1>2. q.sequence \in Seq(N) /\ q.sequence # <<>>
    BY <1>1, PatternSequence DEF ArePatterns
  <1> HIDE DEF N
  <1>3. Named(Patterns, q.id) = q
    BY <1>1 DEF Named, ArePatterns
  <1>4. \A raw \in Raw(q) : IsReviewOf(Constrained(q, raw, EntryNames), q, EntryNames)
    BY <1>2, ConstrainedIsReview
  <1>5. IsReviewOf(Fallback(q, "provider_error"), q, EntryNames)
    BY <1>2, FallbackIsReview
  <1>6. QED
    BY <1>3, <1>4, <1>5

(* What the review says stays within what was mined.                        *)
LEMMA ReviewedStep ==
    ASSUME LifecycleInv, ReviewPatterns
    PROVE  ReviewedInv'
  <1> DEFINE ids == {q.id : q \in Patterns}
             batch == Head(pending).batch
  <1>1. Patterns' = Patterns /\ EntryNames' = EntryNames
    BY DEF ReviewPatterns, inputVars, Patterns, EntryNames, Source
  <1>2. ProjectInv /\ ReviewedInv /\ pending \in Seq(RequestsOver(ids))
    BY DEF LifecycleInv, QueueInv
  <1>3. pending # <<>>
    BY DEF ReviewPatterns, ReviewAnswered, ReviewFailed, Affordable
  <1>4. /\ ToSet(batch) \subseteq ids
        /\ Len(batch) = 1 => batch[1] \in ids
        /\ IF Len(batch) = 1 THEN ~(Len(batch) > 1) ELSE Len(batch) > 1
    <2> HIDE DEF ids
    <2>1. QED
      BY <1>2, <1>3, RequestPieces
  <1>5. ASSUME NEW S, S \subseteq ids, DOMAIN reviews' = S \cup DOMAIN reviews,
               \A q \in Patterns : q.id \in S => IsReviewOf(reviews'[q.id], q, EntryNames),
               \A id \in (DOMAIN reviews) \ S : reviews'[id] = reviews[id]
        PROVE  ReviewedInv'
    <2>1. DOMAIN reviews' \subseteq ids
      BY <1>2, <1>5 DEF ReviewedInv
    <2>2. ASSUME NEW q \in Patterns, q.id \in DOMAIN reviews'
          PROVE  IsReviewOf(reviews'[q.id], q, EntryNames)
      BY <2>2, <1>2, <1>5 DEF ReviewedInv
    <2>3. QED
      BY <2>1, <2>2, <1>1 DEF ReviewedInv
  <1>6. CASE ReviewAnswered(Patterns, EntryNames, Budget)
    <2> DEFINE S == ToSet(batch)
               outcomes == [id \in S |->
                    {Constrained(Named(Patterns, id), raw, EntryNames) : raw \in Raw(Named(Patterns, id))}]
    <2>1. PICK answer \in [S -> UNION Range(outcomes)] :
             /\ \A id \in S : answer[id] \in outcomes[id]
             /\ reviews' = [id \in S \cup DOMAIN reviews |->
                              IF id \in S THEN answer[id] ELSE reviews[id]]
      BY <1>6 DEF ReviewAnswered
    <2>2. ASSUME NEW q \in Patterns, q.id \in S
          PROVE  IsReviewOf(reviews'[q.id], q, EntryNames)
      <3>1. reviews'[q.id] = answer[q.id] /\ answer[q.id] \in outcomes[q.id]
        BY <2>1, <2>2
      <3>2. PICK raw \in Raw(Named(Patterns, q.id)) :
               answer[q.id] = Constrained(Named(Patterns, q.id), raw, EntryNames)
        BY <3>1, <2>2
      <3>3. QED
        BY <3>1, <3>2, <1>2, SafelyReviewed
    <2>3. DOMAIN reviews' = S \cup DOMAIN reviews /\ \A id \in (DOMAIN reviews) \ S : reviews'[id] = reviews[id]
      BY <2>1
    <2> HIDE DEF S
    <2>4. QED
      BY <2>2, <2>3, <1>4, <1>5 DEF S
  <1>7. CASE ReviewFailed(Patterns, Budget)
    <2>1. CASE UNCHANGED reviews
      BY <2>1, <1>1, <1>2 DEF ReviewedInv
    <2>2. CASE /\ Len(batch) = 1
               /\ reviews' = [id \in {batch[1]} \cup DOMAIN reviews |->
                                IF id = batch[1] THEN Fallback(Named(Patterns, id), "provider_error")
                                ELSE reviews[id]]
      <3> DEFINE S == {batch[1]}
      <3>1. S \subseteq ids
        BY <2>2, <1>4
      <3>2. DOMAIN reviews' = S \cup DOMAIN reviews /\ \A id \in (DOMAIN reviews) \ S : reviews'[id] = reviews[id]
        BY <2>2
      <3>3. ASSUME NEW q \in Patterns, q.id \in S
            PROVE  IsReviewOf(reviews'[q.id], q, EntryNames)
        <4>1. reviews'[q.id] = Fallback(Named(Patterns, q.id), "provider_error")
          BY <3>3, <2>2
        <4>2. QED
          BY <4>1, <1>2, SafelyReviewed
      <3> HIDE DEF S
      <3>4. QED
        BY <3>1, <3>2, <3>3, <1>5
    <2>3. QED
      BY <2>1, <2>2, <1>4, <1>7 DEF ReviewFailed
  <1>8. QED
    BY <1>6, <1>7 DEF ReviewPatterns

(* The review touches nothing else.                                         *)
LEMMA ReviewPatternsStep ==
    ASSUME LifecycleInv, ReviewPatterns
    PROVE  LifecycleInv'
  <1>1. QueueInv' /\ ReviewedInv'
    BY QueueStep, ReviewedStep
  <1>2. /\ stage = "review" /\ ending = "none" /\ triplets = {}
        /\ UNCHANGED <<inputVars, artifacts, options, stage, entries, triplets, excluded, ending>>
    BY DEF ReviewPatterns, LifecycleInv, EndingInv
  <1>3. ProjectInv'
    BY <1>2 DEF inputVars, LifecycleInv, ProjectInv
  <1>4. DirectoryInv' /\ TripletsInv' /\ EntriesInv' /\ EndingInv'
    BY <1>2 DEF DirectoryInv, TripletsInv, EntriesInv, EndingInv
  <1>5. QED
    BY <1>1, <1>3, <1>4 DEF LifecycleInv

(* What the project, the mining and the review have given stays.            *)
LEMMA InputsStay ==
    ASSUME LifecycleInv, UNCHANGED <<inputVars, reviewVars, calls>>
    PROVE  ProjectInv' /\ QueueInv' /\ ReviewedInv' /\ Patterns' = Patterns
  <1>1. /\ UNCHANGED <<project, annotation, pending, reviews, calls>>
        /\ ProjectInv /\ QueueInv /\ ReviewedInv
    BY DEF LifecycleInv, inputVars, reviewVars
  <1>2. Patterns' = Patterns /\ EntryNames' = EntryNames
    BY <1>1 DEF Patterns, EntryNames, Source
  <1>3. ProjectInv' /\ ReviewedInv'
    BY <1>1, <1>2 DEF ProjectInv, ReviewedInv
  <1>4. QueueInv'
    <2>1. RequestsBounded'
      BY <1>1, <1>2 DEF QueueInv, RequestsBounded
    <2>2. QED
      BY <2>1, <1>1, <1>2 DEF QueueInv, RequestsOver
  <1>5. QED
    BY <1>2, <1>3, <1>4

(* The variants of an entry are those of the directory and the command      *)
(* line.                                                                    *)
LEMMA VariantsStay ==
    ASSUME UNCHANGED <<artifacts, options>>
    PROVE  \A anchor : Variants(anchor)' = Variants(anchor)
  BY DEF Variants

(* The build leaves a directory, and all its entries are to be extracted.   *)
LEMMA LoadStep ==
    ASSUME LifecycleInv, Load
    PROVE  LifecycleInv'
  <1>1. /\ stage = "review" /\ stage' = "extract" /\ artifacts' = Built
        /\ entries' = Sorted(artifacts')
        /\ UNCHANGED <<inputVars, triplets, excluded, ending, reviewVars, calls>>
    BY DEF Load
  <1>2. ProjectInv /\ ReviewedInv /\ triplets = {} /\ ending = "none"
    BY <1>1 DEF LifecycleInv, EndingInv
  <1>3. ProjectInv' /\ QueueInv' /\ ReviewedInv' /\ Patterns' = Patterns
    BY <1>1, InputsStay
  <1>4. IsDirectory(artifacts', Patterns') /\ FunctionsKnown(artifacts')
    BY <1>1, <1>2, <1>3, BuiltIsDirectory DEF IsDirectory
  <1>5. DOMAIN artifacts'.labels = DOMAIN annotation'
    <2>1. DOMAIN Built.labels = DOMAIN annotation
      BY DEF Built, RolesIn
    <2>2. QED
      BY <2>1, <1>1 DEF inputVars
  <1>6. DirectoryInv'
    BY <1>4, <1>5 DEF DirectoryInv
  <1>7. EntriesInv'
    BY <1>1, <1>4, SortedFacts DEF EntriesInv
  <1>8. TripletsInv' /\ EndingInv'
    BY <1>1, <1>2 DEF TripletsInv, EndingInv
  <1>9. QED
    BY <1>3, <1>6, <1>7, <1>8 DEF LifecycleInv

(* Every variant of the next entry is made or left out.                     *)
LEMMA ExtractStep ==
    ASSUME LifecycleInv, Extract
    PROVE  LifecycleInv'
  <1> DEFINE anchor == Head(entries)
             all == {Triplet(artifacts, anchor, view) : view \in Variants(anchor)}
             fitting == Fitting(all)
  <1>1. /\ stage = "extract" /\ entries # <<>> /\ Take(all, fitting)
        /\ UNCHANGED <<inputVars, artifacts, options, reviewVars, calls>>
    BY DEF Extract
  <1>2. ProjectInv' /\ QueueInv' /\ ReviewedInv' /\ Patterns' = Patterns
    BY <1>1, InputsStay
  <1>3. /\ IsDirectory(artifacts, Patterns) /\ DOMAIN artifacts.labels = DOMAIN annotation
        /\ entries \in Seq(Entries(artifacts)) /\ ending = "none"
        /\ \A a \in Entries(artifacts) : a \in ToSet(entries) \/ Described(a)
    BY <1>1 DEF LifecycleInv, DirectoryInv, EntriesInv, EndingInv
  <1>4. /\ anchor \in Entries(artifacts) /\ Tail(entries) \in Seq(Entries(artifacts))
        /\ ToSet(entries) \subseteq {anchor} \cup ToSet(Tail(entries))
    <2> DEFINE X == Entries(artifacts)
    <2>1. entries \in Seq(X) /\ entries # <<>>
      BY <1>1, <1>3
    <2> HIDE DEF X
    <2>2. anchor \in X /\ Tail(entries) \in Seq(X)
      BY <2>1, HeadTailProperties
    <2>3. ASSUME NEW i \in DOMAIN entries
          PROVE  entries[i] = anchor \/ entries[i] \in ToSet(Tail(entries))
      <3>1. i \in 1..Len(entries) /\ Len(entries) \in Nat
        BY <2>1
      <3>2. /\ Len(Tail(entries)) = Len(entries) - 1
            /\ \A j \in 1..Len(Tail(entries)) : Tail(entries)[j] = entries[j + 1]
        BY <2>1, HeadTailProperties
      <3>3. CASE i = 1
        BY <3>3, <2>1
      <3>4. CASE i # 1
        <4>1. i - 1 \in 1..Len(Tail(entries)) /\ Tail(entries)[i - 1] = entries[i]
          BY <3>1, <3>2, <3>4
        <4>2. DOMAIN Tail(entries) = 1..Len(Tail(entries))
          BY <2>2
        <4>3. QED
          BY <4>1, <4>2 DEF ToSet
      <3>5. QED
        BY <3>3, <3>4
    <2>4. ToSet(entries) \subseteq {anchor} \cup ToSet(Tail(entries))
      <3> HIDE DEF anchor
      <3>1. QED
        BY <2>3 DEF ToSet
    <2>5. QED
      BY <2>2, <2>4 DEF X
  <1> HIDE DEF anchor
  <1>5. \A view \in Variants(anchor) :
           /\ WellFormed(artifacts, Triplet(artifacts, anchor, view))
           /\ Triplet(artifacts, anchor, view).anchor = anchor
           /\ Triplet(artifacts, anchor, view).view = view
    <2>1. ASSUME NEW view \in Variants(anchor)
          PROVE  /\ WellFormed(artifacts, Triplet(artifacts, anchor, view))
                 /\ Triplet(artifacts, anchor, view).anchor = anchor
                 /\ Triplet(artifacts, anchor, view).view = view
      <3>1. IsViewOrNone(artifacts, Patterns, anchor, view)
        BY <1>3, <1>4, VariantsFacts
      <3>2. WellFormed(artifacts, Triplet(artifacts, anchor, view))
        BY <3>1, <1>3, <1>4, WellFormedTriplet
      <3>3. IsTripletOf(Triplet(artifacts, anchor, view), artifacts, anchor, view,
                        Reached(artifacts, anchor, view), ClosureFor(artifacts, anchor, view))
        BY <1>3, <1>4, TripletFacts
      <3>4. QED
        BY <3>2, <3>3 DEF IsTripletOf
    <2>2. QED
      BY <2>1
  <1>6. /\ triplets' = triplets \cup fitting
        /\ excluded' = excluded \cup {<<t.anchor, t.view.id>> : t \in all \ fitting}
        /\ entries' = Tail(entries) /\ UNCHANGED <<stage, ending>>
    <2>1. fitting \subseteq all
      BY DEF Fitting
    <2>2. \A t \in fitting : WellFormed(artifacts, t)
      BY <2>1, <1>5
    <2> HIDE DEF fitting, all
    <2>3. QED
      BY <2>2, <1>1 DEF Take
  <1>7. \A a : Variants(a)' = Variants(a)
    BY <1>1, VariantsStay
  <1>8. DirectoryInv' /\ EndingInv'
    BY <1>1, <1>2, <1>3, <1>6 DEF DirectoryInv, EndingInv, inputVars
  <1>9. TripletsInv'
    <2>1. ASSUME NEW t \in triplets'
          PROVE  /\ t.anchor \in Entries(artifacts) /\ t.view \in Variants(t.anchor)
                 /\ t = Triplet(artifacts, t.anchor, t.view)
      <3>1. CASE t \in triplets
        BY <3>1 DEF LifecycleInv, TripletsInv
      <3>2. CASE t \in fitting
        <4>1. t \in all
          BY <3>2 DEF Fitting
        <4>2. QED
          BY <4>1, <1>4, <1>5
      <3>3. QED
        BY <3>1, <3>2, <1>6
    <2>2. QED
      BY <2>1, <1>1, <1>7 DEF TripletsInv
  <1>10. ASSUME NEW a, Described(a)
         PROVE  Described(a)'
    BY <1>6, <1>7, <1>10 DEF Described
  <1>11. ASSUME NEW a, a = anchor
         PROVE  Described(a)'
    <2>1. ASSUME NEW view \in Variants(anchor)
          PROVE  \/ <<anchor, view.id>> \in excluded'
                 \/ \E t \in triplets' : t.anchor = anchor /\ t.view = view
      <3> DEFINE t == Triplet(artifacts, anchor, view)
      <3>1. t \in all /\ t.anchor = anchor /\ t.view = view
        BY <1>5
      <3> HIDE DEF t, all, fitting
      <3>2. QED
        BY <3>1, <1>6
    <2>2. QED
      BY <2>1, <1>7, <1>11 DEF Described
  <1>12. EntriesInv'
    <2>1. entries' \in Seq(Entries(artifacts'))
      BY <1>1, <1>4, <1>6
    <2>2. ASSUME NEW a \in Entries(artifacts)
          PROVE  a \in ToSet(entries') \/ Described(a)'
      <3>1. a = anchor \/ a \in ToSet(entries') \/ Described(a)
        BY <1>3, <1>4, <1>6
      <3>2. QED
        BY <3>1, <1>10, <1>11
    <2>3. QED
      BY <2>1, <2>2, <1>1 DEF EntriesInv
  <1>13. QED
    BY <1>2, <1>8, <1>9, <1>12 DEF LifecycleInv

(* Only twins stand in the way of the document.                             *)
LEMMA WriteStep ==
    ASSUME LifecycleInv, Write
    PROVE  LifecycleInv'
  <1>1. /\ stage = "extract" /\ stage' = "done" /\ entries = <<>>
        /\ ending' = IF \E t, u \in triplets : t # u /\ TripletId(artifacts, t) = TripletId(artifacts, u)
                     THEN "failed" ELSE "written"
        /\ UNCHANGED <<inputVars, artifacts, options, entries, triplets, excluded, reviewVars, calls>>
    BY DEF Write
  <1>2. ProjectInv' /\ QueueInv' /\ ReviewedInv' /\ Patterns' = Patterns
    BY <1>1, InputsStay
  <1>3. /\ IsDirectory(artifacts, Patterns) /\ DirectoryInv /\ EntriesInv /\ TripletsInv
    BY <1>1 DEF LifecycleInv, DirectoryInv
  <1>4. \A a : Variants(a)' = Variants(a)
    BY <1>1, VariantsStay
  <1>5. DirectoryInv' /\ TripletsInv'
    BY <1>1, <1>2, <1>3, <1>4 DEF DirectoryInv, TripletsInv, inputVars
  <1>6. EntriesInv'
    <2>1. \A a : Described(a)' = Described(a)
      BY <1>1, <1>4 DEF Described
    <2>2. QED
      BY <2>1, <1>1, <1>3 DEF EntriesInv
  <1>7. ASSUME NEW t \in triplets, NEW u \in triplets, t # u,
               TripletId(artifacts, t) = TripletId(artifacts, u)
        PROVE  Twins(artifacts)
    <2>1. /\ t.anchor \in Entries(artifacts) /\ t.view \in Variants(t.anchor)
          /\ t = Triplet(artifacts, t.anchor, t.view)
          /\ u.anchor \in Entries(artifacts) /\ u.view \in Variants(u.anchor)
          /\ u = Triplet(artifacts, u.anchor, u.view)
      BY <1>3 DEF TripletsInv
    <2> DEFINE f == Function(artifacts, t.anchor)
               g == Function(artifacts, u.anchor)
    <2>2. /\ <<f.file, f.name, f.returns, f.parameters>> = <<g.file, g.name, g.returns, g.parameters>>
          /\ t.view.id = u.view.id
      BY <1>7 DEF TripletId
    <2>3. t.anchor # u.anchor
      <3>1. t.anchor = u.anchor => t.view = u.view
        BY <2>1, <2>2, <1>3, VariantsFacts
      <3>2. QED
        BY <3>1, <2>1, <1>7
    <2>4. QED
      BY <2>1, <2>2, <2>3 DEF Twins
  <1>8. ending' \in {"failed", "written"} /\ (ending' = "failed" => Twins(artifacts))
    BY <1>1, <1>7
  <1>9. EndingInv'
    BY <1>1, <1>8 DEF EndingInv
  <1>10. QED
    BY <1>2, <1>5, <1>6, <1>9 DEF LifecycleInv

(* The invariant holds throughout.                                          *)
THEOREM LifecycleInvariant == LifecycleSpec => []LifecycleInv
  <1>1. LifecycleInit => LifecycleInv
    BY LifecycleStart
  <1>2. LifecycleInv /\ [LifecycleNext]_lifecycleVars => LifecycleInv'
    <2> SUFFICES ASSUME LifecycleInv, [LifecycleNext]_lifecycleVars
                 PROVE  LifecycleInv'
      OBVIOUS
    <2>1. CASE ReviewPatterns
      BY <2>1, ReviewPatternsStep
    <2>2. CASE Load
      BY <2>2, LoadStep
    <2>3. CASE Extract
      BY <2>3, ExtractStep
    <2>4. CASE Write
      BY <2>4, WriteStep
    <2>5. CASE UNCHANGED lifecycleVars
      <3>1. UNCHANGED <<inputVars, annotation, artifacts, options, stage, entries, triplets, excluded,
                        ending, reviewVars, calls>>
        BY <2>5 DEF lifecycleVars, inputVars
      <3>2. ProjectInv' /\ QueueInv' /\ ReviewedInv' /\ Patterns' = Patterns
        BY <3>1, InputsStay
      <3>3. \A a : Variants(a)' = Variants(a)
        BY <3>1, VariantsStay
      <3>4. \A a : Described(a)' = Described(a)
        BY <3>1, <3>3 DEF Described
      <3>5. DirectoryInv' /\ TripletsInv' /\ EntriesInv' /\ EndingInv'
        BY <3>1, <3>2, <3>3, <3>4 DEF LifecycleInv, DirectoryInv, TripletsInv, EntriesInv, EndingInv
      <3>6. QED
        BY <3>2, <3>5 DEF LifecycleInv
    <2>6. QED
      BY <2>1, <2>2, <2>3, <2>4, <2>5 DEF LifecycleNext
  <1>3. QED
    BY <1>1, <1>2, PTL DEF LifecycleSpec

(* Each part of the invariant says one of the things promised.              *)
LEMMA LifecycleKept ==
    ASSUME LifecycleInv
    PROVE  ReviewInv /\ EveryEntryDescribed /\ ViewIsObserved /\ OnlyThroughAnchor
  <1>1. /\ ProjectInv /\ QueueInv /\ ReviewedInv /\ DirectoryInv
        /\ TripletsInv /\ EntriesInv /\ EndingInv
    BY DEF LifecycleInv
  <1>2. ASSUME NEW t \in triplets
        PROVE  /\ IsDirectory(artifacts, Patterns) /\ DOMAIN artifacts.labels = DOMAIN annotation
               /\ t.anchor \in Entries(artifacts) /\ t = Triplet(artifacts, t.anchor, t.view)
               /\ IsViewOrNone(artifacts, Patterns, t.anchor, t.view)
               /\ t.view # NoView => IsViewFor(artifacts, Patterns, t.anchor, t.view)
    <2>1. stage # "review"
      BY <1>1, <1>2 DEF EndingInv
    <2>2. IsDirectory(artifacts, Patterns) /\ DOMAIN artifacts.labels = DOMAIN annotation
      BY <1>1, <2>1 DEF DirectoryInv
    <2>3. /\ t.anchor \in Entries(artifacts) /\ t.view \in Variants(t.anchor)
          /\ t = Triplet(artifacts, t.anchor, t.view)
      BY <1>1, <1>2 DEF TripletsInv
    <2>4. QED
      BY <2>2, <2>3, VariantsFacts
  <1>3. ReviewInv
    <2>1. \A t \in triplets : t.anchor \in DOMAIN annotation
      BY <1>2 DEF Entries
    <2>2. QED
      BY <2>1, <1>1 DEF ReviewInv, StateTyped, QueueInv, ReviewedInv, EndingInv
  <1>4. EveryEntryDescribed
    <2>1. ASSUME ending = "written", NEW anchor \in Entries(artifacts)
          PROVE  Described(anchor)
      <3>1. stage # "review" /\ entries = <<>>
        BY <2>1, <1>1 DEF EndingInv
      <3>2. anchor \notin ToSet(entries)
        BY <3>1 DEF ToSet
      <3>3. QED
        BY <3>1, <3>2, <1>1 DEF EntriesInv
    <2>2. ending = "failed" => Twins(artifacts)
      BY <1>1 DEF EndingInv
    <2>3. QED
      BY <2>1, <2>2 DEF EveryEntryDescribed, Described
  <1>5. ViewIsObserved
    <2>1. ASSUME NEW t \in triplets, t.view # NoView
          PROVE  /\ t.anchor \in ToSet(t.view.consumers)
                 /\ Function(artifacts, t.anchor).name \in ToSet(Middle(t.view.sequence))
                 /\ Len(Middle(t.view.sequence)) = Len(t.view.consumers)
                 /\ \A id \in UsedBy(t.view) :
                       \E e \in t.edges : e.id = id /\ t.view.type \in {e.source, e.target}
                 /\ \A q \in {m \in Patterns : m.id \in t.view.id} :
                       /\ IsSubsequenceOf(t.view.sequence, q.sequence)
                       /\ StaticFacts(q) = StaticFacts(t.view)
      <3> DEFINE a == t.anchor
                 w == t.view
      <3>1. /\ IsDirectory(artifacts, Patterns) /\ a \in Entries(artifacts)
            /\ IsViewFor(artifacts, Patterns, a, w) /\ t = Triplet(artifacts, a, w)
        BY <2>1, <1>2
      <3> HIDE DEF a, w
      <3>2. QED
        BY <3>1, TripletObserved
    <2>2. QED
      BY <2>1 DEF ViewIsObserved, UsedBy
  <1>6. OnlyThroughAnchor
    <2>1. ASSUME NEW t \in triplets, NEW S \in SUBSET t.structures,
                 Nodes({e \in t.edges : e.id = t.anchor}) \cap t.structures \subseteq S,
                 \A e \in LinksOf(artifacts, t) :
                    {e.source, e.target} \subseteq t.structures => (e.source \in S <=> e.target \in S)
          PROVE  t.structures \subseteq S \cup StopsOf(artifacts, t) \cup MadeWithin(artifacts, t)
      <3> DEFINE a == t.anchor
                 w == t.view
      <3>1. /\ IsDirectory(artifacts, Patterns) /\ a \in Entries(artifacts)
            /\ IsViewOrNone(artifacts, Patterns, a, w) /\ t = Triplet(artifacts, a, w)
        BY <2>1, <1>2
      <3> HIDE DEF a, w
      <3>2. QED
        BY <2>1, <3>1, TripletConnected
    <2>2. QED
      BY <2>1 DEF OnlyThroughAnchor
  <1>7. QED
    BY <1>3, <1>4, <1>5, <1>6

(* The state has its types, and however often the model fails to answer,    *)
(* the requests of the review are bounded by the batches it began with.     *)
THEOREM ReviewBounded == LifecycleSpec => []ReviewInv
  BY LifecycleInvariant, LifecycleKept, PTL

(* Only twins make the extraction fail, and when it does not every entry    *)
(* has a triplet for every view or is excluded for its size.                *)
THEOREM EntriesDescribed == LifecycleSpec => []EveryEntryDescribed
  BY LifecycleInvariant, LifecycleKept, PTL

(* A triplet of a view shows the lifecycle that was observed in the code.   *)
THEOREM ViewsObserved == LifecycleSpec => []ViewIsObserved
  BY LifecycleInvariant, LifecycleKept, PTL

(* What a triplet has besides lifecycles hangs together with its entry.     *)
THEOREM Connected == LifecycleSpec => []OnlyThroughAnchor
  BY LifecycleInvariant, LifecycleKept, PTL
=============================================================================
