------------------------- MODULE StatefulMLFQProofs -------------------------
(* The promises of the stateful MLFQ, for any jobs, token counts and caches. *)
EXTENDS StatefulMLFQ, FiniteSetTheorems, SequenceTheorems, WellFoundedInduction, TLAPS

-----------------------------------------------------------------------------
(* The best of a level *)

OrdersTotally(R, S) ==
  /\ \A x, y \in S : x # y => <<x, y>> \in R \/ <<y, x>> \in R
  /\ \A x, y, z \in S : <<x, y>> \in R /\ <<y, z>> \in R => <<x, z>> \in R

HasFirst(R, S) == \E x \in S : \A y \in S \ {x} : <<x, y>> \in R

\* A finite set that a relation orders totally has a member before all others.
LEMMA FirstExists ==
  ASSUME NEW S, IsFiniteSet(S), S # {}, NEW R, OrdersTotally(R, S)
  PROVE  HasFirst(R, S)
<1> USE DEF OrdersTotally, HasFirst
<1> DEFINE First(U) == \E x \in U : \A y \in U \ {x} : <<x, y>> \in R
           Bad == {U \in SUBSET S : U # {} /\ ~First(U)}
<1>1. SUFFICES ASSUME Bad # {} PROVE FALSE
  OBVIOUS
<1>2. Bad \subseteq FiniteSubsetsOf(S)
  BY FS_Subset DEF FiniteSubsetsOf
<1>3. PICK U \in Bad : \A V \in Bad : <<V, U>> \notin StrictSubsetOrdering(S)
  <2> HIDE DEF Bad
  <2> QED
    BY <1>1, <1>2, FS_StrictSubsetOrderingWellFounded, WFMin, Zenon
<1>4. PICK x \in U : TRUE
  OBVIOUS
<1>5. CASE U = {x}
  BY <1>5
<1>6. CASE U # {x}
  <2>1. U \ {x} \in SUBSET S /\ U \ {x} # {} /\ U \ {x} # U
    BY <1>4, <1>6
  <2>2. <<U \ {x}, U>> \in StrictSubsetOrdering(S)
    BY <2>1 DEF StrictSubsetOrdering
  <2>3. PICK k \in U \ {x} : \A y \in (U \ {x}) \ {k} : <<k, y>> \in R
    BY <1>3, <2>1, <2>2
  <2>4. First(U)
    BY <2>3, <1>4
  <2> QED
    BY <2>4
<1> QED
  BY <1>5, <1>6

\* The quotients, multiplied out, are ordered like quotients.
LEMMA CrossMultiplied ==
  ASSUME NEW a \in Nat, NEW b \in Nat \ {0}, NEW c \in Nat, NEW d \in Nat \ {0},
         NEW e \in Nat, NEW f \in Nat \ {0},
         a * d =< c * b, c * f =< e * d
  PROVE  a * f =< e * b
<1>1. (a * d) * f =< (c * b) * f
  OBVIOUS
<1>2. (c * f) * b =< (e * d) * b
  OBVIOUS
<1>3. (a * f) * d =< (e * b) * d
  BY <1>1, <1>2
<1>4. \A m, n \in Nat : m * d =< n * d => m =< n
  OBVIOUS
<1>5. a * f \in Nat /\ e * b \in Nat
  OBVIOUS
<1> QED
  BY <1>3, <1>4, <1>5

\* What the scan of a level is about: jobs with estimates of two numbers.
Estimates == [Jobs -> [predicted : Nat, wait : Nat]]

\* The scan of a level, as a relation between its indices.
Beats(jobs, e, i, k) ==
  \/ Outscores(e[jobs[i]], e[jobs[k]])
  \/ ~Outscores(e[jobs[k]], e[jobs[i]]) /\ i < k

LEMMA ComputeTimeType ==
  ASSUME NEW x \in [predicted : Nat, wait : Nat]
  PROVE  ComputeTime(x) \in Nat \ {0} /\ x.wait + ComputeTime(x) \in Nat
BY DEF ComputeTime

\* The response ratios compare as the waits do, relative to the service times.
LEMMA OutscoresByWait ==
  ASSUME NEW e, NEW f, e.wait \in Nat, f.wait \in Nat,
         ComputeTime(e) \in Nat, ComputeTime(f) \in Nat
  PROVE  Outscores(e, f) <=> e.wait * ComputeTime(f) > f.wait * ComputeTime(e)
<1> DEFINE w == e.wait  v == f.wait  c == ComputeTime(e)  d == ComputeTime(f)
<1>1. w \in Nat /\ v \in Nat /\ c \in Nat /\ d \in Nat
  OBVIOUS
<1>2. Outscores(e, f) <=> (w + c) * d > (v + d) * c
  BY DEF Outscores
<1> HIDE DEF w, v, c, d
<1>3. /\ (w + c) * d = w * d + c * d
      /\ (v + d) * c = v * c + c * d
      /\ w * d \in Nat /\ v * c \in Nat /\ c * d \in Nat
  BY <1>1
<1>4. (w + c) * d > (v + d) * c <=> w * d > v * c
  <2> DEFINE x == w * d  y == v * c  z == c * d
  <2>1. x \in Nat /\ y \in Nat /\ z \in Nat /\ (w + c) * d = x + z /\ (v + d) * c = y + z
    BY <1>3
  <2>2. (w + c) * d > (v + d) * c <=> x > y
    <3> HIDE DEF x, y, z
    <3> QED
      BY <2>1
  <2> QED
    BY <2>2
<1> QED
  BY <1>2, <1>4 DEF w, v, c, d

LEMMA OutscoresTransitive ==
  ASSUME NEW x \in [predicted : Nat, wait : Nat], NEW y \in [predicted : Nat, wait : Nat],
         NEW z \in [predicted : Nat, wait : Nat],
         ~Outscores(x, y), ~Outscores(y, z)
  PROVE  ~Outscores(x, z)
<1> DEFINE T(u) == u.wait + ComputeTime(u)
<1>1. /\ T(x) \in Nat /\ T(y) \in Nat /\ T(z) \in Nat
      /\ ComputeTime(x) \in Nat \ {0} /\ ComputeTime(y) \in Nat \ {0} /\ ComputeTime(z) \in Nat \ {0}
  BY ComputeTimeType
<1>2. T(x) * ComputeTime(y) =< T(y) * ComputeTime(x) /\ T(y) * ComputeTime(z) =< T(z) * ComputeTime(y)
  BY <1>1 DEF Outscores
<1>3. T(x) * ComputeTime(z) =< T(z) * ComputeTime(x)
  <2> HIDE DEF T
  <2> QED
    BY <1>1, <1>2, CrossMultiplied
<1> QED
  BY <1>1, <1>3 DEF Outscores

LEMMA OutscoresAsymmetric ==
  ASSUME NEW x \in [predicted : Nat, wait : Nat], NEW y \in [predicted : Nat, wait : Nat],
         Outscores(x, y)
  PROVE  ~Outscores(y, x)
BY ComputeTimeType DEF Outscores

\* getNextJob's scan finds an index that beats every other one.
LEMMA ScanFindsBest ==
  ASSUME NEW jobs \in Seq(Jobs), jobs # <<>>, NEW e \in Estimates
  PROVE  /\ HighestScoreIdx(jobs, e) \in DOMAIN jobs
         /\ \A i \in DOMAIN jobs :
              /\ ~Outscores(e[jobs[i]], e[jobs[HighestScoreIdx(jobs, e)]])
              /\ i < HighestScoreIdx(jobs, e) =>
                   Outscores(e[jobs[HighestScoreIdx(jobs, e)]], e[jobs[i]])
<1> DEFINE D == DOMAIN jobs
           R == {r \in D \X D : Beats(jobs, e, r[1], r[2])}
<1>1. D = 1 .. Len(jobs) /\ IsFiniteSet(D) /\ D # {} /\ \A i \in D : i \in Nat
  <2>1. D = 1 .. Len(jobs) /\ Len(jobs) \in Nat \ {0}
    BY LenProperties, EmptySeq
  <2>2. 1 \in Int /\ Len(jobs) \in Int
    BY <2>1
  <2>3. IsFiniteSet(D)
    BY <2>1, <2>2, FS_Interval, Zenon
  <2>4. 1 \in 1 .. Len(jobs) /\ \A i \in 1 .. Len(jobs) : i \in Nat
    BY <2>1
  <2> QED
    BY <2>1, <2>3, <2>4, Zenon
<1>2. \A i \in D : e[jobs[i]] \in [predicted : Nat, wait : Nat]
  BY <1>1, ElementOfSeq DEF Estimates
<1>3. \A i, k \in D : <<i, k>> \in R <=> Beats(jobs, e, i, k)
  OBVIOUS
<1>4. ASSUME NEW i \in D, NEW k \in D, i # k PROVE <<i, k>> \in R \/ <<k, i>> \in R
  BY <1>1, <1>3, <1>4 DEF Beats
<1>5. ASSUME NEW i \in D, NEW k \in D, NEW n \in D, <<i, k>> \in R, <<k, n>> \in R
      PROVE  <<i, n>> \in R
  <2>1. ~Outscores(e[jobs[k]], e[jobs[i]]) /\ ~Outscores(e[jobs[n]], e[jobs[k]])
    BY <1>2, <1>3, <1>5, OutscoresAsymmetric DEF Beats
  <2>2. ~Outscores(e[jobs[n]], e[jobs[i]])
    BY <1>2, <2>1, OutscoresTransitive
  <2>3. CASE Outscores(e[jobs[i]], e[jobs[n]])
    BY <1>3, <2>3 DEF Beats
  <2>4. CASE ~Outscores(e[jobs[i]], e[jobs[n]])
    <3>1. ~Outscores(e[jobs[i]], e[jobs[k]])
      BY <1>2, <2>1, <2>4, OutscoresTransitive
    <3>2. ~Outscores(e[jobs[k]], e[jobs[n]])
      BY <1>2, <2>1, <2>4, OutscoresTransitive
    <3> QED
      BY <1>1, <1>3, <1>5, <2>2, <3>1, <3>2 DEF Beats
  <2> QED
    BY <2>3, <2>4
<1>6. PICK k \in D : \A i \in D \ {k} : <<k, i>> \in R
  <2> HIDE DEF D, R
  <2>1. OrdersTotally(R, D)
    BY <1>4, <1>5 DEF OrdersTotally
  <2>2. HasFirst(R, D)
    BY <1>1, <2>1, FirstExists
  <2> QED
    BY <2>2 DEF HasFirst
<1>7. ASSUME NEW i \in D
      PROVE  /\ ~Outscores(e[jobs[i]], e[jobs[k]])
             /\ i < k => Outscores(e[jobs[k]], e[jobs[i]])
  <2>1. CASE i = k
    BY <1>1, <1>2, <2>1, OutscoresAsymmetric
  <2>2. CASE i # k
    <3>1. Beats(jobs, e, k, i)
      BY <1>3, <1>6, <2>2
    <3>2. ~Outscores(e[jobs[i]], e[jobs[k]])
      BY <1>2, <3>1, OutscoresAsymmetric DEF Beats
    <3>3. i \in Nat /\ k \in Nat
      BY <1>1
    <3> QED
      BY <3>1, <3>2, <3>3 DEF Beats
  <2> QED
    BY <2>1, <2>2
<1> QED
  BY <1>7 DEF HighestScoreIdx

-----------------------------------------------------------------------------
(* Levels *)

LEMMA LevelsAre == Levels = {0, 1, 2, 3, 4, 5} /\ Len(Thresholds) = 5 /\ Levels = 0 .. 5
BY DEF Levels, Thresholds

LEMMA LeastLevel ==
  ASSUME NEW S \in SUBSET Levels, S # {}
  PROVE  \E i \in S : \A k \in S : i =< k
<1> DEFINE R == {r \in Levels \X Levels : r[1] < r[2]}
<1>1. IsFiniteSet(0 .. 5)
  <2>1. 0 \in Int /\ 5 \in Int
    OBVIOUS
  <2> QED
    BY <2>1, FS_Interval, Zenon
<1>2. IsFiniteSet(S)
  BY <1>1, LevelsAre, FS_Subset
<1>3. \A i, k \in S : i \in Int /\ k \in Int /\ (<<i, k>> \in R <=> i < k)
  BY LevelsAre
<1> HIDE DEF R
<1>4. OrdersTotally(R, S)
  BY <1>3 DEF OrdersTotally
<1>5. HasFirst(R, S)
  BY <1>2, <1>4, FirstExists
<1>6. PICK i \in S : \A k \in S \ {i} : <<i, k>> \in R
  BY <1>5 DEF HasFirst
<1>7. ASSUME NEW k \in S PROVE i =< k
  <2>1. k = i \/ i < k
    BY <1>3, <1>6
  <2>2. i \in Int /\ k \in Int
    BY <1>3
  <2> QED
    BY <2>1, <2>2
<1> QED
  BY <1>7

\* A request is classified at the band of its tokens or past it, and in a level.
LEMMA ClassifyFacts ==
  ASSUME NEW tokens \in Nat
  PROVE  Classify(tokens) \in Levels /\ Band(tokens) =< Classify(tokens)
<1> DEFINE under == {i \in 0 .. Len(Thresholds) - 1 : Below(tokens, i)}
<1>1. under \in SUBSET Levels
  BY LevelsAre
<1>2. CASE under = {}
  <2>1. Classify(tokens) = 5
    BY <1>2, LevelsAre DEF Classify, LastLevel
  <2> QED
    BY <2>1, LevelsAre DEF Band
<1>3. CASE under # {}
  <2>1. Classify(tokens) \in under
    BY <1>1, <1>3, LeastLevel DEF Classify
  <2>2. PICK i \in under : i = Classify(tokens)
    BY <2>1
  <2>3. i \in 0 .. 4 /\ tokens < Thresholds[i + 1]
    BY LevelsAre DEF Below
  <2>4. Thresholds[i + 1] = 128 * (i + 1)
    BY <2>3 DEF Thresholds
  <2>5. tokens \div 128 =< i
    BY <2>3, <2>4
  <2> QED
    BY <1>1, <2>2, <2>5 DEF Band
<1> QED
  BY <1>2, <1>3

LEMMA BandType == ASSUME NEW tokens \in Nat PROVE Band(tokens) \in Int
BY DEF Band

LEMMA LongerWait ==
  ASSUME NEW x \in [predicted : Nat, wait : Nat], NEW n \in Nat
  PROVE  [x EXCEPT !.wait = @ + n] \in [predicted : Nat, wait : Nat]
OBVIOUS

LEMMA DemotionTargetFacts ==
  ASSUME NEW level \in Levels, NEW tokens \in Nat
  PROVE  DemotionTarget(level, tokens) \in Levels /\ DemotionTarget(level, tokens) >= level
BY ClassifyFacts, LevelsAre DEF DemotionTarget

\* getNextJob serves the first level that is not empty.
LEMMA ServingFacts ==
  ASSUME NEW levels, ~GloballyEmpty(levels)
  PROVE  /\ Serving(levels) \in Levels
         /\ levels[Serving(levels)] # <<>>
         /\ \A k \in Levels : k < Serving(levels) => levels[k] = <<>>
<1> DEFINE S == {i \in Levels : levels[i] # <<>>}
<1>1. PICK i \in S : \A k \in S : i =< k
  BY LeastLevel DEF GloballyEmpty
<1>2. levels[i] # <<>> /\ \A k \in Levels : k < i => levels[k] = <<>>
  BY <1>1, LevelsAre
<1> QED
  BY <1>2 DEF Serving

-----------------------------------------------------------------------------
(* The jobs of a level *)

Members(s) == {s[k] : k \in DOMAIN s}
Distinct(s) == \A a, b \in DOMAIN s : s[a] = s[b] => a = b

LEMMA AppendMembers ==
  ASSUME NEW s \in Seq(Jobs), NEW j \in Jobs
  PROVE  /\ Append(s, j) \in Seq(Jobs)
         /\ Members(Append(s, j)) = Members(s) \cup {j}
         /\ Distinct(s) /\ j \notin Members(s) => Distinct(Append(s, j))
<1>1. /\ Append(s, j) \in Seq(Jobs)
      /\ DOMAIN Append(s, j) = 1 .. Len(s) + 1
      /\ DOMAIN s = 1 .. Len(s)
      /\ \A k \in 1 .. Len(s) : Append(s, j)[k] = s[k]
      /\ Append(s, j)[Len(s) + 1] = j
      /\ Len(s) \in Nat
  OBVIOUS
<1>2. Members(Append(s, j)) = Members(s) \cup {j}
  BY <1>1 DEF Members
<1>3. ASSUME Distinct(s), j \notin Members(s)
      PROVE  Distinct(Append(s, j))
  BY <1>1, <1>3 DEF Members, Distinct
<1> QED
  BY <1>1, <1>2, <1>3

LEMMA RemoveAtFacts ==
  ASSUME NEW s \in Seq(Jobs), NEW k \in 1 .. Len(s)
  PROVE  /\ RemoveAt(s, k) \in Seq(Jobs)
         /\ Len(RemoveAt(s, k)) = Len(s) - 1
         /\ \A i \in 1 .. Len(s) - 1 : RemoveAt(s, k)[i] = IF i < k THEN s[i] ELSE s[i + 1]
<1>1. Len(s) \in Nat /\ k \in Nat /\ 1 =< k /\ k =< Len(s)
  OBVIOUS
<1>2. /\ SubSeq(s, 1, k - 1) \in Seq(Jobs)
      /\ Len(SubSeq(s, 1, k - 1)) = k - 1
      /\ \A i \in 1 .. k - 1 : SubSeq(s, 1, k - 1)[i] = s[i]
  BY <1>1
<1>3. /\ SubSeq(s, k + 1, Len(s)) \in Seq(Jobs)
      /\ Len(SubSeq(s, k + 1, Len(s))) = Len(s) - k
      /\ \A i \in 1 .. Len(s) - k : SubSeq(s, k + 1, Len(s))[i] = s[k + i]
  BY <1>1
<1> DEFINE a == SubSeq(s, 1, k - 1)
           b == SubSeq(s, k + 1, Len(s))
<1> HIDE DEF a, b
<1>4. /\ a \o b \in Seq(Jobs)
      /\ Len(a \o b) = Len(a) + Len(b)
      /\ \A i \in 1 .. Len(a) + Len(b) : (a \o b)[i] = IF i =< Len(a) THEN a[i] ELSE b[i - Len(a)]
  BY <1>2, <1>3, ConcatProperties DEF a, b
<1>5. Len(a) = k - 1 /\ Len(b) = Len(s) - k
  BY <1>2, <1>3 DEF a, b
<1>6. Len(a) + Len(b) = Len(s) - 1
  BY <1>1, <1>5
<1>7. ASSUME NEW i \in 1 .. Len(s) - 1
      PROVE  (a \o b)[i] = IF i < k THEN s[i] ELSE s[i + 1]
  <2>1. CASE i < k
    BY <1>1, <1>2, <1>4, <1>5, <1>6, <2>1 DEF a
  <2>2. CASE i >= k
    <3>1. /\ i - (k - 1) \in 1 .. Len(s) - k
          /\ k + (i - (k - 1)) = i + 1
          /\ ~(i =< k - 1)
      BY <1>1, <2>2
    <3>2. b[i - (k - 1)] = s[i + 1]
      BY <1>3, <3>1 DEF b
    <3> QED
      BY <1>4, <1>5, <1>6, <2>2, <3>1, <3>2
  <2>3. i < k \/ i >= k
    BY <1>1
  <2> QED
    BY <2>1, <2>2, <2>3
<1>8. RemoveAt(s, k) = a \o b
  BY DEF RemoveAt, a, b
<1> QED
  BY <1>4, <1>6, <1>7, <1>8

LEMMA RemoveAtMembers ==
  ASSUME NEW s \in Seq(Jobs), Distinct(s), NEW k \in DOMAIN s
  PROVE  /\ RemoveAt(s, k) \in Seq(Jobs)
         /\ Members(RemoveAt(s, k)) = Members(s) \ {s[k]}
         /\ Distinct(RemoveAt(s, k))
<1> DEFINE t == RemoveAt(s, k)
<1>1. /\ t \in Seq(Jobs)
      /\ DOMAIN t = 1 .. Len(s) - 1
      /\ DOMAIN s = 1 .. Len(s)
      /\ Len(s) \in Nat
      /\ \A i \in 1 .. Len(s) - 1 : t[i] = IF i < k THEN s[i] ELSE s[i + 1]
  <2>1. DOMAIN s = 1 .. Len(s) /\ Len(s) \in Nat
    OBVIOUS
  <2>2. /\ t \in Seq(Jobs)
        /\ Len(t) = Len(s) - 1
        /\ \A i \in 1 .. Len(s) - 1 : t[i] = IF i < k THEN s[i] ELSE s[i + 1]
    BY <2>1, RemoveAtFacts
  <2> HIDE DEF t
  <2>3. DOMAIN t = 1 .. Len(s) - 1
    BY <2>2
  <2> QED
    BY <2>1, <2>2, <2>3
<1> HIDE DEF t
<1>2. \A i \in DOMAIN t : t[i] \in Members(s) \ {s[k]}
  BY <1>1 DEF Members, Distinct
<1>3. ASSUME NEW a \in DOMAIN s, s[a] # s[k]
      PROVE  \E i \in DOMAIN t : t[i] = s[a]
  <2>1. CASE a < k
    BY <1>1, <2>1
  <2>2. CASE a > k
    <3>1. a - 1 \in DOMAIN t /\ t[a - 1] = s[a]
      BY <1>1, <2>2
    <3> QED
      BY <3>1
  <2> QED
    BY <1>1, <1>3, <2>1, <2>2
<1>4. Members(t) = Members(s) \ {s[k]}
  BY <1>2, <1>3 DEF Members
<1>5. ASSUME NEW a \in DOMAIN t, NEW b \in DOMAIN t, t[a] = t[b] PROVE a = b
  <2> DEFINE back(i) == IF i < k THEN i ELSE i + 1
  <2>1. \A i \in DOMAIN t : back(i) \in DOMAIN s /\ t[i] = s[back(i)]
    BY <1>1
  <2>2. back(a) = back(b)
    <3> HIDE DEF back
    <3> QED
      BY <1>5, <2>1 DEF Distinct
  <2>3. a \in Int /\ b \in Int /\ k \in Int
    BY <1>1
  <2> QED
    BY <2>2, <2>3
<1> QED
  BY <1>1, <1>4, <1>5 DEF t, Distinct

\* splice(findIndex(job), 1) takes the job out where it is.
LEMMA RemoveFirstFacts ==
  ASSUME NEW s \in Seq(Jobs), Distinct(s), NEW k \in DOMAIN s
  PROVE  RemoveFirst(s, s[k]) = RemoveAt(s, k)
<1>1. DOMAIN s = 1 .. Len(s) /\ Len(s) \in Nat
  OBVIOUS
<1>2. {i \in 1 .. Len(s) : s[i] = s[k]} = {k}
  BY <1>1 DEF Distinct
<1>3. SelectInSeq(s, LAMBDA v : v = s[k]) = k
  BY <1>1, <1>2 DEF SelectInSeq, Min
<1> QED
  BY <1>1, <1>3 DEF RemoveFirst

-----------------------------------------------------------------------------
(* The inductive invariant *)

\* EachJobWaitsOnce, as sets.
WaitsInItsLevel ==
  \A i \in Levels :
    /\ Members(activeQueues[i]) = {j \in promised : priorityLevel[j] = i}
    /\ Distinct(activeQueues[i])

IInv == TypeOK /\ WaitsInItsLevel /\ NeverAboveItsBand /\ IdleMeansEmpty

LEMMA InitIInv == Init => IInv
<1> SUFFICES ASSUME Init PROVE IInv
  OBVIOUS
<1>1. TypeOK
  BY LevelsAre DEF Init, TypeOK
<1>2. WaitsInItsLevel
  BY DEF Init, WaitsInItsLevel, Members, Distinct
<1>3. NeverAboveItsBand /\ IdleMeansEmpty
  BY DEF Init, NeverAboveItsBand, IdleMeansEmpty, GloballyEmpty
<1> QED
  BY <1>1, <1>2, <1>3 DEF IInv

LEMMA EnqueueStep ==
  ASSUME IInv, NEW j \in Jobs, NEW tokens \in Tokens, Enqueue(j, tokens)
  PROVE  IInv'
<1> DEFINE c == Classify(tokens)
<1>1. tokens \in Nat /\ c \in Levels /\ Band(tokens) =< c
  BY StatefulMLFQAssumption, ClassifyFacts
<1> HIDE DEF c
<1> USE DEF IInv, TypeOK
<1>2. /\ activeQueues' = [activeQueues EXCEPT ![c] = Append(@, j)]
      /\ priorityLevel' = [priorityLevel EXCEPT ![j] = c]
      /\ est' = [est EXCEPT ![j] = [predicted |-> tokens, wait |-> 0]]
      /\ promised' = promised \cup {j}
      /\ j \notin promised
      /\ isEngineIdle' = FALSE
  BY DEF Enqueue, Put, c
<1>3. /\ Append(activeQueues[c], j) \in Seq(Jobs)
      /\ Members(Append(activeQueues[c], j)) = Members(activeQueues[c]) \cup {j}
      /\ Distinct(Append(activeQueues[c], j))
  BY <1>1, <1>2, AppendMembers DEF WaitsInItsLevel
<1>4. TypeOK'
  <2>1. est' \in [Jobs -> [predicted : Nat, wait : Nat]]
    BY <1>1, <1>2
  <2>2. activeQueues' \in [Levels -> Seq(Jobs)] /\ priorityLevel' \in [Jobs -> Levels]
    BY <1>1, <1>2, <1>3
  <2> QED
    BY <1>2, <2>1, <2>2
<1>5. WaitsInItsLevel'
  <2> SUFFICES ASSUME NEW i \in Levels
               PROVE  /\ Members(activeQueues'[i]) = {x \in promised' : priorityLevel'[x] = i}
                      /\ Distinct(activeQueues'[i])
    BY DEF WaitsInItsLevel
  <2>1. CASE i = c
    BY <1>1, <1>2, <1>3, <2>1 DEF WaitsInItsLevel
  <2>2. CASE i # c
    BY <1>2, <2>2 DEF WaitsInItsLevel
  <2> QED
    BY <2>1, <2>2
<1>6. NeverAboveItsBand'
  BY <1>1, <1>2 DEF NeverAboveItsBand
<1>7. IdleMeansEmpty'
  BY <1>2 DEF IdleMeansEmpty
<1> QED
  BY <1>4, <1>5, <1>6, <1>7

\* What getNextJob takes, and where it was.
LEMMA NextJobFacts ==
  ASSUME IInv, ~GloballyEmpty(activeQueues)
  PROVE  LET i == Serving(activeQueues)
             k == HighestScoreIdx(activeQueues[i], est)
         IN  /\ i \in Levels /\ activeQueues[i] \in Seq(Jobs) /\ Distinct(activeQueues[i])
             /\ k \in DOMAIN activeQueues[i]
             /\ NextJob(activeQueues, est) = activeQueues[i][k]
             /\ NextJob(activeQueues, est) \in promised
             /\ priorityLevel[NextJob(activeQueues, est)] = i
             /\ TakeNext(activeQueues, est) =
                  [activeQueues EXCEPT ![i] = RemoveAt(activeQueues[i], k)]
<1> DEFINE i == Serving(activeQueues)
           k == HighestScoreIdx(activeQueues[i], est)
<1>1. i \in Levels /\ activeQueues[i] # <<>>
  BY ServingFacts
<1>2. activeQueues[i] \in Seq(Jobs) /\ est \in Estimates
  BY <1>1 DEF IInv, TypeOK, Estimates
<1>3. k \in DOMAIN activeQueues[i]
  BY <1>1, <1>2, ScanFindsBest
<1>4. NextJob(activeQueues, est) = activeQueues[i][k]
  BY DEF NextJob
<1>5. activeQueues[i][k] \in Members(activeQueues[i])
  BY <1>3 DEF Members
<1>6. TakeNext(activeQueues, est) = [activeQueues EXCEPT ![i] = RemoveAt(activeQueues[i], k)]
  BY <1>1 DEF TakeNext, IInv, TypeOK
<1> HIDE DEF i, k
<1>7. /\ Distinct(activeQueues[i])
      /\ activeQueues[i][k] \in promised
      /\ priorityLevel[activeQueues[i][k]] = i
  BY <1>1, <1>5 DEF IInv, WaitsInItsLevel
<1> QED
  BY <1>1, <1>2, <1>3, <1>4, <1>6, <1>7 DEF i, k

LEMMA GetNextJobStep ==
  ASSUME IInv, GetNextJob
  PROVE  IInv'
<1> USE DEF IInv, TypeOK
<1>1. PICK i, k : /\ i \in Levels /\ activeQueues[i] \in Seq(Jobs) /\ Distinct(activeQueues[i])
                  /\ k \in DOMAIN activeQueues[i]
                  /\ activeQueues[i][k] \in promised
                  /\ priorityLevel[activeQueues[i][k]] = i
                  /\ promised' = promised \ {activeQueues[i][k]}
                  /\ activeQueues' = [activeQueues EXCEPT ![i] = RemoveAt(activeQueues[i], k)]
  BY NextJobFacts DEF GetNextJob
<1>2. /\ RemoveAt(activeQueues[i], k) \in Seq(Jobs)
      /\ Members(RemoveAt(activeQueues[i], k)) = Members(activeQueues[i]) \ {activeQueues[i][k]}
      /\ Distinct(RemoveAt(activeQueues[i], k))
  BY <1>1, RemoveAtMembers
<1>3. UNCHANGED <<est, priorityLevel, isEngineIdle>> /\ ~GloballyEmpty(activeQueues)
  BY DEF GetNextJob, IdleAfterTake
<1>4. TypeOK'
  BY <1>1, <1>2, <1>3
<1>5. WaitsInItsLevel'
  <2> SUFFICES ASSUME NEW l \in Levels
               PROVE  /\ Members(activeQueues'[l]) = {x \in promised' : priorityLevel'[x] = l}
                      /\ Distinct(activeQueues'[l])
    BY DEF WaitsInItsLevel
  <2>1. CASE l = i
    BY <1>1, <1>2, <1>3, <2>1 DEF WaitsInItsLevel
  <2>2. CASE l # i
    BY <1>1, <1>3, <2>2 DEF WaitsInItsLevel
  <2> QED
    BY <2>1, <2>2
<1>6. NeverAboveItsBand'
  BY <1>1, <1>3 DEF NeverAboveItsBand
<1>7. IdleMeansEmpty'
  BY <1>3 DEF IdleMeansEmpty
<1> QED
  BY <1>4, <1>5, <1>6, <1>7

LEMMA DemoteStep ==
  ASSUME IInv, NEW j \in Jobs, NEW tokens \in Tokens, Demote(j, tokens)
  PROVE  IInv'
<1> USE DEF IInv, TypeOK
<1> DEFINE l == priorityLevel[j]
           t == DemotionTarget(l, tokens)
<1>1. l \in Levels /\ t \in Levels /\ t >= l /\ t # l /\ j \in promised
  BY StatefulMLFQAssumption, DemotionTargetFacts DEF Demote
<1>2. PICK k \in DOMAIN activeQueues[l] : activeQueues[l][k] = j
  BY <1>1 DEF WaitsInItsLevel, Members
<1>3. /\ RemoveFirst(activeQueues[l], j) \in Seq(Jobs)
      /\ Members(RemoveFirst(activeQueues[l], j)) = Members(activeQueues[l]) \ {j}
      /\ Distinct(RemoveFirst(activeQueues[l], j))
  <2>1. activeQueues[l] \in Seq(Jobs) /\ Distinct(activeQueues[l])
    BY <1>1 DEF WaitsInItsLevel
  <2> QED
    BY <1>2, <2>1, RemoveFirstFacts, RemoveAtMembers
<1>4. /\ Append(activeQueues[t], j) \in Seq(Jobs)
      /\ Members(Append(activeQueues[t], j)) = Members(activeQueues[t]) \cup {j}
      /\ Distinct(Append(activeQueues[t], j))
  <2>1. activeQueues[t] \in Seq(Jobs) /\ Distinct(activeQueues[t]) /\ j \notin Members(activeQueues[t])
    BY <1>1 DEF WaitsInItsLevel
  <2> QED
    BY <2>1, AppendMembers
<1>5. /\ priorityLevel' = [priorityLevel EXCEPT ![j] = t]
      /\ UNCHANGED <<isEngineIdle, est, promised>>
      /\ activeQueues' = [[activeQueues EXCEPT ![l] = RemoveFirst(@, j)] EXCEPT ![t] = Append(@, j)]
  BY DEF Demote, Put, TakeOut
<1> HIDE DEF t
<1>6. /\ activeQueues'[l] = RemoveFirst(activeQueues[l], j)
      /\ activeQueues'[t] = Append(activeQueues[t], j)
      /\ \A i \in Levels \ {l, t} : activeQueues'[i] = activeQueues[i]
  BY <1>1, <1>5
<1>7. TypeOK'
  <2>1. activeQueues' \in [Levels -> Seq(Jobs)]
    BY <1>1, <1>3, <1>4, <1>5, <1>6
  <2> QED
    BY <1>1, <1>5, <2>1
<1>8. WaitsInItsLevel'
  <2> SUFFICES ASSUME NEW i \in Levels
               PROVE  /\ Members(activeQueues'[i]) = {x \in promised' : priorityLevel'[x] = i}
                      /\ Distinct(activeQueues'[i])
    BY DEF WaitsInItsLevel
  <2>1. CASE i = l
    BY <1>1, <1>3, <1>5, <1>6, <2>1 DEF WaitsInItsLevel
  <2>2. CASE i = t
    BY <1>1, <1>4, <1>5, <1>6, <2>2 DEF WaitsInItsLevel
  <2>3. CASE i \notin {l, t}
    BY <1>1, <1>5, <1>6, <2>3 DEF WaitsInItsLevel
  <2> QED
    BY <2>1, <2>2, <2>3
<1>9. NeverAboveItsBand'
  <2>1. Band(est[j].predicted) \in Int /\ l \in Int /\ t \in Int
    <3>1. est[j] \in [predicted : Nat, wait : Nat]
      OBVIOUS
    <3>2. est[j].predicted \in Nat
      BY <3>1
    <3>3. l \in Int /\ t \in Int
      BY <1>1, LevelsAre
    <3> QED
      BY <3>2, <3>3, BandType
  <2>2. l >= Band(est[j].predicted)
    BY <1>1 DEF NeverAboveItsBand
  <2>3. t >= Band(est[j].predicted)
    BY <1>1, <2>1, <2>2
  <2> QED
    BY <1>1, <1>5, <2>3 DEF NeverAboveItsBand
<1>10. IdleMeansEmpty'
  <2>1. ~GloballyEmpty(activeQueues)
    BY <1>1, <1>2 DEF GloballyEmpty
  <2> QED
    BY <1>5, <2>1 DEF IdleMeansEmpty
<1> QED
  BY <1>7, <1>8, <1>9, <1>10

LEMMA DiscardStep ==
  ASSUME IInv, NEW j \in Jobs, NEW m \in Caches, Discard(j, m)
  PROVE  IInv'
<1> USE DEF IInv, TypeOK
<1>1. Penalty(m) \in Nat
  BY StatefulMLFQAssumption DEF Penalty
<1>2. /\ UNCHANGED <<activeQueues, isEngineIdle, priorityLevel, promised>>
      /\ est' = [est EXCEPT ![j].wait = @ + Penalty(m)]
  BY DEF Discard
<1>3. est' \in [Jobs -> [predicted : Nat, wait : Nat]]
  <2>1. [est[j] EXCEPT !.wait = @ + Penalty(m)] \in [predicted : Nat, wait : Nat]
    BY <1>1, LongerWait
  <2>2. est' = [est EXCEPT ![j] = [est[j] EXCEPT !.wait = @ + Penalty(m)]]
    BY <1>2
  <2> QED
    BY <2>1, <2>2
<1>4. \A i \in Jobs : est'[i].predicted = est[i].predicted
  BY <1>2
<1>5. NeverAboveItsBand'
  BY <1>2, <1>4 DEF NeverAboveItsBand
<1> QED
  BY <1>2, <1>3, <1>5 DEF WaitsInItsLevel, IdleMeansEmpty

LEMMA Inductive == IInv /\ [Next]_vars => IInv'
<1> SUFFICES ASSUME IInv, [Next]_vars PROVE IInv'
  OBVIOUS
<1>1. CASE GetNextJobNone
  BY <1>1 DEF GetNextJobNone, IInv, TypeOK, WaitsInItsLevel, NeverAboveItsBand, IdleMeansEmpty
<1>2. CASE UNCHANGED vars
  BY <1>2 DEF vars, IInv, TypeOK, WaitsInItsLevel, NeverAboveItsBand, IdleMeansEmpty
<1> QED
  BY <1>1, <1>2, EnqueueStep, GetNextJobStep, DemoteStep, DiscardStep DEF Next

-----------------------------------------------------------------------------
(* Theorems *)

\* The inductive invariant holds of every behaviour.
THEOREM Invariance == Spec => []IInv
BY InitIInv, Inductive, PTL DEF Spec

\* Every variable keeps its shape; in particular no job leaves the levels.
THEOREM TypeCorrect == Spec => []TypeOK
<1>1. IInv => TypeOK
  BY DEF IInv
<1> QED
  BY <1>1, Invariance, PTL

\* Demotions and hand-outs neither lose nor double a job.
THEOREM Lossless == Spec => []EachJobWaitsOnce
<1>1. ASSUME IInv PROVE EachJobWaitsOnce
  <2> USE <1>1 DEF IInv, TypeOK
  <2>1. ASSUME NEW j \in promised
        PROVE  \E k \in DOMAIN activeQueues[priorityLevel[j]] : activeQueues[priorityLevel[j]][k] = j
    <3>1. priorityLevel[j] \in Levels
      OBVIOUS
    <3>2. j \in Members(activeQueues[priorityLevel[j]])
      BY <3>1 DEF WaitsInItsLevel
    <3> QED
      BY <3>2 DEF Members
  <2>2. ASSUME NEW i \in Levels, NEW k \in DOMAIN activeQueues[i]
        PROVE  activeQueues[i][k] \in promised /\ priorityLevel[activeQueues[i][k]] = i
    BY DEF WaitsInItsLevel, Members
  <2>3. \A i \in Levels : Distinct(activeQueues[i])
    BY DEF WaitsInItsLevel
  <2> QED
    BY <2>1, <2>2, <2>3 DEF EachJobWaitsOnce, Distinct
<1> QED
  BY <1>1, Invariance, PTL

\* No job waits in front of the band of its predicted tokens.
THEOREM BandsAreKept == Spec => []NeverAboveItsBand
<1>1. IInv => NeverAboveItsBand
  BY DEF IInv
<1> QED
  BY <1>1, Invariance, PTL

\* A scheduler that believes the engine idle has nothing waiting.
THEOREM IdleEngineHasNothing == Spec => []IdleMeansEmpty
<1>1. IInv => IdleMeansEmpty
  BY DEF IInv
<1> QED
  BY <1>1, Invariance, PTL

\* The job handed out is in the first level that is not empty, has the highest
\* response ratio there, and arrived first among those that share it.
THEOREM BestFirst == Spec => HandsOutTheBest
<1> DEFINE Best ==
      \A j \in promised \ promised' : \A i \in promised \ {j} :
        /\ priorityLevel[j] =< priorityLevel[i]
        /\ priorityLevel[i] = priorityLevel[j] =>
             /\ est[i].wait * ComputeTime(est[j]) =< est[j].wait * ComputeTime(est[i])
             /\ est[i].wait * ComputeTime(est[j]) = est[j].wait * ComputeTime(est[i]) =>
                  \E a, b \in DOMAIN activeQueues[priorityLevel[j]] :
                    /\ activeQueues[priorityLevel[j]][a] = j
                    /\ activeQueues[priorityLevel[j]][b] = i
                    /\ a < b
<1>1. ASSUME IInv, GetNextJob PROVE Best
  <2> DEFINE l == Serving(activeQueues)
             k == HighestScoreIdx(activeQueues[l], est)
             first == NextJob(activeQueues, est)
  <2> USE <1>1 DEF IInv, TypeOK
  <2>1. /\ ~GloballyEmpty(activeQueues)
        /\ promised \ promised' \subseteq {first}
    BY DEF GetNextJob
  <2>2. /\ l \in Levels /\ activeQueues[l] \in Seq(Jobs) /\ Distinct(activeQueues[l])
        /\ k \in DOMAIN activeQueues[l]
        /\ first = activeQueues[l][k] /\ first \in promised /\ priorityLevel[first] = l
    BY <2>1, NextJobFacts
  <2>3. \A i \in promised : l =< priorityLevel[i]
    <3> SUFFICES ASSUME NEW i \in promised PROVE l =< priorityLevel[i]
      OBVIOUS
    <3>1. priorityLevel[i] \in Levels /\ activeQueues[priorityLevel[i]] # <<>>
      BY DEF WaitsInItsLevel, Members
    <3>2. ~(priorityLevel[i] < l)
      BY <2>1, <3>1, ServingFacts
    <3>3. \A x, y \in Levels : ~(x < y) => y =< x
      BY LevelsAre
    <3> QED
      BY <2>2, <3>1, <3>2, <3>3, Zenon
  <2>4. \A n \in DOMAIN activeQueues[l] :
          /\ ~Outscores(est[activeQueues[l][n]], est[first])
          /\ n < k => Outscores(est[first], est[activeQueues[l][n]])
    <3>1. activeQueues[l] # <<>> /\ est \in Estimates
      BY <2>2 DEF Estimates
    <3> QED
      BY <2>2, <3>1, ScanFindsBest
  <2> HIDE DEF l, k, first
  <2>5. ASSUME NEW i \in promised \ {first}, priorityLevel[i] = l
        PROVE  /\ est[i].wait * ComputeTime(est[first]) =< est[first].wait * ComputeTime(est[i])
               /\ est[i].wait * ComputeTime(est[first]) = est[first].wait * ComputeTime(est[i]) =>
                    \E a, b \in DOMAIN activeQueues[l] :
                      activeQueues[l][a] = first /\ activeQueues[l][b] = i /\ a < b
    <3>1. PICK n \in DOMAIN activeQueues[l] : activeQueues[l][n] = i
      BY <2>2, <2>5 DEF WaitsInItsLevel, Members
    <3>2. /\ est[i].wait \in Nat /\ est[first].wait \in Nat
          /\ ComputeTime(est[i]) \in Nat \ {0} /\ ComputeTime(est[first]) \in Nat \ {0}
      <4>1. est[i] \in [predicted : Nat, wait : Nat] /\ est[first] \in [predicted : Nat, wait : Nat]
        BY <2>2, <2>5
      <4> QED
        BY <4>1, ComputeTimeType
    <3>3. ~Outscores(est[i], est[first]) /\ (n < k => Outscores(est[first], est[i]))
      BY <2>4, <3>1
    <3>4. est[i].wait * ComputeTime(est[first]) =< est[first].wait * ComputeTime(est[i])
      BY <3>2, <3>3, OutscoresByWait
    <3>5. ASSUME est[i].wait * ComputeTime(est[first]) = est[first].wait * ComputeTime(est[i])
          PROVE  ~Outscores(est[first], est[i])
      BY <3>2, <3>5, OutscoresByWait
    <3>6. n \in Nat /\ k \in Nat /\ n # k
      BY <2>2, <2>5, <3>1
    <3>7. ASSUME est[i].wait * ComputeTime(est[first]) = est[first].wait * ComputeTime(est[i])
          PROVE  k < n
      BY <3>3, <3>5, <3>6, <3>7
    <3> QED
      BY <2>2, <3>1, <3>4, <3>7
  <2> QED
    BY <2>1, <2>2, <2>3, <2>5
<1>2. ASSUME IInv, [Next]_vars, ~GetNextJob PROVE promised \subseteq promised'
  BY <1>2 DEF Next, Enqueue, Demote, Discard, GetNextJobNone, vars
<1>3. IInv /\ [Next]_vars => [Best]_vars
  <2> SUFFICES ASSUME IInv, [Next]_vars PROVE Best
    OBVIOUS
  <2>1. CASE GetNextJob
    BY <1>1, <2>1
  <2>2. CASE ~GetNextJob
    BY <1>2, <2>2
  <2> QED
    BY <2>1, <2>2
<1> QED
  BY <1>3, Invariance, PTL DEF Spec, HandsOutTheBest
=============================================================================
