--------------------------- MODULE ProgressProofs ---------------------------
(***************************************************************************)
(* Proofs about Progress, for every content, every set of signals and any  *)
(* number of sessions: what the queries and the code derive from the       *)
(* tables agrees, and the progress of an account never shrinks.            *)
(***************************************************************************)
EXTENDS Progress, AttemptProofs, WellFoundedInduction

-----------------------------------------------------------------------------
(* Arithmetic of the percent (domain/scoring.go).                          *)
LEMMA Multiples ==
  ASSUME NEW m \in Nat, NEW x \in Int, NEW y \in Int, x <= y
  PROVE  m * x <= m * y
  OBVIOUS

LEMMA Floor ==
  ASSUME NEW x \in Int, NEW d \in Nat \ {0}
  PROVE  /\ x \div d \in Int
         /\ d * (x \div d) <= x
         /\ x < d * (x \div d) + d
  OBVIOUS

(* The percent is the number whose multiple of 20n is nearest to the       *)
(* hundredfold of the distance from the worst score.                       *)
LEMMA Nearest ==
  ASSUME NEW score \in Int, NEW n \in Nat \ {0}
  PROVE  LET p == Percent(score, n)
             rest == 100 * (score + 10 * n) - 20 * n * p
         IN  p \in Int /\ -10 * n <= rest /\ rest < 10 * n
  <1> DEFINE num == (score + 10 * n) * 100
             p == Percent(score, n)
             x == 2 * num + 20 * n
             d == 40 * n
  <1>1. x \in Int /\ d \in Nat \ {0}
    OBVIOUS
  <1>2. p = x \div d
    BY DEF Percent, RoundPercent
  <1>3. p \in Int /\ d * p <= x /\ x < d * p + d
    BY <1>1, <1>2, Floor
  <1>4. d * p = 2 * (20 * n * p)
    BY <1>3
  <1> QED BY <1>3, <1>4

LEMMA PercentBounds ==
  ASSUME NEW score \in Int, NEW n \in Nat \ {0}, -10 * n <= score, score <= 10 * n
  PROVE  Percent(score, n) \in 0..100
  <1> DEFINE p == Percent(score, n)
             m == 20 * n
  <1>1. /\ p \in Int /\ m \in Nat
        /\ -10 * n <= 100 * (score + 10 * n) - m * p
        /\ 100 * (score + 10 * n) - m * p < 10 * n
    BY Nearest
  <1> HIDE DEF p
  <1>2. ASSUME p <= -1
        PROVE  FALSE
    <2>1. m * p <= m * (-1)
      BY <1>1, <1>2, Multiples
    <2> QED BY <1>1, <2>1
  <1>3. ASSUME p >= 101
        PROVE  FALSE
    <2>1. m * 101 <= m * p
      BY <1>1, <1>3, Multiples
    <2> QED BY <1>1, <2>1
  <1>4. p \in 0..100
    BY <1>1, <1>2, <1>3
  <1> QED BY <1>4 DEF p

(* Rounding keeps the order of the shares: the attempt with the greater    *)
(* score per choice has no smaller percent, whatever the lengths.          *)
LEMMA PercentMonotone ==
  ASSUME NEW s \in Int, NEW n \in Nat \ {0}, NEW t \in Int, NEW m \in Nat \ {0},
         s * m <= t * n
  PROVE  Percent(s, n) <= Percent(t, m)
  <1> DEFINE p == Percent(s, n)
             q == Percent(t, m)
             a == 20 * (n * p)
             b == 20 * (m * q)
  <1>a. p \in Int /\ -10 * n <= 100 * (s + 10 * n) - 20 * n * p
    BY Nearest
  <1>b. q \in Int /\ 100 * (t + 10 * m) - 20 * m * q < 10 * m
    BY Nearest
  <1> HIDE DEF p, q
  <1>1. p \in Int /\ a <= 100 * s + 1010 * n
    BY <1>a
  <1>2. q \in Int /\ 100 * t + 990 * m < b
    BY <1>b
  <1>3. ASSUME q <= p - 1
        PROVE  FALSE
    <2>1. m * q <= m * (p - 1)
      BY <1>1, <1>2, <1>3, Multiples
    <2>2. m * (p - 1) = m * p - m
      BY <1>1
    <2>3. 100 * t + 1010 * m < 20 * (m * p)
      BY <1>1, <1>2, <2>1, <2>2
    <2>4. 100 * t + 1010 * m + 1 <= 20 * (m * p)
      BY <1>1, <2>3
    <2>5. n * (100 * t + 1010 * m + 1) <= n * (20 * (m * p))
      BY <1>1, <2>4, Multiples
    <2>6. m * a <= m * (100 * s + 1010 * n)
      BY <1>1, Multiples
    <2>7. /\ n * (100 * t + 1010 * m + 1) = 100 * (t * n) + 1010 * (m * n) + n
          /\ m * (100 * s + 1010 * n) = 100 * (s * m) + 1010 * (m * n)
          /\ n * (20 * (m * p)) = 20 * (m * (n * p))
          /\ m * a = 20 * (m * (n * p))
      BY <1>1
    <2> QED BY <1>1, <2>5, <2>6, <2>7
  <1>4. p <= q
    BY <1>1, <1>2, <1>3
  <1> QED BY <1>4 DEF p, q

LEMMA LevelMonotone ==
  ASSUME NEW p \in Int, NEW q \in Int, p <= q
  PROVE  Rank[LevelFor(p)] <= Rank[LevelFor(q)]
  BY ThresholdsAssumption DEF Rank, LevelFor

-----------------------------------------------------------------------------
(* A finite set has an element that no other beats.                        *)
LEMMA Unbeaten ==
  ASSUME NEW S, IsFiniteSet(S), S # {}, NEW R,
         \A x \in S : <<x, x>> \notin R,
         \A x, y, z \in S : <<x, y>> \in R /\ <<y, z>> \in R => <<x, z>> \in R
  PROVE  \E x \in S : \A y \in S : <<y, x>> \notin R
  <1> DEFINE Above(x) == {y \in S : <<y, x>> \in R}
             T == {Above(x) : x \in S}
             Order == StrictSubsetOrdering(S)
  <1>1. IsWellFoundedOn(Order, FiniteSubsetsOf(S))
    BY FS_StrictSubsetOrderingWellFounded
  <1>2. T \subseteq FiniteSubsetsOf(S) /\ T # {}
    <2>1. \A x \in S : Above(x) \in SUBSET S /\ IsFiniteSet(Above(x))
      BY FS_Subset
    <2> HIDE DEF Above
    <2> QED BY <2>1 DEF FiniteSubsetsOf
  <1>3. \E A \in T : \A B \in T : <<B, A>> \notin Order
    <2> HIDE DEF Order, T
    <2> QED BY <1>1, <1>2, WFMin
  <1>4. PICK x \in S : \A y \in S : <<Above(y), Above(x)>> \notin Order
    <2> HIDE DEF Order, Above
    <2> QED BY <1>3
  <1>5. ASSUME NEW y \in S, <<y, x>> \in R
        PROVE  FALSE
    <2>1. y \in Above(x) /\ y \notin Above(y) /\ Above(y) \subseteq Above(x)
      BY <1>5
    <2>2. <<Above(y), Above(x)>> \in Order
      BY <2>1 DEF StrictSubsetOrdering
    <2> QED BY <1>4, <2>2
  <1> QED BY <1>5

-----------------------------------------------------------------------------
(* A step of this module is one of Attempt.                                *)
LEMMA StepOfAttempt ==
  ASSUME [PNext]_allVars
  PROVE  [Next]_tables
  BY DEF PNext, Starts, Answers, Abandons, Claims, Publishes, Next, allVars, tables

(* The sessions whose row a step may give another status.                  *)
LEMMA SameStatus ==
  ASSUME IInv, NEW s \in SessionId, NEW t \in SessionId, t # s,
         Abandon(s) \/ \E option \in Outcome : Answer(s, option)
  PROVE  /\ s \in DOMAIN sessions /\ DOMAIN sessions' = DOMAIN sessions
         /\ t \in DOMAIN sessions => sessions'[t] = sessions[t]
  <1>1. CASE Abandon(s)
    BY <1>1 DEF Abandon, UpdateAbandoned
  <1>2. CASE \E option \in Outcome : Answer(s, option)
    BY <1>2, AnswersGrow DEF IInv, Answer
  <1> QED BY <1>1, <1>2

LEMMA FinishedStep ==
  ASSUME IInv, FinishedOK, [PNext]_allVars
  PROVE  FinishedOK'
  <1> DEFINE Open(t) == t \in DOMAIN sessions => sessions[t].status = "in_progress"
  <1>1. ASSUME UNCHANGED finished, \A t \in SessionId : Open(t)' <=> Open(t)
        PROVE  FinishedOK'
    BY <1>1 DEF FinishedOK
  <1>2. CASE Starts
    <2>1. \A t \in SessionId : Open(t)' <=> Open(t)
      BY <1>2 DEF Starts, Start, InsertSession
    <2> QED BY <1>1, <1>2, <2>1 DEF Starts
  <1>3. ASSUME NEW s \in SessionId, NEW now \in Time, ~Open(s)',
               finished' = [finished EXCEPT ![s] = now],
               \A t \in SessionId \ {s} : Open(t)' <=> Open(t)
        PROVE  FinishedOK'
    BY <1>3, TimeAssumption DEF FinishedOK
  <1>4. ASSUME NEW s \in SessionId, Answers(s)
        PROVE  FinishedOK'
    <2>1. PICK option \in Outcome : Answer(s, option)
      BY <1>4 DEF Answers
    <2>2. /\ s \in DOMAIN sessions /\ s \in DOMAIN sessions'
          /\ \/ sessions'[s].status = "completed"
             \/ sessions'[s].status = sessions[s].status
          /\ sessions[s].status # "completed"
      BY <2>1, AnsweredRow, AnswersGrow DEF IInv, Base, Answer
    <2>3. \A t \in SessionId \ {s} : Open(t)' <=> Open(t)
      BY <2>1, SameStatus
    <2>4. CASE sessions'[s].status = "completed"
      BY <1>3, <1>4, <2>2, <2>3, <2>4 DEF Answers
    <2>5. CASE sessions'[s].status # "completed"
      BY <1>1, <1>4, <2>2, <2>3, <2>5 DEF Answers
    <2> QED BY <2>4, <2>5
  <1>5. ASSUME NEW s \in SessionId, Abandons(s)
        PROVE  FinishedOK'
    <2>1. /\ s \in DOMAIN sessions' /\ sessions'[s].status = "abandoned"
      <3>1. s \in DOMAIN sessions /\ sessions[s] \in SessionRow
        BY <1>5 DEF Abandons, Abandon, IInv, TypeOK
      <3> QED BY <1>5, <3>1 DEF Abandons, Abandon, UpdateAbandoned, SessionRow
    <2>2. \A t \in SessionId \ {s} : Open(t)' <=> Open(t)
      BY <1>5, SameStatus DEF Abandons
    <2>3. (CHOOSE now \in Time : TRUE) \in Time
      BY TimeAssumption
    <2> QED BY <1>3, <1>5, <2>1, <2>2, <2>3 DEF Abandons
  <1>6. CASE Claims
    <2>1. \A t \in DOMAIN sessions : sessions[t] \in SessionRow
      BY DEF IInv, TypeOK
    <2>2. \A t \in SessionId : Open(t)' <=> Open(t)
      BY <1>6, <2>1 DEF Claims, Claim, Move, UpdateOwner, SessionRow
    <2> QED BY <1>1, <1>6, <2>2 DEF Claims
  <1>7. CASE Publishes \/ UNCHANGED allVars
    BY <1>1, <1>7 DEF Publishes, Publish, allVars
  <1> QED BY <1>2, <1>4, <1>5, <1>6, <1>7 DEF PNext

PInv == IInv /\ FinishedOK

LEMMA PInvHolds == PSpec => []PInv
  <1>1. PInit => PInv
    BY IInvInit DEF PInit, PInv, FinishedOK, InitTables
  <1>2. PInv /\ [PNext]_allVars => PInv'
    BY IInvStep, StepOfAttempt, FinishedStep DEF PInv
  <1> QED BY <1>1, <1>2, PTL DEF PSpec

-----------------------------------------------------------------------------
(* A completed attempt has answers, and its score lies between the worst   *)
(* and the best that so many answers can have.                             *)
LEMMA DisjointUnion ==
  ASSUME NEW A, IsFiniteSet(A), NEW B, IsFiniteSet(B), A \cap B = {}
  PROVE  /\ IsFiniteSet(A \cup B)
         /\ Cardinality(A \cup B) = Cardinality(A) + Cardinality(B)
  <1>1. Cardinality(A \cap B) = 0
    BY FS_EmptySet
  <1>2. /\ IsFiniteSet(A \cup B)
        /\ Cardinality(A \cup B) = Cardinality(A) + Cardinality(B) - Cardinality(A \cap B)
    BY FS_Union
  <1>3. Cardinality(A) \in Nat /\ Cardinality(B) \in Nat
    BY FS_CardinalityType
  <1> QED BY <1>1, <1>2, <1>3

LEMMA AnswersAdd ==
  ASSUME IInv, NEW s \in DOMAIN sessions
  PROVE  /\ \A o : CountOf(s, o) \in Nat
         /\ AnswersCount(s)
              = CountOf(s, "safe") + CountOf(s, "risky") + CountOf(s, "critical")
  <1> DEFINE Of(o) == {r \in AnswersOf(s) : r.option = o}
  <1>1. \A o : IsFiniteSet(Of(o)) /\ CountOf(s, o) = Cardinality(Of(o)) /\ CountOf(s, o) \in Nat
    BY FiniteAnswers DEF IInv, CountOf
  <1>2. AnswersOf(s) = (Of("safe") \cup Of("risky")) \cup Of("critical")
    BY DEF IInv, TypeOK, AnswerRow, AnswersOf, Outcome
  <1>3. /\ Of("safe") \cap Of("risky") = {}
        /\ (Of("safe") \cup Of("risky")) \cap Of("critical") = {}
    OBVIOUS
  <1> HIDE DEF Of
  <1>4. /\ IsFiniteSet(Of("safe") \cup Of("risky"))
        /\ Cardinality(Of("safe") \cup Of("risky"))
             = Cardinality(Of("safe")) + Cardinality(Of("risky"))
    BY <1>1, <1>3, DisjointUnion
  <1>5. Cardinality(AnswersOf(s))
          = Cardinality(Of("safe") \cup Of("risky")) + Cardinality(Of("critical"))
    BY <1>1, <1>2, <1>3, <1>4, DisjointUnion
  <1> QED BY <1>1, <1>4, <1>5 DEF AnswersCount

LEMMA CompletedScore ==
  ASSUME IInv, NEW s \in DOMAIN sessions, sessions[s].status = "completed"
  PROVE  /\ AnswersCount(s) \in Nat \ {0}
         /\ sessions[s].score \in Int
         /\ -10 * AnswersCount(s) <= sessions[s].score
         /\ sessions[s].score <= 10 * AnswersCount(s)
  <1>1. /\ sessions[s].score = 10 * CountOf(s, "safe") - 10 * CountOf(s, "critical")
        /\ \A o : CountOf(s, o) \in Nat
    BY AnswersAdd DEF IInv, ScoreIsSum, ScoreOf, Weights
  <1>2. AnswersCount(s) # 0
    <2>1. PathOf(s) /\ ScenarioOf(s).start # None
      BY PinnedScenario, ContentIsScenario, NoneIsNoStep DEF IInv, AnswersFormPath, ScenarioOf
    <2> QED BY <2>1 DEF PathOf, AnswersCount
  <1> QED BY <1>1, <1>2, AnswersAdd

LEMMA CompletedResult ==
  ASSUME IInv, NEW s \in DOMAIN sessions, sessions[s].status = "completed"
  PROVE  LET p == Percent(sessions[s].score, AnswersCount(s))
         IN  p \in 0..100 /\ ResultOf(s).percent = p /\ ResultOf(s).level = LevelFor(p)
  <1> DEFINE score == sessions[s].score
             n == AnswersCount(s)
  <1>1. n \in Nat \ {0} /\ score \in Int /\ -10 * n <= score /\ score <= 10 * n
    BY CompletedScore
  <1> HIDE DEF score, n
  <1>2. ResultOf(s) = [percent |-> Percent(score, n), level |-> LevelFor(Percent(score, n))]
    <2>1. ~(n <= 0)
      BY <1>1
    <2> QED BY <2>1 DEF ResultOf, EvaluateTotals, score, n
  <1>3. Percent(score, n) \in 0..100
    BY <1>1, PercentBounds
  <1> QED BY <1>2, <1>3 DEF score, n

LEMMA HistoryFinite ==
  ASSUME PInv, NEW o, NEW c
  PROVE  /\ IsFiniteSet(Completed(o, c))
         /\ \A s \in Completed(o, c) : finished[s] \in Nat
  <1>1. Completed(o, c) \subseteq SessionId
    BY DEF PInv, IInv, TypeOK, Completed
  <1>2. ASSUME NEW s \in Completed(o, c)
        PROVE  finished[s] \in Nat
    BY <1>1, TimeAssumption DEF PInv, FinishedOK, Completed
  <1> QED BY <1>1, <1>2, SessionIdAssumption, FS_Subset

(* The comparison by cross products is transitive.                         *)
LEMMA Shares ==
  ASSUME NEW a \in Int, NEW b \in Int, NEW c \in Int,
         NEW i \in Nat \ {0}, NEW j \in Nat \ {0}, NEW k \in Nat \ {0},
         b * i <= a * j, c * j <= b * k
  PROVE  /\ c * i <= a * k
         /\ b * i < a * j \/ c * j < b * k => c * i < a * k
  <1>1. /\ k * (b * i) <= k * (a * j)
        /\ i * (c * j) <= i * (b * k)
    BY Multiples
  <1>2. /\ k * (b * i) = i * (b * k)
        /\ i * (c * j) = j * (c * i)
        /\ k * (a * j) = j * (a * k)
    OBVIOUS
  <1>3. j * (c * i) <= j * (a * k)
    BY <1>1, <1>2
  <1>4. ASSUME c * i >= a * k + 1
        PROVE  FALSE
    <2>1. j * (a * k + 1) <= j * (c * i)
      BY <1>4, Multiples
    <2>2. j * (a * k + 1) = j * (a * k) + j
      OBVIOUS
    <2> QED BY <1>3, <2>1, <2>2
  <1>5. ASSUME b * i < a * j \/ c * j < b * k, c * i >= a * k
        PROVE  FALSE
    <2>1. j * (a * k) <= j * (c * i)
      BY <1>5, Multiples
    <2>2. CASE b * i + 1 <= a * j
      <3>1. k * (b * i + 1) <= k * (a * j)
        BY <2>2, Multiples
      <3>2. k * (b * i + 1) = k * (b * i) + k
        OBVIOUS
      <3> QED BY <1>1, <1>2, <2>1, <3>1, <3>2
    <2>3. CASE c * j + 1 <= b * k
      <3>1. i * (c * j + 1) <= i * (b * k)
        BY <2>3, Multiples
      <3>2. i * (c * j + 1) = i * (c * j) + i
        OBVIOUS
      <3> QED BY <1>1, <1>2, <2>1, <3>1, <3>2
    <2> QED BY <1>5, <2>2, <2>3
  <1> QED BY <1>4, <1>5

(* Results of attempts that are no better.                                 *)
LEMMA NoBetter ==
  ASSUME IInv, NEW s \in DOMAIN sessions, sessions[s].status = "completed",
         NEW t \in DOMAIN sessions, sessions[t].status = "completed", ~Better(t, s)
  PROVE  /\ ResultOf(s).percent >= ResultOf(t).percent
         /\ Rank[ResultOf(s).level] >= Rank[ResultOf(t).level]
  <1> DEFINE p(x) == Percent(sessions[x].score, AnswersCount(x))
  <1>1. \A x \in {s, t} : /\ AnswersCount(x) \in Nat \ {0} /\ sessions[x].score \in Int
                          /\ p(x) \in Int /\ ResultOf(x).percent = p(x)
                          /\ ResultOf(x).level = LevelFor(p(x))
    BY CompletedScore, CompletedResult
  <1>2. sessions[t].score * AnswersCount(s) <= sessions[s].score * AnswersCount(t)
    BY <1>1 DEF Better
  <1>3. p(t) <= p(s)
    BY <1>1, <1>2, PercentMonotone
  <1> HIDE DEF p
  <1>4. Rank[LevelFor(p(t))] <= Rank[LevelFor(p(s))]
    BY <1>1, <1>3, LevelMonotone
  <1>5. \A x \in Int : Rank[LevelFor(x)] \in Int
    BY DEF Rank, LevelFor
  <1> QED BY <1>1, <1>3, <1>4, <1>5

LEMMA BestShown ==
  ASSUME PInv, NEW o, NEW c, NEW s \in Best(o, c), NEW t \in Completed(o, c)
  PROVE  /\ ResultOf(s).percent >= ResultOf(t).percent
         /\ Rank[ResultOf(s).level] >= Rank[ResultOf(t).level]
  <1>1. s \in Completed(o, c) /\ (Better(s, t) \/ ~Better(t, s))
    BY DEF Best
  <1>2. \A x \in {s, t} : /\ x \in DOMAIN sessions /\ sessions[x].status = "completed"
                          /\ AnswersCount(x) \in Nat /\ sessions[x].score \in Int
    BY <1>1, CompletedScore DEF Completed, PInv
  <1>3. ~Better(t, s)
    BY <1>1, <1>2 DEF Better
  <1> QED BY <1>2, <1>3, NoBetter DEF PInv

-----------------------------------------------------------------------------
(* The percent of every completed attempt is the nearest integer, and in   *)
(* range (EvaluateTotals, roundPercent).                                   *)
THEOREM ResultsRightHolds == PSpec => []ResultsRight
  <1>1. PInv => ResultsRight
    <2> SUFFICES ASSUME PInv, NEW s \in DOMAIN sessions, sessions[s].status = "completed"
                 PROVE  LET n == AnswersCount(s)
                            p == ResultOf(s).percent
                            rest == 100 * (sessions[s].score + 10 * n) - 20 * n * p
                        IN  /\ n > 0
                            /\ p \in 0..100
                            /\ -10 * n <= rest /\ rest < 10 * n
      BY DEF ResultsRight
    <2>1. AnswersCount(s) \in Nat \ {0} /\ sessions[s].score \in Int
      BY CompletedScore DEF PInv
    <2>2. /\ ResultOf(s).percent = Percent(sessions[s].score, AnswersCount(s))
          /\ ResultOf(s).percent \in 0..100
      BY CompletedResult DEF PInv
    <2>3. PICK n \in Nat \ {0}, score \in Int, p \in 0..100 :
            /\ n = AnswersCount(s) /\ score = sessions[s].score
            /\ p = ResultOf(s).percent /\ p = Percent(score, n)
      BY <2>1, <2>2
    <2>4. /\ -10 * n <= 100 * (score + 10 * n) - 20 * n * p
          /\ 100 * (score + 10 * n) - 20 * n * p < 10 * n
      BY <2>3, Nearest
    <2> QED BY <2>3, <2>4
  <1> QED BY <1>1, PInvHolds, PTL

(* The query of the best attempt and the results that cards show agree     *)
(* (ScenarioStats, EvaluateTotals), for attempts of any lengths.           *)
THEOREM BestIsBestHolds == PSpec => []BestIsBest
  <1>1. ASSUME PInv, NEW o \in User, NEW c \in Code, Completed(o, c) # {}
        PROVE  Best(o, c) # {}
    <2> DEFINE history == Completed(o, c)
               Beats(x, y) == \/ Better(x, y)
                              \/ ~Better(y, x) /\ finished[x] > finished[y]
               R == {e \in history \X history : Beats(e[1], e[2])}
    <2>1. \A x \in history : /\ AnswersCount(x) \in Nat \ {0}
                             /\ sessions[x].score \in Int
                             /\ finished[x] \in Nat
      BY <1>1, CompletedScore, HistoryFinite DEF Completed, PInv
    <2>2. \A x, y \in history : <<x, y>> \in R <=> Beats(x, y)
      OBVIOUS
    <2>3. \A x \in history : ~Beats(x, x)
      BY <2>1 DEF Better
    <2>4. ASSUME NEW x \in history, NEW y \in history, NEW z \in history,
                 Beats(x, y), Beats(y, z)
          PROVE  Beats(x, z)
      <3>1. PICK a \in Int, b \in Int, e \in Int,
                 i \in Nat \ {0}, j \in Nat \ {0}, k \in Nat \ {0} :
              /\ a = sessions[x].score /\ b = sessions[y].score /\ e = sessions[z].score
              /\ i = AnswersCount(x) /\ j = AnswersCount(y) /\ k = AnswersCount(z)
        BY <2>1
      <3>2. /\ Better(x, y) <=> b * i < a * j
            /\ Better(y, x) <=> a * j < b * i
            /\ Better(y, z) <=> e * j < b * k
            /\ Better(z, y) <=> b * k < e * j
            /\ Better(x, z) <=> e * i < a * k
            /\ Better(z, x) <=> a * k < e * i
        BY <3>1 DEF Better
      <3>3. b * i <= a * j /\ e * j <= b * k
        BY <2>4, <3>2
      <3>4. /\ e * i <= a * k
            /\ b * i < a * j \/ e * j < b * k => e * i < a * k
        BY <3>3, Shares
      <3>5. ~Better(z, x) /\ (Better(x, y) \/ Better(y, z) => Better(x, z))
        BY <3>2, <3>4
      <3> QED BY <2>1, <2>4, <3>5
    <2>5. IsFiniteSet(history)
      BY <1>1, HistoryFinite
    <2>6. PICK s \in history : \A t \in history : ~Beats(t, s)
      <3> HIDE DEF history, R, Beats
      <3>1. /\ \A x \in history : <<x, x>> \notin R
            /\ \A x, y, z \in history : <<x, y>> \in R /\ <<y, z>> \in R => <<x, z>> \in R
        BY <2>2, <2>3, <2>4
      <3>2. history # {}
        BY <1>1 DEF history
      <3>3. \E s \in history : \A t \in history : <<t, s>> \notin R
        BY <2>5, <3>1, <3>2, Unbeaten
      <3> QED BY <2>2, <3>3
    <2>7. s \in Best(o, c)
      <3>1. ASSUME NEW t \in history
            PROVE  \/ Better(s, t)
                   \/ ~Better(t, s) /\ finished[s] >= finished[t]
        <4>1. finished[s] \in Nat /\ finished[t] \in Nat
          BY <2>1
        <4>2. ~Better(t, s) /\ (Better(s, t) \/ ~(finished[t] > finished[s]))
          BY <2>6
        <4> QED BY <4>1, <4>2
      <3> QED BY <3>1 DEF Best
    <2> QED BY <2>7
  <1>2. PInv => BestIsBest
    BY <1>1, BestShown DEF BestIsBest
  <1> QED BY <1>2, PInvHolds, PTL

(* The query of /progress/signals and the debriefs agree on what is        *)
(* mastered (SignalStats, RecognizedSignals).                              *)
THEOREM MasteryAgreesHolds == PSpec => []MasteryAgrees
  <1>1. ASSUME PInv, NEW o \in Owner, NEW g \in Signal
        PROVE  LET met == {s \in UNION {Completed(o, c) : c \in Code} : Met(s, g)}
               IN  /\ (Encounters(o, g) # {}) <=> (met # {})
                   /\ Mastered(o, g) <=> \A s \in met : Recognized(s, g)
    <2> DEFINE met == {s \in UNION {Completed(o, c) : c \in Code} : Met(s, g)}
               all == Encounters(o, g)
               safe == {r \in all : r.option = "safe"}
    <2>1. ASSUME NEW r \in all
          PROVE  r.sid \in met /\ r \in AnswersOf(r.sid) /\ g \in SignalsOn(r)
      <3>1. r \in answers /\ r.sid \in DOMAIN sessions /\ g \in SignalsOn(r)
        BY <1>1 DEF Encounters, PInv, IInv, Stored
      <3>2. r.sid \in Completed(o, sessions[r.sid].code) /\ sessions[r.sid].code \in Code
        BY <1>1, <3>1 DEF Encounters, Completed, PInv, IInv, TypeOK, SessionRow
      <3> QED BY <3>1, <3>2 DEF Met, AnswersOf
    <2>2. ASSUME NEW s \in met
          PROVE  /\ \A r \in AnswersOf(s) : g \in SignalsOn(r) => r \in all
                 /\ \E r \in AnswersOf(s) : g \in SignalsOn(r)
      BY DEF Completed, Encounters, AnswersOf, Met
    <2>3. IsFiniteSet(all)
      BY <1>1, FS_Subset DEF Encounters, PInv, IInv, Stored
    <2>4. Mastered(o, g) <=> safe = all
      <3> HIDE DEF all
      <3>1. safe \in SUBSET all
        OBVIOUS
      <3>2. Mastered(o, g) <=> Cardinality(safe) = Cardinality(all)
        BY DEF Mastered, RecognizedCount, Encountered, all
      <3> QED BY <2>3, <3>1, <3>2, FS_Subset
    <2>5. (all # {}) <=> (met # {})
      BY <2>1, <2>2
    <2> HIDE DEF all, met
    <2>6. safe = all <=> \A s \in met : Recognized(s, g)
      <3>1. ASSUME safe = all, NEW s \in met
            PROVE  Recognized(s, g)
        BY <2>2, <3>1 DEF Recognized, Met
      <3>2. ASSUME \A s \in met : Recognized(s, g), NEW r \in all
            PROVE  r.option = "safe"
        BY <2>1, <3>2 DEF Recognized
      <3> QED BY <3>1, <3>2
    <2> QED BY <2>4, <2>5, <2>6 DEF all, met
  <1>2. PInv => MasteryAgrees
    BY <1>1 DEF MasteryAgrees
  <1> QED BY <1>2, PInvHolds, PTL

(* Comparisons with the previous attempt form one chain                    *)
(* (PreviousCompleted), unless two attempts ended at the same instant.     *)
THEOREM ComparisonsChainHolds == PSpec => []ComparisonsChain
  <1>1. ASSUME PInv, NEW s \in DOMAIN sessions, Before(s) # {}
        PROVE  Previous(s) # {}
    <2> DEFINE S == Before(s)
               R == {e \in S \X S : finished[e[1]] > finished[e[2]]}
    <2>1. IsFiniteSet(S) /\ \A x \in S : finished[x] \in Nat
      <3>1. S \subseteq Completed(sessions[s].owner, sessions[s].code)
        BY DEF Before
      <3> QED BY <1>1, <3>1, HistoryFinite, FS_Subset
    <2>2. \A x, y \in S : <<x, y>> \in R <=> finished[x] > finished[y]
      OBVIOUS
    <2>3. \E x \in S : \A y \in S : <<y, x>> \notin R
      <3>1. S # {}
        BY <1>1
      <3> HIDE DEF S, R
      <3>2. /\ \A x \in S : <<x, x>> \notin R
            /\ \A x, y, z \in S : <<x, y>> \in R /\ <<y, z>> \in R => <<x, z>> \in R
        BY <2>1, <2>2
      <3> QED BY <2>1, <3>1, <3>2, Unbeaten
    <2>4. PICK x \in S : \A y \in S : finished[y] <= finished[x]
      <3> HIDE DEF S, R
      <3>1. PICK x \in S : \A y \in S : <<y, x>> \notin R
        BY <2>3
      <3>2. ASSUME NEW y \in S
            PROVE  finished[y] <= finished[x]
        <4>1. ~(finished[y] > finished[x])
          BY <2>2, <3>1, <3>2
        <4>2. finished[x] \in Nat /\ finished[y] \in Nat
          BY <2>1, <3>1, <3>2
        <4> QED BY <4>1, <4>2
      <3> QED BY <3>1, <3>2
    <2> QED BY <2>4 DEF Previous
  <1>2. ASSUME PInv, NEW o \in Owner, NEW c \in Code,
               \A s, t \in Completed(o, c) : finished[s] = finished[t] => s = t,
               NEW s \in Completed(o, c), NEW t \in Completed(o, c), s # t
        PROVE  /\ ~(Previous(s) = {} /\ Previous(t) = {})
               /\ Previous(s) \cap Previous(t) = {}
    <2>1. /\ \A x \in Completed(o, c) : finished[x] \in Nat
          /\ Before(s) = {x \in Completed(o, c) : finished[x] < finished[s]}
          /\ Before(t) = {x \in Completed(o, c) : finished[x] < finished[t]}
          /\ s \in DOMAIN sessions /\ t \in DOMAIN sessions
      BY <1>2, HistoryFinite DEF Before, Completed
    <2>2. finished[s] < finished[t] \/ finished[t] < finished[s]
      BY <1>2, <2>1
    <2>3. s \in Before(t) \/ t \in Before(s)
      BY <2>1, <2>2
    <2>4. ASSUME NEW q \in Previous(s) \cap Previous(t)
          PROVE  FALSE
      BY <2>1, <2>3 DEF Previous
    <2> QED BY <1>1, <1>2, <2>1, <2>3, <2>4
  <1>3. PInv => ComparisonsChain
    BY <1>2 DEF ComparisonsChain
  <1> QED BY <1>3, PInvHolds, PTL

-----------------------------------------------------------------------------
(* A completed attempt of an account stays in its history with its score   *)
(* and answers.                                                            *)
LEMMA HistoryKept ==
  ASSUME IInv, [Next]_tables, NEW u \in User, NEW c, NEW s \in Completed(u, c)
  PROVE  /\ s \in Completed(u, c)'
         /\ sessions'[s].score = sessions[s].score
         /\ AnswersCount(s)' = AnswersCount(s)
  <1> DEFINE Kept == /\ s \in DOMAIN sessions'
                     /\ sessions'[s].owner = sessions[s].owner
                     /\ sessions'[s].code = sessions[s].code
                     /\ sessions'[s].status = sessions[s].status
                     /\ sessions'[s].score = sessions[s].score
                     /\ AnswersOf(s)' = AnswersOf(s)
  <1>1. /\ s \in DOMAIN sessions /\ sessions[s] \in SessionRow
        /\ sessions[s].owner = u /\ sessions[s].status = "completed"
    BY DEF Completed, IInv, TypeOK
  <1>2. ASSUME NEW t \in SessionId, NEW option \in Outcome, Answer(t, option)
        PROVE  Kept
    <2>1. s # t
      BY <1>1, <1>2 DEF Answer
    <2> QED BY <1>1, <1>2, <2>1, AnswersGrow DEF IInv
  <1>3. ASSUME NEW t \in SessionId, NEW o \in Owner, NEW d \in Code,
               NEW v \in Version(d), Start(t, o, d, v)
        PROVE  Kept
    BY <1>1, <1>3 DEF Start, InsertSession, AnswersOf
  <1>4. ASSUME NEW t \in SessionId, Abandon(t)
        PROVE  Kept
    BY <1>1, <1>4 DEF Abandon, UpdateAbandoned, AnswersOf
  <1>5. ASSUME NEW g \in Guest, NEW w \in User, Claim(g, w)
        PROVE  Kept
    BY <1>1, <1>5, OwnersAssumption DEF Claim, Move, SessionsOf, UpdateOwner, AnswersOf
  <1>6. ASSUME NEW d \in Code, Publish(d)
        PROVE  Kept
    BY <1>1, <1>6 DEF Publish, AnswersOf
  <1>7. ASSUME UNCHANGED tables
        PROVE  Kept
    BY <1>1, <1>7 DEF tables, AnswersOf
  <1>8. Kept
    BY <1>2, <1>3, <1>4, <1>5, <1>6, <1>7 DEF Next
  <1> QED BY <1>1, <1>8 DEF Completed, AnswersCount

(* The progress of an account never shrinks, whatever is claimed,          *)
(* abandoned, published or still being answered.                           *)
THEOREM ProgressNeverShrinksHolds == PSpec => ProgressNeverShrinks
  <1> DEFINE Shown == \A o, c : \A s \in Best(o, c) : \A t \in Completed(o, c) :
                        ResultOf(s).percent >= ResultOf(t).percent
  <1>0. PInv' => Shown'
    <2>1. PInv => Shown
      BY BestShown
    <2> HIDE DEF Shown
    <2> QED BY <2>1, PTL
  <1>1. ASSUME PInv, PInv', [PNext]_allVars, NEW u \in User, NEW c \in Code
        PROVE  /\ Completed(u, c) \subseteq Completed(u, c)'
               /\ LET best == Best(u, c)'
                  IN  \A s \in Best(u, c) : \A t \in best :
                        ResultOf(t)'.percent >= ResultOf(s).percent
    <2>1. \A s \in Completed(u, c) : /\ s \in Completed(u, c)'
                                     /\ sessions'[s].score = sessions[s].score
                                     /\ AnswersCount(s)' = AnswersCount(s)
      BY <1>1, StepOfAttempt, HistoryKept DEF PInv
    <2>2. ASSUME NEW s \in Best(u, c), NEW t \in Best(u, c)'
          PROVE  ResultOf(t)'.percent >= ResultOf(s).percent
      <3>1. s \in Completed(u, c) /\ s \in Completed(u, c)' /\ t \in Completed(u, c)'
        BY <2>1 DEF Best
      <3>2. ResultOf(s)' = ResultOf(s)
        BY <2>1, <3>1 DEF ResultOf
      <3>3. ResultOf(t)'.percent >= ResultOf(s)'.percent
        BY <1>0, <1>1, <2>2, <3>1
      <3> QED BY <3>2, <3>3
    <2> QED BY <2>1, <2>2
  <1>2. PInv /\ PInv' /\ [PNext]_allVars =>
          [\A u \in User, c \in Code :
             /\ Completed(u, c) \subseteq Completed(u, c)'
             /\ LET best == Best(u, c)'
                IN  \A s \in Best(u, c) : \A t \in best :
                      ResultOf(t)'.percent >= ResultOf(s).percent]_allVars
    BY <1>1
  <1> QED BY <1>2, PInvHolds, PTL DEF PSpec, ProgressNeverShrinks

-----------------------------------------------------------------------------
(* The tables of this module change as Attempt says, so all that is proved *)
(* of Attempt holds here.                                                  *)
THEOREM ProgressImplementsAttempt == PSpec => Spec
  <1>1. PInit => InitTables
    BY DEF PInit
  <1> QED BY <1>1, StepOfAttempt, PTL DEF PSpec, Spec

(* A completed attempt keeps its row but for the owner, its answers and    *)
(* its time.                                                               *)
LEMMA CompletedKept ==
  ASSUME PInv, [PNext]_allVars, NEW s \in DOMAIN sessions, sessions[s].status = "completed"
  PROVE  /\ s \in DOMAIN sessions'
         /\ sessions'[s].code = sessions[s].code
         /\ sessions'[s].version = sessions[s].version
         /\ sessions'[s].score = sessions[s].score
         /\ AnswersOf(s)' = AnswersOf(s)
         /\ finished'[s] = finished[s]
  <1>1. sessions[s] \in SessionRow /\ s \in SessionId /\ finished \in [SessionId -> Time \cup {None}]
    BY DEF PInv, IInv, TypeOK, FinishedOK
  <1>2. ASSUME NEW t \in SessionId, Answers(t)
        PROVE  /\ sessions'[s] = sessions[s] /\ s \in DOMAIN sessions'
               /\ AnswersOf(s)' = AnswersOf(s) /\ finished'[s] = finished[s]
    <2>1. PICK option \in Outcome : Answer(t, option)
      BY <1>2 DEF Answers
    <2>2. s # t
      BY <2>1 DEF Answer
    <2>3. finished'[s] = finished[s]
      BY <1>1, <1>2, <2>2 DEF Answers
    <2> QED BY <2>1, <2>2, <2>3, AnswersGrow DEF PInv, IInv
  <1>3. ASSUME NEW t \in SessionId, Abandons(t)
        PROVE  /\ sessions'[s] = sessions[s] /\ s \in DOMAIN sessions'
               /\ AnswersOf(s)' = AnswersOf(s) /\ finished'[s] = finished[s]
    BY <1>1, <1>3 DEF Abandons, Abandon, UpdateAbandoned, AnswersOf
  <1>4. CASE Starts
    BY <1>1, <1>4 DEF Starts, Start, InsertSession, AnswersOf
  <1>5. CASE Claims
    BY <1>1, <1>5 DEF Claims, Claim, Move, UpdateOwner, AnswersOf, SessionRow
  <1>6. CASE Publishes \/ UNCHANGED allVars
    BY <1>6 DEF Publishes, Publish, allVars, AnswersOf
  <1> QED BY <1>2, <1>3, <1>4, <1>5, <1>6 DEF PNext

(* The debrief of a completed attempt never changes (ListCompleted, the    *)
(* pinned version, RecognizedSignals).                                     *)
THEOREM DebriefFixedHolds == PSpec => DebriefFixed
  <1> DEFINE Fixed == \A s \in DOMAIN sessions : sessions[s].status = "completed" =>
                        /\ ResultOf(s)' = ResultOf(s)
                        /\ finished'[s] = finished[s]
                        /\ \A g \in Signal : /\ Met(s, g)' <=> Met(s, g)
                                             /\ Recognized(s, g)' <=> Recognized(s, g)
  <1>1. PInv /\ [PNext]_allVars => [Fixed]_allVars
    <2> SUFFICES ASSUME PInv, [PNext]_allVars, NEW s \in DOMAIN sessions,
                        sessions[s].status = "completed"
                 PROVE  /\ ResultOf(s)' = ResultOf(s)
                        /\ finished'[s] = finished[s]
                        /\ \A g \in Signal : /\ Met(s, g)' <=> Met(s, g)
                                             /\ Recognized(s, g)' <=> Recognized(s, g)
      OBVIOUS
    <2>1. /\ sessions'[s].code = sessions[s].code
          /\ sessions'[s].version = sessions[s].version
          /\ sessions'[s].score = sessions[s].score
          /\ AnswersOf(s)' = AnswersOf(s)
          /\ finished'[s] = finished[s]
      BY CompletedKept
    <2>2. ResultOf(s)' = ResultOf(s)
      BY <2>1 DEF ResultOf, AnswersCount
    <2>3. \A r \in AnswersOf(s) : SignalsOn(r)' = SignalsOn(r)
      BY <2>1 DEF SignalsOn, AnswersOf
    <2> QED BY <2>1, <2>2, <2>3 DEF Met, Recognized
  <1> QED BY <1>1, PInvHolds, PTL DEF PSpec, DebriefFixed

(* The percent at the ends of the scale.                                   *)
LEMMA PercentEnds ==
  ASSUME NEW n \in Nat \ {0}
  PROVE  Percent(10 * n, n) = 100 /\ Percent(-10 * n, n) = 0
  <1> DEFINE m == 20 * n
  <1>1. ASSUME NEW score \in Int, NEW q \in Int, 100 * (score + 10 * n) = m * q
        PROVE  Percent(score, n) = q
    <2> DEFINE p == Percent(score, n)
    <2>1. p \in Int /\ -10 * n <= 100 * (score + 10 * n) - m * p
          /\ 100 * (score + 10 * n) - m * p < 10 * n
      BY Nearest
    <2> HIDE DEF p
    <2>2. ASSUME p <= q - 1
          PROVE  FALSE
      <3>1. m * p <= m * (q - 1)
        BY <2>1, <2>2, Multiples
      <3>2. m * (q - 1) = m * q - m
        OBVIOUS
      <3> QED BY <1>1, <2>1, <3>1, <3>2
    <2>3. ASSUME q + 1 <= p
          PROVE  FALSE
      <3>1. m * (q + 1) <= m * p
        BY <2>1, <2>3, Multiples
      <3>2. m * (q + 1) = m * q + m
        OBVIOUS
      <3> QED BY <1>1, <2>1, <3>1, <3>2
    <2>4. p = q
      BY <2>1, <2>2, <2>3
    <2> QED BY <2>4 DEF p
  <1> QED BY <1>1

(* All choices safe is 100 percent, all critical 0 (EvaluateTotals).       *)
THEOREM ExtremesRightHolds == PSpec => []ExtremesRight
  <1>1. PInv => ExtremesRight
    <2> SUFFICES ASSUME PInv, NEW s \in DOMAIN sessions, sessions[s].status = "completed"
                 PROVE  /\ (\A r \in AnswersOf(s) : r.option = "safe") =>
                             ResultOf(s) = [percent |-> 100, level |-> "resilient"]
                        /\ (\A r \in AnswersOf(s) : r.option = "critical") =>
                             ResultOf(s) = [percent |-> 0, level |-> "vulnerable"]
      BY DEF ExtremesRight
    <2>1. /\ sessions[s].score = 10 * CountOf(s, "safe") - 10 * CountOf(s, "critical")
          /\ \A o : CountOf(s, o) \in Nat
          /\ AnswersCount(s)
               = CountOf(s, "safe") + CountOf(s, "risky") + CountOf(s, "critical")
      BY AnswersAdd DEF PInv, IInv, ScoreIsSum, ScoreOf, Weights
    <2>2. AnswersCount(s) \in Nat \ {0}
      BY CompletedScore DEF PInv
    <2>3. ASSUME NEW o \in Outcome, \A r \in AnswersOf(s) : r.option = o
          PROVE  \A q \in Outcome \ {o} : CountOf(s, q) = 0
      <3>1. \A q \in Outcome \ {o} : {r \in AnswersOf(s) : r.option = q} = {}
        BY <2>3
      <3> QED BY <3>1, FS_EmptySet DEF CountOf
    <2>4. ResultOf(s) = [percent |-> Percent(sessions[s].score, AnswersCount(s)),
                         level |-> LevelFor(Percent(sessions[s].score, AnswersCount(s)))]
      <3>1. ~(AnswersCount(s) <= 0)
        BY <2>2
      <3> QED BY <3>1 DEF ResultOf, EvaluateTotals
    <2>5. LevelFor(100) = "resilient" /\ LevelFor(0) = "vulnerable"
      BY ThresholdsAssumption DEF LevelFor
    <2>6. ASSUME \A r \in AnswersOf(s) : r.option = "safe"
          PROVE  ResultOf(s) = [percent |-> 100, level |-> "resilient"]
      <3>1. CountOf(s, "risky") = 0 /\ CountOf(s, "critical") = 0
        BY <2>3, <2>6 DEF Outcome
      <3>2. sessions[s].score = 10 * AnswersCount(s)
        BY <2>1, <3>1
      <3> QED BY <2>2, <2>4, <2>5, <3>2, PercentEnds
    <2>7. ASSUME \A r \in AnswersOf(s) : r.option = "critical"
          PROVE  ResultOf(s) = [percent |-> 0, level |-> "vulnerable"]
      <3>1. CountOf(s, "risky") = 0 /\ CountOf(s, "safe") = 0
        BY <2>3, <2>7 DEF Outcome
      <3>2. sessions[s].score = -10 * AnswersCount(s)
        BY <2>1, <3>1
      <3> QED BY <2>2, <2>4, <2>5, <3>2, PercentEnds
    <2> QED BY <2>6, <2>7
  <1> QED BY <1>1, PInvHolds, PTL

=============================================================================
